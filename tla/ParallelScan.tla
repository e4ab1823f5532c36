---------------------------- MODULE ParallelScan ----------------------------
(***************************************************************************)
(* The threads of HypergraphMatcher::addMatchesInvolvingTokens, called by  *)
(* HypergraphSubstitutionSystem::replace, in several systems that share    *)
(* the pool of threads.                                                    *)
(*                                                                         *)
(* Worker i of n scans the rules i, i + n, i + 2n, ...  Before every token *)
(* it checks whether another worker failed, twice, and polls the caller;   *)
(* the model has the second check only.  Then it stores a match or fails.  *)
(* The first failure is kept in currentError and stops the others; it is   *)
(* thrown once all workers are joined.  The poll writes                    *)
(* terminationReason_, which no lock protects.                             *)
(*                                                                         *)
(* What the workers find is the subject of other modules: here a rule has  *)
(* a number of tokens to try, and each attempt yields at most one match.   *)
(***************************************************************************)
EXTENDS Parallelism, FiniteSets, Sequences

CONSTANTS
    Attempts,      \* for each system, how many tokens each rule has to try
    Disconnected,  \* the rules with inputs that are not connected
    MaxScans       \* for each system, a bound on its scans

Systems == Owners

\* rules_.size()
RuleCount(s) == Len(Attempts[s])

ASSUME ScanAssumption ==
    /\ Attempts \in [Systems -> Seq(Nat)]
    /\ MaxScans \in [Systems -> Nat]

VARIABLES
    phase,              \* "idle", "scan" until all workers are joined, "joined"
    workers,            \* the workers of each scan
    currentError,       \* currentError
    terminationReason,  \* terminationReason_
    abortRequested,     \* what the caller's shouldAbort returns
    timedOut,           \* the time constraint has passed
    tried,              \* how often each attempt was made in this scan
    outcome,            \* how the last scan ended
    scans               \* scans so far

scanVars == <<phase, workers, currentError, terminationReason, abortRequested,
              timedOut, tried, outcome, scans>>
vars == <<poolVars, scanVars>>

WorkerIDs(s) == DOMAIN workers[s]
IsDone(s, i) == workers[s][i].rule > RuleCount(s)

\* numThreadsToUse, or the step of the single-threaded loop
Stride(s) == Cardinality(WorkerIDs(s))

\* Mutation: every worker goes on with the next rule.
NextRuleOfAll(s, rule, stride) ==
    Min({RuleCount(s) + 1} \cup {r \in DOMAIN Attempts[s] : r > rule /\ Attempts[s][r] > 0})

\* The rule a worker turns to after this one, if there is any.
NextRule(s, rule, stride) ==
    Min({RuleCount(s) + 1} \cup {r \in DOMAIN Attempts[s] :
            r > rule /\ (r - rule) % stride = 0 /\ Attempts[s][r] > 0})

\* A worker that has made some attempts for a rule and goes on.
WorkerAt(s, rule, attempts, stride) ==
    IF rule <= RuleCount(s) /\ attempts < Attempts[s][rule]
    THEN [rule |-> rule, attempt |-> attempts + 1, at |-> "poll"]
    ELSE [rule |-> NextRule(s, rule, stride), attempt |-> 1, at |-> "poll"]

NoneTried(s) == [r \in DOMAIN Attempts[s] |-> [n \in 1..Attempts[s][r] |-> 0]]

-----------------------------------------------------------------------------
Init ==
    /\ PoolInit
    /\ phase = [s \in Systems |-> "idle"]
    /\ workers = [s \in Systems |-> [i \in {} |-> 0]]
    /\ currentError = [s \in Systems |-> "None"]
    /\ terminationReason = [s \in Systems |-> "NotTerminated"]
    /\ abortRequested = [s \in Systems |-> FALSE]
    /\ timedOut = [s \in Systems |-> FALSE]
    /\ tried = [s \in Systems |-> NoneTried(s)]
    /\ outcome = [s \in Systems |-> "None"]
    /\ scans = [s \in Systems |-> 0]

\* A scan starts.  An abort or timeout that an earlier scan of the same replace
\* has missed is the same as one right after the start.
StartScan(s) ==
    /\ phase[s] = "idle" /\ scans[s] < MaxScans[s]
    /\ Acquire(s, RuleCount(s))
    /\ LET count == IF held'[s] = 0 THEN 1 ELSE held'[s]
       IN  workers' = [workers EXCEPT ![s] =
             [i \in 1..count |-> WorkerAt(s, i, 0, count)]]
    /\ phase' = [phase EXCEPT ![s] = "scan"]
    /\ terminationReason' = [terminationReason EXCEPT ![s] = "NotTerminated"]
    /\ tried' = [tried EXCEPT ![s] = NoneTried(s)]
    /\ outcome' = [outcome EXCEPT ![s] = "None"]
    /\ scans' = [scans EXCEPT ![s] = @ + 1]
    /\ abortRequested' = [abortRequested EXCEPT ![s] = FALSE]
    /\ timedOut' = [timedOut EXCEPT ![s] = FALSE]
    /\ UNCHANGED currentError

\* Mutation: the poll does not say why it stops the scan.
PollWithoutReason(s, i) ==
    /\ ~IsDone(s, i) /\ workers[s][i].at = "poll"
    /\ workers' = [workers EXCEPT ![s][i].at =
         IF currentError[s] # "None" \/ abortRequested[s] \/ timedOut[s] THEN "fail" ELSE "try"]
    /\ UNCHANGED <<poolVars, phase, currentError, terminationReason, abortRequested,
                   timedOut, tried, outcome, scans>>

\* Mutation: a worker that sees an error waits for it to go away.
PollWaiting(s, i) ==
    /\ ~IsDone(s, i) /\ workers[s][i].at = "poll"
    /\ currentError[s] = "None" /\ ~abortRequested[s] /\ ~timedOut[s]
    /\ workers' = [workers EXCEPT ![s][i].at = "try"]
    /\ UNCHANGED <<poolVars, phase, currentError, terminationReason, abortRequested,
                   timedOut, tried, outcome, scans>>

\* Before a token is tried: an error of another worker makes this one give up the
\* tokens of its rule; otherwise the caller is polled, and then the time.
Poll(s, i) ==
    LET worker == workers[s][i]
    IN  /\ ~IsDone(s, i) /\ worker.at = "poll"
        /\ \/ /\ currentError[s] # "None"
              /\ workers' = [workers EXCEPT ![s][i] =
                    WorkerAt(s, worker.rule, Attempts[s][worker.rule], Stride(s))]
              /\ UNCHANGED terminationReason
           \/ /\ currentError[s] = "None" /\ (abortRequested[s] \/ timedOut[s])
              /\ workers' = [workers EXCEPT ![s][i].at = "fail"]
              /\ terminationReason' = [terminationReason EXCEPT ![s] =
                    IF abortRequested[s] THEN "Aborted" ELSE "TimeConstrained"]
           \/ /\ currentError[s] = "None" /\ ~abortRequested[s] /\ ~timedOut[s]
              /\ workers' = [workers EXCEPT ![s][i].at = "try"]
              /\ UNCHANGED terminationReason
        /\ UNCHANGED <<poolVars, phase, currentError, abortRequested, timedOut, tried,
                       outcome, scans>>

\* Mutation: the reason is recorded in place of the error.
SetErrorToReason(s, error) ==
    currentError' = [currentError EXCEPT ![s] = IF @ = "None" THEN terminationReason[s] ELSE @]

\* Mutation: a later error replaces the first.
SetCurrentErrorAlways(s, error) == currentError' = [currentError EXCEPT ![s] = error]

SetCurrentErrorIfNone(s, error) ==
    currentError' = [currentError EXCEPT ![s] = IF @ = "None" THEN error ELSE @]

\* The worker records that the scan is aborted.
Fail(s, i) ==
    LET worker == workers[s][i]
    IN  /\ worker.at = "fail"
        /\ SetCurrentErrorIfNone(s, "Aborted")
        /\ workers' = [workers EXCEPT ![s][i] =
              WorkerAt(s, worker.rule, worker.attempt, Stride(s))]
        /\ UNCHANGED <<poolVars, phase, terminationReason, abortRequested, timedOut, tried,
                       outcome, scans>>

\* The worker tries the token.  A rule whose inputs are not connected fails when
\* the token fits and no next input can be chosen.
Try(s, i) ==
    LET worker == workers[s][i]
    IN  /\ worker.at = "try"
        /\ workers' = [workers EXCEPT ![s][i] =
              WorkerAt(s, worker.rule, worker.attempt, Stride(s))]
        /\ tried' = [tried EXCEPT ![s][worker.rule][worker.attempt] = @ + 1]
        /\ \/ UNCHANGED currentError
           \/ worker.rule \in Disconnected /\ SetCurrentErrorIfNone(s, "DisconnectedInputs")
        /\ UNCHANGED <<poolVars, phase, terminationReason, abortRequested, timedOut,
                       outcome, scans>>

\* All threads are joined and the reservation ends.
Join(s) ==
    /\ phase[s] = "scan" /\ \A i \in WorkerIDs(s) : IsDone(s, i)
    /\ phase' = [phase EXCEPT ![s] = "joined"]
    /\ Release(s)
    /\ UNCHANGED <<workers, currentError, terminationReason, abortRequested, timedOut,
                   tried, outcome, scans>>

\* Mutation: the error is thrown and not reset.
ThrowWithoutReset(s) ==
    /\ phase[s] = "joined"
    /\ outcome' = [outcome EXCEPT ![s] = IF currentError[s] = "None" THEN "Found"
                                         ELSE currentError[s]]
    /\ phase' = [phase EXCEPT ![s] = "idle"]
    /\ UNCHANGED <<poolVars, workers, currentError, terminationReason, abortRequested,
                   timedOut, tried, scans>>

\* Mutation: the error is reset before it is looked at.
ResetBeforeThrow(s) ==
    /\ phase[s] = "joined"
    /\ outcome' = [outcome EXCEPT ![s] = "Found"]
    /\ currentError' = [currentError EXCEPT ![s] = "None"]
    /\ phase' = [phase EXCEPT ![s] = "idle"]
    /\ UNCHANGED <<poolVars, workers, terminationReason, abortRequested, timedOut, tried,
                   scans>>

\* The error of the scan is thrown and reset, or there was none.
EndScan(s) ==
    /\ phase[s] = "joined"
    /\ outcome' = [outcome EXCEPT ![s] = IF currentError[s] = "None" THEN "Found"
                                         ELSE currentError[s]]
    /\ currentError' = [currentError EXCEPT ![s] = "None"]
    /\ phase' = [phase EXCEPT ![s] = "idle"]
    /\ UNCHANGED <<poolVars, workers, terminationReason, abortRequested, timedOut, tried,
                   scans>>

\* The caller requests an abort, or the time runs out, during a call.
Interrupt(s) ==
    /\ phase[s] # "idle"
    /\ \/ abortRequested' = [abortRequested EXCEPT ![s] = TRUE] /\ UNCHANGED timedOut
       \/ timedOut' = [timedOut EXCEPT ![s] = TRUE] /\ UNCHANGED abortRequested
    /\ UNCHANGED <<poolVars, phase, workers, currentError, terminationReason, tried,
                   outcome, scans>>

Work(s, i) ==
    Poll(s, i) \/ Fail(s, i) \/ Try(s, i)

Next ==
    \E s \in Systems :
        \/ StartScan(s)
        \/ \E i \in WorkerIDs(s) : Work(s, i)
        \/ Join(s)
        \/ EndScan(s)
        \/ Interrupt(s)

\* Threads that can run are scheduled, and the calling thread goes on.
Fairness ==
    \A s \in Systems :
        /\ \A i \in 1..RuleCount(s) : WF_vars(i \in WorkerIDs(s) /\ Work(s, i))
        /\ WF_vars(Join(s))
        /\ WF_vars(EndScan(s))

Spec == Init /\ [][Next]_vars /\ Fairness

-----------------------------------------------------------------------------
(* Properties.                                                             *)

Worker(s) == [rule : 1..(RuleCount(s) + 1), attempt : Nat \ {0}, at : {"poll", "fail", "try"}]
Errors == {"None", "Aborted", "DisconnectedInputs"}

\* Every variable has its type.
TypeOK ==
    /\ phase \in [Systems -> {"idle", "scan", "joined"}]
    /\ \A s \in Systems : \A i \in WorkerIDs(s) : workers[s][i] \in Worker(s)
    /\ currentError \in [Systems -> Errors]
    /\ terminationReason \in [Systems -> {"NotTerminated", "Aborted", "TimeConstrained"}]
    /\ abortRequested \in [Systems -> BOOLEAN] /\ timedOut \in [Systems -> BOOLEAN]
    /\ outcome \in [Systems -> Errors \cup {"Found"}]
    /\ \A s \in Systems : \A r \in DOMAIN Attempts[s] : tried[s][r] \in Seq(Nat)

\* A scan that succeeds has tried every token for every rule exactly once,
\* however the rules were shared among threads and however other systems
\* competed for the threads.
SuccessIsComplete ==
    \A s \in Systems : outcome[s] = "Found" =>
        \A r \in DOMAIN Attempts[s] : \A n \in 1..Attempts[s][r] : tried[s][r][n] = 1

\* The error of one scan is never met by the next one.
ScansStartClean ==
    \A s \in Systems : phase[s] = "idle" => currentError[s] = "None"

\* A scan that was aborted has a termination reason that was the case, although
\* several threads may write it; one that succeeded has none.
ReasonIsRight ==
    \A s \in Systems :
        /\ outcome[s] = "Found" => terminationReason[s] = "NotTerminated"
        /\ outcome[s] = "Aborted" =>
             \/ terminationReason[s] = "Aborted" /\ abortRequested[s]
             \/ terminationReason[s] = "TimeConstrained" /\ timedOut[s]

\* The first error of a scan is the one that is thrown.
FirstErrorKept ==
    [][\A s \in Systems :
         currentError[s] # "None" =>
            \/ currentError'[s] = currentError[s]
            \/ currentError'[s] = "None" /\ outcome'[s] = currentError[s]]_vars

\* Every scan returns to its caller and gives its threads back.
ScansEnd == \A s \in Systems : phase[s] = "scan" ~> (phase[s] = "idle" /\ held[s] = 0)

\* Some worker has a token before it that it has not polled the caller for.
TokensLeft(s) ==
    \E i \in WorkerIDs(s) :
        ~IsDone(s, i) /\ workers[s][i].at = "poll"

\* An abort requested while tokens are left to try is not lost: the scan throws.
AbortsAreNoticed ==
    \A s \in Systems :
        (phase[s] = "scan" /\ abortRequested[s] /\ TokensLeft(s)) ~>
            outcome[s] \in {"Aborted", "DisconnectedInputs"}
=============================================================================
