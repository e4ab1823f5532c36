---------------------------- MODULE MatchSearch ----------------------------
(***************************************************************************)
(* How HypergraphMatcher finds the matches of one rule that involve new    *)
(* tokens: for each input in turn it tries the new tokens there, and       *)
(* completes each partial match by a recursive search, always through the  *)
(* input the atoms index has the fewest candidates for.                    *)
(*                                                                         *)
(* The recursion is a stack of frames, one for each running call of        *)
(* completeMatchesStartingWithInput, and one step is one token tried.      *)
(* Candidates come from hash tables: a frame has a set of them, and any    *)
(* may be tried next.  Errors other than the search's own are the subject  *)
(* of ParallelScan.                                                        *)
(***************************************************************************)
EXTENDS Substitution

CONSTANT
    Problems    \* the searches: inputs of the rule, tokens in the index,
                \* identifiers of the new ones, pairs that are not spacelike

SearchProblem ==
    [inputs : Seq(Seq(Int)), tokens : Seq(Seq(Nat)), newTokens : SUBSET Nat,
     apart : SUBSET SUBSET Nat]

ASSUME ProblemsAssumption ==
    \A p \in Problems :
        /\ p \in SearchProblem
        /\ p.newTokens \subseteq DOMAIN p.tokens
        /\ \A id \in DOMAIN p.tokens : {id} \notin p.apart

VARIABLES
    problem,       \* what this search was called with
    start,         \* inputs addMatchesForRule has started with
    frames,        \* the call stack, innermost first
    found,         \* completed matches, each with the input its search started at
    storedCount,   \* how often one was stored
    currentError   \* currentError, "None" or "DisconnectedInputs"

searchVars == <<problem, start, frames, found, storedCount, currentError>>

TokenIDs == DOMAIN problem.tokens
Unmatched == 0

-----------------------------------------------------------------------------
(* Choice of the next input.                                               *)

\* appearingAtoms
ExplicitAtoms(input) == {atom \in Range(input) : atom >= 0}

\* tokensContainingAtom of the atoms index
TokensContainingAtom(atom) == {id \in TokenIDs : atom \in Range(problem.tokens[id])}

\* potentialTokens: the tokens with all atoms the input has so far.
PotentialTokens(input) ==
    {id \in TokenIDs : \A atom \in ExplicitAtoms(input) : id \in TokensContainingAtom(atom)}

\* Mutation: an input is passed over while any of its atoms is a pattern.
SearchableOnlyExplicit(inputTokens, inputs) ==
    {i \in DOMAIN inputs : inputTokens[i] = Unmatched /\ \A atom \in Range(inputs[i]) : atom >= 0}

\* Inputs still to be matched that have an atom to look up.
Searchable(inputTokens, inputs) ==
    {i \in DOMAIN inputs : inputTokens[i] = Unmatched /\ ExplicitAtoms(inputs[i]) # {}}

\* nextBestInputAndTokensToTry: the first input of those with the fewest candidates.
NextBestInput(inputTokens, inputs) ==
    LET searchable == Searchable(inputTokens, inputs)
        Branching(i) == Cardinality(PotentialTokens(inputs[i]))
    IN  Min({i \in searchable : \A j \in searchable : Branching(i) <= Branching(j)})

-----------------------------------------------------------------------------
(* The search.                                                             *)

Frame(inputTokens, inputs, next, candidates) ==
    [inputTokens |-> inputTokens, inputs |-> inputs, next |-> next, candidates |-> candidates]

IsMatchComplete(inputTokens) == Unmatched \notin Range(inputTokens)

\* isSpacelikeSeparated, for rules that ask for it
IsSpacelikeSeparated(newToken, inputTokens) ==
    \A id \in Range(inputTokens) \ {newToken, Unmatched} : {id, newToken} \notin problem.apart

\* The early returns of attemptMatchTokenToInput are not taken.
CanMatch(frame, token) ==
    LET input == frame.inputs[frame.next]
    IN  /\ token \notin Range(frame.inputTokens)    \* isTokenUnused
        /\ Fits(<<input>>, <<problem.tokens[token]>>)
        /\ IsSpacelikeSeparated(token, frame.inputTokens)

SearchInit(searches) ==
    /\ problem \in searches
    /\ start = 0
    /\ frames = <<>>
    /\ found = {} /\ storedCount = 0
    /\ currentError = "None"

Init == SearchInit(Problems)

StartWith(input) ==
    /\ frames' = <<Frame([i \in DOMAIN problem.inputs |-> Unmatched], problem.inputs,
                         input, problem.newTokens)>>
    /\ start' = input
    /\ UNCHANGED <<problem, found, storedCount, currentError>>

\* Mutation: the last input is started with twice.
StartWithNextInputTooFar ==
    /\ frames = <<>> /\ start <= Len(problem.inputs)
    /\ StartWith(start + 1)

\* Mutation: new tokens are only tried for the first input.
StartWithFirstInput ==
    /\ frames = <<>> /\ start = 0 /\ problem.inputs # <<>>
    /\ start' = Len(problem.inputs)
    /\ frames' = <<Frame([i \in DOMAIN problem.inputs |-> Unmatched], problem.inputs,
                         1, problem.newTokens)>>
    /\ UNCHANGED <<problem, found, storedCount, currentError>>

\* addMatchesForRule: the new tokens are tried for the next input.
StartWithNextInput ==
    /\ frames = <<>> /\ start < Len(problem.inputs)
    /\ StartWith(start + 1)

\* The innermost call is done with its candidates, or notices an error.
Return ==
    /\ frames # <<>>
    /\ Head(frames).candidates = {} \/ currentError # "None"
    /\ frames' = Tail(frames)
    /\ UNCHANGED <<problem, start, found, storedCount, currentError>>

\* attemptMatchTokenToInput for one candidate of the innermost call.
Attempt(token) ==
    LET frame == Head(frames)
        waiting == [frame EXCEPT !.candidates = @ \ {token}]
        inputTokens == [frame.inputTokens EXCEPT ![frame.next] = token]
        inputs == Substituted(frame.inputs, <<frame.inputs[frame.next]>>,
                              <<problem.tokens[token]>>)
        next == NextBestInput(inputTokens, inputs)
    IN  /\ currentError = "None"
        /\ UNCHANGED <<problem, start>>
        /\ \/ /\ ~CanMatch(frame, token)
              /\ frames' = <<waiting>> \o Tail(frames)
              /\ UNCHANGED <<found, storedCount, currentError>>
           \/ /\ CanMatch(frame, token) /\ IsMatchComplete(inputTokens)
              /\ frames' = <<waiting>> \o Tail(frames)
              /\ found' = found \cup {[start |-> start, inputTokens |-> inputTokens]}
              /\ storedCount' = storedCount + 1
              /\ UNCHANGED currentError
           \/ /\ CanMatch(frame, token) /\ ~IsMatchComplete(inputTokens)
              /\ Searchable(inputTokens, inputs) = {}
              /\ frames' = <<waiting>> \o Tail(frames)
              /\ currentError' = "DisconnectedInputs"
              /\ UNCHANGED <<found, storedCount>>
           \/ /\ CanMatch(frame, token) /\ ~IsMatchComplete(inputTokens)
              /\ Searchable(inputTokens, inputs) # {}
              /\ frames' = <<Frame(inputTokens, inputs, next, PotentialTokens(inputs[next])),
                             waiting>> \o Tail(frames)
              /\ UNCHANGED <<found, storedCount, currentError>>

AttemptNext == frames # <<>> /\ \E token \in Head(frames).candidates : Attempt(token)

Next == StartWithNextInput \/ AttemptNext \/ Return

Spec == Init /\ [][Next]_searchVars

SearchEnded == frames = <<>> /\ start = Len(problem.inputs)

-----------------------------------------------------------------------------
(* Properties.                                                             *)

\* A frame is a partial match with its next input open; frames further out
\* have fewer inputs matched.
GoodFrame(i) ==
    /\ DOMAIN frames[i].inputTokens = DOMAIN problem.inputs
    /\ Range(frames[i].inputTokens) \subseteq TokenIDs \cup {Unmatched}
    /\ frames[i].next \in DOMAIN problem.inputs
    /\ frames[i].inputTokens[frames[i].next] = Unmatched
    /\ frames[i].candidates \subseteq TokenIDs

TypeOK ==
    /\ start \in 0..Len(problem.inputs)
    /\ \A i \in DOMAIN frames : GoodFrame(i)
    /\ storedCount \in Nat
    /\ currentError \in {"None", "DisconnectedInputs"}

\* Tuples of different tokens, at least one of them new, that fit all inputs at
\* once and are pairwise spacelike: what a search is to find.
AllMatches ==
    {tuple \in [DOMAIN problem.inputs -> TokenIDs] :
        /\ IsInjective(tuple)
        /\ Range(tuple) \cap problem.newTokens # {}
        /\ Fits(problem.inputs, [i \in DOMAIN tuple |-> problem.tokens[tuple[i]]])
        /\ \A i, j \in DOMAIN tuple : {tuple[i], tuple[j]} \notin problem.apart}

\* Whatever order candidates come in, and whichever inputs are preferred, a
\* search without error finds all matches with a new token and nothing else,
\* and stores each once for every new token in it.
SearchIsExact ==
    (SearchEnded /\ currentError = "None") =>
        /\ {match.inputTokens : match \in found} = AllMatches
        /\ storedCount = Cardinality(
             {place \in AllMatches \X DOMAIN problem.inputs :
                place[1][place[2]] \in problem.newTokens})

\* Two inputs are connected through inputs that share atoms.
SharesAtoms(i, j) == Range(problem.inputs[i]) \cap Range(problem.inputs[j]) # {}

Connected ==
    \A part \in SUBSET DOMAIN problem.inputs :
        part \notin {{}, DOMAIN problem.inputs} =>
            \E i \in part, j \in DOMAIN problem.inputs \ part : SharesAtoms(i, j)

\* The search gives up only on rules whose inputs are not connected, as the
\* comment on DisconnectedInputs has it, and has then found matches only.
ErrorOnlyIfDisconnected ==
    currentError # "None" =>
        /\ ~Connected
        /\ {match.inputTokens : match \in found} \subseteq AllMatches
=============================================================================
