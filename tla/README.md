# SetReplace in TLA+

SetReplace rewrites hypergraphs. A *token* (hyperedge) is a list of atoms; a
*rule* replaces input tokens by output tokens; each replacement is an *event*.
A token may be an input of several events (a multihistory), so that the tokens
and events form a causal graph and not a list of states. The core is the C++
library `libSetReplace`; the Wolfram Language code in `Kernel` drives it and
derives properties from its results. This directory holds models of the core,
the TLC runs that check them, and theorems about them proved with TLAPS.

## Inventory

| Part | State | Operations | Interacts with |
| --- | --- | --- | --- |
| causal graph, `TokenEventGraph.cpp` | events, creator of each token, destroyer count of each token, largest generation, destroyer choices of each event | `addEvent`, `tokenSeparation`, `tokenGeneration` | called by the substitution system and, for separations, by the matcher |
| match containers, `HypergraphMatcher.cpp` | sorted queue of buckets, flat table, table by token, new matches, next match | `addMatchesInvolvingTokens`, `removeMatchesInvolvingTokens`, `deleteMatch`, `nextMatch`, `allMatches` | called by the substitution system |
| match search, `HypergraphMatcher.cpp`, `AtomsIndex.cpp` | index from atoms to tokens | extend a partial match by the input with fewest candidates | reads tokens and separations through callbacks |
| event deduplication, `HypergraphMatcher.cpp` | none | isomorphism of the outputs of two matches, by a matcher of its own | runs between a scan and the insertion of its matches |
| threads of a scan, `HypergraphMatcher.cpp` | `currentError`, `terminationReason_` | share the rules, poll the caller, join, throw | share one matcher, and the thread pool with other systems |
| thread pool, `Parallelism.cpp` | threads in use | reserve and release by RAII tokens | one per process |
| substitution system, `HypergraphSubstitutionSystem.cpp` | tokens, next atom, atom degrees, destroyed tokens, unindexed tokens, step specification, termination reason | `replace`, `replaceOnce`, `maxCompleteGeneration` | owns graph, index and matcher |
| library interface, `WolframLanguageAPI.cpp`, `setSubstitutionSystem$cpp.m` | table of systems by identifier; how far one evaluation is | create, initialise, replace, read the reason, tokens, events and complete generation, release | drives the substitution system from the Wolfram Language |
| multiset and atomic-state systems, `MultisetSubstitutionSystem.m`, `AtomicStateSystem.m`, `A1$generatorSystem.m` | expressions, event lists, destroyer choices, two tables of tried matches | find a match, create an event, stop at a limit | a second implementation of multihistories, without the library |
| Wolfram Language evaluator, `setSubstitutionSystem$wl.m` | the substitution system written as pattern matching | | an alternative to the library |
| type system, `A1$typeSystem.m` | a graph of types, translations and properties | convert, take properties | the front end of the typed systems |
| evolution object, utilities, plots, packaging | | derived data and graphics | |

What is hard here, and what makes each part correct:

* **Order and staleness.** A match is found once and instantiated much later.
  Its separation, its tokens and its place in the queue must still be right
  then (`SeparationStable`, `QueueIsExact`, `ImplementsGraph`).
* **Redundant state.** The queue is kept four times, the destroyer counts,
  degrees and generations beside the history they are derived from
  (`ContainersAgree`, `DestroyersCounted`, `CausalLayers`, `CountersAgree`).
* **A fast answer for a slow definition.** Separations are looked up in
  accumulated choices in place of past causal cones
  (`SeparationAgreesWithCones`, `PairwiseSpacelikeTokensAssemble`).
* **Aborts and retries.** A scan can throw half way, with some matches stored,
  and the caller may go on with the same system (`QueueIsExact`, the run
  `stale_new_matches`).
* **Repeated calls with other limits.** The step specification decides which
  tokens are indexed; it changes between calls (`EventsWithinGenerations`,
  `CompleteMeansFixedPoint`).
* **Answers that are not looked at.** The library reports errors, aborts and
  timeouts by codes; its caller reads one number and infers the rest
  (`ResultIsTrue`, the run `refused_limits`). Everything else crosses the interface as lists of integers with
  lengths and pointers inside (`TensorsReadBack`).
* **Memory of what was tried.** `MultisetSubstitutionSystem` never looks again at
  a match it found impossible (`CompleteMeansExhausted`, `TablesAreExact`).
* **Orders that containers rely on.** `MatchComparator` must be a strict weak order,
  and a total one for `newMatches_` (`ComparatorIsStrictWeakOrder`,
  `NewMatchesAreTotallyOrdered`).
* **Threads.** The threads of a scan share an error, a termination reason and
  the pool (`SuccessIsComplete`, `ReasonIsRight`, `ScansEnd`).

Nothing is persisted and no messages are sent: there is no recovery after a
crash and no lost or duplicated message to model.

## Modules

Identifiers of tokens, events and rules are those of the code plus one.

**`TokenEventGraph`** models the causal graph. Its six variables are the
fields of `TokenEventGraph::Implementation`; `AddEvent` is `addEvent` with
every helper it calls. The caller is the environment: `CanInstantiate` is all
that the graph may assume of it (distinct inputs that are not used up; for a
`Spacelike` rule, pairwise spacelike ones, as long as separations are tracked).
The loop of `addLastEventDestroyerChoices` is written in closed form
(`InconsistentPrerequisites`, `MergedChoices`), so that it can be proved about;
`MergeIsAlwaysTheLoop` proves that this is what the loop computes.

**`CausalCones`** extends it with the separation that the documentation defines
on past causal cones and with the merge loop as the code runs it, one input at
a time. It is the reference for the closed forms.

**`MatchSet`** is what `HypergraphMatcher.hpp` promises: a set of matches, and
one of the best of them as the next one whenever a call returned without an error and there
is one. A call that adds or removes has to choose before it returns; one that fails must not, and
`deleteMatch` does not, so that until the next call the next match may be one that is gone.
**`MatchQueue`** is how `HypergraphMatcher.cpp` keeps
the promise: buckets with a vector and an index, deletion by swapping, the table by token,
`newMatches_`, deduplication, aborted scans. A public call is several steps,
one for each match it stores or deletes, and `call` and `pending` say where it
is. A match is an element of a set, its place in the queue a rank (`SortKey`), the
isomorphism test a relation (`SameOutcome`). **`MatchOrdering`** is `MatchComparator`
with its five criteria and two directions; the run computes the ranks of its
matches from it (`Rank`). `ImplementsMatchSet` is
the refinement: a flush or a removal counts as done when its loop starts, and still has to
choose. `MatchSet` has no newly found matches and no deduplication; that these lose nothing is
`NoEventLost`: a found match, or one for the same event, is in the queue or on its way to it until the
match is removed with its tokens or deleted, whatever is aborted in between. It rests on the isomorphism
test being transitive, though it is not symmetric: matches may drop each other in chains.

**`Substitution`** has lists of atoms with patterns, and how patterns are
replaced. **`MatchSearch`** is the recursive search for the matches of one rule:
`frames` is the stack of running `completeMatchesStartingWithInput` calls, and a
step tries one token for one input. Candidates are sets, as hash tables give them
in no order. **`OutcomeIsomorphism`** uses the same search as the code does to compare the
outputs of two matches, beside two definitions of what it might tell: isomorphism by a
one-to-one renaming of new atoms, which the documentation has (`IsomorphicOutcomes`), and a map of
new atoms to any atoms, which is what the search decides (`MapsOnto`).

**`HypergraphSubstitutionSystem`** composes the graph, as the instance
`Graph`, with the tokens and their atoms, the set of matches, the degrees and
the calls. `stage` divides `replaceOnce` where an abort can end it: before its
scan and after it. Matching and substitution follow
`substituteMissingAtomsIfPossible`; `RunOutOfAtoms` is the error of
`incrementNextAtom`, thrown after some atoms of an event were named and before the
event exists. A scan is described by the set of what it
finds, which `MatchSearch` justifies. The order among matches is left to `MatchQueue`: any queued match may be next.
`ImplementsGraph` says that the system keeps the graph's assumption, so that what
is shown of `TokenEventGraph` holds in it.

**`Parallelism`** holds the counter of reserved threads; **`ParallelScan`**
the threads of the scans of several systems that share it: sharing of the rules
by a stride, polling, the first error, joining, throwing. It has the steps that
`Index` and `Abort` of the composed module take at once.

**`LibraryTensors`** holds the encoders and decoders of both sides of the interface,
and **`WolframLanguageAPI`** one evaluation of `setSubstitutionSystem$cpp`, a step
for each library call, on top of the steps of `HypergraphSubstitutionSystem`: `position` is
how far it is, `entry` the system's entry in the library's table (a null pointer
until the initialisation succeeds), `result` what the evaluation returns. `caller` is chosen by
`APIInit`: a C++ program calls the system in any order, as before; the
Wolfram Language calls it as the evaluation does, with each combination of `request`.
There is one entry because systems share nothing but the thread pool, which is modelled apart.

**`MultisetSystem`** is the evaluation of `MultisetSubstitutionSystem`, and of
`AtomicStateSystem`, which hands its state and rules to it. A step is one event
together with the search for its match: `TriedBefore` is the order of the search,
`FirstEnds` the match that ends it. Its parameters are variables fixed by `Init`, so
that one run goes through all combinations. What `ReplaceList` gives for a rule
and a tuple is a constant, as patterns belong to the Wolfram Language.
`ImplementsGraph` maps it to `TokenEventGraph`: two programs in two
languages compute the same generations, destroyer choices and separations.

**`MC...`** modules give small constants. **`...Proofs`** modules hold the theorems.

Definitions commented with "Mutation" are variants with a plausible mistake;
none is used by a specification. Each property is known to fail when the variant
meant for it takes the place of the original, so no property is vacuous.

## Runs

| Run | Shows |
| --- | --- |
| `spacelike_graph` | A multihistory of `Spacelike` rules with up to two inputs, two outputs, two destroyer events per token and four events. The graph is causal and layered, counters are exact, the lookup of separations equals the cones, pairwise spacelike tokens coexist in a history, tracking is never abandoned, separations never change, and the closed form of the merge of destroyer choices is the loop of the code for every tuple of inputs, possible or not. Four events are enough for a branch, a rejoin of its sides and an event that inherits choices over two generations. |
| `match_queue` | Five matches of two rules, three of them with one input set, in two buckets of up to three matches; the isomorphism test holds one way only between the rules; matchers created with and without deduplication (`eventDeduplication` is fixed by `Init`), deduplication that can be aborted, random choice. The order is `MatchComparator`'s, by rule index, and `newMatches_` is totally ordered. The containers agree after every step and implement `MatchSet`, and no event that was found is lost. A bucket of three covers deletion from the front, middle and end. The choice of the front of a bucket (`Any`) is a special case of the random one; the theorems cover every combination. |
| `singleway` | One history, four events, two rules (one names new atoms, one has no output), three initial states, six step specifications with every kind of limit, aborts and timeouts at any scan, atoms that run out (in the third state, which has large atoms and only a C++ caller can send). A C++ caller calls in any order, `maxCompleteGeneration` included; the Wolfram Language evaluates once, wanting partial results or not, with a time constraint or not. The queue is exact at every choice; limits, counters, termination reasons and the complete generation are right; new atoms are new; what is sent over the interface is read back as it was; what the Wolfram Language returns is true of the system, and a time constraint is reported only if one was asked for and met. |
| `multiway` | Two destroyer events per token, a `Spacelike` and an `All` rule over equal tokens, so that a match and its mirror image compete and tracking is abandoned on some paths; either caller also asks for limits the library refuses for multihistories. (The Wolfram Language would give all rules one selection function.) The queue is exact, no event happens twice, and every event is one that `TokenEventGraph` allows. |
| `multiset` | Multisets of two or three numbers under rules with one, several or no results, with no inputs, any number of them, and one that fails; atomic-state systems with the same rule twice; all combinations of two or three values of each of the five limits. A complete evaluation leaves nothing possible, the tables of tried matches say what happened, and the events are those of the causal graph. |
| `match_search` | Searches for 27 lists of inputs (connected, connected by an explicit atom only, unconnected, without atoms) in 35 small hypergraphs with any of three sets of new tokens, and comparisons of all outcomes of up to two tokens over two patterns. The search is exact and counts right and fails for unconnected inputs only. As a comparison of outcomes it never fails and finds a match exactly when the first maps onto the second, so that it recognises every isomorphic pair. |
| `parallel_scan` | A system of three rules scanning twice and one of two rules, on four threads: safety of errors, reasons and reservations, and termination. |

and five runs in which TLC finds a behaviour that contradicts the repository:

| Run | Counterexample |
| --- | --- |
| `mixed_tracking` | An event whose first input descends from its second is not noticed as not spacelike: `newDestroyerChoices[inputToken]` is overwritten before the comparison (`TokenEventGraph.cpp:134`). With the inputs in the other order it is noticed. |
| `stale_new_matches` | A parallel scan is aborted and leaves a match in `newMatches_`; the retry gets no threads and ignores it; its tokens are destroyed; a later parallel scan flushes it and it is instantiated. |
| `explicit_atoms` | A rule names atoms that no initial token has; a new atom gets the same name (here without a bound on destroyer events). |
| `isomorphic_outcomes` | Outputs `{{-1, -2}}` are called isomorphic to `{{-1, -1}}`: the search maps both patterns to one atom. The event with two new atoms is dropped for the one with a single new atom. |
| `refused_limits` | `"MultiwaySpacelike"` with a limit of the final state: `stepSpecQ` (`setSubstitutionSystem.m:152`) looks for `$spacelike` but is given the name, so that the limit passes; the library refuses it, which nobody looks at; `setSubstitutionSystem$cpp.m:193` turns the reason, still `NotTerminated`, into `"TimeConstraint"`, which `TerminationReason.md:13` has for evaluations with that option only. |

In the passing runs of the composed module these causes are kept apart by
constants with names: `GenerationsOnlyGrow` (callers never lower
`maxGenerationsLocal`), a single member of `MatchStorages` (a scan and its
retry have threads at hand alike), and rules without atoms of their own. With
`GenerationsOnlyGrow = FALSE` and specifications of two and one generations
`EventsWithinGenerations` fails too: matches found under the larger limit stay in the queue. So does
`DestroyersWithinMaximum`, when the limit goes down and up again: `updateStepSpec`
(`HypergraphSubstitutionSystem.cpp:240`) indexes all tokens of the generation that was last, among them
those destroyed under the larger limit, and they are destroyed once more. That is the disagreement
`stale_new_matches` shows by another way, and has no run of its own.

### Bounds

`MaxEvents` bounds the history in every module that has one (in `MultisetSystem` it
is a limit of the code), `InputCounts` and `OutputCounts` the
arity of rules in the graph, `MaxInputs` and `MaxOutputs` in its image of a multiset system, `MaxScans` the scans in `ParallelScan`, `Matches`
the matches in `MatchQueue`, `Problems` and `Outcomes` the searches in
`MatchSearch` and `OutcomeIsomorphism`, which have no other bound. `Disabled` stands for
`stepLimitDisabled`, and `Infinity` for no limit of a multiset system; both are larger than every
count. `All` is the symbol of that name: the count of a match that may have no more events.
`LargestAtom` stands for the largest 64-bit integer. An evaluation by the Wolfram Language numbers
its atoms from 1 (`AtomsAreNumbered`), so that it would take 2^63 atoms to run out; in `singleway` the bound
is out of its reach in four events as well, and it is the state with large atoms, from a C++ caller, that
reaches it in the middle of an event. In `multiway`, where no result is checked, three events may reach it from
any caller, and in the runs that look for something else it is out of reach. `SeedBase` stands for the 2^16 of a seed's two digits. `StepSpecs` are the step
specifications that callers use. Runs of the graph, the scans and the search
stop at their bound or end, hence `CHECK_DEADLOCK FALSE` there; all other runs check deadlock.

### Fairness

Only `ParallelScan` states liveness. It assumes weak fairness of every worker's
step, of joining and of the end of the scan: threads that can run are scheduled
by the operating system, critical sections are short and no thread holds two
locks. Nothing is assumed of callers, of aborts or of time. The other
modules describe calls made by a caller who may stop at any time; their
properties are safety properties.

## Proofs

The modules below prove for all values of the constants, under the named assumptions
of the modules they extend, what the runs check for small ones. Each is one step of the
same argument, from the graph and the queue up to what a user is told.
`ArithmeticLemmas` has the facts they share: least and largest elements, bounds, sizes of
finite sets, congruence modulo a variable number, and the order in which atoms appear in lists, which the solvers cannot find by themselves.

`TokenEventGraphProofs`:

* `TypeCorrect`, `GraphIsCausal`. The inductive invariant is `GraphTyped /\
  CausalLayers`: types in a form the provers can use, and causal order, layers,
  creators and the largest generation together. The layers need the order (an
  input's creator is an earlier event, so appending changes no generation), and
  that every non-empty bounded set of naturals has a largest element is a lemma
  (`LargestElement`), because `NewEventGeneration` is a maximum.
* `DestroyerCountsCorrect`. The new event is a destroyer of exactly its inputs,
  so that the cardinality of each set of destroyers grows by one or not at all;
  the bound comes from `CanInstantiate`.
* `SpacelikeTrackingKept`. If every two inputs are spacelike, no input is
  required to be destroyed by another and no two inherited requirements clash;
  the merge of all of them cannot fail. The one case pairs do not cover,
  an input required destroyed by its own creator's past, is excluded by the
  invariant that an event's choices are of tokens older than the event.
* `SeparationIsConeSeparation`, `SpacelikePairsAssemble`, when all rules are `Spacelike` so
  that separations are known for all tokens. `ConeInvariant` says that the choices of an
  event are what its past cone destroys and by which event. The cone of the documentation is a
  recursive function; that there is exactly one (`ConeDetermined`), and that it is not changed by
  later events, is proved by a least-element argument over events, the one form of induction
  the provers can follow here.
* `MergeIsAlwaysTheLoop`. The loop over inputs is a recursive function, which exists
  (`MergeExists`); `MergedSoFar` is its loop invariant after `n` inputs, one iteration keeps
  it (`MergeOneMore`), and so it holds after all of them (`LoopMergesAll`). Every iteration
  assigns the input's own destroyer before it compares; a comparison that this hides would have to be
  with the new event, and no choice of an input's creator is an event that is still to come (`GraphTyped`).
* `SeparationIsStable`. Entries of `destroyerChoices_` are only appended and
  creators never change, so the lookups of two existing tokens read the same data.

`MatchQueueProofs`:

* `QueueTypeCorrect`, `ContainersAlwaysAgree`. The invariant
  `MatchQueueInvariant` adds to the checked one that a running deletion loop only
  has queued matches left. Lemmas about one bucket (`GrownBucketGood`,
  `ShrunkBucketGood`) carry the argument: after the swap the index is again
  inverse to the vector.
* `QueueImplementsMatchSet`. `StepRefines` shows every step to be a step of
  `MatchSet` or a stutter under the mapping in `MatchQueue`; a choice from the first
  bucket is a best match because the buckets hold all matches by rank (`ChoiceIsBest`), and
  it is made whenever there is a match because then some bucket is the first (`FirstBucketExists`).
* `NoEventIsLost`. Of the matches for one event that a deduplication looks at, the first in the
  order of `newMatches_` is kept, and by transitivity whatever was dropped is for the same event as one that
  is kept; if it is cut short, all matches from some place on are kept besides (`KeptForTheSameEvent`). Every
  other step moves matches on or is one of the two that are excepted (`NoStepLosesEvent`).
* `ComparatorIsStrictWeakOrder`. Every criterion compares a key of the match (a list
  or a number) with a total order, so that two matches are compared by the first
  criterion that tells them apart; that there is a first one, that a sorted list of
  tokens exists and that two lists differ at a first place are each a
  least-element argument (`LeastOf`).
* `NewMatchesAreTotallyOrdered`. Two matches that no criterion of
  `NewMatchesOrderingSpec` tells apart have equal lists of tokens and equal rules.

`MatchSearchProofs`, for every rule, tokens, new tokens and pairs of tokens that are not
spacelike:

* `SearchFindsExactly`, `SearchTypeCorrect`. A match of the definition is a tuple of distinct
  tokens; the search builds it input by input, choosing the next input by the atoms it shares
  with those before. `SearchInvariant` says where each match is: found already, or in the part
  that the start loop or exactly one of the running calls has left to do (`NothingLost`,
  `NothingTwice`). The calls on the stack are each inside the choice their caller is at
  (`StackSound`), so that a step moves a match from a call to its callee or rules it out. That
  a choice rules out nothing else rests on two facts: a token that fits an input has all the atoms
  the partial match has filled in, so that it is a candidate by its atoms (`InputsFollow`);
  and a match with several new tokens is found from the first of its inputs with one.
* `ErrorsAreDisconnected`. A call that has no input with a candidate atom left has matched a
  set of inputs that shares no atom with the rest (`StuckIsDisconnected`).
* `ComparisonAlwaysExact`. To the inputs made of one outcome an atom is added that connects
  them, so that the search never fails. Its matches are then those of the definition, and these are just the
  arrangements of the second outcome that the first maps onto (`MatchIsMapping`): the names given to the patterns
  of the second are new and tell them apart (`PatternsNamed`, `NamedAtPlaces`), so that a match can be read back as a map.
  A renaming is such a map (`RenamingMaps`). That maps compose (`MapsCompose`) is what
  `MatchQueue` assumes of `SameOutcome`.

`ParallelScanProofs`:

* `ScanTypeCorrect`, `SuccessAlwaysComplete`, `ScansAlwaysStartClean`,
  `ReasonsAlwaysRight`, `FirstErrorAlwaysKept`. `ScanInvariant` says where workers can
  be: worker `i` of `k` is only ever at rules congruent to `i` modulo `k`, or past
  the last (`WorkersPlaced`); as long as there is no error, a token was tried
  once if the worker its rule is assigned to has passed it, and not at all if not (`TriedOnce`);
  a termination reason was the case, and whoever wrote it is about to fail
  (`ReasonsRight`). `NextRuleRight` shows that the rules a worker passes over have
  no tokens, `CongruentOnce` that no other worker tries the same token, and
  `CongruentExists` that each rule has a worker, so that after a scan without errors
  all was tried. A step disturbs one system only (`OthersStayGood`).
* `PoolAlwaysConserved`. The counter of the pool is the number of the threads that scans
  hold, counted as a set of pairs of a system and a number; a reservation and a release add and
  remove the pairs of one system.

`HypergraphSystemProofs`, of the composed system. Its theorems assume `SteadyUse`: callers
never lower `maxGenerationsLocal`, a scan and its retry have threads at hand alike, and
`maxDestroyerEvents` is not zero. The first two are needed: what happens without them is told under
`stale_new_matches` and after it. With a maximum of zero `replace`
returns at once, and the public `replaceOnce` would destroy tokens all the same.

* `SystemStaysSound`, `SystemImplementsGraph`. A match is found once and may be
  instantiated many events later. `SystemSound` says that it is still a match then
  (`MatchGood`): its tokens exist, are not used up, and are below the limit of
  generations, since exhausted tokens take their matches with them and limits only
  rise; for a `Spacelike` rule they are still spacelike, since an event does not change the
  separations of tokens that exist (`GraphGrows`). What keeps indexing from bringing a token
  back is that a token waiting for a higher limit has never been used (`TokensGood`).
* `DestroyersStayWithinMaximum`, `GenerationsStayWithinLimit` follow from the same invariant.

* `EventsNeverRepeat`. A match enters the queue when the last of its tokens is scanned, and a
  token waiting for its scan has not been used. An instantiated match has used all
  of its tokens, so that no scan finds it again, not even one that repeats an aborted scan.
* `QueueAlwaysExact`. The search is complete, for rules with inputs
  (`RulesHaveInputs`, which the matcher requires) and as long as separations are tracked or
  not asked for (`SeparationsKnown`; after tracking is abandoned, new matches of
  `Spacelike` rules are refused while older ones stay). `MatchesFound` is the inductive statement: every match among
  tokens that were indexed and are not waiting is in the queue, in `newMatches_`,
  or an event. `AllTokensSeen` adds that every usable token is indexed or waiting.
* `MaxCompleteGenerationAlwaysRight`, `CompleteIsFixedPoint`. A possible match that is not
  in the queue has a token of the last generation allowed, so that it cannot change
  the minimum, and there is none when the last generation is below the limit.

The second half of `HypergraphSystemProofs` is of the atoms and of the limits of the final
state. To `SteadyUse` its theorems add `RulesNameKnownAtoms`: atoms that rules name, rather than match, are atoms of the
initial state or at most the first that is given a name, since nothing else keeps them from
being named again; `explicit_atoms` is what happens otherwise.

* `NamedAtomsAreNew`. `AtomsSound` says that every atom of a token or a rule is counted by
  `nextAtom_`, and that what a match filled in is still what its tokens have. The patterns left in
  the outputs are numbered in the order they appear in, which is a strict order
  (`AppearanceTransitive`, `AppearanceTotal`), so that different ones get different numbers, and all
  of the next ones (`NamesAreNext`, by the sizes of sets of earlier patterns).
* `CountersAlwaysAgree`. An event replaces its inputs among the live tokens by its outputs
  (`EventReplacesTokens`), so that the tokens with an atom change by those of the inputs and of the
  outputs (`DegreeAfterEvent`), which is what `updateAtomDegrees` adds up; an entry is erased just
  when no token has the atom any more.
* `FinalLimitsHold`. The limits are compared before the new atoms have names, with patterns
  in their place. Names keep different atoms apart, so that degrees are the same
  (`NamedDegrees`, `PatternDegrees`), and the atoms afterwards are as many as those before
  without the deleted and with the created ones (`AtomsCounted`), though the code never lists them.
* `TypeCorrect` puts the invariants together. That `destroyedTokenCount_` stays between zero
  and the number of tokens, and that no degree is ever zero, rest on the counters being right.

`LibraryInterfaceProofs` takes the theorems to the callers.

* `InterfaceImplementsSystem`. Both callers take steps of the system only, so that
  the theorems above hold in `WolframLanguageAPI`, which the runs check.
* `ResultAlwaysTrue`, for calls the library accepts (`CallAccepted`; `refused_limits` is what happens
  otherwise) and evaluations that do not run out of atoms (`AtomsLeft`), in each of which a reason that
  stays `NotTerminated` would be reported as a time constraint. `EvaluationSound` follows the evaluation: it replaces once and starts without events,
  so the limits in force are those requested; each way `replace` can return gives a reason
  that is true of the state it leaves (`ReturnIsTrue`), and the two translations of the reason, to a
  number and to a name, are inverse to each other up to the names (`ReasonNames`).
* `TensorsAlwaysReadBack`. Lists of any length are flattened by a recursive function. That such
  functions exist and what they are at each place are inductions over a place in the list
  (`FlatteningExists`, `StartsExist`, `ReadExists`), done with sets and their least elements
  (`CountingUp`). `FlattenedLists` says where each element of each list ends up; the
  reader, which looks at lengths or at pointers, finds the lists there (`HypergraphRead`, `RuleRead`,
  `SliceBack`), and a list that is cut short has the start of its last element beyond its end
  (`PrefixHeld`). Of the system it takes that tokens, events and limits have their types and that
  the initial event alone has no rule (`RulesRecorded`).

`MultisetSystemProofs`, for all systems and all rules. Patterns are constants of the model, so
the theorems assume of rules what the code takes from the Wolfram Language: there is a set
`Contents` of expressions closed under them, each instantiation of which is a list
(`RulesGiveLists`), and a rule matches no more and no fewer inputs than `inputCountRange`
finds (`RulesKnowTheirInputs`). Rules that fail are allowed.

* `TablesAlwaysExact`. The induction needs more than the tables: that expressions are created
  and counted as destroyed by the events there are (`SystemTyped`, `DestroyersCounted`) and that stored
  matches are spacelike (`StoredAreSpacelike`), as `createInstantiationsIfPossible` does not look at
  them again. Together they are `MultisetSound`. Contents, creators and destroyer
  choices of expressions that exist never change (`OldKeysKept`), so that what was
  impossible stays so and a result is the same when it is asked for again; the next result of
  a match is the one after those that were used (`NextResult`).
* `CompleteIsExhausted`. A tuple the parameters admit and a rule can match has a number of inputs
  in the narrowed range (`TriedCounts`), so that it was tried, and what was tried and not found is
  impossible or used up (`NothingFound`). What is remembered as impossible on the way to an
  event was tried and is no end of the search: no two keys, compared by sets and lists of any
  size, are each tried before the other (`TriedOneByOne`).
* `MultisetImplementsGraph`, with bounds on the events as the graph has them
  (`EventsBounded`). `createEvent` lets the choices of later inputs overwrite those of earlier
  ones and never looks for contradictions, while libSetReplace merges them one by one and
  abandons tracking at a contradiction. Spacelike inputs agree wherever two of them have
  a choice (`InputsAgree`), and none of them is destroyed by what another depends on, so
  that both merges give the same (`ChoicesMerge`). That an event does not depend on itself rests on
  `ChoicesArePast`: what it depends on was created before.

Only model-checked: the liveness of `ParallelScan`, which TLAPS cannot prove under fairness.

## Not modelled

* The order in which a scan finds matches; in the composed module a scan is the set of
  what it finds, and at an abort any subset of it may have been stored, which is
  more than an actual order allows.
* Deduplication inside the composed module (`MatchQueue` has it).
* Rules with unconnected or no inputs in the composed module.
* Random numbers: a random choice is any choice.
* In the library interface: the lists that `getData` refuses other than by length, since
  its only caller never sends them; an initialisation that fails is a null entry (`ReplaceCrashes`),
  but no property forbids it, as it takes a lack of memory. A maximum of zero destroyer
  events, which `replace` treats apart, reaches `replaceOnce` only from C++ and is not run.
* In the multiset systems: how patterns match, the ranges of input counts computed from
  patterns (`InputCountRange` is a constant), and the checks of generators' arguments.
* The checks of arguments in `setSubstitutionSystem.m`, except that limits of the final state are
  let through for multihistories (`refused_limits`).
* The Wolfram Language evaluator, which leaves matching to pattern replacement of whole
  states; the type system, a fixed graph over which paths are searched once per session;
  derived properties, plots and packaging, which keep no state.

## Plan

Done, in this order: `TokenEventGraph`, `CausalCones`, `MatchSet`,
`MatchQueue`, `HypergraphSubstitutionSystem`, `Parallelism`, `ParallelScan`,
`MatchSearch`, `OutcomeIsomorphism`; the proofs about the graph and the queue;
`LibraryTensors`, `WolframLanguageAPI`, `MultisetSystem`, `MatchOrdering`; the proofs
about the order of matches, the threads of a scan, the composed system, its incremental
search and its library interface; the proofs about causal cones, the match search, the
comparison of outcomes, the thread pool, the atoms, counters and final limits of the
substitution system, the multiset systems, and the tensors of the library interface.

1. The order in which `insertNewMatches` adds the matches of a parallel scan, against
   the order of a sequential one that its comment promises.
2. `TypeGraph`: paths of translations in `A1$typeSystem.m`.
