# msyn: a verification project

msyn re-synthesises a mapped combinational circuit. It reads one BLIF file twice,
as a *specification* and as an *implementation*, puts every gate of the
implementation into a cluster of its own, and then merges clusters, so that few
clusters with few inputs each remain. To merge a gate (the *seed*) into other
clusters it may give the gate a new function over those clusters' inputs; a SAT
solver decides whether such a function exists. This directory holds TLA+ models
of that program, the configurations that check them with TLC and proofs that
TLAPS checks.

Paths below are relative to `src/` of the source tree; line numbers are those of
the modelled commit.

## 1. Inventory

The program is one process with one thread. The only asynchronous event is
SIGALRM, from a 10 s timer around each SAT query.

| part | files | state | operations |
|---|---|---|---|
| main | `src/main.cpp` | options, two circuits | read, `AssignOrder`, `InitCluster`, five passes, write, statistics |
| Circuit | `circuit/node.*` | `all_nodes`, fan-in and fan-out links, `all_clusters`, each cluster's nodes and cached `input_nodes`, `targets` | cones, `SetTargets`, `Restruct`, `Restore`, `Remove`, `Merge`, `append`, orders |
| NodeMerge | `circuit/nodemerge.*` | an iterator into `all_clusters`, counters | `SelectMerge`, `FaninMerge`, `QuickMerge`, `InitCand` |
| MergeSelection | `findfanin/mergeselection.*` | a SAT solver, known cases, switches `no_in0case`, `no_in1case`, `flag`, the set cover, the solution | `MakeSolver`, `Solve_c`, `removeCase`, `GetOnSet` |
| setcover_m | `setcover/setcover_m.*`, `setcover/bitop.*` | rows as one bit vector per candidate input, a mask | `AddRows`, `Select`, `SelectOnce`, `GenOr` |
| getDC | `getDC/getDC.*` | two SAT solvers, `removed_cases`, on- and off-cases | `solve`, `removeCase` |
| CNFGenerator | `CNFGenerator/*` | an ABC network, `signals` (numbers of names), clauses, caches | `Init`, `Finalize`, `GetIndex` |
| GInterface | `glucose-interface/*` | a Glucose solver: variables, clauses | `addCNF`, `setEqual`, `setNEqual`, `ifTrue_thenEQ`, `genLit` |
| BLIF lexer and writers | `parser/*`, `circuit/node.cpp` | a mode, the current node, the names of a line | read a network, `WriteBlif`, `WriteBlif_m` |
| no caller in the program | `getDC/getDCMulti.*`, `setcover/setcover.*`, `mincut/*`, `cases_to_verilog/*` | | |

How they interact. `main` runs `SelectMerge(1)`, `FaninMerge`, `SelectMerge(2)`,
`FaninMerge`, `QuickMerge`. For each cluster of one gate, `SelectMerge` collects
candidate clusters (`InitCand`), cuts the gate from its inputs (`SetTargets`) and
asks MergeSelection for at most `limit` candidates whose inputs determine the
gate. MergeSelection alternates a SAT query, which finds a minterm where the gate
must be 0 and one where it must be 1 that look alike on the inputs chosen so far,
with a greedy set cover over all such pairs. With an answer, getDC enumerates the
gate's new function, `Restruct` installs it, `Merge` joins the clusters and
`Remove` deletes what nobody reads any more; otherwise `Restore` puts the old
inputs back. `FaninMerge` and `QuickMerge` merge clusters without touching gates;
they rely on the *cached* `input_nodes` of each cluster.

What is hard, and the properties that make each part correct:

* **MergeSelection**: the order in which kinds of cases run out over several
  rounds decides when a solution counts as proved; an alarm looks like "no
  counterexample". Correct: a solution handed back separates every 0-minterm from
  every 1-minterm; no round repeats; a single sufficient cluster is not missed.
* **setcover_m**: the mask must be rebuilt when rows arrive. Correct: a selection
  covers all rows of all rounds within the limit.
* **getDC and Restruct**: a pattern not enumerated becomes 0 in the cube.
  Correct: the rewritten gate agrees with the specification wherever it matters.
* **Circuit**: links are kept twice, membership in clusters three times, and every
  operation updates the copies one by one. Correct: the copies agree, nothing used
  is removed, nothing useless is left, no combinational loop appears.
* **NodeMerge**: each pass erases from the hash set it walks. Correct: the iterator
  stays valid, limits are kept, the walk ends.
* **Lexer, writers, orders**: the lexer builds the circuit while it reads, from a
  mode and a current node that outlive the line. Correct: the circuit is the one the
  file means, what is written is read back, and readers come first in `all_nodes`.
* **CNFGenerator and GInterface**: copies of two CNFs, switches, triggers and
  auxiliary variables share one numbering by offsets. Correct: the models of a CNF
  are the valuations of its circuit, those of a solver the answers to its question,
  also after an alarm has had it rebuilt.
* **Alarm**: signal mask, jump buffers and interval timer outlive the calls they
  were set up in.

`PROJECT.json` lists every hazard with its line and the properties for it.

## 2. The modules

| module | models | state ↔ code |
|---|---|---|
| `SetCover` | `setcover_m.cpp`, cluster form | `rows`: the columns of bits, a row as its pair of valuations; `mask`; `solution_c`, `solution_inputs` |
| `MergeSelection` (extends SetCover) | `Solve_c` | `off`, `on`: what the two halves of the SAT instance range over; `in0cases`, `in1cases`, the two switches, `flag`, `first_iteration` as in the code; `pc`: query, cover, done |
| `SeparatorSearch` | what `SelectMerge` relies on from `Solve_c` | one question, one answer |
| `OnSet` | `getDC::solve` | `in1cases`, `in2cases`; `removed_cases` derived from them through the packed `Key` |
| `SeedRewrite` (extends MergeSelection, instances OnSet) | `SelectMerge` for one seed: search, `GetOnSet`, `Restruct` or `Restore` | `stage`; the seed's new inputs and cube |
| `Circuit` | `node.cpp`, `node.h`: links, clusters, cones, `Merge`, `Remove` | `all_nodes`, `inputs`, `outputs`, and one record `clusters` for the set of clusters and the members of each |
| `NodeMerge` (extends Circuit) | the three passes in main's order | the iterator `it`, what it has not come to, the rest of `inputs_pre` |
| `AlarmProtocol` | the alarm around the queries of `Solve_c` and `getDC::solve` | the timer, the signal mask, the pending signal, the handler, the two jump buffers, `res` |
| `BlifReader` | `bfparser.l`, `WriteBlif`, `WriteBlif_m` | operators: the lexer's members as a record, a file as a sequence of tokens |
| `CnfEncoding` (extends BlifReader) | CNFGenerator, GInterface | operators: `signals` and `clauses` of a CNF; a solver as its number of variables and its clauses |
| `FrontEnd` (extends CnfEncoding) | main up to the first seed, `AssignOrder`, `SortByOrder`, `MakeSolver`, both `removeCase`s, getDC's constructor and questions | `lexer`; `order`, `all_nodes`; `impl`, `spec`; `glu`, `switches`, the cases; `dc` |
| `MC_SeedRewrite`, `MC_NodeMerge`, `MC_AlarmProtocol`, `MC_FrontEnd` | instances for TLC | |
| `MergeSelection_proofs`, `GreedyCover_proofs` (extends it), `SeedRewrite_proofs` (extends the first), `NodeMerge_proofs`, `NodeMergeSteps_proofs` (extends it), `AlarmProtocol_proofs`, `FrontEnd_proofs`, `CnfEncoding_proofs` | theorems | |

One action stands for one operation or one turn of a loop:

* `SolveSat`, `SolveUnsat`, `SolveTimeout`, `LateAlarm` are the outcomes of the
  query at `mergeselection.cpp:167-182` with everything up to the next query or
  cover; `Cover` is one turn of `Select`'s loop, `CoverReturns` the test after it.
* `FindCase`, `FindSeenKey`, `AssertFails`, `NoMoreCases`, `QueryTimesOut` are the
  outcomes of one turn of `getDC::solve`.
* `RewriteSeed` is `SetTargets`, a solution, `Restruct` and the `Merge`s, which run
  without interruption; `KeepInput` and `RemoveInput` are turns of the removal
  loop; `KeepSeed` covers `Restore` and the clusters that are no seeds. A cluster
  that `Remove` erases keeps the node it lost last in `nodes_c`, where a fan-in walk
  through a removed node meets it; `LastMembers` allows every node that may be the
  last in some order of the inputs, which the model keeps as sets.
* `FaninAbsorb`/`FaninSkip` and `QuickAbsorb`/`QuickNext` are turns of the other
  passes, `EndPass` the return to main.
* `Install`, `Arm`, `SetJump`, `QueryReturns`, `Recover`, `Disarm` are the calls around a
  query in their order, `Expire` and `Deliver` the timer and the kernel. `MergeSelection`
  and `OnSet` see of all this only a query that ends without an answer.
* `LexToken` is one match of the lexer with its rule, `AssignStep` the loop body of
  `AssignOrder` for one node and `AssignAgain` the loop's head, `StartSearch` the
  constructor of MergeSelection up to the two CNFs with the assert in
  `Circuit2Abc`. `AddCopies`, `TieInputs`, `TieOutputs`, `MakeSwitches` and `AddTrigger`
  (one turn of the loop over the candidates) are the parts of `MakeSolver`, and
  `RemoveCases` the removals that follow it after an alarm (`TimeOut`);
  `FindIn0Case` and `FindIn1Case` are the two halves of an answer with their
  `removeCase`, `GetOnSet` is getDC's constructor and `FindCase` one turn of its loop.
* `Filled` is a clause of CNFGenerator, a map filled by successive writes of which a
  later one to the same signal stays.
* What C++ leaves undefined is an action that ends in `"undefined"`:
  `RestructEmpty` (element 0 of an empty vector), `LateAlarm` (an indeterminate
  `res`), `RemoveTwice` and `FaninErasesEnd` (erase of `end()`), `UseErasedIterator`, and in
  `Deliver` a jump into a call that has returned.

Abstractions.

* A **valuation** of the candidate inputs is the set of those that are 1. A SAT
  instance is the set of its models: `off` (`on`) holds the valuations of the
  candidate inputs on minterms where the seed must be 0 (1) for the implementation
  to match the specification. Which sets occur is left open, so every network is
  covered, and the solver may return any model.
* `broken` holds minterms where neither value of the seed helps, which an earlier
  wrong rewrite can leave behind; there `getDC` runs into its `assert(0)`.
* `OnSet` packs a pattern into an int of `IntBits` bits (32 in the code) as the
  shifts do: only the last `IntBits` signals of the vector remain in the key.
* `NodeMerge` does not know the logic of the gates. A seed may get any solution
  the greedy cover could return for it (distinct candidates, each adding an input,
  within `limit_in` for two or three) or none. The set of behaviours therefore
  includes those of every network with the given structure.
* The clusters sit in a hash set whose order is unspecified: the iterator moves to
  any cluster not visited yet.
* Vectors of nodes are sets: no gate of the circuits lists an input twice.
  `targets`, which `SetTargets` fills and `Restruct`/`Restore` empty within one
  action, is not kept. Functions that promise a value and return none (`InitCluster`,
  `Remove`, `Restruct`, ...) are taken to return normally, except `AssignOrder` in the run
  `missing_return`.
* A **token** is one match of a rule with what matters of its text. Covers have one
  row, or none, and rows have no dashes: the lexer and the writers copy rows
  as they are, and after ABC's rewriting every gate `Abc2CNF2` sees has one. A gate of
  more than two inputs is therefore left out of the instances.
* **ABC** is external: `Netlist` hands on the gates some output needs, inputs before
  their readers. ABC may return other gates that compute the same; the numbers of
  internal signals differ then, which no property depends on. **Glucose** is external:
  `Models` is everything a sound and complete solver may answer. The interface turns
  the simplification off that could remove variables.
* `FrontEnd` takes the first seed of the first `SelectMerge`, when every cluster is one
  gate and the implementation is still the specification; any gate with a reader may be it. What
  the search finds is any pattern of the right kind: that the solver's models are
  those is `SolverAnswersQuestion`. Its set of signals for getDC is any that separates.
* `Returns` is FALSE for a build that takes the end of `AssignOrder`, which has no
  return statement, for unreachable.
* Of the definitions with a comment that starts with "Fault variant", nothing uses
  any: each is an operation with a plausible mistake in it, kept to show that a
  property notices.

## 3. The runs

| run | instance | shows |
|---|---|---|
| `seed_rewrite` | 3 candidate inputs, 4 lists of candidates, limits 1–3, every requirement with at most 2 valuations of each kind, no alarms | the search implements `SeparatorSearch`, finds a single sufficient cluster, and the rewritten seed is right |
| `seed_rewrite_alarms` | the same with alarms and 1-bit keys, at most 3 and 1 valuations | what survives them: rows are all pairs, a selection covers, the first greedy choice covers half, known cases are separated, the cube contains only what was asked for, the search ends |
| `node_merge` | 4 circuits with 4 inputs and 6 gates, `limit_in` 3, main's five passes | links and clusters stay consistent, limits, acyclicity, termination |
| `alarm` | both users of the alarm, any number of queries and calls, rebuilds within the timer's interval and longer ones | each query is guarded by its own alarm and ends; nothing else is interrupted; without long rebuilds no alarm is late |
| `front_end` | 8 networks of at most 4 gates on 2 inputs, 4 layouts, every first seed, at most 3 cases | files are read as meant and written ones read back; orders; the CNFs are the circuit; the solvers answer what they are asked, after removals and rebuilds |
| `missing_return` | as `front_end`, `Returns` FALSE | a build may repeat `AssignOrder`'s last pass for ever |
| `found_on_alarm` | alarms | "Solution is found" is printed of clusters that do not determine the seed |
| `onset_on_alarm` | alarms | "all the other input is Don't Care" is not true after an alarm |
| `onset_narrow_int` | 1-bit keys | "Do not add if already added!" refuses patterns never added |
| `stale_alarm` | as `alarm` | an alarm of an earlier query is delivered before a query is asked |
| `remove_twice` | as `node_merge` | `Remove` is called for a node removed before |
| `erased_iterator` | as `node_merge` | the iterator `Merge` returned is erased before its use |

`seed_rewrite`, `seed_rewrite_alarms`, `node_merge`, `alarm` and `front_end` pass; the
others state what a comment or a declaration in the code says and end in a
counterexample, see section 6.

Bounds and why they are enough.

* *Three candidate inputs* are the least for which candidates overlap, are disjoint
  and are single; *two valuations of each kind* are the least for which one kind of
  case runs out while the other does not, twice in turn, which is what `flag` is
  for. Lists with no candidate, two and three make `Select` fail, exceed the limit
  and need one, two and three clusters. The alarm run has three valuations of one kind, without which
  no greedy choice can cover less than half of the rows, and needs no second one of
  the other: an alarm at any query decouples the switches from what is exhausted.
  The proofs remove the bounds for the safety properties.
* *IntBits* is 1 or 3 where the code has 32: with three inputs the former is
  narrower than a pattern and the latter is not, which is the only difference the
  properties see.
* *Six gates*: in `Collapsing` the gates `g1` and `g2` go when `g5` is rewritten, which
  erases their clusters, and `g6` may be given the removed `g1` afterwards. The other
  circuits use five gates, and `g6` is a constant output: in `Ladder` a cluster of several gates has inputs inside its own
  fan-in cone and one gate has four inputs, over the limit; `Shared` has two
  outputs and a shared first level; `Chain` has links too wide for `FaninMerge`, so that
  `QuickMerge` meets gates before and after the seed. `limit_in` is 3 instead of 6 so that merging
  meets it. All gates together allow each pass to merge, to skip and to go on.
* *The files of `front_end`*: `Wide` and `Deep` give seeds candidates beside their
  fan-out, with triggers to choose from and both kinds of cases; `TwoOutputs` has an
  output that feeds another and minterms only one of them notices; `Twice` reads one input twice and the
  other not at all, so that a signal has no clause; the rest are what the lexer or
  `Circuit2Abc` treats specially: a loop, an undriven output, an output that is an
  input, a constant called `one`, names continued behind a backslash, a constant's row
  without a blank. `MaxOrder` 6 is above every order without a loop and ends the
  passes on the loop; `MaxCases` 3 lets each kind be removed up to three times.
* *AlarmProtocol* has finitely many states: its run is exhaustive. A call is forgotten
  when it returns, except that the buffer it set is dead.
* `CHECK_DEADLOCK FALSE` everywhere: the models end where the program does.

*Fairness* is weak fairness of the whole next-state relation: one thread that is
never blocked, a complete solver (each query returns or the alarm ends it). It says
only that the program does not stop in the middle; `SearchEnds`, `SeedIsDealtWith`
and `PassesEnd` need no fairness between the alternatives. In the alarm run
`SearchEnds` holds because an alarm, too, turns a switch or sets the way to the end.
In `alarm`,
by contrast, a query has no fairness: `QueriesEnd` says that the timer ends it.
`SeedIsDealtWith` is checked with wide keys only: with narrow keys `FindSeenKey` can
repeat for ever, and `getDC::solve` would. In `front_end` only reading and ordering are
fair: `AssignOrderEnds` says nothing of the search.

Stale caches. `Remove` takes a gate out of its cluster and leaves the cluster's
`input_nodes` as they were. From then on a cluster may list an input that none of
its gates reads and that has itself been removed. A seed may then get a solution over
that cluster and read the removed node again; `FaninMerge`, which computes the inputs
of a merged cluster from the clusters its inputs point to, forgets such a node. The
properties say how far this goes:

* `CachedInputsSuffice`: a cache may list too much, but never lacks a node of the
  circuit that a gate of the cluster reads from outside;
* `InputsWithinLimit`: the limit holds of the listed inputs that are still in the
  circuit;
* `OnlyRemoveMakesStale`: while no gate reads a removed node, nothing but `Remove`
  makes an exact cache inexact;
* `SoundWhileExact`: as long as caches are exact, no step creates a combinational loop
  or a link to a removed node, and no step removes what is used;
* `SoundUntilRemoval`: before the first `Remove` the iterator points into the set, every
  merge finds what it erases, and in a circuit read without a loop the caches are exact
  and none has been closed. Every failure of the passes has a `Remove` before it.

Circuits of six and seven gates refute the first three without the words about removed
nodes, which is why `Collapsing` has the gate `g6`. `FaninErasesEnd`, where a cluster
lists a removed node whose cluster is gone, is reached only after a cache became
inexact. The model does not decide whether the logic of a real network can lead
there, and the project claims no more than the conditional properties.

## 4. What is proved

The theorems hold for every set of candidate inputs, list of candidates, limit and
requirement; for every finite circuit, limit and list of passes; for every file; and
for every solver and vector of variables. The constants carry only the assumptions
their modules declare: types and ranges, that the set of nodes is finite, that
primary inputs read nothing and are no outputs, that files end. Five theorems
(`OrdersStayBelow`, `OrderingIsBounded`, `PassesAreBounded`, `SearchIsEncoded`,
`OnSetIsEncoded`) speak of the specifications and state what no run checks: they count the
steps left, or quantify over all assignments of a solver's variables.

| theorem | says | assuming |
|---|---|---|
| `SearchInvariant` | types; the rows are all pairs of known cases; a solution tried or handed back separates them | nothing: alarms included |
| `AnswersAddRows` | every satisfiable query adds rows the cover has not seen | nothing |
| `CoversWithoutWaste` | a finished selection covers every row within the limit, without repeating a cluster | nothing |
| `FirstChoiceIsHalf` | the first greedy choice covers half of the rows whenever two candidates cover all | nothing |
| `FoundSolutionSeparates` | a solution handed back separates all 0-minterms from all 1-minterms | no alarm |
| `NoSingleSeparatorIsMissed` | when one candidate would do, one cluster is handed back | no alarm |
| `SolveImplementsSearch` | `Solve_c` implements `SeparatorSearch!SafeSpec` | no alarm |
| `RewriteIsWellTyped` | types of search, enumeration and rewriting | nothing |
| `CubeAlwaysAskedFor` | the new cube is not empty and is 1 only where some minterm asks for it | nothing: alarms and colliding keys included |
| `RewriteCorrect` | the rewritten seed is right wherever it matters; `Restruct` never meets an empty on-set | no alarm |
| `NetInvariant` | the invariant of the passes, from which the next five follow | nothing |
| `WalkIsWellTyped` | types; the walk has only clusters of the set ahead of it | nothing |
| `LinksStayMirrored` | fan-in and fan-out links mirror each other | nothing |
| `GatesStayPartitioned` | each gate is in exactly the live cluster it points to | nothing |
| `ListedInputsSuffice`, `MergesKeepToLimit` | what is cached of a cluster's inputs suffices and keeps to the limit | nothing |
| `RemovalIsThorough` | no useless gate is left between two visits | none when the circuit was read |
| `RemovalAloneMakesStale`, `RewritesAreSound` | the two properties about caches above | the premises the properties state |
| `PassesSoundUntilRemoval` | nothing goes wrong in the passes before the first `Remove` | acyclic when read, for the caches and loops |
| `PassesAreBounded` | every step of the passes takes from `StepsLeft`, a natural number | nothing |
| `ClustersKeepOrder` | `QuickMerge` and `SelectMerge(1)` close no loop of clusters | exact caches |
| `TimerNeverNests` | types of the alarm; a timer a query saves is never a running one | nothing |
| `QueriesAreGuarded`, `RestIsUninterrupted` | each query is guarded by its own alarm, nothing else is interrupted | nothing: long rebuilds included |
| `AlarmsAreTimely` | an alarm is that of the query running or just answered | no long rebuild so far |
| `LongestPath` | once `AssignOrder` has returned, a node's order is the longest way from it to a node without readers | nothing: loops, misread layouts and the missing return included |
| `ReadersFirst` | once sorted, no node comes before a gate that reads it | nothing; `std::sort` may put equals in any order |
| `OrdersStayBelow`, `OrderingIsBounded` | no order reaches the number of nodes; every step of `AssignOrder` takes from `OrderingLeft`, a natural number | no loop; for the second, a build in which the function returns |
| `FrontEndIsWellTyped` | types of the lexer, the circuit, the CNFs and the searches; a solver's literals are of its variables | nothing: misread files, alarms and rebuilds included |
| `SearchIsEncoded` | after `MakeSolver` and every case found, the search's solver asks exactly what the search is for | nothing: alarms and rebuilds included |
| `OnSetIsEncoded` | getDC's `main` asks for inputs on which the seed matters with a pattern not stored, `check` for the value there, however many questions it was asked | that `main` misses none: each output but the seed and the inputs is in a clause |
| `SignalsAreDistinct` | names met in any order, however often, get different numbers below their count | nothing |
| `GateIsEncoded` | the clauses of a gate of at most two inputs hold exactly when its output has the value of its row | a gate reads no signal twice, nor its own |
| `CopyIsEncoded` | a copy of a CNF at an offset constrains the variables from there on as the CNF its signals | signs are Booleans, numbers naturals |
| `EqualityIsEncoded`, `TriggerIsEncoded` | `setEqual` and `ifTrue_thenEQ` ask for equality, the latter when its flag is set, and for nothing else | variables are naturals |
| `DifferenceIsEncoded` | up to its auxiliary variables `setNEqual` asks for a pair that differs | variables below `nVars()` |
| `AuxiliariesAreFresh` | `setNEqual` takes one new variable per pair, all below the new `nVars()` | variables below `nVars()` |

The arguments.

*The search.* `RowsAreAllPairs` is not inductive: a round in which one kind of case
is reused adds rows for the other kind only, and "every answer adds rows" needs a
known case of the reused kind. `MergeInv` adds `SearchControl` (the switches are
never both on, none before the first answer, `flag` only between an exhausted query
and the next) and `MaskIsCovered` (the mask is what the selected inputs cover), from
which a finished selection covers all pairs. `FoundInv` adds `FlagMeaning`: when
`flag` is set, the query before has shown that the solution separates all pairs with
an unseen member of one side. Together with the last query (the other side) and the
known pairs this is every pair (`SeparatesByParts`).

*The greedy cover.* `GreedyInv` adds to `MergeInv` what `Select` keeps of its choices
(`ChoiceInv`), that the rows stay finite (`FiniteCases`: counting rows needs it) and that
no candidate covers more than the first one chosen (`FirstIsBest`). Two candidates that
cover all rows together cover at least as many by themselves as there are rows, so the
better one covers half. `OneIsEnough` follows a search with a sufficient candidate: the
first choice then covers all rows, hence no second one is made and no cover fails. The
refinement `Abstract` takes a search that is done for answered and its solution for what
was chosen; `SearchInv`, the conjunction of all these and `FlagMeaning`, says that the
step that ends the search is an answer of `SeparatorSearch`, and every other step
stutters.

*The rewrite.* `RewriteInv` says that the enumeration stores only patterns of care
minterms, and `RightInv` that when its loop ends without an alarm none is left out and,
because the solution separates, no pattern is in both lists. `RewriteCorrect` does not
assume keys wide enough: a pattern skipped because of a colliding key is not blocked in
the solver either, so the loop cannot end without it. Colliding keys cost termination,
not correctness.

*The passes.* `NetInv` joins the properties because they lean on each other: that a
merge keeps the caches sufficient needs each gate to be in one cluster, that this stays so
needs the candidates to be clusters of the set, and for that the walk along fan-out links
must meet gates of the circuit only, which is that links mirror each other. What holds
between two visits only, that no useless gate is left, becomes inductive as
`UselessArePending`: a useless gate is still to be met by the removal loop. The merges
of the three passes are instances of one relation, `MergesInto`, and what a merge keeps is
proved once for it. `Removed` is written as a least closed set rather than as the code's
recursion, which gives the proofs the two facts they need: it is closed
(`RemovedDescends`) and has the node that was asked for (`RemovedHasNode`).

*Ends.* `StepsLeft` counts the passes to come, then the clusters that are in the set and
those a pass has still to visit (`PassLeft`), then the phases of a visit. A move of the
iterator leaves less to visit because what it points to is not ahead of it
(`NoSecondVisit`); a merge that goes on at the same seed erases another cluster.
`OrderingLeft` does the same for `AssignOrder`: a pass that raises an order takes from
`Room`, the raises that are possible at all, because without a loop an order is at most
the number of gates above the node (`OrderBelowAbove`).

*Loops.* With exact caches a seed's new inputs are read by clusters outside its
fan-out cone and are therefore outside it themselves (`NewInputsPrecede`). A set of
gates that is no loop before the rewrite is none after it: inside the cone the seed
itself reads nothing of the set, outside it nothing has changed. For clusters,
`ContractionIsAcyclic` shows of any relation that putting together two nodes neither of
which leads to the other closes no loop. `QuickMerge` asks for just that. In
`SelectMerge(1)` the seed's cluster may come after the one it is put into, but only
through the inputs it has lost: without the links into the seed the lemma applies.
`SoundUntilRemoval` puts both together: while `all_nodes` is what was read, only steps
without a `Remove` have been taken, which keep caches exact and hence close no loop.

*The alarm.* `AlarmInv` adds `Armed` (from `Install` on the signal is unblocked and the
handler is the caller's; the timer runs from `Arm` to the answer) and `InTime`: as long as
rebuilds are quick, a signal sent and not yet delivered belongs to the query running or
just answered, and its handler has somewhere to jump to.

*The order.* `OrderInv` (`FrontEnd_proofs`) says of `AssignOrder` that the gates a pass has
visited are below their inputs as long as `flag` is unset (`PassInv`), and that a node
whose order is not 0 is at most one above some gate that reads it (`Justified`: orders
only grow, so a raise stays justified). The pass that ends with `flag` unset has visited
every node, so both bounds meet at `LongestPath`, and `SortByOrder` only has to
compare. That the positions of the nodes are `1 .. Len(nodes)` comes from the lexer:
`LexKeepsOK` goes through its rules.

*Types of the front end.* `FrontInv` is `OrderInv` with what holds of the seed and its CNFs
(`SeedInv`) and of the solver (`SolverInv`). Its parts are that `Linked` and `WithNode` keep
the circuit one (`LexerOK`), that a CNF of a circuit names every signal it has a clause or
an end for, below its number of variables (`CnfWellFormed`), and that each constraint
adds literals of the copies' variables only, so that `nVars` stays above all (`SolverOK`).

*The clauses.* An assignment is the set of variables it makes true. Every constraint is
shown to be equivalent to what it is named for, in both directions: a constraint that
asks for too much loses cases as silently as one that asks for too little lets wrong
ones through. For `setNEqual` one direction extends an assignment to the auxiliary
variables, which is possible because none of them occurs in the clauses so far
(`WellNumbered`, which `AuxiliariesAreFresh` shows `setNEqual` to keep).

*The solvers.* `EncodeInv` follows these meanings from one action of `MakeSolver` to the
next: for each place in it, what the assignments that satisfy the clauses are. The
auxiliary variables lie from `base` on, where `BaseOK` says that nothing asked so far
depends on a variable from `base` on and that every output is below; switches and triggers
follow (`NumbersOK`). `SolverAsksQuestion` then leaves the auxiliary variables out: an
assignment of the others is asked for exactly if it extends to a model
(`BothExtended`). `OnSetInv` does the same for getDC. A question to `check` is one
control variable more, and once that is switched off the clauses of the question hold
whatever the inputs (`AskedMeans`). In `main` the auxiliary variables are above every
output only if each output has occurred in a clause or an equality before `setNEqual`
takes the next variables; CNFGenerator writes a clause for every gate of at most two inputs, so
that `OutputsNamed` holds of each circuit the runs reach, but it is a premise here. That
what `main` finds is right needs no such premise, only that it finds everything.

Only model-checked:

* `ReadsAsMeant`, `WrittenReadsBack`, `OnlyOddFilesAbort`: what the lexer makes of a whole
  file is a fold over its tokens, and the prover cannot instantiate the induction it
  would take. The first and the last also compare a file with what it was made to mean,
  which only the files of the instance have.
* `CnfIsTheCircuit`, `SolverAnswersQuestion`, `OnSetAnswers`: they compare folds over the
  gates (`Eval`) and over the variables (`Models`). What can be said without evaluating a
  circuit is proved: `SearchIsEncoded` and `OnSetIsEncoded` for the solvers'
  clauses, `GateIsEncoded` and `SignalsAreDistinct` for one gate's and their numbers.
* Liveness (`SearchEnds`, `SeedIsDealtWith`, `PassesEnd`, `QueriesEnd`, `AssignOrderEnds`, and that
  `SeparatorSearch` answers at all), which needs ENABLED. `PassesAreBounded` and
  `OrderingIsBounded` are the safety half of two of them: only finitely many steps are left.

## 5. What is not modelled

* How the generated scanner cuts text into tokens, opening and closing of files, and
  of CNFGenerator and GInterface what no call reaches (`Abc2CNF`, `dumpcnf`,
  `writeDimacs`, `addDimacs`, `ifFalse_*`). `MergeSelection` and `OnSet` take for granted
  that a SAT model is an evaluation of the two circuits; `front_end` shows it for first
  seeds, not for a circuit that has been rewritten.
* The words, widths and counters of `bitop`: `SetCover` uses sets.
* What a jump out of the solver in the middle of an allocation does to the heap.
* `getDCMulti`, `setcover`, `mincut`, `cases_to_verilog` and the node forms of
  `setcover_m` and `InitCand` have no caller in the program.
* Options and statistics. `io_cnt` without a bounds check is a listed hazard, which
  `InputsWithinLimit` bears on. `cnt1` and `cnt2` of `main.cpp` are counted up from
  no initial value; two printed numbers are all that depends on them.
* Vendored code: ABC, Glucose, Boost.

## 6. Findings

1. `mergeselection.cpp:236` (`found_on_alarm`): an alarm leaves `res` false, which
   counts as "no counterexample", and the solution of the moment is handed back.
2. `getDC.cpp:239` (`onset_on_alarm`): the same for the enumeration; the patterns not
   yet found become 0 in the cube.
3. `getDC.cpp:168` (`onset_narrow_int`): more signals than bits in an int; a
   one-cluster solution may have any number of inputs.
4. `nodemerge.cpp:83` (`remove_twice`): the loop over the old inputs calls `Remove`
   on one that an earlier call removed by recursion; `erase(end())`.
5. `mergeselection.cpp:167` (`stale_alarm`): an alarm that came during a rebuild of more
   than 10 s is delivered when the next query unblocks it: "TIME OUT" is said of a
   query that has not been asked, or the handler jumps into a call that has returned.
6. `nodemerge.cpp:81` (`erased_iterator`): `Merge` returns the iterator, then the
   removal erases the element it points to.
7. `node.cpp:314` (`missing_return`): `AssignOrder` is declared to return an int and
   does not. Built with the Makefile's `-O3`, GCC 12 drops the test of `flag`, since
   leaving the loop would be undefined, and the program does not get past it.
   `SortByOrder`, `InitCluster`, `Remove` and `Restruct` end the same way.

## 7. Plan

Written, in this order: `SetCover`, `MergeSelection`, `SeparatorSearch`, `OnSet`,
`SeedRewrite`, `Circuit`, `NodeMerge`, `AlarmProtocol`, the proofs of the search and the
rewrite, `BlifReader`, `CnfEncoding`, `FrontEnd` and the proofs about the order of its
nodes, then the proofs about the greedy cover and the refinement, the alarm, the passes
and the clauses, the bounds on the steps of passes and orders, the types of the front
end, and what the solvers of the search and of getDC are asked.

Next module: `BitVector`, the words of `bitop`, refining the sets of `SetCover`.

Next theorem: that the clauses of a CNF are the circuit, for a netlist given as a
sequence of gates with inputs before their readers. `GateIsEncoded` is the step; an
evaluation stated as the only assignment that satisfies every gate, rather than as
the fold `Eval`, would do without the induction.
