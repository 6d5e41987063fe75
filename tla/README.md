# A TLA+ model of the graph-harness engine

This directory holds the specifications kept beside `engine/`, the Go program that executes a plan
(a directed acyclic graph of nodes run by language models or tools). It says what the engine's parts
do, which properties make them correct, what TLC checks on small instances and what TLAPS proves for
every instance. Paths below are relative to the repository's root; `engine/...` line numbers are
those of the modelled commit. `PROJECT.json` maps every definition to its lines.

## The system

| Component | State it keeps | Operations | Talks to |
|---|---|---|---|
| Event loop, `engine/scheduler/scheduler.go` | per node: state, recovery counters, cancel function, output; `inFlight`, `seq`, `rounds`, `maxReady` | `Run`: dispatch, receive an event, skip losers, promote, drain, finalize | starts one goroutine per dispatched node; receives their events over an unbuffered channel; appends to the log; asks the policy |
| Worker goroutine and token bucket, `dispatch` and `engine/scheduler/bucket.go` | tokens in a channel, a ticker, a done channel | take, drip, stop; Execute; offer the event | executor, loop |
| Recovery policy, `engine/recovery` | budgets; the counters live in the loop | `Classify`, `Decide` | called by the loop |
| Plan, `engine/plan` | immutable | `BasicValidate`, JSON | everybody |
| Structural validator, `engine/validate` | local | `Check`, `TopoOrder`, `buildAdjacency` | called by `Run` and the CLI |
| Write-ahead log, `engine/wal` | a JSONL file, a handle, a mutex; or a slice | `NewFileLog`, `Append`, `Replay`, `Close` | called by the loop's `transition` |
| Executors, `engine/node` | none (LLM, tool); recorded calls and failure counts, without a lock (mock) | `Execute` | provider, contract |
| Providers, `engine/provider` | none; a process group (CLI) | `Complete` | HTTP API, CLI subprocess |
| Contract, `engine/contract` | none | `Validate` | called by the LLM executor |
| Command line, `engine/cmd/sgh` | none that lasts | `run`, `runCmd`, `buildExecutor` | decodes, validates twice, builds an executor, calls `Run`, exits |
| `spike/`, `eval/`, `experiments/`, `showcase/`, `writeup/` | none | | |

What is hard in it: results arrive in any order and after the node they belong to was skipped;
several races settle in one turn and depend on each other through the order of a loop; a destructive
node must be alone although losers are still running; the context may end between a worker's result
and its send; a loser's worker outlives the run that skipped it; retries mix two kinds of failure; a
crash cuts the log in the middle of a turn or of a line; timeouts run while a worker waits for a
token.

What makes each component correct:

- **Event loop.** Joins are honoured and stay honoured; destructive nodes run alone; only unneeded
  candidates are skipped; the worker count is exact and bounded; terminal states are final; a run
  ends, a stall has a cause, a success means every exit ran; nothing runs on untold after a return.
- **Recovery.** Bounded work whatever the failures; no rung skipped before a node is given up.
- **Log.** The entries rebuild the run, also when the log is cut; replay is ordered; a torn line
  costs nothing that was acknowledged, nor does anything else but a record too long to be read.
- **Validator and command line.** Check ends, orders exactly the acyclic graphs, and accepts exactly
  what the loop relies on; exactly the files of such plans are run.
- **Contract.** The verdict follows the rules whatever the order of the checks; the report is
  complete and does not depend on Go's map order.
- **Worker.** No call to a model without a token; neither waiting nor the end of a context is held
  against the node; a node with a timeout always reports; nothing is left behind once the caller is
  gone.
- **Loop and workers together.** Each keeps the side of their agreement that the other takes for
  granted.

## The modules

| Module | Models | Notes |
|---|---|---|
| `Plan` | `plan/types.go`, the acceptance test | nodes are their indices in `Plan.Nodes`; edges stay a sequence, since loops follow it and repeats are legal |
| `Recovery` | `recovery.go`, the counters of `applyResult` | pure operators |
| `Scheduler` | `Run`, `applyResult`, `stillNeeded`, `drainAndFinalize`, `finalize` | one action is one turn of the loop |
| `SchedulerInv` | the inductive invariant | used by TLC and by the proofs |
| `SchedulerProofs` | theorems about `Scheduler` | TLAPS |
| `SchedulerLoops` | `skipLosers`, `promotePending`, `schedule` statement by statement | recursive functions along the edge list and the plan order; proved to be `Scheduler`'s closed forms |
| `SchedulerTrace` | `transition`'s appends, `rounds`, `maxReady` | composes `Scheduler` with its log; has the invariant `TInv` |
| `TraceProofs` | theorems about `SchedulerTrace` and `SchedulerLoops` | TLAPS |
| `Enumeration` | a set in an order, a list filtered in its order | without recursion, so that proofs can use them |
| `EnumerationProofs` | lemmas about these, and about loops as recursive functions | TLAPS |
| `GraphRun` | what the engine promises of a plan | abstract: nodes settled one at a time, no workers, events or retries |
| `Dispatches` | what the loop and the workers owe each other | abstract: slots, who was told to stop, who may give up |
| `SchedulerImplements` | the refinement mappings from `Scheduler` to both | `ImplementsGraphRun`, `LoopKeepsItsSide` |
| `RefinementProofs` | the proofs of both | TLAPS |
| `MemLog` | `MemLog`: the abstract log | what every `Log` promises |
| `FileLog` | `FileLog` under faults | is a `MemLog` until something is written after a torn line |
| `FileLogProofs` | theorems about `FileLog` | TLAPS |
| `Validate` | `TopoOrder`, `reachabilityProblems`, `Check` | one action per iteration |
| `Admission` | `run`, `runCmd`, `buildExecutor`, `BasicValidate`, `buildAdjacency`, `Run`'s two validations | composes `Validate` with the command; files name their nodes as they like |
| `ValidateProofs` | theorems about `Validate` and `Admission` | TLAPS |
| `Worker` | the worker goroutine, the bucket, `LLMExecutor` over the Gemini API and over the Claude CLI, `ToolExecutor`, `isTransient` | what `Scheduler` calls `Finish`, step by step; implements its side of `Dispatches` |
| `WorkerProofs` | theorems about `Worker` | TLAPS |
| `Contract` | `contract.Validate`, `isEmptySchema`, `jsonType`, `sortedKeys` | one action per early return or loop iteration; documents are the types of their top-level values |
| `ContractProofs` | theorems about `Contract` | TLAPS |
| `MockExecutor` | `MockExecutor.Execute` by several workers | an append to a slice is a load and a store |
| `PlanShapes`, `MCScheduler`, `MCRaces`, `MCFileLog`, `MCValidate`, `MCWorker`, `MCContract`, `MCMockExecutor` | instances for TLC | |

### How `Scheduler` corresponds to the code

`state`, `attempt` and `inFlight` are the variables of the same name. `worker[n]` is the goroutine
of n's current dispatch: executing, holding a result at its `select`, or gone because it took
`<-ctx.Done()`. A node never has two workers, because only a received event makes it ready again.
`inputs[n]` is what `inputsFor` gave that worker, by predecessor. `cancelled` are the workers whose
own context the loop cancelled; `ctxDone` is the caller's context.

A turn (`ReceiveLate`, `ReceiveSuccess`, `ReceiveFailure`) is everything `Run` does between two
blocking receives: `applyResult`, `skipLosers`, `promotePending`, `schedule` and the test at the
head of the loop. The loop's goroutine is the only one that touches this state and never blocks in
between, so nothing can interleave. What does interleave with turns is `Finish` (Execute returns
with any result), `Drop` (the worker's `select` takes the other branch), `CtxEnd`, and the drain.
Both branches of the loop's own `select` are open when both are ready, so turns go on after
`ctxDone`.

`skipLosers` skips while it iterates, and a skip can change the verdict on a later candidate. The
model says which iterations skip through a set `V` that is its own justification (`IsSkipPass`);
`promotePending` and `schedule` are closed forms too, because proofs need them. `SchedulerLoops`
writes the same loops as recursive functions along the edge list and the plan order, one value for
what each iteration leaves, and `TurnsAreTheLoops` says of every reachable state that the set `V`
exists, is unique and gives the same states. TLC checks it, and `TraceProofs` proves it.

The loop's second call of `schedule` (line 339) does nothing: `schedule` has just run on the same
state. `LoopHead` says so. Dispatch's `failed_retryable` is entered and left in one handler and is
visible in `SchedulerTrace` only. `waiting_human` and `blocked` are never entered by the code.

### How the other modules correspond to the code

`Worker` has one value of `phase` for each place a goroutine can be parked: the bucket's `take`, a
call under way, the pause before the second post, the `select`. `ended` are the workers whose own
context has ended, for any of the three reasons (a timeout, the loop, the caller); only the first
two leave the caller's context alive, and only the caller's opens the second branch of the `select`.
`Backend` says what a worker's executor calls: a post that may be followed by a second one after a
429, a process that is killed with its group, or a registered tool, which the executor calls under
whatever context it is given. What a backend answers is a choice of the environment, as far as the
code tells the answers apart. `Unstartable` is what fails before anything leaves: a process that
cannot be started, a URL that does not parse. Such a failure is structural under a live context, so
an escalation does not imply a call.

`Admission` begins at the arguments of the command and ends at its exit status. A file's nodes have
names of the file's own, possibly repeated or empty, and its edges are between names; `Lookup` and
`Indexed` are the maps that `buildAdjacency` builds, after which the other modules speak of indices
only. `Check` itself is `Validate`'s steps, taken under `Checking`. A run is what it returns, since
`Scheduler` has the rest. `Run` validates again what the command has validated; `RunBegins` says
that it finds the same. `Admissible` is `WellFormed` with a candidate of an `any_of` that is listed
twice counted as two, which is what `Check` does; the run `LoneCandidate` shows the difference.

`FileLog` has a mutex because the code has one: a client appends a line in several writes, between
which the process may die or the system refuse. `tear` is history: whether a line was cut, and
whether something was written after it. `Replay` reads the file by the places of its pieces: where a
line starts and ends, which of the lines that end there parse (`Parsed`), whether one that is not
the last does not (`Corrupt`), whether one is too long for the `Scanner` (`TooLong`), and the
entries of the run in the order of their `Seq`. `Size` gives the bytes of a record's parts and
`MaxLine` the limit, 16 MiB in the code; `Append` has none. `Replay`'s argument `served` is whether
the system lets the file be opened and read to its end. With `Refusing` FALSE a line is cut by a
crash only.

`Contract` tells `{}` and `null` from the same with blanks inside or behind (`padded`), because
`isEmptySchema` trims in front only. `Satisfies` is the comment of `Validate`, and `Departs` names
the two cases in which the code does otherwise.

The order of `SchedulerTrace`'s entries within a turn, `Contract`'s sorted keys, and the entries
that `Replay` picks and sorts are stated with `Enumeration`'s operators. `MCContract` and
`MCFileLog` hold assumptions that TLC evaluates before their runs: on small inputs these are what
the standard library's recursive `SelectSeq`, the community modules' `SetToSortSeq`, a scan line by
line and an insertion sort give.

## The runs

| Run | Instance | Shows |
|---|---|---|
| `SchedulerAll` | every plan of 3 nodes (every edge set, every choice of `any_of` and destructive nodes, as far as accepted), width 2, one retry, a context that may end | `TypeOK`, `JoinsHonoured`, `DestructiveRunsAlone`, `StallHasCause`, and under fairness `RunReturns`, `ReadyIsServed` |
| `SchedulerCancel` | 7 plans of 4 nodes chosen for their races, width 2, one patch, a context that may end | `WorkersCounted`, `NoOrphanWork`, `SkipJustified`, `SuccessReachesExits`, `TurnsAreTheLoops`, `IInv`, `LogRebuildsRun`, `EveryCutIsCoherent`, `WorkIsBounded`, `FailedOnlyAfterExhaustion`, `TerminalAbsorbing`, `ImplementsGraphRun`, and under fairness `DrainEndsUnlessDropped` |
| `LogFaults` | 2 goroutines (symmetric), 2 runs, 3 appends, 3 opens, refused writes and crashes, the entries of one run and `Seq` too long to be read back | `TypeOK`, `FirstTearLosesNothing`, `ReplayIsInOrder`, `AtMostTheLastIsLost`, `ImplementsMemLog` |
| `ValidateGraphs` | plan files of all 4096 graphs of 4 nodes, plain and with an `any_of` and a destructive node, of the graphs of at most 3 edges with one edge repeated, with any four names, with any two edges between names, and with one field amiss | `TypeOK`, `OrderIsLeast`, `KahnDecides`, `WalksAreClosures`, `AcceptsExactly`, `RunsExactlyAdmissible`, and under fairness `CheckEnds` |
| `Throttle` | 3 dispatches, one of each backend, a bucket of 2, a timeout on the Gemini node, a contract on that node, 1 tick | `TypeOK`, `CallsAreThrottled`, `FirstBurstDoesNotWait`, `EscalationIsEarned`, and under fairness `TimedWorkersReport`, `StrayWorkersLeave` |
| `Contract` | every output over 2 keys, every schema over them with at most 3 required entries | `TypeOK`, `VerdictIsTheRules`, `ReportIsStable` |
| `DrainHang`, `RetryBudget`, `LogLoss`, `LoneCandidate`, `RateLimit`, `MockRecord` | small instances of the above | each finds one statement of the repository violated, see below |

Every property of a passing run has a mutant in its module: a definition with a plausible bug
(marked `Mutant:`) under which TLC finds the property violated.

**Bounds.** Three nodes are enough for a race with a joiner, a chain and a diamond's half, and all
plans of that size are checked; the fourth node is needed when two races share a candidate, when a
candidate feeds another one, or when a destructive node stands beside a race, and those shapes are
listed in `MCRaces`. An input missing because a predecessor was skipped would need such a fourth
node too, so there `IInv`, and `JoinsAreHonoured` for every plan, say what `JoinsHonoured` says on
three. Width 2 makes the bound bind with three ready nodes. One retry in `SchedulerAll` and one
patch in `SchedulerCancel` are enough for a node to be run again, for a late event to belong to a
node run again and for its ladder to end; failures that alternate between the two rungs need both,
and `RunsAreBounded` proves the bound for any budgets. In `FileLog` a line is three pieces (`head`,
`tail`, newline): a line can be cut inside the record, or between the record and its newline, and
these are the cases `Replay` tells apart. Three appends are needed to bury a torn line under a good
one, three opens to tear a log twice. In `LogFaults` the two parts of a record are of one byte each,
or of two for the largest `Seq` of one run, and `MaxLine` is 4: a long record does not fit, nor does
its head with a record glued to it, while short pieces glued together do; in `LogLoss` every record
is short. Four nodes give cycles of every length a walk could get lost in, a diamond and two
separate components; the names `0 .. 4`, 0 for the empty one, give every way the names of four nodes
can be missing or coincide. Three dispatches over a bucket of two make the third wait; one of each
backend is enough because workers meet only in the bucket, the loop's count and the contexts. The
contract is on the Gemini node and the CLI's has none, so that a killed process can be told from an
answer that breaks a contract. Two keys are needed to report them in the wrong order, and required
lists of three repeat one. `MaxAppends`, `MaxOpens`, `MaxSeq` and `MaxTicks` bound counters that the
code does not bound; `MaxPieces` and `MaxEntries` bound the files and lists over which `MCFileLog`'s
assumptions compare the two ways of reading (five pieces are a whole line and most of a second one;
four entries repeat a `Seq` between others).

**Deadlock** is checked where the system cannot stop: `Worker` and `Admission` have a step for having
returned, `Contract` for being done. It is not checked in `Scheduler`'s runs, whose context may end,
after which the drain really does stop for ever (`DrainHang`; before that `RunReturns` would notice),
nor in the log's runs, which stop when their bounds are spent.

**Fairness.** `Scheduler` assumes weak fairness of the loop's steps taken together (its goroutine is
runnable whenever an event or the context is there) and of each `Finish`. The latter says that
Execute returns. `Worker` justifies it for model nodes with a timeout: `TimedWorkersReport` assumes
only that runnable goroutines run (weak fairness of each `Advance`) and that timers expire, and
nothing of the provider. `StrayWorkersLeave` needs no timeout: the end of the caller's context frees
a worker wherever it is. A tool is left out of both, because `ToolExecutor` leaves it to the tool to
look at its context. A node without a timeout (`TimeoutMS` 0) has no such guarantee
(`http.DefaultClient` has none either), so for it the assumption is about the provider. No fairness
is assumed for either branch of a `select`, for the caller's context or for the ticker. `Check` is
one goroutine that never blocks, so `Admission` assumes weak fairness of `Checking` alone.

## What the runs found

- **`DrainHang`**: `drainAndFinalize` waits for `inFlight` events, and a worker whose Execute
  returned after the context ended may drop its event (`scheduler.go:253-256`, `470`). `Run` then
  hangs, with the CLI's `--timeout` too. `DrainEndsUnlessDropped` shows that nothing else can hold
  the drain up.
- **`LogLoss`**: a process dies inside a write; the next one reopens the log with the torn last
  line, and the entry it appends is glued to it. That entry was acknowledged and is lost, or
  `Replay` fails for good. `AtMostTheLastIsLost` and `FirstTearLosesNothing` say how far the damage
  goes.
- **`LoneCandidate`**: `Check` asks for two predecessors of an `any_of` node and counts edges
  (`validate.go:170`), so one predecessor listed twice is run with nothing to race. `AcceptsExactly`
  and `RunsExactlyAdmissible` show that this is the only gap.
- **`RetryBudget`**: `Node.RetryBudget` is documented as the bound of the node's retries and as
  overriding the policy's, and is never consulted.
- **`RateLimit`**: a persistent 429 is reported as a structural failure when its body is an error
  object without one of the markers, or not JSON, though the executor promises that rate limits are
  transient.
- **`MockRecord`**: `MockExecutor` appends to `Calls` without a lock. `sgh` uses it for parallel
  runs by default (`cmd/sgh/main.go:155`), and two appends at once keep one call, although the field
  "records every" call. Two calls in its map at once may stop the process (`CountFailure`).

Smaller differences seen while modelling, which no run stands for: the lifecycle in the comment of
`NodeState` (`types.go:55-58`), said to be enforced by another package, is not the engine's: a
retried node becomes `ready` without being `pending`, and pending, ready and running nodes are
skipped. The package comment says that `Run` goes on until every node is terminal, while a stall
returns with pending nodes (`scheduler.go:333-336`; `StallHasCause` says when). `MaxReady` counts
ready nodes when they are observed, so it can be below the number of nodes that run at once. A
`local_retry` may follow a `local_patch` when failures alternate. The comment on `IsTerminalSuccess`
has the two joins the wrong way round: `depsSatisfied` requires `executed` for `any_of` and accepts
`skipped` for `all_of` (`JoinsHonoured` shows that it never matters). The drain records `cancelled`
also for a worker that reports success. The output `null` passes a contract without required keys,
because `json.Unmarshal` makes an empty map of it, although the comment of `contract.Validate` asks
for an object (`contract.go:41-43`). The schema `{}` with blanks inside or behind it is not
recognised as empty, so it demands a JSON object, although an empty contract is said to accept any
input (`contract.go:39-40`, `117-119`; the test of a padded schema, `contract_test.go:109-114`,
tries an object only). `VerdictIsTheRules` leaves out just these two cases. `Append` takes an entry
of any length, while `Replay`'s `Scanner` fails on a line of 16 MiB (`wal.go:97`): one such entry,
acknowledged, makes every later `Replay` of the file an error. The plan-level contract, which the
package comment says gates overall success, is never read.

## The proofs

`SchedulerProofs` proves, for every number of nodes, every set of plans, every width, all recovery
budgets and with cancellation, that `IInv` is inductive (`InitImpliesIInv`, `NextKeepsIInv`,
`Invariance`), and from it the run-checked invariants `TypeOK`, `JoinsHonoured`,
`DestructiveRunsAlone`, `WorkersCounted`, `SkipJustified`, `FailedOnlyAfterExhaustion`,
`NoOrphanWork`, `StallHasCause`, `SuccessReachesExits`, and the action property `TerminalAbsorbing`.
Assumptions: at least one node; plans of the right type (the initial states take only accepted
ones); integer options and budgets.

None of these is inductive by itself. What `IInv` adds, and why:

- a pending node's join is not satisfied (`Promoted`): without it a stall could leave a runnable
  node behind. Promotion after each turn restores it, since the states only move forward;
- which workers may live in which node state (`Staffed`, `LosersTold`): a live worker belongs to a
  running node or to a skipped one that was told, which is what makes late events harmless and gives
  `NoOrphanWork`;
- justification of skips through both kinds of joiner (`Justified`). This is the centre of the
  argument: an `all_of` node accepts a skipped predecessor, yet no such node ever runs, because a
  candidate feeding a live `all_of` node is needed, hence not skipped, and one feeding a skipped
  node is harmless. The lemmas about a skip pass are proved for any pass `V` that is its own
  justification, with an argument on the last iteration before the one in question;
- destructive nodes are never candidates, so they are never skipped while they run; together with
  the exact count, `inFlight = 0` then means that nobody else lives;
- a rank argument (`RankBound`) for the width: among the nodes dispatched in plan order at most
  `Width - inFlight` have so few before them.

`RefinementProofs` proves that `Scheduler` implements `GraphRun`, step by step inside `IInv`: a
success is one `Complete` that spares the losers (`SuccessIsComplete`), a failure is a `Fail`, an
`End` or a stutter, the drain gives up only nodes that could be running, and when `Run` returns no
open node could still be settled. The step that is not a matter of names is the last one: `Promoted`
and `Joined` say that what the loop calls an unsatisfied join (where an `all_of` accepts skipped
predecessors) is one that completed predecessors do not meet either.

The loop and the workers are modelled apart, each with the other left open: `Worker` lets `Run`
dispatch, receive, tell and return whenever its guards allow, `Scheduler` lets a worker answer
anything at any time. `Dispatches` says what both rely on, and both are proved to implement it:
`LoopRefines` (in `RefinementProofs`) and `WorkersRefine` (in `WorkerProofs`). So the guards of
`Worker!Dispatch` and `Worker!Stop`, which `WInv` needs, are what `Run` does (the counter is exact,
and workers left behind have been told), and `Scheduler!Finish` and `Scheduler!Drop` are what a
worker does. Besides `IInv` the proof needs that only live workers are on the list of those told
(`ToldAreBusy`): a node that is run again starts with a live context. Liveness is not composed in
this way: `TimedWorkersReport` justifies `WF(Finish)` informally.

`WorkerProofs` proves `WInv` inductive and from it `TypeOK`, `CallsAreThrottled`,
`FirstBurstDoesNotWait` and the action property `EscalationIsEarned`, for any finite set of
dispatches, any backend of each, any burst and any number of ticks. The strengthening says which
phase allows how many calls, that only workers whose context has ended pass the bucket without a
token, and that tokens taken and left lie between the burst and the burst plus the ticks. A worker
that fails structurally and has no token would have a context that has ended, under which only the
contract gate, after an answer, gives a structural result.

`TraceProofs` proves the properties of `SchedulerTrace`, for every number of nodes and every set of
plans, inside `IInv` (a traced run is a run of `Scheduler`: `TraceIsRun`). `TInv` has three parts:

- the log leads from the unstarted plan to the current node states, each entry starting where the
  ones before it left its node, and every prefix of it leaves a coherent state (`Leads`). A turn
  writes several entries, so the proof is about what a turn's list may be cut to: the winner without
  its losers, some of the losers, some of the promotions, some of the dispatches. For
  promotions and dispatches every subset of the moves, hence every prefix, is shown to be coherent
  (`ScanLeads`); for losers the order matters, since each must be unneeded when it is skipped
  (`SkipsLead`). Lists that lead, lead when one follows the other (`LeadsOn`);
- a node's `running` entries are paid for by its retries and patches and by its first run
  (`DispatchesPaid`), and each round by a dispatch, those in flight still to come (`RoundsPaid`).
  `WorkIsBounded` follows with `IInv`'s bounds on the counters.

`LogRebuilds` and `CutsAreCoherent` are then conjuncts of `TInv`, and `RunsAreBounded` is
arithmetic.

The same module proves `LoopsAreTheTurns`. A loop is a recursive function over the places it visits;
that there is one, and that each of its values is its body's at the one before, is proved once
(`LoopRuns` and `EveryIteration`, in `EnumerationProofs`, by the least place where it would fail).
`promotePending` and `schedule` then have a closed form after each iteration: what has been passed
is promoted, or dispatched in plan order while there is room and no destructive node has gone. For
`skipLosers` the loop itself gives the pass: `V` is the set of visits at which the state before
allows the skip, and since a skip is never undone, the states a visit sees are those that `V` says
(existence). Two passes that differ would differ first at some visit, before which they agree, so
that both judge it alike (uniqueness).

`EnumerationProofs` proves what `InOrder` gives: every member once, in the order (`Enumerates`). A
member's rank is the number of members below it; ranks increase with the order and are therefore a
bijection to the places.

`ContractProofs` proves `TypeOK`, `VerdictIsTheRules` and `ReportIsStable` for any number of keys
and any sets of contracts and outputs. Its invariant `CInv` says, for each loop, that the report is
empty exactly when the part of the rules visited so far is kept; the order of the visits is not used
there, only that each loop leaves no key out. `RInv` adds the order: a loop over sorted keys has
passed the least ones, and the report is the breaches of the earlier rules followed by those among
the keys passed, in their order. So each iteration appends at the end (`PickAppend`), whatever
order Go's map had.

`ValidateProofs` proves every safety property of `ValidateGraphs`, for every number of nodes and
every set of files: `TypeOK`, `OrderIsLeast`, `KahnDecides`, `WalksAreClosures`, `AcceptsExactly`
and `RunsExactlyAdmissible`. Its invariant `AInv` says:

- a node's indegree counter is the number of edges into it from nodes not yet ordered, each
  repetition counted, and the queue holds exactly the unordered nodes without such an edge
  (`Counted`). So the counters are never negative, and what is ordered is closed under predecessors;
- every set of nodes that has been ordered in part has an ordered member without predecessors in the
  set, and every set of ordered nodes has a member without successors in it (`HasEnds`). This is
  what takes the place of an induction over the order: if all nodes are ordered it is `Acyclic`, and
  it gives every node a path from an entry and to an exit, so that the reachability checks add
  nothing to acyclicity. If the queue runs empty before that, every node left has a predecessor
  among those left, so the graph is not `Acyclic`;
- a walk has marked no more than every closed set contains, and all neighbours of what it has marked
  but for those of the nodes on its stack (`Marked`), so what it has marked at the end is the least
  closed set;
- what `Check` reports is a function of the above.

For `RunsExactlyAdmissible`, names and nodes correspond one to one once `BasicValidate` has passed.
The order found places the nodes, and through them the names; conversely, in a set of nodes the one
whose name is placed first has no predecessor in the set, which is `Acyclic` (the least member of a
set of numbers is the one use of well-founded induction).

`FileLogProofs` proves `TypeOK`, and `AcknowledgedLinesAreWhole`: until a write is torn, the file is
the lines of the acknowledged entries, in the order of their acknowledgement, followed by exactly
what the mutex's holder has written of its own. The mutex enters as the fact that only its holder
has pieces left to write.

What `Replay` gives must hold of torn files too. `PInv` (`PieceInvariance`) says of any file: a
tail or newline stands directly behind the piece written before it, since a process that dies never
comes back to its line (`Chained`); entries are in the file, and were acknowledged, in the order in
which they were begun (`InBegunOrder`); a newline in the file is an acknowledgement
(`NewlinesAcknowledge`); only the last line can lack its newline until something is written behind
one that was torn (`TornAtTheEnd`); and the holder of the mutex is writing the newest entry
(`HolderWritesNewest`). From it:

- `FirstTearIsHarmless` (`FirstTearLosesNothing`): in a file torn only at its end, every line that
  ends in a newline is one record, and the last one part of a record, so that no line is too long
  when no record is; `Replay` then succeeds and gives exactly the acknowledged entries, and perhaps
  the one whose newline is missing;
- `OnlyTheLastIsLost` (`AtMostTheLastIsLost`): however often the log was torn and reopened, an
  acknowledged entry that is not replayed stands on a line that a torn entry began, which makes
  `Replay` fail unless that line is the last;
- `ReplaySortsStably` (`ReplayIsInOrder`): by `Seq`, and entries of one `Seq` in the file's order;
- `FileLogIsMemLog` (`ImplementsMemLog`): until something is written behind a torn line, each step
  appends one entry to what `Replay` reads, or none. The step that appends is the one that writes
  the record's tail, not the acknowledgement.

Only model-checked: liveness (`RunReturns`, `ReadyIsServed`, `DrainEndsUnlessDropped`,
`TimedWorkersReport`, `StrayWorkersLeave`, `CheckEnds`) and anything about ENABLED, which are out of
TLAPS's reach. Every safety invariant and action property of the passing runs is stated by a
theorem. That `Enumeration`'s and `FileLog`'s closed forms are the recursive operators of the
libraries is compared by TLC on small inputs only: proofs cannot reach a RECURSIVE definition. In
the loops of `SchedulerLoops`, which are recursive functions, the equality is proved.

## Not modelled, and why

- JSON encoding, prompts, timestamps, token counts, printing: no property here depends on them.
- How JSON is parsed: `Contract` takes an output as what `Unmarshal` makes of it, `Admission` a
  file. `Worker` leaves the verdict of `contract.Validate` to the environment.
- The Claude CLI's arguments, its scrubbed environment and its throwaway directory; Gemini's request
  and the defaults of its model and URL (but for a URL that does not parse): they decide what is
  asked, not what happens to the answer. Process groups and signals are the operating system's;
  `Worker` takes from them that a killed group ends the call.
- `MockProvider`, a test double of one package's tests; its `Calls` has the unguarded append of
  `MockExecutor`'s.
- Real time: a ticker may tick at any moment, or never; a timeout may expire at any moment.
- A drain that records `cancelled` for finished work (`scheduler.go:477`), and a tool called under
  an ended context (`node.go:309`): deliberate in the code, and a property of either would restate
  it.
- The spike (`spike/main.go`, by its own comment a throwaway probe of three backends that preceded
  the engine; it shares no code with it), the evaluation scripts, the figures and the paper.

## Plan

Done, in this order: `Plan`, `Recovery`, `Scheduler` with its invariant and proofs;
`SchedulerLoops`; `SchedulerTrace`; `MemLog` and `FileLog`; `Validate`; `Worker` and its proofs;
`Contract` and its proofs; `GraphRun` and its refinement; the CLI's and the tools' workers;
`Admission`; `MockExecutor`; the proofs of `Validate`, `Admission` and `FileLog`; `Dispatches` and
its two refinements; the proofs of `SchedulerTrace`, `SchedulerLoops`, the contract's report and the
file log's replay.

Left:

1. Composition of `SchedulerTrace` with a log that refuses writes (`transition` drops `Append`'s
   error): which holes a recovery would meet. Nothing in the code reads the log back into a run yet,
   so there is no promise to check beyond `FileLog`'s, whose clients already go on appending after a
   refused write.
2. Safety of `TInv` composed with `FileLog`: `CutsAreCoherent` speaks of every prefix of the log a
   run writes, and `FirstTearIsHarmless` of the prefix a crash leaves; the two are joined by the
   reader, not by a theorem.
