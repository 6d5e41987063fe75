------------------------------ MODULE Scheduler ------------------------------
(***************************************************************************)
(* The event loop of engine/scheduler/scheduler.go: Run owns every node's  *)
(* state, starts one worker goroutine per dispatched node, and applies the *)
(* events the workers send back over an unbuffered channel.                *)
(*                                                                         *)
(* One action is one turn of the loop: the event received and everything   *)
(* Run does before it blocks on the channel again (apply the result, skip  *)
(* the losers of a race, promote, dispatch, test for the end).  A worker's *)
(* steps, the end of the caller's context and the loop's turns interleave  *)
(* freely.                                                                 *)
(***************************************************************************)
EXTENDS Plan, Recovery

CONSTANTS
  Plans,          \* the plans Run may be called with
  MaxParallel,    \* Options.MaxParallel; not positive means the default
  Cancellable     \* whether the caller's context may end

ASSUME PlansAssumption == Plans \subseteq PlanType
ASSUME OptionsAssumption == MaxParallel \in Int /\ Cancellable \in BOOLEAN

VARIABLES
  plan,       \* the accepted plan; never written
  state,      \* nodeRuntime.state
  attempt,    \* nodeRuntime.attempt
  inFlight,   \* the loop's count of workers that have not reported
  worker,     \* per node, what its worker goroutine is doing
  inputs,     \* per node, the predecessors whose outputs its worker was given
  cancelled,  \* nodes whose worker's own context the loop has cancelled
  ctxDone,    \* the caller's context has ended
  loop        \* where Run is

vars == <<plan, state, attempt, inFlight, worker, inputs, cancelled, ctxDone, loop>>

\* "executing": before or inside Execute.  A result: Execute has returned it
\* and the goroutine is in its select, offering the event.  "gone": the
\* goroutine took the ctx.Done() branch, and its event will never arrive.
WorkerState == {"idle", "executing", "gone"} \cup Result

\* "returned" is the normal end, "aborted" the end after draining.
LoopState == {"select", "drain", "returned", "aborted"}

Width == IF MaxParallel <= 0 THEN N ELSE MaxParallel

-----------------------------------------------------------------------------
(* Readiness.                                                              *)

\* Mutant: any terminal predecessor satisfies an all_of join.
DepsSatisfiedTerminal(p, st, n) ==
  \/ Preds(p, n) = {}
  \/ p.join[n] = "any_of" /\ \E m \in Preds(p, n) : st[m] = "executed"
  \/ p.join[n] = "all_of" /\ \A m \in Preds(p, n) : IsTerminal(st[m])

DepsSatisfied(p, st, n) ==
  \/ Preds(p, n) = {}
  \/ p.join[n] = "any_of" /\ \E m \in Preds(p, n) : st[m] = "executed"
  \/ p.join[n] = "all_of" /\ \A m \in Preds(p, n) : st[m] \in TerminalSuccess

\* promotePending.  Becoming ready satisfies nobody's join, so the scan's
\* order does not matter.
Promote(p, st) ==
  [n \in Node |-> IF st[n] = "pending" /\ DepsSatisfied(p, st, n) THEN "ready" ELSE st[n]]

ReadySet(st) == {n \in Node : st[n] = "ready"}

AllTerminal(st) == \A n \in Node : IsTerminal(st[n])

-----------------------------------------------------------------------------
(* Resolution of any_of races.                                             *)

Satisfied(p, st, j) == \E m \in Preds(p, j) : st[m] = "executed"

\* Mutant: the all_of joiners of a candidate are forgotten.
StillNeededByRaces(p, st, c) ==
  \E j \in Succs(p, c) : p.join[j] = "any_of" /\ ~Satisfied(p, st, j)

StillNeeded(p, st, c) ==
  \E j \in Succs(p, c) :
    \/ p.join[j] = "all_of" /\ ~IsTerminal(st[j])
    \/ p.join[j] = "any_of" /\ ~Satisfied(p, st, j)

\* The iterations of skipLosers' two loops: the outer one is at an edge from
\* the winner to an any_of joiner, the inner one at an edge into that joiner
\* from another candidate.
Visits(p, winner) ==
  {v \in (DOMAIN p.edges) \X (DOMAIN p.edges) :
     /\ From(p, v[1]) = winner
     /\ p.join[To(p, v[1])] = "any_of"
     /\ To(p, v[2]) = To(p, v[1])
     /\ From(p, v[2]) # winner}

Cand(p, v) == From(p, v[2])

Earlier(u, v) == u[1] < v[1] \/ (u[1] = v[1] /\ u[2] < v[2])

Skip(st, L) == [n \in Node |-> IF n \in L THEN "skipped" ELSE st[n]]

Losers(p, V) == {Cand(p, v) : v \in V}

\* Mutant: every iteration judges the state the pass began in.
BeforeThePass(p, st, V, v) == st

\* The state in which iteration v runs, if the iterations in V skip.
Before(p, st, V, v) == Skip(st, Losers(p, {u \in V : Earlier(u, v)}))

\* V is the set of iterations that skip their candidate: v is one of them
\* exactly when its candidate, in the state left by the earlier ones, is
\* unfinished and not needed.  There is exactly one such V.
IsSkipPass(p, st, winner, V) ==
  \A v \in Visits(p, winner) :
    v \in V <=> LET s == Before(p, st, V, v)
                IN  ~IsTerminal(s[Cand(p, v)]) /\ ~StillNeeded(p, s, Cand(p, v))

-----------------------------------------------------------------------------
(* Dispatch.                                                               *)

\* Mutant: a destructive node is dispatched only when it is the one ready node.
AloneIfOnlyReady(p, st, fl) == {n \in ReadySet(st) : fl = 0 /\ IsDestructive(p, n) /\ ReadySet(st) = {n}}

\* Mutant: a destructive node does not wait for the workers in flight.
AloneBesideOthers(p, st, fl) ==
  {n \in ReadySet(st) : fl < Width /\ IsDestructive(p, n) /\ \A m \in ReadySet(st) : n <= m}

\* With nothing in flight, the first ready node in plan order is dispatched
\* alone if it is destructive.
Alone(p, st, fl) ==
  {n \in ReadySet(st) : fl = 0 /\ IsDestructive(p, n) /\ \A m \in ReadySet(st) : n <= m}

\* Mutant: one worker too many.
AlongsideOffByOne(p, st, fl) ==
  LET safe == {n \in ReadySet(st) : ~IsDestructive(p, n)}
  IN  {n \in safe : fl + Cardinality({m \in safe : m < n}) <= Width}

\* Otherwise the other ready nodes are dispatched in plan order while the
\* parallelism bound lasts.
Alongside(p, st, fl) ==
  LET safe == {n \in ReadySet(st) : ~IsDestructive(p, n)}
  IN  {n \in safe : fl + Cardinality({m \in safe : m < n}) < Width}

Dispatched(p, st, fl) ==
  IF \E n \in Node : st[n] = "running" /\ IsDestructive(p, n) THEN {}
  ELSE IF Alone(p, st, fl) # {} THEN Alone(p, st, fl)
  ELSE Alongside(p, st, fl)

Running(st, D) == [n \in Node |-> IF n \in D THEN "running" ELSE st[n]]

\* inputsFor.
InputsFor(p, st, n) == {m \in Preds(p, n) : st[m] = "executed"}

\* Mutant: the loop gives up as soon as nothing is ready.
LoopHeadImpatient(st, fl) == IF AllTerminal(st) \/ ReadySet(st) = {} THEN "returned" ELSE "select"

\* The loop goes on exactly while some node is not terminal and some worker is
\* in flight: schedule has just run, so a second call cannot dispatch more.
LoopHead(st, fl) == IF AllTerminal(st) \/ fl = 0 THEN "returned" ELSE "select"

\* observe, schedule and the test at the head of the loop, from node states st
\* with fl workers in flight; busy and given are the workers and their inputs.
Schedule(p, st, fl, busy, given) ==
  LET D == Dispatched(p, st, fl)
  IN  /\ state' = Running(st, D)
      /\ inFlight' = fl + Cardinality(D)
      /\ worker' = [n \in Node |-> IF n \in D THEN "executing" ELSE busy[n]]
      /\ inputs' = [n \in Node |-> IF n \in D THEN InputsFor(p, st, n) ELSE given[n]]
      /\ loop' = LoopHead(state', inFlight')

-----------------------------------------------------------------------------
(* The beginning of Run, up to the first select.                           *)

EntryState(p) == [n \in Node |-> IF Preds(p, n) = {} THEN "ready" ELSE "pending"]

Init ==
  /\ plan \in {p \in Plans : Accepted(p)}
  /\ attempt = [n \in Node |-> Pristine]
  /\ LET D == Dispatched(plan, EntryState(plan), 0)
     IN  /\ state = Running(EntryState(plan), D)
         /\ inFlight = Cardinality(D)
         /\ worker = [n \in Node |-> IF n \in D THEN "executing" ELSE "idle"]
  /\ inputs = [n \in Node |-> {}]
  /\ cancelled = {}
  /\ ctxDone = FALSE
  /\ loop = LoopHead(state, inFlight)

-----------------------------------------------------------------------------
(* The workers and the caller's context.                                   *)

\* Execute returns.  A node's timeout, the provider's failures and a cancelled
\* context all show as a failed result, and none of them is certain to.
Finish(n) ==
  /\ worker[n] = "executing"
  /\ \E r \in Result : worker' = [worker EXCEPT ![n] = r]
  /\ UNCHANGED <<plan, state, attempt, inFlight, inputs, cancelled, ctxDone, loop>>

\* The worker's select takes its ctx.Done() branch.
Drop(n) ==
  /\ worker[n] \in Result
  /\ ctxDone
  /\ worker' = [worker EXCEPT ![n] = "gone"]
  /\ UNCHANGED <<plan, state, attempt, inFlight, inputs, cancelled, ctxDone, loop>>

CtxEnd ==
  /\ Cancellable
  /\ ~ctxDone
  /\ ctxDone' = TRUE
  /\ UNCHANGED <<plan, state, attempt, inFlight, worker, inputs, cancelled, loop>>

-----------------------------------------------------------------------------
(* The turns of the loop.                                                  *)

\* The loop receives n's event: the worker is done with, its context released.
Receivable(n) == loop = "select" /\ worker[n] \in Result

Freed(n)    == [worker EXCEPT ![n] = "idle"]
Released(n) == [inputs EXCEPT ![n] = {}]

\* Mutant: the losers' workers are not told.
ToldNobody(n, losers) == cancelled \ {n}

\* The workers of the losers of n's race have their contexts cancelled.
Told(n, losers) == (cancelled \ {n}) \cup {c \in losers : worker[c] # "idle"}

\* Mutant: a late event does not free its slot.
ReceiveLateKeepingSlot(n) ==
  /\ Receivable(n)
  /\ IsTerminal(state[n])
  /\ Schedule(plan, state, inFlight, Freed(n), Released(n))
  /\ cancelled' = cancelled \ {n}
  /\ UNCHANGED <<plan, attempt, ctxDone>>

\* n was skipped while its worker ran: the event only frees the slot.
ReceiveLate(n) ==
  /\ Receivable(n)
  /\ IsTerminal(state[n])
  /\ Schedule(plan, state, inFlight - 1, Freed(n), Released(n))
  /\ cancelled' = cancelled \ {n}
  /\ UNCHANGED <<plan, attempt, ctxDone>>

ReceiveSuccess(n) ==
  /\ Receivable(n)
  /\ ~IsTerminal(state[n])
  /\ worker[n] = "ok"
  /\ LET won == [state EXCEPT ![n] = "executed"]
     IN  \E V \in SUBSET Visits(plan, n) :
           LET losers == Losers(plan, V)
           IN  /\ IsSkipPass(plan, won, n, V)
               /\ Schedule(plan, Promote(plan, Skip(won, losers)), inFlight - 1,
                           Freed(n), Released(n))
               /\ cancelled' = Told(n, losers)
  /\ UNCHANGED <<plan, attempt, ctxDone>>

ReceiveFailure(n) ==
  /\ Receivable(n)
  /\ ~IsTerminal(state[n])
  /\ worker[n] \in Failure
  /\ LET d == Decide(attempt[n], worker[n])
     IN  /\ attempt' = [attempt EXCEPT ![n] = Spend(@, d)]
         /\ Schedule(plan, Promote(plan, [state EXCEPT ![n] = Verdict(d)]), inFlight - 1,
                     Freed(n), Released(n))
  /\ cancelled' = cancelled \ {n}
  /\ UNCHANGED <<plan, ctxDone>>

\* The loop's select takes its ctx.Done() branch and drainAndFinalize begins.
StartDrain ==
  /\ loop = "select"
  /\ ctxDone
  /\ loop' = IF inFlight > 0 THEN "drain" ELSE "aborted"
  /\ UNCHANGED <<plan, state, attempt, inFlight, worker, inputs, cancelled, ctxDone>>

\* Mutant: a finished node is recorded as cancelled too.
DrainedAlways(n) == [state EXCEPT ![n] = "cancelled"]

\* Whatever the event says, an unfinished node is recorded as cancelled.
Drained(n) == IF IsTerminal(state[n]) THEN state ELSE [state EXCEPT ![n] = "cancelled"]

\* Mutant: the event of a finished node is not counted.
DrainReceiveUncounted(n) ==
  /\ loop = "drain"
  /\ worker[n] \in Result
  /\ inFlight' = IF IsTerminal(state[n]) THEN inFlight ELSE inFlight - 1
  /\ worker' = Freed(n)
  /\ inputs' = Released(n)
  /\ cancelled' = cancelled \ {n}
  /\ state' = Drained(n)
  /\ loop' = IF inFlight' > 0 THEN "drain" ELSE "aborted"
  /\ UNCHANGED <<plan, attempt, ctxDone>>

DrainReceive(n) ==
  /\ loop = "drain"
  /\ worker[n] \in Result
  /\ inFlight' = inFlight - 1
  /\ worker' = Freed(n)
  /\ inputs' = Released(n)
  /\ cancelled' = cancelled \ {n}
  /\ state' = Drained(n)
  /\ loop' = IF inFlight' > 0 THEN "drain" ELSE "aborted"
  /\ UNCHANGED <<plan, attempt, ctxDone>>

\* Run has returned; what is left of its workers may still move.
Returned ==
  /\ loop \in {"returned", "aborted"}
  /\ UNCHANGED vars

-----------------------------------------------------------------------------

Receive(n) == ReceiveLate(n) \/ ReceiveSuccess(n) \/ ReceiveFailure(n)

LoopStep == StartDrain \/ \E n \in Node : Receive(n) \/ DrainReceive(n)

Next ==
  \/ \E n \in Node : Finish(n)
  \/ \E n \in Node : Drop(n)
  \/ CtxEnd
  \/ \E n \in Node : ReceiveLate(n)
  \/ \E n \in Node : ReceiveSuccess(n)
  \/ \E n \in Node : ReceiveFailure(n)
  \/ StartDrain
  \/ \E n \in Node : DrainReceive(n)
  \/ Returned

Spec == Init /\ [][Next]_vars

\* The Go runtime runs the loop whenever it can go on, and Execute returns (the
\* Worker module shows it of a node with a timeout; of the others the provider
\* is trusted to answer).  No side of a select is promised to be taken.
Fairness == WF_vars(LoopStep) /\ \A n \in Node : WF_vars(Finish(n))

FairSpec == Spec /\ Fairness

-----------------------------------------------------------------------------
(* The outcome: what finalize reports once Run returns.                    *)

Returning == loop \in {"returned", "aborted"}

\* Mutant: only failed and cancelled nodes count against the run.
SucceededNoneFailed == \A n \in Node : state[n] \notin {"failed", "cancelled"}

Succeeded == \A n \in Node : state[n] \in TerminalSuccess

-----------------------------------------------------------------------------
(* Properties.                                                             *)

\* Every variable keeps its type.
TypeOK ==
  /\ plan \in PlanType
  /\ state \in [Node -> NodeState]
  /\ attempt \in [Node -> Attempt]
  /\ inFlight \in 0 .. N
  /\ worker \in [Node -> WorkerState]
  /\ inputs \in [Node -> SUBSET Node]
  /\ cancelled \in SUBSET Node
  /\ ctxDone \in BOOLEAN
  /\ loop \in LoopState

\* A node past pending has its join honoured for good: an all_of node has every
\* predecessor executed, although depsSatisfied would accept a skipped one, an
\* any_of node has one executed; and a running all_of node was handed the
\* output of every predecessor (Run's depsSatisfied, skipLosers, inputsFor).
JoinsHonoured ==
  \A n \in Node :
    state[n] \notin {"pending", "skipped"} /\ Preds(plan, n) # {} =>
      /\ plan.join[n] = "all_of" => \A m \in Preds(plan, n) : state[m] = "executed"
      /\ plan.join[n] = "any_of" => Satisfied(plan, state, n)
      /\ plan.join[n] = "all_of" /\ worker[n] # "idle" => inputs[n] = Preds(plan, n)

\* While a destructive node's worker lives no other worker does, those of
\* skipped losers included (decision D4 in schedule).
DestructiveRunsAlone ==
  \A d, n \in Node :
    IsDestructive(plan, d) /\ worker[d] # "idle" /\ worker[n] # "idle" => n = d

\* The loop's counter is the number of workers that have not reported, and it
\* stays within the parallelism bound (inFlight in Run).
WorkersCounted ==
  /\ inFlight = Cardinality({n \in Node : worker[n] # "idle"})
  /\ inFlight <= Width

\* A node is skipped only when nobody waits for it: it is a candidate, every
\* any_of joiner it feeds is satisfied by an executed sibling, and every all_of
\* joiner it feeds is itself skipped (skipLosers, stillNeeded).
SkipJustified ==
  \A n \in Node :
    state[n] = "skipped" =>
      /\ IsCandidate(plan, n)
      /\ \A j \in Succs(plan, n) :
           /\ plan.join[j] = "any_of" => Satisfied(plan, state, j)
           /\ plan.join[j] = "all_of" => state[j] = "skipped"

\* When Run returns normally, each worker it leaves behind belongs to a skipped
\* loser whose context was cancelled; after draining there is none, and no node
\* is left running (skipLosers' q.cancel, drainAndFinalize).
NoOrphanWork ==
  /\ loop = "returned" =>
       \A n \in Node : worker[n] # "idle" => state[n] = "skipped" /\ n \in cancelled
  /\ loop = "aborted" => \A n \in Node : worker[n] = "idle" /\ state[n] # "running"

\* A run that returns normally with unfinished nodes has a failed node to blame,
\* and every unfinished node waits for one that will not succeed: nothing ready
\* is forgotten (the stall test of Run).
StallHasCause ==
  loop = "returned" =>
    /\ AllTerminal(state) \/ \E n \in Node : state[n] = "failed"
    /\ \A n \in Node : ~IsTerminal(state[n]) =>
         state[n] = "pending" /\ \E m \in Preds(plan, n) : state[m] \in {"pending", "failed"}

\* A run reported successful has executed every exit of the plan: no race can
\* skip a node whose output is a result (finalize's Succeeded).
SuccessReachesExits ==
  Returning /\ Succeeded => \A n \in Node : Succs(plan, n) = {} => state[n] = "executed"

\* No node is given up before its patches are spent and a replan was requested
\* (Prop 6.4 as StandardPolicy.Decide and applyResult implement it).
FailedOnlyAfterExhaustion ==
  \A n \in Node : state[n] = "failed" => attempt[n].patches = PatchCap /\ attempt[n].replanned

\* A terminal node never changes state again, whatever late events arrive
\* (IsTerminal's promise that a completion can be trusted permanently).
TerminalAbsorbing ==
  [][\A n \in Node : IsTerminal(state[n]) => state'[n] = state[n]]_vars

\* Run returns unless its context ends first: every race, failure and stall ends
\* (Theorem 6.2, termination).
RunReturns == <>(loop = "returned" \/ ctxDone)

\* A cancelled run ends unless some worker has dropped its event: the drain
\* waits for nothing else (drainAndFinalize).
DrainEndsUnlessDropped == ctxDone ~> Returning \/ \E n \in Node : worker[n] = "gone"

\* A ready node is not starved: it is dispatched or skipped unless the context
\* ends first, a destructive node waiting for an empty flight included.
ReadyIsServed == \A n \in Node : state[n] = "ready" ~> state[n] # "ready" \/ ctxDone

-----------------------------------------------------------------------------
(* What the repository says of the engine and the code does not do.        *)

\* "waits for all in-flight workers to report (their contexts are cancelled, so
\* they return promptly)": a cancelled run ends (drainAndFinalize's comment).
CancelledRunReturns == ctxDone ~> Returning

\* "max local_retry attempts" (plan.Node.RetryBudget's comment).
RetryBudgetHonoured == \A n \in Node : attempt[n].retries <= plan.retryBudget[n]

=============================================================================
