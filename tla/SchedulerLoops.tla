--------------------------- MODULE SchedulerLoops ---------------------------
(***************************************************************************)
(* The loops of Run written as loops: skipLosers, promotePending and        *)
(* schedule as recursive functions along the edge list and the plan order,  *)
(* which say what each iteration leaves.  The Scheduler module states what  *)
(* each loop computes without iterating, which is what its proofs can use;  *)
(* here TurnsAreTheLoops compares the two in every reachable state.         *)
(***************************************************************************)
EXTENDS Scheduler

SkipCandidate(p, winner, st, c) ==
  IF c = winner \/ IsTerminal(st[c]) \/ StillNeeded(p, st, c) THEN st ELSE [st EXCEPT ![c] = "skipped"]

\* skipLosers' inner loop, over j's predecessors in the order of Plan.Edges, a
\* repeated edge included: the node states after each edge.
SkipInto(p, winner, st, j) ==
  LET after[e \in 0 .. Len(p.edges)] ==
        IF e = 0 THEN st
        ELSE IF To(p, e) # j THEN after[e - 1]
        ELSE SkipCandidate(p, winner, after[e - 1], From(p, e))
  IN  after

\* Its outer loop, over the winner's successors.
SkipFrom(p, st, winner) ==
  LET after[e \in 0 .. Len(p.edges)] ==
        IF e = 0 THEN st
        ELSE IF From(p, e) # winner \/ p.join[To(p, e)] # "any_of" THEN after[e - 1]
        ELSE SkipInto(p, winner, after[e - 1], To(p, e))[Len(p.edges)]
  IN  after

SkipLoop(p, st, winner) == SkipFrom(p, st, winner)[Len(p.edges)]

PromoteStep(p, st, n) ==
  IF st[n] = "pending" /\ DepsSatisfied(p, st, n) THEN [st EXCEPT ![n] = "ready"] ELSE st

\* The node states after each node of the plan.
Promoting(p, st) ==
  LET after[n \in 0 .. N] == IF n = 0 THEN st ELSE PromoteStep(p, after[n - 1], n)
  IN  after

PromoteLoop(p, st) == Promoting(p, st)[N]

\* One iteration of schedule; done is its early return.
DispatchStep(p, acc, n) ==
  IF acc.done THEN acc
  ELSE IF acc.fl >= Width THEN [st |-> acc.st, fl |-> acc.fl, done |-> TRUE]
  ELSE IF acc.st[n] # "ready" \/ (IsDestructive(p, n) /\ acc.fl # 0) THEN acc
  ELSE [st |-> [acc.st EXCEPT ![n] = "running"], fl |-> acc.fl + 1, done |-> IsDestructive(p, n)]

Dispatching(p, st, fl) ==
  LET after[n \in 0 .. N] ==
        IF n = 0
        THEN [st |-> st, fl |-> fl, done |-> \E d \in Node : st[d] = "running" /\ IsDestructive(p, d)]
        ELSE DispatchStep(p, after[n - 1], n)
  IN  after

DispatchLoop(p, st, fl) == Dispatching(p, st, fl)[N].st

\* The skip pass that follows n's success is unique and is what the two nested
\* loops of skipLosers compute.
SkipPassIsTheLoop(won, n) ==
  LET passes == {V \in SUBSET Visits(plan, n) : IsSkipPass(plan, won, n, V)}
  IN  \E V \in passes :
        /\ passes = {V}
        /\ Skip(won, Losers(plan, V)) = SkipLoop(plan, won, n)

\* Promotion and dispatch from node states st are what their loops compute.
RestIsTheLoop(st, fl) ==
  LET up == Promote(plan, st)
  IN  /\ up = PromoteLoop(plan, st)
      /\ Running(up, Dispatched(plan, up, fl)) = DispatchLoop(plan, up, fl)

\* In every turn of the loop, what the Scheduler's actions do to the node states
\* is what the statements of skipLosers, promotePending and schedule do.
TurnsAreTheLoops ==
  \A n \in Node : Receivable(n) =>
    IF IsTerminal(state[n]) THEN RestIsTheLoop(state, inFlight - 1)
    ELSE IF worker[n] = "ok"
      THEN LET won == [state EXCEPT ![n] = "executed"]
           IN  SkipPassIsTheLoop(won, n) /\ RestIsTheLoop(SkipLoop(plan, won, n), inFlight - 1)
      ELSE \A d \in {"ready", "failed"} : RestIsTheLoop([state EXCEPT ![n] = d], inFlight - 1)

=============================================================================
