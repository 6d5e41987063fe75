--------------------------- MODULE SchedulerTrace ---------------------------
(***************************************************************************)
(* The write-ahead trace of a run.  Every state change of the Scheduler    *)
(* goes through Run's transition, which appends one entry to the log: a    *)
(* turn of the loop appends the outcome it received, the skips of the race *)
(* it settled, the promotions and the dispatches, in this order.  Beside   *)
(* the log this module keeps the two counters Run reports.                 *)
(*                                                                         *)
(* An entry's Seq is its place in the log.  Append's errors are dropped by *)
(* Run and are the business of the FileLog module.                         *)
(***************************************************************************)
EXTENDS Scheduler, Enumeration

VARIABLES
  log,        \* the entries appended so far
  rounds,     \* Outcome.Rounds
  maxReady    \* Outcome.MaxReady

traceVars == <<log, rounds, maxReady>>

Unstarted == [n \in Node |-> "pending"]

Entry(n, from, to) == [node |-> n, from |-> from, to |-> to]

\* The transitions of the nodes in sequence s, from node states f to node states t.
Moves(s, f, t) == [i \in DOMAIN s |-> Entry(s[i], f[s[i]], t[s[i]])]

\* What a loop over the nodes in plan order appends.
Scan(f, t) == Moves(Ascending({n \in Node : f[n] # t[n]}), f, t)

\* The losers skipped by the iterations in V, in the order of the iterations.
LosersInOrder(p, V) ==
  LET visits == InOrder(V, {r \in V \X V : Earlier(r[1], r[2])})
  IN  [i \in DOMAIN visits |-> Cand(p, visits[i])]

\* Mutant: the losers are skipped before the winner is recorded.
SuccessMovesReversed(n, won, V) ==
  LET sk == Skip(won, Losers(plan, V))
  IN  Moves(LosersInOrder(plan, V), won, sk) \o <<Entry(n, state[n], "executed")>> \o Scan(sk, Promote(plan, sk))

\* n's success, up to schedule.
SuccessMoves(n, won, V) ==
  LET sk == Skip(won, Losers(plan, V))
  IN  <<Entry(n, state[n], "executed")>> \o Moves(LosersInOrder(plan, V), won, sk) \o Scan(sk, Promote(plan, sk))

\* Mutant: the intermediate state is left out.
FailureMovesAbridged(n, st) == <<Entry(n, "failed_retryable", st[n])>> \o Scan(st, Promote(plan, st))

\* n's failure, up to schedule: the verdict passes through failed_retryable.
FailureMoves(n, st) ==
  <<Entry(n, state[n], "failed_retryable"), Entry(n, "failed_retryable", st[n])>> \o Scan(st, Promote(plan, st))

\* A round: the moves up to schedule, which left node states st, the size of the
\* ready set (observe), then the dispatches.
Round(moves, st) ==
  LET ready == Cardinality(ReadySet(st))
  IN  /\ log' = log \o moves \o Scan(st, state')
      /\ rounds' = rounds + 1
      /\ maxReady' = IF ready > maxReady THEN ready ELSE maxReady

-----------------------------------------------------------------------------

TraceInit ==
  /\ Init
  /\ LET entry == EntryState(plan)
     IN  /\ log = Scan(Unstarted, entry) \o Scan(entry, state)
         /\ maxReady = Cardinality(ReadySet(entry))
  /\ rounds = 1

TraceLate(n) == ReceiveLate(n) /\ Round(<<>>, state)

TraceSuccess(n) ==
  /\ ReceiveSuccess(n)
  /\ LET won == [state EXCEPT ![n] = "executed"]
         V   == CHOOSE V \in SUBSET Visits(plan, n) : IsSkipPass(plan, won, n, V)
     IN  Round(SuccessMoves(n, won, V), Promote(plan, Skip(won, Losers(plan, V))))

TraceFailure(n) ==
  /\ ReceiveFailure(n)
  /\ LET st == [state EXCEPT ![n] = Verdict(Decide(attempt[n], worker[n]))]
     IN  Round(FailureMoves(n, st), Promote(plan, st))

TraceDrain(n) ==
  /\ DrainReceive(n)
  /\ log' = log \o Scan(state, state')
  /\ UNCHANGED <<rounds, maxReady>>

\* The steps that change no node's state.
TraceSilent ==
  /\ StartDrain \/ CtxEnd \/ Returned \/ \E n \in Node : Finish(n) \/ Drop(n)
  /\ UNCHANGED traceVars

TraceNext ==
  \/ \E n \in Node : TraceLate(n)
  \/ \E n \in Node : TraceSuccess(n)
  \/ \E n \in Node : TraceFailure(n)
  \/ \E n \in Node : TraceDrain(n)
  \/ TraceSilent

TraceSpec == TraceInit /\ [][TraceNext]_<<vars, traceVars>>

-----------------------------------------------------------------------------
(* Properties.                                                             *)

\* The node states after the first k entries of l, from f: the last write wins.
After(f, l, k) ==
  [n \in Node |->
     LET mine == {i \in 1 .. k : l[i].node = n}
     IN  IF mine = {} THEN f[n] ELSE l[CHOOSE i \in mine : \A j \in mine : j <= i].to]

\* The node states that the first k entries rebuild.
Rebuilt(k) == After(Unstarted, log, k)

\* The whole log rebuilds the engine's states, and every entry starts where the
\* log before it left its node (wal/doc.go's promise; transition is the single
\* chokepoint of every state change).
LogRebuildsRun ==
  /\ Rebuilt(Len(log)) = state
  /\ \A i \in DOMAIN log : log[i].from = Rebuilt(i - 1)[log[i].node]

\* No node is past its join, no destructive node runs beside another one, and no
\* node is skipped while somebody waits for it.
CoherentCut(p, st) ==
  \A n \in Node :
    /\ st[n] \notin {"pending", "skipped"} /\ p.join[n] = "all_of" =>
         \A m \in Preds(p, n) : st[m] = "executed"
    /\ st[n] \notin {"pending", "skipped"} /\ p.join[n] = "any_of" => Satisfied(p, st, n)
    /\ st[n] = "running" /\ IsDestructive(p, n) => \A m \in Node \ {n} : st[m] # "running"
    /\ st[n] = "skipped" => ~StillNeeded(p, st, n)

\* A crash may cut the log anywhere, in the middle of a turn too: what is left
\* never shows a state the engine's rules exclude.
EveryCutIsCoherent == \A k \in 0 .. Len(log) : CoherentCut(plan, Rebuilt(k))

\* The dispatches in a log.
Dispatches(l)      == {i \in DOMAIN l : l[i].to = "running"}
DispatchesOf(l, n) == {i \in Dispatches(l) : l[i].node = n}

\* A node is dispatched at most once per rung of its ladder and once more, and
\* the rounds are bounded by the dispatches (Theorem 6.2's bound).
WorkIsBounded ==
  /\ \A n \in Node : Cardinality(DispatchesOf(log, n)) <= 1 + RetryCap + PatchCap
  /\ rounds <= 1 + Cardinality(Dispatches(log))

-----------------------------------------------------------------------------
(* The inductive invariant.                                                *)

LoggedState == NodeState \cup {"failed_retryable"}

LogEntry == [node : Node, from : LoggedState, to : LoggedState]

\* The entries of l lead from node states f to t: each starts where the ones
\* before it left its node, and none of them leaves an incoherent state.
Leads(p, f, l, t) ==
  /\ l \in Seq(LogEntry)
  /\ After(f, l, Len(l)) = t
  /\ \A i \in DOMAIN l : l[i].from = After(f, l, i - 1)[l[i].node]
  /\ \A k \in 0 .. Len(l) : CoherentCut(p, After(f, l, k))

\* A dispatch is paid for by the first run of its node, a retry or a patch; and
\* the worker it started is in flight or has been received in a round.
DispatchesPaid(l, st, att) ==
  \A n \in Node : Cardinality(DispatchesOf(l, n)) <=
    att[n].retries + att[n].patches + (IF st[n] \in {"pending", "ready"} THEN 0 ELSE 1)

RoundsPaid(l, r, fl) == r \in Nat /\ r + fl <= 1 + Cardinality(Dispatches(l))

TInv ==
  /\ Leads(plan, Unstarted, log, state)
  /\ DispatchesPaid(log, state, attempt)
  /\ RoundsPaid(log, rounds, inFlight)

=============================================================================
