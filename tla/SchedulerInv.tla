---------------------------- MODULE SchedulerInv ----------------------------
(***************************************************************************)
(* The inductive invariant of the Scheduler.  Each part is an operator of   *)
(* the values it relates, because a turn of the loop passes through states *)
(* (after the received event is applied, before schedule) in which the     *)
(* parts hold of intermediate values.                                      *)
(***************************************************************************)
EXTENDS Scheduler

\* The joins of the nodes past pending are honoured.
Joined(p, st) ==
  \A n \in Node : st[n] \notin {"pending", "skipped"} =>
    /\ p.join[n] = "all_of" => \A m \in Preds(p, n) : st[m] = "executed"
    /\ p.join[n] = "any_of" => Satisfied(p, st, n)

\* A worker of an all_of node holds the outputs of all its predecessors.
Supplied(p, busy, given) ==
  \A n \in Node : busy[n] # "idle" /\ p.join[n] = "all_of" => given[n] = Preds(p, n)

\* Nobody waits for a skipped node.
Justified(p, st) ==
  \A n \in Node : st[n] = "skipped" =>
    /\ IsCandidate(p, n)
    /\ \A j \in Succs(p, n) :
         /\ p.join[j] = "any_of" => Satisfied(p, st, j)
         /\ p.join[j] = "all_of" => st[j] = "skipped"

\* A node stays pending only while its join is not met.
Promoted(p, st) == \A n \in Node : st[n] = "pending" => ~DepsSatisfied(p, st, n)

\* Workers belong to running nodes and to skipped ones, and every running node
\* has one.
Staffed(st, busy) ==
  \A n \in Node :
    /\ busy[n] # "idle" => st[n] \in {"running", "skipped"}
    /\ st[n] = "running" => busy[n] # "idle"

\* The contexts of skipped nodes' workers are cancelled.
LosersTold(st, busy, told) ==
  \A n \in Node : busy[n] # "idle" /\ st[n] = "skipped" => n \in told

\* The loop's counter.
Busy(busy) == {n \in Node : busy[n] # "idle"}

Counted(busy, fl) == fl = Cardinality(Busy(busy)) /\ fl <= Width

\* Nothing runs beside a destructive node.
Lone(p, busy) ==
  \A d, n \in Node : IsDestructive(p, d) /\ busy[d] # "idle" /\ busy[n] # "idle" => n = d

\* Failed nodes have used up their patches and requested a replan.
Exhausted(st, att) ==
  \A n \in Node : st[n] = "failed" => att[n].patches = PatchCap /\ att[n].replanned

\* Everything but Promoted, which an applied event breaks until promotePending.
Coherent(p, st, att, fl, busy, given, told) ==
  /\ Joined(p, st)
  /\ Supplied(p, busy, given)
  /\ Justified(p, st)
  /\ Staffed(st, busy)
  /\ LosersTold(st, busy, told)
  /\ Counted(busy, fl)
  /\ Lone(p, busy)
  /\ Exhausted(st, att)

\* Where Run is agrees with the rest of the state.
LoopPosition ==
  /\ loop = "select" => inFlight > 0
  /\ loop = "returned" => AllTerminal(state) \/ (inFlight = 0 /\ ReadySet(state) = {})
  /\ loop = "aborted" => inFlight = 0
  /\ \A n \in Node : state[n] = "cancelled" => loop \in {"drain", "aborted"}

IInv ==
  /\ TypeOK
  /\ Accepted(plan)
  /\ Coherent(plan, state, attempt, inFlight, worker, inputs, cancelled)
  /\ Promoted(plan, state)
  /\ LoopPosition

=============================================================================
