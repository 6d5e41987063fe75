------------------------------ MODULE GraphRun ------------------------------
(***************************************************************************)
(* What the engine promises of one plan: how the outcomes of its nodes may  *)
(* come about, whatever the workers, the parallelism, the retries and the  *)
(* order of the events.  scheduler.go's header and decision D4 say it in   *)
(* prose; this module has no queue, no event, no worker and no context.    *)
(*                                                                         *)
(* A node is settled one at a time, and only once its join is met by       *)
(* completed predecessors.  Completing a node may spare its rivals in an   *)
(* any_of race, those nobody needs any more.  A run that was not stopped   *)
(* ends only when no open node could still be settled.                     *)
(***************************************************************************)
EXTENDS Plan

CONSTANT Graphs     \* the plans that may be run

VARIABLES
  graph,      \* the plan being run
  status,     \* per node, its outcome, or "open"
  outcome     \* of the run: "open", or "ended", or "stopping" and then "stopped"

gvars == <<graph, status, outcome>>

Done(s) == {n \in Node : s[n] = "done"}

\* A join counts completed predecessors only: a spared one meets nothing.
JoinMet(g, s, n) ==
  \/ Preds(g, n) \subseteq Done(s)
  \/ g.join[n] = "any_of" /\ Preds(g, n) \cap Done(s) # {}

CanSettle(g, s, n) == s[n] = "open" /\ JoinMet(g, s, n)

\* The other alternatives of the races n takes part in.
Rivals(g, n) ==
  {c \in Node \ {n} : \E j \in Succs(g, n) \cap Succs(g, c) : g.join[j] = "any_of"}

\* Nobody needs c: the races it is in are won, and its other successors spared.
Unneeded(g, s, c) ==
  \A j \in Succs(g, c) :
    \/ g.join[j] = "any_of" /\ Preds(g, j) \cap Done(s) # {}
    \/ g.join[j] = "all_of" /\ s[j] = "spared"

\* The run goes on, or ends because nothing can be settled any more.
GoesOn ==
  \/ outcome' = "open"
  \/ outcome' = "ended" /\ \A n \in Node : ~CanSettle(graph, status', n)

-----------------------------------------------------------------------------

Init ==
  /\ graph \in {g \in Graphs : Accepted(g)}
  /\ status = [n \in Node |-> "open"]
  /\ outcome = "open"

Complete(n) ==
  /\ outcome = "open"
  /\ CanSettle(graph, status, n)
  /\ \E L \in SUBSET {c \in Rivals(graph, n) : status[c] = "open"} :
       /\ status' = [m \in Node |-> IF m = n THEN "done" ELSE IF m \in L THEN "spared" ELSE status[m]]
       /\ \A c \in L : Unneeded(graph, status', c)
  /\ GoesOn
  /\ UNCHANGED graph

Fail(n) ==
  /\ outcome = "open"
  /\ CanSettle(graph, status, n)
  /\ status' = [status EXCEPT ![n] = "failed"]
  /\ GoesOn
  /\ UNCHANGED graph

End ==
  /\ outcome = "open"
  /\ GoesOn
  /\ UNCHANGED <<graph, status>>

Stop ==
  /\ outcome = "open"
  /\ outcome' = "stopping"
  /\ UNCHANGED <<graph, status>>

\* A stopping run completes nothing: it gives up nodes that could be running.
GiveUp(n) ==
  /\ outcome = "stopping"
  /\ CanSettle(graph, status, n)
  /\ status' = [status EXCEPT ![n] = "cancelled"]
  /\ outcome' \in {"stopping", "stopped"}
  /\ UNCHANGED graph

Stopped ==
  /\ outcome = "stopping"
  /\ outcome' = "stopped"
  /\ UNCHANGED <<graph, status>>

Next ==
  \/ \E n \in Node : Complete(n)
  \/ \E n \in Node : Fail(n)
  \/ End
  \/ Stop
  \/ \E n \in Node : GiveUp(n)
  \/ Stopped

Spec == Init /\ [][Next]_gvars

=============================================================================
