-------------------------------- MODULE Plan --------------------------------
(***************************************************************************)
(* The execution plan of engine/plan/types.go as the engine reads it, and  *)
(* the acceptance test every plan passes before the scheduler runs it      *)
(* (BasicValidate followed by validate.Check).                             *)
(*                                                                         *)
(* A node is its index in Plan.Nodes, so the order of the numbers is the   *)
(* plan order every loop of the engine ranges in.  Edges stay a sequence:  *)
(* the loops over successors and predecessors follow the order of          *)
(* Plan.Edges, and nothing forbids the same edge twice.  Of the four       *)
(* side-effect levels the engine tells apart only "destructive"; "none"    *)
(* stands for none, read and write.                                        *)
(***************************************************************************)
EXTENDS Integers, Sequences, FiniteSets

CONSTANT N          \* number of nodes of the plan

ASSUME NAssumption == N \in Nat \ {0}

Node == 1 .. N

PlanType ==
  [edges       : Seq(Node \X Node),
   join        : [Node -> {"all_of", "any_of"}],
   sideEffect  : [Node -> {"none", "destructive"}],
   retryBudget : [Node -> Nat]]

-----------------------------------------------------------------------------
(* The graph of a plan: adjacency is derived from the edge list.           *)

From(p, e) == p.edges[e][1]
To(p, e)   == p.edges[e][2]

Preds(p, n) == {m \in Node : \E e \in DOMAIN p.edges : From(p, e) = m /\ To(p, e) = n}
Succs(p, n) == {m \in Node : \E e \in DOMAIN p.edges : From(p, e) = n /\ To(p, e) = m}

\* A candidate is one of the alternatives some any_of successor races.
IsCandidate(p, n) == \E j \in Succs(p, n) : p.join[j] = "any_of"

IsDestructive(p, n) == p.sideEffect[n] = "destructive"

-----------------------------------------------------------------------------
(* Acceptance: what holds of a plan for which BasicValidate returns nil and *)
(* Check returns no problem.                                               *)

NoSelfLoops(p) == \A e \in DOMAIN p.edges : From(p, e) # To(p, e)

\* Kahn's algorithm orders every node exactly when every non-empty set of
\* nodes has a member without a predecessor inside the set.
Acyclic(p) ==
  \A S \in SUBSET Node :
    S # {} => \E n \in S : Preds(p, n) \cap S = {}

\* len(preds) counts edges: two edges from one node make two candidates.
JoinsConsistent(p) ==
  \A n \in Node :
    p.join[n] = "any_of" => \E d, e \in DOMAIN p.edges : d # e /\ To(p, d) = n /\ To(p, e) = n

SideEffectsConsistent(p) == \A n \in Node : IsDestructive(p, n) => ~IsCandidate(p, n)

Accepted(p) ==
  /\ NoSelfLoops(p)
  /\ Acyclic(p)
  /\ JoinsConsistent(p)
  /\ SideEffectsConsistent(p)

-----------------------------------------------------------------------------
(* The life of a node.  waiting_human and blocked are declared and never    *)
(* entered; failed_retryable is entered and left inside one handler.       *)

NodeState == {"pending", "ready", "running", "executed", "failed", "cancelled", "skipped"}

TerminalState == {"executed", "failed", "cancelled", "skipped"}

TerminalSuccess == {"executed", "skipped"}

IsTerminal(s) == s \in TerminalState

=============================================================================
