------------------------------ MODULE Validate ------------------------------
(***************************************************************************)
(* The structural validator of engine/validate/validate.go: Check on a     *)
(* plan that has passed BasicValidate.  Check sorts the nodes with Kahn's  *)
(* algorithm, walks the graph forward from the entries and backward from   *)
(* the exits, and then looks at every node.  One action is one iteration   *)
(* of a loop.                                                              *)
(*                                                                         *)
(* Kahn's queue is sorted by plan order before each pop and a node enters  *)
(* it once, so it is kept as a set of which the least member is popped.    *)
(* The module Admission calls Check and is its specification.              *)
(***************************************************************************)
EXTENDS Plan, SequencesExt

VARIABLES
  p,          \* the plan; never written once Check has begun
  broken,     \* the nodes whose contract schema is not valid JSON
  pc,         \* the loop Check is in
  indeg,      \* per node, the predecessors not yet ordered
  queue,      \* the nodes ready to be ordered
  order,      \* the nodes ordered so far
  stack,      \* the nodes whose neighbours are yet to be visited
  fromEntry,  \* reachableFromEntry
  toExit,     \* canReachExit
  problems    \* what Check returns: pairs of a check and a node, 0 for none

vars == <<p, broken, pc, indeg, queue, order, stack, fromEntry, toExit, problems>>

Entries(q) == {n \in Node : Preds(q, n) = {}}
Exits(q)   == {n \in Node : Succs(q, n) = {}}

\* len(pred[n]): edges are counted, so a repeated edge counts twice.
InDegree(q, n) == Cardinality({e \in DOMAIN q.edges : To(q, e) = n})

\* The number of edges from m to n.
Edges(q, m, n) == Cardinality({e \in DOMAIN q.edges : From(q, e) = m /\ To(q, e) = n})

\* The members of S as they are pushed, in some order: what the walks find does
\* not depend on it.
Pushed(S) == SetToSeq(S)

Top  == stack[Len(stack)]
Rest == SubSeq(stack, 1, Len(stack) - 1)

-----------------------------------------------------------------------------

\* Before Check is called; p is the zero Plan.
Init ==
  /\ p = [edges |-> <<>>, join |-> [n \in Node |-> "all_of"],
          sideEffect |-> [n \in Node |-> "none"], retryBudget |-> [n \in Node |-> 0]]
  /\ broken = {}
  /\ pc = "idle"
  /\ indeg = [n \in Node |-> 0]
  /\ queue = {}
  /\ order = <<>>
  /\ stack = <<>>
  /\ fromEntry = {}
  /\ toExit = {}
  /\ problems = {}

\* Check is called with the plan q, of which the nodes in b have a broken schema:
\* buildAdjacency, and the head of TopoOrder.
CheckBegins(q, b) ==
  /\ pc = "idle"
  /\ p' = q
  /\ broken' = b
  /\ indeg' = [n \in Node |-> InDegree(q, n)]
  /\ queue' = Entries(q)
  /\ pc' = "kahn"
  /\ UNCHANGED <<order, stack, fromEntry, toExit, problems>>

\* Mutant: repeated edges into a node are counted once.
OrderOneOncePerSuccessor ==
  /\ pc = "kahn"
  /\ \E id \in queue :
       /\ \A m \in queue : id <= m
       /\ order' = Append(order, id)
       /\ indeg' = [n \in Node |-> IF n \in Succs(p, id) THEN indeg[n] - 1 ELSE indeg[n]]
       /\ queue' = (queue \ {id}) \cup {n \in Succs(p, id) : indeg'[n] = 0}
  /\ UNCHANGED <<p, broken, pc, stack, fromEntry, toExit, problems>>

\* Mutant: a node is queued although some of its predecessors are not ordered.
OrderOneTooSoon ==
  /\ pc = "kahn"
  /\ \E id \in queue :
       /\ \A m \in queue : id <= m
       /\ order' = Append(order, id)
       /\ indeg' = [n \in Node |-> indeg[n] - Edges(p, id, n)]
       /\ queue' = (queue \ {id}) \cup Succs(p, id)
  /\ UNCHANGED <<p, broken, pc, stack, fromEntry, toExit, problems>>

\* Mutant: the queue is not sorted, so any of its members may be popped.
OrderAny ==
  /\ pc = "kahn"
  /\ \E id \in queue :
       /\ order' = Append(order, id)
       /\ indeg' = [n \in Node |-> indeg[n] - Edges(p, id, n)]
       /\ queue' = (queue \ {id}) \cup {n \in Succs(p, id) : indeg'[n] = 0}
  /\ UNCHANGED <<p, broken, pc, stack, fromEntry, toExit, problems>>

\* One iteration of Kahn's loop.
OrderOne ==
  /\ pc = "kahn"
  /\ \E id \in queue :
       /\ \A m \in queue : id <= m
       /\ order' = Append(order, id)
       /\ indeg' = [n \in Node |-> indeg[n] - Edges(p, id, n)]
       /\ queue' = (queue \ {id}) \cup {n \in Succs(p, id) : indeg'[n] = 0}
  /\ UNCHANGED <<p, broken, pc, stack, fromEntry, toExit, problems>>

\* The end of TopoOrder; the forward walk starts at the entries.
OrderEnds ==
  /\ pc = "kahn"
  /\ queue = {}
  /\ problems' = IF Len(order) # N THEN {<<"cycle", 0>>} ELSE {}
  /\ fromEntry' = Entries(p)
  /\ stack' = Pushed(Entries(p))
  /\ pc' = "forward"
  /\ UNCHANGED <<p, broken, indeg, queue, order, toExit>>

\* Mutant: the node visited stays on the stack.
WalkForwardUnpopped ==
  /\ pc = "forward"
  /\ stack # <<>>
  /\ LET new == Succs(p, Top) \ fromEntry
     IN  /\ fromEntry' = fromEntry \cup new
         /\ stack' = stack \o Pushed(new)
  /\ UNCHANGED <<p, broken, pc, indeg, queue, order, toExit, problems>>

\* A repeated edge finds its node marked the second time.
WalkForward ==
  /\ pc = "forward"
  /\ stack # <<>>
  /\ LET new == Succs(p, Top) \ fromEntry
     IN  /\ fromEntry' = fromEntry \cup new
         /\ stack' = Rest \o Pushed(new)
  /\ UNCHANGED <<p, broken, pc, indeg, queue, order, toExit, problems>>

ForwardEnds ==
  /\ pc = "forward"
  /\ stack = <<>>
  /\ toExit' = Exits(p)
  /\ stack' = Pushed(Exits(p))
  /\ pc' = "backward"
  /\ UNCHANGED <<p, broken, indeg, queue, order, fromEntry, problems>>

\* Mutant: the walk goes on along the edges instead of against them.
WalkBackwardForward ==
  /\ pc = "backward"
  /\ stack # <<>>
  /\ LET new == Succs(p, Top) \ toExit
     IN  /\ toExit' = toExit \cup new
         /\ stack' = Rest \o Pushed(new)
  /\ UNCHANGED <<p, broken, pc, indeg, queue, order, fromEntry, problems>>

WalkBackward ==
  /\ pc = "backward"
  /\ stack # <<>>
  /\ LET new == Preds(p, Top) \ toExit
     IN  /\ toExit' = toExit \cup new
         /\ stack' = Rest \o Pushed(new)
  /\ UNCHANGED <<p, broken, pc, indeg, queue, order, fromEntry, problems>>

\* Mutant: an any_of node may have a single predecessor.
JoinProblemsLax == {n \in Node : p.join[n] = "any_of" /\ InDegree(p, n) < 1}

\* Check 3.
JoinProblems == {n \in Node : p.join[n] = "any_of" /\ InDegree(p, n) < 2}

\* Check 5.
SideEffectProblems == {n \in Node : IsDestructive(p, n) /\ IsCandidate(p, n)}

\* The reachability report, and checks 3, 4 and 5 on every node.
Report ==
  /\ pc = "backward"
  /\ stack = <<>>
  /\ problems' = problems
       \cup {<<"unreachable", n>> : n \in Node \ fromEntry}
       \cup {<<"dead", n>> : n \in Node \ toExit}
       \cup {<<"join", n>> : n \in JoinProblems}
       \cup {<<"contract", n>> : n \in broken}
       \cup {<<"side effect", n>> : n \in SideEffectProblems}
  /\ pc' = "done"
  /\ UNCHANGED <<p, broken, indeg, queue, order, stack, fromEntry, toExit>>

\* The steps of Check once it has begun.
CheckStep ==
  \/ OrderOne
  \/ OrderEnds
  \/ WalkForward
  \/ ForwardEnds
  \/ WalkBackward
  \/ Report

-----------------------------------------------------------------------------
(* Properties.                                                             *)

\* Every variable keeps its type; in particular no indegree goes below zero.
TypeOK ==
  /\ p \in PlanType
  /\ broken \in SUBSET Node
  /\ pc \in {"idle", "kahn", "forward", "backward", "done"}
  /\ indeg \in [Node -> Nat]
  /\ queue \in SUBSET Node
  /\ order \in Seq(Node)
  /\ stack \in Seq(Node)
  /\ fromEntry \in SUBSET Node
  /\ toExit \in SUBSET Node
  /\ problems \subseteq {"cycle", "unreachable", "dead", "join", "contract", "side effect"} \X (0 .. N)

\* The order is topological and deterministic: each node comes after all its
\* predecessors and is the first, in plan order, of those that could come next
\* (TopoOrder's promise to the scheduler).
OrderIsLeast ==
  \A i \in DOMAIN order :
    LET before  == {order[j] : j \in 1 .. i - 1}
        enabled == {n \in Node \ before : Preds(p, n) \subseteq before}
    IN  order[i] \in enabled /\ \A n \in enabled : order[i] <= n

\* Kahn's algorithm orders every node exactly when the plan is acyclic.
KahnDecides == pc \notin {"idle", "kahn"} => (Len(order) = N <=> Acyclic(p))

\* A set of nodes closed under f, and the least one that includes S.
Closure(S, f(_)) ==
  CHOOSE C \in SUBSET Node :
    LET closed(D) == S \subseteq D /\ \A n \in D : f(n) \subseteq D
    IN  closed(C) /\ \A D \in SUBSET Node : closed(D) => C \subseteq D

\* The walks compute what their names say.
WalksAreClosures ==
  pc = "done" =>
    /\ fromEntry = Closure(Entries(p), LAMBDA n : Succs(p, n))
    /\ toExit = Closure(Exits(p), LAMBDA n : Preds(p, n))

\* An any_of node has two candidates to race, and an edge into n is listed twice.
RacesTwo(q, n) == \E l, m \in Preds(q, n) : l # m

Doubled(q, n) ==
  \E d, e \in DOMAIN q.edges : d # e /\ From(q, d) = From(q, e) /\ To(q, d) = n /\ To(q, e) = n

\* Check returns no problem exactly for the plans its comment describes: the graph
\* is a DAG (reachability adds nothing to that), schemas are JSON, no candidate is
\* destructive, and an any_of node has two predecessors - or, which the comment
\* does not say, one of them twice, for check 3 counts edges.
AcceptsExactly ==
  pc = "done" =>
    (problems = {} <=> /\ broken = {}
                       /\ NoSelfLoops(p) /\ Acyclic(p)
                       /\ SideEffectsConsistent(p)
                       /\ \A n \in Node : p.join[n] = "any_of" => RacesTwo(p, n) \/ Doubled(p, n))

\* Check ends, on cyclic plans too: it is one goroutine that never blocks.
CheckEnds == pc = "kahn" ~> pc = "done"

=============================================================================
