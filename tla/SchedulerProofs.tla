--------------------------- MODULE SchedulerProofs ---------------------------
(***************************************************************************)
(* Proofs about the Scheduler, for every number of nodes, every plan that   *)
(* passes validation, every parallelism bound and all recovery budgets.    *)
(***************************************************************************)
EXTENDS SchedulerInv, FiniteSetTheorems, WellFoundedInduction, TLAPS

-----------------------------------------------------------------------------
(* Facts about numbers and finite sets of nodes.                           *)

\* The effective parallelism is positive, whatever Options.MaxParallel is.
LEMMA WidthType == Width \in Nat \ {0}
  BY NAssumption, OptionsAssumption DEF Width

\* The effective recovery budgets are natural numbers.
LEMMA CapTypes == RetryCap \in Nat /\ PatchCap \in Nat
  BY BudgetAssumption DEF RetryCap, PatchCap

\* A set of nodes is finite.
LEMMA NodesFinite ==
  ASSUME NEW S \in SUBSET Node
  PROVE  IsFiniteSet(S) /\ Cardinality(S) \in Nat /\ Cardinality(S) <= N
  <1>1. IsFiniteSet(Node) /\ Cardinality(Node) = N
    BY FS_Interval, NAssumption DEF Node
  <1> QED
    BY <1>1, FS_Subset, FS_CardinalityType, NAssumption

\* A non-empty set of nodes has a first one in plan order.
LEMMA FirstNode ==
  ASSUME NEW S \in SUBSET Node, S # {}
  PROVE  \E n \in S : \A m \in S : n <= m
  <1>1. S \subseteq Nat
    BY NAssumption DEF Node
  <1>2. PICK n \in S : \A m \in S : <<m, n>> \notin OpToRel(<, Nat)
    BY <1>1, NatLessThanWellFounded, WFMin
  <1>3. ASSUME NEW m \in S
        PROVE  n <= m
    <2>1. m \in Nat /\ n \in Nat
      BY <1>1
    <2>2. m < n => <<m, n>> \in OpToRel(<, Nat)
      BY <2>1 DEF OpToRel
    <2>3. ~(m < n)
      BY <1>2, <2>2
    <2> QED
      BY <2>1, <2>3
  <1> QED
    BY <1>3

\* Of a set of nodes, at most k have fewer than k members before them.
LEMMA RankBound ==
  ASSUME NEW S \in SUBSET Node, NEW k \in Nat
  PROVE  Cardinality({n \in S : Cardinality({m \in S : m < n}) < k}) <= k
  <1> DEFINE Rank(n) == Cardinality({m \in S : m < n})
             T == {n \in S : Rank(n) < k}
             f == [n \in T |-> Rank(n)]
  <1>1. \A n \in S : Rank(n) \in Nat
    BY NodesFinite
  <1>2. f \in [T -> 0 .. k - 1]
    BY <1>1
  <1>3. ASSUME NEW a \in T, NEW b \in T, a < b
        PROVE  f[a] < f[b]
    <2> DEFINE A == {m \in S : m < a}
               B == {m \in S : m < b}
    <2>1. a \in Int /\ b \in Int /\ S \subseteq Int
      BY NAssumption DEF Node
    <2>2. A \in SUBSET B /\ a \in B /\ a \notin A
      <3>1. a \in S
        OBVIOUS
      <3> HIDE DEF T, f, Rank
      <3>2. \A m \in S : m < a => m < b
        BY <1>3, <2>1
      <3>3. ~(a < a)
        BY <2>1
      <3> QED
        BY <1>3, <3>1, <3>2, <3>3
    <2>3. IsFiniteSet(B) /\ IsFiniteSet(A) /\ Cardinality(A) \in Nat /\ Cardinality(B) \in Nat
      BY NodesFinite
    <2>4. Cardinality(A) <= Cardinality(B) /\ Cardinality(A) # Cardinality(B)
      BY <2>2, <2>3, FS_Subset
    <2> QED
      BY <2>3, <2>4
  <1>4. \A a, b \in T : f[a] = f[b] => a = b
    <2> SUFFICES ASSUME NEW a \in T, NEW b \in T, f[a] = f[b], a # b
                 PROVE  FALSE
      OBVIOUS
    <2>1. a \in Int /\ b \in Int
      BY NAssumption DEF Node
    <2>2. a < b \/ b < a
      BY <2>1
    <2>3. f[a] \in Int /\ f[b] \in Int
      BY <1>2
    <2> HIDE DEF f, T
    <2> QED
      BY <1>3, <2>2, <2>3
  <1>5. f \in Injection(T, 0 .. k - 1)
    BY <1>2, <1>4 DEF Injection, IsInjective
  <1>6. IsFiniteSet(0 .. k - 1) /\ Cardinality(0 .. k - 1) = k
    BY FS_Interval
  <1> QED
    BY <1>5, <1>6, FS_Injection

-----------------------------------------------------------------------------
(* Facts about plans.                                                      *)

\* Predecessors and successors are two readings of one edge list.
LEMMA Adjacent ==
  ASSUME NEW p, NEW m \in Node, NEW n \in Node
  PROVE  m \in Preds(p, n) <=> n \in Succs(p, m)
  BY DEF Preds, Succs

\* An accepted plan gives every any_of node a predecessor.
LEMMA CandidatesExist ==
  ASSUME NEW p \in PlanType, JoinsConsistent(p), NEW n \in Node, p.join[n] = "any_of"
  PROVE  Preds(p, n) # {}
  <1>1. PICK e \in DOMAIN p.edges : To(p, e) = n
    BY DEF JoinsConsistent
  <1>2. p.edges \in Seq(Node \X Node)
    BY DEF PlanType
  <1>3. p.edges[e] \in Node \X Node
    BY <1>1, <1>2
  <1>4. From(p, e) \in Preds(p, n)
    BY <1>1, <1>3 DEF Preds, From, To
  <1> QED
    BY <1>4

\* What skipLosers visits after a win is a candidate other than the winner.
LEMMA VisitsCandidates ==
  ASSUME NEW p \in PlanType, NEW winner \in Node, NEW v \in Visits(p, winner)
  PROVE  Cand(p, v) \in Node /\ IsCandidate(p, Cand(p, v)) /\ Cand(p, v) # winner
  <1>1. v[1] \in DOMAIN p.edges /\ v[2] \in DOMAIN p.edges
    BY DEF Visits
  <1>2. p.edges \in Seq(Node \X Node)
    BY DEF PlanType
  <1>3. p.edges[v[1]] \in Node \X Node /\ p.edges[v[2]] \in Node \X Node
    BY <1>1, <1>2
  <1>4. Cand(p, v) \in Node /\ To(p, v[2]) \in Node
    BY <1>3 DEF Cand, From, To
  <1>5. To(p, v[2]) \in Succs(p, Cand(p, v))
    BY <1>1, <1>4 DEF Succs, Cand
  <1>6. p.join[To(p, v[2])] = "any_of" /\ Cand(p, v) # winner
    BY DEF Visits, Cand
  <1> QED
    BY <1>4, <1>5, <1>6 DEF IsCandidate

\* A destructive node of an accepted plan is never skipped.
LEMMA DestructiveNotSkipped ==
  ASSUME NEW p, NEW st, SideEffectsConsistent(p), Justified(p, st),
         NEW n \in Node, IsDestructive(p, n)
  PROVE  st[n] # "skipped"
  BY DEF SideEffectsConsistent, Justified

-----------------------------------------------------------------------------
(* promotePending.                                                         *)

\* Promotion only turns pending nodes into ready ones.
LEMMA PromoteEffect ==
  ASSUME NEW p, NEW st \in [Node -> NodeState]
  PROVE  /\ Promote(p, st) \in [Node -> NodeState]
         /\ \A n \in Node :
              \/ Promote(p, st)[n] = st[n]
              \/ st[n] = "pending" /\ Promote(p, st)[n] = "ready" /\ DepsSatisfied(p, st, n)
         /\ \A n \in Node :
              st[n] = "pending" /\ Promote(p, st)[n] = "pending" => ~DepsSatisfied(p, st, n)
  BY DEF Promote, NodeState

\* A join looks only at which predecessors are executed, and which are skipped.
LEMMA SameSatisfied ==
  ASSUME NEW p, NEW s, NEW t, NEW n,
         \A m \in Node : s[m] = "executed" <=> t[m] = "executed"
  PROVE  Satisfied(p, s, n) <=> Satisfied(p, t, n)
  BY DEF Satisfied, Preds

\* The same holds of readiness, which also looks at the skipped ones.
LEMMA SameDeps ==
  ASSUME NEW p, NEW s, NEW t, NEW n,
         \A m \in Node : s[m] = "executed" <=> t[m] = "executed",
         \A m \in Node : s[m] \in TerminalSuccess <=> t[m] \in TerminalSuccess
  PROVE  DepsSatisfied(p, s, n) <=> DepsSatisfied(p, t, n)
  <1>1. \A m \in Preds(p, n) : m \in Node
    BY DEF Preds
  <1> QED
    BY <1>1 DEF DepsSatisfied

\* Promotion executes and skips nothing, so it satisfies nobody's join.
LEMMA PromoteKeepsJoins ==
  ASSUME NEW p, NEW st \in [Node -> NodeState], NEW n \in Node
  PROVE  /\ DepsSatisfied(p, Promote(p, st), n) <=> DepsSatisfied(p, st, n)
         /\ Satisfied(p, Promote(p, st), n) <=> Satisfied(p, st, n)
  <1>1. \A m \in Node : Promote(p, st)[m] = "executed" <=> st[m] = "executed"
    BY PromoteEffect
  <1>2. \A m \in Node : Promote(p, st)[m] \in TerminalSuccess <=> st[m] \in TerminalSuccess
    BY PromoteEffect DEF TerminalSuccess
  <1> QED
    BY <1>1, <1>2, SameDeps, SameSatisfied

\* A met join is honoured: in a state where nobody waits for a skipped node, an
\* all_of node that is not itself skipped has no skipped predecessor.
LEMMA MetJoinIsHonoured ==
  ASSUME NEW p \in PlanType, Accepted(p), NEW st \in [Node -> NodeState], Justified(p, st),
         NEW n \in Node, st[n] # "skipped", DepsSatisfied(p, st, n)
  PROVE  /\ p.join[n] = "all_of" => \A m \in Preds(p, n) : st[m] = "executed"
         /\ p.join[n] = "any_of" => Satisfied(p, st, n)
  <1>1. CASE p.join[n] = "all_of"
    <2> SUFFICES ASSUME NEW m \in Preds(p, n)
                 PROVE  st[m] = "executed"
      BY <1>1
    <2>1. m \in Node /\ n \in Succs(p, m)
      BY Adjacent DEF Preds
    <2>2. st[m] \in TerminalSuccess
      BY <1>1 DEF DepsSatisfied
    <2>3. st[m] # "skipped"
      BY <1>1, <2>1 DEF Justified
    <2> QED
      BY <2>2, <2>3 DEF TerminalSuccess
  <1>2. CASE p.join[n] = "any_of"
    <2>1. Preds(p, n) # {}
      BY <1>2, CandidatesExist DEF Accepted
    <2> QED
      BY <1>2, <2>1 DEF DepsSatisfied, Satisfied
  <1> QED
    BY <1>1, <1>2

\* promotePending keeps every part of the invariant and establishes Promoted.
LEMMA PromotionCoherent ==
  ASSUME NEW p \in PlanType, Accepted(p), NEW st \in [Node -> NodeState],
         NEW att, NEW fl, NEW busy, NEW given, NEW told,
         Coherent(p, st, att, fl, busy, given, told)
  PROVE  Coherent(p, Promote(p, st), att, fl, busy, given, told) /\ Promoted(p, Promote(p, st))
  <1> DEFINE up == Promote(p, st)
  <1>1. \A n \in Node :
          up[n] = st[n] \/ (st[n] = "pending" /\ up[n] = "ready" /\ DepsSatisfied(p, st, n))
    BY PromoteEffect
  <1>2. \A n \in Node : Satisfied(p, up, n) <=> Satisfied(p, st, n)
    BY PromoteKeepsJoins
  <1>3. \A n, m \in Node : m \in Preds(p, n) => (up[m] = "executed" <=> st[m] = "executed")
    BY <1>1
  <1> HIDE DEF up
  <1>5. Joined(p, up)
    <2> SUFFICES ASSUME NEW n \in Node, up[n] \notin {"pending", "skipped"}
                 PROVE  /\ p.join[n] = "all_of" => \A m \in Preds(p, n) : up[m] = "executed"
                        /\ p.join[n] = "any_of" => Satisfied(p, up, n)
      BY DEF Joined
    <2>1. \A m \in Preds(p, n) : m \in Node
      BY DEF Preds
    <2>2. CASE up[n] = st[n]
      BY <1>2, <1>3, <2>1, <2>2 DEF Coherent, Joined
    <2>3. CASE st[n] = "pending" /\ DepsSatisfied(p, st, n)
      <3>1. Justified(p, st) /\ st[n] # "skipped"
        BY <2>3 DEF Coherent
      <3>2. /\ p.join[n] = "all_of" => \A m \in Preds(p, n) : st[m] = "executed"
            /\ p.join[n] = "any_of" => Satisfied(p, st, n)
        BY <2>3, <3>1, MetJoinIsHonoured
      <3> QED
        BY <1>2, <1>3, <2>1, <3>2
    <2> QED
      BY <1>1, <2>2, <2>3
  <1>6. Justified(p, up)
    <2> SUFFICES ASSUME NEW n \in Node, up[n] = "skipped", NEW j \in Succs(p, n)
                 PROVE  /\ IsCandidate(p, n)
                        /\ p.join[j] = "any_of" => Satisfied(p, up, j)
                        /\ p.join[j] = "all_of" => up[j] = "skipped"
      BY <1>1 DEF Justified, Coherent
    <2>1. st[n] = "skipped" /\ j \in Node
      BY <1>1 DEF Succs
    <2> QED
      BY <1>1, <1>2, <2>1 DEF Coherent, Justified
  <1>7. Staffed(up, busy) /\ LosersTold(up, busy, told) /\ Exhausted(up, att)
    BY <1>1 DEF Coherent, Staffed, LosersTold, Exhausted
  <1>8. Supplied(p, busy, given) /\ Counted(busy, fl) /\ Lone(p, busy)
    BY DEF Coherent
  <1>9. Promoted(p, up)
    <2> SUFFICES ASSUME NEW n \in Node, up[n] = "pending"
                 PROVE  ~DepsSatisfied(p, up, n)
      BY DEF Promoted
    <2>1. st[n] = "pending"
      BY <1>1
    <2> QED
      BY <2>1, PromoteEffect, PromoteKeepsJoins DEF up
  <1> QED
    BY <1>5, <1>6, <1>7, <1>8, <1>9 DEF Coherent, up

-----------------------------------------------------------------------------
(* schedule.                                                               *)

\* Only ready nodes are dispatched.
LEMMA DispatchedAreReady ==
  ASSUME NEW p, NEW st, NEW fl
  PROVE  Dispatched(p, st, fl) \subseteq ReadySet(st)
  BY DEF Dispatched, Alone, Alongside

\* Dispatch never exceeds the parallelism bound.
LEMMA DispatchFits ==
  ASSUME NEW p, NEW st, NEW fl \in Nat, fl <= Width
  PROVE  /\ Cardinality(Dispatched(p, st, fl)) \in Nat
         /\ fl + Cardinality(Dispatched(p, st, fl)) <= Width
  <1> DEFINE D == Dispatched(p, st, fl)
             safe == {n \in ReadySet(st) : ~IsDestructive(p, n)}
  <1>1. ReadySet(st) \in SUBSET Node
    BY DEF ReadySet
  <1>2. D \in SUBSET Node /\ safe \in SUBSET Node
    BY <1>1, DispatchedAreReady
  <1>3. Cardinality(D) \in Nat
    BY <1>2, NodesFinite
  <1>4. CASE D = {}
    BY <1>3, <1>4, FS_EmptySet, WidthType
  <1>5. CASE D = Alone(p, st, fl) /\ D # {}
    <2>1. PICK n \in D : TRUE
      BY <1>5
    <2>2. fl = 0
      BY <1>5, <2>1 DEF Alone
    <2>3. \A m \in D : m = n
      <3>1. \A m, k \in Alone(p, st, fl) : m <= k /\ m \in Int
        BY <1>1, NAssumption DEF Alone, Node
      <3> QED
        BY <1>5, <2>1, <3>1
    <2>4. D = {n}
      BY <2>1, <2>3
    <2>5. Cardinality(D) = 1
      BY <2>4, FS_Singleton
    <2> QED
      BY <2>2, <2>5, WidthType
  <1>6. CASE D = Alongside(p, st, fl)
    <2> DEFINE k == Width - fl
    <2>1. k \in Nat /\ Width \in Nat
      BY WidthType
    <2>2. \A n \in safe : Cardinality({m \in safe : m < n}) \in Nat
      BY <1>2, NodesFinite
    <2>3. \A n \in safe : (fl + Cardinality({m \in safe : m < n}) < Width
                         <=> Cardinality({m \in safe : m < n}) < k)
      BY <2>1, <2>2
    <2>4. D = {n \in safe : Cardinality({m \in safe : m < n}) < k}
      BY <1>6, <2>3 DEF Alongside
    <2>5. Cardinality(D) <= k
      BY <1>2, <2>1, <2>4, RankBound
    <2> QED
      BY <1>3, <2>1, <2>5
  <1> QED
    BY <1>4, <1>5, <1>6 DEF Dispatched

\* With nothing in flight and something ready, something is dispatched.
LEMMA DispatchProgress ==
  ASSUME NEW p, NEW st, ReadySet(st) # {}, \A n \in Node : st[n] # "running"
  PROVE  Dispatched(p, st, 0) # {}
  <1> DEFINE safe == {n \in ReadySet(st) : ~IsDestructive(p, n)}
  <1>1. ReadySet(st) \in SUBSET Node
    BY DEF ReadySet
  <1>2. PICK n \in ReadySet(st) : \A m \in ReadySet(st) : n <= m
    BY <1>1, FirstNode
  <1>3. CASE IsDestructive(p, n)
    <2>1. n \in Alone(p, st, 0)
      BY <1>2, <1>3 DEF Alone
    <2> QED
      BY <2>1 DEF Dispatched
  <1>4. CASE ~IsDestructive(p, n)
    <2>1. \A m \in safe : ~(m < n)
      <3>1. \A m \in ReadySet(st) : m \in Int /\ n \in Int
        BY <1>1, NAssumption DEF Node
      <3> QED
        BY <1>2, <3>1
    <2>2. {m \in safe : m < n} = {}
      BY <2>1
    <2>3. Cardinality({m \in safe : m < n}) = 0
      BY <2>2, FS_EmptySet
    <2>4. n \in Alongside(p, st, 0)
      <3>1. 0 + 0 < Width
        BY WidthType
      <3> QED
        BY <1>2, <1>4, <2>3, <3>1 DEF Alongside
    <2> QED
      BY <1>2, <2>4 DEF Dispatched
  <1> QED
    BY <1>3, <1>4

\* Starting workers for ready nodes leaves every join as it is.
LEMMA RunningKeepsJoins ==
  ASSUME NEW p, NEW st \in [Node -> NodeState], NEW D \in SUBSET ReadySet(st), NEW n \in Node
  PROVE  /\ DepsSatisfied(p, Running(st, D), n) <=> DepsSatisfied(p, st, n)
         /\ Satisfied(p, Running(st, D), n) <=> Satisfied(p, st, n)
  <1>1. \A m \in Node : Running(st, D)[m] = "executed" <=> st[m] = "executed"
    BY DEF Running, ReadySet
  <1>2. \A m \in Node : Running(st, D)[m] \in TerminalSuccess <=> st[m] \in TerminalSuccess
    BY DEF Running, ReadySet, TerminalSuccess
  <1> QED
    BY <1>1, <1>2, SameDeps, SameSatisfied

\* A destructive node is started only when no worker is alive, and nothing is
\* started while the worker of a destructive node is.
LEMMA DispatchLone ==
  ASSUME NEW p, NEW st, NEW fl, NEW busy, Staffed(st, busy), Counted(busy, fl), Lone(p, busy),
         \A n \in Node : IsDestructive(p, n) => st[n] # "skipped",
         NEW d \in Node, NEW n \in Node, IsDestructive(p, d),
         busy[d] # "idle" \/ d \in Dispatched(p, st, fl),
         busy[n] # "idle" \/ n \in Dispatched(p, st, fl)
  PROVE  n = d
  <1> DEFINE D == Dispatched(p, st, fl)
  <1>1. ReadySet(st) \in SUBSET Node
    BY DEF ReadySet
  <1>2. CASE busy[d] # "idle"
    <2>1. st[d] = "running"
      BY <1>2 DEF Staffed
    <2>2. D = {}
      BY <2>1 DEF Dispatched
    <2> QED
      BY <1>2, <2>2 DEF Lone
  <1>3. CASE d \in D
    <2>1. d \in Alone(p, st, fl) /\ D = Alone(p, st, fl)
      BY <1>3 DEF Dispatched, Alongside
    <2>2. fl = 0
      BY <2>1 DEF Alone
    <2>3. Busy(busy) \in SUBSET Node
      BY DEF Busy
    <2>4. Busy(busy) = {}
      BY <2>2, <2>3, NodesFinite, FS_EmptySet DEF Counted
    <2>5. n \in D
      BY <2>4 DEF Busy
    <2>6. n <= d /\ d <= n /\ n \in Int /\ d \in Int
      BY <1>1, <2>1, <2>5, NAssumption DEF Alone, Node
    <2> QED
      BY <2>6
  <1> QED
    BY <1>2, <1>3

\* schedule keeps every part of the invariant; and if it leaves nothing in
\* flight, nothing is ready.
LEMMA SchedulingCoherent ==
  ASSUME NEW p \in PlanType, Accepted(p), NEW st \in [Node -> NodeState],
         NEW att, NEW fl \in Nat, NEW busy \in [Node -> WorkerState], NEW given, NEW told,
         Coherent(p, st, att, fl, busy, given, told), Promoted(p, st),
         NEW D, D = Dispatched(p, st, fl),
         NEW busy2, busy2 = [n \in Node |-> IF n \in D THEN "executing" ELSE busy[n]],
         NEW given2, given2 = [n \in Node |-> IF n \in D THEN InputsFor(p, st, n) ELSE given[n]]
  PROVE  /\ Coherent(p, Running(st, D), att, fl + Cardinality(D), busy2, given2, told)
         /\ Promoted(p, Running(st, D))
         /\ fl + Cardinality(D) = 0 => ReadySet(Running(st, D)) = {}
  <1> DEFINE st2 == Running(st, D)
  <1>1. D \in SUBSET ReadySet(st)
    BY DispatchedAreReady
  <1>2. \A n \in Node : /\ n \in D => st[n] = "ready" /\ st2[n] = "running"
                        /\ n \notin D => st2[n] = st[n]
    BY <1>1 DEF Running, ReadySet
  <1>3. \A n \in Node : /\ Satisfied(p, st2, n) <=> Satisfied(p, st, n)
                        /\ DepsSatisfied(p, st2, n) <=> DepsSatisfied(p, st, n)
    BY <1>1, RunningKeepsJoins
  <1>4. \A n \in Node : /\ n \in D => busy2[n] = "executing" /\ given2[n] = InputsFor(p, st, n)
                        /\ n \notin D => busy2[n] = busy[n] /\ given2[n] = given[n]
    OBVIOUS
  <1> HIDE DEF st2
  <1>5. Joined(p, st2)
    <2> SUFFICES ASSUME NEW n \in Node, st2[n] \notin {"pending", "skipped"}
                 PROVE  /\ p.join[n] = "all_of" => \A m \in Preds(p, n) : st2[m] = "executed"
                        /\ p.join[n] = "any_of" => Satisfied(p, st2, n)
      BY DEF Joined
    <2>1. st[n] \notin {"pending", "skipped"}
      BY <1>2
    <2>2. /\ p.join[n] = "all_of" => \A m \in Preds(p, n) : st[m] = "executed"
          /\ p.join[n] = "any_of" => Satisfied(p, st, n)
      BY <2>1 DEF Coherent, Joined
    <2>3. \A m \in Preds(p, n) : st[m] = "executed" => st2[m] = "executed"
      BY <1>2 DEF Preds
    <2> QED
      BY <1>3, <2>2, <2>3
  <1>6. Supplied(p, busy2, given2)
    <2> SUFFICES ASSUME NEW n \in Node, busy2[n] # "idle", p.join[n] = "all_of"
                 PROVE  given2[n] = Preds(p, n)
      BY DEF Supplied
    <2>1. CASE n \in D
      <3>1. \A m \in Preds(p, n) : st[m] = "executed"
        BY <1>2, <2>1 DEF Coherent, Joined
      <3> QED
        BY <1>4, <2>1, <3>1 DEF InputsFor
    <2>2. CASE n \notin D
      BY <1>4, <2>2 DEF Coherent, Supplied
    <2> QED
      BY <2>1, <2>2
  <1>7. Justified(p, st2)
    <2> SUFFICES ASSUME NEW n \in Node, st2[n] = "skipped"
                 PROVE  /\ IsCandidate(p, n)
                        /\ \A j \in Succs(p, n) :
                             /\ p.join[j] = "any_of" => Satisfied(p, st2, j)
                             /\ p.join[j] = "all_of" => st2[j] = "skipped"
      BY DEF Justified
    <2>1. st[n] = "skipped"
      BY <1>2
    <2>2. \A j \in Succs(p, n) : j \in Node
      BY DEF Succs
    <2> QED
      BY <1>2, <1>3, <2>1, <2>2 DEF Coherent, Justified
  <1>8. Staffed(st2, busy2)
    BY <1>2, <1>4 DEF Coherent, Staffed
  <1>9. LosersTold(st2, busy2, told)
    BY <1>2, <1>4 DEF Coherent, LosersTold
  <1>10. Counted(busy2, fl + Cardinality(D))
    <2>1. fl = Cardinality(Busy(busy)) /\ fl <= Width
      BY DEF Coherent, Counted
    <2>2. fl + Cardinality(D) <= Width /\ Cardinality(D) \in Nat
      BY <2>1, DispatchFits
    <2>3. Busy(busy) \in SUBSET Node /\ D \in SUBSET Node
      BY <1>1 DEF Busy, ReadySet
    <2>4. Busy(busy2) = Busy(busy) \cup D
      BY <1>4, <2>3 DEF Busy
    <2>5. Busy(busy) \cap D = {}
      BY <1>2, <2>3 DEF Busy, Coherent, Staffed
    <2>6. Cardinality(Busy(busy2)) = Cardinality(Busy(busy)) + Cardinality(D) - 0
      BY <2>3, <2>4, <2>5, NodesFinite, FS_Union, FS_EmptySet
    <2> QED
      BY <2>1, <2>2, <2>6 DEF Counted
  <1>11. Lone(p, busy2)
    <2>1. \A n \in Node : IsDestructive(p, n) => st[n] # "skipped"
      BY DestructiveNotSkipped DEF Accepted, Coherent
    <2>2. Staffed(st, busy) /\ Counted(busy, fl) /\ Lone(p, busy)
      BY DEF Coherent
    <2>3. \A n \in Node : busy2[n] # "idle" => busy[n] # "idle" \/ n \in Dispatched(p, st, fl)
      BY <1>4
    <2> SUFFICES ASSUME NEW d \in Node, NEW n \in Node,
                        IsDestructive(p, d), busy2[d] # "idle", busy2[n] # "idle"
                 PROVE  n = d
      BY DEF Lone
    <2> QED
      BY <2>1, <2>2, <2>3, DispatchLone
  <1>12. Exhausted(st2, att)
    BY <1>2 DEF Coherent, Exhausted
  <1>13. Promoted(p, st2)
    BY <1>2, <1>3 DEF Promoted
  <1>14. ASSUME fl + Cardinality(D) = 0
         PROVE  ReadySet(st2) = {}
    <2>1. fl <= Width
      BY DEF Coherent, Counted
    <2>2. Cardinality(D) \in Nat
      BY <2>1, DispatchFits
    <2>3. fl = 0 /\ Cardinality(D) = 0
      BY <1>14, <2>2
    <2>4. D \in SUBSET Node /\ Busy(busy) \in SUBSET Node
      BY <1>1 DEF ReadySet, Busy
    <2>5. D = {} /\ Busy(busy) = {}
      BY <2>3, <2>4, NodesFinite, FS_EmptySet DEF Coherent, Counted
    <2>6. \A n \in Node : st[n] # "running"
      BY <2>5 DEF Coherent, Staffed, Busy
    <2>7. ReadySet(st) = {}
      BY <2>3, <2>5, <2>6, DispatchProgress
    <2> QED
      BY <1>2, <2>5, <2>7 DEF ReadySet
  <1> QED
    BY <1>5, <1>6, <1>7, <1>8, <1>9, <1>10, <1>11, <1>12, <1>13, <1>14 DEF Coherent, st2

-----------------------------------------------------------------------------
(* skipLosers.                                                             *)

\* Every node a pass skips is an unfinished candidate that, once the pass is
\* over, no joiner waits for.
LEMMA LosersUnneeded ==
  ASSUME NEW p \in PlanType, NEW st \in [Node -> NodeState], Joined(p, st),
         NEW winner \in Node, NEW V \in SUBSET Visits(p, winner), IsSkipPass(p, st, winner, V),
         NEW L, L = Losers(p, V), NEW c \in L
  PROVE  /\ c \in Node /\ IsCandidate(p, c) /\ c # winner /\ ~IsTerminal(st[c])
         /\ \A j \in Succs(p, c) : /\ p.join[j] = "any_of" => Satisfied(p, Skip(st, L), j)
                                   /\ p.join[j] = "all_of" => Skip(st, L)[j] = "skipped"
  <1> DEFINE Lv(v) == Losers(p, {u \in V : Earlier(u, v)})
  <1>1. ASSUME NEW v \in V
        PROVE  /\ Cand(p, v) \in Node /\ IsCandidate(p, Cand(p, v)) /\ Cand(p, v) # winner
               /\ ~IsTerminal(st[Cand(p, v)])
               /\ ~StillNeeded(p, Skip(st, Lv(v)), Cand(p, v))
    <2>1. v \in Visits(p, winner)
      OBVIOUS
    <2>2. Cand(p, v) \in Node /\ IsCandidate(p, Cand(p, v)) /\ Cand(p, v) # winner
      BY <2>1, VisitsCandidates
    <2>3. /\ ~IsTerminal(Before(p, st, V, v)[Cand(p, v)])
          /\ ~StillNeeded(p, Before(p, st, V, v), Cand(p, v))
      BY <2>1 DEF IsSkipPass
    <2>4. Before(p, st, V, v) = Skip(st, Lv(v))
      BY DEF Before
    <2>5. ~IsTerminal(Skip(st, Lv(v))[Cand(p, v)])
      BY <2>3, <2>4
    <2>6. ~IsTerminal(st[Cand(p, v)])
      BY <2>2, <2>5 DEF Skip, IsTerminal, TerminalState
    <2> QED
      BY <2>2, <2>3, <2>4, <2>6
  <1>2. \A x \in L : x \in Node /\ ~IsTerminal(st[x])
    BY <1>1 DEF Losers
  <1>3. PICK v \in V : c = Cand(p, v)
    BY DEF Losers
  <1>4. Lv(v) \subseteq L
    BY DEF Losers
  <1> DEFINE M == Lv(v)
  <1>5. M \subseteq L /\ ~StillNeeded(p, Skip(st, M), c)
    BY <1>1, <1>3, <1>4
  <1> HIDE DEF M, Lv
  <1>6. \A m \in Node : Skip(st, M)[m] = "executed" => Skip(st, L)[m] = "executed"
    BY <1>2, <1>5 DEF Skip, IsTerminal, TerminalState
  <1>7. ASSUME NEW j \in Succs(p, c), p.join[j] = "any_of"
        PROVE  Satisfied(p, Skip(st, L), j)
    <2>1. Satisfied(p, Skip(st, M), j)
      BY <1>5, <1>7 DEF StillNeeded
    <2> QED
      BY <1>6, <2>1 DEF Satisfied, Preds
  <1>8. ASSUME NEW j \in Succs(p, c), p.join[j] = "all_of"
        PROVE  Skip(st, L)[j] = "skipped"
    <2>1. j \in Node /\ c \in Preds(p, j) /\ c \in Node
      BY <1>2, Adjacent DEF Succs
    <2>2. IsTerminal(Skip(st, M)[j])
      BY <1>5, <1>8 DEF StillNeeded
    <2>3. CASE j \in M
      BY <1>5, <2>1, <2>3 DEF Skip
    <2>4. CASE j \notin M
      <3>1. IsTerminal(st[j])
        BY <2>1, <2>2, <2>4 DEF Skip
      <3>2. st[c] # "executed"
        BY <1>2 DEF IsTerminal, TerminalState
      <3>3. st[j] \in {"pending", "skipped"}
        BY <1>8, <2>1, <3>2 DEF Joined
      <3>4. st[j] = "skipped"
        BY <3>1, <3>3 DEF IsTerminal, TerminalState
      <3> QED
        BY <2>1, <3>4 DEF Skip
    <2> QED
      BY <2>3, <2>4
  <1> QED
    BY <1>1, <1>3, <1>7, <1>8

\* The pass keeps every part of the invariant, when the contexts of the losers'
\* workers are cancelled with it.
LEMMA SkippingCoherent ==
  ASSUME NEW p \in PlanType, Accepted(p), NEW st \in [Node -> NodeState],
         NEW att, NEW fl, NEW busy, NEW given, NEW told,
         Coherent(p, st, att, fl, busy, given, told),
         NEW winner \in Node, NEW V \in SUBSET Visits(p, winner), IsSkipPass(p, st, winner, V),
         NEW L, L = Losers(p, V),
         NEW told2, \A c \in Node : c \in told2 <=> c \in told \/ (c \in L /\ busy[c] # "idle")
  PROVE  Coherent(p, Skip(st, L), att, fl, busy, given, told2)
  <1> DEFINE sk == Skip(st, L)
  <1>1. Joined(p, st) /\ Justified(p, st)
    BY DEF Coherent
  <1>2. ASSUME NEW c \in L
        PROVE  /\ c \in Node /\ IsCandidate(p, c) /\ ~IsTerminal(st[c])
               /\ \A j \in Succs(p, c) : /\ p.join[j] = "any_of" => Satisfied(p, sk, j)
                                         /\ p.join[j] = "all_of" => sk[j] = "skipped"
    BY <1>1, LosersUnneeded
  <1>3. \A n \in Node : (n \in L => sk[n] = "skipped") /\ (n \notin L => sk[n] = st[n])
    BY DEF Skip
  <1>4. sk \in [Node -> NodeState]
    BY DEF Skip, NodeState
  <1> HIDE DEF sk
  <1>5. \A m \in Node : sk[m] = "executed" <=> st[m] = "executed"
    BY <1>2, <1>3 DEF IsTerminal, TerminalState
  <1>6. \A n \in Node : Satisfied(p, sk, n) <=> Satisfied(p, st, n)
    BY <1>5, SameSatisfied
  <1>7. Joined(p, sk)
    <2> SUFFICES ASSUME NEW n \in Node, sk[n] \notin {"pending", "skipped"}
                 PROVE  /\ p.join[n] = "all_of" => \A m \in Preds(p, n) : sk[m] = "executed"
                        /\ p.join[n] = "any_of" => Satisfied(p, sk, n)
      BY DEF Joined
    <2>1. st[n] \notin {"pending", "skipped"}
      BY <1>3
    <2>2. \A m \in Preds(p, n) : m \in Node
      BY DEF Preds
    <2> QED
      BY <1>1, <1>5, <1>6, <2>1, <2>2 DEF Joined
  <1>8. Justified(p, sk)
    <2> SUFFICES ASSUME NEW n \in Node, sk[n] = "skipped"
                 PROVE  /\ IsCandidate(p, n)
                        /\ \A j \in Succs(p, n) :
                             /\ p.join[j] = "any_of" => Satisfied(p, sk, j)
                             /\ p.join[j] = "all_of" => sk[j] = "skipped"
      BY DEF Justified
    <2>1. CASE n \in L
      BY <1>2, <2>1
    <2>2. CASE n \notin L
      <3>1. st[n] = "skipped"
        BY <1>3, <2>2
      <3>2. \A j \in Succs(p, n) : j \in Node
        BY DEF Succs
      <3> QED
        BY <1>1, <1>3, <1>6, <3>1, <3>2 DEF Justified
    <2> QED
      BY <2>1, <2>2
  <1>9. Staffed(sk, busy)
    BY <1>3 DEF Coherent, Staffed
  <1>10. LosersTold(sk, busy, told2)
    BY <1>3 DEF Coherent, LosersTold
  <1>11. Exhausted(sk, att)
    BY <1>3 DEF Coherent, Exhausted
  <1>12. Supplied(p, busy, given) /\ Counted(busy, fl) /\ Lone(p, busy)
    BY DEF Coherent
  <1> QED
    BY <1>7, <1>8, <1>9, <1>10, <1>11, <1>12 DEF Coherent, sk

-----------------------------------------------------------------------------
(* The received event.                                                     *)

\* Applying an event to its node keeps every part of the invariant: either the
\* node was skipped and keeps its state, or it was running and is now executed,
\* ready again, failed with its recovery used up, or cancelled.
LEMMA EventCoherent ==
  ASSUME IInv, NEW n \in Node, worker[n] \in Result,
         NEW st2 \in [Node -> NodeState], \A m \in Node \ {n} : st2[m] = state[m],
         NEW att2, \A m \in Node \ {n} : att2[m] = attempt[m],
         \/ state[n] = "skipped" /\ st2[n] = "skipped"
         \/ state[n] = "running" /\ st2[n] \in {"executed", "ready", "failed", "cancelled"},
         st2[n] = "failed" => att2[n].patches = PatchCap /\ att2[n].replanned
  PROVE  /\ Coherent(plan, st2, att2, inFlight - 1, Freed(n), Released(n), cancelled \ {n})
         /\ inFlight - 1 \in Nat
  <1> DEFINE busy2 == Freed(n)
             given2 == Released(n)
  <1>0. /\ worker \in [Node -> WorkerState] /\ inputs \in [Node -> SUBSET Node]
        /\ worker[n] # "idle" /\ state \in [Node -> NodeState]
        /\ Coherent(plan, state, attempt, inFlight, worker, inputs, cancelled)
    BY DEF IInv, TypeOK, Result, Failure
  <1>1. busy2[n] = "idle" /\ \A m \in Node \ {n} : busy2[m] = worker[m] /\ given2[m] = inputs[m]
    BY <1>0 DEF Freed, Released
  <1>2. \A m \in Node : state[m] = "executed" => st2[m] = "executed"
    BY <1>0
  <1>3. \A m \in Node : Satisfied(plan, state, m) => Satisfied(plan, st2, m)
    BY <1>2 DEF Satisfied, Preds
  <1>4. \A m \in Node : st2[m] = "skipped" <=> state[m] = "skipped"
    BY <1>0
  <1>5. Joined(plan, st2)
    <2> SUFFICES ASSUME NEW m \in Node, st2[m] \notin {"pending", "skipped"}
                 PROVE  /\ plan.join[m] = "all_of" => \A k \in Preds(plan, m) : st2[k] = "executed"
                        /\ plan.join[m] = "any_of" => Satisfied(plan, st2, m)
      BY DEF Joined
    <2>1. state[m] \notin {"pending", "skipped"}
      BY <1>0
    <2>2. \A k \in Preds(plan, m) : k \in Node
      BY DEF Preds
    <2> QED
      BY <1>0, <1>2, <1>3, <2>1, <2>2 DEF Coherent, Joined
  <1>6. Justified(plan, st2)
    <2> SUFFICES ASSUME NEW m \in Node, st2[m] = "skipped"
                 PROVE  /\ IsCandidate(plan, m)
                        /\ \A j \in Succs(plan, m) :
                             /\ plan.join[j] = "any_of" => Satisfied(plan, st2, j)
                             /\ plan.join[j] = "all_of" => st2[j] = "skipped"
      BY DEF Justified
    <2>1. state[m] = "skipped" /\ \A j \in Succs(plan, m) : j \in Node
      BY <1>4 DEF Succs
    <2> QED
      BY <1>0, <1>3, <1>4, <2>1 DEF Coherent, Justified
  <1> HIDE DEF busy2, given2
  <1>7. Supplied(plan, busy2, given2)
    BY <1>0, <1>1 DEF Coherent, Supplied
  <1>8. Staffed(st2, busy2)
    BY <1>0, <1>1 DEF Coherent, Staffed
  <1>9. LosersTold(st2, busy2, cancelled \ {n})
    BY <1>0, <1>1 DEF Coherent, LosersTold
  <1>10. Lone(plan, busy2)
    BY <1>0, <1>1 DEF Coherent, Lone
  <1>11. Exhausted(st2, att2)
    BY <1>0 DEF Coherent, Exhausted
  <1>12. Counted(busy2, inFlight - 1) /\ inFlight - 1 \in Nat
    <2>1. Busy(worker) \in SUBSET Node /\ n \in Busy(worker)
      BY <1>0 DEF Busy
    <2>2. Busy(busy2) = Busy(worker) \ {n}
      BY <1>1 DEF Busy
    <2>3. inFlight = Cardinality(Busy(worker)) /\ inFlight <= Width
      BY <1>0 DEF Coherent, Counted
    <2>4. IsFiniteSet(Busy(worker)) /\ Cardinality(Busy(worker)) \in Nat /\ Cardinality(Busy(busy2)) \in Nat
      BY <2>1, <2>2, NodesFinite
    <2>5. Cardinality(Busy(worker) \ {n}) = Cardinality(Busy(worker)) - 1
      BY <2>1, <2>4, FS_RemoveElement
    <2>6. Cardinality(Busy(busy2)) = Cardinality(Busy(worker)) - 1
      BY <2>2, <2>5
    <2> QED
      BY <2>3, <2>4, <2>6, WidthType DEF Counted
  <1> QED
    BY <1>0, <1>5, <1>6, <1>7, <1>8, <1>9, <1>10, <1>11, <1>12 DEF Coherent, busy2, given2

-----------------------------------------------------------------------------
(* A whole turn of the loop.                                               *)

\* A turn that ends in schedule, from values that satisfy the invariant's parts,
\* ends in a state that satisfies the invariant.
LEMMA TurnKeepsIInv ==
  ASSUME plan \in PlanType, Accepted(plan), ctxDone \in BOOLEAN,
         NEW st \in [Node -> NodeState], NEW fl \in Nat,
         NEW busy \in [Node -> WorkerState], NEW given \in [Node -> SUBSET Node],
         Coherent(plan, st, attempt', fl, busy, given, cancelled'), Promoted(plan, st),
         \A n \in Node : st[n] # "cancelled",
         Schedule(plan, st, fl, busy, given),
         attempt' \in [Node -> Attempt], cancelled' \in SUBSET Node, UNCHANGED <<plan, ctxDone>>
  PROVE  IInv'
  <1> DEFINE D == Dispatched(plan, st, fl)
  <1>1. /\ state' = Running(st, D)
        /\ inFlight' = fl + Cardinality(D)
        /\ worker' = [n \in Node |-> IF n \in D THEN "executing" ELSE busy[n]]
        /\ inputs' = [n \in Node |-> IF n \in D THEN InputsFor(plan, st, n) ELSE given[n]]
        /\ loop' = LoopHead(state', inFlight')
        /\ plan' = plan /\ ctxDone' = ctxDone
    BY DEF Schedule
  <1>2. D \in SUBSET ReadySet(st) /\ D \in SUBSET Node
    BY DispatchedAreReady DEF ReadySet
  <1>3. /\ Coherent(plan, state', attempt', inFlight', worker', inputs', cancelled')
        /\ Promoted(plan, state')
        /\ inFlight' = 0 => ReadySet(state') = {}
    BY <1>1, SchedulingCoherent
  <1>4. TypeOK'
    <2>1. state' \in [Node -> NodeState]
      BY <1>1 DEF Running, NodeState
    <2>2. worker' \in [Node -> WorkerState]
      BY <1>1 DEF WorkerState
    <2>3. inputs' \in [Node -> SUBSET Node]
      BY <1>1 DEF InputsFor, Preds
    <2>4. inFlight' \in 0 .. N
      <3>1. Busy(worker') \in SUBSET Node
        BY DEF Busy
      <3>2. inFlight' = Cardinality(Busy(worker'))
        BY <1>3 DEF Coherent, Counted
      <3> QED
        BY <3>1, <3>2, NodesFinite, NAssumption
    <2>5. loop' \in LoopState
      BY <1>1 DEF LoopHead, LoopState
    <2> QED
      BY <1>1, <2>1, <2>2, <2>3, <2>4, <2>5 DEF TypeOK
  <1>5. LoopPosition'
    <2>1. loop' \in {"select", "returned"}
      BY <1>1 DEF LoopHead
    <2>2. loop' = "select" => inFlight' # 0
      BY <1>1 DEF LoopHead
    <2>3. loop' = "returned" => AllTerminal(state') \/ inFlight' = 0
      BY <1>1 DEF LoopHead
    <2>4. inFlight' \in Nat
      BY <1>4 DEF TypeOK
    <2>5. \A n \in Node : state'[n] # "cancelled"
      BY <1>1 DEF Running
    <2> QED
      BY <1>3, <2>1, <2>2, <2>3, <2>4, <2>5 DEF LoopPosition, AllTerminal, ReadySet
  <1> QED
    BY <1>1, <1>3, <1>4, <1>5 DEF IInv

-----------------------------------------------------------------------------
(* The invariant.                                                          *)

\* The states Run begins with, before the first schedule.
LEMMA EntryCoherent ==
  ASSUME NEW p \in PlanType, Accepted(p), NEW att
  PROVE  /\ EntryState(p) \in [Node -> NodeState]
         /\ \A n \in Node : /\ EntryState(p)[n] \in {"ready", "pending"}
                            /\ EntryState(p)[n] = "ready" <=> Preds(p, n) = {}
         /\ Coherent(p, EntryState(p), att, 0, [n \in Node |-> "idle"], [n \in Node |-> {}], {})
         /\ Promoted(p, EntryState(p))
  <1> DEFINE st   == EntryState(p)
             busy == [n \in Node |-> "idle"]
             none == [n \in Node |-> {}]
  <1>3. st \in [Node -> NodeState]
    BY DEF EntryState, NodeState
  <1>4. \A n \in Node : /\ st[n] \in {"ready", "pending"}
                        /\ st[n] = "ready" <=> Preds(p, n) = {}
    BY DEF EntryState
  <1>6. \A n \in Node : busy[n] = "idle" /\ none[n] = {}
    OBVIOUS
  <1> HIDE DEF st, busy, none
  <1>7. Coherent(p, st, att, 0, busy, none, {})
    <2>1. Joined(p, st)
      <3> SUFFICES ASSUME NEW n \in Node, st[n] \notin {"pending", "skipped"}
                   PROVE  /\ p.join[n] = "all_of" => \A m \in Preds(p, n) : st[m] = "executed"
                          /\ p.join[n] = "any_of" => Satisfied(p, st, n)
        BY DEF Joined
      <3>1. Preds(p, n) = {}
        BY <1>4
      <3>2. p.join[n] # "any_of"
        BY <3>1, CandidatesExist DEF Accepted
      <3> QED
        BY <3>1, <3>2
    <2>2. Supplied(p, busy, none)
      BY <1>6 DEF Supplied
    <2>3. Justified(p, st)
      BY <1>4 DEF Justified
    <2>4. Staffed(st, busy)
      BY <1>4, <1>6 DEF Staffed
    <2>5. LosersTold(st, busy, {})
      BY <1>6 DEF LosersTold
    <2>6. Counted(busy, 0)
      <3>1. Busy(busy) = {}
        BY <1>6 DEF Busy
      <3> QED
        BY <3>1, FS_EmptySet, WidthType DEF Counted
    <2>7. Lone(p, busy)
      BY <1>6 DEF Lone
    <2>8. Exhausted(st, att)
      BY <1>4 DEF Exhausted
    <2> QED
      BY <2>1, <2>2, <2>3, <2>4, <2>5, <2>6, <2>7, <2>8 DEF Coherent
  <1>8. Promoted(p, st)
    <2> SUFFICES ASSUME NEW n \in Node, st[n] = "pending"
                 PROVE  ~DepsSatisfied(p, st, n)
      BY DEF Promoted
    <2>1. Preds(p, n) # {}
      BY <1>4
    <2>2. \A m \in Preds(p, n) : st[m] # "executed" /\ st[m] \notin TerminalSuccess
      BY <1>4 DEF Preds, TerminalSuccess
    <2> QED
      BY <2>1, <2>2 DEF DepsSatisfied
  <1> QED
    BY <1>3, <1>4, <1>7, <1>8 DEF st, busy, none

\* The invariant holds when Run first blocks.
THEOREM InitImpliesIInv == Init => IInv
  <1> SUFFICES ASSUME Init
               PROVE  IInv
    OBVIOUS
  <1> DEFINE st   == EntryState(plan)
             D    == Dispatched(plan, st, 0)
             busy == [n \in Node |-> "idle"]
             none == [n \in Node |-> {}]
  <1>1. plan \in PlanType /\ Accepted(plan)
    BY PlansAssumption DEF Init
  <1>2. /\ attempt = [n \in Node |-> Pristine]
        /\ state = Running(st, D)
        /\ inFlight = Cardinality(D)
        /\ worker = [n \in Node |-> IF n \in D THEN "executing" ELSE "idle"]
        /\ inputs = none
        /\ cancelled = {}
        /\ ctxDone = FALSE
        /\ loop = LoopHead(state, inFlight)
    BY DEF Init
  <1>3. st \in [Node -> NodeState]
    BY DEF EntryState, NodeState
  <1>4. \A n \in Node : /\ st[n] \in {"ready", "pending"}
                        /\ st[n] = "ready" <=> Preds(plan, n) = {}
    BY DEF EntryState
  <1>5. busy \in [Node -> WorkerState] /\ none \in [Node -> SUBSET Node]
    BY DEF WorkerState
  <1>6. \A n \in Node : busy[n] = "idle" /\ none[n] = {}
    OBVIOUS
  <1> HIDE DEF st, busy, none
  <1>7. Coherent(plan, st, attempt, 0, busy, none, {}) /\ Promoted(plan, st)
    BY <1>1, EntryCoherent DEF st, busy, none
  <1>9. D \in SUBSET Node
    BY DispatchedAreReady DEF ReadySet
  <1>10. worker = [n \in Node |-> IF n \in D THEN "executing" ELSE busy[n]]
    BY <1>2, <1>6
  <1>11. inputs = [n \in Node |-> IF n \in D THEN InputsFor(plan, st, n) ELSE none[n]]
    <2>1. \A n \in Node : InputsFor(plan, st, n) = {}
      BY <1>4 DEF InputsFor, Preds
    <2>2. \A n \in Node : (IF n \in D THEN InputsFor(plan, st, n) ELSE none[n]) = none[n]
      BY <1>6, <2>1
    <2> QED
      BY <1>2, <2>2 DEF none
  <1>12. Cardinality(D) \in Nat /\ 0 + Cardinality(D) = inFlight
    BY <1>2, <1>9, NodesFinite
  <1>13. /\ Coherent(plan, state, attempt, inFlight, worker, inputs, {})
         /\ Promoted(plan, state)
         /\ inFlight = 0 => ReadySet(state) = {}
    BY <1>1, <1>2, <1>3, <1>5, <1>7, <1>10, <1>11, <1>12, SchedulingCoherent
  <1>14. TypeOK
    <2>1. state \in [Node -> NodeState]
      BY <1>2, <1>3 DEF Running, NodeState
    <2>2. attempt \in [Node -> Attempt]
      BY <1>2, CapTypes DEF Attempt, Pristine
    <2>3. worker \in [Node -> WorkerState]
      BY <1>2 DEF WorkerState
    <2>4. inFlight \in 0 .. N
      BY <1>2, <1>9, NodesFinite, NAssumption
    <2>5. loop \in LoopState
      BY <1>2 DEF LoopHead, LoopState
    <2> QED
      BY <1>1, <1>2, <1>5, <2>1, <2>2, <2>3, <2>4, <2>5 DEF TypeOK
  <1>15. LoopPosition
    <2>1. inFlight \in Nat
      BY <1>12
    <2>2. \A n \in Node : state[n] # "cancelled"
      BY <1>2, <1>4 DEF Running
    <2>3. /\ loop \in {"select", "returned"}
          /\ loop = "select" => inFlight # 0
          /\ loop = "returned" => AllTerminal(state) \/ inFlight = 0
      BY <1>2 DEF LoopHead
    <2> QED
      BY <1>13, <2>1, <2>2, <2>3 DEF LoopPosition
  <1> QED
    BY <1>1, <1>2, <1>13, <1>14, <1>15 DEF IInv

\* What every receive starts from: the node is busy, and running unless it was
\* skipped.
LEMMA ReceivableNode ==
  ASSUME IInv, NEW n \in Node, worker[n] \in Result
  PROVE  /\ worker[n] # "idle"
         /\ state[n] \in {"running", "skipped"}
         /\ IsTerminal(state[n]) => state[n] = "skipped"
         /\ ~IsTerminal(state[n]) => state[n] = "running"
         /\ Freed(n) \in [Node -> WorkerState]
         /\ Released(n) \in [Node -> SUBSET Node]
  <1>1. worker[n] # "idle"
    BY DEF Result, Failure
  <1>2. state[n] \in {"running", "skipped"}
    BY <1>1 DEF IInv, Coherent, Staffed
  <1> QED
    BY <1>1, <1>2 DEF IInv, TypeOK, IsTerminal, TerminalState, Freed, Released, WorkerState

\* In a turn of the loop no node is cancelled.
LEMMA NoneCancelled ==
  ASSUME IInv, loop = "select", NEW n \in Node
  PROVE  state[n] # "cancelled"
  BY DEF IInv, LoopPosition

\* The turn that follows a skipped node's late event keeps the invariant.
LEMMA LateKeepsIInv ==
  ASSUME IInv, NEW n \in Node, ReceiveLate(n)
  PROVE  IInv'
  <1>1. /\ loop = "select" /\ worker[n] \in Result /\ IsTerminal(state[n])
        /\ Schedule(plan, state, inFlight - 1, Freed(n), Released(n))
        /\ cancelled' = cancelled \ {n}
        /\ plan' = plan /\ attempt' = attempt /\ ctxDone' = ctxDone
    BY DEF ReceiveLate, Receivable
  <1>2. /\ plan \in PlanType /\ state \in [Node -> NodeState] /\ attempt \in [Node -> Attempt]
        /\ worker \in [Node -> WorkerState] /\ inputs \in [Node -> SUBSET Node]
        /\ cancelled \in SUBSET Node /\ ctxDone \in BOOLEAN
        /\ Accepted(plan) /\ Promoted(plan, state)
        /\ Coherent(plan, state, attempt, inFlight, worker, inputs, cancelled)
    BY DEF IInv, TypeOK
  <1>3. worker[n] # "idle" /\ state[n] = "skipped"
    BY <1>1, ReceivableNode
  <1>4. Freed(n) \in [Node -> WorkerState] /\ Released(n) \in [Node -> SUBSET Node]
    BY <1>1, ReceivableNode
  <1>5. /\ Coherent(plan, state, attempt, inFlight - 1, Freed(n), Released(n), cancelled \ {n})
        /\ inFlight - 1 \in Nat
    BY <1>1, <1>2, <1>3, EventCoherent
  <1>6. Coherent(plan, state, attempt', inFlight - 1, Freed(n), Released(n), cancelled')
    BY <1>1, <1>5
  <1>7. \A m \in Node : state[m] # "cancelled"
    BY <1>1, NoneCancelled
  <1> QED
    BY <1>1, <1>2, <1>4, <1>5, <1>6, <1>7, TurnKeepsIInv

\* The states a success passes through, before schedule, keep the invariant's
\* parts: the winner executed, the losers skipped, the ready ones promoted.
LEMMA SuccessCoherent ==
  ASSUME IInv, NEW n \in Node, Receivable(n), ~IsTerminal(state[n]),
         NEW V \in SUBSET Visits(plan, n), IsSkipPass(plan, [state EXCEPT ![n] = "executed"], n, V)
  PROVE  LET won  == [state EXCEPT ![n] = "executed"]
             L    == Losers(plan, V)
             sk   == Skip(won, L)
             up   == Promote(plan, sk)
             told == Told(n, L)
         IN  /\ state[n] = "running" /\ inFlight - 1 \in Nat /\ told \in SUBSET Node
             /\ won \in [Node -> NodeState] /\ sk \in [Node -> NodeState] /\ up \in [Node -> NodeState]
             /\ Coherent(plan, won, attempt, inFlight - 1, Freed(n), Released(n), cancelled \ {n})
             /\ Coherent(plan, sk, attempt, inFlight - 1, Freed(n), Released(n), told)
             /\ Coherent(plan, up, attempt, inFlight - 1, Freed(n), Released(n), told)
             /\ Promoted(plan, up)
             /\ \A m \in Node : up[m] # "cancelled"
  <1> DEFINE won  == [state EXCEPT ![n] = "executed"]
             L    == Losers(plan, V)
             sk   == Skip(won, L)
             up   == Promote(plan, sk)
             told == Told(n, L)
  <1>1. loop = "select" /\ worker[n] \in Result
    BY DEF Receivable
  <1>3. /\ plan \in PlanType /\ state \in [Node -> NodeState] /\ worker \in [Node -> WorkerState]
        /\ cancelled \in SUBSET Node /\ Accepted(plan)
    BY DEF IInv, TypeOK
  <1>4. worker[n] # "idle" /\ state[n] = "running"
    BY <1>1, ReceivableNode
  <1>6. won \in [Node -> NodeState] /\ won[n] = "executed" /\ \A m \in Node \ {n} : won[m] = state[m]
    BY <1>3 DEF NodeState
  <1> HIDE DEF won
  <1>7. \A c \in L : c \in Node /\ c # n
    BY <1>3, VisitsCandidates DEF Losers
  <1>8. /\ Coherent(plan, won, attempt, inFlight - 1, Freed(n), Released(n), cancelled \ {n})
        /\ inFlight - 1 \in Nat
    BY <1>1, <1>4, <1>6, EventCoherent
  <1>10. \A c \in L : Freed(n)[c] = worker[c]
    BY <1>3, <1>7 DEF Freed
  <1>11. \A c \in Node : c \in told <=> c \in cancelled \ {n} \/ (c \in L /\ Freed(n)[c] # "idle")
    BY <1>10 DEF Told
  <1>12. told \in SUBSET Node
    BY <1>3, <1>7 DEF Told
  <1>13. IsSkipPass(plan, won, n, V) /\ L = Losers(plan, V)
    BY DEF won
  <1> HIDE DEF L, told
  <1>14. /\ Coherent(plan, sk, attempt, inFlight - 1, Freed(n), Released(n), told)
         /\ sk \in [Node -> NodeState]
         /\ \A m \in Node : sk[m] = "cancelled" => won[m] = "cancelled"
    <2>1. Coherent(plan, Skip(won, L), attempt, inFlight - 1, Freed(n), Released(n), told)
      BY <1>3, <1>6, <1>8, <1>11, <1>13, SkippingCoherent, SMT
    <2>2. \A m \in Node : /\ Skip(won, L)[m] \in {won[m], "skipped"}
                          /\ Skip(won, L)[m] = "cancelled" => won[m] = "cancelled"
      BY DEF Skip
    <2>3. Skip(won, L) \in [Node -> NodeState]
      BY <1>6 DEF Skip, NodeState
    <2> QED
      BY <2>1, <2>2, <2>3
  <1> HIDE DEF sk
  <1>15. /\ Coherent(plan, up, attempt, inFlight - 1, Freed(n), Released(n), told)
         /\ Promoted(plan, up)
    BY <1>3, <1>14, PromotionCoherent
  <1>16. up \in [Node -> NodeState] /\ \A m \in Node : up[m] = "cancelled" => sk[m] = "cancelled"
    BY <1>14, PromoteEffect
  <1> HIDE DEF up
  <1>17. \A m \in Node : up[m] # "cancelled"
    BY <1>1, <1>6, <1>14, <1>16, NoneCancelled
  <1> QED
    BY <1>4, <1>6, <1>8, <1>12, <1>14, <1>15, <1>16, <1>17 DEF won, L, sk, up, told

\* The turn that follows a success, its races resolved, keeps the invariant.
LEMMA SuccessKeepsIInv ==
  ASSUME IInv, NEW n \in Node, ReceiveSuccess(n)
  PROVE  IInv'
  <1> DEFINE won == [state EXCEPT ![n] = "executed"]
  <1>1. /\ Receivable(n) /\ worker[n] \in Result /\ ~IsTerminal(state[n])
        /\ plan' = plan /\ attempt' = attempt /\ ctxDone' = ctxDone
    BY DEF ReceiveSuccess, Receivable
  <1>2. PICK V \in SUBSET Visits(plan, n) :
          LET L == Losers(plan, V)
          IN  /\ IsSkipPass(plan, won, n, V)
              /\ Schedule(plan, Promote(plan, Skip(won, L)), inFlight - 1, Freed(n), Released(n))
              /\ cancelled' = Told(n, L)
    BY DEF ReceiveSuccess
  <1> DEFINE L  == Losers(plan, V)
             sk == Skip(won, L)
             up == Promote(plan, sk)
  <1>3. /\ plan \in PlanType /\ attempt \in [Node -> Attempt] /\ ctxDone \in BOOLEAN /\ Accepted(plan)
    BY DEF IInv, TypeOK
  <1>4. Freed(n) \in [Node -> WorkerState] /\ Released(n) \in [Node -> SUBSET Node]
    BY <1>1, ReceivableNode
  <1>5. Schedule(plan, up, inFlight - 1, Freed(n), Released(n)) /\ IsSkipPass(plan, won, n, V)
    BY <1>2
  <1>6. /\ inFlight - 1 \in Nat /\ cancelled' \in SUBSET Node
        /\ up \in [Node -> NodeState]
        /\ Coherent(plan, up, attempt, inFlight - 1, Freed(n), Released(n), cancelled')
        /\ Promoted(plan, up)
        /\ \A m \in Node : up[m] # "cancelled"
    BY <1>1, <1>2, SuccessCoherent
  <1> HIDE DEF up
  <1>7. Coherent(plan, up, attempt', inFlight - 1, Freed(n), Released(n), cancelled')
    BY <1>1, <1>6
  <1> QED
    BY <1>1, <1>3, <1>4, <1>5, <1>6, <1>7, TurnKeepsIInv

\* Bookkeeping keeps its type, and a node is failed only with its recovery used
\* up (StandardPolicy.Decide with applyResult).
LEMMA DecideEffect ==
  ASSUME NEW att \in Attempt, NEW r \in Failure
  PROVE  LET d == Decide(att, r) IN
         /\ Spend(att, d) \in Attempt
         /\ Verdict(d) \in {"ready", "failed"}
         /\ Verdict(d) = "failed" => Spend(att, d).patches = PatchCap /\ Spend(att, d).replanned
  <1> DEFINE d == Decide(att, r)
  <1>1. /\ att.retries \in 0 .. RetryCap /\ att.patches \in 0 .. PatchCap /\ att.replanned \in BOOLEAN
        /\ RetryCap \in Nat /\ PatchCap \in Nat
    BY CapTypes DEF Attempt
  <1>2. CASE d = "local_retry" /\ att.retries < RetryCap
    <2>1. Spend(att, d) = [att EXCEPT !.retries = @ + 1] /\ Verdict(d) = "ready"
      BY <1>2 DEF Spend, Verdict
    <2>2. att.retries + 1 \in 0 .. RetryCap
      BY <1>1, <1>2
    <2> QED
      BY <2>1, <2>2 DEF Attempt
  <1>3. CASE d = "local_patch" /\ att.patches < PatchCap
    <2>1. Spend(att, d) = [att EXCEPT !.patches = @ + 1] /\ Verdict(d) = "ready"
      BY <1>3 DEF Spend, Verdict
    <2>2. att.patches + 1 \in 0 .. PatchCap
      BY <1>1, <1>3
    <2> QED
      BY <2>1, <2>2 DEF Attempt
  <1>4. CASE d = "request_replan" /\ ~(att.patches < PatchCap)
    <2>1. Spend(att, d) = [att EXCEPT !.replanned = TRUE] /\ Verdict(d) = "failed"
      BY <1>4 DEF Spend, Verdict
    <2>2. att.patches = PatchCap
      BY <1>1, <1>4
    <2> QED
      BY <2>1, <2>2 DEF Attempt
  <1>5. CASE d = "fail" /\ ~(att.patches < PatchCap) /\ att.replanned
    <2>1. Spend(att, d) = att /\ Verdict(d) = "failed"
      BY <1>5 DEF Spend, Verdict
    <2>2. att.patches = PatchCap
      BY <1>1, <1>5
    <2> QED
      BY <1>5, <2>1, <2>2
  <1> QED
    BY <1>2, <1>3, <1>4, <1>5 DEF Decide

\* The same of the states a failure passes through.
LEMMA FailureCoherent ==
  ASSUME IInv, NEW n \in Node, Receivable(n), ~IsTerminal(state[n]), worker[n] \in Failure
  PROVE  LET d   == Decide(attempt[n], worker[n])
             att == [attempt EXCEPT ![n] = Spend(@, d)]
             st  == [state EXCEPT ![n] = Verdict(d)]
             up  == Promote(plan, st)
         IN  /\ state[n] = "running" /\ inFlight - 1 \in Nat
             /\ Verdict(d) \in {"ready", "failed"}
             /\ att \in [Node -> Attempt]
             /\ st \in [Node -> NodeState] /\ up \in [Node -> NodeState]
             /\ Coherent(plan, st, att, inFlight - 1, Freed(n), Released(n), cancelled \ {n})
             /\ Coherent(plan, up, att, inFlight - 1, Freed(n), Released(n), cancelled \ {n})
             /\ Promoted(plan, up)
             /\ \A m \in Node : up[m] # "cancelled"
  <1> DEFINE d   == Decide(attempt[n], worker[n])
             att == [attempt EXCEPT ![n] = Spend(@, d)]
             st  == [state EXCEPT ![n] = Verdict(d)]
             up  == Promote(plan, st)
  <1>1. loop = "select" /\ worker[n] \in Result
    BY DEF Receivable
  <1>2. plan \in PlanType /\ state \in [Node -> NodeState] /\ attempt \in [Node -> Attempt] /\ Accepted(plan)
    BY DEF IInv, TypeOK
  <1>3. state[n] = "running"
    BY <1>1, ReceivableNode
  <1>5. attempt[n] \in Attempt
    BY <1>2
  <1>6. /\ Spend(attempt[n], d) \in Attempt
        /\ Verdict(d) \in {"ready", "failed"}
        /\ Verdict(d) = "failed" =>
             Spend(attempt[n], d).patches = PatchCap /\ Spend(attempt[n], d).replanned
    BY <1>5, DecideEffect
  <1> HIDE DEF d
  <1>7. /\ att \in [Node -> Attempt] /\ att[n] = Spend(attempt[n], d)
        /\ \A m \in Node \ {n} : att[m] = attempt[m]
    BY <1>2, <1>6
  <1>8. /\ st \in [Node -> NodeState] /\ st[n] = Verdict(d)
        /\ \A m \in Node \ {n} : st[m] = state[m]
    BY <1>2, <1>6 DEF NodeState
  <1> HIDE DEF att, st
  <1>10. /\ Coherent(plan, st, att, inFlight - 1, Freed(n), Released(n), cancelled \ {n})
         /\ inFlight - 1 \in Nat
    <2>1. st[n] = "failed" => att[n].patches = PatchCap /\ att[n].replanned
      BY <1>6, <1>7, <1>8
    <2>2. state[n] = "running" /\ st[n] \in {"executed", "ready", "failed", "cancelled"}
      BY <1>3, <1>6, <1>8
    <2> QED
      BY <1>1, <1>7, <1>8, <2>1, <2>2, EventCoherent, SMTT(30)
  <1>12. /\ Coherent(plan, up, att, inFlight - 1, Freed(n), Released(n), cancelled \ {n})
         /\ Promoted(plan, up)
    BY <1>2, <1>8, <1>10, PromotionCoherent
  <1>13. up \in [Node -> NodeState] /\ \A m \in Node : up[m] = "cancelled" => st[m] = "cancelled"
    BY <1>8, PromoteEffect
  <1> HIDE DEF up
  <1>14. \A m \in Node : up[m] # "cancelled"
    BY <1>1, <1>6, <1>8, <1>13, NoneCancelled
  <1> QED
    BY <1>3, <1>6, <1>7, <1>8, <1>10, <1>12, <1>13, <1>14 DEF d, att, st, up

\* The turn that follows a failure, whatever the policy decides, keeps the
\* invariant.
LEMMA FailureKeepsIInv ==
  ASSUME IInv, NEW n \in Node, ReceiveFailure(n)
  PROVE  IInv'
  <1> DEFINE d  == Decide(attempt[n], worker[n])
             st == [state EXCEPT ![n] = Verdict(d)]
             up == Promote(plan, st)
  <1>1. /\ Receivable(n) /\ worker[n] \in Result /\ ~IsTerminal(state[n]) /\ worker[n] \in Failure
        /\ attempt' = [attempt EXCEPT ![n] = Spend(@, d)]
        /\ Schedule(plan, up, inFlight - 1, Freed(n), Released(n))
        /\ cancelled' = cancelled \ {n}
        /\ plan' = plan /\ ctxDone' = ctxDone
    BY DEF ReceiveFailure, Receivable
  <1>2. /\ plan \in PlanType /\ cancelled \in SUBSET Node /\ ctxDone \in BOOLEAN /\ Accepted(plan)
    BY DEF IInv, TypeOK
  <1>4. Freed(n) \in [Node -> WorkerState] /\ Released(n) \in [Node -> SUBSET Node]
    BY <1>1, ReceivableNode
  <1>5. /\ inFlight - 1 \in Nat
        /\ attempt' \in [Node -> Attempt]
        /\ up \in [Node -> NodeState]
        /\ Coherent(plan, up, attempt', inFlight - 1, Freed(n), Released(n), cancelled \ {n})
        /\ Promoted(plan, up)
        /\ \A m \in Node : up[m] # "cancelled"
    BY <1>1, FailureCoherent
  <1>6. cancelled' \in SUBSET Node
    BY <1>1, <1>2
  <1> HIDE DEF up
  <1>7. Coherent(plan, up, attempt', inFlight - 1, Freed(n), Released(n), cancelled')
    BY <1>1, <1>5
  <1> QED
    BY <1>1, <1>2, <1>4, <1>5, <1>6, <1>7, TurnKeepsIInv

\* Counting an event while draining keeps the invariant.
LEMMA DrainKeepsIInv ==
  ASSUME IInv, NEW n \in Node, DrainReceive(n)
  PROVE  IInv'
  <1>1. /\ loop = "drain" /\ worker[n] \in Result
        /\ inFlight' = inFlight - 1 /\ worker' = Freed(n) /\ inputs' = Released(n)
        /\ cancelled' = cancelled \ {n}
        /\ state' = IF IsTerminal(state[n]) THEN state ELSE [state EXCEPT ![n] = "cancelled"]
        /\ loop' = IF inFlight' > 0 THEN "drain" ELSE "aborted"
        /\ plan' = plan /\ attempt' = attempt /\ ctxDone' = ctxDone
    BY DEF DrainReceive, Drained
  <1>2. /\ plan \in PlanType /\ state \in [Node -> NodeState] /\ attempt \in [Node -> Attempt]
        /\ cancelled \in SUBSET Node /\ ctxDone \in BOOLEAN
        /\ inFlight \in 0 .. N /\ Accepted(plan) /\ Promoted(plan, state)
    BY DEF IInv, TypeOK
  <1>3. /\ Freed(n) \in [Node -> WorkerState] /\ Released(n) \in [Node -> SUBSET Node]
        /\ IsTerminal(state[n]) => state[n] = "skipped"
        /\ ~IsTerminal(state[n]) => state[n] = "running"
    BY <1>1, ReceivableNode
  <1>4. /\ state' \in [Node -> NodeState]
        /\ \A m \in Node \ {n} : state'[m] = state[m]
        /\ \/ state[n] = "skipped" /\ state'[n] = "skipped"
           \/ state[n] = "running" /\ state'[n] = "cancelled"
    BY <1>1, <1>2, <1>3 DEF NodeState
  <1>5. /\ Coherent(plan, state', attempt, inFlight - 1, Freed(n), Released(n), cancelled \ {n})
        /\ inFlight - 1 \in Nat
    BY <1>1, <1>4, EventCoherent
  <1>6. Coherent(plan, state', attempt', inFlight', worker', inputs', cancelled')
    BY <1>1, <1>5
  <1>7. Promoted(plan, state')
    <2>1. \A m \in Node : state'[m] = "executed" <=> state[m] = "executed"
      BY <1>4
    <2>2. \A m \in Node : state'[m] \in TerminalSuccess <=> state[m] \in TerminalSuccess
      BY <1>4 DEF TerminalSuccess
    <2>3. \A m \in Node : DepsSatisfied(plan, state', m) <=> DepsSatisfied(plan, state, m)
      BY <2>1, <2>2, SameDeps
    <2>4. \A m \in Node : state'[m] = "pending" => state[m] = "pending"
      BY <1>4
    <2> QED
      BY <1>2, <2>3, <2>4 DEF Promoted
  <1>8. TypeOK'
    <2>1. inFlight' \in 0 .. N
      BY <1>1, <1>2, <1>5, NAssumption
    <2> QED
      BY <1>1, <1>2, <1>3, <1>4, <2>1 DEF TypeOK, LoopState
  <1>9. LoopPosition'
    BY <1>1, <1>2, <1>5 DEF LoopPosition
  <1> QED
    BY <1>1, <1>2, <1>6, <1>7, <1>8, <1>9 DEF IInv

\* The steps of a worker inside its goroutine keep the invariant.
LEMMA WorkerKeepsIInv ==
  ASSUME IInv, NEW n \in Node, worker[n] # "idle",
         NEW w \in WorkerState \ {"idle"}, worker' = [worker EXCEPT ![n] = w],
         UNCHANGED <<plan, state, attempt, inFlight, inputs, cancelled, ctxDone, loop>>
  PROVE  IInv'
  <1>1. /\ worker \in [Node -> WorkerState]
        /\ Coherent(plan, state, attempt, inFlight, worker, inputs, cancelled)
    BY DEF IInv, TypeOK
  <1>2. \A m \in Node : worker'[m] # "idle" <=> worker[m] # "idle"
    BY <1>1
  <1>3. Busy(worker') = Busy(worker)
    BY <1>2 DEF Busy
  <1>4. Supplied(plan, worker', inputs)
    BY <1>1, <1>2 DEF Coherent, Supplied
  <1>5. Staffed(state, worker')
    BY <1>1, <1>2 DEF Coherent, Staffed
  <1>6. LosersTold(state, worker', cancelled)
    BY <1>1, <1>2 DEF Coherent, LosersTold
  <1>7. Counted(worker', inFlight)
    BY <1>1, <1>3 DEF Coherent, Counted
  <1>8. Lone(plan, worker')
    BY <1>1, <1>2 DEF Coherent, Lone
  <1>9. Coherent(plan, state', attempt', inFlight', worker', inputs', cancelled')
    BY <1>1, <1>4, <1>5, <1>6, <1>7, <1>8 DEF Coherent
  <1>10. TypeOK'
    BY <1>1 DEF IInv, TypeOK
  <1>11. LoopPosition'
    BY DEF IInv, LoopPosition, AllTerminal, ReadySet
  <1>12. Accepted(plan') /\ Promoted(plan', state')
    BY DEF IInv
  <1> QED
    BY <1>9, <1>10, <1>11, <1>12 DEF IInv

\* Every step of the specification keeps the invariant.
THEOREM NextKeepsIInv == IInv /\ [Next]_vars => IInv'
  <1> SUFFICES ASSUME IInv, [Next]_vars
               PROVE  IInv'
    OBVIOUS
  <1>1. ASSUME NEW n \in Node, Finish(n)
        PROVE  IInv'
    <2>1. PICK r \in Result : worker' = [worker EXCEPT ![n] = r]
      BY <1>1 DEF Finish
    <2>2. r \in WorkerState \ {"idle"} /\ worker[n] # "idle"
      BY <1>1 DEF Finish, WorkerState, Result, Failure
    <2> QED
      BY <1>1, <2>1, <2>2, WorkerKeepsIInv DEF Finish
  <1>2. ASSUME NEW n \in Node, Drop(n)
        PROVE  IInv'
    <2>1. "gone" \in WorkerState \ {"idle"} /\ worker[n] # "idle"
      BY <1>2 DEF Drop, WorkerState, Result, Failure
    <2> QED
      BY <1>2, <2>1, WorkerKeepsIInv DEF Drop
  <1>3. CASE CtxEnd
    <2>1. /\ plan' = plan /\ state' = state /\ attempt' = attempt /\ inFlight' = inFlight
          /\ worker' = worker /\ inputs' = inputs /\ cancelled' = cancelled /\ loop' = loop
          /\ ctxDone' \in BOOLEAN
      BY <1>3 DEF CtxEnd
    <2>2. TypeOK'
      BY <2>1 DEF IInv, TypeOK
    <2>3. LoopPosition'
      BY <2>1 DEF IInv, LoopPosition
    <2> QED
      BY <2>1, <2>2, <2>3 DEF IInv
  <1>4. ASSUME NEW n \in Node, ReceiveLate(n)
        PROVE  IInv'
    BY <1>4, LateKeepsIInv
  <1>5. ASSUME NEW n \in Node, ReceiveSuccess(n)
        PROVE  IInv'
    BY <1>5, SuccessKeepsIInv
  <1>6. ASSUME NEW n \in Node, ReceiveFailure(n)
        PROVE  IInv'
    BY <1>6, FailureKeepsIInv
  <1>7. CASE StartDrain
    <2>1. /\ plan' = plan /\ state' = state /\ attempt' = attempt /\ inFlight' = inFlight
          /\ worker' = worker /\ inputs' = inputs /\ cancelled' = cancelled /\ ctxDone' = ctxDone
          /\ loop = "select" /\ loop' = IF inFlight > 0 THEN "drain" ELSE "aborted"
      BY <1>7 DEF StartDrain
    <2>2. TypeOK'
      BY <2>1 DEF IInv, TypeOK, LoopState
    <2>3. LoopPosition'
      BY <2>1 DEF IInv, LoopPosition
    <2> QED
      BY <2>1, <2>2, <2>3 DEF IInv
  <1>8. ASSUME NEW n \in Node, DrainReceive(n)
        PROVE  IInv'
    BY <1>8, DrainKeepsIInv
  <1>9. CASE UNCHANGED vars
    <2>1. /\ plan' = plan /\ state' = state /\ attempt' = attempt /\ inFlight' = inFlight
          /\ worker' = worker /\ inputs' = inputs /\ cancelled' = cancelled
          /\ ctxDone' = ctxDone /\ loop' = loop
      BY <1>9 DEF vars
    <2>2. TypeOK'
      BY <2>1 DEF IInv, TypeOK
    <2>3. LoopPosition'
      BY <2>1 DEF IInv, LoopPosition
    <2> QED
      BY <2>1, <2>2, <2>3 DEF IInv
  <1>10. CASE Returned
    BY <1>9, <1>10 DEF Returned
  <1> QED
    BY <1>1, <1>2, <1>3, <1>4, <1>5, <1>6, <1>7, <1>8, <1>9, <1>10 DEF Next

\* The inductive invariant holds in every reachable state.
THEOREM Invariance == Spec => []IInv
  <1> QED
    BY InitImpliesIInv, NextKeepsIInv, PTL DEF Spec

-----------------------------------------------------------------------------
(* What the invariant implies.                                             *)

\* Every variable keeps its type.
THEOREM TypeCorrect == Spec => []TypeOK
  <1>1. IInv => TypeOK
    BY DEF IInv
  <1> QED
    BY <1>1, Invariance, PTL

\* A node past pending has its join honoured for good, and a running all_of
\* node holds the outputs of all its predecessors.
THEOREM JoinsAreHonoured == Spec => []JoinsHonoured
  <1>1. ASSUME IInv
        PROVE  JoinsHonoured
    BY <1>1 DEF IInv, Coherent, Joined, Supplied, JoinsHonoured
  <1> QED
    BY <1>1, Invariance, PTL

\* While a destructive node's worker lives, no other worker does.
THEOREM DestructiveIsAlone == Spec => []DestructiveRunsAlone
  <1>1. ASSUME IInv
        PROVE  DestructiveRunsAlone
    BY <1>1 DEF IInv, Coherent, Lone, DestructiveRunsAlone
  <1> QED
    BY <1>1, Invariance, PTL

\* The loop's count of workers is exact, and within the parallelism bound.
THEOREM WorkersAreCounted == Spec => []WorkersCounted
  <1>1. ASSUME IInv
        PROVE  WorkersCounted
    BY <1>1 DEF IInv, Coherent, Counted, Busy, WorkersCounted
  <1> QED
    BY <1>1, Invariance, PTL

\* Nobody waits for a skipped node.
THEOREM SkipsAreJustified == Spec => []SkipJustified
  <1>1. ASSUME IInv
        PROVE  SkipJustified
    BY <1>1 DEF IInv, Coherent, Justified, SkipJustified
  <1> QED
    BY <1>1, Invariance, PTL

\* A node is failed only with its patches spent and a replan requested.
THEOREM FailuresAreExhausted == Spec => []FailedOnlyAfterExhaustion
  <1>1. ASSUME IInv
        PROVE  FailedOnlyAfterExhaustion
    BY <1>1 DEF IInv, Coherent, Exhausted, FailedOnlyAfterExhaustion
  <1> QED
    BY <1>1, Invariance, PTL

\* The invariant leaves a run that returns only cancelled workers of skipped
\* losers, and an aborted one none.
LEMMA OrphansAreTold ==
  ASSUME IInv
  PROVE  NoOrphanWork
  <1>1. /\ Staffed(state, worker) /\ LosersTold(state, worker, cancelled)
        /\ Counted(worker, inFlight) /\ LoopPosition /\ TypeOK
    BY DEF IInv, Coherent
  <1>2. inFlight = 0 => \A n \in Node : worker[n] = "idle" /\ state[n] # "running"
    <2>1. Busy(worker) \in SUBSET Node
      BY DEF Busy
    <2>2. inFlight = 0 => Busy(worker) = {}
      BY <1>1, <2>1, NodesFinite, FS_EmptySet DEF Counted
    <2> QED
      BY <1>1, <2>2 DEF Busy, Staffed
  <1>3. ASSUME loop = "returned", NEW n \in Node, worker[n] # "idle"
        PROVE  state[n] = "skipped" /\ n \in cancelled
    <2>1. AllTerminal(state)
      BY <1>1, <1>2, <1>3 DEF LoopPosition
    <2>2. state[n] # "running"
      BY <2>1 DEF AllTerminal, IsTerminal, TerminalState
    <2>3. state[n] = "skipped"
      BY <1>1, <1>3, <2>2 DEF Staffed
    <2> QED
      BY <1>1, <1>3, <2>3 DEF LosersTold
  <1>4. loop = "aborted" => inFlight = 0
    BY <1>1 DEF LoopPosition
  <1> QED
    BY <1>2, <1>3, <1>4 DEF NoOrphanWork

\* A run that returns leaves behind only cancelled workers of skipped losers,
\* and an aborted one leaves none.
THEOREM NoWorkIsOrphaned == Spec => []NoOrphanWork
  <1> QED
    BY OrphansAreTold, Invariance, PTL

\* In a run that has returned normally an unfinished node is pending and waits
\* for a node that will not succeed.
LEMMA BlockedNode ==
  ASSUME IInv, loop = "returned", NEW n \in Node, ~IsTerminal(state[n])
  PROVE  state[n] = "pending" /\ \E m \in Preds(plan, n) : state[m] \in {"pending", "failed"}
  <1>1. /\ plan \in PlanType /\ state \in [Node -> NodeState]
        /\ Accepted(plan) /\ Promoted(plan, state) /\ LoopPosition
        /\ Justified(plan, state) /\ Staffed(state, worker) /\ Counted(worker, inFlight)
    BY DEF IInv, TypeOK, Coherent
  <1>2. inFlight = 0 /\ ReadySet(state) = {}
    BY <1>1 DEF LoopPosition, AllTerminal
  <1>3. \A m \in Node : state[m] # "running"
    <2>1. Busy(worker) \in SUBSET Node
      BY DEF Busy
    <2>2. Busy(worker) = {}
      BY <1>1, <1>2, <2>1, NodesFinite, FS_EmptySet DEF Counted
    <2> QED
      BY <1>1, <2>2 DEF Busy, Staffed
  <1>4. \A m \in Node : state[m] \in {"pending", "executed", "failed", "skipped"}
    BY <1>1, <1>2, <1>3 DEF NodeState, ReadySet, LoopPosition
  <1>5. state[n] = "pending"
    BY <1>4 DEF IsTerminal, TerminalState
  <1>6. ~DepsSatisfied(plan, state, n)
    BY <1>1, <1>5 DEF Promoted
  <1>7. plan.join[n] \in {"all_of", "any_of"}
    BY <1>1 DEF PlanType
  <1>8. \A m \in Preds(plan, n) : m \in Node
    BY DEF Preds
  <1>9. ASSUME \A m \in Preds(plan, n) : state[m] \in {"executed", "skipped"}
        PROVE  FALSE
    <2>1. CASE plan.join[n] = "all_of"
      BY <1>6, <1>9, <2>1 DEF DepsSatisfied, TerminalSuccess
    <2>2. CASE plan.join[n] = "any_of"
      <3>1. PICK m \in Preds(plan, n) : TRUE
        BY <1>1, <2>2, CandidatesExist DEF Accepted
      <3>2. ~Satisfied(plan, state, n)
        BY <1>6, <2>2 DEF DepsSatisfied, Satisfied
      <3>3. state[m] = "skipped"
        BY <1>9, <3>1, <3>2 DEF Satisfied
      <3>4. n \in Succs(plan, m) /\ m \in Node
        BY <1>8, <3>1, Adjacent
      <3> QED
        BY <1>1, <2>2, <3>2, <3>3, <3>4 DEF Justified
    <2> QED
      BY <1>7, <2>1, <2>2
  <1> QED
    BY <1>4, <1>5, <1>8, <1>9

\* A run that stalls has a failed node to blame: no ready node is forgotten and
\* no join waits for ever on successes alone.
THEOREM StallsHaveCauses == Spec => []StallHasCause
  <1>1. ASSUME IInv
        PROVE  StallHasCause
    <2> SUFFICES ASSUME loop = "returned"
                 PROVE  /\ AllTerminal(state) \/ \E n \in Node : state[n] = "failed"
                        /\ \A n \in Node : ~IsTerminal(state[n]) =>
                             /\ state[n] = "pending"
                             /\ \E m \in Preds(plan, n) : state[m] \in {"pending", "failed"}
      BY DEF StallHasCause
    <2>1. \A n \in Node : ~IsTerminal(state[n]) =>
            /\ state[n] = "pending"
            /\ \E m \in Preds(plan, n) : state[m] \in {"pending", "failed"}
      BY <1>1, BlockedNode
    <2>2. ASSUME ~AllTerminal(state), \A n \in Node : state[n] # "failed"
          PROVE  FALSE
      <3> DEFINE S == {n \in Node : state[n] = "pending"}
      <3>1. S # {}
        BY <2>1, <2>2 DEF AllTerminal
      <3>2. PICK n \in S : Preds(plan, n) \cap S = {}
        <4>1. Acyclic(plan)
          BY <1>1 DEF IInv, Accepted
        <4> QED
          BY <3>1, <4>1 DEF Acyclic
      <3>3. ~IsTerminal(state[n])
        BY DEF IsTerminal, TerminalState
      <3>4. PICK m \in Preds(plan, n) : state[m] \in {"pending", "failed"}
        BY <2>1, <3>3
      <3>5. m \in Node
        BY <3>4 DEF Preds
      <3> QED
        BY <2>2, <3>2, <3>4, <3>5
    <2> QED
      BY <2>1, <2>2
  <1> QED
    BY <1>1, Invariance, PTL

\* A run reported successful has executed every exit of the plan.
THEOREM SuccessfulRunsReachExits == Spec => []SuccessReachesExits
  <1>1. ASSUME IInv
        PROVE  SuccessReachesExits
    <2> SUFFICES ASSUME Succeeded, NEW n \in Node, Succs(plan, n) = {}
                 PROVE  state[n] = "executed"
      BY DEF SuccessReachesExits
    <2>1. state[n] \in {"executed", "skipped"}
      BY DEF Succeeded, TerminalSuccess
    <2>2. state[n] # "skipped"
      BY <1>1 DEF IInv, Coherent, Justified, IsCandidate
    <2> QED
      BY <2>1, <2>2
  <1> QED
    BY <1>1, Invariance, PTL

-----------------------------------------------------------------------------
(* What a step may never do.                                               *)

\* Whatever schedule dispatches, it leaves terminal nodes alone.
LEMMA ScheduleKeepsTerminal ==
  ASSUME NEW p, NEW st \in [Node -> NodeState], NEW fl, NEW busy, NEW given,
         Schedule(p, st, fl, busy, given),
         NEW m \in Node, IsTerminal(st[m])
  PROVE  state'[m] = st[m]
  <1>1. m \notin Dispatched(p, st, fl)
    BY DispatchedAreReady DEF ReadySet, IsTerminal, TerminalState
  <1>2. state' = Running(st, Dispatched(p, st, fl))
    BY DEF Schedule
  <1> QED
    BY <1>1, <1>2 DEF Running

\* Promotion leaves terminal nodes alone.
LEMMA PromoteKeepsTerminal ==
  ASSUME NEW p, NEW st \in [Node -> NodeState], NEW m \in Node, IsTerminal(st[m])
  PROVE  Promote(p, st)[m] = st[m] /\ Promote(p, st) \in [Node -> NodeState]
  BY DEF Promote, IsTerminal, TerminalState, NodeState

\* A pass skips no node that is already terminal.
LEMMA LosersNotTerminal ==
  ASSUME NEW p \in PlanType, NEW st \in [Node -> NodeState], NEW w \in Node,
         NEW V \in SUBSET Visits(p, w), IsSkipPass(p, st, w, V),
         NEW m \in Losers(p, V)
  PROVE  ~IsTerminal(st[m])
  <1>1. PICK v \in V : m = Cand(p, v)
    BY DEF Losers
  <1>2. ~IsTerminal(Before(p, st, V, v)[Cand(p, v)]) /\ Cand(p, v) \in Node
    BY <1>1, VisitsCandidates DEF IsSkipPass
  <1> QED
    BY <1>1, <1>2 DEF Before, Skip, IsTerminal, TerminalState

\* A terminal node never changes state again: not by a late event, a race, a
\* promotion, a dispatch or the drain.
THEOREM TerminalIsAbsorbing == Spec => TerminalAbsorbing
  <1>1. ASSUME IInv, [Next]_vars, NEW m \in Node, IsTerminal(state[m])
        PROVE  state'[m] = state[m]
    <2>0. state \in [Node -> NodeState] /\ plan \in PlanType
      BY <1>1 DEF IInv, TypeOK
    <2>1. ASSUME NEW n \in Node, ReceiveLate(n)
          PROVE  state'[m] = state[m]
      BY <1>1, <2>0, <2>1, ScheduleKeepsTerminal DEF ReceiveLate
    <2>2. ASSUME NEW n \in Node, ReceiveSuccess(n)
          PROVE  state'[m] = state[m]
      <3> DEFINE won == [state EXCEPT ![n] = "executed"]
      <3>1. m # n /\ won \in [Node -> NodeState] /\ won[m] = state[m]
        BY <1>1, <2>0, <2>2 DEF ReceiveSuccess, NodeState
      <3>2. PICK V \in SUBSET Visits(plan, n) :
              /\ IsSkipPass(plan, won, n, V)
              /\ Schedule(plan, Promote(plan, Skip(won, Losers(plan, V))), inFlight - 1,
                          Freed(n), Released(n))
        BY <2>2 DEF ReceiveSuccess
      <3> DEFINE sk == Skip(won, Losers(plan, V))
      <3>3. m \notin Losers(plan, V)
        BY <1>1, <2>0, <3>1, <3>2, LosersNotTerminal
      <3>4. sk \in [Node -> NodeState] /\ sk[m] = state[m]
        BY <3>1, <3>3 DEF Skip, NodeState
      <3> HIDE DEF sk
      <3>5. Promote(plan, sk)[m] = state[m] /\ Promote(plan, sk) \in [Node -> NodeState]
        BY <1>1, <3>4, PromoteKeepsTerminal
      <3>6. Schedule(plan, Promote(plan, sk), inFlight - 1, Freed(n), Released(n))
        BY <3>2 DEF sk
      <3> QED
        BY <1>1, <3>5, <3>6, ScheduleKeepsTerminal
    <2>3. ASSUME NEW n \in Node, ReceiveFailure(n)
          PROVE  state'[m] = state[m]
      <3> DEFINE st == [state EXCEPT ![n] = Verdict(Decide(attempt[n], worker[n]))]
      <3>1. m # n /\ Schedule(plan, Promote(plan, st), inFlight - 1, Freed(n), Released(n))
        BY <1>1, <2>3 DEF ReceiveFailure
      <3>2. st \in [Node -> NodeState] /\ st[m] = state[m]
        BY <2>0, <3>1 DEF Verdict, NodeState
      <3> HIDE DEF st
      <3>3. Promote(plan, st)[m] = state[m] /\ Promote(plan, st) \in [Node -> NodeState]
        BY <1>1, <3>2, PromoteKeepsTerminal
      <3> QED
        BY <1>1, <3>1, <3>3, ScheduleKeepsTerminal
    <2>4. ASSUME NEW n \in Node, DrainReceive(n)
          PROVE  state'[m] = state[m]
      BY <1>1, <2>0, <2>4 DEF DrainReceive, Drained
    <2>5. CASE UNCHANGED state
      BY <2>5
    <2> QED
      BY <1>1, <2>1, <2>2, <2>3, <2>4, <2>5 DEF Next, vars, Finish, Drop, CtxEnd, StartDrain, Returned
  <1>2. IInv /\ [Next]_vars =>
          [\A n \in Node : IsTerminal(state[n]) => state'[n] = state[n]]_vars
    BY <1>1
  <1>3. Spec => [][\A n \in Node : IsTerminal(state[n]) => state'[n] = state[n]]_vars
    BY <1>2, Invariance, PTL DEF Spec
  <1> QED
    BY <1>3 DEF TerminalAbsorbing

=============================================================================
