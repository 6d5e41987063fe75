---------------------------- MODULE ValidateProofs ----------------------------
(***************************************************************************)
(* The properties of Validate and Admission for any number of nodes and    *)
(* any set of plan files.                                                  *)
(***************************************************************************)
EXTENDS Admission, FiniteSetTheorems, SequenceTheorems, WellFoundedInduction, TLAPS

Ordered == ToSet(order)

\* The edges into n that Kahn's algorithm has yet to take away.
Waiting(n) == {e \in DOMAIN p.edges : To(p, e) = n /\ From(p, e) \notin Ordered}

\* Indegrees count the waiting edges, and the queue holds what waits for nothing.
Counted ==
  /\ \A n \in Node : indeg[n] = Cardinality(Waiting(n))
  /\ queue = {n \in Node \ Ordered : Waiting(n) = {}}
  /\ Cardinality(Ordered) = Len(order)

\* A set of nodes that has been ordered in part has a member that comes before
\* the others, and one ordered as a whole has one that comes after the others.
HasEnds ==
  /\ \A S \in SUBSET Node :
       S \cap Ordered # {} => \E n \in S \cap Ordered : Preds(p, n) \cap S = {}
  /\ \A S \in SUBSET Ordered :
       S # {} => \E n \in S : Succs(p, n) \cap S = {}

Forth == [n \in Node |-> Succs(p, n)]
Back  == [n \in Node |-> Preds(p, n)]

\* C is what a walk along f from S has marked when the neighbours of todo are
\* still to be visited: no more than what every closed set contains.
Marked(C, S, f, todo) ==
  /\ S \cup todo \subseteq C
  /\ \A n \in C \ todo : f[n] \subseteq C
  /\ \A D \in SUBSET Node : S \subseteq D /\ (\A n \in D : f[n] \subseteq D) => C \subseteq D

CycleReport == IF Len(order) # N THEN {<<"cycle", 0>>} ELSE {}

\* What is known in each loop of Check.
Loops ==
  /\ pc = "idle" => order = <<>> /\ stack = <<>> /\ fromEntry = {} /\ toExit = {} /\ problems = {}
  /\ pc = "kahn" => problems = {}
  /\ pc # "idle" => Counted /\ HasEnds
  /\ pc \in {"forward", "backward", "done"} => queue = {}
  /\ pc = "forward" => Marked(fromEntry, Entries(p), Forth, ToSet(stack))
  /\ pc \in {"backward", "done"} => Marked(fromEntry, Entries(p), Forth, {})
  /\ pc = "backward" => Marked(toExit, Exits(p), Back, ToSet(stack))
  /\ pc = "done" => Marked(toExit, Exits(p), Back, {})
  /\ pc \in {"forward", "backward"} => problems = CycleReport
  /\ pc = "done" =>
       problems = CycleReport
         \cup {<<"unreachable", n>> : n \in Node \ fromEntry}
         \cup {<<"dead", n>> : n \in Node \ toExit}
         \cup {<<"join", n>> : n \in JoinProblems}
         \cup {<<"contract", n>> : n \in broken}
         \cup {<<"side effect", n>> : n \in SideEffectProblems}

VInv == TypeOK /\ Loops /\ OrderIsLeast

-----------------------------------------------------------------------------
(* Sets of nodes and of edges.                                             *)

LEMMA NodesFinite ==
  ASSUME NEW S \in SUBSET Node
  PROVE  IsFiniteSet(S) /\ Cardinality(S) \in Nat
  <1>1. IsFiniteSet(Node)
    BY NAssumption, FS_Interval DEF Node
  <1>2. IsFiniteSet(S)
    BY <1>1, FS_Subset
  <1> QED
    BY <1>2, FS_CardinalityType

LEMMA EdgesFinite ==
  ASSUME NEW q \in PlanType, NEW S \in SUBSET DOMAIN q.edges
  PROVE  IsFiniteSet(S) /\ Cardinality(S) \in Nat
  <1>1. q.edges \in Seq(Node \X Node)
    BY DEF PlanType
  <1>2. DOMAIN q.edges = 1 .. Len(q.edges) /\ Len(q.edges) \in Nat
    BY <1>1
  <1>3. IsFiniteSet(DOMAIN q.edges)
    BY <1>2, FS_Interval
  <1>4. IsFiniteSet(S)
    BY <1>3, FS_Subset
  <1> QED
    BY <1>4, FS_CardinalityType

LEMMA EdgeEnds ==
  ASSUME NEW q \in PlanType, NEW e \in DOMAIN q.edges
  PROVE  From(q, e) \in Node /\ To(q, e) \in Node
  <1>1. q.edges \in Seq(Node \X Node)
    BY DEF PlanType
  <1>2. q.edges[e] \in Node \X Node
    BY <1>1
  <1> QED
    BY <1>2 DEF From, To

\* SetToSeq lists every member.
LEMMA PushedRange ==
  ASSUME NEW S \in SUBSET Node
  PROVE  Pushed(S) \in Seq(S) /\ ToSet(Pushed(S)) = S
  <1>1. IsFiniteSet(S) /\ Cardinality(S) \in Nat
    BY NodesFinite
  <1> DEFINE I == 1 .. Cardinality(S)
  <1>2. PICK f : f \in Bijection(I, S)
    BY <1>1, FS_CardinalityType DEF ExistsBijection
  <1>3. f \in [I -> S] /\ IsInjective(f)
    BY <1>2 DEF Bijection, Injection, IsInjective
  <1>4. Pushed(S) \in [I -> S] /\ IsInjective(Pushed(S))
    BY <1>3 DEF Pushed, SetToSeq
  <1>5. Pushed(S) \in Injection(I, S)
    BY <1>4 DEF Injection
  <1>6. IsFiniteSet(I) /\ Cardinality(I) = Cardinality(S)
    BY <1>1, FS_Interval
  <1>7. Pushed(S) \in Surjection(I, S)
    BY <1>1, <1>5, <1>6, FS_Injection
  <1> QED
    BY <1>1, <1>4, <1>7 DEF Surjection, ToSet

\* The stack after a visit: its top gone, S pushed.
LEMMA Visited ==
  ASSUME NEW S \in SUBSET Node, stack \in Seq(Node), stack # <<>>
  PROVE  /\ Top \in Node
         /\ Top \in ToSet(stack)
         /\ Rest \o Pushed(S) \in Seq(Node)
         /\ ToSet(stack) \ {Top} \subseteq ToSet(Rest \o Pushed(S))
         /\ S \subseteq ToSet(Rest \o Pushed(S))
         /\ ToSet(Rest \o Pushed(S)) \subseteq ToSet(stack) \cup S
  <1> DEFINE t == Pushed(S)
  <1>1. t \in Seq(Node) /\ ToSet(t) = S
    BY PushedRange
  <1> HIDE DEF t
  <1>2. Len(stack) \in Nat \ {0} /\ DOMAIN stack = 1 .. Len(stack)
    OBVIOUS
  <1>3. Top \in Node /\ Top \in ToSet(stack)
    BY <1>2 DEF Top, ToSet
  <1>4. Rest \in Seq(Node) /\ Len(Rest) = Len(stack) - 1
        /\ \A i \in 1 .. Len(stack) - 1 : Rest[i] = stack[i]
    BY <1>2 DEF Rest
  <1> DEFINE r == Rest
  <1> HIDE DEF r
  <1>5. r \in Seq(Node) /\ Len(r) = Len(stack) - 1
        /\ \A i \in 1 .. Len(stack) - 1 : r[i] = stack[i]
    BY <1>4 DEF r
  <1>6. r \o t \in Seq(Node) /\ DOMAIN (r \o t) = 1 .. Len(r) + Len(t)
    <2>1. r \o t \in Seq(Node)
      BY <1>1, <1>5
    <2>2. r \in Seq(Node) /\ t \in Seq(Node)
      BY <1>1, <1>5
    <2>3. Len(r \o t) = Len(r) + Len(t)
      BY ONLY <2>2, ConcatProperties
    <2> QED
      BY <2>1, <2>3
  <1>7. \A i \in 1 .. Len(r) : (r \o t)[i] = r[i]
    BY <1>1, <1>5
  <1>8. \A i \in 1 .. Len(t) : (r \o t)[Len(r) + i] = t[i]
    BY <1>1, <1>5
  <1>9. ToSet(stack) \ {Top} \subseteq ToSet(r \o t)
    <2> SUFFICES ASSUME NEW i \in 1 .. Len(stack), stack[i] # Top
                 PROVE  stack[i] \in ToSet(r \o t)
      BY <1>2 DEF ToSet
    <2>1. i \in 1 .. Len(stack) - 1
      BY <1>2 DEF Top
    <2>2. i \in 1 .. Len(r) + Len(t) /\ i \in 1 .. Len(r)
      BY <1>1, <1>5, <2>1
    <2> QED
      BY <1>5, <1>6, <1>7, <2>1, <2>2 DEF ToSet
  <1>10. S \subseteq ToSet(r \o t)
    <2> SUFFICES ASSUME NEW i \in 1 .. Len(t)
                 PROVE  t[i] \in ToSet(r \o t)
      BY <1>1 DEF ToSet
    <2>1. Len(r) + i \in 1 .. Len(r) + Len(t)
      BY <1>1, <1>5
    <2> QED
      BY <1>6, <1>8, <2>1 DEF ToSet
  <1>11. ToSet(r \o t) \subseteq ToSet(stack) \cup S
    <2> SUFFICES ASSUME NEW i \in 1 .. Len(r) + Len(t)
                 PROVE  (r \o t)[i] \in ToSet(stack) \cup S
      BY <1>6 DEF ToSet
    <2>1. CASE i \in 1 .. Len(r)
      <3>1. i \in 1 .. Len(stack) - 1 /\ (r \o t)[i] = stack[i]
        BY <1>5, <1>7, <2>1
      <3>2. i \in DOMAIN stack
        BY <1>2, <3>1
      <3> QED
        BY <3>1, <3>2 DEF ToSet
    <2>2. CASE i \notin 1 .. Len(r)
      <3> DEFINE j == i - Len(r)
      <3>1. j \in 1 .. Len(t) /\ i = Len(r) + j
        BY <1>1, <1>5, <2>2
      <3>2. (r \o t)[i] = t[j] /\ j \in DOMAIN t
        BY <1>1, <1>8, <3>1
      <3> QED
        BY <1>1, <3>2 DEF ToSet
    <2> QED
      BY <2>1, <2>2
  <1> QED
    BY <1>3, <1>6, <1>9, <1>10, <1>11 DEF r, t

-----------------------------------------------------------------------------
(* Walks.                                                                  *)

LEMMA MarkedStart ==
  ASSUME NEW S, NEW f
  PROVE  Marked(S, S, f, S)
  BY DEF Marked

LEMMA MarkedStep ==
  ASSUME NEW C \in SUBSET Node, NEW S, NEW f \in [Node -> SUBSET Node], NEW todo, Marked(C, S, f, todo),
         NEW n \in todo, NEW next,
         todo \ {n} \subseteq next, f[n] \ C \subseteq next, next \subseteq todo \cup (f[n] \ C)
  PROVE  Marked(C \cup (f[n] \ C), S, f, next)
  BY DEF Marked

LEMMA Maps == Forth \in [Node -> SUBSET Node] /\ Back \in [Node -> SUBSET Node]
  BY DEF Forth, Back, Succs, Preds

\* A finished walk has marked the least closed set.
LEMMA MarkedForth ==
  ASSUME NEW C \in SUBSET Node, NEW S, Marked(C, S, Forth, {})
  PROVE  C = Closure(S, LAMBDA n : Succs(p, n))
  <1> DEFINE Closed(D) == S \subseteq D /\ \A n \in D : Succs(p, n) \subseteq D
             Least(D)  == Closed(D) /\ \A E \in SUBSET Node : Closed(E) => D \subseteq E
  <1>1. \A D \in SUBSET Node : Closed(D) <=> S \subseteq D /\ \A n \in D : Forth[n] \subseteq D
    BY DEF Forth
  <1>2. Least(C)
    BY <1>1 DEF Marked
  <1> DEFINE L == CHOOSE D \in SUBSET Node : Least(D)
  <1>3. L \in SUBSET Node /\ Least(L)
    <2> HIDE DEF Least
    <2> QED
      BY <1>2
  <1> HIDE DEF L
  <1>4. C \subseteq L /\ L \subseteq C
    BY <1>2, <1>3
  <1>5. C = L
    BY <1>4
  <1> QED
    BY <1>5 DEF Closure, L

LEMMA MarkedBack ==
  ASSUME NEW C \in SUBSET Node, NEW S, Marked(C, S, Back, {})
  PROVE  C = Closure(S, LAMBDA n : Preds(p, n))
  <1> DEFINE Closed(D) == S \subseteq D /\ \A n \in D : Preds(p, n) \subseteq D
             Least(D)  == Closed(D) /\ \A E \in SUBSET Node : Closed(E) => D \subseteq E
  <1>1. \A D \in SUBSET Node : Closed(D) <=> S \subseteq D /\ \A n \in D : Back[n] \subseteq D
    BY DEF Back
  <1>2. Least(C)
    BY <1>1 DEF Marked
  <1> DEFINE L == CHOOSE D \in SUBSET Node : Least(D)
  <1>3. L \in SUBSET Node /\ Least(L)
    <2> HIDE DEF Least
    <2> QED
      BY <1>2
  <1> HIDE DEF L
  <1>4. C \subseteq L /\ L \subseteq C
    BY <1>2, <1>3
  <1>5. C = L
    BY <1>4
  <1> QED
    BY <1>5 DEF Closure, L

-----------------------------------------------------------------------------
(* Kahn's algorithm.                                                       *)

\* A node waits for nothing when its predecessors are ordered.
LEMMA WaitsForNothing ==
  ASSUME p \in PlanType, NEW n \in Node
  PROVE  Waiting(n) = {} <=> Preds(p, n) \subseteq Ordered
  BY EdgeEnds DEF Waiting, Preds

\* The ordered nodes are distinct, and each comes after its predecessors.
LEMMA OrderedAreClosed ==
  ASSUME TypeOK, OrderIsLeast, NEW n \in Ordered
  PROVE  n \in Node /\ Preds(p, n) \subseteq Ordered
  <1>1. PICK i \in DOMAIN order : n = order[i]
    BY DEF Ordered, ToSet
  <1> DEFINE before == {order[j] : j \in 1 .. i - 1}
  <1>2. n \in Node \ before /\ Preds(p, n) \subseteq before
    BY <1>1 DEF OrderIsLeast
  <1>3. DOMAIN order = 1 .. Len(order) /\ Len(order) \in Nat
    <2>1. order \in Seq(Node)
      BY DEF TypeOK
    <2> QED
      BY <2>1
  <1>4. before \subseteq Ordered
    BY <1>1, <1>3 DEF Ordered, ToSet
  <1> QED
    BY <1>2, <1>4
LEMMA Appended ==
  ASSUME NEW s \in Seq(Node), NEW x \in Node
  PROVE  /\ Append(s, x) \in Seq(Node)
         /\ Len(s) \in Nat
         /\ Len(Append(s, x)) = Len(s) + 1
         /\ DOMAIN s = 1 .. Len(s)
         /\ DOMAIN Append(s, x) = 1 .. Len(s) + 1
         /\ \A i \in 1 .. Len(s) : Append(s, x)[i] = s[i]
         /\ Append(s, x)[Len(s) + 1] = x
         /\ ToSet(Append(s, x)) = ToSet(s) \cup {x}
  <1>1. /\ Append(s, x) \in Seq(Node)
        /\ Len(s) \in Nat
        /\ Len(Append(s, x)) = Len(s) + 1
        /\ DOMAIN s = 1 .. Len(s)
    OBVIOUS
  <1>2. DOMAIN Append(s, x) = 1 .. Len(s) + 1
    BY <1>1
  <1>3. /\ \A i \in 1 .. Len(s) : Append(s, x)[i] = s[i]
        /\ Append(s, x)[Len(s) + 1] = x
    OBVIOUS
  <1> DEFINE a == Append(s, x)
  <1> HIDE DEF a
  <1>4. /\ DOMAIN a = 1 .. Len(s) + 1
        /\ \A i \in 1 .. Len(s) : a[i] = s[i]
        /\ a[Len(s) + 1] = x
    BY <1>2, <1>3 DEF a
  <1>5. ToSet(a) \subseteq ToSet(s) \cup {x}
    <2> SUFFICES ASSUME NEW i \in 1 .. Len(s) + 1
                 PROVE  a[i] \in ToSet(s) \cup {x}
      BY <1>4 DEF ToSet
    <2>1. i \in 1 .. Len(s) \/ i = Len(s) + 1
      BY <1>1
    <2> QED
      BY <1>1, <1>4, <2>1 DEF ToSet
  <1>6. ToSet(s) \cup {x} \subseteq ToSet(a)
    <2>1. \A i \in 1 .. Len(s) : i \in DOMAIN a /\ s[i] = a[i]
      BY <1>1, <1>4
    <2>2. Len(s) + 1 \in DOMAIN a
      BY <1>1, <1>4
    <2> QED
      BY <1>1, <1>4, <2>1, <2>2 DEF ToSet
  <1> QED
    BY <1>1, <1>2, <1>3, <1>5, <1>6 DEF a

\* Taking the edges from id away leaves the indegrees counts of waiting edges.
LEMMA WaitingAfter ==
  ASSUME p \in PlanType, NEW id \in Node \ Ordered, NEW n \in Node,
         p' = p, Ordered' = Ordered \cup {id}
  PROVE  /\ Cardinality(Waiting(n)') = Cardinality(Waiting(n)) - Edges(p, id, n)
         /\ Cardinality(Waiting(n)') \in Nat
         /\ Waiting(n)' = {} <=> Cardinality(Waiting(n)') = 0
         /\ Waiting(n)' = {} => Waiting(n) = {} \/ n \in Succs(p, id)
         /\ Waiting(n) = {} => Waiting(n)' = {}
  <1> DEFINE G == {e \in DOMAIN p.edges : From(p, e) = id /\ To(p, e) = n}
  <1>1. Waiting(n)' = Waiting(n) \ G
    BY DEF Waiting, To, From
  <1>2. Waiting(n) \cap G = G
    BY DEF Waiting
  <1>3. Waiting(n) \in SUBSET DOMAIN p.edges /\ Waiting(n) \ G \in SUBSET DOMAIN p.edges
    BY DEF Waiting
  <1>4. IsFiniteSet(Waiting(n)) /\ IsFiniteSet(Waiting(n) \ G) /\ Cardinality(Waiting(n) \ G) \in Nat
    BY <1>3, EdgesFinite
  <1>5. Cardinality(Waiting(n) \ G) = Cardinality(Waiting(n)) - Cardinality(G)
    BY <1>2, <1>4, FS_Difference
  <1>6. Waiting(n) \ G = {} <=> Cardinality(Waiting(n) \ G) = 0
    BY <1>4, FS_EmptySet
  <1>7. G # {} => n \in Succs(p, id)
    BY DEF Succs
  <1>8. Edges(p, id, n) = Cardinality(G)
    BY DEF Edges
  <1> HIDE DEF G
  <1> QED
    BY <1>1, <1>4, <1>5, <1>6, <1>7, <1>8

LEMMA QueueEnabled ==
  ASSUME p \in PlanType, Counted
  PROVE  queue = {n \in Node \ Ordered : Preds(p, n) \subseteq Ordered}
  BY WaitsForNothing DEF Counted

LEMMA OrderOneCounts ==
  ASSUME VInv, OrderOne
  PROVE  /\ order' \in Seq(Node) /\ indeg' \in [Node -> Nat] /\ queue' \in SUBSET Node
         /\ Counted'
         /\ HasEnds'
         /\ OrderIsLeast'
  <1> USE DEF VInv
  <1>1. TypeOK /\ Counted /\ HasEnds /\ OrderIsLeast
    BY DEF Loops, OrderOne
  <1>2. p \in PlanType /\ order \in Seq(Node) /\ queue \in SUBSET Node
    BY <1>1 DEF TypeOK
  <1>3. PICK id \in queue :
          /\ \A m \in queue : id <= m
          /\ order' = Append(order, id)
          /\ indeg' = [n \in Node |-> indeg[n] - Edges(p, id, n)]
          /\ queue' = (queue \ {id}) \cup {n \in Succs(p, id) : indeg'[n] = 0}
    BY DEF OrderOne
  <1>4. p' = p
    BY DEF OrderOne
  <1>5. id \in Node \ Ordered /\ Preds(p, id) \subseteq Ordered
    BY <1>1, <1>2, QueueEnabled
  <1>6. Ordered' = Ordered \cup {id}
    BY <1>2, <1>3, <1>5, Appended DEF Ordered
  <1>7. order' \in Seq(Node) /\ Len(order') = Len(order) + 1
    BY <1>2, <1>3, <1>5, Appended
  <1>8. \A n \in Node :
          /\ indeg'[n] = Cardinality(Waiting(n)')
          /\ indeg'[n] \in Nat
          /\ indeg'[n] = 0 <=> Waiting(n)' = {}
          /\ Waiting(n)' = {} => Waiting(n) = {} \/ n \in Succs(p, id)
          /\ Waiting(n) = {} => Waiting(n)' = {}
    BY <1>1, <1>2, <1>3, <1>4, <1>5, <1>6, WaitingAfter DEF Counted
  <1>9. indeg' \in [Node -> Nat]
    BY <1>3, <1>8
  <1>10. \A n \in Ordered : n \in Node /\ Preds(p, n) \subseteq Ordered
    BY <1>1, OrderedAreClosed
  <1>11. Succs(p, id) \subseteq Node \ Ordered'
    <2> SUFFICES ASSUME NEW n \in Succs(p, id)
                 PROVE  n \in Node \ Ordered'
      OBVIOUS
    <2>1. n \in Node /\ id \in Preds(p, n)
      BY <1>5 DEF Succs, Preds
    <2> QED
      BY <1>5, <1>6, <1>10, <2>1
  <1>12. queue' = {n \in Node \ Ordered' : Waiting(n)' = {}}
    BY <1>1, <1>3, <1>6, <1>8, <1>11 DEF Counted
  <1>13. Cardinality(Ordered') = Len(order')
    <2>1. IsFiniteSet(Ordered)
      BY <1>10, NodesFinite
    <2> QED
      BY <1>1, <1>5, <1>6, <1>7, <2>1, FS_AddElement DEF Counted
  <1>14. Counted'
    BY <1>8, <1>12, <1>13 DEF Counted
  <1>15. HasEnds'
    <2>1. ASSUME NEW S \in SUBSET Node, S \cap Ordered' # {}
          PROVE  \E n \in S \cap Ordered' : Preds(p, n) \cap S = {}
      <3>1. CASE S \cap Ordered # {}
        BY <1>1, <1>6, <3>1 DEF HasEnds
      <3>2. CASE S \cap Ordered = {}
        BY <1>5, <1>6, <2>1, <3>2
      <3> QED
        BY <3>1, <3>2
    <2>2. ASSUME NEW S \in SUBSET Ordered', S # {}
          PROVE  \E n \in S : Succs(p, n) \cap S = {}
      <3>1. CASE id \in S
        BY <1>11, <3>1
      <3>2. CASE id \notin S
        BY <1>1, <1>6, <2>2, <3>2 DEF HasEnds
      <3> QED
        BY <3>1, <3>2
    <2>3. \A n : Preds(p', n) = Preds(p, n) /\ Succs(p', n) = Succs(p, n)
      BY <1>4
    <2> QED
      BY <1>4, <2>1, <2>2, <2>3 DEF HasEnds
  <1>16. OrderIsLeast'
    <2> SUFFICES ASSUME NEW i \in DOMAIN order'
                 PROVE  LET before  == {order'[j] : j \in 1 .. i - 1}
                            enabled == {n \in Node \ before : Preds(p, n) \subseteq before}
                        IN  order'[i] \in enabled /\ \A n \in enabled : order'[i] <= n
      BY <1>4 DEF OrderIsLeast
    <2>1. /\ Len(order) \in Nat
          /\ DOMAIN order = 1 .. Len(order)
          /\ DOMAIN order' = 1 .. Len(order) + 1
          /\ \A j \in 1 .. Len(order) : order'[j] = order[j]
          /\ order'[Len(order) + 1] = id
      BY <1>2, <1>3, <1>5, Appended
    <2>2. CASE i \in 1 .. Len(order)
      <3>1. \A j \in 1 .. i - 1 : order'[j] = order[j]
        BY <2>1, <2>2
      <3>2. {order'[j] : j \in 1 .. i - 1} = {order[j] : j \in 1 .. i - 1}
        BY <3>1
      <3> QED
        BY <1>1, <2>1, <2>2, <3>2 DEF OrderIsLeast
    <2>3. CASE i = Len(order) + 1
      <3>1. 1 .. i - 1 = DOMAIN order
        BY <2>1, <2>3
      <3>2. {order'[j] : j \in 1 .. i - 1} = Ordered
        BY <2>1, <3>1 DEF Ordered, ToSet
      <3>3. queue = {n \in Node \ Ordered : Preds(p, n) \subseteq Ordered}
        BY <1>1, <1>2, QueueEnabled
      <3> QED
        BY <1>3, <2>1, <2>3, <3>2, <3>3
    <2> QED
      BY <2>1, <2>2, <2>3
  <1> QED
    BY <1>7, <1>9, <1>12, <1>14, <1>15, <1>16
-----------------------------------------------------------------------------
(* VInv is inductive.                                                      *)

LEMMA InitKeeps == Init => VInv
  <1> SUFFICES ASSUME Init PROVE VInv
    OBVIOUS
  <1>1. <<>> \in Seq(Node) /\ <<>> \in Seq(Node \X Node)
    OBVIOUS
  <1>2. TypeOK
    BY <1>1 DEF Init, TypeOK, PlanType
  <1> QED
    BY <1>2 DEF VInv, Init, Loops, OrderIsLeast

LEMMA BeginsKeeps ==
  ASSUME VInv, NEW q \in PlanType, NEW b \in SUBSET Node, CheckBegins(q, b)
  PROVE  VInv'
  <1>1. /\ TypeOK
        /\ p' = q /\ broken' = b /\ pc' = "kahn"
        /\ indeg' = [n \in Node |-> InDegree(q, n)]
        /\ queue' = Entries(q)
        /\ order' = <<>> /\ stack' = <<>> /\ fromEntry' = {} /\ toExit' = {} /\ problems' = {}
    BY DEF VInv, CheckBegins, Loops
  <1>2. Ordered' = {}
    BY <1>1 DEF Ordered, ToSet
  <1>3. ASSUME NEW n \in Node
        PROVE  /\ InDegree(q, n) = Cardinality(Waiting(n)')
               /\ InDegree(q, n) \in Nat
               /\ Waiting(n)' = {} <=> Preds(q, n) = {}
    <2> DEFINE In == {e \in DOMAIN q.edges : To(q, e) = n}
    <2>1. Waiting(n)' = In
      BY <1>1, <1>2 DEF Waiting, To, From
    <2>2. Cardinality(In) \in Nat
      BY EdgesFinite
    <2>3. In = {} <=> Preds(q, n) = {}
      BY EdgeEnds DEF Preds
    <2> QED
      BY <2>1, <2>2, <2>3 DEF InDegree
  <1>4. TypeOK'
    <2>1. indeg' \in [Node -> Nat]
      BY <1>1, <1>3
    <2>2. queue' \in SUBSET Node
      BY <1>1 DEF Entries
    <2>3. <<>> \in Seq(Node)
      OBVIOUS
    <2> QED
      BY <1>1, <2>1, <2>2, <2>3 DEF TypeOK
  <1>5. Counted'
    BY <1>1, <1>2, <1>3, FS_EmptySet DEF Counted, Entries
  <1>6. HasEnds'
    BY <1>2 DEF HasEnds
  <1>7. OrderIsLeast'
    BY <1>1 DEF OrderIsLeast
  <1> QED
    BY <1>1, <1>4, <1>5, <1>6, <1>7 DEF VInv, Loops

\* What an action that leaves the order alone keeps.
LEMMA OrderStays ==
  ASSUME VInv, pc # "idle", UNCHANGED <<p, indeg, queue, order>>
  PROVE  Counted' /\ HasEnds' /\ OrderIsLeast'
  <1>1. Counted /\ HasEnds /\ OrderIsLeast
    BY DEF VInv, Loops
  <1>2. Ordered' = Ordered /\ \A n : Waiting(n)' = Waiting(n)
    BY DEF Ordered, Waiting
  <1>3. Counted'
    BY <1>1, <1>2 DEF Counted
  <1>4. HasEnds'
    BY <1>1, <1>2 DEF HasEnds
  <1>5. OrderIsLeast'
    BY <1>1 DEF OrderIsLeast
  <1> QED
    BY <1>3, <1>4, <1>5

\* A walk that is over stays as it is.
LEMMA ForthStays ==
  ASSUME Marked(fromEntry, Entries(p), Forth, {}), UNCHANGED <<p, fromEntry>>
  PROVE  Marked(fromEntry, Entries(p), Forth, {})'
  BY DEF Marked, Forth

LEMMA BackStays ==
  ASSUME Marked(toExit, Exits(p), Back, {}), UNCHANGED <<p, toExit>>
  PROVE  Marked(toExit, Exits(p), Back, {})'
  BY DEF Marked, Back

LEMMA OrderOneKeeps ==
  ASSUME VInv, OrderOne
  PROVE  VInv'
  <1>1. Counted' /\ HasEnds' /\ OrderIsLeast'
    BY OrderOneCounts
  <1>2. TypeOK'
    BY OrderOneCounts DEF VInv, TypeOK, OrderOne
  <1>3. Loops'
    BY <1>1 DEF VInv, Loops, OrderOne
  <1> QED
    BY <1>1, <1>2, <1>3 DEF VInv

LEMMA OrderEndsKeeps ==
  ASSUME VInv, OrderEnds
  PROVE  VInv'
  <1>1. Counted' /\ HasEnds' /\ OrderIsLeast'
    BY OrderStays DEF OrderEnds
  <1>2. Entries(p) \in SUBSET Node
    BY DEF Entries
  <1>3. stack' \in Seq(Node) /\ ToSet(stack') = Entries(p)
    BY <1>2, PushedRange DEF OrderEnds
  <1>4. TypeOK'
    <2>1. problems' \subseteq {"cycle", "unreachable", "dead", "join", "contract", "side effect"} \X (0 .. N)
      <3>1. 0 \in 0 .. N
        BY NAssumption
      <3>2. problems' = {<<"cycle", 0>>} \/ problems' = {}
        BY DEF OrderEnds
      <3>3. <<"cycle", 0>> \in {"cycle", "unreachable", "dead", "join", "contract", "side effect"} \X (0 .. N)
        BY <3>1
      <3> QED
        BY <3>2, <3>3, Zenon
    <2> QED
      BY <1>2, <1>3, <2>1 DEF VInv, TypeOK, OrderEnds
  <1>5. Marked(fromEntry, Entries(p), Forth, ToSet(stack))'
    BY <1>3, MarkedStart DEF OrderEnds, Marked
  <1>6. Loops'
    BY <1>1, <1>5 DEF VInv, Loops, OrderEnds, CycleReport
  <1> QED
    BY <1>1, <1>4, <1>6 DEF VInv

LEMMA WalkForwardKeeps ==
  ASSUME VInv, WalkForward
  PROVE  VInv'
  <1>1. Counted' /\ HasEnds' /\ OrderIsLeast'
    BY OrderStays DEF WalkForward
  <1> DEFINE new == Succs(p, Top) \ fromEntry
  <1>2. /\ TypeOK /\ pc = "forward" /\ stack # <<>>
        /\ fromEntry' = fromEntry \cup new /\ stack' = Rest \o Pushed(new)
        /\ Marked(fromEntry, Entries(p), Forth, ToSet(stack))
    BY DEF VInv, Loops, WalkForward
  <1>3. new \in SUBSET Node /\ fromEntry \in SUBSET Node /\ stack \in Seq(Node)
    BY <1>2 DEF TypeOK, Succs
  <1>4. /\ Top \in Node /\ Top \in ToSet(stack) /\ stack' \in Seq(Node)
        /\ ToSet(stack) \ {Top} \subseteq ToSet(stack') /\ new \subseteq ToSet(stack')
        /\ ToSet(stack') \subseteq ToSet(stack) \cup new
    BY <1>2, <1>3, Visited
  <1>5. TypeOK'
    BY <1>2, <1>3, <1>4 DEF TypeOK, WalkForward
  <1>6. new = Forth[Top] \ fromEntry
    BY <1>4 DEF Forth
  <1>7. Marked(fromEntry', Entries(p), Forth, ToSet(stack'))
    <2> HIDE DEF new
    <2> QED
      BY <1>2, <1>3, <1>4, <1>6, Maps, MarkedStep
  <1>8. Marked(fromEntry, Entries(p), Forth, ToSet(stack))'
    <2>1. p' = p
      BY DEF WalkForward
    <2>2. Entries(p)' = Entries(p) /\ Forth' = Forth
      BY <2>1 DEF Entries, Forth, Succs, Preds
    <2> QED
      BY <1>7, <2>2 DEF Marked
  <1>9. Loops'
    BY <1>1, <1>8 DEF VInv, Loops, WalkForward, CycleReport
  <1> QED
    BY <1>1, <1>5, <1>9 DEF VInv

LEMMA ForwardEndsKeeps ==
  ASSUME VInv, ForwardEnds
  PROVE  VInv'
  <1>1. Counted' /\ HasEnds' /\ OrderIsLeast'
    BY OrderStays DEF ForwardEnds
  <1>2. Exits(p) \in SUBSET Node
    BY DEF Exits
  <1>3. stack' \in Seq(Node) /\ ToSet(stack') = Exits(p)
    BY <1>2, PushedRange DEF ForwardEnds
  <1>4. TypeOK'
    BY <1>2, <1>3 DEF VInv, TypeOK, ForwardEnds
  <1>5. Marked(toExit, Exits(p), Back, ToSet(stack))'
    BY <1>3, MarkedStart DEF ForwardEnds, Marked
  <1>6. Marked(fromEntry, Entries(p), Forth, {})'
    <2>1. ToSet(stack) = {}
      BY DEF ForwardEnds, ToSet
    <2>2. Marked(fromEntry, Entries(p), Forth, {})
      BY <2>1 DEF VInv, Loops, ForwardEnds
    <2> QED
      BY <2>2, ForthStays DEF ForwardEnds
  <1>7. Loops'
    BY <1>1, <1>5, <1>6 DEF VInv, Loops, ForwardEnds, CycleReport
  <1> QED
    BY <1>1, <1>4, <1>7 DEF VInv

LEMMA WalkBackwardKeeps ==
  ASSUME VInv, WalkBackward
  PROVE  VInv'
  <1>1. Counted' /\ HasEnds' /\ OrderIsLeast'
    BY OrderStays DEF WalkBackward
  <1> DEFINE new == Preds(p, Top) \ toExit
  <1>2. /\ TypeOK /\ pc = "backward" /\ stack # <<>>
        /\ toExit' = toExit \cup new /\ stack' = Rest \o Pushed(new)
        /\ Marked(toExit, Exits(p), Back, ToSet(stack))
        /\ Marked(fromEntry, Entries(p), Forth, {})
    BY DEF VInv, Loops, WalkBackward
  <1>3. new \in SUBSET Node /\ toExit \in SUBSET Node /\ stack \in Seq(Node)
    BY <1>2 DEF TypeOK, Preds
  <1>4. /\ Top \in Node /\ Top \in ToSet(stack) /\ stack' \in Seq(Node)
        /\ ToSet(stack) \ {Top} \subseteq ToSet(stack') /\ new \subseteq ToSet(stack')
        /\ ToSet(stack') \subseteq ToSet(stack) \cup new
    BY <1>2, <1>3, Visited
  <1>5. TypeOK'
    BY <1>2, <1>3, <1>4 DEF TypeOK, WalkBackward
  <1>6. new = Back[Top] \ toExit
    BY <1>4 DEF Back
  <1>7. Marked(toExit', Exits(p), Back, ToSet(stack'))
    <2> HIDE DEF new
    <2> QED
      BY <1>2, <1>3, <1>4, <1>6, Maps, MarkedStep
  <1>8. Marked(toExit, Exits(p), Back, ToSet(stack))'
    <2>1. p' = p
      BY DEF WalkBackward
    <2>2. Exits(p)' = Exits(p) /\ Back' = Back
      BY <2>1 DEF Exits, Back, Succs, Preds
    <2> QED
      BY <1>7, <2>2 DEF Marked
  <1>9. Marked(fromEntry, Entries(p), Forth, {})'
    BY <1>2, ForthStays DEF WalkBackward
  <1>10. Loops'
    BY <1>1, <1>8, <1>9 DEF VInv, Loops, WalkBackward, CycleReport
  <1> QED
    BY <1>1, <1>5, <1>10 DEF VInv

LEMMA ReportKeeps ==
  ASSUME VInv, Report
  PROVE  VInv'
  <1>1. Counted' /\ HasEnds' /\ OrderIsLeast'
    BY OrderStays DEF Report
  <1>2. TypeOK
    BY DEF VInv
  <1>3. JoinProblems \in SUBSET Node /\ SideEffectProblems \in SUBSET Node /\ broken \in SUBSET Node
    BY <1>2 DEF JoinProblems, SideEffectProblems, TypeOK
  <1>4. Node \subseteq 0 .. N
    BY NAssumption DEF Node
  <1>5. TypeOK'
    <2>1. problems' \subseteq {"cycle", "unreachable", "dead", "join", "contract", "side effect"} \X (0 .. N)
      <3> DEFINE T == {"cycle", "unreachable", "dead", "join", "contract", "side effect"} \X (0 .. N)
      <3>1. problems \subseteq T
        BY <1>2 DEF TypeOK
      <3>2. ASSUME NEW tag \in {"unreachable", "dead", "join", "contract", "side effect"},
                   NEW S \in SUBSET Node
            PROVE  {<<tag, n>> : n \in S} \subseteq T
        <4>1. ASSUME NEW n \in S
              PROVE  <<tag, n>> \in T
          <5>1. n \in 0 .. N
            BY <1>4
          <5> QED
            BY <5>1
        <4> HIDE DEF T
        <4> QED
          BY <4>1, Zenon
      <3>3. Node \ fromEntry \in SUBSET Node /\ Node \ toExit \in SUBSET Node
        OBVIOUS
      <3> HIDE DEF T
      <3>4. /\ {<<"unreachable", n>> : n \in Node \ fromEntry} \subseteq T
            /\ {<<"dead", n>> : n \in Node \ toExit} \subseteq T
            /\ {<<"join", n>> : n \in JoinProblems} \subseteq T
            /\ {<<"contract", n>> : n \in broken} \subseteq T
            /\ {<<"side effect", n>> : n \in SideEffectProblems} \subseteq T
        BY <1>3, <3>2, <3>3, Zenon
      <3>5. problems' \subseteq T
        BY <3>1, <3>4, Zenon DEF Report
      <3> QED
        BY <3>5 DEF T
    <2> QED
      BY <1>2, <2>1 DEF TypeOK, Report
  <1>6. Marked(toExit, Exits(p), Back, {})'
    <2>1. stack = <<>>
      BY DEF Report
    <2>2. ToSet(stack) = {}
      BY <2>1 DEF ToSet
    <2>3. Marked(toExit, Exits(p), Back, {})
      BY <2>2 DEF VInv, Loops, Report
    <2> QED
      BY <2>3, BackStays DEF Report
  <1>7. Marked(fromEntry, Entries(p), Forth, {})'
    BY ForthStays DEF VInv, Loops, Report
  <1>8. Loops'
    BY <1>1, <1>6, <1>7 DEF VInv, Loops, Report, CycleReport, JoinProblems, SideEffectProblems
  <1> QED
    BY <1>1, <1>5, <1>8 DEF VInv

LEMMA StepKeeps ==
  ASSUME VInv, CheckStep
  PROVE  VInv'
  BY OrderOneKeeps, OrderEndsKeeps, WalkForwardKeeps, ForwardEndsKeeps, WalkBackwardKeeps, ReportKeeps
     DEF CheckStep

LEMMA StutterKeeps ==
  ASSUME VInv, UNCHANGED vars
  PROVE  VInv'
  <1> USE DEF VInv, vars
  <1>1. TypeOK'
    BY DEF TypeOK
  <1>2. OrderIsLeast'
    BY DEF OrderIsLeast
  <1>3. pc' # "idle" => Counted' /\ HasEnds'
    BY OrderStays
  <1>4. \A C, S, todo : /\ Marked(C, S, Forth, todo) => Marked(C, S, Forth', todo)
                        /\ Marked(C, S, Back, todo) => Marked(C, S, Back', todo)
    <2>1. Forth' = Forth /\ Back' = Back
      BY DEF Forth, Back
    <2> QED
      BY <2>1
  <1>5. JoinProblems' = JoinProblems /\ SideEffectProblems' = SideEffectProblems /\ CycleReport' = CycleReport
    BY DEF JoinProblems, SideEffectProblems, CycleReport
  <1>6. Loops'
    BY <1>3, <1>4, <1>5 DEF Loops
  <1> QED
    BY <1>1, <1>2, <1>6

-----------------------------------------------------------------------------
(* What VInv says of Check's verdict.                                      *)

LEMMA OrderedAll ==
  ASSUME VInv, pc \notin {"idle", "kahn"}
  PROVE  /\ Len(order) = N <=> Ordered = Node
         /\ Acyclic(p) <=> Ordered = Node
  <1>1. TypeOK /\ OrderIsLeast /\ Counted /\ HasEnds /\ queue = {} /\ p \in PlanType
    BY DEF VInv, Loops, TypeOK
  <1>2. Ordered \in SUBSET Node
    BY <1>1, OrderedAreClosed
  <1>3. IsFiniteSet(Node) /\ Cardinality(Node) = N
    BY NAssumption, FS_Interval DEF Node
  <1>4. Len(order) = N <=> Ordered = Node
    BY <1>1, <1>2, <1>3, FS_Subset DEF Counted
  <1>5. ASSUME Ordered = Node
        PROVE  Acyclic(p)
    BY <1>1, <1>5 DEF HasEnds, Acyclic
  <1>6. ASSUME Acyclic(p)
        PROVE  Ordered = Node
    <2> DEFINE S == Node \ Ordered
    <2> SUFFICES ASSUME S # {} PROVE FALSE
      BY <1>2
    <2>1. PICK n \in S : Preds(p, n) \cap S = {}
      BY <1>6 DEF Acyclic
    <2>2. Preds(p, n) \subseteq Ordered
      BY <2>1 DEF Preds
    <2>3. n \in queue
      BY <1>1, <2>1, <2>2, QueueEnabled
    <2> QED
      BY <1>1, <2>3
  <1> QED
    BY <1>4, <1>5, <1>6

\* On an acyclic plan the walks mark every node.
LEMMA WalksMarkAll ==
  ASSUME VInv, pc = "done", Acyclic(p)
  PROVE  fromEntry = Node /\ toExit = Node
  <1>1. /\ Marked(fromEntry, Entries(p), Forth, {}) /\ Marked(toExit, Exits(p), Back, {})
        /\ HasEnds /\ fromEntry \in SUBSET Node /\ toExit \in SUBSET Node
    BY DEF VInv, Loops, TypeOK
  <1>2. Ordered = Node
    BY OrderedAll
  <1>3. fromEntry = Node
    <2> DEFINE S == Node \ fromEntry
    <2> SUFFICES ASSUME S # {} PROVE FALSE
      BY <1>1
    <2>1. PICK n \in S : Preds(p, n) \cap S = {}
      BY DEF Acyclic
    <2>2. Preds(p, n) # {}
      BY <1>1, <2>1 DEF Marked, Entries
    <2>3. PICK m \in Preds(p, n) : m \in fromEntry
      BY <2>1, <2>2 DEF Preds
    <2>4. m \in Node /\ n \in Forth[m]
      BY <2>1, <2>3 DEF Forth, Preds, Succs
    <2> QED
      BY <1>1, <2>1, <2>3, <2>4 DEF Marked
  <1>4. toExit = Node
    <2> DEFINE S == Node \ toExit
    <2> SUFFICES ASSUME S # {} PROVE FALSE
      BY <1>1
    <2>1. PICK n \in S : Succs(p, n) \cap S = {}
      BY <1>1, <1>2 DEF HasEnds
    <2>2. Succs(p, n) # {}
      BY <1>1, <2>1 DEF Marked, Exits
    <2>3. PICK m \in Succs(p, n) : m \in toExit
      BY <2>1, <2>2 DEF Succs
    <2>4. m \in Node /\ n \in Back[m]
      BY <2>1, <2>3 DEF Back, Preds, Succs
    <2> QED
      BY <1>1, <2>1, <2>3, <2>4 DEF Marked
  <1> QED
    BY <1>3, <1>4

LEMMA AtLeastTwo ==
  ASSUME NEW S, IsFiniteSet(S), Cardinality(S) \in Nat
  PROVE  Cardinality(S) < 2 <=> \A x, y \in S : x = y
  <1>1. ASSUME Cardinality(S) < 2
        PROVE  \A x, y \in S : x = y
    <2>1. Cardinality(S) = 0 \/ Cardinality(S) = 1
      BY <1>1
    <2> QED
      BY <2>1, FS_EmptySet, FS_Singleton
  <1>2. ASSUME \A x, y \in S : x = y
        PROVE  Cardinality(S) < 2
    <2>1. CASE S = {}
      BY <2>1, FS_EmptySet
    <2>2. CASE S # {}
      <3>1. PICK x \in S : TRUE
        BY <2>2
      <3>2. S = {x}
        BY <1>2
      <3> QED
        BY <3>2, FS_Singleton
    <2> QED
      BY <2>1, <2>2
  <1> QED
    BY <1>1, <1>2

LEMMA JoinsReported ==
  ASSUME p \in PlanType
  PROVE  JoinProblems = {} <=> JoinsConsistent(p)
  <1>1. ASSUME NEW n \in Node
        PROVE  InDegree(p, n) < 2 <=> ~ \E d, e \in DOMAIN p.edges : d # e /\ To(p, d) = n /\ To(p, e) = n
    <2> DEFINE In == {e \in DOMAIN p.edges : To(p, e) = n}
    <2>1. IsFiniteSet(In) /\ Cardinality(In) \in Nat
      BY EdgesFinite
    <2>2. Cardinality(In) < 2 <=> \A x, y \in In : x = y
      BY <2>1, AtLeastTwo
    <2> QED
      BY <2>2 DEF InDegree
  <1> QED
    BY <1>1 DEF JoinProblems, JoinsConsistent

\* Two edges into a node come from two nodes, or from one twice.
LEMMA JoinsAreRaces ==
  ASSUME p \in PlanType
  PROVE  JoinsConsistent(p) <=>
           \A n \in Node : p.join[n] = "any_of" => RacesTwo(p, n) \/ Doubled(p, n)
  <1>1. \A e \in DOMAIN p.edges : From(p, e) \in Node
    BY DEF PlanType, From
  <1>2. ASSUME NEW n \in Node
        PROVE  (\E d, e \in DOMAIN p.edges : d # e /\ To(p, d) = n /\ To(p, e) = n)
                 <=> RacesTwo(p, n) \/ Doubled(p, n)
    <2>1. ASSUME NEW d \in DOMAIN p.edges, NEW e \in DOMAIN p.edges, d # e, To(p, d) = n, To(p, e) = n
          PROVE  RacesTwo(p, n) \/ Doubled(p, n)
      <3>1. From(p, d) \in Preds(p, n) /\ From(p, e) \in Preds(p, n)
        BY <1>1, <2>1 DEF Preds
      <3> QED
        BY <2>1, <3>1 DEF RacesTwo, Doubled
    <2>2. ASSUME RacesTwo(p, n)
          PROVE  \E d, e \in DOMAIN p.edges : d # e /\ To(p, d) = n /\ To(p, e) = n
      <3>1. PICK l, m \in Preds(p, n) : l # m
        BY <2>2 DEF RacesTwo
      <3>2. PICK d \in DOMAIN p.edges : From(p, d) = l /\ To(p, d) = n
        BY DEF Preds
      <3>3. PICK e \in DOMAIN p.edges : From(p, e) = m /\ To(p, e) = n
        BY DEF Preds
      <3> QED
        BY <3>1, <3>2, <3>3
    <2> QED
      BY <2>1, <2>2 DEF Doubled
  <1> QED
    BY <1>2 DEF JoinsConsistent

\* Check returns no problem exactly for what the Scheduler assumes of its plan.
AcceptsAccepted == pc = "done" => (problems = {} <=> Accepted(p) /\ broken = {})

LEMMA VerdictFollows ==
  ASSUME VInv
  PROVE  KahnDecides /\ WalksAreClosures /\ AcceptsExactly /\ AcceptsAccepted
  <1>1. KahnDecides
    BY OrderedAll DEF KahnDecides
  <1>2. WalksAreClosures
    <2> SUFFICES ASSUME pc = "done"
                 PROVE  /\ fromEntry = Closure(Entries(p), LAMBDA n : Succs(p, n))
                        /\ toExit = Closure(Exits(p), LAMBDA n : Preds(p, n))
      BY DEF WalksAreClosures
    <2> QED
      BY MarkedForth, MarkedBack DEF VInv, Loops, TypeOK
  <1>3. AcceptsAccepted
    <2> SUFFICES ASSUME pc = "done"
                 PROVE  problems = {} <=> Accepted(p) /\ broken = {}
      BY DEF AcceptsAccepted
    <2>1. problems = {} <=> /\ Len(order) = N
                            /\ fromEntry = Node
                            /\ toExit = Node
                            /\ JoinProblems = {}
                            /\ broken = {}
                            /\ SideEffectProblems = {}
      <3>1. \A tag, S : {<<tag, n>> : n \in S} = {} <=> S = {}
        OBVIOUS
      <3>2. CycleReport = {} <=> Len(order) = N
        BY DEF CycleReport
      <3>3. fromEntry \in SUBSET Node /\ toExit \in SUBSET Node
        BY DEF VInv, TypeOK
      <3>4. /\ Node \ fromEntry = {} <=> fromEntry = Node
            /\ Node \ toExit = {} <=> toExit = Node
        BY <3>3
      <3>5. problems = CycleReport
              \cup {<<"unreachable", n>> : n \in Node \ fromEntry}
              \cup {<<"dead", n>> : n \in Node \ toExit}
              \cup {<<"join", n>> : n \in JoinProblems}
              \cup {<<"contract", n>> : n \in broken}
              \cup {<<"side effect", n>> : n \in SideEffectProblems}
        BY DEF VInv, Loops
      <3>6. problems = {} <=>
              /\ CycleReport = {}
              /\ {<<"unreachable", n>> : n \in Node \ fromEntry} = {}
              /\ {<<"dead", n>> : n \in Node \ toExit} = {}
              /\ {<<"join", n>> : n \in JoinProblems} = {}
              /\ {<<"contract", n>> : n \in broken} = {}
              /\ {<<"side effect", n>> : n \in SideEffectProblems} = {}
        BY <3>5, Zenon
      <3> QED
        <4>1. {<<"unreachable", n>> : n \in Node \ fromEntry} = {} <=> Node \ fromEntry = {}
          OBVIOUS
        <4>2. {<<"dead", n>> : n \in Node \ toExit} = {} <=> Node \ toExit = {}
          OBVIOUS
        <4>3. {<<"join", n>> : n \in JoinProblems} = {} <=> JoinProblems = {}
          OBVIOUS
        <4>4. {<<"contract", n>> : n \in broken} = {} <=> broken = {}
          OBVIOUS
        <4>5. {<<"side effect", n>> : n \in SideEffectProblems} = {} <=> SideEffectProblems = {}
          OBVIOUS
        <4> QED
          BY <3>2, <3>4, <3>6, <4>1, <4>2, <4>3, <4>4, <4>5, Zenon
    <2>2. Len(order) = N <=> Acyclic(p)
      BY OrderedAll
    <2>3. JoinProblems = {} <=> JoinsConsistent(p)
      BY JoinsReported DEF VInv, TypeOK
    <2>4. SideEffectProblems = {} <=> SideEffectsConsistent(p)
      BY DEF SideEffectProblems, SideEffectsConsistent
    <2>5. Acyclic(p) => NoSelfLoops(p)
      <3> SUFFICES ASSUME Acyclic(p), NEW e \in DOMAIN p.edges, From(p, e) = To(p, e)
                   PROVE  FALSE
        BY DEF NoSelfLoops
      <3> DEFINE n == To(p, e)
      <3>1. n \in Node /\ n \in Preds(p, n)
        BY EdgeEnds DEF Preds, VInv, TypeOK
      <3>2. \E m \in {n} : Preds(p, m) \cap {n} = {}
        BY <3>1 DEF Acyclic
      <3> QED
        BY <3>1, <3>2
    <2>6. Acyclic(p) => fromEntry = Node /\ toExit = Node
      BY WalksMarkAll
    <2> QED
      BY <2>1, <2>2, <2>3, <2>4, <2>5, <2>6 DEF Accepted
  <1>4. AcceptsExactly
    <2>1. p \in PlanType
      BY DEF VInv, TypeOK
    <2> QED
      BY <1>3, <2>1, JoinsAreRaces DEF AcceptsAccepted, AcceptsExactly, Accepted
  <1> QED
    BY <1>1, <1>2, <1>3, <1>4

-----------------------------------------------------------------------------
(* Names and nodes.                                                        *)

\* In a file that BasicValidate lets through, names and nodes are one to one.
Bijective(d) ==
  /\ DOMAIN d.names = Node
  /\ \A i, j \in Node : d.names[i] = d.names[j] => i = j
  /\ \A e \in DOMAIN d.edges : d.edges[e][1] \in Named(d) /\ d.edges[e][2] \in Named(d)

LEMMA ValidIsBijective ==
  ASSUME NEW d \in Documents, BasicValidate(d)
  PROVE  Bijective(d)
  <1>1. d.names \in Seq(Name) /\ Len(d.names) \in {0, N}
    BY DocumentsAssumption DEF Document
  <1>2. DOMAIN d.names = 1 .. Len(d.names) /\ Len(d.names) = N
    BY <1>1 DEF BasicValidate
  <1>3. DOMAIN d.names = Node
    BY <1>2 DEF Node
  <1>4. \A i \in Node : \A j \in 1 .. i - 1 : d.names[j] # d.names[i]
    BY <1>3 DEF BasicValidate, NodeFine
  <1>5. ASSUME NEW i \in Node, NEW j \in Node, d.names[i] = d.names[j]
        PROVE  i = j
    <2>1. i \in 1 .. j - 1 \/ j \in 1 .. i - 1 \/ i = j
      BY NAssumption DEF Node
    <2> QED
      BY <1>4, <1>5, <2>1
  <1>6. \A e \in DOMAIN d.edges : d.edges[e][1] \in Named(d) /\ d.edges[e][2] \in Named(d)
    BY DEF BasicValidate, EdgeFine
  <1> QED
    BY <1>3, <1>5, <1>6 DEF Bijective

\* Looking up a name finds the one node that has it.
LEMMA LookupFinds ==
  ASSUME NEW d, Bijective(d)
  PROVE  /\ \A name \in Named(d) : Lookup(d, name) \in Node /\ d.names[Lookup(d, name)] = name
         /\ \A n \in Node : d.names[n] \in Named(d) /\ Lookup(d, d.names[n]) = n
  <1>1. ASSUME NEW n \in Node
        PROVE  Lookup(d, d.names[n]) = n
    <2> DEFINE Found(i) == d.names[i] = d.names[n] /\ \A j \in i + 1 .. N : d.names[j] # d.names[n]
    <2>1. \A j \in n + 1 .. N : j \in Node /\ j # n
      BY NAssumption DEF Node
    <2>2. Found(n)
      BY <2>1 DEF Bijective
    <2>3. \A i \in Node : Found(i) => i = n
      BY DEF Bijective
    <2> HIDE DEF Found
    <2>4. (CHOOSE i \in Node : Found(i)) = n
      BY <2>2, <2>3
    <2> QED
      BY <2>4 DEF Lookup, Found, Bijective
  <1> QED
    BY <1>1 DEF Named, Bijective

\* The edges of the plan are those of the file.
LEMMA IndexedEdges ==
  ASSUME NEW d \in Documents, Bijective(d)
  PROVE  /\ Indexed(d).edges \in Seq(Node \X Node)
         /\ DOMAIN Indexed(d).edges = DOMAIN d.edges
         /\ \A e \in DOMAIN d.edges :
              /\ From(Indexed(d), e) \in Node /\ d.names[From(Indexed(d), e)] = d.edges[e][1]
              /\ To(Indexed(d), e) \in Node /\ d.names[To(Indexed(d), e)] = d.edges[e][2]
  <1> DEFINE es == [e \in DOMAIN d.edges |-> <<Lookup(d, d.edges[e][1]), Lookup(d, d.edges[e][2])>>]
  <1>1. d.edges \in Seq(Name \X Name)
    BY DocumentsAssumption DEF Document
  <1>2. DOMAIN d.edges = 1 .. Len(d.edges) /\ Len(d.edges) \in Nat
    BY <1>1
  <1>3. Indexed(d).edges = es
    BY DEF Indexed
  <1>4. ASSUME NEW e \in DOMAIN d.edges
        PROVE  /\ Lookup(d, d.edges[e][1]) \in Node /\ d.names[Lookup(d, d.edges[e][1])] = d.edges[e][1]
               /\ Lookup(d, d.edges[e][2]) \in Node /\ d.names[Lookup(d, d.edges[e][2])] = d.edges[e][2]
    BY LookupFinds DEF Bijective
  <1>5. es \in Seq(Node \X Node)
    BY <1>2, <1>4
  <1> QED
    BY <1>3, <1>4, <1>5 DEF From, To

LEMMA IndexedType ==
  ASSUME NEW d \in Documents, BasicValidate(d)
  PROVE  Indexed(d) \in PlanType /\ d.broken \in SUBSET Node
  <1>1. Bijective(d) /\ DOMAIN d.names = Node
    BY ValidIsBijective DEF Bijective
  <1>2. /\ d.join \in [Node -> {"all_of", "any_of"}]
        /\ d.sideEffect \in [Node -> {"none", "destructive"}]
        /\ d.retryBudget \in [Node -> Int]
        /\ d.broken \in SUBSET Node
    BY DocumentsAssumption DEF Document
  <1>3. \A n \in Node : d.retryBudget[n] >= 0
    BY <1>1 DEF BasicValidate, NodeFine
  <1>4. d.retryBudget \in [Node -> Nat]
    BY <1>2, <1>3
  <1> QED
    BY <1>1, <1>2, <1>4, IndexedEdges DEF PlanType, Indexed

\* A set of natural numbers has a least member.
LEMMA LeastMember ==
  ASSUME NEW T, T \subseteq Nat, T # {}
  PROVE  \E x \in T : \A y \in T : ~ y < x
  <1>1. PICK x \in T : \A y \in T : <<y, x>> \notin OpToRel(<, Nat)
    BY NatLessThanWellFounded, WFMin
  <1>2. \A y \in T : y < x => <<y, x>> \in OpToRel(<, Nat)
    BY DEF OpToRel
  <1> QED
    BY <1>1, <1>2

LEMMA ShapedIsBijective ==
  ASSUME NEW d \in Documents, Shaped(d)
  PROVE  Bijective(d) /\ 0 \notin Named(d)
  <1>1. d.names \in Seq(Name) /\ Len(d.names) \in {0, N}
    BY DocumentsAssumption DEF Document
  <1>2. DOMAIN d.names = 1 .. Len(d.names)
    BY <1>1
  <1>3. Cardinality(Named(d) \ {0}) = N
    BY DEF Shaped
  <1>4. Len(d.names) = N
    <2> SUFFICES ASSUME Len(d.names) = 0 PROVE FALSE
      BY <1>1
    <2>1. Named(d) \ {0} = {}
      BY <1>2 DEF Named
    <2> QED
      BY <1>3, <2>1, FS_EmptySet, NAssumption
  <1>5. DOMAIN d.names = Node /\ IsFiniteSet(Node) /\ Cardinality(Node) = N
    BY <1>2, <1>4, NAssumption, FS_Interval DEF Node
  <1>6. d.names \in Surjection(Node, Named(d))
    <2>1. d.names \in [Node -> Named(d)]
      BY <1>1, <1>5 DEF Named
    <2>2. \A x \in Named(d) : \E i \in Node : d.names[i] = x
      BY <1>5 DEF Named
    <2> QED
      BY <2>1, <2>2 DEF Surjection
  <1>7. /\ IsFiniteSet(Named(d)) /\ Cardinality(Named(d)) <= N
        /\ Cardinality(Named(d)) = N <=> d.names \in Injection(Node, Named(d))
    BY <1>5, <1>6, FS_Surjection
  <1>8. 0 \notin Named(d)
    <2> SUFFICES ASSUME 0 \in Named(d) PROVE FALSE
      OBVIOUS
    <2>1. N = Cardinality(Named(d)) - 1 /\ Cardinality(Named(d)) \in Nat
      BY <1>3, <1>7, FS_RemoveElement, FS_CardinalityType
    <2> QED
      BY <1>7, <2>1, NAssumption
  <1>9. Named(d) \ {0} = Named(d)
    BY <1>8
  <1>10. d.names \in Injection(Node, Named(d))
    BY <1>3, <1>7, <1>9
  <1>11. \A i, j \in Node : d.names[i] = d.names[j] => i = j
    BY <1>5, <1>10 DEF Injection, IsInjective
  <1>12. \A e \in DOMAIN d.edges : d.edges[e][1] \in Named(d) /\ d.edges[e][2] \in Named(d)
    BY DEF Shaped
  <1> QED
    BY <1>5, <1>8, <1>11, <1>12 DEF Bijective

\* The validators let an admissible file through.
LEMMA AdmissibleIsAccepted ==
  ASSUME NEW d \in Documents, Admissible(d)
  PROVE  BasicValidate(d) /\ Accepted(Indexed(d)) /\ d.broken = {}
  <1> DEFINE q == Indexed(d)
  <1>1. Bijective(d) /\ 0 \notin Named(d) /\ DOMAIN d.names = Node
    BY ShapedIsBijective DEF Bijective, Admissible
  <1>2. /\ d.header /\ d.sound = Node /\ d.broken = {}
        /\ \A i \in Node : d.retryBudget[i] >= 0 /\ d.timeout[i] >= 0
        /\ \A name \in AnyOf(d) : Raced(d, name) \/ Repeated(d, name)
        /\ \A e \in DOMAIN d.edges : ~(d.edges[e][1] \in Destructive(d) /\ d.edges[e][2] \in AnyOf(d))
    BY DEF Admissible, Shaped
  <1>3. PICK place \in [Named(d) -> Node] :
          \A e \in DOMAIN d.edges :
            /\ {d.edges[e][1], d.edges[e][2]} \subseteq Named(d)
            /\ place[d.edges[e][1]] < place[d.edges[e][2]]
    BY DEF Admissible, Shaped
  <1>4. /\ DOMAIN q.edges = DOMAIN d.edges
        /\ \A e \in DOMAIN d.edges :
             /\ From(q, e) \in Node /\ d.names[From(q, e)] = d.edges[e][1]
             /\ To(q, e) \in Node /\ d.names[To(q, e)] = d.edges[e][2]
    BY <1>1, IndexedEdges
  <1>5. q.join = d.join /\ q.sideEffect = d.sideEffect
    BY DEF Indexed
  <1>6. \A n \in Node : d.names[n] \in Named(d) /\ place[d.names[n]] \in Nat
    BY <1>1, <1>3, NAssumption DEF Named, Node
  <1> HIDE DEF q
  <1>7. BasicValidate(d)
    <2>1. d.names # <<>>
      BY <1>1, NAssumption DEF Node
    <2>2. ASSUME NEW i \in Node
          PROVE  NodeFine(d, i)
      <3>1. \A j \in 1 .. i - 1 : j \in Node /\ j # i
        BY NAssumption DEF Node
      <3> QED
        BY <1>1, <1>2, <1>6, <3>1 DEF NodeFine, Bijective
    <2>3. ASSUME NEW e \in DOMAIN d.edges
          PROVE  EdgeFine(d, e)
      <3>1. place[d.edges[e][1]] \in Node /\ place[d.edges[e][1]] < place[d.edges[e][2]]
        BY <1>3
      <3>2. d.edges[e][1] # d.edges[e][2]
        BY <3>1, NAssumption DEF Node
      <3> QED
        BY <1>3, <3>2 DEF EdgeFine
    <2> QED
      BY <1>1, <1>2, <2>1, <2>2, <2>3 DEF BasicValidate
  <1>8. \A e \in DOMAIN d.edges : place[d.names[From(q, e)]] < place[d.names[To(q, e)]]
    BY <1>3, <1>4
  <1>9. NoSelfLoops(q)
    BY <1>4, <1>6, <1>8 DEF NoSelfLoops
  <1>10. Acyclic(q)
    <2> SUFFICES ASSUME NEW S \in SUBSET Node, S # {}
                 PROVE  \E n \in S : Preds(q, n) \cap S = {}
      BY DEF Acyclic
    <2> DEFINE T == {place[d.names[n]] : n \in S}
    <2>1. T \subseteq Nat /\ T # {}
      BY <1>6
    <2>2. PICK n \in S : \A m \in S : ~ place[d.names[m]] < place[d.names[n]]
      BY <2>1, LeastMember
    <2> QED
      BY <1>4, <1>8, <2>2 DEF Preds
  <1>11. JoinsConsistent(q)
    <2> SUFFICES ASSUME NEW n \in Node, d.join[n] = "any_of"
                 PROVE  \E x, y \in DOMAIN d.edges : x # y /\ To(q, x) = n /\ To(q, y) = n
      BY <1>4, <1>5 DEF JoinsConsistent
    <2>1. d.names[n] \in AnyOf(d)
      BY <1>1 DEF AnyOf
    <2>2. PICK x, y \in DOMAIN d.edges : x # y /\ d.edges[x][2] = d.names[n] /\ d.edges[y][2] = d.names[n]
      BY <1>2, <2>1 DEF Raced, Repeated
    <2>3. To(q, x) = n /\ To(q, y) = n
      BY <1>1, <1>4, <2>2 DEF Bijective
    <2> QED
      BY <2>2, <2>3
  <1>12. SideEffectsConsistent(q)
    <2> SUFFICES ASSUME NEW e \in DOMAIN d.edges,
                        d.sideEffect[From(q, e)] = "destructive", d.join[To(q, e)] = "any_of"
                 PROVE  FALSE
      BY <1>4, <1>5 DEF SideEffectsConsistent, IsDestructive, IsCandidate, Succs
    <2>1. d.edges[e][1] \in Destructive(d) /\ d.edges[e][2] \in AnyOf(d)
      BY <1>1, <1>4 DEF AnyOf, Destructive
    <2> QED
      BY <1>2, <2>1
  <1> QED
    BY <1>2, <1>7, <1>9, <1>10, <1>11, <1>12 DEF Accepted, q

\* Check was called with a file that BasicValidate lets through.
Admitted ==
  /\ doc \in Documents /\ BasicValidate(doc)
  /\ p = Indexed(doc) /\ broken = doc.broken
  /\ pc # "idle"

\* What Check lets through is admissible: the order that Kahn's algorithm found
\* places the names.
LEMMA CheckedIsAdmissible ==
  ASSUME VInv, Admitted, pc = "done", problems = {}
  PROVE  Admissible(doc)
  <1> DEFINE d == doc
             Place(n) == CHOOSE i \in Node : order[i] = n
             place == [name \in Named(d) |-> Place(Lookup(d, name))]
  <1>1. Bijective(d) /\ DOMAIN d.names = Node
    BY ValidIsBijective DEF Admitted, Bijective
  <1>2. Accepted(p) /\ broken = {}
    BY VerdictFollows DEF AcceptsAccepted
  <1>3. Ordered = Node /\ Len(order) = N
    BY <1>2, OrderedAll DEF Accepted
  <1>4. order \in Seq(Node) /\ OrderIsLeast
    BY DEF VInv, TypeOK
  <1>5. DOMAIN order = Node
    BY <1>3, <1>4 DEF Node
  <1>6. \A n \in Node : \E i \in Node : order[i] = n
    BY <1>3, <1>5 DEF Ordered, ToSet
  <1>7. ASSUME NEW i \in Node
        PROVE  /\ \A j \in 1 .. i - 1 : order[j] # order[i]
               /\ \A m \in Preds(p, order[i]) : \E j \in 1 .. i - 1 : order[j] = m
    <2> DEFINE before == {order[j] : j \in 1 .. i - 1}
    <2>1. order[i] \in Node \ before /\ Preds(p, order[i]) \subseteq before
      BY <1>4, <1>5 DEF OrderIsLeast
    <2> QED
      BY <2>1
  <1>8. \A i, j \in Node : order[i] = order[j] => i = j
    <2> SUFFICES ASSUME NEW i \in Node, NEW j \in Node, order[i] = order[j]
                 PROVE  i = j
      OBVIOUS
    <2>1. i \in 1 .. j - 1 \/ j \in 1 .. i - 1 \/ i = j
      BY NAssumption DEF Node
    <2> QED
      BY <1>7, <2>1
  <1>9. \A n \in Node : Place(n) \in Node /\ order[Place(n)] = n
    BY <1>6
  <1>10. /\ DOMAIN p.edges = DOMAIN d.edges
         /\ \A e \in DOMAIN d.edges :
              /\ From(p, e) \in Node /\ d.names[From(p, e)] = d.edges[e][1]
              /\ To(p, e) \in Node /\ d.names[To(p, e)] = d.edges[e][2]
    BY <1>1, IndexedEdges DEF Admitted
  <1>11. place \in [Named(d) -> Node]
    BY <1>1, <1>9, LookupFinds
  <1> HIDE DEF Place
  <1>12. ASSUME NEW e \in DOMAIN d.edges
         PROVE  /\ {d.edges[e][1], d.edges[e][2]} \subseteq Named(d)
                /\ place[d.edges[e][1]] < place[d.edges[e][2]]
    <2>1. d.edges[e][1] \in Named(d) /\ d.edges[e][2] \in Named(d)
      BY <1>1 DEF Bijective
    <2>2. Lookup(d, d.edges[e][1]) = From(p, e) /\ Lookup(d, d.edges[e][2]) = To(p, e)
      BY <1>1, <1>10, LookupFinds
    <2>3. place[d.edges[e][1]] = Place(From(p, e)) /\ place[d.edges[e][2]] = Place(To(p, e))
      BY <2>1, <2>2
    <2> DEFINE i == Place(To(p, e))
    <2>4. i \in Node /\ order[i] = To(p, e)
      BY <1>9, <1>10
    <2>5. From(p, e) \in Preds(p, order[i])
      BY <1>10, <2>4 DEF Preds
    <2>6. PICK j \in 1 .. i - 1 : order[j] = From(p, e)
      BY <1>7, <2>4, <2>5
    <2>7. j \in Node /\ j < i
      BY <2>4, NAssumption DEF Node
    <2>8. j = Place(From(p, e))
      <3>1. Place(From(p, e)) \in Node /\ order[Place(From(p, e))] = order[j]
        BY <1>9, <1>10, <2>6
      <3> QED
        BY <1>8, <2>7, <3>1
    <2> QED
      BY <2>1, <2>3, <2>7, <2>8
  <1>13. \E f \in [Named(d) -> Node] :
           \A e \in DOMAIN d.edges :
             /\ {d.edges[e][1], d.edges[e][2]} \subseteq Named(d)
             /\ f[d.edges[e][1]] < f[d.edges[e][2]]
    <2> HIDE DEF place
    <2> QED
      BY <1>11, <1>12
  <1>14. Cardinality(Named(d) \ {0}) = N
    <2>1. \A i \in Node : d.names[i] # 0
      BY <1>1 DEF Admitted, BasicValidate, NodeFine
    <2>2. Named(d) \ {0} = Named(d)
      BY <1>1, <2>1 DEF Named
    <2>3. IsFiniteSet(Node) /\ Cardinality(Node) = N
      BY NAssumption, FS_Interval DEF Node
    <2>4. d.names \in Surjection(Node, Named(d)) /\ d.names \in Injection(Node, Named(d))
      <3>1. d.names \in Seq(Name)
        BY DocumentsAssumption DEF Document, Admitted
      <3>2. d.names \in [Node -> Named(d)]
        BY <1>1, <3>1 DEF Named
      <3>3. \A x \in Named(d) : \E i \in Node : d.names[i] = x
        BY <1>1 DEF Named
      <3> QED
        BY <1>1, <3>2, <3>3 DEF Surjection, Injection, IsInjective, Bijective
    <2> QED
      BY <2>2, <2>3, <2>4, FS_Surjection
  <1>15. d.header /\ d.sound = Node /\ \A i \in Node : d.retryBudget[i] >= 0 /\ d.timeout[i] >= 0
    <2>1. d.sound \in SUBSET Node
      BY DocumentsAssumption DEF Document, Admitted
    <2>2. \A i \in Node : NodeFine(d, i)
      BY <1>1 DEF Admitted, BasicValidate
    <2> QED
      BY <2>1, <2>2 DEF Admitted, BasicValidate, NodeFine
  <1>16. p.join = d.join /\ p.sideEffect = d.sideEffect /\ d.broken = {}
    BY <1>2 DEF Admitted, Indexed
  <1>17. \A name \in AnyOf(d) : Raced(d, name) \/ Repeated(d, name)
    <2> SUFFICES ASSUME NEW n \in Node, d.join[n] = "any_of"
                 PROVE  Raced(d, d.names[n]) \/ Repeated(d, d.names[n])
      BY <1>1 DEF AnyOf
    <2>1. PICK x, y \in DOMAIN p.edges : x # y /\ To(p, x) = n /\ To(p, y) = n
      BY <1>2, <1>16 DEF Accepted, JoinsConsistent
    <2>2. d.edges[x][2] = d.names[n] /\ d.edges[y][2] = d.names[n]
      BY <1>10, <2>1
    <2> QED
      BY <1>10, <2>1, <2>2 DEF Raced, Repeated
  <1>18. ASSUME NEW e \in DOMAIN d.edges, d.edges[e][1] \in Destructive(d), d.edges[e][2] \in AnyOf(d)
         PROVE  FALSE
    <2>1. p.sideEffect[From(p, e)] = "destructive" /\ p.join[To(p, e)] = "any_of"
      BY <1>1, <1>10, <1>16, <1>18 DEF Bijective, AnyOf, Destructive
    <2>2. To(p, e) \in Succs(p, From(p, e))
      BY <1>10 DEF Succs
    <2> QED
      BY <1>2, <1>10, <2>1, <2>2 DEF Accepted, SideEffectsConsistent, IsDestructive, IsCandidate
  <1> QED
    BY <1>13, <1>14, <1>15, <1>16, <1>17, <1>18 DEF Admissible, Shaped

-----------------------------------------------------------------------------
(* The command.                                                            *)

\* Check runs only between BasicValidate and the scheduler; nothing is refused
\* without a reason.
CmdInv ==
  /\ cmd \in {"start", "decoded"} => pc = "idle"
  /\ cmd = "decoded" => doc \in Documents
  /\ cmd \in {"checking", "checked", "running"} => Admitted
  /\ cmd \in {"checked", "running"} => pc = "done" /\ problems = {}
  /\ cmd = "refused" =>
       /\ doc \in Documents
       /\ ~BasicValidate(doc) \/ (Admitted /\ pc = "done" /\ problems # {})

AInv == VInv /\ CmdInv

THEOREM InitImpliesAInv == AdmissionInit => AInv
  BY InitKeeps DEF AdmissionInit, AInv, CmdInv, Init

THEOREM NextKeepsAInv == AInv /\ [AdmissionNext]_admissionVars => AInv'
  <1> SUFFICES ASSUME AInv, [AdmissionNext]_admissionVars
               PROVE  AInv'
    OBVIOUS
  <1> USE DEF AInv
  <1>1. CASE Admit
    <2>1. doc \in Documents /\ BasicValidate(doc)
      BY <1>1 DEF Admit, CmdInv
    <2>2. VInv'
      BY <1>1, <2>1, IndexedType, BeginsKeeps DEF Admit
    <2>3. CmdInv'
      BY <1>1, <2>1 DEF Admit, CmdInv, Admitted, CheckBegins
    <2> QED
      BY <2>2, <2>3
  <1>2. CASE Checking
    <2>1. VInv'
      BY <1>2, StepKeeps DEF Checking
    <2>2. Admitted'
      BY <1>2 DEF Checking, CmdInv, Admitted, CheckStep, OrderOne, OrderEnds, WalkForward,
                  ForwardEnds, WalkBackward, Report
    <2> QED
      BY <1>2, <2>1, <2>2 DEF Checking, CmdInv
  <1>3. ASSUME UNCHANGED vars
        PROVE  VInv' /\ (Admitted /\ UNCHANGED doc => Admitted')
    BY <1>3, StutterKeeps DEF vars, Admitted
  <1>4. CASE Usage
    BY <1>3, <1>4 DEF Usage, CmdInv, vars
  <1>5. CASE Read
    BY <1>3, <1>5 DEF Read, CmdInv, vars
  <1>6. CASE Refuse
    BY <1>3, <1>6 DEF Refuse, CmdInv, vars
  <1>7. CASE Checked
    BY <1>3, <1>7 DEF Checked, CmdInv, vars, Admitted
  <1>8. CASE NoExecutor
    BY <1>3, <1>8 DEF NoExecutor, CmdInv, vars
  <1>9. CASE RunBegins
    BY <1>3, <1>9 DEF RunBegins, CmdInv, vars, Admitted
  <1>10. CASE RunEnds
    BY <1>3, <1>10 DEF RunEnds, CmdInv, vars
  <1>11. CASE UNCHANGED admissionVars
    BY <1>3, <1>11 DEF admissionVars, CmdInv, vars
  <1> QED
    BY <1>1, <1>2, <1>4, <1>5, <1>6, <1>7, <1>8, <1>9, <1>10, <1>11 DEF AdmissionNext, Exited

THEOREM AInvariance == AdmissionSpec => []AInv
  BY InitImpliesAInv, NextKeepsAInv, PTL DEF AdmissionSpec


\* The order, the indegrees and the reports keep their types; no indegree ever
\* goes below zero.
THEOREM TypeCorrect == AdmissionSpec => []TypeOK
  <1>1. AInv => TypeOK
    BY DEF AInv, VInv
  <1> QED
    BY <1>1, AInvariance, PTL

\* TopoOrder's order is topological and, of those, the one that takes the first
\* possible node each time, on cyclic plans too.
THEOREM OrderIsDeterministic == AdmissionSpec => []OrderIsLeast
  <1>1. AInv => OrderIsLeast
    BY DEF AInv, VInv
  <1> QED
    BY <1>1, AInvariance, PTL

\* TopoOrder returns an error exactly for the cyclic plans.
THEOREM CyclesAreFound == AdmissionSpec => []KahnDecides
  <1>1. AInv => KahnDecides
    BY VerdictFollows DEF AInv
  <1> QED
    BY <1>1, AInvariance, PTL

\* reachabilityProblems marks what can be reached, and nothing else.
THEOREM WalksReach == AdmissionSpec => []WalksAreClosures
  <1>1. AInv => WalksAreClosures
    BY VerdictFollows DEF AInv
  <1> QED
    BY <1>1, AInvariance, PTL

\* Check's verdict is the one its comment describes, but for candidates listed
\* twice, and what the scheduler's model assumes of an accepted plan.
THEOREM VerdictIsAccepted == AdmissionSpec => [](AcceptsExactly /\ AcceptsAccepted)
  <1>1. AInv => AcceptsExactly /\ AcceptsAccepted
    BY VerdictFollows DEF AInv
  <1> QED
    BY <1>1, AInvariance, PTL

\* The command runs the admissible files and refuses the others.
THEOREM RunsAdmissible == AdmissionSpec => []RunsExactlyAdmissible
  <1>1. AInv => RunsExactlyAdmissible
    <2> SUFFICES ASSUME AInv PROVE RunsExactlyAdmissible
      OBVIOUS
    <2>1. CASE cmd = "running"
      BY <2>1, CheckedIsAdmissible DEF AInv, CmdInv, RunsExactlyAdmissible
    <2>2. CASE cmd = "refused"
      <3>1. doc \in Documents
        BY <2>2 DEF AInv, CmdInv
      <3>2. Admitted /\ pc = "done" /\ problems # {} => ~(Accepted(Indexed(doc)) /\ doc.broken = {})
        BY VerdictFollows DEF AInv, AcceptsAccepted, Admitted
      <3> QED
        BY <2>2, <3>1, <3>2, AdmissibleIsAccepted DEF AInv, CmdInv, RunsExactlyAdmissible
    <2> QED
      BY <2>1, <2>2 DEF RunsExactlyAdmissible
  <1> QED
    BY <1>1, AInvariance, PTL

=============================================================================
