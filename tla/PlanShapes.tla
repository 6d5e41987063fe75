----------------------------- MODULE PlanShapes -----------------------------
(***************************************************************************)
(* Plans built from a few parameters, for model checking.                  *)
(***************************************************************************)
EXTENDS Plan

\* The pairs of nodes in lexicographic order, and the members of E among them.
Pairs == [i \in 1 .. N * N |-> <<((i - 1) \div N) + 1, ((i - 1) % N) + 1>>]

EdgeList(E) == SelectSeq(Pairs, LAMBDA e : e \in E)

\* The plan with the edge list es, the any_of nodes any and the destructive ones.
Shape(es, any, destructive) ==
  [edges       |-> es,
   join        |-> [n \in Node |-> IF n \in any THEN "any_of" ELSE "all_of"],
   sideEffect  |-> [n \in Node |-> IF n \in destructive THEN "destructive" ELSE "none"],
   retryBudget |-> [n \in Node |-> 1]]

=============================================================================
