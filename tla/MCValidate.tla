----------------------------- MODULE MCValidate -----------------------------
(***************************************************************************)
(* Plan files for model checking the Admission and Validate modules.       *)
(***************************************************************************)
EXTENDS Admission, PlanShapes

EdgeSets == SUBSET {e \in Node \X Node : e[1] # e[2]}

\* The file of the plan q under the names ns, with the broken schemas b.
File(q, ns, b) ==
  [header |-> TRUE, names |-> ns, sound |-> Node, join |-> q.join, sideEffect |-> q.sideEffect,
   retryBudget |-> q.retryBudget, timeout |-> [n \in Node |-> 0], broken |-> b, edges |-> q.edges]

InOrderNames == [n \in Node |-> n]
Reversed     == [n \in Node |-> N + 1 - n]
Bare         == File(Shape(<<>>, {}, {}), InOrderNames, {})

\* How a set of edges is made a file: an edge listed once more, the any_of and
\* the destructive nodes, the nodes with a broken schema.
Variants ==
  {<<<<>>, {}, {}, {}>>, <<<<>>, {N}, {1}, {}>>}
    \cup {<<<<e>>, {N}, {}, b>> : e \in {e \in Node \X Node : e[1] # e[2]}, b \in {{}, {2}}}

\* Every graph on Node, cyclic ones included, as it is and with an any_of and a
\* destructive node, and the graphs of at most three edges with one repeated.
\* The names run against plan order.
GraphFiles ==
  {File(Shape(x[2][1] \o EdgeList(x[1]), x[2][2], x[2][3]), Reversed, x[2][4]) :
     x \in {x \in EdgeSets \X Variants : x[2][1] = <<>> \/ Cardinality(x[1]) <= 3}}

\* One edge, and any names at all; any two edges over all names; a field amiss.
NamesAmiss  == {[Bare EXCEPT !.names = ns, !.edges = <<<<1, 2>>>>] : ns \in [Node -> 0 .. N]}
EdgesAmiss  == {[Bare EXCEPT !.edges = <<<<1, 2>>, e>>] : e \in Name \X Name}
FieldsAmiss ==
  {[Bare EXCEPT !.header = FALSE], [Bare EXCEPT !.names = <<>>]}
    \cup UNION {{[Bare EXCEPT !.sound = @ \ {n}],
                 [Bare EXCEPT !.retryBudget[n] = -1],
                 [Bare EXCEPT !.timeout[n] = -1]} : n \in Node}

Files == GraphFiles \cup NamesAmiss \cup EdgesAmiss \cup FieldsAmiss

=============================================================================
