----------------------------- MODULE MCScheduler -----------------------------
(***************************************************************************)
(* The Scheduler on every plan of a few nodes.                             *)
(***************************************************************************)
EXTENDS SchedulerInv, PlanShapes

\* Every plan over Node whose edges are a set listed in lexicographic order.
AllPlans ==
  {Shape(EdgeList(E), any, des) :
     E \in SUBSET {e \in Node \X Node : e[1] # e[2]}, any \in SUBSET Node, des \in SUBSET Node}

=============================================================================
