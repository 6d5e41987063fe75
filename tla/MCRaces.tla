------------------------------- MODULE MCRaces -------------------------------
(***************************************************************************)
(* The Scheduler with its log, and its loops, on plans of four nodes       *)
(* chosen for their races.                                                 *)
(***************************************************************************)
EXTENDS SchedulerInv, SchedulerImplements, SchedulerLoops, SchedulerTrace, PlanShapes

\* Races among four nodes.
RacePlans ==
  {\* a source, two alternatives and their joiner (any_of)
   Shape(<<<<1, 2>>, <<1, 3>>, <<2, 4>>, <<3, 4>>>>, {4}, {}),
   \* an alternative fed by another one through an all_of chain: 2 feeds 3
   Shape(<<<<1, 4>>, <<2, 3>>, <<3, 4>>, <<2, 4>>>>, {4}, {}),
   \* the same with the edges into the joiner in the other order
   Shape(<<<<3, 4>>, <<2, 4>>, <<2, 3>>, <<1, 4>>>>, {4}, {}),
   \* two joiners sharing a candidate
   Shape(<<<<1, 3>>, <<2, 3>>, <<2, 4>>, <<1, 4>>>>, {3, 4}, {}),
   \* a candidate an all_of node also needs, and a destructive exit
   Shape(<<<<1, 3>>, <<2, 3>>, <<2, 4>>>>, {3}, {4}),
   \* a destructive node beside a race
   Shape(<<<<1, 3>>, <<2, 3>>>>, {3}, {4}),
   \* a destructive joiner
   Shape(<<<<1, 4>>, <<2, 4>>, <<3, 4>>>>, {4}, {4})}

FairTraceSpec == TraceSpec /\ Fairness

=============================================================================
