------------------------- MODULE SchedulerImplements -------------------------
(***************************************************************************)
(* The Scheduler implements GraphRun.  To a client of the engine a node is  *)
(* open until its state is terminal, and everything between (promotion,    *)
(* dispatch, retries, patches, a loser's late event) is invisible.  It     *)
(* also keeps the loop's side of Dispatches, which only sees the workers.  *)
(***************************************************************************)
EXTENDS Scheduler

StatusOf(s) ==
  CASE s = "executed"  -> "done"
    [] s = "failed"    -> "failed"
    [] s = "skipped"   -> "spared"
    [] s = "cancelled" -> "cancelled"
    [] OTHER           -> "open"

StatusMap == [n \in Node |-> StatusOf(state[n])]

OutcomeMap ==
  CASE loop = "select"   -> "open"
    [] loop = "returned" -> "ended"
    [] loop = "drain"    -> "stopping"
    [] loop = "aborted"  -> "stopped"

AsGraphRun == INSTANCE GraphRun WITH
  Graphs  <- Plans,
  graph   <- plan,
  status  <- StatusMap,
  outcome <- OutcomeMap

\* Every run of the event loop is a run GraphRun allows: whatever the workers,
\* the retries, the late events and the cancellation do, a node is settled only
\* on completed predecessors, a rival is spared only when nobody needs it, and
\* a run that was not stopped ends only when nothing can be settled any more.
ImplementsGraphRun == AsGraphRun!Spec

-----------------------------------------------------------------------------

SlotMap ==
  [n \in Node |-> IF worker[n] \in Result THEN "result" ELSE worker[n]]

\* cancelled is read of the nodes that have a worker.
ToldMap == cancelled \cap {n \in Node : worker[n] # "idle"}

AsDispatches == INSTANCE Dispatches WITH
  Slot     <- Node,
  Limit    <- Width,
  slot     <- SlotMap,
  told     <- ToldMap,
  ctxDone  <- ctxDone,
  returned <- Returning

\* The loop does what Worker takes for granted of it: it dispatches within the
\* bound and never a node whose worker is still out, a worker it has told stays
\* told, a node that is run again starts with a live context, and Run returns
\* only when every worker left has been told (schedule, dispatch, skipLosers).
LoopKeepsItsSide == AsDispatches!Spec

=============================================================================
