------------------------------ MODULE Dispatches ------------------------------
(***************************************************************************)
(* What the event loop and the worker goroutines of one run owe each other.*)
(* Scheduler models the loop and takes a worker as one step; Worker models *)
(* the worker and takes the loop as dispatches, receives and cancellations *)
(* out of nowhere.  Both implement this module, so that what either leaves *)
(* open is something the other may do:                                     *)
(*   - a worker answers once and gives its event up only when the caller's *)
(*     context has ended;                                                  *)
(*   - the loop keeps within the limit whenever it dispatches, uses a slot *)
(*     again only after its event, tells a worker to stop until it is rid  *)
(*     of it, and returns only when every worker left has been told.       *)
(***************************************************************************)
EXTENDS Integers, FiniteSets

CONSTANTS
  Slot,     \* whoever a worker may be dispatched for
  Limit     \* the parallelism bound

VARIABLES
  slot,     \* per slot, what its worker is doing
  told,     \* the workers whose context the loop cancelled
  ctxDone,  \* the caller's context has ended
  returned  \* Run has returned

dvars == <<slot, told, ctxDone, returned>>

\* "idle": no worker; "gone": its worker ended and its event will never come.
SlotState == {"idle", "executing", "result", "gone"}

\* What inFlight counts.
Busy(s) == {x \in Slot : s[x] # "idle"}

-----------------------------------------------------------------------------

\* The first wave.
Init ==
  /\ \E D \in SUBSET Slot :
       /\ slot = [x \in Slot |-> IF x \in D THEN "executing" ELSE "idle"]
       /\ Cardinality(D) <= Limit
  /\ told = {}
  /\ ctxDone = FALSE
  /\ returned = FALSE

\* Execute returns and the worker offers its event.
Answer(x) ==
  /\ slot[x] = "executing"
  /\ slot' = [slot EXCEPT ![x] = "result"]
  /\ UNCHANGED <<told, ctxDone, returned>>

\* The worker's select takes its ctx.Done() branch.
GiveUp(x) ==
  /\ slot[x] = "result"
  /\ ctxDone
  /\ slot' = [slot EXCEPT ![x] = "gone"]
  /\ UNCHANGED <<told, ctxDone, returned>>

CtxEnds ==
  /\ ~ctxDone
  /\ ctxDone' = TRUE
  /\ UNCHANGED <<slot, told, returned>>

\* The loop receives the events R, at most one, dispatches D and tells others.
Turn(R, D) ==
  /\ ~returned
  /\ \A x \in R : slot[x] = "result"
  /\ \A x \in D : slot[x] = "idle" \/ x \in R
  /\ slot' = [x \in Slot |-> IF x \in D THEN "executing" ELSE IF x \in R THEN "idle" ELSE slot[x]]
  /\ D # {} => Cardinality(Busy(slot')) <= Limit
  /\ told \ R \subseteq told'
  /\ told' \subseteq Busy(slot') \ D
  /\ returned' \in BOOLEAN
  /\ returned' => Busy(slot') \subseteq told'
  /\ UNCHANGED ctxDone

AtMostOne == {{}} \cup {{x} : x \in Slot}

Next ==
  \/ \E x \in Slot : Answer(x) \/ GiveUp(x)
  \/ CtxEnds
  \/ \E R \in AtMostOne, D \in SUBSET Slot : Turn(R, D)

Spec == Init /\ [][Next]_dvars

=============================================================================
