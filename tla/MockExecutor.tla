---------------------------- MODULE MockExecutor ----------------------------
(***************************************************************************)
(* The MockExecutor of engine/node/node.go under the scheduler, the way    *)
(* the sgh command runs it by default: workers call Execute at once, and   *)
(* nothing guards Calls or failCounts.                                     *)
(*                                                                         *)
(* An append is a load of the slice and a store of the longer one.  A Go   *)
(* map that is written while another goroutine is in it may stop the       *)
(* process ("concurrent map writes") or go on.                             *)
(***************************************************************************)
EXTENDS Integers, Sequences, FiniteSets, SequencesExt

CONSTANTS
  Call,     \* the calls of Execute of a run, one per dispatch
  NodeOf,   \* per call, its node
  HasFn,    \* whether Fn is set
  Owed,     \* FailNTimes: per node, the failures it owes
  Scripted, \* the nodes with an entry in Results
  Width     \* the loop's maxParallel

VARIABLES
  Calls,       \* the recorded calls
  failCounts,  \* per node, the failures injected so far
  pc,          \* per call, how far Execute is
  loaded,      \* per call, the slice its append loaded
  ended,       \* the calls whose context has ended
  result,      \* per call, what Execute returned
  dead         \* the runtime stopped the process

vars == <<Calls, failCounts, pc, loaded, ended, result, dead>>

Nodes == {NodeOf[c] : c \in Call}

Running == {c \in Call : pc[c] \notin {"waiting", "returned"}}

-----------------------------------------------------------------------------

Init ==
  /\ Calls = <<>>
  /\ failCounts = [n \in Nodes |-> 0]
  /\ pc = [c \in Call |-> "waiting"]
  /\ loaded = [c \in Call |-> <<>>]
  /\ ended = {}
  /\ result = [c \in Call |-> "none"]
  /\ dead = FALSE

Goto(c, l) == pc' = [pc EXCEPT ![c] = l]

Return(c, r) == Goto(c, "returned") /\ result' = [result EXCEPT ![c] = r]

\* The scheduler dispatches a node that is not running, within its bound; the
\* append loads Calls.
LoadCalls(c) ==
  /\ pc[c] = "waiting"
  /\ Cardinality(Running) < Width
  /\ \A d \in Running : NodeOf[d] # NodeOf[c]
  /\ loaded' = [loaded EXCEPT ![c] = Calls]
  /\ Goto(c, "appending")
  /\ UNCHANGED <<Calls, failCounts, ended, result, dead>>

\* The append stores Calls with the call added.
StoreCalls(c) ==
  /\ pc[c] = "appending"
  /\ Calls' = Append(loaded[c], c)
  /\ Goto(c, "recorded")
  /\ UNCHANGED <<failCounts, loaded, ended, result, dead>>

\* The context is looked at before anything else.
Cancelled(c) ==
  /\ pc[c] = "recorded"
  /\ c \in ended
  /\ Return(c, "retryable")
  /\ UNCHANGED <<Calls, failCounts, loaded, ended, dead>>

Owes(c) == Owed[NodeOf[c]] > 0 /\ failCounts[NodeOf[c]] < Owed[NodeOf[c]]

\* Fn wins, then a failure still owed, then Results, then the echo.
Resolve(c) ==
  /\ pc[c] = "recorded"
  /\ c \notin ended
  /\ IF ~HasFn /\ Owes(c) THEN Goto(c, "counting") /\ UNCHANGED result
     ELSE Return(c, IF HasFn THEN "fn" ELSE IF NodeOf[c] \in Scripted THEN "scripted" ELSE "echo")
  /\ UNCHANGED <<Calls, failCounts, loaded, ended, dead>>

\* failCounts[n.ID]++, and the failure; two calls in the map at once are the
\* runtime's to stop.
CountFailure(c) ==
  /\ pc[c] = "counting"
  /\ failCounts' = [failCounts EXCEPT ![NodeOf[c]] = @ + 1]
  /\ Return(c, "retryable")
  /\ dead' \in {FALSE, \E d \in Running \ {c} : pc[d] = "counting"}
  /\ UNCHANGED <<Calls, loaded, ended>>

\* A timeout, the loop or the caller ends the context of a call.
ContextEnds(c) ==
  /\ c \in Running \ ended
  /\ ended' = ended \cup {c}
  /\ UNCHANGED <<Calls, failCounts, pc, loaded, result, dead>>

Next ==
  /\ ~dead
  /\ \/ \E c \in Call : LoadCalls(c)
     \/ \E c \in Call : StoreCalls(c)
     \/ \E c \in Call : Cancelled(c)
     \/ \E c \in Call : Resolve(c)
     \/ \E c \in Call : CountFailure(c)
     \/ \E c \in Call : ContextEnds(c)

Spec == Init /\ [][Next]_vars

-----------------------------------------------------------------------------
(* What the repository says of the mock and the code does not do.          *)

\* "Calls records every (node ID, inputs) pair seen, in order" (MockExecutor):
\* a call that has been recorded stays recorded.
CallsRecordsEvery ==
  \A c \in Call : pc[c] \in {"recorded", "counting", "returned"} => c \in Range(Calls)

=============================================================================
