-------------------------- MODULE RefinementProofs --------------------------
(***************************************************************************)
(* Proofs that the Scheduler implements GraphRun, and the loop's side of    *)
(* Dispatches, for every number of nodes, every accepted plan, every       *)
(* parallelism bound and all recovery budgets: its initial states map to   *)
(* initial states, and in the inductive invariant every step maps to a     *)
(* step of the abstract module or to a stutter.                            *)
(***************************************************************************)
EXTENDS SchedulerProofs, SchedulerImplements

-----------------------------------------------------------------------------
(* The mapping.                                                            *)

\* GraphRun's vocabulary for plans is the Scheduler's own.
LEMMA SamePlans ==
  /\ AsGraphRun!Node = Node
  /\ \A p : \A n : AsGraphRun!Preds(p, n) = Preds(p, n) /\ AsGraphRun!Succs(p, n) = Succs(p, n)
  /\ \A p : AsGraphRun!Accepted(p) <=> Accepted(p)
  <1>1. AsGraphRun!Node = Node
    BY DEF AsGraphRun!Node, Node
  <1>2. ASSUME NEW p, NEW n
        PROVE  AsGraphRun!Preds(p, n) = Preds(p, n) /\ AsGraphRun!Succs(p, n) = Succs(p, n)
    BY <1>1 DEF AsGraphRun!Preds, Preds, AsGraphRun!Succs, Succs, AsGraphRun!From, From,
                AsGraphRun!To, To
  <1>3. ASSUME NEW p
        PROVE  AsGraphRun!Accepted(p) <=> Accepted(p)
    <2>1. AsGraphRun!NoSelfLoops(p) <=> NoSelfLoops(p)
      BY DEF AsGraphRun!NoSelfLoops, NoSelfLoops, AsGraphRun!From, From, AsGraphRun!To, To
    <2>2. AsGraphRun!Acyclic(p) <=> Acyclic(p)
      BY <1>1, <1>2 DEF AsGraphRun!Acyclic, Acyclic
    <2>3. AsGraphRun!JoinsConsistent(p) <=> JoinsConsistent(p)
      BY <1>1 DEF AsGraphRun!JoinsConsistent, JoinsConsistent, AsGraphRun!To, To
    <2>4. AsGraphRun!SideEffectsConsistent(p) <=> SideEffectsConsistent(p)
      BY <1>1, <1>2 DEF AsGraphRun!SideEffectsConsistent, SideEffectsConsistent,
                        AsGraphRun!IsDestructive, IsDestructive, AsGraphRun!IsCandidate, IsCandidate
    <2> QED
      BY <2>1, <2>2, <2>3, <2>4 DEF AsGraphRun!Accepted, Accepted
  <1> QED
    BY <1>1, <1>2, <1>3

\* What each status means of the state it stands for.
LEMMA StatusMeans ==
  ASSUME NEW s \in NodeState
  PROVE  /\ StatusOf(s) = "done" <=> s = "executed"
         /\ StatusOf(s) = "spared" <=> s = "skipped"
         /\ StatusOf(s) = "open" <=> ~IsTerminal(s)
  BY DEF StatusOf, NodeState, IsTerminal, TerminalState

\* The completed nodes, now and after a step.
LEMMA DoneMeans ==
  ASSUME NEW st \in [Node -> NodeState], NEW s, s = [n \in Node |-> StatusOf(st[n])]
  PROVE  AsGraphRun!Done(s) = {n \in Node : st[n] = "executed"}
  BY SamePlans, StatusMeans DEF AsGraphRun!Done

\* A node whose join is honoured by completed predecessors can be settled.
LEMMA HonouredCanSettle ==
  ASSUME NEW p \in PlanType, NEW st \in [Node -> NodeState],
         NEW s, s = [n \in Node |-> StatusOf(st[n])], Joined(p, st),
         NEW n \in Node, st[n] = "running"
  PROVE  AsGraphRun!CanSettle(p, s, n)
  <1>1. s[n] = "open"
    BY StatusMeans DEF IsTerminal, TerminalState
  <1>2. AsGraphRun!Done(s) = {m \in Node : st[m] = "executed"} /\ AsGraphRun!Preds(p, n) = Preds(p, n)
    BY DoneMeans, SamePlans
  <1>3. p.join[n] \in {"all_of", "any_of"}
    BY DEF PlanType
  <1>4. CASE p.join[n] = "all_of"
    <2>1. \A m \in Preds(p, n) : m \in Node /\ st[m] = "executed"
      BY <1>4 DEF Joined, Preds
    <2> QED
      BY <1>1, <1>2, <2>1 DEF AsGraphRun!CanSettle, AsGraphRun!JoinMet
  <1>5. CASE p.join[n] = "any_of"
    <2>1. \E m \in Preds(p, n) : m \in Node /\ st[m] = "executed"
      BY <1>5 DEF Joined, Satisfied, Preds
    <2> QED
      BY <1>1, <1>2, <1>5, <2>1 DEF AsGraphRun!CanSettle, AsGraphRun!JoinMet
  <1> QED
    BY <1>3, <1>4, <1>5

\* A pending node that has not been promoted cannot be settled.
LEMMA UnpromotedCannotSettle ==
  ASSUME NEW p \in PlanType, Accepted(p), NEW st \in [Node -> NodeState],
         NEW s, s = [n \in Node |-> StatusOf(st[n])], Promoted(p, st),
         NEW n \in Node, st[n] = "pending"
  PROVE  ~AsGraphRun!CanSettle(p, s, n)
  <1>1. AsGraphRun!Done(s) = {m \in Node : st[m] = "executed"} /\ AsGraphRun!Preds(p, n) = Preds(p, n)
    BY DoneMeans, SamePlans
  <1>2. SUFFICES ASSUME AsGraphRun!JoinMet(p, s, n)
                 PROVE  DepsSatisfied(p, st, n)
    BY DEF AsGraphRun!CanSettle, Promoted
  <1>3. CASE p.join[n] = "any_of" /\ \E m \in Preds(p, n) : st[m] = "executed"
    BY <1>3 DEF DepsSatisfied
  <1>4. CASE \A m \in Preds(p, n) : st[m] = "executed"
    <2>1. p.join[n] \in {"all_of", "any_of"}
      BY DEF PlanType
    <2>2. p.join[n] = "any_of" => Preds(p, n) # {}
      BY CandidatesExist DEF Accepted
    <2> QED
      BY <1>4, <2>1, <2>2 DEF DepsSatisfied, TerminalSuccess
  <1> QED
    BY <1>1, <1>2, <1>3, <1>4 DEF AsGraphRun!JoinMet

-----------------------------------------------------------------------------
(* The end of a run.                                                       *)

\* A run that has returned has nothing left that could be settled.
LEMMA ReturnedIsMaximal ==
  IInv /\ loop = "returned" => \A n \in Node : ~AsGraphRun!CanSettle(plan, StatusMap, n)
  <1> SUFFICES ASSUME IInv, loop = "returned", NEW n \in Node
               PROVE  ~AsGraphRun!CanSettle(plan, StatusMap, n)
    OBVIOUS
  <1>1. /\ plan \in PlanType /\ Accepted(plan) /\ state \in [Node -> NodeState]
        /\ Promoted(plan, state)
    BY DEF IInv, TypeOK
  <1>2. StatusMap = [m \in Node |-> StatusOf(state[m])]
    BY DEF StatusMap
  <1>3. CASE IsTerminal(state[n])
    BY <1>1, <1>2, <1>3, StatusMeans DEF AsGraphRun!CanSettle
  <1>4. CASE ~IsTerminal(state[n])
    <2>1. state[n] = "pending"
      BY <1>4, BlockedNode
    <2> QED
      BY <1>1, <1>2, <2>1, UnpromotedCannotSettle
  <1> QED
    BY <1>3, <1>4

\* After a turn of the loop GraphRun's run goes on, or has ended rightly.
LEMMA TurnGoesOn ==
  ASSUME IInv', plan' = plan, loop' \in {"select", "returned"}
  PROVE  AsGraphRun!GoesOn
  <1>1. CASE loop' = "select"
    BY <1>1 DEF AsGraphRun!GoesOn, OutcomeMap
  <1>2. CASE loop' = "returned"
    <2>1. \A n \in Node : ~AsGraphRun!CanSettle(plan', StatusMap', n)
      <3>1. (IInv /\ loop = "returned" => \A n \in Node : ~AsGraphRun!CanSettle(plan, StatusMap, n))'
        BY ReturnedIsMaximal, PTL
      <3> QED
        BY <1>2, <3>1
    <2> QED
      BY <1>2, <2>1, SamePlans DEF AsGraphRun!GoesOn, OutcomeMap
  <1> QED
    BY <1>1, <1>2

\* Where a turn of the loop leaves Run.
LEMMA TurnEnds ==
  ASSUME NEW p, NEW st, NEW fl, NEW busy, NEW given, Schedule(p, st, fl, busy, given)
  PROVE  loop' \in {"select", "returned"}
  BY DEF Schedule, LoopHead

\* schedule and promotePending are invisible: they change no status.
LEMMA SchedulingInvisible ==
  ASSUME NEW p, NEW st \in [Node -> NodeState], NEW fl, NEW busy, NEW given,
         Schedule(p, st, fl, busy, given)
  PROVE  StatusMap' = [n \in Node |-> StatusOf(st[n])]
  <1>1. state' = Running(st, Dispatched(p, st, fl))
    BY DEF Schedule
  <1>2. \A n \in Dispatched(p, st, fl) : st[n] = "ready"
    BY DispatchedAreReady DEF ReadySet
  <1>3. \A n \in Node : StatusOf(state'[n]) = StatusOf(st[n])
    BY <1>1, <1>2 DEF Running, StatusOf
  <1> QED
    BY <1>3 DEF StatusMap

LEMMA PromotionInvisible ==
  ASSUME NEW p, NEW st \in [Node -> NodeState], NEW n \in Node
  PROVE  StatusOf(Promote(p, st)[n]) = StatusOf(st[n])
  BY PromoteEffect DEF StatusOf

-----------------------------------------------------------------------------
(* The turns of the loop.                                                  *)

\* A loser's late event settles nothing; it may be what ends the run.
LEMMA LateIsEndOrStutter ==
  ASSUME IInv, IInv', NEW n \in Node, ReceiveLate(n)
  PROVE  AsGraphRun!Next \/ UNCHANGED AsGraphRun!gvars
  <1>1. state \in [Node -> NodeState] /\ loop = "select" /\ plan' = plan
    BY DEF IInv, TypeOK, ReceiveLate, Receivable
  <1>2. StatusMap' = StatusMap /\ loop' \in {"select", "returned"}
    BY <1>1, SchedulingInvisible, TurnEnds DEF ReceiveLate, StatusMap
  <1>3. AsGraphRun!GoesOn /\ OutcomeMap = "open"
    BY <1>1, <1>2, TurnGoesOn DEF OutcomeMap
  <1>4. AsGraphRun!End
    BY <1>1, <1>2, <1>3 DEF AsGraphRun!End
  <1> QED
    BY <1>4 DEF AsGraphRun!Next

\* A success completes its node and spares the losers of its races.
LEMMA SuccessIsComplete ==
  ASSUME IInv, IInv', NEW n \in Node, ReceiveSuccess(n)
  PROVE  AsGraphRun!Complete(n)
  <1> DEFINE won == [state EXCEPT ![n] = "executed"]
  <1>1. /\ loop = "select" /\ worker[n] \in Result /\ ~IsTerminal(state[n]) /\ plan' = plan
        /\ plan \in PlanType /\ state \in [Node -> NodeState] /\ state' \in [Node -> NodeState]
        /\ Joined(plan, state) /\ Justified(plan', state')
    BY DEF ReceiveSuccess, Receivable, IInv, TypeOK, Coherent
  <1>2. PICK V \in SUBSET Visits(plan, n) :
          /\ IsSkipPass(plan, won, n, V)
          /\ Schedule(plan, Promote(plan, Skip(won, Losers(plan, V))), inFlight - 1,
                      Freed(n), Released(n))
    BY DEF ReceiveSuccess
  <1> DEFINE L  == Losers(plan, V)
             sk == Skip(won, L)
  <1>3. won \in [Node -> NodeState] /\ sk \in [Node -> NodeState]
    BY <1>1 DEF Skip, NodeState
  <1>4. ASSUME NEW c \in L
        PROVE  c \in Node /\ c # n /\ ~IsTerminal(state[c]) /\ c \in AsGraphRun!Rivals(plan, n)
    <2>1. PICK v \in Visits(plan, n) : c = Cand(plan, v)
      BY DEF Losers
    <2>2. c \in Node /\ c # n
      BY <1>1, <2>1, VisitsCandidates
    <2>3. ~IsTerminal(won[c])
      BY <1>1, <1>2, <1>3, LosersNotTerminal
    <2> DEFINE j == To(plan, v[1])
    <2>4. /\ v[1] \in DOMAIN plan.edges /\ v[2] \in DOMAIN plan.edges
          /\ From(plan, v[1]) = n /\ To(plan, v[2]) = j /\ From(plan, v[2]) = c
          /\ plan.join[j] = "any_of"
      BY <2>1 DEF Visits, Cand
    <2>5. j \in Node
      <3>1. plan.edges \in Seq(Node \X Node)
        BY <1>1 DEF PlanType
      <3>2. plan.edges[v[1]] \in Node \X Node
        BY <2>4, <3>1
      <3> QED
        BY <3>2 DEF To
    <2>6. j \in Succs(plan, n) \cap Succs(plan, c)
      BY <2>4, <2>5 DEF Succs
    <2> QED
      BY <2>2, <2>3, <2>4, <2>6, <1>1, SamePlans DEF AsGraphRun!Rivals
  <1>5. StatusMap' = [m \in Node |-> IF m = n THEN "done" ELSE IF m \in L THEN "spared" ELSE StatusMap[m]]
    <2>1. Promote(plan, sk) \in [Node -> NodeState]
      <3> HIDE DEF sk
      <3> QED
        BY <1>3, PromoteEffect
    <2>2. StatusMap' = [m \in Node |-> StatusOf(Promote(plan, sk)[m])]
      BY <1>2, <2>1, SchedulingInvisible
    <2>3. \A m \in Node : StatusOf(Promote(plan, sk)[m]) = StatusOf(sk[m])
      BY <1>3, PromotionInvisible
    <2>4. ASSUME NEW m \in Node
          PROVE  StatusOf(sk[m]) = IF m = n THEN "done" ELSE IF m \in L THEN "spared" ELSE StatusMap[m]
      <3>1. n \notin L
        BY <1>4
      <3> HIDE DEF L
      <3>2. sk[m] = IF m \in L THEN "skipped" ELSE IF m = n THEN "executed" ELSE state[m]
        BY <1>1 DEF Skip
      <3> QED
        BY <3>1, <3>2 DEF StatusOf, StatusMap
    <2> HIDE DEF sk, L
    <2> QED
      BY <2>2, <2>3, <2>4
  <1>6. ASSUME NEW c \in L
        PROVE  AsGraphRun!Unneeded(plan, StatusMap', c)
    <2>1. c \in Node /\ StatusMap'[c] = "spared"
      BY <1>4, <1>5
    <2>2. state'[c] = "skipped"
      BY <1>1, <2>1, StatusMeans DEF StatusMap
    <2>3. AsGraphRun!Done(StatusMap') = {m \in Node : state'[m] = "executed"}
      BY <1>1, DoneMeans DEF StatusMap
    <2>4. ASSUME NEW j \in Succs(plan, c)
          PROVE  \/ plan.join[j] = "any_of" /\ AsGraphRun!Preds(plan, j) \cap AsGraphRun!Done(StatusMap') # {}
                 \/ plan.join[j] = "all_of" /\ StatusMap'[j] = "spared"
      <3>1. j \in Node /\ plan.join[j] \in {"all_of", "any_of"}
        BY <1>1 DEF Succs, PlanType
      <3>2. /\ plan.join[j] = "any_of" => Satisfied(plan, state', j)
            /\ plan.join[j] = "all_of" => state'[j] = "skipped"
        BY <1>1, <2>1, <2>2 DEF Justified
      <3>3. CASE plan.join[j] = "any_of"
        BY <2>3, <3>2, <3>3, SamePlans DEF Satisfied, Preds
      <3>4. CASE plan.join[j] = "all_of"
        BY <3>1, <3>2, <3>4 DEF StatusMap, StatusOf
      <3> QED
        BY <3>1, <3>3, <3>4
    <2> QED
      BY <2>4, SamePlans DEF AsGraphRun!Unneeded
  <1>7. state[n] = "running"
    BY <1>1, ReceivableNode
  <1>8. AsGraphRun!CanSettle(plan, StatusMap, n)
    BY <1>1, <1>7, HonouredCanSettle DEF StatusMap
  <1>9. OutcomeMap = "open" /\ AsGraphRun!GoesOn
    BY <1>1, <1>2, TurnEnds, TurnGoesOn DEF OutcomeMap
  <1>10. L \in SUBSET {c \in AsGraphRun!Rivals(plan, n) : StatusMap[c] = "open"}
    BY <1>1, <1>4, StatusMeans DEF StatusMap
  <1> HIDE DEF L
  <1> QED
    BY <1>1, <1>5, <1>6, <1>8, <1>9, <1>10, SamePlans DEF AsGraphRun!Complete

\* A failure fails its node, or is retried or patched, which nobody sees.
LEMMA FailureIsFailOrStutter ==
  ASSUME IInv, IInv', NEW n \in Node, ReceiveFailure(n)
  PROVE  AsGraphRun!Next \/ UNCHANGED AsGraphRun!gvars
  <1> DEFINE v  == Verdict(Decide(attempt[n], worker[n]))
             st == [state EXCEPT ![n] = v]
  <1>1. /\ loop = "select" /\ worker[n] \in Result /\ ~IsTerminal(state[n]) /\ plan' = plan
        /\ plan \in PlanType /\ state \in [Node -> NodeState] /\ Joined(plan, state)
        /\ Schedule(plan, Promote(plan, st), inFlight - 1, Freed(n), Released(n))
    BY DEF ReceiveFailure, Receivable, IInv, TypeOK, Coherent
  <1>2. state[n] = "running"
    BY <1>1, ReceivableNode
  <1>3. v \in {"ready", "failed"} /\ st \in [Node -> NodeState]
    BY <1>1 DEF Verdict, NodeState
  <1>4. StatusMap' = [m \in Node |-> StatusOf(st[m])] /\ loop' \in {"select", "returned"}
    <2> HIDE DEF st
    <2>1. Promote(plan, st) \in [Node -> NodeState]
      BY <1>3, PromoteEffect
    <2>2. StatusMap' = [m \in Node |-> StatusOf(Promote(plan, st)[m])]
      BY <1>1, <2>1, SchedulingInvisible
    <2>3. \A m \in Node : StatusOf(Promote(plan, st)[m]) = StatusOf(st[m])
      BY <1>3, PromotionInvisible
    <2> QED
      BY <1>1, <2>2, <2>3, TurnEnds
  <1>5. AsGraphRun!GoesOn /\ OutcomeMap = "open"
    BY <1>1, <1>4, TurnGoesOn DEF OutcomeMap
  <1>6. CASE v = "failed"
    <2>1. StatusMap' = [StatusMap EXCEPT ![n] = "failed"]
      BY <1>1, <1>4, <1>6 DEF StatusMap, StatusOf
    <2>2. AsGraphRun!CanSettle(plan, StatusMap, n)
      BY <1>1, <1>2, HonouredCanSettle DEF StatusMap
    <2>3. AsGraphRun!Fail(n)
      BY <1>1, <1>5, <2>1, <2>2 DEF AsGraphRun!Fail
    <2> QED
      BY <2>3, SamePlans DEF AsGraphRun!Next
  <1>7. CASE v = "ready"
    <2>1. StatusMap' = StatusMap
      BY <1>1, <1>2, <1>4, <1>7 DEF StatusMap, StatusOf
    <2>2. AsGraphRun!End
      BY <1>1, <1>5, <2>1 DEF AsGraphRun!End
    <2> QED
      BY <2>2 DEF AsGraphRun!Next
  <1> QED
    BY <1>3, <1>6, <1>7

\* The drain gives up the nodes that were running, and ends with the last event.
LEMMA DrainGivesUp ==
  ASSUME IInv, NEW n \in Node, DrainReceive(n)
  PROVE  AsGraphRun!Next \/ UNCHANGED AsGraphRun!gvars
  <1>1. /\ loop = "drain" /\ worker[n] \in Result /\ plan' = plan
        /\ loop' \in {"drain", "aborted"} /\ state' = Drained(n)
        /\ plan \in PlanType /\ state \in [Node -> NodeState] /\ Joined(plan, state)
    BY DEF DrainReceive, IInv, TypeOK, Coherent
  <1>2. OutcomeMap = "stopping" /\ OutcomeMap' \in {"stopping", "stopped"}
    BY <1>1 DEF OutcomeMap
  <1>3. CASE IsTerminal(state[n])
    <2>1. StatusMap' = StatusMap
      BY <1>1, <1>3 DEF StatusMap, Drained
    <2> QED
      BY <1>1, <1>2, <2>1 DEF AsGraphRun!Next, AsGraphRun!Stopped, AsGraphRun!gvars
  <1>4. CASE ~IsTerminal(state[n])
    <2>1. state[n] = "running"
      BY <1>1, <1>4, ReceivableNode
    <2>2. AsGraphRun!CanSettle(plan, StatusMap, n)
      BY <1>1, <2>1, HonouredCanSettle DEF StatusMap
    <2>3. StatusMap' = [StatusMap EXCEPT ![n] = "cancelled"]
      BY <1>1, <1>4 DEF StatusMap, Drained, StatusOf
    <2>4. AsGraphRun!GiveUp(n)
      BY <1>1, <1>2, <2>2, <2>3 DEF AsGraphRun!GiveUp
    <2> QED
      BY <2>4, SamePlans DEF AsGraphRun!Next
  <1> QED
    BY <1>3, <1>4

-----------------------------------------------------------------------------
(* The refinement.                                                         *)

\* A plan having an entry, no run ends before its first event.
LEMMA RunBegins ==
  ASSUME Init
  PROVE  loop = "select" /\ \A n \in Node : state[n] \in {"pending", "ready", "running"}
  <1>1. IInv
    BY InitImpliesIInv
  <1>2. \A n \in Node : state[n] \in {"pending", "ready", "running"}
    BY DEF Init, Running, EntryState
  <1>3. loop \in {"select", "returned"}
    BY DEF Init, LoopHead
  <1>4. loop # "returned"
    <2> SUFFICES ASSUME loop = "returned"
                 PROVE  FALSE
      OBVIOUS
    <2>1. \A n \in Node : ~IsTerminal(state[n])
      BY <1>2 DEF IsTerminal, TerminalState
    <2>2. 1 \in Node
      BY NAssumption DEF Node
    <2>3. \A n \in Node : \E m \in Preds(plan, n) : m \in Node
      BY <1>1, <2>1, BlockedNode DEF Preds
    <2>4. PICK n \in Node : Preds(plan, n) \cap Node = {}
      BY <1>1, <2>2 DEF IInv, Accepted, Acyclic
    <2> QED
      BY <2>3, <2>4
  <1> QED
    BY <1>2, <1>3, <1>4

\* An initial state of the Scheduler is one of GraphRun: every node is open and
\* the run has not ended yet.
LEMMA InitRefines == Init => AsGraphRun!Init
  <1> SUFFICES ASSUME Init
               PROVE  AsGraphRun!Init
    OBVIOUS
  <1>1. StatusMap = [n \in Node |-> "open"]
    BY RunBegins DEF StatusMap, StatusOf
  <1>2. plan \in {p \in Plans : Accepted(p)}
    BY DEF Init
  <1> QED
    BY <1>1, <1>2, RunBegins, SamePlans DEF AsGraphRun!Init, OutcomeMap

\* Every step of the Scheduler maps to a step of GraphRun or to a stutter.
LEMMA NextRefines == IInv /\ IInv' /\ [Next]_vars => [AsGraphRun!Next]_(AsGraphRun!gvars)
  <1> SUFFICES ASSUME IInv, IInv', [Next]_vars
               PROVE  AsGraphRun!Next \/ UNCHANGED AsGraphRun!gvars
    OBVIOUS
  <1>1. ASSUME UNCHANGED <<plan, state, loop>>
        PROVE  UNCHANGED AsGraphRun!gvars
    BY <1>1 DEF AsGraphRun!gvars, StatusMap, OutcomeMap
  <1>2. ASSUME NEW n \in Node, Finish(n)
        PROVE  UNCHANGED AsGraphRun!gvars
    BY <1>1, <1>2 DEF Finish
  <1>3. ASSUME NEW n \in Node, Drop(n)
        PROVE  UNCHANGED AsGraphRun!gvars
    BY <1>1, <1>3 DEF Drop
  <1>4. CASE CtxEnd
    BY <1>1, <1>4 DEF CtxEnd
  <1>5. ASSUME NEW n \in Node, ReceiveSuccess(n)
        PROVE  AsGraphRun!Next
    BY <1>5, SuccessIsComplete, SamePlans DEF AsGraphRun!Next
  <1>6. CASE StartDrain
    <2>1. /\ loop = "select" /\ loop' = "drain" /\ plan' = plan /\ state' = state
      BY <1>6 DEF StartDrain, IInv, LoopPosition
    <2>2. AsGraphRun!Stop
      BY <2>1 DEF AsGraphRun!Stop, StatusMap, OutcomeMap
    <2> QED
      BY <2>2 DEF AsGraphRun!Next
  <1>7. CASE Returned \/ UNCHANGED vars
    BY <1>1, <1>7 DEF Returned, vars
  <1> QED
    BY <1>2, <1>3, <1>4, <1>5, <1>6, <1>7, LateIsEndOrStutter, FailureIsFailOrStutter, DrainGivesUp
       DEF Next

\* The Scheduler implements GraphRun.
THEOREM Refinement == Spec => ImplementsGraphRun
  <1>1. Init => AsGraphRun!Init
    BY InitRefines
  <1>2. IInv /\ IInv' /\ [Next]_vars => [AsGraphRun!Next]_(AsGraphRun!gvars)
    BY NextRefines
  <1> QED
    BY <1>1, <1>2, Invariance, PTL DEF Spec, AsGraphRun!Spec, ImplementsGraphRun

-----------------------------------------------------------------------------
(* The loop's side of Dispatches.                                          *)

\* Dispatches counts as the Scheduler does.
LEMMA SameCount == \A S : AsDispatches!Cardinality(S) = Cardinality(S)
  BY DEF AsDispatches!Cardinality, Cardinality

\* Only workers are told, and an event takes its worker's name off the list: a
\* node that is run again starts with a live context.
ToldAreBusy == cancelled \subseteq Busy(worker)

LEMMA SlotsMean ==
  ASSUME worker \in [Node -> WorkerState]
  PROVE  /\ AsDispatches!Busy(SlotMap) = Busy(worker)
         /\ \A n \in Node : SlotMap[n] = "result" <=> worker[n] \in Result
         /\ \A n \in Node : SlotMap[n] = "idle" <=> worker[n] = "idle"
  BY DEF AsDispatches!Busy, Busy, SlotMap, WorkerState, Result, Failure

LEMMA ToldMeans ==
  ASSUME ToldAreBusy
  PROVE  ToldMap = cancelled
  BY DEF ToldAreBusy, Busy, ToldMap

\* The part of a turn that starts with the received event.
LEMMA ScheduledTurn ==
  ASSUME IInv, IInv', ToldAreBusy, NEW n \in Node, loop = "select", worker[n] \in Result,
         NEW st \in [Node -> NodeState],
         Schedule(plan, st, inFlight - 1, Freed(n), Released(n)),
         \A m \in Node \ {n} : st[m] = "ready" => worker[m] = "idle",
         cancelled \ {n} \subseteq cancelled',
         \A m \in cancelled' : m \in Node \ {n} /\ worker[m] # "idle",
         ctxDone' = ctxDone
  PROVE  AsDispatches!Next /\ ToldAreBusy'
  <1> DEFINE D == Dispatched(plan, st, inFlight - 1)
  <1>1. D \subseteq Node /\ \A m \in D : st[m] = "ready"
    BY DispatchedAreReady DEF ReadySet
  <1>2. /\ worker \in [Node -> WorkerState] /\ worker' \in [Node -> WorkerState]
        /\ Counted(worker', inFlight')
    BY DEF IInv, TypeOK, Coherent
  <1>3. worker' = [m \in Node |-> IF m \in D THEN "executing" ELSE IF m \in {n} THEN "idle" ELSE worker[m]]
    BY <1>1, <1>2 DEF Schedule, Freed
  <1> HIDE DEF D
  <1>4. SlotMap' = [m \in Node |-> IF m \in D THEN "executing" ELSE IF m \in {n} THEN "idle" ELSE SlotMap[m]]
    BY <1>3 DEF SlotMap, Result, Failure
  <1>5. AsDispatches!Busy(SlotMap') = Busy(worker')
    BY <1>2 DEF AsDispatches!Busy, Busy, SlotMap, WorkerState, Result, Failure
  <1>6. ToldAreBusy'
    BY <1>3 DEF ToldAreBusy, Busy
  <1>7. ToldMap = cancelled /\ ToldMap' = cancelled'
    BY <1>6, ToldMeans DEF ToldAreBusy, Busy, ToldMap
  <1>8. Cardinality(Busy(worker')) <= Width
    BY <1>2 DEF Counted
  <1>9. \A m \in cancelled' : m \notin D
    BY <1>1
  <1>10. Returning' => Busy(worker') \subseteq cancelled'
    <2>1. NoOrphanWork'
      <3>1. (IInv => NoOrphanWork)'
        BY OrphansAreTold, PTL
      <3> QED
        BY <3>1
    <2> QED
      BY <2>1 DEF NoOrphanWork, Returning, Busy
  <1>11. Returning' \in BOOLEAN /\ ~Returning
    BY DEF Returning
  <1>12. SlotMap[n] = "result" /\ \A m \in D : SlotMap[m] = "idle" \/ m \in {n}
    BY <1>1, <1>2, SlotsMean
  <1>13. ToldMap \ {n} \subseteq ToldMap' /\ ToldMap' \subseteq AsDispatches!Busy(SlotMap') \ D
    BY <1>5, <1>6, <1>7, <1>9 DEF ToldAreBusy
  <1>14. AsDispatches!Turn({n}, D)
    BY <1>4, <1>5, <1>7, <1>8, <1>10, <1>11, <1>12, <1>13, SameCount DEF AsDispatches!Turn
  <1> QED
    BY <1>1, <1>6, <1>14 DEF AsDispatches!Next, AsDispatches!AtMostOne

\* A ready or pending node has no worker.
LEMMA UnstartedAreIdle ==
  ASSUME IInv, NEW m \in Node, state[m] \in {"pending", "ready"}
  PROVE  worker[m] = "idle"
  BY DEF IInv, Coherent, Staffed

LEMMA LateIsTurn ==
  ASSUME IInv, IInv', ToldAreBusy, NEW n \in Node, ReceiveLate(n)
  PROVE  AsDispatches!Next /\ ToldAreBusy'
  <1>1. /\ loop = "select" /\ worker[n] \in Result /\ ctxDone' = ctxDone
        /\ state \in [Node -> NodeState] /\ cancelled' = cancelled \ {n}
        /\ Schedule(plan, state, inFlight - 1, Freed(n), Released(n))
    BY DEF ReceiveLate, Receivable, IInv, TypeOK
  <1>2. \A m \in cancelled' : m \in Node \ {n} /\ worker[m] # "idle"
    BY <1>1 DEF ToldAreBusy, Busy
  <1> QED
    BY <1>1, <1>2, UnstartedAreIdle, ScheduledTurn

LEMMA FailureIsTurn ==
  ASSUME IInv, IInv', ToldAreBusy, NEW n \in Node, ReceiveFailure(n)
  PROVE  AsDispatches!Next /\ ToldAreBusy'
  <1> DEFINE st == [state EXCEPT ![n] = Verdict(Decide(attempt[n], worker[n]))]
  <1>1. /\ loop = "select" /\ worker[n] \in Result /\ ctxDone' = ctxDone
        /\ state \in [Node -> NodeState] /\ cancelled' = cancelled \ {n}
        /\ Schedule(plan, Promote(plan, st), inFlight - 1, Freed(n), Released(n))
    BY DEF ReceiveFailure, Receivable, IInv, TypeOK
  <1>2. \A m \in cancelled' : m \in Node \ {n} /\ worker[m] # "idle"
    BY <1>1 DEF ToldAreBusy, Busy
  <1>3. st \in [Node -> NodeState] /\ \A m \in Node \ {n} : st[m] = state[m]
    BY <1>1 DEF Verdict, NodeState
  <1> HIDE DEF st
  <1>4. /\ Promote(plan, st) \in [Node -> NodeState]
        /\ \A m \in Node \ {n} : Promote(plan, st)[m] = "ready" => state[m] \in {"pending", "ready"}
    BY <1>3, PromoteEffect
  <1> QED
    BY <1>1, <1>2, <1>4, UnstartedAreIdle, ScheduledTurn

LEMMA SuccessIsTurn ==
  ASSUME IInv, IInv', ToldAreBusy, NEW n \in Node, ReceiveSuccess(n)
  PROVE  AsDispatches!Next /\ ToldAreBusy'
  <1> DEFINE won == [state EXCEPT ![n] = "executed"]
  <1>1. /\ loop = "select" /\ worker[n] \in Result /\ ctxDone' = ctxDone
        /\ plan \in PlanType /\ state \in [Node -> NodeState]
    BY DEF ReceiveSuccess, Receivable, IInv, TypeOK
  <1>2. PICK V \in SUBSET Visits(plan, n) :
          LET L == Losers(plan, V)
          IN  /\ Schedule(plan, Promote(plan, Skip(won, L)), inFlight - 1, Freed(n), Released(n))
              /\ cancelled' = (cancelled \ {n}) \cup {c \in L : worker[c] # "idle"}
    BY DEF ReceiveSuccess, Told
  <1> DEFINE L  == Losers(plan, V)
             sk == Skip(won, L)
  <1>3. \A c \in L : c \in Node /\ c # n
    BY <1>1, VisitsCandidates DEF Losers
  <1>4. won \in [Node -> NodeState] /\ \A m \in Node \ {n} : won[m] = state[m]
    BY <1>1 DEF NodeState
  <1>5. \A m \in cancelled' : m \in Node \ {n} /\ worker[m] # "idle"
    BY <1>2, <1>3 DEF ToldAreBusy, Busy
  <1> HIDE DEF won, L
  <1>6. sk \in [Node -> NodeState] /\ \A m \in Node \ {n} : sk[m] \in {state[m], "skipped"}
    BY <1>4 DEF Skip, NodeState
  <1> HIDE DEF sk
  <1>7. /\ Promote(plan, sk) \in [Node -> NodeState]
        /\ \A m \in Node \ {n} : Promote(plan, sk)[m] = "ready" => state[m] \in {"pending", "ready"}
    BY <1>6, PromoteEffect
  <1>8. /\ Schedule(plan, Promote(plan, sk), inFlight - 1, Freed(n), Released(n))
        /\ cancelled \ {n} \subseteq cancelled'
    BY <1>2 DEF sk, L
  <1> QED
    BY <1>1, <1>5, <1>7, <1>8, UnstartedAreIdle, ScheduledTurn

\* The drain only receives, and ends with the last worker.
LEMMA DrainIsTurn ==
  ASSUME IInv, IInv', ToldAreBusy, NEW n \in Node, DrainReceive(n)
  PROVE  AsDispatches!Next /\ ToldAreBusy'
  <1>1. /\ loop = "drain" /\ worker[n] \in Result /\ ctxDone' = ctxDone
        /\ worker' = [worker EXCEPT ![n] = "idle"] /\ cancelled' = cancelled \ {n}
        /\ loop' \in {"drain", "aborted"}
        /\ worker \in [Node -> WorkerState] /\ worker' \in [Node -> WorkerState]
    BY DEF DrainReceive, Freed, IInv, TypeOK
  <1>2. SlotMap' = [m \in Node |-> IF m \in {} THEN "executing" ELSE IF m \in {n} THEN "idle" ELSE SlotMap[m]]
    BY <1>1 DEF SlotMap, Result, Failure
  <1>3. AsDispatches!Busy(SlotMap') = Busy(worker')
    BY <1>1 DEF AsDispatches!Busy, Busy, SlotMap, WorkerState, Result, Failure
  <1>4. ToldAreBusy'
    BY <1>1 DEF ToldAreBusy, Busy
  <1>5. ToldMap = cancelled /\ ToldMap' = cancelled'
    BY <1>4, ToldMeans DEF ToldAreBusy, Busy, ToldMap
  <1>6. Returning' => Busy(worker') \subseteq cancelled'
    <2>1. NoOrphanWork'
      <3>1. (IInv => NoOrphanWork)'
        BY OrphansAreTold, PTL
      <3> QED
        BY <3>1
    <2> QED
      BY <1>1, <2>1 DEF NoOrphanWork, Returning, Busy
  <1>7. Returning' \in BOOLEAN /\ ~Returning
    BY <1>1 DEF Returning
  <1>8. SlotMap[n] = "result"
    BY <1>1, SlotsMean
  <1>9. ToldMap \ {n} \subseteq ToldMap' /\ ToldMap' \subseteq AsDispatches!Busy(SlotMap') \ {}
    BY <1>1, <1>3, <1>4, <1>5 DEF ToldAreBusy
  <1>10. AsDispatches!Turn({n}, {})
    BY <1>1, <1>2, <1>3, <1>5, <1>6, <1>7, <1>8, <1>9 DEF AsDispatches!Turn
  <1> QED
    BY <1>4, <1>10 DEF AsDispatches!Next, AsDispatches!AtMostOne

\* The first wave fits, and nobody has been told to stop.
LEMMA InitKeepsLoopSide == Init => AsDispatches!Init /\ ToldAreBusy
  <1> SUFFICES ASSUME Init
               PROVE  AsDispatches!Init /\ ToldAreBusy
    OBVIOUS
  <1> DEFINE D == Dispatched(plan, EntryState(plan), 0)
  <1>1. D \subseteq Node
    BY DispatchedAreReady DEF ReadySet
  <1>2. SlotMap = [x \in Node |-> IF x \in D THEN "executing" ELSE "idle"]
    BY DEF Init, SlotMap, Result, Failure
  <1>3. inFlight = Cardinality(D)
    BY DEF Init
  <1>4. inFlight <= Width
    BY InitImpliesIInv DEF IInv, Coherent, Counted
  <1> HIDE DEF D
  <1>5. \E X \in SUBSET Node :
          /\ SlotMap = [x \in Node |-> IF x \in X THEN "executing" ELSE "idle"]
          /\ Cardinality(X) <= Width
    BY <1>1, <1>2, <1>3, <1>4
  <1>6. ToldMap = {} /\ ctxDone = FALSE /\ Returning = FALSE /\ ToldAreBusy
    <2>1. cancelled = {} /\ ctxDone = FALSE
      BY DEF Init
    <2>2. loop = "select"
      BY RunBegins
    <2> QED
      BY <2>1, <2>2 DEF ToldMap, Returning, ToldAreBusy
  <1> QED
    BY <1>5, <1>6, SameCount DEF AsDispatches!Init

\* Every step of the Scheduler maps to a step of Dispatches or to a stutter.
LEMMA NextKeepsLoopSide ==
  IInv /\ IInv' /\ ToldAreBusy /\ [Next]_vars =>
    [AsDispatches!Next]_(AsDispatches!dvars) /\ ToldAreBusy'
  <1> SUFFICES ASSUME IInv, IInv', ToldAreBusy, [Next]_vars
               PROVE  (AsDispatches!Next \/ UNCHANGED AsDispatches!dvars) /\ ToldAreBusy'
    OBVIOUS
  <1>1. worker \in [Node -> WorkerState]
    BY DEF IInv, TypeOK
  <1>2. ASSUME NEW n \in Node, Finish(n)
        PROVE  AsDispatches!Next /\ ToldAreBusy'
    <2>1. PICK r \in Result : worker' = [worker EXCEPT ![n] = r]
      BY <1>2 DEF Finish
    <2>2. /\ worker[n] = "executing"
          /\ cancelled' = cancelled /\ ctxDone' = ctxDone /\ loop' = loop
      BY <1>2 DEF Finish
    <2>3. SlotMap[n] = "executing" /\ SlotMap' = [SlotMap EXCEPT ![n] = "result"]
      BY <1>1, <2>1, <2>2 DEF SlotMap, Result, Failure
    <2>4. ToldMap' = ToldMap /\ ToldAreBusy'
      BY <1>1, <2>1, <2>2 DEF ToldMap, ToldAreBusy, Busy, Result, Failure
    <2>5. AsDispatches!Answer(n)
      BY <2>2, <2>3, <2>4 DEF AsDispatches!Answer, Returning
    <2> QED
      BY <2>4, <2>5 DEF AsDispatches!Next
  <1>3. ASSUME NEW n \in Node, Drop(n)
        PROVE  AsDispatches!Next /\ ToldAreBusy'
    <2>1. /\ worker' = [worker EXCEPT ![n] = "gone"] /\ worker[n] \in Result /\ ctxDone
          /\ cancelled' = cancelled /\ ctxDone' = ctxDone /\ loop' = loop
      BY <1>3 DEF Drop
    <2>2. SlotMap[n] = "result" /\ SlotMap' = [SlotMap EXCEPT ![n] = "gone"]
      BY <1>1, <2>1 DEF SlotMap, Result, Failure
    <2>3. ToldMap' = ToldMap /\ ToldAreBusy'
      BY <1>1, <2>1 DEF ToldMap, ToldAreBusy, Busy, Result, Failure
    <2>4. AsDispatches!GiveUp(n)
      BY <2>1, <2>2, <2>3 DEF AsDispatches!GiveUp, Returning
    <2> QED
      BY <2>3, <2>4 DEF AsDispatches!Next
  <1>4. ASSUME worker' = worker, cancelled' = cancelled
        PROVE  SlotMap' = SlotMap /\ ToldMap' = ToldMap /\ ToldAreBusy'
    BY <1>4 DEF SlotMap, ToldMap, ToldAreBusy, Busy
  <1>5. CASE CtxEnd
    <2>1. SlotMap' = SlotMap /\ ToldMap' = ToldMap /\ ToldAreBusy'
      BY <1>4, <1>5 DEF CtxEnd
    <2>2. AsDispatches!CtxEnds
      BY <1>5, <2>1 DEF CtxEnd, AsDispatches!CtxEnds, Returning
    <2> QED
      BY <2>1, <2>2 DEF AsDispatches!Next
  <1>6. CASE StartDrain
    <2>1. /\ worker' = worker /\ cancelled' = cancelled /\ ctxDone' = ctxDone
          /\ loop = "select" /\ loop' = "drain"
      BY <1>6 DEF StartDrain, IInv, LoopPosition
    <2>2. Returning' = Returning
      BY <2>1 DEF Returning
    <2> QED
      BY <1>4, <2>1, <2>2 DEF AsDispatches!dvars
  <1>7. CASE Returned \/ UNCHANGED vars
    BY <1>4, <1>7 DEF Returned, vars, AsDispatches!dvars, Returning
  <1> QED
    BY <1>2, <1>3, <1>5, <1>6, <1>7, LateIsTurn, SuccessIsTurn, FailureIsTurn, DrainIsTurn DEF Next

\* The loop implements Dispatches: what Worker takes for granted of Run, its
\* Dispatch, Report, CancelLoser and Stop, is what Run does.
THEOREM LoopRefines == Spec => LoopKeepsItsSide
  <1>1. Init => AsDispatches!Init /\ ToldAreBusy
    BY InitKeepsLoopSide
  <1>2. IInv /\ IInv' /\ ToldAreBusy /\ [Next]_vars =>
          [AsDispatches!Next]_(AsDispatches!dvars) /\ ToldAreBusy'
    BY NextKeepsLoopSide
  <1> QED
    BY <1>1, <1>2, Invariance, PTL DEF Spec, AsDispatches!Spec, LoopKeepsItsSide

=============================================================================
