---------------------------- MODULE WorkerProofs ----------------------------
(***************************************************************************)
(* Proofs about the Worker, for every number of dispatches and any backend *)
(* of each, every capacity of the bucket, any choice of nodes with         *)
(* timeouts and contracts, and any number of ticks.                        *)
(***************************************************************************)
EXTENDS Worker, FiniteSetTheorems, TLAPS

-----------------------------------------------------------------------------
(* The inductive invariant.                                                *)

Taking == {w \in Worker : phase[w] = "taking"}

\* Where a worker is tells how many calls it has made.
CallsFollowPhase ==
  \A w \in Worker :
    /\ calls[w] <= MaxCalls(w)
    /\ phase[w] \in {"waiting", "taking"} => calls[w] = 0 /\ w \notin took
    /\ phase[w] \in {"calling", "backoff"} => calls[w] < MaxCalls(w)
    /\ phase[w] \in {"awaiting", "backoff"} => calls[w] > 0

\* Once Run has returned every worker it left behind is a loser it told.
StrayAreLosers ==
  /\ losers \subseteq ended
  /\ stopped => Unreported \subseteq losers

\* A worker past the bucket without a token has a context that has ended, and
\* an LLM has made no call for it.
OnlyEndedSlipThrough ==
  /\ \A w \in LLM : calls[w] > 0 => w \in took
  /\ \A w \in Worker : phase[w] \notin {"waiting", "taking"} /\ w \notin took => w \in ended

\* The tokens taken and left are at least the first burst and at most what the
\* ticker added to it.
TokensTally ==
  /\ Burst <= Cardinality(took) + tokens
  /\ Cardinality(took) + tokens <= Burst + ticks

WInv ==
  /\ TypeOK
  /\ CallsFollowPhase
  /\ StrayAreLosers
  /\ OnlyEndedSlipThrough
  /\ TokensTally

-----------------------------------------------------------------------------
\* A set of workers is finite.
LEMMA WorkersFinite ==
  ASSUME NEW S \in SUBSET Worker
  PROVE  IsFiniteSet(S) /\ Cardinality(S) \in Nat
  BY WorkerAssumption, FS_Subset, FS_CardinalityType

\* One more worker with a token is one more token taken.
LEMMA OneMore ==
  ASSUME NEW S \in SUBSET Worker, NEW w \in Worker, w \notin S
  PROVE  Cardinality(S \cup {w}) = Cardinality(S) + 1
  BY WorkersFinite, FS_AddElement

\* The bucket starts full and nobody has a token.
LEMMA InitImpliesWInv == Init => WInv
  <1> SUFFICES ASSUME Init PROVE WInv
    OBVIOUS
  <1> USE WorkerAssumption DEF Init, FirstTokens
  <1>1. TypeOK
    <2>1. tokens \in 0 .. Burst /\ ticks \in 0 .. MaxTicks
      BY DEF FirstTokens
    <2>2. phase \in [Worker -> Phase] /\ status \in [Worker -> Status] /\ result \in [Worker -> Result]
      BY DEF Phase, Status, Result
    <2> QED
      BY <2>1, <2>2 DEF TypeOK
  <1>2. Cardinality(took) = 0
    BY FS_EmptySet
  <1>3. TokensTally
    BY <1>2 DEF TokensTally
  <1>4. CallsFollowPhase
    BY DEF CallsFollowPhase, MaxCalls
  <1>5. StrayAreLosers /\ OnlyEndedSlipThrough
    BY DEF StrayAreLosers, OnlyEndedSlipThrough, LLM
  <1> QED
    BY <1>1, <1>3, <1>4, <1>5 DEF WInv

\* What a failure is classified as.
LEMMA FailureTypes ==
  ASSUME NEW w \in Worker, NEW marked \in BOOLEAN
  PROVE  /\ FailureOf(w, marked) \in {"transient", "structural"}
         /\ w \in ended => FailureOf(w, marked) = "transient"
  BY DEF FailureOf

\* What a response is turned into.
LEMMA ResultTypes ==
  ASSUME NEW w \in Worker, NEW r \in Response
  PROVE  ResultOf(w, r) \in {"ok", "transient", "structural"}
  BY FailureTypes DEF ResultOf, Response, Gate

\* Every step of a worker, of the ticker and of Run keeps the invariant.
LEMMA NextKeepsWInv == WInv /\ [Next]_vars => WInv'
  <1> SUFFICES ASSUME WInv, [Next]_vars PROVE WInv'
    OBVIOUS
  <1> USE WorkerAssumption
  <1> USE DEF WInv, Goto, Return, Finish, runVars, ctxVars, execVars
  <1>0. /\ IsFiniteSet(took) /\ Cardinality(took) \in Nat
        /\ tokens \in 0 .. Burst /\ ticks \in 0 .. MaxTicks /\ calls \in [Worker -> Nat]
        /\ stopped \in BOOLEAN /\ caller \in BOOLEAN
        /\ phase \in [Worker -> Phase] /\ result \in [Worker -> Result]
        /\ status \in [Worker -> Status]
        /\ losers \in SUBSET Worker /\ ended \in SUBSET Worker /\ took \in SUBSET Worker
        /\ LLM \subseteq Worker
    BY WorkersFinite DEF TypeOK, LLM
  <1>q. \A w \in Worker : MaxCalls(w) \in {1, 2} /\ (Backend[w] # "gemini" => MaxCalls(w) = 1)
    BY DEF MaxCalls
  <1>1. ASSUME NEW w \in Worker, Dispatch(w) PROVE WInv'
    <2> USE <1>0, <1>q, <1>1 DEF Dispatch
    <2>1. TypeOK'
      BY DEF TypeOK, Phase
    <2>2. CallsFollowPhase'
      BY DEF CallsFollowPhase
    <2>3. StrayAreLosers'
      BY DEF StrayAreLosers, Unreported
    <2>4. OnlyEndedSlipThrough'
      BY DEF OnlyEndedSlipThrough
    <2>5. TokensTally'
      BY DEF TokensTally
    <2> QED
      BY <2>1, <2>2, <2>3, <2>4, <2>5
  <1>2. ASSUME NEW w \in Worker, Take(w) PROVE WInv'
    <2> USE <1>0, <1>q, <1>2 DEF Take
    <2>a. w \notin took
      BY DEF CallsFollowPhase
    <2>b. Cardinality(took') = Cardinality(took) + 1
      BY <2>a, OneMore
    <2>1. TypeOK'
      BY DEF TypeOK, Phase
    <2>2. CallsFollowPhase'
      BY DEF CallsFollowPhase
    <2>3. StrayAreLosers'
      BY DEF StrayAreLosers, Unreported
    <2>4. OnlyEndedSlipThrough'
      BY DEF OnlyEndedSlipThrough
    <2>5. TokensTally'
      BY <2>b DEF TokensTally
    <2> QED
      BY <2>1, <2>2, <2>3, <2>4, <2>5
  <1>3. ASSUME NEW w \in Worker, TakeNothing(w) PROVE WInv'
    <2> USE <1>0, <1>q, <1>3 DEF TakeNothing
    <2>a. w \in ended
      BY DEF StrayAreLosers, Unreported
    <2>1. TypeOK'
      BY DEF TypeOK, Phase
    <2>2. CallsFollowPhase'
      BY DEF CallsFollowPhase
    <2>3. StrayAreLosers'
      BY DEF StrayAreLosers, Unreported
    <2>4. OnlyEndedSlipThrough'
      BY <2>a DEF OnlyEndedSlipThrough
    <2>5. TokensTally'
      BY DEF TokensTally
    <2> QED
      BY <2>1, <2>2, <2>3, <2>4, <2>5
  <1>4. ASSUME NEW w \in Worker, Start(w) PROVE WInv'
    <2> USE <1>0, <1>q, <1>4 DEF Start
    <2>a. calls[w] < MaxCalls(w) /\ calls[w] \in Nat
      BY DEF CallsFollowPhase
    <2>b. w \in LLM => w \in took
      BY DEF OnlyEndedSlipThrough
    <2>1. TypeOK'
      BY DEF TypeOK, Phase
    <2>2. CallsFollowPhase'
      BY <2>a DEF CallsFollowPhase
    <2>3. StrayAreLosers'
      BY DEF StrayAreLosers, Unreported
    <2>4. OnlyEndedSlipThrough'
      BY <2>b DEF OnlyEndedSlipThrough
    <2>5. TokensTally'
      BY DEF TokensTally
    <2> QED
      BY <2>1, <2>2, <2>3, <2>4, <2>5
  <1>5. ASSUME NEW w \in Worker, Unstartable(w) PROVE WInv'
    <2> USE <1>0, <1>q, <1>5 DEF Unstartable
    <2>a. PICK marked \in BOOLEAN : Return(w, FailureOf(w, marked))
      OBVIOUS
    <2>b. FailureOf(w, marked) \in Result /\ (w \in ended => FailureOf(w, marked) # "structural")
      BY FailureTypes DEF Result
    <2>c. w \notin ended => w \in took
      BY DEF OnlyEndedSlipThrough
    <2>1. TypeOK'
      BY <2>a, <2>b DEF TypeOK, Phase
    <2>2. CallsFollowPhase'
      BY <2>a DEF CallsFollowPhase
    <2>3. StrayAreLosers'
      BY <2>a DEF StrayAreLosers, Unreported
    <2>4. OnlyEndedSlipThrough'
      BY <2>a DEF OnlyEndedSlipThrough
    <2>5. TokensTally'
      BY DEF TokensTally
    <2> QED
      BY <2>1, <2>2, <2>3, <2>4, <2>5
  <1>6. ASSUME NEW w \in Worker, UnknownTool(w) PROVE WInv'
    <2> USE <1>0, <1>q, <1>6 DEF UnknownTool
    <2>a. w \notin LLM
      BY DEF LLM
    <2>1. TypeOK'
      BY DEF TypeOK, Phase, Result
    <2>2. CallsFollowPhase'
      BY DEF CallsFollowPhase
    <2>3. StrayAreLosers'
      BY DEF StrayAreLosers, Unreported
    <2>4. OnlyEndedSlipThrough'
      BY DEF OnlyEndedSlipThrough
    <2>5. TokensTally'
      BY DEF TokensTally
    <2> QED
      BY <2>1, <2>2, <2>3, <2>4, <2>5
  <1>7. ASSUME NEW w \in Worker, Cut(w) PROVE WInv'
    <2> USE <1>0, <1>q, <1>7 DEF Cut
    <2>a. FailureOf(w, FALSE) = "transient"
      BY FailureTypes
    <2>1. TypeOK'
      BY <2>a DEF TypeOK, Phase, Result
    <2>2. CallsFollowPhase'
      BY DEF CallsFollowPhase
    <2>3. StrayAreLosers'
      BY DEF StrayAreLosers, Unreported
    <2>4. OnlyEndedSlipThrough'
      BY DEF OnlyEndedSlipThrough
    <2>5. TokensTally'
      BY DEF TokensTally
    <2> QED
      BY <2>1, <2>2, <2>3, <2>4, <2>5
  <1>8. ASSUME NEW w \in Worker, Break(w) PROVE WInv'
    <2> USE <1>0, <1>q, <1>8 DEF Break
    <2>a. PICK marked \in BOOLEAN : Return(w, FailureOf(w, marked))
      OBVIOUS
    <2>b. FailureOf(w, marked) \in Result
      BY FailureTypes DEF Result
    <2>c. calls[w] > 0 /\ w \in took
      BY DEF CallsFollowPhase, OnlyEndedSlipThrough
    <2>1. TypeOK'
      BY <2>a, <2>b DEF TypeOK, Phase, Status
    <2>2. CallsFollowPhase'
      BY <2>a DEF CallsFollowPhase
    <2>3. StrayAreLosers'
      BY <2>a DEF StrayAreLosers, Unreported
    <2>4. OnlyEndedSlipThrough'
      BY <2>a DEF OnlyEndedSlipThrough
    <2>5. TokensTally'
      BY DEF TokensTally
    <2> QED
      BY <2>1, <2>2, <2>3, <2>4, <2>5
  <1>9. ASSUME NEW w \in Worker, Respond(w) PROVE WInv'
    <2> USE <1>0, <1>q, <1>9 DEF Respond
    <2>a. calls[w] > 0 /\ w \in took
      BY DEF CallsFollowPhase, OnlyEndedSlipThrough, LLM
    <2>b. PICK r \in Response :
            /\ status' = [status EXCEPT ![w] = r.status]
            /\ IF Again(w, r) THEN Goto(w, "backoff") /\ UNCHANGED result
                              ELSE Return(w, ResultOf(w, r))
      OBVIOUS
    <2>c. ResultOf(w, r) \in Result /\ r.status \in Status
      BY ResultTypes DEF Result, Response
    <2>1. TypeOK'
      BY <2>b, <2>c DEF TypeOK, Phase
    <2>2. CallsFollowPhase'
      BY <2>a, <2>b DEF CallsFollowPhase, Again, MaxCalls
    <2>3. StrayAreLosers'
      BY <2>b DEF StrayAreLosers, Unreported
    <2>4. OnlyEndedSlipThrough'
      BY <2>a, <2>b DEF OnlyEndedSlipThrough
    <2>5. TokensTally'
      BY DEF TokensTally
    <2> QED
      BY <2>1, <2>2, <2>3, <2>4, <2>5
  <1>10. ASSUME NEW w \in Worker, BackoffEnds(w) PROVE WInv'
    <2> USE <1>0, <1>q, <1>10 DEF BackoffEnds
    <2>1. TypeOK'
      BY DEF TypeOK, Phase
    <2>2. CallsFollowPhase'
      BY DEF CallsFollowPhase
    <2>3. StrayAreLosers'
      BY DEF StrayAreLosers, Unreported
    <2>4. OnlyEndedSlipThrough'
      BY DEF OnlyEndedSlipThrough
    <2>5. TokensTally'
      BY DEF TokensTally
    <2> QED
      BY <2>1, <2>2, <2>3, <2>4, <2>5
  <1>11. ASSUME NEW w \in Worker, Exit(w) PROVE WInv'
    <2> USE <1>0, <1>q, <1>11 DEF Exit
    <2>a. calls[w] > 0 /\ w \in took
      BY DEF CallsFollowPhase, OnlyEndedSlipThrough, LLM
    <2>b. PICK good \in BOOLEAN : Return(w, Gate(w, good))
      OBVIOUS
    <2>c. Gate(w, good) \in Result
      BY DEF Gate, Result
    <2>1. TypeOK'
      BY <2>b, <2>c DEF TypeOK, Phase
    <2>2. CallsFollowPhase'
      BY <2>b DEF CallsFollowPhase
    <2>3. StrayAreLosers'
      BY <2>b DEF StrayAreLosers, Unreported
    <2>4. OnlyEndedSlipThrough'
      BY <2>a, <2>b DEF OnlyEndedSlipThrough
    <2>5. TokensTally'
      BY DEF TokensTally
    <2> QED
      BY <2>1, <2>2, <2>3, <2>4, <2>5
  <1>12. ASSUME NEW w \in Worker, ToolReturns(w) PROVE WInv'
    <2> USE <1>0, <1>q, <1>12 DEF ToolReturns
    <2>a. PICK r \in {"ok", "structural"} : Return(w, r)
      OBVIOUS
    <2>b. w \notin LLM
      BY DEF LLM
    <2>1. TypeOK'
      BY <2>a DEF TypeOK, Phase, Result
    <2>2. CallsFollowPhase'
      BY <2>a DEF CallsFollowPhase
    <2>3. StrayAreLosers'
      BY <2>a DEF StrayAreLosers, Unreported
    <2>4. OnlyEndedSlipThrough'
      BY <2>a DEF OnlyEndedSlipThrough
    <2>5. TokensTally'
      BY DEF TokensTally
    <2> QED
      BY <2>1, <2>2, <2>3, <2>4, <2>5
  <1>13. ASSUME NEW w \in Worker, Report(w) PROVE WInv'
    <2> USE <1>0, <1>q, <1>13 DEF Report
    <2>1. TypeOK'
      BY DEF TypeOK, Phase, Status, Result
    <2>2. CallsFollowPhase'
      BY DEF CallsFollowPhase
    <2>3. StrayAreLosers'
      BY DEF StrayAreLosers, Unreported
    <2>4. OnlyEndedSlipThrough'
      BY DEF OnlyEndedSlipThrough
    <2>5. TokensTally'
      BY DEF TokensTally
    <2> QED
      BY <2>1, <2>2, <2>3, <2>4, <2>5
  <1>14. ASSUME NEW w \in Worker, Drop(w) PROVE WInv'
    <2> USE <1>0, <1>q, <1>14 DEF Drop
    <2>1. TypeOK'
      BY DEF TypeOK, Phase, Status, Result
    <2>2. CallsFollowPhase'
      BY DEF CallsFollowPhase
    <2>3. StrayAreLosers'
      BY DEF StrayAreLosers, Unreported
    <2>4. OnlyEndedSlipThrough'
      BY DEF OnlyEndedSlipThrough
    <2>5. TokensTally'
      BY DEF TokensTally
    <2> QED
      BY <2>1, <2>2, <2>3, <2>4, <2>5
  <1>15. ASSUME NEW w \in Worker, TimeoutExpires(w) PROVE WInv'
    <2> USE <1>0, <1>q, <1>15 DEF TimeoutExpires
    <2>1. TypeOK'
      BY DEF TypeOK
    <2>2. CallsFollowPhase'
      BY DEF CallsFollowPhase
    <2>3. StrayAreLosers'
      BY DEF StrayAreLosers, Unreported
    <2>4. OnlyEndedSlipThrough'
      BY DEF OnlyEndedSlipThrough
    <2>5. TokensTally'
      BY DEF TokensTally
    <2> QED
      BY <2>1, <2>2, <2>3, <2>4, <2>5
  <1>16. ASSUME NEW w \in Worker, CancelLoser(w) PROVE WInv'
    <2> USE <1>0, <1>q, <1>16 DEF CancelLoser
    <2>1. TypeOK'
      BY DEF TypeOK
    <2>2. CallsFollowPhase'
      BY DEF CallsFollowPhase
    <2>3. StrayAreLosers'
      BY DEF StrayAreLosers, Unreported
    <2>4. OnlyEndedSlipThrough'
      BY DEF OnlyEndedSlipThrough
    <2>5. TokensTally'
      BY DEF TokensTally
    <2> QED
      BY <2>1, <2>2, <2>3, <2>4, <2>5
  <1>17. CASE CallerEnds
    <2> USE <1>0, <1>q, <1>17 DEF CallerEnds
    <2>1. TypeOK'
      BY DEF TypeOK, Unreported
    <2>2. CallsFollowPhase'
      BY DEF CallsFollowPhase
    <2>3. StrayAreLosers'
      BY DEF StrayAreLosers, Unreported
    <2>4. OnlyEndedSlipThrough'
      BY DEF OnlyEndedSlipThrough
    <2>5. TokensTally'
      BY DEF TokensTally
    <2> QED
      BY <2>1, <2>2, <2>3, <2>4, <2>5
  <1>18. CASE Drip
    <2> USE <1>0, <1>q, <1>18 DEF Drip
    <2>1. TypeOK'
      BY DEF TypeOK
    <2>2. CallsFollowPhase'
      BY DEF CallsFollowPhase
    <2>3. StrayAreLosers'
      BY DEF StrayAreLosers, Unreported
    <2>4. OnlyEndedSlipThrough'
      BY DEF OnlyEndedSlipThrough
    <2>5. TokensTally'
      BY DEF TokensTally
    <2> QED
      BY <2>1, <2>2, <2>3, <2>4, <2>5
  <1>19. CASE Stop
    <2> USE <1>0, <1>q, <1>19 DEF Stop
    <2>1. TypeOK'
      BY DEF TypeOK
    <2>2. CallsFollowPhase'
      BY DEF CallsFollowPhase
    <2>3. StrayAreLosers'
      BY DEF StrayAreLosers, Unreported
    <2>4. OnlyEndedSlipThrough'
      BY DEF OnlyEndedSlipThrough
    <2>5. TokensTally'
      BY DEF TokensTally
    <2> QED
      BY <2>1, <2>2, <2>3, <2>4, <2>5
  <1>20. CASE UNCHANGED vars
    BY <1>20 DEF vars, TypeOK, CallsFollowPhase, StrayAreLosers, Unreported, OnlyEndedSlipThrough,
                TokensTally
  <1> QED
    BY <1>1, <1>2, <1>3, <1>4, <1>5, <1>6, <1>7, <1>8, <1>9, <1>10, <1>11, <1>12,
       <1>13, <1>14, <1>15, <1>16, <1>17, <1>18, <1>19, <1>20 DEF Next, Over

\* The invariant holds in every reachable state.
THEOREM WorkerInvariance == Spec => []WInv
  BY InitImpliesWInv, NextKeepsWInv, PTL DEF Spec

-----------------------------------------------------------------------------
(* What follows from it.                                                   *)

\* Every variable keeps its type; the bucket never overflows (drip).
THEOREM WorkerTypeCorrect == Spec => []TypeOK
  <1>1. WInv => TypeOK
    BY DEF WInv
  <1> QED
    BY <1>1, WorkerInvariance, PTL

\* No LLM call is made without a token, and the tokens are what newTokenBucket
\* put there and drip added.
THEOREM CallsHoldTokens == Spec => []CallsAreThrottled
  <1>1. WInv => CallsAreThrottled
    BY DEF WInv, CallsFollowPhase, OnlyEndedSlipThrough, TokensTally, CallsAreThrottled, LLM
  <1> QED
    BY <1>1, WorkerInvariance, PTL

\* Whatever the rate, the first maxParallel workers find their tokens.
THEOREM FirstBurstFindsTokens == Spec => []FirstBurstDoesNotWait
  <1>1. WInv => FirstBurstDoesNotWait
    <2> DEFINE Started == {w \in Worker : phase[w] # "waiting"}
    <2> SUFFICES ASSUME WInv, Cardinality(Started) <= Burst
                 PROVE  Cardinality(Taking) <= tokens
      BY DEF FirstBurstDoesNotWait, Taking
    <2>1. /\ IsFiniteSet(took) /\ Cardinality(took) \in Nat
          /\ IsFiniteSet(Taking) /\ Cardinality(Taking) \in Nat
          /\ IsFiniteSet(Started) /\ Cardinality(Started) \in Nat
      BY WorkersFinite DEF WInv, TypeOK, Taking
    <2>2. took \cap Taking = {} /\ took \cup Taking \subseteq Started
      BY DEF WInv, TypeOK, CallsFollowPhase, Taking
    <2>3. Cardinality(took \cup Taking) = Cardinality(took) + Cardinality(Taking)
      <3>1. Cardinality(took \cap Taking) = 0
        BY <2>2, FS_EmptySet
      <3>2. Cardinality(took \cup Taking) = Cardinality(took) + Cardinality(Taking) - Cardinality(took \cap Taking)
        BY <2>1, FS_Union
      <3> QED
        BY <2>1, <3>1, <3>2
    <2>4. Cardinality(took \cup Taking) <= Cardinality(Started)
      BY <2>1, <2>2, FS_Subset
    <2>5. Burst <= Cardinality(took) + tokens /\ tokens \in 0 .. Burst
      BY DEF WInv, TypeOK, TokensTally
    <2> QED
      BY <2>1, <2>3, <2>4, <2>5, WorkerAssumption
  <1> QED
    BY <1>1, WorkerInvariance, PTL

\* Neither the bucket nor a context that ended makes a node escalate, wherever
\* the worker was when it ended.
THEOREM EscalationsAreEarned == Spec => EscalationIsEarned
  <1> DEFINE Earned == \A w \in LLM :
               result[w] = "none" /\ result'[w] = "structural" =>
                 /\ w \in took
                 /\ w \in ended => w \in Contracted /\ calls[w] > 0
  <1>1. WInv /\ [Next]_vars => [Earned]_vars
    <2> SUFFICES ASSUME WInv, Next PROVE Earned
      OBVIOUS
    <2>0. /\ result \in [Worker -> Result] /\ ended \in SUBSET Worker
          /\ LLM \subseteq Worker
      BY DEF WInv, TypeOK, LLM
    <2>1. ASSUME NEW w \in Worker, NEW r, Return(w, r),
                 w \in LLM /\ r = "structural" => /\ w \in took
                                                  /\ w \in ended => w \in Contracted /\ calls[w] > 0
          PROVE  Earned
      BY <2>0, <2>1 DEF Return
    <2>2. ASSUME result' = result PROVE Earned
      BY <2>2
    <2>3. ASSUME NEW w \in LLM, phase[w] \in {"calling", "awaiting"}
          PROVE  /\ w \notin ended => w \in took
                 /\ phase[w] = "awaiting" => w \in took /\ calls[w] > 0
      BY <2>0, <2>3 DEF WInv, OnlyEndedSlipThrough, CallsFollowPhase
    <2>4. ASSUME NEW w \in Worker, Unstartable(w) \/ Break(w) PROVE Earned
      <3>1. w \in LLM /\ phase[w] \in {"calling", "awaiting"}
        BY <2>4 DEF Unstartable, Break
      <3>2. PICK marked \in BOOLEAN : Return(w, FailureOf(w, marked))
        BY <2>4 DEF Unstartable, Break
      <3> QED
        BY <2>1, <2>3, <3>1, <3>2, FailureTypes
    <2>5. ASSUME NEW w \in Worker, Cut(w) PROVE Earned
      <3>1. Return(w, FailureOf(w, FALSE)) /\ FailureOf(w, FALSE) = "transient"
        BY <2>5, FailureTypes DEF Cut
      <3> QED
        BY <2>1, <3>1
    <2>6. ASSUME NEW w \in Worker, UnknownTool(w) \/ ToolReturns(w) PROVE Earned
      <3>1. w \notin LLM /\ \E r : Return(w, r)
        BY <2>6 DEF UnknownTool, ToolReturns, LLM
      <3> QED
        BY <2>1, <3>1
    <2>7. ASSUME NEW w \in Worker, NEW good \in BOOLEAN, w \in ended, Gate(w, good) = "structural"
          PROVE  w \in Contracted
      BY <2>7 DEF Gate
    <2>8. ASSUME NEW w \in Worker, Exit(w) PROVE Earned
      <3>1. w \in LLM /\ phase[w] = "awaiting"
        BY <2>8 DEF Exit, LLM
      <3>2. PICK good \in BOOLEAN : Return(w, Gate(w, good))
        BY <2>8 DEF Exit
      <3> QED
        BY <2>1, <2>3, <2>7, <3>1, <3>2
    <2>9. ASSUME NEW w \in Worker, Respond(w) PROVE Earned
      <3>1. w \in LLM /\ phase[w] = "awaiting"
        BY <2>9 DEF Respond, LLM
      <3>2. PICK r \in Response : result' = result \/ Return(w, ResultOf(w, r))
        BY <2>9 DEF Respond
      <3>3. w \in ended /\ ResultOf(w, r) = "structural" => w \in Contracted
        BY <2>7, FailureTypes DEF ResultOf, Response
      <3> QED
        BY <2>1, <2>2, <2>3, <3>1, <3>2, <3>3
    <2>10. ASSUME NEW w \in Worker, Report(w) \/ Drop(w) PROVE Earned
      BY <2>0, <2>10 DEF Report, Drop, Finish
    <2>11. CASE \/ \E w \in Worker : \/ Dispatch(w) \/ Take(w) \/ TakeNothing(w) \/ Start(w)
                                     \/ BackoffEnds(w) \/ TimeoutExpires(w) \/ CancelLoser(w)
                \/ CallerEnds \/ Drip \/ Stop \/ Over
      BY <2>2, <2>11 DEF Dispatch, Take, TakeNothing, Start, BackoffEnds, TimeoutExpires, CancelLoser,
                         CallerEnds, Drip, Stop, Over, vars, runVars, execVars
    <2> QED
      BY <2>4, <2>5, <2>6, <2>8, <2>9, <2>10, <2>11 DEF Next
  <1> QED
    BY <1>1, WorkerInvariance, PTL DEF Spec, EscalationIsEarned

-----------------------------------------------------------------------------
(* The workers' side of Dispatches.                                        *)

\* A dispatch that has not happened is nobody's loser.
LosersWereDispatched == \A w \in losers : phase[w] # "waiting"

LEMMA InitImpliesDispatched == Init => LosersWereDispatched
  BY DEF Init, LosersWereDispatched

LEMMA NextKeepsDispatched == WInv /\ LosersWereDispatched /\ [Next]_vars => LosersWereDispatched'
  <1> SUFFICES ASSUME WInv, LosersWereDispatched, [Next]_vars PROVE LosersWereDispatched'
    OBVIOUS
  <1>1. phase \in [Worker -> Phase] /\ losers \in SUBSET Worker
    BY DEF WInv, TypeOK
  <1>2. ASSUME losers' = losers, \A w \in Worker : phase'[w] = "waiting" => phase[w] = "waiting"
        PROVE  LosersWereDispatched'
    BY <1>1, <1>2 DEF LosersWereDispatched
  <1>3. ASSUME NEW w \in Worker, NEW ph \in Phase \ {"waiting"}, Goto(w, ph), losers' = losers
        PROVE  LosersWereDispatched'
    BY <1>1, <1>2, <1>3 DEF Goto
  <1>4. ASSUME phase' = phase, losers' = losers
        PROVE  LosersWereDispatched'
    BY <1>2, <1>4
  <1>5. {"taking", "calling", "awaiting", "backoff", "offering", "done", "gone"} \subseteq Phase \ {"waiting"}
    BY DEF Phase
  <1>6. ASSUME NEW w \in Worker, Unstartable(w) \/ UnknownTool(w) \/ Cut(w) \/ Break(w) \/ Exit(w) \/ ToolReturns(w)
        PROVE  LosersWereDispatched'
    BY <1>3, <1>5, <1>6 DEF Unstartable, UnknownTool, Cut, Break, Exit, ToolReturns, Return, ctxVars
  <1>7. ASSUME NEW w \in Worker, Dispatch(w) \/ Take(w) \/ TakeNothing(w) \/ Start(w) \/ BackoffEnds(w)
        PROVE  LosersWereDispatched'
    BY <1>3, <1>5, <1>7 DEF Dispatch, Take, TakeNothing, Start, BackoffEnds, ctxVars
  <1>8. ASSUME NEW w \in Worker, Report(w) \/ Drop(w)
        PROVE  LosersWereDispatched'
    BY <1>3, <1>5, <1>8 DEF Report, Drop, Finish, ctxVars
  <1>9. ASSUME NEW w \in Worker, Respond(w)
        PROVE  LosersWereDispatched'
    BY <1>3, <1>5, <1>9 DEF Respond, Return, ctxVars
  <1>10. ASSUME NEW w \in Worker, CancelLoser(w)
         PROVE  LosersWereDispatched'
    BY <1>10 DEF CancelLoser, LosersWereDispatched, Unreported
  <1>11. ASSUME NEW w \in Worker, TimeoutExpires(w)
         PROVE  LosersWereDispatched'
    BY <1>4, <1>11 DEF TimeoutExpires
  <1>12. CASE CallerEnds \/ Drip \/ Stop
    BY <1>4, <1>12 DEF CallerEnds, Drip, Stop, ctxVars
  <1>13. CASE UNCHANGED vars
    BY <1>4, <1>13 DEF vars, ctxVars
  <1> QED
    BY <1>6, <1>7, <1>8, <1>9, <1>10, <1>11, <1>12, <1>13 DEF Next, Over

SlotMap == [w \in Worker |-> SlotOf(phase[w])]

\* inFlight, seen from either side.
LEMMA BusyAreUnreported ==
  ASSUME phase \in [Worker -> Phase]
  PROVE  AsDispatches!Busy(SlotMap) = Unreported
  BY DEF AsDispatches!Busy, Unreported, SlotMap, SlotOf, Phase

\* Dispatches counts as Worker does.
LEMMA SameCount == \A S : AsDispatches!Cardinality(S) = Cardinality(S)
  BY DEF AsDispatches!Cardinality, Cardinality

\* What w's goroutine does by itself is invisible until it has an answer.
LEMMA InsideIsInvisible ==
  ASSUME WInv, NEW w \in Worker, NEW ph \in Phase, Goto(w, ph), SlotOf(ph) = SlotOf(phase[w]),
         UNCHANGED <<losers, caller, stopped>>
  PROVE  UNCHANGED AsDispatches!dvars
  <1>1. phase \in [Worker -> Phase]
    BY DEF WInv, TypeOK
  <1>2. SlotMap' = SlotMap
    BY <1>1 DEF Goto, SlotMap
  <1>3. Unreported' = Unreported
    BY <1>1 DEF Goto, Unreported, SlotOf, Phase
  <1> QED
    BY <1>2, <1>3 DEF AsDispatches!dvars, SlotMap

\* Execute returns.
LEMMA ReturnIsAnswer ==
  ASSUME WInv, NEW w \in Worker, NEW r, Return(w, r),
         phase[w] \in {"calling", "awaiting", "backoff"},
         UNCHANGED <<losers, caller, stopped>>
  PROVE  AsDispatches!Next
  <1>1. phase \in [Worker -> Phase] /\ phase' = [phase EXCEPT ![w] = "offering"]
    BY DEF WInv, TypeOK, Return, Goto
  <1>2. SlotMap[w] = "executing" /\ SlotMap' = [SlotMap EXCEPT ![w] = "result"]
    BY <1>1 DEF SlotMap, SlotOf
  <1>3. Unreported' = Unreported
    BY <1>1 DEF Unreported
  <1>4. AsDispatches!Answer(w)
    BY <1>2, <1>3 DEF AsDispatches!Answer, SlotMap
  <1> QED
    BY <1>4 DEF AsDispatches!Next

\* What the model lets the loop do, Dispatches allows: a dispatch, a receive, a
\* cancellation, a return.
LEMMA LoopStepsAreTurns ==
  ASSUME WInv, LosersWereDispatched,
         \/ Stop
         \/ \E w \in Worker : Dispatch(w) \/ Report(w) \/ CancelLoser(w)
  PROVE  AsDispatches!Next
  <1>1. phase \in [Worker -> Phase] /\ losers \in SUBSET Worker /\ stopped \in BOOLEAN
    BY DEF WInv, TypeOK
  <1>2. ASSUME NEW R \in AsDispatches!AtMostOne, NEW D \in SUBSET Worker, AsDispatches!Turn(R, D)
        PROVE  AsDispatches!Next
    BY <1>2 DEF AsDispatches!Next
  <1>3. {} \in AsDispatches!AtMostOne /\ \A w \in Worker : {w} \in AsDispatches!AtMostOne
    BY DEF AsDispatches!AtMostOne
  <1>4. AsDispatches!Busy(SlotMap) = Unreported
    BY <1>1, BusyAreUnreported
  <1>5. ASSUME NEW w \in Worker, Dispatch(w)
        PROVE  AsDispatches!Next
    <2>1. /\ phase' = [phase EXCEPT ![w] = "taking"] /\ phase[w] = "waiting" /\ ~stopped
          /\ Cardinality(Unreported) < Burst
          /\ losers' = losers /\ caller' = caller /\ stopped' = stopped
      BY <1>5 DEF Dispatch, Goto, runVars
    <2>2. /\ SlotMap[w] = "idle"
          /\ SlotMap' = [x \in Worker |-> IF x \in {w} THEN "executing" ELSE IF x \in {} THEN "idle" ELSE SlotMap[x]]
      BY <1>1, <2>1 DEF SlotMap, SlotOf
    <2>3. Unreported' = Unreported \cup {w} /\ w \notin Unreported /\ w \notin losers
      BY <1>1, <2>1 DEF Unreported, LosersWereDispatched
    <2>4. AsDispatches!Busy(SlotMap') = Unreported'
      BY <1>1, <2>1, BusyAreUnreported DEF AsDispatches!Busy, Unreported, SlotMap, SlotOf, Phase
    <2>5. Cardinality(Unreported') <= Burst
      <3>1. Unreported \in SUBSET Worker
        BY DEF Unreported
      <3>2. Cardinality(Unreported) \in Nat /\ Cardinality(Unreported') = Cardinality(Unreported) + 1
        BY <2>3, <3>1, OneMore, WorkersFinite
      <3> QED
        BY <2>1, <3>2, WorkerAssumption
    <2>6. /\ losers' \cap Unreported' = losers \cap Unreported
          /\ losers \cap Unreported \subseteq Unreported' \ {w}
      BY <2>1, <2>3
    <2>7. \A x \in {w} : SlotMap[x] = "idle"
      BY <2>2
    <2>8. ~stopped' /\ stopped' \in BOOLEAN /\ caller' = caller
      BY <1>1, <2>1
    <2>9. AsDispatches!Turn({}, {w})
      <3> HIDE DEF SlotMap
      <3>1. (losers \cap Unreported) \ {} \subseteq (losers \cap Unreported)'
        BY <2>6
      <3>2. (losers \cap Unreported)' \subseteq AsDispatches!Busy(SlotMap') \ {w}
        BY <2>4, <2>6
      <3>3. ~stopped
        BY <2>1
      <3> QED
        BY <2>2, <2>4, <2>5, <2>7, <2>8, <3>1, <3>2, <3>3, SameCount DEF AsDispatches!Turn, SlotMap
    <2> QED
      BY <1>2, <1>3, <2>9
  <1>6. ASSUME NEW w \in Worker, Report(w)
        PROVE  AsDispatches!Next
    <2>1. /\ phase' = [phase EXCEPT ![w] = "done"] /\ phase[w] = "offering" /\ ~stopped
          /\ losers' = losers /\ caller' = caller /\ stopped' = stopped
      BY <1>6 DEF Report, Finish, Goto, runVars, ctxVars
    <2>2. /\ SlotMap[w] = "result"
          /\ SlotMap' = [x \in Worker |-> IF x \in {} THEN "executing" ELSE IF x \in {w} THEN "idle" ELSE SlotMap[x]]
      BY <1>1, <2>1 DEF SlotMap, SlotOf
    <2>3. Unreported' = Unreported \ {w}
      BY <1>1, <2>1 DEF Unreported
    <2>4. AsDispatches!Busy(SlotMap') = Unreported'
      BY <1>1, <2>1 DEF AsDispatches!Busy, Unreported, SlotMap, SlotOf, Phase
    <2>5. AsDispatches!Turn({w}, {})
      BY <1>1, <2>1, <2>2, <2>3, <2>4 DEF AsDispatches!Turn, SlotMap
    <2> QED
      BY <1>2, <1>3, <2>5
  <1>7. ASSUME SlotMap' = SlotMap, Unreported' = Unreported, losers \subseteq losers', ~stopped,
               caller' = caller, stopped' \in BOOLEAN, stopped' => Unreported \subseteq losers'
        PROVE  AsDispatches!Next
    <2>1. SlotMap' = [x \in Worker |-> IF x \in {} THEN "executing" ELSE IF x \in {} THEN "idle" ELSE SlotMap[x]]
      BY <1>7 DEF SlotMap
    <2>2. AsDispatches!Busy(SlotMap') = Unreported'
      BY <1>4, <1>7
    <2>3. AsDispatches!Turn({}, {})
      BY <1>7, <2>1, <2>2 DEF AsDispatches!Turn, SlotMap
    <2> QED
      BY <1>2, <1>3, <2>3
  <1>8. ASSUME NEW w \in Worker, CancelLoser(w)
        PROVE  AsDispatches!Next
    BY <1>1, <1>7, <1>8 DEF CancelLoser, SlotMap, Unreported, runVars
  <1>9. CASE Stop
    BY <1>1, <1>7, <1>9 DEF Stop, SlotMap, Unreported, ctxVars
  <1> QED
    BY <1>5, <1>6, <1>8, <1>9

\* Nobody is dispatched yet.
LEMMA InitRefines == Init => AsDispatches!Init
  <1> SUFFICES ASSUME Init
               PROVE  AsDispatches!Init
    OBVIOUS
  <1>1. SlotMap = [x \in Worker |-> IF x \in {} THEN "executing" ELSE "idle"]
    BY DEF Init, SlotMap, SlotOf
  <1>2. Cardinality({}) <= Burst
    BY FS_EmptySet, WorkerAssumption
  <1>3. \E D \in SUBSET Worker :
          /\ SlotMap = [x \in Worker |-> IF x \in D THEN "executing" ELSE "idle"]
          /\ Cardinality(D) <= Burst
    BY <1>1, <1>2
  <1>4. losers \cap Unreported = {} /\ caller = FALSE /\ stopped = FALSE
    BY DEF Init
  <1> QED
    BY <1>3, <1>4, SameCount DEF AsDispatches!Init, SlotMap

\* Every step inside the workers maps to a step of Dispatches or to a stutter.
LEMMA NextRefines ==
  WInv /\ LosersWereDispatched /\ [Next]_vars => [AsDispatches!Next]_(AsDispatches!dvars)
  <1> SUFFICES ASSUME WInv, LosersWereDispatched, [Next]_vars
               PROVE  AsDispatches!Next \/ UNCHANGED AsDispatches!dvars
    OBVIOUS
  <1>1. phase \in [Worker -> Phase] /\ {"calling", "awaiting", "backoff"} \subseteq Phase
    BY DEF WInv, TypeOK, Phase
  <1>2. ASSUME NEW w \in Worker, Take(w) \/ TakeNothing(w) \/ Start(w) \/ BackoffEnds(w)
        PROVE  UNCHANGED AsDispatches!dvars
    <2>1. \E ph \in {"calling", "awaiting"} : Goto(w, ph) /\ phase[w] \in {"taking", "calling", "backoff"}
      BY <1>2 DEF Take, TakeNothing, Start, BackoffEnds
    <2>2. UNCHANGED <<losers, caller, stopped>>
      BY <1>2 DEF Take, TakeNothing, Start, BackoffEnds, runVars, ctxVars
    <2> QED
      BY <1>1, <2>1, <2>2, InsideIsInvisible DEF SlotOf
  <1>3. ASSUME NEW w \in Worker, Unstartable(w) \/ UnknownTool(w) \/ Cut(w) \/ Break(w) \/ Exit(w) \/ ToolReturns(w)
        PROVE  AsDispatches!Next
    <2>1. phase[w] \in {"calling", "awaiting", "backoff"} /\ \E r : Return(w, r)
      BY <1>3 DEF Unstartable, UnknownTool, Cut, Break, Exit, ToolReturns
    <2>2. UNCHANGED <<losers, caller, stopped>>
      BY <1>3 DEF Unstartable, UnknownTool, Cut, Break, Exit, ToolReturns, runVars, ctxVars
    <2> QED
      BY <2>1, <2>2, ReturnIsAnswer
  <1>4. ASSUME NEW w \in Worker, Respond(w)
        PROVE  AsDispatches!Next \/ UNCHANGED AsDispatches!dvars
    <2>1. phase[w] = "awaiting" /\ (Goto(w, "backoff") \/ \E r : Return(w, r))
      BY <1>4 DEF Respond
    <2>2. UNCHANGED <<losers, caller, stopped>>
      BY <1>4 DEF Respond, runVars, ctxVars
    <2> QED
      BY <1>1, <2>1, <2>2, ReturnIsAnswer, InsideIsInvisible DEF SlotOf
  <1>5. ASSUME NEW w \in Worker, Drop(w)
        PROVE  AsDispatches!Next
    <2>1. /\ phase' = [phase EXCEPT ![w] = "gone"] /\ phase[w] = "offering" /\ caller
          /\ losers' = losers /\ caller' = caller /\ stopped' = stopped
      BY <1>5 DEF Drop, Finish, Goto, runVars, ctxVars
    <2>2. SlotMap[w] = "result" /\ SlotMap' = [SlotMap EXCEPT ![w] = "gone"] /\ Unreported' = Unreported
      BY <1>1, <2>1 DEF SlotMap, SlotOf, Unreported
    <2>3. AsDispatches!GiveUp(w)
      BY <2>1, <2>2 DEF AsDispatches!GiveUp, SlotMap
    <2> QED
      BY <2>3 DEF AsDispatches!Next
  <1>6. CASE CallerEnds
    <2>1. AsDispatches!CtxEnds
      BY <1>6 DEF CallerEnds, AsDispatches!CtxEnds, Unreported
    <2> QED
      BY <2>1 DEF AsDispatches!Next
  <1>7. ASSUME UNCHANGED <<phase, losers, caller, stopped>>
        PROVE  UNCHANGED AsDispatches!dvars
    BY <1>7 DEF AsDispatches!dvars, Unreported
  <1>8. ASSUME NEW w \in Worker, TimeoutExpires(w)
        PROVE  UNCHANGED AsDispatches!dvars
    BY <1>7, <1>8 DEF TimeoutExpires, runVars
  <1>9. CASE Drip \/ Over \/ UNCHANGED vars
    BY <1>7, <1>9 DEF Drip, Over, vars, runVars, ctxVars
  <1> QED
    BY <1>2, <1>3, <1>4, <1>5, <1>6, <1>8, <1>9, LoopStepsAreTurns DEF Next

\* The workers implement Dispatches: to the loop, all that happens in a bucket,
\* an executor and a provider is one step, Scheduler's Finish.
THEOREM WorkersRefine == Spec => WorkersKeepTheirSide
  <1>1. Init => AsDispatches!Init
    BY InitRefines
  <1>2. WInv /\ LosersWereDispatched /\ [Next]_vars => [AsDispatches!Next]_(AsDispatches!dvars)
    BY NextRefines
  <1>3. Spec => []LosersWereDispatched
    BY InitImpliesDispatched, NextKeepsDispatched, WorkerInvariance, PTL DEF Spec
  <1> QED
    BY <1>1, <1>2, <1>3, WorkerInvariance, PTL DEF Spec, AsDispatches!Spec, WorkersKeepTheirSide

=============================================================================
