------------------------------- MODULE Worker -------------------------------
(***************************************************************************)
(* Inside a worker goroutine of the scheduler (the go func of dispatch):   *)
(* it takes a token from the bucket of engine/scheduler/bucket.go, runs an *)
(* executor of engine/node/node.go and offers the result to the loop.  The *)
(* executor is an LLMExecutor, over the Gemini API (a post, and one more   *)
(* after a 429) or over the Claude CLI (a process group, killed with the   *)
(* context), or a ToolExecutor.  The Scheduler module sees all this as one *)
(* step, Finish.                                                           *)
(*                                                                         *)
(* A worker here is one dispatch of a node; the loop counts at most Burst  *)
(* in flight.  What a backend answers is kept to what decides the result.  *)
(***************************************************************************)
EXTENDS Integers, FiniteSets

CONSTANTS
  Worker,      \* the dispatches of a run
  Backend,     \* per worker, what its executor calls
  Burst,       \* the loop's maxParallel, which is also the bucket's capacity
  Timed,       \* the workers whose node has a TimeoutMS
  Contracted,  \* the workers whose node has a contract to enforce
  MaxTicks     \* bound: the ticks of the drip's ticker

ASSUME WorkerAssumption ==
  /\ IsFiniteSet(Worker)
  /\ Backend \in [Worker -> {"gemini", "claude", "tool"}]
  /\ Burst \in Nat \ {0}
  /\ Timed \subseteq Worker
  /\ Contracted \subseteq Worker
  /\ MaxTicks \in Nat

VARIABLES
  tokens,    \* the tokens in the bucket's channel
  ticks,     \* the ticks so far
  stopped,   \* the bucket's done channel is closed: Run has returned
  caller,    \* the context given to Run has ended
  phase,     \* per worker, where its goroutine is
  losers,    \* the workers whose context the loop cancelled (any_of losers)
  ended,     \* the workers whose context has ended
  took,      \* the workers that took a token
  calls,     \* per worker, the requests, processes or tools it started
  status,    \* per worker, the status of the last response
  result     \* per worker, what Execute returned

runVars  == <<tokens, ticks, stopped, caller>>
ctxVars  == <<losers, ended>>
execVars == <<calls, status, result>>
vars     == <<runVars, phase, ctxVars, took, execVars>>

\* The workers with an LLMExecutor.
LLM == {w \in Worker : Backend[w] # "tool"}

\* "waiting": not dispatched yet; "taking": in the bucket's take; "calling": in
\* Execute, about to start a call; "awaiting": the call is under way; "backoff":
\* between the two posts; "offering": Execute has returned; "done": the loop has
\* the event; "gone": the goroutine ended without reporting.
Phase == {"waiting", "taking", "calling", "awaiting", "backoff", "offering", "done", "gone"}

Status == {"none", "200", "429", "500"}
Result == {"none", "ok", "transient", "structural"}

\* A response: a body with a text that honours the contract or breaks it, a
\* body with neither candidates nor an error, one with an error object, whose
\* message may hold one of the transient markers, and one that is not JSON.
Response ==
  [status : Status \ {"none"}, body : {"good", "bad", "bare", "error", "garbage"}, marked : BOOLEAN]

\* The workers the loop's inFlight counts: those gone without a word included.
Unreported == {w \in Worker : phase[w] \notin {"waiting", "done"}}

\* The workers whose goroutine is alive.
Alive(w) == phase[w] \notin {"waiting", "done", "gone"}

-----------------------------------------------------------------------------
(* From a response to a result.                                            *)

\* Mutant: an error's text alone decides.
FailureByMarker(w, marked) == IF marked THEN "transient" ELSE "structural"

\* isTransient.
FailureOf(w, marked) == IF w \in ended \/ marked THEN "transient" ELSE "structural"

\* Execute's contract gate over a text that is good for it or not.
Gate(w, good) == IF w \in Contracted /\ ~good THEN "structural" ELSE "ok"

\* parseGeminiResponse, then the contract gate.  A body that does not decode
\* leaves no marker in the error, and "gemini http 429" holds one.
ResultOf(w, r) ==
  CASE r.body = "garbage" -> FailureOf(w, FALSE)
    [] r.body = "error"   -> FailureOf(w, r.marked)
    [] r.body \notin {"garbage", "error"} /\ r.status # "200" -> FailureOf(w, r.status = "429")
    [] OTHER -> Gate(w, r.body = "good")

-----------------------------------------------------------------------------

\* Mutant: the bucket starts empty.
FirstTokensNone == 0

\* newTokenBucket fills the bucket.
FirstTokens == Burst

Init ==
  /\ tokens = FirstTokens
  /\ ticks = 0
  /\ stopped = FALSE
  /\ caller = FALSE
  /\ phase = [w \in Worker |-> "waiting"]
  /\ losers = {}
  /\ ended = {}
  /\ took = {}
  /\ calls = [w \in Worker |-> 0]
  /\ status = [w \in Worker |-> "none"]
  /\ result = [w \in Worker |-> "none"]

Goto(w, ph) == phase' = [phase EXCEPT ![w] = ph]

\* Execute returns r.
Return(w, r) == Goto(w, "offering") /\ result' = [result EXCEPT ![w] = r]

\* The goroutine of w ends; what it knew is gone with it.
Finish(w, ph) ==
  /\ Goto(w, ph)
  /\ status' = [status EXCEPT ![w] = "none"]
  /\ result' = [result EXCEPT ![w] = "none"]
  /\ UNCHANGED <<runVars, ctxVars, took, calls>>

\* dispatch, while the parallelism bound lasts; a context derived from one that
\* has ended is born ended.
Dispatch(w) ==
  /\ phase[w] = "waiting"
  /\ ~stopped
  /\ Cardinality(Unreported) < Burst
  /\ Goto(w, "taking")
  /\ ended' = IF caller THEN ended \cup {w} ELSE ended
  /\ UNCHANGED <<runVars, losers, took, execVars>>

Take(w) ==
  /\ phase[w] = "taking"
  /\ tokens > 0
  /\ tokens' = tokens - 1
  /\ took' = took \cup {w}
  /\ Goto(w, "calling")
  /\ UNCHANGED <<ticks, stopped, caller, ctxVars, execVars>>

\* take returns without a token, and Execute is called all the same.
TakeNothing(w) ==
  /\ phase[w] = "taking"
  /\ w \in ended \/ stopped
  /\ Goto(w, "calling")
  /\ UNCHANGED <<runVars, ctxVars, took, execVars>>

\* A request leaves, and a process starts, only under a live context; a
\* registered tool is called under any.
Start(w) ==
  /\ phase[w] = "calling"
  /\ w \in LLM => w \notin ended
  /\ calls' = [calls EXCEPT ![w] = @ + 1]
  /\ Goto(w, "awaiting")
  /\ UNCHANGED <<runVars, ctxVars, took, status, result>>

\* The CLI's process cannot be started, or the URL of the first post does not
\* parse (the second post has the same one): nothing leaves.  The error may hold
\* a marker ("resource temporarily unavailable", a word of the URL).
Unstartable(w) ==
  /\ w \in LLM
  /\ phase[w] = "calling"
  /\ calls[w] = 0
  /\ \E marked \in BOOLEAN : Return(w, FailureOf(w, marked))
  /\ UNCHANGED <<runVars, ctxVars, took, calls, status>>

\* No tool is registered under the node's action_ref.
UnknownTool(w) ==
  /\ Backend[w] = "tool"
  /\ phase[w] = "calling"
  /\ Return(w, "structural")
  /\ UNCHANGED <<runVars, ctxVars, took, calls, status>>

\* Mutant: the request is not made with the context, so nothing cuts it short.
CutBeforeOnly(w) ==
  /\ w \in LLM
  /\ phase[w] \in {"calling", "backoff"}
  /\ w \in ended
  /\ Return(w, FailureOf(w, FALSE))
  /\ UNCHANGED <<runVars, ctxVars, took, calls, status>>

\* The end of the context cuts short the request or kills the process group, or
\* ends the pause before the next request.
Cut(w) ==
  /\ w \in LLM
  /\ phase[w] \in {"calling", "awaiting", "backoff"}
  /\ w \in ended
  /\ Return(w, FailureOf(w, FALSE))
  /\ UNCHANGED <<runVars, ctxVars, took, calls, status>>

\* The transport fails, or the process exits with an error or lingers past its
\* WaitDelay; the error may hold a marker ("timeout").
Break(w) ==
  /\ w \in LLM
  /\ phase[w] = "awaiting"
  /\ \E marked \in BOOLEAN : Return(w, FailureOf(w, marked))
  /\ status' = [status EXCEPT ![w] = "none"]
  /\ UNCHANGED <<runVars, ctxVars, took, calls>>

\* Complete retries a 429 once.
Again(w, r) == r.status = "429" /\ calls[w] = 1

Respond(w) ==
  /\ Backend[w] = "gemini"
  /\ phase[w] = "awaiting"
  /\ \E r \in Response :
       /\ status' = [status EXCEPT ![w] = r.status]
       /\ IF Again(w, r) THEN Goto(w, "backoff") /\ UNCHANGED result
                         ELSE Return(w, ResultOf(w, r))
  /\ UNCHANGED <<runVars, ctxVars, took, calls>>

BackoffEnds(w) ==
  /\ phase[w] = "backoff"
  /\ Goto(w, "calling")
  /\ UNCHANGED <<runVars, ctxVars, took, execVars>>

\* The CLI exits with status 0, its output good for the contract or not.
Exit(w) ==
  /\ Backend[w] = "claude"
  /\ phase[w] = "awaiting"
  /\ \E good \in BOOLEAN : Return(w, Gate(w, good))
  /\ UNCHANGED <<runVars, ctxVars, took, calls, status>>

\* A tool's error is structural, whatever it says and whatever its context.
ToolReturns(w) ==
  /\ Backend[w] = "tool"
  /\ phase[w] = "awaiting"
  /\ \E r \in {"ok", "structural"} : Return(w, r)
  /\ UNCHANGED <<runVars, ctxVars, took, calls, status>>

\* The loop, or its drain, receives the event.
Report(w) == phase[w] = "offering" /\ ~stopped /\ Finish(w, "done")

\* Mutant: a worker only ever offers its event.
DropNever(w) == FALSE /\ Finish(w, "gone")

\* The other branch of the worker's select, ctx.Done() on the caller's context.
Drop(w) == phase[w] = "offering" /\ caller /\ Finish(w, "gone")

TimeoutExpires(w) ==
  /\ w \in Timed \cap Unreported
  /\ w \notin ended
  /\ ended' = ended \cup {w}
  /\ UNCHANGED <<runVars, phase, losers, took, execVars>>

\* cancelLosingCandidates reaches an in-flight worker.
CancelLoser(w) ==
  /\ ~stopped
  /\ w \in Unreported
  /\ w \notin losers
  /\ losers' = losers \cup {w}
  /\ ended' = ended \cup {w}
  /\ UNCHANGED <<runVars, phase, took, execVars>>

\* The caller cancels the run, or its timeout expires (sgh's after five
\* minutes, or when the command returns).
CallerEnds ==
  /\ ~caller
  /\ caller' = TRUE
  /\ ended' = ended \cup Unreported
  /\ UNCHANGED <<tokens, ticks, stopped, phase, losers, took, execVars>>

\* Mutant: a full bucket takes the token all the same.
DripOverflowing ==
  /\ ~stopped
  /\ ticks < MaxTicks
  /\ ticks' = ticks + 1
  /\ tokens' = tokens + 1
  /\ UNCHANGED <<stopped, caller, phase, ctxVars, took, execVars>>

\* drip: a full bucket drops the token.
Drip ==
  /\ ~stopped
  /\ ticks < MaxTicks
  /\ ticks' = ticks + 1
  /\ tokens' = IF tokens < Burst THEN tokens + 1 ELSE tokens
  /\ UNCHANGED <<stopped, caller, phase, ctxVars, took, execVars>>

\* Mutant: workers are left behind without being told.
StopAnyTime ==
  /\ ~stopped
  /\ stopped' = TRUE
  /\ UNCHANGED <<tokens, ticks, caller, phase, ctxVars, took, execVars>>

\* Run returns and its deferred stop closes the bucket: nothing is in flight, or
\* every node is terminal and what is in flight are losers (the Scheduler's
\* NoOrphanWork).
Stop ==
  /\ ~stopped
  /\ Unreported \subseteq losers
  /\ stopped' = TRUE
  /\ UNCHANGED <<tokens, ticks, caller, phase, ctxVars, took, execVars>>

\* The goroutines of a cancelled run have nothing left but an event to offer.
\* Run itself may still wait for one that is gone: the Scheduler's DrainReturns.
Over == caller /\ (\A w \in Worker : Alive(w) => phase[w] = "offering") /\ UNCHANGED vars

\* What the goroutine of w does by itself, whatever its backend does.
Advance(w) ==
  \/ Take(w) \/ TakeNothing(w)
  \/ Start(w) \/ Cut(w)
  \/ BackoffEnds(w)
  \/ Report(w) \/ Drop(w)

Next ==
  \/ \E w \in Worker : Dispatch(w)
  \/ \E w \in Worker : Take(w)
  \/ \E w \in Worker : TakeNothing(w)
  \/ \E w \in Worker : Start(w)
  \/ \E w \in Worker : Unstartable(w)
  \/ \E w \in Worker : UnknownTool(w)
  \/ \E w \in Worker : Cut(w)
  \/ \E w \in Worker : Break(w)
  \/ \E w \in Worker : Respond(w)
  \/ \E w \in Worker : BackoffEnds(w)
  \/ \E w \in Worker : Exit(w)
  \/ \E w \in Worker : ToolReturns(w)
  \/ \E w \in Worker : Report(w)
  \/ \E w \in Worker : Drop(w)
  \/ \E w \in Worker : TimeoutExpires(w)
  \/ \E w \in Worker : CancelLoser(w)
  \/ CallerEnds
  \/ Drip
  \/ Stop
  \/ Over

Spec == Init /\ [][Next]_vars

\* A runnable goroutine runs and a timeout expires.  A backend is promised
\* nothing: it may never answer, and nobody has to end the caller's context.
Fairness ==
  /\ \A w \in Worker : WF_vars(Advance(w))
  /\ \A w \in Timed : WF_vars(TimeoutExpires(w))

FairSpec == Spec /\ Fairness

-----------------------------------------------------------------------------
(* Properties.                                                             *)

\* Every variable keeps its type; the bucket never holds more than the burst.
TypeOK ==
  /\ tokens \in 0 .. Burst
  /\ ticks \in 0 .. MaxTicks
  /\ stopped \in BOOLEAN
  /\ caller \in BOOLEAN
  /\ phase \in [Worker -> Phase]
  /\ losers \in SUBSET Worker
  /\ ended \in SUBSET Worker
  /\ took \in SUBSET Worker
  /\ calls \in [Worker -> Nat]
  /\ status \in [Worker -> Status]
  /\ result \in [Worker -> Result]

\* The calls one Execute may make.
MaxCalls(w) == IF Backend[w] = "gemini" THEN 2 ELSE 1

\* No request leaves for a provider and no CLI is started without a token: take
\* also returns when the context has ended or the bucket has stopped, and
\* Execute is called then too.  A token pays for two posts, and the tokens taken
\* are the burst and what dripped (Options.RatePerSec).
CallsAreThrottled ==
  /\ \A w \in LLM : calls[w] > 0 => w \in took /\ calls[w] <= MaxCalls(w)
  /\ Cardinality(took) + tokens <= Burst + ticks

\* The first burst of workers never waits for a token, whatever the ticker does
\* (newTokenBucket fills the bucket "so initial dispatch is not delayed").
FirstBurstDoesNotWait ==
  Cardinality({w \in Worker : phase[w] # "waiting"}) <= Burst =>
    Cardinality({w \in Worker : phase[w] = "taking"}) <= tokens

\* The wait for a token and the end of a context are never held against an LLM
\* node, although Execute runs after both: it escalates past local_retry only
\* when it had its token and, once its context has ended, only for an answer that
\* breaks its contract (isTransient's test of the context).
EscalationIsEarned ==
  [][\A w \in LLM :
       result[w] = "none" /\ result'[w] = "structural" =>
         /\ w \in took
         /\ w \in ended => w \in Contracted /\ calls[w] > 0]_vars

\* An LLM worker whose node has a timeout reports, although its provider may
\* stay silent and the bucket empty; when Run has returned it can only offer.
TimedWorkersReport ==
  \A w \in Timed \cap LLM :
    phase[w] = "taking" ~> phase[w] \in {"done", "gone"} \/ (stopped /\ phase[w] = "offering")

\* Once the caller's context has ended every LLM worker leaves, timed or not, a
\* loser left behind by a Run that has returned too: no goroutine waits for ever
\* on a channel nobody reads (the ctx.Done() of the worker's select).
StrayWorkersLeave == \A w \in LLM : caller ~> ~Alive(w)

-----------------------------------------------------------------------------
(* The workers' side of what loop and workers owe each other.              *)

SlotOf(ph) ==
  CASE ph \in {"waiting", "done"} -> "idle"
    [] ph = "offering"            -> "result"
    [] ph = "gone"                -> "gone"
    [] OTHER                      -> "executing"

AsDispatches == INSTANCE Dispatches WITH
  Slot     <- Worker,
  Limit    <- Burst,
  slot     <- [w \in Worker |-> SlotOf(phase[w])],
  told     <- losers \cap Unreported,
  ctxDone  <- caller,
  returned <- stopped

\* Seen from the loop a worker is one step, whatever goes on in the bucket, the
\* executor and the provider, and in whatever order contexts end: it answers
\* once, and gives its event up only when the caller's context has ended.
WorkersKeepTheirSide == AsDispatches!Spec

-----------------------------------------------------------------------------
(* What the repository says of the executor and the code does not do.      *)

\* "rate-limit/429-style errors are transient" (isTransient's comment).
RateLimitIsTransient ==
  \A w \in Worker : status[w] = "429" /\ result[w] # "none" => result[w] = "transient"

=============================================================================
