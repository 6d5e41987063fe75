------------------------------ MODULE Recovery ------------------------------
(***************************************************************************)
(* The escalation ladder of engine/recovery/recovery.go: StandardPolicy    *)
(* decides, from the bookkeeping of a node's earlier recoveries and the    *)
(* kind of the new failure, whether the node is run again unchanged        *)
(* (local_retry), run again patched (local_patch), or given up with a      *)
(* replan request.  A result is "ok", "transient" (Result.Retryable) or    *)
(* "structural".                                                           *)
(***************************************************************************)
EXTENDS Integers

CONSTANTS MaxRetries, MaxPatches     \* budgets as the caller asks for them

ASSUME BudgetAssumption == MaxRetries \in Int /\ MaxPatches \in Int

\* NewStandardPolicy clamps negative budgets.
RetryCap == IF MaxRetries < 0 THEN 0 ELSE MaxRetries
PatchCap == IF MaxPatches < 0 THEN 0 ELSE MaxPatches

Failure == {"transient", "structural"}
Result  == {"ok"} \cup Failure

Attempt == [retries : 0 .. RetryCap, patches : 0 .. PatchCap, replanned : BOOLEAN]

Pristine == [retries |-> 0, patches |-> 0, replanned |-> FALSE]

Classify(r) == r = "transient"

\* Mutant: one retry too many.
DecideOffByOne(att, r) ==
  IF Classify(r) /\ att.retries <= RetryCap THEN "local_retry"
  ELSE IF att.patches < PatchCap THEN "local_patch"
  ELSE IF ~att.replanned THEN "request_replan"
  ELSE "fail"

\* Mutant: exhausted retries escalate past the patches.
DecideSkippingPatch(att, r) ==
  IF Classify(r) THEN IF att.retries < RetryCap THEN "local_retry" ELSE "request_replan"
  ELSE IF att.patches < PatchCap THEN "local_patch"
  ELSE IF ~att.replanned THEN "request_replan"
  ELSE "fail"

\* The decision names the rung taken; "fail" is ActionFail at the last rung.
Decide(att, r) ==
  IF Classify(r) /\ att.retries < RetryCap THEN "local_retry"
  ELSE IF att.patches < PatchCap THEN "local_patch"
  ELSE IF ~att.replanned THEN "request_replan"
  ELSE "fail"

\* Mutant: retries are not counted.
SpendUncounted(att, d) ==
  CASE d = "local_patch"    -> [att EXCEPT !.patches = @ + 1]
    [] d = "request_replan" -> [att EXCEPT !.replanned = TRUE]
    [] OTHER                -> att

\* The bookkeeping applyResult does for a decision.
Spend(att, d) ==
  CASE d = "local_retry"    -> [att EXCEPT !.retries = @ + 1]
    [] d = "local_patch"    -> [att EXCEPT !.patches = @ + 1]
    [] d = "request_replan" -> [att EXCEPT !.replanned = TRUE]
    [] OTHER                -> att

\* The node state a decision leads to: back to ready, or failed.
Verdict(d) == IF d \in {"local_retry", "local_patch"} THEN "ready" ELSE "failed"

=============================================================================
