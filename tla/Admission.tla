----------------------------- MODULE Admission -----------------------------
(***************************************************************************)
(* The sgh command of engine/cmd/sgh/main.go, from its arguments to its    *)
(* exit: the plan file is read and decoded, BasicValidate looks at the     *)
(* fields, Check (module Validate) at the graph, an executor is built and  *)
(* the scheduler validates once more and runs.                             *)
(*                                                                         *)
(* Every other module takes a node to be its index in the plan.  A file    *)
(* names its nodes; here a name is a number, 0 the empty one, and nothing  *)
(* makes a file's names distinct or its edges lead somewhere.              *)
(***************************************************************************)
EXTENDS Validate

CONSTANT Documents  \* the plan files that decode

VARIABLES
  doc,  \* the decoded file
  cmd   \* how far the command is

admissionVars == <<vars, doc, cmd>>

Name == 0 .. N + 1

\* header: the plan's id is not empty and its version is 1 or more; sound: the
\* nodes whose join mode and side-effect level are valid; broken: those whose
\* contract schema is not JSON.
Document ==
  [header      : BOOLEAN,
   names       : Seq(Name),
   sound       : SUBSET Node,
   join        : [Node -> {"all_of", "any_of"}],
   sideEffect  : [Node -> {"none", "destructive"}],
   retryBudget : [Node -> Int],
   timeout     : [Node -> Int],
   broken      : SUBSET Node,
   edges       : Seq(Name \X Name)]

ASSUME DocumentsAssumption == \A d \in Documents : d \in Document /\ Len(d.names) \in {0, N}

Named(d) == {d.names[i] : i \in DOMAIN d.names}

\* Mutant: a name seen before passes.
NodeFineTwice(d, i) ==
  /\ d.names[i] # 0
  /\ i \in d.sound
  /\ d.retryBudget[i] >= 0
  /\ d.timeout[i] >= 0

\* One turn of BasicValidate's loop over the nodes.
NodeFine(d, i) ==
  /\ d.names[i] # 0
  /\ \A j \in 1 .. i - 1 : d.names[j] # d.names[i]
  /\ i \in d.sound
  /\ d.retryBudget[i] >= 0
  /\ d.timeout[i] >= 0

\* One turn of its loop over the edges.
EdgeFine(d, e) ==
  /\ d.edges[e][1] \in Named(d)
  /\ d.edges[e][2] \in Named(d)
  /\ d.edges[e][1] # d.edges[e][2]

BasicValidate(d) ==
  /\ d.header
  /\ d.names # <<>>
  /\ \A i \in DOMAIN d.names : NodeFine(d, i)
  /\ \A e \in DOMAIN d.edges : EdgeFine(d, e)

\* The node a lookup by name finds: the last that was entered under it.
Lookup(d, name) == CHOOSE i \in DOMAIN d.names : d.names[i] = name /\ \A j \in i + 1 .. N : d.names[j] # name

\* The plan over indices that a file stands for.
Indexed(d) ==
  [edges       |-> [e \in DOMAIN d.edges |-> <<Lookup(d, d.edges[e][1]), Lookup(d, d.edges[e][2])>>],
   join        |-> d.join,
   sideEffect  |-> d.sideEffect,
   retryBudget |-> d.retryBudget]

-----------------------------------------------------------------------------

NoDocument ==
  [header |-> FALSE, names |-> <<>>, sound |-> {}, join |-> [n \in Node |-> "all_of"],
   sideEffect |-> [n \in Node |-> "none"], retryBudget |-> [n \in Node |-> 0],
   timeout |-> [n \in Node |-> 0], broken |-> {}, edges |-> <<>>]

AdmissionInit ==
  /\ Init
  /\ doc = NoDocument
  /\ cmd = "start"

\* Help, or a mistake: no or another subcommand, a bad flag, no path, no such
\* file, a file that does not decode.
Usage ==
  /\ cmd = "start"
  /\ cmd' \in {"exit 0", "exit 1"}
  /\ UNCHANGED <<vars, doc>>

\* The file decodes (FromJSON).
Read ==
  /\ cmd = "start"
  /\ doc' \in Documents
  /\ cmd' = "decoded"
  /\ UNCHANGED vars

\* BasicValidate fails.
Refuse ==
  /\ cmd = "decoded"
  /\ ~BasicValidate(doc)
  /\ cmd' = "refused"
  /\ UNCHANGED <<vars, doc>>

\* BasicValidate succeeds and Check is called.
Admit ==
  /\ cmd = "decoded"
  /\ BasicValidate(doc)
  /\ CheckBegins(Indexed(doc), doc.broken)
  /\ cmd' = "checking"
  /\ UNCHANGED doc

Checking == cmd = "checking" /\ CheckStep /\ UNCHANGED <<doc, cmd>>

Checked ==
  /\ cmd = "checking"
  /\ pc = "done"
  /\ cmd' = IF problems = {} THEN "checked" ELSE "refused"
  /\ UNCHANGED <<vars, doc>>

\* buildExecutor fails: an unknown provider, or Gemini without a key.
NoExecutor ==
  /\ cmd = "checked"
  /\ cmd' = "exit 1"
  /\ UNCHANGED <<vars, doc>>

\* Run validates the plan itself; Check's second verdict is its first, the plan
\* being the same.
RunBegins ==
  /\ cmd = "checked"
  /\ cmd' = IF BasicValidate(doc) /\ problems = {} THEN "running" ELSE "refused"
  /\ UNCHANGED <<vars, doc>>

\* Run returns an error or an outcome that did or did not succeed.
RunEnds ==
  /\ cmd = "running"
  /\ cmd' \in {"exit 0", "exit 1"}
  /\ UNCHANGED <<vars, doc>>

\* "refused" is an exit with status 1 too.
Exited == cmd \in {"exit 0", "exit 1", "refused"} /\ UNCHANGED admissionVars

AdmissionNext ==
  \/ Usage
  \/ Read
  \/ Refuse
  \/ Admit
  \/ Checking
  \/ Checked
  \/ NoExecutor
  \/ RunBegins
  \/ RunEnds
  \/ Exited

AdmissionSpec == AdmissionInit /\ [][AdmissionNext]_admissionVars

\* Check is one goroutine that never blocks.
AdmissionFairSpec == AdmissionSpec /\ WF_admissionVars(Checking)

-----------------------------------------------------------------------------
(* Properties.                                                             *)

AnyOf(d)       == {d.names[i] : i \in {i \in DOMAIN d.names : d.join[i] = "any_of"}}
Destructive(d) == {d.names[i] : i \in {i \in DOMAIN d.names : d.sideEffect[i] = "destructive"}}

\* In the file's own names: proper fields, a name of its own for every node, edges
\* between named nodes, an order of the names in which every edge leads forward,
\* and no edge from a destructive node to an any_of node.
Shaped(d) ==
  /\ d.header
  /\ Cardinality(Named(d) \ {0}) = N
  /\ d.sound = Node
  /\ \A i \in Node : d.retryBudget[i] >= 0 /\ d.timeout[i] >= 0
  /\ d.broken = {}
  /\ \E place \in [Named(d) -> Node] :
       \A e \in DOMAIN d.edges :
         /\ {d.edges[e][1], d.edges[e][2]} \subseteq Named(d)
         /\ place[d.edges[e][1]] < place[d.edges[e][2]]
  /\ \A e \in DOMAIN d.edges : ~(d.edges[e][1] \in Destructive(d) /\ d.edges[e][2] \in AnyOf(d))

\* Two different nodes lead to name; one does twice.
Raced(d, name) ==
  \E e, f \in DOMAIN d.edges :
    d.edges[e][2] = name /\ d.edges[f][2] = name /\ d.edges[e][1] # d.edges[f][1]

Repeated(d, name) ==
  \E e, f \in DOMAIN d.edges :
    e # f /\ d.edges[e][2] = name /\ d.edges[f][2] = name /\ d.edges[e][1] = d.edges[f][1]

\* The files the documentation lets through, and those the code does.
WellFormed(d) == Shaped(d) /\ \A name \in AnyOf(d) : Raced(d, name)
Admissible(d) == Shaped(d) /\ \A name \in AnyOf(d) : Raced(d, name) \/ Repeated(d, name)

\* The scheduler gets to run exactly the files that are well formed, or would be
\* if a candidate listed twice were two: whatever maps by name the engine keeps
\* are maps by node, as the other modules have it, and no plan the validators
\* should let through is turned away (runCmd, and the two validations at the head
\* of Run).
RunsExactlyAdmissible ==
  /\ cmd = "running" => Admissible(doc)
  /\ cmd = "refused" => ~Admissible(doc)

-----------------------------------------------------------------------------
(* What the repository says of the validator and the code does not do.     *)

\* "a node with any_of must have >= 2 predecessors (candidates)" (the comment of
\* Check): a file that is run is well formed.
RunsOnlyWellFormed == cmd = "running" => WellFormed(doc)

=============================================================================
