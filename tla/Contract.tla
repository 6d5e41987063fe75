------------------------------- MODULE Contract -------------------------------
(***************************************************************************)
(* The output contract of engine/contract/contract.go: Validate holds an   *)
(* output against a list of required keys and the types of some keys, and  *)
(* reports every rule the output breaks, in an order that does not depend  *)
(* on how Go walks its maps.                                               *)
(*                                                                         *)
(* One action is one early return or one turn of a loop.  Keys are numbers *)
(* in lexical order; a document is the types of its top-level values.      *)
(***************************************************************************)
EXTENDS Integers, Sequences, Enumeration

CONSTANTS
  K,          \* the number of keys that contracts and outputs may use
  Schemas,    \* the contracts
  Outputs     \* the outputs

Key == 1 .. K

ValidTypes == {"string", "number", "bool", "object", "array"}

\* A type token of the schema: a valid one, a typo, or none for this key.
Token == ValidTypes \cup {"unknown", "absent"}

\* What jsonType says of a value of the output, or that the key is absent.
Kind == ValidTypes \cup {"null", "absent"}

\* "none": nil, blank, or null or {} with nothing but blanks before it.  "padded": {} or null
\* with blanks in or behind it, which isEmptySchema does not recognise and which
\* decodes into a contract that lists nothing.  "invalid": not decodable into
\* schemaV1.  "shape": any other contract.
Schema ==
  [form : {"none", "padded", "invalid", "shape"}, required : Seq(Key), types : [Key -> Token]]

\* "other": not JSON, or JSON other than an object or null.
Output == [form : {"object", "null", "other"}, fields : [Key -> Kind]]

Absent == [k \in Key |-> "absent"]

ASSUME ContractAssumption ==
  /\ K \in Nat
  /\ Schemas \subseteq {s \in Schema : s.form = "padded" => s.required = <<>> /\ s.types = Absent}
  /\ Outputs \subseteq {o \in Output : o.form # "object" => o.fields = Absent}

VARIABLES
  schema, output,   \* the arguments; never written
  stage,            \* where Validate is
  keys,             \* the keys the current loop over types has still to visit
  at,               \* the loop's index into required
  problems          \* the problems so far, each a rule and the key it is about

vars == <<schema, output, stage, keys, at, problems>>

Stage == {"schema", "tokens", "output", "required", "types", "done"}

Problem == [rule : {"schema", "token", "object", "missing", "mismatch"}, key : 0 .. K]

Says(rule, k) == [rule |-> rule, key |-> k]

Typed == {k \in Key : schema.types[k] # "absent"}

\* obj[k]; Unmarshal turns null into an empty map without an error.
Field(k) == output.fields[k]

-----------------------------------------------------------------------------

Init ==
  /\ schema \in Schemas
  /\ output \in Outputs
  /\ stage = "schema"
  /\ keys = {}
  /\ at = 1
  /\ problems = <<>>

\* The report after the rule was checked for k, which breaks it if broken.
Noted(broken, rule, k) == IF broken THEN Append(problems, Says(rule, k)) ELSE problems

\* Mutant: the keys are visited as the map yields them.
FirstAny(S) == S

\* sortedKeys: the least key is next.
First(S) == {k \in S : \A m \in S : k <= m}

\* The schema is unmarshalled, and without an error.
Decoded == schema.form \in {"padded", "shape"}

ReadSchema ==
  /\ stage = "schema"
  /\ stage' = IF Decoded THEN "tokens" ELSE "done"
  /\ problems' = Noted(schema.form = "invalid", "schema", 0)
  /\ keys' = Typed
  /\ UNCHANGED <<schema, output, at>>

CheckToken ==
  /\ stage = "tokens"
  /\ \E k \in First(keys) :
       /\ problems' = Noted(schema.types[k] \notin ValidTypes, "token", k)
       /\ keys' = keys \ {k}
  /\ UNCHANGED <<schema, output, stage, at>>

TokensEnd ==
  /\ stage = "tokens" /\ keys = {}
  /\ stage' = IF problems = <<>> THEN "output" ELSE "done"
  /\ UNCHANGED <<schema, output, keys, at, problems>>

ReadOutput ==
  /\ stage = "output"
  /\ stage' = IF output.form = "other" THEN "done" ELSE "required"
  /\ problems' = Noted(output.form = "other", "object", 0)
  /\ UNCHANGED <<schema, output, keys, at>>

\* Mutant: the problem names the index instead of the key.
CheckRequiredNamingIndex ==
  /\ stage = "required" /\ at <= Len(schema.required)
  /\ problems' = Noted(Field(schema.required[at]) = "absent", "missing", at)
  /\ at' = at + 1
  /\ UNCHANGED <<schema, output, stage, keys>>

CheckRequired ==
  /\ stage = "required" /\ at <= Len(schema.required)
  /\ LET k == schema.required[at]
     IN  problems' = Noted(Field(k) = "absent", "missing", k)
  /\ at' = at + 1
  /\ UNCHANGED <<schema, output, stage, keys>>

RequiredEnd ==
  /\ stage = "required" /\ at > Len(schema.required)
  /\ stage' = "types"
  /\ keys' = Typed
  /\ UNCHANGED <<schema, output, at, problems>>

\* Mutant: a typed key must be present.
MismatchOrMissing(k) == Field(k) # schema.types[k]

\* An absent key is left to the required list.
Mismatch(k) == Field(k) # "absent" /\ Field(k) # schema.types[k]

CheckType ==
  /\ stage = "types"
  /\ \E k \in First(keys) :
       /\ problems' = Noted(Mismatch(k), "mismatch", k)
       /\ keys' = keys \ {k}
  /\ UNCHANGED <<schema, output, stage, at>>

TypesEnd ==
  /\ stage = "types" /\ keys = {}
  /\ stage' = "done"
  /\ UNCHANGED <<schema, output, keys, at, problems>>

\* Validate has returned; ok is problems = <<>>.
Done == stage = "done" /\ UNCHANGED vars

Next ==
  \/ ReadSchema
  \/ CheckToken
  \/ TokensEnd
  \/ ReadOutput
  \/ CheckRequired
  \/ RequiredEnd
  \/ CheckType
  \/ TypesEnd
  \/ Done

Spec == Init /\ [][Next]_vars

-----------------------------------------------------------------------------
(* Properties.                                                             *)

\* Every variable has its type; the required loop stays inside its list, and
\* what is reported is a key.
TypeOK ==
  /\ schema \in Schema
  /\ output \in Output
  /\ stage \in Stage
  /\ keys \subseteq Key
  /\ at \in 1 .. Len(schema.required) + 1
  /\ problems \in Seq(Problem)

\* The rules in the comment of Validate: an empty schema accepts any input, and
\* otherwise the output is a JSON object, which null is not.  A schema that cannot
\* be used rejects (the comments on its two errors).
Satisfies(s, o) ==
  \/ s.form \in {"none", "padded"}
  \/ /\ s.form = "shape"
     /\ \A k \in Key : s.types[k] # "unknown"
     /\ o.form = "object"
     /\ \A i \in DOMAIN s.required : o.fields[s.required[i]] # "absent"
     /\ \A k \in Key : "absent" \in {s.types[k], o.fields[k]} \/ s.types[k] = o.fields[k]

\* Where the code departs from them: {} is held against an output that is no
\* object when blanks stand in or behind it, and a contract without required keys
\* accepts the output null.
Departs(s, o) ==
  \/ s.form = "padded" /\ o.form = "other"
  \/ s.form = "shape" /\ o.form = "null" /\ s.required = <<>>

\* Validate says ok exactly when the rules are kept, in whatever order its
\* loops and early returns look at them, but for the two departures.
VerdictIsTheRules ==
  stage = "done" /\ ~Departs(schema, output) => (problems = <<>> <=> Satisfies(schema, output))

\* The problems of one rule, which the keys in broken break, in the order of
\* the list ks.
Breaches(rule, ks, broken) ==
  LET found == Where(ks, broken)
  IN  [i \in DOMAIN found |-> Says(rule, found[i])]

\* Every breach of the first group of rules that has one, required keys in the
\* schema's order and the others by key.
Report ==
  LET sorted   == [k \in Key |-> k]
      tokens   == Breaches("token", sorted, {k \in Key : schema.types[k] = "unknown"})
      missing  == Breaches("missing", schema.required, {k \in Key : Field(k) = "absent"})
      mismatch == Breaches("mismatch", sorted,
                           {k \in Key : /\ "absent" \notin {Field(k), schema.types[k]}
                                        /\ Field(k) # schema.types[k]})
  IN  CASE schema.form = "none" -> <<>>
        [] schema.form = "invalid" -> <<Says("schema", 0)>>
        [] Decoded /\ tokens # <<>> -> tokens
        [] Decoded /\ tokens = <<>> /\ output.form = "other" -> <<Says("object", 0)>>
        [] OTHER -> missing \o mismatch

\* The report is a function of the two arguments ("ordered deterministically",
\* the comment of Validate).
ReportIsStable == stage = "done" => problems = Report

=============================================================================
