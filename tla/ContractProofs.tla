---------------------------- MODULE ContractProofs ----------------------------
(***************************************************************************)
(* Contract!VerdictIsTheRules and Contract!ReportIsStable for any keys,     *)
(* contracts and outputs.                                                  *)
(***************************************************************************)
EXTENDS Contract, EnumerationProofs

\* The tokens of the keys that the loop over tokens has passed are valid
\* exactly if nothing was reported.
TokensRead ==
  stage = "tokens" =>
    (problems = <<>> <=> \A k \in Key \ keys : schema.types[k] # "unknown")

\* Later stages see a usable contract whose tokens are all valid.
TokensValid ==
  stage \in {"output", "required", "types"} =>
    \A k \in Key : schema.types[k] # "unknown"

\* The stages of the loops have a decoded contract; an output that is read on
\* is an object or null; the output is read with an empty report.  What is no
\* object has no keys.
Forms ==
  /\ stage \in {"tokens", "output", "required", "types"} => Decoded
  /\ stage \in {"required", "types"} => output.form # "other"
  /\ schema.form = "padded" => schema.required = <<>> /\ schema.types = Absent
  /\ output.form # "object" => output.fields = Absent
  /\ stage \in {"schema", "output"} => problems = <<>>
  /\ stage \in {"schema", "tokens", "output"} => at = 1
  /\ stage \in {"tokens", "types"} => keys \subseteq Typed

Present(i) == Field(schema.required[i]) # "absent"

Agrees(k) == "absent" \in {schema.types[k], Field(k)} \/ schema.types[k] = Field(k)

\* The required keys before at are present exactly if nothing was reported.
RequiredRead ==
  stage = "required" => (problems = <<>> <=> \A i \in 1 .. at - 1 : Present(i))

\* All required keys are present and the types visited agree exactly if
\* nothing was reported.
TypesRead ==
  stage = "types" =>
    (problems = <<>> <=> /\ \A i \in DOMAIN schema.required : Present(i)
                         /\ \A k \in Key \ keys : Agrees(k))

CInv ==
  /\ TypeOK
  /\ Forms
  /\ TokensRead
  /\ TokensValid
  /\ RequiredRead
  /\ TypesRead
  /\ VerdictIsTheRules

-----------------------------------------------------------------------------

\* A report grows by a broken rule and by nothing else.
LEMMA NotedIsEmpty ==
  ASSUME problems \in Seq(Problem), NEW broken \in BOOLEAN,
         NEW rule \in {"schema", "token", "object", "missing", "mismatch"}, NEW k \in 0 .. K
  PROVE  /\ Noted(broken, rule, k) \in Seq(Problem)
         /\ Noted(broken, rule, k) = <<>> <=> problems = <<>> /\ ~broken
  <1>1. Says(rule, k) \in Problem
    BY DEF Says, Problem
  <1>2. Append(problems, Says(rule, k)) # <<>>
    BY <1>1
  <1>3. Append(problems, Says(rule, k)) \in Seq(Problem)
    BY <1>1
  <1> QED
    BY <1>2, <1>3 DEF Noted

\* The variables are of their types in every step.
LEMMA TypeKept ==
  ASSUME TypeOK, [Next]_vars
  PROVE  TypeOK'
  <1> USE ContractAssumption DEF TypeOK
  <1>0. Key \subseteq 0 .. K /\ 0 \in 0 .. K /\ Typed \subseteq Key
    BY DEF Key, Typed
  <1>1. CASE ReadSchema
    <2>1. problems' \in Seq(Problem)
      BY <1>0, <1>1, NotedIsEmpty DEF ReadSchema
    <2> QED
      BY <1>0, <1>1, <2>1 DEF ReadSchema, Stage
  <1>2. CASE CheckToken
    <2>1. PICK k \in First(keys) : problems' = Noted(schema.types[k] \notin ValidTypes, "token", k)
      BY <1>2 DEF CheckToken
    <2>2. problems' \in Seq(Problem)
      BY <1>0, <2>1, NotedIsEmpty DEF First
    <2> QED
      BY <1>2, <2>2 DEF CheckToken
  <1>3. CASE TokensEnd
    BY <1>3 DEF TokensEnd, Stage
  <1>4. CASE ReadOutput
    <2>1. problems' \in Seq(Problem)
      BY <1>0, <1>4, NotedIsEmpty DEF ReadOutput
    <2> QED
      BY <1>4, <2>1 DEF ReadOutput, Stage
  <1>5. CASE CheckRequired
    <2>1. schema.required \in Seq(Key)
      BY DEF Schema
    <2>2. schema.required[at] \in Key /\ at \in 1 .. Len(schema.required)
      BY <1>5, <2>1 DEF CheckRequired
    <2>3. problems' \in Seq(Problem)
      BY <1>0, <1>5, <2>2, NotedIsEmpty DEF CheckRequired
    <2>4. at + 1 \in 1 .. Len(schema.required) + 1
      BY <2>1, <2>2
    <2> QED
      BY <1>5, <2>3, <2>4 DEF CheckRequired
  <1>6. CASE RequiredEnd
    BY <1>0, <1>6 DEF RequiredEnd, Stage
  <1>7. CASE CheckType
    <2>1. PICK k \in First(keys) : problems' = Noted(Mismatch(k), "mismatch", k)
      BY <1>7 DEF CheckType
    <2>2. problems' \in Seq(Problem)
      BY <1>0, <2>1, NotedIsEmpty DEF First, Mismatch
    <2> QED
      BY <1>7, <2>2 DEF CheckType
  <1>8. CASE TypesEnd
    BY <1>8 DEF TypesEnd, Stage
  <1>9. CASE Done \/ UNCHANGED vars
    BY <1>9 DEF Done, vars
  <1> QED
    BY <1>1, <1>2, <1>3, <1>4, <1>5, <1>6, <1>7, <1>8, <1>9 DEF Next

-----------------------------------------------------------------------------

\* Nothing is reported before the first stage, and no stage but it is reached.
LEMMA InitImpliesCInv == Init => CInv
  <1> SUFFICES ASSUME Init
               PROVE  CInv
    OBVIOUS
  <1>1. schema \in Schema /\ output \in Output
    BY ContractAssumption DEF Init
  <1>2. TypeOK
    <2>1. 1 \in 1 .. Len(schema.required) + 1
      BY <1>1 DEF Schema
    <2> QED
      BY <1>1, <2>1 DEF Init, TypeOK, Stage
  <1>3. /\ schema.form = "padded" => schema.required = <<>> /\ schema.types = Absent
        /\ output.form # "object" => output.fields = Absent
    BY ContractAssumption DEF Init
  <1> QED
    BY <1>2, <1>3 DEF Init, CInv, Forms, TokensRead, TokensValid, RequiredRead, TypesRead,
                VerdictIsTheRules

\* CInv is kept by every step.
LEMMA NextKeepsCInv ==
  ASSUME CInv, [Next]_vars
  PROVE  CInv'
  <1>0. TypeOK /\ TypeOK'
    BY TypeKept DEF CInv
  <1> USE DEF CInv, Decoded, Forms, TokensRead, TokensValid, RequiredRead, TypesRead, VerdictIsTheRules
  <1>a. Key \subseteq 0 .. K /\ 0 \in 0 .. K
    BY ContractAssumption DEF Key
  <1>b. problems \in Seq(Problem) /\ keys \subseteq Key
    BY <1>0 DEF TypeOK
  <1>1. CASE ReadSchema
    <2>1. problems' = <<>> <=> schema.form # "invalid"
      BY <1>1, <1>a, <1>b, NotedIsEmpty DEF ReadSchema
    <2>2. schema.form \in {"none", "padded", "invalid", "shape"}
      BY <1>0 DEF TypeOK, Schema
    <2>3. CASE Decoded
      BY <1>0, <1>1, <2>1, <2>3 DEF ReadSchema, Typed
    <2>4. CASE ~ Decoded
      BY <1>0, <1>1, <2>1, <2>2, <2>4 DEF ReadSchema, Satisfies
    <2> QED
      BY <2>3, <2>4
  <1>2. CASE CheckToken
    <2>1. PICK k \in First(keys) : /\ problems' = Noted(schema.types[k] \notin ValidTypes, "token", k)
                                   /\ keys' = keys \ {k}
      BY <1>2 DEF CheckToken
    <2>2. k \in Key /\ k \in keys
      BY <1>b, <2>1 DEF First
    <2>3. problems' = <<>> <=> problems = <<>> /\ schema.types[k] \in ValidTypes
      BY <1>a, <1>b, <2>1, <2>2, NotedIsEmpty
    <2>4. schema.types[k] \in ValidTypes <=> schema.types[k] # "unknown"
      <3>1. k \in Typed
        BY <1>2, <2>2 DEF CheckToken
      <3>2. schema.types[k] \in Token /\ schema.types[k] # "absent"
        BY <1>0, <2>2, <3>1 DEF TypeOK, Schema, Typed
      <3> QED
        BY <3>2 DEF Token, ValidTypes
    <2>5. UNCHANGED <<schema, output, stage, at>> /\ stage = "tokens"
      BY <1>2 DEF CheckToken
    <2>6. Key \ keys' = (Key \ keys) \cup {k}
      BY <2>1, <2>2
    <2>7. Typed' = Typed
      BY <2>5 DEF Typed
    <2> QED
      BY <1>0, <2>1, <2>3, <2>4, <2>5, <2>6, <2>7
  <1>3. CASE TokensEnd
    <2>1. /\ UNCHANGED <<schema, output, keys, at, problems>> /\ stage = "tokens" /\ keys = {}
          /\ stage' = IF problems = <<>> THEN "output" ELSE "done"
      BY <1>3 DEF TokensEnd
    <2>2. CASE problems = <<>>
      BY <1>0, <2>1, <2>2
    <2>3. CASE problems # <<>>
      <3>1. ~ Satisfies(schema, output) \/ schema.form = "padded"
        BY <2>1, <2>3 DEF Satisfies
      <3>2. schema.form = "padded" => \A k \in Key : schema.types[k] # "unknown"
        BY DEF Absent
      <3>3. ~ Satisfies(schema, output)
        BY <2>1, <2>3, <3>1, <3>2
      <3> QED
        BY <1>0, <2>1, <2>3, <3>3 DEF Satisfies, Departs
    <2> QED
      BY <2>2, <2>3
  <1>4. CASE ReadOutput
    <2>1. problems' = <<>> <=> output.form # "other"
      BY <1>4, <1>a, <1>b, NotedIsEmpty DEF ReadOutput
    <2>2. /\ UNCHANGED <<schema, output, keys, at>> /\ stage = "output"
          /\ stage' = IF output.form = "other" THEN "done" ELSE "required"
      BY <1>4 DEF ReadOutput
    <2>3. CASE output.form = "other"
      <3>1. Departs(schema, output) \/ ~ Satisfies(schema, output)
        BY <2>2, <2>3 DEF Departs, Satisfies
      <3> QED
        BY <1>0, <2>1, <2>2, <2>3, <3>1 DEF Satisfies, Departs
    <2>4. CASE output.form # "other"
      <3>1. 1 .. at' - 1 = {}
        BY <1>0, <2>2
      <3> QED
        BY <1>0, <2>1, <2>2, <2>4, <3>1
    <2> QED
      BY <2>3, <2>4
  <1>5. CASE CheckRequired
    <2>0. schema.required \in Seq(Key) /\ at \in 1 .. Len(schema.required)
      BY <1>0, <1>5 DEF CheckRequired, TypeOK, Schema
    <2>1. schema.required[at] \in Key
      BY <2>0
    <2>2. problems' = <<>> <=> problems = <<>> /\ Present(at)
      BY <1>5, <1>a, <1>b, <2>1, NotedIsEmpty DEF CheckRequired, Present
    <2>3. 1 .. at' - 1 = (1 .. at - 1) \cup {at}
      BY <1>5, <2>0 DEF CheckRequired
    <2>4. UNCHANGED <<schema, output, stage, keys>> /\ stage = "required"
      BY <1>5 DEF CheckRequired
    <2>5. \A i : Present(i)' <=> Present(i)
      BY <2>4 DEF Present, Field
    <2> QED
      BY <1>0, <2>2, <2>3, <2>4, <2>5
  <1>6. CASE RequiredEnd
    <2>1. 1 .. at - 1 = DOMAIN schema.required
      BY <1>0, <1>6 DEF RequiredEnd, TypeOK, Schema
    <2>2. \A k \in Key \ Typed : Agrees(k)
      BY DEF Typed, Agrees
    <2>3. \A i : Present(i)' <=> Present(i)
      BY <1>6 DEF RequiredEnd, Present, Field
    <2>4. \A k : Agrees(k)' <=> Agrees(k)
      BY <1>6 DEF RequiredEnd, Agrees, Field
    <2>5. UNCHANGED <<schema, output, at, problems>>
      BY <1>6 DEF RequiredEnd
    <2>6. keys' = Typed /\ stage = "required" /\ stage' = "types" /\ Typed' = Typed
      BY <1>6 DEF RequiredEnd, Typed
    <2>7. problems = <<>> <=> \A i \in DOMAIN schema.required : Present(i)
      BY <2>1, <2>6
    <2> QED
      BY <1>0, <2>2, <2>3, <2>4, <2>5, <2>6, <2>7
  <1>7. CASE CheckType
    <2>1. PICK k \in First(keys) : /\ problems' = Noted(Mismatch(k), "mismatch", k)
                                   /\ keys' = keys \ {k}
      BY <1>7 DEF CheckType
    <2>2. k \in Key /\ k \in keys
      BY <1>b, <2>1 DEF First
    <2>3. Mismatch(k) <=> ~Agrees(k)
      BY <1>7, <2>2 DEF CheckType, Mismatch, Agrees, Typed
    <2>4. problems' = <<>> <=> problems = <<>> /\ Agrees(k)
      BY <1>a, <1>b, <2>1, <2>2, <2>3, NotedIsEmpty DEF Mismatch
    <2>5. UNCHANGED <<schema, output, stage, at>> /\ stage = "types"
      BY <1>7 DEF CheckType
    <2>6. Key \ keys' = (Key \ keys) \cup {k}
      BY <2>1, <2>2
    <2>7. \A i : Present(i)' <=> Present(i)
      BY <2>5 DEF Present, Field
    <2>8. \A m : Agrees(m)' <=> Agrees(m)
      BY <2>5 DEF Agrees, Field
    <2>9. Typed' = Typed
      BY <2>5 DEF Typed
    <2> QED
      BY <1>0, <2>1, <2>4, <2>5, <2>6, <2>7, <2>8, <2>9
  <1>8. CASE TypesEnd
    <2>1. problems = <<>> <=> /\ \A i \in DOMAIN schema.required : Present(i)
                              /\ \A k \in Key : Agrees(k)
      BY <1>8 DEF TypesEnd
    <2>2. /\ Decoded /\ output.form # "other" /\ \A k \in Key : schema.types[k] # "unknown"
          /\ output.form \in {"object", "null"}
      <3>1. output.form \in {"object", "null", "other"}
        BY <1>0 DEF TypeOK, Output
      <3> QED
        BY <1>0, <1>8, <3>1 DEF TypesEnd
    <2>3. Departs(schema, output) \/ (problems = <<>> <=> Satisfies(schema, output))
      <3>1. CASE schema.form = "padded"
        <4>1. schema.required = <<>> /\ schema.types = Absent
          BY <3>1
        <4>2. \A i \in DOMAIN schema.required : Present(i)
          <5>1. DOMAIN schema.required = {}
            BY <4>1
          <5> QED
            BY <5>1
        <4>3. \A k \in Key : Agrees(k)
          BY <4>1 DEF Agrees, Absent
        <4> QED
          BY <2>1, <3>1, <4>2, <4>3 DEF Satisfies
      <3>2. CASE schema.form = "shape" /\ output.form = "object"
        <4>1. Satisfies(schema, output) <=>
                /\ \A i \in DOMAIN schema.required : Present(i)
                /\ \A k \in Key : Agrees(k)
          BY <2>2, <3>2 DEF Satisfies, Present, Agrees, Field
        <4> QED
          BY <2>1, <4>1
      <3>3. CASE schema.form = "shape" /\ output.form = "null"
        <4>1. CASE schema.required = <<>>
          BY <3>3, <4>1 DEF Departs
        <4>2. CASE schema.required # <<>>
          <5>1. schema.required \in Seq(Key)
            BY <1>0 DEF TypeOK, Schema
          <5>2. 1 \in DOMAIN schema.required /\ schema.required[1] \in Key
            BY <4>2, <5>1
          <5>3. ~ Present(1)
            BY <3>3, <5>2 DEF Present, Field, Absent
          <5>4. ~ Satisfies(schema, output)
            BY <3>3 DEF Satisfies
          <5> QED
            BY <2>1, <5>2, <5>3, <5>4
        <4> QED
          BY <4>1, <4>2
      <3> QED
        BY <2>2, <3>1, <3>2, <3>3 DEF Decoded
    <2>4. schema' = schema /\ output' = output /\ problems' = problems /\ stage' = "done" /\ at' = at
      BY <1>8 DEF TypesEnd
    <2> QED
      BY <1>0, <1>8, <2>3, <2>4 DEF TypesEnd, Departs, Satisfies
  <1>9. CASE Done \/ UNCHANGED vars
    <2>1. UNCHANGED vars
      BY <1>9 DEF Done
    <2>2. /\ \A i : Present(i)' <=> Present(i)
          /\ \A k : Agrees(k)' <=> Agrees(k)
          /\ Typed' = Typed
      BY <2>1 DEF vars, Present, Agrees, Field, Typed
    <2> QED
      BY <1>0, <2>1, <2>2 DEF vars
  <1> QED
    BY <1>1, <1>2, <1>3, <1>4, <1>5, <1>6, <1>7, <1>8, <1>9 DEF Next

\* The variables of Validate are of their types, and the required loop never
\* leaves its list.
THEOREM ContractTypeCorrect == Spec => []TypeOK
  <1>1. CInv => TypeOK
    BY DEF CInv
  <1> QED
    BY <1>1, InitImpliesCInv, NextKeepsCInv, PTL DEF Spec

\* Validate accepts exactly the outputs that keep the rules, for all contracts
\* and outputs and whatever order its loops and early returns have.
THEOREM VerdictIsRight == Spec => []VerdictIsTheRules
  <1>1. CInv => VerdictIsTheRules
    BY DEF CInv
  <1> QED
    BY <1>1, InitImpliesCInv, NextKeepsCInv, PTL DEF Spec

-----------------------------------------------------------------------------
(* The report.                                                             *)

\* What a loop reports of the places P of the list ks.
Found(rule, ks, P) == [i \in DOMAIN Pick(ks, P) |-> Says(rule, Pick(ks, P)[i])]

Sorted   == [k \in Key |-> k]
Unknown  == {k \in Key : schema.types[k] = "unknown"}
Lacking  == {k \in Key : Field(k) = "absent"}
Mistyped == {k \in Key : "absent" \notin {Field(k), schema.types[k]} /\ Field(k) # schema.types[k]}

\* The required list's places up to j whose keys the output lacks.
Missed(j) == {i \in 1 .. j : schema.required[i] \in Lacking}

\* A loop over sorted keys has passed the least ones.
InKeyOrder == stage \in {"tokens", "types"} => \A k \in Typed \ keys, m \in keys : k < m

\* Each loop has reported the breaches among what it has passed.
ReportSoFar ==
  /\ stage = "tokens" => problems = Found("token", Sorted, Unknown \ keys)
  /\ stage = "required" => problems = Found("missing", schema.required, Missed(at - 1))
  /\ stage = "types" => problems = Found("missing", schema.required, Missed(Len(schema.required)))
                                     \o Found("mismatch", Sorted, Mistyped \ keys)

RInv == InKeyOrder /\ ReportSoFar /\ ReportIsStable

\* A report of nothing is empty.
LEMMA FoundNothing ==
  ASSUME NEW rule, NEW ks
  PROVE  Found(rule, ks, {}) = <<>>
  <1>1. DOMAIN Ascending({}) = 1 .. 0
    <2>1. {} \in SUBSET Int /\ IsFiniteSet({}) /\ Cardinality({}) = 0
      BY FS_EmptySet
    <2> QED
      BY <2>1, AscendingLists
  <1>2. DOMAIN Pick(ks, {}) = {}
    BY <1>1 DEF Pick
  <1> QED
    BY <1>2 DEF Found

\* What is reported of one more place, further on, comes last.
LEMMA FoundAppend ==
  ASSUME NEW rule \in {"schema", "token", "object", "missing", "mismatch"},
         NEW ks \in Seq(Key), NEW P \in SUBSET DOMAIN ks, NEW i \in DOMAIN ks, \A j \in P : j < i
  PROVE  /\ Found(rule, ks, P) \in Seq(Problem)
         /\ Found(rule, ks, P \cup {i}) = Append(Found(rule, ks, P), Says(rule, ks[i]))
  <1> DEFINE a == Pick(ks, P)
             b == Pick(ks, P \cup {i})
             u == Found(rule, ks, P)
             v == Found(rule, ks, P \cup {i})
             w == Append(u, Says(rule, ks[i]))
             c == Cardinality(P)
  <1>1. b = Append(a, ks[i])
    BY PickAppend
  <1>2. a \in Seq(Key) /\ DOMAIN a = 1 .. c /\ c \in Nat
    <2>1. DOMAIN ks = 1 .. Len(ks) /\ Len(ks) \in Nat
      OBVIOUS
    <2>2. IsFiniteSet(1 .. Len(ks))
      BY <2>1, FS_Interval
    <2>3. P \in SUBSET (1 .. Len(ks))
      BY <2>1
    <2>4. IsFiniteSet(P) /\ P \in SUBSET Int
      BY <2>2, <2>3, FS_Subset
    <2>5. c \in Nat /\ DOMAIN Ascending(P) = 1 .. c /\ \A j \in 1 .. c : Ascending(P)[j] \in P
      BY <2>4, AscendingLists
    <2> HIDE DEF c
    <2>6. \A j \in 1 .. c : ks[Ascending(P)[j]] \in Key
      BY <2>5
    <2> QED
      BY <2>5, <2>6 DEF Pick
  <1>3. \A k \in Key : Says(rule, k) \in Problem
    BY ContractAssumption DEF Says, Problem, Key
  <1>4. u = [j \in DOMAIN a |-> Says(rule, a[j])] /\ v = [j \in DOMAIN b |-> Says(rule, b[j])]
    BY DEF Found
  <1>5. ks[i] \in Key
    OBVIOUS
  <1> HIDE DEF a, b, c, u, v
  <1>6. /\ DOMAIN b = 1 .. c + 1 /\ b[c + 1] = ks[i]
        /\ \A j \in 1 .. c : b[j] = a[j] /\ a[j] \in Key
    BY <1>1, <1>2, <1>5
  <1>7. u \in Seq(Problem) /\ Len(u) = c /\ \A j \in 1 .. c : u[j] = Says(rule, a[j])
    <2>1. u \in [1 .. c -> Problem]
      BY <1>2, <1>3, <1>4, <1>6
    <2> QED
      BY <1>2, <1>4, <2>1
  <1>8. v \in Seq(Problem) /\ Len(v) = c + 1 /\ \A j \in 1 .. c + 1 : v[j] = Says(rule, b[j])
    <2>1. \A j \in 1 .. c + 1 : b[j] \in Key
      <3>1. \A j \in 1 .. c + 1 : j \in 1 .. c \/ j = c + 1
        BY <1>2
      <3> QED
        BY <1>5, <1>6, <3>1
    <2>2. v \in [1 .. c + 1 -> Problem]
      BY <1>3, <1>4, <1>6, <2>1
    <2> QED
      BY <1>2, <1>4, <1>6, <2>2
  <1>9. Says(rule, ks[i]) \in Problem
    BY <1>3, <1>5
  <1>10. w \in Seq(Problem) /\ Len(w) = c + 1 /\ w[c + 1] = Says(rule, ks[i]) /\ \A j \in 1 .. c : w[j] = u[j]
    <2> DEFINE x == Says(rule, ks[i])
    <2> HIDE DEF x
    <2>1. Append(u, x) \in Seq(Problem) /\ Len(Append(u, x)) = c + 1 /\ Append(u, x)[c + 1] = x
          /\ \A j \in 1 .. c : Append(u, x)[j] = u[j]
      BY <1>2, <1>7, <1>9 DEF x
    <2> QED
      BY <2>1 DEF x
  <1> HIDE DEF w
  <1>11. \A j \in 1 .. c + 1 : v[j] = w[j]
    <2> SUFFICES ASSUME NEW j \in 1 .. c + 1
                 PROVE  v[j] = w[j]
      OBVIOUS
    <2>1. j \in 1 .. c \/ j = c + 1
      BY <1>2
    <2> QED
      BY <1>6, <1>7, <1>8, <1>10, <2>1
  <1>12. v = w
    BY <1>8, <1>10, <1>11, SeqEqual
  <1> QED
    BY <1>7, <1>12 DEF u, v, w

\* What Report says in terms of places.
LEMMA ReportByPlaces ==
  ASSUME TypeOK
  PROVE  /\ Sorted \in Seq(Key) /\ DOMAIN Sorted = Key
         /\ schema.required \in Seq(Key)
         /\ Report =
              LET tokens == Found("token", Sorted, Unknown)
              IN  CASE schema.form = "none" -> <<>>
                    [] schema.form = "invalid" -> <<Says("schema", 0)>>
                    [] Decoded /\ tokens # <<>> -> tokens
                    [] Decoded /\ tokens = <<>> /\ output.form = "other" ->
                         <<Says("object", 0)>>
                    [] OTHER -> Found("missing", schema.required, Missed(Len(schema.required)))
                                  \o Found("mismatch", Sorted, Mistyped)
  <1>1. Sorted \in Seq(Key) /\ DOMAIN Sorted = Key
    <2>1. Sorted \in [1 .. K -> Key] /\ K \in Nat
      BY ContractAssumption DEF Sorted, Key
    <2> QED
      BY <2>1 DEF Key
  <1>2. schema.required \in Seq(Key) /\ DOMAIN schema.required = 1 .. Len(schema.required)
    BY DEF TypeOK, Schema
  <1>3. ASSUME NEW S \in SUBSET Key
        PROVE  {i \in DOMAIN Sorted : Sorted[i] \in S} = S
    BY DEF Sorted
  <1>4. {i \in DOMAIN schema.required : schema.required[i] \in Lacking} = Missed(Len(schema.required))
    BY <1>2 DEF Missed
  <1>5. ASSUME NEW rule, NEW ks, NEW S
        PROVE  Breaches(rule, ks, S) = Found(rule, ks, {i \in DOMAIN ks : ks[i] \in S})
    BY DEF Breaches, Where, Found
  <1>6. /\ Breaches("token", Sorted, Unknown) = Found("token", Sorted, Unknown)
        /\ Breaches("mismatch", Sorted, Mistyped) = Found("mismatch", Sorted, Mistyped)
        /\ Breaches("missing", schema.required, Lacking) =
             Found("missing", schema.required, Missed(Len(schema.required)))
    <2>1. Unknown \in SUBSET Key /\ Mistyped \in SUBSET Key
      BY DEF Unknown, Mistyped
    <2> QED
      BY <1>3, <1>4, <1>5, <2>1
  <1>7. Report =
          LET tokens == Breaches("token", Sorted, Unknown)
          IN  CASE schema.form = "none" -> <<>>
                [] schema.form = "invalid" -> <<Says("schema", 0)>>
                [] Decoded /\ tokens # <<>> -> tokens
                [] Decoded /\ tokens = <<>> /\ output.form = "other" ->
                     <<Says("object", 0)>>
                [] OTHER -> Breaches("missing", schema.required, Lacking)
                              \o Breaches("mismatch", Sorted, Mistyped)
    BY DEF Report, Sorted, Unknown, Lacking, Mistyped
  <1> QED
    BY <1>1, <1>2, <1>6, <1>7

\* A report is a list of problems.
LEMMA FoundType ==
  ASSUME NEW rule \in {"schema", "token", "object", "missing", "mismatch"},
         NEW ks \in Seq(Key), NEW P \in SUBSET DOMAIN ks
  PROVE  Found(rule, ks, P) \in Seq(Problem)
  <1> DEFINE c == Cardinality(P)
  <1>1. DOMAIN ks = 1 .. Len(ks) /\ Len(ks) \in Nat
    OBVIOUS
  <1>2. IsFiniteSet(1 .. Len(ks))
    BY <1>1, FS_Interval
  <1>3. P \in SUBSET (1 .. Len(ks))
    BY <1>1
  <1>4. IsFiniteSet(P) /\ P \in SUBSET Int
    BY <1>2, <1>3, FS_Subset
  <1>5. c \in Nat /\ DOMAIN Ascending(P) = 1 .. c /\ \A j \in 1 .. c : Ascending(P)[j] \in P
    BY <1>4, AscendingLists
  <1> HIDE DEF c
  <1>6. DOMAIN Pick(ks, P) = 1 .. c /\ \A j \in 1 .. c : Pick(ks, P)[j] \in Key
    BY <1>5 DEF Pick
  <1>7. \A k \in Key : Says(rule, k) \in Problem
    BY ContractAssumption DEF Says, Problem, Key
  <1>8. Found(rule, ks, P) \in [1 .. c -> Problem]
    BY <1>6, <1>7 DEF Found
  <1> QED
    BY <1>5, <1>8

\* Appending to the second of two lists appends to both.
LEMMA AppendToConcat ==
  \A a, b \in Seq(Problem) : \A x \in Problem : Append(a \o b, x) = a \o Append(b, x)
  <1> SUFFICES ASSUME NEW a \in Seq(Problem), NEW b \in Seq(Problem), NEW x \in Problem
               PROVE  Append(a \o b, x) = a \o Append(b, x)
    OBVIOUS
  <1> DEFINE c == a \o b
             e == <<x>>
  <1>1. c \in Seq(Problem) /\ e \in Seq(Problem)
    OBVIOUS
  <1> HIDE DEF c
  <1>2. Append(c, x) = c \o e /\ Append(b, x) = b \o e
    BY <1>1, AppendIsConcat
  <1> HIDE DEF e
  <1>3. (a \o b) \o e = a \o (b \o e)
    BY <1>1, ConcatAssociative
  <1> QED
    BY <1>2, <1>3 DEF c

\* Nothing is reported when Validate starts.
LEMMA InitImpliesRInv == Init => RInv
  BY DEF Init, RInv, InKeyOrder, ReportSoFar, ReportIsStable

\* A turn of a loop over sorted keys passes the least of those left.
LEMMA PassedInOrder ==
  ASSUME keys \subseteq Typed, NEW k \in First(keys), NEW B \in SUBSET Typed,
         \A i \in Typed \ keys, m \in keys : i < m
  PROVE  /\ k \in Key /\ k \in keys /\ B \ keys \in SUBSET Key
         /\ \A i \in B \ keys : i < k
         /\ k \in B => B \ (keys \ {k}) = (B \ keys) \cup {k}
         /\ k \notin B => B \ (keys \ {k}) = B \ keys
         /\ \A i \in Typed \ (keys \ {k}), m \in keys \ {k} : i < m
  <1>1. Typed \subseteq Key /\ Key \subseteq Int
    BY ContractAssumption DEF Typed, Key
  <1>2. k \in keys /\ \A m \in keys : k <= m
    BY DEF First
  <1>3. ASSUME NEW i \in Typed \ (keys \ {k}), NEW m \in keys \ {k}
        PROVE  i < m
    <2>1. CASE i = k
      <3>1. k <= m /\ k # m /\ k \in Int /\ m \in Int
        BY <1>1, <1>2
      <3> QED
        BY <2>1, <3>1
    <2>2. CASE i # k
      BY <2>2
    <2> QED
      BY <2>1, <2>2
  <1> QED
    BY <1>1, <1>2, <1>3

\* RInv is kept by every step.
LEMMA NextKeepsRInv ==
  ASSUME CInv, RInv, [Next]_vars
  PROVE  RInv'
  <1>0. TypeOK
    BY DEF CInv
  <1>1. /\ Sorted \in Seq(Key) /\ DOMAIN Sorted = Key /\ schema.required \in Seq(Key)
        /\ Report =
              LET tokens == Found("token", Sorted, Unknown)
              IN  CASE schema.form = "none" -> <<>>
                    [] schema.form = "invalid" -> <<Says("schema", 0)>>
                    [] Decoded /\ tokens # <<>> -> tokens
                    [] Decoded /\ tokens = <<>> /\ output.form = "other" ->
                         <<Says("object", 0)>>
                    [] OTHER -> Found("missing", schema.required, Missed(Len(schema.required)))
                                  \o Found("mismatch", Sorted, Mistyped)
    BY <1>0, ReportByPlaces
  <1>2. /\ Unknown \subseteq Typed /\ Mistyped \subseteq Typed
        /\ \A k \in Key : Sorted[k] = k
    BY DEF Unknown, Mistyped, Typed, Sorted
  <1>3. schema' = schema /\ output' = output
    BY DEF Next, vars, ReadSchema, CheckToken, TokensEnd, ReadOutput, CheckRequired, RequiredEnd,
           CheckType, TypesEnd, Done
  <1>4. /\ Report' = Report /\ Typed' = Typed /\ Unknown' = Unknown /\ Mistyped' = Mistyped
        /\ \A j : Missed(j)' = Missed(j)
    BY <1>3 DEF Report, Typed, Unknown, Mistyped, Missed, Lacking, Field, Breaches, Says
  <1>5. \A rule, ks, P : Found(rule, ks, P)' = Found(rule, ks, P)
    BY DEF Found, Says
  <1>6. Sorted' = Sorted
    BY DEF Sorted
  <1>7. CASE ReadSchema
    <2>1. stage = "schema" /\ problems = <<>> /\ keys' = Typed /\ at' = at /\ at = 1
      BY <1>7 DEF ReadSchema, CInv, Forms
    <2>2. problems' = IF schema.form = "invalid" THEN Append(<<>>, Says("schema", 0)) ELSE <<>>
      BY <1>7, <2>1 DEF ReadSchema, Noted
    <2>3. stage' = IF Decoded THEN "tokens" ELSE "done"
      BY <1>7 DEF ReadSchema
    <2>4. schema.form \in {"none", "padded", "invalid", "shape"}
      BY <1>0 DEF TypeOK, Schema
    <2>5. CASE Decoded
      <3>1. Unknown \ Typed = {}
        BY <1>2
      <3>2. Found("token", Sorted, Unknown \ Typed) = <<>>
        BY <3>1, FoundNothing
      <3> QED
        BY <1>4, <1>5, <1>6, <2>1, <2>2, <2>3, <2>4, <2>5, <3>2 DEF Decoded, RInv, InKeyOrder, ReportSoFar, ReportIsStable
    <2>6. CASE ~ Decoded
      <3>1. problems' = Report
        <4>1. Append(<<>>, Says("schema", 0)) = <<Says("schema", 0)>>
          OBVIOUS
        <4> QED
          BY <1>1, <2>2, <2>4, <2>6, <4>1 DEF Decoded
      <3> QED
        BY <1>4, <2>3, <2>6, <3>1 DEF RInv, InKeyOrder, ReportSoFar, ReportIsStable
    <2> QED
      BY <2>5, <2>6
  <1>8. CASE CheckToken
    <2>1. PICK k \in First(keys) : /\ problems' = Noted(schema.types[k] \notin ValidTypes, "token", k)
                                   /\ keys' = keys \ {k}
      BY <1>8 DEF CheckToken
    <2>2. stage = "tokens" /\ stage' = "tokens"
      BY <1>8 DEF CheckToken
    <2>3. /\ problems = Found("token", Sorted, Unknown \ keys) /\ keys \subseteq Typed
          /\ \A i \in Typed \ keys, m \in keys : i < m
      BY <2>2 DEF CInv, Forms, RInv, InKeyOrder, ReportSoFar
    <2>4. /\ k \in Key /\ k \in keys /\ Unknown \ keys \in SUBSET Key
          /\ \A i \in Unknown \ keys : i < k
          /\ k \in Unknown => Unknown \ (keys \ {k}) = (Unknown \ keys) \cup {k}
          /\ k \notin Unknown => Unknown \ (keys \ {k}) = Unknown \ keys
          /\ \A i \in Typed \ (keys \ {k}), m \in keys \ {k} : i < m
      BY <1>2, <2>3, PassedInOrder
    <2>5. schema.types[k] \notin ValidTypes <=> k \in Unknown
      <3>1. k \in Typed
        BY <2>3, <2>4
      <3>2. schema.types[k] \in Token /\ schema.types[k] # "absent"
        BY <1>0, <2>4, <3>1 DEF TypeOK, Schema, Typed
      <3> QED
        BY <2>4, <3>2 DEF Token, ValidTypes, Unknown
    <2>6. problems' = Found("token", Sorted, Unknown \ (keys \ {k}))
      <3>1. CASE k \in Unknown
        <4>1. Found("token", Sorted, (Unknown \ keys) \cup {k}) =
                Append(Found("token", Sorted, Unknown \ keys), Says("token", Sorted[k]))
          BY <1>1, <2>4, FoundAppend
        <4> QED
          BY <1>2, <2>1, <2>3, <2>4, <2>5, <3>1, <4>1 DEF Noted
      <3>2. CASE k \notin Unknown
        BY <2>1, <2>3, <2>4, <2>5, <3>2 DEF Noted
      <3> QED
        BY <3>1, <3>2
    <2> QED
      BY <1>4, <1>5, <1>6, <2>1, <2>2, <2>4, <2>6 DEF RInv, InKeyOrder, ReportSoFar, ReportIsStable
  <1>9. CASE TokensEnd
    <2>1. /\ stage = "tokens" /\ keys = {} /\ problems' = problems
          /\ stage' = IF problems = <<>> THEN "output" ELSE "done"
      BY <1>9 DEF TokensEnd
    <2>2. problems = Found("token", Sorted, Unknown) /\ Decoded
      <3>1. Unknown \ {} = Unknown
        OBVIOUS
      <3> QED
        BY <2>1, <3>1 DEF RInv, ReportSoFar, CInv, Forms
    <2>3. CASE problems = <<>>
      BY <2>1, <2>3 DEF RInv, InKeyOrder, ReportSoFar, ReportIsStable
    <2>4. CASE problems # <<>>
      <3>1. problems = Report
        BY <1>1, <2>2, <2>4
      <3> QED
        BY <1>4, <2>1, <2>4, <3>1 DEF RInv, InKeyOrder, ReportSoFar, ReportIsStable
    <2> QED
      BY <2>3, <2>4
  <1>10. CASE ReadOutput
    <2>1. /\ stage = "output" /\ problems = <<>> /\ at' = at /\ at = 1 /\ Decoded
          /\ stage' = IF output.form = "other" THEN "done" ELSE "required"
          /\ problems' = IF output.form = "other" THEN Append(problems, Says("object", 0)) ELSE problems
      BY <1>10 DEF ReadOutput, CInv, Forms, Noted
    <2>2. CASE output.form = "other"
      <3>1. Unknown = {}
        BY <2>1 DEF CInv, TokensValid, Unknown
      <3>2. Found("token", Sorted, Unknown) = <<>>
        BY <3>1, FoundNothing
      <3>3. Append(<<>>, Says("object", 0)) = <<Says("object", 0)>>
        OBVIOUS
      <3>4. problems' = Report
        BY <1>1, <2>1, <2>2, <3>2, <3>3
      <3> QED
        BY <1>4, <2>1, <2>2, <3>4 DEF RInv, InKeyOrder, ReportSoFar, ReportIsStable
    <2>3. CASE output.form # "other"
      <3>1. Missed(0) = {}
        BY DEF Missed
      <3>2. Found("missing", schema.required, Missed(0)) = <<>>
        BY <3>1, FoundNothing
      <3>3. at' - 1 = 0
        BY <2>1
      <3> QED
        BY <1>3, <1>4, <1>5, <2>1, <2>3, <3>2, <3>3 DEF RInv, InKeyOrder, ReportSoFar, ReportIsStable
    <2> QED
      BY <2>2, <2>3
  <1>11. CASE CheckRequired
    <2>1. /\ stage = "required" /\ stage' = "required" /\ at' = at + 1 /\ at \in 1 .. Len(schema.required)
          /\ problems' = Noted(Field(schema.required[at]) = "absent", "missing", schema.required[at])
      BY <1>0, <1>1, <1>11 DEF CheckRequired, TypeOK
    <2>2. problems = Found("missing", schema.required, Missed(at - 1))
      BY <2>1 DEF RInv, ReportSoFar
    <2>3. /\ Missed(at - 1) \in SUBSET DOMAIN schema.required /\ at \in DOMAIN schema.required
          /\ \A i \in Missed(at - 1) : i < at
          /\ schema.required[at] \in Lacking => Missed(at) = Missed(at - 1) \cup {at}
          /\ schema.required[at] \notin Lacking => Missed(at) = Missed(at - 1)
      <3>1. DOMAIN schema.required = 1 .. Len(schema.required) /\ Len(schema.required) \in Nat
        BY <1>1
      <3>2. 1 .. at = (1 .. at - 1) \cup {at} /\ 1 .. at - 1 \in SUBSET (1 .. Len(schema.required))
        BY <2>1, <3>1
      <3>3. \A i \in 1 .. at - 1 : i < at
        BY <2>1, <3>1
      <3> QED
        BY <2>1, <3>1, <3>2, <3>3 DEF Missed
    <2>4. schema.required[at] \in Lacking <=> Field(schema.required[at]) = "absent"
      <3>1. schema.required[at] \in Key
        BY <1>1, <2>1
      <3> QED
        BY <3>1 DEF Lacking
    <2>5. problems' = Found("missing", schema.required, Missed(at))
      <3>1. CASE schema.required[at] \in Lacking
        <4>1. Found("missing", schema.required, Missed(at - 1) \cup {at}) =
                Append(Found("missing", schema.required, Missed(at - 1)), Says("missing", schema.required[at]))
          BY <1>1, <2>3, FoundAppend
        <4> QED
          BY <2>1, <2>2, <2>3, <2>4, <3>1, <4>1 DEF Noted
      <3>2. CASE schema.required[at] \notin Lacking
        BY <2>1, <2>2, <2>3, <2>4, <3>2 DEF Noted
      <3> QED
        BY <3>1, <3>2
    <2>6. at' - 1 = at
      BY <2>1
    <2> QED
      BY <1>3, <1>4, <1>5, <2>1, <2>5, <2>6 DEF RInv, InKeyOrder, ReportSoFar, ReportIsStable
  <1>12. CASE RequiredEnd
    <2>1. /\ stage = "required" /\ stage' = "types" /\ keys' = Typed /\ problems' = problems
          /\ at - 1 = Len(schema.required)
      BY <1>0, <1>1, <1>12 DEF RequiredEnd, TypeOK
    <2>2. problems = Found("missing", schema.required, Missed(Len(schema.required)))
      BY <2>1 DEF RInv, ReportSoFar
    <2>3. Mistyped \ Typed = {}
      BY <1>2
    <2>4. Found("mismatch", Sorted, Mistyped \ Typed) = <<>>
      BY <2>3, FoundNothing
    <2>5. problems \o <<>> = problems
      BY <1>0, ConcatEmptySeq DEF TypeOK
    <2>6. problems = Found("missing", schema.required, Missed(Len(schema.required)))
                       \o Found("mismatch", Sorted, Mistyped \ Typed)
      BY <2>2, <2>4, <2>5
    <2> QED
      BY <1>3, <1>4, <1>5, <1>6, <2>1, <2>6 DEF RInv, InKeyOrder, ReportSoFar, ReportIsStable
  <1>13. CASE CheckType
    <2>1. PICK k \in First(keys) : problems' = Noted(Mismatch(k), "mismatch", k) /\ keys' = keys \ {k}
      BY <1>13 DEF CheckType
    <2>2. stage = "types" /\ stage' = "types"
      BY <1>13 DEF CheckType
    <2> DEFINE missing == Found("missing", schema.required, Missed(Len(schema.required)))
               before  == Found("mismatch", Sorted, Mistyped \ keys)
    <2>3. /\ problems = missing \o before /\ keys \subseteq Typed
          /\ \A i \in Typed \ keys, m \in keys : i < m
      BY <2>2 DEF CInv, Forms, RInv, InKeyOrder, ReportSoFar
    <2>4. /\ k \in Key /\ k \in keys /\ Mistyped \ keys \in SUBSET Key
          /\ \A i \in Mistyped \ keys : i < k
          /\ k \in Mistyped => Mistyped \ (keys \ {k}) = (Mistyped \ keys) \cup {k}
          /\ k \notin Mistyped => Mistyped \ (keys \ {k}) = Mistyped \ keys
          /\ \A i \in Typed \ (keys \ {k}), m \in keys \ {k} : i < m
      BY <1>2, <2>3, PassedInOrder
    <2>5. Mismatch(k) <=> k \in Mistyped
      <3>1. schema.types[k] # "absent"
        BY <2>3, <2>4 DEF Typed
      <3> QED
        BY <2>4, <3>1 DEF Mismatch, Mistyped
    <2>6. problems' = missing \o Found("mismatch", Sorted, Mistyped \ (keys \ {k}))
      <3>1. CASE k \in Mistyped
        <4>1. /\ Found("mismatch", Sorted, (Mistyped \ keys) \cup {k}) = Append(before, Says("mismatch", Sorted[k]))
              /\ before \in Seq(Problem)
          BY <1>1, <2>4, FoundAppend
        <4>2. Says("mismatch", k) \in Problem
          BY <2>4, ContractAssumption DEF Says, Problem, Key
        <4>3. missing \in Seq(Problem)
          <5>1. Missed(Len(schema.required)) \in SUBSET DOMAIN schema.required
            BY <1>1 DEF Missed
          <5> QED
            BY <1>1, <5>1, FoundType
        <4> HIDE DEF missing, before
        <4>4. Append(missing \o before, Says("mismatch", k)) = missing \o Append(before, Says("mismatch", k))
          <5>1. before \in Seq(Problem)
            BY <4>1
          <5> DEFINE x == Says("mismatch", k)
          <5> HIDE DEF x
          <5>2. x \in Problem
            BY <4>2 DEF x
          <5>3. Append(missing \o before, x) = missing \o Append(before, x)
            BY <4>3, <5>1, <5>2, AppendToConcat
          <5> QED
            BY <5>3 DEF x
        <4> QED
          BY <1>2, <2>1, <2>3, <2>4, <2>5, <3>1, <4>1, <4>4 DEF Noted
      <3>2. CASE k \notin Mistyped
        BY <2>1, <2>3, <2>4, <2>5, <3>2 DEF Noted
      <3> QED
        BY <3>1, <3>2
    <2> QED
      BY <1>3, <1>4, <1>5, <1>6, <2>1, <2>2, <2>4, <2>6 DEF RInv, InKeyOrder, ReportSoFar, ReportIsStable
  <1>14. CASE TypesEnd
    <2>1. stage = "types" /\ keys = {} /\ stage' = "done" /\ problems' = problems
      BY <1>14 DEF TypesEnd
    <2>2. problems = Found("missing", schema.required, Missed(Len(schema.required)))
                       \o Found("mismatch", Sorted, Mistyped)
      <3>1. Mistyped \ {} = Mistyped
        OBVIOUS
      <3> QED
        BY <2>1, <3>1 DEF RInv, ReportSoFar
    <2>3. Decoded /\ output.form # "other"
      BY <2>1 DEF CInv, Forms
    <2>4. Found("token", Sorted, Unknown) = <<>>
      <3>1. Unknown = {}
        BY <2>1 DEF CInv, TokensValid, Unknown
      <3> QED
        BY <3>1, FoundNothing
    <2>5. problems = Report
      BY <1>1, <2>2, <2>3, <2>4 DEF Decoded
    <2> QED
      BY <1>4, <2>1, <2>5 DEF RInv, InKeyOrder, ReportSoFar, ReportIsStable
  <1>15. CASE Done \/ UNCHANGED vars
    <2>1. UNCHANGED vars
      BY <1>15 DEF Done
    <2> QED
      BY <1>4, <1>5, <1>6, <2>1 DEF vars, RInv, InKeyOrder, ReportSoFar, ReportIsStable
  <1> QED
    BY <1>7, <1>8, <1>9, <1>10, <1>11, <1>12, <1>13, <1>14, <1>15 DEF Next

\* The report is complete, and the order of its problems depends on the contract
\* and the output alone, however Go's maps yield their keys.
THEOREM ReportIsRight == Spec => []ReportIsStable
  <1>1. RInv => ReportIsStable
    BY DEF RInv
  <1> QED
    BY <1>1, InitImpliesCInv, NextKeepsCInv, InitImpliesRInv, NextKeepsRInv, PTL DEF Spec

=============================================================================
