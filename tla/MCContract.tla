------------------------------ MODULE MCContract ------------------------------
(***************************************************************************)
(* The Contract on every schema and every output over a few keys.          *)
(***************************************************************************)
EXTENDS Contract

LOCAL INSTANCE SequencesExt

CONSTANT MaxRequired   \* bound of the length of a required list

RequiredLists == UNION {[1 .. m -> Key] : m \in 0 .. MaxRequired}

AllSchemas ==
  [form : {"none", "padded", "invalid"}, required : {<<>>}, types : {Absent}]
    \cup [form : {"shape"}, required : RequiredLists, types : [Key -> Token]]

AllOutputs ==
  [form : {"null", "other"}, fields : {Absent}]
    \cup [form : {"object"}, fields : [Key -> Kind]]

\* The forms of Enumeration that proofs can use are the standard ones.
ASSUME SortsLikeSetToSortSeq ==
  \A S \in SUBSET (1 .. 4) : Ascending(S) = SetToSortSeq(S, LAMBDA x, y : x < y)

ASSUME FiltersLikeSelectSeq ==
  \A s \in RequiredLists, S \in SUBSET Key : Where(s, S) = SelectSeq(s, LAMBDA x : x \in S)

=============================================================================
