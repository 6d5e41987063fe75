----------------------------- MODULE Enumeration -----------------------------
(***************************************************************************)
(* The members of a finite set in the order of a relation, and what Go's   *)
(* filtering loops build: the elements of a list that pass a test, in the  *)
(* list's order.  Where is the standard SelectSeq, and InOrder the         *)
(* community modules' SetToSortSeq, said without recursion and without an  *)
(* arbitrary first order, so that proofs can use them.                     *)
(***************************************************************************)
EXTENDS Integers, Sequences, FiniteSets

\* The members of S before x; R is a strict order on S, as a set of pairs.
Below(S, R, x) == {y \in S : <<y, x>> \in R}

\* S in the order of R.
InOrder(S, R) ==
  [i \in 1 .. Cardinality(S) |-> CHOOSE x \in S : Cardinality(Below(S, R, x)) = i - 1]

LessThan(S) == {r \in S \X S : r[1] < r[2]}

\* A set of numbers in increasing order.
Ascending(S) == InOrder(S, LessThan(S))

\* The elements of s at the places in P, in the order of s.
Pick(s, P) == [i \in DOMAIN Ascending(P) |-> s[Ascending(P)[i]]]

\* The elements of s that are in S, in the order of s.
Where(s, S) == Pick(s, {i \in DOMAIN s : s[i] \in S})

=============================================================================
