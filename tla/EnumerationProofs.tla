-------------------------- MODULE EnumerationProofs --------------------------
(***************************************************************************)
(* What the enumeration of a finite set is, whatever the set and its order, *)
(* and what a loop leaves after each of its iterations.                     *)
(***************************************************************************)
EXTENDS Enumeration, FiniteSetTheorems, SequenceTheorems, WellFoundedInduction, TLAPS

\* R orders the members of S strictly and totally.
StrictOrder(S, R) ==
  /\ \A x, y \in S : x = y \/ <<x, y>> \in R \/ <<y, x>> \in R
  /\ \A x \in S : <<x, x>> \notin R
  /\ \A x, y, z \in S : <<x, y>> \in R /\ <<y, z>> \in R => <<x, z>> \in R

\* A member has more members before it than any earlier one.
LEMMA RankIncreases ==
  ASSUME NEW S, IsFiniteSet(S), NEW R, StrictOrder(S, R), NEW x \in S, NEW y \in S,
         <<x, y>> \in R
  PROVE  Cardinality(Below(S, R, x)) < Cardinality(Below(S, R, y))
  <1>1. Below(S, R, x) \in SUBSET Below(S, R, y)
    BY DEF StrictOrder, Below
  <1>2. x \in Below(S, R, y) /\ x \notin Below(S, R, x)
    BY DEF StrictOrder, Below
  <1>3. IsFiniteSet(Below(S, R, y)) /\ IsFiniteSet(Below(S, R, x))
    <2>1. Below(S, R, y) \in SUBSET S /\ Below(S, R, x) \in SUBSET S
      BY DEF Below
    <2> QED
      BY <2>1, FS_Subset
  <1>4. Cardinality(Below(S, R, x)) \in Nat /\ Cardinality(Below(S, R, y)) \in Nat
    BY <1>3, FS_CardinalityType
  <1>5. /\ Cardinality(Below(S, R, x)) <= Cardinality(Below(S, R, y))
        /\ Cardinality(Below(S, R, y)) = Cardinality(Below(S, R, x)) => Below(S, R, y) = Below(S, R, x)
    BY <1>1, <1>3, FS_Subset
  <1> QED
    BY <1>2, <1>4, <1>5

\* A member has fewer members before it than there are.
LEMMA RankType ==
  ASSUME NEW S, IsFiniteSet(S), NEW R, StrictOrder(S, R), NEW x \in S
  PROVE  Cardinality(Below(S, R, x)) \in 0 .. Cardinality(S) - 1
  <1>1. Below(S, R, x) \in SUBSET S /\ x \notin Below(S, R, x)
    BY DEF StrictOrder, Below
  <1>2. IsFiniteSet(Below(S, R, x)) /\ Cardinality(Below(S, R, x)) <= Cardinality(S)
    BY <1>1, FS_Subset
  <1>3. Cardinality(S) # Cardinality(Below(S, R, x))
    BY <1>1, FS_Subset
  <1>4. Cardinality(S) \in Nat /\ Cardinality(Below(S, R, x)) \in Nat
    BY <1>2, FS_CardinalityType
  <1> QED
    BY <1>2, <1>3, <1>4

\* The number of members before it tells a member from the others, and every
\* number below the size of the set is that of some member.
LEMMA RankIsOnto ==
  ASSUME NEW S, IsFiniteSet(S), NEW R, StrictOrder(S, R)
  PROVE  /\ \A x, y \in S : Cardinality(Below(S, R, x)) = Cardinality(Below(S, R, y)) => x = y
         /\ \A k \in 0 .. Cardinality(S) - 1 : \E x \in S : Cardinality(Below(S, R, x)) = k
  <1> DEFINE f == [x \in S |-> Cardinality(Below(S, R, x))]
  <1>1. f \in [S -> 0 .. Cardinality(S) - 1]
    BY RankType
  <1>2. ASSUME NEW x \in S, NEW y \in S, f[x] = f[y]
        PROVE  x = y
    <2>1. f[x] \in Int /\ f[y] \in Int
      BY <1>1
    <2>2. <<x, y>> \in R => f[x] < f[y]
      BY RankIncreases
    <2>3. <<y, x>> \in R => f[y] < f[x]
      BY RankIncreases
    <2> HIDE DEF f
    <2> QED
      BY <1>2, <2>1, <2>2, <2>3 DEF StrictOrder
  <1>3. f \in Injection(S, 0 .. Cardinality(S) - 1)
    <2> HIDE DEF f
    <2> QED
      BY <1>1, <1>2 DEF Injection, IsInjective
  <1>4. Cardinality(S) \in Nat
    BY FS_CardinalityType
  <1>5. /\ IsFiniteSet(0 .. Cardinality(S) - 1)
        /\ Cardinality(0 .. Cardinality(S) - 1) = Cardinality(S)
    BY <1>4, FS_Interval
  <1>6. f \in Surjection(S, 0 .. Cardinality(S) - 1)
    BY <1>3, <1>5, FS_Injection
  <1>7. \A k \in 0 .. Cardinality(S) - 1 : \E x \in S : f[x] = k
    <2> HIDE DEF f
    <2> QED
      BY <1>6 DEF Surjection
  <1> QED
    BY <1>2, <1>7

\* The enumeration lists every member once, each after those before it.
THEOREM Enumerates ==
  ASSUME NEW S, IsFiniteSet(S), NEW R, StrictOrder(S, R)
  PROVE  /\ Cardinality(S) \in Nat
         /\ InOrder(S, R) \in Seq(S)
         /\ Len(InOrder(S, R)) = Cardinality(S)
         /\ DOMAIN InOrder(S, R) = 1 .. Cardinality(S)
         /\ \A i \in 1 .. Cardinality(S) :
              InOrder(S, R)[i] \in S /\ Cardinality(Below(S, R, InOrder(S, R)[i])) = i - 1
         /\ \A x \in S : \E i \in 1 .. Cardinality(S) : InOrder(S, R)[i] = x
         /\ \A i, j \in 1 .. Cardinality(S) : <<InOrder(S, R)[i], InOrder(S, R)[j]>> \in R <=> i < j
  <1> DEFINE e == InOrder(S, R)
             c == Cardinality(S)
  <1>1. c \in Nat
    BY FS_CardinalityType
  <1>2. e = [i \in 1 .. c |-> CHOOSE x \in S : Cardinality(Below(S, R, x)) = i - 1]
    BY DEF InOrder
  <1>3. ASSUME NEW i \in 1 .. c
        PROVE  e[i] \in S /\ Cardinality(Below(S, R, e[i])) = i - 1
    <2>1. \E x \in S : Cardinality(Below(S, R, x)) = i - 1
      BY <1>1, RankIsOnto
    <2>2. e[i] = CHOOSE x \in S : Cardinality(Below(S, R, x)) = i - 1
      BY <1>2
    <2> HIDE DEF e, c
    <2> QED
      BY <2>1, <2>2
  <1>4. e \in Seq(S) /\ Len(e) = c /\ DOMAIN e = 1 .. c
    <2>1. e \in [1 .. c -> S]
      BY <1>2, <1>3
    <2> HIDE DEF e, c
    <2> QED
      BY <1>1, <2>1
  <1>5. ASSUME NEW x \in S
        PROVE  \E i \in 1 .. c : e[i] = x
    <2> DEFINE i == Cardinality(Below(S, R, x)) + 1
    <2>1. i \in 1 .. c /\ Cardinality(Below(S, R, x)) = i - 1
      BY <1>1, RankType
    <2>2. e[i] \in S /\ Cardinality(Below(S, R, e[i])) = i - 1
      BY <1>3, <2>1
    <2>3. e[i] = x
      BY <2>1, <2>2, RankIsOnto
    <2> QED
      BY <2>1, <2>3
  <1>6. ASSUME NEW i \in 1 .. c, NEW j \in 1 .. c
        PROVE  <<e[i], e[j]>> \in R <=> i < j
    <2>1. e[i] \in S /\ e[j] \in S
      BY <1>3
    <2>2. /\ Cardinality(Below(S, R, e[i])) = i - 1
          /\ Cardinality(Below(S, R, e[j])) = j - 1
      BY <1>3
    <2>3. <<e[i], e[j]>> \in R => i - 1 < j - 1
      BY <2>1, <2>2, RankIncreases
    <2>4. <<e[j], e[i]>> \in R => j - 1 < i - 1
      BY <2>1, <2>2, RankIncreases
    <2>5. e[i] = e[j] => i - 1 = j - 1
      BY <2>2
    <2>6. e[i] = e[j] \/ <<e[i], e[j]>> \in R \/ <<e[j], e[i]>> \in R
      BY <2>1 DEF StrictOrder
    <2> HIDE DEF e
    <2> QED
      BY <1>1, <2>3, <2>4, <2>5, <2>6
  <1> QED
    BY <1>1, <1>3, <1>4, <1>5, <1>6

\* Numbers are ordered by <.
LEMMA NumbersOrdered ==
  ASSUME NEW S \in SUBSET Int
  PROVE  StrictOrder(S, LessThan(S))
  BY DEF StrictOrder, LessThan

\* Ascending lists a finite set of numbers in increasing order.
LEMMA AscendingLists ==
  ASSUME NEW S \in SUBSET Int, IsFiniteSet(S)
  PROVE  /\ Cardinality(S) \in Nat
         /\ Ascending(S) \in Seq(S)
         /\ Len(Ascending(S)) = Cardinality(S)
         /\ DOMAIN Ascending(S) = 1 .. Cardinality(S)
         /\ \A i \in 1 .. Cardinality(S) : Ascending(S)[i] \in S
         /\ \A x \in S : \E i \in 1 .. Cardinality(S) : Ascending(S)[i] = x
         /\ \A i, j \in 1 .. Cardinality(S) : Ascending(S)[i] < Ascending(S)[j] <=> i < j
  <1>1. StrictOrder(S, LessThan(S))
    BY NumbersOrdered
  <1>2. \A x, y \in S : <<x, y>> \in LessThan(S) <=> x < y
    BY DEF LessThan
  <1>3. /\ Cardinality(S) \in Nat
        /\ Ascending(S) \in Seq(S)
        /\ Len(Ascending(S)) = Cardinality(S)
        /\ DOMAIN Ascending(S) = 1 .. Cardinality(S)
        /\ \A i \in 1 .. Cardinality(S) : Ascending(S)[i] \in S
        /\ \A x \in S : \E i \in 1 .. Cardinality(S) : Ascending(S)[i] = x
        /\ \A i, j \in 1 .. Cardinality(S) :
             <<Ascending(S)[i], Ascending(S)[j]>> \in LessThan(S) <=> i < j
    BY <1>1, Enumerates DEF Ascending
  <1>4. ASSUME NEW i \in 1 .. Cardinality(S), NEW j \in 1 .. Cardinality(S)
        PROVE  Ascending(S)[i] < Ascending(S)[j] <=> i < j
    BY <1>2, <1>3
  <1> QED
    BY <1>3, <1>4

\* A number greater than the others comes last.
LEMMA AscendingAppend ==
  ASSUME NEW S \in SUBSET Int, IsFiniteSet(S), NEW x \in Int, \A y \in S : y < x
  PROVE  Ascending(S \cup {x}) = Append(Ascending(S), x)
  <1> DEFINE T == S \cup {x}
             c == Cardinality(S)
             d == Ascending(S)
             e == Ascending(T)
  <1>1. T \in SUBSET Int /\ x \notin S
    OBVIOUS
  <1>2. IsFiniteSet(T) /\ Cardinality(T) = c + 1 /\ c \in Nat
    BY <1>1, FS_AddElement, FS_CardinalityType
  <1>3. StrictOrder(S, LessThan(S)) /\ StrictOrder(T, LessThan(T))
    BY <1>1, NumbersOrdered
  <1>4. /\ d \in Seq(S) /\ Len(d) = c
        /\ \A i \in 1 .. c : d[i] \in S /\ Cardinality(Below(S, LessThan(S), d[i])) = i - 1
    BY <1>3, Enumerates DEF Ascending
  <1>5. /\ e \in Seq(T) /\ Len(e) = c + 1
        /\ \A i \in 1 .. c + 1 : e[i] \in T /\ Cardinality(Below(T, LessThan(T), e[i])) = i - 1
    <2> HIDE DEF T
    <2>1. /\ e \in Seq(T) /\ Len(e) = Cardinality(T)
          /\ \A i \in 1 .. Cardinality(T) :
               e[i] \in T /\ Cardinality(Below(T, LessThan(T), e[i])) = i - 1
      BY <1>2, <1>3, Enumerates DEF Ascending
    <2> QED
      BY <1>2, <2>1
  <1>6. ASSUME NEW y \in S
        PROVE  Below(T, LessThan(T), y) = Below(S, LessThan(S), y)
    BY <1>1 DEF Below, LessThan
  <1>7. Below(T, LessThan(T), x) = S
    <2>1. \A y \in T : <<y, x>> \in LessThan(T) <=> y < x
      BY DEF LessThan
    <2>2. \A y \in T : y < x <=> y \in S
      OBVIOUS
    <2>3. S \subseteq T
      OBVIOUS
    <2> HIDE DEF T
    <2> QED
      BY <2>1, <2>2, <2>3 DEF Below
  <1>8. \A y, z \in T : Cardinality(Below(T, LessThan(T), y)) = Cardinality(Below(T, LessThan(T), z)) => y = z
    <2> HIDE DEF T
    <2> QED
      BY <1>2, <1>3, RankIsOnto
  <1>9. x \in T /\ \A y \in S : y \in T
    OBVIOUS
  <1> HIDE DEF T, d, e, c
  <1>10. \A i \in 1 .. c : e[i] = d[i]
    <2> SUFFICES ASSUME NEW i \in 1 .. c
                 PROVE  e[i] = d[i]
      OBVIOUS
    <2>1. i \in 1 .. c + 1
      BY <1>2
    <2>3. d[i] \in T
      BY <1>4, <1>9
    <2>2. Cardinality(Below(T, LessThan(T), d[i])) = i - 1
      BY <1>4, <1>6
    <2> QED
      BY <1>5, <1>8, <2>1, <2>2, <2>3
  <1>11. e[c + 1] = x
    <2>1. c + 1 \in 1 .. c + 1 /\ (c + 1) - 1 = c
      BY <1>2
    <2>2. Cardinality(Below(T, LessThan(T), x)) = c
      BY <1>7 DEF c
    <2> QED
      BY <1>5, <1>8, <1>9, <2>1, <2>2
  <1>12. d \in Seq(Int) /\ e \in Seq(Int)
    BY <1>1, <1>4, <1>5, SeqMonotonic
  <1>13. e = Append(d, x)
    <2> DEFINE u == Append(d, x)
    <2>1. u \in Seq(Int) /\ Len(u) = c + 1 /\ u[c + 1] = x /\ \A i \in 1 .. c : u[i] = d[i]
      BY <1>2, <1>4, <1>12
    <2> HIDE DEF u
    <2>2. \A i \in 1 .. c + 1 : u[i] = e[i]
      BY <1>2, <1>10, <1>11, <2>1
    <2>3. u = e
      BY <1>5, <1>12, <2>1, <2>2, SeqEqual
    <2> QED
      BY <2>3 DEF u
  <1> QED
    BY <1>13 DEF d, e, T

\* So does the element of a list at the last place.
LEMMA PickAppend ==
  ASSUME NEW X, NEW s \in Seq(X), NEW P \in SUBSET DOMAIN s, NEW i \in DOMAIN s, \A j \in P : j < i
  PROVE  Pick(s, P \cup {i}) = Append(Pick(s, P), s[i])
  <1> DEFINE d == Ascending(P)
             e == Ascending(P \cup {i})
             c == Cardinality(P)
  <1>1. DOMAIN s = 1 .. Len(s) /\ Len(s) \in Nat
    OBVIOUS
  <1>2. P \in SUBSET Int /\ i \in Int /\ IsFiniteSet(P)
    <2>1. IsFiniteSet(1 .. Len(s))
      BY <1>1, FS_Interval
    <2>2. P \in SUBSET (1 .. Len(s)) /\ i \in 1 .. Len(s)
      BY <1>1
    <2>3. IsFiniteSet(P)
      BY <2>1, <2>2, FS_Subset
    <2> QED
      BY <2>2, <2>3
  <1>3. e = Append(d, i)
    BY <1>2, AscendingAppend
  <1>4. d \in Seq(P) /\ Len(d) = c /\ DOMAIN d = 1 .. c /\ c \in Nat /\ \A j \in 1 .. c : d[j] \in P
    BY <1>2, AscendingLists
  <1> HIDE DEF d, c
  <1>5. d \in Seq(Int)
    BY <1>2, <1>4, SeqMonotonic
  <1>6. DOMAIN e = 1 .. c + 1 /\ e[c + 1] = i /\ \A j \in 1 .. c : e[j] = d[j]
    <2> HIDE DEF e
    <2> QED
      BY <1>2, <1>3, <1>4, <1>5
  <1> HIDE DEF e
  <1>7. Pick(s, P) = [j \in 1 .. c |-> s[d[j]]]
    BY <1>4 DEF Pick, d
  <1>8. Pick(s, P \cup {i}) = [j \in 1 .. c + 1 |-> s[e[j]]]
    BY <1>6 DEF Pick, e
  <1>9. \A j \in 1 .. c : s[d[j]] \in X
    BY <1>4
  <1> DEFINE u == Pick(s, P)
             v == Pick(s, P \cup {i})
             w == Append(u, s[i])
  <1> HIDE DEF u, v
  <1>10. u \in Seq(X) /\ Len(u) = c /\ \A j \in 1 .. c : u[j] = s[d[j]]
    <2>1. u \in [1 .. c -> X]
      BY <1>7, <1>9 DEF u
    <2> QED
      BY <1>4, <1>7, <2>1 DEF u
  <1>11. w \in Seq(X) /\ Len(w) = c + 1 /\ w[c + 1] = s[i] /\ \A j \in 1 .. c : w[j] = s[d[j]]
    BY <1>4, <1>10
  <1>12. \A j \in 1 .. c + 1 : v[j] = s[e[j]]
    BY <1>8 DEF v
  <1> HIDE DEF w
  <1>13. \A j \in 1 .. c + 1 : v[j] = w[j]
    <2> SUFFICES ASSUME NEW j \in 1 .. c + 1
                 PROVE  v[j] = w[j]
      OBVIOUS
    <2>1. j \in 1 .. c \/ j = c + 1
      BY <1>4
    <2> QED
      BY <1>6, <1>11, <1>12, <2>1
  <1>14. v = w
    <2>1. v = [j \in 1 .. c + 1 |-> v[j]] /\ DOMAIN v = 1 .. c + 1
      BY <1>8 DEF v
    <2>2. v \in [1 .. c + 1 -> X]
      BY <1>1, <1>11, <1>13, <2>1
    <2>3. v \in Seq(X) /\ Len(v) = c + 1
      BY <1>4, <2>2
    <2> QED
      BY <1>11, <1>13, <2>3, SeqEqual
  <1> QED
    BY <1>14 DEF u, v, w

-----------------------------------------------------------------------------
(* Loops that run for a known number of iterations.                        *)

\* What holds at the start and is handed from each iteration to the next holds
\* after every one: P are the numbers of iterations after which it does.
LEMMA EveryIteration ==
  ASSUME NEW n \in Nat, NEW P, 0 \in P, \A k \in 1 .. n : k - 1 \in P => k \in P
  PROVE  \A k \in 0 .. n : k \in P
  <1> DEFINE B == {k \in 0 .. n : k \notin P}
  <1> SUFFICES ASSUME B # {}
               PROVE  FALSE
    OBVIOUS
  <1>1. B \subseteq Nat
    OBVIOUS
  <1>2. PICK k \in B : \A j \in B : <<j, k>> \notin OpToRel(<, Nat)
    <2> HIDE DEF B
    <2> QED
      BY <1>1, NatLessThanWellFounded, WFMin
  <1>3. k \in 1 .. n /\ k - 1 \in 0 .. n /\ k - 1 < k
    OBVIOUS
  <1>4. k - 1 \notin P
    BY <1>3
  <1>5. k - 1 \in B /\ k - 1 \in Nat /\ k \in Nat
    BY <1>3, <1>4
  <1> QED
    BY <1>2, <1>3, <1>5 DEF OpToRel

\* The k-th of n iterations takes a state s in S to step[k][s].
Bodies(n, S) == [1 .. n -> [S -> S]]

\* The states after each of n such iterations, from a on.
Passes(n, S, a, step) ==
  {f \in [0 .. n -> S] : f[0] = a /\ \A k \in 1 .. n : f[k] = step[k][f[k - 1]]}

LEMMA LoopRuns ==
  ASSUME NEW n \in Nat, NEW S, NEW a \in S, NEW step \in Bodies(n, S)
  PROVE  \E f : f \in Passes(n, S, a, step)
  <1> USE DEF Bodies
  <1> DEFINE Runs(k, f) == f[0] = a /\ \A i \in 1 .. k : f[i] = step[i][f[i - 1]]
             P == {k \in 0 .. n : \E f \in [0 .. k -> S] : Runs(k, f)}
  <1>1. 0 \in P
    <2>1. [i \in 0 .. 0 |-> a] \in [0 .. 0 -> S] /\ Runs(0, [i \in 0 .. 0 |-> a])
      OBVIOUS
    <2>2. 0 \in 0 .. n
      OBVIOUS
    <2> QED
      BY <2>1, <2>2, Zenon
  <1>2. ASSUME NEW k \in 1 .. n, k - 1 \in P
        PROVE  k \in P
    <2>1. PICK f \in [0 .. k - 1 -> S] : Runs(k - 1, f)
      BY <1>2
    <2> DEFINE g == [i \in 0 .. k |-> IF i = k THEN step[k][f[k - 1]] ELSE f[i]]
    <2>2. /\ k - 1 \in 0 .. k - 1 /\ k \in 0 .. n
          /\ \A i \in 0 .. k : i # k => i \in 0 .. k - 1
      OBVIOUS
    <2>3. g \in [0 .. k -> S]
      BY <2>2
    <2>4. g[0] = a
      BY <2>1, <2>2
    <2>5. ASSUME NEW i \in 1 .. k
          PROVE  g[i] = step[i][g[i - 1]]
      <3>1. i \in 0 .. k /\ i - 1 \in 0 .. k /\ i - 1 # k
        OBVIOUS
      <3>2. CASE i = k
        BY <3>1, <3>2
      <3>3. CASE i # k
        <4>1. i \in 1 .. k - 1
          BY <3>3
        <4>2. f[i] = step[i][f[i - 1]]
          BY <2>1, <4>1
        <4> QED
          BY <3>1, <3>3, <4>2
      <3> QED
        BY <3>2, <3>3
    <2> HIDE DEF g
    <2>6. Runs(k, g)
      BY <2>4, <2>5
    <2> QED
      BY <2>2, <2>3, <2>6
  <1> HIDE DEF P
  <1>3. n \in P
    <2>1. \A k \in 0 .. n : k \in P
      BY <1>1, <1>2, EveryIteration
    <2> QED
      BY <2>1
  <1> QED
    BY <1>3 DEF P, Passes

=============================================================================
