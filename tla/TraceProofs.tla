----------------------------- MODULE TraceProofs -----------------------------
(***************************************************************************)
(* Proofs about the SchedulerTrace: what the write-ahead trace of a run     *)
(* shows, whole or cut anywhere, and how much work it can hold; and about   *)
(* SchedulerLoops: that the turns it is made of are what the loops of Run   *)
(* do.                                                                      *)
(***************************************************************************)
EXTENDS SchedulerTrace, SchedulerLoops, SchedulerProofs, EnumerationProofs

-----------------------------------------------------------------------------
(* The last write wins.                                                    *)

\* i is the place of n's last entry among the first k.
IsLast(l, k, n, i) == l[i].node = n /\ \A j \in i + 1 .. k : l[j].node # n

NoEntry(l, k, n) == \A j \in 1 .. k : l[j].node # n

\* A node's last entry says where it is.
LEMMA AfterLast ==
  ASSUME NEW f, NEW l, NEW k \in Nat, NEW n \in Node, NEW i \in 1 .. k, l[i].node = n,
         \A j \in i + 1 .. k : l[j].node # n
  PROVE  After(f, l, k)[n] = l[i].to
  <1> DEFINE mine == {j \in 1 .. k : l[j].node = n}
  <1>1. i \in mine /\ mine # {}
    OBVIOUS
  <1>2. \A j \in mine : j <= i
    BY SMT
  <1>3. \A h \in mine : (\A j \in mine : j <= h) => h = i
    <2>1. mine \subseteq Int
      OBVIOUS
    <2> HIDE DEF mine
    <2> QED
      BY <1>1, <1>2, <2>1
  <1>4. (CHOOSE h \in mine : \A j \in mine : j <= h) = i
    <2> HIDE DEF mine
    <2> QED
      BY <1>1, <1>2, <1>3
  <1>5. After(f, l, k)[n] = IF mine = {} THEN f[n] ELSE l[CHOOSE h \in mine : \A j \in mine : j <= h].to
    BY DEF After
  <1> HIDE DEF mine
  <1> QED
    BY <1>1, <1>4, <1>5

\* A node without an entry is where it was.
LEMMA AfterNone ==
  ASSUME NEW f, NEW l, NEW k \in Nat, NEW n \in Node, \A j \in 1 .. k : l[j].node # n
  PROVE  After(f, l, k)[n] = f[n]
  BY DEF After

\* A non-empty set of numbers up to k has a greatest member.
LEMMA GreatestMember ==
  ASSUME NEW k \in Nat, NEW S \in SUBSET (1 .. k), S # {}
  PROVE  \E i \in S : \A j \in S : j <= i
  <1> DEFINE T == {k - i : i \in S}
  <1>1. T \in SUBSET Nat /\ T # {}
    <2>1. \A i \in S : k - i \in Nat
      OBVIOUS
    <2>2. PICK i \in S : TRUE
      OBVIOUS
    <2>3. k - i \in T
      BY <2>2
    <2> QED
      BY <2>1, <2>3
  <1>2. PICK x \in T : \A y \in T : <<y, x>> \notin OpToRel(<, Nat)
    <2> HIDE DEF T
    <2> QED
      BY <1>1, NatLessThanWellFounded, WFMin
  <1>3. PICK i \in S : x = k - i
    OBVIOUS
  <1>4. ASSUME NEW j \in S
        PROVE  j <= i
    <2>1. k - j \in T /\ k - j \in Nat /\ x \in Nat
      BY <1>1
    <2>2. ~(k - j < x)
      BY <1>2, <2>1 DEF OpToRel
    <2> QED
      BY <1>3, <2>2
  <1> QED
    BY <1>4

\* A node either has no entry among the first k or has a last one there.
LEMMA LastEntry ==
  ASSUME NEW l, NEW k \in Nat, NEW n
  PROVE  NoEntry(l, k, n) \/ \E i \in 1 .. k : IsLast(l, k, n, i)
  <1> DEFINE S == {j \in 1 .. k : l[j].node = n}
  <1> SUFFICES ASSUME S # {}
               PROVE  \E i \in 1 .. k : IsLast(l, k, n, i)
    BY DEF NoEntry
  <1>1. PICK i \in S : \A j \in S : j <= i
    BY GreatestMember
  <1>2. \A j \in i + 1 .. k : j \in 1 .. k /\ ~(j <= i)
    OBVIOUS
  <1> QED
    BY <1>1, <1>2 DEF IsLast

\* Entries that agree lead to the same states.
LEMMA AfterSame ==
  ASSUME NEW f, NEW l, NEW m, NEW k \in Nat, \A i \in 1 .. k : l[i] = m[i]
  PROVE  After(f, l, k) = After(f, m, k)
  <1>1. ASSUME NEW n \in Node
        PROVE  After(f, l, k)[n] = After(f, m, k)[n]
    <2>1. CASE NoEntry(l, k, n)
      BY <2>1, AfterNone DEF NoEntry
    <2>2. CASE \E i \in 1 .. k : IsLast(l, k, n, i)
      <3>1. PICK i \in 1 .. k : l[i].node = n /\ \A j \in i + 1 .. k : l[j].node # n
        BY <2>2 DEF IsLast
      <3>2. \A j \in i + 1 .. k : l[j] = m[j]
        OBVIOUS
      <3>3. m[i].node = n /\ \A j \in i + 1 .. k : m[j].node # n
        BY <3>1, <3>2
      <3>4. After(f, l, k)[n] = l[i].to
        BY <3>1, AfterLast
      <3>5. After(f, m, k)[n] = m[i].to
        BY <3>3, AfterLast
      <3> QED
        BY <3>4, <3>5
    <2>3. NoEntry(l, k, n) \/ \E i \in 1 .. k : IsLast(l, k, n, i)
      BY LastEntry
    <2> QED
      BY <2>1, <2>2, <2>3
  <1> QED
    BY <1>1 DEF After

\* No entry, no change.
LEMMA AfterNothing ==
  ASSUME NEW X, NEW f \in [Node -> X], NEW l
  PROVE  After(f, l, 0) = f
  <1>1. \A n \in Node : After(f, l, 0)[n] = f[n]
    BY AfterNone
  <1> QED
    BY <1>1 DEF After

\* Reading one log after another.
LEMMA AfterConcat ==
  ASSUME NEW f, NEW a \in Seq(LogEntry), NEW b \in Seq(LogEntry), NEW k \in 0 .. Len(b)
  PROVE  After(f, a \o b, Len(a) + k) = After(After(f, a, Len(a)), b, k)
  <1> DEFINE c == a \o b
             g == After(f, a, Len(a))
             L == Len(a)
  <1>1. L \in Nat /\ k \in Nat /\ Len(b) \in Nat
    OBVIOUS
  <1>2. /\ \A i \in 1 .. L : c[i] = a[i]
        /\ \A j \in 1 .. k : c[L + j] = b[j]
    OBVIOUS
  <1>3. \A i \in 1 .. L + k : i \in 1 .. L \/ i - L \in 1 .. k
    BY <1>1
  <1>4. \A j \in 1 .. k : L + j \in 1 .. L + k
    BY <1>1
  <1> HIDE DEF c, L
  <1>5. ASSUME NEW n \in Node
        PROVE  After(f, c, L + k)[n] = After(g, b, k)[n]
    <2>1. CASE \E i \in 1 .. k : IsLast(b, k, n, i)
      <3>1. PICK i \in 1 .. k : b[i].node = n /\ \A j \in i + 1 .. k : b[j].node # n
        BY <2>1 DEF IsLast
      <3>2. After(g, b, k)[n] = b[i].to
        BY <1>1, <3>1, AfterLast
      <3>3. L + i \in 1 .. L + k /\ c[L + i] = b[i]
        BY <1>2, <1>4
      <3>4. ASSUME NEW j \in L + i + 1 .. L + k
            PROVE  c[j].node # n
        <4>1. j - L \in i + 1 .. k /\ j - L \in 1 .. k /\ j = L + (j - L)
          BY <1>1
        <4> QED
          BY <1>2, <3>1, <4>1
      <3>5. After(f, c, L + k)[n] = c[L + i].to
        BY <1>1, <3>1, <3>3, <3>4, AfterLast
      <3> QED
        BY <3>2, <3>3, <3>5
    <2>2. CASE NoEntry(b, k, n)
      <3>1. After(g, b, k)[n] = g[n]
        BY <1>1, <2>2, AfterNone DEF NoEntry
      <3>2. \A j \in 1 .. L + k : j > L => c[j].node # n
        <4> SUFFICES ASSUME NEW j \in 1 .. L + k, j > L
                     PROVE  c[j].node # n
          OBVIOUS
        <4>1. j - L \in 1 .. k /\ j = L + (j - L)
          BY <1>1
        <4> QED
          BY <1>2, <2>2, <4>1 DEF NoEntry
      <3>3. CASE NoEntry(a, L, n)
        <4>1. \A j \in 1 .. L + k : c[j].node # n
          BY <1>1, <1>2, <3>2, <3>3 DEF NoEntry
        <4>2. After(f, c, L + k)[n] = f[n]
          BY <1>1, <4>1, AfterNone
        <4>3. g[n] = f[n]
          BY <1>1, <3>3, AfterNone DEF L, NoEntry
        <4> QED
          BY <3>1, <4>2, <4>3
      <3>4. CASE \E i \in 1 .. L : IsLast(a, L, n, i)
        <4>1. PICK i \in 1 .. L : a[i].node = n /\ \A j \in i + 1 .. L : a[j].node # n
          BY <3>4 DEF IsLast
        <4>2. i \in 1 .. L + k /\ c[i] = a[i]
          BY <1>1, <1>2
        <4>3. ASSUME NEW j \in i + 1 .. L + k
              PROVE  c[j].node # n
          <5>1. CASE j > L
            BY <1>1, <3>2, <5>1
          <5>2. CASE j \in i + 1 .. L
            <6>1. j \in 1 .. L
              BY <1>1, <5>2
            <6> QED
              BY <1>2, <4>1, <5>2, <6>1
          <5> QED
            BY <1>1, <5>1, <5>2
        <4>4. After(f, c, L + k)[n] = a[i].to
          BY <1>1, <4>1, <4>2, <4>3, AfterLast
        <4>5. g[n] = a[i].to
          BY <1>1, <4>1, AfterLast DEF L
        <4> QED
          BY <3>1, <4>4, <4>5
      <3>5. NoEntry(a, L, n) \/ \E i \in 1 .. L : IsLast(a, L, n, i)
        BY <1>1, LastEntry
      <3> QED
        BY <3>3, <3>4, <3>5
    <2>3. NoEntry(b, k, n) \/ \E i \in 1 .. k : IsLast(b, k, n, i)
      BY <1>1, LastEntry
    <2> QED
      BY <2>1, <2>2, <2>3
  <1> QED
    BY <1>5 DEF After, c, L

-----------------------------------------------------------------------------
(* Logs that lead from one assignment of node states to another.           *)

\* One such log after another is one.
LEMMA LeadsOn ==
  ASSUME NEW p, NEW f, NEW a, NEW t, NEW b, NEW u,
         Leads(p, f, a, t), Leads(p, t, b, u)
  PROVE  Leads(p, f, a \o b, u)
  <1> DEFINE c == a \o b
  <1>1. a \in Seq(LogEntry) /\ b \in Seq(LogEntry) /\ t = After(f, a, Len(a))
    BY DEF Leads
  <1>2. /\ c \in Seq(LogEntry) /\ Len(c) = Len(a) + Len(b)
        /\ Len(a) \in Nat /\ Len(b) \in Nat
        /\ \A i \in 1 .. Len(a) : c[i] = a[i]
        /\ \A j \in 1 .. Len(b) : c[Len(a) + j] = b[j]
    BY <1>1
  <1>3. ASSUME NEW k \in 0 .. Len(a)
        PROVE  After(f, c, k) = After(f, a, k)
    <2>1. k \in Nat /\ \A i \in 1 .. k : c[i] = a[i]
      BY <1>2
    <2> QED
      BY <2>1, AfterSame
  <1>4. ASSUME NEW k \in 0 .. Len(b)
        PROVE  After(f, c, Len(a) + k) = After(t, b, k)
    BY <1>1, AfterConcat
  <1>5. \A k \in 0 .. Len(a) + Len(b) : k \in 0 .. Len(a) \/ (k - Len(a) \in 0 .. Len(b) /\ k = Len(a) + (k - Len(a)))
    BY <1>2
  <1> HIDE DEF c
  <1>6. After(f, c, Len(c)) = u
    <2>1. Len(b) \in 0 .. Len(b)
      BY <1>2
    <2> QED
      BY <1>2, <1>4, <2>1 DEF Leads
  <1>7. ASSUME NEW i \in DOMAIN c
        PROVE  c[i].from = After(f, c, i - 1)[c[i].node]
    <2>1. i \in 1 .. Len(a) + Len(b)
      BY <1>2
    <2>2. CASE i \in 1 .. Len(a)
      <3>1. i - 1 \in 0 .. Len(a) /\ i \in DOMAIN a
        BY <1>1, <1>2, <2>2
      <3>2. a[i].from = After(f, a, i - 1)[a[i].node]
        BY <3>1 DEF Leads
      <3> QED
        BY <1>2, <1>3, <2>2, <3>1, <3>2
    <2>3. CASE i \in Len(a) + 1 .. Len(a) + Len(b)
      <3> DEFINE j == i - Len(a)
      <3>1. j \in 1 .. Len(b) /\ j - 1 \in 0 .. Len(b) /\ i = Len(a) + j /\ i - 1 = Len(a) + (j - 1)
        <4>1. Len(a) \in Nat /\ Len(b) \in Nat /\ i \in Int /\ i >= Len(a) + 1 /\ i <= Len(a) + Len(b)
          BY <1>2, <2>3
        <4> QED
          BY <4>1
      <3>2. j \in DOMAIN b
        BY <1>1, <3>1
      <3>3. b[j].from = After(t, b, j - 1)[b[j].node]
        BY <3>2 DEF Leads
      <3>4. c[i] = b[j]
        BY <1>2, <3>1
      <3>5. After(f, c, i - 1) = After(t, b, j - 1)
        BY <1>4, <3>1
      <3> QED
        BY <3>3, <3>4, <3>5
    <2> QED
      BY <1>2, <2>1, <2>2, <2>3
  <1>8. ASSUME NEW k \in 0 .. Len(c)
        PROVE  CoherentCut(p, After(f, c, k))
    <2>1. CASE k \in 0 .. Len(a)
      <3>1. CoherentCut(p, After(f, a, k))
        BY <2>1 DEF Leads
      <3> QED
        BY <1>3, <2>1, <3>1
    <2>2. CASE k - Len(a) \in 0 .. Len(b) /\ k = Len(a) + (k - Len(a))
      <3>1. CoherentCut(p, After(t, b, k - Len(a)))
        BY <2>2 DEF Leads
      <3>2. After(f, c, k) = After(t, b, k - Len(a))
        BY <1>4, <2>2
      <3> QED
        BY <3>1, <3>2
    <2> QED
      BY <1>2, <1>5, <2>1, <2>2
  <1> QED
    BY <1>2, <1>6, <1>7, <1>8 DEF Leads, c

\* Nothing logged, nothing changed.
LEMMA LeadsNowhere ==
  ASSUME NEW p, NEW X, NEW f \in [Node -> X], CoherentCut(p, f)
  PROVE  Leads(p, f, <<>>, f)
  <1>1. After(f, <<>>, 0) = f
    BY AfterNothing
  <1>2. \A k \in 0 .. 0 : After(f, <<>>, k) = f
    BY <1>1
  <1> QED
    BY <1>1, <1>2 DEF Leads

\* The states between f and t in which the nodes of A have moved.
Mixed(f, t, A) == [n \in Node |-> IF n \in A THEN t[n] ELSE f[n]]

\* The moves of a list of distinct nodes lead through the states in which the
\* first of them have moved.
LEMMA MovesLead ==
  ASSUME NEW p, NEW f \in [Node -> LoggedState], NEW t \in [Node -> LoggedState],
         NEW s \in Seq(Node), \A i, j \in 1 .. Len(s) : s[i] = s[j] => i = j,
         \A n \in Node : f[n] # t[n] => \E i \in 1 .. Len(s) : s[i] = n,
         \A k \in 0 .. Len(s) : CoherentCut(p, Mixed(f, t, {s[i] : i \in 1 .. k}))
  PROVE  Leads(p, f, Moves(s, f, t), t)
  <1> DEFINE l == Moves(s, f, t)
  <1>1. Len(s) \in Nat /\ DOMAIN s = 1 .. Len(s) /\ \A i \in 1 .. Len(s) : s[i] \in Node
    OBVIOUS
  <1>2. l = [i \in 1 .. Len(s) |-> Entry(s[i], f[s[i]], t[s[i]])]
    BY <1>1 DEF Moves
  <1>3. \A i \in 1 .. Len(s) : Entry(s[i], f[s[i]], t[s[i]]) \in LogEntry
    BY <1>1 DEF Entry, LogEntry
  <1>4. l \in Seq(LogEntry) /\ Len(l) = Len(s) /\ DOMAIN l = 1 .. Len(s)
    <2>1. l \in [1 .. Len(s) -> LogEntry]
      BY <1>2, <1>3
    <2> HIDE DEF l
    <2> QED
      BY <1>1, <2>1
  <1>5. \A i \in 1 .. Len(s) : l[i].node = s[i] /\ l[i].from = f[s[i]] /\ l[i].to = t[s[i]]
    BY <1>2 DEF Entry
  <1> HIDE DEF l
  <1>6. ASSUME NEW k \in 0 .. Len(s)
        PROVE  After(f, l, k) = Mixed(f, t, {s[i] : i \in 1 .. k})
    <2> DEFINE A == {s[i] : i \in 1 .. k}
    <2>1. k \in Nat /\ \A i \in 1 .. k : i \in 1 .. Len(s)
      BY <1>1
    <2>2. ASSUME NEW n \in Node
          PROVE  After(f, l, k)[n] = Mixed(f, t, A)[n]
      <3>1. CASE n \in A
        <4>1. PICK i \in 1 .. k : s[i] = n
          BY <3>1
        <4>2. \A j \in i + 1 .. k : j \in 1 .. Len(s) /\ j # i
          BY <1>1
        <4>3. l[i].node = n /\ \A j \in i + 1 .. k : l[j].node # n
          BY <1>5, <2>1, <4>1, <4>2
        <4>4. After(f, l, k)[n] = l[i].to
          BY <2>1, <4>3, AfterLast
        <4> QED
          BY <1>5, <2>1, <3>1, <4>1, <4>4 DEF Mixed
      <3>2. CASE n \notin A
        <4>1. \A j \in 1 .. k : l[j].node # n
          BY <1>5, <2>1, <3>2
        <4>2. After(f, l, k)[n] = f[n]
          BY <2>1, <4>1, AfterNone
        <4> QED
          BY <3>2, <4>2 DEF Mixed
      <3> QED
        BY <3>1, <3>2
    <2> HIDE DEF A
    <2>3. /\ After(f, l, k) = [n \in Node |-> After(f, l, k)[n]]
          /\ Mixed(f, t, A) = [n \in Node |-> Mixed(f, t, A)[n]]
      BY DEF After, Mixed
    <2>4. After(f, l, k) = Mixed(f, t, A)
      BY <2>2, <2>3
    <2> QED
      BY <2>4 DEF A
  <1>7. After(f, l, Len(l)) = t
    <2>1. Len(s) \in 0 .. Len(s)
      BY <1>1
    <2>2. \A n \in Node : Mixed(f, t, {s[i] : i \in 1 .. Len(s)})[n] = t[n]
      BY DEF Mixed
    <2>3. Mixed(f, t, {s[i] : i \in 1 .. Len(s)}) = t
      BY <2>2 DEF Mixed
    <2> QED
      BY <1>4, <1>6, <2>1, <2>3
  <1>8. ASSUME NEW i \in DOMAIN l
        PROVE  l[i].from = After(f, l, i - 1)[l[i].node]
    <2>1. i \in 1 .. Len(s) /\ i - 1 \in 0 .. Len(s) /\ \A j \in 1 .. i - 1 : j \in 1 .. Len(s) /\ j # i
      BY <1>1, <1>4
    <2>2. s[i] \notin {s[j] : j \in 1 .. i - 1}
      BY <2>1
    <2> QED
      BY <1>1, <1>5, <1>6, <2>1, <2>2 DEF Mixed
  <1>9. ASSUME NEW k \in 0 .. Len(l)
        PROVE  CoherentCut(p, After(f, l, k))
    <2>1. CoherentCut(p, Mixed(f, t, {s[i] : i \in 1 .. k}))
      BY <1>4
    <2>2. After(f, l, k) = Mixed(f, t, {s[i] : i \in 1 .. k})
      BY <1>4, <1>6
    <2> QED
      BY <2>1, <2>2
  <1> QED
    BY <1>4, <1>7, <1>8, <1>9 DEF Leads, l

\* So do the moves of a scan of the nodes in plan order.
LEMMA ScanLeads ==
  ASSUME NEW p, NEW f \in [Node -> LoggedState], NEW t \in [Node -> LoggedState],
         \A A \in SUBSET {n \in Node : f[n] # t[n]} : CoherentCut(p, Mixed(f, t, A))
  PROVE  Leads(p, f, Scan(f, t), t)
  <1> DEFINE D == {n \in Node : f[n] # t[n]}
             s == Ascending(D)
  <1>1. D \in SUBSET Int /\ D \in SUBSET Node
    BY NAssumption DEF Node
  <1>2. IsFiniteSet(D)
    BY <1>1, NodesFinite
  <1>3. /\ Cardinality(D) \in Nat
        /\ s \in Seq(D)
        /\ Len(s) = Cardinality(D)
        /\ \A i \in 1 .. Cardinality(D) : s[i] \in D
        /\ \A x \in D : \E i \in 1 .. Cardinality(D) : s[i] = x
        /\ \A i, j \in 1 .. Cardinality(D) : s[i] < s[j] <=> i < j
    <2> HIDE DEF D
    <2> QED
      BY <1>1, <1>2, AscendingLists
  <1> HIDE DEF s
  <1>4. s \in Seq(Node)
    BY <1>1, <1>3, SeqMonotonic
  <1>5. \A i, j \in 1 .. Len(s) : s[i] = s[j] => i = j
    <2> SUFFICES ASSUME NEW i \in 1 .. Len(s), NEW j \in 1 .. Len(s), s[i] = s[j]
                 PROVE  i = j
      OBVIOUS
    <2>1. ~(s[i] < s[j]) /\ ~(s[j] < s[i])
      <3>1. s[i] \in Int
        BY <1>1, <1>3
      <3> QED
        BY <3>1
    <2> QED
      BY <1>3, <2>1
  <1>6. \A n \in Node : f[n] # t[n] => \E i \in 1 .. Len(s) : s[i] = n
    BY <1>3
  <1>7. ASSUME NEW k \in 0 .. Len(s)
        PROVE  CoherentCut(p, Mixed(f, t, {s[i] : i \in 1 .. k}))
    <2>1. {s[i] : i \in 1 .. k} \in SUBSET D
      BY <1>3
    <2> QED
      BY <2>1
  <1>8. Leads(p, f, Moves(s, f, t), t)
    BY <1>4, <1>5, <1>6, <1>7, MovesLead
  <1> QED
    BY <1>8 DEF Scan, s

\* One entry.
LEMMA EntryLeads ==
  ASSUME NEW p, NEW f \in [Node -> LoggedState], NEW n \in Node, NEW x \in LoggedState,
         CoherentCut(p, f), CoherentCut(p, [f EXCEPT ![n] = x])
  PROVE  Leads(p, f, <<Entry(n, f[n], x)>>, [f EXCEPT ![n] = x])
  <1> DEFINE t == [f EXCEPT ![n] = x]
             l == <<Entry(n, f[n], x)>>
  <1>1. l \in Seq(LogEntry) /\ Len(l) = 1 /\ DOMAIN l = {1}
    BY DEF Entry, LogEntry
  <1>2. l[1].node = n /\ l[1].from = f[n] /\ l[1].to = x
    BY DEF Entry
  <1> HIDE DEF l
  <1>3. After(f, l, 0) = f
    BY AfterNothing
  <1>4. After(f, l, 1) = t
    <2>1. After(f, l, 1)[n] = x
      BY <1>2, AfterLast
    <2>2. \A m \in Node \ {n} : After(f, l, 1)[m] = f[m]
      BY <1>2, AfterNone
    <2>3. \A m \in Node : After(f, l, 1)[m] = t[m]
      BY <2>1, <2>2
    <2>4. After(f, l, 1) = [m \in Node |-> After(f, l, 1)[m]]
      BY DEF After
    <2>5. t = [m \in Node |-> t[m]]
      OBVIOUS
    <2> HIDE DEF t
    <2> QED
      BY <2>3, <2>4, <2>5
  <1> QED
    BY <1>1, <1>2, <1>3, <1>4 DEF Leads, l

-----------------------------------------------------------------------------
(* What a turn logs leaves a coherent state after every entry.             *)

\* Of two running nodes, neither is destructive.
LoneRunning(p, st) ==
  \A d, n \in Node : IsDestructive(p, d) /\ st[d] = "running" /\ st[n] = "running" => n = d

\* The join of n is met for good.
Honoured(p, st, n) ==
  /\ p.join[n] = "all_of" => \A m \in Preds(p, n) : st[m] = "executed"
  /\ p.join[n] = "any_of" => Satisfied(p, st, n)

\* Running nodes have workers, of which a destructive one is alone.
LEMMA StaffedRunsAlone ==
  ASSUME NEW p, NEW st, NEW busy, Staffed(st, busy), Lone(p, busy)
  PROVE  LoneRunning(p, st)
  BY DEF Staffed, Lone, LoneRunning

\* The invariant's parts exclude what a coherent cut excludes.
LEMMA JustifiedCut ==
  ASSUME NEW p, NEW st, Joined(p, st), Justified(p, st), LoneRunning(p, st)
  PROVE  CoherentCut(p, st)
  <1> SUFFICES ASSUME NEW n \in Node
               PROVE  /\ st[n] \notin {"pending", "skipped"} /\ p.join[n] = "all_of" =>
                           \A m \in Preds(p, n) : st[m] = "executed"
                      /\ st[n] \notin {"pending", "skipped"} /\ p.join[n] = "any_of" => Satisfied(p, st, n)
                      /\ st[n] = "running" /\ IsDestructive(p, n) => \A m \in Node \ {n} : st[m] # "running"
                      /\ st[n] = "skipped" => ~StillNeeded(p, st, n)
    BY DEF CoherentCut
  <1>1. st[n] = "skipped" => ~StillNeeded(p, st, n)
    BY DEF Justified, StillNeeded, IsTerminal, TerminalState
  <1> QED
    BY <1>1 DEF Joined, LoneRunning

\* Node states g that executed no less than f, skipped the same nodes and moved
\* past pending only nodes whose joins are met, are as coherent as f.
LEMMA CutKept ==
  ASSUME NEW p, NEW f, NEW g, Joined(p, f), Justified(p, f), LoneRunning(p, g),
         \A n \in Node : f[n] = "executed" => g[n] = "executed",
         \A n \in Node : g[n] = "skipped" <=> f[n] = "skipped",
         \A n \in Node : g[n] \notin {"pending", "skipped"} =>
           f[n] \notin {"pending", "skipped"} \/ Honoured(p, f, n)
  PROVE  CoherentCut(p, g)
  <1>1. \A n \in Node : Satisfied(p, f, n) => Satisfied(p, g, n)
    BY DEF Satisfied, Preds
  <1>2. Joined(p, g)
    <2> SUFFICES ASSUME NEW n \in Node, g[n] \notin {"pending", "skipped"}
                 PROVE  Honoured(p, g, n)
      BY DEF Joined, Honoured
    <2>1. Honoured(p, f, n)
      BY DEF Joined, Honoured
    <2>2. \A m \in Preds(p, n) : m \in Node
      BY DEF Preds
    <2> QED
      BY <1>1, <2>1, <2>2 DEF Honoured
  <1>3. Justified(p, g)
    <2> SUFFICES ASSUME NEW n \in Node, g[n] = "skipped"
                 PROVE  /\ IsCandidate(p, n)
                        /\ \A j \in Succs(p, n) : /\ p.join[j] = "any_of" => Satisfied(p, g, j)
                                                  /\ p.join[j] = "all_of" => g[j] = "skipped"
      BY DEF Justified
    <2>1. f[n] = "skipped" /\ \A j \in Succs(p, n) : j \in Node
      BY DEF Succs
    <2> QED
      BY <1>1, <2>1 DEF Justified
  <1> QED
    BY <1>2, <1>3, JustifiedCut

\* promotePending, cut anywhere.
LEMMA PromotionLeads ==
  ASSUME NEW p \in PlanType, Accepted(p), NEW st \in [Node -> NodeState],
         NEW att, NEW fl, NEW busy, NEW given, NEW told,
         Coherent(p, st, att, fl, busy, given, told)
  PROVE  Leads(p, st, Scan(st, Promote(p, st)), Promote(p, st))
  <1> DEFINE up == Promote(p, st)
  <1>1. /\ up \in [Node -> NodeState]
        /\ \A n \in Node : up[n] = st[n] \/ (st[n] = "pending" /\ up[n] = "ready" /\ DepsSatisfied(p, st, n))
    BY PromoteEffect
  <1>2. Joined(p, st) /\ Justified(p, st) /\ LoneRunning(p, st)
    BY StaffedRunsAlone DEF Coherent
  <1>3. st \in [Node -> LoggedState] /\ up \in [Node -> LoggedState]
    BY <1>1 DEF LoggedState
  <1> HIDE DEF up
  <1>4. ASSUME NEW A \in SUBSET {n \in Node : st[n] # up[n]}
        PROVE  CoherentCut(p, Mixed(st, up, A))
    <2> DEFINE g == Mixed(st, up, A)
    <2>1. \A n \in Node :
            g[n] = st[n] \/ (st[n] = "pending" /\ g[n] = "ready" /\ DepsSatisfied(p, st, n))
      BY <1>1 DEF Mixed
    <2> HIDE DEF g
    <2>2. LoneRunning(p, g)
      BY <1>2, <2>1 DEF LoneRunning
    <2>3. ASSUME NEW n \in Node, g[n] # st[n]
          PROVE  Honoured(p, st, n)
      <3>1. st[n] # "skipped" /\ DepsSatisfied(p, st, n)
        BY <2>1, <2>3
      <3> QED
        BY <1>2, <3>1, MetJoinIsHonoured DEF Honoured
    <2>4. \A n \in Node : g[n] \notin {"pending", "skipped"} =>
            st[n] \notin {"pending", "skipped"} \/ Honoured(p, st, n)
      BY <2>3
    <2>5. \A n \in Node : (st[n] = "executed" => g[n] = "executed") /\ (g[n] = "skipped" <=> st[n] = "skipped")
      BY <2>1
    <2>6. CoherentCut(p, g)
      BY <1>2, <2>2, <2>4, <2>5, CutKept
    <2> QED
      BY <2>6 DEF g
  <1> QED
    BY <1>3, <1>4, ScanLeads DEF up

\* schedule, cut anywhere.
LEMMA DispatchLeads ==
  ASSUME NEW p, Accepted(p), NEW st \in [Node -> NodeState], NEW att, NEW fl, NEW busy,
         NEW given, NEW told, Coherent(p, st, att, fl, busy, given, told),
         NEW D, D = Dispatched(p, st, fl)
  PROVE  Leads(p, st, Scan(st, Running(st, D)), Running(st, D))
  <1> DEFINE run == Running(st, D)
  <1>1. D \in SUBSET ReadySet(st)
    BY DispatchedAreReady
  <1>2. run \in [Node -> NodeState]
    BY DEF Running, NodeState
  <1>3. \A n \in Node : run[n] = st[n] \/ (n \in D /\ st[n] = "ready" /\ run[n] = "running")
    BY <1>1 DEF Running, ReadySet
  <1>4. /\ Joined(p, st) /\ Justified(p, st) /\ Staffed(st, busy) /\ Lone(p, busy) /\ Counted(busy, fl)
        /\ SideEffectsConsistent(p)
    BY DEF Coherent, Accepted
  <1>5. st \in [Node -> LoggedState] /\ run \in [Node -> LoggedState]
    BY <1>2 DEF LoggedState
  <1> HIDE DEF run
  <1>6. ASSUME NEW A \in SUBSET {n \in Node : st[n] # run[n]}
        PROVE  CoherentCut(p, Mixed(st, run, A))
    <2> DEFINE g == Mixed(st, run, A)
    <2>1. \A n \in Node : g[n] = st[n] \/ (n \in D /\ st[n] = "ready" /\ g[n] = "running")
      BY <1>3 DEF Mixed
    <2> HIDE DEF g
    <2>2. \A n \in Node : g[n] = "running" => busy[n] # "idle" \/ n \in D
      BY <1>4, <2>1 DEF Staffed
    <2>3. \A n \in Node : IsDestructive(p, n) => st[n] # "skipped"
      BY <1>4, DestructiveNotSkipped
    <2>4. LoneRunning(p, g)
      <3> SUFFICES ASSUME NEW d \in Node, NEW n \in Node,
                          IsDestructive(p, d), g[d] = "running", g[n] = "running"
                   PROVE  n = d
        BY DEF LoneRunning
      <3>1. /\ busy[d] # "idle" \/ d \in Dispatched(p, st, fl)
            /\ busy[n] # "idle" \/ n \in Dispatched(p, st, fl)
        BY <2>2
      <3> QED
        BY <1>4, <2>3, <3>1, DispatchLone
    <2>5. \A n \in Node : g[n] \notin {"pending", "skipped"} => st[n] \notin {"pending", "skipped"}
      BY <2>1
    <2>6. \A n \in Node : (st[n] = "executed" => g[n] = "executed") /\ (g[n] = "skipped" <=> st[n] = "skipped")
      BY <2>1
    <2>7. CoherentCut(p, g)
      BY <1>4, <2>4, <2>5, <2>6, CutKept
    <2> QED
      BY <2>7 DEF g
  <1> QED
    BY <1>5, <1>6, ScanLeads DEF run

-----------------------------------------------------------------------------
(* The skip pass, cut anywhere.                                            *)

VisitOrder(V) == {r \in V \X V : Earlier(r[1], r[2])}

\* The iterations of skipLosers come one after another.
LEMMA VisitsOrdered ==
  ASSUME NEW p \in PlanType, NEW winner, NEW V \in SUBSET Visits(p, winner)
  PROVE  /\ IsFiniteSet(V)
         /\ StrictOrder(V, VisitOrder(V))
         /\ \A u, v \in V : <<u, v>> \in VisitOrder(V) <=> Earlier(u, v)
  <1> DEFINE K == 1 .. Len(p.edges)
  <1>1. p.edges \in Seq(Node \X Node) /\ DOMAIN p.edges = K /\ Len(p.edges) \in Nat
    BY DEF PlanType
  <1>2. V \in SUBSET (K \X K)
    BY <1>1 DEF Visits
  <1>3. IsFiniteSet(V)
    <2>1. IsFiniteSet(K)
      BY <1>1, FS_Interval
    <2>2. IsFiniteSet(K \X K)
      BY <2>1, FS_Product
    <2> QED
      BY <1>2, <2>2, FS_Subset
  <1>4. \A u, v \in V : <<u, v>> \in VisitOrder(V) <=> Earlier(u, v)
    BY DEF VisitOrder
  <1>5. \A v \in V : v[1] \in Int /\ v[2] \in Int /\ v = <<v[1], v[2]>>
    BY <1>1, <1>2
  <1>6. \A u, v \in V : u = v \/ Earlier(u, v) \/ Earlier(v, u)
    BY <1>5 DEF Earlier
  <1>7. \A v \in V : ~Earlier(v, v)
    BY <1>5 DEF Earlier
  <1>8. \A u, v, w \in V : Earlier(u, v) /\ Earlier(v, w) => Earlier(u, w)
    BY <1>5 DEF Earlier
  <1> QED
    BY <1>3, <1>4, <1>6, <1>7, <1>8 DEF StrictOrder

\* What an iteration that skips its candidate has seen.
SeenByLoser(p, st, V, v) ==
  LET c == Cand(p, v)
      M == Losers(p, {u \in V : Earlier(u, v)})
  IN  /\ c \in Node /\ IsCandidate(p, c) /\ ~IsTerminal(st[c]) /\ c \notin M
      /\ \A j \in Succs(p, c) : /\ p.join[j] = "any_of" => Satisfied(p, Skip(st, M), j)
                                /\ p.join[j] = "all_of" => st[j] = "skipped" \/ j \in M

LEMMA LoserStanding ==
  ASSUME NEW p \in PlanType, NEW st \in [Node -> NodeState], Joined(p, st),
         NEW winner \in Node, NEW V \in SUBSET Visits(p, winner), IsSkipPass(p, st, winner, V),
         NEW v \in V
  PROVE  SeenByLoser(p, st, V, v)
  <1> DEFINE c == Cand(p, v)
             M == Losers(p, {u \in V : Earlier(u, v)})
  <1>1. v \in Visits(p, winner)
    OBVIOUS
  <1>2. c \in Node /\ c # winner /\ IsCandidate(p, c)
    BY <1>1, VisitsCandidates
  <1>3. ~IsTerminal(Skip(st, M)[c]) /\ ~StillNeeded(p, Skip(st, M), c)
    BY <1>1 DEF IsSkipPass, Before
  <1> HIDE DEF M, c
  <1>4. c \notin M /\ ~IsTerminal(st[c])
    BY <1>2, <1>3 DEF Skip, IsTerminal, TerminalState
  <1>5. ASSUME NEW j \in Succs(p, c), p.join[j] = "all_of"
        PROVE  st[j] = "skipped" \/ j \in M
    <2>1. j \in Node /\ c \in Preds(p, j)
      BY <1>2, Adjacent DEF Succs
    <2>2. IsTerminal(Skip(st, M)[j])
      BY <1>3, <1>5 DEF StillNeeded
    <2> SUFFICES ASSUME j \notin M
                 PROVE  st[j] = "skipped"
      OBVIOUS
    <2>3. IsTerminal(st[j])
      BY <2>1, <2>2 DEF Skip
    <2>4. st[c] # "executed"
      BY <1>4 DEF IsTerminal, TerminalState
    <2>5. st[j] \in {"pending", "skipped"}
      BY <1>5, <2>1, <2>4 DEF Joined
    <2> QED
      BY <2>3, <2>5 DEF IsTerminal, TerminalState
  <1>6. \A j \in Succs(p, c) : p.join[j] = "any_of" => Satisfied(p, Skip(st, M), j)
    BY <1>3 DEF StillNeeded
  <1> QED
    BY <1>2, <1>4, <1>5, <1>6 DEF SeenByLoser, M, c

\* No candidate is skipped twice.
LEMMA SkippedOnce ==
  ASSUME NEW p \in PlanType, NEW st \in [Node -> NodeState], Joined(p, st),
         NEW winner \in Node, NEW V \in SUBSET Visits(p, winner), IsSkipPass(p, st, winner, V),
         NEW u \in V, NEW v \in V, Cand(p, u) = Cand(p, v)
  PROVE  u = v
  <1>1. ~Earlier(u, v)
    BY LoserStanding DEF SeenByLoser, Losers
  <1>2. ~Earlier(v, u)
    BY LoserStanding DEF SeenByLoser, Losers
  <1> QED
    BY <1>1, <1>2, VisitsOrdered DEF StrictOrder

\* The losers are skipped one at a time, and nobody waits for any of them then.
LEMMA SkipsLead ==
  ASSUME NEW p \in PlanType, NEW st \in [Node -> NodeState],
         Joined(p, st), Justified(p, st), LoneRunning(p, st),
         NEW winner \in Node, NEW V \in SUBSET Visits(p, winner), IsSkipPass(p, st, winner, V),
         NEW sk, sk = Skip(st, Losers(p, V))
  PROVE  Leads(p, st, Moves(LosersInOrder(p, V), st, sk), sk)
  <1> DEFINE L == Losers(p, V)
             e == InOrder(V, VisitOrder(V))
             s == LosersInOrder(p, V)
             c == Cardinality(V)
  <1>1. /\ IsFiniteSet(V) /\ StrictOrder(V, VisitOrder(V))
        /\ \A u, v \in V : <<u, v>> \in VisitOrder(V) <=> Earlier(u, v)
    BY VisitsOrdered
  <1>2. /\ c \in Nat /\ DOMAIN e = 1 .. c
        /\ \A i \in 1 .. c : e[i] \in V
        /\ \A v \in V : \E i \in 1 .. c : e[i] = v
        /\ \A i, j \in 1 .. c : <<e[i], e[j]>> \in VisitOrder(V) <=> i < j
    BY <1>1, Enumerates
  <1>3. s = [i \in 1 .. c |-> Cand(p, e[i])]
    BY <1>2 DEF LosersInOrder, VisitOrder
  <1> HIDE DEF e, c, s
  <1>4. \A v \in V : Cand(p, v) \in Node /\ ~IsTerminal(st[Cand(p, v)])
    BY LoserStanding DEF SeenByLoser
  <1>5. s \in Seq(Node) /\ Len(s) = c
    <2>1. s \in [1 .. c -> Node]
      BY <1>2, <1>3, <1>4
    <2> QED
      BY <1>2, <2>1
  <1>6. \A i, j \in 1 .. Len(s) : s[i] = s[j] => i = j
    <2> SUFFICES ASSUME NEW i \in 1 .. c, NEW j \in 1 .. c, s[i] = s[j]
                 PROVE  i = j
      BY <1>5
    <2>1. e[i] = e[j]
      BY <1>2, <1>3, SkippedOnce
    <2>2. ~(i < j) /\ ~(j < i)
      <3>1. <<e[i], e[i]>> \notin VisitOrder(V)
        BY <1>1, <1>2 DEF StrictOrder
      <3> QED
        BY <1>2, <2>1, <3>1
    <2> QED
      BY <1>2, <2>2
  <1>7. st \in [Node -> LoggedState] /\ sk \in [Node -> LoggedState]
    BY DEF LoggedState, Skip, NodeState
  <1>8. \A n \in Node : st[n] # sk[n] => \E i \in 1 .. Len(s) : s[i] = n
    <2> SUFFICES ASSUME NEW n \in Node, st[n] # sk[n]
                 PROVE  \E i \in 1 .. Len(s) : s[i] = n
      OBVIOUS
    <2>1. PICK v \in V : n = Cand(p, v)
      BY DEF Skip, Losers
    <2> QED
      BY <1>2, <1>3, <1>5, <2>1
  <1>9. ASSUME NEW k \in 0 .. Len(s)
        PROVE  CoherentCut(p, Mixed(st, sk, {s[i] : i \in 1 .. k}))
    <2> DEFINE A == {s[i] : i \in 1 .. k}
               g == Mixed(st, sk, A)
    <2>1. \A i \in 1 .. k : i \in 1 .. c
      BY <1>2, <1>5
    <2>2. \A n \in A : \E i \in 1 .. k : e[i] \in V /\ n = Cand(p, e[i])
      BY <1>2, <1>3, <2>1
    <2>3. A \subseteq L /\ \A n \in A : n \in Node /\ ~IsTerminal(st[n])
      BY <1>4, <2>2 DEF Losers
    <2>4. \A n \in Node : (n \in A => g[n] = "skipped") /\ (n \notin A => g[n] = st[n])
      BY <2>3 DEF Mixed, Skip
    <2>5. ASSUME NEW i \in 1 .. k
          PROVE  Losers(p, {u \in V : Earlier(u, e[i])}) \subseteq A
      <3> SUFFICES ASSUME NEW u \in V, Earlier(u, e[i])
                   PROVE  Cand(p, u) \in A
        BY DEF Losers
      <3>1. PICK j \in 1 .. c : e[j] = u
        BY <1>2
      <3>2. i \in 1 .. c /\ e[i] \in V
        BY <1>2, <2>1
      <3>3. <<e[j], e[i]>> \in VisitOrder(V)
        BY <1>1, <3>1, <3>2
      <3>4. j < i
        BY <1>2, <3>2, <3>3
      <3>5. j \in 1 .. k
        BY <1>5, <3>4
      <3> QED
        BY <1>3, <3>1, <3>5
    <2> HIDE DEF g, A
    <2>6. \A n \in Node : g[n] = "executed" <=> st[n] = "executed"
      BY <2>3, <2>4 DEF IsTerminal, TerminalState
    <2>7. \A n \in Node : Satisfied(p, g, n) <=> Satisfied(p, st, n)
      BY <2>6, SameSatisfied
    <2>8. Joined(p, g)
      <3> SUFFICES ASSUME NEW n \in Node, g[n] \notin {"pending", "skipped"}
                   PROVE  /\ p.join[n] = "all_of" => \A m \in Preds(p, n) : g[m] = "executed"
                          /\ p.join[n] = "any_of" => Satisfied(p, g, n)
        BY DEF Joined
      <3>1. st[n] \notin {"pending", "skipped"} /\ \A m \in Preds(p, n) : m \in Node
        BY <2>4 DEF Preds
      <3> QED
        BY <2>6, <2>7, <3>1 DEF Joined
    <2>9. LoneRunning(p, g)
      <3>1. \A n \in Node : g[n] = "running" => st[n] = "running"
        BY <2>4
      <3> QED
        BY <3>1 DEF LoneRunning
    <2>10. ASSUME NEW n \in Node, g[n] = "skipped"
           PROVE  /\ IsCandidate(p, n)
                  /\ \A j \in Succs(p, n) : /\ p.join[j] = "any_of" => Satisfied(p, g, j)
                                            /\ p.join[j] = "all_of" => g[j] = "skipped"
      <3>1. \A j \in Succs(p, n) : j \in Node
        BY DEF Succs
      <3>2. CASE n \in A
        <4>1. PICK i \in 1 .. k : e[i] \in V /\ n = Cand(p, e[i])
          BY <2>2, <3>2
        <4> DEFINE M == Losers(p, {u \in V : Earlier(u, e[i])})
        <4>2. /\ IsCandidate(p, n)
              /\ \A j \in Succs(p, n) : /\ p.join[j] = "any_of" => Satisfied(p, Skip(st, M), j)
                                        /\ p.join[j] = "all_of" => st[j] = "skipped" \/ j \in M
          <5>1. SeenByLoser(p, st, V, e[i])
            BY <4>1, LoserStanding
          <5>2. /\ IsCandidate(p, Cand(p, e[i]))
                /\ \A j \in Succs(p, Cand(p, e[i])) :
                     /\ p.join[j] = "any_of" => Satisfied(p, Skip(st, M), j)
                     /\ p.join[j] = "all_of" => st[j] = "skipped" \/ j \in M
            BY <5>1 DEF SeenByLoser
          <5> HIDE DEF M
          <5> QED
            BY <4>1, <5>2
        <4>3. M \subseteq A
          BY <2>5
        <4> HIDE DEF M
        <4>4. \A m \in Node : Skip(st, M)[m] = "executed" => g[m] = "executed"
          BY <2>4, <2>6 DEF Skip
        <4>5. \A j \in Succs(p, n) : Satisfied(p, Skip(st, M), j) => Satisfied(p, g, j)
          BY <4>4 DEF Satisfied, Preds
        <4>6. \A j \in Node : st[j] = "skipped" \/ j \in M => g[j] = "skipped"
          BY <2>4, <4>3
        <4> QED
          BY <3>1, <4>2, <4>5, <4>6
      <3>3. CASE n \notin A
        <4>1. st[n] = "skipped"
          BY <2>4, <2>10, <3>3
        <4>2. \A j \in Node : st[j] = "skipped" => g[j] = "skipped"
          BY <2>4
        <4> QED
          BY <2>7, <3>1, <4>1, <4>2 DEF Justified
      <3> QED
        BY <3>2, <3>3
    <2>11. Justified(p, g)
      BY <2>10 DEF Justified
    <2>12. CoherentCut(p, g)
      BY <2>8, <2>9, <2>11, JustifiedCut
    <2> QED
      BY <2>12 DEF g, A
  <1> HIDE DEF L
  <1>10. Leads(p, st, Moves(s, st, sk), sk)
    BY <1>5, <1>6, <1>7, <1>8, <1>9, MovesLead
  <1> QED
    BY <1>10 DEF s

\* Of some iterations one is the earliest.
LEMMA EarliestVisit ==
  ASSUME NEW p \in PlanType, NEW winner, NEW S \in SUBSET Visits(p, winner), S # {}
  PROVE  \E v \in S : \A u \in S : ~Earlier(u, v)
  <1> DEFINE e == InOrder(S, VisitOrder(S))
             c == Cardinality(S)
  <1>1. /\ IsFiniteSet(S) /\ StrictOrder(S, VisitOrder(S))
        /\ \A u, v \in S : <<u, v>> \in VisitOrder(S) <=> Earlier(u, v)
    BY VisitsOrdered
  <1>2. /\ c \in Nat
        /\ \A i \in 1 .. c : e[i] \in S
        /\ \A v \in S : \E i \in 1 .. c : e[i] = v
        /\ \A i, j \in 1 .. c : <<e[i], e[j]>> \in VisitOrder(S) <=> i < j
    BY <1>1, Enumerates
  <1> HIDE DEF e, c
  <1>3. 1 \in 1 .. c
    <2>1. PICK v \in S : TRUE
      OBVIOUS
    <2>2. PICK i \in 1 .. c : e[i] = v
      BY <1>2
    <2> QED
      BY <1>2, <2>2
  <1>4. ASSUME NEW u \in S
        PROVE  ~Earlier(u, e[1])
    <2>1. PICK i \in 1 .. c : e[i] = u
      BY <1>2
    <2>2. ~(i < 1)
      BY <1>2, <2>1
    <2> QED
      BY <1>1, <1>2, <1>3, <2>1, <2>2
  <1> QED
    BY <1>2, <1>3, <1>4

\* skipLosers leaves no choice: the iterations that skip are determined.
LEMMA SkipPassUnique ==
  ASSUME NEW p \in PlanType, NEW st, NEW winner,
         NEW V \in SUBSET Visits(p, winner), NEW W \in SUBSET Visits(p, winner),
         IsSkipPass(p, st, winner, V), IsSkipPass(p, st, winner, W)
  PROVE  V = W
  <1> DEFINE S == (V \ W) \cup (W \ V)
  <1> SUFFICES ASSUME S # {}
               PROVE  FALSE
    OBVIOUS
  <1>1. S \in SUBSET Visits(p, winner)
    OBVIOUS
  <1>2. PICK v \in S : \A u \in S : ~Earlier(u, v)
    <2> HIDE DEF S
    <2> QED
      BY <1>1, EarliestVisit
  <1>3. {u \in V : Earlier(u, v)} = {u \in W : Earlier(u, v)}
    BY <1>2
  <1>4. Before(p, st, V, v) = Before(p, st, W, v)
    BY <1>3 DEF Before
  <1>5. v \in Visits(p, winner)
    BY <1>1
  <1>6. v \in V <=> v \in W
    BY <1>4, <1>5 DEF IsSkipPass
  <1> QED
    BY <1>2, <1>6

-----------------------------------------------------------------------------
(* What each turn logs up to schedule.                                     *)

\* The invariant excludes what a coherent cut excludes.
LEMMA StateIsCoherent ==
  ASSUME IInv
  PROVE  /\ CoherentCut(plan, state) /\ state \in [Node -> LoggedState]
         /\ plan \in PlanType /\ Accepted(plan)
         /\ Joined(plan, state) /\ Justified(plan, state) /\ LoneRunning(plan, state)
  <1>1. Joined(plan, state) /\ Justified(plan, state) /\ LoneRunning(plan, state)
    BY StaffedRunsAlone DEF IInv, Coherent
  <1>2. CoherentCut(plan, state)
    BY <1>1, JustifiedCut
  <1> QED
    BY <1>1, <1>2 DEF IInv, TypeOK, LoggedState

\* A received success: the winner, the losers of its race, the promotions.
LEMMA SuccessLeads ==
  ASSUME IInv, NEW n \in Node, Receivable(n), ~IsTerminal(state[n]),
         NEW V \in SUBSET Visits(plan, n), IsSkipPass(plan, [state EXCEPT ![n] = "executed"], n, V)
  PROVE  LET won == [state EXCEPT ![n] = "executed"]
         IN  Leads(plan, state, SuccessMoves(n, won, V), Promote(plan, Skip(won, Losers(plan, V))))
  <1> DEFINE won == [state EXCEPT ![n] = "executed"]
             L   == Losers(plan, V)
             sk  == Skip(won, L)
             up  == Promote(plan, sk)
             told == Told(n, L)
  <1>1. /\ won \in [Node -> NodeState] /\ sk \in [Node -> NodeState]
        /\ Coherent(plan, won, attempt, inFlight - 1, Freed(n), Released(n), cancelled \ {n})
        /\ Coherent(plan, sk, attempt, inFlight - 1, Freed(n), Released(n), told)
    BY SuccessCoherent
  <1>2. /\ CoherentCut(plan, state) /\ state \in [Node -> LoggedState]
        /\ plan \in PlanType /\ Accepted(plan)
    BY StateIsCoherent
  <1> HIDE DEF sk, told
  <1>3. Joined(plan, won) /\ Justified(plan, won) /\ LoneRunning(plan, won)
    <2> HIDE DEF won
    <2> QED
      BY <1>1, StaffedRunsAlone DEF Coherent
  <1>4. CoherentCut(plan, won)
    BY <1>3, JustifiedCut
  <1>5. Leads(plan, state, <<Entry(n, state[n], "executed")>>, won)
    <2>1. "executed" \in LoggedState
      BY DEF LoggedState, NodeState
    <2> QED
      BY <1>2, <1>4, <2>1, EntryLeads
  <1>6. IsSkipPass(plan, won, n, V)
    OBVIOUS
  <1> HIDE DEF won
  <1>7. Leads(plan, won, Moves(LosersInOrder(plan, V), won, sk), sk)
    BY <1>1, <1>2, <1>3, <1>6, SkipsLead DEF sk
  <1>8. Leads(plan, sk, Scan(sk, up), up)
    BY <1>1, <1>2, PromotionLeads
  <1>9. Leads(plan, state, <<Entry(n, state[n], "executed")>> \o Moves(LosersInOrder(plan, V), won, sk), sk)
    BY <1>5, <1>7, LeadsOn
  <1>10. Leads(plan, state,
               <<Entry(n, state[n], "executed")>> \o Moves(LosersInOrder(plan, V), won, sk) \o Scan(sk, up), up)
    BY <1>8, <1>9, LeadsOn
  <1> QED
    BY <1>10 DEF SuccessMoves, sk, won

\* Two entries appended one at a time.
LEMMA PairOfEntries ==
  ASSUME NEW a, NEW b
  PROVE  <<a>> \o <<b>> = <<a, b>>
  <1> DEFINE X == {a, b}
             s == <<a>>
             t == <<b>>
  <1>1. s \in Seq(X) /\ t \in Seq(X) /\ <<a, b>> \in Seq(X)
    OBVIOUS
  <1>2. Len(s) = 1 /\ Len(t) = 1 /\ s[1] = a /\ t[1] = b
    OBVIOUS
  <1> HIDE DEF X, s, t
  <1>3. /\ s \o t \in Seq(X) /\ Len(s \o t) = Len(s) + Len(t)
        /\ \A i \in 1 .. Len(s) + Len(t) : (s \o t)[i] = IF i <= Len(s) THEN s[i] ELSE t[i - Len(s)]
    BY <1>1, ConcatProperties
  <1> DEFINE u == s \o t
             v == <<a, b>>
  <1>4. u \in Seq(X) /\ Len(u) = 2 /\ u[1] = a /\ u[2] = b
    <2> HIDE DEF u
    <2>1. Len(u) = 2 /\ u[1] = s[1] /\ u[2] = t[1] /\ u \in Seq(X)
      BY <1>2, <1>3 DEF u
    <2> QED
      BY <1>2, <2>1
  <1>5. v \in Seq(X) /\ Len(v) = 2 /\ v[1] = a /\ v[2] = b
    BY <1>1
  <1> HIDE DEF u, v
  <1>6. u = v
    <2>1. \A i \in 1 .. Len(u) : u[i] = v[i]
      BY <1>4, <1>5
    <2> QED
      BY <1>4, <1>5, <2>1, SeqEqual
  <1> QED
    BY <1>6 DEF s, t, u, v

\* A received failure: failed_retryable, the verdict, the promotions.
LEMMA FailureLeads ==
  ASSUME IInv, NEW n \in Node, Receivable(n), ~IsTerminal(state[n]), worker[n] \in Failure
  PROVE  LET st == [state EXCEPT ![n] = Verdict(Decide(attempt[n], worker[n]))]
         IN  Leads(plan, state, FailureMoves(n, st), Promote(plan, st))
  <1> DEFINE d   == Decide(attempt[n], worker[n])
             att == [attempt EXCEPT ![n] = Spend(@, d)]
             st  == [state EXCEPT ![n] = Verdict(d)]
             up  == Promote(plan, st)
             g   == [state EXCEPT ![n] = "failed_retryable"]
  <1>1. /\ state[n] = "running" /\ Verdict(d) \in {"ready", "failed"}
        /\ st \in [Node -> NodeState]
        /\ Coherent(plan, st, att, inFlight - 1, Freed(n), Released(n), cancelled \ {n})
    BY FailureCoherent
  <1>2. /\ CoherentCut(plan, state) /\ state \in [Node -> LoggedState]
        /\ plan \in PlanType /\ Accepted(plan)
        /\ Joined(plan, state) /\ Justified(plan, state) /\ LoneRunning(plan, state)
    BY StateIsCoherent
  <1> HIDE DEF d, att
  <1>3. g \in [Node -> LoggedState] /\ "failed_retryable" \in LoggedState
    BY <1>2 DEF LoggedState
  <1>4. \A m \in Node : g[m] = IF m = n THEN "failed_retryable" ELSE state[m]
    BY <1>2
  <1>5. st = [g EXCEPT ![n] = Verdict(d)] /\ st[n] = Verdict(d) /\ g[n] = "failed_retryable"
    BY <1>2
  <1> HIDE DEF g, st
  <1>6. CoherentCut(plan, g)
    <2>1. LoneRunning(plan, g)
      BY <1>2, <1>4 DEF LoneRunning
    <2>2. /\ \A m \in Node : state[m] = "executed" => g[m] = "executed"
          /\ \A m \in Node : g[m] = "skipped" <=> state[m] = "skipped"
          /\ \A m \in Node : g[m] \notin {"pending", "skipped"} => state[m] \notin {"pending", "skipped"}
      BY <1>1, <1>4
    <2> QED
      BY <1>2, <2>1, <2>2, CutKept
  <1>7. CoherentCut(plan, st)
    BY <1>1, StaffedRunsAlone, JustifiedCut DEF Coherent
  <1>8. Leads(plan, state, <<Entry(n, state[n], "failed_retryable")>>, g)
    BY <1>2, <1>3, <1>6, EntryLeads DEF g
  <1>9. Leads(plan, g, <<Entry(n, "failed_retryable", st[n])>>, st)
    <2>1. Verdict(d) \in LoggedState
      BY <1>1 DEF LoggedState, NodeState
    <2>2. CoherentCut(plan, [g EXCEPT ![n] = Verdict(d)])
      BY <1>5, <1>7
    <2>3. Leads(plan, g, <<Entry(n, g[n], Verdict(d))>>, [g EXCEPT ![n] = Verdict(d)])
      BY <1>3, <1>6, <2>1, <2>2, EntryLeads
    <2> QED
      BY <1>5, <2>3
  <1>10. Leads(plan, state, <<Entry(n, state[n], "failed_retryable")>> \o <<Entry(n, "failed_retryable", st[n])>>, st)
    BY <1>8, <1>9, LeadsOn
  <1>11. <<Entry(n, state[n], "failed_retryable")>> \o <<Entry(n, "failed_retryable", st[n])>>
           = <<Entry(n, state[n], "failed_retryable"), Entry(n, "failed_retryable", st[n])>>
    BY PairOfEntries
  <1>12. Leads(plan, st, Scan(st, up), up)
    BY <1>1, <1>2, PromotionLeads
  <1>13. Leads(plan, state,
               <<Entry(n, state[n], "failed_retryable"), Entry(n, "failed_retryable", st[n])>> \o Scan(st, up), up)
    BY <1>10, <1>11, <1>12, LeadsOn
  <1> QED
    BY <1>13 DEF FailureMoves, st, d

\* What a drained event logs.
LEMMA DrainLeads ==
  ASSUME IInv, NEW n \in Node, worker[n] \in Result, NEW t, t = Drained(n)
  PROVE  Leads(plan, state, Scan(state, t), t)
  <1>1. /\ state \in [Node -> LoggedState]
        /\ Joined(plan, state) /\ Justified(plan, state) /\ LoneRunning(plan, state)
    BY StateIsCoherent
  <1>2. state[n] \in {"running", "skipped"}
    BY DEF IInv, Coherent, Staffed, Result, Failure
  <1>3. \A m \in Node : t[m] = state[m] \/ (state[m] = "running" /\ t[m] = "cancelled")
    BY <1>1, <1>2 DEF Drained, IsTerminal, TerminalState
  <1>4. t \in [Node -> LoggedState]
    BY <1>1 DEF Drained, LoggedState, NodeState
  <1>5. ASSUME NEW A \in SUBSET {m \in Node : state[m] # t[m]}
        PROVE  CoherentCut(plan, Mixed(state, t, A))
    <2> DEFINE g == Mixed(state, t, A)
    <2>1. \A m \in Node : g[m] = state[m] \/ (state[m] = "running" /\ g[m] = "cancelled")
      BY <1>3 DEF Mixed
    <2> HIDE DEF g
    <2>2. LoneRunning(plan, g)
      BY <1>1, <2>1 DEF LoneRunning
    <2>3. /\ \A m \in Node : state[m] = "executed" => g[m] = "executed"
          /\ \A m \in Node : g[m] = "skipped" <=> state[m] = "skipped"
          /\ \A m \in Node : g[m] \notin {"pending", "skipped"} => state[m] \notin {"pending", "skipped"}
      BY <2>1
    <2>4. CoherentCut(plan, g)
      BY <1>1, <2>2, <2>3, CutKept
    <2> QED
      BY <2>4 DEF g
  <1> QED
    BY <1>1, <1>4, <1>5, ScanLeads

\* The entries of Run's beginning.
LEMMA BeginningLeads ==
  ASSUME NEW p \in PlanType, Accepted(p)
  PROVE  Leads(p, Unstarted, Scan(Unstarted, EntryState(p)), EntryState(p))
  <1> DEFINE st == EntryState(p)
  <1>1. /\ st \in [Node -> NodeState]
        /\ \A n \in Node : /\ st[n] \in {"ready", "pending"}
                           /\ st[n] = "ready" <=> Preds(p, n) = {}
    BY EntryCoherent
  <1>2. \A n \in Node : Unstarted[n] = "pending"
    BY DEF Unstarted
  <1>3. Unstarted \in [Node -> LoggedState] /\ st \in [Node -> LoggedState]
    BY <1>1 DEF Unstarted, LoggedState, NodeState
  <1> HIDE DEF st
  <1>4. ASSUME NEW A \in SUBSET {n \in Node : Unstarted[n] # st[n]}
        PROVE  CoherentCut(p, Mixed(Unstarted, st, A))
    <2> DEFINE g == Mixed(Unstarted, st, A)
    <2>1. \A n \in Node : g[n] = "pending" \/ (g[n] = "ready" /\ Preds(p, n) = {})
      BY <1>1, <1>2 DEF Mixed
    <2> HIDE DEF g
    <2>2. Joined(p, g)
      <3> SUFFICES ASSUME NEW n \in Node, g[n] \notin {"pending", "skipped"}
                   PROVE  /\ p.join[n] = "all_of" => \A m \in Preds(p, n) : g[m] = "executed"
                          /\ p.join[n] = "any_of" => Satisfied(p, g, n)
        BY DEF Joined
      <3>1. Preds(p, n) = {}
        BY <2>1
      <3>2. p.join[n] # "any_of"
        BY <3>1, CandidatesExist DEF Accepted
      <3> QED
        BY <3>1, <3>2
    <2>3. Justified(p, g) /\ LoneRunning(p, g)
      BY <2>1 DEF Justified, LoneRunning
    <2>4. CoherentCut(p, g)
      BY <2>2, <2>3, JustifiedCut
    <2> QED
      BY <2>4 DEF g
  <1> QED
    BY <1>3, <1>4, ScanLeads DEF st

-----------------------------------------------------------------------------
(* Counting dispatches.                                                    *)

Places(l, E) == {i \in DOMAIN l : l[i] \in E}

\* The places of a log's entries of some kind are finitely many.
LEMMA PlacesFinite ==
  ASSUME NEW X, NEW l \in Seq(X), NEW E
  PROVE  IsFiniteSet(Places(l, E)) /\ Cardinality(Places(l, E)) \in Nat
  <1>1. IsFiniteSet(1 .. Len(l))
    <2>1. Len(l) \in Nat
      OBVIOUS
    <2> QED
      BY <2>1, FS_Interval
  <1>2. Places(l, E) \in SUBSET (1 .. Len(l))
    BY DEF Places
  <1> QED
    BY <1>1, <1>2, FS_Subset, FS_CardinalityType

\* Entries of one kind in two logs, one after the other.
LEMMA PlacesConcat ==
  ASSUME NEW X, NEW a \in Seq(X), NEW b \in Seq(X), NEW E
  PROVE  Cardinality(Places(a \o b, E)) = Cardinality(Places(a, E)) + Cardinality(Places(b, E))
  <1> DEFINE c == a \o b
             A == Places(a, E)
             B == Places(b, E)
             L == Len(a)
             S == {L + i : i \in B}
  <1>1. L \in Nat /\ Len(b) \in Nat /\ DOMAIN a = 1 .. L /\ DOMAIN b = 1 .. Len(b)
    OBVIOUS
  <1>2. /\ DOMAIN c = 1 .. L + Len(b)
        /\ \A i \in 1 .. L : c[i] = a[i]
        /\ \A j \in 1 .. Len(b) : c[L + j] = b[j]
    OBVIOUS
  <1>3. /\ IsFiniteSet(A) /\ IsFiniteSet(B)
        /\ Cardinality(A) \in Nat /\ Cardinality(B) \in Nat
    BY PlacesFinite
  <1>4. A \in SUBSET (1 .. L) /\ B \in SUBSET (1 .. Len(b))
    BY <1>1 DEF Places
  <1>5. Places(c, E) = A \cup S
    <2> HIDE DEF c, L
    <2>1. \A i \in 1 .. L + Len(b) : i \in 1 .. L \/ (i - L \in 1 .. Len(b) /\ i = L + (i - L))
      BY <1>1
    <2>2. \A i \in 1 .. L : i \in 1 .. L + Len(b)
      BY <1>1
    <2>3. \A j \in 1 .. Len(b) : L + j \in 1 .. L + Len(b)
      BY <1>1
    <2>4. ASSUME NEW i \in Places(c, E)
          PROVE  i \in A \cup S
      <3>1. i \in 1 .. L + Len(b) /\ c[i] \in E
        BY <1>2 DEF Places
      <3>2. CASE i \in 1 .. L
        BY <1>1, <1>2, <3>1, <3>2 DEF Places
      <3>3. CASE i - L \in 1 .. Len(b) /\ i = L + (i - L)
        <4>1. c[i] = b[i - L]
          BY <1>2, <3>3
        <4>2. i - L \in B
          BY <1>1, <3>1, <3>3, <4>1 DEF Places
        <4> QED
          BY <3>3, <4>2
      <3> QED
        BY <2>1, <3>1, <3>2, <3>3
    <2>5. ASSUME NEW i \in A
          PROVE  i \in Places(c, E)
      BY <1>1, <1>2, <1>4, <2>2 DEF Places
    <2>6. ASSUME NEW j \in B
          PROVE  L + j \in Places(c, E)
      BY <1>1, <1>2, <1>4, <2>3 DEF Places
    <2> QED
      BY <2>4, <2>5, <2>6
  <1> HIDE DEF A, B, L, c
  <1>6. A \cap S = {}
    BY <1>1, <1>4
  <1>7. IsFiniteSet(S) /\ Cardinality(S) = Cardinality(B)
    <2> DEFINE f == [i \in B |-> L + i]
    <2>1. f \in Bijection(B, S)
      <3>1. f \in [B -> S]
        OBVIOUS
      <3>2. \A i, j \in B : f[i] = f[j] => i = j
        BY <1>1, <1>4
      <3>3. \A s \in S : \E i \in B : f[i] = s
        OBVIOUS
      <3> HIDE DEF f, S
      <3> QED
        BY <3>1, <3>2, <3>3 DEF Bijection, Injection, Surjection, IsInjective
    <2> HIDE DEF f
    <2> QED
      BY <1>3, <2>1, FS_Bijection DEF ExistsBijection
  <1> HIDE DEF S
  <1>8. Cardinality(A \cup S) = Cardinality(A) + Cardinality(S)
    <2>1. /\ Cardinality(A \cup S) = Cardinality(A) + Cardinality(S) - Cardinality(A \cap S)
      BY <1>3, <1>7, FS_Union
    <2> QED
      BY <1>3, <1>6, <1>7, <2>1, FS_EmptySet
  <1> QED
    BY <1>5, <1>7, <1>8 DEF A, B, c

DispatchEntry(n) == {e \in LogEntry : e.to = "running" /\ e.node = n}

AnyDispatch == {e \in LogEntry : e.to = "running"}

\* The dispatches of one log after another.
LEMMA DispatchesAdd ==
  ASSUME NEW a \in Seq(LogEntry), NEW b \in Seq(LogEntry)
  PROVE  /\ Cardinality(Dispatches(a)) \in Nat /\ Cardinality(Dispatches(b)) \in Nat
         /\ Cardinality(Dispatches(a \o b)) = Cardinality(Dispatches(a)) + Cardinality(Dispatches(b))
         /\ \A n \in Node :
              /\ Cardinality(DispatchesOf(a, n)) \in Nat /\ Cardinality(DispatchesOf(b, n)) \in Nat
              /\ Cardinality(DispatchesOf(a \o b, n)) =
                   Cardinality(DispatchesOf(a, n)) + Cardinality(DispatchesOf(b, n))
  <1>1. ASSUME NEW l \in Seq(LogEntry), NEW n \in Node
        PROVE  Dispatches(l) = Places(l, AnyDispatch) /\ DispatchesOf(l, n) = Places(l, DispatchEntry(n))
    <2>1. \A i \in DOMAIN l : l[i] \in LogEntry
      OBVIOUS
    <2> QED
      BY <2>1 DEF Dispatches, DispatchesOf, Places, AnyDispatch, DispatchEntry
  <1>2. a \o b \in Seq(LogEntry)
    OBVIOUS
  <1>3. 1 \in Node
    BY NAssumption DEF Node
  <1>4. /\ Dispatches(a) = Places(a, AnyDispatch) /\ Dispatches(b) = Places(b, AnyDispatch)
        /\ Dispatches(a \o b) = Places(a \o b, AnyDispatch)
    BY <1>1, <1>2, <1>3
  <1>5. ASSUME NEW n \in Node
        PROVE  /\ Cardinality(DispatchesOf(a, n)) \in Nat /\ Cardinality(DispatchesOf(b, n)) \in Nat
               /\ Cardinality(DispatchesOf(a \o b, n)) =
                    Cardinality(DispatchesOf(a, n)) + Cardinality(DispatchesOf(b, n))
    <2>1. /\ DispatchesOf(a, n) = Places(a, DispatchEntry(n))
          /\ DispatchesOf(b, n) = Places(b, DispatchEntry(n))
          /\ DispatchesOf(a \o b, n) = Places(a \o b, DispatchEntry(n))
      BY <1>1, <1>2
    <2> QED
      BY <2>1, PlacesFinite, PlacesConcat
  <1> QED
    BY <1>4, <1>5, PlacesFinite, PlacesConcat

\* A log that dispatches nothing.
Quiet(l) == \A i \in DOMAIN l : l[i].to # "running"

LEMMA QuietCounts ==
  ASSUME NEW l, Quiet(l)
  PROVE  /\ Cardinality(Dispatches(l)) = 0
         /\ \A n \in Node : Cardinality(DispatchesOf(l, n)) = 0
  <1>1. Dispatches(l) = {} /\ \A n \in Node : DispatchesOf(l, n) = {}
    BY DEF Quiet, Dispatches, DispatchesOf
  <1> QED
    BY <1>1, FS_EmptySet

LEMMA QuietOn ==
  ASSUME NEW a \in Seq(LogEntry), NEW b \in Seq(LogEntry), Quiet(a), Quiet(b)
  PROVE  Quiet(a \o b)
  <1> DEFINE c == a \o b
  <1>1. /\ DOMAIN c = 1 .. Len(a) + Len(b)
        /\ \A i \in 1 .. Len(a) + Len(b) : c[i] = IF i <= Len(a) THEN a[i] ELSE b[i - Len(a)]
        /\ Len(a) \in Nat /\ Len(b) \in Nat /\ DOMAIN a = 1 .. Len(a) /\ DOMAIN b = 1 .. Len(b)
    BY ConcatProperties
  <1> HIDE DEF c
  <1>2. \A i \in 1 .. Len(a) + Len(b) : IF i <= Len(a) THEN i \in 1 .. Len(a) ELSE i - Len(a) \in 1 .. Len(b)
    BY <1>1
  <1>3. Quiet(c)
    BY <1>1, <1>2 DEF Quiet
  <1> QED
    BY <1>3 DEF c

\* A scan's entries are the changes, in plan order.
LEMMA ScanEntries ==
  ASSUME NEW f, NEW t
  PROVE  LET D == {n \in Node : f[n] # t[n]}
             s == Ascending(D)
         IN  /\ Cardinality(D) \in Nat
             /\ DOMAIN Scan(f, t) = 1 .. Cardinality(D)
             /\ \A i \in 1 .. Cardinality(D) : s[i] \in D /\ Scan(f, t)[i] = Entry(s[i], f[s[i]], t[s[i]])
             /\ \A i, j \in 1 .. Cardinality(D) : s[i] < s[j] <=> i < j
  <1> DEFINE D == {n \in Node : f[n] # t[n]}
             s == Ascending(D)
  <1>1. D \in SUBSET Int /\ D \in SUBSET Node
    BY NAssumption DEF Node
  <1>2. IsFiniteSet(D)
    BY <1>1, NodesFinite
  <1>3. /\ Cardinality(D) \in Nat
        /\ DOMAIN s = 1 .. Cardinality(D)
        /\ \A i \in 1 .. Cardinality(D) : s[i] \in D
        /\ \A i, j \in 1 .. Cardinality(D) : s[i] < s[j] <=> i < j
    <2> HIDE DEF D
    <2> QED
      BY <1>1, <1>2, AscendingLists
  <1>4. Scan(f, t) = [i \in DOMAIN s |-> Entry(s[i], f[s[i]], t[s[i]])]
    BY DEF Scan, Moves
  <1> HIDE DEF D, s
  <1>5. \A i \in 1 .. Cardinality(D) : s[i] \in D /\ Scan(f, t)[i] = Entry(s[i], f[s[i]], t[s[i]])
    BY <1>3, <1>4
  <1>6. DOMAIN Scan(f, t) = 1 .. Cardinality(D)
    BY <1>3, <1>4
  <1> QED
    BY <1>3, <1>5, <1>6 DEF D, s

\* A scan of changes none of which is a dispatch.
LEMMA QuietScan ==
  ASSUME NEW f, NEW t, \A n \in Node : t[n] = "running" => f[n] = t[n]
  PROVE  Quiet(Scan(f, t))
  <1> DEFINE D == {n \in Node : f[n] # t[n]}
             s == Ascending(D)
  <1>1. /\ DOMAIN Scan(f, t) = 1 .. Cardinality(D)
        /\ \A i \in 1 .. Cardinality(D) : s[i] \in D /\ Scan(f, t)[i] = Entry(s[i], f[s[i]], t[s[i]])
    BY ScanEntries
  <1>2. \A n \in D : n \in Node /\ t[n] # "running"
    OBVIOUS
  <1> HIDE DEF D, s
  <1> QED
    BY <1>1, <1>2 DEF Quiet, Entry

\* The losers' entries.
LEMMA QuietSkips ==
  ASSUME NEW p \in PlanType, NEW winner, NEW V \in SUBSET Visits(p, winner), NEW st, NEW sk,
         sk = Skip(st, Losers(p, V))
  PROVE  Quiet(Moves(LosersInOrder(p, V), st, sk))
  <1> DEFINE e == InOrder(V, VisitOrder(V))
             s == LosersInOrder(p, V)
  <1>1. DOMAIN e = 1 .. Cardinality(V) /\ \A i \in 1 .. Cardinality(V) : e[i] \in V
    BY VisitsOrdered, Enumerates
  <1>2. s = [i \in DOMAIN e |-> Cand(p, e[i])]
    BY DEF LosersInOrder, VisitOrder
  <1> HIDE DEF e
  <1>3. \A i \in DOMAIN s : s[i] \in Losers(p, V)
    BY <1>1, <1>2 DEF Losers
  <1>4. \A n \in Losers(p, V) : n \in Node
    <2>1. \A v \in V : v \in Visits(p, winner)
      OBVIOUS
    <2>2. \A v \in Visits(p, winner) : Cand(p, v) \in Node
      BY DEF Visits, Cand, From, PlanType
    <2> QED
      BY <2>1, <2>2 DEF Losers
  <1>5. \A i \in DOMAIN s : sk[s[i]] = "skipped"
    BY <1>3, <1>4 DEF Skip
  <1> HIDE DEF s
  <1>6. Quiet(Moves(s, st, sk))
    BY <1>5 DEF Quiet, Moves, Entry
  <1> QED
    BY <1>6 DEF s

\* schedule's entries are the dispatches, one for each node.
LEMMA DispatchCounts ==
  ASSUME NEW st, NEW D \in SUBSET ReadySet(st)
  PROVE  /\ Cardinality(D) \in Nat
         /\ Cardinality(Dispatches(Scan(st, Running(st, D)))) = Cardinality(D)
         /\ \A n \in Node : Cardinality(DispatchesOf(Scan(st, Running(st, D)), n)) <= IF n \in D THEN 1 ELSE 0
  <1> DEFINE run == Running(st, D)
             C == {n \in Node : st[n] # run[n]}
             s == Ascending(C)
             l == Scan(st, run)
             c == Cardinality(C)
  <1> HIDE DEF run
  <1>1. /\ c \in Nat
        /\ DOMAIN l = 1 .. c
        /\ \A i \in 1 .. c : s[i] \in C /\ l[i] = Entry(s[i], st[s[i]], run[s[i]])
        /\ \A i, j \in 1 .. c : s[i] < s[j] <=> i < j
    BY ScanEntries, SMTT(30)
  <1>2. C = D
    BY DEF run, Running, ReadySet
  <1>3. \A n \in D : run[n] = "running" /\ n \in Node
    BY DEF run, Running, ReadySet
  <1>4. D \in SUBSET Int
    BY <1>3, NAssumption DEF Node
  <1> HIDE DEF C, s, l, c
  <1>5. \A i \in 1 .. c : s[i] \in D /\ l[i].node = s[i] /\ l[i].to = "running"
    BY <1>1, <1>2, <1>3 DEF Entry
  <1>6. Dispatches(l) = 1 .. c
    BY <1>1, <1>5 DEF Dispatches
  <1>7. Cardinality(Dispatches(l)) = Cardinality(D)
    BY <1>1, <1>2, <1>6, FS_Interval DEF c
  <1>8. ASSUME NEW n \in Node
        PROVE  Cardinality(DispatchesOf(l, n)) <= IF n \in D THEN 1 ELSE 0
    <2>1. \A i \in DispatchesOf(l, n) : i \in 1 .. c /\ s[i] = n /\ n \in D
      BY <1>5, <1>6 DEF DispatchesOf
    <2>2. \A i, j \in DispatchesOf(l, n) : i = j
      <3> SUFFICES ASSUME NEW i \in DispatchesOf(l, n), NEW j \in DispatchesOf(l, n)
                   PROVE  i = j
        OBVIOUS
      <3>1. i \in 1 .. c /\ j \in 1 .. c /\ s[i] = s[j] /\ s[i] \in Int
        BY <1>4, <1>5, <2>1
      <3>2. ~(i < j) /\ ~(j < i)
        BY <1>1, <3>1
      <3> QED
        BY <1>1, <3>1, <3>2
    <2>3. CASE DispatchesOf(l, n) = {}
      BY <2>3, FS_EmptySet
    <2>4. CASE DispatchesOf(l, n) # {}
      <3>1. PICK i : i \in DispatchesOf(l, n)
        BY <2>4
      <3>2. DispatchesOf(l, n) = {i}
        BY <2>2, <3>1
      <3>3. Cardinality(DispatchesOf(l, n)) = 1
        BY <3>2, FS_Singleton
      <3>4. n \in D
        BY <2>1, <3>1
      <3> QED
        BY <3>3, <3>4
    <2> QED
      BY <2>3, <2>4
  <1> QED
    BY <1>1, <1>2, <1>7, <1>8 DEF c, l, run

-----------------------------------------------------------------------------
(* The inductive invariant.                                                *)

\* What node n may have been dispatched for, while its state is st.
Due(st, att, n) == att[n].retries + att[n].patches + (IF st[n] \in {"pending", "ready"} THEN 0 ELSE 1)

\* A decision to run a node again is paid for by a retry or a patch.
LEMMA DecisionPays ==
  ASSUME NEW att \in Attempt, NEW r \in Failure
  PROVE  LET d == Decide(att, r) IN
         Spend(att, d).retries + Spend(att, d).patches
           >= att.retries + att.patches + (IF Verdict(d) = "ready" THEN 1 ELSE 0)
  <1> DEFINE d == Decide(att, r)
  <1>1. att.retries \in Nat /\ att.patches \in Nat
    BY CapTypes DEF Attempt
  <1>2. CASE d = "local_retry"
    <2>1. Spend(att, d) = [att EXCEPT !.retries = @ + 1]
      BY <1>2 DEF Spend
    <2>2. Spend(att, d).retries = att.retries + 1 /\ Spend(att, d).patches = att.patches
      BY <2>1 DEF Attempt
    <2> QED
      BY <1>1, <2>2
  <1>3. CASE d = "local_patch"
    <2>1. Spend(att, d) = [att EXCEPT !.patches = @ + 1]
      BY <1>3 DEF Spend
    <2>2. Spend(att, d).retries = att.retries /\ Spend(att, d).patches = att.patches + 1
      BY <2>1 DEF Attempt
    <2> QED
      BY <1>1, <2>2
  <1>4. CASE d \in {"request_replan", "fail"}
    <2>1. Spend(att, d) \in {att, [att EXCEPT !.replanned = TRUE]} /\ Verdict(d) = "failed"
      BY <1>4 DEF Spend, Verdict
    <2>2. Spend(att, d).retries = att.retries /\ Spend(att, d).patches = att.patches
      BY <2>1 DEF Attempt
    <2> QED
      BY <1>1, <2>1, <2>2
  <1> QED
    BY <1>2, <1>3, <1>4 DEF Decide

\* Appending a scan that dispatches D keeps every dispatch paid for.
LEMMA DispatchesStayPaid ==
  ASSUME NEW l \in Seq(LogEntry), NEW st0, NEW att0, DispatchesPaid(l, st0, att0),
         NEW st \in [Node -> NodeState], NEW att \in [Node -> Attempt], NEW D \in SUBSET ReadySet(st),
         NEW m \in Seq(LogEntry), Quiet(m),
         Scan(st, Running(st, D)) \in Seq(LogEntry),
         \A n \in Node : Due(st0, att0, n) \in Nat /\ Due(st0, att0, n) <= Due(st, att, n)
  PROVE  LET k == l \o m \o Scan(st, Running(st, D))
         IN  /\ DispatchesPaid(k, Running(st, D), att)
             /\ Cardinality(Dispatches(k)) = Cardinality(Dispatches(l)) + Cardinality(D)
             /\ Cardinality(Dispatches(l)) \in Nat /\ Cardinality(D) \in Nat
  <1> DEFINE run == Running(st, D)
             s == Scan(st, run)
             lm == l \o m
  <1>1. /\ Cardinality(Dispatches(m)) = 0
        /\ \A n \in Node : Cardinality(DispatchesOf(m, n)) = 0
    BY QuietCounts
  <1>2. lm \in Seq(LogEntry)
    OBVIOUS
  <1>3. /\ Cardinality(D) \in Nat
        /\ Cardinality(Dispatches(s)) = Cardinality(D)
        /\ \A n \in Node : Cardinality(DispatchesOf(s, n)) <= IF n \in D THEN 1 ELSE 0
    BY DispatchCounts
  <1>4. \A n \in Node : run[n] = IF n \in D THEN "running" ELSE st[n]
    BY DEF Running
  <1>5. \A n \in D : st[n] = "ready"
    BY DEF ReadySet
  <1>6. s \in Seq(LogEntry)
    OBVIOUS
  <1> HIDE DEF run, s
  <1>7. /\ Cardinality(Dispatches(l)) \in Nat
        /\ Cardinality(Dispatches(lm)) = Cardinality(Dispatches(l)) + 0
        /\ \A n \in Node : /\ Cardinality(DispatchesOf(l, n)) \in Nat
                           /\ Cardinality(DispatchesOf(lm, n)) = Cardinality(DispatchesOf(l, n)) + 0
    BY <1>1, DispatchesAdd
  <1> HIDE DEF lm
  <1>8. /\ Cardinality(Dispatches(lm \o s)) = Cardinality(Dispatches(lm)) + Cardinality(Dispatches(s))
        /\ \A n \in Node : /\ Cardinality(DispatchesOf(s, n)) \in Nat
                           /\ Cardinality(DispatchesOf(lm \o s, n)) =
                                Cardinality(DispatchesOf(lm, n)) + Cardinality(DispatchesOf(s, n))
    BY <1>2, <1>6, DispatchesAdd
  <1>9. ASSUME NEW n \in Node
        PROVE  Cardinality(DispatchesOf(lm \o s, n)) <= Due(run, att, n)
    <2> DEFINE a == Cardinality(DispatchesOf(l, n))
               b == Cardinality(DispatchesOf(s, n))
               c == Cardinality(DispatchesOf(lm \o s, n))
               x == att[n].retries + att[n].patches
    <2>1. c = a + b /\ a \in Nat /\ b \in Nat /\ b <= IF n \in D THEN 1 ELSE 0
      BY <1>3, <1>7, <1>8
    <2>2. a <= Due(st0, att0, n)
      BY DEF DispatchesPaid, Due
    <2>3. Due(st0, att0, n) \in Nat /\ Due(st0, att0, n) <= Due(st, att, n)
      OBVIOUS
    <2>4. x \in Nat
      <3>1. att[n] \in Attempt
        OBVIOUS
      <3>2. att[n].retries \in Nat /\ att[n].patches \in Nat
        BY <3>1, CapTypes DEF Attempt
      <3> QED
        BY <3>2
    <2>5. /\ Due(st, att, n) = x + (IF st[n] \in {"pending", "ready"} THEN 0 ELSE 1)
          /\ Due(run, att, n) = x + (IF run[n] \in {"pending", "ready"} THEN 0 ELSE 1)
      BY DEF Due
    <2> HIDE DEF a, b, c, x
    <2>6. CASE n \in D
      <3>1. st[n] = "ready" /\ run[n] = "running"
        BY <1>4, <1>5, <2>6
      <3> QED
        BY <2>1, <2>2, <2>3, <2>4, <2>5, <2>6, <3>1 DEF c
    <2>7. CASE n \notin D
      <3>1. run[n] = st[n]
        BY <1>4, <2>7
      <3> QED
        BY <2>1, <2>2, <2>3, <2>4, <2>5, <2>7, <3>1 DEF c
    <2> QED
      BY <2>6, <2>7
  <1>10. DispatchesPaid(lm \o s, run, att)
    BY <1>9 DEF DispatchesPaid, Due
  <1> QED
    BY <1>3, <1>7, <1>8, <1>10 DEF run, s, lm

\* A round that starts from node states st, to which its moves lead.
LEMMA RoundKeepsTInv ==
  ASSUME IInv, TInv, NEW moves, NEW st \in [Node -> NodeState],
         NEW busy, NEW given, NEW told,
         Leads(plan, state, moves, st), Quiet(moves),
         Coherent(plan, st, attempt', inFlight - 1, busy, given, told),
         Schedule(plan, st, inFlight - 1, busy, given), Round(moves, st),
         plan' = plan, attempt' \in [Node -> Attempt],
         \A n \in Node : Due(state, attempt, n) <= Due(st, attempt', n)
  PROVE  TInv'
  <1> DEFINE D == Dispatched(plan, st, inFlight - 1)
             run == Running(st, D)
             disp == Scan(st, run)
             k == log \o moves \o disp
  <1>1. /\ state' = run /\ inFlight' = inFlight - 1 + Cardinality(D)
        /\ log' = log \o moves \o Scan(st, state') /\ rounds' = rounds + 1
    BY DEF Schedule, Round
  <1>2. log' = k
    BY <1>1
  <1>3. plan \in PlanType /\ Accepted(plan) /\ inFlight \in Int
    BY DEF IInv, TypeOK
  <1>4. Leads(plan, st, disp, run)
    BY <1>3, DispatchLeads
  <1>5. D \in SUBSET ReadySet(st)
    BY DispatchedAreReady
  <1>6. /\ Leads(plan, Unstarted, log, state) /\ DispatchesPaid(log, state, attempt)
        /\ rounds \in Nat /\ rounds + inFlight <= 1 + Cardinality(Dispatches(log))
    BY DEF TInv, RoundsPaid
  <1>7. log \in Seq(LogEntry) /\ moves \in Seq(LogEntry) /\ disp \in Seq(LogEntry)
    BY <1>4, <1>6 DEF Leads
  <1> HIDE DEF D
  <1>8. Leads(plan, Unstarted, log \o moves, st)
    BY <1>6, LeadsOn
  <1>9. Leads(plan, Unstarted, k, run)
    BY <1>4, <1>8, LeadsOn
  <1>10. \A n \in Node : Due(state, attempt, n) \in Nat
    <2> SUFFICES ASSUME NEW n \in Node
                 PROVE  Due(state, attempt, n) \in Nat
      OBVIOUS
    <2>1. attempt[n] \in Attempt
      BY DEF IInv, TypeOK
    <2>2. attempt[n].retries \in Nat /\ attempt[n].patches \in Nat
      BY <2>1, CapTypes DEF Attempt
    <2> QED
      BY <2>2 DEF Due
  <1>11. /\ DispatchesPaid(k, run, attempt')
         /\ Cardinality(Dispatches(k)) = Cardinality(Dispatches(log)) + Cardinality(D)
         /\ Cardinality(Dispatches(log)) \in Nat /\ Cardinality(D) \in Nat
    BY <1>5, <1>6, <1>7, <1>10, DispatchesStayPaid
  <1> HIDE DEF k, run
  <1>12. Leads(plan, Unstarted, log', state') /\ DispatchesPaid(log', state', attempt')
    BY <1>1, <1>2, <1>9, <1>11
  <1>13. RoundsPaid(log', rounds', inFlight')
    BY <1>1, <1>2, <1>3, <1>6, <1>11 DEF RoundsPaid
  <1>14. Unstarted' = Unstarted
    BY DEF Unstarted
  <1> QED
    BY <1>12, <1>13 DEF TInv

\* The invariant holds when Run first blocks.
THEOREM TraceInitImpliesTInv == TraceInit => TInv
  <1> SUFFICES ASSUME TraceInit
               PROVE  TInv
    OBVIOUS
  <1> DEFINE st   == EntryState(plan)
             D    == Dispatched(plan, st, 0)
             run  == Running(st, D)
             busy == [n \in Node |-> "idle"]
             none == [n \in Node |-> {}]
             l    == Scan(Unstarted, st)
             disp == Scan(st, run)
  <1>1. /\ plan \in PlanType /\ Accepted(plan)
        /\ state = run /\ inFlight = Cardinality(D) /\ attempt = [n \in Node |-> Pristine]
        /\ log = l \o disp /\ rounds = 1
    BY PlansAssumption DEF TraceInit, Init
  <1>2. /\ st \in [Node -> NodeState]
        /\ \A n \in Node : st[n] \in {"ready", "pending"}
        /\ Coherent(plan, st, attempt, 0, busy, none, {})
    BY <1>1, EntryCoherent
  <1>3. Leads(plan, Unstarted, l, st)
    BY <1>1, BeginningLeads
  <1> HIDE DEF st, busy, none
  <1>4. Leads(plan, st, disp, run)
    BY <1>1, <1>2, DispatchLeads
  <1>5. D \in SUBSET ReadySet(st)
    BY DispatchedAreReady
  <1> HIDE DEF D
  <1>6. Leads(plan, Unstarted, l \o disp, run)
    BY <1>3, <1>4, LeadsOn
  <1>7. l \in Seq(LogEntry) /\ disp \in Seq(LogEntry)
    BY <1>3, <1>4 DEF Leads
  <1>8. Quiet(l)
    <2>1. \A n \in Node : st[n] # "running"
      BY <1>2
    <2> QED
      BY <2>1, QuietScan
  <1>9. attempt \in [Node -> Attempt]
    BY <1>1, CapTypes DEF Attempt, Pristine
  <1>10. \A n \in Node : attempt[n].retries = 0 /\ attempt[n].patches = 0
    BY <1>1 DEF Pristine
  <1> DEFINE e == <<>>
  <1>11. /\ DispatchesPaid(e \o l \o disp, run, attempt)
         /\ Cardinality(Dispatches(e \o l \o disp)) = Cardinality(Dispatches(e)) + Cardinality(D)
         /\ Cardinality(D) \in Nat /\ Cardinality(Dispatches(e)) = 0
    <2>1. Quiet(e) /\ e \in Seq(LogEntry)
      BY DEF Quiet
    <2> HIDE DEF e
    <2>2. /\ Cardinality(Dispatches(e)) = 0
          /\ \A n \in Node : Cardinality(DispatchesOf(e, n)) = 0
      BY <2>1, QuietCounts
    <2>3. \A n \in Node : Due(st, attempt, n) = 0
      BY <1>2, <1>10 DEF Due
    <2>4. \A n \in Node : Due(st, attempt, n) \in Nat /\ Due(st, attempt, n) <= Due(st, attempt, n)
      BY <2>3
    <2>5. DispatchesPaid(e, st, attempt)
      BY <2>2, <2>3 DEF DispatchesPaid, Due
    <2>6. disp \in Seq(LogEntry)
      BY <1>7
    <2>7. /\ DispatchesPaid(e \o l \o disp, run, attempt)
          /\ Cardinality(Dispatches(e \o l \o disp)) = Cardinality(Dispatches(e)) + Cardinality(D)
          /\ Cardinality(D) \in Nat
      BY <1>2, <1>5, <1>7, <1>8, <1>9, <2>1, <2>4, <2>5, DispatchesStayPaid
    <2> QED
      BY <2>2, <2>7
  <1>12. e \o l \o disp = l \o disp
    <2>1. e \o l = l
      BY <1>7, ConcatEmptySeq
    <2> QED
      BY <2>1
  <1> HIDE DEF e, l, disp, run
  <1>13. DispatchesPaid(log, state, attempt)
    BY <1>1, <1>11, <1>12
  <1>14. RoundsPaid(log, rounds, inFlight)
    BY <1>1, <1>11, <1>12 DEF RoundsPaid
  <1> QED
    BY <1>1, <1>6, <1>13, <1>14 DEF TInv

\* The round after a late event.
LEMMA LateKeepsTInv ==
  ASSUME IInv, TInv, NEW n \in Node, TraceLate(n)
  PROVE  TInv'
  <1> DEFINE none == <<>>
  <1>1. /\ worker[n] \in Result /\ IsTerminal(state[n]) /\ plan' = plan /\ attempt' = attempt
        /\ Schedule(plan, state, inFlight - 1, Freed(n), Released(n))
        /\ Round(none, state)
    BY DEF TraceLate, ReceiveLate, Receivable
  <1>2. /\ state \in [Node -> NodeState] /\ attempt \in [Node -> Attempt] /\ plan \in PlanType
    BY DEF IInv, TypeOK
  <1>3. state[n] = "skipped"
    BY <1>1, ReceivableNode
  <1>4. Coherent(plan, state, attempt, inFlight - 1, Freed(n), Released(n), cancelled \ {n})
    BY <1>1, <1>2, <1>3, EventCoherent DEF IInv, Coherent
  <1>5. Coherent(plan, state, attempt', inFlight - 1, Freed(n), Released(n), cancelled \ {n})
    BY <1>1, <1>4
  <1>6. Leads(plan, state, none, state)
    BY <1>2, StateIsCoherent, LeadsNowhere
  <1>7. Quiet(none)
    BY DEF Quiet
  <1>8. \A m \in Node : Due(state, attempt, m) \in Int
    <2> SUFFICES ASSUME NEW m \in Node
                 PROVE  Due(state, attempt, m) \in Int
      OBVIOUS
    <2>1. attempt[m] \in Attempt
      BY <1>2
    <2>2. attempt[m].retries \in Nat /\ attempt[m].patches \in Nat
      BY <2>1, CapTypes DEF Attempt
    <2> QED
      BY <2>2 DEF Due
  <1>9. \A m \in Node : Due(state, attempt, m) <= Due(state, attempt', m)
    BY <1>1, <1>8
  <1>10. attempt' \in [Node -> Attempt]
    BY <1>1, <1>2
  <1> HIDE DEF none
  <1> QED
    BY <1>1, <1>2, <1>5, <1>6, <1>7, <1>9, <1>10, RoundKeepsTInv

\* The round after a success.
LEMMA SuccessKeepsTInv ==
  ASSUME IInv, TInv, NEW n \in Node, TraceSuccess(n)
  PROVE  TInv'
  <1> DEFINE won == [state EXCEPT ![n] = "executed"]
             W   == CHOOSE V \in SUBSET Visits(plan, n) : IsSkipPass(plan, won, n, V)
  <1>1. /\ Receivable(n) /\ ~IsTerminal(state[n]) /\ plan' = plan /\ attempt' = attempt
        /\ Round(SuccessMoves(n, won, W), Promote(plan, Skip(won, Losers(plan, W))))
    BY DEF TraceSuccess, ReceiveSuccess
  <1>2. PICK V \in SUBSET Visits(plan, n) :
          LET L == Losers(plan, V)
          IN  /\ IsSkipPass(plan, won, n, V)
              /\ Schedule(plan, Promote(plan, Skip(won, L)), inFlight - 1, Freed(n), Released(n))
              /\ cancelled' = Told(n, L)
    BY DEF TraceSuccess, ReceiveSuccess
  <1>3. plan \in PlanType /\ Accepted(plan) /\ state \in [Node -> NodeState] /\ attempt \in [Node -> Attempt]
    BY DEF IInv, TypeOK
  <1>4. V = W
    <2>1. W \in SUBSET Visits(plan, n) /\ IsSkipPass(plan, won, n, W)
      BY <1>2
    <2> HIDE DEF W, won
    <2> QED
      BY <1>2, <1>3, <2>1, SkipPassUnique
  <1> HIDE DEF W
  <1> DEFINE L     == Losers(plan, V)
             sk    == Skip(won, L)
             up    == Promote(plan, sk)
             moves == SuccessMoves(n, won, V)
             told  == Told(n, L)
  <1>5. /\ state[n] = "running" /\ sk \in [Node -> NodeState] /\ up \in [Node -> NodeState]
        /\ Coherent(plan, up, attempt, inFlight - 1, Freed(n), Released(n), told)
    BY <1>1, <1>2, SuccessCoherent
  <1>6. Leads(plan, state, moves, up)
    BY <1>1, <1>2, SuccessLeads
  <1>7. Schedule(plan, up, inFlight - 1, Freed(n), Released(n))
    BY <1>2
  <1>8. Round(moves, up)
    BY <1>1, <1>4
  <1>9. Quiet(moves)
    <2> DEFINE a == <<Entry(n, state[n], "executed")>>
               b == Moves(LosersInOrder(plan, V), won, sk)
               c == Scan(sk, up)
    <2>1. Quiet(a) /\ a \in Seq(LogEntry)
      <3>1. state[n] \in LoggedState /\ "executed" \in LoggedState
        BY <1>3 DEF LoggedState, NodeState
      <3>2. Entry(n, state[n], "executed") \in LogEntry
        BY <3>1 DEF Entry, LogEntry
      <3>3. Entry(n, state[n], "executed").to # "running"
        BY DEF Entry
      <3> QED
        BY <3>2, <3>3 DEF Quiet
    <2>2. Quiet(b)
      BY <1>3, QuietSkips
    <2>3. Quiet(c)
      <3>1. \A m \in Node : up[m] = "running" => sk[m] = up[m]
        BY DEF Promote
      <3> HIDE DEF up
      <3> QED
        BY <3>1, QuietScan
    <2>4. b \in Seq(LogEntry)
      <3>1. /\ won \in [Node -> NodeState]
            /\ Coherent(plan, won, attempt, inFlight - 1, Freed(n), Released(n), cancelled \ {n})
        BY <1>1, <1>2, SuccessCoherent
      <3>2. Joined(plan, won) /\ Justified(plan, won) /\ LoneRunning(plan, won)
        BY <3>1, StaffedRunsAlone DEF Coherent
      <3>3. IsSkipPass(plan, won, n, V)
        BY <1>2
      <3> HIDE DEF won
      <3>4. Leads(plan, won, b, sk)
        BY <1>3, <3>1, <3>2, <3>3, SkipsLead
      <3> QED
        BY <3>4 DEF Leads
    <2>5. c \in Seq(LogEntry)
      <3>1. Coherent(plan, sk, attempt, inFlight - 1, Freed(n), Released(n), told)
        BY <1>1, <1>2, SuccessCoherent
      <3> HIDE DEF sk, told
      <3>2. Leads(plan, sk, c, up)
        BY <1>3, <1>5, <3>1, PromotionLeads
      <3> QED
        BY <3>2 DEF Leads
    <2>6. moves = a \o b \o c
      BY DEF SuccessMoves
    <2> HIDE DEF a, b, c, moves
    <2>7. Quiet(a \o b) /\ a \o b \in Seq(LogEntry)
      BY <2>1, <2>2, <2>4, QuietOn
    <2> QED
      BY <2>3, <2>5, <2>6, <2>7, QuietOn
  <1>10. \A m \in Node : Due(state, attempt, m) <= Due(up, attempt, m)
    <2> SUFFICES ASSUME NEW m \in Node
                 PROVE  Due(state, attempt, m) <= Due(up, attempt, m)
      OBVIOUS
    <2>1. attempt[m] \in Attempt
      BY <1>3
    <2>2. attempt[m].retries \in Nat /\ attempt[m].patches \in Nat
      BY <2>1, CapTypes DEF Attempt
    <2>3. up[m] \in {"pending", "ready"} => state[m] \in {"pending", "ready"}
      BY <1>3, <1>5 DEF Promote, Skip
    <2> HIDE DEF up
    <2> QED
      BY <2>2, <2>3 DEF Due
  <1> HIDE DEF up, moves, told
  <1>11. /\ Coherent(plan, up, attempt', inFlight - 1, Freed(n), Released(n), told)
         /\ attempt' \in [Node -> Attempt]
         /\ \A m \in Node : Due(state, attempt, m) <= Due(up, attempt', m)
    BY <1>1, <1>3, <1>5, <1>10
  <1> QED
    BY <1>1, <1>5, <1>6, <1>7, <1>8, <1>9, <1>11, RoundKeepsTInv

\* The round after a failure.
LEMMA FailureKeepsTInv ==
  ASSUME IInv, TInv, NEW n \in Node, TraceFailure(n)
  PROVE  TInv'
  <1> DEFINE d     == Decide(attempt[n], worker[n])
             att   == [attempt EXCEPT ![n] = Spend(@, d)]
             st    == [state EXCEPT ![n] = Verdict(d)]
             up    == Promote(plan, st)
             moves == FailureMoves(n, st)
  <1>1. /\ Receivable(n) /\ ~IsTerminal(state[n]) /\ worker[n] \in Failure
        /\ plan' = plan /\ attempt' = att
        /\ Schedule(plan, up, inFlight - 1, Freed(n), Released(n))
        /\ Round(moves, up)
    BY DEF TraceFailure, ReceiveFailure
  <1>2. plan \in PlanType /\ Accepted(plan) /\ state \in [Node -> NodeState] /\ attempt \in [Node -> Attempt]
    BY DEF IInv, TypeOK
  <1>3. /\ state[n] = "running" /\ Verdict(d) \in {"ready", "failed"} /\ att \in [Node -> Attempt]
        /\ st \in [Node -> NodeState] /\ up \in [Node -> NodeState]
        /\ Coherent(plan, st, att, inFlight - 1, Freed(n), Released(n), cancelled \ {n})
        /\ Coherent(plan, up, att, inFlight - 1, Freed(n), Released(n), cancelled \ {n})
    BY <1>1, FailureCoherent
  <1>4. Leads(plan, state, moves, up)
    BY <1>1, FailureLeads
  <1>5. Spend(attempt[n], d).retries + Spend(attempt[n], d).patches
          >= attempt[n].retries + attempt[n].patches + (IF Verdict(d) = "ready" THEN 1 ELSE 0)
    BY <1>1, <1>2, DecisionPays
  <1>6. /\ st[n] = Verdict(d) /\ att[n] = Spend(attempt[n], d)
        /\ \A m \in Node \ {n} : st[m] = state[m] /\ att[m] = attempt[m]
    BY <1>2
  <1> HIDE DEF d, att, st
  <1>7. Quiet(moves)
    <2> DEFINE a == <<Entry(n, state[n], "failed_retryable"), Entry(n, "failed_retryable", st[n])>>
               b == Scan(st, up)
    <2>1. Quiet(a) /\ a \in Seq(LogEntry)
      <3> DEFINE x == Entry(n, state[n], "failed_retryable")
                 y == Entry(n, "failed_retryable", st[n])
      <3>1. state[n] \in LoggedState /\ st[n] \in LoggedState /\ "failed_retryable" \in LoggedState
        BY <1>2, <1>3 DEF LoggedState
      <3>2. x \in LogEntry /\ y \in LogEntry
        BY <3>1 DEF Entry, LogEntry
      <3>3. x.to # "running" /\ y.to # "running"
        BY <1>3, <1>6 DEF Entry
      <3> HIDE DEF x, y
      <3>4. <<x, y>> \in Seq(LogEntry)
        BY <3>2
      <3>5. /\ DOMAIN <<x, y>> = {1, 2} /\ <<x, y>>[1] = x /\ <<x, y>>[2] = y
        OBVIOUS
      <3>6. Quiet(<<x, y>>)
        BY <3>3, <3>5 DEF Quiet
      <3> QED
        BY <3>4, <3>6 DEF x, y
    <2>2. Quiet(b)
      <3>1. \A m \in Node : up[m] = "running" => st[m] = up[m]
        BY DEF Promote
      <3> HIDE DEF up
      <3> QED
        BY <3>1, QuietScan
    <2>3. b \in Seq(LogEntry)
      <3>1. Leads(plan, st, b, up)
        BY <1>2, <1>3, PromotionLeads
      <3> QED
        BY <3>1 DEF Leads
    <2>4. moves = a \o b
      BY DEF FailureMoves
    <2> HIDE DEF a, b, moves
    <2> QED
      BY <2>1, <2>2, <2>3, <2>4, QuietOn
  <1>8. \A m \in Node : Due(state, attempt, m) <= Due(up, att, m)
    <2> SUFFICES ASSUME NEW m \in Node
                 PROVE  Due(state, attempt, m) <= Due(up, att, m)
      OBVIOUS
    <2>1. attempt[m] \in Attempt /\ att[m] \in Attempt
      BY <1>2, <1>3
    <2>2. /\ attempt[m].retries \in Nat /\ attempt[m].patches \in Nat
          /\ att[m].retries \in Nat /\ att[m].patches \in Nat
      BY <2>1, CapTypes DEF Attempt
    <2>3. up[m] = st[m] \/ (st[m] = "pending" /\ up[m] = "ready")
      BY <1>3 DEF Promote
    <2> HIDE DEF up
    <2>4. CASE m = n
      <3>1. up[m] \in {"ready", "failed"} /\ (up[m] = "ready" => Verdict(d) = "ready")
        BY <1>3, <1>6, <2>3, <2>4
      <3>2. att[m].retries + att[m].patches
              >= attempt[m].retries + attempt[m].patches + (IF Verdict(d) = "ready" THEN 1 ELSE 0)
        BY <1>5, <1>6, <2>4
      <3> QED
        BY <1>3, <2>2, <2>4, <3>1, <3>2 DEF Due
    <2>5. CASE m # n
      <3>1. st[m] = state[m] /\ att[m] = attempt[m]
        BY <1>6, <2>5
      <3> QED
        BY <2>2, <2>3, <3>1 DEF Due
    <2> QED
      BY <2>4, <2>5
  <1> HIDE DEF up, moves
  <1>9. /\ Coherent(plan, up, attempt', inFlight - 1, Freed(n), Released(n), cancelled \ {n})
        /\ attempt' \in [Node -> Attempt]
        /\ \A m \in Node : Due(state, attempt, m) <= Due(up, attempt', m)
    BY <1>1, <1>3, <1>8
  <1> QED
    BY <1>1, <1>3, <1>4, <1>7, <1>9, RoundKeepsTInv

\* A drained event.
LEMMA DrainKeepsTInv ==
  ASSUME IInv, TInv, NEW n \in Node, TraceDrain(n)
  PROVE  TInv'
  <1> DEFINE t == Drained(n)
             s == Scan(state, t)
  <1>1. /\ worker[n] \in Result /\ state' = t /\ plan' = plan /\ attempt' = attempt
        /\ inFlight' = inFlight - 1 /\ log' = log \o s /\ rounds' = rounds
    BY DEF TraceDrain, DrainReceive
  <1>2. state \in [Node -> NodeState] /\ attempt \in [Node -> Attempt] /\ inFlight \in Int
    BY DEF IInv, TypeOK
  <1>3. Leads(plan, state, s, t)
    BY <1>1, DrainLeads
  <1>4. /\ Leads(plan, Unstarted, log, state) /\ DispatchesPaid(log, state, attempt)
        /\ rounds \in Nat /\ rounds + inFlight <= 1 + Cardinality(Dispatches(log))
    BY DEF TInv, RoundsPaid
  <1>5. /\ \A m \in Node : t[m] = "running" => state[m] = t[m]
        /\ \A m \in Node : t[m] \in {"pending", "ready"} => state[m] \in {"pending", "ready"}
    BY <1>2 DEF Drained
  <1> HIDE DEF t
  <1>6. Quiet(s)
    BY <1>5, QuietScan
  <1>7. log \in Seq(LogEntry) /\ s \in Seq(LogEntry)
    BY <1>3, <1>4 DEF Leads
  <1> HIDE DEF s
  <1>8. Leads(plan, Unstarted, log', state')
    BY <1>1, <1>3, <1>4, LeadsOn
  <1>9. /\ Cardinality(Dispatches(s)) = 0
        /\ \A m \in Node : Cardinality(DispatchesOf(s, m)) = 0
    BY <1>6, QuietCounts
  <1>10. /\ Cardinality(Dispatches(log)) \in Nat
         /\ Cardinality(Dispatches(log')) = Cardinality(Dispatches(log)) + Cardinality(Dispatches(s))
         /\ \A m \in Node :
              /\ Cardinality(DispatchesOf(log, m)) \in Nat
              /\ Cardinality(DispatchesOf(log', m)) =
                   Cardinality(DispatchesOf(log, m)) + Cardinality(DispatchesOf(s, m))
    BY <1>1, <1>7, DispatchesAdd
  <1>11. RoundsPaid(log', rounds', inFlight')
    BY <1>1, <1>2, <1>4, <1>9, <1>10 DEF RoundsPaid
  <1>12. DispatchesPaid(log', state', attempt')
    <2> SUFFICES ASSUME NEW m \in Node
                 PROVE  Cardinality(DispatchesOf(log', m)) <= Due(t, attempt, m)
      BY <1>1 DEF DispatchesPaid, Due
    <2>1. Cardinality(DispatchesOf(log', m)) = Cardinality(DispatchesOf(log, m))
      BY <1>9, <1>10
    <2>2. Cardinality(DispatchesOf(log, m)) \in Nat
      BY <1>10
    <2>3. Cardinality(DispatchesOf(log, m)) <= Due(state, attempt, m)
      BY <1>4 DEF DispatchesPaid, Due
    <2>4. attempt[m] \in Attempt
      BY <1>2
    <2>5. attempt[m].retries \in Nat /\ attempt[m].patches \in Nat
      BY <2>4, CapTypes DEF Attempt
    <2> QED
      BY <1>5, <2>1, <2>2, <2>3, <2>5 DEF Due
  <1>13. Unstarted' = Unstarted
    BY DEF Unstarted
  <1> QED
    BY <1>1, <1>8, <1>11, <1>12, <1>13 DEF TInv

\* A step that logs nothing.
LEMMA SilentKeepsTInv ==
  ASSUME TInv, plan' = plan, state' = state, attempt' = attempt, inFlight' = inFlight,
         log' = log, rounds' = rounds
  PROVE  TInv'
  <1>1. Unstarted' = Unstarted
    BY DEF Unstarted
  <1> QED
    BY <1>1 DEF TInv

\* Every step of the traced run keeps the invariant.
THEOREM TraceNextKeepsTInv == IInv /\ TInv /\ [TraceNext]_<<vars, traceVars>> => TInv'
  <1> SUFFICES ASSUME IInv, TInv, [TraceNext]_<<vars, traceVars>>
               PROVE  TInv'
    OBVIOUS
  <1>1. ASSUME NEW n \in Node, TraceLate(n)
        PROVE  TInv'
    BY <1>1, LateKeepsTInv
  <1>2. ASSUME NEW n \in Node, TraceSuccess(n)
        PROVE  TInv'
    BY <1>2, SuccessKeepsTInv
  <1>3. ASSUME NEW n \in Node, TraceFailure(n)
        PROVE  TInv'
    BY <1>3, FailureKeepsTInv
  <1>4. ASSUME NEW n \in Node, TraceDrain(n)
        PROVE  TInv'
    BY <1>4, DrainKeepsTInv
  <1>5. CASE TraceSilent
    <2>1. /\ plan' = plan /\ state' = state /\ attempt' = attempt /\ inFlight' = inFlight
          /\ log' = log /\ rounds' = rounds
      BY <1>5 DEF TraceSilent, traceVars, StartDrain, CtxEnd, Returned, vars, Finish, Drop
    <2> QED
      BY <2>1, SilentKeepsTInv
  <1>6. CASE UNCHANGED <<vars, traceVars>>
    <2>1. /\ plan' = plan /\ state' = state /\ attempt' = attempt /\ inFlight' = inFlight
          /\ log' = log /\ rounds' = rounds
      BY <1>6 DEF vars, traceVars
    <2> QED
      BY <2>1, SilentKeepsTInv
  <1> QED
    BY <1>1, <1>2, <1>3, <1>4, <1>5, <1>6 DEF TraceNext

\* Keeping the trace hides no step of Run and adds none: a traced run is a run
\* of the Scheduler, so what is proved of the one holds of the other.
THEOREM TraceIsRun == TraceSpec => Spec
  <1>1. TraceInit => Init
    BY DEF TraceInit
  <1>2. [TraceNext]_<<vars, traceVars>> => [Next]_vars
    <2> SUFFICES ASSUME [TraceNext]_<<vars, traceVars>>
                 PROVE  [Next]_vars
      OBVIOUS
    <2>1. CASE TraceNext
      BY <2>1 DEF TraceNext, TraceLate, TraceSuccess, TraceFailure, TraceDrain, TraceSilent, Next
    <2>2. CASE UNCHANGED <<vars, traceVars>>
      BY <2>2
    <2> QED
      BY <2>1, <2>2
  <1> QED
    BY <1>1, <1>2, PTL DEF TraceSpec, Spec

\* The inductive invariant holds in every reachable state.
THEOREM TraceInvariance == TraceSpec => [](IInv /\ TInv)
  <1>1. TraceSpec => []IInv
    BY TraceIsRun, Invariance, PTL
  <1> QED
    BY <1>1, TraceInitImpliesTInv, TraceNextKeepsTInv, PTL DEF TraceSpec

-----------------------------------------------------------------------------
(* What the trace shows.                                                   *)

\* The whole log rebuilds the states of Run's nodes, and every entry starts
\* where the log before it left its node (transition, wal/doc.go's promise).
THEOREM LogRebuilds == TraceSpec => []LogRebuildsRun
  <1>1. TInv => LogRebuildsRun
    BY DEF TInv, Leads, LogRebuildsRun, Rebuilt
  <1> QED
    BY <1>1, TraceInvariance, PTL

\* Wherever a crash cuts the log, in the middle of a turn too, what is left
\* shows no state that the engine's rules exclude (Run's transitions, in the
\* order applyResult, skipLosers, promotePending and schedule make them).
THEOREM CutsAreCoherent == TraceSpec => []EveryCutIsCoherent
  <1>1. TInv => EveryCutIsCoherent
    BY DEF TInv, Leads, EveryCutIsCoherent, Rebuilt
  <1> QED
    BY <1>1, TraceInvariance, PTL

\* A node is dispatched at most once per rung of its ladder and once more, and
\* there are at most as many rounds as dispatches, and one (Theorem 6.2).
THEOREM RunsAreBounded == TraceSpec => []WorkIsBounded
  <1>1. IInv /\ TInv => WorkIsBounded
    <2> SUFFICES ASSUME IInv, TInv
                 PROVE  WorkIsBounded
      OBVIOUS
    <2>1. ASSUME NEW n \in Node
          PROVE  Cardinality(DispatchesOf(log, n)) <= 1 + RetryCap + PatchCap
      <3>1. Cardinality(DispatchesOf(log, n)) <= Due(state, attempt, n)
        BY DEF TInv, DispatchesPaid, Due
      <3>2. log \in Seq(LogEntry)
        BY DEF TInv, Leads
      <3>3. Cardinality(DispatchesOf(log, n)) \in Nat
        BY <3>2, DispatchesAdd
      <3>4. attempt[n] \in Attempt
        BY DEF IInv, TypeOK
      <3>5. attempt[n].retries \in 0 .. RetryCap /\ attempt[n].patches \in 0 .. PatchCap
        BY <3>4 DEF Attempt
      <3> QED
        BY <3>1, <3>3, <3>5, CapTypes DEF Due
    <2>2. rounds <= 1 + Cardinality(Dispatches(log))
      <3>1. rounds \in Nat /\ rounds + inFlight <= 1 + Cardinality(Dispatches(log))
        BY DEF TInv, RoundsPaid
      <3>2. inFlight \in Nat
        BY NAssumption DEF IInv, TypeOK
      <3>3. log \in Seq(LogEntry)
        BY DEF TInv, Leads
      <3>4. Cardinality(Dispatches(log)) \in Nat
        BY <3>3, DispatchesAdd
      <3> QED
        BY <3>1, <3>2, <3>4
    <2> QED
      BY <2>1, <2>2 DEF WorkIsBounded
  <1> QED
    BY <1>1, TraceInvariance, PTL

-----------------------------------------------------------------------------
(* The loops of Run: promotePending, schedule and skipLosers, one iteration *)
(* after the other.                                                        *)

\* promotePending runs along the plan order.
LEMMA PromotingRuns ==
  ASSUME NEW p, NEW st \in [Node -> NodeState]
  PROVE  /\ Promoting(p, st)[0] = st
         /\ \A n \in Node : Promoting(p, st)[n] = PromoteStep(p, Promoting(p, st)[n - 1], n)
  <1> DEFINE S == [Node -> NodeState]
             step == [n \in 1 .. N |-> [s \in S |-> PromoteStep(p, s, n)]]
             Is(f) == f = [n \in 0 .. N |-> IF n = 0 THEN st ELSE PromoteStep(p, f[n - 1], n)]
  <1>1. N \in Nat /\ Node = 1 .. N
    BY NAssumption DEF Node
  <1>2. \A n \in Node, s \in S : PromoteStep(p, s, n) \in S
    BY DEF PromoteStep, NodeState
  <1>3. step \in Bodies(N, S)
    BY <1>1, <1>2 DEF Bodies
  <1>4. PICK f : f \in Passes(N, S, st, step)
    <2> HIDE DEF step
    <2> QED
      BY <1>1, <1>3, LoopRuns
  <1>5. \A n \in 1 .. N : n - 1 \in 0 .. N /\ f[n] = PromoteStep(p, f[n - 1], n)
    <2> SUFFICES ASSUME NEW n \in 1 .. N
                 PROVE  n - 1 \in 0 .. N /\ f[n] = PromoteStep(p, f[n - 1], n)
      OBVIOUS
    <2>1. n - 1 \in 0 .. N
      BY <1>1
    <2>2. f[n] = step[n][f[n - 1]] /\ f[n - 1] \in S
      BY <1>4, <2>1 DEF Passes
    <2> QED
      BY <2>1, <2>2
  <1>6. Is(f)
    BY <1>1, <1>4, <1>5 DEF Passes
  <1>7. Promoting(p, st) = CHOOSE g : Is(g)
    BY DEF Promoting
  <1>8. Is(Promoting(p, st))
    <2> HIDE DEF Is
    <2> QED
      BY <1>6, <1>7
  <1> QED
    BY <1>1, <1>8

\* promotePending's loop promotes every node whose join is satisfied when it
\* begins: promoting one satisfies nobody else's.
LEMMA PromoteLoopPromotes ==
  ASSUME NEW p, NEW st \in [Node -> NodeState]
  PROVE  Promote(p, st) = PromoteLoop(p, st)
  <1> DEFINE UpTo(k) == [n \in Node |-> IF n <= k THEN Promote(p, st)[n] ELSE st[n]]
             P == {k \in 0 .. N : Promoting(p, st)[k] = UpTo(k)}
  <1>1. N \in Nat /\ Node = 1 .. N /\ N \in 0 .. N
    BY NAssumption DEF Node
  <1>2. Promote(p, st) \in [Node -> NodeState]
    BY PromoteEffect
  <1>3. 0 \in P
    <2>1. UpTo(0) = st
      BY <1>1
    <2>2. 0 \in 0 .. N
      BY <1>1
    <2> QED
      BY <2>1, <2>2, PromotingRuns
  <1>4. ASSUME NEW k \in 1 .. N, k - 1 \in P
        PROVE  k \in P
    <2> DEFINE s == UpTo(k - 1)
    <2>1. k \in Node /\ k \in 0 .. N /\ \A n \in Node : n <= k <=> n <= k - 1 \/ n = k
      BY <1>1
    <2>2. Promoting(p, st)[k] = PromoteStep(p, s, k)
      BY <1>4, <2>1, PromotingRuns
    <2>3. s[k] = st[k]
      BY <1>1, <2>1
    <2>4. DepsSatisfied(p, s, k) <=> DepsSatisfied(p, st, k)
      <3>1. \A n \in Node : s[n] = "executed" <=> st[n] = "executed"
        BY PromoteEffect
      <3>2. \A n \in Node : s[n] \in TerminalSuccess <=> st[n] \in TerminalSuccess
        BY PromoteEffect DEF TerminalSuccess
      <3> HIDE DEF s
      <3> QED
        BY <3>1, <3>2, SameDeps
    <2>5. PromoteStep(p, s, k) = UpTo(k)
      <3>1. s \in [Node -> NodeState]
        BY <1>2
      <3>2. ASSUME NEW n \in Node
            PROVE  PromoteStep(p, s, k)[n] = UpTo(k)[n]
        <4>1. CASE n = k
          BY <2>3, <2>4, <3>1, <4>1, <1>1 DEF PromoteStep, Promote
        <4>2. CASE n # k
          <5>1. PromoteStep(p, s, k)[n] = s[n]
            <6> HIDE DEF s
            <6> QED
              BY <3>1, <4>2 DEF PromoteStep
          <5> QED
            BY <2>1, <4>2, <5>1
        <4> QED
          BY <4>1, <4>2
      <3>3. PromoteStep(p, s, k) \in [Node -> NodeState]
        <4> HIDE DEF s
        <4> QED
          BY <3>1 DEF PromoteStep, NodeState
      <3> QED
        BY <3>2, <3>3
    <2> QED
      BY <2>1, <2>2, <2>5
  <1>5. \A k \in 0 .. N : k \in P
    <2> HIDE DEF P
    <2> QED
      BY <1>1, <1>3, <1>4, EveryIteration
  <1>6. N \in P
    <2> HIDE DEF P
    <2> QED
      BY <1>1, <1>5
  <1>7. UpTo(N) = Promote(p, st)
    BY <1>1, <1>2
  <1> QED
    BY <1>6, <1>7 DEF PromoteLoop

LEMMA DispatchingRuns ==
  ASSUME NEW p, NEW st \in [Node -> NodeState], NEW fl \in Int
  PROVE  /\ Dispatching(p, st, fl)[0] =
              [st |-> st, fl |-> fl, done |-> \E d \in Node : st[d] = "running" /\ IsDestructive(p, d)]
         /\ \A n \in Node : Dispatching(p, st, fl)[n] = DispatchStep(p, Dispatching(p, st, fl)[n - 1], n)
  <1> DEFINE S == [st : [Node -> NodeState], fl : Int, done : BOOLEAN]
             a == [st |-> st, fl |-> fl, done |-> \E d \in Node : st[d] = "running" /\ IsDestructive(p, d)]
             step == [n \in 1 .. N |-> [s \in S |-> DispatchStep(p, s, n)]]
             Is(f) == f = [n \in 0 .. N |-> IF n = 0 THEN a ELSE DispatchStep(p, f[n - 1], n)]
  <1>1. N \in Nat /\ Node = 1 .. N
    BY NAssumption DEF Node
  <1>2. ASSUME NEW n \in Node, NEW s \in S
        PROVE  DispatchStep(p, s, n) \in S
    <2>1. [s.st EXCEPT ![n] = "running"] \in [Node -> NodeState] /\ s.fl + 1 \in Int
      BY DEF NodeState
    <2>2. IsDestructive(p, n) \in BOOLEAN
      BY DEF IsDestructive
    <2>3. [st |-> s.st, fl |-> s.fl, done |-> TRUE] \in S
      OBVIOUS
    <2>4. [st |-> [s.st EXCEPT ![n] = "running"], fl |-> s.fl + 1, done |-> IsDestructive(p, n)] \in S
      BY <2>1, <2>2
    <2> HIDE DEF S
    <2> QED
      BY <2>3, <2>4 DEF DispatchStep
  <1>3. step \in Bodies(N, S)
    <2> HIDE DEF S
    <2> QED
      BY <1>1, <1>2 DEF Bodies
  <1>4. a \in S
    OBVIOUS
  <1> HIDE DEF S, a
  <1>5. PICK f : f \in Passes(N, S, a, step)
    <2> HIDE DEF step
    <2> QED
      BY <1>1, <1>3, <1>4, LoopRuns
  <1>6. \A n \in 1 .. N : n - 1 \in 0 .. N /\ f[n] = DispatchStep(p, f[n - 1], n)
    <2> SUFFICES ASSUME NEW n \in 1 .. N
                 PROVE  n - 1 \in 0 .. N /\ f[n] = DispatchStep(p, f[n - 1], n)
      OBVIOUS
    <2>1. n - 1 \in 0 .. N
      BY <1>1
    <2>2. f[n] = step[n][f[n - 1]] /\ f[n - 1] \in S
      BY <1>5, <2>1 DEF Passes
    <2> QED
      BY <2>1, <2>2
  <1>7. Is(f)
    BY <1>1, <1>5, <1>6 DEF Passes
  <1>8. Dispatching(p, st, fl) = CHOOSE g : Is(g)
    BY DEF Dispatching, a
  <1>9. Is(Dispatching(p, st, fl))
    <2> HIDE DEF Is
    <2> QED
      BY <1>7, <1>8
  <1>10. Dispatching(p, st, fl)[0] = a
    BY <1>1, <1>9
  <1>11. ASSUME NEW n \in Node
         PROVE  Dispatching(p, st, fl)[n] = DispatchStep(p, Dispatching(p, st, fl)[n - 1], n)
    <2>1. n \in 0 .. N /\ n # 0
      BY <1>1
    <2> QED
      BY <1>9, <2>1
  <1> QED
    BY <1>10, <1>11 DEF a

\* What schedule's loop has done after node k, D being all it dispatches: it
\* has dispatched D's members so far; it has returned only if there are no
\* more; and if it has not, nothing of what it has passed over was free to run.
DispatchedUpTo(p, st, fl, D, k, acc) ==
  LET sofar == {n \in D : n <= k}
  IN  /\ acc = [st |-> Running(st, sofar), fl |-> fl + Cardinality(sofar), done |-> acc.done]
      /\ acc.done \in BOOLEAN
      /\ acc.done => \A n \in D : n <= k
      /\ ~acc.done =>
           /\ \A n \in Node : ~(st[n] = "running" /\ IsDestructive(p, n))
           /\ \A n \in Alone(p, st, fl) : n > k
           /\ \A n \in ReadySet(st) : n <= k /\ ~IsDestructive(p, n) => n \in D

LEMMA DispatchGoesOn ==
  ASSUME NEW p, NEW st \in [Node -> NodeState], NEW fl \in Nat, NEW k \in Node, NEW acc,
         DispatchedUpTo(p, st, fl, Dispatched(p, st, fl), k - 1, acc)
  PROVE  DispatchedUpTo(p, st, fl, Dispatched(p, st, fl), k, DispatchStep(p, acc, k))
  <1> DEFINE D     == Dispatched(p, st, fl)
             E     == {n \in D : n <= k - 1}
             F     == {n \in D : n <= k}
             safe  == {n \in ReadySet(st) : ~IsDestructive(p, n)}
             alone == Alone(p, st, fl)
             next  == DispatchStep(p, acc, k)
  <1>0. acc = [st |-> Running(st, E), fl |-> fl + Cardinality(E), done |-> acc.done]
    BY DEF DispatchedUpTo
  <1>1. /\ acc.st = Running(st, E) /\ acc.fl = fl + Cardinality(E) /\ acc.done \in BOOLEAN
        /\ acc.done => \A n \in D : n <= k - 1
        /\ ~acc.done => /\ \A n \in Node : ~(st[n] = "running" /\ IsDestructive(p, n))
                        /\ \A n \in alone : n > k - 1
                        /\ \A n \in ReadySet(st) : n <= k - 1 /\ ~IsDestructive(p, n) => n \in D
    BY DEF DispatchedUpTo
  <1>2. /\ D \in SUBSET ReadySet(st) /\ ReadySet(st) \in SUBSET Node /\ safe \in SUBSET Node
        /\ alone \in SUBSET ReadySet(st)
        /\ D \in SUBSET Node /\ alone \in SUBSET Node
    <2>1. ReadySet(st) \in SUBSET Node
      BY DEF ReadySet
    <2>2. D \in SUBSET ReadySet(st) /\ alone \in SUBSET ReadySet(st) /\ safe \in SUBSET ReadySet(st)
      BY DispatchedAreReady DEF Alone
    <2> QED
      BY <2>1, <2>2
  <1>3. k \in Int /\ \A n \in Node : n \in Int /\ (n <= k <=> n <= k - 1 \/ n = k) /\ ~(k <= k - 1)
    BY NAssumption DEF Node
  <1>4. /\ E \in SUBSET Node /\ IsFiniteSet(E) /\ Cardinality(E) \in Nat
        /\ \A S \in SUBSET Node : IsFiniteSet(S) /\ Cardinality(S) \in Nat
    <2>1. E \in SUBSET Node
      BY <1>2
    <2> QED
      BY <2>1, NodesFinite
  <1>5. Width \in Nat \ {0}
    BY WidthType
  <1>6. ~acc.done => D = alone \/ (D = Alongside(p, st, fl) /\ alone = {})
    BY <1>1 DEF Dispatched
  <1>7. ~acc.done => D = IF alone # {} THEN alone ELSE Alongside(p, st, fl)
    BY <1>1 DEF Dispatched
  <1>8. \A n \in alone : fl = 0 /\ IsDestructive(p, n) /\ \A m \in ReadySet(st) : n <= m
    BY DEF Alone
  <1>9. D = Alongside(p, st, fl) => D = {n \in safe : fl + Cardinality({m \in safe : m < n}) < Width}
    BY DEF Alongside
  <1>10. ~acc.done /\ D = alone => E = {}
    <2> SUFFICES ASSUME ~acc.done, D = alone, NEW n \in E
                 PROVE  FALSE
      OBVIOUS
    <2>1. n \in alone /\ n <= k - 1 /\ n \in Node
      BY <1>2
    <2>2. n > k - 1 /\ n \in Int
      BY <1>1, <1>3, <2>1
    <2> QED
      BY <1>3, <2>1, <2>2
  <1>11. Cardinality({}) = 0
    BY FS_EmptySet
  <1> HIDE DEF D, safe, alone
  <1>12. ASSUME k \notin D, next = acc, acc.done \/ (k \notin alone /\ k \notin safe)
         PROVE  DispatchedUpTo(p, st, fl, D, k, next)
    <2>1. F = E
      BY <1>2, <1>3, <1>12
    <2>2. acc.done => \A n \in D : n <= k
      BY <1>1, <1>2, <1>3
    <2>3. ~acc.done => /\ \A n \in alone : n > k
                       /\ \A n \in ReadySet(st) : n <= k /\ ~IsDestructive(p, n) => n \in D
      <3>1. ASSUME ~acc.done, NEW n \in alone
            PROVE  n > k
        <4>1. n \in Int /\ n # k /\ n > k - 1
          BY <1>1, <1>2, <1>3, <1>12, <3>1
        <4> QED
          BY <1>3, <4>1
      <3>2. ASSUME ~acc.done, NEW n \in ReadySet(st), n <= k, ~IsDestructive(p, n)
            PROVE  n \in D
        <4>1. n # k
          BY <1>12, <3>2 DEF safe
        <4> QED
          BY <1>1, <1>2, <1>3, <3>2, <4>1
      <3> QED
        BY <3>1, <3>2
    <2> QED
      BY <1>0, <1>1, <1>12, <2>1, <2>2, <2>3 DEF DispatchedUpTo, alone
  <1>13. CASE acc.done
    <2>1. k \notin D
      BY <1>1, <1>3, <1>13
    <2>2. next = acc
      BY <1>13 DEF DispatchStep
    <2> QED
      BY <1>12, <1>13, <2>1, <2>2 DEF D
  <1>14. acc.st[k] = st[k]
    BY <1>1, <1>3 DEF Running
  <1>15. CASE ~acc.done /\ ~(acc.fl >= Width) /\ st[k] # "ready"
    <2>1. k \notin ReadySet(st)
      BY <1>15 DEF ReadySet
    <2>2. next = acc
      BY <1>14, <1>15 DEF DispatchStep
    <2> QED
      BY <1>2, <1>12, <2>1, <2>2 DEF D, safe
  <1>16. CASE ~acc.done /\ acc.fl >= Width
    <2>1. next = [st |-> acc.st, fl |-> acc.fl, done |-> TRUE]
      BY <1>14, <1>16 DEF DispatchStep
    <2>2. ASSUME NEW n \in D
          PROVE  n <= k - 1
      <3>0. n \in Node /\ n \in Int
        BY <1>2, <1>3
      <3> SUFFICES ASSUME n > k - 1
                   PROVE  FALSE
        BY <1>3, <3>0
      <3>1. CASE D = alone
        <4>1. n \in alone /\ fl = 0 /\ E = {}
          BY <1>8, <1>10, <1>16, <3>1
        <4>2. acc.fl = 0
          BY <1>1, <1>11, <4>1
        <4> QED
          BY <1>5, <1>16, <4>2
      <3>2. CASE D = Alongside(p, st, fl)
        <4> DEFINE B == {m \in safe : m < n}
        <4>1. fl + Cardinality(B) < Width
          BY <1>9, <3>2
        <4>2. E \in SUBSET B
          <5> SUFFICES ASSUME NEW m \in E
                       PROVE  m \in B
            OBVIOUS
          <5>1. m \in D /\ m <= k - 1 /\ m \in Int
            BY <1>2, <1>3
          <5>2. m \in safe
            BY <1>9, <3>2, <5>1
          <5> QED
            BY <1>3, <3>0, <5>1, <5>2
        <4>3. B \in SUBSET Node
          BY <1>2
        <4>4. Cardinality(E) <= Cardinality(B)
          <5> HIDE DEF B, E
          <5> QED
            BY <1>4, <4>2, <4>3, FS_Subset
        <4> QED
          BY <1>1, <1>4, <1>5, <1>16, <4>1, <4>3, <4>4
      <3> QED
        BY <1>6, <1>16, <3>1, <3>2
    <2>3. F = E /\ \A n \in D : n <= k
      BY <1>2, <1>3, <2>2
    <2>4. next = [st |-> Running(st, E), fl |-> fl + Cardinality(E), done |-> TRUE]
      <3> HIDE DEF E, next
      <3> QED
        BY <1>1, <2>1
    <2> HIDE DEF next
    <2>5. DispatchedUpTo(p, st, fl, D, k, next)
      BY <2>3, <2>4 DEF DispatchedUpTo
    <2> QED
      BY <2>5 DEF D, next
  <1>17. ~acc.done /\ E = {} => acc.fl = fl
    BY <1>1, <1>11
  <1>18. ~acc.done /\ acc.fl # 0 => k \notin alone
    <2> SUFFICES ASSUME ~acc.done, acc.fl # 0, k \in alone
                 PROVE  FALSE
      OBVIOUS
    <2>1. D = alone /\ fl = 0
      BY <1>7, <1>8
    <2> QED
      BY <1>10, <1>17, <2>1
  <1>19. CASE ~acc.done /\ st[k] = "ready" /\ ~(acc.fl >= Width) /\ IsDestructive(p, k) /\ acc.fl # 0
    <2>1. next = acc
      BY <1>14, <1>19 DEF DispatchStep
    <2>2. k \notin alone /\ k \notin safe
      BY <1>18, <1>19 DEF safe
    <2>3. k \notin D
      <3>1. D = Alongside(p, st, fl) => D \subseteq safe
        BY <1>9
      <3> QED
        BY <1>6, <1>19, <2>2, <3>1
    <2> QED
      BY <1>12, <2>1, <2>2, <2>3 DEF D
  <1>20. ASSUME k \in D, k \in ReadySet(st), ~acc.done, next.done => \A n \in D : n <= k,
                next = [st |-> [acc.st EXCEPT ![k] = "running"], fl |-> acc.fl + 1, done |-> IsDestructive(p, k)],
                ~IsDestructive(p, k) => alone = {}
         PROVE  DispatchedUpTo(p, st, fl, D, k, next)
    <2>1. F = E \cup {k} /\ k \notin E
      BY <1>2, <1>3, <1>20
    <2>2. Cardinality(F) = Cardinality(E) + 1
      <3> HIDE DEF E, F
      <3> QED
        BY <1>4, <2>1, FS_AddElement
    <2>3. [acc.st EXCEPT ![k] = "running"] = Running(st, F)
      <3> HIDE DEF E, F
      <3> QED
        BY <1>1, <2>1 DEF Running
    <2>4. acc.fl + 1 = fl + Cardinality(F)
      BY <1>1, <1>4, <2>2
    <2>5. next = [st |-> Running(st, F), fl |-> fl + Cardinality(F), done |-> IsDestructive(p, k)]
      BY <1>20, <2>3, <2>4
    <2>6. IsDestructive(p, k) \in BOOLEAN /\ next.done = IsDestructive(p, k)
      BY <1>20 DEF IsDestructive
    <2>7. ASSUME ~IsDestructive(p, k), NEW n \in ReadySet(st), n <= k, ~IsDestructive(p, n)
          PROVE  n \in D
      BY <1>1, <1>2, <1>3, <1>20, <2>7
    <2> HIDE DEF next
    <2> QED
      BY <1>1, <1>20, <2>5, <2>6, <2>7 DEF DispatchedUpTo, alone
  <1>21. CASE ~acc.done /\ st[k] = "ready" /\ ~(acc.fl >= Width) /\ ~(IsDestructive(p, k) /\ acc.fl # 0)
    <2>1. /\ k \in ReadySet(st)
          /\ next = [st |-> [acc.st EXCEPT ![k] = "running"], fl |-> acc.fl + 1, done |-> IsDestructive(p, k)]
      BY <1>14, <1>21 DEF DispatchStep, ReadySet
    <2>2. CASE IsDestructive(p, k)
      <3>1. acc.fl = 0 /\ fl = 0 /\ Cardinality(E) = 0
        BY <1>1, <1>4, <1>21, <2>2
      <3>2. E = {}
        <4> HIDE DEF E
        <4> QED
          BY <1>4, <3>1, FS_EmptySet
      <3>3. PICK f \in ReadySet(st) : \A m \in ReadySet(st) : f <= m
        BY <1>2, <2>1, FirstNode
      <3>4. f \in Node /\ f \in Int
        BY <1>2, <1>3, <3>3
      <3>5. ~(f <= k - 1)
        <4> SUFFICES ASSUME f <= k - 1
                     PROVE  FALSE
          OBVIOUS
        <4>1. CASE IsDestructive(p, f)
          <5>1. f \in alone
            BY <3>1, <3>3, <4>1 DEF alone, Alone
          <5> QED
            BY <1>1, <1>3, <1>21, <3>4, <5>1
        <4>2. CASE ~IsDestructive(p, f)
          <5>1. f \in D
            BY <1>1, <1>21, <3>3, <4>2
          <5> QED
            BY <3>2, <5>1
        <4> QED
          BY <4>1, <4>2
      <3>6. \A m \in ReadySet(st) : k <= m
        <4>1. f <= k /\ f = k
          BY <1>3, <2>1, <3>3, <3>4, <3>5
        <4> QED
          BY <3>3, <4>1
      <3>7. k \in alone
        BY <2>1, <2>2, <3>1, <3>6 DEF alone, Alone
      <3>8. D = alone
        BY <1>7, <1>21, <3>7
      <3>9. \A n \in D : n <= k
        BY <1>8, <2>1, <3>8
      <3> QED
        BY <1>20, <1>21, <2>1, <2>2, <3>7, <3>8, <3>9 DEF D
    <2>3. CASE ~IsDestructive(p, k)
      <3>1. alone = {}
        <4> SUFFICES ASSUME NEW a \in alone
                     PROVE  FALSE
          OBVIOUS
        <4>1. a > k - 1 /\ a <= k /\ a \in Int
          BY <1>1, <1>2, <1>3, <1>8, <1>21, <2>1
        <4>2. a = k
          BY <1>3, <4>1
        <4> QED
          BY <1>8, <2>3, <4>2
      <3>2. D = Alongside(p, st, fl)
        BY <1>7, <1>21, <3>1
      <3>3. k \in safe
        BY <2>1, <2>3 DEF safe
      <3>4. {m \in safe : m < k} = E
        <4>1. \A m \in safe : m < k => m \in E
          BY <1>1, <1>2, <1>3, <1>21 DEF safe
        <4>2. ASSUME NEW m \in E
              PROVE  m \in safe /\ m < k
          <5>1. m \in D /\ m <= k - 1 /\ m \in Int
            BY <1>2, <1>3
          <5>2. m \in safe
            BY <1>9, <3>2, <5>1
          <5> QED
            BY <1>3, <5>1, <5>2
        <4> QED
          BY <4>1, <4>2
      <3>5. k \in D
        BY <1>1, <1>4, <1>5, <1>9, <1>21, <3>2, <3>3, <3>4
      <3>6. ~next.done
        BY <2>1, <2>3
      <3> QED
        BY <1>20, <1>21, <2>1, <2>3, <3>1, <3>5, <3>6 DEF D
    <2> QED
      BY <2>2, <2>3
  <1> QED
    BY <1>1, <1>13, <1>15, <1>16, <1>19, <1>21
\* schedule's loop dispatches the nodes the closed form names.
LEMMA DispatchLoopDispatches ==
  ASSUME NEW p, NEW st \in [Node -> NodeState], NEW fl \in Nat
  PROVE  Running(st, Dispatched(p, st, fl)) = DispatchLoop(p, st, fl)
  <1> DEFINE D == Dispatched(p, st, fl)
             after == Dispatching(p, st, fl)
             P == {k \in 0 .. N : DispatchedUpTo(p, st, fl, D, k, after[k])}
  <1>1. N \in Nat /\ Node = 1 .. N /\ N \in 0 .. N /\ 0 \in 0 .. N
    BY NAssumption DEF Node
  <1>2. D \in SUBSET Node
    BY DispatchedAreReady DEF ReadySet
  <1>3. /\ after[0] = [st |-> st, fl |-> fl, done |-> \E d \in Node : st[d] = "running" /\ IsDestructive(p, d)]
        /\ \A n \in Node : after[n] = DispatchStep(p, after[n - 1], n)
    BY DispatchingRuns
  <1>4. 0 \in P
    <2>1. {n \in D : n <= 0} = {}
      BY <1>1, <1>2
    <2>2. Running(st, {}) = st
      BY DEF Running
    <2>3. Cardinality({}) = 0 /\ fl + 0 = fl
      BY FS_EmptySet
    <2>4. after[0].done => D = {}
      BY <1>3 DEF Dispatched
    <2>5. /\ \A n \in Alone(p, st, fl) : n > 0
          /\ \A n \in ReadySet(st) : ~(n <= 0)
      BY <1>1 DEF Alone, ReadySet
    <2>6. after[0].done \in BOOLEAN /\ (~after[0].done => \A n \in Node : ~(st[n] = "running" /\ IsDestructive(p, n)))
      BY <1>3
    <2>7. after[0] = [st |-> Running(st, {}), fl |-> fl + Cardinality({}), done |-> after[0].done]
      <3>1. PICK b : b = \E d \in Node : st[d] = "running" /\ IsDestructive(p, d)
        OBVIOUS
      <3>2. after[0] = [st |-> st, fl |-> fl, done |-> b]
        BY <1>3, <3>1
      <3> HIDE DEF after
      <3>3. after[0].done = b
        BY <3>2
      <3> QED
        BY <2>2, <2>3, <3>2, <3>3
    <2> HIDE DEF after, D
    <2>8. DispatchedUpTo(p, st, fl, D, 0, after[0])
      BY <2>1, <2>4, <2>5, <2>6, <2>7 DEF DispatchedUpTo
    <2> QED
      BY <1>1, <2>8
  <1>5. ASSUME NEW k \in 1 .. N, k - 1 \in P
        PROVE  k \in P
    <2>1. k \in Node /\ k \in 0 .. N
      BY <1>1
    <2>2. DispatchedUpTo(p, st, fl, D, k, DispatchStep(p, after[k - 1], k))
      BY <1>5, <2>1, DispatchGoesOn
    <2> QED
      BY <1>3, <2>1, <2>2
  <1> HIDE DEF after
  <1>6. N \in P
    <2> HIDE DEF P
    <2>1. \A k \in 0 .. N : k \in P
      BY <1>1, <1>4, <1>5, EveryIteration
    <2> QED
      BY <1>1, <2>1
  <1>7. {n \in D : n <= N} = D
    BY <1>1, <1>2
  <1> HIDE DEF D
  <1>8. after[N].st = Running(st, D)
    <2>1. DispatchedUpTo(p, st, fl, D, N, after[N])
      BY <1>6
    <2>2. PICK d : d = after[N].done
      OBVIOUS
    <2>3. after[N] = [st |-> Running(st, D), fl |-> fl + Cardinality(D), done |-> d]
      BY <1>7, <2>1, <2>2 DEF DispatchedUpTo
    <2> QED
      BY <2>3
  <1> QED
    BY <1>8 DEF DispatchLoop, D, after

-----------------------------------------------------------------------------
(* The loops of skipLosers.                                                *)

LEMMA EdgesJoinNodes ==
  ASSUME NEW p \in PlanType
  PROVE  /\ Len(p.edges) \in Nat /\ DOMAIN p.edges = 1 .. Len(p.edges)
         /\ \A e \in 1 .. Len(p.edges) : From(p, e) \in Node /\ To(p, e) \in Node
  <1>1. p.edges \in Seq(Node \X Node)
    BY DEF PlanType
  <1>2. \A e \in 1 .. Len(p.edges) : p.edges[e] \in Node \X Node
    BY <1>1
  <1> QED
    BY <1>1, <1>2 DEF From, To

LEMMA SkipCandidateType ==
  ASSUME NEW p, NEW winner, NEW st \in [Node -> NodeState], NEW c
  PROVE  SkipCandidate(p, winner, st, c) \in [Node -> NodeState]
  BY DEF SkipCandidate, NodeState

LEMMA SkipIntoRuns ==
  ASSUME NEW p \in PlanType, NEW winner, NEW st \in [Node -> NodeState], NEW j
  PROVE  LET after == SkipInto(p, winner, st, j)
         IN  /\ after \in [0 .. Len(p.edges) -> [Node -> NodeState]]
             /\ after[0] = st
             /\ \A e \in 1 .. Len(p.edges) :
                  after[e] = IF To(p, e) # j THEN after[e - 1]
                             ELSE SkipCandidate(p, winner, after[e - 1], From(p, e))
  <1> DEFINE M == Len(p.edges)
             S == [Node -> NodeState]
             Body(s, e) == IF To(p, e) # j THEN s ELSE SkipCandidate(p, winner, s, From(p, e))
             step == [e \in 1 .. M |-> [s \in S |-> Body(s, e)]]
             Is(f) == f = [e \in 0 .. M |-> IF e = 0 THEN st
                                            ELSE IF To(p, e) # j THEN f[e - 1]
                                            ELSE SkipCandidate(p, winner, f[e - 1], From(p, e))]
             after == SkipInto(p, winner, st, j)
  <1>1. M \in Nat
    BY EdgesJoinNodes
  <1>2. \A e \in 1 .. M, s \in S : Body(s, e) \in S
    BY SkipCandidateType
  <1>3. step \in Bodies(M, S)
    <2> HIDE DEF S, Body, M
    <2> QED
      BY <1>2 DEF Bodies
  <1>4. PICK f : f \in Passes(M, S, st, step)
    <2>1. st \in S
      OBVIOUS
    <2> HIDE DEF step, S, M
    <2> QED
      BY <1>1, <1>3, <2>1, LoopRuns
  <1>5. f \in [0 .. M -> S] /\ f[0] = st /\ \A e \in 1 .. M : f[e] = Body(f[e - 1], e)
    <2>1. f \in [0 .. M -> S] /\ f[0] = st /\ \A e \in 1 .. M : f[e] = step[e][f[e - 1]]
      BY <1>4 DEF Passes
    <2> HIDE DEF S, Body, M
    <2>2. ASSUME NEW e \in 1 .. M
          PROVE  f[e] = Body(f[e - 1], e)
      <3>1. e - 1 \in 0 .. M
        BY <1>1
      <3>2. f[e - 1] \in S
        BY <2>1, <3>1
      <3> QED
        BY <2>1, <3>2
    <2> QED
      BY <2>1, <2>2
  <1>6. Is(f)
    <2> HIDE DEF S, M
    <2> QED
      BY <1>1, <1>5
  <1>7. after = CHOOSE g : Is(g)
    BY DEF SkipInto
  <1>8. Is(after)
    <2> HIDE DEF Is, after
    <2> QED
      BY <1>6, <1>7
  <1> HIDE DEF after
  <1>9. after[0] = st /\ \A e \in 1 .. M : after[e] = Body(after[e - 1], e)
    <2> HIDE DEF M
    <2>1. after[0] = st
      BY <1>1, <1>8
    <2>2. ASSUME NEW e \in 1 .. M
          PROVE  after[e] = Body(after[e - 1], e)
      <3>1. e \in 0 .. M /\ e # 0
        BY <1>1
      <3> QED
        BY <1>8, <3>1
    <2> QED
      BY <2>1, <2>2
  <1>10. after \in [0 .. M -> S]
    <2> DEFINE P == {k \in 0 .. M : after[k] \in S}
    <2> HIDE DEF M, Body
    <2>1. 0 \in P
      BY <1>1, <1>9
    <2>2. ASSUME NEW k \in 1 .. M, k - 1 \in P
          PROVE  k \in P
      BY <1>1, <1>2, <1>9, <2>2
    <2>3. \A k \in 0 .. M : k \in P
      <3> HIDE DEF P
      <3> QED
        BY <1>1, <2>1, <2>2, EveryIteration
    <2>4. after = [k \in 0 .. M |-> after[k]]
      BY <1>8
    <2> HIDE DEF S, Is
    <2>5. \A k \in 0 .. M : after[k] \in S
      BY <2>3
    <2> QED
      BY <2>4, <2>5
  <1> QED
    BY <1>9, <1>10 DEF after

LEMMA SkipFromRuns ==
  ASSUME NEW p \in PlanType, NEW winner, NEW st \in [Node -> NodeState]
  PROVE  LET after == SkipFrom(p, st, winner)
         IN  /\ after \in [0 .. Len(p.edges) -> [Node -> NodeState]]
             /\ after[0] = st
             /\ \A e \in 1 .. Len(p.edges) :
                  after[e] = IF From(p, e) # winner \/ p.join[To(p, e)] # "any_of" THEN after[e - 1]
                             ELSE SkipInto(p, winner, after[e - 1], To(p, e))[Len(p.edges)]
  <1> DEFINE M == Len(p.edges)
             S == [Node -> NodeState]
             Body(s, e) == IF From(p, e) # winner \/ p.join[To(p, e)] # "any_of" THEN s
                           ELSE SkipInto(p, winner, s, To(p, e))[M]
             step == [e \in 1 .. M |-> [s \in S |-> Body(s, e)]]
             Is(f) == f = [e \in 0 .. M |-> IF e = 0 THEN st
                                            ELSE IF From(p, e) # winner \/ p.join[To(p, e)] # "any_of" THEN f[e - 1]
                                            ELSE SkipInto(p, winner, f[e - 1], To(p, e))[M]]
             after == SkipFrom(p, st, winner)
  <1>1. M \in Nat
    BY EdgesJoinNodes
  <1>2. \A e \in 1 .. M, s \in S : Body(s, e) \in S
    <2> SUFFICES ASSUME NEW e \in 1 .. M, NEW s \in S
                 PROVE  Body(s, e) \in S
      OBVIOUS
    <2>1. M \in 0 .. M
      BY <1>1
    <2>2. SkipInto(p, winner, s, To(p, e))[M] \in S
      <3>1. SkipInto(p, winner, s, To(p, e)) \in [0 .. M -> S]
        BY SkipIntoRuns
      <3> HIDE DEF S, M
      <3> QED
        BY <2>1, <3>1
    <2> QED
      BY <2>2
  <1>3. step \in Bodies(M, S)
    <2> HIDE DEF S, Body, M
    <2> QED
      BY <1>2 DEF Bodies
  <1>4. PICK f : f \in Passes(M, S, st, step)
    <2>1. st \in S
      OBVIOUS
    <2> HIDE DEF step, S, M
    <2> QED
      BY <1>1, <1>3, <2>1, LoopRuns
  <1>5. f \in [0 .. M -> S] /\ f[0] = st /\ \A e \in 1 .. M : f[e] = Body(f[e - 1], e)
    <2>1. f \in [0 .. M -> S] /\ f[0] = st /\ \A e \in 1 .. M : f[e] = step[e][f[e - 1]]
      BY <1>4 DEF Passes
    <2> HIDE DEF S, Body, M
    <2>2. ASSUME NEW e \in 1 .. M
          PROVE  f[e] = Body(f[e - 1], e)
      <3>1. e - 1 \in 0 .. M
        BY <1>1
      <3>2. f[e - 1] \in S
        BY <2>1, <3>1
      <3> QED
        BY <2>1, <3>2
    <2> QED
      BY <2>1, <2>2
  <1>6. Is(f)
    <2> HIDE DEF S, M
    <2> QED
      BY <1>1, <1>5
  <1>7. after = CHOOSE g : Is(g)
    BY DEF SkipFrom
  <1>8. Is(after)
    <2> HIDE DEF Is, after
    <2> QED
      BY <1>6, <1>7
  <1> HIDE DEF after
  <1>9. after[0] = st /\ \A e \in 1 .. M : after[e] = Body(after[e - 1], e)
    <2> HIDE DEF M
    <2>1. after[0] = st
      BY <1>1, <1>8
    <2>2. ASSUME NEW e \in 1 .. M
          PROVE  after[e] = Body(after[e - 1], e)
      <3>1. e \in 0 .. M /\ e # 0
        BY <1>1
      <3> QED
        BY <1>8, <3>1
    <2> QED
      BY <2>1, <2>2
  <1>10. after \in [0 .. M -> S]
    <2> DEFINE P == {k \in 0 .. M : after[k] \in S}
    <2> HIDE DEF M, Body
    <2>1. 0 \in P
      BY <1>1, <1>9
    <2>2. ASSUME NEW k \in 1 .. M, k - 1 \in P
          PROVE  k \in P
      BY <1>1, <1>2, <1>9, <2>2
    <2>3. \A k \in 0 .. M : k \in P
      <3> HIDE DEF P
      <3> QED
        BY <1>1, <2>1, <2>2, EveryIteration
    <2>4. after = [k \in 0 .. M |-> after[k]]
      BY <1>8
    <2> HIDE DEF S, Is
    <2>5. \A k \in 0 .. M : after[k] \in S
      BY <2>3
    <2> QED
      BY <2>4, <2>5
  <1> QED
    BY <1>9, <1>10 DEF after

\* The inner loop's run at the winner's edge i.
Row(p, st, winner, i) == SkipInto(p, winner, SkipFrom(p, st, winner)[i - 1], To(p, i))

\* The iterations of the two loops that skip their candidate.
LoopVisits(p, st, winner) ==
  {v \in Visits(p, winner) :
     LET s == Row(p, st, winner, v[1])[v[2] - 1]
     IN  ~IsTerminal(s[Cand(p, v)]) /\ ~StillNeeded(p, s, Cand(p, v))}

\* Those up to iteration <<i, j>>.
VisitsUpTo(V, i, j) == {u \in V : u[1] < i \/ (u[1] = i /\ u[2] <= j)}

\* An inner loop skips the candidates of its own iterations on top of what the
\* outer one has skipped before.
LEMMA RowSkips ==
  ASSUME NEW p \in PlanType, NEW st \in [Node -> NodeState], NEW winner \in Node,
         NEW i \in 1 .. Len(p.edges), From(p, i) = winner, p.join[To(p, i)] = "any_of",
         NEW V, V = LoopVisits(p, st, winner),
         SkipFrom(p, st, winner)[i - 1] = Skip(st, Losers(p, VisitsUpTo(V, i, 0)))
  PROVE  \A j \in 0 .. Len(p.edges) :
           Row(p, st, winner, i)[j] = Skip(st, Losers(p, VisitsUpTo(V, i, j)))
  <1> DEFINE M == Len(p.edges)
             row == Row(p, st, winner, i)
             S(j) == Skip(st, Losers(p, VisitsUpTo(V, i, j)))
             P == {j \in 0 .. M : row[j] = S(j)}
  <1>1. M \in Nat /\ DOMAIN p.edges = 1 .. M /\ \A e \in 1 .. M : From(p, e) \in Node
    BY EdgesJoinNodes
  <1>2. \A L : Skip(st, L) \in [Node -> NodeState]
    BY DEF Skip, NodeState
  <1>3. /\ row[0] = S(0)
        /\ \A e \in 1 .. M : row[e] = IF To(p, e) # To(p, i) THEN row[e - 1]
                                      ELSE SkipCandidate(p, winner, row[e - 1], From(p, e))
    <2>1. SkipFrom(p, st, winner)[i - 1] \in [Node -> NodeState]
      BY <1>2
    <2> DEFINE s0 == SkipFrom(p, st, winner)[i - 1]
    <2>2. row = SkipInto(p, winner, s0, To(p, i)) /\ s0 = S(0)
      BY DEF Row
    <2> HIDE DEF s0, row, S
    <2> QED
      BY <2>1, <2>2, SkipIntoRuns DEF s0
  <1>4. \A u \in V : u \in Visits(p, winner) /\ u[1] \in 1 .. M /\ u[2] \in 1 .. M /\ u = <<u[1], u[2]>>
    BY <1>1 DEF LoopVisits, Visits
  <1> HIDE DEF row
  <1>5. 0 \in P
    BY <1>1, <1>3
  <1>6. ASSUME NEW j \in 1 .. M, j - 1 \in P
        PROVE  j \in P
    <2> DEFINE s == S(j - 1)
               c == From(p, j)
               v == <<i, j>>
               A == VisitsUpTo(V, i, j - 1)
    <2>1. j \in 0 .. M /\ j \in Int /\ i \in Int /\ c \in Node
      BY <1>1
    <2>2. row[j - 1] = s
      BY <1>6
    <2>3. s \in [Node -> NodeState]
      BY <1>2
    <2>4. VisitsUpTo(V, i, j) = IF v \in V THEN A \cup {v} ELSE A
      <3>1. ASSUME NEW u \in V
            PROVE  u[1] < i \/ (u[1] = i /\ u[2] <= j) <=> (u[1] < i \/ (u[1] = i /\ u[2] <= j - 1)) \/ u = v
        <4>1. u[2] <= j <=> u[2] <= j - 1 \/ u[2] = j
          BY <1>4, <2>1
        <4>2. u = v <=> u[1] = i /\ u[2] = j
          BY <1>4
        <4> QED
          BY <4>1, <4>2
      <3> QED
        BY <3>1 DEF VisitsUpTo
    <2>5. CASE v \in V
      <3>1. v \in Visits(p, winner) /\ Cand(p, v) = c
        BY <1>4, <2>5 DEF Cand
      <3>2. ~IsTerminal(s[c]) /\ ~StillNeeded(p, s, c)
        BY <2>2, <2>5, <3>1 DEF LoopVisits, row
      <3>3. To(p, j) = To(p, i) /\ c # winner
        BY <3>1 DEF Visits
      <3>4. row[j] = [s EXCEPT ![c] = "skipped"]
        <4> HIDE DEF s
        <4> QED
          BY <1>3, <2>2, <3>2, <3>3 DEF SkipCandidate
      <3>5. Losers(p, A \cup {v}) = Losers(p, A) \cup {c}
        BY <3>1 DEF Losers
      <3>6. Skip(st, Losers(p, A) \cup {c}) = [Skip(st, Losers(p, A)) EXCEPT ![c] = "skipped"]
        BY DEF Skip
      <3> QED
        BY <2>1, <2>4, <2>5, <3>4, <3>5, <3>6
    <2>6. CASE v \notin V
      <3>1. row[j] = s
        <4>1. CASE To(p, j) # To(p, i)
          BY <1>3, <2>2, <4>1
        <4>2. CASE To(p, j) = To(p, i)
          <5>1. row[j] = SkipCandidate(p, winner, s, c)
            BY <1>3, <2>2, <4>2
          <5>2. CASE c = winner
            BY <5>1, <5>2 DEF SkipCandidate
          <5>3. CASE c # winner
            <6>1. v \in Visits(p, winner) /\ Cand(p, v) = c /\ v[1] = i /\ v[2] = j
              BY <1>1, <4>2, <5>3 DEF Visits, Cand
            <6>2. IsTerminal(s[c]) \/ StillNeeded(p, s, c)
              BY <2>2, <2>6, <6>1 DEF LoopVisits, row
            <6> QED
              BY <5>1, <6>2 DEF SkipCandidate
          <5> QED
            BY <5>2, <5>3
        <4> QED
          BY <4>1, <4>2
      <3> QED
        BY <2>1, <2>4, <2>6, <3>1
    <2> QED
      BY <2>5, <2>6
  <1> HIDE DEF P
  <1>7. \A j \in 0 .. M : j \in P
    BY <1>1, <1>5, <1>6, EveryIteration
  <1> QED
    BY <1>7 DEF P, row

\* skipLosers' loops skip the candidates of their own iterations.
LEMMA LoopsSkip ==
  ASSUME NEW p \in PlanType, NEW st \in [Node -> NodeState], NEW winner \in Node,
         NEW V, V = LoopVisits(p, st, winner)
  PROVE  \A i \in 0 .. Len(p.edges) :
           SkipFrom(p, st, winner)[i] = Skip(st, Losers(p, VisitsUpTo(V, i, Len(p.edges))))
  <1> DEFINE M == Len(p.edges)
             after == SkipFrom(p, st, winner)
             P == {i \in 0 .. M : after[i] = Skip(st, Losers(p, VisitsUpTo(V, i, M)))}
  <1>1. M \in Nat /\ DOMAIN p.edges = 1 .. M
    BY EdgesJoinNodes
  <1>2. /\ after[0] = st
        /\ \A e \in 1 .. M :
             after[e] = IF From(p, e) # winner \/ p.join[To(p, e)] # "any_of" THEN after[e - 1]
                        ELSE SkipInto(p, winner, after[e - 1], To(p, e))[M]
    BY SkipFromRuns
  <1>3. \A u \in V : u \in Visits(p, winner) /\ u[1] \in 1 .. M /\ u[2] \in 1 .. M
    BY <1>1 DEF LoopVisits, Visits
  <1> HIDE DEF after
  <1>4. 0 \in P
    <2>1. VisitsUpTo(V, 0, M) = {}
      BY <1>3 DEF VisitsUpTo
    <2>2. Skip(st, Losers(p, {})) = st
      BY DEF Skip, Losers
    <2>3. 0 \in 0 .. M /\ after[0] = st
      BY <1>1, <1>2
    <2> QED
      BY <2>1, <2>2, <2>3
  <1>5. ASSUME NEW i \in 1 .. M, i - 1 \in P
        PROVE  i \in P
    <2>1. i \in 0 .. M /\ M \in 0 .. M
      BY <1>1
    <2>2. VisitsUpTo(V, i - 1, M) = VisitsUpTo(V, i, 0)
      <3>1. ASSUME NEW u \in V
            PROVE  u[1] < i - 1 \/ (u[1] = i - 1 /\ u[2] <= M) <=> u[1] < i \/ (u[1] = i /\ u[2] <= 0)
        BY <1>1, <1>3
      <3> QED
        BY <3>1 DEF VisitsUpTo
    <2>3. after[i - 1] = Skip(st, Losers(p, VisitsUpTo(V, i, 0)))
      BY <1>5, <2>2
    <2>4. CASE From(p, i) = winner /\ p.join[To(p, i)] = "any_of"
      <3>1. Row(p, st, winner, i)[M] = Skip(st, Losers(p, VisitsUpTo(V, i, M)))
        BY <2>1, <2>3, <2>4, RowSkips DEF after
      <3>2. after[i] = Row(p, st, winner, i)[M]
        BY <1>2, <2>4 DEF Row, after
      <3> QED
        BY <2>1, <3>1, <3>2
    <2>5. CASE ~(From(p, i) = winner /\ p.join[To(p, i)] = "any_of")
      <3>1. after[i] = after[i - 1]
        BY <1>2, <2>5
      <3>2. \A u \in V : u[1] # i
        BY <1>3, <2>5 DEF Visits
      <3>3. VisitsUpTo(V, i, 0) = VisitsUpTo(V, i, M)
        BY <3>2 DEF VisitsUpTo
      <3> QED
        BY <2>1, <2>3, <3>1, <3>3
    <2> QED
      BY <2>4, <2>5
  <1> HIDE DEF P
  <1>6. \A i \in 0 .. M : i \in P
    BY <1>1, <1>4, <1>5, EveryIteration
  <1> QED
    BY <1>6 DEF P, after

\* skipLosers is a skip pass, and what it skips are that pass's losers.
LEMMA LoopIsSkipPass ==
  ASSUME NEW p \in PlanType, NEW st \in [Node -> NodeState], NEW winner \in Node,
         NEW V, V = LoopVisits(p, st, winner)
  PROVE  /\ V \in SUBSET Visits(p, winner)
         /\ IsSkipPass(p, st, winner, V)
         /\ Skip(st, Losers(p, V)) = SkipLoop(p, st, winner)
  <1> DEFINE M == Len(p.edges)
  <1>1. M \in Nat /\ DOMAIN p.edges = 1 .. M
    BY EdgesJoinNodes
  <1>2. \A u \in Visits(p, winner) : u[1] \in 1 .. M /\ u[2] \in 1 .. M
    BY <1>1 DEF Visits
  <1>3. V \in SUBSET Visits(p, winner)
    BY DEF LoopVisits
  <1>4. ASSUME NEW v \in Visits(p, winner)
        PROVE  v \in V <=> LET s == Before(p, st, V, v)
                           IN  ~IsTerminal(s[Cand(p, v)]) /\ ~StillNeeded(p, s, Cand(p, v))
    <2> DEFINE i == v[1]
               j == v[2]
    <2>1. /\ i \in 1 .. M /\ i \in Int /\ i - 1 \in 0 .. M
          /\ j \in 1 .. M /\ j \in Int /\ j - 1 \in 0 .. M
          /\ From(p, i) = winner /\ p.join[To(p, i)] = "any_of"
      BY <1>1, <1>2 DEF Visits
    <2>2. VisitsUpTo(V, i - 1, M) = VisitsUpTo(V, i, 0)
      <3>1. ASSUME NEW u \in V
            PROVE  u[1] < i - 1 \/ (u[1] = i - 1 /\ u[2] <= M) <=> u[1] < i \/ (u[1] = i /\ u[2] <= 0)
        BY <1>1, <1>2, <1>3, <2>1
      <3> QED
        BY <3>1 DEF VisitsUpTo
    <2>3. SkipFrom(p, st, winner)[i - 1] = Skip(st, Losers(p, VisitsUpTo(V, i, 0)))
      BY <2>1, <2>2, LoopsSkip
    <2>4. Row(p, st, winner, i)[j - 1] = Skip(st, Losers(p, VisitsUpTo(V, i, j - 1)))
      <3> HIDE DEF i, j
      <3> QED
        BY <2>1, <2>3, RowSkips
    <2>5. VisitsUpTo(V, i, j - 1) = {u \in V : Earlier(u, v)}
      <3>1. ASSUME NEW u \in V
            PROVE  u[1] < i \/ (u[1] = i /\ u[2] <= j - 1) <=> Earlier(u, v)
        BY <1>2, <1>3, <2>1 DEF Earlier
      <3> QED
        BY <3>1 DEF VisitsUpTo
    <2>6. Row(p, st, winner, i)[j - 1] = Before(p, st, V, v)
      BY <2>4, <2>5 DEF Before
    <2> QED
      BY <2>6 DEF LoopVisits
  <1>5. Skip(st, Losers(p, V)) = SkipLoop(p, st, winner)
    <2>1. VisitsUpTo(V, M, M) = V
      BY <1>1, <1>2, <1>3 DEF VisitsUpTo
    <2>2. M \in 0 .. M
      BY <1>1
    <2> QED
      BY <2>1, <2>2, LoopsSkip DEF SkipLoop
  <1> QED
    BY <1>3, <1>4, <1>5 DEF IsSkipPass

\* There is exactly one skip pass, and skipLosers is it.
LEMMA SkipPassesAreTheLoop ==
  ASSUME NEW n \in Node, plan \in PlanType, NEW won \in [Node -> NodeState]
  PROVE  SkipPassIsTheLoop(won, n)
  <1> DEFINE V == LoopVisits(plan, won, n)
             passes == {W \in SUBSET Visits(plan, n) : IsSkipPass(plan, won, n, W)}
  <1>1. /\ V \in SUBSET Visits(plan, n) /\ IsSkipPass(plan, won, n, V)
        /\ Skip(won, Losers(plan, V)) = SkipLoop(plan, won, n)
    BY LoopIsSkipPass
  <1> HIDE DEF V
  <1>2. V \in passes
    BY <1>1
  <1>3. \A W \in passes : W = V
    BY <1>1, SkipPassUnique
  <1>4. passes = {V}
    <2> HIDE DEF passes
    <2> QED
      BY <1>2, <1>3
  <1> QED
    BY <1>1, <1>2, <1>4 DEF SkipPassIsTheLoop

\* Promotion and dispatch are their loops.
LEMMA RestsAreTheLoops ==
  ASSUME plan \in PlanType, NEW st \in [Node -> NodeState], NEW fl \in Nat
  PROVE  RestIsTheLoop(st, fl)
  <1>1. Promote(plan, st) \in [Node -> NodeState]
    BY PromoteEffect
  <1>2. Promote(plan, st) = PromoteLoop(plan, st)
    BY PromoteLoopPromotes
  <1>3. Running(Promote(plan, st), Dispatched(plan, Promote(plan, st), fl))
          = DispatchLoop(plan, Promote(plan, st), fl)
    BY <1>1, DispatchLoopDispatches
  <1> QED
    BY <1>2, <1>3 DEF RestIsTheLoop

LEMMA TurnsMatch ==
  ASSUME IInv
  PROVE  TurnsAreTheLoops
  <1>1. plan \in PlanType /\ state \in [Node -> NodeState]
    BY DEF IInv, TypeOK
  <1> SUFFICES ASSUME NEW n \in Node, Receivable(n)
               PROVE  IF IsTerminal(state[n]) THEN RestIsTheLoop(state, inFlight - 1)
                      ELSE IF worker[n] = "ok"
                        THEN LET won == [state EXCEPT ![n] = "executed"]
                             IN  SkipPassIsTheLoop(won, n) /\ RestIsTheLoop(SkipLoop(plan, won, n), inFlight - 1)
                        ELSE \A d \in {"ready", "failed"} : RestIsTheLoop([state EXCEPT ![n] = d], inFlight - 1)
    BY DEF TurnsAreTheLoops
  <1>2. inFlight - 1 \in Nat
    <2>1. n \in Busy(worker)
      BY DEF Receivable, Result, Failure, Busy
    <2>2. Busy(worker) \in SUBSET Node
      BY DEF Busy
    <2>3. inFlight = Cardinality(Busy(worker)) /\ inFlight \in Nat
      BY DEF IInv, TypeOK, Coherent, Counted
    <2>4. IsFiniteSet(Busy(worker))
      BY <2>2, NodesFinite
    <2>5. inFlight # 0
      BY <2>1, <2>3, <2>4, FS_EmptySet
    <2> QED
      BY <2>3, <2>5
  <1> DEFINE won == [state EXCEPT ![n] = "executed"]
  <1>3. won \in [Node -> NodeState] /\ \A d \in {"ready", "failed"} : [state EXCEPT ![n] = d] \in [Node -> NodeState]
    BY <1>1 DEF NodeState
  <1>4. SkipLoop(plan, won, n) \in [Node -> NodeState]
    <2>1. \A L : Skip(won, L) \in [Node -> NodeState]
      BY <1>3 DEF Skip, NodeState
    <2> HIDE DEF won
    <2>2. SkipLoop(plan, won, n) = Skip(won, Losers(plan, LoopVisits(plan, won, n)))
      BY <1>1, <1>3, LoopIsSkipPass
    <2> QED
      BY <2>1, <2>2
  <1>5. SkipPassIsTheLoop(won, n) /\ RestIsTheLoop(SkipLoop(plan, won, n), inFlight - 1)
    <2> HIDE DEF won
    <2> QED
      BY <1>1, <1>2, <1>3, <1>4, SkipPassesAreTheLoop, RestsAreTheLoops
  <1>6. RestIsTheLoop(state, inFlight - 1)
    BY <1>1, <1>2, RestsAreTheLoops
  <1>7. \A d \in {"ready", "failed"} : RestIsTheLoop([state EXCEPT ![n] = d], inFlight - 1)
    BY <1>1, <1>2, <1>3, RestsAreTheLoops
  <1> QED
    BY <1>5, <1>6, <1>7

\* In every turn the loops of Run (skipLosers, promotePending, schedule) do to
\* the node states what Scheduler's actions say, whatever the plan and the
\* order of its edges; in particular a skip pass always exists, so that no
\* success is an event the loop could not take.
THEOREM LoopsAreTheTurns == Spec => []TurnsAreTheLoops
  <1>1. IInv => TurnsAreTheLoops
    BY TurnsMatch
  <1> QED
    BY <1>1, Invariance, PTL

=============================================================================
