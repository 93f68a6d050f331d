------------------------------ MODULE ListLemmas ------------------------------
(***************************************************************************)
(* The least-number principle, stated for a set: the proofs about the      *)
(* searches through SourceHook's lists use it to find the first element,   *)
(* and in place of induction (as the least counterexample).  From it, what *)
(* erasing elements from a list leaves of it (Sublists).                   *)
(***************************************************************************)
EXTENDS Sublists, FiniteSets, FiniteSetTheorems, WellFoundedInduction, TLAPS

\* Every non-empty set of naturals has a least element: the strict subset order on
\* the segments 0..k-1 is well founded.
THEOREM LeastNatural ==
    ASSUME NEW T, T \subseteq Nat, T # {}
    PROVE  \E n \in T : \A k \in T : n <= k
<1>. DEFINE Segments == {0..k-1 : k \in T}
<1>1. Segments \subseteq FiniteSubsetsOf(Nat)
  <2>1. ASSUME NEW k \in T
        PROVE  0..k-1 \in SUBSET Nat /\ IsFiniteSet(0..k-1)
    BY FS_Interval
  <2>. QED
    BY <2>1 DEF FiniteSubsetsOf
<1>2. Segments # {}
  OBVIOUS
<1>3. PICK s \in Segments : \A r \in Segments : <<r, s>> \notin StrictSubsetOrdering(Nat)
  <2>. HIDE DEF Segments
  <2>. QED
    BY <1>1, <1>2, FS_StrictSubsetOrderingWellFounded, WFMin
<1>4. PICK n \in T : s = 0..n-1
  BY <1>3
<1>5. ASSUME NEW k \in T, k < n
      PROVE  FALSE
  <2>1. 0..k-1 \subseteq 0..n-1 /\ k \in 0..n-1 /\ k \notin 0..k-1
    BY <1>5
  <2>2. 0..k-1 \in SUBSET Nat /\ s \in SUBSET Nat /\ 0..k-1 \subseteq s /\ 0..k-1 # s
    BY <2>1, <1>4
  <2>3. <<0..k-1, s>> \in StrictSubsetOrdering(Nat)
    BY <2>2, Zenon DEF StrictSubsetOrdering
  <2>. QED
    BY <1>3, <2>3
<1>. QED
  BY <1>5

\* Without's body as a step from the lists kept of the prefixes.
KeptFrom(s, M, f, n) ==
    IF n = 0 THEN <<>>
    ELSE IF s[n] \in M THEN f[n - 1]
    ELSE Append(f[n - 1], s[n])

\* The recursive function in Without exists: otherwise take the shortest prefix of
\* s for which it does not.
LEMMA KeptExists ==
    ASSUME NEW S, NEW s \in Seq(S), NEW M
    PROVE  \E f : f = [n \in 0..Len(s) |-> KeptFrom(s, M, f, n)]
<1>. DEFINE Exists(k) == \E f : f = [n \in 0..k |-> KeptFrom(s, M, f, n)]
            Bad == {k \in 0..Len(s) : ~Exists(k)}
<1>1. Len(s) \in Nat
  OBVIOUS
<1>2. SUFFICES ASSUME Bad # {}
               PROVE  FALSE
  BY <1>1
<1>3. PICK k \in Bad : \A j \in Bad : k <= j
  <2>1. Bad \subseteq Nat
    BY <1>1
  <2>. HIDE DEF Bad
  <2>. QED
    BY <1>2, <2>1, LeastNatural
<1>4. CASE k = 0
  <2>1. [n \in 0..0 |-> <<>>] = [n \in 0..0 |-> KeptFrom(s, M, [i \in 0..0 |-> <<>>], n)]
    BY DEF KeptFrom
  <2>. QED
    BY <1>3, <1>4, <2>1
<1>5. CASE k > 0
  <2>1. k - 1 \in 0..Len(s) /\ k - 1 \notin Bad
    BY <1>1, <1>3, <1>5
  <2>2. PICK f : f = [n \in 0..k - 1 |-> KeptFrom(s, M, f, n)]
    BY <2>1
  <2>3. PICK g : g = [n \in 0..k |-> IF n = k THEN KeptFrom(s, M, f, k) ELSE f[n]]
    OBVIOUS
  <2>4. ASSUME NEW n \in 0..k
        PROVE  g[n] = KeptFrom(s, M, g, n)
    <3>1. CASE n = k
      <4>1. g[k - 1] = f[k - 1]
        BY <1>1, <1>3, <1>5, <2>3
      <4>. QED
        BY <1>5, <2>3, <3>1, <4>1 DEF KeptFrom
    <3>2. CASE n < k
      <4>1. n \in 0..k - 1 /\ g[n] = f[n] /\ f[n] = KeptFrom(s, M, f, n)
        BY <1>1, <1>3, <2>2, <2>3, <3>2
      <4>2. n # 0 => g[n - 1] = f[n - 1]
        BY <1>1, <1>3, <2>3, <3>2
      <4>. QED
        BY <4>1, <4>2 DEF KeptFrom
    <3>. QED
      BY <1>1, <1>3, <3>1, <3>2
  <2>5. g = [n \in 0..k |-> KeptFrom(s, M, g, n)]
    BY <2>3, <2>4
  <2>. QED
    BY <1>3, <2>5
<1>. QED
  BY <1>1, <1>3, <1>4, <1>5

\* Erasing elements keeps the others, in their order, and the first one first.
LEMMA WithoutIsSublist ==
    ASSUME NEW S, NEW s \in Seq(S), NEW M
    PROVE  /\ Without(s, M) \in Seq(S)
           /\ Elements(Without(s, M)) = Elements(s) \ M
           /\ \A i, j \in DOMAIN Without(s, M) : i < j =>
                 \E a, b \in DOMAIN s : a < b /\ Without(s, M)[i] = s[a] /\ Without(s, M)[j] = s[b]
           /\ s # <<>> /\ s[1] \notin M => Without(s, M) # <<>> /\ Without(s, M)[1] = s[1]
<1>1. PICK f : /\ f = [n \in 0..Len(s) |-> KeptFrom(s, M, f, n)]
               /\ Without(s, M) = f[Len(s)]
  <2>. DEFINE kept == CHOOSE f : f = [n \in 0..Len(s) |-> KeptFrom(s, M, f, n)]
  <2>1. Without(s, M) = kept[Len(s)]
    BY DEF Without, KeptFrom
  <2>2. kept = [n \in 0..Len(s) |-> KeptFrom(s, M, kept, n)]
    BY KeptExists, Zenon
  <2>. QED
    BY <2>1, <2>2
<1>. DEFINE Good(n) == /\ f[n] \in Seq(S)
                       /\ {f[n][i] : i \in 1..Len(f[n])} = {s[i] : i \in 1..n} \ M
                       /\ \A i, j \in 1..Len(f[n]) : i < j =>
                             \E a, b \in 1..n : a < b /\ f[n][i] = s[a] /\ f[n][j] = s[b]
                       /\ n > 0 /\ s[1] \notin M => f[n] # <<>> /\ f[n][1] = s[1]
            Bad == {n \in 0..Len(s) : ~Good(n)}
<1>2. Len(s) \in Nat /\ \A i \in 1..Len(s) : s[i] \in S
  OBVIOUS
<1>3. ASSUME Bad # {}
      PROVE  FALSE
  <2>1. PICK n \in Bad : \A k \in Bad : n <= k
    <3>1. Bad \subseteq Nat
      BY <1>2
    <3>. HIDE DEF Bad
    <3>. QED
      BY <1>3, <3>1, LeastNatural
  <2>2. n \in 0..Len(s) /\ ~Good(n)
    BY <2>1
  <2>3. f[n] = KeptFrom(s, M, f, n)
    BY <1>1, <2>2
  <2>4. n # 0
    <3>1. ASSUME n = 0
          PROVE  Good(n)
      <4>1. f[n] = <<>>
        BY <2>3, <3>1 DEF KeptFrom
      <4>. QED
        BY <3>1, <4>1
    <3>. QED
      BY <2>2, <3>1
  <2>5. n - 1 \in 0..Len(s) /\ n \in 1..Len(s) /\ Good(n - 1)
    <3>1. n - 1 \in 0..Len(s) /\ n \in 1..Len(s)
      BY <1>2, <2>2, <2>4
    <3>2. n - 1 \notin Bad
      <4>. HIDE DEF Bad
      <4>. QED
        BY <2>1, <2>2, <3>1
    <3>. QED
      BY <3>1, <3>2
  <2>6. {s[i] : i \in 1..n} = {s[i] : i \in 1..n - 1} \union {s[n]}
    BY <2>5
  <2>7. CASE s[n] \in M
    <3>1. f[n] = f[n - 1]
      BY <2>3, <2>4, <2>7 DEF KeptFrom
    <3>2. n - 1 > 0 \/ s[1] \in M
      BY <2>5, <2>7
    <3>3. \A i, j \in 1..Len(f[n]) : i < j =>
             \E a, b \in 1..n : a < b /\ f[n][i] = s[a] /\ f[n][j] = s[b]
      <4>1. \A i, j \in 1..Len(f[n - 1]) : i < j =>
               \E a, b \in 1..n - 1 : a < b /\ f[n - 1][i] = s[a] /\ f[n - 1][j] = s[b]
        BY <2>5
      <4>2. 1..n - 1 \subseteq 1..n
        BY <2>5
      <4>. HIDE DEF Good, Bad
      <4>3. ASSUME NEW i \in 1..Len(f[n]), NEW j \in 1..Len(f[n]), i < j
            PROVE  \E a, b \in 1..n : a < b /\ f[n][i] = s[a] /\ f[n][j] = s[b]
        <5>1. PICK a, b \in 1..n - 1 : a < b /\ f[n - 1][i] = s[a] /\ f[n - 1][j] = s[b]
          BY <3>1, <4>1, <4>3
        <5>. QED
          BY <3>1, <4>2, <5>1
      <4>. QED
        BY <4>3
    <3>4. {f[n][i] : i \in 1..Len(f[n])} = {s[i] : i \in 1..n} \ M
      <4>1. {f[n - 1][i] : i \in 1..Len(f[n - 1])} = {s[i] : i \in 1..n - 1} \ M
        BY <2>5
      <4>. HIDE DEF Good, Bad
      <4>. QED
        BY <2>6, <2>7, <3>1, <4>1
    <3>. QED
      BY <2>2, <2>5, <3>1, <3>2, <3>3, <3>4
  <2>8. CASE s[n] \notin M
    <3>. DEFINE r == f[n - 1]
    <3>1. f[n] = Append(r, s[n])
      BY <2>3, <2>4, <2>8 DEF KeptFrom
    <3>2. r \in Seq(S) /\ s[n] \in S
      BY <1>2, <2>5
    <3>3. /\ f[n] \in Seq(S)
          /\ Len(r) \in Nat
          /\ Len(f[n]) = Len(r) + 1
          /\ f[n][Len(r) + 1] = s[n]
          /\ \A i \in 1..Len(r) : f[n][i] = r[i]
      BY <3>1, <3>2
    <3>4. {f[n][i] : i \in 1..Len(f[n])} = {s[i] : i \in 1..n} \ M
      <4>. HIDE DEF r, Good, Bad
      <4>1. {f[n][i] : i \in 1..Len(f[n])} = {r[i] : i \in 1..Len(r)} \union {s[n]}
        BY <3>3
      <4>. USE DEF r, Good
      <4>. QED
        BY <2>5, <2>6, <2>8, <4>1
    <3>5. ASSUME NEW i \in 1..Len(f[n]), NEW j \in 1..Len(f[n]), i < j
          PROVE  \E a, b \in 1..n : a < b /\ f[n][i] = s[a] /\ f[n][j] = s[b]
      <4>1. CASE j <= Len(r)
        <5>1. i \in 1..Len(r) /\ j \in 1..Len(r) /\ f[n][i] = r[i] /\ f[n][j] = r[j]
          <6>. HIDE DEF r, Good, Bad
          <6>. QED
            BY <3>3, <3>5, <4>1
        <5>2. PICK a, b \in 1..n - 1 : a < b /\ r[i] = s[a] /\ r[j] = s[b]
          BY <2>5, <3>5, <5>1
        <5>. QED
          BY <2>5, <5>1, <5>2
      <4>2. CASE j = Len(r) + 1
        <5>1. i \in 1..Len(r) /\ f[n][i] = r[i] /\ f[n][j] = s[n]
          <6>. HIDE DEF r, Good, Bad
          <6>. QED
            BY <3>3, <3>5, <4>2
        <5>2. r[i] \in {s[k] : k \in 1..n - 1}
          BY <2>5, <5>1
        <5>3. PICK k \in 1..n - 1 : r[i] = s[k]
          BY <5>2
        <5>. QED
          BY <2>5, <5>1, <5>3
      <4>. QED
        BY <3>3, <3>5, <4>1, <4>2
    <3>6. s[1] \notin M => f[n] # <<>> /\ f[n][1] = s[1]
      <4>1. CASE n = 1
        <5>1. r = <<>>
          BY <1>1, <1>2, <4>1 DEF KeptFrom
        <5>. QED
          BY <3>3, <4>1, <5>1
      <4>2. CASE n # 1
        <5>1. n - 1 > 0
          BY <2>5, <4>2
        <5>2. s[1] \notin M => r # <<>> /\ r[1] = s[1]
          BY <2>5, <5>1
        <5>. QED
          BY <3>2, <3>3, <5>2
      <4>. QED
        BY <4>1, <4>2
    <3>7. \A i, j \in 1..Len(f[n]) : i < j =>
             \E a, b \in 1..n : a < b /\ f[n][i] = s[a] /\ f[n][j] = s[b]
      BY <3>5
    <3>. QED
      BY <2>2, <3>3, <3>4, <3>6, <3>7
  <2>. QED
    BY <2>7, <2>8
<1>4. Good(Len(s))
  <2>1. Bad = {}
    <3>. HIDE DEF Bad
    <3>. QED
      BY <1>3
  <2>2. Len(s) \in 0..Len(s)
    BY <1>2
  <2>3. \A n \in 0..Len(s) : Good(n)
    BY <2>1
  <2>. QED
    BY <2>2, <2>3
<1>5. DOMAIN s = 1..Len(s) /\ DOMAIN Without(s, M) = 1..Len(Without(s, M))
  BY <1>1, <1>4
<1>6. s # <<>> => Len(s) > 0
  OBVIOUS
<1>. QED
  BY <1>1, <1>4, <1>5, <1>6 DEF Elements
=============================================================================
