---- MODULE SourceHookLoops_proofs ----
EXTENDS SourceHookStack_proofs

-----------------------------------------------------------------------------
(* What a loop has still ahead of it in a list *)

\* The place of the iterator in the list, 0 before its first hook.
Index(list, x) == SelectInSeq(list, LAMBDA h : h = x)
Place(list, iter) == IF iter = AtStart THEN 0 ELSE Index(list, iter)
After(list, iter) == {list[k] : k \in {j \in DOMAIN list : j > Place(list, iter)}}

\* What a sequence over a set has at its indices.
LEMMA ListIsTyped ==
    ASSUME NEW S, NEW s \in Seq(S)
    PROVE  Len(s) \in Nat /\ DOMAIN s = 1..Len(s) /\ \A k \in DOMAIN s : s[k] \in S
  OBVIOUS

\* A search finds where a hook is.
LEMMA PlaceFound ==
    ASSUME NEW list \in Seq(1..MaxIds), IsInjective(list), NEW x
    PROVE  /\ Index(list, x) \in 0..Len(list)
           /\ \A k \in DOMAIN list : list[k] = x => Index(list, x) = k
           /\ x \notin Elements(list) => Index(list, x) = 0
<1>. DEFINE I == {i \in 1..Len(list) : list[i] = x}
            p == Index(list, x)
<1>1. Len(list) \in Nat /\ DOMAIN list = 1..Len(list)
  OBVIOUS
<1>2. p = IF I # {} THEN Min(I) ELSE 0
  BY DEF Index, SelectInSeq
<1>3. \A i \in I : i \in DOMAIN list /\ list[i] = x
  BY <1>1
<1>4. \A k \in DOMAIN list : list[k] = x => k \in I
  BY <1>1
<1>. HIDE DEF I, p
<1>5. I # {} => p \in I
  <2>1. I \subseteq Nat
    BY <1>1, <1>3
  <2>. QED
    BY <1>2, <2>1, MinIsOne
<1>6. x \notin Elements(list) => I = {}
  BY <1>3 DEF Elements
<1>7. \A k \in DOMAIN list : list[k] = x => p = k
  BY <1>3, <1>4, <1>5 DEF IsInjective
<1>8. p \in 0..Len(list) /\ (I = {} => p = 0)
  BY <1>1, <1>2, <1>3, <1>5
<1>. QED
  BY <1>6, <1>7, <1>8 DEF p

\* The iterator's place, at the head of the list or at one of its hooks.
LEMMA PlaceOf ==
    ASSUME NEW list \in Seq(1..MaxIds), IsInjective(list), NEW x
    PROVE  /\ Place(list, x) \in 0..Len(list)
           /\ \A k \in DOMAIN list : list[k] = x => Place(list, x) = k
           /\ x \notin Elements(list) => Place(list, x) = 0
<1>1. Len(list) \in Nat /\ \A k \in DOMAIN list : list[k] \in 1..MaxIds
  BY ListIsTyped
<1>2. \A k \in DOMAIN list : list[k] # AtStart
  BY <1>1 DEF AtStart
<1>3. CASE x = AtStart
  <2>1. Place(list, x) = 0
    BY <1>3 DEF Place
  <2>. QED
    BY <1>1, <1>2, <1>3, <2>1
<1>4. CASE x # AtStart
  <2>1. Place(list, x) = Index(list, x)
    BY <1>4 DEF Place
  <2>. QED
    BY <2>1, PlaceFound
<1>. QED
  BY <1>3, <1>4

\* At the start all of the list is ahead, from a hook of it what follows.
LEMMA AfterPlace ==
    ASSUME NEW list \in Seq(1..MaxIds), IsInjective(list), NEW x
    PROVE  /\ After(list, x) \subseteq Elements(list)
           /\ x \notin Elements(list) => After(list, x) = Elements(list)
           /\ \A k, j \in DOMAIN list : list[k] = x => (list[j] \in After(list, x) <=> j > k)
<1>1. DOMAIN list \subseteq Nat \ {0}
  OBVIOUS
<1>2. After(list, x) \subseteq Elements(list)
  BY DEF After, Elements
<1>3. x \notin Elements(list) => After(list, x) = Elements(list)
  BY <1>1, PlaceOf DEF After, Elements
<1>4. ASSUME NEW k \in DOMAIN list, NEW j \in DOMAIN list, list[k] = x
      PROVE  list[j] \in After(list, x) <=> j > k
  <2>1. Place(list, x) = k
    BY <1>4, PlaceOf
  <2>. QED
    BY <2>1 DEF After, IsInjective
<1>. QED
  BY <1>2, <1>3, <1>4

\* NextHook goes to the first unpaused hook ahead.
LEMMA NextHookSplits ==
    ASSUME NEW list \in Seq(1..MaxIds), IsInjective(list), NEW iter
    PROVE  LET n == NextHook(list, iter)
           IN  /\ n = 0 => After(list, iter) \subseteq paused
               /\ n # 0 => /\ n \in After(list, iter) \ paused
                           /\ After(list, n) \subseteq After(list, iter)
                           /\ After(list, iter) \ After(list, n) \subseteq paused \union {n}
<1>. DEFINE p == Place(list, iter)
            J == {i \in p + 1..Len(list) : list[i] \notin paused}
            m == SelectInSubSeq(list, p + 1, Len(list), LAMBDA h : h \notin paused)
<1>1. Len(list) \in Nat /\ DOMAIN list = 1..Len(list) /\ \A i \in DOMAIN list : list[i] # 0
  <2>1. DOMAIN list = 1..Len(list) /\ Len(list) \in Nat /\ \A i \in DOMAIN list : list[i] \in 1..MaxIds
    BY ListIsTyped
  <2>. QED
    BY <2>1
<1>2. p \in Nat
  BY <1>1, PlaceOf
<1>3. m = IF J # {} THEN Min(J) ELSE 0
  BY DEF SelectInSubSeq
<1>4. NextHook(list, iter) = IF m = 0 THEN 0 ELSE list[m]
  BY DEF NextHook, Place, Index
<1>. HIDE DEF p, m
<1>5. After(list, iter) = {list[k] : k \in {j \in DOMAIN list : j > p}}
  BY DEF After, p
<1>6. CASE J = {}
  <2>1. \A j \in DOMAIN list : j > p => list[j] \in paused
    BY <1>1, <1>2, <1>6
  <2>2. NextHook(list, iter) = 0
    BY <1>3, <1>4, <1>6
  <2>. QED
    BY <1>5, <2>1, <2>2
<1>7. CASE J # {}
  <2>1. m \in J /\ \A j \in J : m <= j
    <3>1. J \subseteq Nat
      BY <1>2
    <3>. HIDE DEF J
    <3>. QED
      BY <1>3, <1>7, <3>1, MinIsOne
  <2>2. m \in DOMAIN list /\ m > p /\ list[m] \notin paused
    BY <1>1, <1>2, <2>1
  <2>3. \A j \in DOMAIN list : j > p /\ j < m => list[j] \in paused
    BY <1>1, <1>2, <2>1, <2>2
  <2>4. NextHook(list, iter) = list[m] /\ list[m] # 0
    BY <1>1, <1>4, <2>2
  <2>. HIDE DEF J
  <2>5. PICK n : n = list[m]
    OBVIOUS
  <2>6. \A j \in DOMAIN list : list[j] \in After(list, n) <=> j > m
    BY <2>2, <2>5, AfterPlace
  <2>7. After(list, n) \subseteq Elements(list)
    BY AfterPlace
  <2>8. n \in After(list, iter) \ paused
    BY <1>5, <2>2, <2>5
  <2>9. After(list, n) \subseteq After(list, iter)
    BY <1>1, <1>2, <1>5, <2>2, <2>6, <2>7 DEF Elements
  <2>10. ASSUME NEW h \in After(list, iter), h \notin After(list, n)
         PROVE  h \in paused \union {n}
    <3>1. PICK j \in DOMAIN list : h = list[j] /\ j > p
      BY <1>5
    <3>2. ~(j > m)
      BY <2>6, <2>10, <3>1
    <3>. QED
      BY <1>1, <2>2, <2>3, <2>5, <3>1, <3>2
  <2>. QED
    BY <2>4, <2>5, <2>8, <2>9, <2>10
<1>. QED
  BY <1>6, <1>7

\* Erasing hooks other than the one a loop is at takes from what is ahead of it just them.
LEMMA WithoutAfter ==
    ASSUME NEW list \in Seq(1..MaxIds), IsInjective(list), NEW R, NEW x, x \notin R
    PROVE  After(Without(list, R), x) = After(list, x) \ R
<1>. DEFINE kept == Without(list, R)
<1>1. /\ kept \in Seq(1..MaxIds) /\ IsInjective(kept) /\ Elements(kept) = Elements(list) \ R
      /\ \A i, j \in DOMAIN kept : i < j =>
            \E a, b \in DOMAIN list : a < b /\ kept[i] = list[a] /\ kept[j] = list[b]
  BY WithoutIsSublist, WithoutDistinct
<1>2. Len(list) \in Nat /\ DOMAIN list = 1..Len(list) /\ Len(kept) \in Nat /\ DOMAIN kept = 1..Len(kept)
  BY <1>1
<1>. HIDE DEF kept
<1>3. CASE x \notin Elements(list)
  <2>1. x \notin Elements(kept)
    BY <1>1, <1>3
  <2>2. After(kept, x) = Elements(kept)
    BY <1>1, <2>1, AfterPlace
  <2>3. After(list, x) = Elements(list)
    BY <1>3, AfterPlace
  <2>. QED
    BY <1>1, <2>2, <2>3 DEF kept
<1>4. CASE x \in Elements(list)
  <2>1. PICK p \in DOMAIN kept : kept[p] = x
    BY <1>1, <1>4 DEF Elements
  <2>2. PICK q \in DOMAIN list : list[q] = x
    BY <1>4 DEF Elements
  <2>3. After(kept, x) \subseteq Elements(kept) /\ \A j \in DOMAIN kept : kept[j] \in After(kept, x) <=> j > p
    BY <1>1, <2>1, AfterPlace
  <2>4. After(list, x) \subseteq Elements(list) /\ \A j \in DOMAIN list : list[j] \in After(list, x) <=> j > q
    BY <2>2, AfterPlace
  <2>5. ASSUME NEW j \in DOMAIN kept, NEW k \in DOMAIN list, kept[j] = list[k]
        PROVE  j > p <=> k > q
    <3>1. j > p => k > q
      <4>1. SUFFICES ASSUME p < j
                     PROVE  k > q
        BY <1>2
      <4>2. PICK a, b \in DOMAIN list : a < b /\ kept[p] = list[a] /\ kept[j] = list[b]
        BY <1>1, <4>1
      <4>3. a = q /\ b = k
        BY <2>1, <2>2, <2>5, <4>2 DEF IsInjective
      <4>. QED
        BY <1>2, <4>2, <4>3
    <3>2. j < p => k < q
      <4>1. SUFFICES ASSUME j < p
                     PROVE  k < q
        OBVIOUS
      <4>2. PICK a, b \in DOMAIN list : a < b /\ kept[j] = list[a] /\ kept[p] = list[b]
        BY <1>1, <4>1
      <4>3. b = q /\ a = k
        BY <2>1, <2>2, <2>5, <4>2 DEF IsInjective
      <4>. QED
        BY <1>2, <4>2, <4>3
    <3>3. j = p => k = q
      BY <2>1, <2>2, <2>5 DEF IsInjective
    <3>. QED
      BY <1>2, <3>1, <3>2, <3>3
  <2>6. ASSUME NEW h \in Elements(list), h \notin R
        PROVE  h \in After(kept, x) <=> h \in After(list, x)
    <3>1. PICK j \in DOMAIN kept, k \in DOMAIN list : kept[j] = h /\ list[k] = h
      BY <1>1, <2>6 DEF Elements
    <3>. QED
      BY <2>3, <2>4, <2>5, <3>1
  <2>. QED
    BY <1>1, <2>3, <2>4, <2>6 DEF kept
<1>. QED
  BY <1>3, <1>4

\* A loop whose hook is erased steps back to one that has the same hooks ahead: none is
\* skipped and none comes again.
LEMMA SteppedBackAfter ==
    ASSUME NEW list \in Seq(1..MaxIds), IsInjective(list), NEW R, NEW x \in R
    PROVE  LET y == SteppedBack(list, x, R)
           IN  /\ y \in Elements(Without(list, R)) \union {AtStart}
               /\ After(Without(list, R), y) = After(list, x) \ R
<1>. DEFINE p == Index(list, x)
            before == SubSeq(list, 1, p - 1)
            kept == Without(before, R)
            y == SteppedBack(list, x, R)
<1>1. Len(list) \in Nat /\ DOMAIN list = 1..Len(list) /\ \A k \in DOMAIN list : list[k] \in 1..MaxIds
  BY ListIsTyped
<1>2. /\ p \in 0..Len(list)
      /\ \A k \in DOMAIN list : list[k] = x => p = k
      /\ x \notin Elements(list) => p = 0
  BY PlaceFound
<1>3. y = IF kept = <<>> THEN AtStart ELSE Last(kept)
  BY DEF SteppedBack, Index
<1>. HIDE DEF p, y
<1>4. /\ before \in Seq(1..MaxIds)
      /\ DOMAIN before = {k \in DOMAIN list : k < p}
      /\ \A k \in DOMAIN before : before[k] = list[k]
  <2>1. PICK n \in Int : n = p - 1
    BY <1>2
  <2>2. n \in -1..Len(list) - 1
    BY <1>1, <1>2, <2>1
  <2>3. \A i \in 1..n : list[i] \in 1..MaxIds
    BY <1>1, <2>2
  <2>4. /\ SubSeq(list, 1, n) \in Seq(1..MaxIds)
        /\ Len(SubSeq(list, 1, n)) = (IF 1 <= n THEN n - 1 + 1 ELSE 0)
        /\ \A i \in 1..n - 1 + 1 : SubSeq(list, 1, n)[i] = list[1 + i - 1]
    <3>1. PICK T : T = 1..MaxIds
      OBVIOUS
    <3>2. list \in Seq(T) /\ \A i \in 1..n : list[i] \in T
      BY <2>3, <3>1
    <3>3. /\ SubSeq(list, 1, n) \in Seq(T)
          /\ Len(SubSeq(list, 1, n)) = (IF 1 <= n THEN n - 1 + 1 ELSE 0)
          /\ \A i \in 1..n - 1 + 1 : SubSeq(list, 1, n)[i] = list[1 + i - 1]
      BY <2>1, <3>2, SubSeqProperties
    <3>. QED
      BY <3>1, <3>3
  <2>5. DOMAIN SubSeq(list, 1, n) = 1..Len(SubSeq(list, 1, n))
    BY <2>4
  <2>6. DOMAIN SubSeq(list, 1, n) = {k \in DOMAIN list : k < p}
    BY <1>1, <1>2, <2>1, <2>2, <2>4, <2>5
  <2>7. \A k \in DOMAIN SubSeq(list, 1, n) : SubSeq(list, 1, n)[k] = list[k]
    BY <1>1, <2>2, <2>4, <2>5
  <2>. QED
    BY <2>1, <2>4, <2>6, <2>7
<1>. HIDE DEF before
<1>5. /\ kept \in Seq(1..MaxIds) /\ Elements(kept) = Elements(before) \ R
      /\ \A i, j \in DOMAIN kept : i < j =>
            \E a, b \in DOMAIN before : a < b /\ kept[i] = before[a] /\ kept[j] = before[b]
  BY <1>4, WithoutIsSublist
<1>. HIDE DEF kept
<1>6. Elements(Without(list, R)) = Elements(list) \ R
  BY WithoutIsSublist
<1>7. 0 \notin Elements(list)
  BY <1>1 DEF Elements
\* The hooks ahead of x: those behind its place, or all.
<1>8. \A j \in DOMAIN list : list[j] \in After(list, x) <=> j > p
  <2>1. CASE x \in Elements(list)
    <3>1. PICK k \in DOMAIN list : list[k] = x
      BY <2>1 DEF Elements
    <3>. QED
      BY <1>2, <3>1, AfterPlace
  <2>2. CASE x \notin Elements(list)
    <3>1. After(list, x) = Elements(list) /\ p = 0
      BY <1>2, <2>2, AfterPlace
    <3>. QED
      BY <1>1, <3>1 DEF Elements
  <2>. QED
    BY <2>1, <2>2
<1>9. p # 0 => p \in DOMAIN list /\ list[p] = x
  BY <1>2 DEF Elements
<1>10. CASE kept = <<>>
  <2>1. \A k \in DOMAIN list : k < p => list[k] \in R
    <3>1. Elements(before) \subseteq R
      BY <1>5, <1>10, EmptyElements
    <3>. QED
      BY <1>4, <3>1 DEF Elements
  <2>2. \A k \in DOMAIN list : list[k] \notin R => k > p
    BY <1>1, <1>2, <1>9, <2>1
  <2>3. Elements(list) \ R = After(list, x) \ R
    <3>1. After(list, x) \subseteq Elements(list)
      BY AfterPlace
    <3>. QED
      BY <1>8, <2>2, <3>1 DEF Elements
  <2>4. PICK l : l = Without(list, R)
    OBVIOUS
  <2>5. l \in Seq(1..MaxIds) /\ IsInjective(l) /\ AtStart \notin Elements(l)
    BY <1>6, <1>7, <2>4, WithoutIsSublist, WithoutDistinct DEF AtStart
  <2>6. After(l, AtStart) = Elements(l)
    BY <2>5, AfterPlace
  <2>. QED
    BY <1>3, <1>6, <1>10, <2>3, <2>4, <2>6 DEF y
<1>11. CASE kept # <<>>
  <2>1. PICK n \in DOMAIN kept : n = Len(kept) /\ y = kept[n]
    BY <1>3, <1>5, <1>11 DEF Last
  <2>2. y \in Elements(before) \ R
    BY <1>5, <2>1 DEF Elements
  <2>3. PICK t \in DOMAIN list : t < p /\ list[t] = y
    BY <1>4, <2>2 DEF Elements
  <2>4. \A k \in DOMAIN list : k > t /\ k < p => list[k] \in R
    <3>1. SUFFICES ASSUME NEW k \in DOMAIN list, k > t, k < p, list[k] \notin R
                   PROVE  FALSE
      OBVIOUS
    <3>2. list[k] \in Elements(kept)
      BY <1>4, <1>5, <3>1 DEF Elements
    <3>3. PICK j \in DOMAIN kept : kept[j] = list[k]
      BY <3>2 DEF Elements
    <3>4. list[k] # list[t] /\ t < k
      BY <1>1, <3>1 DEF IsInjective
    <3>5. j < n
      BY <1>5, <2>1, <2>3, <3>3, <3>4
    <3>6. PICK a, b \in DOMAIN before : a < b /\ kept[j] = before[a] /\ kept[n] = before[b]
      BY <1>5, <3>5
    <3>7. a \in DOMAIN list /\ b \in DOMAIN list /\ list[a] = list[k] /\ list[b] = list[t]
      BY <1>4, <2>1, <2>3, <3>3, <3>6
    <3>8. a = k /\ b = t
      BY <3>7 DEF IsInjective
    <3>. QED
      BY <1>1, <3>4, <3>6, <3>8
  <2>5. \A k \in DOMAIN list : list[k] \notin R => (k > t <=> k > p)
    BY <1>1, <1>2, <1>9, <2>3, <2>4
  <2>6. \A k \in DOMAIN list : list[k] \in After(list, y) <=> k > t
    BY <2>3, AfterPlace
  <2>7. After(list, y) \ R = After(list, x) \ R
    <3>1. After(list, x) \subseteq Elements(list) /\ After(list, y) \subseteq Elements(list)
      BY AfterPlace
    <3>. QED
      BY <1>8, <2>5, <2>6, <3>1 DEF Elements
  <2>8. After(Without(list, R), y) = After(list, y) \ R
    BY <2>2, WithoutAfter
  <2>9. y \in Elements(list) \ R
    BY <2>2, <2>3 DEF Elements
  <2>. QED
    BY <1>6, <2>7, <2>8, <2>9 DEF y
<1>. QED
  BY <1>10, <1>11

\* A hook that is added is ahead of every loop through its list.
LEMMA AppendAfter ==
    ASSUME NEW list \in Seq(1..MaxIds), IsInjective(list), NEW x,
           NEW id \in 1..MaxIds, id \notin Elements(list), x # id
    PROVE  After(Append(list, id), x) = After(list, x) \union {id}
<1>. DEFINE more == Append(list, id)
<1>1. more \in Seq(1..MaxIds) /\ IsInjective(more) /\ Elements(more) = Elements(list) \union {id}
  BY AppendDistinct, ZenonT(40)
<1>2. /\ Len(list) \in Nat /\ DOMAIN list = 1..Len(list) /\ DOMAIN more = 1..Len(list) + 1
      /\ more[Len(list) + 1] = id /\ \A k \in DOMAIN list : more[k] = list[k]
  <2>1. PICK T : T = 1..MaxIds
    OBVIOUS
  <2>2. list \in Seq(T) /\ id \in T
    BY <2>1
  <2>. QED
    BY <2>2
<1>. HIDE DEF more
<1>3. CASE x \notin Elements(list)
  <2>1. After(list, x) = Elements(list)
    BY <1>3, AfterPlace
  <2>2. After(more, x) = Elements(more)
    BY <1>1, <1>3, AfterPlace
  <2>. QED
    BY <1>1, <2>1, <2>2 DEF more
<1>4. CASE x \in Elements(list)
  <2>1. PICK p \in DOMAIN list : list[p] = x
    BY <1>4 DEF Elements
  <2>2. p \in DOMAIN more /\ more[p] = x
    BY <1>2, <2>1
  <2>3. After(list, x) \subseteq Elements(list) /\ \A j \in DOMAIN list : list[j] \in After(list, x) <=> j > p
    BY <2>1, AfterPlace
  <2>4. After(more, x) \subseteq Elements(more) /\ \A j \in DOMAIN more : more[j] \in After(more, x) <=> j > p
    BY <1>1, <2>2, AfterPlace
  <2>5. id \in After(more, x)
    BY <1>2, <2>1, <2>4
  <2>6. \A h \in Elements(list) : h \in After(more, x) <=> h \in After(list, x)
    BY <1>2, <2>3, <2>4 DEF Elements
  <2>. QED
    BY <1>1, <2>3, <2>4, <2>5, <2>6 DEF more
<1>. QED
  BY <1>3, <1>4

-----------------------------------------------------------------------------
(* What a loop has still ahead of it in all its lists *)

\* The lists a loop walks, in their order, and the one a context is at.
Ranks == 0..3
Key(c, r) == <<c.vfn, IF r \in {0, 2} THEN c.obj ELSE VP, r \in {2, 3}>>
Stage(c) == CASE c.state \in {"Born", "Pre", "Recall_Pre"} -> 0
              [] c.state \in {"PreVP", "Recall_PreVP"} -> 1
              [] c.state \in {"OrigCall", "Post", "Recall_Post"} -> 2
              [] c.state \in {"PostVP", "Recall_PostVP"} -> 3
              [] OTHER -> 4
StateAt(r) == CASE r = 0 -> "Pre" [] r = 1 -> "PreVP" [] r = 2 -> "Post" [] r = 3 -> "PostVP"
Walks(c) == c.state \in HookStates \union RecallStates

\* The hooks ahead in one of them, hs being the lists, and in all of them.
Start(c, r) == IF Walks(c) /\ r = Stage(c) THEN c.iter ELSE AtStart
Open(c, r) == c.vfn # NoVfn /\ Stage(c) <= r /\ (r \in {0, 2} => c.iface = "set")
Rest(c, hs, r) == IF Open(c, r) THEN After(hs[Key(c, r)], Start(c, r)) ELSE {}
Ahead(c, hs) == UNION {Rest(c, hs, r) : r \in Ranks}
NextIn(c, r) == IF Open(c, r) THEN NextHook(hooks[Key(c, r)], Start(c, r)) ELSE 0

\* What walking the VP list, and an interface list before it, does to a context.
Stepped(c, r, n) == [c EXCEPT !.state = StateAt(r), !.iter = n]
Ended(c, s) == [c EXCEPT !.state = s, !.iter = AtStart]

\* GetNext in a VP list.
LEMMA WalkVPFrom ==
    ASSUME NEW c \in Context, NEW r \in {1, 3}, NEW after,
           NEW n, n = NextHook(hooks[Key(c, r)], c.iter)
    PROVE  WalkVP(c, StateAt(r), after) = IF n # 0 THEN Stepped(c, r, n) ELSE Ended(c, after)
<1>1. PICK vp : vp = StateAt(r)
  OBVIOUS
<1>2. Key(c, r) = <<c.vfn, VP, vp = "PostVP">>
  BY <1>1 DEF Key, StateAt
<1>3. WalkVP(c, vp, after) = IF NextHook(hooks[Key(c, r)], c.iter) # 0
                             THEN [c EXCEPT !.state = vp, !.iter = NextHook(hooks[Key(c, r)], c.iter)]
                             ELSE Ended(c, after)
  BY <1>2 DEF WalkVP, Ended
<1>. QED
  BY <1>1, <1>3 DEF Stepped

\* GetNext in an interface list, and in the VP list after it.
LEMMA WalkIfaceFrom ==
    ASSUME NEW c \in Context, NEW r \in {0, 2}, NEW after,
           NEW n, n = (IF c.iface = "set" THEN NextHook(hooks[Key(c, r)], c.iter) ELSE 0),
           NEW m, m = NextHook(hooks[Key(c, r + 1)], AtStart)
    PROVE  WalkIface(c, StateAt(r), StateAt(r + 1), after) =
              IF n # 0 THEN Stepped(c, r, n) ELSE IF m # 0 THEN Stepped(c, r + 1, m) ELSE Ended(c, after)
<1>1. PICK normal, vp : normal = StateAt(r) /\ vp = StateAt(r + 1)
  OBVIOUS
<1>2. Key(c, r) = <<c.vfn, c.obj, normal = "Post">>
  BY <1>1 DEF Key, StateAt
<1>3. PICK g : g = [c EXCEPT !.iter = AtStart]
  OBVIOUS
<1>4. WalkIface(c, normal, vp, after) = IF n # 0 THEN [c EXCEPT !.state = normal, !.iter = n] ELSE WalkVP(g, vp, after)
  <2>1. n = IF c.iface = "set" THEN NextHook(hooks[<<c.vfn, c.obj, normal = "Post">>], c.iter) ELSE 0
    BY <1>2
  <2>. QED
    BY <1>3, <2>1 DEF WalkIface
<1>5. g \in Context /\ g.vfn = c.vfn /\ g.obj = c.obj /\ g.iter = AtStart
  BY <1>3, BoundAssumption DEF Context, AtStart, Dangling
<1>6. \A s, i : [g EXCEPT !.state = s, !.iter = i] = [c EXCEPT !.state = s, !.iter = i]
  BY <1>3 DEF Context
<1>7. WalkVP(g, vp, after) = IF m # 0 THEN Stepped(c, r + 1, m) ELSE Ended(c, after)
  <2>1. r + 1 \in {1, 3} /\ Key(g, r + 1) = Key(c, r + 1)
    BY <1>5 DEF Key
  <2>2. m = NextHook(hooks[Key(g, r + 1)], g.iter)
    BY <1>5, <2>1
  <2>3. WalkVP(g, StateAt(r + 1), after) = IF m # 0 THEN Stepped(g, r + 1, m) ELSE Ended(g, after)
    BY <1>5, <2>1, <2>2, WalkVPFrom
  <2>. QED
    BY <1>1, <1>6, <2>3 DEF Stepped, Ended
<1>. QED
  BY <1>1, <1>4, <1>7 DEF Stepped

\* GetNext goes through the lists from the context's on.
Reaches(c, r) == /\ Stage(c) <= r /\ (Stage(c) >= 2 <=> r >= 2)
                 /\ GetNext(c) = NextIn(c, r) /\ GetNext(c) # 0
                 /\ Advanced(c) = Stepped(c, r, GetNext(c))
                 /\ \A q \in Ranks : Stage(c) <= q /\ q < r => NextIn(c, q) = 0
Passes(c) == /\ GetNext(c) = 0
             /\ Advanced(c) = Ended(c, IF Stage(c) < 2 THEN "OrigCall" ELSE "Dead")
             /\ \A q \in Ranks : Stage(c) <= q /\ (Stage(c) < 2 => q < 2) => NextIn(c, q) = 0

\* What GetNext leaves as it was.
LEMMA SteppedFields ==
    ASSUME NEW c \in Context, NEW r, NEW n, NEW s
    PROVE  /\ Stepped(c, r, n).state = StateAt(r) /\ Stepped(c, r, n).iter = n
           /\ Stepped(c, r, n).vfn = c.vfn /\ Stepped(c, r, n).obj = c.obj /\ Stepped(c, r, n).iface = c.iface
           /\ Stepped(c, r, n).callOrig = c.callOrig
           /\ Ended(c, s).state = s /\ Ended(c, s).iter = AtStart
           /\ Ended(c, s).vfn = c.vfn /\ Ended(c, s).obj = c.obj /\ Ended(c, s).iface = c.iface
           /\ Ended(c, s).callOrig = c.callOrig
  BY DEF Stepped, Ended, Context

\* GetNext goes to the first list from the context's on in which it finds a hook, or to
\* the end of the loop.
LEMMA AdvanceStages ==
    ASSUME NEW c \in Context, c.vfn # NoVfn, c.state = "Born" => c.iter = AtStart,
           c.state \in {"Born", "Pre", "Recall_Pre", "PreVP", "Recall_PreVP", "OrigCall", "Post", "PostVP"}
    PROVE  Passes(c) \/ \E r \in Ranks : Reaches(c, r)
<1>1. /\ StateAt(0) = "Pre" /\ StateAt(1) = "PreVP" /\ StateAt(2) = "Post" /\ StateAt(3) = "PostVP"
      /\ Ranks = {0, 1, 2, 3} /\ \A r \in Ranks : StateAt(r) \in HookStates
  BY DEF StateAt, HookStates, Ranks
<1>2. \A r, n : r \in Ranks /\ Advanced(c) = Stepped(c, r, n) => GetNext(c) = n
  <2>1. c.state \notin {"Recall_Post", "Recall_PostVP", "Dead"}
    OBVIOUS
  <2>. QED
    BY <1>1, <2>1, SteppedFields DEF GetNext
<1>3. Advanced(c) \in {Ended(c, "OrigCall"), Ended(c, "Dead")} => GetNext(c) = 0
  BY SteppedFields DEF GetNext, HookStates
<1>4. \A r \in Ranks : NextIn(c, r) = IF (r \in {0, 2} /\ c.iface # "set") \/ r < Stage(c) THEN 0
                                      ELSE NextHook(hooks[Key(c, r)], Start(c, r))
  <2>1. Stage(c) \in Ranks
    BY <1>1 DEF Stage
  <2>. QED
    BY <1>1, <2>1 DEF NextIn, Open
<1>5. CASE c.state \in {"Born", "Pre", "Recall_Pre"}
  <2>1. Stage(c) = 0 /\ Start(c, 0) = c.iter /\ Start(c, 1) = AtStart
    BY <1>5 DEF Stage, Start, Walks, HookStates, RecallStates
  <2>2. Advanced(c) = WalkIface(c, "Pre", "PreVP", "OrigCall")
    BY <1>5 DEF Advanced
  <2>3. Advanced(c) = IF NextIn(c, 0) # 0 THEN Stepped(c, 0, NextIn(c, 0))
                      ELSE IF NextIn(c, 1) # 0 THEN Stepped(c, 1, NextIn(c, 1))
                      ELSE Ended(c, "OrigCall")
    <3>1. NextIn(c, 0) = IF c.iface = "set" THEN NextHook(hooks[Key(c, 0)], c.iter) ELSE 0
      BY <1>1, <1>4, <2>1
    <3>2. NextIn(c, 1) = NextHook(hooks[Key(c, 0 + 1)], AtStart)
      BY <1>1, <1>4, <2>1
    <3>. QED
      BY <1>1, <2>2, <3>1, <3>2, WalkIfaceFrom
  <2>. QED
    BY <1>1, <1>2, <1>3, <2>1, <2>3 DEF Reaches, Passes
<1>6. CASE c.state \in {"PreVP", "Recall_PreVP"}
  <2>1. Stage(c) = 1 /\ Start(c, 1) = c.iter
    BY <1>6 DEF Stage, Start, Walks, HookStates, RecallStates
  <2>2. Advanced(c) = WalkVP(c, "PreVP", "OrigCall")
    BY <1>6 DEF Advanced
  <2>3. Advanced(c) = IF NextIn(c, 1) # 0 THEN Stepped(c, 1, NextIn(c, 1)) ELSE Ended(c, "OrigCall")
    <3>1. NextIn(c, 1) = NextHook(hooks[Key(c, 1)], c.iter)
      BY <1>1, <1>4, <2>1
    <3>. QED
      BY <1>1, <2>2, <3>1, WalkVPFrom
  <2>. QED
    BY <1>1, <1>2, <1>3, <2>1, <2>3 DEF Reaches, Passes
<1>7. CASE c.state \in {"OrigCall", "Post"}
  <2>1. PICK e : e = IF c.state = "OrigCall" THEN [c EXCEPT !.iter = AtStart] ELSE c
    OBVIOUS
  <2>2. e \in Context /\ e.vfn = c.vfn /\ e.obj = c.obj /\ e.iface = c.iface
    BY <2>1, BoundAssumption DEF Context, AtStart, Dangling
  <2>3. \A r, n, s : Stepped(e, r, n) = Stepped(c, r, n) /\ Ended(e, s) = Ended(c, s)
    BY <2>1 DEF Stepped, Ended, Context
  <2>4. \A r : Key(e, r) = Key(c, r)
    BY <2>2 DEF Key
  <2>5. Stage(c) = 2 /\ Start(c, 2) = e.iter /\ Start(c, 3) = AtStart
    BY <1>7, <2>1 DEF Stage, Start, Walks, HookStates, RecallStates, Context
  <2>6. Advanced(c) = WalkIface(e, "Post", "PostVP", "Dead")
    BY <1>7, <2>1 DEF Advanced
  <2>7. Advanced(c) = IF NextIn(c, 2) # 0 THEN Stepped(c, 2, NextIn(c, 2))
                      ELSE IF NextIn(c, 3) # 0 THEN Stepped(c, 3, NextIn(c, 3))
                      ELSE Ended(c, "Dead")
    <3>1. NextIn(c, 2) = IF e.iface = "set" THEN NextHook(hooks[Key(e, 2)], e.iter) ELSE 0
      BY <1>1, <1>4, <2>2, <2>4, <2>5
    <3>2. NextIn(c, 3) = NextHook(hooks[Key(e, 2 + 1)], AtStart)
      BY <1>1, <1>4, <2>4, <2>5
    <3>3. WalkIface(e, StateAt(2), StateAt(2 + 1), "Dead") =
             IF NextIn(c, 2) # 0 THEN Stepped(e, 2, NextIn(c, 2))
             ELSE IF NextIn(c, 3) # 0 THEN Stepped(e, 2 + 1, NextIn(c, 3)) ELSE Ended(e, "Dead")
      BY <2>2, <3>1, <3>2, WalkIfaceFrom
    <3>. QED
      BY <1>1, <2>3, <2>6, <3>3
  <2>. QED
    BY <1>1, <1>2, <1>3, <2>5, <2>7 DEF Reaches, Passes
<1>8. CASE c.state = "PostVP"
  <2>1. Stage(c) = 3 /\ Start(c, 3) = c.iter
    BY <1>8 DEF Stage, Start, Walks, HookStates, RecallStates
  <2>2. Advanced(c) = WalkVP(c, "PostVP", "Dead")
    BY <1>8 DEF Advanced
  <2>3. Advanced(c) = IF NextIn(c, 3) # 0 THEN Stepped(c, 3, NextIn(c, 3)) ELSE Ended(c, "Dead")
    <3>1. NextIn(c, 3) = NextHook(hooks[Key(c, 3)], c.iter)
      BY <1>1, <1>4, <2>1
    <3>. QED
      BY <1>1, <2>2, <3>1, WalkVPFrom
  <2>. QED
    BY <1>1, <1>2, <1>3, <2>1, <2>3 DEF Reaches, Passes
<1>. QED
  BY <1>5, <1>6, <1>7, <1>8

\* The lists of a context: what they hold has the rank of the list.
LEMMA KeyLists ==
    ASSUME RegistryInv, NEW c \in Context, c.vfn # NoVfn, NEW r \in Ranks
    PROVE  /\ Key(c, r) \in Lists
           /\ hooks[Key(c, r)] \in Seq(1..MaxIds) /\ IsInjective(hooks[Key(c, r)])
           /\ \A h \in Elements(hooks[Key(c, r)]) : h \in Live /\ Site(h) = Key(c, r) /\ Rank(h) = r
<1>1. c.vfn \in VfnPtrs /\ c.obj \in Objects
  BY DEF Context
<1>2. PICK i, b : i = (IF r \in {0, 2} THEN c.obj ELSE VP) /\ b = (r \in {2, 3})
  OBVIOUS
<1>3. Key(c, r) = <<c.vfn, i, b>> /\ i \in Ifaces /\ b \in BOOLEAN
  BY <1>1, <1>2 DEF Key, Ifaces
<1>4. Key(c, r) \in Lists
  BY <1>1, <1>3 DEF Lists
<1>5. i = VP <=> r \in {1, 3}
  BY <1>1, <1>2, IfaceAssumption DEF Ranks
<1>6. \A h : Site(h) = Key(c, r) => entries[h].iface = i /\ entries[h].post = b
  BY <1>3 DEF Site
<1>7. ASSUME NEW h, Site(h) = Key(c, r)
      PROVE  Rank(h) = r
  <2>1. entries[h].iface = VP <=> r \in {1, 3}
    BY <1>5, <1>6, <1>7
  <2>2. entries[h].post <=> r \in {2, 3}
    BY <1>2, <1>6, <1>7
  <2>3. Rank(h) = (IF r \in {2, 3} THEN 2 ELSE 0) + (IF r \in {1, 3} THEN 1 ELSE 0)
    BY <2>1, <2>2 DEF Rank
  <2>. QED
    BY <2>3 DEF Ranks
<1>8. hooks[Key(c, r)] \in Seq(1..MaxIds) /\ IsInjective(hooks[Key(c, r)])
      /\ Elements(hooks[Key(c, r)]) = {h \in Live : Site(h) = Key(c, r)}
  <2>1. PICK l \in Lists : l = Key(c, r)
    BY <1>4
  <2>2. hooks[l] \in Seq(1..MaxIds) /\ IsInjective(hooks[l]) /\ Elements(hooks[l]) = {h \in Live : Site(h) = l}
    BY DEF RegistryInv
  <2>. QED
    BY <2>1, <2>2
<1>. QED
  BY <1>4, <1>7, <1>8

\* What is ahead in a list is in it.
LEMMA RestLive ==
    ASSUME RegistryInv, NEW c \in Context, NEW r \in Ranks, NEW h \in Rest(c, hooks, r)
    PROVE  /\ Open(c, r) /\ h \in After(hooks[Key(c, r)], Start(c, r))
           /\ h \in Elements(hooks[Key(c, r)]) /\ h \in Live /\ Site(h) = Key(c, r) /\ Rank(h) = r
<1>1. Open(c, r) /\ h \in After(hooks[Key(c, r)], Start(c, r))
  BY DEF Rest
<1>2. h \in Elements(hooks[Key(c, r)])
  BY <1>1, KeyLists, AfterPlace DEF Open
<1>. QED
  BY <1>1, <1>2, KeyLists DEF Open

\* In which order two hooks come that are in one list, or in lists of different ranks.
LEMMA InOrder ==
    ASSUME RegistryInv, NEW c \in Context, c.vfn # NoVfn, NEW r \in Ranks, NEW q \in Ranks, r <= q,
           NEW n \in Elements(hooks[Key(c, r)]), NEW g \in Elements(hooks[Key(c, q)]),
           r = q => g \in After(hooks[Key(c, r)], n)
    PROVE  ~Precedes(g, n) /\ g # n
<1>1. Rank(n) = r /\ Rank(g) = q /\ Site(n) = Key(c, r)
  BY KeyLists
<1>2. CASE r < q
  BY <1>1, <1>2 DEF Precedes, Ranks
<1>3. CASE r = q
  <2>1. PICK l : l = hooks[Key(c, r)]
    OBVIOUS
  <2>2. l \in Seq(1..MaxIds) /\ IsInjective(l) /\ DOMAIN l \subseteq Int
    BY <2>1, KeyLists
  <2>3. PICK j, k \in DOMAIN l : l[j] = n /\ l[k] = g
    BY <1>3, <2>1 DEF Elements
  <2>4. k > j
    BY <1>3, <2>1, <2>2, <2>3, AfterPlace
  <2>5. Index(l, n) = j /\ Index(l, g) = k
    BY <2>2, <2>3, PlaceFound
  <2>6. hooks[<<entries[n].vfnptr, entries[n].iface, entries[n].post>>] = l
    BY <1>1, <2>1 DEF Site
  <2>7. ~(Index(hooks[<<entries[n].vfnptr, entries[n].iface, entries[n].post>>], g)
            < Index(hooks[<<entries[n].vfnptr, entries[n].iface, entries[n].post>>], n))
    BY <2>2, <2>4, <2>5, <2>6
  <2>8. ~(Rank(g) < Rank(n))
    BY <1>1, <1>3 DEF Ranks
  <2>9. g # n
    BY <2>2, <2>4, <2>5
  <2>10. ~Precedes(g, n)
    BY <2>7, <2>8 DEF Precedes, Index
  <2>. QED
    BY <2>9, <2>10
<1>. QED
  BY <1>2, <1>3 DEF Ranks

\* What GetNext does to the hooks ahead: it takes the first unpaused one, which no other
\* hook ahead precedes, and leaves out paused ones only.
Splits(c, d, n) ==
    /\ Ahead(d, hooks) \subseteq Ahead(c, hooks)
    /\ n = 0 => Ahead(c, hooks) \ Ahead(d, hooks) \subseteq paused
    /\ n # 0 => /\ n \in Ahead(c, hooks) \ paused
                /\ Ahead(c, hooks) \ Ahead(d, hooks) \subseteq paused \union {n}
                /\ \A g \in Ahead(d, hooks) : g # n /\ ~Precedes(g, n)

\* The next hook of a list splits what is ahead in it.
LEMMA NextInSplits ==
    ASSUME RegistryInv, NEW c \in Context, NEW r \in Ranks, Stage(c) <= r
    PROVE  LET n == NextIn(c, r)
           IN  /\ n = 0 => Rest(c, hooks, r) \subseteq paused
               /\ n # 0 => /\ Open(c, r) /\ n \in Rest(c, hooks, r) \ paused
                           /\ n \in Elements(hooks[Key(c, r)])
                           /\ After(hooks[Key(c, r)], n) \subseteq Rest(c, hooks, r)
                           /\ Rest(c, hooks, r) \ After(hooks[Key(c, r)], n) \subseteq paused \union {n}
<1>1. CASE ~Open(c, r)
  BY <1>1 DEF NextIn, Rest
<1>2. CASE Open(c, r)
  <2>1. PICK l, x : l = hooks[Key(c, r)] /\ x = Start(c, r)
    OBVIOUS
  <2>2. l \in Seq(1..MaxIds) /\ IsInjective(l)
    BY <1>2, <2>1, KeyLists DEF Open
  <2>3. NextIn(c, r) = NextHook(l, x) /\ Rest(c, hooks, r) = After(l, x)
    BY <1>2, <2>1 DEF NextIn, Rest
  <2>4. After(l, x) \subseteq Elements(l)
    BY <2>2, AfterPlace
  <2>5. LET n == NextHook(l, x)
        IN  /\ n = 0 => After(l, x) \subseteq paused
            /\ n # 0 => /\ n \in After(l, x) \ paused
                        /\ After(l, n) \subseteq After(l, x)
                        /\ After(l, x) \ After(l, n) \subseteq paused \union {n}
    BY <2>2, NextHookSplits
  <2>. QED
    BY <1>2, <2>1, <2>3, <2>4, <2>5
<1>. QED
  BY <1>1, <1>2

\* GetNext that finds a hook splits what is ahead in all lists.
LEMMA ReachesSplits ==
    ASSUME RegistryInv, NEW c \in Context, NEW r \in Ranks, Reaches(c, r)
    PROVE  Splits(c, Advanced(c), GetNext(c))
<1>1. PICK d, n, l : d = Advanced(c) /\ n = GetNext(c) /\ l = hooks[Key(c, r)]
  OBVIOUS
<1>2. /\ d.state = StateAt(r) /\ d.iter = n
      /\ d.vfn = c.vfn /\ d.obj = c.obj /\ d.iface = c.iface
  BY <1>1, SteppedFields DEF Reaches
<1>3. Stage(d) = r /\ Walks(d) /\ r \in Int /\ Stage(c) \in Int /\ Stage(c) <= r /\ Ranks \subseteq Int
  BY <1>2 DEF Reaches, Stage, StateAt, Ranks, Walks, HookStates
<1>4. \A q \in Ranks : Key(d, q) = Key(c, q)
  BY <1>2 DEF Key
<1>5. /\ n # 0 /\ Open(c, r) /\ n \in Rest(c, hooks, r) \ paused /\ n \in Elements(l)
      /\ After(l, n) \subseteq Rest(c, hooks, r)
      /\ Rest(c, hooks, r) \ After(l, n) \subseteq paused \union {n}
  BY <1>1, <1>3, NextInSplits DEF Reaches
<1>6. \A q \in Ranks : Open(d, q) <=> Open(c, q) /\ r <= q
  BY <1>2, <1>3 DEF Open
<1>7. \A q \in Ranks : Rest(d, hooks, q) = IF q < r THEN {} ELSE IF q = r THEN After(l, n) ELSE Rest(c, hooks, q)
  <2>1. ASSUME NEW q \in Ranks
        PROVE  /\ q < r => Rest(d, hooks, q) = {}
               /\ q = r => Rest(d, hooks, q) = After(l, n)
               /\ q > r => Rest(d, hooks, q) = Rest(c, hooks, q)
    <3>1. q < r => ~Open(d, q)
      BY <1>3, <1>6
    <3>2. q = r => Open(d, q) /\ Start(d, q) = n
      BY <1>2, <1>3, <1>5, <1>6 DEF Start
    <3>3. q > r => Start(d, q) = Start(c, q) /\ (Open(d, q) <=> Open(c, q))
      BY <1>3, <1>6 DEF Start
    <3>. QED
      BY <1>1, <1>4, <3>1, <3>2, <3>3 DEF Rest
  <2>. QED
    BY <1>3, <2>1
<1>8. \A q \in Ranks : q < r => Rest(c, hooks, q) \subseteq paused
  <2>1. \A q \in Ranks : q < r /\ Stage(c) <= q => Rest(c, hooks, q) \subseteq paused
    BY NextInSplits DEF Reaches
  <2>2. \A q \in Ranks : ~(Stage(c) <= q) => Rest(c, hooks, q) = {}
    BY DEF Rest, Open
  <2>. QED
    BY <2>1, <2>2
<1>9. \A q \in Ranks : Rest(d, hooks, q) \subseteq Rest(c, hooks, q)
                       /\ Rest(c, hooks, q) \ Rest(d, hooks, q) \subseteq paused \union {n}
  BY <1>3, <1>5, <1>7, <1>8
<1>10. /\ Ahead(d, hooks) \subseteq Ahead(c, hooks)
       /\ Ahead(c, hooks) \ Ahead(d, hooks) \subseteq paused \union {n}
       /\ n \in Ahead(c, hooks) \ paused
  BY <1>5, <1>9 DEF Ahead
<1>11. ASSUME NEW g \in Ahead(d, hooks)
       PROVE  g # n /\ ~Precedes(g, n)
  <2>1. PICK q \in Ranks : g \in Rest(d, hooks, q)
    BY DEF Ahead
  <2>2. r <= q /\ (q = r => g \in After(l, n)) /\ g \in Rest(c, hooks, q)
    BY <1>3, <1>7, <1>9, <2>1
  <2>3. g \in Elements(hooks[Key(c, q)])
    BY <2>2, RestLive
  <2>4. c.vfn # NoVfn
    BY <1>5 DEF Open
  <2>. QED
    BY <1>1, <1>5, <2>2, <2>3, <2>4, InOrder
<1>. QED
  BY <1>1, <1>5, <1>10, <1>11 DEF Splits

\* GetNext that ends a loop had nothing to call ahead in the loop's lists.
LEMMA PassesSplits ==
    ASSUME RegistryInv, NEW c \in Context, c.vfn # NoVfn, Passes(c)
    PROVE  Splits(c, Advanced(c), GetNext(c))
<1>1. PICK d, s : d = Advanced(c) /\ s = (IF Stage(c) < 2 THEN 2 ELSE 4)
  OBVIOUS
<1>2. /\ d.state = (IF Stage(c) < 2 THEN "OrigCall" ELSE "Dead")
      /\ d.vfn = c.vfn /\ d.obj = c.obj /\ d.iface = c.iface
  BY <1>1, SteppedFields DEF Passes
<1>3. Stage(d) = s /\ ~Walks(d) /\ s \in Int /\ Stage(c) \in Int /\ Ranks = {0, 1, 2, 3}
  BY <1>1, <1>2 DEF Stage, Ranks, Walks, HookStates, RecallStates
<1>4. \A q \in Ranks : Key(d, q) = Key(c, q)
  BY <1>2 DEF Key
<1>5. ASSUME NEW q \in Ranks
      PROVE  Rest(d, hooks, q) \subseteq Rest(c, hooks, q) /\ Rest(c, hooks, q) \ Rest(d, hooks, q) \subseteq paused
  <2>1. CASE q < Stage(c)
    <3>1. ~Open(c, q) /\ ~Open(d, q)
      BY <1>1, <1>3, <2>1 DEF Open
    <3>. QED
      BY <3>1 DEF Rest
  <2>2. CASE Stage(c) <= q /\ q < s
    <3>1. ~Open(d, q)
      BY <1>3, <2>2 DEF Open
    <3>2. NextIn(c, q) = 0
      BY <1>1, <1>3, <2>2 DEF Passes
    <3>3. Rest(c, hooks, q) \subseteq paused
      BY <2>2, <3>2, NextInSplits
    <3>. QED
      BY <3>1, <3>3 DEF Rest
  <2>3. CASE s <= q
    <3>1. Stage(c) < 2 /\ s = 2 /\ q # Stage(c)
      BY <1>1, <1>3, <2>3
    <3>2. (Open(d, q) <=> Open(c, q)) /\ Start(d, q) = AtStart /\ Start(c, q) = AtStart
      BY <1>2, <1>3, <2>3, <3>1 DEF Open, Start
    <3>. QED
      BY <1>4, <3>2 DEF Rest
  <2>. QED
    BY <1>3, <2>1, <2>2, <2>3
<1>6. GetNext(c) = 0
  BY DEF Passes
<1>. QED
  BY <1>1, <1>5, <1>6 DEF Splits, Ahead

\* Contexts that agree in what Ahead looks at.
LEMMA SameAhead ==
    ASSUME NEW c, NEW d, NEW hs, d.vfn = c.vfn, d.obj = c.obj, d.iface = c.iface,
           Stage(d) = Stage(c), Walks(d) <=> Walks(c), Walks(c) => d.iter = c.iter
    PROVE  Ahead(d, hs) = Ahead(c, hs)
<1>1. \A r \in Ranks : (Open(d, r) <=> Open(c, r)) /\ Key(d, r) = Key(c, r) /\ Start(d, r) = Start(c, r)
  BY DEF Open, Key, Start
<1>2. \A r \in Ranks : Rest(d, hs, r) = Rest(c, hs, r)
  BY <1>1 DEF Rest
<1>. QED
  BY <1>2 DEF Ahead

\* What a call of GetNext takes off what is ahead.
LEMMA AdvancedSplits ==
    ASSUME RegistryInv, NEW c \in Context, ~UsesFreed(c), c.state = "Born" => c.iter = AtStart
    PROVE  Splits(c, Advanced(c), GetNext(c))
<1>1. c.state \in HookStates \union RecallStates \union {"Born", "OrigCall", "Dead", "Ignore", "Stray"}
  BY DEF Context
<1>2. CASE c.state \in {"Born", "Pre", "Recall_Pre", "PreVP", "Recall_PreVP", "OrigCall", "Post", "PostVP"}
  <2>1. c.vfn # NoVfn
    BY <1>2 DEF UsesFreed
  <2>. QED
    BY <1>2, <2>1, AdvanceStages, ReachesSplits, PassesSplits
<1>3. CASE c.state \in {"Recall_Post", "Recall_PostVP"}
  <2>1. Advanced(c) = PostResumed(c) /\ GetNext(c) = 0
    BY <1>3 DEF Advanced, GetNext
  <2>2. PICK d : d = PostResumed(c)
    OBVIOUS
  <2>3. /\ d.vfn = c.vfn /\ d.obj = c.obj /\ d.iface = c.iface /\ d.iter = c.iter
        /\ d.state = (IF c.state = "Recall_Post" THEN "Post" ELSE "PostVP")
    BY <2>2 DEF PostResumed, Context
  <2>4. Stage(d) = Stage(c) /\ (Walks(d) <=> Walks(c))
    BY <1>3, <2>3 DEF Stage, Walks, HookStates, RecallStates
  <2>5. Ahead(d, hooks) = Ahead(c, hooks)
    BY <2>3, <2>4, SameAhead
  <2>. QED
    BY <2>1, <2>2, <2>5 DEF Splits
<1>4. CASE c.state \in {"Dead", "Ignore", "Stray"}
  <2>1. Advanced(c) = c /\ GetNext(c) = 0
    BY <1>4 DEF Advanced, GetNext, HookStates
  <2>. QED
    BY <2>1 DEF Splits
<1>. QED
  BY <1>1, <1>2, <1>3, <1>4 DEF HookStates, RecallStates

-----------------------------------------------------------------------------
(* What a call still owes is ahead of its context *)

\* The hooks a context's loop is responsible for.
Reach(c) == {h \in Live : /\ entries[h].vfnptr = c.vfn
                          /\ entries[h].iface = VP \/ (entries[h].iface = c.obj /\ c.iface = "set")}

\* A walking context is at a hook of its list, or at no hook; and it knows of an
\* interface only while that has hooks.
Placed(c, hs) ==
    Walks(c) => IF c.vfn = NoVfn THEN c.iter = Dangling
                ELSE c.iter \in Elements(hs[ListKey(c)]) \union {AtStart, Dangling}
Whole(c, hs) ==
    /\ c.state # "Stray"
    /\ c.state = "Born" /\ c.vfn # NoVfn => c.iter = AtStart
    /\ c.iface = "set" => c.vfn # NoVfn /\ HasIface(hs, c.vfn, c.obj)
    /\ Placed(c, hs)
WholeInv == \A n \in DOMAIN ctxs : Whole(ctxs[n], hooks)

\* The hooks a call owes are ahead and those it called are not.
OnTrack(f, c) ==
    /\ f.due \subseteq Ahead(c, hooks) \ paused
    /\ f.done \subseteq Reach(c) \ Ahead(c, hooks)
TrackInv == \A i \in DOMAIN frames : frames[i].kind = "hook" => OnTrack(frames[i], ctxs[frames[i].ctx])

\* The list a walking context is at is the one of its stage.
LEMMA WalkingKey ==
    ASSUME NEW c \in Context, Walks(c)
    PROVE  Stage(c) \in Ranks /\ ListKey(c) = Key(c, Stage(c))
<1>1. CASE c.state \in {"Pre", "Recall_Pre"}
  <2>1. Stage(c) = 0
    BY <1>1 DEF Stage
  <2>. QED
    BY <1>1, <2>1 DEF ListKey, Key, Ranks
<1>2. CASE c.state \in {"PreVP", "Recall_PreVP"}
  <2>1. Stage(c) = 1
    BY <1>2 DEF Stage
  <2>. QED
    BY <1>2, <2>1 DEF ListKey, Key, Ranks
<1>3. CASE c.state \in {"Post", "Recall_Post"}
  <2>1. Stage(c) = 2
    BY <1>3 DEF Stage
  <2>. QED
    BY <1>3, <2>1 DEF ListKey, Key, Ranks
<1>4. CASE c.state \in {"PostVP", "Recall_PostVP"}
  <2>1. Stage(c) = 3
    BY <1>4 DEF Stage
  <2>. QED
    BY <1>4, <2>1 DEF ListKey, Key, Ranks
<1>. QED
  BY <1>1, <1>2, <1>3, <1>4 DEF Walks, HookStates, RecallStates

\* What is ahead is within reach.
LEMMA AheadReach ==
    ASSUME RegistryInv, NEW c \in Context
    PROVE  Ahead(c, hooks) \subseteq Reach(c)
<1>1. SUFFICES ASSUME NEW r \in Ranks, NEW h \in Rest(c, hooks, r)
               PROVE  h \in Reach(c)
  BY DEF Ahead
<1>2. Open(c, r) /\ h \in Live /\ Site(h) = Key(c, r)
  BY <1>1, RestLive
<1>3. entries[h].vfnptr = c.vfn /\ entries[h].iface = (IF r \in {0, 2} THEN c.obj ELSE VP)
  BY <1>2 DEF Site, Key
<1>. QED
  BY <1>2, <1>3 DEF Reach, Open

\* GetNext keeps a call on its track.
LEMMA AdvancedTrack ==
    ASSUME RegistryInv, NEW c \in Context, ~UsesFreed(c), Whole(c, hooks), NEW f \in FrameType, OnTrack(f, c),
           NEW d, d = Advanced(c), NEW n, n = GetNext(c)
    PROVE  /\ n = 0 => OnTrack(f, d)
           /\ n # 0 => /\ n \in Live \ (paused \union f.done)
                       /\ \A g \in f.due : g = n \/ ~Precedes(g, n)
                       /\ f.due \ {n} \subseteq Ahead(d, hooks) \ paused
                       /\ f.done \union {n} \subseteq Reach(d) \ Ahead(d, hooks)
<1>1. Splits(c, d, n)
  <2>1. c.state = "Born" => c.iter = AtStart
    BY DEF Whole, UsesFreed
  <2>. QED
    BY <2>1, AdvancedSplits
<1>2. Reach(d) = Reach(c)
  <2>1. d.vfn = c.vfn /\ d.obj = c.obj /\ d.iface = c.iface
    BY AdvancedContext
  <2>. QED
    BY <2>1 DEF Reach
<1>3. Ahead(c, hooks) \subseteq Reach(c) /\ Reach(c) \subseteq Live
  BY AheadReach DEF Reach
<1>4. f.due \subseteq Ahead(c, hooks) \ paused /\ f.done \subseteq Reach(c) \ Ahead(c, hooks)
  BY DEF OnTrack
<1>5. CASE n = 0
  BY <1>1, <1>2, <1>4, <1>5 DEF OnTrack, Splits
<1>6. CASE n # 0
  BY <1>1, <1>2, <1>3, <1>4, <1>6 DEF Splits
<1>. QED
  BY <1>5, <1>6

\* A context GetNext moved is at a hook of its list.
LEMMA AdvancedWhole ==
    ASSUME RegistryInv, NEW c \in Context, ~UsesFreed(c), Whole(c, hooks)
    PROVE  Whole(Advanced(c), hooks)
<1>1. PICK d, n : d = Advanced(c) /\ n = GetNext(c)
  OBVIOUS
<1>2. d \in Context /\ d.vfn = c.vfn /\ d.obj = c.obj /\ d.iface = c.iface
  BY <1>1, AdvancedContext
<1>3. CASE c.state \in {"Born", "Pre", "Recall_Pre", "PreVP", "Recall_PreVP", "OrigCall", "Post", "PostVP"}
  <2>1. c.vfn # NoVfn
    BY <1>3 DEF UsesFreed
  <2>2. Passes(c) \/ \E r \in Ranks : Reaches(c, r)
    BY <1>3, <2>1, AdvanceStages DEF Whole
  <2>3. CASE Passes(c)
    <3>1. d.state \in {"OrigCall", "Dead"}
      BY <1>1, <2>3, SteppedFields DEF Passes
    <3>. QED
      BY <1>1, <1>2, <3>1 DEF Whole, Placed, Walks, HookStates, RecallStates
  <2>4. ASSUME NEW r \in Ranks, Reaches(c, r)
        PROVE  Whole(d, hooks)
    <3>1. d.state = StateAt(r) /\ d.iter = n /\ n # 0 /\ n = NextIn(c, r) /\ Stage(c) <= r
      BY <1>1, <2>4, SteppedFields DEF Reaches
    <3>2. n \in Elements(hooks[Key(c, r)])
      BY <2>4, <3>1, NextInSplits
    <3>3. Stage(d) = r /\ Walks(d) /\ d.state \notin {"Stray", "Born"}
      BY <3>1 DEF Stage, StateAt, Ranks, Walks, HookStates
    <3>4. ListKey(d) = Key(c, r)
      BY <1>2, <3>3, WalkingKey DEF Key
    <3>. QED
      BY <1>2, <2>1, <3>1, <3>2, <3>3, <3>4 DEF Whole, Placed
  <2>. QED
    BY <1>1, <2>2, <2>3, <2>4
<1>4. CASE c.state \in {"Recall_Post", "Recall_PostVP"}
  <2>1. d = PostResumed(c)
    BY <1>1, <1>4 DEF Advanced
  <2>2. d.iter = c.iter /\ d.state = (IF c.state = "Recall_Post" THEN "Post" ELSE "PostVP")
    BY <2>1 DEF PostResumed, Context
  <2>3. ListKey(d) = ListKey(c) /\ Walks(d) /\ Walks(c) /\ d.state \notin {"Stray", "Born"}
    BY <1>2, <1>4, <2>2 DEF ListKey, Walks, HookStates, RecallStates
  <2>. QED
    BY <1>1, <1>2, <2>2, <2>3 DEF Whole, Placed
<1>5. CASE c.state \in {"Dead", "Ignore", "Stray"}
  <2>1. Advanced(c) = c
    BY <1>5 DEF Advanced
  <2>. QED
    BY <2>1
<1>. QED
  BY <1>3, <1>4, <1>5 DEF Context, HookStates, RecallStates

\* What is left of the lists of a context that keeps its entry, and what it is told of it.
LEMMA NotifiedFields ==
    ASSUME NEW c \in Context, c.vfn # NoVfn, NEW R, NEW W, c.vfn \notin W
    PROVE  LET d == Notified(c, R, W, Left(R))
               Gone(i) == HasIface(hooks, c.vfn, i) /\ ~HasIface(Left(R), c.vfn, i)
           IN  /\ d.state = c.state /\ d.vfn = c.vfn /\ d.obj = c.obj /\ d.callOrig = c.callOrig
               /\ d.iface = IF c.iface = "set" /\ Gone(c.obj) THEN "null" ELSE c.iface
               /\ d.iter = IF ~Walks(c) THEN c.iter
                           ELSE IF Gone(ListKey(c)[2]) THEN Dangling
                           ELSE IF c.iter \in R THEN SteppedBack(hooks[ListKey(c)], c.iter, R)
                           ELSE c.iter
<1>1. PICK a, b : /\ a = (HasIface(hooks, c.vfn, c.obj) /\ ~HasIface(Left(R), c.vfn, c.obj))
                  /\ b = (HasIface(hooks, c.vfn, ListKey(c)[2]) /\ ~HasIface(Left(R), c.vfn, ListKey(c)[2]))
  OBVIOUS
<1>2. PICK y : y = SteppedBack(hooks[ListKey(c)], c.iter, R)
  OBVIOUS
<1>3. Notified(c, R, W, Left(R)) =
         [c EXCEPT !.iface = IF @ = "set" /\ a THEN "null" ELSE @,
                   !.iter = IF ~Walks(c) THEN @ ELSE IF b THEN Dangling ELSE IF @ \in R THEN y ELSE @]
  BY <1>1, <1>2 DEF Notified, Walks, Context
<1>4. PICK d : d = Notified(c, R, W, Left(R))
  OBVIOUS
<1>5. /\ d.state = c.state /\ d.vfn = c.vfn /\ d.obj = c.obj /\ d.callOrig = c.callOrig
      /\ d.iface = (IF c.iface = "set" /\ a THEN "null" ELSE c.iface)
      /\ d.iter = (IF ~Walks(c) THEN c.iter ELSE IF b THEN Dangling ELSE IF c.iter \in R THEN y ELSE c.iter)
  BY <1>3, <1>4 DEF Context
<1>. QED
  BY <1>1, <1>2, <1>4, <1>5

\* The lists of an interface that loses all its hooks.
LEMMA GoneIface ==
    ASSUME RegistryInv, NEW v \in VfnPtrs, NEW i \in Ifaces, NEW R, NEW b \in BOOLEAN,
           HasIface(hooks, v, i), ~HasIface(Left(R), v, i)
    PROVE  Left(R)[<<v, i, b>>] = <<>> /\ Elements(hooks[<<v, i, b>>]) \subseteq R
<1>1. /\ <<v, i, FALSE>> \in Lists /\ <<v, i, TRUE>> \in Lists /\ <<v, i, b>> \in Lists
  BY DEF Lists
<1>2. \A l \in Lists : Left(R)[l] = Without(hooks[l], R) /\ Left(R)[l] \in Seq(1..MaxIds)
                       /\ Elements(Left(R)[l]) = Elements(hooks[l]) \ R
  <2>1. ASSUME NEW l \in Lists
        PROVE  /\ Left(R)[l] = Without(hooks[l], R) /\ Left(R)[l] \in Seq(1..MaxIds)
               /\ Elements(Left(R)[l]) = Elements(hooks[l]) \ R
    <3>1. hooks[l] \in Seq(1..MaxIds)
      BY DEF RegistryInv
    <3>2. Left(R)[l] = Without(hooks[l], R)
      BY DEF Left
    <3>. QED
      BY <3>1, <3>2, WithoutIsSublist
  <2>. QED
    BY <2>1
<1>3. Left(R)[<<v, i, b>>] = <<>>
  <2>1. HasIface(Left(R), v, i) <=> \E x \in BOOLEAN : Left(R)[<<v, i, x>>] # <<>>
    BY <1>1, <1>2, HasIfaceMeans
  <2>. QED
    BY <2>1
<1>4. PICK l \in Lists : l = <<v, i, b>>
  BY <1>1
<1>5. Left(R)[l] = <<>>
  BY <1>3, <1>4
<1>6. Elements(Left(R)[l]) = {}
  BY <1>2, <1>5, EmptyElements
<1>7. Elements(hooks[l]) \subseteq R
  BY <1>2, <1>6
<1>. QED
  BY <1>4, <1>5, <1>7

\* What HookRemoved and IfaceRemoved do to one of the lists ahead: the hooks that go are
\* ahead no more, and nothing else changes.
LEMMA NotifiedRest ==
    ASSUME RegistryInv, NEW c \in Context, c.vfn # NoVfn, NEW R \in SUBSET Live, NEW W, c.vfn \notin W,
           NEW d, d = Notified(c, R, W, Left(R)), NEW r \in Ranks
    PROVE  Rest(d, Left(R), r) = Rest(c, hooks, r) \ R
<1>. DEFINE Gone(i) == HasIface(hooks, c.vfn, i) /\ ~HasIface(Left(R), c.vfn, i)
<1>1. /\ d.state = c.state /\ d.vfn = c.vfn /\ d.obj = c.obj
      /\ d.iface = (IF c.iface = "set" /\ Gone(c.obj) THEN "null" ELSE c.iface)
      /\ d.iter = (IF ~Walks(c) THEN c.iter
                   ELSE IF Gone(ListKey(c)[2]) THEN Dangling
                   ELSE IF c.iter \in R THEN SteppedBack(hooks[ListKey(c)], c.iter, R)
                   ELSE c.iter)
  BY NotifiedFields
<1>2. Key(d, r) = Key(c, r) /\ Stage(d) = Stage(c) /\ (Walks(d) <=> Walks(c))
  BY <1>1 DEF Key, Stage, Walks
<1>3. PICK i, b : i = (IF r \in {0, 2} THEN c.obj ELSE VP) /\ b = (r \in {2, 3})
  OBVIOUS
<1>4. Key(c, r) = <<c.vfn, i, b>> /\ i \in Ifaces /\ b \in BOOLEAN /\ c.vfn \in VfnPtrs
  BY <1>3 DEF Key, Ifaces, Context
<1>5. PICK l : l = hooks[Key(c, r)]
  OBVIOUS
<1>6. l \in Seq(1..MaxIds) /\ IsInjective(l) /\ Left(R)[Key(c, r)] = Without(l, R)
  BY <1>5, KeyLists DEF Left
<1>7. R \subseteq 1..MaxIds
  BY LiveEntries DEF RegistryInv
<1>8. CASE Gone(i)
  <2>1. Left(R)[Key(c, r)] = <<>> /\ Elements(l) \subseteq R
    <3>1. PICK v \in VfnPtrs : v = c.vfn
      BY <1>4
    <3>2. HasIface(hooks, v, i) /\ ~HasIface(Left(R), v, i)
      BY <1>8, <3>1
    <3>3. Left(R)[<<v, i, b>>] = <<>> /\ Elements(hooks[<<v, i, b>>]) \subseteq R
      BY <1>4, <3>2, GoneIface
    <3>. QED
      BY <1>4, <1>5, <3>1, <3>3
  <2>2. After(<<>>, Start(d, r)) = {}
    <3>1. PICK x, e : x = Start(d, r) /\ e = <<>>
      OBVIOUS
    <3>2. DOMAIN e = {}
      BY <3>1
    <3>3. After(e, x) = {}
      BY <3>2 DEF After
    <3>. QED
      BY <3>1, <3>3
  <2>3. Rest(c, hooks, r) \subseteq Elements(l)
    BY <1>5, <1>6, AfterPlace DEF Rest
  <2>4. Rest(d, Left(R), r) = {}
    BY <1>2, <2>1, <2>2 DEF Rest
  <2>5. Rest(c, hooks, r) \ R = {}
    BY <2>1, <2>3
  <2>. QED
    BY <2>4, <2>5
<1>9. CASE ~Gone(i)
  <2>1. Open(d, r) <=> Open(c, r)
    BY <1>1, <1>2, <1>3, <1>9 DEF Open
  <2>2. After(Without(l, R), Start(d, r)) = After(l, Start(c, r)) \ R
    <3>1. CASE Walks(c) /\ r = Stage(c)
      <4>1. ListKey(c) = Key(c, r) /\ ListKey(c)[2] = i
        BY <1>4, <3>1, WalkingKey
      <4>2. Start(c, r) = c.iter /\ Start(d, r) = d.iter
        BY <1>2, <3>1 DEF Start
      <4>3. d.iter = IF c.iter \in R THEN SteppedBack(l, c.iter, R) ELSE c.iter
        BY <1>1, <1>5, <1>9, <3>1, <4>1
      <4>4. CASE c.iter \in R
        BY <1>6, <4>2, <4>3, <4>4, SteppedBackAfter
      <4>5. CASE c.iter \notin R
        BY <1>6, <4>2, <4>3, <4>5, WithoutAfter
      <4>. QED
        BY <4>4, <4>5
    <3>2. CASE ~(Walks(c) /\ r = Stage(c))
      <4>1. Start(c, r) = AtStart /\ Start(d, r) = AtStart
        BY <1>2, <3>2 DEF Start
      <4>2. AtStart \notin R
        BY <1>7 DEF AtStart
      <4>. QED
        BY <1>6, <4>1, <4>2, WithoutAfter
    <3>. QED
      BY <3>1, <3>2
  <2>. QED
    BY <1>2, <1>5, <1>6, <2>1, <2>2 DEF Rest
<1>. QED
  BY <1>8, <1>9

\* A context that was told of what goes is whole for what is left.
LEMMA NotifiedWhole ==
    ASSUME RegistryInv, NEW c \in Context, Whole(c, hooks), c.vfn # NoVfn,
           NEW R \in SUBSET Live, NEW W, c.vfn \notin W, NEW d, d = Notified(c, R, W, Left(R))
    PROVE  Whole(d, Left(R))
<1>. DEFINE Gone(i) == HasIface(hooks, c.vfn, i) /\ ~HasIface(Left(R), c.vfn, i)
<1>1. /\ d.state = c.state /\ d.vfn = c.vfn /\ d.obj = c.obj
      /\ d.iface = (IF c.iface = "set" /\ Gone(c.obj) THEN "null" ELSE c.iface)
      /\ d.iter = (IF ~Walks(c) THEN c.iter
                   ELSE IF Gone(ListKey(c)[2]) THEN Dangling
                   ELSE IF c.iter \in R THEN SteppedBack(hooks[ListKey(c)], c.iter, R)
                   ELSE c.iter)
  BY NotifiedFields
<1>2. ListKey(d) = ListKey(c) /\ (Walks(d) <=> Walks(c))
  BY <1>1 DEF ListKey, Walks
<1>3. d.state # "Stray" /\ (d.state = "Born" /\ d.vfn # NoVfn => d.iter = AtStart)
  BY <1>1 DEF Whole, Walks, HookStates, RecallStates
<1>4. d.iface = "set" => d.vfn # NoVfn /\ HasIface(Left(R), d.vfn, d.obj)
  BY <1>1 DEF Whole
<1>5. ASSUME Walks(c)
      PROVE  d.iter \in Elements(Left(R)[ListKey(c)]) \union {AtStart, Dangling}
  <2>1. PICK l : l = hooks[ListKey(c)]
    OBVIOUS
  <2>2. l \in Seq(1..MaxIds) /\ IsInjective(l) /\ Left(R)[ListKey(c)] = Without(l, R)
    BY <1>5, <2>1, WalkingKey, KeyLists DEF Left
  <2>3. c.iter \in Elements(l) \union {AtStart, Dangling}
    BY <1>5, <2>1 DEF Whole, Placed
  <2>4. Elements(Without(l, R)) = Elements(l) \ R
    BY <2>2, WithoutIsSublist
  <2>5. c.iter \in R => SteppedBack(l, c.iter, R) \in Elements(Without(l, R)) \union {AtStart}
    BY <2>2, SteppedBackAfter
  <2>. QED
    BY <1>1, <1>5, <2>1, <2>2, <2>3, <2>4, <2>5
<1>. QED
  BY <1>1, <1>2, <1>3, <1>4, <1>5 DEF Whole, Placed

\* Only the lists of its entry matter to a context.
LEMMA SameLists ==
    ASSUME NEW c \in Context, c.vfn \in VfnPtrs, NEW hs, NEW gs,
           \A i \in Ifaces, b \in BOOLEAN : gs[<<c.vfn, i, b>>] = hs[<<c.vfn, i, b>>]
    PROVE  /\ Ahead(c, gs) = Ahead(c, hs)
           /\ Whole(c, hs) => Whole(c, gs)
<1>1. c.obj \in Ifaces /\ VP \in Ifaces
  BY DEF Context, Ifaces
<1>2. \A r \in Ranks : gs[Key(c, r)] = hs[Key(c, r)]
  <2>1. ASSUME NEW r \in Ranks
        PROVE  gs[Key(c, r)] = hs[Key(c, r)]
    <3>1. PICK i, b : i = (IF r \in {0, 2} THEN c.obj ELSE VP) /\ b = (r \in {2, 3})
      OBVIOUS
    <3>2. Key(c, r) = <<c.vfn, i, b>> /\ i \in Ifaces /\ b \in BOOLEAN
      BY <1>1, <3>1 DEF Key
    <3>. QED
      BY <3>2
  <2>. QED
    BY <2>1
<1>3. \A r \in Ranks : Rest(c, gs, r) = Rest(c, hs, r)
  BY <1>2 DEF Rest
<1>4. Walks(c) => gs[ListKey(c)] = hs[ListKey(c)]
  BY <1>2, WalkingKey
<1>5. HasIface(gs, c.vfn, c.obj) = HasIface(hs, c.vfn, c.obj)
  <2>1. gs[<<c.vfn, c.obj, FALSE>>] = hs[<<c.vfn, c.obj, FALSE>>] /\ gs[<<c.vfn, c.obj, TRUE>>] = hs[<<c.vfn, c.obj, TRUE>>]
    BY <1>1
  <2>. QED
    BY <2>1 DEF HasIface
<1>. QED
  BY <1>3, <1>4, <1>5 DEF Ahead, Whole, Placed

\* What the functions that remove hooks do to a context of the stack.
LEMMA RetiredContext ==
    ASSUME RegistryInv, NEW c \in Context, NEW R \in SUBSET Live, NEW M \in SUBSET HookMans,
           NEW d, d = Orphaned(Notified(c, R, Emptied(R), Left(R)), Unserved(R, M))
    PROVE  /\ d.callOrig = c.callOrig
           /\ c.vfn = NoVfn => d = c
           /\ c.vfn \in Emptied(R) => d.vfn = NoVfn /\ d.state = "Dead" /\ d.iface # "set"
           /\ c.vfn \in Unserved(R, M) \ Emptied(R) =>
                 d.vfn = NoVfn /\ d.state = c.state /\ d.iface # "set"
                 /\ d.iter = IF c.state \in {"Dead", "Ignore"} THEN d.iter ELSE Dangling
           /\ c.vfn \notin Emptied(R) \union Unserved(R, M) => d = Notified(c, R, Emptied(R), Left(R))
<1>1. NoVfn \notin Emptied(R) /\ NoVfn \notin Unserved(R, M)
  BY NoneAssumption DEF Emptied, Unserved
<1>2. PICK e : e = Notified(c, R, Emptied(R), Left(R))
  OBVIOUS
<1>3. CASE c.vfn = NoVfn
  <2>1. e = c
    BY <1>2, <1>3 DEF Notified
  <2>2. d = c
    BY <1>1, <1>2, <1>3, <2>1 DEF Orphaned
  <2>. QED
    BY <1>1, <1>2, <1>3, <2>1, <2>2
<1>4. CASE c.vfn \in Emptied(R)
  <2>1. e = [c EXCEPT !.state = "Dead", !.vfn = NoVfn, !.iter = AtStart, !.iface = "null"]
    BY <1>1, <1>2, <1>4 DEF Notified
  <2>2. e.vfn = NoVfn /\ e.state = "Dead" /\ e.iface = "null" /\ e.callOrig = c.callOrig
    BY <2>1 DEF Context
  <2>3. d = e
    BY <1>1, <1>2, <2>2 DEF Orphaned
  <2>. QED
    BY <1>1, <1>4, <2>2, <2>3
<1>5. CASE c.vfn # NoVfn /\ c.vfn \notin Emptied(R)
  <2>1. e \in Context /\ e.vfn = c.vfn /\ e.state = c.state /\ e.callOrig = c.callOrig
    BY <1>2, <1>5, NotifiedFields, NotifiedContext
  <2>2. d = Orphaned(e, Unserved(R, M))
    BY <1>2
  <2>3. CASE c.vfn \in Unserved(R, M)
    <3>1. d = [e EXCEPT !.vfn = NoVfn, !.iter = IF e.state \in {"Dead", "Ignore"} THEN @ ELSE Dangling,
                        !.iface = IF @ = "set" THEN "freed" ELSE @]
      BY <2>1, <2>2, <2>3 DEF Orphaned
    <3>2. /\ d.vfn = NoVfn /\ d.state = c.state /\ d.callOrig = c.callOrig /\ d.iface # "set"
          /\ d.iter = IF c.state \in {"Dead", "Ignore"} THEN d.iter ELSE Dangling
      BY <2>1, <3>1 DEF Context
    <3>. QED
      BY <1>5, <2>3, <3>2
  <2>4. CASE c.vfn \notin Unserved(R, M)
    <3>1. d = e
      BY <2>1, <2>2, <2>4 DEF Orphaned
    <3>. QED
      BY <1>2, <1>5, <2>1, <2>4, <3>1
  <2>. QED
    BY <2>3, <2>4
<1>. QED
  BY <1>3, <1>4, <1>5

\* The hooks a context without an entry has within reach, and those of an entry.
LEMMA ReachesOwn ==
    ASSUME RegistryInv, NEW c \in Context
    PROVE  /\ c.vfn = NoVfn => Reach(c) = {}
           /\ Reach(c) \subseteq HooksOn(c.vfn)
<1>1. \A h \in Live : entries[h].vfnptr \in VfnPtrs
  BY LiveEntries DEF RegistryInv, Ids!Info
<1>. QED
  BY <1>1, NoneAssumption DEF Reach, HooksOn

\* Whatever goes, a context stays whole and a call on its track.
LEMMA RetireTrack ==
    ASSUME RegistryInv, NEW c \in Context, Whole(c, hooks), NEW R \in SUBSET Live, NEW M \in SUBSET HookMans,
           Retire(R, M), NEW f, OnTrack(f, c),
           NEW d \in Context, d = Orphaned(Notified(c, R, Emptied(R), Left(R)), Unserved(R, M))
    PROVE  /\ Whole(d, hooks')
           /\ f.due \ Lost(R, M) \subseteq Ahead(d, hooks') \ paused'
           /\ f.done \ Lost(R, M) \subseteq Reach(d)' \ Ahead(d, hooks')
<1>1. /\ hooks' = [l \in Lists |-> IF l[1] \in Unserved(R, M) THEN <<>> ELSE Left(R)[l]]
      /\ paused' = paused \ Lost(R, M)
      /\ Live' = Live \ Lost(R, M) /\ \A h \in Live \ Lost(R, M) : entries'[h] = entries[h]
  BY RetireEffect, Freeing DEF RegistryInv
<1>2. /\ f.due \subseteq Ahead(c, hooks) \ paused
      /\ f.done \subseteq Reach(c) \ Ahead(c, hooks)
      /\ Ahead(c, hooks) \subseteq Reach(c)
  BY AheadReach DEF OnTrack
<1>3. Reach(c) \subseteq Live /\ R \subseteq Lost(R, M)
  BY DEF Reach, Lost
<1>4. CASE c.vfn = NoVfn
  <2>1. d = c /\ Reach(c) = {}
    BY <1>4, RetiredContext, ReachesOwn
  <2>2. Whole(d, hooks')
    BY <1>4, <2>1 DEF Whole, Placed
  <2>. QED
    BY <1>2, <2>1, <2>2
<1>5. CASE c.vfn \in Emptied(R) \union Unserved(R, M)
  <2>1. HooksOn(c.vfn) \subseteq Lost(R, M)
    BY <1>5 DEF Emptied, HooksOn, Lost
  <2>2. f.due \ Lost(R, M) = {} /\ f.done \ Lost(R, M) = {}
    BY <1>2, <2>1, ReachesOwn
  <2>3. CASE c.vfn \in Emptied(R)
    <3>1. d.vfn = NoVfn /\ d.state = "Dead" /\ d.iface # "set"
      BY <2>3, RetiredContext
    <3>. QED
      BY <2>2, <3>1 DEF Whole, Placed, Walks, HookStates, RecallStates
  <2>4. CASE c.vfn \notin Emptied(R)
    <3>1. /\ d.vfn = NoVfn /\ d.state = c.state /\ d.iface # "set"
          /\ d.iter = IF c.state \in {"Dead", "Ignore"} THEN d.iter ELSE Dangling
      BY <1>5, <2>4, RetiredContext
    <3>2. c.vfn # NoVfn
      BY <1>5, NoneAssumption DEF Emptied, Unserved
    <3>. QED
      BY <2>2, <3>1, <3>2 DEF Whole, Placed, Walks, HookStates, RecallStates
  <2>. QED
    BY <2>3, <2>4
<1>6. CASE c.vfn # NoVfn /\ c.vfn \notin Emptied(R) \union Unserved(R, M)
  <2>1. d = Notified(c, R, Emptied(R), Left(R))
    BY <1>6, RetiredContext
  <2>2. Whole(d, Left(R))
    BY <1>6, <2>1, NotifiedWhole
  <2>3. \A r \in Ranks : Rest(d, Left(R), r) = Rest(c, hooks, r) \ R
    BY <1>6, <2>1, NotifiedRest
  <2>4. Ahead(d, Left(R)) = Ahead(c, hooks) \ R
    BY <2>3 DEF Ahead
  <2>5. /\ d.vfn = c.vfn /\ d.obj = c.obj /\ c.vfn \in VfnPtrs
        /\ d.iface = IF c.iface = "set" /\ HasIface(hooks, c.vfn, c.obj) /\ ~HasIface(Left(R), c.vfn, c.obj)
                     THEN "null" ELSE c.iface
    BY <1>6, <2>1, NotifiedFields DEF Context
  <2>6. \A i \in Ifaces, b \in BOOLEAN : hooks'[<<d.vfn, i, b>>] = Left(R)[<<d.vfn, i, b>>]
    BY <1>1, <1>6, <2>5 DEF Lists
  <2>7. Whole(d, hooks') /\ Ahead(d, hooks') = Ahead(c, hooks) \ R
    BY <2>2, <2>4, <2>5, <2>6, SameLists
  <2>8. f.due \ Lost(R, M) \subseteq Ahead(d, hooks') \ paused'
    BY <1>1, <1>2, <1>3, <2>7
  <2>9. ASSUME NEW h \in f.done \ Lost(R, M)
        PROVE  h \in Reach(d)' \ Ahead(d, hooks')
    <3>1. /\ h \in Live \ Lost(R, M) /\ entries'[h] = entries[h]
          /\ entries[h].vfnptr = c.vfn
          /\ entries[h].iface = VP \/ (entries[h].iface = c.obj /\ c.iface = "set")
      BY <1>1, <1>2, <2>9 DEF Reach
    <3>2. entries[h].iface = VP \/ (entries[h].iface = c.obj /\ d.iface = "set")
      <4>1. SUFFICES ASSUME entries[h].iface = c.obj, entries[h].iface # VP, d.iface # "set"
                     PROVE  FALSE
        BY <3>1
      <4>2. PICK v \in VfnPtrs, i \in Ifaces, b \in BOOLEAN : v = c.vfn /\ i = c.obj /\ b = entries[h].post
        <5>1. c.obj \in Ifaces
          BY DEF Context, Ifaces
        <5>2. entries[h].post \in BOOLEAN
          BY <3>1, LiveEntries DEF RegistryInv, Ids!Info
        <5>. QED
          BY <2>5, <5>1, <5>2
      <4>3. HasIface(hooks, v, i) /\ ~HasIface(Left(R), v, i)
        BY <2>5, <3>1, <4>1, <4>2
      <4>4. Elements(hooks[<<v, i, b>>]) \subseteq R
        BY <4>3, GoneIface
      <4>5. PICK l \in Lists : l = <<v, i, b>>
        BY DEF Lists
      <4>6. Site(h) = l
        BY <3>1, <4>1, <4>2, <4>5 DEF Site
      <4>7. h \in Elements(hooks[l])
        BY <3>1, <4>6 DEF RegistryInv
      <4>. QED
        BY <1>3, <3>1, <4>4, <4>5, <4>7
    <3>3. h \in Reach(d)'
      BY <1>1, <2>5, <3>1, <3>2 DEF Reach
    <3>. QED
      BY <1>2, <2>7, <2>9, <3>3
  <2>. QED
    BY <2>7, <2>8, <2>9
<1>. QED
  BY <1>4, <1>5, <1>6

\* What AddHook does to the lists and the ids.
LEMMA AddedHook ==
    ASSUME RegistryInv, NEW m \in HookMans, NEW handler \in Handlers, NEW l \in Sites, AddHook(m, handler, l)
    PROVE  \E id \in (1..MaxIds) \ Live :
             /\ hooks' = [hooks EXCEPT ![l] = Append(@, id)]
             /\ Live' = Live \union {id} /\ \A h \in Live : entries'[h] = entries[h]
             /\ UNCHANGED <<paused, ctxs, frames>>
<1>. DEFINE info == [vfnptr |-> l[1], iface |-> l[2], plug |-> OwnerOf[m], handler |-> handler, post |-> l[3]]
<1>1. info \in Ids!Info
  BY SiteAssumption, OwnerAssumption DEF Ids!Info, Lists
<1>2. PICK id : id = Ids!NextId(entries)
  OBVIOUS
<1>. HIDE DEF info
<1>3. /\ id \in 1..MaxIds /\ id \notin Live
      /\ Live' = Live \union {id}
      /\ \A h \in Live : entries'[h] = entries[h]
  <2>1. Ids!New(info)
    BY DEF AddHook, info
  <2>. QED
    BY <1>1, <1>2, <2>1, Adding DEF RegistryInv
<1>4. hooks' = [hooks EXCEPT ![l] = Append(@, id)] /\ UNCHANGED <<paused, ctxs, frames>>
  BY <1>2 DEF AddHook
<1>. QED
  BY <1>3, <1>4

\* A hook that is added is ahead of the loops that did not come to its list's end.
LEMMA AddTrack ==
    ASSUME RegistryInv, RegistryInv', NEW m \in HookMans, NEW handler \in Handlers, NEW l \in Sites,
           AddHook(m, handler, l), NEW c \in Context, Whole(c, hooks), NEW f, OnTrack(f, c)
    PROVE  Whole(c, hooks') /\ OnTrack(f, c)'
<1>1. PICK id \in (1..MaxIds) \ Live :
             /\ hooks' = [hooks EXCEPT ![l] = Append(@, id)]
             /\ Live' = Live \union {id} /\ \A h \in Live : entries'[h] = entries[h]
             /\ UNCHANGED <<paused, ctxs, frames>>
  BY AddedHook
<1>2. l \in Lists
  BY SiteAssumption
<1>3. PICK hs : hs = hooks'
  OBVIOUS
<1>4. \A k \in Lists : hs[k] = IF k = l THEN Append(hooks[l], id) ELSE hooks[k]
  BY <1>1, <1>2, <1>3 DEF RegistryInv
<1>5. c.vfn \in VfnPtrs \/ c.vfn = NoVfn
  BY DEF Context
<1>6. Walks(c) /\ c.vfn # NoVfn => c.iter \in Live \union {AtStart, Dangling}
  <2>1. SUFFICES ASSUME Walks(c), c.vfn # NoVfn
                 PROVE  c.iter \in Live \union {AtStart, Dangling}
    OBVIOUS
  <2>2. Elements(hooks[ListKey(c)]) \subseteq Live
    BY <2>1, WalkingKey, KeyLists
  <2>. QED
    BY <2>1, <2>2 DEF Whole, Placed
<1>7. \A r \in Ranks : Rest(c, hooks, r) \subseteq Rest(c, hs, r)
                       /\ Rest(c, hs, r) \subseteq Rest(c, hooks, r) \union {id}
  <2>1. ASSUME NEW r \in Ranks, Open(c, r)
        PROVE  /\ After(hooks[Key(c, r)], Start(c, r)) \subseteq After(hs[Key(c, r)], Start(c, r))
               /\ After(hs[Key(c, r)], Start(c, r)) \subseteq After(hooks[Key(c, r)], Start(c, r)) \union {id}
    <3>1. PICK k, x, s : k = Key(c, r) /\ x = Start(c, r) /\ s = hooks[k]
      OBVIOUS
    <3>2. c.vfn # NoVfn
      BY <2>1 DEF Open
    <3>3. k \in Lists /\ s \in Seq(1..MaxIds) /\ IsInjective(s) /\ Elements(s) \subseteq Live
      BY <3>1, <3>2, KeyLists
    <3>4. x # id
      BY <1>1, <1>6, <3>1, <3>2, LiveEntries DEF Start, AtStart, Dangling
    <3>5. CASE k = l
      <4>1. hs[k] = Append(s, id) /\ id \notin Elements(s)
        BY <1>1, <1>4, <3>1, <3>3, <3>5
      <4>2. After(Append(s, id), x) = After(s, x) \union {id}
        BY <1>1, <3>3, <3>4, <4>1, AppendAfter
      <4>. QED
        BY <3>1, <4>1, <4>2
    <3>6. CASE k # l
      BY <1>4, <3>1, <3>3, <3>6
    <3>. QED
      BY <3>5, <3>6
  <2>. QED
    BY <2>1 DEF Rest
<1>8. Ahead(c, hooks) \subseteq Ahead(c, hs) /\ Ahead(c, hs) \subseteq Ahead(c, hooks) \union {id}
  BY <1>7 DEF Ahead
<1>9. Reach(c) \subseteq Live /\ \A h \in Reach(c) : h \in Reach(c)'
  BY <1>1 DEF Reach
<1>10. OnTrack(f, c)'
  <2>1. /\ f.due \subseteq Ahead(c, hooks) \ paused
        /\ f.done \subseteq Reach(c) \ Ahead(c, hooks)
    BY DEF OnTrack
  <2>2. f.due \subseteq Ahead(c, hs) \ paused'
    BY <1>1, <1>8, <2>1
  <2>3. f.done \subseteq Reach(c)' \ Ahead(c, hs)
    BY <1>1, <1>8, <1>9, <2>1
  <2>. QED
    BY <1>3, <2>2, <2>3 DEF OnTrack
<1>11. Whole(c, hs)
  <2>1. c.iface = "set" => c.vfn # NoVfn /\ HasIface(hs, c.vfn, c.obj)
    <3>1. SUFFICES ASSUME c.iface = "set"
                   PROVE  c.vfn # NoVfn /\ HasIface(hs, c.vfn, c.obj)
      OBVIOUS
    <3>2. c.vfn # NoVfn /\ HasIface(hooks, c.vfn, c.obj) /\ c.obj \in Ifaces
      BY <3>1 DEF Whole, Context, Ifaces
    <3>3. PICK v \in VfnPtrs, i \in Ifaces : v = c.vfn /\ i = c.obj
      BY <1>5, <3>2
    <3>4. HasIface(hooks', v, i)
      BY <1>1, <1>2, <3>2, <3>3, AddedHasIface
    <3>. QED
      BY <1>3, <3>2, <3>3, <3>4
  <2>2. Walks(c) /\ c.vfn # NoVfn => c.iter \in Elements(hs[ListKey(c)]) \union {AtStart, Dangling}
    <3>1. SUFFICES ASSUME Walks(c), c.vfn # NoVfn
                   PROVE  Elements(hooks[ListKey(c)]) \subseteq Elements(hs[ListKey(c)])
      BY DEF Whole, Placed
    <3>2. PICK k \in Lists : k = ListKey(c)
      BY <3>1, WalkingKey, KeyLists
    <3>3. hooks[k] \in Seq(1..MaxIds)
      BY DEF RegistryInv
    <3>4. \A j \in DOMAIN hooks[k] : j \in DOMAIN hs[k] /\ hs[k][j] = hooks[k][j]
      <4>1. PICK s : s = hooks[k]
        OBVIOUS
      <4>2. s \in Seq(1..MaxIds)
        BY <3>3, <4>1
      <4>3. \A j \in DOMAIN s : j \in DOMAIN Append(s, id) /\ Append(s, id)[j] = s[j]
        BY <4>2
      <4>. QED
        BY <1>4, <4>1, <4>3
    <3>. QED
      BY <3>2, <3>4 DEF Elements
  <2>. QED
    BY <2>1, <2>2 DEF Whole, Placed
<1>. QED
  BY <1>3, <1>10, <1>11

\* The context of a call that begins: all hooks of its lists are ahead.
LEMMA BornWhole ==
    ASSUME RegistryInv, NEW v \in VfnPtrs, NEW obj \in Objects, NEW c, c = NewCtx("Born", v, obj)
    PROVE  /\ c \in Context /\ c.state = "Born" /\ c.vfn = v /\ c.iter = AtStart
           /\ Whole(c, hooks)
           /\ Owed(v, obj) \subseteq Ahead(c, hooks) \ paused
<1>1. /\ c \in Context /\ c.state = "Born" /\ c.vfn = v /\ c.obj = obj /\ c.iter = AtStart
      /\ c.iface = "set" <=> HasIface(hooks, v, obj)
  BY NoneAssumption, NewContext DEF ContextStates
<1>2. Whole(c, hooks)
  BY <1>1, NoneAssumption DEF Whole, Placed, Walks, HookStates, RecallStates
<1>3. ASSUME NEW h \in Owed(v, obj)
      PROVE  h \in Ahead(c, hooks) \ paused
  <2>1. PICK i \in {obj, VP}, b \in BOOLEAN : h \in Elements(hooks[<<v, i, b>>])
    <3>1. \A s : ToSet(s) = Elements(s)
      BY DEF ToSet, Elements
    <3>2. \E i \in {obj, VP}, b \in BOOLEAN : h \in ToSet(hooks[<<v, i, b>>])
      BY <1>3 DEF Owed
    <3>. QED
      BY <3>1, <3>2
  <2>2. PICK r \in Ranks : (r \in {0, 2} <=> i = obj) /\ (r \in {2, 3} <=> b)
    <3>1. CASE i = obj /\ ~b
      BY <3>1 DEF Ranks
    <3>2. CASE i # obj /\ ~b
      BY <3>2 DEF Ranks
    <3>3. CASE i = obj /\ b
      BY <3>3 DEF Ranks
    <3>4. CASE i # obj /\ b
      BY <3>4 DEF Ranks
    <3>. QED
      BY <3>1, <3>2, <3>3, <3>4
  <2>3. PICK l \in Lists : l = <<v, i, b>>
    BY DEF Lists, Ifaces
  <2>4. Key(c, r) = l
    <3>1. (IF r \in {0, 2} THEN c.obj ELSE VP) = i /\ (r \in {2, 3}) = b
      BY <1>1, <2>1, <2>2
    <3>. QED
      BY <1>1, <2>3, <3>1 DEF Key
  <2>5. Open(c, r)
    <3>1. Stage(c) = 0
      BY <1>1 DEF Stage
    <3>2. r \in {0, 2} => HasIface(hooks, v, obj)
      <4>1. SUFFICES ASSUME i = obj
                     PROVE  HasIface(hooks, v, obj)
        BY <2>2
      <4>2. hooks[l] # <<>>
        BY <2>1, <2>3 DEF Elements
      <4>3. <<v, obj, FALSE>> \in Lists /\ <<v, obj, TRUE>> \in Lists
        BY DEF Lists, Ifaces
      <4>4. HasIface(hooks, v, obj) <=> \E x \in BOOLEAN : hooks[<<v, obj, x>>] # <<>>
        BY <4>3, HasIfaceMeans DEF RegistryInv
      <4>. QED
        BY <2>1, <2>3, <4>1, <4>2, <4>4
    <3>. QED
      BY <1>1, <3>1, <3>2, NoneAssumption DEF Open, Ranks
  <2>6. Start(c, r) = AtStart
    BY <1>1 DEF Start, Walks, HookStates, RecallStates
  <2>7. After(hooks[l], AtStart) = Elements(hooks[l])
    <3>1. PICK s : s = hooks[l]
      OBVIOUS
    <3>2. s \in Seq(1..MaxIds) /\ IsInjective(s)
      BY <3>1 DEF RegistryInv
    <3>3. AtStart \notin Elements(s)
      <4>1. \A j \in DOMAIN s : s[j] \in 1..MaxIds
        BY <3>2, ListIsTyped
      <4>. QED
        BY <4>1 DEF Elements, AtStart
    <3>. QED
      BY <3>1, <3>2, <3>3, AfterPlace
  <2>8. h \in Rest(c, hooks, r)
    BY <2>1, <2>3, <2>4, <2>5, <2>6, <2>7 DEF Rest
  <2>9. h \in Ahead(c, hooks)
    BY <2>2, <2>8 DEF Ahead
  <2>10. h \notin paused
    <3>. DEFINE U == UNION {ToSet(hooks[<<v, j, post>>]) : j \in {obj, VP}, post \in BOOLEAN}
    <3>1. Owed(v, obj) = U \ paused
      BY DEF Owed
    <3>. HIDE DEF U
    <3>. QED
      BY <1>3, <3>1
  <2>. QED
    BY <2>9, <2>10
<1>. QED
  BY <1>1, <1>2, <1>3

\* The two, for the calls after a step.
LEMMA TrackedAfter ==
    ASSUME \A i \in DOMAIN frames' : frames'[i].kind = "hook" =>
               \E g, d : g = frames'[i] /\ d = ctxs'[g.ctx] /\ OnTrack(g, d)'
    PROVE  TrackInv'
<1>1. ASSUME NEW i \in DOMAIN frames', frames'[i].kind = "hook"
      PROVE  OnTrack(frames[i], ctxs[frames[i].ctx])'
  <2>1. PICK g, d : g = frames'[i] /\ d = ctxs'[g.ctx] /\ OnTrack(g, d)'
    BY <1>1
  <2>. QED
    BY <2>1 DEF OnTrack, Reach
<1>. QED
  BY <1>1 DEF TrackInv

\* What a call owes, owed to the same context, in a step that leaves the lists alone.
LEMMA TrackKept ==
    ASSUME NEW f, NEW g, NEW c, OnTrack(f, c), UNCHANGED <<entries, hooks>>,
           g.due \subseteq f.due, g.done \subseteq f.done, paused' \cap g.due \subseteq paused
    PROVE  OnTrack(g, c)'
<1>1. Reach(c)' = Reach(c)
  BY DEF Reach, Live, Ids!LiveIds
<1>2. /\ f.due \subseteq Ahead(c, hooks) \ paused
      /\ f.done \subseteq Reach(c) \ Ahead(c, hooks)
  BY DEF OnTrack
<1>3. g.due \subseteq Ahead(c, hooks') \ paused' /\ g.done \subseteq Reach(c)' \ Ahead(c, hooks')
  BY <1>1, <1>2
<1>. QED
  BY <1>3 DEF OnTrack

\* The calls below the one on top work on contexts below its context.
LEMMA BelowTop ==
    ASSUME FramesInv, frames # <<>>, Top.kind = "hook", NEW i \in DOMAIN frames, i # Len(frames),
           frames[i].kind = "hook"
    PROVE  frames[i].ctx \in DOMAIN ctxs /\ frames[i].ctx < Top.ctx
<1>1. /\ Len(frames) \in DOMAIN frames /\ Top = frames[Len(frames)] /\ DOMAIN frames = 1..Len(frames)
      /\ Len(frames) \in Nat /\ DOMAIN ctxs = 1..Len(ctxs)
  BY Stacks DEF FramesInv
<1>2. i < Len(frames)
  BY <1>1
<1>. QED
  BY <1>1, <1>2 DEF FramesInv, OrderInv, Running

\* A step of a hook loop.
LEMMA LoopOnTrack ==
    ASSUME RegistryInv, FramesInv, WholeInv, TrackInv, NEW sup \in BOOLEAN, LoopStepOf(sup)
    PROVE  WholeInv' /\ TrackInv'
<1>1. PICK f \in FrameType : frames' = WithTop(f) /\ SameCall(Top, f) /\ LoopMove(f, sup)
  BY LoopStep DEF LoopStepOf
<1>2. /\ frames # <<>> /\ Top.pc \in LoopPcs
      /\ ctxs' = ctxs \/ (~UsesFreed(Current) /\ ctxs' = [ctxs EXCEPT ![Top.ctx] = Advanced(Current)])
      /\ UNCHANGED <<entries, hooks>>
  BY LoopStep DEF LoopStepOf
<1>3. paused' = paused
  BY DEF LoopStepOf, NextHandler, PreLoopEnds, OrigReturns, RecallReturns, HandlerReturns
<1>4. /\ Len(frames) \in DOMAIN frames /\ Top = frames[Len(frames)] /\ Top \in FrameType
      /\ Top.kind = "hook" /\ Top.ctx \in DOMAIN ctxs /\ Current = ctxs[Top.ctx] /\ Current \in Context
      /\ DOMAIN ctxs = 1..Len(ctxs) /\ Len(ctxs) \in Nat
  BY <1>2, CurrentContext, Stacks DEF FramesInv
<1>5. PICK c, d, n : c \in Context /\ c = Current /\ d = Advanced(c) /\ n = GetNext(c)
  BY <1>4
<1>6. Whole(c, hooks) /\ OnTrack(Top, c)
  BY <1>4, <1>5 DEF WholeInv, TrackInv
<1>7. \/ ctxs' = ctxs /\ SameDebt(Top, f)
      \/ /\ ~UsesFreed(c) /\ ctxs' = [ctxs EXCEPT ![Top.ctx] = d]
         /\ \/ n = 0 /\ SameDebt(Top, f)
            \/ n # 0 /\ f.due = Top.due \ {n} /\ f.done = Top.done \union {n}
  <2>1. CASE NextHandler
    BY <1>1, <1>5, <2>1 DEF LoopMove, NextHandler, PreLoopEnds, OrigReturns, RecallReturns, HandlerReturns
  <2>2. CASE PreLoopEnds
    BY <1>1, <1>5, <2>2 DEF LoopMove, NextHandler, PreLoopEnds, OrigReturns, RecallReturns, HandlerReturns
  <2>3. CASE OrigReturns \/ RecallReturns \/ HandlerReturns(sup)
    BY <1>1, <2>3 DEF LoopMove, NextHandler, PreLoopEnds, OrigReturns, RecallReturns, HandlerReturns
  <2>. QED
    BY <2>1, <2>2, <2>3 DEF LoopStepOf
<1>8. PICK e : e = ctxs'[Top.ctx]
  OBVIOUS
<1>9. Whole(e, hooks) /\ OnTrack(f, e)'
  <2>1. CASE ctxs' = ctxs /\ SameDebt(Top, f)
    <3>1. OnTrack(f, c)'
      BY <1>2, <1>3, <1>6, <2>1, TrackKept DEF SameDebt
    <3>. QED
      BY <1>4, <1>5, <1>6, <1>8, <2>1, <3>1
  <2>2. CASE /\ ~UsesFreed(c) /\ ctxs' = [ctxs EXCEPT ![Top.ctx] = d]
             /\ \/ n = 0 /\ SameDebt(Top, f)
                \/ n # 0 /\ f.due = Top.due \ {n} /\ f.done = Top.done \union {n}
    <3>1. e = d
      BY <1>4, <1>8, <2>2 DEF FramesInv, StackType
    <3>2. Whole(d, hooks)
      BY <1>5, <1>6, <2>2, AdvancedWhole
    <3>3. OnTrack(f, d)
      <4>1. /\ n = 0 => OnTrack(Top, d)
            /\ n # 0 => /\ Top.due \ {n} \subseteq Ahead(d, hooks) \ paused
                        /\ Top.done \union {n} \subseteq Reach(d) \ Ahead(d, hooks)
        BY <1>4, <1>5, <1>6, <2>2, AdvancedTrack
      <4>. QED
        BY <2>2, <4>1 DEF OnTrack, SameDebt
    <3>4. OnTrack(f, d)'
      BY <1>2, <1>3, <3>3, TrackKept
    <3>. QED
      BY <3>1, <3>2, <3>4
  <2>. QED
    BY <1>7, <2>1, <2>2
<1>10. WholeInv'
  <2>1. \A m \in DOMAIN ctxs' : m \in DOMAIN ctxs /\ (m # Top.ctx => ctxs'[m] = ctxs[m])
    BY <1>2
  <2>2. ASSUME NEW m \in DOMAIN ctxs'
        PROVE  Whole(ctxs'[m], hooks)
    BY <1>8, <1>9, <2>1 DEF WholeInv
  <2>. QED
    BY <1>2, <2>2 DEF WholeInv
<1>11. ASSUME NEW i \in DOMAIN frames', frames'[i].kind = "hook"
       PROVE  \E g, x : g = frames'[i] /\ x = ctxs'[g.ctx] /\ OnTrack(g, x)'
  <2>1. /\ i \in DOMAIN frames
        /\ frames'[i] = IF i = Len(frames) THEN f ELSE frames[i]
    BY <1>1, <1>4 DEF WithTop, FramesInv, StackType
  <2>2. CASE i = Len(frames)
    BY <1>1, <1>8, <1>9, <2>1, <2>2 DEF SameCall
  <2>3. CASE i # Len(frames)
    <3>1. PICK g, x : g = frames[i] /\ x = ctxs[g.ctx]
      OBVIOUS
    <3>2. g.ctx \in DOMAIN ctxs /\ g.ctx < Top.ctx
      BY <1>2, <1>4, <1>11, <2>1, <2>3, <3>1, BelowTop
    <3>3. ctxs'[g.ctx] = x
      BY <1>2, <1>4, <3>1, <3>2
    <3>4. OnTrack(g, x)
      BY <1>11, <2>1, <2>3, <3>1 DEF TrackInv
    <3>5. OnTrack(g, x)'
      BY <1>2, <1>3, <3>4, TrackKept
    <3>. QED
      BY <2>1, <2>3, <3>1, <3>3, <3>5
  <2>. QED
    BY <2>2, <2>3
<1>. QED
  BY <1>10, <1>11, TrackedAfter

\* A context that walks nothing is whole and owes nothing.
LEMMA IdleTrack ==
    ASSUME RegistryInv, NEW c \in Context, c.state \in {"Dead", "Ignore"}, NEW f, f.due = {}, f.done \subseteq Reach(c)
    PROVE  /\ c.iface # "set" => Whole(c, hooks)
           /\ OnTrack(f, c)
<1>1. Stage(c) = 4 /\ ~Walks(c)
  BY DEF Stage, Walks, HookStates, RecallStates
<1>2. Ahead(c, hooks) = {}
  BY <1>1 DEF Ahead, Rest, Open, Ranks
<1>. QED
  BY <1>1, <1>2 DEF Whole, Placed, OnTrack

\* The context of an SH_CALL that waits for its function knows of no interface.
LEMMA IgnoreIface ==
    ASSUME FramesInv, WholeInv, ctxs # <<>>, Last(ctxs).state = "Ignore"
    PROVE  Last(ctxs).iface # "set"
<1>1. Len(ctxs) \in DOMAIN ctxs /\ Last(ctxs) = ctxs[Len(ctxs)]
  BY Stacks DEF FramesInv, Last
<1>. QED
  BY <1>1 DEF FramesInv, IgnoreInv, WholeInv, Whole

\* A call, or an SH_CALL: a frame at the end on a context of its own, one for each case.
LEMMA CallOnTrack ==
    ASSUME RegistryInv, FramesInv, FramesInv', WholeInv, TrackInv, NEW v \in VfnPtrs, NEW obj \in Objects, Call(v, obj)
    PROVE  WholeInv' /\ TrackInv'
<1>1. PICK f \in FrameType, c \in Context :
        /\ Entered(f, v) /\ frames' = Append(frames, f) /\ c.vfn = v
        /\ Begins(f, c)
        /\ \/ /\ ctxs # <<>> /\ Last(ctxs).state = "Ignore"
              /\ c.state = "Dead" /\ c.iface = Last(ctxs).iface /\ f.ctx = Len(ctxs) /\ f.due = {}
              /\ ctxs' = [ctxs EXCEPT ![Len(ctxs)] = c]
           \/ /\ ctxs # <<>> => Last(ctxs).state \notin {"Ignore"} \union RecallStates
              /\ c = NewCtx("Born", v, obj) /\ c.state = "Born" /\ f.ctx = Len(ctxs) + 1
              /\ f.due = Owed(v, obj)
              /\ ctxs' = Append(ctxs, c)
  BY CallEffect
<1>2. UNCHANGED <<entries, hooks, paused>>
  BY CallEffect
<1>3. /\ frames \in Seq(FrameType) /\ Len(frames) \in Nat /\ DOMAIN frames = 1..Len(frames)
      /\ ctxs \in Seq(Context) /\ Len(ctxs) \in Nat /\ DOMAIN ctxs = 1..Len(ctxs)
  BY Stacks DEF FramesInv
<1>4. f.done = {}
  BY <1>1 DEF Begins
<1>5. Whole(c, hooks) /\ OnTrack(f, c)
  <2>1. CASE ctxs # <<>> /\ Last(ctxs).state = "Ignore" /\ c.state = "Dead" /\ c.iface = Last(ctxs).iface /\ f.due = {}
    <3>1. c.iface # "set"
      BY <2>1, IgnoreIface
    <3>. QED
      BY <1>4, <2>1, <3>1, IdleTrack
  <2>2. CASE c = NewCtx("Born", v, obj) /\ f.due = Owed(v, obj)
    <3>1. Whole(c, hooks) /\ Owed(v, obj) \subseteq Ahead(c, hooks) \ paused
      BY <2>2, BornWhole
    <3>. QED
      BY <1>4, <2>2, <3>1 DEF OnTrack
  <2>. QED
    BY <1>1, <2>1, <2>2
<1>6. /\ f.ctx \in DOMAIN ctxs' /\ ctxs'[f.ctx] = c
      /\ \A n \in DOMAIN ctxs' : n = f.ctx \/ (n \in DOMAIN ctxs /\ ctxs'[n] = ctxs[n])
  <2>1. CASE ctxs # <<>> /\ f.ctx = Len(ctxs) /\ ctxs' = [ctxs EXCEPT ![Len(ctxs)] = c]
    BY <1>3, <2>1
  <2>2. CASE f.ctx = Len(ctxs) + 1 /\ ctxs' = Append(ctxs, c)
    BY <1>3, <2>2
  <2>. QED
    BY <1>1, <2>1, <2>2
<1>7. WholeInv'
  <2>1. \A n \in DOMAIN ctxs' : Whole(ctxs'[n], hooks)
    BY <1>5, <1>6 DEF WholeInv
  <2>. QED
    BY <1>2, <2>1 DEF WholeInv
<1>8. ASSUME NEW i \in DOMAIN frames', frames'[i].kind = "hook"
      PROVE  \E g, x : g = frames'[i] /\ x = ctxs'[g.ctx] /\ OnTrack(g, x)'
  <2>1. /\ i \in DOMAIN frames \/ i = Len(frames) + 1
        /\ frames'[i] = IF i \in DOMAIN frames THEN frames[i] ELSE f
        /\ DOMAIN frames' = 1..Len(frames) + 1 /\ frames'[Len(frames) + 1] = f
    BY <1>1, <1>3
  <2>2. OnTrack(f, c)'
    BY <1>2, <1>5, TrackKept
  <2>3. CASE i \notin DOMAIN frames
    BY <1>6, <2>1, <2>2, <2>3
  <2>4. CASE i \in DOMAIN frames
    <3>1. PICK g, x : g = frames[i] /\ x = ctxs[g.ctx]
      OBVIOUS
    <3>2. PICK k : k = Len(frames) + 1 /\ k \in DOMAIN frames' /\ i < k /\ frames'[k] = f /\ frames'[i] = g
      BY <1>3, <2>1, <2>4, <3>1
    <3>3. g.ctx < f.ctx
      <4>1. f.kind = "hook"
        BY <1>1 DEF Entered
      <4>2. OrderInv'
        BY DEF FramesInv
      <4>. QED
        BY <1>8, <3>2, <4>1, <4>2 DEF OrderInv
    <3>4. g.ctx \in DOMAIN ctxs
      BY <1>3, <1>8, <2>4, <3>1, <3>2 DEF FramesInv, Running
    <3>5. g.ctx \in DOMAIN ctxs' /\ g.ctx # f.ctx
      <4>1. g.ctx \in Nat /\ f.ctx \in Nat
        BY <1>1, <1>3, <3>3, <3>4 DEF FrameType
      <4>2. Len(ctxs') >= Len(ctxs) /\ DOMAIN ctxs' = 1..Len(ctxs')
        BY <1>1, <1>3
      <4>. QED
        BY <1>3, <3>3, <3>4, <4>1, <4>2
    <3>6. ctxs'[g.ctx] = x
      BY <1>6, <3>1, <3>5
    <3>7. OnTrack(g, x)
      BY <1>8, <2>4, <3>1, <3>2 DEF TrackInv
    <3>8. OnTrack(g, x)'
      BY <1>2, <3>7, TrackKept
    <3>. QED
      BY <3>2, <3>6, <3>8
  <2>. QED
    BY <2>3, <2>4
<1>. QED
  BY <1>7, <1>8, TrackedAfter

\* An SH_CALL makes a context that owes nothing, whether it waits for its function or
\* has found it hooked.
LEMMA ShCallOnTrack ==
    ASSUME RegistryInv, FramesInv, FramesInv', WholeInv, TrackInv, NEW v \in VfnPtrs, NEW obj \in Objects, ShCall(v, obj)
    PROVE  WholeInv' /\ TrackInv'
<1>1. PICK g \in FrameType, c \in Context :
                /\ g.kind = "shcall" /\ g.pc \notin LoopPcs /\ g.man = None /\ g.plug = None
                /\ g.ctx = Len(ctxs) + 1
                /\ ctxs' = Append(ctxs, c) /\ c.iface = "null"
                /\ \/ /\ c.state = "Ignore" /\ c.vfn = NoVfn /\ frames' = Append(frames, g)
                   \/ \E f \in FrameType :
                        /\ c.state = "Dead" /\ c.vfn = v
                        /\ Entered(f, v) /\ f.ctx = Len(ctxs) + 1
                        /\ f.due = {} /\ Begins(f, c)
                        /\ frames' = Append(Append(frames, g), f)
  BY ShCallEffect
<1>2. UNCHANGED <<entries, hooks, paused>>
  BY ShCallEffect
<1>3. /\ frames \in Seq(FrameType) /\ Len(frames) \in Nat /\ DOMAIN frames = 1..Len(frames)
      /\ ctxs \in Seq(Context) /\ Len(ctxs) \in Nat /\ DOMAIN ctxs = 1..Len(ctxs)
  BY Stacks DEF FramesInv
<1>4. Whole(c, hooks)
  <2>1. PICK f : f = [due |-> {}, done |-> {}]
    OBVIOUS
  <2>. QED
    BY <1>1, <2>1, IdleTrack
<1>5. \A n \in DOMAIN ctxs' : ctxs'[n] = c \/ (n \in DOMAIN ctxs /\ ctxs'[n] = ctxs[n])
  BY <1>1, <1>3
<1>6. WholeInv'
  <2>1. \A n \in DOMAIN ctxs' : Whole(ctxs'[n], hooks)
    BY <1>4, <1>5 DEF WholeInv
  <2>. QED
    BY <1>2, <2>1 DEF WholeInv
<1>7. ASSUME NEW i \in DOMAIN frames, frames[i].kind = "hook"
      PROVE  \E h, x : h = frames[i] /\ x = ctxs'[h.ctx] /\ OnTrack(h, x)'
  <2>1. PICK h, x : h = frames[i] /\ x = ctxs[h.ctx]
    OBVIOUS
  <2>2. OnTrack(h, x)
    BY <1>7, <2>1 DEF TrackInv
  <2>3. OnTrack(h, x)'
    BY <1>2, <2>2, TrackKept
  <2>4. h.ctx \in DOMAIN ctxs
    BY <1>3, <1>7, <2>1 DEF FramesInv, Running
  <2>5. ctxs'[h.ctx] = x
    BY <1>1, <1>3, <2>1, <2>4
  <2>. QED
    BY <2>1, <2>3, <2>5
<1>8. ASSUME NEW i \in DOMAIN frames', frames'[i].kind = "hook"
      PROVE  \E h, x : h = frames'[i] /\ x = ctxs'[h.ctx] /\ OnTrack(h, x)'
  <2>1. CASE frames' = Append(frames, g)
    <3>1. i \in DOMAIN frames /\ frames'[i] = frames[i]
      BY <1>1, <1>3, <1>8, <2>1
    <3>. QED
      BY <1>7, <1>8, <3>1
  <2>2. ASSUME NEW f \in FrameType, c.state = "Dead", Entered(f, v), f.ctx = Len(ctxs) + 1,
               f.due = {}, Begins(f, c), frames' = Append(Append(frames, g), f)
        PROVE  \E h, x : h = frames'[i] /\ x = ctxs'[h.ctx] /\ OnTrack(h, x)'
    <3>1. /\ i \in DOMAIN frames \/ i = Len(frames) + 1 \/ i = Len(frames) + 2
          /\ i \in DOMAIN frames => frames'[i] = frames[i]
          /\ i = Len(frames) + 1 => frames'[i] = g
          /\ i = Len(frames) + 2 => frames'[i] = f
      <4>1. PICK s : s = Append(frames, g)
        OBVIOUS
      <4>2. /\ s \in Seq(FrameType) /\ Len(s) = Len(frames) + 1 /\ s[Len(frames) + 1] = g
            /\ \A k \in DOMAIN frames : s[k] = frames[k]
        BY <1>1, <1>3, <4>1
      <4>3. frames' = Append(s, f)
        BY <2>2, <4>1
      <4>. QED
        BY <1>3, <1>8, <4>2, <4>3
    <3>2. CASE i \in DOMAIN frames
      BY <1>7, <1>8, <3>1, <3>2
    <3>3. CASE i = Len(frames) + 1
      BY <1>1, <1>8, <3>1, <3>3
    <3>4. CASE i = Len(frames) + 2
      <4>1. f.done = {}
        BY <2>2 DEF Begins
      <4>2. OnTrack(f, c)
        BY <2>2, <4>1, IdleTrack
      <4>3. OnTrack(f, c)'
        BY <1>2, <4>2, TrackKept
      <4>4. ctxs'[f.ctx] = c
        BY <1>1, <1>3, <2>2
      <4>. QED
        BY <3>1, <3>4, <4>3, <4>4
    <3>. QED
      BY <3>1, <3>2, <3>3, <3>4
  <2>. QED
    BY <1>1, <2>1, <2>2
<1>. QED
  BY <1>6, <1>8, TrackedAfter

\* A return takes away the frame on top.
LEMMA ReturnOnTrack ==
    ASSUME FramesInv, FramesInv', WholeInv, TrackInv, HookfuncReturns \/ CalleeReturns
    PROVE  WholeInv' /\ TrackInv'
<1>1. /\ frames # <<>> /\ Len(frames') = Len(frames) - 1
      /\ \/ /\ Len(ctxs') = Len(ctxs) - 1
            /\ \A n \in 1..Len(ctxs) - 1 : ctxs'[n] = ctxs[n]
            /\ \A i \in 1..Len(frames) - 1 :
                 /\ Unthunked(frames[i], frames'[i], Len(ctxs))
                 /\ frames[i].kind = "hook" => frames[i].ctx < Len(ctxs)
         \/ /\ ctxs' = ctxs
            /\ \A i \in 1..Len(frames) - 1 : frames'[i] = frames[i]
      /\ UNCHANGED <<entries, hooks, paused>>
  BY ReturnEffect
<1>2. /\ Len(frames) \in Nat /\ DOMAIN frames = 1..Len(frames) /\ Len(ctxs) \in Nat /\ DOMAIN ctxs = 1..Len(ctxs)
  BY Stacks DEF FramesInv
<1>3. DOMAIN frames' = 1..Len(frames') /\ DOMAIN ctxs' = 1..Len(ctxs')
  BY DEF FramesInv, StackType
<1>4. \A n \in DOMAIN ctxs' : n \in DOMAIN ctxs /\ ctxs'[n] = ctxs[n]
  <2>1. CASE Len(ctxs') = Len(ctxs) - 1 /\ \A n \in 1..Len(ctxs) - 1 : ctxs'[n] = ctxs[n]
    BY <1>2, <1>3, <2>1
  <2>2. CASE ctxs' = ctxs
    BY <2>2
  <2>. QED
    BY <1>1, <2>1, <2>2
<1>5. WholeInv'
  <2>1. \A n \in DOMAIN ctxs' : Whole(ctxs'[n], hooks)
    BY <1>4 DEF WholeInv
  <2>. QED
    BY <1>1, <2>1 DEF WholeInv
<1>6. ASSUME NEW i \in DOMAIN frames', frames'[i].kind = "hook"
      PROVE  \E h, x : h = frames'[i] /\ x = ctxs'[h.ctx] /\ OnTrack(h, x)'
  <2>1. i \in 1..Len(frames) - 1 /\ i \in DOMAIN frames
    <3>1. Len(frames') = Len(frames) - 1 /\ Len(frames) # 0
      BY <1>1, Stacks DEF FramesInv
    <3>2. i \in 1..Len(frames) - 1
      BY <1>3, <3>1
    <3>. QED
      BY <1>2, <3>2
  <2>2. PICK f, g, x : f = frames[i] /\ g = frames'[i] /\ x = ctxs[f.ctx]
    OBVIOUS
  <2>3. SameDebt(f, g) /\ g.ctx = f.ctx /\ f.kind = "hook"
    <3>1. Unthunked(frames[i], frames'[i], Len(ctxs)) \/ frames'[i] = frames[i]
      BY <1>1, <2>1
    <3>2. Unthunked(f, g, Len(ctxs)) \/ g = f
      BY <2>2, <3>1
    <3>. QED
      BY <1>6, <2>2, <3>2 DEF Unthunked, SameCall, SameDebt
  <2>4. g.ctx \in DOMAIN ctxs'
    <3>1. g.ctx \in 1..Len(ctxs')
      BY <1>6, <2>2 DEF FramesInv, Running
    <3>. QED
      BY <1>3, <3>1
  <2>5. ctxs'[g.ctx] = x
    BY <1>4, <2>2, <2>3, <2>4
  <2>6. OnTrack(f, x)
    BY <2>1, <2>2, <2>3 DEF TrackInv
  <2>7. OnTrack(g, x)'
    BY <1>1, <2>3, <2>6, TrackKept DEF SameDebt
  <2>. QED
    BY <2>2, <2>5, <2>7
<1>. QED
  BY <1>5, <1>6, TrackedAfter

\* Removing hooks and managers.
LEMMA RetireOnTrack ==
    ASSUME RegistryInv, FramesInv, FramesInv', WholeInv, TrackInv,
           NEW R \in SUBSET Live, NEW M \in SUBSET HookMans, Retire(R, M)
    PROVE  WholeInv' /\ TrackInv'
<1>1. /\ StackType' /\ Len(ctxs') = Len(ctxs) /\ Len(frames') = Len(frames)
      /\ \A i \in DOMAIN frames :
           /\ SameCall(frames[i], frames'[i])
           /\ frames'[i].due = frames[i].due \ Lost(R, M) /\ frames'[i].done = frames[i].done \ Lost(R, M)
  <2>1. StackType
    BY DEF FramesInv
  <2>. QED
    BY <2>1, RetireStacks, ZenonT(40)
<1>2. /\ frames \in Seq(FrameType) /\ DOMAIN frames = 1..Len(frames)
      /\ ctxs \in Seq(Context) /\ DOMAIN ctxs = 1..Len(ctxs)
      /\ DOMAIN frames' = DOMAIN frames /\ DOMAIN ctxs' = DOMAIN ctxs /\ ctxs' \in Seq(Context)
  BY <1>1, Stacks DEF FramesInv, StackType
<1>3. ctxs' = [n \in DOMAIN ctxs |-> Orphaned(Notified(ctxs[n], R, Emptied(R), Left(R)), Unserved(R, M))]
  BY RetireEffect
<1>4. ASSUME NEW n \in DOMAIN ctxs, NEW c, c = ctxs[n], NEW d, d = ctxs'[n], NEW f, OnTrack(f, c)
      PROVE  /\ Whole(d, hooks')
             /\ f.due \ Lost(R, M) \subseteq Ahead(d, hooks') \ paused'
             /\ f.done \ Lost(R, M) \subseteq Reach(d)' \ Ahead(d, hooks')
  <2>1. c \in Context /\ d \in Context /\ Whole(c, hooks)
    BY <1>2, <1>4 DEF WholeInv
  <2>2. d = Orphaned(Notified(c, R, Emptied(R), Left(R)), Unserved(R, M))
    BY <1>3, <1>4
  <2>. QED
    BY <1>4, <2>1, <2>2, RetireTrack
<1>5. ASSUME NEW n \in DOMAIN ctxs'
      PROVE  Whole(ctxs'[n], hooks')
  <2>1. PICK c, d : c = ctxs[n] /\ d = ctxs'[n] /\ n \in DOMAIN ctxs
    BY <1>2
  <2>2. PICK f : f = [due |-> {}, done |-> {}]
    OBVIOUS
  <2>3. OnTrack(f, c)
    BY <2>2 DEF OnTrack
  <2>. QED
    BY <1>4, <2>1, <2>3
<1>6. ASSUME NEW i \in DOMAIN frames', frames'[i].kind = "hook"
      PROVE  \E h, x : h = frames'[i] /\ x = ctxs'[h.ctx] /\ OnTrack(h, x)'
  <2>1. PICK f, g : f = frames[i] /\ g = frames'[i] /\ i \in DOMAIN frames
    BY <1>2
  <2>2. /\ SameCall(f, g)
        /\ g.due = f.due \ Lost(R, M) /\ g.done = f.done \ Lost(R, M)
    BY <1>1, <2>1
  <2>3. f.kind = "hook" /\ g.ctx = f.ctx
    BY <1>6, <2>1, <2>2 DEF SameCall
  <2>4. f.ctx \in DOMAIN ctxs
    BY <1>2, <2>1, <2>3 DEF FramesInv, Running
  <2>5. PICK c, d : c = ctxs[f.ctx] /\ d = ctxs'[f.ctx]
    OBVIOUS
  <2>6. OnTrack(f, c)
    BY <2>1, <2>3, <2>5 DEF TrackInv
  <2>7. /\ f.due \ Lost(R, M) \subseteq Ahead(d, hooks') \ paused'
        /\ f.done \ Lost(R, M) \subseteq Reach(d)' \ Ahead(d, hooks')
    BY <1>4, <2>4, <2>5, <2>6
  <2>8. OnTrack(g, d)'
    BY <2>2, <2>7 DEF OnTrack
  <2>. QED
    BY <2>1, <2>3, <2>5, <2>8
<1>7. WholeInv'
  BY <1>5 DEF WholeInv
<1>. QED
  BY <1>6, <1>7, TrackedAfter

\* Pausing and unpausing a hook, and adding one.
LEMMA OthersOnTrack ==
    ASSUME RegistryInv, RegistryInv', FramesInv, FramesInv', WholeInv, TrackInv,
           \/ \E h \in 1..MaxIds : PauseHook(h)
           \/ \E m \in HookMans, handler \in Handlers, l \in Sites : AddHook(m, handler, l)
           \/ UNCHANGED <<entries, hooks, ctxs, frames>> /\ paused' \subseteq paused
    PROVE  WholeInv' /\ TrackInv'
<1>1. CASE \E h \in 1..MaxIds : PauseHook(h)
  <2>1. PICK h \in 1..MaxIds : PauseHook(h)
    BY <1>1
  <2>2. /\ Len(frames') = Len(frames)
        /\ \A i \in DOMAIN frames : /\ SameCall(frames[i], frames'[i])
                                    /\ frames'[i].due = frames[i].due \ {h} /\ frames'[i].done = frames[i].done
        /\ UNCHANGED <<entries, hooks, ctxs>>
    BY <2>1, PauseStacks
  <2>3. paused' = paused \union {h}
    BY <2>1 DEF PauseHook
  <2>4. DOMAIN frames' = DOMAIN frames
    BY <2>2, Stacks DEF FramesInv, StackType
  <2>5. WholeInv'
    BY <2>2 DEF WholeInv
  <2>6. ASSUME NEW i \in DOMAIN frames', frames'[i].kind = "hook"
        PROVE  \E g, x : g = frames'[i] /\ x = ctxs'[g.ctx] /\ OnTrack(g, x)'
    <3>1. PICK f, g, x : f = frames[i] /\ g = frames'[i] /\ x = ctxs[f.ctx] /\ i \in DOMAIN frames
      BY <2>4
    <3>2. f.kind = "hook" /\ g.ctx = f.ctx /\ g.due = f.due \ {h} /\ g.done = f.done
      BY <2>2, <2>6, <3>1 DEF SameCall
    <3>3. OnTrack(f, x)
      BY <3>1, <3>2 DEF TrackInv
    <3>4. OnTrack(g, x)'
      BY <2>2, <2>3, <3>2, <3>3, TrackKept
    <3>. QED
      BY <2>2, <3>1, <3>2, <3>4
  <2>. QED
    BY <2>5, <2>6, TrackedAfter
<1>2. ASSUME NEW m \in HookMans, NEW handler \in Handlers, NEW l \in Sites, AddHook(m, handler, l)
      PROVE  WholeInv' /\ TrackInv'
  <2>1. UNCHANGED <<ctxs, frames>>
    BY <1>2 DEF AddHook
  <2>2. /\ frames \in Seq(FrameType) /\ ctxs \in Seq(Context) /\ DOMAIN ctxs = 1..Len(ctxs)
    BY Stacks DEF FramesInv
  <2>3. ASSUME NEW n \in DOMAIN ctxs
        PROVE  Whole(ctxs[n], hooks')
    <3>1. PICK f : f = [due |-> {}, done |-> {}]
      OBVIOUS
    <3>2. PICK c \in Context : c = ctxs[n]
      BY <2>2
    <3>3. OnTrack(f, c) /\ Whole(c, hooks)
      BY <3>1, <3>2 DEF OnTrack, WholeInv
    <3>. QED
      BY <1>2, <3>2, <3>3, AddTrack
  <2>4. ASSUME NEW i \in DOMAIN frames', frames'[i].kind = "hook"
        PROVE  \E g, x : g = frames'[i] /\ x = ctxs'[g.ctx] /\ OnTrack(g, x)'
    <3>1. PICK f \in FrameType : f = frames[i] /\ i \in DOMAIN frames /\ f.kind = "hook"
      BY <2>1, <2>2, <2>4
    <3>2. f.ctx \in DOMAIN ctxs
      BY <2>2, <3>1 DEF FramesInv, Running
    <3>3. PICK c \in Context : c = ctxs[f.ctx]
      BY <2>2, <3>2
    <3>4. OnTrack(f, c) /\ Whole(c, hooks)
      BY <3>1, <3>2, <3>3 DEF TrackInv, WholeInv
    <3>5. OnTrack(f, c)'
      BY <1>2, <3>4, AddTrack
    <3>. QED
      BY <2>1, <3>1, <3>3, <3>5
  <2>5. WholeInv'
    BY <2>1, <2>3 DEF WholeInv
  <2>. QED
    BY <2>4, <2>5, TrackedAfter
<1>3. CASE UNCHANGED <<entries, hooks, ctxs, frames>> /\ paused' \subseteq paused
  <2>1. WholeInv'
    BY <1>3 DEF WholeInv
  <2>2. ASSUME NEW i \in DOMAIN frames', frames'[i].kind = "hook"
        PROVE  \E g, x : g = frames'[i] /\ x = ctxs'[g.ctx] /\ OnTrack(g, x)'
    <3>1. PICK g, x : g = frames[i] /\ x = ctxs[g.ctx]
      OBVIOUS
    <3>2. OnTrack(g, x)
      BY <1>3, <2>2, <3>1 DEF TrackInv
    <3>3. OnTrack(g, x)'
      BY <1>3, <3>2, TrackKept
    <3>. QED
      BY <1>3, <3>1, <3>3
  <2>. QED
    BY <2>1, <2>2, TrackedAfter
<1>. QED
  BY <1>1, <1>2, <1>3

\* The context of a recall goes on where the one it is made from is: it owes what that
\* one owes and has called what that one has called.
LEMMA RecallTrack ==
    ASSUME RegistryInv, NEW c \in Context, Whole(c, hooks), c.state \in HookStates,
           NEW v \in VfnPtrs, c.vfn \in {v, NoVfn},
           NEW e \in Context, e.state = RecallOf[c.state], e.vfn = v, e.obj = c.obj, e.iter = c.iter,
           e.iface = "set" <=> HasIface(hooks, v, c.obj),
           NEW f, OnTrack(f, c)
    PROVE  /\ Whole(e, hooks)
           /\ f.due \subseteq Ahead(e, hooks) \ paused
           /\ f.done \subseteq Reach(e) \ Ahead(e, hooks)
           /\ f.done \subseteq Reach(c)
<1>1. /\ Stage(e) = Stage(c) /\ ListKey(e)[2] = ListKey(c)[2] /\ ListKey(e)[3] = ListKey(c)[3]
      /\ Walks(e) /\ Walks(c) /\ e.state \in RecallStates
  BY DEF HookStates, RecallStates, RecallOf, Stage, ListKey, Walks
<1>2. v # NoVfn
  BY NoneAssumption
<1>3. /\ f.due \subseteq Ahead(c, hooks) \ paused
      /\ f.done \subseteq Reach(c) \ Ahead(c, hooks)
  BY DEF OnTrack
<1>4. CASE c.vfn = NoVfn
  <2>1. Reach(c) = {} /\ Ahead(c, hooks) = {}
    BY <1>4, ReachesOwn, AheadReach
  <2>2. e.iter = Dangling
    BY <1>1, <1>4 DEF Whole, Placed
  <2>3. Whole(e, hooks)
    BY <1>1, <1>2, <2>2 DEF Whole, Placed, RecallStates
  <2>. QED
    BY <1>3, <2>1, <2>3
<1>5. CASE c.vfn = v
  <2>1. ListKey(e) = ListKey(c)
    BY <1>1, <1>5 DEF ListKey
  <2>2. c.iface = "set" => e.iface = "set"
    BY <1>5 DEF Whole
  <2>3. Whole(e, hooks)
    BY <1>1, <1>2, <1>5, <2>1 DEF Whole, Placed, RecallStates
  <2>4. ASSUME NEW r \in Ranks
        PROVE  /\ Key(e, r) = Key(c, r) /\ Start(e, r) = Start(c, r)
               /\ Open(c, r) => Open(e, r)
               /\ Open(e, r) /\ ~Open(c, r) => r \in {0, 2} /\ c.iface # "set"
    BY <1>1, <1>5, <2>2 DEF Key, Start, Open
  <2>5. Ahead(c, hooks) \subseteq Ahead(e, hooks)
    BY <2>4 DEF Ahead, Rest
  <2>6. Reach(c) \subseteq Reach(e)
    BY <1>5, <2>2 DEF Reach
  <2>7. ASSUME NEW h \in Reach(c), h \in Ahead(e, hooks)
        PROVE  h \in Ahead(c, hooks)
    <3>1. PICK r \in Ranks : h \in Rest(e, hooks, r)
      BY <2>7 DEF Ahead
    <3>2. Open(e, r) /\ h \in After(hooks[Key(e, r)], Start(e, r))
      BY <3>1 DEF Rest
    <3>3. CASE Open(c, r)
      BY <2>4, <3>2, <3>3 DEF Ahead, Rest
    <3>4. CASE ~Open(c, r)
      <4>1. r \in {0, 2} /\ c.iface # "set"
        BY <2>4, <3>2, <3>4
      <4>2. PICK b : b = (r \in {2, 3})
        OBVIOUS
      <4>3. Key(e, r) = <<v, c.obj, b>>
        BY <4>1, <4>2 DEF Key
      <4>4. PICK k : k = Key(e, r)
        OBVIOUS
      <4>5. h \in Elements(hooks[k]) /\ k = <<v, c.obj, b>>
        BY <3>2, <4>3, <4>4 DEF After, Elements
      <4>6. k \in Lists
        BY <1>2, <4>4, KeyLists
      <4>7. h \in Live /\ Site(h) = k
        BY <4>5, <4>6 DEF RegistryInv
      <4>8. entries[h].iface = c.obj
        BY <4>5, <4>7 DEF Site
      <4>9. entries[h].iface = VP
        BY <2>7, <4>1, <4>8 DEF Reach
      <4>. QED
        BY <4>8, <4>9, IfaceAssumption DEF Context
    <3>. QED
      BY <3>3, <3>4
  <2>. QED
    BY <1>3, <2>3, <2>5, <2>6, <2>7
<1>. QED
  BY <1>4, <1>5

\* The last element replaced and one more.
LEMMA OneReplacedOneMore ==
    ASSUME NEW S, NEW s \in Seq(S), s # <<>>, NEW x \in S, NEW y \in S,
           NEW t, t = Append([s EXCEPT ![Len(s)] = x], y)
    PROVE  /\ DOMAIN t = 1..Len(s) + 1
           /\ \A i \in 1..Len(s) - 1 : t[i] = s[i]
           /\ t[Len(s)] = x /\ t[Len(s) + 1] = y
<1>1. PICK k \in Nat \ {0} : k = Len(s)
  OBVIOUS
<1>2. PICK u : u = [s EXCEPT ![k] = x]
  OBVIOUS
<1>3. /\ u \in Seq(S) /\ Len(u) = k /\ u[k] = x
      /\ \A i \in 1..k : i # k => u[i] = s[i]
  BY <1>1, <1>2
<1>4. t = Append(u, y)
  BY <1>1, <1>2
<1>5. /\ DOMAIN t = 1..k + 1 /\ t[k + 1] = y
      /\ \A i \in 1..k : t[i] = u[i]
  BY <1>3, <1>4
<1>6. \A i \in 1..k - 1 : i \in 1..k /\ i # k
  BY <1>1
<1>7. \A i \in 1..k - 1 : t[i] = s[i]
  BY <1>3, <1>5, <1>6
<1>8. k \in 1..k
  BY <1>1
<1>. QED
  BY <1>1, <1>3, <1>5, <1>7, <1>8

\* Appending a sequence of one element.
LEMMA OneElement ==
    ASSUME NEW S, NEW s \in Seq(S), NEW new \in Seq(S), Len(new) = 1
    PROVE  new[1] \in S /\ s \o new = Append(s, new[1])
<1>1. new[1] \in S /\ Len(s) \in Nat
  <2>1. 1 \in 1..Len(new)
    OBVIOUS
  <2>. QED
    BY <2>1, ElementOfSeq, LenProperties
<1>2. PICK k \in Nat, x \in S : k = Len(s) /\ x = new[1]
  BY <1>1
<1>3. PICK a : a = s \o new
  OBVIOUS
<1>4. PICK b : b = Append(s, x)
  OBVIOUS
<1>5. /\ a \in Seq(S) /\ Len(a) = k + 1
      /\ \A i \in 1..k + 1 : a[i] = IF i <= k THEN s[i] ELSE new[i - k]
  <2>1. /\ a \in Seq(S) /\ Len(a) = Len(s) + Len(new)
        /\ \A i \in 1..Len(s) + Len(new) : a[i] = IF i <= Len(s) THEN s[i] ELSE new[i - Len(s)]
    BY <1>3, ConcatProperties
  <2>. QED
    BY <1>2, <2>1
<1>6. /\ b \in Seq(S) /\ Len(b) = k + 1
      /\ \A i \in 1..k + 1 : b[i] = IF i <= k THEN s[i] ELSE x
  BY <1>2, <1>4
<1>7. \A i \in 1..k + 1 : i <= k \/ i - k = 1
  OBVIOUS
<1>8. \A i \in 1..Len(a) : a[i] = b[i]
  BY <1>2, <1>5, <1>6, <1>7
<1>9. a = b
  BY <1>5, <1>6, <1>8, SeqEqual
<1>. QED
  BY <1>1, <1>2, <1>3, <1>4, <1>9

\* A timely recall, spelled out: the calls and contexts it leaves, adds and changes.
LEMMA RecallShape ==
    ASSUME RegistryInv, FramesInv, NestInv, TimelyRecalls, NEW sup \in BOOLEAN, Recall(sup)
    PROVE  \E f, g \in FrameType, d, e \in Context :
             /\ frames # <<>> /\ Top.pc = "handler" /\ Top.ctx = Len(ctxs) /\ ctxs # <<>> /\ Current = Last(ctxs)
             /\ DOMAIN frames' = 1..Len(frames) + 1 /\ DOMAIN ctxs' = 1..Len(ctxs) + 1
             /\ \A i \in 1..Len(frames) - 1 : frames'[i] = frames[i]
             /\ frames'[Len(frames)] = f /\ frames'[Len(frames) + 1] = g
             /\ \A n \in 1..Len(ctxs) - 1 : ctxs'[n] = ctxs[n]
             /\ ctxs'[Len(ctxs)] = d /\ ctxs'[Len(ctxs) + 1] = e
             /\ f.ctx = Len(ctxs) /\ f.kind = "hook" /\ g.ctx = Len(ctxs) + 1 /\ Entered(g, Top.v)
             /\ d.state = "Dead" /\ d.vfn = Current.vfn
             /\ Current.state \in HookStates /\ Current.vfn \in {Top.v, NoVfn} /\ Top.v \in VfnPtrs
             /\ e.state = RecallOf[Current.state] /\ e.obj = Current.obj /\ e.iter = Current.iter
             /\ e.iface = "set" <=> HasIface(hooks, Top.v, Current.obj)
             /\ Resumed(f, g, d, e)
             /\ UNCHANGED <<entries, hooks, paused>>
<1>1. /\ frames # <<>> /\ Top.pc = "handler" /\ ctxs # <<>>
      /\ \E f, g \in FrameType, d \in Context, new \in Seq(Context) : Recalled(f, g, d, new)
      /\ UNCHANGED <<entries, hooks, paused>>
  BY RecallEffect
<1>2. PICK f, g \in FrameType, d \in Context, new \in Seq(Context) : Recalled(f, g, d, new)
  BY <1>1
<1>3. /\ ctxs \in Seq(Context) /\ Len(ctxs) \in Nat \ {0} /\ DOMAIN ctxs = 1..Len(ctxs)
      /\ Len(ctxs) \in DOMAIN ctxs /\ Last(ctxs) = ctxs[Len(ctxs)]
      /\ frames \in Seq(FrameType) /\ Len(frames) \in Nat \ {0} /\ DOMAIN frames = 1..Len(frames)
      /\ Len(frames) \in DOMAIN frames /\ Top = frames[Len(frames)]
  BY <1>1, Stacks DEF FramesInv, StackType, Last
<1>4. Top.kind = "hook" /\ Running(Top) /\ Top.v \in VfnPtrs /\ Current = ctxs[Top.ctx]
  BY <1>1, CurrentContext DEF LoopPcs, FrameType
<1>5. Top.ctx = Len(ctxs)
  <2>1. Len(ctxs) <= Top.ctx
    BY <1>1, Stacks DEF FramesInv, NestInv, DepthInv
  <2>. QED
    BY <1>3, <1>4, <2>1 DEF Running
<1>6. Current = Last(ctxs)
  BY <1>3, <1>4, <1>5
<1>7. /\ Last(ctxs).state \in HookStates /\ Entered(g, Top.v) /\ Len(new) = 1
      /\ new[1].state = RecallOf[Last(ctxs).state]
      /\ new[1].obj = Last(ctxs).obj /\ new[1].iter = Last(ctxs).iter
      /\ new[1].iface = "set" <=> HasIface(hooks, Top.v, Last(ctxs).obj)
      /\ Resumed(f, g, d, new[1])
  BY <1>2 DEF Recalled, TimelyRecalls
<1>8. PICK e \in Context : e = new[1]
  BY <1>3, <1>7, OneElement
<1>9. /\ SameCall(Top, f) /\ frames' = Append(WithTop(f), g)
      /\ d.state = "Dead" /\ d.vfn = Last(ctxs).vfn
      /\ ctxs' = [ctxs EXCEPT ![Len(ctxs)] = d] \o new
  BY <1>2 DEF Recalled
<1>10. g.ctx = Len(ctxs) + 1
  <2>1. g.kind # "plain"
    BY <1>7 DEF Entered
  <2>2. g.ctx = Len(ctxs) + Len(new)
    BY <1>2, <2>1 DEF Recalled
  <2>. QED
    BY <1>7, <2>2
<1>11. /\ DOMAIN frames' = 1..Len(frames) + 1
       /\ \A i \in 1..Len(frames) - 1 : frames'[i] = frames[i]
       /\ frames'[Len(frames)] = f /\ frames'[Len(frames) + 1] = g
  <2>1. PICK fs, s : fs = frames' /\ s = frames
    OBVIOUS
  <2>2. fs = Append([s EXCEPT ![Len(s)] = f], g) /\ s \in Seq(FrameType) /\ s # <<>>
    BY <1>1, <1>3, <1>9, <2>1 DEF WithTop
  <2>3. /\ DOMAIN fs = 1..Len(s) + 1
        /\ \A i \in 1..Len(s) - 1 : fs[i] = s[i]
        /\ fs[Len(s)] = f /\ fs[Len(s) + 1] = g
    BY <1>2, <2>2, OneReplacedOneMore
  <2>. QED
    BY <2>1, <2>3
<1>12. /\ DOMAIN ctxs' = 1..Len(ctxs) + 1
       /\ \A n \in 1..Len(ctxs) - 1 : ctxs'[n] = ctxs[n]
       /\ ctxs'[Len(ctxs)] = d /\ ctxs'[Len(ctxs) + 1] = e
  <2>1. PICK cs, s : cs = ctxs' /\ s = [ctxs EXCEPT ![Len(ctxs)] = d]
    OBVIOUS
  <2>2. s \in Seq(Context)
    BY <1>3, <2>1
  <2>3. cs = s \o new
    BY <1>9, <2>1
  <2>4. s \o new = Append(s, e)
    BY <1>7, <1>8, <2>2, OneElement
  <2>5. PICK t : t = ctxs
    OBVIOUS
  <2>6. cs = Append([t EXCEPT ![Len(t)] = d], e) /\ t \in Seq(Context) /\ t # <<>>
    BY <1>1, <1>3, <2>1, <2>3, <2>4, <2>5
  <2>7. /\ DOMAIN cs = 1..Len(t) + 1
        /\ \A i \in 1..Len(t) - 1 : cs[i] = t[i]
        /\ cs[Len(t)] = d /\ cs[Len(t) + 1] = e
    BY <1>2, <1>8, <2>6, OneReplacedOneMore
  <2>. QED
    BY <2>1, <2>5, <2>7
<1>13. f.ctx = Len(ctxs) /\ f.kind = "hook"
  BY <1>4, <1>5, <1>9 DEF SameCall
<1>14. Current.vfn \in {Top.v, NoVfn}
  BY <1>4 DEF Running
<1>15. /\ Current.state \in HookStates
       /\ e.state = RecallOf[Current.state] /\ e.obj = Current.obj /\ e.iter = Current.iter
       /\ e.iface = "set" <=> HasIface(hooks, Top.v, Current.obj)
       /\ Resumed(f, g, d, e)
       /\ d.state = "Dead" /\ d.vfn = Current.vfn /\ Entered(g, Top.v)
  BY <1>6, <1>7, <1>8, <1>9
<1>. QED
  BY <1>1, <1>4, <1>5, <1>6, <1>10, <1>11, <1>12, <1>13, <1>14, <1>15

\* A recall hands what the call still owes on to the call it makes.
LEMMA RecallOnTrack ==
    ASSUME RegistryInv, FramesInv, NestInv, TimelyRecalls, WholeInv, TrackInv, NEW sup \in BOOLEAN, Recall(sup)
    PROVE  WholeInv' /\ TrackInv'
<1>1. PICK f, g \in FrameType, d, e \in Context :
             /\ frames # <<>> /\ Top.pc = "handler" /\ Top.ctx = Len(ctxs) /\ ctxs # <<>> /\ Current = Last(ctxs)
             /\ DOMAIN frames' = 1..Len(frames) + 1 /\ DOMAIN ctxs' = 1..Len(ctxs) + 1
             /\ \A i \in 1..Len(frames) - 1 : frames'[i] = frames[i]
             /\ frames'[Len(frames)] = f /\ frames'[Len(frames) + 1] = g
             /\ \A n \in 1..Len(ctxs) - 1 : ctxs'[n] = ctxs[n]
             /\ ctxs'[Len(ctxs)] = d /\ ctxs'[Len(ctxs) + 1] = e
             /\ f.ctx = Len(ctxs) /\ f.kind = "hook" /\ g.ctx = Len(ctxs) + 1 /\ Entered(g, Top.v)
             /\ d.state = "Dead" /\ d.vfn = Current.vfn
             /\ Current.state \in HookStates /\ Current.vfn \in {Top.v, NoVfn} /\ Top.v \in VfnPtrs
             /\ e.state = RecallOf[Current.state] /\ e.obj = Current.obj /\ e.iter = Current.iter
             /\ e.iface = "set" <=> HasIface(hooks, Top.v, Current.obj)
             /\ Resumed(f, g, d, e)
             /\ UNCHANGED <<entries, hooks, paused>>
  BY RecallShape
<1>2. /\ f.due = {} /\ f.done = Top.done /\ SameDebt(Top, g)
      /\ d.obj = Current.obj /\ d.iface = Current.iface /\ e.vfn = Top.v
  BY <1>1 DEF Resumed
<1>3. /\ ctxs \in Seq(Context) /\ Len(ctxs) \in Nat \ {0} /\ DOMAIN ctxs = 1..Len(ctxs)
      /\ frames \in Seq(FrameType) /\ Len(frames) \in Nat \ {0} /\ DOMAIN frames = 1..Len(frames)
      /\ Len(frames) \in DOMAIN frames /\ Top = frames[Len(frames)]
      /\ Top.kind = "hook" /\ Top.ctx \in DOMAIN ctxs /\ Current = ctxs[Top.ctx] /\ Current \in Context
  BY <1>1, CurrentContext, Stacks DEF FramesInv, StackType, LoopPcs
<1>4. PICK c \in Context : c = Current
  BY <1>3
<1>5. Whole(c, hooks) /\ OnTrack(Top, c)
  BY <1>3, <1>4 DEF WholeInv, TrackInv
<1>6. /\ Whole(e, hooks)
      /\ Top.due \subseteq Ahead(e, hooks) \ paused
      /\ Top.done \subseteq Reach(e) \ Ahead(e, hooks)
      /\ Top.done \subseteq Reach(c)
  BY <1>1, <1>2, <1>4, <1>5, RecallTrack
<1>7. OnTrack(g, e)
  BY <1>2, <1>6 DEF SameDebt, OnTrack
<1>8. Whole(d, hooks)
  <2>1. ~Walks(d)
    BY <1>1 DEF Walks, HookStates, RecallStates
  <2>. QED
    BY <1>1, <1>2, <1>4, <1>5, <2>1 DEF Whole, Placed
<1>9. OnTrack(f, d)
  <2>1. Reach(d) = Reach(c)
    BY <1>1, <1>2, <1>4 DEF Reach
  <2>. QED
    BY <1>1, <1>2, <1>6, <2>1, IdleTrack
<1>10. WholeInv'
  <2>1. \A n \in DOMAIN ctxs' : \/ n \in DOMAIN ctxs /\ ctxs'[n] = ctxs[n]
                                \/ ctxs'[n] = d \/ ctxs'[n] = e
    <3>1. \A n \in 1..Len(ctxs) + 1 : n \in 1..Len(ctxs) - 1 \/ n = Len(ctxs) \/ n = Len(ctxs) + 1
      <4>1. \A k \in Nat : \A n \in 1..k + 1 : n \in 1..k - 1 \/ n = k \/ n = k + 1
        OBVIOUS
      <4>. QED
        BY <1>3, <4>1
    <3>2. 1..Len(ctxs) - 1 \subseteq DOMAIN ctxs
      BY <1>3
    <3>. QED
      BY <1>1, <3>1, <3>2
  <2>2. \A n \in DOMAIN ctxs' : Whole(ctxs'[n], hooks)
    BY <1>6, <1>8, <2>1 DEF WholeInv
  <2>. QED
    BY <1>1, <2>2 DEF WholeInv
<1>11. ASSUME NEW i \in DOMAIN frames', frames'[i].kind = "hook"
       PROVE  \E h, x : h = frames'[i] /\ x = ctxs'[h.ctx] /\ OnTrack(h, x)'
  <2>1. i \in 1..Len(frames) - 1 \/ i = Len(frames) \/ i = Len(frames) + 1
    BY <1>1, <1>3, <1>11
  <2>2. CASE i = Len(frames)
    <3>1. OnTrack(f, d)'
      BY <1>1, <1>9, TrackKept
    <3>. QED
      BY <1>1, <2>2, <3>1
  <2>3. CASE i = Len(frames) + 1
    <3>1. OnTrack(g, e)'
      BY <1>1, <1>7, TrackKept
    <3>. QED
      BY <1>1, <2>3, <3>1
  <2>4. CASE i \in 1..Len(frames) - 1
    <3>1. i \in DOMAIN frames /\ i # Len(frames) /\ frames'[i] = frames[i]
      BY <1>1, <1>3, <2>4
    <3>2. PICK h, x : h = frames[i] /\ x = ctxs[h.ctx] /\ h.kind = "hook"
      BY <1>11, <3>1
    <3>3. h.ctx \in DOMAIN ctxs /\ h.ctx < Top.ctx
      BY <1>1, <1>3, <3>1, <3>2, BelowTop
    <3>4. h.ctx \in 1..Len(ctxs) - 1
      BY <1>1, <1>3, <3>3
    <3>5. OnTrack(h, x)
      BY <3>1, <3>2 DEF TrackInv
    <3>6. OnTrack(h, x)'
      BY <1>1, <3>5, TrackKept
    <3>. QED
      BY <1>1, <3>1, <3>2, <3>4, <3>6
  <2>. QED
    BY <2>1, <2>2, <2>3, <2>4
<1>. QED
  BY <1>10, <1>11, TrackedAfter

\* Both are inductive when recalls are timely.
LEMMA TrackInductive ==
    /\ Init => WholeInv /\ TrackInv
    /\ (TimelyRecalls /\ RegistryInv /\ FramesInv /\ NestInv /\ RegistryInv' /\ FramesInv')
           => (WholeInv /\ TrackInv /\ [Next]_vars => WholeInv' /\ TrackInv')
<1>1. Init => WholeInv /\ TrackInv
  BY DEF Init, WholeInv, TrackInv
<1>2. ASSUME TimelyRecalls, RegistryInv, FramesInv, NestInv, RegistryInv', FramesInv', WholeInv, TrackInv, [Next]_vars
      PROVE  WholeInv' /\ TrackInv'
  <2>1. CASE UNCHANGED <<entries, hooks, ctxs, frames>> /\ paused' \subseteq paused
    BY <1>2, <2>1, OthersOnTrack
  <2>2. CASE UNCHANGED vars
    BY <2>1, <2>2 DEF vars
  <2>3. CASE \E R \in SUBSET Live, M \in SUBSET HookMans : Retire(R, M)
    BY <1>2, <2>3, RetireOnTrack
  <2>4. CASE \E R \in SUBSET Live : Retire(R, {})
    <3>1. {} \in SUBSET HookMans
      OBVIOUS
    <3>. QED
      BY <2>3, <2>4, <3>1
  <2>5. CASE \E sup \in BOOLEAN : LoopStepOf(sup)
    BY <1>2, <2>5, LoopOnTrack
  <2>6. CASE HookfuncReturns \/ CalleeReturns
    BY <1>2, <2>6, ReturnOnTrack
  <2>7. CASE \E v \in VfnPtrs, obj \in Objects : Call(v, obj) \/ ShCall(v, obj)
    BY <1>2, <2>7, CallOnTrack, ShCallOnTrack
  <2>8. CASE \E sup \in BOOLEAN : Recall(sup)
    BY <1>2, <2>8, RecallOnTrack
  <2>9. CASE \/ \E h \in 1..MaxIds : PauseHook(h)
             \/ \E m \in HookMans, handler \in Handlers, l \in Sites : AddHook(m, handler, l)
    BY <1>2, <2>9, OthersOnTrack
  <2>10. CASE Next
    BY <1>2, <2>1, <2>3, <2>4, <2>5, <2>6, <2>7, <2>8, <2>9, <2>10, StackSteps, Retiring
  <2>. QED
    BY <1>2, <2>2, <2>10
<1>. QED
  BY <1>1, <1>2

-----------------------------------------------------------------------------
(* How often the original runs *)

\* A loop's account of the original's calls: either nothing is decided yet, or it ran
\* once, or not at all because a pre handler superceded.
Settled(f) == f.ran = IF f.asked THEN 0 ELSE 1
Posting == {"OrigCall", "Post", "PostVP"}
ResumesPost == {"Recall_Post", "Recall_PostVP"}
Stands(f, c) ==
    /\ f.loop = "post" => c.state \in Posting \union {"Dead"}
    /\ f.loop = "pre" => c.state \notin Posting
    /\ f.pc = "recall" => c.state = "Dead"
    /\ f.pc \in {"post", "orig"} => f.loop = "post"
    /\ f.pc = "pre" => f.loop = "pre"
Counts(f, c) ==
    /\ f.loop = "post" => Settled(f)
    /\ f.loop = "pre" => \/ Fresh(f, c)
                         \/ /\ Settled(f) /\ (f.sup \/ ~c.callOrig)
                            /\ f.pc # "handler" /\ c.state \in {"Dead"} \union ResumesPost

\* While a call waits for the one it recalled, that one keeps the account.
Above(i) == IF i = Len(frames) THEN "none" ELSE frames[i + 1].kind
Accounted(f, c, above) ==
    /\ Stands(f, c)
    /\ f.pc # "recall" => Counts(f, c)
    /\ f.pc = "recall" => above = "hook" \/ (above = "none" /\ Settled(f))
CountsInv ==
    \A i \in DOMAIN frames : frames[i].kind = "hook" => Accounted(frames[i], ctxs[frames[i].ctx], Above(i))

\* Where GetNext takes a context.
LEMMA AdvancedState ==
    ASSUME NEW c \in Context, ~UsesFreed(c), c.state = "Born" => c.iter = AtStart, c.state \notin {"Ignore", "Stray"},
           NEW d, d = Advanced(c), NEW n, n = GetNext(c)
    PROVE  /\ d.callOrig = c.callOrig
           /\ c.state \in {"Born", "Pre", "Recall_Pre", "PreVP", "Recall_PreVP"} =>
                d.state \in (IF n = 0 THEN {"OrigCall"} ELSE {"Pre", "PreVP"})
           /\ c.state \in Posting => d.state \in (IF n = 0 THEN {"Dead"} ELSE {"Post", "PostVP"})
           /\ c.state \in ResumesPost => n = 0 /\ d.state \in {"Post", "PostVP"}
           /\ c.state = "Dead" => n = 0 /\ d = c
<1>1. CASE c.state \in {"Born", "Pre", "Recall_Pre", "PreVP", "Recall_PreVP", "OrigCall", "Post", "PostVP"}
  <2>1. c.vfn # NoVfn
    BY <1>1 DEF UsesFreed
  <2>2. CASE Passes(c)
    <3>1. PICK s : s = (IF Stage(c) < 2 THEN "OrigCall" ELSE "Dead")
      OBVIOUS
    <3>2. n = 0 /\ d = Ended(c, s)
      BY <2>2, <3>1 DEF Passes
    <3>3. d.state = s /\ d.callOrig = c.callOrig
      BY <3>2 DEF Ended, Context
    <3>. QED
      BY <1>1, <3>1, <3>2, <3>3 DEF Stage, Posting, ResumesPost
  <2>3. ASSUME NEW r \in Ranks, Reaches(c, r)
        PROVE  /\ n # 0 /\ d.callOrig = c.callOrig
               /\ d.state \in (IF Stage(c) < 2 THEN {"Pre", "PreVP"} ELSE {"Post", "PostVP"})
    <3>1. n # 0 /\ d = Stepped(c, r, n) /\ (Stage(c) >= 2 <=> r >= 2)
      BY <2>3 DEF Reaches
    <3>2. d.state = StateAt(r) /\ d.callOrig = c.callOrig
      BY <3>1 DEF Stepped, Context
    <3>3. Stage(c) \in Nat
      BY DEF Stage
    <3>4. StateAt(r) \in (IF r < 2 THEN {"Pre", "PreVP"} ELSE {"Post", "PostVP"})
      BY DEF Ranks, StateAt
    <3>. QED
      BY <3>1, <3>2, <3>3, <3>4 DEF Ranks
  <2>4. CASE \E r \in Ranks : Reaches(c, r)
    BY <1>1, <2>3, <2>4 DEF Stage, Posting, ResumesPost
  <2>. QED
    BY <1>1, <2>1, <2>2, <2>4, AdvanceStages
<1>2. CASE c.state \in ResumesPost
  <2>1. d = PostResumed(c) /\ n = 0
    BY <1>2 DEF Advanced, GetNext, ResumesPost
  <2>2. d.callOrig = c.callOrig /\ d.state \in {"Post", "PostVP"}
    BY <2>1 DEF PostResumed, Context
  <2>. QED
    BY <1>2, <2>1, <2>2 DEF ResumesPost, Posting
<1>3. CASE c.state = "Dead"
  BY <1>3 DEF Advanced, GetNext, Posting, ResumesPost
<1>. QED
  BY <1>1, <1>2, <1>3 DEF Context, HookStates, RecallStates, ResumesPost

\* What a call that goes on with the same account keeps.
LEMMA CountKept ==
    ASSUME NEW f, NEW g, SameLoop(f, g), SameCount(f, g),
           NEW c, NEW d, d.callOrig = c.callOrig, d.state \in {c.state, "Dead"},
           NEW a, Accounted(f, c, a)
    PROVE  Accounted(g, d, a)
<1>1. Settled(g) <=> Settled(f)
  BY DEF Settled, SameCount
<1>2. Stands(g, d)
  BY DEF Accounted, Stands, SameLoop, Posting
<1>3. Counts(f, c) => Counts(g, d)
  BY <1>1 DEF Counts, Fresh, SameLoop, SameCount, ResumesPost
<1>. QED
  BY <1>1, <1>2, <1>3 DEF Accounted, SameLoop

\* A step of a loop, for its own call.
LEMMA TopCounts ==
    ASSUME RegistryInv, FramesInv, WholeInv, CountsInv, NEW sup \in BOOLEAN, LoopStepOf(sup),
           NEW f \in FrameType, LoopMove(f, sup), SameCall(Top, f)
    PROVE  Accounted(f, ctxs'[Top.ctx], "none")
<1>1. /\ frames # <<>> /\ Top.pc \in LoopPcs
  BY LoopStep DEF LoopStepOf
<1>2. /\ Len(frames) \in DOMAIN frames /\ Top = frames[Len(frames)] /\ Top \in FrameType
      /\ Top.kind = "hook" /\ Running(Top)
      /\ Top.ctx \in DOMAIN ctxs /\ Current = ctxs[Top.ctx] /\ Current \in Context /\ ctxs \in Seq(Context)
  BY <1>1, CurrentContext DEF FramesInv, StackType
<1>3. PICK c, d, n, t : c \in Context /\ c = Current /\ d = Advanced(c) /\ n = GetNext(c) /\ t = Top
  BY <1>2
<1>4. Accounted(t, c, "none") /\ Whole(c, hooks) /\ c.state # "Ignore"
  BY <1>2, <1>3 DEF CountsInv, Above, WholeInv, Running
<1>5. PICK e : e = ctxs'[Top.ctx]
  OBVIOUS
<1>6. t.loop \in {"pre", "post"} /\ c.state # "Stray"
  BY <1>2, <1>3, <1>4 DEF FrameType, Whole
<1>7. CASE NextHandler
  <2>1. ~UsesFreed(c) /\ n # 0 /\ e = d /\ t.pc \in {"pre", "post"}
    BY <1>2, <1>3, <1>5, <1>7 DEF NextHandler
  <2>2. f.pc = "handler" /\ f.loop = t.loop /\ f.sup = t.sup /\ SameCount(t, f)
    BY <1>3, <1>7 DEF LoopMove, NextHandler, PreLoopEnds, OrigReturns, RecallReturns, HandlerReturns
  <2>3. /\ d.callOrig = c.callOrig
        /\ c.state \in {"Born", "Pre", "Recall_Pre", "PreVP", "Recall_PreVP"} => d.state \in {"Pre", "PreVP"}
        /\ c.state \in Posting => d.state \in {"Post", "PostVP"}
        /\ c.state \notin ResumesPost \union {"Dead"}
    <3>1. c.state = "Born" => c.iter = AtStart
      BY <1>4, <2>1 DEF Whole, UsesFreed
    <3>. QED
      BY <1>3, <1>4, <1>6, <2>1, <3>1, AdvancedState
  <2>4. Stands(f, d)
    BY <1>3, <1>4, <1>6, <2>2, <2>3 DEF Accounted, Stands, Posting, Context, HookStates, RecallStates, ResumesPost
  <2>5. Counts(f, d)
    BY <1>4, <2>1, <2>2, <2>3 DEF Accounted, Counts, Fresh, Settled, SameCount
  <2>. QED
    BY <1>5, <2>1, <2>2, <2>4, <2>5 DEF Accounted
<1>8. CASE PreLoopEnds
  <2>1. ~UsesFreed(c) /\ n = 0 /\ e = d /\ t.pc = "pre"
    BY <1>2, <1>3, <1>5, <1>8 DEF PreLoopEnds
  <2>2. /\ f.pc = (IF CallsOrig(Current) THEN "orig" ELSE "post") /\ f.loop = "post" /\ f.sup = t.sup
        /\ f.asked = t.asked /\ f.ran = IF CallsOrig(Current) THEN t.ran + 1 ELSE t.ran
    BY <1>1, <1>3, <1>8 DEF LoopMove, NextHandler, PreLoopEnds, OrigReturns, RecallReturns, HandlerReturns
  <2>3. t.loop = "pre" /\ Counts(t, c) /\ c.state \notin Posting
    BY <1>4, <2>1 DEF Accounted, Stands
  <2>4. d.state \in Posting \union {"Dead"}
    <3>1. /\ c.state \in {"Born", "Pre", "Recall_Pre", "PreVP", "Recall_PreVP"} => d.state = "OrigCall"
          /\ c.state \in ResumesPost => d.state \in {"Post", "PostVP"}
          /\ c.state = "Dead" => d = c
      <4>1. c.state = "Born" => c.iter = AtStart
        BY <1>4, <2>1 DEF Whole, UsesFreed
      <4>. QED
        BY <1>3, <1>4, <1>6, <2>1, <4>1, AdvancedState
    <3>. QED
      BY <1>3, <1>4, <1>6, <2>3, <3>1 DEF Context, HookStates, RecallStates, ResumesPost, Posting
  <2>5. CallsOrig(Current) <=> ~t.sup /\ c.callOrig
    BY <1>3 DEF CallsOrig
  <2>6. Settled(f)
    BY <1>2, <1>3, <2>2, <2>3, <2>5 DEF Counts, Fresh, Settled, FrameType
  <2>7. f.pc \in {"orig", "post"}
    BY <2>2
  <2>. QED
    BY <1>5, <2>1, <2>2, <2>4, <2>6, <2>7 DEF Accounted, Stands, Counts
<1>9. CASE OrigReturns
  <2>1. e = c /\ t.pc = "orig"
    BY <1>2, <1>3, <1>5, <1>9 DEF OrigReturns
  <2>2. f.pc = "post" /\ f.loop = t.loop /\ f.sup = t.sup /\ SameCount(t, f)
    BY <1>1, <1>3, <1>9 DEF LoopMove, NextHandler, PreLoopEnds, OrigReturns, RecallReturns, HandlerReturns
  <2>3. t.loop = "post" /\ Settled(t) /\ c.state \in Posting \union {"Dead"}
    BY <1>4, <2>1 DEF Accounted, Stands, Counts
  <2>. QED
    BY <1>5, <2>1, <2>2, <2>3 DEF Accounted, Stands, Counts, Settled, SameCount
<1>10. CASE RecallReturns
  <2>1. e = c /\ t.pc = "recall"
    BY <1>2, <1>3, <1>5, <1>10 DEF RecallReturns
  <2>2. f.pc = t.loop /\ f.loop = t.loop /\ f.sup = TRUE /\ SameCount(t, f)
    BY <1>1, <1>3, <1>10 DEF LoopMove, NextHandler, PreLoopEnds, OrigReturns, RecallReturns, HandlerReturns
  <2>3. Settled(t) /\ c.state = "Dead"
    BY <1>4, <2>1 DEF Accounted, Stands
  <2>4. Settled(f)
    BY <2>2, <2>3 DEF Settled, SameCount
  <2>. QED
    BY <1>5, <1>6, <2>1, <2>2, <2>3, <2>4 DEF Accounted, Stands, Counts, Posting
<1>11. CASE HandlerReturns(sup)
  <2>1. e = c /\ t.pc = "handler"
    BY <1>2, <1>3, <1>5, <1>11 DEF HandlerReturns
  <2>2. /\ f.pc = t.loop /\ f.loop = t.loop /\ f.sup = (t.sup \/ sup)
        /\ f.ran = t.ran /\ f.asked = (t.asked \/ (sup /\ t.loop = "pre"))
    BY <1>1, <1>3, <1>11 DEF LoopMove, NextHandler, PreLoopEnds, OrigReturns, RecallReturns, HandlerReturns
  <2>3. Counts(t, c) /\ Stands(t, c)
    BY <1>4, <2>1 DEF Accounted
  <2>4. CASE t.loop = "pre"
    <3>1. Fresh(t, c)
      BY <2>1, <2>3, <2>4 DEF Counts
    <3>2. t.sup \in BOOLEAN /\ t.asked \in BOOLEAN
      BY <1>2, <1>3 DEF FrameType
    <3>3. Fresh(f, c)
      BY <2>2, <2>4, <3>1, <3>2 DEF Fresh
    <3>. QED
      BY <1>5, <2>1, <2>2, <2>3, <2>4, <3>3 DEF Accounted, Stands, Counts
  <2>5. CASE t.loop = "post"
    <3>1. Settled(t) /\ f.asked = t.asked
      BY <1>2, <1>3, <2>2, <2>3, <2>5 DEF Counts, FrameType
    <3>2. Settled(f)
      BY <2>2, <3>1 DEF Settled
    <3>. QED
      BY <1>5, <2>1, <2>2, <2>3, <2>5, <3>2 DEF Accounted, Stands, Counts
  <2>. QED
    BY <1>6, <2>4, <2>5
<1>. QED
  BY <1>7, <1>8, <1>9, <1>10, <1>11 DEF LoopStepOf

\* The account of all calls after a step.
LEMMA CountedAfter ==
    ASSUME \A i \in DOMAIN frames' : frames'[i].kind = "hook" =>
               \E g, d, a : g = frames'[i] /\ d = ctxs'[g.ctx] /\ Accounted(g, d, a)
                            /\ (i = Len(frames') => a = "none") /\ (i # Len(frames') => a = frames'[i + 1].kind)
    PROVE  CountsInv'
<1>1. ASSUME NEW i \in DOMAIN frames', frames'[i].kind = "hook"
      PROVE  Accounted(frames[i], ctxs[frames[i].ctx], Above(i))'
  <2>1. PICK g, d, a : g = frames'[i] /\ d = ctxs'[g.ctx] /\ Accounted(g, d, a)
                       /\ (i = Len(frames') => a = "none") /\ (i # Len(frames') => a = frames'[i + 1].kind)
    BY <1>1
  <2>2. Above(i)' = a
    BY <2>1 DEF Above
  <2>3. Accounted(frames'[i], ctxs'[frames'[i].ctx], a)
    BY <2>1
  <2>. QED
    BY <2>2, <2>3
<1>. QED
  BY <1>1 DEF CountsInv

\* A step of a loop keeps the account of every call.
LEMMA LoopCounts ==
    ASSUME RegistryInv, FramesInv, WholeInv, CountsInv, NEW sup \in BOOLEAN, LoopStepOf(sup)
    PROVE  CountsInv'
<1>1. PICK f \in FrameType : frames' = WithTop(f) /\ SameCall(Top, f) /\ LoopMove(f, sup)
  BY LoopStep DEF LoopStepOf
<1>2. /\ frames # <<>> /\ Top.pc \in LoopPcs
      /\ ctxs' = ctxs \/ ctxs' = [ctxs EXCEPT ![Top.ctx] = Advanced(Current)]
  BY LoopStep DEF LoopStepOf
<1>3. /\ frames \in Seq(FrameType) /\ Len(frames) \in Nat /\ Len(frames) \in DOMAIN frames /\ Top = frames[Len(frames)]
      /\ DOMAIN frames = 1..Len(frames) /\ Top.kind = "hook" /\ Top.ctx \in DOMAIN ctxs
      /\ DOMAIN ctxs = 1..Len(ctxs) /\ Len(ctxs) \in Nat
  BY <1>2, CurrentContext, Stacks DEF FramesInv
<1>4. /\ Len(frames') = Len(frames) /\ DOMAIN frames' = DOMAIN frames
      /\ \A i \in DOMAIN frames : frames'[i] = IF i = Len(frames) THEN f ELSE frames[i]
  BY <1>1, <1>3 DEF WithTop
<1>5. f.ctx = Top.ctx /\ f.kind = "hook"
  BY <1>1, <1>3 DEF SameCall
<1>6. Accounted(f, ctxs'[Top.ctx], "none")
  BY <1>1, TopCounts
<1>7. ASSUME NEW i \in DOMAIN frames', frames'[i].kind = "hook"
      PROVE  \E g, d, a : g = frames'[i] /\ d = ctxs'[g.ctx] /\ Accounted(g, d, a)
                          /\ (i = Len(frames') => a = "none") /\ (i # Len(frames') => a = frames'[i + 1].kind)
  <2>1. CASE i = Len(frames)
    <3>1. PICK d : d = ctxs'[f.ctx] /\ Accounted(f, d, "none")
      BY <1>5, <1>6
    <3>. QED
      BY <1>4, <2>1, <3>1
  <2>2. CASE i # Len(frames)
    <3>1. PICK g, d, a : g = frames[i] /\ d = ctxs[g.ctx] /\ a = Above(i)
      OBVIOUS
    <3>2. i \in DOMAIN frames /\ frames'[i] = g /\ g.kind = "hook"
      BY <1>4, <1>7, <2>2, <3>1
    <3>3. Accounted(g, d, a)
      BY <3>1, <3>2 DEF CountsInv
    <3>4. g.ctx \in DOMAIN ctxs /\ g.ctx < Top.ctx
      BY <1>2, <1>3, <2>2, <3>1, <3>2, BelowTop
    <3>5. ctxs'[g.ctx] = d
      BY <1>2, <1>3, <3>1, <3>4
    <3>6. i + 1 \in DOMAIN frames
      BY <1>3, <2>2, <3>2
    <3>7. frames'[i + 1].kind = frames[i + 1].kind
      BY <1>3, <1>4, <1>5, <3>6
    <3>8. a = frames'[i + 1].kind
      BY <2>2, <3>1, <3>7 DEF Above
    <3>. QED
      BY <1>4, <2>2, <3>2, <3>3, <3>5, <3>8
  <2>. QED
    BY <2>1, <2>2
<1>. QED
  BY <1>7, CountedAfter

\* When a client may call something, no call waits for one it recalled.
LEMMA TopMay ==
    ASSUME FramesInv, CountsInv, NEW op, May(op), NEW i, i \in DOMAIN frames, frames[i].kind = "hook", NEW a,
           i # Len(frames) => a = frames[i + 1].kind
    PROVE  Accounted(frames[i], ctxs[frames[i].ctx], a)
<1>1. frames # <<>> /\ Top = frames[Len(frames)]
  BY Stacks DEF FramesInv
<1>2. Top.pc \in {"handler", "orig", "body"}
  BY <1>1 DEF May
<1>3. Accounted(frames[i], ctxs[frames[i].ctx], Above(i))
  BY DEF CountsInv
<1>4. CASE i = Len(frames)
  <2>1. frames[i].pc # "recall"
    BY <1>1, <1>2, <1>4
  <2>. QED
    BY <1>3, <2>1 DEF Accounted
<1>5. CASE i # Len(frames)
  BY <1>3, <1>5 DEF Above
<1>. QED
  BY <1>4, <1>5

\* A call begins with nothing decided.
LEMMA BeginsCounted ==
    ASSUME NEW f, NEW v, Entered(f, v), NEW c, Begins(f, c), c.state \in {"Born", "Dead"}, NEW a
    PROVE  Accounted(f, c, a)
BY DEF Entered, Begins, Accounted, Stands, Counts, Posting

\* A call of a hooked function opens an account of its own.
LEMMA CallCounts ==
    ASSUME RegistryInv, FramesInv, FramesInv', CountsInv, NEW v \in VfnPtrs, NEW obj \in Objects, Call(v, obj)
    PROVE  CountsInv'
<1>1. PICK f \in FrameType, c \in Context :
        /\ Entered(f, v) /\ frames' = Append(frames, f) /\ c.vfn = v
        /\ Begins(f, c)
        /\ \/ /\ ctxs # <<>> /\ Last(ctxs).state = "Ignore"
              /\ c.state = "Dead" /\ c.iface = Last(ctxs).iface /\ f.ctx = Len(ctxs) /\ f.due = {}
              /\ ctxs' = [ctxs EXCEPT ![Len(ctxs)] = c]
           \/ /\ ctxs # <<>> => Last(ctxs).state \notin {"Ignore"} \union RecallStates
              /\ c = NewCtx("Born", v, obj) /\ c.state = "Born" /\ f.ctx = Len(ctxs) + 1
              /\ f.due = Owed(v, obj)
              /\ ctxs' = Append(ctxs, c)
  BY CallEffect
<1>2. May("call")
  BY DEF Call
<1>3. /\ frames \in Seq(FrameType) /\ Len(frames) \in Nat /\ DOMAIN frames = 1..Len(frames)
      /\ ctxs \in Seq(Context) /\ Len(ctxs) \in Nat /\ DOMAIN ctxs = 1..Len(ctxs)
  BY Stacks DEF FramesInv
<1>4. /\ ctxs'[f.ctx] = c
      /\ \A n \in DOMAIN ctxs : n = f.ctx \/ ctxs'[n] = ctxs[n]
  <2>1. CASE ctxs # <<>> /\ f.ctx = Len(ctxs) /\ ctxs' = [ctxs EXCEPT ![Len(ctxs)] = c]
    BY <1>3, <2>1
  <2>2. CASE f.ctx = Len(ctxs) + 1 /\ ctxs' = Append(ctxs, c)
    BY <1>3, <2>2
  <2>. QED
    BY <1>1, <2>1, <2>2
<1>5. /\ DOMAIN frames' = 1..Len(frames) + 1 /\ Len(frames') = Len(frames) + 1 /\ frames'[Len(frames) + 1] = f
      /\ \A i \in DOMAIN frames : frames'[i] = frames[i]
  BY <1>1, <1>3
<1>6. Accounted(f, c, "none")
  BY <1>1, BeginsCounted
<1>7. ASSUME NEW i \in DOMAIN frames', frames'[i].kind = "hook"
      PROVE  \E g, d, a : g = frames'[i] /\ d = ctxs'[g.ctx] /\ Accounted(g, d, a)
                          /\ (i = Len(frames') => a = "none") /\ (i # Len(frames') => a = frames'[i + 1].kind)
  <2>1. i \in DOMAIN frames \/ i = Len(frames) + 1
    BY <1>3, <1>5
  <2>2. CASE i = Len(frames) + 1
    BY <1>4, <1>5, <1>6, <2>2
  <2>3. CASE i \in DOMAIN frames
    <3>1. PICK g, d, a : g = frames[i] /\ d = ctxs[g.ctx] /\ a = frames'[i + 1].kind
      OBVIOUS
    <3>2. frames'[i] = g /\ g.kind = "hook"
      BY <1>5, <1>7, <2>3, <3>1
    <3>3. i # Len(frames) => a = frames[i + 1].kind
      BY <1>3, <1>5, <2>3, <3>1
    <3>4. Accounted(g, d, a)
      BY <1>2, <2>3, <3>1, <3>2, <3>3, TopMay
    <3>5. g.ctx \in DOMAIN ctxs
      BY <1>3, <2>3, <3>1, <3>2 DEF FramesInv, Running
    <3>6. g.ctx < f.ctx
      <4>1. PICK k : k = Len(frames) + 1 /\ k \in DOMAIN frames' /\ i < k /\ frames'[k] = f
        BY <1>3, <1>5, <2>3
      <4>2. f.kind = "hook" /\ OrderInv'
        BY <1>1 DEF Entered, FramesInv
      <4>. QED
        BY <1>7, <3>2, <4>1, <4>2 DEF OrderInv
    <3>7. ctxs'[g.ctx] = d
      <4>1. f.ctx \in Nat /\ g.ctx # f.ctx
        BY <1>1, <1>3, <3>5, <3>6 DEF FrameType
      <4>. QED
        BY <1>4, <3>1, <3>5, <4>1
    <3>8. i # Len(frames')
      BY <1>3, <1>5, <2>3
    <3>. QED
      BY <3>1, <3>2, <3>4, <3>7, <3>8
  <2>. QED
    BY <2>1, <2>2, <2>3
<1>. QED
  BY <1>7, CountedAfter

\* So does an SH_CALL, for the hookfunc it reaches.
LEMMA ShCallCounts ==
    ASSUME RegistryInv, FramesInv, CountsInv, NEW v \in VfnPtrs, NEW obj \in Objects, ShCall(v, obj)
    PROVE  CountsInv'
<1>1. PICK g \in FrameType, c \in Context :
                /\ g.kind = "shcall" /\ g.pc \notin LoopPcs /\ g.man = None /\ g.plug = None
                /\ g.ctx = Len(ctxs) + 1
                /\ ctxs' = Append(ctxs, c) /\ c.iface = "null"
                /\ \/ /\ c.state = "Ignore" /\ c.vfn = NoVfn /\ frames' = Append(frames, g)
                   \/ \E f \in FrameType :
                        /\ c.state = "Dead" /\ c.vfn = v
                        /\ Entered(f, v) /\ f.ctx = Len(ctxs) + 1
                        /\ f.due = {} /\ Begins(f, c)
                        /\ frames' = Append(Append(frames, g), f)
  BY ShCallEffect
<1>2. May("shcall")
  BY DEF ShCall
<1>3. /\ frames \in Seq(FrameType) /\ Len(frames) \in Nat /\ DOMAIN frames = 1..Len(frames)
      /\ ctxs \in Seq(Context) /\ Len(ctxs) \in Nat /\ DOMAIN ctxs = 1..Len(ctxs)
  BY Stacks DEF FramesInv
<1>4. ctxs'[Len(ctxs) + 1] = c /\ \A n \in DOMAIN ctxs : ctxs'[n] = ctxs[n]
  BY <1>1, <1>3
<1>5. \/ /\ frames' = Append(frames, g)
         /\ DOMAIN frames' = 1..Len(frames) + 1 /\ Len(frames') = Len(frames) + 1 /\ frames'[Len(frames) + 1] = g
         /\ \A i \in DOMAIN frames : frames'[i] = frames[i]
      \/ \E f \in FrameType :
           /\ Accounted(f, c, "none") /\ f.ctx = Len(ctxs) + 1
           /\ DOMAIN frames' = 1..Len(frames) + 2 /\ Len(frames') = Len(frames) + 2
           /\ frames'[Len(frames) + 1] = g /\ frames'[Len(frames) + 2] = f
           /\ \A i \in DOMAIN frames : frames'[i] = frames[i]
  <2>1. CASE frames' = Append(frames, g)
    BY <1>1, <1>3, <2>1
  <2>2. ASSUME NEW f \in FrameType, c.state = "Dead", Entered(f, v), f.ctx = Len(ctxs) + 1,
               Begins(f, c), frames' = Append(Append(frames, g), f)
        PROVE  /\ Accounted(f, c, "none") /\ f.ctx = Len(ctxs) + 1
               /\ DOMAIN frames' = 1..Len(frames) + 2 /\ Len(frames') = Len(frames) + 2
               /\ frames'[Len(frames) + 1] = g /\ frames'[Len(frames) + 2] = f
               /\ \A i \in DOMAIN frames : frames'[i] = frames[i]
    <3>1. Accounted(f, c, "none")
      BY <2>2, BeginsCounted
    <3>2. PICK s : s = Append(frames, g)
      OBVIOUS
    <3>3. /\ s \in Seq(FrameType) /\ Len(s) = Len(frames) + 1 /\ s[Len(frames) + 1] = g
          /\ \A k \in DOMAIN frames : s[k] = frames[k]
      BY <1>1, <1>3, <3>2
    <3>4. frames' = Append(s, f)
      BY <2>2, <3>2
    <3>. QED
      BY <1>3, <2>2, <3>1, <3>3, <3>4
  <2>. QED
    BY <1>1, <2>1, <2>2
<1>6. ASSUME NEW i \in DOMAIN frames, frames[i].kind = "hook",
             i + 1 \in DOMAIN frames', i # Len(frames'), frames'[i] = frames[i],
             i # Len(frames) => frames'[i + 1] = frames[i + 1]
      PROVE  \E h, d, a : h = frames'[i] /\ d = ctxs'[h.ctx] /\ Accounted(h, d, a)
                          /\ (i = Len(frames') => a = "none") /\ (i # Len(frames') => a = frames'[i + 1].kind)
  <2>1. PICK h, d, a : h = frames[i] /\ d = ctxs[h.ctx] /\ a = frames'[i + 1].kind
    OBVIOUS
  <2>2. i # Len(frames) => a = frames[i + 1].kind
    BY <1>6, <2>1
  <2>3. Accounted(h, d, a)
    BY <1>2, <1>6, <2>1, <2>2, TopMay
  <2>4. h.ctx \in DOMAIN ctxs
    BY <1>3, <1>6, <2>1 DEF FramesInv, Running
  <2>. QED
    BY <1>4, <1>6, <2>1, <2>3, <2>4
<1>7. ASSUME NEW i \in DOMAIN frames', frames'[i].kind = "hook"
      PROVE  \E h, d, a : h = frames'[i] /\ d = ctxs'[h.ctx] /\ Accounted(h, d, a)
                          /\ (i = Len(frames') => a = "none") /\ (i # Len(frames') => a = frames'[i + 1].kind)
  <2>1. CASE i \in DOMAIN frames
    <3>1. /\ frames'[i] = frames[i] /\ i + 1 \in DOMAIN frames' /\ i # Len(frames')
          /\ i # Len(frames) => i + 1 \in DOMAIN frames
      BY <1>3, <1>5, <2>1
    <3>2. i # Len(frames) => frames'[i + 1] = frames[i + 1]
      BY <1>5, <3>1
    <3>. QED
      BY <1>6, <1>7, <2>1, <3>1, <3>2
  <2>2. CASE i \notin DOMAIN frames
    <3>1. frames'[i] # g
      BY <1>1, <1>7
    <3>2. PICK f \in FrameType : /\ Accounted(f, c, "none") /\ f.ctx = Len(ctxs) + 1
                                 /\ i = Len(frames') /\ frames'[i] = f
      BY <1>3, <1>5, <2>2, <3>1
    <3>. QED
      BY <1>4, <3>2
  <2>. QED
    BY <2>1, <2>2
<1>. QED
  BY <1>7, CountedAfter

\* A recall leaves the account to the call it makes.
LEMMA RecallCounts ==
    ASSUME RegistryInv, FramesInv, NestInv, TimelyRecalls, WholeInv, CountsInv, NEW sup \in BOOLEAN, Recall(sup)
    PROVE  CountsInv'
<1>1. PICK f, g \in FrameType, d, e \in Context :
             /\ frames # <<>> /\ Top.pc = "handler" /\ Top.ctx = Len(ctxs) /\ ctxs # <<>> /\ Current = Last(ctxs)
             /\ DOMAIN frames' = 1..Len(frames) + 1 /\ DOMAIN ctxs' = 1..Len(ctxs) + 1
             /\ \A i \in 1..Len(frames) - 1 : frames'[i] = frames[i]
             /\ frames'[Len(frames)] = f /\ frames'[Len(frames) + 1] = g
             /\ \A n \in 1..Len(ctxs) - 1 : ctxs'[n] = ctxs[n]
             /\ ctxs'[Len(ctxs)] = d /\ ctxs'[Len(ctxs) + 1] = e
             /\ f.ctx = Len(ctxs) /\ f.kind = "hook" /\ g.ctx = Len(ctxs) + 1 /\ Entered(g, Top.v)
             /\ d.state = "Dead" /\ d.vfn = Current.vfn
             /\ Current.state \in HookStates /\ Current.vfn \in {Top.v, NoVfn} /\ Top.v \in VfnPtrs
             /\ e.state = RecallOf[Current.state] /\ e.obj = Current.obj /\ e.iter = Current.iter
             /\ e.iface = "set" <=> HasIface(hooks, Top.v, Current.obj)
             /\ Resumed(f, g, d, e)
             /\ UNCHANGED <<entries, hooks, paused>>
  BY RecallShape
<1>2. /\ frames \in Seq(FrameType) /\ Len(frames) \in Nat \ {0} /\ DOMAIN frames = 1..Len(frames)
      /\ Len(frames) \in DOMAIN frames /\ Top = frames[Len(frames)] /\ Top \in FrameType
      /\ ctxs \in Seq(Context) /\ Len(ctxs) \in Nat \ {0} /\ DOMAIN ctxs = 1..Len(ctxs)
      /\ Top.kind = "hook" /\ Top.ctx \in DOMAIN ctxs /\ Current = ctxs[Top.ctx] /\ Current \in Context
  BY <1>1, CurrentContext, Stacks DEF FramesInv, StackType, LoopPcs
<1>3. PICK c \in Context, t \in FrameType : c = Current /\ t = Top
  BY <1>2
<1>4. Counts(t, c) /\ Stands(t, c) /\ t.pc = "handler"
  BY <1>1, <1>2, <1>3 DEF CountsInv, Accounted
<1>5. /\ f.pc = "recall" /\ f.loop = t.loop /\ SameCount(f, g) /\ g.ran = t.ran
      /\ t.loop = "post" => g.asked = t.asked
      /\ t.loop = "pre" /\ (t.sup <=> t.asked) => (g.sup <=> g.asked)
      /\ e.callOrig <=> Last(ctxs).state \in {"Pre", "PreVP"}
  BY <1>1, <1>3 DEF Resumed
<1>6. /\ g.pc = "pre" /\ g.loop = "pre" /\ g.kind = "hook"
      /\ t.loop \in {"pre", "post"}
      /\ e.callOrig <=> c.state \in {"Pre", "PreVP"}
      /\ c.state \in HookStates /\ e.state = RecallOf[c.state]
  BY <1>1, <1>3, <1>5 DEF Entered, FrameType
<1>7. Accounted(f, d, "hook")
  BY <1>1, <1>5 DEF Accounted, Stands, Posting
<1>8. Accounted(g, e, "none")
  <2>1. Stands(g, e)
    BY <1>6 DEF Stands, Posting, HookStates, RecallOf
  <2>2. CASE t.loop = "pre"
    <3>1. Fresh(t, c) /\ c.state \notin Posting
      BY <1>4, <2>2 DEF Counts, Stands
    <3>2. c.state \in {"Pre", "PreVP"}
      BY <1>6, <3>1 DEF HookStates, Posting
    <3>3. Fresh(g, e)
      BY <1>5, <1>6, <2>2, <3>1, <3>2 DEF Fresh
    <3>. QED
      BY <1>6, <2>1, <3>3 DEF Accounted, Counts
  <2>3. CASE t.loop = "post"
    <3>1. Settled(t) /\ c.state \in Posting \union {"Dead"}
      BY <1>4, <2>3 DEF Counts, Stands
    <3>2. c.state \in {"Post", "PostVP"}
      BY <1>6, <3>1 DEF HookStates, Posting
    <3>3. Settled(g)
      BY <1>5, <2>3, <3>1 DEF Settled
    <3>4. e.state \in ResumesPost /\ ~e.callOrig
      BY <1>6, <3>2 DEF ResumesPost, RecallOf, HookStates
    <3>. QED
      BY <1>6, <2>1, <3>3, <3>4 DEF Accounted, Counts
  <2>. QED
    BY <1>6, <2>2, <2>3
<1>9. Len(frames') = Len(frames) + 1
  <2>1. DOMAIN frames' = 1..Len(frames')  /\ Len(frames') \in Nat
    <3>1. StackType'
      BY RecallKeepsFrames DEF FramesInv
    <3>. QED
      BY <3>1, Stacks DEF StackType
  <2>2. \A j, k \in Nat : 1..j = 1..k => j = k
    OBVIOUS
  <2>. QED
    BY <1>1, <1>2, <2>1, <2>2
<1>10. ASSUME NEW i \in DOMAIN frames', frames'[i].kind = "hook"
       PROVE  \E h, x, a : h = frames'[i] /\ x = ctxs'[h.ctx] /\ Accounted(h, x, a)
                           /\ (i = Len(frames') => a = "none") /\ (i # Len(frames') => a = frames'[i + 1].kind)
  <2>1. i \in 1..Len(frames) - 1 \/ i = Len(frames) \/ i = Len(frames) + 1
    BY <1>1, <1>2, <1>10
  <2>2. CASE i = Len(frames)
    <3>1. i # Len(frames') /\ frames'[i] = f
      <4>1. \A k \in Nat : k # k + 1
        OBVIOUS
      <4>2. Len(frames) # Len(frames')
        BY <1>2, <1>9, <4>1
      <4>. QED
        BY <1>1, <2>2, <4>2
    <3>2. frames'[i + 1] = g
      BY <1>1, <2>2
    <3>. QED
      BY <1>1, <1>6, <1>7, <3>1, <3>2
  <2>3. CASE i = Len(frames) + 1
    BY <1>1, <1>8, <1>9, <2>3
  <2>4. CASE i \in 1..Len(frames) - 1
    <3>1. i \in DOMAIN frames /\ i # Len(frames) /\ frames'[i] = frames[i] /\ i # Len(frames')
      BY <1>1, <1>2, <1>9, <2>4
    <3>2. frames'[i + 1].kind = frames[i + 1].kind
      <4>1. i + 1 \in 1..Len(frames) - 1 \/ i + 1 = Len(frames)
        BY <1>2, <2>4
      <4>. QED
        BY <1>1, <1>2, <4>1
    <3>3. PICK h, x, a : h = frames[i] /\ x = ctxs[h.ctx] /\ h.kind = "hook" /\ a = Above(i)
      BY <1>10, <3>1
    <3>4. h.ctx \in DOMAIN ctxs /\ h.ctx < Top.ctx
      BY <1>1, <1>2, <3>1, <3>3, BelowTop
    <3>5. h.ctx \in 1..Len(ctxs) - 1
      BY <1>1, <1>2, <3>4
    <3>6. Accounted(h, x, a)
      BY <3>1, <3>3 DEF CountsInv
    <3>7. a = frames'[i + 1].kind
      BY <3>1, <3>2, <3>3 DEF Above
    <3>. QED
      BY <1>1, <3>1, <3>3, <3>5, <3>6, <3>7
  <2>. QED
    BY <2>1, <2>2, <2>3, <2>4
<1>. QED
  BY <1>10, CountedAfter

\* A hookfunc that returns has its account settled, and hands it to a call that recalled.
LEMMA SettledAtReturn ==
    ASSUME FramesInv, CountsInv, HookfuncReturns
    PROVE  Top.kind = "hook" /\ Top.pc = "post" /\ Settled(Top) /\ Current.state \in Posting \union {"Dead"}
<1>1. frames # <<>> /\ Top.pc = "post"
  BY DEF HookfuncReturns
<1>2. /\ Len(frames) \in DOMAIN frames /\ Top = frames[Len(frames)] /\ Top.kind = "hook"
      /\ Current = ctxs[Top.ctx]
  BY <1>1, CurrentContext DEF LoopPcs
<1>3. PICK t, c : t = Top /\ c = Current
  OBVIOUS
<1>4. Accounted(t, c, "none")
  BY <1>2, <1>3 DEF CountsInv, Above
<1>5. t.loop = "post" /\ Counts(t, c) /\ Stands(t, c)
  BY <1>1, <1>3, <1>4 DEF Accounted, Stands
<1>6. Settled(t) /\ c.state \in Posting \union {"Dead"}
  BY <1>5 DEF Counts, Stands
<1>. QED
  BY <1>1, <1>2, <1>3, <1>6

\* A call that returns keeps the accounts below, but for the one that waits for it.
LEMMA ReturnCounts ==
    ASSUME FramesInv, FramesInv', CountsInv, HookfuncReturns \/ CalleeReturns
    PROVE  CountsInv'
<1>1. /\ frames # <<>> /\ Len(frames') = Len(frames) - 1
      /\ \/ /\ Len(ctxs') = Len(ctxs) - 1
            /\ \A n \in 1..Len(ctxs) - 1 : ctxs'[n] = ctxs[n]
            /\ \A i \in 1..Len(frames) - 1 :
                 /\ Unthunked(frames[i], frames'[i], Len(ctxs)) /\ HandsDown(i)
                 /\ frames[i].kind = "hook" => frames[i].ctx < Len(ctxs)
         \/ /\ Top.kind \in {"shcall", "plain"} /\ ctxs' = ctxs
            /\ \A i \in 1..Len(frames) - 1 : frames'[i] = frames[i]
  BY ReturnEffect
<1>2. /\ frames # <<>> <=> Len(frames) # 0
      /\ Len(frames) \in Nat /\ DOMAIN frames = 1..Len(frames) /\ Len(ctxs) \in Nat /\ DOMAIN ctxs = 1..Len(ctxs)
      /\ frames # <<>> => Top = frames[Len(frames)]
  BY Stacks DEF FramesInv
<1>3. DOMAIN frames' = 1..Len(frames')
  BY DEF FramesInv, StackType
<1>4. ASSUME NEW i \in DOMAIN frames', frames'[i].kind = "hook"
      PROVE  \E g, d, a : g = frames'[i] /\ d = ctxs'[g.ctx] /\ Accounted(g, d, a)
                          /\ (i = Len(frames') => a = "none") /\ (i # Len(frames') => a = frames'[i + 1].kind)
  <2>1. i \in 1..Len(frames) - 1 /\ i \in DOMAIN frames
    <3>1. i \in 1..Len(frames) - 1
      BY <1>1, <1>3
    <3>. QED
      BY <1>2, <3>1
  <2>2. PICK f, g, c, a : f = frames[i] /\ g = frames'[i] /\ c = ctxs[f.ctx] /\ a = frames[i + 1].kind
    OBVIOUS
  <2>3. f.kind = "hook" /\ g.ctx = f.ctx /\ SameLoop(f, g)
    <3>1. Unthunked(frames[i], frames'[i], Len(ctxs)) \/ frames'[i] = frames[i]
      BY <1>1, <2>1
    <3>2. Unthunked(f, g, Len(ctxs)) \/ g = f
      BY <2>2, <3>1
    <3>. QED
      BY <1>4, <2>2, <3>2 DEF Unthunked, SameCall, SameLoop
  <2>4. i # Len(frames)
    BY <1>2, <2>1
  <2>5. Accounted(f, c, a)
    BY <2>1, <2>2, <2>3, <2>4 DEF CountsInv, Above
  <2>6. ctxs'[g.ctx] = c
    <3>1. f.ctx \in 1..Len(ctxs)
      BY <2>1, <2>2, <2>3 DEF FramesInv, Running
    <3>2. CASE ctxs' = ctxs
      BY <2>2, <2>3, <3>2
    <3>3. CASE /\ \A n \in 1..Len(ctxs) - 1 : ctxs'[n] = ctxs[n]
               /\ frames[i].kind = "hook" => frames[i].ctx < Len(ctxs)
      <4>1. f.ctx \in 1..Len(ctxs) - 1
        BY <1>2, <2>2, <2>3, <3>1, <3>3
      <4>. QED
        BY <2>2, <2>3, <3>3, <4>1
    <3>. QED
      BY <1>1, <2>1, <3>2, <3>3
  <2>7. CASE Top.kind = "hook" /\ i = Len(frames) - 1 /\ f.pc = "recall"
    <3>1. HookfuncReturns
      BY <1>2, <2>7 DEF CalleeReturns
    <3>2. PICK t : t = Top /\ Settled(t)
      BY <3>1, SettledAtReturn
    <3>3. SameCount(t, g)
      BY <1>1, <2>1, <2>2, <2>7, <3>2 DEF HandsDown
    <3>4. Settled(g)
      BY <3>2, <3>3 DEF Settled, SameCount
    <3>5. Accounted(g, c, "none")
      <4>1. Stands(g, c)
        BY <2>3, <2>5 DEF Accounted, Stands, SameLoop
      <4>. QED
        BY <2>3, <2>7, <3>4, <4>1 DEF Accounted, SameLoop
    <3>6. i = Len(frames')
      BY <1>1, <2>7
    <3>. QED
      BY <2>2, <2>6, <3>5, <3>6
  <2>8. CASE ~(Top.kind = "hook" /\ i = Len(frames) - 1 /\ f.pc = "recall")
    <3>1. SameCount(f, g)
      <4>1. CASE HandsDown(i)
        BY <2>2, <2>8, <4>1 DEF HandsDown
      <4>2. CASE frames'[i] = frames[i]
        BY <2>2, <4>2 DEF SameCount
      <4>. QED
        BY <1>1, <2>1, <4>1, <4>2
    <3>2. Accounted(g, c, a)
      BY <2>3, <2>5, <3>1, CountKept
    <3>3. CASE i = Len(frames')
      <4>1. i = Len(frames) - 1 /\ a = Top.kind
        <5>1. i = Len(frames) - 1 /\ i + 1 = Len(frames)
          <6>1. \A k \in Nat : \A j : j = k - 1 => j + 1 = k
            OBVIOUS
          <6>2. i = Len(frames) - 1
            BY <1>1, <3>3
          <6>. QED
            BY <1>2, <6>1, <6>2
        <5>. QED
          BY <1>1, <1>2, <2>2, <5>1
      <4>2. g.pc # "recall"
        <5>1. SUFFICES ASSUME g.pc = "recall"
                       PROVE  FALSE
          OBVIOUS
        <5>2. f.pc = "recall" /\ Top.kind # "hook"
          BY <2>3, <2>8, <4>1, <5>1 DEF SameLoop
        <5>3. a \notin {"hook", "none"}
          <6>1. Top \in FrameType
            <7>1. Len(frames) \in DOMAIN frames /\ frames \in Seq(FrameType)
              BY <1>1, Stacks DEF FramesInv
            <7>2. frames[Len(frames)] \in FrameType
              BY <7>1
            <7>. QED
              BY <1>1, <1>2, <7>2
          <6>. QED
            BY <4>1, <5>2, <6>1 DEF FrameType
        <5>. QED
          BY <3>2, <5>1, <5>3 DEF Accounted
      <4>3. Accounted(g, c, "none")
        BY <3>2, <4>2 DEF Accounted
      <4>. QED
        BY <2>2, <2>6, <3>3, <4>3
    <3>4. CASE i # Len(frames')
      <4>1. i + 1 \in 1..Len(frames) - 1
        <5>1. \A k \in Nat : \A j \in 1..k - 1 : j # k - 1 => j + 1 \in 1..k - 1
          OBVIOUS
        <5>2. i # Len(frames) - 1
          BY <1>1, <3>4
        <5>. QED
          BY <1>2, <2>1, <5>1, <5>2
      <4>2. Unthunked(frames[i + 1], frames'[i + 1], Len(ctxs)) \/ frames'[i + 1] = frames[i + 1]
        BY <1>1, <4>1
      <4>3. frames'[i + 1].kind = a
        BY <2>2, <4>2 DEF Unthunked, SameCall
      <4>. QED
        BY <2>2, <2>6, <3>2, <3>4, <4>3
    <3>. QED
      BY <3>3, <3>4
  <2>. QED
    BY <2>7, <2>8
<1>. QED
  BY <1>4, CountedAfter

\* Hooks and managers that go leave the accounts alone.
LEMMA RetireCounts ==
    ASSUME RegistryInv, FramesInv, CountsInv, NEW R \in SUBSET Live, NEW M \in SUBSET HookMans, Retire(R, M)
    PROVE  CountsInv'
<1>1. /\ StackType' /\ Len(frames') = Len(frames)
      /\ \A n \in DOMAIN ctxs :
           ctxs'[n].state = (IF ctxs[n].vfn \in Emptied(R) THEN "Dead" ELSE ctxs[n].state)
      /\ \A i \in DOMAIN frames :
           /\ SameCall(frames[i], frames'[i])
           /\ SameLoop(frames[i], frames'[i]) /\ SameCount(frames[i], frames'[i])
  BY RetireStacks DEF FramesInv
<1>2. /\ frames \in Seq(FrameType) /\ DOMAIN frames = 1..Len(frames) /\ Len(frames) \in Nat
      /\ ctxs \in Seq(Context) /\ DOMAIN ctxs = 1..Len(ctxs) /\ DOMAIN frames' = DOMAIN frames
  BY <1>1, Stacks DEF FramesInv, StackType
<1>3. ctxs' = [n \in DOMAIN ctxs |-> Orphaned(Notified(ctxs[n], R, Emptied(R), Left(R)), Unserved(R, M))]
  BY RetireEffect
<1>4. ASSUME NEW i \in DOMAIN frames', frames'[i].kind = "hook"
      PROVE  \E h, x, a : h = frames'[i] /\ x = ctxs'[h.ctx] /\ Accounted(h, x, a)
                          /\ (i = Len(frames') => a = "none") /\ (i # Len(frames') => a = frames'[i + 1].kind)
  <2>1. PICK f, g, a : f = frames[i] /\ g = frames'[i] /\ a = Above(i) /\ i \in DOMAIN frames
    BY <1>2
  <2>2. f.kind = "hook" /\ g.ctx = f.ctx /\ SameLoop(f, g) /\ SameCount(f, g)
    BY <1>1, <1>4, <2>1 DEF SameCall
  <2>3. f.ctx \in DOMAIN ctxs
    BY <1>2, <2>1, <2>2 DEF FramesInv, Running
  <2>4. PICK c, d : c \in Context /\ c = ctxs[f.ctx] /\ d = ctxs'[f.ctx]
    BY <1>2, <2>3
  <2>5. d.callOrig = c.callOrig
    <3>1. d = Orphaned(Notified(c, R, Emptied(R), Left(R)), Unserved(R, M))
      BY <1>3, <2>3, <2>4
    <3>. QED
      BY <2>4, <3>1, RetiredContext
  <2>6. d.state \in {c.state, "Dead"}
    BY <1>1, <2>3, <2>4
  <2>7. Accounted(f, c, a)
    BY <2>1, <2>2, <2>4 DEF CountsInv
  <2>8. Accounted(g, d, a)
    BY <2>2, <2>5, <2>6, <2>7, CountKept
  <2>9. i = Len(frames') => a = "none"
    BY <1>1, <2>1 DEF Above
  <2>10. ASSUME i # Len(frames')
         PROVE  a = frames'[i + 1].kind
    <3>1. i + 1 \in DOMAIN frames
      <4>1. \A k \in Nat : \A j \in 1..k : j # k => j + 1 \in 1..k
        OBVIOUS
      <4>. QED
        BY <1>1, <1>2, <2>1, <2>10, <4>1
    <3>2. frames'[i + 1].kind = frames[i + 1].kind
      BY <1>1, <3>1 DEF SameCall
    <3>. QED
      BY <1>1, <2>1, <2>10, <3>2 DEF Above
  <2>. QED
    BY <2>1, <2>2, <2>4, <2>8, <2>9, <2>10
<1>. QED
  BY <1>4, CountedAfter

\* So does a pause.
LEMMA PauseCounts ==
    ASSUME FramesInv, CountsInv, NEW h \in 1..MaxIds, PauseHook(h)
    PROVE  CountsInv'
<1>1. /\ Len(frames') = Len(frames) /\ StackType'
      /\ \A i \in DOMAIN frames : /\ SameCall(frames[i], frames'[i])
                                  /\ SameLoop(frames[i], frames'[i]) /\ SameCount(frames[i], frames'[i])
      /\ ctxs' = ctxs
  BY PauseStacks DEF FramesInv
<1>2. /\ frames \in Seq(FrameType) /\ DOMAIN frames = 1..Len(frames) /\ Len(frames) \in Nat
      /\ DOMAIN frames' = DOMAIN frames
  BY <1>1, Stacks DEF FramesInv, StackType
<1>3. ASSUME NEW i \in DOMAIN frames', frames'[i].kind = "hook"
      PROVE  \E g, x, a : g = frames'[i] /\ x = ctxs'[g.ctx] /\ Accounted(g, x, a)
                          /\ (i = Len(frames') => a = "none") /\ (i # Len(frames') => a = frames'[i + 1].kind)
  <2>1. PICK f, g, a : f = frames[i] /\ g = frames'[i] /\ a = Above(i) /\ i \in DOMAIN frames
    BY <1>2
  <2>2. f.kind = "hook" /\ g.ctx = f.ctx /\ SameLoop(f, g) /\ SameCount(f, g)
    BY <1>1, <1>3, <2>1 DEF SameCall
  <2>3. PICK c : c = ctxs[f.ctx]
    OBVIOUS
  <2>4. Accounted(f, c, a)
    BY <2>1, <2>2, <2>3 DEF CountsInv
  <2>5. Accounted(g, c, a)
    BY <2>2, <2>4, CountKept
  <2>6. i = Len(frames') => a = "none"
    BY <1>1, <2>1 DEF Above
  <2>7. ASSUME i # Len(frames')
        PROVE  a = frames'[i + 1].kind
    <3>1. i + 1 \in DOMAIN frames
      <4>1. \A k \in Nat : \A j \in 1..k : j # k => j + 1 \in 1..k
        OBVIOUS
      <4>. QED
        BY <1>1, <1>2, <2>1, <2>7, <4>1
    <3>2. frames'[i + 1].kind = frames[i + 1].kind
      BY <1>1, <3>1 DEF SameCall
    <3>. QED
      BY <1>1, <2>1, <2>7, <3>2 DEF Above
  <2>. QED
    BY <1>1, <2>1, <2>2, <2>3, <2>5, <2>6, <2>7
<1>. QED
  BY <1>3, CountedAfter

\* The account is inductive too.
LEMMA CountsInductive ==
    /\ Init => CountsInv
    /\ (TimelyRecalls /\ RegistryInv /\ FramesInv /\ NestInv /\ FramesInv')
           => (WholeInv /\ CountsInv /\ [Next]_vars => CountsInv')
<1>1. Init => CountsInv
  BY DEF Init, CountsInv
<1>2. ASSUME TimelyRecalls, RegistryInv, FramesInv, NestInv, FramesInv', WholeInv, CountsInv, [Next]_vars
      PROVE  CountsInv'
  <2>1. CASE UNCHANGED <<ctxs, frames>>
    BY <1>2, <2>1 DEF CountsInv, Above
  <2>2. CASE UNCHANGED vars
    BY <2>1, <2>2 DEF vars
  <2>3. CASE \E R \in SUBSET Live, M \in SUBSET HookMans : Retire(R, M)
    BY <1>2, <2>3, RetireCounts
  <2>4. CASE \E R \in SUBSET Live : Retire(R, {})
    <3>1. {} \in SUBSET HookMans
      OBVIOUS
    <3>. QED
      BY <2>3, <2>4, <3>1
  <2>5. CASE \E sup \in BOOLEAN : LoopStepOf(sup)
    BY <1>2, <2>5, LoopCounts
  <2>6. CASE HookfuncReturns \/ CalleeReturns
    BY <1>2, <2>6, ReturnCounts
  <2>7. CASE \E v \in VfnPtrs, obj \in Objects : Call(v, obj) \/ ShCall(v, obj)
    BY <1>2, <2>7, CallCounts, ShCallCounts
  <2>8. CASE \E sup \in BOOLEAN : Recall(sup)
    BY <1>2, <2>8, RecallCounts
  <2>9. CASE \E h \in 1..MaxIds : PauseHook(h)
    BY <1>2, <2>9, PauseCounts
  <2>10. CASE \E m \in HookMans, handler \in Handlers, l \in Sites : AddHook(m, handler, l)
    BY <2>1, <2>10 DEF AddHook
  <2>11. CASE Next
    BY <1>2, <2>1, <2>3, <2>4, <2>5, <2>6, <2>7, <2>8, <2>9, <2>10, <2>11, StackSteps, Retiring
  <2>. QED
    BY <1>2, <2>2, <2>11
<1>. QED
  BY <1>1, <1>2

\* Which step calls a handler and which ends a hooked call.
LEMMA OthersKeepCalls ==
    ASSUME RegistryInv, FramesInv, NestInv, TimelyRecalls, frames # <<>>, [Next]_vars,
           ~HookfuncReturns, \A sup \in BOOLEAN : ~LoopStepOf(sup)
    PROVE  \/ Top.kind # "hook"
           \/ Top.pc \notin {"pre", "post"} /\ Len(frames') >= Len(frames)
           \/ Len(frames') = Len(frames) /\ Last(frames').pc = Top.pc
<1>1. /\ frames \in Seq(FrameType) /\ Len(frames) \in Nat /\ DOMAIN frames = 1..Len(frames)
      /\ Len(frames) \in DOMAIN frames /\ Top = frames[Len(frames)]
  BY Stacks DEF FramesInv
<1>2. ASSUME Len(frames') = Len(frames), SameLoop(frames[Len(frames)], frames'[Len(frames)])
      PROVE  Len(frames') = Len(frames) /\ Last(frames').pc = Top.pc
  BY <1>1, <1>2 DEF SameLoop, Last
<1>3. CASE UNCHANGED frames
  BY <1>3 DEF Top
<1>4. CASE \E R \in SUBSET Live, M \in SUBSET HookMans : Retire(R, M)
  <2>1. Len(frames') = Len(frames) /\ SameLoop(frames[Len(frames)], frames'[Len(frames)])
    BY <1>1, <1>4, RetireStacks DEF FramesInv
  <2>. QED
    BY <1>2, <2>1
<1>5. CASE \E h \in 1..MaxIds : PauseHook(h)
  <2>1. Len(frames') = Len(frames) /\ SameLoop(frames[Len(frames)], frames'[Len(frames)])
    BY <1>1, <1>5, PauseStacks
  <2>. QED
    BY <1>2, <2>1
<1>6. CASE \E R \in SUBSET Live : Retire(R, {})
  <2>1. {} \in SUBSET HookMans
    OBVIOUS
  <2>. QED
    BY <1>4, <1>6, <2>1
<1>7. CASE \E v \in VfnPtrs, obj \in Objects : Call(v, obj)
  <2>1. PICK v \in VfnPtrs, obj \in Objects : Call(v, obj)
    BY <1>7
  <2>2. \E f \in FrameType : frames' = Append(frames, f)
    BY <2>1, CallEffect
  <2>3. Len(frames') = Len(frames) + 1
    BY <1>1, <2>2
  <2>4. May("call")
    BY <2>1 DEF Call
  <2>5. Top.pc \notin {"pre", "post"}
    BY <2>4 DEF May
  <2>6. Len(frames') >= Len(frames)
    BY <1>1, <2>3
  <2>. QED
    BY <2>5, <2>6
<1>8. CASE \E v \in VfnPtrs, obj \in Objects : ShCall(v, obj)
  <2>1. PICK v \in VfnPtrs, obj \in Objects : ShCall(v, obj)
    BY <1>8
  <2>2. \E f, g \in FrameType : frames' = Append(frames, g) \/ frames' = Append(Append(frames, g), f)
    BY <2>1, ShCallEffect
  <2>3. Len(frames') >= Len(frames)
    BY <1>1, <2>2
  <2>4. Top.pc \notin {"pre", "post"}
    <3>1. May("shcall")
      BY <2>1 DEF ShCall
    <3>. QED
      BY <3>1 DEF May
  <2>. QED
    BY <2>3, <2>4
<1>9. CASE \E sup \in BOOLEAN : Recall(sup)
  <2>1. Top.pc = "handler" /\ \E f, g \in FrameType, d \in Context, new \in Seq(Context) : Recalled(f, g, d, new)
    BY <1>9, RecallEffect
  <2>2. \E f, g \in FrameType : frames' = Append(WithTop(f), g)
    <3>1. PICK f, g \in FrameType : \E d \in Context, new \in Seq(Context) : Recalled(f, g, d, new)
      BY <2>1, Zenon
    <3>2. PICK d \in Context, new \in Seq(Context) : Recalled(f, g, d, new)
      BY <3>1, Zenon
    <3>3. frames' = Append(WithTop(f), g)
      BY <3>2, Zenon DEF Recalled
    <3>. QED
      BY <3>3, Zenon
  <2>3. Len(frames') >= Len(frames)
    BY <1>1, <2>2 DEF WithTop
  <2>. QED
    BY <2>1, <2>3
<1>10. CASE \E m \in HookMans, handler \in Handlers, l \in Sites : AddHook(m, handler, l)
  BY <1>3, <1>10 DEF AddHook
<1>11. CASE CalleeReturns
  BY <1>11 DEF CalleeReturns
<1>12. CASE Next
  BY <1>3, <1>4, <1>5, <1>6, <1>7, <1>8, <1>9, <1>10, <1>11, <1>12, StackSteps, Retiring
<1>. QED
  BY <1>3, <1>12 DEF vars

\* All of it holds in every state.
LEMMA LoopsAlways ==
    TimelyRecalls => (Spec => [](RegistryInv /\ FramesInv /\ NestInv /\ WholeInv /\ TrackInv /\ CountsInv))
<1>. SUFFICES ASSUME TimelyRecalls
              PROVE  Spec => [](RegistryInv /\ FramesInv /\ NestInv /\ WholeInv /\ TrackInv /\ CountsInv)
  OBVIOUS
<1>1. Init => RegistryInv /\ FramesInv /\ NestInv /\ WholeInv /\ TrackInv /\ CountsInv
  BY RegistryInductive, FramesInductive, NestInductive, TrackInductive, CountsInductive
<1>2. RegistryInv /\ FramesInv /\ NestInv /\ WholeInv /\ TrackInv /\ CountsInv /\ [Next]_vars
        => (RegistryInv /\ FramesInv /\ NestInv /\ WholeInv /\ TrackInv /\ CountsInv)'
  <2>1. RegistryInv /\ FramesInv /\ NestInv /\ [Next]_vars => RegistryInv' /\ FramesInv' /\ NestInv'
    BY RegistryInductive, FramesInductive, NestInductive
  <2>. QED
    BY <2>1, TrackInductive, CountsInductive
<1>. QED
  BY <1>1, <1>2, PTL DEF Spec

\* A hookfunc that returns has nothing left ahead of it.
LEMMA NothingDue ==
    ASSUME RegistryInv, FramesInv, WholeInv, TrackInv, CountsInv, HookfuncReturns
    PROVE  Top.due = {}
<1>1. frames # <<>> /\ Top.pc = "post" /\ ~UsesFreed(Current) /\ GetNext(Current) = 0
  BY DEF HookfuncReturns
<1>2. /\ Len(frames) \in DOMAIN frames /\ Top = frames[Len(frames)] /\ Top \in FrameType
      /\ Top.kind = "hook" /\ Top.ctx \in DOMAIN ctxs /\ Current = ctxs[Top.ctx] /\ Current \in Context
  BY <1>1, CurrentContext DEF LoopPcs
<1>3. PICK t, c, d, n : t = Top /\ c = Current /\ d = Advanced(c) /\ n = GetNext(c)
  OBVIOUS
<1>4. t \in FrameType /\ c \in Context /\ OnTrack(t, c) /\ Whole(c, hooks) /\ ~UsesFreed(c) /\ n = 0
  BY <1>1, <1>2, <1>3 DEF TrackInv, WholeInv
<1>5. c.state \in Posting \union {"Dead"}
  BY <1>3, SettledAtReturn
<1>6. OnTrack(t, d)
  BY <1>3, <1>4, AdvancedTrack
<1>7. d.state = "Dead"
  <2>1. c.state = "Born" => c.iter = AtStart
    BY <1>5 DEF Posting
  <2>2. c.state \notin {"Ignore", "Stray"}
    BY <1>5 DEF Posting
  <2>. QED
    BY <1>3, <1>4, <1>5, <2>1, <2>2, AdvancedState
<1>8. Ahead(d, hooks) = {}
  BY <1>7 DEF Ahead, Rest, Open, Ranks, Stage, HookStates, RecallStates
<1>. QED
  BY <1>3, <1>6, <1>8 DEF OnTrack

\* As long as a handler only recalls while its function is hooked, no hook that stays
\* registered and unpaused during a call is skipped by it, whatever the handlers add and
\* remove, and however often they recall (HookRemoved's step back, DoRecall's iterator).
THEOREM NoneIsSkipped == TimelyRecalls => (Spec => NoneSkipped)
<1>. SUFFICES ASSUME TimelyRecalls
              PROVE  Spec => NoneSkipped
  OBVIOUS
<1>1. RegistryInv /\ FramesInv /\ NestInv /\ WholeInv /\ TrackInv /\ CountsInv /\ [Next]_vars
        => [Returning => Top.due = {}]_vars
  <2>. SUFFICES ASSUME RegistryInv, FramesInv, NestInv, WholeInv, TrackInv, CountsInv, [Next]_vars
                PROVE  [Returning => Top.due = {}]_vars
    OBVIOUS
  <2>1. CASE HookfuncReturns
    BY <2>1, NothingDue
  <2>2. CASE \E sup \in BOOLEAN : LoopStepOf(sup)
    <3>1. frames # <<>> /\ \E f \in FrameType : frames' = WithTop(f)
      BY <2>2, LoopStep DEF LoopStepOf
    <3>2. ~Returning
      BY <3>1, Stacks DEF FramesInv, WithTop, Returning
    <3>. QED
      BY <3>2
  <2>3. CASE ~HookfuncReturns /\ \A sup \in BOOLEAN : ~LoopStepOf(sup)
    <3>1. ~Returning
      <4>1. SUFFICES ASSUME Returning
                     PROVE  FALSE
        OBVIOUS
      <4>2. Len(frames') >= Len(frames) \/ Len(frames') = Len(frames)
        BY <2>3, <4>1, OthersKeepCalls DEF Returning
      <4>3. Len(frames) \in Nat /\ Len(frames') < Len(frames)
        BY <4>1, Stacks DEF FramesInv, Returning
      <4>. QED
        BY <4>2, <4>3
    <3>. QED
      BY <3>1
  <2>. QED
    BY <2>1, <2>2, <2>3
<1>. QED
  BY <1>1, LoopsAlways, PTL DEF Spec, NoneSkipped

\* Which handler a loop calls.
LEMMA CallsInOrder ==
    ASSUME RegistryInv, FramesInv, WholeInv, TrackInv, NextHandler
    PROVE  /\ Called \in Live \ (paused \union Top.done)
           /\ \A g \in Top.due : g = Called \/ ~Precedes(g, Called)
<1>1. frames # <<>> /\ Top.pc \in {"pre", "post"} /\ ~UsesFreed(Current) /\ GetNext(Current) # 0
  BY DEF NextHandler
<1>2. /\ Len(frames) \in DOMAIN frames /\ Top = frames[Len(frames)] /\ Top \in FrameType
      /\ Top.kind = "hook" /\ Top.ctx \in DOMAIN ctxs /\ Current = ctxs[Top.ctx] /\ Current \in Context
      /\ frames \in Seq(FrameType) /\ Len(frames) \in Nat
  BY <1>1, CurrentContext, Stacks DEF LoopPcs, FramesInv
<1>3. PICK t, c, d, n : t = Top /\ c = Current /\ d = Advanced(c) /\ n = GetNext(c)
  OBVIOUS
<1>4. t \in FrameType /\ c \in Context /\ OnTrack(t, c) /\ Whole(c, hooks) /\ ~UsesFreed(c) /\ n # 0
  BY <1>1, <1>2, <1>3 DEF TrackInv, WholeInv
<1>5. /\ n \in Live \ (paused \union t.done)
      /\ \A g \in t.due : g = n \/ ~Precedes(g, n)
  BY <1>3, <1>4, AdvancedTrack
<1>6. Called = n
  <2>1. PICK f : f = [Top EXCEPT !.pc = "handler", !.hook = n, !.plug = entries[n].plug,
                                 !.due = @ \ {n}, !.done = @ \union {n}]
    OBVIOUS
  <2>2. f.hook = n
    BY <1>2, <2>1 DEF FrameType
  <2>3. frames' = WithTop(f)
    BY <1>3, <2>1 DEF NextHandler
  <2>4. Last(frames') = f
    BY <1>2, <2>3 DEF WithTop, Last
  <2>. QED
    BY <2>2, <2>4 DEF Called
<1>. QED
  BY <1>3, <1>5, <1>6

\* Under the same condition a handler runs at most once in a call, registered and not
\* paused, in the documented order, and the original runs once unless a pre handler
\* superceded: across recalls and whatever the handlers do to the lists.
THEOREM HandlersOnceInOrder == TimelyRecalls => (Spec => OnceInOrder)
<1>. SUFFICES ASSUME TimelyRecalls
              PROVE  Spec => OnceInOrder
  OBVIOUS
<1>. DEFINE Ordered == /\ Called \in Live \ (paused \union Top.done)
                       /\ \A g \in Top.due : g = Called \/ ~Precedes(g, Called)
            Counted == Top.ran = (IF Top.asked THEN 0 ELSE 1)
<1>1. RegistryInv /\ FramesInv /\ NestInv /\ WholeInv /\ TrackInv /\ CountsInv /\ [Next]_vars
        => [(Calls => Ordered) /\ (Returning => Counted)]_vars
  <2>. SUFFICES ASSUME RegistryInv, FramesInv, NestInv, WholeInv, TrackInv, CountsInv, [Next]_vars
                PROVE  [(Calls => Ordered) /\ (Returning => Counted)]_vars
    OBVIOUS
  <2>1. frames \in Seq(FrameType) /\ Len(frames) \in Nat
    BY Stacks DEF FramesInv
  <2>2. CASE HookfuncReturns
    <3>1. Counted
      BY <2>2, SettledAtReturn DEF Settled
    <3>2. ~Calls
      BY <2>1, <2>2, ReturnEffect DEF Calls
    <3>. QED
      BY <3>1, <3>2
  <2>3. CASE NextHandler
    <3>1. Ordered
      BY <2>3, CallsInOrder
    <3>2. Len(frames') = Len(frames)
      <4>1. frames # <<>> /\ \E f \in FrameType : frames' = WithTop(f)
        BY <2>3, LoopStep
      <4>. QED
        BY <2>1, <4>1 DEF WithTop
    <3>. QED
      BY <2>1, <3>1, <3>2 DEF Returning
  <2>4. ASSUME NEW sup \in BOOLEAN, PreLoopEnds \/ OrigReturns \/ RecallReturns \/ HandlerReturns(sup)
        PROVE  ~Calls /\ ~Returning
    <3>1. PICK f \in FrameType : frames' = WithTop(f) /\ LoopMove(f, sup)
      BY <2>4, LoopStep
    <3>2. frames # <<>> /\ Top.pc \in LoopPcs
      BY <2>4, LoopStep
    <3>3. Len(frames') = Len(frames) /\ Last(frames') = f
      BY <2>1, <3>1, <3>2 DEF WithTop, Last
    <3>4. CASE PreLoopEnds
      <4>1. Top.pc = "pre" /\ ~OrigReturns /\ ~RecallReturns /\ ~HandlerReturns(sup) /\ ~NextHandler
        BY <3>4 DEF PreLoopEnds, OrigReturns, RecallReturns, HandlerReturns, NextHandler
      <4>2. f.pc # "handler"
        BY <3>1, <4>1 DEF LoopMove
      <4>. QED
        BY <2>1, <3>3, <4>2 DEF Calls, Returning
    <3>5. CASE OrigReturns \/ RecallReturns \/ HandlerReturns(sup)
      <4>1. Top.pc \notin {"pre", "post"}
        BY <3>5 DEF OrigReturns, RecallReturns, HandlerReturns
      <4>. QED
        BY <2>1, <3>3, <4>1 DEF Calls, Returning
    <3>. QED
      BY <2>4, <3>4, <3>5
  <2>5. CASE ~HookfuncReturns /\ \A sup \in BOOLEAN : ~LoopStepOf(sup)
    <3>1. ~Calls
      <4>1. SUFFICES ASSUME Calls
                     PROVE  FALSE
        OBVIOUS
      <4>2. frames # <<>> /\ Top.pc \in {"pre", "post"} /\ Last(frames').pc = "handler"
        BY <4>1 DEF Calls
      <4>3. Top.kind = "hook"
        BY <4>2, CurrentContext DEF LoopPcs
      <4>. QED
        BY <2>5, <4>2, <4>3, OthersKeepCalls
    <3>2. ~Returning
      <4>1. SUFFICES ASSUME Returning
                     PROVE  FALSE
        OBVIOUS
      <4>2. Len(frames') >= Len(frames) \/ Len(frames') = Len(frames)
        BY <2>5, <4>1, OthersKeepCalls DEF Returning
      <4>. QED
        BY <2>1, <4>1, <4>2 DEF Returning
    <3>. QED
      BY <3>1, <3>2
  <2>. QED
    BY <2>2, <2>3, <2>4, <2>5 DEF LoopStepOf
<1>. QED
  BY <1>1, LoopsAlways, PTL DEF Spec, OnceInOrder
====
