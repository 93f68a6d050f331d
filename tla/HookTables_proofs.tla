--------------------------- MODULE HookTables_proofs ---------------------------
(***************************************************************************)
(* What holds of SourceHook's two tables, each for any constants.          *)
(*                                                                         *)
(* The hook ids, for any number of vtable entries, plugins and ids: the    *)
(* vector is well formed, it implements the abstract table, and it is      *)
(* never longer than the hooks that were live at once.                     *)
(*                                                                         *)
(* The registry of hook managers, for any number of entries, managers and  *)
(* versions: a patched entry always runs the registered hookfunc of the    *)
(* one manager that serves it, one of the highest version offered.         *)
(***************************************************************************)
EXTENDS HookIDPeak, HookManagers, ListLemmas

-----------------------------------------------------------------------------
(* The operators the id manager is built from *)

\* New looks for the first free entry: it finds one, or there is none and the
\* vector grows by one.
LEMMA NextIdIsFree ==
    ASSUME NEW es, es \in Seq(Info \union {FreeEntry})
    PROVE  /\ NextId(es) \in 1..Len(es) + 1
           /\ NextId(es) \notin LiveIdsOf(es)
           /\ NextId(es) = Len(es) + 1 => LiveIdsOf(es) = DOMAIN es
<1>1. CASE FreeSlots(es) = {}
  <2>1. NextId(es) = Len(es) + 1
    BY <1>1 DEF NextId
  <2>2. LiveIdsOf(es) = DOMAIN es
    BY <1>1 DEF FreeSlots, LiveIdsOf
  <2>3. DOMAIN es = 1..Len(es) /\ Len(es) \in Nat
    OBVIOUS
  <2>. QED
    BY <2>1, <2>2, <2>3
<1>2. CASE FreeSlots(es) # {}
  <2>1. FreeSlots(es) \subseteq Nat /\ FreeSlots(es) \subseteq 1..Len(es)
    BY DEF FreeSlots
  <2>2. \E i \in FreeSlots(es) : \A j \in FreeSlots(es) : i <= j
    BY <1>2, <2>1, LeastNatural
  <2>3. NextId(es) \in FreeSlots(es)
    BY <1>2, <2>2 DEF NextId
  <2>. QED
    BY <2>1, <2>3 DEF FreeSlots
<1>. QED
  BY <1>1, <1>2

\* A new hook's entry is written to the slot of its id, every other id keeps its
\* entry, and the vector grows only if no id was free.
LEMMA WithHookEntries ==
    ASSUME NEW es, es \in Seq(Info \union {FreeEntry}), NEW info \in Info
    PROVE  /\ WithHook(es, info) \in Seq(Info \union {FreeEntry})
           /\ Len(WithHook(es, info)) = (IF NextId(es) = Len(es) + 1 THEN Len(es) + 1 ELSE Len(es))
           /\ LiveIdsOf(WithHook(es, info)) = LiveIdsOf(es) \union {NextId(es)}
           /\ WithHook(es, info)[NextId(es)] = info
           /\ \A i \in LiveIdsOf(es) : WithHook(es, info)[i] = es[i]
<1>. DEFINE id == NextId(es)
            new == WithHook(es, info)
<1>1. id \in 1..Len(es) + 1 /\ id \notin LiveIdsOf(es)
  BY NextIdIsFree
<1>2. info # FreeEntry
  BY FreeEntryAssumption
<1>3. CASE id = Len(es) + 1
  <2>1. new = Append(es, info)
    BY <1>3 DEF WithHook
  <2>2. new \in Seq(Info \union {FreeEntry}) /\ Len(new) = Len(es) + 1
    BY <2>1
  <2>3. new[id] = info /\ \A i \in DOMAIN es : new[i] = es[i]
    BY <2>1, <1>3
  <2>4. LiveIdsOf(new) = LiveIdsOf(es) \union {id}
    BY <2>2, <2>3, <1>2, <1>3 DEF LiveIdsOf
  <2>. QED
    BY <1>3, <2>2, <2>3, <2>4 DEF LiveIdsOf
<1>4. CASE id # Len(es) + 1
  <2>1. new = [es EXCEPT ![id] = info]
    BY <1>4 DEF WithHook
  <2>2. id \in DOMAIN es
    BY <1>1, <1>4
  <2>3. new \in Seq(Info \union {FreeEntry}) /\ Len(new) = Len(es)
    BY <2>1, <2>2
  <2>4. new[id] = info /\ \A i \in DOMAIN es \ {id} : new[i] = es[i]
    BY <2>1, <2>2
  <2>5. LiveIdsOf(new) = LiveIdsOf(es) \union {id}
    BY <2>2, <2>3, <2>4, <1>2 DEF LiveIdsOf
  <2>. QED
    BY <1>1, <1>4, <2>3, <2>4, <2>5 DEF LiveIdsOf
<1>. QED
  BY <1>3, <1>4

\* A removal frees the ids it names, moves none and leaves the others alone.
LEMMA WithoutHooksEntries ==
    ASSUME NEW es, es \in Seq(Info \union {FreeEntry}), NEW S
    PROVE  /\ WithoutHooks(es, S) \in Seq(Info \union {FreeEntry})
           /\ Len(WithoutHooks(es, S)) = Len(es)
           /\ LiveIdsOf(WithoutHooks(es, S)) = LiveIdsOf(es) \ S
           /\ \A i \in LiveIdsOf(es) \ S : WithoutHooks(es, S)[i] = es[i]
<1>1. /\ DOMAIN WithoutHooks(es, S) = 1..Len(es)
      /\ \A i \in 1..Len(es) : WithoutHooks(es, S)[i] = IF i \in S THEN FreeEntry ELSE es[i]
  BY DEF WithoutHooks
<1>2. WithoutHooks(es, S) \in Seq(Info \union {FreeEntry}) /\ Len(WithoutHooks(es, S)) = Len(es)
  BY DEF WithoutHooks
<1>3. LiveIdsOf(WithoutHooks(es, S)) = LiveIdsOf(es) \ S
  BY <1>1, <1>2 DEF LiveIdsOf
<1>. QED
  BY <1>1, <1>2, <1>3 DEF LiveIdsOf

-----------------------------------------------------------------------------
(* Safety *)

\* Initially and after every operation the vector holds entries only and no more
\* than MaxIds of them.
LEMMA IdTypeInductive ==
    /\ IdInit => IdTypeOK
    /\ IdTypeOK /\ [IdNext]_idVars => IdTypeOK'
<1>1. IdInit => IdTypeOK
  BY MaxIdsAssumption DEF IdInit, IdTypeOK
<1>2. ASSUME IdTypeOK, [IdNext]_idVars
      PROVE  IdTypeOK'
  <2>. USE DEF IdTypeOK
  <2>1. ASSUME NEW info \in Info, New(info)
        PROVE  IdTypeOK'
    BY <1>2, <2>1, WithHookEntries, MaxIdsAssumption DEF New
  <2>2. ASSUME NEW id \in DOMAIN entries, Remove(id)
        PROVE  IdTypeOK'
    BY <1>2, <2>2, WithoutHooksEntries DEF Remove
  <2>3. ASSUME NEW v \in VfnPtrs, RemoveAll(v)
        PROVE  IdTypeOK'
    BY <1>2, <2>3, WithoutHooksEntries DEF RemoveAll
  <2>4. CASE UNCHANGED idVars
    BY <1>2, <2>4 DEF idVars
  <2>. QED
    BY <1>2, <2>1, <2>2, <2>3, <2>4 DEF IdNext
<1>. QED
  BY <1>1, <1>2

\* Every slot of m_Entries is a complete entry or marked free.
THEOREM IdTypeCorrect == IdSpec => []IdTypeOK
  BY IdTypeInductive, PTL DEF IdSpec

-----------------------------------------------------------------------------
(* Refinement *)


\* New acquires an id no live hook has.
LEMMA NewAcquires ==
    ASSUME IdTypeOK, NEW info \in Info, New(info)
    PROVE  Table!TableNext
<1>. DEFINE id == NextId(entries)
<1>1. id \in 1..MaxIds /\ id \notin LiveIds
  BY NextIdIsFree, MaxIdsAssumption DEF New, IdTypeOK, LiveIds
<1>2. LiveIds' = LiveIds \union {id} /\ entries'[id] = info /\ \A i \in LiveIds : entries'[i] = entries[i]
  BY WithHookEntries DEF New, IdTypeOK, LiveIds
<1>3. [i \in LiveIds' |-> entries'[i]]
        = [j \in DOMAIN [i \in LiveIds |-> entries[i]] \union {id} |->
             IF j = id THEN info ELSE [i \in LiveIds |-> entries[i]][j]]
  BY <1>1, <1>2
<1>4. Table!Acquire(id, info)
  BY <1>1, <1>3 DEF Table!Acquire
<1>. QED
  BY <1>1, <1>4 DEF Table!TableNext

\* Freeing the live ids S releases exactly them.
LEMMA FreeingReleases ==
    ASSUME IdTypeOK, NEW S \in SUBSET LiveIds, entries' = WithoutHooks(entries, S)
    PROVE  Table!Release(S)
<1>1. LiveIds' = LiveIds \ S /\ \A i \in LiveIds \ S : entries'[i] = entries[i]
  BY WithoutHooksEntries DEF IdTypeOK, LiveIds
<1>2. [i \in LiveIds' |-> entries'[i]]
        = [j \in DOMAIN [i \in LiveIds |-> entries[i]] \ S |-> [i \in LiveIds |-> entries[i]][j]]
  BY <1>1
<1>. QED
  BY <1>2 DEF Table!Release

\* The vector of entries implements the table of hooks.
THEOREM IdManagerIsATable == IdSpec => ImplementsTable
<1>1. IdInit => Table!TableInit
  BY DEF IdInit, Table!TableInit, LiveIds, LiveIdsOf
<1>2. ASSUME IdTypeOK, [IdNext]_idVars
      PROVE  [Table!TableNext]_[i \in LiveIds |-> entries[i]]
  <2>1. ASSUME NEW info \in Info, New(info)
        PROVE  Table!TableNext
    BY <1>2, <2>1, NewAcquires
  <2>2. ASSUME NEW id \in DOMAIN entries, Remove(id)
        PROVE  Table!TableNext
    <3>1. Table!Release({id})
      BY <1>2, <2>2, FreeingReleases DEF Remove
    <3>2. id \in 1..MaxIds
      BY <1>2, MaxIdsAssumption DEF IdTypeOK
    <3>. QED
      BY <3>1, <3>2 DEF Table!TableNext
  <2>3. ASSUME NEW v \in VfnPtrs, RemoveAll(v)
        PROVE  Table!TableNext
    <3>1. PICK S : S = HooksOnVfnPtr(entries, v)
      OBVIOUS
    <3>2. S \in SUBSET LiveIds /\ entries' = WithoutHooks(entries, S)
      BY <2>3, <3>1 DEF RemoveAll, HooksOnVfnPtr, LiveIds
    <3>3. Table!Release(S)
      BY <1>2, <3>2, FreeingReleases
    <3>4. S = {j \in DOMAIN [i \in LiveIds |-> entries[i]] : [i \in LiveIds |-> entries[i]][j].vfnptr = v}
      BY <3>1 DEF HooksOnVfnPtr, LiveIds
    <3>5. Table!ReleaseAll(v)
      BY <3>3, <3>4 DEF Table!ReleaseAll, Table!Release
    <3>. QED
      BY <3>5 DEF Table!TableNext
  <2>4. CASE UNCHANGED idVars
    BY <2>4 DEF idVars, LiveIds, LiveIdsOf
  <2>. QED
    BY <1>2, <2>1, <2>2, <2>3, <2>4 DEF IdNext
<1>. QED
  BY <1>1, <1>2, IdTypeCorrect, PTL DEF IdSpec, ImplementsTable, Table!TableSpec

-----------------------------------------------------------------------------
(* The bound on the vector *)

\* The vector grows only when all its ids are live, and then the live hooks are one
\* more than its length was: the peak is at least its new length.
LEMMA PeakInductive ==
    ASSUME IdTypeOK, BoundedByPeak, peak \in Nat, [PeakNext]_<<entries, peak>>
    PROVE  peak' \in Nat /\ BoundedByPeak'
<1>. DEFINE n == Cardinality(LiveIds')
<1>1. CASE UNCHANGED <<entries, peak>>
  BY <1>1 DEF BoundedByPeak
<1>2. CASE PeakNext
  <2>1. IdTypeOK'
    BY <1>2, IdTypeInductive DEF PeakNext
  <2>2. IsFiniteSet(LiveIds') /\ n \in Nat
    <3>1. LiveIds' \subseteq 1..Len(entries') /\ Len(entries') \in Nat
      BY <2>1 DEF IdTypeOK, LiveIds, LiveIdsOf
    <3>2. IsFiniteSet(1..Len(entries'))
      BY <3>1, FS_Interval
    <3>. QED
      BY <3>1, <3>2, FS_Subset, FS_CardinalityType
  <2>3. peak' = IF n > peak THEN n ELSE peak
    BY <1>2 DEF PeakNext
  <2>4. peak' \in Nat /\ peak' >= peak /\ peak' >= n
    BY <2>2, <2>3
  <2>5. Len(entries') <= Len(entries) \/ Len(entries') <= n
    <3>1. ASSUME NEW info \in Info, New(info), NextId(entries) = Len(entries) + 1
          PROVE  Len(entries') <= n
      <4>1. LiveIds' = 1..Len(entries) + 1 /\ Len(entries') = Len(entries) + 1
        BY <3>1, WithHookEntries, NextIdIsFree DEF New, IdTypeOK, LiveIds
      <4>2. n = Len(entries) + 1
        BY <4>1, FS_Interval DEF IdTypeOK
      <4>. QED
        BY <4>1, <4>2
    <3>2. ASSUME NEW info \in Info, New(info), NextId(entries) # Len(entries) + 1
          PROVE  Len(entries') <= Len(entries)
      BY <3>2, WithHookEntries DEF New, IdTypeOK
    <3>3. ASSUME NEW S, entries' = WithoutHooks(entries, S)
          PROVE  Len(entries') <= Len(entries)
      BY <3>3, WithoutHooksEntries DEF IdTypeOK
    <3>. QED
      BY <1>2, <3>1, <3>2, <3>3 DEF PeakNext, IdNext, Remove, RemoveAll
  <2>6. Len(entries) \in Nat /\ Len(entries') \in Nat
    BY <2>1 DEF IdTypeOK
  <2>. QED
    BY <2>2, <2>4, <2>5, <2>6 DEF BoundedByPeak
<1>. QED
  BY <1>1, <1>2

\* m_Entries is never longer than the largest number of hooks live at once.
THEOREM IdsAreReused == PeakSpec => []BoundedByPeak
<1>. DEFINE Inv == IdTypeOK /\ peak \in Nat /\ BoundedByPeak
<1>1. PeakInit => Inv
  BY IdTypeInductive DEF PeakInit, IdInit, BoundedByPeak
<1>2. Inv /\ [PeakNext]_<<entries, peak>> => Inv'
  <2>1. [PeakNext]_<<entries, peak>> => [IdNext]_idVars
    BY DEF PeakNext, idVars
  <2>. QED
    BY <2>1, IdTypeInductive, PeakInductive
<1>3. Inv => BoundedByPeak
  OBVIOUS
<1>. QED
  BY <1>1, <1>2, <1>3, PTL DEF PeakSpec

-----------------------------------------------------------------------------
(* The place of a new manager in the list *)

\* AddHookMan finds the end of the version group in every list.
LEMMA GroupEndExists ==
    ASSUME NEW s \in Seq(HookMans), NEW m \in HookMans
    PROVE  /\ GroupEnd(s, m) \in 1..Len(s) + 1
           /\ \A i \in 1..GroupEnd(s, m) - 1 : Version[s[i]] >= Version[m]
           /\ GroupEnd(s, m) <= Len(s) => Version[s[GroupEnd(s, m)]] < Version[m]
<1>. DEFINE T == {n \in 1..Len(s) + 1 : n <= Len(s) => Version[s[n]] < Version[m]}
<1>1. Len(s) \in Nat /\ \A i \in 1..Len(s) : Version[s[i]] \in Int
  BY VersionAssumption
<1>2. Len(s) + 1 \in T /\ T \subseteq Nat
  BY <1>1
<1>3. PICK n \in T : \A k \in T : n <= k
  BY <1>2, LeastNatural
<1>4. \A i \in 1..n - 1 : Version[s[i]] >= Version[m]
  <2>. SUFFICES ASSUME NEW i \in 1..n - 1
                PROVE  Version[s[i]] >= Version[m]
    OBVIOUS
  <2>1. i \in 1..Len(s) /\ i \notin T
    BY <1>1, <1>3
  <2>. QED
    BY <1>1, <2>1, VersionAssumption
<1>. QED
  BY <1>3, <1>4 DEF GroupEnd

\* Inserting a manager that is not in the list keeps it sorted, and makes the
\* manager its first exactly when its place is the beginning.
LEMMA InsertedList ==
    ASSUME NEW s \in Seq(HookMans), NEW m \in HookMans, Sorted(s), m \notin Elements(s)
    PROVE  /\ Inserted(s, m) \in Seq(HookMans)
           /\ Sorted(Inserted(s, m))
           /\ Inserted(s, m) # <<>>
           /\ Inserted(s, m)[1] = (IF GroupEnd(s, m) = 1 THEN m ELSE s[1])
           /\ GroupEnd(s, m) # 1 => s # <<>>
           /\ GroupEnd(s, m) = 1 /\ s # <<>> => Version[m] > Version[s[1]]
<1>. DEFINE n == GroupEnd(s, m)
            t == Inserted(s, m)
<1>1. /\ n \in 1..Len(s) + 1
      /\ \A i \in 1..n - 1 : Version[s[i]] >= Version[m]
      /\ n <= Len(s) => Version[s[n]] < Version[m]
  BY GroupEndExists
<1>2. Len(s) \in Nat /\ \A i \in 1..Len(s) : s[i] \in HookMans /\ s[i] # m /\ Version[s[i]] \in Int
  BY VersionAssumption DEF Elements
<1>3. t = [i \in 1..Len(s) + 1 |-> IF i < n THEN s[i] ELSE IF i = n THEN m ELSE s[i - 1]]
  BY DEF Inserted
<1>. HIDE DEF n, t
<1>4. t \in Seq(HookMans) /\ Len(t) = Len(s) + 1
  BY <1>1, <1>2, <1>3
<1>5. Sorted(t)
  <2>. SUFFICES ASSUME NEW i \in 1..Len(t), NEW j \in 1..Len(t), i < j
                PROVE  t[i] # t[j] /\ Version[t[i]] >= Version[t[j]]
    BY <1>4 DEF Sorted
  <2>1. \A a, b \in 1..Len(s) : a < b => s[a] # s[b] /\ Version[s[a]] >= Version[s[b]]
    BY DEF Sorted
  <2>2. \A b \in n..Len(s) : Version[s[b]] < Version[m]
    BY <1>1, <1>2, <2>1, VersionAssumption
  <2>3. CASE j < n
    BY <1>1, <1>2, <1>3, <1>4, <2>1, <2>3
  <2>4. CASE j = n
    BY <1>1, <1>2, <1>3, <1>4, <2>4
  <2>5. CASE i < n /\ j > n
    BY <1>1, <1>2, <1>3, <1>4, <2>1, <2>5
  <2>6. CASE i = n
    BY <1>1, <1>2, <1>3, <1>4, <2>2, <2>6, VersionAssumption, SMTT(30)
  <2>7. CASE i > n
    <3>1. i - 1 \in 1..Len(s) /\ j - 1 \in 1..Len(s) /\ i - 1 < j - 1
      BY <1>1, <1>2, <1>4, <2>7
    <3>2. t[i] = s[i - 1] /\ t[j] = s[j - 1]
      BY <1>1, <1>2, <1>3, <1>4, <2>7
    <3>. QED
      BY <2>1, <3>1, <3>2
  <2>. QED
    BY <1>1, <1>4, <2>3, <2>4, <2>5, <2>6, <2>7
<1>6. t # <<>> /\ t[1] = (IF n = 1 THEN m ELSE s[1])
  BY <1>1, <1>2, <1>3, <1>4
<1>7. n # 1 => s # <<>>
  BY <1>1, <1>2
<1>8. n = 1 /\ s # <<>> => Version[m] > Version[s[1]]
  BY <1>1, <1>2, VersionAssumption
<1>. QED
  BY <1>4, <1>5, <1>6, <1>7, <1>8 DEF n, t

-----------------------------------------------------------------------------
(* A list without some of its managers *)

\* Erasing managers keeps the others, in their order, and the first one first.
LEMMA WithoutList ==
    ASSUME NEW s \in Seq(HookMans), NEW M, Sorted(s)
    PROVE  /\ Without(s, M) \in Seq(HookMans)
           /\ Sorted(Without(s, M))
           /\ Elements(Without(s, M)) = Elements(s) \ M
           /\ s # <<>> /\ s[1] \notin M => Without(s, M) # <<>> /\ Without(s, M)[1] = s[1]
<1>. DEFINE t == Without(s, M)
<1>1. /\ t \in Seq(HookMans)
      /\ Elements(t) = Elements(s) \ M
      /\ s # <<>> /\ s[1] \notin M => t # <<>> /\ t[1] = s[1]
  BY WithoutIsSublist
<1>2. \A i, j \in DOMAIN t : i < j =>
         \E a, b \in DOMAIN s : a < b /\ t[i] = s[a] /\ t[j] = s[b]
  BY WithoutIsSublist
<1>. HIDE DEF t
<1>3. Sorted(t)
  <2>. SUFFICES ASSUME NEW i \in DOMAIN t, NEW j \in DOMAIN t, i < j
                PROVE  t[i] # t[j] /\ Version[t[i]] >= Version[t[j]]
    BY DEF Sorted
  <2>1. PICK a, b \in DOMAIN s : a < b /\ t[i] = s[a] /\ t[j] = s[b]
    BY <1>2
  <2>. QED
    BY <2>1 DEF Sorted
<1>. QED
  BY <1>1, <1>3 DEF t

-----------------------------------------------------------------------------
(* The operations keep the registry consistent *)

\* IncrRef and DecrRef: if the lists and the vtable of h are in order and the
\* references gained and lost are those of the entries whose first manager
\* changed, then exactly the managers that serve an entry are registered.
LEMMA ServeConsistent ==
    ASSUME NEW h \in HMType,
           NEW gain \in [HookMans -> SUBSET VfnPtrs],
           NEW lose \in [HookMans -> SUBSET VfnPtrs],
           \A v \in VfnPtrs : Sorted(h.mans[v]),
           \A v \in VfnPtrs : h.vtable[v] = ServingOf(h, v),
           h.registered = {m \in HookMans : h.served[m] # {}},
           \A m \in HookMans : (h.served[m] \union gain[m]) \ lose[m]
                                  = {v \in VfnPtrs : ServingOf(h, v) = m}
    PROVE  Consistent(Serve(h, gain, lose))
<1>. DEFINE left == [m \in HookMans |-> (h.served[m] \union gain[m]) \ lose[m]]
            first == {m \in HookMans : h.served[m] = {} /\ gain[m] # {}}
            last == {m \in HookMans : left[m] = {} /\ lose[m] # {}}
            g == Serve(h, gain, lose)
<1>1. g = [h EXCEPT !.served = left, !.registered = (h.registered \union first) \ last]
  BY DEF Serve
<1>2. left \in [HookMans -> SUBSET VfnPtrs]
  BY DEF HMType
<1>3. (h.registered \union first) \ last = {m \in HookMans : left[m] # {}}
  OBVIOUS
<1>. HIDE DEF first, last
<1>4. /\ g.known = h.known /\ g.mans = h.mans /\ g.vtable = h.vtable
      /\ g.served = left
      /\ g.registered = {m \in HookMans : left[m] # {}}
  BY <1>1, <1>3 DEF HMType
<1>5. g \in HMType
  BY <1>1, <1>2, <1>3 DEF HMType
<1>6. \A v \in VfnPtrs : ServingOf(g, v) = ServingOf(h, v)
  BY <1>4 DEF ServingOf
<1>. HIDE DEF g
<1>. QED
  BY <1>4, <1>5, <1>6 DEF Consistent, g

\* AddHookMan keeps the registry consistent.
LEMMA OfferedConsistent ==
    ASSUME NEW h, Consistent(h), NEW v \in VfnPtrs, NEW m \in HookMans
    PROVE  Consistent(Offered(h, v, m))
<1>. DEFINE s == h.mans[v]
            known == [h EXCEPT !.known = @ \union {m}]
            listed == [known EXCEPT !.mans[v] = Inserted(s, m)]
            switched == [listed EXCEPT !.vtable[v] = m]
            gain == [NoRefs EXCEPT ![m] = {v}]
            lose == IF s = <<>> THEN NoRefs ELSE [NoRefs EXCEPT ![s[1]] = {v}]
<1>1. h \in HMType /\ s \in Seq(HookMans) /\ Sorted(s)
  BY DEF Consistent, HMType
<1>2. known \in HMType /\ \A w \in VfnPtrs : ServingOf(known, w) = ServingOf(h, w)
  BY <1>1 DEF HMType, ServingOf
<1>3. Consistent(known)
  BY <1>1, <1>2 DEF Consistent, HMType
<1>4. CASE m \in Elements(s)
  BY <1>3, <1>4 DEF Offered
<1>5. CASE m \notin Elements(s)
  <2>1. /\ Inserted(s, m) \in Seq(HookMans)
        /\ Sorted(Inserted(s, m))
        /\ Inserted(s, m) # <<>>
        /\ Inserted(s, m)[1] = (IF GroupEnd(s, m) = 1 THEN m ELSE s[1])
        /\ GroupEnd(s, m) # 1 => s # <<>>
    BY <1>1, <1>5, InsertedList
  <2>2. /\ listed \in HMType
        /\ listed.mans = [h.mans EXCEPT ![v] = Inserted(s, m)]
        /\ listed.vtable = h.vtable /\ listed.served = h.served /\ listed.registered = h.registered
    BY <1>1, <2>1 DEF HMType
  <2>3. \A w \in VfnPtrs : Sorted(listed.mans[w])
    BY <1>1, <2>1, <2>2 DEF Consistent, HMType
  <2>4. \A w \in VfnPtrs : ServingOf(listed, w) =
           (IF w # v THEN ServingOf(h, w) ELSE IF GroupEnd(s, m) = 1 THEN m ELSE s[1])
    BY <1>1, <2>1, <2>2 DEF ServingOf, HMType
  <2>5. CASE GroupEnd(s, m) # 1
    <3>1. \A w \in VfnPtrs : ServingOf(listed, w) = ServingOf(h, w)
      BY <2>1, <2>4, <2>5 DEF ServingOf
    <3>2. Consistent(listed)
      BY <2>2, <2>3, <3>1 DEF Consistent
    <3>. QED
      BY <1>5, <2>5, <3>2 DEF Offered
  <2>6. CASE GroupEnd(s, m) = 1
    <3>1. /\ switched \in HMType
          /\ switched.mans = listed.mans
          /\ switched.vtable = [h.vtable EXCEPT ![v] = m]
          /\ switched.served = h.served /\ switched.registered = h.registered
      BY <1>1, <2>2 DEF HMType
    <3>2. \A w \in VfnPtrs : ServingOf(switched, w) = (IF w = v THEN m ELSE ServingOf(h, w))
      BY <2>4, <2>6, <3>1 DEF ServingOf
    <3>3. \A w \in VfnPtrs : switched.vtable[w] = ServingOf(switched, w)
      BY <1>1, <3>1, <3>2, ZenonT(40) DEF Consistent, HMType
    <3>4. s # <<>> => s[1] \in HookMans /\ s[1] # m
      BY <1>1, <1>5 DEF Elements
    <3>5. gain \in [HookMans -> SUBSET VfnPtrs] /\ lose \in [HookMans -> SUBSET VfnPtrs]
      BY <3>4 DEF NoRefs
    <3>6. /\ \A n \in HookMans : gain[n] = (IF n = m THEN {v} ELSE {})
          /\ \A n \in HookMans : lose[n] = (IF s # <<>> /\ n = s[1] THEN {v} ELSE {})
      BY <3>4 DEF NoRefs
    <3>7. \A n \in HookMans : (switched.served[n] \union gain[n]) \ lose[n]
                                 = {w \in VfnPtrs : ServingOf(switched, w) = n}
      <4>. SUFFICES ASSUME NEW n \in HookMans
                    PROVE  (h.served[n] \union gain[n]) \ lose[n]
                             = {w \in VfnPtrs : ServingOf(switched, w) = n}
        BY <3>1
      <4>1. h.served[n] = {w \in VfnPtrs : ServingOf(h, w) = n}
        BY DEF Consistent
      <4>2. ServingOf(h, v) = n => s # <<>> /\ n = s[1]
        BY OrigAssumption DEF ServingOf
      <4>. HIDE DEF gain, lose, switched
      <4>. QED
        BY <3>2, <3>4, <3>6, <4>1, <4>2
    <3>8. switched.registered = {n \in HookMans : switched.served[n] # {}}
      BY <3>1 DEF Consistent
    <3>9. \A w \in VfnPtrs : Sorted(switched.mans[w])
      BY <2>3, <3>1
    <3>10. Consistent(Serve(switched, gain, lose))
      <4>. HIDE DEF switched, gain, lose
      <4>. QED
        BY <3>1, <3>3, <3>5, <3>7, <3>8, <3>9, ServeConsistent
    <3>. QED
      BY <1>5, <2>6, <3>10 DEF Offered
  <2>. QED
    BY <2>5, <2>6
<1>. QED
  BY <1>4, <1>5

\* Reverting entries and removing them keeps the registry consistent.
LEMMA RevertedConsistent ==
    ASSUME NEW h, Consistent(h), NEW W \in SUBSET VfnPtrs
    PROVE  Consistent(Reverted(h, W))
<1>. DEFINE vtable == [v \in VfnPtrs |-> IF v \in W THEN Orig ELSE h.vtable[v]]
            mans == [v \in VfnPtrs |-> IF v \in W THEN <<>> ELSE h.mans[v]]
            g == [h EXCEPT !.vtable = vtable, !.mans = mans]
            fronts == [m \in HookMans |-> {v \in W : h.mans[v] # <<>> /\ h.mans[v][1] = m}]
<1>1. h \in HMType
  BY DEF Consistent
<1>2. Reverted(h, W) = Serve(g, NoRefs, fronts)
  BY <1>1 DEF Reverted, HMType
<1>3. vtable \in [VfnPtrs -> HookMans \union {Orig}] /\ mans \in [VfnPtrs -> Seq(HookMans)]
  BY <1>1 DEF HMType
<1>4. /\ g \in HMType
      /\ g.mans = mans /\ g.vtable = vtable
      /\ g.served = h.served /\ g.registered = h.registered
  BY <1>1, <1>3 DEF HMType
<1>5. \A v \in VfnPtrs : ServingOf(g, v) = (IF v \in W THEN Orig ELSE ServingOf(h, v))
  BY <1>4 DEF ServingOf
<1>6. \A v \in VfnPtrs : Sorted(g.mans[v]) /\ g.vtable[v] = ServingOf(g, v)
  <2>. SUFFICES ASSUME NEW v \in VfnPtrs
                PROVE  Sorted(g.mans[v]) /\ g.vtable[v] = ServingOf(g, v)
    OBVIOUS
  <2>1. Sorted(<<>>)
    BY DEF Sorted
  <2>2. g.mans[v] = (IF v \in W THEN <<>> ELSE h.mans[v])
    BY <1>4
  <2>3. g.vtable[v] = (IF v \in W THEN Orig ELSE h.vtable[v])
    BY <1>4
  <2>4. Sorted(h.mans[v]) /\ h.vtable[v] = ServingOf(h, v)
    BY DEF Consistent
  <2>. HIDE DEF g
  <2>. QED
    BY <1>5, <2>1, <2>2, <2>3, <2>4
<1>7. g.registered = {m \in HookMans : g.served[m] # {}}
  BY <1>4 DEF Consistent
<1>8. fronts \in [HookMans -> SUBSET VfnPtrs] /\ NoRefs \in [HookMans -> SUBSET VfnPtrs]
  BY DEF NoRefs
<1>9. \A m \in HookMans : (g.served[m] \union NoRefs[m]) \ fronts[m] = {v \in VfnPtrs : ServingOf(g, v) = m}
  <2>. SUFFICES ASSUME NEW m \in HookMans
                PROVE  h.served[m] \ fronts[m] = {v \in VfnPtrs : ServingOf(g, v) = m}
    BY <1>4 DEF NoRefs
  <2>1. h.served[m] = {v \in VfnPtrs : ServingOf(h, v) = m} /\ m # Orig
    BY OrigAssumption DEF Consistent
  <2>2. fronts[m] = {v \in W : ServingOf(h, v) = m}
    BY OrigAssumption DEF ServingOf
  <2>. HIDE DEF fronts, g
  <2>. QED
    BY <1>5, <2>1, <2>2
<1>. HIDE DEF g, fronts
<1>. QED
  BY <1>2, <1>4, <1>6, <1>7, <1>8, <1>9, ServeConsistent

\* HookManRemoved on every entry keeps the registry consistent.
LEMMA RemovedConsistent ==
    ASSUME NEW h, Consistent(h), NEW M \in SUBSET HookMans
    PROVE  Consistent(Removed(h, M))
<1>. DEFINE rest == [v \in VfnPtrs |-> Without(h.mans[v], M)]
            moved == {v \in VfnPtrs : h.mans[v] # <<>> /\ h.mans[v][1] \in M}
            gain == [m \in HookMans |-> {v \in moved : rest[v] # <<>> /\ rest[v][1] = m}]
            lose == [m \in HookMans |-> {v \in moved : h.mans[v][1] = m}]
            next == [v \in VfnPtrs |-> IF v \notin moved THEN h.vtable[v]
                                       ELSE IF rest[v] = <<>> THEN Orig ELSE rest[v][1]]
            g == [h EXCEPT !.known = @ \ M, !.mans = rest, !.vtable = next]
<1>1. h \in HMType
  BY DEF Consistent
<1>2. Removed(h, M) = Serve(g, gain, lose)
  BY DEF Removed
<1>3. ASSUME NEW v \in VfnPtrs
      PROVE  /\ rest[v] \in Seq(HookMans)
             /\ Sorted(rest[v])
             /\ rest[v] # <<>> => rest[v][1] \in HookMans /\ rest[v][1] \notin M
             /\ v \notin moved => IF h.mans[v] = <<>> THEN rest[v] = <<>>
                                  ELSE rest[v] # <<>> /\ rest[v][1] = h.mans[v][1]
  <2>1. h.mans[v] \in Seq(HookMans) /\ Sorted(h.mans[v])
    BY <1>1 DEF Consistent, HMType
  <2>2. /\ rest[v] \in Seq(HookMans)
        /\ Sorted(rest[v])
        /\ Elements(rest[v]) = Elements(h.mans[v]) \ M
        /\ h.mans[v] # <<>> /\ h.mans[v][1] \notin M => rest[v] # <<>> /\ rest[v][1] = h.mans[v][1]
    BY <2>1, WithoutList
  <2>. HIDE DEF rest
  <2>3. rest[v] # <<>> => rest[v][1] \in Elements(rest[v]) /\ rest[v][1] \in HookMans
    BY <2>2 DEF Elements
  <2>4. h.mans[v] = <<>> => rest[v] = <<>>
    <3>1. Elements(<<>>) = {}
      BY DEF Elements
    <3>. QED
      BY <2>2, <2>3, <3>1
  <2>. QED
    BY <2>2, <2>3, <2>4
<1>. HIDE DEF rest
<1>4. \A v \in VfnPtrs : (IF rest[v] = <<>> THEN Orig ELSE rest[v][1]) =
         (IF v \notin moved THEN ServingOf(h, v) ELSE IF rest[v] = <<>> THEN Orig ELSE rest[v][1])
  BY <1>3 DEF ServingOf
<1>5. rest \in [VfnPtrs -> Seq(HookMans)] /\ next \in [VfnPtrs -> HookMans \union {Orig}]
  <2>1. rest \in [VfnPtrs -> Seq(HookMans)]
    BY <1>3 DEF rest
  <2>2. h.vtable \in [VfnPtrs -> HookMans \union {Orig}]
    BY <1>1 DEF HMType
  <2>. QED
    BY <1>3, <2>1, <2>2
<1>6. /\ g \in HMType
      /\ g.mans = rest /\ g.vtable = next
      /\ g.served = h.served /\ g.registered = h.registered
  BY <1>1, <1>5 DEF HMType
<1>7. \A v \in VfnPtrs : ServingOf(g, v) = (IF rest[v] = <<>> THEN Orig ELSE rest[v][1])
  BY <1>6 DEF ServingOf
<1>8. \A v \in VfnPtrs : Sorted(g.mans[v]) /\ g.vtable[v] = ServingOf(g, v)
  <2>. SUFFICES ASSUME NEW v \in VfnPtrs
                PROVE  Sorted(g.mans[v]) /\ g.vtable[v] = ServingOf(g, v)
    OBVIOUS
  <2>1. h.vtable[v] = ServingOf(h, v)
    BY DEF Consistent
  <2>2. g.vtable[v] = (IF v \notin moved THEN h.vtable[v] ELSE IF rest[v] = <<>> THEN Orig ELSE rest[v][1])
    BY <1>6
  <2>. HIDE DEF g, moved
  <2>. QED
    BY <1>3, <1>4, <1>6, <1>7, <2>1, <2>2
<1>9. g.registered = {m \in HookMans : g.served[m] # {}}
  BY <1>6 DEF Consistent
<1>10. gain \in [HookMans -> SUBSET VfnPtrs] /\ lose \in [HookMans -> SUBSET VfnPtrs]
  OBVIOUS
<1>11. \A m \in HookMans : (g.served[m] \union gain[m]) \ lose[m] = {v \in VfnPtrs : ServingOf(g, v) = m}
  <2>. SUFFICES ASSUME NEW m \in HookMans
                PROVE  (h.served[m] \union gain[m]) \ lose[m] = {v \in VfnPtrs : ServingOf(g, v) = m}
    BY <1>6
  <2>1. h.served[m] = {v \in VfnPtrs : ServingOf(h, v) = m} /\ m # Orig
    BY OrigAssumption DEF Consistent
  <2>2. lose[m] = {v \in moved : ServingOf(h, v) = m}
    BY DEF ServingOf
  <2>3. gain[m] = {v \in moved : ServingOf(g, v) = m}
    BY <1>7, <2>1
  <2>4. \A v \in VfnPtrs \ moved : ServingOf(g, v) = ServingOf(h, v)
    BY <1>4, <1>7
  <2>5. \A v \in moved : v \in VfnPtrs /\ ServingOf(h, v) \in M /\ ServingOf(g, v) \notin M
    <3>1. \A v \in moved : v \in VfnPtrs /\ ServingOf(h, v) \in M
      BY DEF ServingOf
    <3>. HIDE DEF g, moved
    <3>2. \A v \in VfnPtrs : ServingOf(g, v) \notin M
      BY <1>3, <1>7, OrigAssumption
    <3>. QED
      BY <3>1, <3>2
  <2>. HIDE DEF gain, lose, g, moved
  <2>6. ASSUME NEW v \in VfnPtrs
        PROVE  v \in (h.served[m] \union gain[m]) \ lose[m] <=> ServingOf(g, v) = m
    <3>1. CASE v \in moved
      BY <2>1, <2>2, <2>3, <2>5, <3>1
    <3>2. CASE v \notin moved
      BY <2>1, <2>2, <2>3, <2>4, <3>2
    <3>. QED
      BY <3>1, <3>2
  <2>7. h.served[m] \subseteq VfnPtrs /\ gain[m] \subseteq VfnPtrs
    BY <2>1, <2>3, <2>5
  <2>. QED
    BY <2>6, <2>7
<1>12. (\A v \in VfnPtrs : Sorted(g.mans[v])) /\ (\A v \in VfnPtrs : g.vtable[v] = ServingOf(g, v))
  BY <1>8
<1>. HIDE DEF g, gain, lose
<1>13. Consistent(Serve(g, gain, lose))
  BY <1>6, <1>9, <1>10, <1>11, <1>12, ServeConsistent
<1>. QED
  BY <1>2, <1>13

-----------------------------------------------------------------------------
(* The specification. *)

\* No manager is known, listed or serving at first, and the vtable is original.
LEMMA InitConsistent == HMInit => HMIInv
<1>. SUFFICES ASSUME HMInit
              PROVE  Consistent(hm)
  BY DEF HMIInv
<1>1. hm \in HMType
  BY DEF HMInit, HMType, NoRefs
<1>2. \A v \in VfnPtrs : hm.mans[v] = <<>> /\ hm.vtable[v] = Orig
  BY DEF HMInit
<1>3. \A v \in VfnPtrs : ServingOf(hm, v) = Orig
  BY <1>2 DEF ServingOf
<1>4. \A v \in VfnPtrs : Sorted(hm.mans[v])
  BY <1>2 DEF Sorted
<1>5. \A m \in HookMans : hm.served[m] = {} /\ m # Orig
  BY OrigAssumption DEF HMInit, NoRefs
<1>6. hm.registered = {}
  BY DEF HMInit
<1>. QED
  BY <1>1, <1>2, <1>3, <1>4, <1>5, <1>6 DEF Consistent

\* Dropping entries and managers keeps the registry consistent.
LEMMA DropConsistent ==
    ASSUME HMIInv, NEW W \in SUBSET VfnPtrs, NEW M \in SUBSET HookMans, Drop(W, M)
    PROVE  HMIInv'
<1>1. Consistent(Reverted(hm, W))
  BY RevertedConsistent DEF HMIInv
<1>2. Consistent(Removed(Reverted(hm, W), M))
  BY <1>1, RemovedConsistent
<1>. QED
  BY <1>2 DEF HMIInv, Drop

\* Every step keeps the registry consistent (HMIInv is inductive).
LEMMA NextConsistent == HMIInv /\ [HMNext]_hm => HMIInv'
<1>. SUFFICES ASSUME HMIInv, [HMNext]_hm
              PROVE  HMIInv'
  OBVIOUS
<1>1. ASSUME NEW v \in VfnPtrs, NEW m \in HookMans, Offer(v, m)
      PROVE  HMIInv'
  <2>1. Consistent(Offered(hm, v, m))
    BY OfferedConsistent DEF HMIInv
  <2>. QED
    BY <1>1, <2>1 DEF HMIInv, Offer
<1>2. ASSUME NEW W \in SUBSET VfnPtrs, NEW M \in SUBSET HookMans, Drop(W, M)
      PROVE  HMIInv'
  BY <1>2, DropConsistent
<1>3. CASE UNCHANGED hm
  BY <1>3 DEF HMIInv
<1>. QED
  BY <1>1, <1>2, <1>3 DEF HMNext

\* The registry of hook managers is consistent in every reachable state: lists
\* in descending version without duplicates, and the vtable, the served sets and
\* ms_HI all follow from who is first in the list (AddHookMan, HookManRemoved).
THEOREM RegistryConsistent == HMSpec => []HMIInv
<1>. QED
  BY InitConsistent, NextConsistent, PTL DEF HMSpec

\* The type invariant of the registry.
THEOREM RegistryTyped == HMSpec => []HMTypeOK
<1>1. HMIInv => HMTypeOK
  BY DEF HMIInv, Consistent, HMTypeOK
<1>. QED
  BY <1>1, RegistryConsistent, PTL

\* A hookfunc in the vtable finds its ms_HI and its entry (SetupHookLoop's assertion).
THEOREM HookfuncAlwaysFindsEntry == HMSpec => []HookfuncFindsEntry
<1>1. HMIInv => HookfuncFindsEntry
  <2>. SUFFICES ASSUME HMIInv, NEW v \in VfnPtrs, hm.vtable[v] # Orig
                PROVE  hm.vtable[v] \in hm.registered /\ v \in hm.served[hm.vtable[v]]
    BY DEF HookfuncFindsEntry
  <2>1. hm.vtable[v] \in HookMans
    BY DEF HMIInv, Consistent, HMType
  <2>2. v \in hm.served[hm.vtable[v]]
    BY <2>1 DEF HMIInv, Consistent
  <2>3. hm.vtable[v] \in hm.registered
    BY <2>1, <2>2 DEF HMIInv, Consistent
  <2>. QED
    BY <2>2, <2>3
<1>. QED
  BY <1>1, RegistryConsistent, PTL

\* An entry with managers is served by exactly the one it points at, an entry
\* without managers by none (IncrRef and DecrRef are balanced over switches).
THEOREM ExactlyOneServes == HMSpec => []OneServes
<1>1. HMIInv => OneServes
  <2>. SUFFICES ASSUME HMIInv, NEW v \in VfnPtrs
                PROVE  {m \in HookMans : v \in hm.served[m]} =
                          (IF hm.mans[v] = <<>> THEN {} ELSE {hm.vtable[v]})
    BY DEF OneServes
  <2>1. \A m \in HookMans : v \in hm.served[m] <=> ServingOf(hm, v) = m
    BY DEF HMIInv, Consistent
  <2>2. hm.vtable[v] = ServingOf(hm, v) /\ hm.mans[v] \in Seq(HookMans)
    BY DEF HMIInv, Consistent, HMType
  <2>3. CASE hm.mans[v] = <<>>
    BY <2>1, <2>3, OrigAssumption DEF ServingOf
  <2>4. CASE hm.mans[v] # <<>>
    <3>1. hm.vtable[v] \in HookMans
      BY <2>2, <2>4 DEF ServingOf
    <3>. QED
      BY <2>1, <2>2, <2>4, <3>1
  <2>. QED
    BY <2>3, <2>4
<1>. QED
  BY <1>1, RegistryConsistent, PTL

\* Of the managers of an entry one of the highest version serves it.
THEOREM HighestServes == HMSpec => []HighestVersionServes
<1>1. HMIInv => HighestVersionServes
  <2>. SUFFICES ASSUME HMIInv, NEW v \in VfnPtrs, NEW m \in Elements(hm.mans[v])
                PROVE  /\ hm.vtable[v] \in Elements(hm.mans[v])
                       /\ Version[hm.vtable[v]] >= Version[m]
    BY DEF HighestVersionServes
  <2>1. hm.mans[v] \in Seq(HookMans) /\ Sorted(hm.mans[v]) /\ hm.vtable[v] = ServingOf(hm, v)
    BY DEF HMIInv, Consistent, HMType
  <2>2. PICK i \in DOMAIN hm.mans[v] : m = hm.mans[v][i]
    BY DEF Elements
  <2>3. hm.vtable[v] = hm.mans[v][1] /\ 1 \in DOMAIN hm.mans[v] /\ i \in Nat /\ i >= 1
    BY <2>1, <2>2 DEF ServingOf
  <2>4. Version[m] \in Int
    BY <2>1, <2>2, VersionAssumption
  <2>5. CASE i = 1
    BY <2>2, <2>3, <2>4, <2>5 DEF Elements
  <2>6. CASE i > 1
    BY <2>1, <2>2, <2>3, <2>6 DEF Elements, Sorted
  <2>. QED
    BY <2>3, <2>5, <2>6
<1>. QED
  BY <1>1, RegistryConsistent, PTL

-----------------------------------------------------------------------------
(* Which manager follows which. *)

\* Serve changes neither the lists nor the vtable.
LEMMA ServeLists ==
    ASSUME NEW h \in HMType, NEW gain, NEW lose
    PROVE  Serve(h, gain, lose).mans = h.mans
  BY DEF Serve, HMType

\* AddHookMan inserts the manager into the list of the entry, unless it is there.
LEMMA OfferedLists ==
    ASSUME NEW h \in HMType, NEW v \in VfnPtrs, NEW m \in HookMans
    PROVE  Offered(h, v, m).mans = IF m \in Elements(h.mans[v]) THEN h.mans
                                   ELSE [h.mans EXCEPT ![v] = Inserted(h.mans[v], m)]
  BY DEF Offered, Serve, HMType

\* A drop empties the lists of the dropped entries and strikes the managers from
\* every other.
LEMMA DroppedLists ==
    ASSUME NEW h \in HMType, NEW W \in SUBSET VfnPtrs, NEW M
    PROVE  \A v \in VfnPtrs :
              Removed(Reverted(h, W), M).mans[v] = Without(IF v \in W THEN <<>> ELSE h.mans[v], M)
  BY DEF Removed, Reverted, Serve, HMType

\* What offering a manager changes: it is known and in the list of the entry, every
\* other list is as it was.
LEMMA OfferEffect ==
    ASSUME HMIInv, NEW v \in VfnPtrs, NEW m \in HookMans, Offer(v, m)
    PROVE  /\ HMIInv'
           /\ hm'.known = hm.known \union {m}
           /\ Elements(hm'.mans[v]) = Elements(hm.mans[v]) \union {m}
           /\ \A w \in VfnPtrs \ {v} : hm'.mans[w] = hm.mans[w]
<1>. DEFINE s == hm.mans[v]
<1>1. hm \in HMType /\ s \in Seq(HookMans) /\ Sorted(s)
  BY DEF HMIInv, Consistent, HMType
<1>2. hm'.known = hm.known \union {m}
  BY <1>1 DEF Offer, Offered, Serve, HMType
<1>3. hm'.mans = IF m \in Elements(s) THEN hm.mans ELSE [hm.mans EXCEPT ![v] = Inserted(s, m)]
  BY <1>1, OfferedLists DEF Offer
<1>4. m \notin Elements(s) => Elements(Inserted(s, m)) = Elements(s) \union {m}
  <2>1. GroupEnd(s, m) \in 1..Len(s) + 1 /\ Len(s) \in Nat
    BY <1>1, GroupEndExists
  <2>2. PICK n \in 1..Len(s) + 1 : Inserted(s, m) =
           [i \in 1..Len(s) + 1 |-> IF i < n THEN s[i] ELSE IF i = n THEN m ELSE s[i - 1]]
    BY <2>1 DEF Inserted
  <2>3. \A i \in 1..Len(s) : s[i] = Inserted(s, m)[IF i < n THEN i ELSE i + 1]
    BY <2>1, <2>2
  <2>4. m = Inserted(s, m)[n]
    BY <2>2
  <2>5. \A i \in 1..Len(s) + 1 : Inserted(s, m)[i] = m \/ \E j \in 1..Len(s) : Inserted(s, m)[i] = s[j]
    <3>. SUFFICES ASSUME NEW i \in 1..Len(s) + 1, i # n
                  PROVE  \E j \in 1..Len(s) : Inserted(s, m)[i] = s[j]
      BY <2>4
    <3>1. CASE i < n
      BY <2>1, <2>2, <3>1
    <3>2. CASE i > n
      <4>1. i - 1 \in 1..Len(s) /\ Inserted(s, m)[i] = s[i - 1]
        BY <2>1, <2>2, <3>2
      <4>. QED
        BY <4>1
    <3>. QED
      BY <2>1, <3>1, <3>2
  <2>6. DOMAIN s = 1..Len(s) /\ DOMAIN Inserted(s, m) = 1..Len(s) + 1
    BY <1>1, <2>2
  <2>7. \A i \in 1..Len(s) : (IF i < n THEN i ELSE i + 1) \in 1..Len(s) + 1
    BY <2>1
  <2>. DEFINE t == Inserted(s, m)
  <2>8. Elements(s) = {s[i] : i \in 1..Len(s)} /\ Elements(t) = {t[i] : i \in 1..Len(s) + 1}
    BY <2>6 DEF Elements
  <2>. HIDE DEF s, t
  <2>. QED
    BY <2>1, <2>3, <2>4, <2>5, <2>7, <2>8 DEF t
<1>5. hm.mans \in [VfnPtrs -> Seq(HookMans)]
  BY <1>1 DEF HMType
<1>6. HMIInv'
  BY NextConsistent DEF HMNext
<1>. QED
  BY <1>2, <1>3, <1>4, <1>5, <1>6

\* What a drop changes: the managers M are no longer known nor listed, and the
\* entries W have no managers.
LEMMA DropEffect ==
    ASSUME HMIInv, NEW W \in SUBSET VfnPtrs, NEW M \in SUBSET HookMans, Drop(W, M)
    PROVE  /\ HMIInv'
           /\ hm'.known = hm.known \ M
           /\ \A v \in VfnPtrs : Elements(hm'.mans[v]) = (IF v \in W THEN {} ELSE Elements(hm.mans[v]) \ M)
<1>1. hm \in HMType /\ \A v \in VfnPtrs : hm.mans[v] \in Seq(HookMans) /\ Sorted(hm.mans[v])
  BY DEF HMIInv, Consistent, HMType
<1>2. hm'.known = hm.known \ M
  BY <1>1 DEF Drop, Removed, Reverted, Serve, HMType
<1>3. \A v \in VfnPtrs : hm'.mans[v] = Without(IF v \in W THEN <<>> ELSE hm.mans[v], M)
  <2>1. PICK h \in HMType : h = hm
    BY <1>1
  <2>2. \A v \in VfnPtrs :
           Removed(Reverted(h, W), M).mans[v] = Without(IF v \in W THEN <<>> ELSE h.mans[v], M)
    BY DroppedLists
  <2>. QED
    BY <2>1, <2>2 DEF Drop
<1>4. <<>> \in Seq(HookMans) /\ Sorted(<<>>) /\ Elements(<<>>) = {}
  BY DEF Sorted, Elements
<1>5. ASSUME NEW v \in VfnPtrs
      PROVE  Elements(hm'.mans[v]) = (IF v \in W THEN {} ELSE Elements(hm.mans[v]) \ M)
  <2>1. hm'.mans[v] = Without(IF v \in W THEN <<>> ELSE hm.mans[v], M)
    BY <1>3
  <2>2. CASE v \in W
    <3>1. Elements(Without(<<>>, M)) = Elements(<<>>) \ M
      BY <1>4, WithoutList
    <3>. QED
      BY <1>4, <2>1, <2>2, <3>1
  <2>3. CASE v \notin W
    BY <1>1, <2>1, <2>3, WithoutList
  <2>. QED
    BY <2>2, <2>3
<1>6. HMIInv'
  BY DropConsistent
<1>. QED
  BY <1>2, <1>5, <1>6

\* A manager that stops serving an entry is beaten by a newer one or is gone.
LEMMA SwitchedUp ==
    ASSUME HMIInv, HMNext, NEW v \in VfnPtrs,
           hm.vtable[v] # Orig, hm'.vtable[v] # hm.vtable[v], hm'.vtable[v] # Orig
    PROVE  \/ Version[hm'.vtable[v]] > Version[hm.vtable[v]]
           \/ hm.vtable[v] \notin Elements(hm'.mans[v])
<1>. DEFINE s == hm.mans[v]
            t == hm'.mans[v]
<1>1. /\ hm \in HMType /\ s \in Seq(HookMans) /\ Sorted(s)
      /\ hm.vtable[v] = ServingOf(hm, v)
  BY DEF HMIInv, Consistent, HMType
<1>2. HMIInv'
  BY NextConsistent
<1>3. t \in Seq(HookMans) /\ hm'.vtable[v] = ServingOf(hm, v)'
  BY <1>2 DEF HMIInv, Consistent, HMType
<1>4. s # <<>> /\ s[1] = hm.vtable[v] /\ t # <<>> /\ t[1] = hm'.vtable[v]
  BY <1>1, <1>3 DEF ServingOf
<1>5. ASSUME NEW w \in VfnPtrs, NEW m \in HookMans, Offer(w, m)
      PROVE  Version[t[1]] > Version[s[1]]
  <2>1. hm'.mans = IF m \in Elements(hm.mans[w]) THEN hm.mans
                   ELSE [hm.mans EXCEPT ![w] = Inserted(hm.mans[w], m)]
    BY <1>1, <1>5, OfferedLists DEF Offer
  <2>2. w = v /\ m \notin Elements(s) /\ t = Inserted(s, m)
    BY <1>1, <1>4, <2>1 DEF HMType
  <2>. HIDE DEF s, t
  <2>3. t[1] = m /\ Version[m] > Version[s[1]]
    BY <1>1, <1>4, <2>2, InsertedList
  <2>. QED
    BY <2>3
<1>6. ASSUME NEW W \in SUBSET VfnPtrs, NEW M \in SUBSET HookMans, Drop(W, M)
      PROVE  s[1] \notin Elements(t)
  <2>1. t = Without(IF v \in W THEN <<>> ELSE s, M)
    <3>1. hm' = Removed(Reverted(hm, W), M)
      BY <1>6 DEF Drop
    <3>2. PICK h \in HMType : h = hm
      BY <1>1
    <3>3. \A u \in VfnPtrs :
             Removed(Reverted(h, W), M).mans[u] = Without(IF u \in W THEN <<>> ELSE h.mans[u], M)
      BY DroppedLists
    <3>. QED
      BY <3>1, <3>2, <3>3
  <2>2. v \notin W
    <3>1. SUFFICES ASSUME v \in W
                   PROVE  FALSE
      OBVIOUS
    <3>2. <<>> \in Seq(HookMans) /\ Sorted(<<>>) /\ Elements(<<>>) = {}
      BY DEF Sorted, Elements
    <3>3. Elements(t) = {}
      <4>1. Elements(Without(<<>>, M)) = Elements(<<>>) \ M
        BY <3>2, WithoutList
      <4>. QED
        BY <2>1, <3>1, <3>2, <4>1
    <3>4. t[1] \in Elements(t)
      BY <1>3, <1>4 DEF Elements
    <3>. QED
      BY <3>3, <3>4
  <2>. HIDE DEF s, t
  <2>3. Elements(t) = Elements(s) \ M /\ (s[1] \notin M => t[1] = s[1])
    BY <1>1, <1>4, <2>1, <2>2, WithoutList
  <2>. QED
    BY <1>4, <2>3
<1>. QED
  BY <1>4, <1>5, <1>6 DEF HMNext

\* A serving manager is replaced only by a newer one or when it is removed
\* (AddHookMan inserts behind the managers of its own version).
THEOREM OnlySwitchesUp == HMSpec => SwitchesOnlyUp
<1>1. HMIInv /\ [HMNext]_hm =>
        [\A v \in VfnPtrs :
            LET old == hm.vtable[v]
                new == hm'.vtable[v]
            IN  /\ old # Orig
                /\ new \notin {old, Orig}
                => Version[new] > Version[old] \/ old \notin Elements(hm'.mans[v])]_hm
  BY SwitchedUp
<1>. QED
  BY <1>1, RegistryConsistent, PTL DEF HMSpec, SwitchesOnlyUp
================================================================================
