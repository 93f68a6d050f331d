--------------------------- MODULE SourceHook_proofs ---------------------------
(***************************************************************************)
(* SourceHook's registry, for any number of entries, interfaces, plugins,  *)
(* managers and handlers and any depth of the call stack: the id table,    *)
(* the hook lists and the registry of hook managers always agree, and, if  *)
(* no plugin adds a hook while its unload is pending, nothing of an        *)
(* unloaded plugin is left in them.                                        *)
(***************************************************************************)
EXTENDS SourceHook, ListLemmas

TP == INSTANCE HookTables_proofs WITH peak <- 0

-----------------------------------------------------------------------------
(* What the components promise, in SourceHook's terms *)

\* What the components assume of their constants holds of SourceHook's.
LEMMA ComponentAssumptions ==
    /\ TP!VersionAssumption /\ TP!OrigAssumption
    /\ TP!MaxIdsAssumption /\ TP!FreeEntryAssumption
<1>1. Ids!Info = TP!Info
  BY DEF Ids!Info, TP!Info
<1>. QED
  BY <1>1, ManagerAssumption, BoundAssumption, EntryAssumption
     DEF TP!VersionAssumption, TP!OrigAssumption, TP!MaxIdsAssumption, TP!FreeEntryAssumption

\* The registry of managers stays consistent when a manager is offered.
LEMMA Offering ==
    ASSUME Mans!HMIInv, NEW v \in VfnPtrs, NEW m \in HookMans, Mans!Offer(v, m)
    PROVE  /\ Mans!HMIInv'
           /\ hm'.known = hm.known \union {m}
           /\ Elements(hm'.mans[v]) = Elements(hm.mans[v]) \union {m}
           /\ \A w \in VfnPtrs \ {v} : hm'.mans[w] = hm.mans[w]
<1>1. TP!Offer(v, m)
  BY DEF Mans!Offer, TP!Offer, Mans!Offered, TP!Offered, Mans!Serve, TP!Serve, Mans!Elements,
         TP!Elements, Mans!NoRefs, TP!NoRefs, Mans!Inserted, TP!Inserted, Mans!GroupEnd, TP!GroupEnd
<1>2. (Mans!HMIInv <=> TP!HMIInv) /\ (Mans!HMIInv' <=> TP!HMIInv')
  BY DEF Mans!HMIInv, TP!HMIInv, Mans!Consistent, TP!Consistent, Mans!HMType, TP!HMType,
         Mans!Sorted, TP!Sorted, Mans!ServingOf, TP!ServingOf
<1>3. \A s : TP!Elements(s) = Elements(s)
  BY DEF TP!Elements, Elements
<1>. QED
  BY <1>1, <1>2, <1>3, ComponentAssumptions, TP!OfferEffect

\* The same when managers and entries are dropped.
LEMMA Dropping ==
    ASSUME Mans!HMIInv, NEW W \in SUBSET VfnPtrs, NEW M \in SUBSET HookMans, Mans!Drop(W, M)
    PROVE  /\ Mans!HMIInv'
           /\ hm'.known = hm.known \ M
           /\ \A v \in VfnPtrs : Elements(hm'.mans[v]) = (IF v \in W THEN {} ELSE Elements(hm.mans[v]) \ M)
<1>1. TP!Drop(W, M)
  BY Zenon DEF Mans!Drop, TP!Drop, Mans!Removed, TP!Removed, Mans!Serve, TP!Serve,
         Mans!Without, TP!Without, Mans!Reverted, TP!Reverted, Mans!NoRefs, TP!NoRefs
<1>2. (Mans!HMIInv <=> TP!HMIInv) /\ (Mans!HMIInv' <=> TP!HMIInv')
  BY DEF Mans!HMIInv, TP!HMIInv, Mans!Consistent, TP!Consistent, Mans!HMType, TP!HMType,
         Mans!Sorted, TP!Sorted, Mans!ServingOf, TP!ServingOf
<1>3. \A s : TP!Elements(s) = Elements(s)
  BY DEF TP!Elements, Elements
<1>4. TP!HMIInv
  BY <1>2
<1>5. /\ TP!HMIInv'
      /\ hm'.known = hm.known \ M
      /\ \A v \in VfnPtrs :
           TP!Elements(hm'.mans[v]) = (IF v \in W THEN {} ELSE TP!Elements(hm.mans[v]) \ M)
  BY <1>1, <1>4, ComponentAssumptions, TP!DropEffect
<1>. QED
  BY <1>2, <1>3, <1>5

\* No manager is known at first.
LEMMA NoManagers == Mans!HMInit => Mans!HMIInv
<1>1. Mans!HMInit <=> TP!HMInit
  BY DEF Mans!HMInit, TP!HMInit, Mans!NoRefs, TP!NoRefs
<1>2. Mans!HMIInv <=> TP!HMIInv
  BY DEF Mans!HMIInv, TP!HMIInv, Mans!Consistent, TP!Consistent, Mans!HMType, TP!HMType,
         Mans!Sorted, TP!Sorted, Mans!ServingOf, TP!ServingOf
<1>. QED
  BY <1>1, <1>2, ComponentAssumptions, TP!InitConsistent

\* A new hook gets an id no live hook has; the other ids keep their entries.
LEMMA Adding ==
    ASSUME Ids!IdTypeOK, NEW info \in Ids!Info, Ids!New(info)
    PROVE  LET id == Ids!NextId(entries)
           IN  /\ Ids!IdTypeOK'
               /\ id \in 1..MaxIds /\ id \notin Live
               /\ Live' = Live \union {id}
               /\ entries'[id] = info
               /\ \A h \in Live : entries'[h] = entries[h]
<1>1. Ids!Info = TP!Info
  BY DEF Ids!Info, TP!Info
<1>2. Ids!NextId(entries) = TP!NextId(entries)
  BY DEF Ids!NextId, TP!NextId, Ids!FreeSlots, TP!FreeSlots, Ids!LiveIdsOf, TP!LiveIdsOf
<1>3. entries' = TP!WithHook(entries, info) /\ TP!NextId(entries) <= MaxIds
  BY <1>2 DEF Ids!New, Ids!WithHook, TP!WithHook, Ids!NextId, TP!NextId, Ids!FreeSlots, TP!FreeSlots,
              Ids!LiveIdsOf, TP!LiveIdsOf
<1>4. Live = TP!LiveIdsOf(entries) /\ Live' = TP!LiveIdsOf(entries')
  BY DEF Live, Ids!LiveIds, Ids!LiveIdsOf, TP!LiveIdsOf
<1>5. entries \in Seq(TP!Info \union {FreeEntry}) /\ Len(entries) <= MaxIds
  BY <1>1 DEF Ids!IdTypeOK
<1>6. PICK es \in Seq(TP!Info \union {FreeEntry}) : es = entries
  BY <1>5
<1>7. /\ TP!NextId(es) \in 1..Len(es) + 1
      /\ TP!NextId(es) \notin TP!LiveIdsOf(es)
  BY ComponentAssumptions, TP!NextIdIsFree
<1>8. /\ TP!WithHook(es, info) \in Seq(TP!Info \union {FreeEntry})
      /\ Len(TP!WithHook(es, info)) = (IF TP!NextId(es) = Len(es) + 1 THEN Len(es) + 1 ELSE Len(es))
      /\ TP!LiveIdsOf(TP!WithHook(es, info)) = TP!LiveIdsOf(es) \union {TP!NextId(es)}
      /\ TP!WithHook(es, info)[TP!NextId(es)] = info
      /\ \A i \in TP!LiveIdsOf(es) : TP!WithHook(es, info)[i] = es[i]
  BY <1>1, ComponentAssumptions, TP!WithHookEntries
<1>9. Ids!IdTypeOK'
  BY <1>1, <1>3, <1>5, <1>6, <1>7, <1>8, BoundAssumption DEF Ids!IdTypeOK
<1>10. Ids!NextId(entries) \in 1..MaxIds
  BY <1>2, <1>3, <1>6, <1>7, BoundAssumption
<1>. QED
  BY <1>2, <1>3, <1>4, <1>6, <1>7, <1>8, <1>9, <1>10

\* Removing hooks frees their ids and leaves the other entries alone.
LEMMA Freeing ==
    ASSUME Ids!IdTypeOK, NEW S, entries' = Ids!WithoutHooks(entries, S)
    PROVE  /\ Ids!IdTypeOK'
           /\ Live' = Live \ S
           /\ \A h \in Live \ S : entries'[h] = entries[h]
<1>1. Ids!Info = TP!Info /\ entries' = TP!WithoutHooks(entries, S)
  BY DEF Ids!Info, TP!Info, Ids!WithoutHooks, TP!WithoutHooks
<1>2. Live = TP!LiveIdsOf(entries) /\ Live' = TP!LiveIdsOf(entries')
  BY DEF Live, Ids!LiveIds, Ids!LiveIdsOf, TP!LiveIdsOf
<1>3. PICK es \in Seq(TP!Info \union {FreeEntry}) : es = entries
  BY <1>1 DEF Ids!IdTypeOK
<1>4. /\ TP!WithoutHooks(es, S) \in Seq(TP!Info \union {FreeEntry})
      /\ Len(TP!WithoutHooks(es, S)) = Len(es)
      /\ TP!LiveIdsOf(TP!WithoutHooks(es, S)) = TP!LiveIdsOf(es) \ S
      /\ \A i \in TP!LiveIdsOf(es) \ S : TP!WithoutHooks(es, S)[i] = es[i]
  BY ComponentAssumptions, TP!WithoutHooksEntries
<1>. QED
  BY <1>1, <1>2, <1>3, <1>4 DEF Ids!IdTypeOK

-----------------------------------------------------------------------------
(* Lists *)

\* Only the empty list has no elements.
LEMMA EmptyElements ==
    ASSUME NEW S, NEW s \in Seq(S)
    PROVE  s = <<>> <=> Elements(s) = {}
<1>1. s # <<>> => 1 \in DOMAIN s
  OBVIOUS
<1>2. s = <<>> => DOMAIN s = {}
  OBVIOUS
<1>. QED
  BY <1>1, <1>2 DEF Elements

\* Appending an element the list does not have.
LEMMA AppendDistinct ==
    ASSUME NEW S, NEW s \in Seq(S), NEW x \in S
    PROVE  /\ Append(s, x) \in Seq(S)
           /\ Elements(Append(s, x)) = Elements(s) \union {x}
           /\ IsInjective(s) /\ x \notin Elements(s) => IsInjective(Append(s, x))
<1>. DEFINE t == Append(s, x)
<1>1. /\ t \in Seq(S) /\ Len(s) \in Nat /\ DOMAIN s = 1..Len(s)
      /\ DOMAIN t = 1..Len(s) + 1 /\ t[Len(s) + 1] = x /\ \A i \in 1..Len(s) : t[i] = s[i]
  OBVIOUS
<1>. HIDE DEF t
<1>2. Elements(t) = Elements(s) \union {x}
  BY <1>1 DEF Elements
<1>3. IsInjective(s) /\ x \notin Elements(s) => IsInjective(t)
  BY <1>1 DEF IsInjective, Elements
<1>. QED
  BY <1>1, <1>2, <1>3 DEF t

\* Erasing elements of such a list.
LEMMA WithoutDistinct ==
    ASSUME NEW S, NEW s \in Seq(S), NEW M, IsInjective(s)
    PROVE  IsInjective(Without(s, M))
<1>1. Without(s, M) \in Seq(S)
  BY WithoutIsSublist
<1>2. \A i, j \in DOMAIN Without(s, M) : i < j =>
         \E a, b \in DOMAIN s : a < b /\ Without(s, M)[i] = s[a] /\ Without(s, M)[j] = s[b]
  BY WithoutIsSublist
<1>3. ASSUME NEW i \in DOMAIN Without(s, M), NEW j \in DOMAIN Without(s, M), i < j
      PROVE  Without(s, M)[i] # Without(s, M)[j]
  <2>1. PICK a, b \in DOMAIN s : a < b /\ Without(s, M)[i] = s[a] /\ Without(s, M)[j] = s[b]
    BY <1>2, <1>3
  <2>. QED
    BY <2>1 DEF IsInjective
<1>. QED
  BY <1>1, <1>3 DEF IsInjective

\* Such a list is as long as it has elements.
LEMMA DistinctCardinality ==
    ASSUME NEW S, NEW s \in Seq(S), IsInjective(s)
    PROVE  Len(s) = Cardinality(Elements(s))
<1>1. Len(s) \in Nat /\ DOMAIN s = 1..Len(s)
  OBVIOUS
<1>2. s \in Bijection(1..Len(s), Elements(s))
  BY <1>1 DEF IsInjective, Elements, Bijection, Injection, Surjection
<1>3. IsFiniteSet(1..Len(s)) /\ Cardinality(1..Len(s)) = Len(s)
  BY <1>1, FS_Interval
<1>. QED
  BY <1>2, <1>3, FS_Bijection DEF ExistsBijection

-----------------------------------------------------------------------------
(* The registry's invariant *)

Site(h) == <<entries[h].vfnptr, entries[h].iface, entries[h].post>>
HooksOn(v) == {h \in Live : entries[h].vfnptr = v}

\* A live id is in exactly one list, once, the one its entry names, and a vtable
\* entry has managers exactly while it has hooks.
RegistryInv ==
    /\ Ids!IdTypeOK
    /\ Mans!HMIInv
    /\ hooks \in [Lists -> Seq(1..MaxIds)]
    /\ \A l \in Lists : IsInjective(hooks[l]) /\ Elements(hooks[l]) = {h \in Live : Site(h) = l}
    /\ \A v \in VfnPtrs : Elements(hm.mans[v]) # {} <=> HooksOn(v) # {}
    /\ paused \subseteq Live

\* A live entry is a complete one.
LEMMA LiveEntries ==
    ASSUME Ids!IdTypeOK
    PROVE  /\ Live \subseteq 1..MaxIds
           /\ \A h \in Live : entries[h] \in Ids!Info /\ Site(h) \in Lists
<1>1. \A h \in Live : entries[h] \in Ids!Info /\ h \in 1..MaxIds
  BY BoundAssumption DEF Live, Ids!LiveIds, Ids!LiveIdsOf, Ids!IdTypeOK
<1>2. \A h \in Live : Site(h) \in Lists
  BY <1>1 DEF Ids!Info, Site, Lists
<1>. QED
  BY <1>1, <1>2

\* What the hook lists of an entry hold.
LEMMA IdsOnEntry ==
    ASSUME NEW hs, NEW S, NEW v \in VfnPtrs, Ids!IdTypeOK, S \subseteq Live,
           \A l \in Lists : Elements(hs[l]) = {h \in S : Site(h) = l}
    PROVE  IdsOn(hs, v) = {h \in S : entries[h].vfnptr = v}
<1>1. \A h \in S : Site(h) \in Lists /\ Site(h)[1] = entries[h].vfnptr
  BY LiveEntries DEF Site
<1>2. IdsOn(hs, v) = UNION {Elements(hs[l]) : l \in {k \in Lists : k[1] = v}}
  BY DEF IdsOn, ToSet, Elements
<1>3. ASSUME NEW h
      PROVE  h \in IdsOn(hs, v) <=> \E l \in Lists : l[1] = v /\ h \in Elements(hs[l])
  BY <1>2
<1>. QED
  BY <1>1, <1>3

\* EndContext, as far as the pending unloads go.
Resolve ==
    /\ pending' = [i \in DOMAIN Waiting |-> Deactivated(Waiting[i])]
    /\ gone' = gone \union {u.plug : u \in RipeUnloads}

\* UnloadPlugin retires hooks and managers that are there.
LEMMA UnloadRetires ==
    ASSUME RegistryInv, NEW p
    PROVE  Ids!HooksOfPlugin(entries, p) \in SUBSET Live /\ ManagersOf(p) \in SUBSET HookMans
  BY DEF Ids!HooksOfPlugin, Live, Ids!LiveIds, ManagersOf, RegistryInv, Mans!HMIInv, Mans!Consistent, Mans!HMType

\* Every step adds a hook, retires hooks and managers, unloads a plugin, or leaves the
\* hooks and managers alone.
LEMMA Steps ==
    ASSUME RegistryInv, Next
    PROVE  \/ \E m \in HookMans, handler \in Handlers, l \in Sites : AddHook(m, handler, l)
           \/ \E R \in SUBSET Live, M \in SUBSET HookMans : Retire(R, M) /\ UNCHANGED <<pending, gone>>
           \/ \E p \in Plugins : UnloadPlugin(p)
           \/ /\ UNCHANGED <<entries, hm, hooks>>
              /\ paused' \subseteq Live
              /\ UNCHANGED <<pending, gone>> \/ Resolve \/ \E p \in Plugins : LoadPlugin(p)
<1>1. paused \subseteq Live
  BY DEF RegistryInv
<1>2. CASE Continue
  BY <1>1, <1>2 DEF Continue, NextHandler, PreLoopEnds, OrigReturns, HookfuncReturns, RecallReturns,
                    CalleeReturns, HandlerReturns, EndContext, Resolve
<1>3. CASE \E v \in VfnPtrs, obj \in Objects : Call(v, obj) \/ ShCall(v, obj)
  BY <1>1, <1>3 DEF Call, ShCall
<1>4. CASE \E sup \in BOOLEAN : Recall(sup)
  BY <1>1, <1>4 DEF Recall
<1>5. CASE \E h \in 1..MaxIds : RemoveHookByID(h)
  BY <1>5 DEF RemoveHookByID
<1>6. CASE \E h \in 1..MaxIds : PauseHook(h) \/ UnpauseHook(h)
  BY <1>1, <1>6 DEF PauseHook, UnpauseHook
<1>7. CASE \E info \in Ids!Info : RemoveHook(info)
  <2>1. PICK info \in Ids!Info : RemoveHook(info)
    BY <1>7
  <2>2. Ids!HooksMatching(entries, info) \in SUBSET Live /\ {} \in SUBSET HookMans
    BY DEF Ids!HooksMatching, Live, Ids!LiveIds
  <2>. QED
    BY <2>1, <2>2 DEF RemoveHook
<1>8. CASE \E m \in HookMans : RemoveHookManager(m)
  BY <1>8 DEF RemoveHookManager
<1>9. CASE \E p \in Plugins : LoadPlugin(p)
  BY <1>1, <1>9 DEF LoadPlugin
<1>. QED
  BY <1>2, <1>3, <1>4, <1>5, <1>6, <1>7, <1>8, <1>9 DEF Next, Client

\* AddHook puts the new id into the list its entry names and offers a manager.
LEMMA AddHookKeepsRegistry ==
    ASSUME RegistryInv, NEW m \in HookMans, NEW handler \in Handlers, NEW l \in Sites,
           AddHook(m, handler, l)
    PROVE  RegistryInv'
<1>. DEFINE info == [vfnptr |-> l[1], iface |-> l[2], plug |-> OwnerOf[m], handler |-> handler, post |-> l[3]]
<1>1. l \in Lists /\ l[1] \in VfnPtrs /\ <<info.vfnptr, info.iface, info.post>> = l
  BY SiteAssumption DEF Lists
<1>2. info \in Ids!Info /\ info.vfnptr = l[1]
  BY <1>1, OwnerAssumption DEF Ids!Info, Lists
<1>3. PICK id : id = Ids!NextId(entries)
  OBVIOUS
<1>. HIDE DEF info
<1>4. /\ Ids!IdTypeOK'
      /\ id \in 1..MaxIds /\ id \notin Live
      /\ Live' = Live \union {id}
      /\ entries'[id] = info
      /\ \A h \in Live : entries'[h] = entries[h]
  <2>1. Ids!New(info)
    BY DEF AddHook, info
  <2>. QED
    BY <1>2, <1>3, <2>1, Adding DEF RegistryInv
<1>5. /\ Mans!HMIInv'
      /\ Elements(hm'.mans[l[1]]) = Elements(hm.mans[l[1]]) \union {m}
      /\ \A w \in VfnPtrs \ {l[1]} : hm'.mans[w] = hm.mans[w]
  <2>1. Mans!Offer(l[1], m)
    BY DEF AddHook
  <2>. QED
    BY <1>1, <2>1, Offering DEF RegistryInv
<1>6. hooks' = [hooks EXCEPT ![l] = Append(@, id)] /\ paused' = paused
  BY <1>3 DEF AddHook
<1>7. Site(id)' = l /\ \A h \in Live : Site(h)' = Site(h)
  BY <1>1, <1>4 DEF Site
<1>8. ASSUME NEW k \in Lists
      PROVE  /\ hooks'[k] \in Seq(1..MaxIds)
             /\ IsInjective(hooks'[k])
             /\ Elements(hooks'[k]) = {h \in Live' : Site(h)' = k}
  <2>1. /\ hooks[k] \in Seq(1..MaxIds) /\ IsInjective(hooks[k])
        /\ Elements(hooks[k]) = {h \in Live : Site(h) = k}
    BY DEF RegistryInv
  <2>2. CASE k = l
    <3>1. hooks'[k] = Append(hooks[k], id)
      BY <1>1, <1>6, <2>2 DEF RegistryInv
    <3>2. id \notin Elements(hooks[k])
      BY <1>4, <2>1
    <3>3. PICK s \in Seq(1..MaxIds) : s = hooks[k]
      BY <2>1
    <3>4. /\ Append(s, id) \in Seq(1..MaxIds)
          /\ Elements(Append(s, id)) = Elements(s) \union {id}
          /\ IsInjective(Append(s, id))
      <4>1. PICK T : T = 1..MaxIds
        OBVIOUS
      <4>2. s \in Seq(T) /\ id \in T /\ IsInjective(s) /\ id \notin Elements(s)
        BY <1>4, <2>1, <3>2, <3>3, <4>1
      <4>3. Append(s, id) \in Seq(T) /\ IsInjective(Append(s, id))
        BY <4>2, AppendDistinct
      <4>4. Elements(Append(s, id)) = Elements(s) \union {id}
        BY <4>2, AppendDistinct
      <4>. QED
        BY <4>1, <4>3, <4>4
    <3>. QED
      BY <1>4, <1>7, <2>1, <2>2, <3>1, <3>3, <3>4
  <2>3. CASE k # l
    <3>1. hooks'[k] = hooks[k]
      BY <1>6, <2>3 DEF RegistryInv
    <3>. QED
      BY <1>4, <1>7, <2>1, <2>3, <3>1
  <2>. QED
    BY <2>2, <2>3
<1>9. hooks' \in [Lists -> Seq(1..MaxIds)]
  <2>1. DOMAIN hooks' = Lists /\ hooks' = [k \in Lists |-> hooks'[k]]
    BY <1>6 DEF RegistryInv
  <2>. QED
    BY <1>8, <2>1
<1>10. ASSUME NEW v \in VfnPtrs
       PROVE  Elements(hm'.mans[v]) # {} <=> HooksOn(v)' # {}
  <2>1. Elements(hm.mans[v]) # {} <=> HooksOn(v) # {}
    BY DEF RegistryInv
  <2>2. entries'[id].vfnptr = l[1]
    BY <1>2, <1>4
  <2>3. HooksOn(v)' = HooksOn(v) \union (IF v = l[1] THEN {id} ELSE {})
    BY <1>4, <2>2 DEF HooksOn
  <2>. QED
    BY <1>5, <2>1, <2>3
<1>11. paused' \subseteq Live'
  BY <1>4, <1>6 DEF RegistryInv
<1>. QED
  BY <1>4, <1>5, <1>8, <1>9, <1>10, <1>11 DEF RegistryInv

\* When the hooks R and the managers M are retired: the entries that lose their last
\* hook, those that only lose their last manager, and the hooks that go.
Emptied(R) == {v \in VfnPtrs : HooksOn(v) # {} /\ HooksOn(v) \subseteq R}
Unserved(R, M) ==
    {v \in VfnPtrs \ Emptied(R) : Elements(hm.mans[v]) # {} /\ Elements(hm.mans[v]) \subseteq M}
Lost(R, M) == R \union {h \in Live : entries[h].vfnptr \in Unserved(R, M)}
Left(R) == [l \in Lists |-> Without(hooks[l], R)]

\* What Retire does, in these terms.
LEMMA RetireEffect ==
    ASSUME RegistryInv, NEW R \in SUBSET Live, NEW M \in SUBSET HookMans, Retire(R, M)
    PROVE  /\ Mans!Drop(Emptied(R), M)
           /\ entries' = Ids!WithoutHooks(entries, Lost(R, M))
           /\ hooks' = [l \in Lists |-> IF l[1] \in Unserved(R, M) THEN <<>> ELSE Left(R)[l]]
           /\ paused' = paused \ Lost(R, M)
           /\ ctxs' = [i \in DOMAIN ctxs |->
                         Orphaned(Notified(ctxs[i], R, Emptied(R), Left(R)), Unserved(R, M))]
           /\ frames' = [i \in DOMAIN frames |->
                 [frames[i] EXCEPT !.due = @ \ Lost(R, M), !.done = @ \ Lost(R, M),
                     !.thunk = IF frames[i].v \in Odd \cap (Emptied(R) \union Unserved(R, M)) /\ @ = 0
                               THEN CleanupSlot(frames[i].v) ELSE @]]
<1>. DEFINE left == [l \in Lists |-> Without(hooks[l], R)]
            W1 == {entries[h].vfnptr : h \in R} \cap {v \in VfnPtrs : IdsOn(left, v) = {}}
            W2 == {v \in VfnPtrs \ W1 : hm.mans[v] # <<>> /\ ToSet(hm.mans[v]) \subseteq M}
            lost == R \union UNION {Ids!HooksOnVfnPtr(entries, v) : v \in W2}
<1>1. Ids!IdTypeOK /\ R \subseteq Live
  BY DEF RegistryInv
<1>2. \A l \in Lists : Elements(left[l]) = {h \in Live \ R : Site(h) = l}
  <2>. SUFFICES ASSUME NEW l \in Lists
                PROVE  Elements(Without(hooks[l], R)) = {h \in Live \ R : Site(h) = l}
    OBVIOUS
  <2>1. hooks[l] \in Seq(1..MaxIds) /\ Elements(hooks[l]) = {h \in Live : Site(h) = l}
    BY DEF RegistryInv
  <2>2. Elements(Without(hooks[l], R)) = Elements(hooks[l]) \ R
    BY <2>1, WithoutIsSublist
  <2>. QED
    BY <2>1, <2>2
<1>3. \A v \in VfnPtrs : IdsOn(left, v) = {h \in Live \ R : entries[h].vfnptr = v}
  <2>. SUFFICES ASSUME NEW v \in VfnPtrs
                PROVE  IdsOn(left, v) = {h \in Live \ R : entries[h].vfnptr = v}
    OBVIOUS
  <2>1. PICK hs, S : hs = left /\ S = Live \ R
    OBVIOUS
  <2>. HIDE DEF left
  <2>2. \A l \in Lists : Elements(hs[l]) = {h \in S : Site(h) = l}
    BY <1>2, <2>1
  <2>3. IdsOn(hs, v) = {h \in S : entries[h].vfnptr = v}
    BY <1>1, <2>1, <2>2, IdsOnEntry
  <2>. QED
    BY <2>1, <2>3
<1>4. W1 = Emptied(R)
  <2>. HIDE DEF left
  <2>1. \A h \in Live : entries[h].vfnptr \in VfnPtrs
    BY <1>1, LiveEntries DEF Ids!Info
  <2>. QED
    BY <1>1, <1>3, <2>1 DEF HooksOn, Emptied
<1>5. \A v \in VfnPtrs : ToSet(hm.mans[v]) = Elements(hm.mans[v]) /\ (hm.mans[v] # <<>> <=> Elements(hm.mans[v]) # {})
  <2>1. \A v \in VfnPtrs : hm.mans[v] \in Seq(HookMans)
    BY DEF RegistryInv, Mans!HMIInv, Mans!Consistent, Mans!HMType
  <2>2. \A v \in VfnPtrs : hm.mans[v] = <<>> <=> Elements(hm.mans[v]) = {}
    BY <2>1, EmptyElements
  <2>. QED
    BY <2>2 DEF ToSet, Elements
<1>6. W2 = Unserved(R, M)
  <2>. HIDE DEF W1
  <2>. QED
    BY <1>4, <1>5 DEF Unserved
<1>7. lost = Lost(R, M)
  <2>. HIDE DEF W2
  <2>. QED
    BY <1>1, <1>6 DEF Lost, Ids!HooksOnVfnPtr, Live, Ids!LiveIds
<1>8. Mans!Drop(W1, M)
  BY DEF Retire, ManagersAfter, Mans!Drop
<1>9. entries' = Ids!WithoutHooks(entries, lost) /\ paused' = paused \ lost
  BY DEF Retire
<1>10. hooks' = [l \in Lists |-> IF l[1] \in W2 THEN <<>> ELSE left[l]]
  BY DEF Retire
<1>11. ctxs' = [i \in DOMAIN ctxs |-> Orphaned(Notified(ctxs[i], R, W1, left), W2)]
  BY DEF Retire
<1>12. frames' = [i \in DOMAIN frames |->
          [frames[i] EXCEPT !.due = @ \ lost, !.done = @ \ lost,
              !.thunk = IF frames[i].v \in Odd \cap (W1 \union W2) /\ @ = 0
                        THEN CleanupSlot(frames[i].v) ELSE @]]
  BY DEF Retire
<1>13. left = Left(R)
  BY DEF Left
<1>. HIDE DEF W1, W2, lost, left
<1>. QED
  BY <1>4, <1>6, <1>7, <1>8, <1>9, <1>10, <1>11, <1>12, <1>13

\* Retiring hooks and managers empties exactly the lists it should.
LEMMA RetireKeepsRegistry ==
    ASSUME RegistryInv, NEW R \in SUBSET Live, NEW M \in SUBSET HookMans, Retire(R, M)
    PROVE  RegistryInv'
<1>. DEFINE W1 == Emptied(R)
            W2 == Unserved(R, M)
            lost == Lost(R, M)
<1>1. /\ W2 = {v \in VfnPtrs \ W1 : Elements(hm.mans[v]) # {} /\ Elements(hm.mans[v]) \subseteq M}
      /\ W1 = {v \in VfnPtrs : HooksOn(v) # {} /\ HooksOn(v) \subseteq R}
      /\ lost = R \union {h \in Live : entries[h].vfnptr \in W2}
      /\ Mans!Drop(W1, M)
      /\ entries' = Ids!WithoutHooks(entries, lost)
      /\ hooks' = [l \in Lists |-> IF l[1] \in W2 THEN <<>> ELSE Without(hooks[l], R)]
      /\ paused' = paused \ lost
  <2>1. hooks' = [l \in Lists |-> IF l[1] \in W2 THEN <<>> ELSE Left(R)[l]]
    BY RetireEffect
  <2>2. Mans!Drop(W1, M) /\ entries' = Ids!WithoutHooks(entries, lost) /\ paused' = paused \ lost
    BY RetireEffect
  <2>3. \A l \in Lists : Left(R)[l] = Without(hooks[l], R)
    BY DEF Left
  <2>. QED
    BY <2>1, <2>2, <2>3 DEF Emptied, Unserved, Lost
<1>. HIDE DEF W1, W2, lost
<1>2. /\ Ids!IdTypeOK'
      /\ Live' = Live \ lost
      /\ \A h \in Live \ lost : entries'[h] = entries[h]
  BY <1>1, Freeing DEF RegistryInv
<1>3. /\ Mans!HMIInv'
      /\ \A v \in VfnPtrs : Elements(hm'.mans[v]) = (IF v \in W1 THEN {} ELSE Elements(hm.mans[v]) \ M)
  BY <1>1, Dropping DEF RegistryInv
<1>4. \A h \in Live' : h \in Live /\ Site(h)' = Site(h) /\ Site(h) \in Lists /\ Site(h)[1] = entries[h].vfnptr
  BY <1>2, LiveEntries DEF Site, RegistryInv
<1>5. ASSUME NEW l \in Lists
      PROVE  /\ hooks'[l] \in Seq(1..MaxIds)
             /\ IsInjective(hooks'[l])
             /\ Elements(hooks'[l]) = {h \in Live' : Site(h)' = l}
  <2>1. CASE l[1] \in W2
    <3>1. hooks'[l] = <<>>
      BY <1>1, <2>1
    <3>2. \A h \in Live' : Site(h)' # l
      BY <1>1, <1>2, <1>4, <2>1
    <3>. QED
      BY <3>1, <3>2 DEF IsInjective, Elements
  <2>2. CASE l[1] \notin W2
    <3>1. PICK s \in Seq(1..MaxIds) : s = hooks[l]
      BY DEF RegistryInv
    <3>2. hooks'[l] = Without(s, R)
      BY <1>1, <2>2, <3>1
    <3>3. IsInjective(s) /\ Elements(s) = {h \in Live : Site(h) = l}
      BY <3>1 DEF RegistryInv
    <3>4. Without(s, R) \in Seq(1..MaxIds) /\ Elements(Without(s, R)) = Elements(s) \ R
      BY WithoutIsSublist
    <3>5. IsInjective(Without(s, R))
      BY <3>3, WithoutDistinct
    <3>6. Elements(s) \ R = {h \in Live' : Site(h)' = l}
      <4>1. \A h \in Live : Site(h) = l => entries[h].vfnptr = l[1]
        BY DEF Site
      <4>2. \A h \in Live : Site(h) = l => (h \in lost <=> h \in R)
        BY <1>1, <2>2, <4>1
      <4>. QED
        BY <1>1, <1>2, <1>4, <3>3, <4>2
    <3>. QED
      BY <3>2, <3>4, <3>5, <3>6
  <2>. QED
    BY <2>1, <2>2
<1>6. hooks' \in [Lists -> Seq(1..MaxIds)]
  <2>1. hooks' = [l \in Lists |-> hooks'[l]]
    BY <1>1
  <2>. QED
    BY <1>5, <2>1
<1>7. ASSUME NEW v \in VfnPtrs
      PROVE  Elements(hm'.mans[v]) # {} <=> HooksOn(v)' # {}
  <2>1. Elements(hm.mans[v]) # {} <=> HooksOn(v) # {}
    BY DEF RegistryInv
  <2>2. HooksOn(v)' = HooksOn(v) \ lost
    BY <1>2 DEF HooksOn
  <2>3. HooksOn(v) \ lost = IF v \in W2 THEN {} ELSE HooksOn(v) \ R
    BY <1>1 DEF HooksOn
  <2>. QED
    BY <1>1, <1>3, <2>1, <2>2, <2>3
<1>8. paused' \subseteq Live'
  BY <1>1, <1>2 DEF RegistryInv
<1>. QED
  BY <1>2, <1>3, <1>5, <1>6, <1>7, <1>8 DEF RegistryInv

\* Every step keeps the registry in agreement.
LEMMA RegistryInductive ==
    /\ Init => RegistryInv
    /\ RegistryInv /\ [Next]_vars => RegistryInv'
<1>1. ASSUME Init
      PROVE  RegistryInv
  <2>1. Ids!IdTypeOK /\ Live = {}
    BY <1>1, BoundAssumption DEF Init, Ids!IdInit, Ids!IdTypeOK, Live, Ids!LiveIds, Ids!LiveIdsOf
  <2>2. Mans!HMIInv /\ \A v \in VfnPtrs : Elements(hm.mans[v]) = {}
    BY <1>1, NoManagers DEF Init, Mans!HMInit, Elements
  <2>3. hooks = [l \in Lists |-> <<>>] /\ hooks \in [Lists -> Seq(1..MaxIds)]
    BY <1>1 DEF Init
  <2>4. \A l \in Lists : IsInjective(hooks[l]) /\ Elements(hooks[l]) = {h \in Live : Site(h) = l}
    BY <2>1, <2>3 DEF IsInjective, Elements
  <2>5. \A v \in VfnPtrs : HooksOn(v) = {}
    BY <2>1 DEF HooksOn
  <2>. QED
    BY <1>1, <2>1, <2>2, <2>3, <2>4, <2>5 DEF Init, RegistryInv
<1>2. ASSUME RegistryInv, [Next]_vars
      PROVE  RegistryInv'
  <2>1. ASSUME UNCHANGED <<entries, hm, hooks>>, paused' \subseteq Live
        PROVE  RegistryInv'
    BY <1>2, <2>1 DEF RegistryInv, Ids!IdTypeOK, Mans!HMIInv, Live, Ids!LiveIds, HooksOn, Site
  <2>2. CASE UNCHANGED vars
    BY <1>2, <2>1, <2>2 DEF vars, RegistryInv
  <2>3. ASSUME NEW p \in Plugins, UnloadPlugin(p)
        PROVE  RegistryInv'
    BY <1>2, <2>3, UnloadRetires, RetireKeepsRegistry DEF UnloadPlugin
  <2>. QED
    BY <1>2, <2>1, <2>2, <2>3, Steps, AddHookKeepsRegistry, RetireKeepsRegistry
<1>. QED
  BY <1>1, <1>2

\* The invariant of the registry holds in every reachable state.
THEOREM RegistryInvariant == Spec => []RegistryInv
  BY RegistryInductive, PTL DEF Spec

\* The id table, the hook lists and the patched entries tell the same story,
\* whatever hooks are added and removed in whatever loops.
THEOREM RegistryAlwaysAgrees == Spec => []RegistryAgrees
<1>1. ASSUME RegistryInv
      PROVE  RegistryAgrees
  <2>1. ASSUME NEW l \in Lists
        PROVE  /\ Len(hooks[l]) = Cardinality(ToSet(hooks[l]))
               /\ ToSet(hooks[l]) = {h \in Live : <<entries[h].vfnptr, entries[h].iface, entries[h].post>> = l}
    <3>1. PICK s \in Seq(1..MaxIds) : s = hooks[l]
      BY <1>1 DEF RegistryInv
    <3>2. IsInjective(s) /\ Elements(s) = {h \in Live : Site(h) = l}
      BY <1>1, <3>1 DEF RegistryInv
    <3>3. Len(s) = Cardinality(Elements(s))
      BY <3>2, DistinctCardinality
    <3>. QED
      BY <3>1, <3>2, <3>3 DEF ToSet, Elements, Site
  <2>2. ASSUME NEW v \in VfnPtrs
        PROVE  hm.mans[v] # <<>> <=> IdsOn(hooks, v) # {}
    <3>1. PICK s \in Seq(HookMans) : s = hm.mans[v]
      BY <1>1 DEF RegistryInv, Mans!HMIInv, Mans!Consistent, Mans!HMType
    <3>2. s = <<>> <=> Elements(s) = {}
      BY EmptyElements
    <3>3. PICK hs, S : hs = hooks /\ S = Live
      OBVIOUS
    <3>4. IdsOn(hs, v) = {h \in S : entries[h].vfnptr = v}
      <4>1. Ids!IdTypeOK /\ \A l \in Lists : Elements(hs[l]) = {h \in S : Site(h) = l}
        BY <1>1, <3>3 DEF RegistryInv
      <4>. QED
        BY <3>3, <4>1, IdsOnEntry
    <3>. QED
      BY <1>1, <3>1, <3>2, <3>3, <3>4 DEF RegistryInv, HooksOn
  <2>. QED
    BY <1>1, <2>1, <2>2 DEF RegistryAgrees, RegistryInv
<1>. QED
  BY <1>1, RegistryInvariant, PTL

-----------------------------------------------------------------------------
(* The registry of managers *)

\* Every step offers a manager, drops entries and managers, or leaves them alone.
LEMMA ManagersStep ==
    ASSUME RegistryInv, [Next]_vars
    PROVE  [Mans!HMNext]_hm
<1>1. ASSUME NEW m \in HookMans, NEW handler \in Handlers, NEW l \in Sites, AddHook(m, handler, l)
      PROVE  Mans!HMNext
  <2>1. l[1] \in VfnPtrs
    BY SiteAssumption DEF Lists
  <2>. QED
    BY <1>1, <2>1 DEF AddHook, Mans!HMNext
<1>2. ASSUME NEW R \in SUBSET Live, NEW M \in SUBSET HookMans, Retire(R, M)
      PROVE  Mans!HMNext
  <2>1. Emptied(R) \in SUBSET VfnPtrs
    BY DEF Emptied
  <2>2. Mans!Drop(Emptied(R), M)
    BY <1>2, RetireEffect
  <2>. QED
    BY <2>1, <2>2 DEF Mans!HMNext
<1>3. ASSUME NEW p \in Plugins, UnloadPlugin(p)
      PROVE  Mans!HMNext
  BY <1>2, <1>3, UnloadRetires DEF UnloadPlugin
<1>. QED
  BY <1>1, <1>2, <1>3, Steps DEF vars

\* Whatever hooks are added and removed and whatever plugins are unloaded, the hook
\* managers do what their own specification says.
THEOREM ManagersImplemented == Spec => ImplementsManagers
<1>1. Init => Mans!HMInit
  BY DEF Init
<1>. QED
  BY <1>1, ManagersStep, RegistryInvariant, PTL DEF Spec, ImplementsManagers, Mans!HMSpec

\* The manager in a patched entry knows the entry.
LEMMA FindsEntry ==
    ASSUME RegistryInv, NEW v \in VfnPtrs, hm.vtable[v] # Orig
    PROVE  /\ hm.vtable[v] \in hm.registered /\ v \in hm.served[hm.vtable[v]]
           /\ hm.vtable[v] \in Elements(hm.mans[v]) /\ hm.vtable[v] \in HookMans
<1>1. /\ Mans!Consistent(hm) /\ hm.vtable[v] \in HookMans
      /\ hm.vtable[v] = Mans!ServingOf(hm, v) /\ hm.mans[v] \in Seq(HookMans)
  BY DEF RegistryInv, Mans!HMIInv, Mans!Consistent, Mans!HMType
<1>2. v \in hm.served[hm.vtable[v]]
  BY <1>1 DEF Mans!Consistent
<1>3. hm.vtable[v] \in Elements(hm.mans[v])
  BY <1>1 DEF Mans!ServingOf, Elements
<1>. QED
  BY <1>1, <1>2, <1>3 DEF Mans!Consistent

\* So SetupHookLoop, called through a patched entry, always finds the entry in the
\* manager whose hookfunc it is ("How can a hook exist on a vfnptr which we don't
\* have in our db" cannot fail).
THEOREM SetupFindsEntry == Spec => []Mans!HookfuncFindsEntry
<1>1. RegistryInv => Mans!HookfuncFindsEntry
  BY FindsEntry DEF Mans!HookfuncFindsEntry
<1>. QED
  BY <1>1, RegistryInvariant, PTL

-----------------------------------------------------------------------------
(* Plugins *)

PendingType == pending \in Seq([plug : Plugins, deactivated : BOOLEAN]) /\ gone \subseteq Plugins

\* Only known managers are in an entry's list.
KnownInv ==
    /\ PendingType
    /\ \A v \in VfnPtrs : Elements(hm.mans[v]) \subseteq hm.known

\* Hooks and known managers belong to plugins that are not unloaded, nor about to be.
OwnersInv ==
    /\ KnownInv
    /\ \A h \in Live : Active(entries[h].plug)
    /\ \A m \in hm.known : Active(OwnerOf[m])

\* Plugins whose unload is pending add no hooks.
NoLateAdds == "late add" \notin IdleOps \union HandlerOps \union BodyOps

\* Resolving the pending unloads carries out the ripe ones and marks the others ripe.
LEMMA ResolveEffect ==
    ASSUME PendingType, Resolve
    PROVE  /\ PendingType'
           /\ \A u \in Elements(pending') :
                \E w \in Elements(pending) : ~Ripe(w) /\ u = Deactivated(w) /\ u.plug = w.plug
           /\ \A w \in Elements(pending) : ~Ripe(w) => Deactivated(w) \in Elements(pending')
           /\ \A p : Active(p)' <=> Active(p)
<1>. DEFINE U == [plug : Plugins, deactivated : BOOLEAN]
<1>1. PICK s \in Seq(U) : s = pending
  BY DEF PendingType
<1>. HIDE DEF U
<1>2. PICK w : w = Waiting
  OBVIOUS
<1>3. RipeUnloads = {u \in Elements(s) : Ripe(u)} /\ Elements(s) \subseteq U
  BY <1>1 DEF RipeUnloads, ToSet, Elements
<1>4. w \in Seq(U) /\ Elements(w) = {u \in Elements(s) : ~Ripe(u)}
  <2>1. w = Without(s, RipeUnloads)
    BY <1>1, <1>2 DEF Waiting
  <2>2. Without(s, RipeUnloads) \in Seq(U) /\ Elements(Without(s, RipeUnloads)) = Elements(s) \ RipeUnloads
    BY WithoutIsSublist
  <2>. QED
    BY <1>3, <2>1, <2>2
<1>5. \A u \in U : Deactivated(u) \in U /\ Deactivated(u).plug = u.plug
  BY DEF Deactivated, U
<1>6. pending' = [i \in DOMAIN w |-> Deactivated(w[i])] /\ gone' = gone \union {u.plug : u \in RipeUnloads}
  BY <1>2 DEF Resolve
<1>7. \A i \in DOMAIN w : w[i] \in U
  BY <1>4
<1>8. pending' \in Seq(U) /\ Elements(pending') = {Deactivated(u) : u \in Elements(w)}
  <2>1. w \in Seq(U) /\ \A i \in DOMAIN w : Deactivated(w[i]) \in U
    BY <1>4, <1>5, <1>7
  <2>2. pending' \in Seq(U)
    BY <1>6, <2>1
  <2>3. Elements(pending') = {Deactivated(u) : u \in Elements(w)}
    BY <1>6 DEF Elements
  <2>. QED
    BY <2>2, <2>3
<1>9. gone \subseteq Plugins /\ \A u \in U : u.plug \in Plugins
  BY DEF PendingType, U
<1>10. PendingType'
  BY <1>3, <1>6, <1>8, <1>9 DEF PendingType, U
<1>11. ASSUME NEW p
       PROVE  Active(p)' <=> Active(p)
  <2>1. Active(p) <=> p \notin gone /\ \A u \in Elements(s) : u.plug # p
    BY <1>1 DEF Active, ToSet, Elements
  <2>2. Active(p)' <=> p \notin gone' /\ \A u \in Elements(pending') : u.plug # p
    BY DEF Active, ToSet, Elements
  <2>3. p \in gone' <=> p \in gone \/ \E u \in Elements(s) : Ripe(u) /\ u.plug = p
    BY <1>3, <1>6
  <2>4. (\E u \in Elements(pending') : u.plug = p) <=> \E u \in Elements(s) : ~Ripe(u) /\ u.plug = p
    BY <1>3, <1>4, <1>5, <1>8
  <2>. QED
    BY <2>1, <2>2, <2>3, <2>4
<1>12. ASSUME NEW u \in Elements(pending')
       PROVE  \E x \in Elements(pending) : ~Ripe(x) /\ u = Deactivated(x) /\ u.plug = x.plug
  BY <1>1, <1>3, <1>4, <1>5, <1>8, <1>12
<1>13. \A x \in Elements(pending) : ~Ripe(x) => Deactivated(x) \in Elements(pending')
  BY <1>1, <1>4, <1>8
<1>. QED
  BY <1>10, <1>11, <1>12, <1>13

\* What is retired leaves the hooks and managers that stay with their plugins.
LEMMA RetireKeepsOwners ==
    ASSUME RegistryInv, KnownInv, NEW R \in SUBSET Live, NEW M \in SUBSET HookMans, Retire(R, M)
    PROVE  /\ \A h \in Live' : h \in Live \ R /\ entries'[h] = entries[h]
           /\ hm'.known = hm.known \ M
           /\ \A v \in VfnPtrs : Elements(hm'.mans[v]) \subseteq hm'.known
<1>1. /\ Mans!Drop(Emptied(R), M)
      /\ entries' = Ids!WithoutHooks(entries, Lost(R, M))
  BY RetireEffect
<1>2. Live' = Live \ Lost(R, M) /\ \A h \in Live \ Lost(R, M) : entries'[h] = entries[h]
  BY <1>1, Freeing DEF RegistryInv
<1>3. R \subseteq Lost(R, M) /\ Emptied(R) \in SUBSET VfnPtrs
  BY DEF Lost, Emptied
<1>4. /\ hm'.known = hm.known \ M
      /\ \A v \in VfnPtrs : Elements(hm'.mans[v]) = (IF v \in Emptied(R) THEN {} ELSE Elements(hm.mans[v]) \ M)
  BY <1>1, <1>3, Dropping DEF RegistryInv
<1>. QED
  BY <1>2, <1>3, <1>4 DEF KnownInv

\* What UnloadPlugin does to the pending unloads disturbs no other plugin.
LEMMA UnloadPends ==
    ASSUME PendingType, NEW p \in Plugins, UnloadPlugin(p)
    PROVE  PendingType' /\ \A q : q # p /\ Active(q) => Active(q)'
<1>. DEFINE u == [plug |-> p, deactivated |-> FALSE]
            U == [plug : Plugins, deactivated : BOOLEAN]
<1>1. u \in U /\ u.plug = p
  OBVIOUS
<1>2. PICK s \in Seq(U) : s = pending
  BY DEF PendingType
<1>3. gone \subseteq Plugins
  BY DEF PendingType
<1>4. CASE gone' = gone \union {p} /\ UNCHANGED pending
  BY <1>2, <1>3, <1>4 DEF PendingType, Active
<1>5. CASE pending' = Append(pending, u) /\ UNCHANGED gone
  <2>. HIDE DEF u, U
  <2>1. pending' \in Seq(U) /\ Elements(pending') = Elements(s) \union {u}
    BY <1>1, <1>2, <1>5, AppendDistinct
  <2>2. ASSUME NEW q, q # p, Active(q)
        PROVE  Active(q)'
    BY <1>1, <1>2, <1>5, <2>1, <2>2 DEF Active, ToSet, Elements
  <2>3. PendingType'
    BY <1>3, <1>5, <2>1 DEF PendingType, U
  <2>. QED
    BY <2>2, <2>3
<1>. QED
  BY <1>4, <1>5 DEF UnloadPlugin

\* A manager gets into a list with AddHook, and RemoveHookManager and UnloadPlugin
\* take it out of the lists and of what is known.
LEMMA KnownInductive ==
    /\ Init => KnownInv
    /\ RegistryInv /\ KnownInv /\ [Next]_vars => KnownInv'
<1>1. ASSUME Init
      PROVE  KnownInv
  BY <1>1 DEF Init, Mans!HMInit, Elements, KnownInv, PendingType
<1>2. ASSUME RegistryInv, KnownInv, [Next]_vars
      PROVE  KnownInv'
  <2>1. ASSUME NEW m \in HookMans, NEW handler \in Handlers, NEW l \in Sites, AddHook(m, handler, l)
        PROVE  KnownInv'
    <3>1. l[1] \in VfnPtrs
      BY SiteAssumption DEF Lists
    <3>2. Mans!Offer(l[1], m) /\ UNCHANGED <<pending, gone>>
      BY <2>1 DEF AddHook
    <3>3. /\ hm'.known = hm.known \union {m}
          /\ Elements(hm'.mans[l[1]]) = Elements(hm.mans[l[1]]) \union {m}
          /\ \A w \in VfnPtrs \ {l[1]} : hm'.mans[w] = hm.mans[w]
      BY <1>2, <3>1, <3>2, Offering DEF RegistryInv
    <3>. QED
      BY <1>2, <3>1, <3>2, <3>3 DEF KnownInv, PendingType
  <2>2. ASSUME NEW R \in SUBSET Live, NEW M \in SUBSET HookMans, Retire(R, M), PendingType'
        PROVE  KnownInv'
    BY <1>2, <2>2, RetireKeepsOwners DEF KnownInv
  <2>3. ASSUME NEW R \in SUBSET Live, NEW M \in SUBSET HookMans, Retire(R, M), UNCHANGED <<pending, gone>>
        PROVE  KnownInv'
    BY <1>2, <2>2, <2>3 DEF KnownInv, PendingType
  <2>4. ASSUME NEW p \in Plugins, UnloadPlugin(p)
        PROVE  KnownInv'
    <3>1. PICK R \in SUBSET Live, M \in SUBSET HookMans : Retire(R, M)
      BY <1>2, <2>4, UnloadRetires DEF UnloadPlugin
    <3>. QED
      BY <1>2, <2>2, <2>4, <3>1, UnloadPends DEF KnownInv
  <2>5. CASE UNCHANGED hm /\ PendingType'
    BY <1>2, <2>5 DEF KnownInv
  <2>6. CASE UNCHANGED <<entries, hm, pending, gone>>
    BY <1>2, <2>5, <2>6 DEF KnownInv, PendingType
  <2>7. CASE UNCHANGED <<entries, hm>> /\ Resolve
    BY <1>2, <2>5, <2>7, ResolveEffect DEF KnownInv
  <2>8. CASE \E p \in Plugins : LoadPlugin(p)
    BY <1>2, <2>5, <2>8 DEF KnownInv, PendingType, LoadPlugin
  <2>. QED
    BY <1>2, <2>1, <2>3, <2>4, <2>6, <2>7, <2>8, Steps DEF vars
<1>. QED
  BY <1>1, <1>2

\* The only thing that makes a plugin inactive is UnloadPlugin, which removes its hooks
\* and managers in the same step; and who is inactive adds no others.
LEMMA OwnersInductive ==
    /\ Init => OwnersInv
    /\ NoLateAdds /\ RegistryInv /\ OwnersInv /\ [Next]_vars => OwnersInv'
<1>1. ASSUME Init
      PROVE  OwnersInv
  <2>1. Live = {} /\ hm.known = {}
    BY <1>1 DEF Init, Ids!IdInit, Live, Ids!LiveIds, Ids!LiveIdsOf, Mans!HMInit
  <2>. QED
    BY <1>1, <2>1, KnownInductive DEF OwnersInv
<1>2. ASSUME NoLateAdds, RegistryInv, OwnersInv, [Next]_vars
      PROVE  OwnersInv'
  <2>0. KnownInv /\ KnownInv' /\ PendingType
    BY <1>2, KnownInductive DEF OwnersInv, KnownInv
  <2>1. ASSUME NEW m \in HookMans, NEW handler \in Handlers, NEW l \in Sites, AddHook(m, handler, l)
        PROVE  OwnersInv'
    <3>. DEFINE info == [vfnptr |-> l[1], iface |-> l[2], plug |-> OwnerOf[m], handler |-> handler, post |-> l[3]]
    <3>1. l[1] \in VfnPtrs /\ info \in Ids!Info /\ info.plug = OwnerOf[m]
      BY SiteAssumption, OwnerAssumption DEF Lists, Ids!Info
    <3>2. /\ Active(OwnerOf[m]) /\ UNCHANGED <<pending, gone>>
          /\ Ids!New(info) /\ Mans!Offer(l[1], m)
      BY <1>2, <2>1 DEF AddHook, May, NoLateAdds
    <3>. HIDE DEF info
    <3>3. PICK id : /\ Live' = Live \union {id}
                    /\ entries'[id] = info
                    /\ \A h \in Live : entries'[h] = entries[h]
      BY <1>2, <3>1, <3>2, Adding DEF RegistryInv
    <3>4. hm'.known = hm.known \union {m}
      BY <1>2, <3>1, <3>2, Offering DEF RegistryInv
    <3>5. \A p : Active(p)' <=> Active(p)
      BY <3>2 DEF Active
    <3>. QED
      BY <1>2, <2>0, <3>1, <3>2, <3>3, <3>4, <3>5 DEF OwnersInv
  <2>2. ASSUME NEW R \in SUBSET Live, NEW M \in SUBSET HookMans, Retire(R, M), UNCHANGED <<pending, gone>>
        PROVE  OwnersInv'
    <3>1. \A p : Active(p)' <=> Active(p)
      BY <2>2 DEF Active
    <3>. QED
      BY <1>2, <2>0, <2>2, <3>1, RetireKeepsOwners DEF OwnersInv
  <2>3. ASSUME NEW p \in Plugins, UnloadPlugin(p)
        PROVE  OwnersInv'
    <3>1. PICK R \in SUBSET Live, M \in SUBSET HookMans :
             R = Ids!HooksOfPlugin(entries, p) /\ M = ManagersOf(p) /\ Retire(R, M)
      BY <1>2, <2>3, UnloadRetires DEF UnloadPlugin
    <3>2. /\ \A h \in Live \ R : entries[h].plug # p
          /\ \A m \in hm.known \ M : OwnerOf[m] # p
      BY <3>1 DEF Ids!HooksOfPlugin, Live, Ids!LiveIds, ManagersOf
    <3>3. \A q : q # p /\ Active(q) => Active(q)'
      BY <2>0, <2>3, UnloadPends
    <3>4. /\ \A h \in Live' : h \in Live \ R /\ entries'[h] = entries[h]
          /\ hm'.known = hm.known \ M
      BY <1>2, <2>0, <3>1, RetireKeepsOwners
    <3>. QED
      BY <1>2, <2>0, <3>2, <3>3, <3>4 DEF OwnersInv
  <2>4. ASSUME UNCHANGED <<entries, hm>>, \A p : Active(p) => Active(p)'
        PROVE  OwnersInv'
    BY <1>2, <2>0, <2>4 DEF OwnersInv, Live, Ids!LiveIds
  <2>5. CASE UNCHANGED <<entries, hm, pending, gone>>
    BY <2>4, <2>5 DEF Active
  <2>6. CASE UNCHANGED <<entries, hm>> /\ Resolve
    BY <2>0, <2>4, <2>6, ResolveEffect
  <2>7. CASE \E p \in Plugins : LoadPlugin(p)
    BY <2>4, <2>7 DEF LoadPlugin, Active
  <2>. QED
    BY <1>2, <2>1, <2>2, <2>3, <2>5, <2>6, <2>7, Steps DEF vars
<1>. QED
  BY <1>1, <1>2

\* If no plugin adds a hook while its unload is pending, plugins that stay own what is
\* in the registry, in every reachable state.
THEOREM OwnersInvariant == NoLateAdds => (Spec => []OwnersInv)
<1>. SUFFICES ASSUME NoLateAdds
              PROVE  Spec => []OwnersInv
  OBVIOUS
<1>1. Init => RegistryInv /\ OwnersInv
  BY RegistryInductive, OwnersInductive
<1>2. RegistryInv /\ OwnersInv /\ [Next]_vars => (RegistryInv /\ OwnersInv)'
  BY RegistryInductive, OwnersInductive
<1>. QED
  BY <1>1, <1>2, PTL DEF Spec

\* Then no hook and no hookfunc of an unloaded plugin is ever called: neither is in the
\* registry any more, in whatever loop UnloadPlugin was called.
THEOREM NothingOfTheGoneIsLeft == NoLateAdds => (Spec => []NothingOfTheGone)
<1>1. RegistryInv /\ OwnersInv => NothingOfTheGone
  <2>. SUFFICES ASSUME RegistryInv, OwnersInv
                PROVE  NothingOfTheGone
    OBVIOUS
  <2>1. ASSUME NEW v \in VfnPtrs, hm.vtable[v] # Orig
        PROVE  OwnerOf[hm.vtable[v]] \notin gone
    BY <2>1, FindsEntry DEF OwnersInv, KnownInv, Active
  <2>. QED
    BY <2>1 DEF NothingOfTheGone, OwnersInv, Active
<1>2. ASSUME NoLateAdds
      PROVE  Spec => []NothingOfTheGone
  <2>1. Spec => []OwnersInv
    BY <1>2, OwnersInvariant
  <2>. QED
    BY <1>1, <2>1, RegistryInvariant, PTL
<1>. QED
  BY <1>2
=============================================================================
