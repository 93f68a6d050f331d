----------------------------- MODULE HookManagers -----------------------------
(***************************************************************************)
(* CHookManager and the hook-manager half of CVfnPtr                       *)
(* (sourcehook_impl_chookmaninfo.cpp, sourcehook_impl_cvfnptr.cpp): which  *)
(* plugin's hookfunc a vtable entry is patched to.                         *)
(*                                                                         *)
(* The operators take and return the whole state, a record hm with         *)
(*   known       m_HookManList, the managers SourceHook knows              *)
(*   mans        CVfnPtr::m_HookMans of every vtable entry, highest        *)
(*               version first; empty when the entry is not in m_VfnPtrs   *)
(*   served      CHookManager::m_VfnPtrs, the entries a manager serves     *)
(*   registered  the managers whose static ms_HI is set (Register)         *)
(*   vtable      what each vtable entry points at: a manager's hookfunc or *)
(*               the original function                                     *)
(* so that SourceHook can run several of them in one step.                 *)
(*                                                                         *)
(* Operators marked "mutant" are wrong on purpose: each stands for a       *)
(* plausible bug and is used only to show that a property detects it.      *)
(***************************************************************************)
EXTENDS VTables, Sublists, Integers, Sequences

CONSTANTS HookMans,     \* valid hook managers: a plugin and its pubfunc
          Version,      \* the version each pubfunc reports (SetInfo)
          Orig          \* the entry's original code

ASSUME VersionAssumption == Version \in [HookMans -> Int]
ASSUME OrigAssumption == Orig \notin HookMans

VARIABLE hm

NoRefs == [m \in HookMans |-> {}]

GroupStart(s, m) ==                                             \* mutant
    CHOOSE n \in 1..Len(s) + 1 :
        /\ \A i \in 1..n - 1 : Version[s[i]] > Version[m]
        /\ n <= Len(s) => Version[s[n]] <= Version[m]

\* The end of m's version group: before the first manager of a lower version.
GroupEnd(s, m) ==
    CHOOSE n \in 1..Len(s) + 1 :
        /\ \A i \in 1..n - 1 : Version[s[i]] >= Version[m]
        /\ n <= Len(s) => Version[s[n]] < Version[m]

Inserted(s, m) ==
    LET n == GroupEnd(s, m)
    IN  [i \in 1..Len(s) + 1 |-> IF i < n THEN s[i] ELSE IF i = n THEN m ELSE s[i - 1]]

ServeOnce(h, gain, lose) ==                                     \* mutant
    LET left == [m \in HookMans |-> (h.served[m] \union gain[m]) \ lose[m]]
    IN  [h EXCEPT !.served = left,
                  !.registered = (@ \union {m \in HookMans : gain[m] # {}})
                                    \ {m \in HookMans : lose[m] # {}}]

\* IncrRef of every entry in gain, then DecrRef of every entry in lose: a
\* manager registers with its first entry and unregisters with its last.
Serve(h, gain, lose) ==
    LET left == [m \in HookMans |-> (h.served[m] \union gain[m]) \ lose[m]]
        first == {m \in HookMans : h.served[m] = {} /\ gain[m] # {}}
        last == {m \in HookMans : left[m] = {} /\ lose[m] # {}}
    IN  [h EXCEPT !.served = left,
                  !.registered = (h.registered \union first) \ last]

OfferedToBoth(h, v, m) ==                                       \* mutant
    LET listed == [h EXCEPT !.known = @ \union {m}, !.mans[v] = Inserted(@, m)]
    IN  IF m \in Elements(h.mans[v]) THEN h
        ELSE IF GroupEnd(h.mans[v], m) # 1 THEN listed
        ELSE Serve([listed EXCEPT !.vtable[v] = m], [NoRefs EXCEPT ![m] = {v}], NoRefs)
OfferedAndSwitched(h, v, m) ==                                  \* mutant
    LET s == h.mans[v]
        lose == IF s = <<>> THEN NoRefs ELSE [NoRefs EXCEPT ![h.vtable[v]] = {v}]
    IN  IF m \in Elements(s) THEN h
        ELSE Serve([h EXCEPT !.known = @ \union {m}, !.mans[v] = Inserted(s, m), !.vtable[v] = m],
                   [NoRefs EXCEPT ![m] = {v}], lose)

\* CVfnPtr::AddHookMan: a manager inserted at the beginning takes over.
Offered(h, v, m) ==
    LET s == h.mans[v]
        known == [h EXCEPT !.known = @ \union {m}]
        listed == [known EXCEPT !.mans[v] = Inserted(s, m)]
        gain == [NoRefs EXCEPT ![m] = {v}]
        lose == IF s = <<>> THEN NoRefs ELSE [NoRefs EXCEPT ![s[1]] = {v}]
    IN  IF m \in Elements(s) THEN known
        ELSE IF GroupEnd(s, m) # 1 THEN listed
        ELSE Serve([listed EXCEPT !.vtable[v] = m], gain, lose)

\* Revert, and ~CVfnPtr as the entry leaves m_VfnPtrs.  The module that holds
\* the vtable is taken to be in memory (ModuleInMemory).
Reverted(h, W) ==
    LET fronts == [m \in HookMans |-> {v \in W : h.mans[v] # <<>> /\ h.mans[v][1] = m}]
    IN  Serve([h EXCEPT !.vtable = [v \in VfnPtrs |-> IF v \in W THEN Orig ELSE @[v]],
                        !.mans = [v \in VfnPtrs |-> IF v \in W THEN <<>> ELSE @[v]]],
              NoRefs, fronts)

\* HookManRemoved of the managers M on every entry: the next manager takes
\* over, and an entry without one is reverted and removed.
Removed(h, M) ==
    LET rest == [v \in VfnPtrs |-> Without(h.mans[v], M)]
        moved == {v \in VfnPtrs : h.mans[v] # <<>> /\ h.mans[v][1] \in M}
        gain == [m \in HookMans |-> {v \in moved : rest[v] # <<>> /\ rest[v][1] = m}]
        lose == [m \in HookMans |-> {v \in moved : h.mans[v][1] = m}]
        next == [v \in VfnPtrs |-> IF v \notin moved THEN h.vtable[v]
                                   ELSE IF rest[v] = <<>> THEN Orig ELSE rest[v][1]]
    IN  Serve([h EXCEPT !.known = @ \ M, !.mans = rest, !.vtable = next], gain, lose)

-----------------------------------------------------------------------------
HMInit == hm = [known |-> {}, mans |-> [v \in VfnPtrs |-> <<>>], served |-> NoRefs,
                registered |-> {}, vtable |-> [v \in VfnPtrs |-> Orig]]

\* AddHook offers the caller's manager for the entry it hooks.
Offer(v, m) == hm' = Offered(hm, v, m)

\* RemoveHookByID drops an entry without hooks, RemoveHookManager a manager,
\* UnloadPlugin first the former and then the latter.
Drop(W, M) == hm' = Removed(Reverted(hm, W), M)

HMNext == \/ \E v \in VfnPtrs, m \in HookMans : Offer(v, m)
          \/ \E W \in SUBSET VfnPtrs, M \in SUBSET HookMans : Drop(W, M)

HMSpec == HMInit /\ [][HMNext]_hm

-----------------------------------------------------------------------------
\* hm is a registry of the hook managers: hookfuncs or original code in the vtable,
\* and lists and sets of managers and entries.
HMType == [known : SUBSET HookMans,
           mans : [VfnPtrs -> Seq(HookMans)],
           served : [HookMans -> SUBSET VfnPtrs],
           registered : SUBSET HookMans,
           vtable : [VfnPtrs -> HookMans \union {Orig}]]
HMTypeOK == hm \in HMType

\* A hooked function runs the hookfunc of a manager whose ms_HI is set and whose
\* m_VfnPtrs has the entry, so that SetupHookLoop neither follows a NULL ms_HI
\* nor asserts "How can a hook exist on a vfnptr which we don't have in our db".
HookfuncFindsEntry ==
    \A v \in VfnPtrs : hm.vtable[v] # Orig =>
        /\ hm.vtable[v] \in hm.registered
        /\ v \in hm.served[hm.vtable[v]]

\* No entry is left patched when its last manager or its last hook is gone, and
\* none is served by two managers (each would claim the entry is its own).
OneServes ==
    \A v \in VfnPtrs : {m \in HookMans : v \in hm.served[m]} =
        (IF hm.mans[v] = <<>> THEN {} ELSE {hm.vtable[v]})

\* Of the managers offered for an entry one of the highest version serves it.
HighestVersionServes ==
    \A v \in VfnPtrs : \A m \in Elements(hm.mans[v]) :
        /\ hm.vtable[v] \in Elements(hm.mans[v])
        /\ Version[hm.vtable[v]] >= Version[m]

\* A serving manager is replaced only when a newer one is offered or when it is
\* itself removed (AddHookMan adds to the end of the version group).
SwitchesOnlyUp ==
    [][\A v \in VfnPtrs :
         LET old == hm.vtable[v]
             new == hm'.vtable[v]
         IN  /\ old # Orig
             /\ new \notin {old, Orig}
             => Version[new] > Version[old] \/ old \notin Elements(hm'.mans[v])]_hm

\* The inductive invariant: lists without duplicates in descending version, and
\* vtable, served and registered all derived from who is first in the list.
Sorted(s) == \A i, j \in DOMAIN s : i < j => s[i] # s[j] /\ Version[s[i]] >= Version[s[j]]
ServingOf(h, v) == IF h.mans[v] = <<>> THEN Orig ELSE h.mans[v][1]
Consistent(h) ==
    /\ h \in HMType
    /\ \A v \in VfnPtrs : Sorted(h.mans[v])
    /\ \A v \in VfnPtrs : h.vtable[v] = ServingOf(h, v)
    /\ \A m \in HookMans : h.served[m] = {v \in VfnPtrs : ServingOf(h, v) = m}
    /\ h.registered = {m \in HookMans : h.served[m] # {}}
HMIInv == Consistent(hm)
=============================================================================
