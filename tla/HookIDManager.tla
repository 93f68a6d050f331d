---------------------------- MODULE HookIDManager ----------------------------
(***************************************************************************)
(* CHookIDManager (sourcehook_impl_chookidman.cpp): the vector of entries  *)
(* that gives every hook its id.  Ids are 1-based indices into the vector; *)
(* a removed entry is marked free and its id handed out again, lowest      *)
(* first.                                                                  *)
(*                                                                         *)
(* An Entry keeps the fields the operations compare: the vtable entry the  *)
(* hook sits on, the adjusted interface pointer, the owner, the handler    *)
(* and pre/post.  proto, vtbl_offs, vtbl_idx and thisptr_offs are functions*)
(* of the hook manager a description is built with and add nothing here.   *)
(* The stale fields of a free entry are never read, so a free entry is the *)
(* single value FreeEntry.                                                 *)
(*                                                                         *)
(* Operators marked "mutant" are wrong on purpose: each stands for a       *)
(* plausible bug and is used only to show that a property detects it.      *)
(***************************************************************************)
EXTENDS VTables, Naturals, Sequences

CONSTANTS Ifaces,     \* adjustediface values, the VP interface (NULL) included
          Plugins,
          Handlers,   \* ISHDelegate equivalence classes (IsEqual)
          FreeEntry,  \* an Entry with isfree = true
          MaxIds      \* bound: length of the vector

ASSUME MaxIdsAssumption == MaxIds \in Nat

Info == [vfnptr : VfnPtrs, iface : Ifaces, plug : Plugins,
         handler : Handlers, post : BOOLEAN]

ASSUME FreeEntryAssumption == FreeEntry \notin Info

VARIABLE entries      \* m_Entries

idVars == <<entries>>

LiveIdsOf(es) == {i \in DOMAIN es : es[i] # FreeEntry}
LiveIds == LiveIdsOf(entries)

-----------------------------------------------------------------------------
(* Operations, as functions of the vector so that SourceHook can compose them *)

FreeSlotsUntested(es) == DOMAIN es                              \* mutant
FreeSlots(es) == DOMAIN es \ LiveIdsOf(es)

NextIdAtEnd(es) == Len(es) + 1                                  \* mutant

\* New: the first free entry, or a new one at the end.
NextId(es) ==
    IF FreeSlots(es) = {}
    THEN Len(es) + 1
    ELSE CHOOSE i \in FreeSlots(es) : \A j \in FreeSlots(es) : i <= j

WithHook(es, info) ==
    IF NextId(es) = Len(es) + 1 THEN Append(es, info)
    ELSE [es EXCEPT ![NextId(es)] = info]

WithoutHooksByIndex(es, S) ==                                   \* mutant
    [i \in DOMAIN es |-> IF i + 1 \in S THEN FreeEntry ELSE es[i]]

\* Remove and RemoveAll: mark the entries free; ids never move.
WithoutHooks(es, S) == [i \in DOMAIN es |-> IF i \in S THEN FreeEntry ELSE es[i]]

\* QueryHook answers NULL exactly for the ids outside LiveIds.
HooksOfPlugin(es, p) == {i \in LiveIdsOf(es) : es[i].plug = p}
HooksOnVfnPtr(es, v) == {i \in LiveIdsOf(es) : es[i].vfnptr = v}

\* FindAllHooks by description compares vtbl_offs and vtbl_idx instead of vfnptr:
\* on one interface they name one entry.
HooksMatching(es, info) == {i \in LiveIdsOf(es) : es[i] = info}

-----------------------------------------------------------------------------
IdInit == entries = <<>>

New(info) ==
    /\ NextId(entries) <= MaxIds
    /\ entries' = WithHook(entries, info)

Remove(id) ==
    /\ id \in LiveIds
    /\ entries' = WithoutHooks(entries, {id})

RemoveAll(v) == entries' = WithoutHooks(entries, HooksOnVfnPtr(entries, v))

IdNext == \/ \E info \in Info : New(info)
          \/ \E id \in DOMAIN entries : Remove(id)
          \/ \E v \in VfnPtrs : RemoveAll(v)

IdSpec == IdInit /\ [][IdNext]_idVars

-----------------------------------------------------------------------------
\* Every slot of m_Entries is a complete entry or marked free, and the vector
\* stays within the ids the clients were promised.
IdTypeOK == /\ entries \in Seq(Info \union {FreeEntry})
            /\ Len(entries) <= MaxIds

\* The vector implements the abstract table: New hands out an id that no live
\* hook has, and nothing but a removal changes what a live id stands for.
Table == INSTANCE HookTable WITH table <- [i \in LiveIds |-> entries[i]],
                                 Ids <- 1..MaxIds
ImplementsTable == Table!TableSpec
=============================================================================
