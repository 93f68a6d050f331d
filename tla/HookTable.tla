------------------------------ MODULE HookTable ------------------------------
(***************************************************************************)
(* What CHookIDManager promises to the rest of SourceHook: a table from    *)
(* hook ids to the hooks they stand for.  An id is handed out only while   *)
(* no live hook has it, and it keeps its meaning until it is released.     *)
(***************************************************************************)
CONSTANTS Ids,      \* the values an id can take
          Info,     \* what a hook id stands for (CHookIDManager::Entry)
          VfnPtrs   \* the vtable entries an Info can name

VARIABLE table      \* a function from the live ids to Info

TableInit == table = [i \in {} |-> {}]

Acquire(i, info) ==
    /\ i \notin DOMAIN table
    /\ table' = [j \in DOMAIN table \union {i} |->
                    IF j = i THEN info ELSE table[j]]

Release(S) ==
    /\ S \subseteq DOMAIN table
    /\ table' = [j \in DOMAIN table \ S |-> table[j]]

ReleaseAll(v) == Release({i \in DOMAIN table : table[i].vfnptr = v})

\* Ids are released one by one, or all those of a vtable entry.
TableNext == \/ \E i \in Ids, info \in Info : Acquire(i, info)
             \/ \E i \in Ids : Release({i})
             \/ \E v \in VfnPtrs : ReleaseAll(v)

TableSpec == TableInit /\ [][TableNext]_table
=============================================================================
