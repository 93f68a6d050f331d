------------------------------ MODULE Sublists ------------------------------
(***************************************************************************)
(* Erasing elements while walking a list, as SourceHook does with the hook *)
(* managers of an entry, the hooks of an interface and the pending         *)
(* unloads, and the first element a search finds.  A recursive function,   *)
(* so that it can be reasoned about.                                       *)
(***************************************************************************)
EXTENDS Integers, Sequences

Elements(s) == {s[i] : i \in DOMAIN s}

\* What a search from the front finds: the first of the positions that would do,
\* 0 if there is none.
Lowest(positions) ==
    IF positions = {} THEN 0 ELSE CHOOSE k \in positions : \A j \in positions : k <= j

\* s without the elements in M.
Without(s, M) ==
    LET kept[n \in 0..Len(s)] ==
            IF n = 0 THEN <<>>
            ELSE IF s[n] \in M THEN kept[n - 1]
            ELSE Append(kept[n - 1], s[n])
    IN  kept[Len(s)]
=============================================================================
