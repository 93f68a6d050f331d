----------------------------- MODULE MCSourceHook -----------------------------
(* SourceHook on small instances; README.md gives the bounds of each run. *)
EXTENDS SourceHook, TLC

CONSTANTS v1, v2, i1, p1, p2, m1, m2

MCOwner == [m \in HookMans |-> IF m = m1 THEN p1 ELSE p2]
MCVersion == [m \in HookMans |-> IF m = m1 THEN 4 ELSE 5]

\* What the clients hook.
OneList == {<<v1, i1, FALSE>>}
OneEntry == {v1} \X {i1, VP} \X BOOLEAN
ThreeLists == {<<v1, i1, FALSE>>, <<v1, VP, FALSE>>, <<v1, i1, TRUE>>}
TwoPre == {v1, v2} \X {i1} \X {FALSE}
PreSites == TwoPre \cup {<<v1, VP, FALSE>>}
=============================================================================
