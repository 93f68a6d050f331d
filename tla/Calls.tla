-------------------------------- MODULE Calls --------------------------------
(***************************************************************************)
(* What the containers (sh_vector.h, sh_stack.h, sh_list.h, sh_tinyhash.h)  *)
(* and their specifications have in common: the call that was made last and *)
(* the iterator it returned, as a position counted from 0.                  *)
(***************************************************************************)
EXTENDS Integers, Sequences
LOCAL INSTANCE SequencesExt

Call(op, at, val)  == [op |-> op, at |-> at, val |-> val]
Assignment(others) == [op |-> "assign", others |-> others]

NoIter  == -1    \* iterator(0), or a call that returns none
Garbage == -2    \* memory nobody has written to
Torn    == <<Garbage>>

\* The ids of memory blocks: the smallest that is not in use.
FreshId(inUse) == CHOOSE n \in 1..(Len(SetToSeq(inUse)) + 1) :
                     n \notin inUse /\ \A k \in 1..(n - 1) : k \in inUse
=============================================================================
