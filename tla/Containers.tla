----------------------------- MODULE Containers -----------------------------
(***************************************************************************)
(* The containers of public/sourcehook, each with the abstract type it       *)
(* implements.                                                              *)
(***************************************************************************)
EXTENDS CStack, List, THash, CString

containerVars == <<vec, stk, lst, hash, str>>

ContainersInit == VecInit /\ StkInit /\ ListInit /\ HashInit /\ StrInit

\* Each container does what the specification of its abstract type says of the
\* call, however it is laid out in memory: CVector with spare slots, CStack in
\* sectors, List in linked nodes (read forward and backward), THash in buckets
\* that are walked with its iterator, String in a buffer that ends with a NUL.
ContainersImplement ==
    /\ VectorIsASequence /\ StackIsASequence /\ ListIsASequence
    /\ HashIsADictionary /\ StringIsAText

\* A pointer to an element holds until the element is removed: no call moves an
\* element of a CStack, a List or a THash in memory (sh_stack.h:19).
PointersStayValid ==
    [][StackStaysPut]_stk /\ [][ListStaysPut]_lst /\ [][HashStaysPut]_hash
=============================================================================
