------------------------------- MODULE VTables -------------------------------
(***************************************************************************)
(* What hook ids and hook managers both refer to.                          *)
(***************************************************************************)
CONSTANT VfnPtrs    \* vtable entries that can be hooked (CVfnPtr)
=============================================================================
