------------------------------ MODULE HookIDPeak ------------------------------
(***************************************************************************)
(* HookIDManager with a history variable: the largest number of hooks that *)
(* were live at once.                                                      *)
(***************************************************************************)
EXTENDS HookIDManager, FiniteSets

VARIABLE peak

PeakInit == IdInit /\ peak = 0

PeakNext ==
    /\ IdNext
    /\ LET n == Cardinality(LiveIds') IN peak' = IF n > peak THEN n ELSE peak

PeakSpec == PeakInit /\ [][PeakNext]_<<entries, peak>>

-----------------------------------------------------------------------------
\* m_Entries is never longer than the number of hooks that were live at once at
\* some time: New reuses the ids of removed hooks (sourcehook_impl_chookidman.cpp),
\* so plugins that add and remove hooks all the time do not make it grow.
BoundedByPeak == Len(entries) <= peak
=============================================================================
