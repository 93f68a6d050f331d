--------------------------- MODULE MCPluginManager ---------------------------
(* Two plugins, one of which may fail to load in every way.                 *)
EXTENDS PluginManager

CONSTANTS f1, f2

MCOutcomes == [f \in Files |-> IF f = f1 THEN {"Load"} ELSE LoadKinds]
=============================================================================
