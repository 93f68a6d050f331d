------------------------------ MODULE Dictionary ------------------------------
(***************************************************************************)
(* What THash promises: a function from keys to values and the calls that   *)
(* change it.  count is the number of entries a walk over it meets.         *)
(***************************************************************************)
EXTENDS Calls, FiniteSets

CONSTANTS Keys, Values, DefaultValue
VARIABLES dict, count, call
dictionaryVars == <<dict, count, call>>

Without(d, keys) == [k \in DOMAIN d \ keys |-> d[k]]

\* call.at is the key, call.val the value.  "sweep" erases the entries with one
\* value in a walk over all of them.
AfterCall(d, c) ==
    CASE c.op = "set"   -> [k \in DOMAIN d \cup {c.at} |-> IF k = c.at THEN c.val ELSE d[k]]
      [] c.op = "get"   -> [k \in DOMAIN d \cup {c.at} |->
                              IF k \in DOMAIN d THEN d[k] ELSE DefaultValue]
      [] c.op = "erase" -> Without(d, {c.at})
      [] c.op = "sweep" -> Without(d, {k \in DOMAIN d : d[k] = c.val})
      [] c.op = "clear" -> [k \in {} |-> DefaultValue]
      [] c.op = "copy"  -> d

DictionaryInit == dict = [k \in {} |-> DefaultValue] /\ count = 0 /\ call.op = "new"

DictionaryNext ==
    /\ call' \in [op : {"set", "get", "erase", "sweep", "clear", "copy"}, at : Keys, val : Values]
    /\ dict' = AfterCall(dict, call')
    /\ count' = Cardinality(DOMAIN dict')

DictionarySpec == DictionaryInit /\ [][DictionaryNext]_dictionaryVars
=============================================================================
