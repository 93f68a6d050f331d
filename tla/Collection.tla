------------------------------ MODULE Collection ------------------------------
(***************************************************************************)
(* What CVector, CStack and List promise: a sequence and the calls that     *)
(* change it.                                                               *)
(***************************************************************************)
EXTENDS Calls
LOCAL INSTANCE SequencesExt

CONSTANT Values
VARIABLES contents, size, call, ret
collectionVars == <<contents, size, call, ret>>

Legal(c) ==
    \/ c.op = "assign" /\ c.others \in Seq(Values)
    \/ /\ c.op \in {"push_back", "push_front", "push_sorted", "pop_back", "insert", "erase",
                    "remove", "resize", "reserve", "clear", "copy"}
       /\ c.at \in Int /\ c.val \in Values

Has(s, at) == at \in 0..(Len(s) - 1)

FirstLarger(s, v) == LET k == SelectInSeq(s, LAMBDA e : e > v) IN IF k = 0 THEN Len(s) + 1 ELSE k

Resized(s, n, v) == [k \in 1..n |-> IF k <= Len(s) THEN s[k] ELSE v]

\* The sequence a call leaves.
After(s, c) ==
    CASE c.op = "push_back"   -> Append(s, c.val)
      [] c.op = "push_front"  -> <<c.val>> \o s
      [] c.op = "push_sorted" -> InsertAt(s, FirstLarger(s, c.val), c.val)
      [] c.op = "pop_back"    -> Front(s)
      [] c.op = "insert"      -> IF c.at <= Len(s) THEN InsertAt(s, c.at + 1, c.val) ELSE s
      [] c.op = "erase"       -> IF Has(s, c.at) THEN RemoveAt(s, c.at + 1) ELSE s
      [] c.op = "remove"      -> IF \E k \in DOMAIN s : s[k] = c.val
                                 THEN RemoveAt(s, SelectInSeq(s, LAMBDA e : e = c.val)) ELSE s
      [] c.op = "resize"      -> Resized(s, c.at, c.val)
      [] c.op = "clear"       -> <<>>
      [] c.op = "assign"      -> c.others
      [] c.op \in {"reserve", "copy"} -> s

\* insert returns the new element, erase the one after.
Returned(s, c) ==
    IF \/ c.op = "insert" /\ c.at <= Len(s)
       \/ c.op = "erase" /\ Has(s, c.at)
    THEN c.at ELSE NoIter

CollectionInit == contents = <<>> /\ size = 0 /\ call.op = "new" /\ ret = NoIter

CollectionNext ==
    /\ Legal(call')
    /\ contents' = After(contents, call')
    /\ size' = Len(contents')
    /\ ret' = Returned(contents, call')

CollectionSpec == CollectionInit /\ [][CollectionNext]_collectionVars
=============================================================================
