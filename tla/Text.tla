-------------------------------- MODULE Text --------------------------------
(***************************************************************************)
(* What String promises: characters in a row and the calls that change or   *)
(* search them.                                                             *)
(***************************************************************************)
EXTENDS Calls

CONSTANT Space
VARIABLES contents, call, ret
textVars == <<contents, call, ret>>

\* Erasing reaches the end as soon as start and num together pass what is left.
Erased(s, start, num) ==
    SubSeq(s, 1, start)
      \o (IF start + num > Len(s) - start THEN <<>> ELSE SubSeq(s, start + num + 1, Len(s)))

Solid(s) == {k \in DOMAIN s : s[k] # Space}
Trimmed(s) ==
    IF Solid(s) = {} THEN <<>>
    ELSE SubSeq(s, CHOOSE k \in Solid(s) : \A j \in Solid(s) : k <= j,
                   CHOOSE k \in Solid(s) : \A j \in Solid(s) : k >= j)

AfterEdit(s, c) ==
    CASE c.op = "assign" -> c.others
      [] c.op = "append" -> s \o c.others
      [] c.op = "clear"  -> <<>>
      [] c.op = "erase"  -> Erased(s, c.at, c.val)
      [] c.op = "substr" -> SubSeq(s, c.at + 1, IF c.at + c.val < Len(s) THEN c.at + c.val ELSE Len(s))
      [] c.op = "put"    -> IF c.at < Len(s) THEN [s EXCEPT ![c.at + 1] = c.val] ELSE s
      [] c.op = "trim"   -> Trimmed(s)
      [] c.op \in {"copy", "find", "find_last_of"} -> s

\* Positions from, or up to, call.at that hold call.val.
Found(s, c) ==
    {k \in 0..(Len(s) - 1) : s[k + 1] = c.val /\ IF c.op = "find" THEN k >= c.at ELSE k <= c.at}
Result(s, c) ==
    CASE c.op = "find" /\ Found(s, c) # {} -> CHOOSE k \in Found(s, c) : \A j \in Found(s, c) : k <= j
      [] c.op = "find_last_of" /\ c.at < Len(s) /\ Found(s, c) # {} ->
           CHOOSE k \in Found(s, c) : \A j \in Found(s, c) : k >= j
      [] OTHER -> NoIter

TextInit == contents = <<>> /\ call.op = "new" /\ ret = NoIter
TextNext == call'.op # "new" /\ contents' = AfterEdit(contents, call') /\ ret' = Result(contents, call')
TextSpec == TextInit /\ [][TextNext]_textVars
=============================================================================
