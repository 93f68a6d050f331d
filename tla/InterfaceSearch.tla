--------------------------- MODULE InterfaceSearch ---------------------------
(***************************************************************************)
(* MetamodSource::InterfaceSearch and VInterfaceMatch (core/metamod.cpp):   *)
(* the loop that asks a factory for one version of an interface after the   *)
(* other.  A name is its number of letters, its trailing digits and their   *)
(* value; the factory is the set of versions it has, under names of three   *)
(* digits.                                                                  *)
(***************************************************************************)
EXTENDS Integers

CONSTANTS DigitCounts,  \* trailing digits of the names searched for
          Versions,     \* versions factories may have and searches start from
          Maxima        \* values of max

ASSUME SearchAssumption == DigitCounts \subseteq 0..3 /\ Versions \subseteq 0..999 /\ Maxima \subseteq Int

VARIABLE srch

Name(letters, digits, num) == [letters |-> letters, digits |-> digits, num |-> num]
Length(name) == name.letters + name.digits
NotFound == -1

NoSearch == [pc |-> "idle", name |-> Name(1, 0, 0), length |-> 1, has |-> {}, from |-> 0,
             max |-> 0, num |-> 0, found |-> NotFound]

\* FormatIface: the next name, and the number it returns (-1: no room, and the
\* name stays).  A name without digits loses its last letter to them.
NoRoom(name, maxlength) ==
    \/ name.digits > 0 /\ maxlength <= Length(name)
    \/ name.digits = 0 /\ maxlength <= Length(name) + 3

FirstThreeDigits(n) == IF n > 999 THEN n \div 10 ELSE n

FormatsOldNumber(name, maxlength) ==                            \* mutant
    IF name.digits > 0 THEN [name |-> Name(name.letters, 3, name.num), num |-> name.num + 1]
    ELSE [name |-> Name(name.letters - 1, 3, 0), num |-> 1]

FormatIface(name, maxlength) ==
    CASE NoRoom(name, maxlength) -> [name |-> name, num |-> -1]
      [] ~NoRoom(name, maxlength) /\ name.digits > 0 ->
           [name |-> Name(name.letters, 3, FirstThreeDigits(name.num + 1)), num |-> name.num + 1]
      [] OTHER -> [name |-> Name(name.letters - 1, 3, 1), num |-> 1]

SearchInit == srch = NoSearch

Capped(max) == IF max > 999 THEN 999 ELSE max

Search(name, has, max) ==
    srch' = [NoSearch EXCEPT !.pc = "search", !.name = name, !.length = Length(name),
                             !.has = has, !.from = name.num, !.max = Capped(max)]

StartSearch ==
    /\ srch.pc = "idle"
    /\ \E digits \in DigitCounts, num \in Versions, has \in SUBSET Versions, max \in Maxima :
         Search(Name(4, digits, num), has, max)

\* VInterfaceMatch replaces three digits by min, 1 at least.
Match(name, min) ==
    IF min # -1 /\ name.digits = 3 THEN [name EXCEPT !.num = IF min = 0 THEN 1 ELSE min] ELSE name

VInterfaceMatch ==
    /\ srch.pc = "idle"
    /\ \E digits \in DigitCounts, num \in Versions, has \in SUBSET Versions, min \in {-1} \cup Versions :
         Search(Match(Name(4, digits, num), min), has, 999)

\* One turn of the loop.
Offers(name) == name.digits = 3 /\ name.letters = 4 /\ name.num \in srch.has

Turn ==
    /\ srch.pc = "search"
    /\ srch' = IF Offers(srch.name) THEN [srch EXCEPT !.pc = "done", !.found = srch.name.num]
               ELSE IF srch.num > srch.max THEN [srch EXCEPT !.pc = "done"]
               ELSE LET next == FormatIface(srch.name, srch.length + 1)
                    IN [srch EXCEPT !.name = next.name, !.num = next.num,
                                    !.pc = IF next.num = 0 THEN "done" ELSE "search"]

Return == srch.pc = "done" /\ srch' = NoSearch

SearchNext == StartSearch \/ VInterfaceMatch \/ Turn \/ Return
SearchSpec == SearchInit /\ [][SearchNext]_srch /\ WF_srch(Turn)

-----------------------------------------------------------------------------
First(S) == IF S = {} THEN NotFound ELSE CHOOSE n \in S : \A k \in S : n <= k

Asked == srch.from..srch.max
Passed == srch.from..(srch.found - 1)

\* Every search ends.  When the factory has one of the versions asked for, the
\* first of them is found; and whatever is found, the search has not passed over
\* a version the factory has.
SearchAnswers ==
    srch.pc = "search" ~>
      /\ srch.pc = "done"
      /\ srch.has \cap Asked # {} => srch.found = First(srch.has \cap Asked)
      /\ srch.found # NotFound => srch.found \in srch.has /\ srch.has \cap Passed = {}

\* ISmmAPI.h: max is the "maximum version to look up".  No search that starts
\* within it finds a later version.
NoneBeyondMax == srch.pc = "done" /\ srch.from <= srch.max => srch.found <= srch.max
=============================================================================
