------------------------------- MODULE CString -------------------------------
(***************************************************************************)
(* String (sh_string.h): characters in a growing buffer that ends with the  *)
(* first NUL.  A string is its buffer, a_size slots long; <<>> is the null  *)
(* pointer of a string nothing was assigned to.                             *)
(***************************************************************************)
EXTENDS Calls
LOCAL INSTANCE SequencesExt

CONSTANTS Letters, Space,
          MaxText   \* bound: characters in a string

ASSUME StringAssumption == Letters \subseteq Nat \ {0} /\ Space \in Nat \ {0} /\ MaxText \in Nat

VARIABLE str    \* [v: a string, call: the last call, ret: what it returned]

NUL == 0
Chars == Letters \cup {Space}
NullString == <<>>

Strlen(v)  == SelectInSeq(v, LAMBDA c : c = NUL) - 1
StrSize(v) == IF v = NullString THEN 0 ELSE Strlen(v)
c_str(v)   == SubSeq(v, 1, StrSize(v))

\* StrGrow (Grow): a larger buffer that holds what was there, or nothing in particular.
StrGrow(v, d, copy) ==
    IF d <= Len(v) THEN v
    ELSE [k \in 1..(d + 1) |->
            CASE v = NullString -> IF k = 1 THEN NUL ELSE Garbage
              [] v # NullString /\ copy /\ k <= Strlen(v) + 1 -> v[k]
              [] OTHER -> Garbage]

\* strcpy to a position of the buffer.
Written(v, at, text) ==
    [k \in DOMAIN v |-> CASE k \in (at + 1)..(at + Len(text)) -> text[k - at]
                          [] k = at + Len(text) + 1 -> NUL
                          [] OTHER -> v[k]]

StrAssign(v, text) == Written(StrGrow(v, Len(text) + 1, FALSE), 0, text)
StrCopy(src) == StrAssign(NullString, c_str(src))

StrAppend(v, text) == Written(StrGrow(v, StrSize(v) + Len(text) + 1, TRUE), StrSize(v), text)

StrClear(v) == IF v = NullString THEN v ELSE [v EXCEPT ![1] = NUL]

\* erase: what follows moves down over what goes, from left to right.
StrErase(v, start, n) ==
    LET len == StrSize(v)
        num == IF start + n > len - start THEN len - start ELSE n
        moved(i) == IF i + num < len THEN v[i + num + 1] ELSE NUL
    IN IF v = NullString THEN v
       ELSE [k \in DOMAIN v |-> CASE k = len - num + 1 -> NUL
                                  [] num > 0 /\ k \in (start + 1)..len /\ k # len - num + 1 -> moved(k - 1)
                                  [] OTHER -> v[k]]

\* trim stops at the last character of a string of spaces, from either side.
TrimmedLeft(v) ==
    LET solid == SelectInSeq(c_str(v), LAMBDA c : c # Space)
    IN IF StrSize(v) > 0 /\ v[1] = Space
       THEN StrErase(v, 0, IF solid = 0 THEN StrSize(v) - 1 ELSE solid - 1) ELSE v

TrimmedRight(v) ==
    LET len == StrSize(v)
        solid == SelectLastInSeq(c_str(v), LAMBDA c : c # Space)
        last == IF solid = 0 THEN 1 ELSE solid
    IN IF len > 0 /\ v[len] = Space THEN StrErase(v, last, len - last) ELSE v

StrTrim(v) ==
    LET left == TrimmedLeft(v) IN
    IF c_str(v) = <<Space>> THEN StrClear(v)
    ELSE IF c_str(left) = <<Space>> THEN StrClear(TrimmedRight(left))
    ELSE TrimmedRight(left)

\* substr: a string that is grown once, then gets one character after the other.
StrSubstr(v, index, n) ==
    LET len == StrSize(v)
        num == IF index + n >= len THEN len - index ELSE n
    IN IF v = NullString THEN StrAssign(NullString, <<>>)
       ELSE IF index >= len THEN NullString
       ELSE FoldLeft(LAMBDA s, c : StrAppend(s, <<c>>), StrGrow(NullString, num + 2, TRUE),
                     SubSeq(v, index + 1, index + num))

StrPut(v, at, c) == IF at >= StrSize(v) THEN v ELSE [v EXCEPT ![at + 1] = c]

\* find and find_last_of, with the position they start at.
StrFind(v, c, index) ==
    LET k == SelectInSeq(SubSeq(c_str(v), index + 1, StrSize(v)), LAMBDA x : x = c)
    IN IF index >= StrSize(v) \/ k = 0 THEN NoIter ELSE index + k - 1

StrFindLast(v, c, index) ==
    LET k == SelectLastInSeq(SubSeq(c_str(v), 1, index + 1), LAMBDA x : x = c)
    IN IF index >= StrSize(v) \/ k = 0 THEN NoIter ELSE k - 1

-----------------------------------------------------------------------------
StrInit == str = [v |-> NullString, call |-> Call("new", 0, 0), ret |-> NoIter]

StrDid(call, v, ret) == str' = [v |-> v, call |-> call, ret |-> ret]
StrDo(op, at, val, v, ret) == StrDid(Call(op, at, val), v, ret)

Texts == UNION {[1..n -> Chars] : n \in 0..2}
With(op, text) == [op |-> op, others |-> text]

StrNext ==
    \/ \E text \in Texts : StrDid(With("assign", text), StrAssign(str.v, text), NoIter)
    \/ \E text \in Texts : /\ StrSize(str.v) + Len(text) <= MaxText
                           /\ StrDid(With("append", text), StrAppend(str.v, text), NoIter)
    \/ StrDo("clear", 0, 0, StrClear(str.v), NoIter)
    \/ StrDo("trim", 0, 0, StrTrim(str.v), NoIter)
    \/ StrDo("copy", 0, 0, StrCopy(str.v), NoIter)
    \/ \E at \in 0..StrSize(str.v), num \in 0..MaxText :
         \/ StrDo("erase", at, num, StrErase(str.v, at, num), NoIter)
         \/ StrDo("substr", at, num, StrSubstr(str.v, at, num), NoIter)
    \/ \E at \in 0..MaxText, c \in Chars :
         \/ StrDo("put", at, c, StrPut(str.v, at, c), NoIter)
         \/ StrDo("find", at, c, str.v, StrFind(str.v, c, at))
         \/ StrDo("find_last_of", at, c, str.v, StrFindLast(str.v, c, at))

StrSpec == StrInit /\ [][StrNext]_str

\* A string is a text with the calls of Text.
StrAsText == INSTANCE Text WITH contents <- c_str(str.v), call <- str.call, ret <- str.ret
StringIsAText == StrAsText!TextSpec
=============================================================================
