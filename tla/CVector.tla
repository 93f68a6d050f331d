------------------------------- MODULE CVector -------------------------------
(***************************************************************************)
(* CVector (sh_vector.h): a growing array.  A vector is its slots, as many  *)
(* as m_Size, and the number of those in use; m_Data is NULL when there are *)
(* none.  Elements are passed by value here: a reference to one of the      *)
(* vector's own elements would be read after the slots were freed.          *)
(***************************************************************************)
EXTENDS Calls
LOCAL INSTANCE SequencesExt

CONSTANTS Elems,
          FirstSize,   \* slots of the first allocation (8)
          MaxLen       \* bound: elements in a container

ASSUME VectorAssumption == Elems \subseteq Nat /\ FirstSize \in Nat \ {0} /\ MaxLen \in Nat

VARIABLE vec    \* [v: a vector, call: the last call, ret: what it returned]

EmptyVector == [data |-> <<>>, used |-> 0]
VecSize(v)  == Len(v.data)

\* An iterator is the position it has been moved to, and reads what is there;
\* from begin() to end() it meets the contents.
VecAt(v, pos)  == v.data[pos + 1]
VecContents(v) == [k \in 1..v.used |-> VecAt(v, k - 1)]

\* New slots hold what fits of the old ones.
ChangeSize(v, size) ==
    LET kept == IF v.used < size THEN v.used ELSE size IN
    IF size = VecSize(v) THEN v
    ELSE [data |-> [k \in 1..size |-> IF k <= kept THEN v.data[k] ELSE Garbage],
          used |-> IF size = 0 THEN v.used ELSE kept]

\* Every caller grows by one, so that doubling is always enough.
VecGrow(v) == ChangeSize(v, IF VecSize(v) = 0 THEN FirstSize ELSE 2 * VecSize(v))

GrowIfNeeded(v) == IF v.used + 1 >= VecSize(v) THEN VecGrow(v) ELSE v

\* Halves the slots while half of them are enough.
Halved(v) == {VecSize(v) \div (2^n) : n \in 0..VecSize(v)}
FreeMemIfPossible(v) ==
    IF v.used = 0 THEN ChangeSize(v, 0)
    ELSE ChangeSize(v, CHOOSE n \in Halved(v) : v.used > n \div 2 /\ v.used <= n)

VecPushBack(v, e) ==
    LET g == GrowIfNeeded(v) IN [data |-> [g.data EXCEPT ![g.used + 1] = e], used |-> g.used + 1]

VecPopBack(v) == FreeMemIfPossible([v EXCEPT !.used = @ - 1])

VecReserve(v, size) == IF size > VecSize(v) THEN ChangeSize(v, size) ELSE v

VecResize(v, size, defval) ==
    LET c == ChangeSize(v, size) IN
    [data |-> [k \in 1..size |-> IF k > c.used THEN defval ELSE c.data[k]], used |-> size]

VecInsert(v, ofs, e) ==
    LET g == GrowIfNeeded(v) IN
    IF ofs > v.used THEN v
    ELSE [data |-> [k \in 1..VecSize(g) |->
                      IF k = ofs + 1 THEN e
                      ELSE IF k > ofs + 1 /\ k <= g.used + 1 THEN g.data[k - 1] ELSE g.data[k]],
          used |-> g.used + 1]

VecErase(v, ofs) ==
    IF ofs >= v.used THEN v
    ELSE FreeMemIfPossible(
           [data |-> [k \in 1..VecSize(v) |->
                        IF k > ofs /\ k < v.used THEN v.data[k + 1] ELSE v.data[k]],
            used |-> v.used - 1])

VecClear(v) == EmptyVector

\* CVector(other): as many slots as elements.
VecCopy(other) == [data |-> VecContents(other), used |-> other.used]

VecAssign(v, other) ==
    LET c == ChangeSize(VecClear(v), other.used) IN
    [data |-> [k \in 1..VecSize(c) |-> other.data[k]], used |-> other.used]

-----------------------------------------------------------------------------
VecInit == vec = [v |-> EmptyVector, call |-> Call("new", 0, 0), ret |-> NoIter]

VecDid(call, v, ret) == vec' = [v |-> v, call |-> call, ret |-> ret]
VecDo(op, at, val, v, ret) == VecDid(Call(op, at, val), v, ret)

VecHasRoom == vec.v.used < MaxLen

VecNext ==
    \/ \E e \in Elems : VecHasRoom /\ VecDo("push_back", 0, e, VecPushBack(vec.v, e), NoIter)
    \/ vec.v.used > 0 /\ VecDo("pop_back", 0, 0, VecPopBack(vec.v), NoIter)
    \/ \E n \in 0..MaxLen : VecDo("reserve", n, 0, VecReserve(vec.v, n), NoIter)
    \/ \E n \in 0..MaxLen, e \in Elems : VecDo("resize", n, e, VecResize(vec.v, n, e), NoIter)
    \/ \E at \in 0..MaxLen, e \in Elems : VecHasRoom /\
         VecDo("insert", at, e, VecInsert(vec.v, at, e), IF at > vec.v.used THEN NoIter ELSE at)
    \/ \E at \in 0..MaxLen :
         VecDo("erase", at, 0, VecErase(vec.v, at), IF at >= vec.v.used THEN NoIter ELSE at)
    \/ VecDo("clear", 0, 0, VecClear(vec.v), NoIter)
    \/ VecDo("copy", 0, 0, VecCopy(vec.v), NoIter)
    \/ \E e, f \in Elems, n \in 0..2 :
         LET other == VecCopy([data |-> <<e, f, Garbage>>, used |-> n])
         IN VecDid(Assignment(VecContents(other)), VecAssign(vec.v, other), NoIter)

VecSpec == VecInit /\ [][VecNext]_vec

\* A vector is a sequence with the calls of Collection.
VecAsCollection == INSTANCE Collection WITH Values <- Elems \cup {0},
    contents <- VecContents(vec.v), size <- vec.v.used, call <- vec.call, ret <- vec.ret
VectorIsASequence == VecAsCollection!CollectionSpec
=============================================================================
