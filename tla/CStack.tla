-------------------------------- MODULE CStack --------------------------------
(***************************************************************************)
(* CStack (sh_stack.h): a stack in sectors of SECTOR_SIZE elements, which   *)
(* a CVector of pointers holds.  It never gives a sector back before it is  *)
(* destroyed, so a pointer to an element holds as long as the element does: *)
(* SourceHook keeps its hook loop contexts here and hands out pointers.     *)
(***************************************************************************)
EXTENDS CVector
LOCAL INSTANCE SequencesExt

CONSTANT SectorSize   \* SECTOR_SIZE (16)

ASSUME StackAssumption == SectorSize \in Nat \ {0}

VARIABLE stk    \* [s: a stack, call, ret]

\* sectors is the CVector of sector ids, mem what is in each sector.
EmptyStack == [sectors |-> EmptyVector, mem |-> <<>>, used |-> 0]

\* at(x): the sector and the place in it.
StkAddress(s, x) == <<s.sectors.data[(x \div SectorSize) + 1], (x % SectorSize) + 1>>
StkRead(s, address) == s.mem[address[1]][address[2]]
StkAt(s, x) == StkRead(s, StkAddress(s, x))

StkContents(s) == [k \in 1..s.used |-> StkAt(s, k - 1)]

NewSector == [k \in 1..SectorSize |-> Garbage]

\* new T[SECTOR_SIZE], and its address in m_Sectors.
AddSector(s, sector) ==
    [s EXCEPT !.sectors = VecPushBack(@, Len(s.mem) + 1), !.mem = Append(@, sector)]

\* push without the assignment of the element.
MakeNext(s) ==
    [IF s.used \div SectorSize >= s.sectors.used THEN AddSector(s, NewSector) ELSE s
       EXCEPT !.used = @ + 1]

PushInLargerSector(s, val) ==                                   \* mutant
    LET larger == [s EXCEPT !.mem = Append(@, s.mem[Len(s.mem)]),
                            !.sectors.data[s.sectors.used] = Len(s.mem) + 1]
        n == MakeNext(IF s.used > 0 /\ s.used % SectorSize = 0 THEN larger ELSE s)
        a == StkAddress(n, s.used)
    IN [n EXCEPT !.mem[a[1]][a[2]] = val]

StkPush(s, val) ==
    LET n == MakeNext(s)  a == StkAddress(n, s.used) IN [n EXCEPT !.mem[a[1]][a[2]] = val]

StkPop(s)    == [s EXCEPT !.used = @ - 1]
StkPopAll(s) == [s EXCEPT !.used = 0]

\* The copy constructor and operator= copy every sector, used or not.
StkCopyOf(other) ==
    [mem     |-> [k \in 1..other.sectors.used |-> other.mem[other.sectors.data[k]]],
     sectors |-> FoldLeft(VecPushBack, EmptyVector, [k \in 1..other.sectors.used |-> k]),
     used    |-> other.used]

-----------------------------------------------------------------------------
StkInit == stk = [s |-> EmptyStack, call |-> Call("new", 0, 0), ret |-> NoIter]

StkDo(op, val, s) == stk' = [s |-> s, call |-> Call(op, 0, val), ret |-> NoIter]

StkNext ==
    \/ \E e \in Elems : stk.s.used < MaxLen /\ StkDo("push_back", e, StkPush(stk.s, e))
    \/ stk.s.used > 0 /\ StkDo("pop_back", 0, StkPop(stk.s))
    \/ StkDo("clear", 0, StkPopAll(stk.s))
    \/ StkDo("copy", 0, StkCopyOf(stk.s))

StkSpec == StkInit /\ [][StkNext]_stk

StkAsCollection == INSTANCE Collection WITH Values <- Elems \cup {0},
    contents <- StkContents(stk.s), size <- stk.s.used, call <- stk.call, ret <- stk.ret
StackIsASequence == StkAsCollection!CollectionSpec

\* "May _never_ reallocate used memory!": an element that is on the stack before
\* and after a call is where it was.
StackStaysPut ==
    stk'.call.op # "copy" =>
      \A x \in 0..(MaxLen - 1) : x < stk.s.used /\ x < stk'.s.used =>
        /\ StkAddress(stk'.s, x) = StkAddress(stk.s, x)
        /\ StkAt(stk'.s, x) = StkAt(stk.s, x)
=============================================================================
