------------------------------ MODULE CodePages ------------------------------
(***************************************************************************)
(* Where generated code lives: CPageAlloc (sh_pagealloc.h) and its two      *)
(* users.  GenBuffer (sourcehook_hookmangen.h) holds the code of the hook   *)
(* managers CHookManagerAutoGen hands out and counts, and CVfnPtr keeps its *)
(* thunks for original functions in pages of its own.                       *)
(*                                                                          *)
(* A region is a run of pages with one protection; its allocation units are *)
(* kept apart, and a pointer is <<region, offset>>.  Offsets are in units   *)
(* small enough for the alignments.                                         *)
(***************************************************************************)
EXTENDS Sublists

CONSTANTS Protos,     \* prototype, vtable offset and index of a hook manager
          ThunkOwners,\* CVfnPtrs whose original entry is odd
          PageSize,
          ThunkSize, ThunkAlign,
          Initial,    \* first size of a GenBuffer (64 bytes)
          MaxSize,    \* bound: size of a GenBuffer
          MaxHolders  \* bound: times a hook manager is asked for

ASSUME PagesAssumption ==
    /\ {PageSize, ThunkSize, ThunkAlign, Initial} \subseteq Nat \ {0}
    /\ {MaxSize, MaxHolders} \subseteq Nat

VARIABLE code
\* code.regions   the regions of both allocators, in the order they were made
\* code.thunk     thunk of an owner, or Null
\* code.ctx       m_Contexts: hook function, public function, m_RefCnt
\* code.held      times a client was given the hook manager and has not released it
\* code.gen       the hook manager that is being generated, or Idle

Null == <<0, 0>>
EmptyBuffer == [data |-> Null, allocated |-> 0]
NoContext   == [hookFunc |-> EmptyBuffer, pubFunc |-> EmptyBuffer, refCnt |-> 0]
Idle        == [proto |-> "none", stage |-> "none"]

-----------------------------------------------------------------------------
(* CPageAlloc.  An allocator is the list of its regions and its alignment.  *)
Padding(begin, align) == (align - (begin % align)) % align

Ends(r)   == {0} \cup {u.begin + u.size : u \in r.units}
Begins(r) == {r.size} \cup {u.begin : u \in r.units}
GapEnd(r, begin) == CHOOSE e \in {b \in Begins(r) : b >= begin} :
                       \A b \in Begins(r) : b >= begin => e <= b

\* The gaps in which size units fit after alignment, and the smallest of them.
Fitting(r, size, align) ==
    {begin \in Ends(r) : GapEnd(r, begin) - begin >= size + Padding(begin, align)}

CheckGaps(r, size, align) ==
    CHOOSE begin \in Fitting(r, size, align) :
      \A other \in Fitting(r, size, align) :
        LET here == GapEnd(r, begin) - begin  there == GapEnd(r, other) - other
        IN here < there \/ (here = there /\ begin <= other)

TryAlloc(r, size, align) ==
    LET begin == CheckGaps(r, size, align)
    IN [r EXCEPT !.units = @ \cup {[begin |-> begin, size |-> size + Padding(begin, align)]}]

TryAllocAt(r, size, align) ==
    LET begin == CheckGaps(r, size, align) IN begin + Padding(begin, align)

RoundUp(size) == PageSize * ((size + PageSize - 1) \div PageSize)

NewRegion(regions, size) ==
    [id |-> CHOOSE n \in 1..(Len(regions) + 1) : \A k \in DOMAIN regions : regions[k].id # n,
     size |-> RoundUp(size), units |-> {}, isRE |-> FALSE]

\* The first region with room, or a new one.
Roomy(regions, size, align) ==
    Lowest({k \in DOMAIN regions : Fitting(regions[k], size, align) # {}})

\* [regions, ptr]: what Alloc leaves and what it returns.
Alloc(regions, size, align) ==
    LET k    == Roomy(regions, size, align)
        rs   == IF k = 0 THEN Append(regions, NewRegion(regions, size)) ELSE regions
        i    == IF k = 0 THEN Len(rs) ELSE k
    IN [regions |-> [rs EXCEPT ![i] = TryAlloc(@, size, align)],
        ptr     |-> <<rs[i].id, TryAllocAt(rs[i], size, align)>>]

IndexOf(regions, ptr) == Lowest({k \in DOMAIN regions : regions[k].id = ptr[1]})

UnitsAt(r, ptr, align) == {u \in r.units : u.begin + Padding(u.begin, align) = ptr[2]}

\* Free: the region goes with its last unit.
Free(regions, ptr, align) ==
    LET k == IndexOf(regions, ptr)
        r == [regions[k] EXCEPT !.units = @ \ UnitsAt(regions[k], ptr, align)]
    IN IF ptr = Null THEN regions
       ELSE IF r.units = {} THEN Without(regions, {regions[k]}) ELSE [regions EXCEPT ![k] = r]

SetAccess(regions, ptr, isRE) ==
    IF ptr = Null THEN regions ELSE [regions EXCEPT ![IndexOf(regions, ptr)].isRE = isRE]

SetRE(regions, ptr) == SetAccess(regions, ptr, TRUE)
SetRW(regions, ptr) == SetAccess(regions, ptr, FALSE)

-----------------------------------------------------------------------------
(* GenBuffer                                                                *)
\* GenBuffer's pages are aligned to 16 bytes, and so are all its sizes.
BufferAlign == 1

GrownSize(b) == IF b.allocated = 0 THEN Initial ELSE 2 * b.allocated

\* push when the code no longer fits: the old copy's region is made executable
\* again before the old copy is freed, as other code may be in it.
PushAndFree(regions, b) ==                                      \* mutant
    LET a == Alloc(regions, GrownSize(b), BufferAlign)
    IN [regions |-> Free(SetRW(a.regions, a.ptr), b.data, BufferAlign),
        buffer  |-> [data |-> a.ptr, allocated |-> GrownSize(b)]]

Push(regions, b) ==
    LET a == Alloc(regions, GrownSize(b), BufferAlign)
        copied == SetRW(SetRE(SetRW(a.regions, a.ptr), b.data), a.ptr)
    IN [regions |-> Free(copied, b.data, BufferAlign),
        buffer  |-> [data |-> a.ptr, allocated |-> GrownSize(b)]]

Clear(regions, b) == Free(regions, b.data, BufferAlign)

-----------------------------------------------------------------------------
PagesInit ==
    code = [gen |-> Idle, genPages |-> <<>>, thunkPages |-> <<>>,
            ctx |-> [p \in Protos |-> NoContext], held |-> [p \in Protos |-> 0],
            thunk |-> [v \in ThunkOwners |-> Null]]

Generating == code.gen # Idle

\* MakeHookMan: a known hook manager is counted, another one generated.
MakeHookMan(p) ==
    /\ ~Generating /\ code.held[p] < MaxHolders
    /\ code' = IF code.ctx[p].refCnt > 0
               THEN [code EXCEPT !.ctx[p].refCnt = @ + 1, !.held[p] = @ + 1]
               ELSE [code EXCEPT !.gen = [proto |-> p, stage |-> "hookFunc"],
                                 !.ctx[p] = NoContext]

\* One more instruction than the buffer holds.
Grow ==
    /\ Generating
    /\ LET p == code.gen.proto  s == code.gen.stage IN
       /\ GrownSize(code.ctx[p][s]) <= MaxSize
       /\ LET pushed == Push(code.genPages, code.ctx[p][s]) IN
          code' = [code EXCEPT !.genPages = pushed.regions, !.ctx[p][s] = pushed.buffer]

\* The end of GenerateHookFunc, then of GeneratePubFunc.
Generated ==
    /\ Generating
    /\ LET p == code.gen.proto  s == code.gen.stage
           done == [code EXCEPT !.genPages = SetRE(@, code.ctx[p][s].data)] IN
       /\ code.ctx[p][s].data # Null
       /\ code' = IF s = "hookFunc" THEN [done EXCEPT !.gen.stage = "pubFunc"]
                  ELSE [done EXCEPT !.gen = Idle, !.ctx[p].refCnt = 1, !.held[p] = 1]

\* ReleaseHookMan: the last release deletes the code.
ReleaseHookMan(p) ==
    /\ ~Generating /\ code.held[p] > 0
    /\ LET c == code.ctx[p]
           fewer == [code EXCEPT !.held[p] = @ - 1, !.ctx[p].refCnt = @ - 1] IN
       code' = IF c.refCnt > 1 THEN fewer
               ELSE [fewer EXCEPT !.ctx[p] = NoContext,
                                  !.genPages = Clear(Clear(@, c.hookFunc), c.pubFunc)]

\* CVfnPtr::Init of an odd entry, and the clean-up task that frees its thunk.
MakeThunk(v) ==
    /\ code.thunk[v] = Null
    /\ LET a == Alloc(code.thunkPages, ThunkSize, ThunkAlign) IN
       code' = [code EXCEPT !.thunkPages = SetRE(SetRW(a.regions, a.ptr), a.ptr),
                            !.thunk[v] = a.ptr]

FreeThunk(v) ==
    /\ code.thunk[v] # Null
    /\ code' = [code EXCEPT !.thunkPages = Free(@, code.thunk[v], ThunkAlign), !.thunk[v] = Null]

HookManNext == \/ \E p \in Protos : MakeHookMan(p) \/ ReleaseHookMan(p)
               \/ Grow \/ Generated

ThunkNext == \E v \in ThunkOwners : MakeThunk(v) \/ FreeThunk(v)

PagesNext == HookManNext \/ ThunkNext

PagesSpec == PagesInit /\ [][PagesNext]_code

-----------------------------------------------------------------------------
\* A piece of code in use: its pointer is aligned, in a region that may be
\* executed, and the whole of it in a unit that overlaps no other.
Apart(u, w) == u.begin + u.size <= w.begin \/ w.begin + w.size <= u.begin

Executes(regions, ptr, size, align) ==
    LET k == IndexOf(regions, ptr) IN
    /\ k # 0 /\ regions[k].isRE
    /\ ptr[2] % align = 0
    /\ \E u \in regions[k].units :
         /\ u.begin <= ptr[2] /\ ptr[2] + size <= u.begin + u.size
         /\ u.begin + u.size <= regions[k].size
         /\ \A w \in regions[k].units \ {u} : Apart(u, w)

\* Code that clients hold stays where it is, intact and executable, however
\* much other code is generated, moved and freed in the same pages.  (While a
\* hook manager is being generated its pages are writable instead.)
LiveCodeExecutes ==
    /\ ~Generating => \A p \in Protos : code.held[p] > 0 =>
         \A f \in {"hookFunc", "pubFunc"} :
           Executes(code.genPages, code.ctx[p][f].data, code.ctx[p][f].allocated, BufferAlign)
    /\ \A v \in ThunkOwners : code.thunk[v] # Null =>
         Executes(code.thunkPages, code.thunk[v], ThunkSize, ThunkAlign)
=============================================================================
