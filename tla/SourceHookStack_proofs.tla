------------------------ MODULE SourceHookStack_proofs ------------------------
(***************************************************************************)
(* SourceHook's stacks, for any constants: m_ContextStack and the C++ call *)
(* stack nest, the contexts of running hookfuncs stay usable whatever      *)
(* handlers do, and no plugin is unloaded below its own code.              *)
(***************************************************************************)
EXTENDS SourceHook_proofs, SequenceTheorems

-----------------------------------------------------------------------------
(* Invariants *)

LoopPcs == {"pre", "handler", "recall", "orig", "post"}
HookCalls == {i \in DOMAIN frames : frames[i].kind = "hook"}

StackType ==
    /\ ctxs \in Seq(Context)
    /\ tasks \in Seq({"none", "armed", "run"}) /\ Len(ctxs) <= Len(tasks)
    /\ frames \in Seq(FrameType)

\* A hookfunc's frame: the context it works on is on the stack, made for its entry and
\* not waiting for the function an SH_CALL calls; the thunk it will call is not freed
\* before that context is.
Running(f) ==
    /\ f.ctx \in 1..Len(ctxs)
    /\ ctxs[f.ctx].state # "Ignore"
    /\ ctxs[f.ctx].vfn \in {f.v, NoVfn}
    /\ f.loop = "pre" => \/ f.thunk \in 1..f.ctx
                         \/ f.thunk = 0 /\ (f.v \in Odd => ctxs[f.ctx].vfn = f.v)

\* Only hookfuncs run loops and have code of a plugin on the stack.
KindsInv ==
    \A i \in DOMAIN frames :
        /\ frames[i].kind = "hook" <=> frames[i].pc \in LoopPcs
        /\ frames[i].kind # "hook" => frames[i].man = None /\ frames[i].plug = None

\* Each hookfunc works on a context above those of the hookfuncs it was called from.
OrderInv ==
    \A i, j \in DOMAIN frames :
        i < j /\ frames[i].kind = "hook" /\ frames[j].kind # "plain" => frames[i].ctx < frames[j].ctx

\* The context an SH_CALL pushed is no entry's until a hookfunc uses it up.
IgnoreInv == \A n \in DOMAIN ctxs : ctxs[n].state = "Ignore" => ctxs[n].vfn = NoVfn

FramesInv ==
    /\ StackType
    /\ KindsInv
    /\ \A i \in DOMAIN frames : frames[i].kind = "hook" => Running(frames[i])
    /\ OrderInv
    /\ IgnoreInv

\* None of the code of the plugins about to be unloaded is on the call stack.
RipeInv ==
    \A u \in Elements(pending), i \in DOMAIN frames :
        Ripe(u) => /\ frames[i].plug # u.plug
                   /\ frames[i].man # None => OwnerOf[frames[i].man] # u.plug

\* As long as only the hookfunc of a hooked function follows a recall, no context is
\* left without a call: each call is at most one context above the one below it, every
\* context that is not an SH_CALL's has its hookfunc, and a recall context is on top
\* while the hookfunc it is for looks for it.
CtxBelow(i) == IF i = 1 THEN 0 ELSE frames[i - 1].ctx
DepthInv ==
    /\ \A i \in DOMAIN frames : frames[i].kind # "plain" /\ frames[i].ctx <= 1 + CtxBelow(i)
    /\ Len(ctxs) <= CtxBelow(Len(frames) + 1)
OwnedInv == \A n \in DOMAIN ctxs : ctxs[n].state = "Ignore" \/ \E i \in HookCalls : frames[i].ctx = n
PickUpInv ==
    \A n \in DOMAIN ctxs : ctxs[n].state \in RecallStates =>
        frames # <<>> /\ Top.kind = "hook" /\ Top.pc = "pre" /\ Top.ctx = n
NestInv == DepthInv /\ OwnedInv /\ PickUpInv

\* A context whose loop may still walk the lists.
InUse(c) == c.state \notin {"Dead", "Ignore", "Stray"}

-----------------------------------------------------------------------------
(* Walking the lists *)

\* The least element Min chooses is one.
LEMMA MinIsOne ==
    ASSUME NEW T, T \subseteq Nat, T # {}
    PROVE  Min(T) \in T /\ \A k \in T : Min(T) <= k
  BY LeastNatural DEF Min

\* NextHook returns an unpaused hook of the list, or 0.
LEMMA NextHookFound ==
    ASSUME NEW list \in Seq(1..MaxIds), NEW iter
    PROVE  NextHook(list, iter) = 0 \/ NextHook(list, iter) \in Elements(list) \ paused
<1>. DEFINE from == IF iter = AtStart THEN 0 ELSE SelectInSeq(list, LAMBDA h : h = iter)
            I == {i \in 1..Len(list) : list[i] = iter}
            J == {i \in from + 1..Len(list) : list[i] \notin paused}
            n == SelectInSubSeq(list, from + 1, Len(list), LAMBDA h : h \notin paused)
<1>1. Len(list) \in Nat /\ DOMAIN list = 1..Len(list)
  OBVIOUS
<1>2. from \in Nat
  <2>1. SelectInSeq(list, LAMBDA h : h = iter) = IF I # {} THEN Min(I) ELSE 0
    BY DEF SelectInSeq
  <2>2. I # {} => Min(I) \in Nat
    <3>1. I \subseteq Nat
      OBVIOUS
    <3>. HIDE DEF I
    <3>. QED
      BY <3>1, MinIsOne
  <2>. QED
    BY <2>1, <2>2
<1>3. n = IF J # {} THEN Min(J) ELSE 0
  BY DEF SelectInSubSeq
<1>4. NextHook(list, iter) = IF n = 0 THEN 0 ELSE list[n]
  BY DEF NextHook
<1>. HIDE DEF from, n
<1>5. J # {} => Min(J) \in J
  <2>1. J \subseteq Nat
    BY <1>2
  <2>. HIDE DEF J
  <2>. QED
    BY <2>1, MinIsOne
<1>6. CASE J # {}
  <2>1. n \in 1..Len(list) /\ n # 0 /\ list[n] \notin paused
    BY <1>2, <1>3, <1>5, <1>6
  <2>. QED
    BY <1>1, <1>4, <2>1 DEF Elements
<1>. QED
  BY <1>3, <1>4, <1>6

\* What the lists of an entry hold is live.
LEMMA ListsAreLive ==
    ASSUME RegistryInv, NEW v \in VfnPtrs, NEW i \in Ifaces, NEW b \in BOOLEAN
    PROVE  /\ hooks[<<v, i, b>>] \in Seq(1..MaxIds)
           /\ Elements(hooks[<<v, i, b>>]) \subseteq Live
<1>1. <<v, i, b>> \in Lists
  BY DEF Lists
<1>. QED
  BY <1>1 DEF RegistryInv

\* The context d after a walk from c: at a live hook, or past the last one.
Walked(c, d) ==
    \/ \E h \in Live \ paused, s \in HookStates : d = [c EXCEPT !.state = s, !.iter = h]
    \/ \E s \in {"OrigCall", "Dead"} : d = [c EXCEPT !.state = s, !.iter = AtStart]

\* Walking a VP list: on to a live hook of it, or to its end.
LEMMA WalkVPEffect ==
    ASSUME RegistryInv, NEW c \in Context, c.vfn \in VfnPtrs,
           NEW vp, vp \in {"PreVP", "PostVP"}, NEW after, after \in {"OrigCall", "Dead"}
    PROVE  Walked(c, WalkVP(c, vp, after))
<1>. DEFINE list == hooks[<<c.vfn, VP, vp = "PostVP">>]
<1>1. list \in Seq(1..MaxIds) /\ Elements(list) \subseteq Live
  BY ListsAreLive DEF Ifaces
<1>2. NextHook(list, c.iter) = 0 \/ NextHook(list, c.iter) \in Live \ paused
  BY <1>1, NextHookFound
<1>. QED
  BY <1>2 DEF WalkVP, Walked, HookStates

\* Walking an interface list and then the VP list.
LEMMA WalkIfaceEffect ==
    ASSUME RegistryInv, NEW c \in Context, c.vfn \in VfnPtrs,
           NEW normal, normal \in {"Pre", "Post"}, NEW vp, vp \in {"PreVP", "PostVP"},
           NEW after, after \in {"OrigCall", "Dead"}
    PROVE  Walked(c, WalkIface(c, normal, vp, after))
<1>. DEFINE list == hooks[<<c.vfn, c.obj, normal = "Post">>]
            n == IF c.iface = "set" THEN NextHook(list, c.iter) ELSE 0
            e == [c EXCEPT !.iter = AtStart]
<1>1. list \in Seq(1..MaxIds) /\ Elements(list) \subseteq Live
  BY ListsAreLive DEF Ifaces, Context
<1>2. n = 0 \/ n \in Live \ paused
  BY <1>1, NextHookFound
<1>3. CASE n # 0
  BY <1>2, <1>3 DEF WalkIface, Walked, HookStates
<1>4. CASE n = 0
  <2>1. WalkIface(c, normal, vp, after) = WalkVP(e, vp, after)
    BY <1>4 DEF WalkIface
  <2>2. e \in Context /\ e.vfn \in VfnPtrs
    BY BoundAssumption DEF Context, AtStart, Dangling
  <2>3. Walked(e, WalkVP(e, vp, after))
    <3>. HIDE DEF e
    <3>. QED
      BY <2>2, WalkVPEffect
  <2>4. \A h, s : [e EXCEPT !.state = s, !.iter = h] = [c EXCEPT !.state = s, !.iter = h]
    BY DEF Context
  <2>. HIDE DEF e
  <2>. QED
    BY <2>1, <2>3, <2>4 DEF Walked
<1>. QED
  BY <1>3, <1>4

\* GetNext goes on to a live hook and returns it, or ends the loop and returns none;
\* a post recall resumes its list, and contexts without a loop stay as they are.
LEMMA AdvancedEffect ==
    ASSUME RegistryInv, NEW c \in Context, ~UsesFreed(c)
    PROVE  \/ /\ InUse(c)
              /\ GetNext(c) \in Live \ paused
              /\ \E s \in HookStates : Advanced(c) = [c EXCEPT !.state = s, !.iter = GetNext(c)]
           \/ /\ InUse(c)
              /\ GetNext(c) = 0
              /\ \E s \in {"OrigCall", "Dead"} : Advanced(c) = [c EXCEPT !.state = s, !.iter = AtStart]
           \/ /\ c.state \in {"Recall_Post", "Recall_PostVP"}
              /\ GetNext(c) = 0
              /\ Advanced(c) = PostResumed(c)
           \/ /\ ~InUse(c)
              /\ GetNext(c) = 0
              /\ Advanced(c) = c
<1>1. c.state \in HookStates \union RecallStates \union {"Born", "OrigCall", "Dead", "Ignore", "Stray"}
  BY DEF Context
<1>2. InUse(c) => c.vfn \in VfnPtrs
  BY DEF UsesFreed, InUse, Context
<1>3. \A h, s : LET d == [c EXCEPT !.state = s, !.iter = h] IN d.state = s /\ d.iter = h
  BY DEF Context
<1>4. ASSUME c.state \in {"Born", "Pre", "Recall_Pre", "PreVP", "Recall_PreVP", "OrigCall", "Post", "PostVP"}
      PROVE  Walked(c, Advanced(c))
  <2>1. InUse(c) /\ c.vfn \in VfnPtrs
    BY <1>2, <1>4 DEF InUse
  <2>2. CASE c.state \in {"Born", "Pre", "Recall_Pre"}
    <3>1. Advanced(c) = WalkIface(c, "Pre", "PreVP", "OrigCall")
      BY <2>2 DEF Advanced
    <3>. QED
      BY <2>1, <3>1, WalkIfaceEffect
  <2>3. CASE c.state \in {"PreVP", "Recall_PreVP"}
    <3>1. Advanced(c) = WalkVP(c, "PreVP", "OrigCall")
      BY <2>3 DEF Advanced
    <3>. QED
      BY <2>1, <3>1, WalkVPEffect
  <2>4. CASE c.state = "OrigCall"
    <3>1. PICK e : e = [c EXCEPT !.iter = AtStart]
      OBVIOUS
    <3>2. Advanced(c) = WalkIface(e, "Post", "PostVP", "Dead")
      BY <2>4, <3>1 DEF Advanced
    <3>3. e \in Context /\ e.vfn \in VfnPtrs
      BY <2>1, <3>1, BoundAssumption DEF Context, AtStart, Dangling
    <3>4. Walked(e, WalkIface(e, "Post", "PostVP", "Dead"))
      BY <3>3, WalkIfaceEffect
    <3>5. \A h, s : [e EXCEPT !.state = s, !.iter = h] = [c EXCEPT !.state = s, !.iter = h]
      BY <3>1 DEF Context
    <3>. QED
      BY <3>2, <3>4, <3>5 DEF Walked
  <2>5. CASE c.state = "Post"
    <3>1. Advanced(c) = WalkIface(c, "Post", "PostVP", "Dead")
      BY <2>5 DEF Advanced
    <3>. QED
      BY <2>1, <3>1, WalkIfaceEffect
  <2>6. CASE c.state = "PostVP"
    <3>1. Advanced(c) = WalkVP(c, "PostVP", "Dead")
      BY <2>6 DEF Advanced
    <3>. QED
      BY <2>1, <3>1, WalkVPEffect
  <2>. QED
    BY <1>4, <2>2, <2>3, <2>4, <2>5, <2>6
<1>5. CASE c.state \in {"Born", "Pre", "Recall_Pre", "PreVP", "Recall_PreVP", "OrigCall", "Post", "PostVP"}
  <2>1. InUse(c) /\ c.state \notin {"Recall_Post", "Recall_PostVP", "Dead"}
    BY <1>5 DEF InUse
  <2>2. GetNext(c) = IF Advanced(c).state \in HookStates THEN Advanced(c).iter ELSE 0
    BY <2>1 DEF GetNext
  <2>3. CASE \E h \in Live \ paused, s \in HookStates : Advanced(c) = [c EXCEPT !.state = s, !.iter = h]
    <3>1. PICK h \in Live \ paused, s \in HookStates : Advanced(c) = [c EXCEPT !.state = s, !.iter = h]
      BY <2>3
    <3>2. GetNext(c) = h
      BY <1>3, <2>2, <3>1
    <3>. QED
      BY <2>1, <3>1, <3>2
  <2>4. CASE \E s \in {"OrigCall", "Dead"} : Advanced(c) = [c EXCEPT !.state = s, !.iter = AtStart]
    <3>1. Advanced(c).state \notin HookStates
      BY <1>3, <2>4 DEF HookStates
    <3>. QED
      BY <2>1, <2>2, <2>4, <3>1
  <2>. QED
    BY <1>4, <1>5, <2>3, <2>4 DEF Walked
<1>6. CASE c.state \in {"Recall_Post", "Recall_PostVP"}
  BY <1>6 DEF Advanced, GetNext
<1>7. CASE c.state \in {"Dead", "Ignore", "Stray"}
  BY <1>7 DEF Advanced, GetNext, InUse, HookStates
<1>. QED
  BY <1>1, <1>5, <1>6, <1>7 DEF HookStates, RecallStates

-----------------------------------------------------------------------------
(* The call stack *)

\* Front drops the last element.
LEMMA FrontElements ==
    ASSUME NEW S, NEW s \in Seq(S), s # <<>>
    PROVE  /\ Len(s) \in Nat \ {0}
           /\ Last(s) \in S
           /\ Front(s) \in Seq(S)
           /\ Len(Front(s)) = Len(s) - 1
           /\ DOMAIN Front(s) = 1..Len(s) - 1
           /\ \A i \in 1..Len(s) - 1 : Front(s)[i] = s[i]
<1>1. PICK n \in Nat \ {0} : n = Len(s) /\ \A i \in 1..n : s[i] \in S
  OBVIOUS
<1>2. PICK k \in Nat : k = n - 1
  BY <1>1
<1>3. Front(s) = SubSeq(s, 1, k)
  BY <1>1, <1>2 DEF Front
<1>4. \A i \in 1..k : s[i] \in S
  BY <1>1, <1>2
<1>5. /\ SubSeq(s, 1, k) \in Seq(S)
      /\ Len(SubSeq(s, 1, k)) = IF 1 <= k THEN k - 1 + 1 ELSE 0
      /\ \A i \in 1..k - 1 + 1 : SubSeq(s, 1, k)[i] = s[1 + i - 1]
  BY <1>2, <1>4, SubSeqProperties
<1>6. Len(Front(s)) = k /\ Front(s) \in Seq(S) /\ \A i \in 1..k : Front(s)[i] = s[i]
  BY <1>2, <1>3, <1>5
<1>. QED
  BY <1>1, <1>2, <1>6 DEF Last

\* A frame stays one when a field gets another value of the field's type.
LEMMA FrameUpdates ==
    ASSUME NEW f \in FrameType
    PROVE  /\ \A x \in {"pre", "handler", "recall", "orig", "post", "body", "reset"} : [f EXCEPT !.pc = x] \in FrameType
           /\ \A x \in {"pre", "post"} : [f EXCEPT !.loop = x] \in FrameType
           /\ \A x \in HookMans \union {None} : [f EXCEPT !.man = x] \in FrameType
           /\ \A x \in 0..MaxIds : [f EXCEPT !.hook = x] \in FrameType
           /\ \A x \in Plugins \union {None} : [f EXCEPT !.plug = x] \in FrameType
           /\ \A x \in BOOLEAN : [f EXCEPT !.sup = x] \in FrameType
           /\ \A x \in BOOLEAN : [f EXCEPT !.asked = x] \in FrameType
           /\ \A x \in Nat \union {Dangling} : [f EXCEPT !.thunk = x] \in FrameType
           /\ \A x \in SUBSET (1..MaxIds) : [f EXCEPT !.due = x] \in FrameType
           /\ \A x \in SUBSET (1..MaxIds) : [f EXCEPT !.done = x] \in FrameType
           /\ \A x \in Nat : [f EXCEPT !.ran = x] \in FrameType
<1>1. \A x \in {"pre", "handler", "recall", "orig", "post", "body", "reset"} : [f EXCEPT !.pc = x] \in FrameType
  BY DEF FrameType
<1>2. \A x \in {"pre", "post"} : [f EXCEPT !.loop = x] \in FrameType
  BY DEF FrameType
<1>3. \A x \in HookMans \union {None} : [f EXCEPT !.man = x] \in FrameType
  BY DEF FrameType
<1>4. \A x \in 0..MaxIds : [f EXCEPT !.hook = x] \in FrameType
  BY DEF FrameType
<1>5. \A x \in Plugins \union {None} : [f EXCEPT !.plug = x] \in FrameType
  BY DEF FrameType
<1>6. \A x \in BOOLEAN : [f EXCEPT !.sup = x] \in FrameType
  BY DEF FrameType
<1>7. \A x \in BOOLEAN : [f EXCEPT !.asked = x] \in FrameType
  BY DEF FrameType
<1>8. \A x \in Nat \union {Dangling} : [f EXCEPT !.thunk = x] \in FrameType
  BY DEF FrameType
<1>9. \A x \in SUBSET (1..MaxIds) : [f EXCEPT !.due = x] \in FrameType
  BY DEF FrameType
<1>10. \A x \in SUBSET (1..MaxIds) : [f EXCEPT !.done = x] \in FrameType
  BY DEF FrameType
<1>11. \A x \in Nat : [f EXCEPT !.ran = x] \in FrameType
  BY DEF FrameType
<1>. QED
  BY <1>1, <1>2, <1>3, <1>4, <1>5, <1>6, <1>7, <1>8, <1>9, <1>10, <1>11

\* A frame that goes on without what the invariants are about.
SameCall(f, g) ==
    /\ g.kind = f.kind /\ g.v = f.v /\ g.man = f.man /\ g.ctx = f.ctx
    /\ g.pc \in LoopPcs <=> f.pc \in LoopPcs
    /\ g.loop \in {f.loop, "post"}

\* What else a frame may keep: its place in the loop, the hooks it owes and called, and
\* its account of the original's calls.
SameLoop(f, g) == g.pc = f.pc /\ g.loop = f.loop /\ g.sup = f.sup
SameDebt(f, g) == g.due = f.due /\ g.done = f.done
SameCount(f, g) == g.asked = f.asked /\ g.ran = f.ran

\* The context of the hookfunc on top.
LEMMA CurrentContext ==
    ASSUME FramesInv, frames # <<>>, Top.pc \in LoopPcs
    PROVE  /\ Len(frames) \in DOMAIN frames /\ Top = frames[Len(frames)] /\ Top \in FrameType
           /\ Top.kind = "hook" /\ Running(Top)
           /\ Top.ctx \in DOMAIN ctxs /\ Current = ctxs[Top.ctx] /\ Current \in Context
<1>1. frames \in Seq(FrameType) /\ ctxs \in Seq(Context)
  BY DEF FramesInv, StackType
<1>2. Len(frames) \in DOMAIN frames /\ Top = frames[Len(frames)] /\ Top \in FrameType
  BY <1>1 DEF Top, Last
<1>3. Top.kind = "hook" /\ Running(Top)
  BY <1>2 DEF FramesInv, KindsInv
<1>4. Top.ctx \in DOMAIN ctxs
  BY <1>1, <1>3 DEF Running
<1>. QED
  BY <1>1, <1>2, <1>3, <1>4 DEF Current

\* What each of the hookfunc's own steps makes of its frame.
LoopMove(f, sup) ==
    \/ /\ NextHandler
       /\ f.pc = "handler" /\ f.loop = Top.loop /\ f.sup = Top.sup /\ SameCount(Top, f)
       /\ f.due = Top.due \ {GetNext(Current)} /\ f.done = Top.done \union {GetNext(Current)}
    \/ /\ PreLoopEnds
       /\ f.pc = (IF CallsOrig(Current) THEN "orig" ELSE "post") /\ f.loop = "post" /\ f.sup = Top.sup
       /\ SameDebt(Top, f) /\ f.asked = Top.asked
       /\ f.ran = IF CallsOrig(Current) THEN Top.ran + 1 ELSE Top.ran
    \/ /\ OrigReturns
       /\ f.pc = "post" /\ f.loop = Top.loop /\ f.sup = Top.sup /\ SameDebt(Top, f) /\ SameCount(Top, f)
    \/ /\ RecallReturns
       /\ f.pc = Top.loop /\ f.loop = Top.loop /\ f.sup = TRUE /\ SameDebt(Top, f) /\ SameCount(Top, f)
    \/ /\ HandlerReturns(sup)
       /\ f.pc = Top.loop /\ f.loop = Top.loop /\ f.sup = (Top.sup \/ sup)
       /\ SameDebt(Top, f) /\ f.ran = Top.ran /\ f.asked = (Top.asked \/ (sup /\ Top.loop = "pre"))

\* The hookfunc's own steps change the frame on top and its context only.
LEMMA LoopStep ==
    ASSUME RegistryInv, FramesInv, NEW sup \in BOOLEAN,
           NextHandler \/ PreLoopEnds \/ OrigReturns \/ RecallReturns \/ HandlerReturns(sup)
    PROVE  /\ frames # <<>> /\ Top.pc \in LoopPcs
           /\ \E f \in FrameType :
                /\ frames' = WithTop(f) /\ SameCall(Top, f)
                /\ f.thunk = Top.thunk
                /\ f.plug = None \/ f.plug = Top.plug \/ \E h \in Live : f.plug = entries[h].plug
                /\ LoopMove(f, sup)
           /\ \/ ctxs' = ctxs
              \/ ~UsesFreed(Current) /\ ctxs' = [ctxs EXCEPT ![Top.ctx] = Advanced(Current)]
           /\ UNCHANGED <<entries, hm, hooks, tasks, pending, gone>>
<1>1. frames # <<>> /\ Top.pc \in LoopPcs
  BY DEF NextHandler, PreLoopEnds, OrigReturns, RecallReturns, HandlerReturns, LoopPcs
<1>2. Top \in FrameType /\ Current \in Context /\ Top.kind = "hook"
  BY <1>1, CurrentContext
<1>3. CASE NextHandler
  <2>. DEFINE h == GetNext(Current)
  <2>1. h \in Live \ paused
    BY <1>2, <1>3, AdvancedEffect DEF NextHandler
  <2>2. h \in 1..MaxIds /\ entries[h].plug \in Plugins
    BY <2>1, LiveEntries DEF RegistryInv, Ids!Info
  <2>. DEFINE f == [Top EXCEPT !.pc = "handler", !.hook = h, !.plug = entries[h].plug,
                               !.due = @ \ {h}, !.done = @ \union {h}]
  <2>. HIDE DEF h
  <2>3. f \in FrameType
    <3>1. h \in 0..MaxIds /\ Top.due \ {h} \in SUBSET (1..MaxIds) /\ Top.done \union {h} \in SUBSET (1..MaxIds)
      BY <1>2, <2>2, BoundAssumption DEF FrameType
    <3>. QED
      BY <1>2, <2>2, <3>1, FrameUpdates
  <2>4. SameCall(Top, f) /\ f.thunk = Top.thunk /\ f.plug = entries[h].plug
    BY <1>1, <1>2 DEF SameCall, FrameType, LoopPcs
  <2>5. /\ f.pc = "handler" /\ f.loop = Top.loop /\ f.sup = Top.sup /\ SameCount(Top, f)
        /\ f.due = Top.due \ {h} /\ f.done = Top.done \union {h}
    BY <1>2 DEF SameCount, FrameType
  <2>6. LoopMove(f, sup)
    <3>. HIDE DEF f
    <3>. QED
      BY <1>3, <2>5 DEF LoopMove, h
  <2>. QED
    BY <1>1, <1>3, <2>1, <2>3, <2>4, <2>6 DEF NextHandler, h
<1>4. CASE PreLoopEnds
  <2>. DEFINE runs == CallsOrig(Current)
              f == [Top EXCEPT !.loop = "post", !.hook = 0, !.plug = None,
                               !.pc = IF runs THEN "orig" ELSE "post",
                               !.ran = IF runs THEN @ + 1 ELSE @]
  <2>1. f \in FrameType
    <3>1. 0 \in 0..MaxIds /\ Top.ran \in Nat /\ Top.ran + 1 \in Nat
      BY <1>2, BoundAssumption DEF FrameType
    <3>. QED
      BY <1>2, <3>1, FrameUpdates
  <2>2. SameCall(Top, f) /\ f.thunk = Top.thunk /\ f.plug = None
    BY <1>1, <1>2 DEF SameCall, FrameType, LoopPcs
  <2>3. LoopMove(f, sup)
    <3>1. /\ f.pc = (IF runs THEN "orig" ELSE "post") /\ f.loop = "post" /\ f.sup = Top.sup
          /\ SameDebt(Top, f) /\ f.asked = Top.asked
          /\ f.ran = IF runs THEN Top.ran + 1 ELSE Top.ran
      BY <1>2 DEF SameDebt, FrameType
    <3>. HIDE DEF f
    <3>. QED
      BY <1>4, <3>1 DEF LoopMove
  <2>. QED
    BY <1>1, <1>4, <2>1, <2>2, <2>3 DEF PreLoopEnds
<1>5. CASE OrigReturns
  <2>. DEFINE f == [Top EXCEPT !.pc = "post"]
  <2>1. f \in FrameType
    BY <1>2 DEF FrameType
  <2>2. SameCall(Top, f) /\ f.thunk = Top.thunk /\ f.plug = Top.plug
    BY <1>1, <1>2 DEF SameCall, FrameType, LoopPcs
  <2>3. LoopMove(f, sup)
    BY <1>2, <1>5 DEF LoopMove, SameDebt, SameCount, FrameType
  <2>. QED
    BY <1>1, <1>5, <2>1, <2>2, <2>3 DEF OrigReturns
<1>6. CASE RecallReturns
  <2>. DEFINE f == [Top EXCEPT !.pc = Top.loop, !.sup = TRUE, !.hook = 0, !.plug = None]
  <2>1. f \in FrameType
    <3>1. 0 \in 0..MaxIds /\ Top.loop \in {"pre", "post"}
      BY <1>2, BoundAssumption DEF FrameType
    <3>. QED
      BY <1>2, <3>1, FrameUpdates
  <2>2. SameCall(Top, f) /\ f.thunk = Top.thunk /\ f.plug = None
    BY <1>1, <1>2 DEF SameCall, FrameType, LoopPcs
  <2>3. LoopMove(f, sup)
    BY <1>2, <1>6 DEF LoopMove, SameDebt, SameCount, FrameType
  <2>. QED
    BY <1>1, <1>6, <2>1, <2>2, <2>3 DEF RecallReturns
<1>7. CASE HandlerReturns(sup)
  <2>. DEFINE f == [Top EXCEPT !.pc = Top.loop, !.sup = @ \/ sup, !.hook = 0, !.plug = None,
                               !.asked = @ \/ (sup /\ Top.loop = "pre")]
  <2>1. f \in FrameType
    <3>1. /\ 0 \in 0..MaxIds /\ Top.loop \in {"pre", "post"}
          /\ (Top.sup \/ sup) \in BOOLEAN /\ (Top.asked \/ (sup /\ Top.loop = "pre")) \in BOOLEAN
      BY <1>2, BoundAssumption DEF FrameType
    <3>. QED
      BY <1>2, <3>1, FrameUpdates
  <2>2. SameCall(Top, f) /\ f.thunk = Top.thunk /\ f.plug = None
    BY <1>1, <1>2 DEF SameCall, FrameType, LoopPcs
  <2>3. LoopMove(f, sup)
    <3>1. /\ f.pc = Top.loop /\ f.loop = Top.loop /\ f.sup = (Top.sup \/ sup)
          /\ SameDebt(Top, f) /\ f.ran = Top.ran /\ f.asked = (Top.asked \/ (sup /\ Top.loop = "pre"))
      BY <1>2 DEF SameDebt, FrameType
    <3>. HIDE DEF f
    <3>. QED
      BY <1>7, <3>1 DEF LoopMove
  <2>. QED
    BY <1>1, <1>7, <2>1, <2>2, <2>3 DEF HandlerReturns
<1>. QED
  BY <1>3, <1>4, <1>5, <1>6, <1>7

ContextStates == HookStates \union RecallStates \union {"Born", "OrigCall", "Dead", "Ignore", "Stray"}

\* A context stays one when its state or its iterator changes.
LEMMA ContextUpdates ==
    ASSUME NEW c \in Context
    PROVE  /\ \A x \in ContextStates : [c EXCEPT !.state = x] \in Context
           /\ \A x \in VfnPtrs \union {NoVfn} : [c EXCEPT !.vfn = x] \in Context
           /\ \A x \in Dangling..MaxIds : [c EXCEPT !.iter = x] \in Context
           /\ \A x \in BOOLEAN : [c EXCEPT !.callOrig = x] \in Context
           /\ \A x \in {"set", "null", "freed"} : [c EXCEPT !.iface = x] \in Context
<1>1. \A x \in ContextStates : [c EXCEPT !.state = x] \in Context
  BY DEF Context, ContextStates
<1>2. \A x \in VfnPtrs \union {NoVfn} : [c EXCEPT !.vfn = x] \in Context
  BY DEF Context
<1>3. \A x \in Dangling..MaxIds : [c EXCEPT !.iter = x] \in Context
  BY DEF Context
<1>4. \A x \in BOOLEAN : [c EXCEPT !.callOrig = x] \in Context
  BY DEF Context
<1>5. \A x \in {"set", "null", "freed"} : [c EXCEPT !.iface = x] \in Context
  BY DEF Context
<1>. QED
  BY <1>1, <1>2, <1>3, <1>4, <1>5

\* GetNext changes a context's state and iterator only.
LEMMA AdvancedContext ==
    ASSUME RegistryInv, NEW c \in Context, ~UsesFreed(c)
    PROVE  LET d == Advanced(c)
           IN  /\ d \in Context
               /\ d.vfn = c.vfn /\ d.obj = c.obj /\ d.iface = c.iface
               /\ d.state = "Ignore" <=> c.state = "Ignore"
               /\ d.state \notin RecallStates
               /\ InUse(d) => InUse(c)
               /\ InUse(d) => \/ d.state \in {"OrigCall"} \union HookStates /\ d.iter # Dangling
                              \/ d.iter = c.iter /\ ListKey(d) = ListKey(c) /\ c.state \in RecallStates
<1>1. \A s, h : LET e == [c EXCEPT !.state = s, !.iter = h]
                IN  e.state = s /\ e.iter = h /\ e.vfn = c.vfn /\ e.obj = c.obj /\ e.iface = c.iface
  BY DEF Context
<1>2. /\ \A s \in ContextStates, h \in Dangling..MaxIds : [c EXCEPT !.state = s, !.iter = h] \in Context
      /\ HookStates \subseteq ContextStates /\ {"OrigCall", "Dead"} \subseteq ContextStates
  BY ContextUpdates DEF ContextStates
<1>3. AtStart \in Dangling..MaxIds /\ AtStart # Dangling /\ \A h \in Live : h \in Dangling..MaxIds /\ h # Dangling
  BY BoundAssumption, LiveEntries DEF AtStart, Dangling, RegistryInv
<1>4. CASE InUse(c) /\ GetNext(c) \in Live /\ \E s \in HookStates : Advanced(c) = [c EXCEPT !.state = s, !.iter = GetNext(c)]
  <2>1. PICK s \in HookStates, h \in Live : Advanced(c) = [c EXCEPT !.state = s, !.iter = h]
    BY <1>4
  <2>2. Advanced(c) \in Context
    <3>1. s \in ContextStates /\ h \in Dangling..MaxIds
      BY <1>2, <1>3
    <3>2. [c EXCEPT !.state = s, !.iter = h] \in Context
      BY <1>2, <3>1, Zenon
    <3>. QED
      BY <2>1, <3>2, Zenon
  <2>3. s # "Ignore" /\ c.state # "Ignore" /\ s \notin RecallStates
    <3>1. s \in {"Pre", "PreVP", "Post", "PostVP"} /\ c.state # "Ignore"
      BY <1>4 DEF InUse, HookStates
    <3>. QED
      BY <3>1 DEF RecallStates
  <2>4. Advanced(c).state = s /\ Advanced(c).iter = h
    BY <1>1, <2>1
  <2>5. Advanced(c).vfn = c.vfn /\ Advanced(c).obj = c.obj /\ Advanced(c).iface = c.iface
    BY <1>1, <2>1
  <2>6. Advanced(c).state \in {"OrigCall"} \union HookStates /\ Advanced(c).iter # Dangling
    BY <1>3, <2>1, <2>4
  <2>7. /\ Advanced(c).state = "Ignore" <=> c.state = "Ignore"
        /\ Advanced(c).state \notin RecallStates
    BY <2>3, <2>4
  <2>8. InUse(c)
    BY <1>4
  <2>. QED
    BY <2>2, <2>5, <2>6, <2>7, <2>8
<1>5. CASE InUse(c) /\ \E s \in {"OrigCall", "Dead"} : Advanced(c) = [c EXCEPT !.state = s, !.iter = AtStart]
  <2>1. PICK s \in {"OrigCall", "Dead"} : Advanced(c) = [c EXCEPT !.state = s, !.iter = AtStart]
    BY <1>5
  <2>2. Advanced(c) \in Context
    <3>1. s \in ContextStates
      BY <1>2
    <3>2. [c EXCEPT !.state = s, !.iter = AtStart] \in Context
      BY <1>2, <1>3, <3>1, Zenon
    <3>. QED
      BY <2>1, <3>2, Zenon
  <2>3. s # "Ignore" /\ c.state # "Ignore" /\ s \notin RecallStates
    BY <1>5 DEF InUse, RecallStates
  <2>4. Advanced(c).state = s /\ Advanced(c).iter = AtStart
    BY <1>1, <2>1
  <2>5. Advanced(c).vfn = c.vfn /\ Advanced(c).obj = c.obj /\ Advanced(c).iface = c.iface
    BY <1>1, <2>1
  <2>6. InUse(Advanced(c)) => Advanced(c).state \in {"OrigCall"} \union HookStates /\ Advanced(c).iter # Dangling
    <3>1. s = "Dead" \/ s \in {"OrigCall"} \union HookStates
      OBVIOUS
    <3>2. s = "Dead" => ~InUse(Advanced(c))
      BY <2>4 DEF InUse
    <3>. QED
      BY <1>3, <2>4, <3>1, <3>2
  <2>7. /\ Advanced(c).state = "Ignore" <=> c.state = "Ignore"
        /\ Advanced(c).state \notin RecallStates
    BY <2>3, <2>4
  <2>8. InUse(c)
    BY <1>5
  <2>. QED
    BY <2>2, <2>5, <2>6, <2>7, <2>8
<1>6. CASE c.state \in {"Recall_Post", "Recall_PostVP"} /\ Advanced(c) = PostResumed(c)
  <2>1. /\ Advanced(c) \in Context
        /\ Advanced(c).state = (IF c.state = "Recall_Post" THEN "Post" ELSE "PostVP")
        /\ Advanced(c).vfn = c.vfn /\ Advanced(c).obj = c.obj /\ Advanced(c).iface = c.iface
        /\ Advanced(c).iter = c.iter
    BY <1>6, ContextUpdates DEF PostResumed, Context, HookStates
  <2>2. ListKey(Advanced(c)) = ListKey(c)
    BY <1>6, <2>1 DEF ListKey
  <2>. QED
    BY <1>6, <2>1, <2>2 DEF InUse, RecallStates
<1>7. CASE ~InUse(c) /\ Advanced(c) = c
  BY <1>7 DEF InUse, RecallStates
<1>. QED
  BY <1>4, <1>5, <1>6, <1>7, AdvancedEffect

\* A call that was on the stack before a step and still is: its context stays, its entry
\* may only be taken from it when its thunk is kept for it.
StaysRunning(i) ==
    /\ SameCall(frames[i], frames'[i])
    /\ frames[i].kind # "hook" => frames'[i].plug = None
    /\ frames[i].kind = "hook" =>
         /\ frames[i].ctx <= Len(ctxs')
         /\ ctxs'[frames[i].ctx].state # "Ignore"
         /\ ctxs'[frames[i].ctx].vfn \in {ctxs[frames[i].ctx].vfn, NoVfn}
         /\ frames[i].loop = "pre" =>
              \/ frames'[i].thunk \in 1..frames[i].ctx
              \/ /\ frames'[i].thunk = frames[i].thunk
                 /\ frames[i].v \in Odd => ctxs'[frames[i].ctx].vfn = ctxs[frames[i].ctx].vfn

\* A call the step put on the stack.
StartsRunning(j) ==
    /\ frames'[j].kind = "hook" <=> frames'[j].pc \in LoopPcs
    /\ frames'[j].kind # "hook" => frames'[j].man = None /\ frames'[j].plug = None
    /\ frames'[j].kind = "hook" => Running(frames[j])'
    /\ \A i \in 1..j - 1 :
         frames'[i].kind = "hook" /\ frames'[j].kind # "plain" => frames'[i].ctx < frames'[j].ctx

\* Whatever a step does to the stacks, the invariant survives when the calls that stay
\* keep running and those that start are set up right.
LEMMA StacksKept ==
    ASSUME FramesInv, StackType', IgnoreInv',
           \A i \in DOMAIN frames' : IF i \in DOMAIN frames THEN StaysRunning(i) ELSE StartsRunning(i)
    PROVE  FramesInv'
<1>1. /\ frames \in Seq(FrameType) /\ frames' \in Seq(FrameType)
      /\ DOMAIN frames = 1..Len(frames) /\ DOMAIN frames' = 1..Len(frames')
      /\ Len(frames) \in Nat /\ Len(frames') \in Nat
      /\ ctxs' \in Seq(Context) /\ Len(ctxs') \in Nat /\ Len(ctxs) \in Nat
  BY DEF FramesInv, StackType
<1>2. KindsInv'
  <2>. SUFFICES ASSUME NEW i \in DOMAIN frames'
                PROVE  /\ frames'[i].kind = "hook" <=> frames'[i].pc \in LoopPcs
                       /\ frames'[i].kind # "hook" => frames'[i].man = None /\ frames'[i].plug = None
    BY DEF KindsInv
  <2>. QED
    BY DEF FramesInv, KindsInv, StaysRunning, StartsRunning, SameCall
<1>3. ASSUME NEW i \in DOMAIN frames', frames'[i].kind = "hook"
      PROVE  Running(frames[i])'
  <2>1. CASE i \in DOMAIN frames
    <3>1. frames[i].kind = "hook" /\ frames'[i].ctx = frames[i].ctx /\ frames'[i].v = frames[i].v
          /\ frames'[i].loop \in {frames[i].loop, "post"} /\ StaysRunning(i)
      BY <1>3, <2>1 DEF StaysRunning, SameCall
    <3>2. Running(frames[i])
      BY <2>1, <3>1 DEF FramesInv
    <3>. QED
      BY <1>1, <3>1, <3>2 DEF StaysRunning, Running
  <2>. QED
    BY <1>3, <2>1 DEF StartsRunning
<1>4. OrderInv'
  <2>. SUFFICES ASSUME NEW i \in DOMAIN frames', NEW j \in DOMAIN frames', i < j,
                       frames'[i].kind = "hook", frames'[j].kind # "plain"
                PROVE  frames'[i].ctx < frames'[j].ctx
    BY DEF OrderInv
  <2>1. CASE j \in DOMAIN frames
    <3>1. i \in DOMAIN frames
      BY <1>1, <2>1
    <3>. QED
      BY <2>1, <3>1 DEF FramesInv, OrderInv, StaysRunning, SameCall
  <2>2. CASE j \notin DOMAIN frames
    <3>1. i \in 1..j - 1
      BY <1>1
    <3>. QED
      BY <2>2, <3>1 DEF StartsRunning
  <2>. QED
    BY <2>1, <2>2
<1>5. \A i \in DOMAIN frames' : frames'[i].kind = "hook" => Running(frames[i])'
  BY <1>3
<1>. QED
  BY <1>2, <1>4, <1>5 DEF FramesInv

\* The hookfunc's own steps keep the stacks in order.
LEMMA LoopStepKeepsFrames ==
    ASSUME RegistryInv, FramesInv, NEW sup \in BOOLEAN,
           NextHandler \/ PreLoopEnds \/ OrigReturns \/ RecallReturns \/ HandlerReturns(sup)
    PROVE  FramesInv'
<1>1. frames # <<>> /\ Top.pc \in LoopPcs
  BY LoopStep
<1>2. /\ Len(frames) \in DOMAIN frames /\ Top = frames[Len(frames)]
      /\ Top.kind = "hook" /\ Running(Top)
      /\ Top.ctx \in DOMAIN ctxs /\ Current = ctxs[Top.ctx] /\ Current \in Context
  BY <1>1, CurrentContext
<1>3. PICK f \in FrameType : frames' = WithTop(f) /\ SameCall(Top, f) /\ f.thunk = Top.thunk
  BY LoopStep
<1>4. /\ frames \in Seq(FrameType) /\ ctxs \in Seq(Context)
      /\ tasks' = tasks /\ tasks \in Seq({"none", "armed", "run"}) /\ Len(ctxs) <= Len(tasks)
  BY LoopStep DEF FramesInv, StackType
<1>5. /\ frames' \in Seq(FrameType) /\ DOMAIN frames' = DOMAIN frames
      /\ \A i \in DOMAIN frames : frames'[i] = IF i = Len(frames) THEN f ELSE frames[i]
  BY <1>2, <1>3, <1>4 DEF WithTop
<1>6. /\ ctxs' \in Seq(Context) /\ Len(ctxs') = Len(ctxs)
      /\ \A n \in DOMAIN ctxs : /\ ctxs'[n].vfn = ctxs[n].vfn
                                /\ ctxs'[n].state = "Ignore" <=> ctxs[n].state = "Ignore"
  <2>1. CASE ctxs' = ctxs
    BY <1>4, <2>1
  <2>2. CASE ~UsesFreed(Current) /\ ctxs' = [ctxs EXCEPT ![Top.ctx] = Advanced(Current)]
    <3>1. PICK d \in Context : /\ d = Advanced(Current) /\ d.vfn = Current.vfn
                               /\ d.state = "Ignore" <=> Current.state = "Ignore"
      BY <1>2, <2>2, AdvancedContext
    <3>. QED
      BY <1>2, <1>4, <2>2, <3>1
  <2>. QED
    BY <2>1, <2>2, LoopStep
<1>7. DOMAIN ctxs = 1..Len(ctxs) /\ DOMAIN ctxs' = 1..Len(ctxs)
  BY <1>4, <1>6
<1>8. IgnoreInv'
  BY <1>6, <1>7 DEF FramesInv, IgnoreInv
<1>9. ASSUME NEW i \in DOMAIN frames
      PROVE  StaysRunning(i)
  <2>1. SameCall(frames[i], frames'[i]) /\ frames'[i].thunk = frames[i].thunk
    BY <1>2, <1>3, <1>5 DEF SameCall
  <2>2. frames[i].kind # "hook" => frames'[i].plug = None
    BY <1>2, <1>5 DEF FramesInv, KindsInv
  <2>3. frames[i].kind = "hook" => frames[i].ctx \in DOMAIN ctxs /\ Running(frames[i])
    BY <1>7 DEF FramesInv, Running
  <2>. QED
    BY <1>6, <1>7, <2>1, <2>2, <2>3 DEF StaysRunning, Running
<1>. QED
  BY <1>4, <1>5, <1>6, <1>8, <1>9, StacksKept DEF StackType

\* A frame that stays when the context n is dropped.
Unthunked(f, g, n) ==
    /\ SameCall(f, g) /\ g.plug = f.plug /\ SameLoop(f, g) /\ SameDebt(f, g)
    /\ g.thunk = IF f.thunk = n THEN Dangling ELSE f.thunk

\* EndContext drops the top context and leaves the calls alone, but for the thunks that
\* went with the context.
LEMMA EndContextEffect ==
    ASSUME StackType, ctxs # <<>>, NEW rest \in Seq(FrameType), EndContext(rest)
    PROVE  /\ StackType'
           /\ ctxs' = Front(ctxs) /\ Len(ctxs') = Len(ctxs) - 1
           /\ \A n \in 1..Len(ctxs) - 1 : ctxs'[n] = ctxs[n]
           /\ DOMAIN frames' = DOMAIN rest /\ Len(frames') = Len(rest)
           /\ \A i \in DOMAIN rest : /\ Unthunked(rest[i], frames'[i], Len(ctxs))
                                     /\ SameCount(rest[i], frames'[i])
           /\ IF Len(ctxs) = 1 THEN Resolve ELSE UNCHANGED <<pending, gone>>
<1>. DEFINE n == Len(ctxs)
<1>1. /\ n \in Nat /\ ctxs' = Front(ctxs) /\ ctxs' \in Seq(Context) /\ Len(ctxs') = n - 1
      /\ \A k \in 1..n - 1 : ctxs'[k] = ctxs[k]
  BY FrontElements DEF StackType, EndContext
<1>2. tasks' \in Seq({"none", "armed", "run"}) /\ Len(tasks') = Len(tasks) /\ n <= Len(tasks)
  <2>1. PICK T : T = {"none", "armed", "run"}
    OBVIOUS
  <2>2. tasks \in Seq(T) /\ "run" \in T /\ n <= Len(tasks)
    BY <2>1 DEF StackType
  <2>3. tasks' = tasks \/ tasks' = [tasks EXCEPT ![n] = "run"]
    BY DEF EndContext
  <2>4. [tasks EXCEPT ![n] = "run"] \in Seq(T) /\ Len([tasks EXCEPT ![n] = "run"]) = Len(tasks)
    <3>. HIDE DEF n
    <3>1. CASE n \in DOMAIN tasks
      BY <2>2, <3>1
    <3>2. CASE n \notin DOMAIN tasks
      <4>1. [tasks EXCEPT ![n] = "run"] = tasks
        BY <2>2, <3>2
      <4>. QED
        BY <2>2, <4>1
    <3>. QED
      BY <3>1, <3>2
  <2>. QED
    BY <2>1, <2>2, <2>3, <2>4
<1>3. frames' = [i \in DOMAIN rest |->
                    IF rest[i].thunk = n THEN [rest[i] EXCEPT !.thunk = Dangling] ELSE rest[i]]
  BY DEF EndContext
<1>4. IF n = 1 THEN Resolve ELSE UNCHANGED <<pending, gone>>
  BY DEF EndContext, Resolve
<1>. HIDE DEF n
<1>5. ASSUME NEW i \in DOMAIN rest
      PROVE  /\ frames'[i] \in FrameType
             /\ Unthunked(rest[i], frames'[i], n)
             /\ SameCount(rest[i], frames'[i])
  <2>1. rest[i] \in FrameType
    OBVIOUS
  <2>2. CASE rest[i].thunk = n
    <3>1. frames'[i] = [rest[i] EXCEPT !.thunk = Dangling]
      BY <1>3, <2>2
    <3>2. frames'[i] \in FrameType
      <4>1. \A t \in Nat \union {Dangling} : [rest[i] EXCEPT !.thunk = t] \in FrameType
        BY <2>1, FrameUpdates
      <4>. QED
        BY <3>1, <4>1
    <3>3. Unthunked(rest[i], frames'[i], n) /\ SameCount(rest[i], frames'[i])
      BY <2>1, <2>2, <3>1 DEF Unthunked, SameCall, SameLoop, SameDebt, SameCount, FrameType
    <3>. QED
      BY <3>2, <3>3
  <2>3. CASE rest[i].thunk # n
    <3>1. frames'[i] = rest[i]
      BY <1>3, <2>3
    <3>. QED
      BY <2>1, <2>3, <3>1 DEF Unthunked, SameCall, SameLoop, SameDebt, SameCount
  <2>. QED
    BY <2>2, <2>3
<1>6. frames' \in Seq(FrameType) /\ DOMAIN frames' = DOMAIN rest /\ Len(frames') = Len(rest)
  BY <1>3, <1>5
<1>7. StackType'
  BY <1>1, <1>2, <1>6 DEF StackType
<1>8. \A i \in DOMAIN rest : Unthunked(rest[i], frames'[i], n) /\ SameCount(rest[i], frames'[i])
  BY <1>5
<1>. QED
  BY <1>1, <1>4, <1>6, <1>7, <1>8 DEF n

\* Only the call that recalled hears from the hookfunc that returns to it whether the
\* original ran.
HandsDown(i) ==
    IF Top.kind = "hook" /\ i = Len(frames) - 1 /\ frames[i].pc = "recall" THEN SameCount(Top, frames'[i])
    ELSE SameCount(frames[i], frames'[i])

\* When a hookfunc or the function an SH_CALL called returns, its frame goes, and with
\* it the top context unless a hookfunc has already dropped the SH_CALL's; none of the
\* hookfuncs still running works on that context.
LEMMA ReturnEffect ==
    ASSUME FramesInv, HookfuncReturns \/ CalleeReturns
    PROVE  /\ StackType' /\ frames # <<>>
           /\ Len(frames') = Len(frames) - 1
           /\ \/ /\ ctxs # <<>> /\ Len(ctxs') = Len(ctxs) - 1
                 /\ Top.kind = "hook" \/ (Top.kind = "shcall" /\ Last(ctxs).state = "Ignore")
                 /\ \A n \in 1..Len(ctxs) - 1 : ctxs'[n] = ctxs[n]
                 /\ \A i \in 1..Len(frames) - 1 :
                      /\ Unthunked(frames[i], frames'[i], Len(ctxs)) /\ HandsDown(i)
                      /\ frames[i].kind = "hook" => frames[i].ctx < Len(ctxs)
                 /\ IF Len(ctxs) = 1 THEN Resolve ELSE UNCHANGED <<pending, gone>>
              \/ /\ Top.kind \in {"shcall", "plain"}
                 /\ Top.kind = "shcall" => ctxs = <<>> \/ Last(ctxs).state # "Ignore"
                 /\ ctxs' = ctxs
                 /\ \A i \in 1..Len(frames) - 1 : frames'[i] = frames[i]
                 /\ UNCHANGED <<pending, gone>>
           /\ UNCHANGED <<entries, hm, hooks, paused>>
<1>1. frames \in Seq(FrameType) /\ ctxs \in Seq(Context) /\ StackType
  BY DEF FramesInv, StackType
<1>2. frames # <<>>
  BY DEF HookfuncReturns, CalleeReturns
<1>3. PICK below \in Seq(FrameType) :
         /\ below = Front(frames) /\ Len(frames) \in Nat \ {0} /\ Len(below) = Len(frames) - 1
         /\ DOMAIN below = 1..Len(frames) - 1
         /\ \A i \in 1..Len(frames) - 1 : below[i] = frames[i]
  BY <1>1, <1>2, FrontElements
<1>4. Len(ctxs) \in Nat /\ DOMAIN ctxs = 1..Len(ctxs) /\ DOMAIN frames = 1..Len(frames) /\ Top = frames[Len(frames)]
  BY <1>1, <1>2 DEF Top, Last
<1>5. CASE HookfuncReturns
  <2>. DEFINE recalled == below # <<>> /\ Last(below).pc = "recall"
              rest == IF recalled
                      THEN [below EXCEPT ![Len(below)].ran = Top.ran, ![Len(below)].asked = Top.asked]
                      ELSE below
  <2>1. EndContext(rest) /\ UNCHANGED <<entries, hm, hooks, paused>> /\ Top.pc \in LoopPcs
    BY <1>3, <1>5 DEF HookfuncReturns, LoopPcs
  <2>2. Top \in FrameType /\ Top.kind = "hook" /\ Running(Top)
    BY <1>2, <2>1, CurrentContext
  <2>3. Top.ctx \in 1..Len(ctxs) /\ ctxs # <<>>
    BY <1>1, <2>2 DEF Running
  <2>4. /\ rest \in Seq(FrameType) /\ Len(rest) = Len(below) /\ DOMAIN rest = DOMAIN below
        /\ \A i \in DOMAIN below :
              /\ SameCall(below[i], rest[i]) /\ rest[i].plug = below[i].plug /\ rest[i].thunk = below[i].thunk
              /\ SameLoop(below[i], rest[i]) /\ SameDebt(below[i], rest[i])
              /\ IF i = Len(below) /\ below[i].pc = "recall" THEN SameCount(Top, rest[i])
                 ELSE SameCount(below[i], rest[i])
    <3>1. CASE ~recalled
      <4>1. ASSUME NEW i \in DOMAIN below
            PROVE  ~(i = Len(below) /\ below[i].pc = "recall")
        BY <1>3, <3>1 DEF Last
      <4>. QED
        BY <1>3, <3>1, <4>1 DEF SameCall, SameLoop, SameDebt, SameCount
    <3>2. CASE recalled
      <4>1. Len(below) \in DOMAIN below /\ below[Len(below)] \in FrameType
        BY <1>3, <3>2
      <4>2. PICK g : g = [below[Len(below)] EXCEPT !.ran = Top.ran, !.asked = Top.asked]
        OBVIOUS
      <4>3. g \in FrameType
        <5>1. Top.ran \in Nat /\ Top.asked \in BOOLEAN
          BY <2>2 DEF FrameType
        <5>. QED
          BY <4>1, <4>2, <5>1, FrameUpdates
      <4>4. /\ SameCall(below[Len(below)], g) /\ g.plug = below[Len(below)].plug /\ g.thunk = below[Len(below)].thunk
            /\ SameLoop(below[Len(below)], g) /\ SameDebt(below[Len(below)], g) /\ SameCount(Top, g)
        BY <4>1, <4>2 DEF SameCall, SameLoop, SameDebt, SameCount, FrameType
      <4>6. below[Len(below)].pc = "recall"
        BY <3>2 DEF Last
      <4>5. rest = [below EXCEPT ![Len(below)] = g]
        BY <3>2, <4>1, <4>2
      <4>. HIDE DEF rest, recalled
      <4>. QED
        BY <1>3, <4>1, <4>3, <4>4, <4>5, <4>6 DEF SameCall, SameLoop, SameDebt, SameCount
    <3>. QED
      BY <3>1, <3>2
  <2>. HIDE DEF rest
  <2>5. /\ StackType' /\ Len(ctxs') = Len(ctxs) - 1
        /\ \A n \in 1..Len(ctxs) - 1 : ctxs'[n] = ctxs[n]
        /\ Len(frames') = Len(rest)
        /\ \A i \in DOMAIN rest : /\ Unthunked(rest[i], frames'[i], Len(ctxs))
                                  /\ SameCount(rest[i], frames'[i])
        /\ IF Len(ctxs) = 1 THEN Resolve ELSE UNCHANGED <<pending, gone>>
    BY <1>1, <2>1, <2>3, <2>4, EndContextEffect
  <2>6. \A i \in 1..Len(frames) - 1 : Unthunked(frames[i], frames'[i], Len(ctxs)) /\ HandsDown(i)
    <3>1. ASSUME NEW i \in DOMAIN below
          PROVE  Unthunked(below[i], frames'[i], Len(ctxs)) /\ HandsDown(i)
      <4>1. Unthunked(rest[i], frames'[i], Len(ctxs)) /\ SameCount(rest[i], frames'[i])
        BY <2>4, <2>5
      <4>2. /\ SameCall(below[i], rest[i]) /\ rest[i].plug = below[i].plug /\ rest[i].thunk = below[i].thunk
            /\ SameLoop(below[i], rest[i]) /\ SameDebt(below[i], rest[i])
            /\ IF i = Len(below) /\ below[i].pc = "recall" THEN SameCount(Top, rest[i])
               ELSE SameCount(below[i], rest[i])
        BY <2>4
      <4>3. below[i] = frames[i]
        BY <1>3
      <4>4. Unthunked(below[i], frames'[i], Len(ctxs))
        BY <4>1, <4>2 DEF Unthunked, SameCall, SameLoop, SameDebt
      <4>5. HandsDown(i)
        BY <1>3, <2>2, <4>1, <4>2, <4>3 DEF HandsDown, SameCount
      <4>. QED
        BY <4>4, <4>5
    <3>. QED
      BY <1>3, <3>1
  <2>7. \A i \in 1..Len(frames) - 1 : frames[i].kind = "hook" => frames[i].ctx < Len(ctxs)
    <3>1. ASSUME NEW i \in 1..Len(frames) - 1, frames[i].kind = "hook"
          PROVE  frames[i].ctx < Len(ctxs)
      <4>1. i \in DOMAIN frames /\ Len(frames) \in DOMAIN frames /\ i < Len(frames)
        BY <1>3, <1>4
      <4>2. frames[i].ctx < Top.ctx
        BY <1>4, <2>2, <3>1, <4>1 DEF FramesInv, OrderInv
      <4>3. frames[i].ctx \in 1..Len(ctxs)
        BY <3>1, <4>1 DEF FramesInv, Running
      <4>. QED
        BY <1>4, <2>3, <4>2, <4>3
    <3>. QED
      BY <3>1
  <2>8. Len(frames') = Len(frames) - 1
    BY <1>3, <2>4, <2>5
  <2>. QED
    BY <1>2, <2>1, <2>2, <2>3, <2>5, <2>6, <2>7, <2>8
<1>6. CASE CalleeReturns /\ Top.kind = "shcall" /\ IgnoreIsLeft
  <2>1. EndContext(below) /\ UNCHANGED <<entries, hm, hooks, paused>> /\ ctxs # <<>> /\ Last(ctxs).state = "Ignore"
    BY <1>3, <1>6 DEF CalleeReturns, IgnoreIsLeft
  <2>2. /\ StackType' /\ Len(ctxs') = Len(ctxs) - 1
        /\ \A n \in 1..Len(ctxs) - 1 : ctxs'[n] = ctxs[n]
        /\ Len(frames') = Len(below)
        /\ \A i \in DOMAIN below : /\ Unthunked(below[i], frames'[i], Len(ctxs))
                                   /\ SameCount(below[i], frames'[i])
        /\ IF Len(ctxs) = 1 THEN Resolve ELSE UNCHANGED <<pending, gone>>
    BY <1>1, <2>1, EndContextEffect
  <2>4. \A i \in 1..Len(frames) - 1 : Unthunked(frames[i], frames'[i], Len(ctxs)) /\ HandsDown(i)
    BY <1>3, <1>6, <2>2 DEF HandsDown
  <2>3. \A i \in 1..Len(frames) - 1 : frames[i].kind = "hook" => frames[i].ctx < Len(ctxs)
    <3>1. ASSUME NEW i \in 1..Len(frames) - 1, frames[i].kind = "hook"
          PROVE  frames[i].ctx < Len(ctxs)
      <4>1. i \in DOMAIN frames
        BY <1>3, <1>4
      <4>2. frames[i].ctx \in 1..Len(ctxs) /\ ctxs[frames[i].ctx].state # "Ignore"
        BY <3>1, <4>1 DEF FramesInv, Running
      <4>3. frames[i].ctx # Len(ctxs)
        BY <2>1, <4>2 DEF Last
      <4>. QED
        BY <1>4, <4>2, <4>3
    <3>. QED
      BY <3>1
  <2>. QED
    BY <1>2, <1>3, <1>6, <2>1, <2>2, <2>3, <2>4
<1>7. CASE CalleeReturns /\ ~(Top.kind = "shcall" /\ IgnoreIsLeft)
  <2>1. frames' = below /\ UNCHANGED <<ctxs, tasks, pending, gone>> /\ UNCHANGED <<entries, hm, hooks, paused>>
        /\ Top.kind \in {"shcall", "plain"} /\ (Top.kind = "shcall" => ctxs = <<>> \/ Last(ctxs).state # "Ignore")
    BY <1>3, <1>7 DEF CalleeReturns, IgnoreIsLeft
  <2>. QED
    BY <1>1, <1>2, <1>3, <2>1 DEF StackType
<1>. QED
  BY <1>5, <1>6, <1>7

\* A return keeps the stacks in order: the thunks that go with the context belong to no
\* hookfunc that will still call the original through one.
LEMMA ReturnKeepsFrames ==
    ASSUME FramesInv, HookfuncReturns \/ CalleeReturns
    PROVE  FramesInv'
<1>1. /\ StackType' /\ Len(frames') = Len(frames) - 1
      /\ frames \in Seq(FrameType) /\ Len(frames) \in Nat /\ DOMAIN frames = 1..Len(frames)
      /\ frames' \in Seq(FrameType) /\ DOMAIN frames' = 1..Len(frames) - 1
      /\ ctxs \in Seq(Context) /\ Len(ctxs) \in Nat /\ DOMAIN ctxs = 1..Len(ctxs)
  BY ReturnEffect DEF FramesInv, StackType
<1>2. DOMAIN frames' \subseteq DOMAIN frames
  BY <1>1
<1>3. CASE ctxs' = ctxs /\ \A i \in 1..Len(frames) - 1 : frames'[i] = frames[i]
  <2>1. IgnoreInv'
    BY <1>3 DEF FramesInv, IgnoreInv
  <2>2. ASSUME NEW i \in DOMAIN frames'
        PROVE  StaysRunning(i)
    <3>1. i \in DOMAIN frames /\ frames'[i] = frames[i]
      BY <1>1, <1>2, <1>3
    <3>. QED
      BY <1>1, <1>3, <3>1 DEF StaysRunning, SameCall, FramesInv, KindsInv, Running
  <2>. QED
    BY <1>1, <1>2, <2>1, <2>2, StacksKept
<1>4. CASE /\ Len(ctxs') = Len(ctxs) - 1
           /\ \A n \in 1..Len(ctxs) - 1 : ctxs'[n] = ctxs[n]
           /\ \A i \in 1..Len(frames) - 1 :
                /\ Unthunked(frames[i], frames'[i], Len(ctxs))
                /\ frames[i].kind = "hook" => frames[i].ctx < Len(ctxs)
  <2>1. DOMAIN ctxs' = 1..Len(ctxs) - 1
    BY <1>1, <1>4 DEF StackType
  <2>2. IgnoreInv'
    <3>1. 1..Len(ctxs) - 1 \subseteq DOMAIN ctxs
      BY <1>1
    <3>. QED
      BY <1>4, <2>1, <3>1 DEF FramesInv, IgnoreInv
  <2>3. ASSUME NEW i \in DOMAIN frames'
        PROVE  StaysRunning(i)
    <3>1. i \in DOMAIN frames /\ i \in 1..Len(frames) - 1 /\ Unthunked(frames[i], frames'[i], Len(ctxs))
      BY <1>1, <1>2, <1>4
    <3>2. frames[i].kind # "hook" => frames'[i].plug = None
      BY <3>1 DEF FramesInv, KindsInv, Unthunked
    <3>3. ASSUME frames[i].kind = "hook"
          PROVE  /\ frames[i].ctx \in 1..Len(ctxs) - 1
                 /\ ctxs'[frames[i].ctx] = ctxs[frames[i].ctx] /\ Running(frames[i])
      <4>1. Running(frames[i]) /\ frames[i].ctx \in 1..Len(ctxs) /\ frames[i].ctx < Len(ctxs)
        BY <1>4, <3>1, <3>3 DEF FramesInv, Running
      <4>2. PICK k, n : n = Len(ctxs) /\ k = frames[i].ctx /\ n \in Nat
        BY <1>1
      <4>3. k \in 1..n - 1
        BY <4>1, <4>2
      <4>. QED
        BY <1>4, <4>1, <4>2, <4>3
    <3>4. ASSUME frames[i].kind = "hook", frames[i].loop = "pre"
          PROVE  frames'[i].thunk = frames[i].thunk
      <4>1. frames[i].thunk \in 1..frames[i].ctx \/ frames[i].thunk = 0
        BY <3>3, <3>4 DEF Running
      <4>2. frames[i].thunk # Len(ctxs)
        <5>1. PICK k, n : n = Len(ctxs) /\ k = frames[i].ctx /\ n \in Nat /\ k \in 1..n - 1
          BY <1>1, <3>3, <3>4
        <5>. QED
          BY <4>1, <5>1
      <4>. QED
        BY <3>1, <4>2 DEF Unthunked
    <3>5. SameCall(frames[i], frames'[i])
      BY <3>1 DEF Unthunked
    <3>. QED
      BY <1>1, <1>4, <3>2, <3>3, <3>4, <3>5 DEF StaysRunning, Running
  <2>. QED
    BY <1>1, <1>2, <2>2, <2>3, StacksKept
<1>. QED
  BY <1>3, <1>4, ReturnEffect

-----------------------------------------------------------------------------
(* Calls *)

\* CStack's slots stay slots.
LEMMA TasksType ==
    ASSUME NEW T, "none" \in T, NEW ts \in Seq(T), NEW n \in Nat, n <= Len(ts)
    PROVE  /\ Pushed(ts, n) \in Seq(T) /\ Len(Pushed(ts, n)) >= n + 1
           /\ MadeNext(ts, n) \in Seq(T) /\ Len(MadeNext(ts, n)) >= n + 1
<1>1. MadeNext(ts, n) \in Seq(T) /\ Len(MadeNext(ts, n)) >= n + 1
  BY DEF MadeNext
<1>2. PICK k \in Nat : k = IF Len(ts) > n THEN Len(ts) ELSE n + 1
  OBVIOUS
<1>3. Pushed(ts, n) = [i \in 1..k |-> IF i = n + 1 THEN "none" ELSE ts[i]]
  BY <1>2 DEF Pushed
<1>4. ASSUME NEW i \in 1..k
      PROVE  (IF i = n + 1 THEN "none" ELSE ts[i]) \in T
  <2>1. i # n + 1 => i \in 1..Len(ts)
    BY <1>2
  <2>. QED
    BY <2>1
<1>5. k >= n + 1
  BY <1>2
<1>. QED
  BY <1>1, <1>3, <1>4, <1>5

\* A context fresh from the stack.
LEMMA NewContext ==
    ASSUME RegistryInv, NEW v \in VfnPtrs \union {NoVfn}, NEW obj \in Objects, NEW state \in ContextStates
    PROVE  LET c == NewCtx(state, v, obj)
           IN  /\ c \in Context /\ c.state = state /\ c.vfn = v /\ c.obj = obj /\ c.iter = AtStart
               /\ c.iface \in {"set", "null"}
               /\ c.iface = "set" <=> v # NoVfn /\ HasIface(hooks, v, obj)
<1>1. AtStart \in Dangling..MaxIds
  BY BoundAssumption DEF AtStart, Dangling
<1>. QED
  BY <1>1 DEF NewCtx, Context, ContextStates

\* A new context has its original called.
LEMMA NewCallsOrig ==
    ASSUME NEW v, NEW obj, NEW state
    PROVE  NewCtx(state, v, obj).callOrig
BY DEF NewCtx

\* The frame of a hookfunc that has just been entered through the patched entry v.
Entered(f, v) ==
    /\ f \in FrameType
    /\ f.kind = "hook" /\ f.v = v /\ f.pc = "pre" /\ f.loop = "pre" /\ f.thunk = 0
    /\ f.plug = None /\ f.man = hm.vtable[v] /\ hm.vtable[v] # Orig

\* Whose call of the original nothing is decided about, and which called no hook.
Fresh(f, c) == c.callOrig /\ f.ran = 0 /\ (f.sup <=> f.asked)
Begins(f, c) == f.done = {} /\ Fresh(f, c)

\* The frame of a call that enters a hookfunc: the manager that serves the entry.
LEMMA NewFrame ==
    ASSUME RegistryInv, NEW v \in VfnPtrs, NEW n \in Nat, hm.vtable[v] # Orig
    PROVE  Entered(HookFrame(v, n), v) /\ HookFrame(v, n).ctx = n
<1>1. PICK f : f = Frame("hook", v, n, "pre")
  OBVIOUS
<1>2. f \in FrameType
  BY <1>1, BoundAssumption DEF FrameType, Frame
<1>3. hm.vtable[v] \in HookMans
  BY FindsEntry
<1>4. HookFrame(v, n) = [f EXCEPT !.man = hm.vtable[v]]
  BY <1>1 DEF HookFrame
<1>5. HookFrame(v, n) \in FrameType
  <2>1. hm.vtable[v] \in HookMans \union {None}
    BY <1>3
  <2>. QED
    BY <1>2, <1>4, <2>1, FrameUpdates
<1>. QED
  BY <1>1, <1>4, <1>5 DEF Entered, Frame

\* Nothing has happened in it yet.
LEMMA NewFrameBegins ==
    ASSUME NEW v, NEW n, NEW c, c.callOrig
    PROVE  HookFrame(v, n).due = {} /\ Begins(HookFrame(v, n), c)
<1>1. PICK f : f = Frame("hook", v, n, "pre")
  OBVIOUS
<1>2. HookFrame(v, n) = [f EXCEPT !.man = hm.vtable[v]]
  BY <1>1 DEF HookFrame
<1>3. /\ HookFrame(v, n).due = {} /\ HookFrame(v, n).done = {} /\ HookFrame(v, n).ran = 0
      /\ HookFrame(v, n).sup = FALSE /\ HookFrame(v, n).asked = FALSE
  BY <1>1, <1>2 DEF Frame
<1>. QED
  BY <1>3 DEF Begins, Fresh

\* The hooks a call owes are hooks.
LEMMA OwedHooks ==
    ASSUME RegistryInv, NEW v \in VfnPtrs, NEW obj \in Objects
    PROVE  Owed(v, obj) \in SUBSET (1..MaxIds)
<1>1. ASSUME NEW h \in Owed(v, obj)
      PROVE  h \in 1..MaxIds
  <2>1. PICK i \in {obj, VP}, b \in BOOLEAN : h \in Elements(hooks[<<v, i, b>>])
    <3>1. \A s : ToSet(s) = Elements(s)
      BY DEF ToSet, Elements
    <3>2. \E i \in {obj, VP}, b \in BOOLEAN : h \in ToSet(hooks[<<v, i, b>>])
      BY <1>1 DEF Owed
    <3>. QED
      BY <3>1, <3>2
  <2>2. i \in Ifaces
    BY <2>1 DEF Ifaces
  <2>. QED
    BY <2>1, <2>2, ListsAreLive, LiveEntries DEF RegistryInv
<1>. QED
  BY <1>1

\* A call of a hooked function: a hookfunc starts on a context of its own, or on the
\* one an SH_CALL left for it.
LEMMA CallEffect ==
    ASSUME RegistryInv, FramesInv, NEW v \in VfnPtrs, NEW obj \in Objects, Call(v, obj)
    PROVE  /\ tasks' \in Seq({"none", "armed", "run"}) /\ Len(ctxs') <= Len(tasks')
           /\ \E f \in FrameType, c \in Context :
                /\ Entered(f, v) /\ frames' = Append(frames, f) /\ c.vfn = v
                /\ Begins(f, c)
                /\ \/ /\ ctxs # <<>> /\ Last(ctxs).state = "Ignore"
                      /\ c.state = "Dead" /\ c.iface = Last(ctxs).iface /\ f.ctx = Len(ctxs) /\ f.due = {}
                      /\ ctxs' = [ctxs EXCEPT ![Len(ctxs)] = c]
                   \/ /\ ctxs # <<>> => Last(ctxs).state \notin {"Ignore"} \union RecallStates
                      /\ c = NewCtx("Born", v, obj) /\ c.state = "Born" /\ f.ctx = Len(ctxs) + 1
                      /\ f.due = Owed(v, obj)
                      /\ ctxs' = Append(ctxs, c)
           /\ UNCHANGED <<entries, hm, hooks, paused, pending, gone>>
<1>. DEFINE n == Len(ctxs)
<1>1. SetupHookLoop(v, obj) /\ hm.vtable[v] # Orig /\ UNCHANGED <<entries, hm, hooks, paused, pending, gone>>
  BY DEF Call, SetupHookLoop
<1>2. v \in hm.served[hm.vtable[v]]
  BY <1>1, FindsEntry
<1>3. ctxs \in Seq(Context) /\ n \in Nat
  BY DEF FramesInv, StackType
<1>4. tasks' \in Seq({"none", "armed", "run"}) /\ (Len(ctxs') \in {n, n + 1} => Len(ctxs') <= Len(tasks'))
  <2>1. PICK T : T = {"none", "armed", "run"}
    OBVIOUS
  <2>2. tasks \in Seq(T) /\ "none" \in T /\ n <= Len(tasks)
    BY <2>1 DEF FramesInv, StackType
  <2>3. tasks' = IF Len(ctxs') > n THEN MadeNext(tasks, n) ELSE tasks
    BY <1>1 DEF SetupHookLoop
  <2>4. MadeNext(tasks, n) \in Seq(T) /\ Len(MadeNext(tasks, n)) >= n + 1
    BY <1>3, <2>2, TasksType
  <2>5. tasks' \in Seq(T)
    BY <2>2, <2>3, <2>4
  <2>6. ASSUME Len(ctxs') \in {n, n + 1}
        PROVE  Len(ctxs') <= Len(tasks')
    BY <1>3, <2>2, <2>3, <2>4, <2>6
  <2>. QED
    BY <2>1, <2>5, <2>6
<1>5. CASE n > 0 /\ ctxs[n].state = "Ignore"
  <2>1. PICK c : c = [ctxs[n] EXCEPT !.state = "Dead", !.callOrig = TRUE, !.vfn = v]
    OBVIOUS
  <2>2. ctxs[n] \in Context
    BY <1>3, <1>5
  <2>3. c \in Context
    BY <2>1, <2>2, ContextUpdates DEF ContextStates
  <2>4. c.state = "Dead" /\ c.vfn = v /\ c.callOrig /\ c.iface = ctxs[n].iface
    BY <2>1, <2>2 DEF Context
  <2>5. /\ ctxs' = [ctxs EXCEPT ![n].state = "Dead", ![n].callOrig = TRUE, ![n].vfn = v]
        /\ frames' = Append(frames, HookFrame(v, n))
    BY <1>1, <1>2, <1>5 DEF SetupHookLoop
  <2>6. ctxs' = [ctxs EXCEPT ![n] = c]
    BY <1>3, <1>5, <2>1, <2>5
  <2>7. PICK f : f = HookFrame(v, n) /\ Entered(f, v) /\ f.ctx = n /\ f.due = {} /\ Begins(f, c)
    BY <1>1, <1>3, <2>4, NewFrame, NewFrameBegins
  <2>8. f \in FrameType /\ Len(ctxs') = n
    BY <1>3, <2>6, <2>7 DEF Entered
  <2>9. ctxs # <<>> /\ Last(ctxs).state = "Ignore" /\ c.iface = Last(ctxs).iface
    BY <1>3, <1>5, <2>4 DEF Last
  <2>. QED
    BY <1>1, <1>4, <2>3, <2>4, <2>5, <2>6, <2>7, <2>8, <2>9
<1>6. CASE ~(n > 0 /\ ctxs[n].state = "Ignore")
  <2>1. PICK c : c = NewCtx("Born", v, obj)
    OBVIOUS
  <2>2. c \in Context /\ c.state = "Born" /\ c.vfn = v /\ c.callOrig
    BY <2>1, NewContext, NewCallsOrig DEF ContextStates
  <2>3. PICK f : f = [HookFrame(v, n + 1) EXCEPT !.due = Owed(v, obj)]
    OBVIOUS
  <2>4. /\ Entered(HookFrame(v, n + 1), v) /\ HookFrame(v, n + 1).ctx = n + 1
        /\ Begins(HookFrame(v, n + 1), c)
    BY <1>1, <1>3, <2>2, NewFrame, NewFrameBegins
  <2>5. f \in FrameType
    BY <2>3, <2>4, OwedHooks, FrameUpdates DEF Entered
  <2>6. Entered(f, v) /\ f.ctx = n + 1 /\ f.due = Owed(v, obj)
    BY <2>3, <2>4, <2>5 DEF Entered, FrameType
  <2>10. Begins(f, c)
    BY <2>3, <2>4 DEF Begins, Fresh, Entered, FrameType
  <2>7. /\ ctxs' = Append(ctxs, c) /\ frames' = Append(frames, f)
        /\ n > 0 => ctxs[n].state \notin RecallStates
    BY <1>1, <1>2, <1>6, <2>1, <2>3 DEF SetupHookLoop
  <2>8. Len(ctxs') = n + 1
    BY <1>3, <2>2, <2>7
  <2>9. ctxs # <<>> => Last(ctxs).state \notin {"Ignore"} \union RecallStates
    BY <1>3, <1>6, <2>7 DEF Last
  <2>. QED
    BY <1>1, <1>4, <2>1, <2>2, <2>5, <2>6, <2>7, <2>8, <2>9, <2>10
<1>. QED
  BY <1>5, <1>6

\* A call that does not touch the ones below it, whose contexts stay as they are.
LEMMA Untouched ==
    ASSUME FramesInv, NEW i \in DOMAIN frames,
           SameCall(frames[i], frames'[i]), frames'[i].thunk = frames[i].thunk,
           frames[i].kind # "hook" => frames'[i].plug = None,
           Len(ctxs) <= Len(ctxs'),
           \A n \in DOMAIN ctxs : ctxs[n].state # "Ignore" =>
               ctxs'[n].state # "Ignore" /\ ctxs'[n].vfn = ctxs[n].vfn
    PROVE  StaysRunning(i)
<1>1. ASSUME frames[i].kind = "hook"
      PROVE  /\ frames[i].ctx \in DOMAIN ctxs /\ Running(frames[i])
             /\ frames[i].ctx <= Len(ctxs')
  <2>1. Running(frames[i]) /\ frames[i].ctx \in 1..Len(ctxs) /\ ctxs \in Seq(Context)
    BY <1>1 DEF FramesInv, StackType, Running
  <2>2. ctxs' = ctxs' /\ Len(ctxs) \in Nat
    BY <2>1
  <2>. QED
    BY <2>1
<1>. QED
  BY <1>1 DEF StaysRunning, Running

\* A call of a hooked function keeps the stacks in order.
LEMMA CallKeepsFrames ==
    ASSUME RegistryInv, FramesInv, NEW v \in VfnPtrs, NEW obj \in Objects, Call(v, obj)
    PROVE  FramesInv'
<1>1. PICK f \in FrameType, c \in Context :
        /\ Entered(f, v) /\ frames' = Append(frames, f) /\ c.vfn = v
        /\ \/ /\ ctxs # <<>> /\ Last(ctxs).state = "Ignore"
              /\ c.state = "Dead" /\ f.ctx = Len(ctxs)
              /\ ctxs' = [ctxs EXCEPT ![Len(ctxs)] = c]
           \/ /\ c.state = "Born" /\ f.ctx = Len(ctxs) + 1
              /\ ctxs' = Append(ctxs, c)
  BY CallEffect
<1>2. /\ frames \in Seq(FrameType) /\ ctxs \in Seq(Context)
      /\ Len(frames) \in Nat /\ DOMAIN frames = 1..Len(frames)
      /\ Len(ctxs) \in Nat /\ DOMAIN ctxs = 1..Len(ctxs)
  BY DEF FramesInv, StackType
<1>3. /\ frames' \in Seq(FrameType) /\ Len(frames') = Len(frames) + 1
      /\ DOMAIN frames' = 1..Len(frames) + 1
      /\ frames'[Len(frames) + 1] = f /\ \A i \in DOMAIN frames : frames'[i] = frames[i]
  BY <1>1, <1>2
<1>4. /\ ctxs' \in Seq(Context) /\ Len(ctxs) <= Len(ctxs') /\ f.ctx \in 1..Len(ctxs') /\ Len(ctxs') \in Nat
      /\ ctxs'[f.ctx].vfn = v /\ ctxs'[f.ctx].state # "Ignore"
      /\ \A n \in DOMAIN ctxs : ctxs[n].state # "Ignore" => ctxs'[n] = ctxs[n]
      /\ \A n \in DOMAIN ctxs' : ctxs'[n].state = "Ignore" => n \in DOMAIN ctxs /\ ctxs'[n] = ctxs[n]
      /\ \A n \in DOMAIN ctxs : ctxs[n].state # "Ignore" => n < f.ctx
  <2>1. CASE /\ ctxs # <<>> /\ Last(ctxs).state = "Ignore"
             /\ c.state = "Dead" /\ f.ctx = Len(ctxs)
             /\ ctxs' = [ctxs EXCEPT ![Len(ctxs)] = c]
    BY <1>1, <1>2, <2>1 DEF Last
  <2>2. CASE /\ c.state = "Born" /\ f.ctx = Len(ctxs) + 1
             /\ ctxs' = Append(ctxs, c)
    BY <1>1, <1>2, <2>2
  <2>. QED
    BY <1>1, <2>1, <2>2
<1>5. StackType'
  BY <1>3, <1>4, CallEffect DEF StackType
<1>6. IgnoreInv'
  BY <1>4 DEF FramesInv, IgnoreInv
<1>7. ASSUME NEW i \in DOMAIN frames
      PROVE  StaysRunning(i)
  <2>1. SameCall(frames[i], frames'[i]) /\ frames'[i].thunk = frames[i].thunk
        /\ (frames[i].kind # "hook" => frames'[i].plug = None)
    BY <1>3 DEF SameCall, FramesInv, KindsInv
  <2>. QED
    BY <1>4, <2>1, Untouched
<1>8. PICK k \in Nat : k = Len(frames) + 1
  BY <1>2
<1>9. StartsRunning(k)
  <2>1. frames'[k] = f
    BY <1>3, <1>8
  <2>2. Running(frames[k])'
    <3>1. frames'[k].loop = "pre" /\ frames'[k].thunk = 0 /\ frames'[k].v = v /\ frames'[k].ctx = f.ctx
      BY <1>1, <2>1 DEF Entered
    <3>. QED
      BY <1>4, <3>1 DEF Running
  <2>3. ASSUME NEW i \in 1..k - 1, frames'[i].kind = "hook"
        PROVE  frames'[i].ctx < f.ctx
    <3>1. i \in DOMAIN frames /\ frames'[i] = frames[i]
      BY <1>2, <1>3, <1>8
    <3>2. Running(frames[i])
      BY <2>3, <3>1 DEF FramesInv
    <3>3. frames[i].ctx \in DOMAIN ctxs /\ ctxs[frames[i].ctx].state # "Ignore"
      BY <1>2, <3>2 DEF Running
    <3>. QED
      BY <1>4, <3>1, <3>3
  <2>. QED
    BY <1>1, <2>1, <2>2, <2>3 DEF StartsRunning, Entered, LoopPcs
<1>10. \A i \in DOMAIN frames' : IF i \in DOMAIN frames THEN StaysRunning(i) ELSE StartsRunning(i)
  <2>1. \A i \in DOMAIN frames' : i \in DOMAIN frames \/ i = k
    BY <1>2, <1>3, <1>8
  <2>. QED
    BY <1>2, <1>7, <1>8, <1>9, <2>1
<1>. QED
  BY <1>5, <1>6, <1>10, StacksKept

\* SH_CALL: a context for the call to be made, used up at once when the entry is patched.
LEMMA ShCallEffect ==
    ASSUME RegistryInv, FramesInv, NEW v \in VfnPtrs, NEW obj \in Objects, ShCall(v, obj)
    PROVE  /\ tasks' \in Seq({"none", "armed", "run"}) /\ Len(ctxs) + 1 <= Len(tasks')
           /\ \E g \in FrameType, c \in Context :
                /\ g.kind = "shcall" /\ g.pc \notin LoopPcs /\ g.man = None /\ g.plug = None
                /\ g.ctx = Len(ctxs) + 1
                /\ ctxs' = Append(ctxs, c) /\ c.iface = "null"
                /\ \/ /\ c.state = "Ignore" /\ c.vfn = NoVfn /\ frames' = Append(frames, g)
                   \/ \E f \in FrameType :
                        /\ c.state = "Dead" /\ c.vfn = v
                        /\ Entered(f, v) /\ f.ctx = Len(ctxs) + 1
                        /\ f.due = {} /\ Begins(f, c)
                        /\ frames' = Append(Append(frames, g), f)
           /\ UNCHANGED <<entries, hm, hooks, paused, pending, gone>>
<1>. DEFINE n == Len(ctxs)
<1>1. ctxs \in Seq(Context) /\ n \in Nat /\ frames \in Seq(FrameType)
  BY DEF FramesInv, StackType
<1>2. tasks' \in Seq({"none", "armed", "run"}) /\ n + 1 <= Len(tasks')
  <2>1. PICK T : T = {"none", "armed", "run"}
    OBVIOUS
  <2>2. tasks \in Seq(T) /\ "none" \in T /\ n <= Len(tasks) /\ tasks' = Pushed(tasks, n)
    BY <2>1 DEF FramesInv, StackType, ShCall
  <2>3. tasks' \in Seq(T) /\ Len(tasks') >= n + 1
    BY <1>1, <2>2, TasksType
  <2>4. Len(tasks') \in Nat
    BY <2>3
  <2>. QED
    BY <1>1, <2>1, <2>3, <2>4
<1>3. CASE hm.vtable[v] # Orig
  <2>1. PICK e : e = NewCtx("Dead", NoVfn, obj)
    OBVIOUS
  <2>2. e \in Context /\ e.state = "Dead" /\ e.callOrig /\ e.iface = "null"
    BY <2>1, NewContext, NewCallsOrig DEF ContextStates
  <2>3. PICK c : c = [e EXCEPT !.vfn = v]
    OBVIOUS
  <2>4. c \in Context /\ c.state = "Dead" /\ c.vfn = v /\ c.callOrig /\ c.iface = "null"
    BY <2>2, <2>3, ContextUpdates DEF Context
  <2>5. PICK g : g = Frame("shcall", v, n + 1, "reset")
    OBVIOUS
  <2>6. g \in FrameType /\ g.kind = "shcall" /\ g.pc \notin LoopPcs /\ g.man = None /\ g.plug = None /\ g.ctx = n + 1
    BY <1>1, <2>5, BoundAssumption DEF Frame, FrameType, LoopPcs
  <2>7. PICK f \in FrameType : /\ f = HookFrame(v, n + 1) /\ Entered(f, v) /\ f.ctx = n + 1
                               /\ f.due = {} /\ Begins(f, c)
    <3>1. PICK f : f = HookFrame(v, n + 1) /\ Entered(f, v) /\ f.ctx = n + 1
      BY <1>1, <1>3, NewFrame
    <3>2. f.due = {} /\ Begins(f, c)
      BY <2>4, <3>1, NewFrameBegins
    <3>. QED
      BY <3>1, <3>2 DEF Entered
  <2>8. /\ ctxs' = Append(ctxs, c) /\ frames' = frames \o <<g, f>>
        /\ UNCHANGED <<entries, hm, hooks, paused, pending, gone>>
    BY <1>3, <2>1, <2>3, <2>5, <2>7 DEF ShCall
  <2>9. frames \o <<g, f>> = Append(Append(frames, g), f)
    BY <1>1, <2>6, <2>7
  <2>. QED
    BY <1>2, <2>4, <2>6, <2>7, <2>8, <2>9
<1>4. CASE hm.vtable[v] = Orig
  <2>1. PICK e : e = NewCtx("Ignore", NoVfn, obj)
    OBVIOUS
  <2>2. e \in Context /\ e.state = "Ignore" /\ e.vfn = NoVfn /\ e.iface = "null"
    BY <2>1, NewContext DEF ContextStates
  <2>3. PICK g : g = Frame("shcall", v, n + 1, "body")
    OBVIOUS
  <2>4. g \in FrameType /\ g.kind = "shcall" /\ g.pc \notin LoopPcs /\ g.man = None /\ g.plug = None /\ g.ctx = n + 1
    BY <1>1, <2>3, BoundAssumption DEF Frame, FrameType, LoopPcs
  <2>5. [e EXCEPT !.vfn = NoVfn] = e
    BY <2>2 DEF Context
  <2>6. /\ ctxs' = Append(ctxs, e) /\ frames' = frames \o <<g>>
        /\ UNCHANGED <<entries, hm, hooks, paused, pending, gone>>
    BY <1>4, <2>1, <2>3, <2>5 DEF ShCall
  <2>7. frames \o <<g>> = Append(frames, g)
    BY <1>1, <2>4
  <2>. QED
    BY <1>2, <2>2, <2>4, <2>6, <2>7
<1>. QED
  BY <1>3, <1>4

\* An SH_CALL keeps the stacks in order.
LEMMA ShCallKeepsFrames ==
    ASSUME RegistryInv, FramesInv, NEW v \in VfnPtrs, NEW obj \in Objects, ShCall(v, obj)
    PROVE  FramesInv'
<1>1. PICK g \in FrameType, c \in Context :
        /\ g.kind = "shcall" /\ g.pc \notin LoopPcs /\ g.man = None /\ g.plug = None
        /\ g.ctx = Len(ctxs) + 1
        /\ ctxs' = Append(ctxs, c)
        /\ \/ /\ c.state = "Ignore" /\ c.vfn = NoVfn /\ frames' = Append(frames, g)
           \/ \E f \in FrameType :
                /\ c.state = "Dead" /\ c.vfn = v
                /\ Entered(f, v) /\ f.ctx = Len(ctxs) + 1
                /\ frames' = Append(Append(frames, g), f)
  BY ShCallEffect
<1>2. /\ frames \in Seq(FrameType) /\ ctxs \in Seq(Context)
      /\ Len(frames) \in Nat /\ DOMAIN frames = 1..Len(frames)
      /\ Len(ctxs) \in Nat /\ DOMAIN ctxs = 1..Len(ctxs)
  BY DEF FramesInv, StackType
<1>3. PICK n \in Nat : n = Len(ctxs) + 1
  BY <1>2
<1>4. PICK k \in Nat : k = Len(frames) + 1
  BY <1>2
<1>5. /\ ctxs' \in Seq(Context) /\ Len(ctxs') = n /\ DOMAIN ctxs' = 1..n /\ ctxs'[n] = c
      /\ \A i \in DOMAIN ctxs : ctxs'[i] = ctxs[i]
  BY <1>1, <1>2, <1>3
<1>6. /\ frames' \in Seq(FrameType) /\ frames'[k] = g
      /\ \A i \in DOMAIN frames : frames'[i] = frames[i]
      /\ \/ DOMAIN frames' = 1..k /\ c.state = "Ignore" /\ c.vfn = NoVfn
         \/ /\ DOMAIN frames' = 1..k + 1 /\ c.state = "Dead" /\ c.vfn = v
            /\ Entered(frames'[k + 1], v) /\ frames'[k + 1].ctx = n
  <2>1. CASE c.state = "Ignore" /\ c.vfn = NoVfn /\ frames' = Append(frames, g)
    BY <1>1, <1>2, <1>4, <2>1
  <2>2. ASSUME NEW f \in FrameType,
               c.state = "Dead", c.vfn = v, Entered(f, v), f.ctx = Len(ctxs) + 1,
               frames' = Append(Append(frames, g), f)
        PROVE  <1>6!1 /\ <1>6!2 /\ <1>6!3
    <3>. PICK s : s = Append(frames, g)
      OBVIOUS
    <3>1. /\ s \in Seq(FrameType) /\ Len(s) = k /\ DOMAIN s = 1..k /\ s[k] = g
          /\ \A i \in DOMAIN frames : s[i] = frames[i]
      BY <1>2, <1>4
    <3>2. frames' = Append(s, f)
      BY <2>2
    <3>3. frames' \in Seq(FrameType) /\ DOMAIN frames' = 1..k + 1 /\ frames'[k + 1] = f /\ \A i \in 1..k : frames'[i] = s[i]
      BY <3>1, <3>2
    <3>. QED
      BY <1>2, <1>3, <1>4, <2>2, <3>1, <3>3
  <2>. QED
    BY <1>1, <2>1, <2>2
<1>7. StackType'
  BY <1>3, <1>5, <1>6, ShCallEffect DEF StackType
<1>8. IgnoreInv'
  <2>1. \A i \in 1..n : i \in DOMAIN ctxs \/ i = n
    BY <1>2, <1>3
  <2>. QED
    BY <1>5, <1>6, <2>1 DEF FramesInv, IgnoreInv
<1>9. ASSUME NEW i \in DOMAIN frames
      PROVE  StaysRunning(i)
  <2>1. SameCall(frames[i], frames'[i]) /\ frames'[i].thunk = frames[i].thunk
        /\ (frames[i].kind # "hook" => frames'[i].plug = None)
    BY <1>6 DEF SameCall, FramesInv, KindsInv
  <2>2. Len(ctxs) <= Len(ctxs') /\ \A j \in DOMAIN ctxs : ctxs'[j] = ctxs[j]
    BY <1>2, <1>3, <1>5
  <2>. QED
    BY <2>1, <2>2, Untouched
<1>10. ASSUME NEW i \in DOMAIN frames, frames[i].kind = "hook"
       PROVE  frames[i].ctx < n
  BY <1>2, <1>3, <1>10 DEF FramesInv, Running
<1>11. StartsRunning(k)
  <2>1. \A i \in 1..k - 1 : frames'[i].kind = "hook" => frames'[i].ctx < n
    BY <1>2, <1>4, <1>6, <1>10
  <2>. QED
    BY <1>1, <1>3, <1>6, <2>1 DEF StartsRunning
<1>12. ASSUME k + 1 \in DOMAIN frames'
       PROVE  StartsRunning(k + 1)
  <2>1. PICK j \in Nat : j = k + 1
    OBVIOUS
  <2>2. c.state = "Dead" /\ c.vfn = v /\ Entered(frames'[j], v) /\ frames'[j].ctx = n
    BY <1>6, <1>12, <2>1
  <2>3. Running(frames[j])'
    BY <1>3, <1>5, <2>2 DEF Running, Entered
  <2>4. \A i \in 1..j - 1 : frames'[i].kind = "hook" => frames'[i].ctx < n
    <3>1. \A i \in 1..j - 1 : i \in DOMAIN frames \/ i = k
      BY <1>2, <1>4, <2>1
    <3>. QED
      BY <1>1, <1>6, <1>10, <3>1
  <2>5. StartsRunning(j)
    BY <2>2, <2>3, <2>4 DEF StartsRunning, Entered, LoopPcs
  <2>. QED
    BY <2>1, <2>5
<1>13. \A i \in DOMAIN frames' : IF i \in DOMAIN frames THEN StaysRunning(i) ELSE StartsRunning(i)
  <2>1. \A i \in DOMAIN frames' : i \in DOMAIN frames \/ i = k \/ i = k + 1
    BY <1>2, <1>4, <1>6
  <2>. QED
    BY <1>2, <1>4, <1>9, <1>11, <1>12, <2>1
<1>. QED
  BY <1>7, <1>8, <1>13, StacksKept

-----------------------------------------------------------------------------
(* Recalls *)

\* A timely recall: the call it makes, g, takes over what the abandoned one, f, owes and
\* its account of the original's calls; d and e are their contexts.
Resumed(f, g, d, e) ==
    /\ f.pc = "recall" /\ f.loop = Top.loop /\ f.due = {} /\ f.done = Top.done /\ SameCount(f, g)
    /\ SameDebt(Top, g) /\ g.ran = Top.ran
    /\ Top.loop = "post" => g.asked = Top.asked
    /\ Top.loop = "pre" /\ (Top.sup <=> Top.asked) => (g.sup <=> g.asked)
    /\ d.obj = Last(ctxs).obj /\ d.iface = Last(ctxs).iface
    /\ e.callOrig <=> Last(ctxs).state \in {"Pre", "PreVP"}
    /\ e.vfn = Top.v

\* A recall abandons the loop on top, whose frame becomes f; the context on top becomes
\* d and the contexts new are put on it.  The function called, g, is the original, or a
\* hookfunc that works on the last of them.
Recalled(f, g, d, new) ==
    /\ SameCall(Top, f) /\ f.thunk = Top.thunk /\ f.plug = Top.plug
    /\ frames' = Append(WithTop(f), g)
    /\ d.state = "Dead" /\ d.vfn = Last(ctxs).vfn
    /\ ctxs' = [ctxs EXCEPT ![Len(ctxs)] = d] \o new
    /\ new # <<>> /\ \A i \in DOMAIN new : new[i].state # "Ignore"
    /\ \/ /\ Entered(g, Top.v) /\ g.ctx = Len(ctxs) + Len(new)
          /\ Last(new).vfn = Top.v
       \/ g.kind = "plain" /\ g.pc \notin LoopPcs /\ g.man = None /\ g.plug = None
    /\ "late recall" \notin HandlerOps =>
         /\ Last(ctxs).state \in HookStates /\ Entered(g, Top.v) /\ Len(new) = 1
         /\ new[1].state = RecallOf[Last(ctxs).state]
         /\ new[1].obj = Last(ctxs).obj /\ new[1].iter = Last(ctxs).iter
         /\ new[1].iface \in {"set", "null"}
         /\ new[1].iface = "set" <=> HasIface(hooks, Top.v, Last(ctxs).obj)
         /\ Resumed(f, g, d, new[1])

\* What a recall does to the stacks.
LEMMA RecallEffect ==
    ASSUME RegistryInv, FramesInv, NEW sup \in BOOLEAN, Recall(sup)
    PROVE  /\ frames # <<>> /\ Top.pc = "handler" /\ ctxs # <<>>
           /\ tasks' \in Seq({"none", "armed", "run"}) /\ Len(ctxs') <= Len(tasks')
           /\ \E f, g \in FrameType, d \in Context, new \in Seq(Context) : Recalled(f, g, d, new)
           /\ UNCHANGED <<entries, hm, hooks, paused, pending, gone>>
<1>. DEFINE n == Len(ctxs)
            cur == ctxs[n]
            v == Top.v
            hooked == hm.vtable[v] # Orig
            resumes == cur.state \in HookStates
            pushed == [NewCtx(IF resumes THEN RecallOf[cur.state] ELSE "Stray", NoVfn, cur.obj)
                            EXCEPT !.iter = cur.iter]
            again == [pushed EXCEPT !.vfn = v, !.iface = NewCtx("Born", v, cur.obj).iface,
                                    !.callOrig = cur.state \in {"Pre", "PreVP"}]
            born == NewCtx("Born", v, cur.obj)
            status == Top.sup \/ sup
            outer == [Top EXCEPT !.pc = "recall", !.sup = status, !.due = {},
                                 !.asked = @ \/ (sup /\ Top.loop = "pre"),
                                 !.ran = IF hooked THEN @ ELSE @ + 1]
            resumed == [HookFrame(v, n + 1) EXCEPT !.sup = status, !.due = Top.due, !.done = Top.done,
                                                   !.asked = outer.asked, !.ran = Top.ran]
            started == [HookFrame(v, n + 2) EXCEPT !.due = Owed(v, cur.obj)]
            dead == [ctxs EXCEPT ![n].state = "Dead", ![n].iter = AtStart]
<1>1. /\ frames # <<>> /\ Top.pc = "handler"
      /\ "late recall" \notin HandlerOps => hooked /\ resumes
      /\ ctxs' = dead \o (IF ~hooked THEN <<pushed>>
                          ELSE IF resumes THEN <<again>>
                          ELSE <<pushed, born>>)
      /\ tasks' = IF Len(ctxs') = n + 1 THEN Pushed(tasks, n) ELSE MadeNext(Pushed(tasks, n), n + 1)
      /\ frames' = Append(WithTop(outer), IF hooked THEN (IF resumes THEN resumed ELSE started)
                                          ELSE Frame("plain", v, 0, "body"))
      /\ UNCHANGED <<entries, hm, hooks, paused, pending, gone>>
  BY DEF Recall
<1>2. /\ Top \in FrameType /\ Top.kind = "hook" /\ Running(Top) /\ v \in VfnPtrs
      /\ ctxs \in Seq(Context) /\ n \in Nat \ {0} /\ cur \in Context /\ ctxs # <<>> /\ cur = Last(ctxs)
  <2>1. Top \in FrameType /\ Top.kind = "hook" /\ Running(Top)
    BY <1>1, CurrentContext DEF LoopPcs
  <2>2. ctxs \in Seq(Context) /\ Top.ctx \in 1..n
    BY <2>1 DEF FramesInv, StackType, Running
  <2>3. n \in Nat \ {0}
    BY <2>2
  <2>. QED
    BY <2>1, <2>2, <2>3 DEF Last, FrameType
<1>3. cur.obj \in Objects /\ cur.iter \in Dangling..MaxIds /\ cur.state \in ContextStates
  BY <1>2 DEF Context, ContextStates
<1>. HIDE DEF n, cur, v
<1>4. /\ pushed \in Context /\ pushed.state = (IF resumes THEN RecallOf[cur.state] ELSE "Stray")
      /\ pushed.obj = cur.obj /\ pushed.iter = cur.iter /\ pushed.vfn = NoVfn
  <2>1. PICK s \in ContextStates : s = IF resumes THEN RecallOf[cur.state] ELSE "Stray"
    BY DEF HookStates, RecallOf, RecallStates, ContextStates
  <2>2. PICK e \in Context : e = NewCtx(s, NoVfn, cur.obj) /\ e.state = s /\ e.obj = cur.obj /\ e.vfn = NoVfn
    BY <1>3, NewContext
  <2>3. pushed = [e EXCEPT !.iter = cur.iter]
    BY <2>1, <2>2
  <2>4. pushed \in Context
    BY <1>3, <2>3, ContextUpdates
  <2>. HIDE DEF resumes
  <2>5. pushed.state = s /\ pushed.obj = cur.obj /\ pushed.iter = cur.iter /\ pushed.vfn = NoVfn
    BY <2>2, <2>3 DEF Context
  <2>. QED
    BY <2>1, <2>4, <2>5
<1>5. /\ born \in Context /\ born.state = "Born" /\ born.vfn = v /\ born.iface \in {"set", "null"}
      /\ born.iface = "set" <=> HasIface(hooks, v, cur.obj)
  BY <1>2, <1>3, NoneAssumption, NewContext DEF ContextStates
<1>. HIDE DEF born
<1>6. /\ again \in Context /\ again.state = pushed.state /\ again.obj = cur.obj /\ again.iter = cur.iter
      /\ again.vfn = v /\ again.iface = born.iface
      /\ again.callOrig = (cur.state \in {"Pre", "PreVP"})
  <2>1. PICK p, b, x : p = pushed /\ b = born.iface /\ x = (cur.state \in {"Pre", "PreVP"})
    OBVIOUS
  <2>2. again = [p EXCEPT !.vfn = v, !.iface = b, !.callOrig = x]
    BY <2>1 DEF born
  <2>3. p \in Context /\ v \in VfnPtrs \union {NoVfn} /\ b \in {"set", "null", "freed"} /\ x \in BOOLEAN
    BY <1>2, <1>4, <1>5, <2>1
  <2>. HIDE DEF pushed, again
  <2>4. again \in Context
    BY <2>2, <2>3, ContextUpdates
  <2>5. /\ again.state = p.state /\ again.obj = p.obj /\ again.iter = p.iter /\ again.vfn = v /\ again.iface = b
        /\ again.callOrig = x
    BY <2>2, <2>3 DEF Context
  <2>. QED
    BY <1>4, <2>1, <2>4, <2>5
<1>7. /\ outer \in FrameType /\ SameCall(Top, outer) /\ outer.thunk = Top.thunk /\ outer.plug = Top.plug
      /\ outer.asked \in BOOLEAN /\ outer.asked = (Top.asked \/ (sup /\ Top.loop = "pre"))
      /\ outer.pc = "recall" /\ outer.loop = Top.loop /\ outer.due = {} /\ outer.done = Top.done
      /\ hooked => outer.ran = Top.ran
  <2>1. PICK a, x, s : /\ a = (Top.asked \/ (sup /\ Top.loop = "pre"))
                       /\ x = (IF hooked THEN Top.ran ELSE Top.ran + 1) /\ s = status
    OBVIOUS
  <2>2. outer = [Top EXCEPT !.pc = "recall", !.sup = s, !.due = {}, !.asked = a, !.ran = x]
    BY <2>1
  <2>3. a \in BOOLEAN /\ s \in BOOLEAN /\ x \in Nat /\ {} \in SUBSET (1..MaxIds)
    BY <1>2, <2>1 DEF FrameType
  <2>. HIDE DEF outer
  <2>4. outer \in FrameType
    BY <1>2, <2>2, <2>3, FrameUpdates
  <2>5. SameCall(Top, outer) /\ outer.thunk = Top.thunk /\ outer.plug = Top.plug /\ outer.asked = a
    BY <1>1, <1>2, <2>2 DEF SameCall, FrameType, LoopPcs
  <2>6. /\ outer.pc = "recall" /\ outer.loop = Top.loop /\ outer.due = {} /\ outer.done = Top.done
        /\ outer.ran = x
    BY <1>2, <2>2 DEF FrameType
  <2>. QED
    BY <2>1, <2>3, <2>4, <2>5, <2>6
<1>8. ASSUME hooked
      PROVE  /\ Entered(resumed, v) /\ resumed.ctx = n + 1
             /\ SameDebt(Top, resumed) /\ resumed.sup = status /\ resumed.asked = outer.asked /\ resumed.ran = Top.ran
             /\ Entered(started, v) /\ started.ctx = n + 2
  <2>1. PICK f : f = HookFrame(v, n + 1) /\ Entered(f, v) /\ f.ctx = n + 1
    BY <1>2, <1>8, NewFrame
  <2>2. PICK h : h = HookFrame(v, n + 2) /\ Entered(h, v) /\ h.ctx = n + 2
    BY <1>2, <1>8, NewFrame
  <2>3. Entered(started, v) /\ started.ctx = n + 2
    <3>1. PICK o \in SUBSET (1..MaxIds) : o = Owed(v, cur.obj)
      BY <1>2, <1>3, OwedHooks
    <3>2. started = [h EXCEPT !.due = o]
      BY <2>2, <3>1
    <3>3. started \in FrameType
      BY <2>2, <3>2, FrameUpdates DEF Entered
    <3>. QED
      BY <2>2, <3>2, <3>3 DEF Entered, FrameType
  <2>4. /\ Entered(resumed, v) /\ resumed.ctx = n + 1
        /\ SameDebt(Top, resumed) /\ resumed.sup = status /\ resumed.asked = outer.asked /\ resumed.ran = Top.ran
    <3>1. PICK s, d, e, a, x : s = status /\ d = Top.due /\ e = Top.done /\ a = outer.asked /\ x = Top.ran
      OBVIOUS
    <3>2. resumed = [f EXCEPT !.sup = s, !.due = d, !.done = e, !.asked = a, !.ran = x]
      BY <2>1, <3>1
    <3>3. s \in BOOLEAN /\ d \in SUBSET (1..MaxIds) /\ e \in SUBSET (1..MaxIds) /\ a \in BOOLEAN /\ x \in Nat
      BY <1>2, <1>7, <3>1 DEF FrameType
    <3>. HIDE DEF resumed
    <3>4. resumed \in FrameType
      BY <2>1, <3>2, <3>3, FrameUpdates DEF Entered
    <3>5. Entered(resumed, v) /\ resumed.ctx = n + 1
      BY <2>1, <3>2, <3>4 DEF Entered, FrameType
    <3>6. resumed.sup = s /\ resumed.due = d /\ resumed.done = e /\ resumed.asked = a /\ resumed.ran = x
      BY <2>1, <3>2 DEF Entered, FrameType
    <3>. QED
      BY <3>1, <3>5, <3>6 DEF SameDebt
  <2>. QED
    BY <2>3, <2>4
<1>9. Frame("plain", v, 0, "body") \in FrameType
  BY <1>2, BoundAssumption DEF Frame, FrameType
<1>10. PICK d \in Context : /\ d.state = "Dead" /\ d.vfn = cur.vfn /\ d.obj = cur.obj /\ d.iface = cur.iface
                            /\ dead = [ctxs EXCEPT ![n] = d]
  <2>1. PICK d : d = [cur EXCEPT !.state = "Dead", !.iter = AtStart]
    OBVIOUS
  <2>2. AtStart \in Dangling..MaxIds /\ "Dead" \in ContextStates
    BY BoundAssumption DEF AtStart, Dangling, ContextStates
  <2>3. d \in Context
    BY <1>2, <2>1, <2>2, ContextUpdates
  <2>4. d.state = "Dead" /\ d.vfn = cur.vfn /\ d.obj = cur.obj /\ d.iface = cur.iface
    BY <1>2, <2>1 DEF Context
  <2>5. dead = [ctxs EXCEPT ![n] = d]
    BY <1>2, <2>1 DEF n, cur
  <2>. QED
    BY <2>3, <2>4, <2>5
<1>11. PICK new \in Seq(Context) : new = IF ~hooked THEN <<pushed>>
                                         ELSE IF resumes THEN <<again>>
                                         ELSE <<pushed, born>>
  <2>. HIDE DEF pushed, again, hooked, resumes
  <2>1. <<pushed>> \in Seq(Context)
    BY <1>4
  <2>2. <<again>> \in Seq(Context)
    BY <1>6
  <2>3. <<pushed, born>> \in Seq(Context)
    BY <1>4, <1>5
  <2>. QED
    BY <2>1, <2>2, <2>3
<1>12. /\ Len(new) = (IF hooked /\ ~resumes THEN 2 ELSE 1)
       /\ Len(ctxs') = n + Len(new)
       /\ ctxs' = [ctxs EXCEPT ![n] = d] \o new
       /\ hooked => Last(new) = (IF resumes THEN again ELSE born)
       /\ hooked /\ resumes => new[1] = again
       /\ new # <<>>
  <2>. HIDE DEF pushed, again, hooked, resumes, dead
  <2>1. Len(new) = (IF hooked /\ ~resumes THEN 2 ELSE 1)
    BY <1>11
  <2>2. ctxs' = [ctxs EXCEPT ![n] = d] \o new
    BY <1>1, <1>10, <1>11
  <2>3. Len(ctxs') = n + Len(new)
    BY <1>2, <2>2 DEF n
  <2>4. hooked => Last(new) = (IF resumes THEN again ELSE born)
    BY <1>11 DEF Last
  <2>. QED
    BY <1>11, <2>1, <2>2, <2>3, <2>4
<1>13. \A i \in DOMAIN new : new[i].state # "Ignore"
  <2>1. pushed.state # "Ignore"
    BY <1>4 DEF HookStates, RecallOf
  <2>. HIDE DEF pushed, again
  <2>. QED
    BY <1>5, <1>6, <1>11, <2>1
<1>14. tasks' \in Seq({"none", "armed", "run"}) /\ Len(ctxs') <= Len(tasks')
  <2>1. PICK T : T = {"none", "armed", "run"}
    OBVIOUS
  <2>2. tasks \in Seq(T) /\ "none" \in T /\ n <= Len(tasks)
    BY <2>1 DEF FramesInv, StackType, n
  <2>3. PICK ts \in Seq(T) : ts = Pushed(tasks, n) /\ Len(ts) >= n + 1
    BY <1>2, <2>2, TasksType
  <2>4. MadeNext(ts, n + 1) \in Seq(T) /\ Len(MadeNext(ts, n + 1)) >= n + 2
    BY <1>2, <2>2, <2>3, TasksType
  <2>5. tasks' = IF Len(ctxs') = n + 1 THEN ts ELSE MadeNext(ts, n + 1)
    BY <1>1, <2>3
  <2>6. tasks' \in Seq(T) /\ Len(ctxs') <= Len(tasks')
    <3>1. Len(ctxs') = n + 1 \/ Len(ctxs') = n + 2
      BY <1>2, <1>12
    <3>. QED
      BY <1>2, <2>3, <2>4, <2>5, <3>1
  <2>. QED
    BY <2>1, <2>6
<1>15. PICK g \in FrameType : g = IF hooked THEN (IF resumes THEN resumed ELSE started)
                                  ELSE Frame("plain", v, 0, "body")
  BY <1>8, <1>9 DEF Entered
<1>16. \/ hooked /\ Entered(g, v) /\ g.ctx = n + Len(new) /\ Last(new).vfn = v
       \/ ~hooked /\ g.kind = "plain" /\ g.pc \notin LoopPcs /\ g.man = None /\ g.plug = None
  <2>1. CASE hooked
    <3>. HIDE DEF resumed, started, again, resumes
    <3>. QED
      BY <1>2, <1>5, <1>6, <1>8, <1>12, <1>15, <2>1
  <2>2. CASE ~hooked
    BY <1>15, <2>2 DEF Frame, LoopPcs
  <2>. QED
    BY <2>1, <2>2
<1>17. ASSUME "late recall" \notin HandlerOps
       PROVE  /\ cur.state \in HookStates /\ Entered(g, v) /\ Len(new) = 1
              /\ new[1].state = RecallOf[cur.state]
              /\ new[1].obj = cur.obj /\ new[1].iter = cur.iter
              /\ new[1].iface \in {"set", "null"}
              /\ new[1].iface = "set" <=> HasIface(hooks, v, cur.obj)
              /\ Resumed(outer, g, d, new[1])
  <2>1. hooked /\ resumes
    BY <1>1, <1>17
  <2>2. pushed.state = RecallOf[cur.state]
    BY <1>4, <2>1
  <2>. HIDE DEF pushed, again
  <2>3. new[1] = again /\ Len(new) = 1 /\ Entered(g, v) /\ again.vfn = v
    BY <1>6, <1>12, <1>16, <2>1
  <2>4. again.callOrig = (cur.state \in {"Pre", "PreVP"})
    BY <1>6
  <2>5. SameDebt(Top, g) /\ g.sup = status /\ g.asked = outer.asked /\ g.ran = Top.ran
    <3>. HIDE DEF resumed, started, outer, status
    <3>. QED
      BY <1>8, <1>15, <2>1
  <2>6. /\ outer.pc = "recall" /\ outer.loop = Top.loop /\ outer.due = {} /\ outer.done = Top.done
        /\ outer.ran = Top.ran /\ outer.asked = (Top.asked \/ (sup /\ Top.loop = "pre"))
    BY <1>7, <2>1
  <2>7. Resumed(outer, g, d, new[1])
    <3>1. SameCount(outer, g)
      BY <2>5, <2>6 DEF SameCount
    <3>2. Top.asked \in BOOLEAN /\ Top.sup \in BOOLEAN
      BY <1>2 DEF FrameType
    <3>3. Top.loop = "post" => g.asked = Top.asked
      BY <2>5, <2>6, <3>2
    <3>4. Top.loop = "pre" /\ (Top.sup <=> Top.asked) => (g.sup <=> g.asked)
      BY <2>5, <2>6, <3>2
    <3>5. d.obj = Last(ctxs).obj /\ d.iface = Last(ctxs).iface
          /\ (new[1].callOrig <=> Last(ctxs).state \in {"Pre", "PreVP"}) /\ new[1].vfn = Top.v
      BY <1>2, <1>10, <2>3, <2>4 DEF v
    <3>. HIDE DEF outer
    <3>. QED
      BY <2>5, <2>6, <3>1, <3>3, <3>4, <3>5 DEF Resumed
  <2>. QED
    BY <1>5, <1>6, <2>1, <2>2, <2>3, <2>7
<1>18. frames' = Append(WithTop(outer), g)
  <2>. HIDE DEF outer, resumed, started, hooked, resumes
  <2>. QED
    BY <1>1, <1>15
<1>. HIDE DEF outer
<1>19. Recalled(outer, g, d, new)
  <2>1. d.vfn = Last(ctxs).vfn /\ ctxs' = [ctxs EXCEPT ![Len(ctxs)] = d] \o new
    BY <1>2, <1>10, <1>12 DEF n
  <2>2. (Entered(g, Top.v) /\ g.ctx = Len(ctxs) + Len(new) /\ Last(new).vfn = Top.v)
        \/ (g.kind = "plain" /\ g.pc \notin LoopPcs /\ g.man = None /\ g.plug = None)
    BY <1>16 DEF n, v
  <2>3. "late recall" \notin HandlerOps =>
            /\ Last(ctxs).state \in HookStates /\ Entered(g, Top.v) /\ Len(new) = 1
            /\ new[1].state = RecallOf[Last(ctxs).state]
            /\ new[1].obj = Last(ctxs).obj /\ new[1].iter = Last(ctxs).iter
            /\ new[1].iface \in {"set", "null"}
            /\ new[1].iface = "set" <=> HasIface(hooks, Top.v, Last(ctxs).obj)
            /\ Resumed(outer, g, d, new[1])
    BY <1>2, <1>17 DEF v
  <2>4. /\ SameCall(Top, outer) /\ outer.thunk = Top.thunk /\ outer.plug = Top.plug
        /\ d.state = "Dead" /\ new # <<>>
    BY <1>7, <1>10, <1>12
  <2>. QED
    BY <1>13, <1>18, <2>1, <2>2, <2>3, <2>4 DEF Recalled
<1>20. outer \in FrameType
  BY <1>7
<1>21. \E f, e \in FrameType, c \in Context, cs \in Seq(Context) : Recalled(f, e, c, cs)
  BY <1>10, <1>11, <1>15, <1>19, <1>20
<1>. QED
  BY <1>1, <1>2, <1>14, <1>21

\* A recall keeps the stacks in order.
LEMMA RecallKeepsFrames ==
    ASSUME RegistryInv, FramesInv, NEW sup \in BOOLEAN, Recall(sup)
    PROVE  FramesInv'
<1>1. frames # <<>> /\ Top.pc = "handler" /\ ctxs # <<>>
  BY RecallEffect
<1>2. /\ Len(frames) \in DOMAIN frames /\ Top = frames[Len(frames)] /\ Top \in FrameType /\ Top.kind = "hook"
      /\ frames \in Seq(FrameType) /\ ctxs \in Seq(Context)
      /\ Len(frames) \in Nat /\ DOMAIN frames = 1..Len(frames)
      /\ Len(ctxs) \in Nat \ {0} /\ DOMAIN ctxs = 1..Len(ctxs) /\ Last(ctxs) = ctxs[Len(ctxs)]
  <2>1. frames \in Seq(FrameType) /\ ctxs \in Seq(Context)
    BY DEF FramesInv, StackType
  <2>. QED
    BY <1>1, <2>1, CurrentContext DEF LoopPcs, Last
<1>3. PICK f, g \in FrameType, d \in Context, new \in Seq(Context) :
        /\ SameCall(Top, f) /\ f.thunk = Top.thunk /\ f.plug = Top.plug
        /\ frames' = Append(WithTop(f), g)
        /\ d.state = "Dead" /\ d.vfn = Last(ctxs).vfn
        /\ ctxs' = [ctxs EXCEPT ![Len(ctxs)] = d] \o new
        /\ new # <<>> /\ \A i \in DOMAIN new : new[i].state # "Ignore"
        /\ \/ /\ Entered(g, Top.v) /\ g.ctx = Len(ctxs) + Len(new)
              /\ Last(new).vfn = Top.v
           \/ g.kind = "plain" /\ g.pc \notin LoopPcs /\ g.man = None /\ g.plug = None
  <2>1. PICK f, g \in FrameType, d \in Context, new \in Seq(Context) : Recalled(f, g, d, new)
    BY RecallEffect
  <2>. QED
    BY <2>1 DEF Recalled
<1>4. PICK k \in Nat : k = Len(frames) + 1
  BY <1>2
<1>5. PICK n \in Nat : n = Len(ctxs) + Len(new) /\ Len(ctxs) < n /\ Len(new) \in Nat \ {0}
  <2>1. Len(new) \in Nat \ {0}
    BY <1>3
  <2>. QED
    BY <1>2, <2>1
<1>6. /\ ctxs' \in Seq(Context) /\ Len(ctxs') = n /\ DOMAIN ctxs' = 1..n
      /\ \A i \in DOMAIN ctxs : ctxs'[i] = IF i = Len(ctxs) THEN d ELSE ctxs[i]
      /\ \A i \in 1..n : i \in DOMAIN ctxs \/ ctxs'[i].state # "Ignore"
      /\ ctxs'[n] = Last(new) /\ ctxs'[n].state # "Ignore"
  <2>1. PICK s : s = [ctxs EXCEPT ![Len(ctxs)] = d]
    OBVIOUS
  <2>2. s \in Seq(Context) /\ Len(s) = Len(ctxs) /\ \A i \in DOMAIN ctxs : s[i] = IF i = Len(ctxs) THEN d ELSE ctxs[i]
    BY <1>2, <2>1
  <2>3. ctxs' = s \o new
    BY <1>3, <2>1
  <2>4. /\ ctxs' \in Seq(Context) /\ Len(ctxs') = Len(s) + Len(new)
        /\ \A i \in 1..Len(s) + Len(new) : ctxs'[i] = IF i <= Len(s) THEN s[i] ELSE new[i - Len(s)]
    BY <2>2, <2>3, ConcatProperties
  <2>5. \A i \in DOMAIN ctxs : ctxs'[i] = s[i]
    BY <1>2, <1>5, <2>2, <2>4
  <2>6. \A i \in 1..n : i \notin DOMAIN ctxs => i - Len(ctxs) \in DOMAIN new /\ ctxs'[i] = new[i - Len(ctxs)]
    BY <1>2, <1>5, <2>2, <2>4
  <2>7. ctxs'[n] = Last(new)
    BY <1>2, <1>5, <2>2, <2>4, <2>6 DEF Last
  <2>. QED
    <3>1. ctxs' \in Seq(Context) /\ Len(ctxs') = n /\ DOMAIN ctxs' = 1..n
      BY <1>5, <2>2, <2>4
    <3>2. \A i \in 1..n : i \in DOMAIN ctxs \/ ctxs'[i].state # "Ignore"
      BY <1>3, <2>6
    <3>3. n \in 1..n /\ n \notin DOMAIN ctxs
      BY <1>2, <1>5
    <3>. QED
      BY <2>2, <2>5, <2>7, <3>1, <3>2, <3>3
<1>7. /\ frames' \in Seq(FrameType) /\ DOMAIN frames' = 1..k /\ frames'[k] = g
      /\ \A i \in DOMAIN frames : frames'[i] = IF i = Len(frames) THEN f ELSE frames[i]
  <2>1. PICK s : s = WithTop(f)
    OBVIOUS
  <2>2. /\ s \in Seq(FrameType) /\ Len(s) = Len(frames)
        /\ \A i \in DOMAIN frames : s[i] = IF i = Len(frames) THEN f ELSE frames[i]
    BY <1>2, <2>1 DEF WithTop
  <2>3. frames' = Append(s, g)
    BY <1>3, <2>1
  <2>. QED
    BY <1>2, <1>4, <2>2, <2>3
<1>8. StackType'
  BY <1>6, <1>7, RecallEffect DEF StackType
<1>9. IgnoreInv'
  BY <1>3, <1>6 DEF FramesInv, IgnoreInv
<1>10. ASSUME NEW i \in DOMAIN frames
       PROVE  StaysRunning(i)
  <2>1. /\ SameCall(frames[i], frames'[i]) /\ frames'[i].thunk = frames[i].thunk
        /\ frames[i].kind # "hook" => frames'[i].plug = None
    <3>1. CASE i = Len(frames)
      BY <1>2, <1>3, <1>7, <3>1
    <3>2. CASE i # Len(frames)
      BY <1>7, <3>2 DEF SameCall, FramesInv, KindsInv
    <3>. QED
      BY <3>1, <3>2
  <2>2. \A j \in DOMAIN ctxs : ctxs[j].state # "Ignore" => ctxs'[j].state # "Ignore" /\ ctxs'[j].vfn = ctxs[j].vfn
    BY <1>2, <1>3, <1>6
  <2>3. Len(ctxs) <= Len(ctxs')
    BY <1>2, <1>5, <1>6
  <2>. QED
    BY <2>1, <2>2, <2>3, Untouched
<1>11. StartsRunning(k)
  <2>1. CASE g.kind = "plain" /\ g.pc \notin LoopPcs /\ g.man = None /\ g.plug = None
    BY <1>7, <2>1 DEF StartsRunning
  <2>2. CASE Entered(g, Top.v) /\ g.ctx = n /\ Last(new).vfn = Top.v
    <3>1. Running(frames[k])'
      <4>1. frames'[k].loop = "pre" /\ frames'[k].thunk = 0 /\ frames'[k].v = Top.v /\ frames'[k].ctx = n
        BY <1>7, <2>2 DEF Entered
      <4>. QED
        BY <1>5, <1>6, <2>2, <4>1 DEF Running
    <3>2. ASSUME NEW i \in 1..k - 1, frames'[i].kind = "hook"
          PROVE  frames'[i].ctx < n
      <4>1. i \in DOMAIN frames /\ StaysRunning(i)
        BY <1>2, <1>4, <1>10
      <4>2. frames[i].kind = "hook" /\ frames'[i].ctx = frames[i].ctx
        BY <3>2, <4>1 DEF StaysRunning, SameCall
      <4>3. frames[i].ctx \in 1..Len(ctxs)
        BY <4>1, <4>2 DEF FramesInv, Running
      <4>. QED
        BY <1>2, <1>5, <4>2, <4>3
    <3>. QED
      BY <1>7, <2>2, <3>1, <3>2 DEF StartsRunning, Entered, LoopPcs
  <2>. QED
    BY <1>3, <1>5, <2>1, <2>2
<1>12. \A i \in DOMAIN frames' : IF i \in DOMAIN frames THEN StaysRunning(i) ELSE StartsRunning(i)
  <2>1. \A i \in DOMAIN frames' : i \in DOMAIN frames \/ i = k
    BY <1>2, <1>4, <1>7
  <2>. QED
    BY <1>2, <1>4, <1>10, <1>11, <2>1
<1>. QED
  BY <1>8, <1>9, <1>12, StacksKept

-----------------------------------------------------------------------------
(* Removing hooks and managers *)

\* HookRemoved steps back to a hook of the list that stays, or to its head node.
LEMMA SteppedBackHook ==
    ASSUME NEW list \in Seq(1..MaxIds), NEW iter, NEW R
    PROVE  SteppedBack(list, iter, R) \in Dangling..MaxIds /\ SteppedBack(list, iter, R) # Dangling
<1>. DEFINE I == {i \in 1..Len(list) : list[i] = iter}
            k == SelectInSeq(list, LAMBDA h : h = iter)
            before == SubSeq(list, 1, k - 1)
            kept == Without(before, R)
<1>1. k \in 0..Len(list) /\ Len(list) \in Nat
  <2>1. k = IF I # {} THEN Min(I) ELSE 0
    BY DEF SelectInSeq
  <2>2. I \subseteq Nat /\ I \subseteq 1..Len(list) /\ Len(list) \in Nat
    OBVIOUS
  <2>. HIDE DEF I, k
  <2>3. I # {} => Min(I) \in I
    BY <2>2, MinIsOne
  <2>4. I # {} => k \in 1..Len(list)
    BY <2>1, <2>2, <2>3
  <2>5. I = {} => k = 0
    BY <2>1
  <2>6. 0 \in 0..Len(list) /\ \A i \in 1..Len(list) : i \in 0..Len(list)
    BY <2>2
  <2>. QED
    BY <2>2, <2>4, <2>5, <2>6
<1>. HIDE DEF k
<1>2. before \in Seq(1..MaxIds)
  <2>1. PICK T, n : T = 1..MaxIds /\ n = k - 1
    OBVIOUS
  <2>2. list \in Seq(T) /\ n \in Int /\ \A i \in 1..n : i \in 1..Len(list)
    BY <1>1, <2>1
  <2>3. \A i \in 1..n : list[i] \in T
    BY <2>2
  <2>4. SubSeq(list, 1, n) \in Seq(T)
    BY <2>2, <2>3, SubSeqProperties
  <2>. QED
    BY <2>1, <2>4
<1>3. SteppedBack(list, iter, R) = IF kept = <<>> THEN AtStart ELSE Last(kept)
  BY DEF SteppedBack, k
<1>. HIDE DEF before
<1>4. kept \in Seq(1..MaxIds)
  BY <1>2, WithoutIsSublist
<1>. HIDE DEF kept
<1>5. kept # <<>> => Last(kept) \in 1..MaxIds
  BY <1>4, FrontElements
<1>. QED
  BY <1>3, <1>5, BoundAssumption DEF AtStart, Dangling

\* What HookRemoved, IfaceRemoved and VfnPtrRemoved leave of a context.
LEMMA NotifiedContext ==
    ASSUME RegistryInv, NEW c \in Context, NEW R, NEW W, NEW after
    PROVE  LET d == Notified(c, R, W, after)
           IN  /\ d \in Context /\ d.obj = c.obj
               /\ d.vfn = (IF c.vfn \in W /\ c.vfn # NoVfn THEN NoVfn ELSE c.vfn)
               /\ d.state = (IF c.vfn \in W /\ c.vfn # NoVfn THEN "Dead" ELSE c.state)
<1>1. c.iter \in Dangling..MaxIds /\ AtStart \in Dangling..MaxIds /\ Dangling \in Dangling..MaxIds
      /\ c.vfn \in VfnPtrs \union {NoVfn} /\ c.iface \in {"set", "null", "freed"}
  BY BoundAssumption DEF Context, AtStart, Dangling
<1>2. CASE c.vfn = NoVfn
  BY <1>2 DEF Notified
<1>3. CASE c.vfn # NoVfn /\ c.vfn \in W
  <2>1. PICK d : d = [c EXCEPT !.state = "Dead", !.vfn = NoVfn, !.iter = AtStart, !.iface = "null"]
    OBVIOUS
  <2>2. Notified(c, R, W, after) = d
    BY <1>3, <2>1 DEF Notified
  <2>3. d \in Context
    <3>1. "Dead" \in ContextStates /\ NoVfn \in VfnPtrs \union {NoVfn} /\ "null" \in {"set", "null", "freed"}
      BY DEF ContextStates
    <3>. QED
      BY <1>1, <2>1, <3>1, ContextUpdates
  <2>4. d.obj = c.obj /\ d.vfn = NoVfn /\ d.state = "Dead"
    BY <2>1 DEF Context
  <2>. QED
    BY <1>3, <2>2, <2>3, <2>4
<1>4. CASE c.vfn # NoVfn /\ c.vfn \notin W
  <2>. DEFINE key == ListKey(c)
              walks == c.state \in HookStates \union RecallStates /\ c.vfn # NoVfn
              LostIface(i) == HasIface(hooks, c.vfn, i) /\ ~HasIface(after, c.vfn, i)
  <2>1. PICK x, i : /\ x = (IF c.iface = "set" /\ LostIface(c.obj) THEN "null" ELSE c.iface)
                    /\ i = (IF ~walks THEN c.iter
                            ELSE IF LostIface(key[2]) THEN Dangling
                            ELSE IF c.iter \in R THEN SteppedBack(hooks[key], c.iter, R)
                            ELSE c.iter)
    OBVIOUS
  <2>2. Notified(c, R, W, after) = [c EXCEPT !.iface = x, !.iter = i]
    BY <1>4, <2>1 DEF Notified
  <2>3. SteppedBack(hooks[key], c.iter, R) \in Dangling..MaxIds
    <3>1. hooks[key] \in Seq(1..MaxIds)
      <4>1. c.vfn \in VfnPtrs /\ c.obj \in Objects
        BY <1>1, <1>4 DEF Context
      <4>2. PICK j, b : /\ j = (IF c.state \in {"Pre", "Post", "Recall_Pre", "Recall_Post"} THEN c.obj ELSE VP)
                        /\ b = (c.state \in {"Post", "PostVP", "Recall_Post", "Recall_PostVP"})
        OBVIOUS
      <4>3. key = <<c.vfn, j, b>>
        BY <4>2 DEF ListKey
      <4>4. j \in Ifaces /\ b \in BOOLEAN
        BY <4>1, <4>2 DEF Ifaces
      <4>. QED
        BY <4>1, <4>3, <4>4, ListsAreLive
    <3>. QED
      BY <3>1, SteppedBackHook
  <2>4. x \in {"set", "null", "freed"} /\ i \in Dangling..MaxIds
    BY <1>1, <2>1, <2>3
  <2>. HIDE DEF key, walks, LostIface
  <2>5. PICK d : d = Notified(c, R, W, after)
    OBVIOUS
  <2>6. d = [c EXCEPT !.iface = x, !.iter = i]
    BY <2>2, <2>5
  <2>7. d \in Context
    BY <2>4, <2>6, ContextUpdates
  <2>8. d.obj = c.obj /\ d.vfn = c.vfn /\ d.state = c.state
    BY <2>6 DEF Context
  <2>. QED
    BY <1>4, <2>5, <2>7, <2>8
<1>. QED
  BY <1>2, <1>3, <1>4

\* What RemoveHookManager leaves of a context whose entry goes.
LEMMA OrphanedContext ==
    ASSUME NEW c \in Context, NEW W
    PROVE  LET d == Orphaned(c, W)
           IN  /\ d \in Context /\ d.obj = c.obj /\ d.state = c.state
               /\ d.vfn = (IF c.vfn \in W THEN NoVfn ELSE c.vfn)
<1>1. CASE c.vfn \notin W
  BY <1>1 DEF Orphaned
<1>2. CASE c.vfn \in W
  <2>1. PICK x, i : /\ x = (IF c.iface = "set" THEN "freed" ELSE c.iface)
                    /\ i = (IF c.state \in {"Dead", "Ignore"} THEN c.iter ELSE Dangling)
    OBVIOUS
  <2>2. PICK d : d = Orphaned(c, W)
    OBVIOUS
  <2>3. d = [c EXCEPT !.vfn = NoVfn, !.iter = i, !.iface = x]
    BY <1>2, <2>1, <2>2 DEF Orphaned
  <2>4. x \in {"set", "null", "freed"} /\ i \in Dangling..MaxIds /\ NoVfn \in VfnPtrs \union {NoVfn}
    BY <2>1, BoundAssumption DEF Context, Dangling
  <2>5. d \in Context
    BY <2>3, <2>4, ContextUpdates
  <2>6. d.obj = c.obj /\ d.state = c.state /\ d.vfn = NoVfn
    BY <2>3 DEF Context
  <2>. QED
    BY <1>2, <2>2, <2>5, <2>6
<1>. QED
  BY <1>1, <1>2

\* The cleanup of a thunk hangs on the deepest context that uses the entry.
LEMMA CleanupSlotIsDeepest ==
    ASSUME ctxs \in Seq(Context), NEW v
    PROVE  /\ CleanupSlot(v) \in Nat \union {Dangling}
           /\ \A n \in DOMAIN ctxs : ctxs[n].vfn = v => CleanupSlot(v) \in 1..n
<1>. DEFINE users == {i \in DOMAIN ctxs : ctxs[i].vfn = v}
<1>1. users \subseteq Nat \ {0}
  OBVIOUS
<1>2. CleanupSlot(v) = IF users = {} THEN Dangling ELSE CHOOSE i \in users : \A j \in users : i <= j
  BY DEF CleanupSlot
<1>3. \A n \in DOMAIN ctxs : ctxs[n].vfn = v => n \in users
  OBVIOUS
<1>. HIDE DEF users
<1>4. users # {} => CleanupSlot(v) \in users /\ \A j \in users : CleanupSlot(v) <= j
  <2>1. ASSUME users # {}
        PROVE  \E i \in users : \A j \in users : i <= j
    <3>1. users \subseteq Nat
      BY <1>1
    <3>. QED
      BY <2>1, <3>1, LeastNatural
  <2>. QED
    BY <1>2, <2>1
<1>5. PICK k : k = CleanupSlot(v)
  OBVIOUS
<1>6. k \in Nat \union {Dangling}
  BY <1>1, <1>2, <1>4, <1>5
<1>7. ASSUME NEW n \in DOMAIN ctxs, ctxs[n].vfn = v
      PROVE  k \in 1..n
  <2>1. n \in users
    BY <1>3, <1>7
  <2>2. k \in users /\ k <= n
    BY <1>4, <1>5, <2>1
  <2>. QED
    BY <1>1, <2>1, <2>2
<1>. QED
  BY <1>5, <1>6, <1>7

\* What removing hooks and managers does to the stacks: a context loses its entry when
\* the entry goes, and the thunk of a running call is then kept for it.
LEMMA RetireStacks ==
    ASSUME RegistryInv, StackType, NEW R \in SUBSET Live, NEW M \in SUBSET HookMans, Retire(R, M)
    PROVE  LET W == Emptied(R) \union Unserved(R, M)
           IN  /\ StackType' /\ Len(ctxs') = Len(ctxs) /\ Len(frames') = Len(frames)
               /\ W \subseteq VfnPtrs
               /\ \A n \in DOMAIN ctxs :
                    /\ ctxs'[n].vfn = (IF ctxs[n].vfn \in W THEN NoVfn ELSE ctxs[n].vfn)
                    /\ ctxs'[n].state = (IF ctxs[n].vfn \in Emptied(R) THEN "Dead" ELSE ctxs[n].state)
                    /\ ctxs'[n].obj = ctxs[n].obj
               /\ \A i \in DOMAIN frames :
                    /\ SameCall(frames[i], frames'[i]) /\ frames'[i].plug = frames[i].plug
                    /\ SameLoop(frames[i], frames'[i]) /\ SameCount(frames[i], frames'[i])
                    /\ frames'[i].due = frames[i].due \ Lost(R, M) /\ frames'[i].done = frames[i].done \ Lost(R, M)
                    /\ frames'[i].thunk = (IF frames[i].v \in Odd \cap W /\ frames[i].thunk = 0
                                           THEN CleanupSlot(frames[i].v) ELSE frames[i].thunk)
<1>. DEFINE W1 == Emptied(R)
            W2 == Unserved(R, M)
<1>1. /\ ctxs' = [i \in DOMAIN ctxs |-> Orphaned(Notified(ctxs[i], R, W1, Left(R)), W2)]
      /\ frames' = [i \in DOMAIN frames |->
            [frames[i] EXCEPT !.due = @ \ Lost(R, M), !.done = @ \ Lost(R, M),
                !.thunk = IF frames[i].v \in Odd \cap (W1 \union W2) /\ @ = 0
                          THEN CleanupSlot(frames[i].v) ELSE @]]
  BY RetireEffect
<1>2. W1 \subseteq VfnPtrs /\ W2 \subseteq VfnPtrs
  BY DEF Emptied, Unserved
<1>3. /\ ctxs \in Seq(Context) /\ frames \in Seq(FrameType) /\ Len(ctxs) \in Nat /\ Len(frames) \in Nat
      /\ DOMAIN ctxs = 1..Len(ctxs) /\ DOMAIN frames = 1..Len(frames)
  BY DEF StackType
<1>4. tasks' \in Seq({"none", "armed", "run"}) /\ Len(tasks') = Len(tasks)
  <2>1. PICK T : T = {"none", "armed", "run"}
    OBVIOUS
  <2>2. tasks \in Seq(T) /\ "armed" \in T
    BY <2>1 DEF StackType
  <2>3. \E P : tasks' = [i \in DOMAIN tasks |-> IF i \in P THEN "armed" ELSE tasks[i]]
    <3>1. PICK thunks : tasks' = [i \in DOMAIN tasks |->
                                    IF \E v \in thunks : CleanupSlot(v) = i THEN "armed" ELSE tasks[i]]
      BY DEF Retire
    <3>2. tasks' = [i \in DOMAIN tasks |->
                      IF i \in {CleanupSlot(v) : v \in thunks} THEN "armed" ELSE tasks[i]]
      BY <3>1
    <3>. QED
      BY <3>2
  <2>4. PICK P : tasks' = [i \in DOMAIN tasks |-> IF i \in P THEN "armed" ELSE tasks[i]]
    BY <2>3
  <2>5. tasks' \in Seq(T) /\ Len(tasks') = Len(tasks)
    BY <2>2, <2>4
  <2>. QED
    BY <2>1, <2>5
<1>. HIDE DEF W1, W2
<1>5. ASSUME NEW n \in DOMAIN ctxs
      PROVE  /\ ctxs'[n] \in Context
             /\ ctxs'[n].vfn = (IF ctxs[n].vfn \in W1 \union W2 THEN NoVfn ELSE ctxs[n].vfn)
             /\ ctxs'[n].state = (IF ctxs[n].vfn \in W1 THEN "Dead" ELSE ctxs[n].state)
             /\ ctxs'[n].obj = ctxs[n].obj
  <2>1. PICK c \in Context : c = ctxs[n]
    BY <1>3
  <2>2. PICK d \in Context : /\ d = Notified(c, R, W1, Left(R))
                             /\ d.obj = c.obj
                             /\ d.vfn = (IF c.vfn \in W1 /\ c.vfn # NoVfn THEN NoVfn ELSE c.vfn)
                             /\ d.state = (IF c.vfn \in W1 /\ c.vfn # NoVfn THEN "Dead" ELSE c.state)
    BY NotifiedContext
  <2>3. PICK e \in Context : /\ e = Orphaned(d, W2)
                             /\ e.obj = d.obj /\ e.state = d.state
                             /\ e.vfn = (IF d.vfn \in W2 THEN NoVfn ELSE d.vfn)
    BY OrphanedContext
  <2>4. ctxs'[n] = e
    BY <1>1, <2>1, <2>2, <2>3
  <2>5. NoVfn \notin W1 /\ NoVfn \notin W2
    BY <1>2, NoneAssumption
  <2>. QED
    BY <2>1, <2>2, <2>3, <2>4, <2>5
<1>6. ASSUME NEW i \in DOMAIN frames
      PROVE  /\ frames'[i] \in FrameType
             /\ SameCall(frames[i], frames'[i]) /\ frames'[i].plug = frames[i].plug
             /\ SameLoop(frames[i], frames'[i]) /\ SameCount(frames[i], frames'[i])
             /\ frames'[i].due = frames[i].due \ Lost(R, M) /\ frames'[i].done = frames[i].done \ Lost(R, M)
             /\ frames'[i].thunk = (IF frames[i].v \in Odd \cap (W1 \union W2) /\ frames[i].thunk = 0
                                    THEN CleanupSlot(frames[i].v) ELSE frames[i].thunk)
  <2>1. PICK f \in FrameType : f = frames[i]
    BY <1>3
  <2>7. PICK t : t = (IF f.v \in Odd \cap (W1 \union W2) /\ f.thunk = 0 THEN CleanupSlot(f.v) ELSE f.thunk)
    OBVIOUS
  <2>8. PICK x, y : x = f.due \ Lost(R, M) /\ y = f.done \ Lost(R, M)
    OBVIOUS
  <2>2. PICK g : g = [f EXCEPT !.due = x, !.done = y, !.thunk = t]
    OBVIOUS
  <2>3. frames'[i] = g
    <3>1. frames'[i] = [frames[i] EXCEPT !.due = @ \ Lost(R, M), !.done = @ \ Lost(R, M),
                           !.thunk = IF frames[i].v \in Odd \cap (W1 \union W2) /\ @ = 0
                                     THEN CleanupSlot(frames[i].v) ELSE @]
      BY <1>1
    <3>. QED
      BY <2>1, <2>7, <2>8, <2>2, <3>1
  <2>4. x \in SUBSET (1..MaxIds) /\ y \in SUBSET (1..MaxIds) /\ t \in Nat \union {Dangling}
    <3>1. CleanupSlot(f.v) \in Nat \union {Dangling}
      BY <1>3, CleanupSlotIsDeepest
    <3>. QED
      BY <2>7, <2>8, <3>1 DEF FrameType
  <2>5. g \in FrameType
    <3>1. PICK p : p = [f EXCEPT !.due = x]
      OBVIOUS
    <3>2. PICK q : q = [p EXCEPT !.done = y]
      OBVIOUS
    <3>3. p \in FrameType
      BY <2>4, <3>1, FrameUpdates
    <3>4. q \in FrameType
      BY <2>4, <3>2, <3>3, FrameUpdates
    <3>5. [q EXCEPT !.thunk = t] \in FrameType
      BY <2>4, <3>4, FrameUpdates
    <3>. QED
      BY <2>2, <3>1, <3>2, <3>5
  <2>6. SameCall(f, g) /\ g.plug = f.plug /\ g.pc = f.pc /\ g.loop = f.loop /\ g.thunk = t
    BY <2>2 DEF SameCall, FrameType
  <2>9. SameLoop(f, g) /\ SameCount(f, g) /\ g.due = x /\ g.done = y
    BY <2>2 DEF SameLoop, SameCount, FrameType
  <2>. QED
    BY <2>1, <2>7, <2>8, <2>3, <2>5, <2>6, <2>9
<1>7. ctxs' \in Seq(Context) /\ Len(ctxs') = Len(ctxs)
  <2>1. DOMAIN ctxs' = 1..Len(ctxs) /\ ctxs' = [i \in DOMAIN ctxs' |-> ctxs'[i]]
    BY <1>1, <1>3
  <2>. QED
    BY <1>3, <1>5, <2>1
<1>8. frames' \in Seq(FrameType) /\ Len(frames') = Len(frames)
  <2>1. DOMAIN frames' = 1..Len(frames) /\ frames' = [i \in DOMAIN frames' |-> frames'[i]]
    BY <1>1, <1>3
  <2>. QED
    BY <1>3, <1>6, <2>1
<1>9. StackType'
  BY <1>4, <1>7, <1>8 DEF StackType
<1>. QED
  BY <1>2, <1>5, <1>6, <1>7, <1>8, <1>9 DEF W1, W2

\* Removing hooks and managers keeps the stacks in order: whoever runs a loop for an entry
\* that goes still finds the thunk, which the deepest such loop frees when it ends.
LEMMA RetireKeepsFrames ==
    ASSUME RegistryInv, FramesInv, NEW R \in SUBSET Live, NEW M \in SUBSET HookMans, Retire(R, M)
    PROVE  FramesInv'
<1>. DEFINE W == Emptied(R) \union Unserved(R, M)
<1>1. StackType
  BY DEF FramesInv
<1>2. /\ StackType' /\ Len(ctxs') = Len(ctxs) /\ Len(frames') = Len(frames)
      /\ W \subseteq VfnPtrs
      /\ \A n \in DOMAIN ctxs :
           /\ ctxs'[n].vfn = (IF ctxs[n].vfn \in W THEN NoVfn ELSE ctxs[n].vfn)
           /\ ctxs'[n].state \in {ctxs[n].state, "Dead"}
      /\ \A i \in DOMAIN frames :
           /\ SameCall(frames[i], frames'[i]) /\ frames'[i].plug = frames[i].plug
           /\ frames'[i].thunk = (IF frames[i].v \in Odd \cap W /\ frames[i].thunk = 0
                                  THEN CleanupSlot(frames[i].v) ELSE frames[i].thunk)
  <2>1. \A n \in DOMAIN ctxs :
           /\ ctxs'[n].vfn = (IF ctxs[n].vfn \in W THEN NoVfn ELSE ctxs[n].vfn)
           /\ ctxs'[n].state \in {ctxs[n].state, "Dead"}
    BY <1>1, RetireStacks
  <2>2. \A i \in DOMAIN frames :
           /\ SameCall(frames[i], frames'[i]) /\ frames'[i].plug = frames[i].plug
           /\ frames'[i].thunk = (IF frames[i].v \in Odd \cap W /\ frames[i].thunk = 0
                                  THEN CleanupSlot(frames[i].v) ELSE frames[i].thunk)
    BY <1>1, RetireStacks
  <2>3. StackType' /\ Len(ctxs') = Len(ctxs) /\ Len(frames') = Len(frames) /\ W \subseteq VfnPtrs
    BY <1>1, RetireStacks
  <2>. HIDE DEF W
  <2>. QED
    BY <2>1, <2>2, <2>3
<1>. HIDE DEF W
<1>3. /\ ctxs \in Seq(Context) /\ frames \in Seq(FrameType) /\ ctxs' \in Seq(Context) /\ frames' \in Seq(FrameType)
      /\ DOMAIN ctxs = 1..Len(ctxs) /\ DOMAIN frames = 1..Len(frames)
      /\ DOMAIN ctxs' = 1..Len(ctxs) /\ DOMAIN frames' = 1..Len(frames)
  BY <1>2 DEF FramesInv, StackType
<1>4. IgnoreInv'
  BY <1>2, <1>3 DEF FramesInv, IgnoreInv
<1>5. ASSUME NEW i \in DOMAIN frames
      PROVE  StaysRunning(i)
  <2>1. frames[i].kind # "hook" => frames'[i].plug = None
    BY <1>2 DEF FramesInv, KindsInv
  <2>2. ASSUME frames[i].kind = "hook"
        PROVE  /\ Running(frames[i]) /\ frames[i].ctx \in DOMAIN ctxs
               /\ frames[i].ctx <= Len(ctxs')
               /\ ctxs'[frames[i].ctx].state # "Ignore"
               /\ ctxs'[frames[i].ctx].vfn \in {ctxs[frames[i].ctx].vfn, NoVfn}
    <3>1. Running(frames[i]) /\ frames[i].ctx \in DOMAIN ctxs
      BY <1>3, <2>2 DEF FramesInv, Running
    <3>2. ctxs[frames[i].ctx].state # "Ignore"
      BY <3>1 DEF Running
    <3>. QED
      BY <1>2, <1>3, <3>1, <3>2
  <2>3. ASSUME frames[i].kind = "hook", frames[i].loop = "pre"
        PROVE  \/ frames'[i].thunk \in 1..frames[i].ctx
               \/ /\ frames'[i].thunk = frames[i].thunk
                  /\ frames[i].v \in Odd => ctxs'[frames[i].ctx].vfn = ctxs[frames[i].ctx].vfn
    <3>1. PICK f, n : f = frames[i] /\ n = f.ctx /\ n \in DOMAIN ctxs /\ n \in Nat
      BY <1>3, <2>2, <2>3
    <3>2. f.thunk \in 1..n \/ (f.thunk = 0 /\ (f.v \in Odd => ctxs[n].vfn = f.v))
      BY <2>2, <2>3, <3>1 DEF Running
    <3>3. CASE f.thunk \in 1..n
      BY <1>2, <3>1, <3>3
    <3>4. CASE f.thunk = 0 /\ f.v \in Odd \cap W /\ ctxs[n].vfn = f.v
      <4>1. CleanupSlot(f.v) \in 1..n
        BY <1>3, <3>1, <3>4, CleanupSlotIsDeepest
      <4>. QED
        BY <1>2, <3>1, <3>4, <4>1
    <3>5. CASE f.thunk = 0 /\ f.v \notin Odd \cap W /\ (f.v \in Odd => ctxs[n].vfn = f.v)
      BY <1>2, <3>1, <3>5
    <3>. QED
      BY <3>2, <3>3, <3>4, <3>5
  <2>. QED
    BY <1>2, <2>1, <2>2, <2>3 DEF StaysRunning
<1>. QED
  BY <1>2, <1>3, <1>4, <1>5, StacksKept

-----------------------------------------------------------------------------
(* The stacks are always in order *)

\* A hookfunc's own step on its loop.
LoopStepOf(sup) == NextHandler \/ PreLoopEnds \/ OrigReturns \/ RecallReturns \/ HandlerReturns(sup)

\* What a step does, as far as the stacks go.
LEMMA StackSteps ==
    ASSUME RegistryInv, Next
    PROVE  \/ \E sup \in BOOLEAN : LoopStepOf(sup)
           \/ HookfuncReturns \/ CalleeReturns
           \/ \E v \in VfnPtrs, obj \in Objects : Call(v, obj) \/ ShCall(v, obj)
           \/ \E sup \in BOOLEAN : Recall(sup)
           \/ \E R \in SUBSET Live : Retire(R, {}) /\ UNCHANGED <<pending, gone>>
           \/ \E m \in HookMans : RemoveHookManager(m)
           \/ \E p \in Plugins : UnloadPlugin(p)
           \/ \E m \in HookMans, handler \in Handlers, l \in Sites : AddHook(m, handler, l)
           \/ \E h \in 1..MaxIds : PauseHook(h)
           \/ UNCHANGED <<entries, hm, hooks, ctxs, tasks, frames, pending>> /\ gone' \subseteq gone /\ paused' \subseteq paused
<1>1. CASE Continue
  BY <1>1 DEF Continue, LoopStepOf
<1>2. CASE \E v \in VfnPtrs, obj \in Objects : Call(v, obj) \/ ShCall(v, obj)
  BY <1>2
<1>3. CASE \E sup \in BOOLEAN : Recall(sup)
  BY <1>3
<1>4. CASE \E m \in HookMans, handler \in Handlers, l \in Sites : AddHook(m, handler, l)
  BY <1>4
<1>5. ASSUME NEW h \in 1..MaxIds, RemoveHookByID(h)
      PROVE  \E R \in SUBSET Live : Retire(R, {}) /\ UNCHANGED <<pending, gone>>
  BY <1>5 DEF RemoveHookByID
<1>6. ASSUME NEW h \in 1..MaxIds, UnpauseHook(h)
      PROVE  UNCHANGED <<entries, hm, hooks, ctxs, tasks, frames, pending>> /\ gone' \subseteq gone /\ paused' \subseteq paused
  BY <1>6 DEF UnpauseHook
<1>7. ASSUME NEW info \in Ids!Info, RemoveHook(info)
      PROVE  \E R \in SUBSET Live : Retire(R, {}) /\ UNCHANGED <<pending, gone>>
  <2>1. Ids!HooksMatching(entries, info) \in SUBSET Live
    BY DEF Ids!HooksMatching, Live, Ids!LiveIds
  <2>. QED
    BY <1>7, <2>1 DEF RemoveHook
<1>8. ASSUME NEW p \in Plugins, LoadPlugin(p)
      PROVE  UNCHANGED <<entries, hm, hooks, ctxs, tasks, frames, pending>> /\ gone' \subseteq gone /\ paused' \subseteq paused
  BY <1>8 DEF LoadPlugin
<1>9. CASE Client
  BY <1>2, <1>3, <1>4, <1>5, <1>6, <1>7, <1>8, <1>9 DEF Client
<1>. QED
  BY <1>1, <1>9 DEF Next

\* RemoveHookManager and UnloadPlugin remove hooks and managers that are there.
LEMMA Retiring ==
    ASSUME RegistryInv,
           \/ \E m \in HookMans : RemoveHookManager(m)
           \/ \E p \in Plugins : UnloadPlugin(p)
    PROVE  \E R \in SUBSET Live, M \in SUBSET HookMans : Retire(R, M)
<1>1. ASSUME NEW m \in HookMans, RemoveHookManager(m)
      PROVE  \E R \in SUBSET Live, M \in SUBSET HookMans : Retire(R, M)
  <2>1. {} \in SUBSET Live /\ {m} \in SUBSET HookMans
    OBVIOUS
  <2>. QED
    BY <1>1, <2>1 DEF RemoveHookManager
<1>2. ASSUME NEW p \in Plugins, UnloadPlugin(p)
      PROVE  \E R \in SUBSET Live, M \in SUBSET HookMans : Retire(R, M)
  BY <1>2, UnloadRetires DEF UnloadPlugin
<1>. QED
  BY <1>1, <1>2

\* Pausing a hook takes it off what the running calls owe.
LEMMA PauseStacks ==
    ASSUME FramesInv, NEW h \in 1..MaxIds, PauseHook(h)
    PROVE  /\ FramesInv'
           /\ Len(frames') = Len(frames)
           /\ \A i \in DOMAIN frames : /\ SameCall(frames[i], frames'[i]) /\ frames'[i].plug = frames[i].plug
                                       /\ SameLoop(frames[i], frames'[i]) /\ SameCount(frames[i], frames'[i])
                                       /\ frames'[i].due = frames[i].due \ {h} /\ frames'[i].done = frames[i].done
           /\ UNCHANGED <<entries, hm, hooks, ctxs, tasks, pending, gone>>
<1>1. /\ frames' = [i \in DOMAIN frames |-> [frames[i] EXCEPT !.due = @ \ {h}]]
      /\ UNCHANGED <<entries, hm, hooks, ctxs, tasks, pending, gone>>
  BY DEF PauseHook
<1>2. /\ ctxs \in Seq(Context) /\ frames \in Seq(FrameType) /\ Len(ctxs) \in Nat /\ Len(frames) \in Nat
      /\ DOMAIN frames = 1..Len(frames)
  BY DEF FramesInv, StackType
<1>3. ASSUME NEW i \in DOMAIN frames
      PROVE  /\ frames'[i] \in FrameType
             /\ SameCall(frames[i], frames'[i]) /\ frames'[i].plug = frames[i].plug
             /\ frames'[i].thunk = frames[i].thunk
             /\ SameLoop(frames[i], frames'[i]) /\ SameCount(frames[i], frames'[i])
             /\ frames'[i].due = frames[i].due \ {h} /\ frames'[i].done = frames[i].done
  <2>1. PICK f \in FrameType : f = frames[i]
    BY <1>2
  <2>2. PICK g, x : x = f.due \ {h} /\ g = [f EXCEPT !.due = x]
    OBVIOUS
  <2>3. frames'[i] = g
    BY <1>1, <2>1, <2>2
  <2>4. x \in SUBSET (1..MaxIds)
    BY <2>2 DEF FrameType
  <2>5. g \in FrameType
    BY <2>2, <2>4, FrameUpdates
  <2>6. SameCall(f, g) /\ g.plug = f.plug /\ g.pc = f.pc /\ g.loop = f.loop /\ g.thunk = f.thunk
    BY <2>2 DEF SameCall, FrameType
  <2>7. SameLoop(f, g) /\ SameCount(f, g) /\ g.due = x /\ g.done = f.done
    BY <2>2 DEF SameLoop, SameCount, FrameType
  <2>. QED
    BY <2>1, <2>2, <2>3, <2>5, <2>6, <2>7
<1>4. frames' \in Seq(FrameType) /\ Len(frames') = Len(frames) /\ DOMAIN frames' = DOMAIN frames
  <2>1. DOMAIN frames' = 1..Len(frames) /\ frames' = [i \in DOMAIN frames' |-> frames'[i]]
    BY <1>1, <1>2
  <2>. QED
    BY <1>2, <1>3, <2>1
<1>5. StackType' /\ IgnoreInv'
  BY <1>1, <1>4 DEF FramesInv, StackType, IgnoreInv
<1>6. ASSUME NEW i \in DOMAIN frames
      PROVE  StaysRunning(i)
  <2>1. frames[i].kind # "hook" => frames'[i].plug = None
    BY <1>3 DEF FramesInv, KindsInv
  <2>2. Len(ctxs) <= Len(ctxs') /\ \A n \in DOMAIN ctxs : ctxs'[n] = ctxs[n]
    BY <1>1, <1>2
  <2>. QED
    BY <1>3, <2>1, <2>2, Untouched
<1>7. FramesInv'
  BY <1>4, <1>5, <1>6, StacksKept
<1>. QED
  BY <1>1, <1>3, <1>4, <1>7

\* FramesInv is inductive relative to the registry's invariants.
LEMMA FramesInductive ==
    /\ Init => FramesInv
    /\ RegistryInv /\ FramesInv /\ [Next]_vars => FramesInv'
<1>1. ASSUME Init
      PROVE  FramesInv
  <2>1. ctxs = <<>> /\ tasks = <<>> /\ frames = <<>>
    BY <1>1 DEF Init
  <2>2. StackType
    BY <2>1 DEF StackType
  <2>. QED
    BY <2>1, <2>2 DEF FramesInv, KindsInv, OrderInv, IgnoreInv
<1>2. ASSUME RegistryInv, FramesInv, [Next]_vars
      PROVE  FramesInv'
  <2>1. CASE UNCHANGED <<ctxs, tasks, frames>>
    BY <1>2, <2>1 DEF FramesInv, StackType, KindsInv, Running, OrderInv, IgnoreInv
  <2>2. CASE \E sup \in BOOLEAN : LoopStepOf(sup)
    BY <1>2, <2>2, LoopStepKeepsFrames DEF LoopStepOf
  <2>3. CASE HookfuncReturns \/ CalleeReturns
    BY <1>2, <2>3, ReturnKeepsFrames
  <2>4. CASE \E v \in VfnPtrs, obj \in Objects : Call(v, obj) \/ ShCall(v, obj)
    BY <1>2, <2>4, CallKeepsFrames, ShCallKeepsFrames
  <2>5. CASE \E sup \in BOOLEAN : Recall(sup)
    BY <1>2, <2>5, RecallKeepsFrames
  <2>6. CASE \E R \in SUBSET Live, M \in SUBSET HookMans : Retire(R, M)
    BY <1>2, <2>6, RetireKeepsFrames
  <2>7. CASE \E R \in SUBSET Live : Retire(R, {})
    <3>1. {} \in SUBSET HookMans
      OBVIOUS
    <3>. QED
      BY <2>6, <2>7, <3>1
  <2>8. CASE \E h \in 1..MaxIds : PauseHook(h)
    BY <1>2, <2>8, PauseStacks
  <2>9. CASE \E m \in HookMans, handler \in Handlers, l \in Sites : AddHook(m, handler, l)
    BY <2>1, <2>9 DEF AddHook
  <2>10. CASE UNCHANGED vars
    BY <2>1, <2>10 DEF vars
  <2>11. CASE Next
    BY <1>2, <2>1, <2>2, <2>3, <2>4, <2>5, <2>6, <2>7, <2>8, <2>9, <2>11, StackSteps, Retiring
  <2>. QED
    BY <1>2, <2>10, <2>11
<1>. QED
  BY <1>1, <1>2

\* The call stack and m_ContextStack stay in order, whatever is called, recalled and
\* removed at whatever depth.
THEOREM FramesInvariant == Spec => [](RegistryInv /\ KnownInv /\ FramesInv)
<1>1. Init => RegistryInv /\ KnownInv /\ FramesInv
  BY RegistryInductive, KnownInductive, FramesInductive
<1>2. RegistryInv /\ KnownInv /\ FramesInv /\ [Next]_vars => (RegistryInv /\ KnownInv /\ FramesInv)'
  BY RegistryInductive, KnownInductive, FramesInductive
<1>. QED
  BY <1>1, <1>2, PTL DEF Spec

\* Type correctness.
THEOREM StacksTyped == Spec => []TypeOK
<1>1. RegistryInv /\ KnownInv /\ FramesInv => TypeOK
  <2>1. RegistryInv => Mans!HMTypeOK /\ Ids!IdTypeOK /\ paused \subseteq 1..MaxIds
    BY LiveEntries DEF RegistryInv, Mans!HMIInv, Mans!Consistent, Mans!HMType, Mans!HMTypeOK
  <2>. QED
    BY <2>1 DEF RegistryInv, KnownInv, PendingType, FramesInv, StackType, TypeOK
<1>. QED
  BY <1>1, FramesInvariant, PTL

\* The thunk a hookfunc calls the original through outlives the loop, whatever handlers
\* remove: it goes with the deepest context that used the entry, and that is the loop's
\* own or one below it.
THEOREM ThunksOutliveLoops == Spec => []ThunkOutlivesLoop
<1>1. FramesInv => ThunkOutlivesLoop
  <2>. SUFFICES ASSUME FramesInv, NEW i \in DOMAIN frames, frames[i].kind = "hook", frames[i].loop = "pre"
                PROVE  frames[i].thunk # Dangling
    BY DEF ThunkOutlivesLoop
  <2>1. frames[i].thunk \in 1..frames[i].ctx \/ frames[i].thunk = 0
    BY DEF FramesInv, Running
  <2>2. frames[i] \in FrameType
    BY DEF FramesInv, StackType
  <2>3. frames[i].ctx \in Nat
    BY <2>2 DEF FrameType
  <2>. QED
    BY <2>1, <2>3 DEF Dangling
<1>. QED
  BY <1>1, FramesInvariant, PTL

-----------------------------------------------------------------------------
(* Unloading below running code *)

\* The code a frame runs was on the stack before the step, or belongs to a plugin no
\* unload waits for.
Clear(g) ==
    /\ \/ g.plug = None \/ Active(g.plug)
       \/ \E j \in DOMAIN frames : g.plug = frames[j].plug
    /\ \/ g.man = None \/ Active(OwnerOf[g.man])
       \/ \E j \in DOMAIN frames : g.man = frames[j].man

Unloads == [plug : Plugins, deactivated : BOOLEAN]

\* The plugins of the pending unloads are plugins.
LEMMA PendingPlugins ==
    ASSUME NEW s \in Seq(Unloads), NEW u \in Elements(s)
    PROVE  u.plug \in Plugins
<1>1. PICK i \in DOMAIN s : u = s[i]
  BY DEF Elements
<1>2. u \in Unloads
  BY <1>1
<1>. QED
  BY <1>2 DEF Unloads

\* A step after which only such code is on the stack, and that makes no unload ripe, keeps
\* the invariant.
LEMMA ClearKeepsRipe ==
    ASSUME RipeInv, PendingType, \A i \in DOMAIN frames' : Clear(frames'[i]),
           \A u \in Elements(pending') : Ripe(u) => u \in Elements(pending)
    PROVE  RipeInv'
<1>. SUFFICES ASSUME NEW u \in Elements(pending'), NEW i \in DOMAIN frames', Ripe(u)
              PROVE  /\ frames'[i].plug # u.plug
                     /\ frames'[i].man # None => OwnerOf[frames'[i].man] # u.plug
  BY DEF RipeInv
<1>1. u \in Elements(pending) /\ Clear(frames'[i])
  OBVIOUS
<1>2. \A j \in DOMAIN frames : /\ frames[j].plug # u.plug
                               /\ frames[j].man # None => OwnerOf[frames[j].man] # u.plug
  BY <1>1 DEF RipeInv
<1>3. pending \in Seq(Unloads)
  BY DEF PendingType, Unloads
<1>4. u.plug # None
  BY <1>1, <1>3, PendingPlugins, NoneAssumption
<1>5. \A p : Active(p) => p # u.plug
  BY <1>1 DEF Active, Elements, ToSet
<1>. QED
  BY <1>1, <1>2, <1>4, <1>5 DEF Clear

\* The hookfunc in a patched entry belongs to a plugin that is loaded.
LEMMA EnteredIsActive ==
    ASSUME RegistryInv, OwnersInv, NEW f, NEW v \in VfnPtrs, Entered(f, v)
    PROVE  Active(OwnerOf[f.man]) /\ f.plug = None
<1>1. f.man = hm.vtable[v] /\ hm.vtable[v] # Orig /\ f.plug = None
  BY DEF Entered
<1>2. f.man \in hm.known
  BY <1>1, FindsEntry DEF OwnersInv, KnownInv
<1>. QED
  BY <1>1, <1>2 DEF OwnersInv

\* Without contexts no hookfunc and no handler runs.
LEMMA NoContextNoCode ==
    ASSUME FramesInv, ctxs = <<>>, NEW i \in DOMAIN frames
    PROVE  frames[i].man = None /\ frames[i].plug = None
<1>1. frames[i].kind # "hook"
  <2>1. Len(ctxs) = 0
    OBVIOUS
  <2>2. frames[i].ctx \notin 1..Len(ctxs)
    BY <2>1
  <2>. QED
    BY <2>2 DEF FramesInv, Running
<1>. QED
  BY <1>1 DEF FramesInv, KindsInv

\* What a step does to the code on the stack and the pending unloads: UnloadPlugin only
\* queues an unload, and when EndContext carries the unloads out no hookfunc is left.
LEMMA RipeStep ==
    ASSUME NoLateAdds, RegistryInv, OwnersInv, FramesInv, RipeInv, Next
    PROVE  RipeInv'
<1>1. PendingType /\ FramesInv' /\ frames \in Seq(FrameType) /\ DOMAIN frames = 1..Len(frames) /\ Len(frames) \in Nat
  BY FramesInductive DEF OwnersInv, KnownInv, FramesInv, StackType
<1>2. ASSUME NEW sup \in BOOLEAN, LoopStepOf(sup)
      PROVE  RipeInv'
  <2>1. frames # <<>> /\ Top = frames[Len(frames)] /\ Len(frames) \in DOMAIN frames /\ pending' = pending
    <3>1. frames # <<>> /\ Top.pc \in LoopPcs /\ pending' = pending
      BY <1>2, LoopStep DEF LoopStepOf
    <3>. QED
      BY <3>1, CurrentContext
  <2>2. PICK f \in FrameType :
          /\ frames' = WithTop(f) /\ SameCall(Top, f)
          /\ f.plug = None \/ f.plug = Top.plug \/ \E h \in Live : f.plug = entries[h].plug
    BY <1>2, LoopStep DEF LoopStepOf
  <2>3. Clear(f)
    BY <2>1, <2>2 DEF Clear, SameCall, OwnersInv
  <2>4. DOMAIN frames' = DOMAIN frames /\ \A i \in DOMAIN frames : frames'[i] = f \/ frames'[i] = frames[i]
    BY <1>1, <2>1, <2>2 DEF WithTop
  <2>5. \A i \in DOMAIN frames' : Clear(frames'[i])
    BY <2>3, <2>4 DEF Clear
  <2>. QED
    BY <1>1, <2>1, <2>5, ClearKeepsRipe
<1>3. CASE HookfuncReturns \/ CalleeReturns
  <2>1. /\ frames' \in Seq(FrameType) /\ DOMAIN frames' = 1..Len(frames) - 1 /\ DOMAIN frames' \subseteq DOMAIN frames
    <3>1. Len(frames') = Len(frames) - 1 /\ frames # <<>>
      BY <1>3, ReturnEffect
    <3>2. frames' \in Seq(FrameType) /\ DOMAIN frames' = 1..Len(frames')
      BY <1>1 DEF FramesInv, StackType
    <3>. QED
      BY <1>1, <3>1, <3>2
  <2>2. CASE pending' = pending
    <3>1. ASSUME NEW i \in DOMAIN frames'
          PROVE  Clear(frames'[i])
      <4>1. i \in DOMAIN frames /\ frames'[i].plug = frames[i].plug /\ frames'[i].man = frames[i].man
        BY <1>3, <2>1, ReturnEffect DEF Unthunked, SameCall
      <4>. QED
        BY <4>1 DEF Clear
    <3>. QED
      BY <1>1, <2>2, <3>1, ClearKeepsRipe
  <2>3. CASE ctxs' = <<>>
    <3>1. ASSUME NEW i \in DOMAIN frames'
          PROVE  frames'[i].man = None /\ frames'[i].plug = None
      <4>1. Len(ctxs') = 0
        BY <2>3
      <4>2. frames'[i].kind # "hook"
        BY <1>1, <4>1 DEF FramesInv, Running
      <4>. QED
        BY <1>1, <4>2 DEF FramesInv, KindsInv
    <3>2. ASSUME NEW u \in Elements(pending')
          PROVE  u.plug # None
      <4>1. OwnersInv'
        BY OwnersInductive
      <4>2. pending' \in Seq(Unloads)
        BY <4>1 DEF OwnersInv, KnownInv, PendingType, Unloads
      <4>. QED
        BY <4>2, PendingPlugins, NoneAssumption
    <3>. QED
      BY <3>1, <3>2 DEF RipeInv
  <2>4. pending' = pending \/ ctxs' = <<>>
    <3>1. ctxs' \in Seq(Context)
      BY <1>1 DEF FramesInv, StackType
    <3>2. Len(ctxs) = 1 /\ Len(ctxs') = Len(ctxs) - 1 => ctxs' = <<>>
      BY <3>1
    <3>. QED
      BY <1>3, <3>2, ReturnEffect
  <2>. QED
    BY <2>2, <2>3, <2>4
<1>4. ASSUME NEW s \in Seq(FrameType), frames' = s, pending' = pending,
             \A i \in DOMAIN s : \/ s[i].plug = None /\ (s[i].man = None \/ Active(OwnerOf[s[i].man]))
                                 \/ \E j \in DOMAIN frames : s[i].plug = frames[j].plug /\ s[i].man = frames[j].man
      PROVE  RipeInv'
  <2>1. \A i \in DOMAIN frames' : Clear(frames'[i])
    BY <1>4 DEF Clear
  <2>. QED
    BY <1>1, <1>4, <2>1, ClearKeepsRipe
<1>5. ASSUME NEW v \in VfnPtrs, NEW obj \in Objects, Call(v, obj)
      PROVE  RipeInv'
  <2>1. PICK f \in FrameType : Entered(f, v) /\ frames' = Append(frames, f)
    BY <1>5, CallEffect
  <2>2. pending' = pending
    BY <1>5, CallEffect
  <2>3. Active(OwnerOf[f.man]) /\ f.plug = None
    BY <2>1, EnteredIsActive
  <2>4. frames' \in Seq(FrameType)
    BY <1>1, <2>1
  <2>5. \A i \in DOMAIN frames' : frames'[i] = f \/ \E j \in DOMAIN frames : frames'[i] = frames[j]
    BY <1>1, <2>1
  <2>. QED
    BY <1>4, <2>2, <2>3, <2>4, <2>5
<1>6. ASSUME NEW v \in VfnPtrs, NEW obj \in Objects, ShCall(v, obj)
      PROVE  RipeInv'
  <2>1. PICK g \in FrameType :
          /\ g.man = None /\ g.plug = None
          /\ \/ frames' = Append(frames, g)
             \/ \E f \in FrameType : Entered(f, v) /\ frames' = Append(Append(frames, g), f)
    BY <1>6, ShCallEffect
  <2>2. pending' = pending
    BY <1>6, ShCallEffect
  <2>3. CASE frames' = Append(frames, g)
    BY <1>1, <1>4, <2>1, <2>2, <2>3
  <2>4. ASSUME NEW f \in FrameType, Entered(f, v), frames' = Append(Append(frames, g), f)
        PROVE  RipeInv'
    <3>1. Active(OwnerOf[f.man]) /\ f.plug = None
      BY <2>4, EnteredIsActive
    <3>2. PICK t : t = Append(frames, g)
      OBVIOUS
    <3>3. t \in Seq(FrameType) /\ \A i \in DOMAIN t : t[i] = g \/ \E j \in DOMAIN frames : t[i] = frames[j]
      BY <1>1, <3>2
    <3>4. PICK s : s = Append(t, f)
      OBVIOUS
    <3>5. s \in Seq(FrameType) /\ \A i \in DOMAIN s : s[i] = f \/ \E j \in DOMAIN t : s[i] = t[j]
      BY <3>3, <3>4
    <3>6. frames' = s
      BY <2>4, <3>2, <3>4
    <3>7. \A i \in DOMAIN s : s[i] = f \/ s[i] = g \/ \E j \in DOMAIN frames : s[i] = frames[j]
      BY <3>3, <3>5
    <3>8. \A i \in DOMAIN s : \/ s[i].plug = None /\ (s[i].man = None \/ Active(OwnerOf[s[i].man]))
                              \/ \E j \in DOMAIN frames : s[i].plug = frames[j].plug /\ s[i].man = frames[j].man
      BY <2>1, <3>1, <3>7
    <3>. QED
      BY <1>4, <2>2, <3>5, <3>6, <3>8
  <2>. QED
    BY <2>1, <2>3, <2>4, Zenon
<1>7. ASSUME NEW sup \in BOOLEAN, Recall(sup)
      PROVE  RipeInv'
  <2>1. PICK f, g \in FrameType : /\ SameCall(Top, f) /\ f.plug = Top.plug
                                  /\ frames' = Append(WithTop(f), g)
                                  /\ \/ Entered(g, Top.v)
                                     \/ g.man = None /\ g.plug = None
    <3>1. PICK f, g \in FrameType, d \in Context, new \in Seq(Context) : Recalled(f, g, d, new)
      BY <1>7, RecallEffect, Zenon
    <3>. QED
      BY <3>1 DEF Recalled
  <2>2. pending' = pending /\ frames # <<>> /\ Top.pc = "handler"
    BY <1>7, RecallEffect
  <2>3. Len(frames) \in DOMAIN frames /\ Top = frames[Len(frames)] /\ Top.v \in VfnPtrs
    BY <2>2, CurrentContext DEF LoopPcs, FrameType
  <2>4. g.plug = None /\ (g.man = None \/ Active(OwnerOf[g.man]))
    BY <2>1, <2>3, EnteredIsActive
  <2>5. PICK t : t = WithTop(f)
    OBVIOUS
  <2>6. t \in Seq(FrameType) /\ \A i \in DOMAIN t : t[i] = f \/ \E j \in DOMAIN frames : t[i] = frames[j]
    BY <1>1, <2>3, <2>5 DEF WithTop
  <2>7. PICK s : s = Append(t, g)
    OBVIOUS
  <2>8. s \in Seq(FrameType) /\ \A i \in DOMAIN s : s[i] = g \/ \E j \in DOMAIN t : s[i] = t[j]
    BY <2>6, <2>7
  <2>9. frames' = s /\ f.plug = Top.plug /\ f.man = Top.man
    BY <2>1, <2>5, <2>7 DEF SameCall
  <2>. QED
    BY <1>4, <2>2, <2>3, <2>4, <2>6, <2>8, <2>9
<1>8. ASSUME NEW R \in SUBSET Live, NEW M \in SUBSET HookMans, Retire(R, M),
             \A u \in Elements(pending') : Ripe(u) => u \in Elements(pending)
      PROVE  RipeInv'
  <2>1. /\ StackType' /\ Len(frames') = Len(frames)
        /\ \A i \in DOMAIN frames : SameCall(frames[i], frames'[i]) /\ frames'[i].plug = frames[i].plug
    BY <1>8, RetireStacks DEF FramesInv
  <2>2. DOMAIN frames' = DOMAIN frames
    BY <1>1, <2>1 DEF StackType
  <2>3. \A i \in DOMAIN frames' : Clear(frames'[i])
    BY <2>1, <2>2 DEF Clear, SameCall
  <2>. QED
    BY <1>1, <1>8, <2>3, ClearKeepsRipe
<1>9. ASSUME NEW p \in Plugins, UnloadPlugin(p)
      PROVE  RipeInv'
  <2>1. pending' = pending \/ pending' = Append(pending, [plug |-> p, deactivated |-> FALSE])
    BY <1>9 DEF UnloadPlugin
  <2>2. pending \in Seq(Unloads)
    BY <1>1 DEF PendingType, Unloads
  <2>3. PICK w \in Unloads : ~Ripe(w) /\ (pending' = pending \/ pending' = Append(pending, w))
    <3>1. [plug |-> p, deactivated |-> FALSE] \in Unloads /\ ~Ripe([plug |-> p, deactivated |-> FALSE])
      BY DEF Ripe, Unloads
    <3>. QED
      BY <2>1, <3>1
  <2>4. Elements(Append(pending, w)) = Elements(pending) \union {w}
    BY <2>2, AppendDistinct
  <2>5. \A u \in Elements(pending') : Ripe(u) => u \in Elements(pending)
    BY <2>3, <2>4
  <2>. QED
    BY <1>8, <1>9, <2>5, UnloadRetires DEF UnloadPlugin
<1>10. ASSUME NEW m \in HookMans, RemoveHookManager(m)
       PROVE  RipeInv'
  <2>1. {} \in SUBSET Live /\ {m} \in SUBSET HookMans
    OBVIOUS
  <2>. QED
    BY <1>8, <1>10, <2>1 DEF RemoveHookManager
<1>11. ASSUME NEW R \in SUBSET Live, Retire(R, {}), UNCHANGED <<pending, gone>>
       PROVE  RipeInv'
  <2>1. {} \in SUBSET HookMans
    OBVIOUS
  <2>. QED
    BY <1>8, <1>11, <2>1
<1>12. ASSUME NEW h \in 1..MaxIds, PauseHook(h)
       PROVE  RipeInv'
  <2>1. /\ FramesInv' /\ Len(frames') = Len(frames) /\ pending' = pending
        /\ \A i \in DOMAIN frames : SameCall(frames[i], frames'[i]) /\ frames'[i].plug = frames[i].plug
    BY <1>12, PauseStacks
  <2>2. DOMAIN frames' = DOMAIN frames
    BY <1>1, <2>1 DEF FramesInv, StackType
  <2>3. \A i \in DOMAIN frames' : Clear(frames'[i])
    BY <2>1, <2>2 DEF Clear, SameCall
  <2>. QED
    BY <1>1, <2>1, <2>3, ClearKeepsRipe
<1>13. CASE UNCHANGED <<frames, pending>>
  BY <1>13 DEF RipeInv
<1>14. CASE \E m \in HookMans, handler \in Handlers, l \in Sites : AddHook(m, handler, l)
  BY <1>13, <1>14 DEF AddHook
<1>. QED
  BY <1>2, <1>3, <1>5, <1>6, <1>7, <1>9, <1>10, <1>11, <1>12, <1>13, <1>14, StackSteps

\* RipeInv is inductive relative to the invariants of the frames.
LEMMA RipeInductive ==
    /\ Init => RipeInv
    /\ NoLateAdds /\ RegistryInv /\ OwnersInv /\ FramesInv /\ RipeInv /\ [Next]_vars => RipeInv'
<1>1. Init => RipeInv
  BY DEF Init, RipeInv
<1>2. RipeInv /\ UNCHANGED vars => RipeInv'
  BY DEF RipeInv, vars
<1>. QED
  BY <1>1, <1>2, RipeStep

\* If no plugin adds a hook while its unload is pending, a plugin is unloaded only when
\* neither a hookfunc nor a handler of it is on the call stack: the unloads EndContext
\* carries out sat through the drop of the context stack that ended the call they were
\* asked for in, and since then their plugins had no code to run.
THEOREM UnloadsAreSafe == NoLateAdds => (Spec => UnloadIsSafe)
<1>. SUFFICES ASSUME NoLateAdds
              PROVE  Spec => UnloadIsSafe
  OBVIOUS
<1>. DEFINE Inv == RegistryInv /\ OwnersInv /\ FramesInv /\ RipeInv
            Safe == \A p \in gone' \ gone : \A i \in DOMAIN frames :
                        /\ frames[i].plug # p
                        /\ frames[i].man # None => OwnerOf[frames[i].man] # p
<1>1. Init => Inv
  BY RegistryInductive, OwnersInductive, FramesInductive, RipeInductive
<1>2. Inv /\ [Next]_vars => Inv'
  BY RegistryInductive, OwnersInductive, FramesInductive, RipeInductive
<1>3. Inv /\ [Next]_vars => [Safe]_vars
  <2>1. CASE UNCHANGED gone
    BY <2>1
  <2>2. ASSUME Inv, Resolve
        PROVE  Safe
    <3>1. gone' = gone \union {u.plug : u \in RipeUnloads} /\ RipeUnloads \subseteq {u \in Elements(pending) : Ripe(u)}
      BY <2>2 DEF Resolve, RipeUnloads, Elements, ToSet
    <3>. QED
      BY <2>2, <3>1 DEF RipeInv
  <2>3. ASSUME Inv, NEW p \in Plugins, UnloadPlugin(p)
        PROVE  Safe
    <3>1. gone' = gone \/ (gone' = gone \union {p} /\ ctxs = <<>>)
      BY <2>3 DEF UnloadPlugin
    <3>2. p # None
      BY NoneAssumption
    <3>. QED
      BY <2>3, <3>1, <3>2, NoContextNoCode
  <2>4. ASSUME NEW p \in Plugins, LoadPlugin(p)
        PROVE  Safe
    BY <2>4 DEF LoadPlugin
  <2>5. CASE \E m \in HookMans, handler \in Handlers, l \in Sites : AddHook(m, handler, l)
    BY <2>5 DEF AddHook
  <2>6. CASE Inv /\ Next
    <3>. HIDE DEF Safe
    <3>. QED
      BY <2>1, <2>2, <2>3, <2>4, <2>5, <2>6, Steps
  <2>7. CASE UNCHANGED vars
    BY <2>7
  <2>. QED
    BY <2>6, <2>7
<1>. HIDE DEF Inv
<1>. QED
  BY <1>1, <1>2, <1>3, PTL DEF Spec, UnloadIsSafe

-----------------------------------------------------------------------------
(* Contexts and calls nest *)

\* The stacks, spelled out.
LEMMA Stacks ==
    ASSUME StackType
    PROVE  /\ frames \in Seq(FrameType) /\ Len(frames) \in Nat /\ DOMAIN frames = 1..Len(frames)
           /\ ctxs \in Seq(Context) /\ Len(ctxs) \in Nat /\ DOMAIN ctxs = 1..Len(ctxs)
           /\ \A i \in DOMAIN frames : frames[i].ctx \in Nat
           /\ frames # <<>> <=> Len(frames) # 0
           /\ frames # <<>> => Len(frames) \in DOMAIN frames /\ Top = frames[Len(frames)]
           /\ CtxBelow(Len(frames) + 1) = IF frames = <<>> THEN 0 ELSE Top.ctx
<1>1. frames \in Seq(FrameType) /\ ctxs \in Seq(Context)
  BY DEF StackType
<1>2. \A i \in DOMAIN frames : frames[i].ctx \in Nat
  <2>1. \A i \in DOMAIN frames : frames[i] \in FrameType
    BY <1>1
  <2>. QED
    BY <2>1 DEF FrameType
<1>3. frames # <<>> <=> Len(frames) # 0
  BY <1>1
<1>4. Len(frames) + 1 = 1 <=> frames = <<>>
  BY <1>1
<1>. QED
  BY <1>1, <1>2, <1>3, <1>4 DEF Top, Last, CtxBelow

\* A step that leaves the calls and the number of contexts alone keeps the nesting, unless
\* it makes a recall context or takes an SH_CALL's.
LEMMA NestKept ==
    ASSUME StackType, NestInv, StackType', Len(frames') = Len(frames), Len(ctxs') = Len(ctxs),
           \A i \in DOMAIN frames : frames'[i].kind = frames[i].kind /\ frames'[i].ctx = frames[i].ctx,
           \A n \in DOMAIN ctxs : ctxs[n].state = "Ignore" => ctxs'[n].state = "Ignore",
           \A n \in DOMAIN ctxs : ctxs'[n].state \in RecallStates =>
               ctxs[n].state \in RecallStates /\ frames'[Len(frames)].pc = "pre"
    PROVE  NestInv'
<1>1. /\ DOMAIN frames = 1..Len(frames) /\ Len(frames) \in Nat /\ DOMAIN ctxs = 1..Len(ctxs)
      /\ DOMAIN frames' = DOMAIN frames /\ DOMAIN ctxs' = DOMAIN ctxs
      /\ \A i \in DOMAIN frames : frames[i].ctx \in Nat
      /\ frames' # <<>> <=> frames # <<>>
      /\ frames # <<>> => Len(frames) \in DOMAIN frames /\ Top = frames[Len(frames)] /\ Top' = frames'[Len(frames)]
  BY Stacks DEF StackType, Top, Last
<1>2. \A i \in 1..Len(frames) + 1 : CtxBelow(i)' = CtxBelow(i)
  BY <1>1 DEF CtxBelow
<1>3. DepthInv'
  <2>1. \A i \in DOMAIN frames' : frames'[i].kind # "plain" /\ frames'[i].ctx <= 1 + CtxBelow(i)'
    BY <1>1, <1>2 DEF NestInv, DepthInv
  <2>2. PICK k : k = Len(frames) + 1 /\ k \in 1..Len(frames) + 1
    BY <1>1
  <2>3. Len(ctxs') <= CtxBelow(k)'
    BY <1>2, <2>2 DEF NestInv, DepthInv
  <2>4. CtxBelow(Len(frames) + 1)' = CtxBelow(k)'
    BY <2>2 DEF CtxBelow
  <2>. QED
    BY <2>1, <2>3, <2>4 DEF DepthInv
<1>4. OwnedInv'
  BY <1>1 DEF NestInv, OwnedInv, HookCalls
<1>5. PickUpInv'
  BY <1>1 DEF NestInv, PickUpInv
<1>. QED
  BY <1>3, <1>4, <1>5 DEF NestInv

\* Handlers recall only while a hookfunc follows and their own loop still runs.
TimelyRecalls == "late recall" \notin HandlerOps

\* One or two calls on top of the others, the first on the context on top or the next.
LEMMA NestPushed ==
    ASSUME StackType, NestInv, StackType', NEW k \in Nat, k = Len(frames) + 1,
           NEW m \in Nat, k <= m, m <= k + 1, Len(frames') = m,
           NEW c \in Nat, Len(ctxs) <= c, c <= Len(ctxs) + 1, Len(ctxs') = c,
           \A i \in DOMAIN frames : frames'[i].kind = frames[i].kind /\ frames'[i].ctx = frames[i].ctx,
           \A i \in DOMAIN frames' : k <= i => frames'[i].kind # "plain" /\ frames'[i].ctx = c,
           \A n \in DOMAIN ctxs' :
               \/ n \in DOMAIN ctxs /\ (ctxs[n].state = "Ignore" => ctxs'[n].state = "Ignore")
               \/ ctxs'[n].state = "Ignore"
               \/ n = c /\ frames'[m].kind = "hook",
           \A n \in DOMAIN ctxs' : ctxs'[n].state \in RecallStates =>
               n = c /\ frames'[m].kind = "hook" /\ frames'[m].pc = "pre"
    PROVE  NestInv'
<1>1. /\ DOMAIN frames = 1..Len(frames) /\ Len(frames) \in Nat /\ DOMAIN ctxs = 1..Len(ctxs) /\ Len(ctxs) \in Nat
      /\ CtxBelow(Len(frames) + 1) = IF frames = <<>> THEN 0 ELSE Top.ctx
      /\ frames # <<>> <=> Len(frames) # 0
      /\ frames # <<>> => Top = frames[Len(frames)]
      /\ \A i \in DOMAIN frames : frames[i].ctx \in Nat
  BY Stacks
<1>2. DOMAIN frames' = 1..m /\ DOMAIN ctxs' = 1..c /\ frames' # <<>> /\ Top' = frames'[m]
  BY <1>1 DEF StackType, Top, Last
<1>3. Len(ctxs) <= CtxBelow(k)
  BY DEF NestInv, DepthInv
<1>4. \A i \in 1..k : CtxBelow(i)' = CtxBelow(i)
  BY <1>1 DEF CtxBelow
<1>5. CtxBelow(k) \in Nat
  BY <1>1
<1>6. DepthInv'
  <2>1. ASSUME NEW i \in DOMAIN frames'
        PROVE  frames'[i].kind # "plain" /\ frames'[i].ctx <= 1 + CtxBelow(i)'
    <3>1. CASE i \in DOMAIN frames
      BY <1>1, <1>4, <3>1 DEF NestInv, DepthInv
    <3>2. CASE i = k
      <4>1. CtxBelow(i)' = CtxBelow(k)
        BY <1>4, <3>2
      <4>2. frames'[i].kind # "plain" /\ frames'[i].ctx = c
        BY <3>2
      <4>. QED
        BY <1>1, <1>3, <1>5, <4>1, <4>2
    <3>3. CASE i = k + 1 /\ m = k + 1
      <4>1. i - 1 = k /\ i # 1
        BY <1>1, <3>3
      <4>2. CtxBelow(i)' = frames'[k].ctx
        BY <4>1 DEF CtxBelow
      <4>3. frames'[i].kind # "plain" /\ frames'[i].ctx = c /\ frames'[k].ctx = c
        BY <3>3
      <4>. QED
        BY <4>2, <4>3
    <3>. QED
      BY <1>1, <1>2, <3>1, <3>2, <3>3
  <2>2. Len(ctxs') <= CtxBelow(Len(frames) + 1)'
    <3>1. CtxBelow(Len(frames) + 1)' = frames'[m].ctx
      <4>1. Len(frames') + 1 # 1 /\ Len(frames') + 1 - 1 = m
        BY <1>1
      <4>. QED
        BY <4>1 DEF CtxBelow
    <3>2. frames'[m].ctx = c
      OBVIOUS
    <3>. QED
      BY <3>1, <3>2
  <2>. QED
    BY <2>1, <2>2 DEF DepthInv
<1>7. OwnedInv'
  <2>1. ASSUME NEW n \in DOMAIN ctxs', ctxs'[n].state # "Ignore"
        PROVE  \E i \in DOMAIN frames' : frames'[i].kind = "hook" /\ frames'[i].ctx = n
    <3>1. CASE n \in DOMAIN ctxs /\ ctxs[n].state # "Ignore"
      <4>1. PICK i \in DOMAIN frames : frames[i].kind = "hook" /\ frames[i].ctx = n
        BY <3>1 DEF NestInv, OwnedInv, HookCalls
      <4>. QED
        BY <1>1, <1>2, <4>1
    <3>2. CASE n = c /\ frames'[m].kind = "hook"
      <4>1. m \in DOMAIN frames' /\ frames'[m].ctx = c
        BY <1>1, <1>2
      <4>. QED
        BY <3>2, <4>1
    <3>. QED
      BY <2>1, <3>1, <3>2
  <2>. QED
    BY <2>1 DEF OwnedInv, HookCalls
<1>8. PickUpInv'
  <2>1. frames'[m].ctx = c
    OBVIOUS
  <2>. QED
    BY <1>2, <2>1 DEF PickUpInv
<1>. QED
  BY <1>6, <1>7, <1>8 DEF NestInv

\* When a client may do something, no recall context waits for its hookfunc.
LEMMA NoRecallWaits ==
    ASSUME NestInv, NEW op, May(op), NEW n \in DOMAIN ctxs
    PROVE  ctxs[n].state \notin RecallStates
<1>1. frames = <<>> \/ Top.pc \in {"handler", "orig", "body"}
  BY DEF May
<1>. QED
  BY <1>1 DEF NestInv, PickUpInv

\* A hookfunc's step on its loop keeps the nesting: GetNext makes no recall context, and
\* takes none while one waits that is not its own.
LEMMA NestLoop ==
    ASSUME RegistryInv, FramesInv, NestInv, NEW sup \in BOOLEAN, LoopStepOf(sup)
    PROVE  NestInv'
<1>1. /\ frames # <<>> /\ Top.pc \in LoopPcs
      /\ \E f \in FrameType : frames' = WithTop(f) /\ SameCall(Top, f)
      /\ ctxs' = ctxs \/ (~UsesFreed(Current) /\ ctxs' = [ctxs EXCEPT ![Top.ctx] = Advanced(Current)])
  BY LoopStep DEF LoopStepOf
<1>2. StackType /\ StackType'
  BY LoopStepKeepsFrames DEF LoopStepOf, FramesInv
<1>3. /\ Len(frames) \in DOMAIN frames /\ Top = frames[Len(frames)]
      /\ Top.ctx \in DOMAIN ctxs /\ Current = ctxs[Top.ctx] /\ Current \in Context
  BY <1>1, CurrentContext
<1>4. /\ Len(frames') = Len(frames)
      /\ \A i \in DOMAIN frames : frames'[i].kind = frames[i].kind /\ frames'[i].ctx = frames[i].ctx
  <2>1. PICK f \in FrameType : frames' = WithTop(f) /\ SameCall(Top, f)
    BY <1>1
  <2>. QED
    BY <1>2, <1>3, <2>1 DEF WithTop, SameCall, StackType
<1>5. CASE ~UsesFreed(Current) /\ ctxs' = [ctxs EXCEPT ![Top.ctx] = Advanced(Current)]
  <2>1. PICK d : d = Advanced(Current)
    OBVIOUS
  <2>2. (d.state = "Ignore" <=> Current.state = "Ignore") /\ d.state \notin RecallStates
    BY <1>3, <1>5, <2>1, AdvancedContext
  <2>3. /\ Len(ctxs') = Len(ctxs)
        /\ \A n \in DOMAIN ctxs : ctxs'[n] = IF n = Top.ctx THEN d ELSE ctxs[n]
    BY <1>2, <1>5, <2>1 DEF StackType
  <2>4. \A n \in DOMAIN ctxs : ctxs'[n].state \notin RecallStates
    BY <2>2, <2>3 DEF NestInv, PickUpInv
  <2>5. \A n \in DOMAIN ctxs : ctxs[n].state = "Ignore" => ctxs'[n].state = "Ignore"
    BY <1>3, <2>2, <2>3
  <2>. QED
    BY <1>2, <1>4, <2>3, <2>4, <2>5, NestKept
<1>6. CASE Top.pc # "pre" /\ ctxs' = ctxs
  <2>1. \A n \in DOMAIN ctxs : ctxs[n].state \notin RecallStates
    BY <1>6 DEF NestInv, PickUpInv
  <2>. QED
    BY <1>2, <1>4, <1>6, <2>1, NestKept
<1>7. CASE NextHandler \/ PreLoopEnds
  BY <1>5, <1>7 DEF NextHandler, PreLoopEnds
<1>8. CASE OrigReturns \/ RecallReturns \/ HandlerReturns(sup)
  BY <1>6, <1>8 DEF OrigReturns, RecallReturns, HandlerReturns
<1>. QED
  BY <1>7, <1>8 DEF LoopStepOf

\* So does a call of a hooked function: its hookfunc takes the context of the SH_CALL
\* below or makes the next one.
LEMMA NestCall ==
    ASSUME RegistryInv, FramesInv, NestInv, NEW v \in VfnPtrs, NEW obj \in Objects, Call(v, obj)
    PROVE  NestInv'
<1>1. PICK f \in FrameType, c \in Context :
        /\ Entered(f, v) /\ frames' = Append(frames, f)
        /\ \/ /\ ctxs # <<>> /\ Last(ctxs).state = "Ignore"
              /\ c.state = "Dead" /\ f.ctx = Len(ctxs)
              /\ ctxs' = [ctxs EXCEPT ![Len(ctxs)] = c]
           \/ /\ c.state = "Born" /\ f.ctx = Len(ctxs) + 1
              /\ ctxs' = Append(ctxs, c)
  BY CallEffect
<1>2. StackType /\ StackType'
  BY CallKeepsFrames DEF FramesInv
<1>3. /\ frames \in Seq(FrameType) /\ ctxs \in Seq(Context)
      /\ Len(frames) \in Nat /\ DOMAIN frames = 1..Len(frames)
      /\ Len(ctxs) \in Nat /\ DOMAIN ctxs = 1..Len(ctxs)
  BY <1>2 DEF StackType
<1>4. PICK k \in Nat : k = Len(frames) + 1
  BY <1>3
<1>5. /\ Len(frames') = k /\ frames'[k] = f /\ \A i \in DOMAIN frames : frames'[i] = frames[i]
      /\ \A i \in DOMAIN frames' : k <= i => i = k
  BY <1>1, <1>3, <1>4
<1>6. f.kind = "hook" /\ f.ctx \in Nat
  BY <1>1 DEF Entered, FrameType
<1>7. PICK n \in Nat : n = f.ctx
  BY <1>6
<1>8. \A j \in DOMAIN ctxs : ctxs[j].state \notin RecallStates
  BY NoRecallWaits DEF Call
<1>9. /\ Len(ctxs) <= n /\ n <= Len(ctxs) + 1 /\ Len(ctxs') = n
      /\ \A j \in DOMAIN ctxs' : IF j = n THEN ctxs'[j] = c ELSE j \in DOMAIN ctxs /\ ctxs'[j] = ctxs[j]
  BY <1>1, <1>3, <1>7
<1>10. c.state \notin RecallStates
  BY <1>1 DEF RecallStates
<1>. QED
  BY <1>2, <1>4, <1>5, <1>6, <1>7, <1>8, <1>9, <1>10, NestPushed

\* And an SH_CALL, on the context it pushes itself.
LEMMA NestShCall ==
    ASSUME RegistryInv, FramesInv, NestInv, NEW v \in VfnPtrs, NEW obj \in Objects, ShCall(v, obj)
    PROVE  NestInv'
<1>1. PICK g \in FrameType, c \in Context :
        /\ g.kind = "shcall" /\ g.ctx = Len(ctxs) + 1
        /\ ctxs' = Append(ctxs, c)
        /\ \/ /\ c.state = "Ignore" /\ frames' = Append(frames, g)
           \/ \E f \in FrameType : /\ c.state = "Dead" /\ Entered(f, v) /\ f.ctx = Len(ctxs) + 1
                                   /\ frames' = Append(Append(frames, g), f)
  BY ShCallEffect
<1>2. StackType /\ StackType'
  BY ShCallKeepsFrames DEF FramesInv
<1>3. /\ frames \in Seq(FrameType) /\ ctxs \in Seq(Context)
      /\ Len(frames) \in Nat /\ DOMAIN frames = 1..Len(frames)
      /\ Len(ctxs) \in Nat /\ DOMAIN ctxs = 1..Len(ctxs)
  BY <1>2 DEF StackType
<1>4. PICK k, n \in Nat : k = Len(frames) + 1 /\ n = Len(ctxs) + 1
  BY <1>3
<1>5. \A j \in DOMAIN ctxs : ctxs[j].state \notin RecallStates
  BY NoRecallWaits DEF ShCall
<1>6. /\ Len(ctxs) <= n /\ n <= Len(ctxs) + 1 /\ Len(ctxs') = n
      /\ \A j \in DOMAIN ctxs' : IF j = n THEN ctxs'[j] = c ELSE j \in DOMAIN ctxs /\ ctxs'[j] = ctxs[j]
  BY <1>1, <1>3, <1>4
<1>7. c.state \notin RecallStates
  BY <1>1 DEF RecallStates
<1>8. CASE c.state = "Ignore" /\ frames' = Append(frames, g)
  <2>1. /\ Len(frames') = k /\ frames'[k] = g /\ \A i \in DOMAIN frames : frames'[i] = frames[i]
        /\ \A i \in DOMAIN frames' : k <= i => i = k
    BY <1>3, <1>4, <1>8
  <2>. QED
    BY <1>1, <1>2, <1>4, <1>5, <1>6, <1>7, <1>8, <2>1, NestPushed
<1>9. ASSUME NEW f \in FrameType, c.state = "Dead", Entered(f, v), f.ctx = Len(ctxs) + 1,
             frames' = Append(Append(frames, g), f)
      PROVE  NestInv'
  <2>1. PICK m \in Nat : m = k + 1
    BY <1>4
  <2>2. /\ Len(frames') = m /\ frames'[k] = g /\ frames'[m] = f
        /\ \A i \in DOMAIN frames : frames'[i] = frames[i]
        /\ \A i \in DOMAIN frames' : k <= i => i = k \/ i = m
    BY <1>3, <1>4, <1>9, <2>1
  <2>3. f.kind = "hook" /\ f.ctx = n
    BY <1>4, <1>9 DEF Entered
  <2>4. g.kind = "shcall" /\ g.ctx = n
    BY <1>1, <1>4
  <2>5. k <= m /\ m <= k + 1
    BY <1>4, <2>1
  <2>6. \A i \in DOMAIN frames' : k <= i => frames'[i].kind # "plain" /\ frames'[i].ctx = n
    BY <2>2, <2>3, <2>4
  <2>7. frames'[m].kind = "hook"
    BY <2>2, <2>3
  <2>8. \A j \in DOMAIN ctxs' : \/ j \in DOMAIN ctxs /\ (ctxs[j].state = "Ignore" => ctxs'[j].state = "Ignore")
                                \/ j = n /\ frames'[m].kind = "hook"
    BY <1>6, <2>7
  <2>9. \A j \in DOMAIN ctxs' : ctxs'[j].state \notin RecallStates
    BY <1>5, <1>6, <1>7
  <2>10. \A i \in DOMAIN frames : frames'[i].kind = frames[i].kind /\ frames'[i].ctx = frames[i].ctx
    BY <2>2
  <2>. QED
    BY <1>2, <1>4, <1>6, <2>2, <2>5, <2>6, <2>8, <2>9, <2>10, NestPushed
<1>. QED
  BY <1>1, <1>8, <1>9

\* A recall that the hookfunc of a hooked function follows: the new context is on top and
\* that hookfunc is in its pre loop.
LEMMA NestRecall ==
    ASSUME RegistryInv, FramesInv, NestInv, TimelyRecalls,
           NEW sup \in BOOLEAN, Recall(sup)
    PROVE  NestInv'
<1>1. PICK f, g \in FrameType, d \in Context, new \in Seq(Context) :
        /\ Len(new) = 1 /\ Entered(g, Top.v) /\ g.ctx = Len(ctxs) + Len(new)
        /\ SameCall(Top, f) /\ frames' = Append(WithTop(f), g)
        /\ ctxs' = [ctxs EXCEPT ![Len(ctxs)] = d] \o new
        /\ d.state = "Dead" /\ Last(ctxs).state \in HookStates
  <2>1. PICK f, g \in FrameType, d \in Context, new \in Seq(Context) : Recalled(f, g, d, new)
    BY RecallEffect
  <2>2. Last(ctxs).state \in HookStates /\ Entered(g, Top.v) /\ Len(new) = 1
    BY <2>1 DEF Recalled, TimelyRecalls
  <2>3. /\ SameCall(Top, f) /\ frames' = Append(WithTop(f), g) /\ d.state = "Dead"
        /\ ctxs' = [ctxs EXCEPT ![Len(ctxs)] = d] \o new
        /\ g.ctx = Len(ctxs) + Len(new) \/ g.kind = "plain"
    BY <2>1 DEF Recalled
  <2>4. g.kind # "plain"
    BY <2>2 DEF Entered
  <2>. QED
    BY <2>1, <2>2, <2>3, <2>4
<1>2. StackType /\ StackType'
  BY RecallKeepsFrames DEF FramesInv
<1>3. /\ frames \in Seq(FrameType) /\ ctxs \in Seq(Context)
      /\ Len(frames) \in Nat /\ DOMAIN frames = 1..Len(frames)
      /\ Len(ctxs) \in Nat /\ DOMAIN ctxs = 1..Len(ctxs)
  BY <1>2 DEF StackType
<1>4. frames # <<>> /\ ctxs # <<>>
  BY RecallEffect
<1>5. Len(frames) \in DOMAIN frames /\ Top = frames[Len(frames)] /\ Len(ctxs) \in DOMAIN ctxs /\ Last(ctxs) = ctxs[Len(ctxs)]
  BY <1>3, <1>4 DEF Top, Last
<1>6. PICK k, n \in Nat : k = Len(frames) + 1 /\ n = Len(ctxs) + 1
  BY <1>3
<1>7. PICK t : t = WithTop(f)
  OBVIOUS
<1>8. t \in Seq(FrameType) /\ Len(t) = Len(frames) /\ \A i \in DOMAIN frames : t[i] = IF i = Len(frames) THEN f ELSE frames[i]
  BY <1>3, <1>5, <1>7 DEF WithTop
<1>9. /\ Len(frames') = k /\ frames'[k] = g /\ \A i \in DOMAIN frames : frames'[i] = t[i]
      /\ \A j \in DOMAIN frames' : k <= j => j = k
  <2>1. frames' = Append(t, g)
    BY <1>1, <1>7
  <2>. QED
    BY <1>3, <1>6, <1>8, <2>1
<1>10. \A i \in DOMAIN frames : frames'[i].kind = frames[i].kind /\ frames'[i].ctx = frames[i].ctx
  BY <1>1, <1>5, <1>8, <1>9 DEF SameCall
<1>11. PICK s : s = [ctxs EXCEPT ![Len(ctxs)] = d]
  OBVIOUS
<1>12. s \in Seq(Context) /\ Len(s) = Len(ctxs) /\ \A j \in DOMAIN ctxs : s[j] = IF j = Len(ctxs) THEN d ELSE ctxs[j]
  BY <1>3, <1>5, <1>11
<1>13. /\ Len(ctxs') = n
       /\ \A j \in DOMAIN ctxs' : IF j = n THEN TRUE ELSE j \in DOMAIN ctxs /\ ctxs'[j] = s[j]
  <2>1. Len(new) = 1
    BY <1>1
  <2>2. /\ Len(ctxs') = Len(s) + Len(new)
        /\ \A i \in 1..Len(s) + Len(new) : ctxs'[i] = IF i <= Len(s) THEN s[i] ELSE new[i - Len(s)]
    <3>1. ctxs' = s \o new
      BY <1>1, <1>11
    <3>. QED
      BY <1>12, <3>1, ConcatProperties
  <2>3. DOMAIN ctxs' = 1..n
    BY <1>2, <1>3, <1>6, <1>12, <2>1, <2>2 DEF StackType
  <2>. QED
    BY <1>3, <1>6, <1>12, <2>1, <2>2, <2>3
<1>14. \A j \in DOMAIN ctxs : ctxs[j].state \notin RecallStates
  BY NoRecallWaits DEF Recall
<1>15. g.kind = "hook" /\ g.pc = "pre" /\ g.ctx = n
  BY <1>1, <1>6 DEF Entered
<1>16. ASSUME NEW j \in DOMAIN ctxs', j # n
       PROVE  /\ j \in DOMAIN ctxs /\ (ctxs[j].state = "Ignore" => ctxs'[j].state = "Ignore")
              /\ ctxs'[j].state \notin RecallStates
  <2>1. "Ignore" \notin HookStates /\ "Dead" \notin RecallStates
    BY DEF HookStates, RecallStates
  <2>. QED
    BY <1>1, <1>5, <1>12, <1>13, <1>14, <1>16, <2>1
<1>17. Len(ctxs) <= n /\ n <= Len(ctxs) + 1 /\ k <= k /\ k <= k + 1
  BY <1>3, <1>6
<1>18. \A i \in DOMAIN frames' : k <= i => frames'[i].kind # "plain" /\ frames'[i].ctx = n
  BY <1>9, <1>15
<1>19. \A j \in DOMAIN ctxs' : \/ j \in DOMAIN ctxs /\ (ctxs[j].state = "Ignore" => ctxs'[j].state = "Ignore")
                               \/ j = n /\ frames'[k].kind = "hook"
  BY <1>9, <1>15, <1>16
<1>20. \A j \in DOMAIN ctxs' : ctxs'[j].state \in RecallStates =>
           j = n /\ frames'[k].kind = "hook" /\ frames'[k].pc = "pre"
  BY <1>9, <1>15, <1>16
<1>. QED
  BY <1>2, <1>6, <1>9, <1>10, <1>13, <1>17, <1>18, <1>19, <1>20, NestPushed

\* A returning call takes its context with it, unless the hookfunc of the function it
\* called has done so.
LEMMA NestReturn ==
    ASSUME FramesInv, NestInv, HookfuncReturns \/ CalleeReturns
    PROVE  NestInv'
<1>1. /\ StackType /\ frames # <<>> /\ Len(frames) \in DOMAIN frames /\ Top = frames[Len(frames)]
      /\ Len(frames) \in Nat /\ DOMAIN frames = 1..Len(frames)
      /\ Len(ctxs) \in Nat /\ DOMAIN ctxs = 1..Len(ctxs)
      /\ \A i \in DOMAIN frames : frames[i].ctx \in Nat
      /\ CtxBelow(Len(frames) + 1) = Top.ctx
  BY Stacks, ReturnEffect DEF FramesInv
<1>2. PICK k, b \in Nat : k = Len(frames) - 1 /\ b = CtxBelow(Len(frames))
  <2>1. PICK L : L = Len(frames) /\ L \in 1..Len(frames)
    BY <1>1
  <2>2. L - 1 \in Nat /\ (L = 1 \/ L - 1 \in DOMAIN frames)
    BY <1>1, <2>1
  <2>3. CtxBelow(L) \in Nat
    BY <1>1, <2>2 DEF CtxBelow
  <2>. QED
    BY <2>1, <2>2, <2>3
<1>3. Len(ctxs) <= Top.ctx /\ Top.ctx <= 1 + b /\ Top.kind # "plain" /\ Top.ctx \in Nat
  BY <1>1, <1>2 DEF NestInv, DepthInv
<1>4. StackType' /\ Len(frames') = k /\ DOMAIN frames' = 1..k
  <2>1. StackType' /\ Len(frames') = k
    BY <1>2, ReturnEffect
  <2>. QED
    BY <2>1 DEF StackType
<1>5. \A i \in 1..k : i \in DOMAIN frames /\ frames'[i].kind = frames[i].kind /\ frames'[i].ctx = frames[i].ctx
  <2>1. \A i \in 1..Len(frames) - 1 : frames'[i].kind = frames[i].kind /\ frames'[i].ctx = frames[i].ctx
    BY ReturnEffect DEF Unthunked, SameCall
  <2>. QED
    BY <1>1, <1>2, <2>1
<1>6. \A i \in 1..k + 1 : CtxBelow(i)' = CtxBelow(i)
  <2>1. \A i \in 1..k + 1 : i = 1 \/ i - 1 \in 1..k
    OBVIOUS
  <2>. QED
    BY <1>5, <2>1 DEF CtxBelow
<1>7. \A n \in DOMAIN ctxs : ctxs[n].state \notin RecallStates
  <2>1. Top.pc = "post" \/ Top.kind # "hook"
    BY DEF HookfuncReturns, CalleeReturns
  <2>. QED
    BY <2>1 DEF NestInv, PickUpInv
<1>8. \A i \in DOMAIN frames' : frames'[i].kind # "plain" /\ frames'[i].ctx <= 1 + CtxBelow(i)'
  BY <1>1, <1>4, <1>5, <1>6 DEF NestInv, DepthInv
<1>9. CtxBelow(Len(frames) + 1)' = b
  <2>1. CtxBelow(k + 1)' = b
    BY <1>1, <1>2, <1>6
  <2>. QED
    BY <1>4, <2>1 DEF CtxBelow
<1>10. CASE /\ ctxs # <<>> /\ Len(ctxs') = Len(ctxs) - 1
            /\ Top.kind = "hook" \/ Top.kind = "shcall"
            /\ \A n \in 1..Len(ctxs) - 1 : ctxs'[n] = ctxs[n]
  <2>1. DOMAIN ctxs' = 1..Len(ctxs) - 1
    BY <1>4, <1>10 DEF StackType
  <2>2. DepthInv'
    BY <1>1, <1>3, <1>8, <1>9, <1>10 DEF DepthInv
  <2>3. ASSUME NEW n \in DOMAIN ctxs', ctxs'[n].state # "Ignore"
        PROVE  \E i \in DOMAIN frames' : frames'[i].kind = "hook" /\ frames'[i].ctx = n
    <3>1. n \in DOMAIN ctxs /\ ctxs[n].state # "Ignore" /\ n < Len(ctxs)
      BY <1>1, <1>10, <2>1, <2>3
    <3>2. PICK i \in DOMAIN frames : frames[i].kind = "hook" /\ frames[i].ctx = n
      BY <3>1 DEF NestInv, OwnedInv, HookCalls
    <3>3. i # Len(frames)
      BY <1>1, <1>3, <3>1, <3>2
    <3>4. i \in 1..k
      BY <1>1, <1>2, <3>3
    <3>. QED
      BY <1>4, <1>5, <3>2, <3>4
  <2>4. OwnedInv'
    BY <2>3 DEF OwnedInv, HookCalls
  <2>5. PickUpInv'
    BY <1>1, <1>7, <1>10, <2>1 DEF PickUpInv
  <2>. QED
    BY <2>2, <2>4, <2>5 DEF NestInv
<1>11. CASE Top.kind = "shcall" /\ (ctxs = <<>> \/ Last(ctxs).state # "Ignore") /\ ctxs' = ctxs
  <2>1. Len(ctxs) <= b
    <3>1. SUFFICES ASSUME Len(ctxs) = b + 1
                   PROVE  FALSE
      BY <1>1, <1>2, <1>3
    <3>2. ctxs # <<>> /\ Len(ctxs) \in DOMAIN ctxs /\ Last(ctxs) = ctxs[Len(ctxs)]
      BY <1>1, <3>1 DEF Last, StackType
    <3>3. PICK i \in DOMAIN frames : frames[i].kind = "hook" /\ frames[i].ctx = Len(ctxs)
      BY <1>11, <3>2 DEF NestInv, OwnedInv, HookCalls
    <3>4. i < Len(frames)
      BY <1>1, <1>11, <3>3
    <3>5. frames[i].ctx < Top.ctx
      BY <1>1, <1>11, <3>3, <3>4 DEF FramesInv, OrderInv
    <3>. QED
      BY <1>1, <1>3, <3>1, <3>3, <3>5
  <2>2. DepthInv'
    BY <1>8, <1>9, <1>11, <2>1 DEF DepthInv
  <2>3. ASSUME NEW n \in DOMAIN ctxs', ctxs'[n].state # "Ignore"
        PROVE  \E i \in DOMAIN frames' : frames'[i].kind = "hook" /\ frames'[i].ctx = n
    <3>1. PICK i \in DOMAIN frames : frames[i].kind = "hook" /\ frames[i].ctx = n
      BY <1>11, <2>3 DEF NestInv, OwnedInv, HookCalls
    <3>2. i \in 1..k
      BY <1>1, <1>2, <1>11, <3>1
    <3>. QED
      BY <1>4, <1>5, <3>1, <3>2
  <2>4. OwnedInv'
    BY <2>3 DEF OwnedInv, HookCalls
  <2>5. PickUpInv'
    BY <1>7, <1>11 DEF PickUpInv
  <2>. QED
    BY <2>2, <2>4, <2>5 DEF NestInv
<1>. QED
  BY <1>3, <1>10, <1>11, ReturnEffect

\* Removing and pausing hooks may end loops, but neither makes a recall context nor uses
\* up an SH_CALL's.
LEMMA NestRetire ==
    ASSUME RegistryInv, FramesInv, NestInv,
           \/ \E R \in SUBSET Live, M \in SUBSET HookMans : Retire(R, M)
           \/ \E h \in 1..MaxIds : PauseHook(h)
    PROVE  NestInv'
<1>1. StackType /\ \A n \in DOMAIN ctxs : ctxs[n].state = "Ignore" => ctxs[n].vfn = NoVfn
  BY DEF FramesInv, IgnoreInv
<1>2. \A n \in DOMAIN ctxs : ctxs[n].state \in RecallStates => frames # <<>> /\ Top.pc = "pre"
  BY DEF NestInv, PickUpInv
<1>3. frames # <<>> => Len(frames) \in DOMAIN frames /\ Top = frames[Len(frames)]
  BY <1>1, Stacks
<1>4. ASSUME NEW R \in SUBSET Live, NEW M \in SUBSET HookMans, Retire(R, M)
      PROVE  NestInv'
  <2>1. /\ StackType' /\ Len(ctxs') = Len(ctxs) /\ Len(frames') = Len(frames)
        /\ \A n \in DOMAIN ctxs :
              ctxs'[n].state = (IF ctxs[n].vfn \in Emptied(R) THEN "Dead" ELSE ctxs[n].state)
        /\ \A i \in DOMAIN frames :
              frames'[i].kind = frames[i].kind /\ frames'[i].ctx = frames[i].ctx /\ frames'[i].pc = frames[i].pc
    BY <1>1, <1>4, RetireStacks DEF SameCall, SameLoop
  <2>2. NoVfn \notin Emptied(R)
    BY NoneAssumption DEF Emptied
  <2>3. \A n \in DOMAIN ctxs : ctxs[n].state = "Ignore" => ctxs'[n].state = "Ignore"
    BY <1>1, <2>1, <2>2
  <2>4. \A n \in DOMAIN ctxs : ctxs'[n].state \in RecallStates =>
            ctxs[n].state \in RecallStates /\ frames'[Len(frames)].pc = "pre"
    <3>1. "Dead" \notin RecallStates
      BY DEF RecallStates
    <3>. QED
      BY <1>2, <1>3, <2>1, <3>1
  <2>. QED
    BY <1>1, <2>1, <2>3, <2>4, NestKept
<1>5. ASSUME NEW h \in 1..MaxIds, PauseHook(h)
      PROVE  NestInv'
  <2>1. /\ StackType' /\ Len(frames') = Len(frames) /\ ctxs' = ctxs
        /\ \A i \in DOMAIN frames :
              frames'[i].kind = frames[i].kind /\ frames'[i].ctx = frames[i].ctx /\ frames'[i].pc = frames[i].pc
    BY <1>5, PauseStacks DEF SameCall, SameLoop, FramesInv
  <2>. QED
    BY <1>1, <1>2, <1>3, <2>1, NestKept
<1>. QED
  BY <1>4, <1>5

\* NestInv is inductive when no recall comes late.
LEMMA NestInductive ==
    /\ Init => NestInv
    /\ TimelyRecalls /\ RegistryInv /\ FramesInv /\ NestInv /\ [Next]_vars => NestInv'
<1>1. Init => NestInv
  BY DEF Init, NestInv, DepthInv, OwnedInv, PickUpInv, CtxBelow
<1>2. NestInv /\ UNCHANGED <<frames, ctxs>> => NestInv'
  BY DEF NestInv, DepthInv, OwnedInv, PickUpInv, CtxBelow, HookCalls, Top
<1>3. ASSUME TimelyRecalls, RegistryInv, FramesInv, NestInv, Next
      PROVE  NestInv'
  <2>1. ASSUME NEW m \in HookMans, NEW handler \in Handlers, NEW l \in Sites, AddHook(m, handler, l)
        PROVE  UNCHANGED <<frames, ctxs>>
    BY <2>1 DEF AddHook
  <2>2. ASSUME \E R \in SUBSET Live : Retire(R, {}) /\ UNCHANGED <<pending, gone>>
        PROVE  \E R \in SUBSET Live, M \in SUBSET HookMans : Retire(R, M)
    BY <2>2
  <2>. QED
    BY <1>2, <1>3, <2>1, <2>2, NestLoop, NestReturn, NestCall, NestShCall, NestRecall, NestRetire, Retiring, StackSteps
<1>. QED
  BY <1>1, <1>2, <1>3 DEF vars

\* Without late recalls, NestInv always holds.
LEMMA NestAlways == TimelyRecalls => (Spec => [](FramesInv /\ NestInv))
<1>. SUFFICES ASSUME TimelyRecalls
              PROVE  Spec => [](FramesInv /\ NestInv)
  OBVIOUS
<1>1. Init => RegistryInv /\ FramesInv /\ NestInv
  BY RegistryInductive, FramesInductive, NestInductive
<1>2. RegistryInv /\ FramesInv /\ NestInv /\ [Next]_vars => (RegistryInv /\ FramesInv /\ NestInv)'
  BY RegistryInductive, FramesInductive, NestInductive
<1>. QED
  BY <1>1, <1>2, PTL DEF Spec

\* As long as a handler only recalls while its function is hooked, the context stack is
\* as deep as the call on top needs and its contexts nest as the calls do, across
\* recalls, SH_CALLs and unloads (DoRecall, EndContext).
THEOREM CallsNest == TimelyRecalls => (Spec => []ContextsNest)
<1>1. FramesInv /\ NestInv => ContextsNest
  <2>1. SUFFICES ASSUME FramesInv, NestInv
                 PROVE  ContextsNest
    OBVIOUS
  <2>2. /\ Len(ctxs) \in Nat /\ (ctxs # <<>> <=> Len(ctxs) # 0)
        /\ Len(ctxs) <= (IF frames = <<>> THEN 0 ELSE Top.ctx)
        /\ frames # <<>> => Len(frames) \in DOMAIN frames /\ Top = frames[Len(frames)]
    BY <2>1, Stacks DEF FramesInv, StackType, NestInv, DepthInv
  <2>3. frames # <<>> /\ Top.kind = "hook" => Top.ctx \in 1..Len(ctxs)
    BY <2>1, <2>2 DEF FramesInv, Running
  <2>. QED
    BY <2>2, <2>3 DEF ContextsNest
<1>. QED
  BY <1>1, NestAlways, PTL

\* Under the same condition the context that a recall pushes is found by the hookfunc it
\* is for and by no other call (the second case of SetupHookLoop).
THEOREM RecallsFindTheirCall == TimelyRecalls => (Spec => []RecallsArePickedUp)
<1>1. FramesInv /\ NestInv => RecallsArePickedUp
  <2>1. FramesInv /\ ctxs # <<>> => Len(ctxs) \in DOMAIN ctxs /\ Last(ctxs) = ctxs[Len(ctxs)]
    BY DEF FramesInv, StackType, Last
  <2>. QED
    BY <2>1 DEF NestInv, PickUpInv, RecallsArePickedUp
<1>. QED
  BY <1>1, NestAlways, PTL

-----------------------------------------------------------------------------
(* No running loop follows a pointer into freed memory *)

\* A context in use has an entry, and its pointer to an interface and its iterator are
\* good or not going to be followed: hs are the hook lists.
Sound(c, hs) ==
    InUse(c) =>
        /\ c.vfn # NoVfn
        /\ c.iface # "freed"
        /\ c.iface = "set" => HasIface(hs, c.vfn, c.obj)
        /\ c.iter = Dangling /\ c.state \in HookStates \union RecallStates =>
              ~HasIface(hs, c.vfn, ListKey(c)[2])
SoundInv == \A n \in DOMAIN ctxs : Sound(ctxs[n], hooks)

\* An interface has hooks in its pre or in its post list.
LEMMA HasIfaceMeans ==
    ASSUME NEW hs, NEW v, NEW i,
           hs[<<v, i, FALSE>>] \in Seq(1..MaxIds), hs[<<v, i, TRUE>>] \in Seq(1..MaxIds)
    PROVE  HasIface(hs, v, i) <=> \E b \in BOOLEAN : hs[<<v, i, b>>] # <<>>
<1>1. PICK s, t \in Seq(1..MaxIds) : s = hs[<<v, i, FALSE>>] /\ t = hs[<<v, i, TRUE>>]
  OBVIOUS
<1>2. s \o t # <<>> <=> s # <<>> \/ t # <<>>
  <2>1. Len(s \o t) = Len(s) + Len(t) /\ s \o t \in Seq(1..MaxIds)
    BY ConcatProperties
  <2>. QED
    BY <2>1
<1>. QED
  BY <1>1, <1>2 DEF HasIface

\* Removing hooks gives no interface hooks, and adding one takes none away.
LEMMA LeftHasIface ==
    ASSUME RegistryInv, NEW v \in VfnPtrs, NEW i \in Ifaces, NEW R, HasIface(Left(R), v, i)
    PROVE  HasIface(hooks, v, i)
<1>1. ASSUME NEW b \in BOOLEAN
      PROVE  /\ hooks[<<v, i, b>>] \in Seq(1..MaxIds) /\ Left(R)[<<v, i, b>>] \in Seq(1..MaxIds)
             /\ Left(R)[<<v, i, b>>] # <<>> => hooks[<<v, i, b>>] # <<>>
  <2>1. <<v, i, b>> \in Lists /\ hooks[<<v, i, b>>] \in Seq(1..MaxIds)
    BY ListsAreLive DEF Lists
  <2>2. PICK s \in Seq(1..MaxIds) : s = hooks[<<v, i, b>>]
    BY <2>1
  <2>3. Left(R)[<<v, i, b>>] = Without(s, R)
    BY <2>1, <2>2 DEF Left
  <2>4. Without(s, R) \in Seq(1..MaxIds) /\ Elements(Without(s, R)) = Elements(s) \ R
    BY WithoutIsSublist
  <2>5. Without(s, R) # <<>> => s # <<>>
    BY <2>4, EmptyElements
  <2>. QED
    BY <2>1, <2>2, <2>3, <2>4, <2>5
<1>. QED
  BY <1>1, HasIfaceMeans

\* A hook that was added keeps the interface pointers that were there.
LEMMA AddedHasIface ==
    ASSUME RegistryInv, RegistryInv', NEW l \in Lists, NEW id, hooks' = [hooks EXCEPT ![l] = Append(@, id)],
           NEW v \in VfnPtrs, NEW i \in Ifaces, HasIface(hooks, v, i)
    PROVE  HasIface(hooks', v, i)
<1>1. PICK hs : hs = hooks'
  OBVIOUS
<1>2. hs \in [Lists -> Seq(1..MaxIds)] /\ hooks \in [Lists -> Seq(1..MaxIds)]
  BY <1>1 DEF RegistryInv
<1>3. ASSUME NEW b \in BOOLEAN
      PROVE  /\ hooks[<<v, i, b>>] \in Seq(1..MaxIds) /\ hs[<<v, i, b>>] \in Seq(1..MaxIds)
             /\ hooks[<<v, i, b>>] # <<>> => hs[<<v, i, b>>] # <<>>
  <2>1. PICK k \in Lists : k = <<v, i, b>>
    BY DEF Lists
  <2>2. hooks[k] \in Seq(1..MaxIds) /\ hs[k] \in Seq(1..MaxIds)
    BY <1>2
  <2>3. hs[k] = hooks[k] \/ hs[k] = Append(hooks[k], id)
    BY <1>1, <1>2
  <2>4. hooks[k] # <<>> => hs[k] # <<>>
    BY <2>2, <2>3
  <2>. QED
    BY <2>1, <2>2, <2>4
<1>4. HasIface(hs, v, i)
  BY <1>3, HasIfaceMeans
<1>. QED
  BY <1>1, <1>4

\* HookRemoved, IfaceRemoved and VfnPtrRemoved leave every context sound.
LEMMA NotifiedIsSound ==
    ASSUME RegistryInv, NEW c \in Context, Sound(c, hooks), NEW R, NEW W
    PROVE  Sound(Notified(c, R, W, Left(R)), Left(R))
<1>1. c.vfn \in VfnPtrs \union {NoVfn} /\ c.obj \in Ifaces
  BY DEF Context, Ifaces
<1>2. CASE c.vfn = NoVfn
  <2>1. Notified(c, R, W, Left(R)) = c /\ ~InUse(c)
    BY <1>2 DEF Notified, Sound
  <2>. QED
    BY <2>1 DEF Sound
<1>3. CASE c.vfn # NoVfn /\ c.vfn \in W
  <2>1. Notified(c, R, W, Left(R)).state = "Dead"
    BY <1>3, NotifiedContext
  <2>. QED
    BY <2>1 DEF Sound, InUse
<1>4. CASE c.vfn # NoVfn /\ c.vfn \notin W
  <2>1. PICK key : key = ListKey(c)
    OBVIOUS
  <2>2. key[2] \in Ifaces
    BY <1>1, <2>1 DEF ListKey, Ifaces
  <2>. DEFINE walks == c.state \in HookStates \union RecallStates /\ c.vfn # NoVfn
              LostIface(i) == HasIface(hooks, c.vfn, i) /\ ~HasIface(Left(R), c.vfn, i)
  <2>3. PICK x, i : /\ x = (IF c.iface = "set" /\ LostIface(c.obj) THEN "null" ELSE c.iface)
                    /\ i = (IF ~walks THEN c.iter
                            ELSE IF LostIface(key[2]) THEN Dangling
                            ELSE IF c.iter \in R THEN SteppedBack(hooks[key], c.iter, R)
                            ELSE c.iter)
    OBVIOUS
  <2>4. PICK d : d = [c EXCEPT !.iface = x, !.iter = i]
    OBVIOUS
  <2>5. Notified(c, R, W, Left(R)) = d
    BY <1>4, <2>1, <2>3, <2>4 DEF Notified
  <2>6. d.vfn = c.vfn /\ d.obj = c.obj /\ d.state = c.state /\ d.iface = x /\ d.iter = i
    BY <2>4 DEF Context
  <2>7. ListKey(d) = key /\ (InUse(d) <=> InUse(c))
    BY <2>1, <2>6 DEF ListKey, InUse
  <2>8. hooks[key] \in Seq(1..MaxIds)
    <3>1. PICK j, b : /\ j = (IF c.state \in {"Pre", "Post", "Recall_Pre", "Recall_Post"} THEN c.obj ELSE VP)
                      /\ b = (c.state \in {"Post", "PostVP", "Recall_Post", "Recall_PostVP"})
      OBVIOUS
    <3>2. key = <<c.vfn, j, b>>
      BY <2>1, <3>1 DEF ListKey
    <3>3. j \in Ifaces /\ b \in BOOLEAN
      BY <1>1, <3>1 DEF Ifaces
    <3>. QED
      BY <1>1, <1>4, <3>2, <3>3, ListsAreLive
  <2>9. SteppedBack(hooks[key], c.iter, R) # Dangling
    BY <2>8, SteppedBackHook
  <2>10. SUFFICES ASSUME InUse(c)
                  PROVE  Sound(d, Left(R))
    BY <2>5, <2>7 DEF Sound
  <2>11. /\ c.iface # "freed" /\ (c.iface = "set" => HasIface(hooks, c.vfn, c.obj))
         /\ c.iter = Dangling /\ walks => ~HasIface(hooks, c.vfn, key[2])
    BY <2>1, <2>10 DEF Sound
  <2>12. x # "freed" /\ (x = "set" => HasIface(Left(R), c.vfn, c.obj))
    BY <2>3, <2>11
  <2>13. i = Dangling /\ walks => ~HasIface(Left(R), c.vfn, key[2])
    <3>1. HasIface(Left(R), c.vfn, key[2]) => HasIface(hooks, c.vfn, key[2])
      BY <1>1, <1>4, <2>2, LeftHasIface
    <3>. QED
      BY <2>3, <2>9, <2>11, <3>1
  <2>. QED
    BY <1>4, <2>6, <2>7, <2>12, <2>13 DEF Sound
<1>. QED
  BY <1>1, <1>2, <1>3, <1>4

\* A step of a hook loop keeps the contexts sound.
LEMMA SoundLoop ==
    ASSUME RegistryInv, FramesInv, SoundInv, NEW sup \in BOOLEAN, LoopStepOf(sup)
    PROVE  SoundInv'
<1>1. /\ frames # <<>> /\ Top.pc \in LoopPcs /\ hooks' = hooks
      /\ ctxs' = ctxs \/ (~UsesFreed(Current) /\ ctxs' = [ctxs EXCEPT ![Top.ctx] = Advanced(Current)])
  BY LoopStep DEF LoopStepOf
<1>2. Top.ctx \in DOMAIN ctxs /\ Current = ctxs[Top.ctx] /\ Current \in Context /\ ctxs \in Seq(Context)
  BY <1>1, CurrentContext DEF FramesInv, StackType
<1>3. CASE ctxs' = ctxs
  BY <1>1, <1>3 DEF SoundInv
<1>4. CASE ~UsesFreed(Current) /\ ctxs' = [ctxs EXCEPT ![Top.ctx] = Advanced(Current)]
  <2>1. PICK c, d : c = Current /\ d = Advanced(c)
    OBVIOUS
  <2>2. Sound(c, hooks)
    BY <1>2, <2>1 DEF SoundInv
  <2>3. /\ d.vfn = c.vfn /\ d.obj = c.obj /\ d.iface = c.iface
        /\ InUse(d) => InUse(c)
        /\ InUse(d) => \/ d.iter # Dangling
                       \/ d.iter = c.iter /\ ListKey(d) = ListKey(c) /\ c.state \in RecallStates
    BY <1>2, <1>4, <2>1, AdvancedContext
  <2>4. Sound(d, hooks)
    BY <2>2, <2>3 DEF Sound
  <2>5. \A n \in DOMAIN ctxs' : n \in DOMAIN ctxs /\ ctxs'[n] = IF n = Top.ctx THEN d ELSE ctxs[n]
    BY <1>2, <1>4, <2>1
  <2>. QED
    BY <1>1, <2>4, <2>5 DEF SoundInv
<1>. QED
  BY <1>1, <1>3, <1>4

\* So does a return, which only pops contexts.
LEMMA SoundReturn ==
    ASSUME FramesInv, SoundInv, HookfuncReturns \/ CalleeReturns
    PROVE  SoundInv'
<1>1. /\ StackType' /\ hooks' = hooks
      /\ \/ /\ ctxs # <<>> /\ Len(ctxs') = Len(ctxs) - 1
            /\ \A n \in 1..Len(ctxs) - 1 : ctxs'[n] = ctxs[n]
         \/ ctxs' = ctxs
  BY ReturnEffect
<1>2. Len(ctxs) \in Nat /\ DOMAIN ctxs = 1..Len(ctxs) /\ DOMAIN ctxs' = 1..Len(ctxs')
  BY <1>1 DEF FramesInv, StackType
<1>3. \A n \in DOMAIN ctxs' : n \in DOMAIN ctxs /\ ctxs'[n] = ctxs[n]
  <2>1. CASE Len(ctxs') = Len(ctxs) - 1 /\ \A n \in 1..Len(ctxs) - 1 : ctxs'[n] = ctxs[n]
    BY <1>2, <2>1
  <2>2. CASE ctxs' = ctxs
    BY <2>2
  <2>. QED
    BY <1>1, <2>1, <2>2
<1>. QED
  BY <1>1, <1>3 DEF SoundInv

\* And a call, whose new context has no position yet.
LEMMA SoundCall ==
    ASSUME RegistryInv, FramesInv, SoundInv, NEW v \in VfnPtrs, NEW obj \in Objects, Call(v, obj) \/ ShCall(v, obj)
    PROVE  SoundInv'
<1>1. /\ hooks' = hooks
      /\ \E c \in Context : /\ ~InUse(c) \/ c = NewCtx("Born", v, obj)
                            /\ ctxs' = [ctxs EXCEPT ![Len(ctxs)] = c] \/ ctxs' = Append(ctxs, c)
  <2>1. CASE Call(v, obj)
    BY <2>1, CallEffect DEF InUse
  <2>2. CASE ShCall(v, obj)
    BY <2>2, ShCallEffect DEF InUse
  <2>. QED
    BY <2>1, <2>2
<1>2. PICK c \in Context : /\ ~InUse(c) \/ c = NewCtx("Born", v, obj)
                           /\ ctxs' = [ctxs EXCEPT ![Len(ctxs)] = c] \/ ctxs' = Append(ctxs, c)
  BY <1>1
<1>3. Sound(c, hooks)
  <2>1. CASE ~InUse(c)
    BY <2>1 DEF Sound
  <2>2. CASE c = NewCtx("Born", v, obj)
    <3>1. /\ c.vfn = v /\ c.obj = obj /\ c.iter = AtStart
          /\ c.iface \in {"set", "null"}
          /\ c.iface = "set" <=> v # NoVfn /\ HasIface(hooks, v, obj)
      <4>1. "Born" \in ContextStates
        BY DEF ContextStates
      <4>. QED
        BY <2>2, <4>1, NewContext
    <3>. QED
      BY <3>1, NoneAssumption DEF Sound, AtStart, Dangling
  <2>. QED
    BY <1>2, <2>1, <2>2
<1>4. ctxs \in Seq(Context)
  BY DEF FramesInv, StackType
<1>5. \A n \in DOMAIN ctxs' : ctxs'[n] = c \/ (n \in DOMAIN ctxs /\ ctxs'[n] = ctxs[n])
  BY <1>2, <1>4
<1>. QED
  BY <1>1, <1>3, <1>5 DEF SoundInv

\* The context of a recall continues the loop of the one below it.
LEMMA SoundRecall ==
    ASSUME RegistryInv, FramesInv, NestInv, SoundInv, TimelyRecalls,
           NEW sup \in BOOLEAN, Recall(sup)
    PROVE  SoundInv'
<1>1. PICK d \in Context, new \in Seq(Context) :
        /\ d.state = "Dead"
        /\ ctxs' = [ctxs EXCEPT ![Len(ctxs)] = d] \o new
        /\ Last(ctxs).state \in HookStates /\ Len(new) = 1
        /\ Last(new).vfn = Top.v
        /\ new[1].state = RecallOf[Last(ctxs).state]
        /\ new[1].obj = Last(ctxs).obj /\ new[1].iter = Last(ctxs).iter
        /\ new[1].iface \in {"set", "null"}
        /\ new[1].iface = "set" <=> HasIface(hooks, Top.v, Last(ctxs).obj)
  <2>1. PICK f, g \in FrameType, d \in Context, new \in Seq(Context) : Recalled(f, g, d, new)
    BY RecallEffect
  <2>2. d.state = "Dead" /\ ctxs' = [ctxs EXCEPT ![Len(ctxs)] = d] \o new
    BY <2>1 DEF Recalled
  <2>3. /\ Last(ctxs).state \in HookStates /\ Entered(g, Top.v) /\ Len(new) = 1
        /\ new[1].state = RecallOf[Last(ctxs).state]
        /\ new[1].obj = Last(ctxs).obj /\ new[1].iter = Last(ctxs).iter
        /\ new[1].iface \in {"set", "null"}
        /\ new[1].iface = "set" <=> HasIface(hooks, Top.v, Last(ctxs).obj)
    BY <2>1 DEF Recalled, TimelyRecalls
  <2>4. g.kind # "plain"
    BY <2>3 DEF Entered
  <2>5. Last(new).vfn = Top.v
    BY <2>1, <2>4 DEF Recalled
  <2>. QED
    BY <2>1, <2>2, <2>3, <2>5
<1>2. /\ frames # <<>> /\ Top.pc = "handler" /\ ctxs # <<>> /\ hooks' = hooks
  BY RecallEffect
<1>3. /\ ctxs \in Seq(Context) /\ Len(ctxs) \in Nat /\ DOMAIN ctxs = 1..Len(ctxs)
      /\ Len(ctxs) \in DOMAIN ctxs /\ Last(ctxs) = ctxs[Len(ctxs)]
  BY <1>2 DEF FramesInv, StackType, Last
<1>4. PICK c \in Context : c = Last(ctxs)
  BY <1>3
<1>5. Top.kind = "hook" /\ Running(Top) /\ Top.v \in VfnPtrs
  BY <1>2, CurrentContext DEF LoopPcs, FrameType
<1>6. Top.ctx = Len(ctxs)
  <2>1. Len(ctxs) <= Top.ctx
    BY <1>2, Stacks DEF FramesInv, NestInv, DepthInv
  <2>. QED
    BY <1>3, <1>5, <2>1 DEF Running
<1>7. Sound(c, hooks) /\ InUse(c) /\ c.state \in HookStates
  BY <1>1, <1>3, <1>4 DEF SoundInv, InUse, HookStates
<1>8. c.vfn = Top.v
  BY <1>3, <1>4, <1>5, <1>6, <1>7 DEF Running, Sound
<1>9. PICK e \in Context : e = new[1] /\ e = Last(new)
  <2>1. PICK s \in Seq(Context) : s = new /\ Len(s) = 1
    BY <1>1
  <2>2. s # <<>>
    BY <2>1
  <2>3. Last(s) \in Context
    BY <2>2, FrontElements
  <2>4. Last(s) = s[1]
    BY <2>1 DEF Last
  <2>. QED
    BY <2>1, <2>3, <2>4
<1>10. /\ e.vfn = c.vfn /\ e.obj = c.obj /\ e.iter = c.iter /\ e.state = RecallOf[c.state]
       /\ e.iface \in {"set", "null"}
       /\ e.iface = "set" <=> HasIface(hooks, c.vfn, c.obj)
  BY <1>1, <1>4, <1>8, <1>9
<1>11. ListKey(e) = ListKey(c)
  BY <1>7, <1>10 DEF ListKey, RecallOf, HookStates
<1>12. Sound(e, hooks)
  BY <1>7, <1>10, <1>11 DEF Sound
<1>13. Sound(d, hooks)
  BY <1>1 DEF Sound, InUse
<1>14. ASSUME NEW n \in DOMAIN ctxs'
       PROVE  ctxs'[n] = e \/ ctxs'[n] = d \/ (n \in DOMAIN ctxs /\ ctxs'[n] = ctxs[n])
  <2>1. PICK s : s = [ctxs EXCEPT ![Len(ctxs)] = d]
    OBVIOUS
  <2>2. s \in Seq(Context) /\ Len(s) = Len(ctxs) /\ \A j \in DOMAIN ctxs : s[j] = IF j = Len(ctxs) THEN d ELSE ctxs[j]
    BY <1>3, <2>1
  <2>3. /\ ctxs' \in Seq(Context) /\ Len(ctxs') = Len(s) + Len(new)
        /\ \A i \in 1..Len(s) + Len(new) : ctxs'[i] = IF i <= Len(s) THEN s[i] ELSE new[i - Len(s)]
    <3>1. ctxs' = s \o new
      BY <1>1, <2>1
    <3>. QED
      BY <2>2, <3>1, ConcatProperties
  <2>4. Len(new) = 1
    BY <1>1
  <2>5. n \in 1..Len(ctxs) + 1
    BY <1>3, <2>2, <2>3, <2>4
  <2>6. CASE n <= Len(ctxs)
    BY <1>3, <2>2, <2>3, <2>4, <2>5, <2>6
  <2>7. CASE n = Len(ctxs) + 1
    <3>1. n - Len(s) = 1
      BY <1>3, <2>2, <2>7
    <3>2. ctxs'[n] = new[1]
      BY <1>3, <2>2, <2>3, <2>4, <2>5, <2>7, <3>1
    <3>. QED
      BY <1>9, <3>2
  <2>. QED
    BY <1>3, <2>5, <2>6, <2>7
<1>. QED
  BY <1>2, <1>12, <1>13, <1>14 DEF SoundInv

\* Removing hooks, with managers that leave no entry with hooks and without a manager.
LEMMA SoundRetire ==
    ASSUME RegistryInv, FramesInv, SoundInv,
           NEW R \in SUBSET Live, NEW M \in SUBSET HookMans, Retire(R, M), Unserved(R, M) = {}
    PROVE  SoundInv'
<1>1. /\ hooks' = Left(R)
      /\ ctxs' = [n \in DOMAIN ctxs |-> Orphaned(Notified(ctxs[n], R, Emptied(R), Left(R)), {})]
  <2>1. /\ hooks' = [l \in Lists |-> IF l[1] \in Unserved(R, M) THEN <<>> ELSE Left(R)[l]]
        /\ ctxs' = [i \in DOMAIN ctxs |->
                      Orphaned(Notified(ctxs[i], R, Emptied(R), Left(R)), Unserved(R, M))]
    BY RetireEffect
  <2>2. [l \in Lists |-> Left(R)[l]] = Left(R)
    BY DEF Left
  <2>. QED
    BY <2>1, <2>2
<1>2. ASSUME NEW n \in DOMAIN ctxs'
      PROVE  Sound(ctxs'[n], Left(R))
  <2>1. n \in DOMAIN ctxs /\ ctxs'[n] = Notified(ctxs[n], R, Emptied(R), Left(R))
    BY <1>1 DEF Orphaned
  <2>2. ctxs[n] \in Context /\ Sound(ctxs[n], hooks)
    BY <2>1 DEF FramesInv, StackType, SoundInv
  <2>. QED
    BY <2>1, <2>2, NotifiedIsSound
<1>. QED
  BY <1>1, <1>2 DEF SoundInv

\* Adding a hook while no context has lost the list it walks.
LEMMA SoundAdd ==
    ASSUME RegistryInv, FramesInv, SoundInv, RegistryInv', "re-add" \notin HandlerOps,
           NEW m \in HookMans, NEW handler \in Handlers, NEW l \in Sites, AddHook(m, handler, l)
    PROVE  SoundInv'
<1>1. /\ hooks' = [hooks EXCEPT ![l] = Append(@, Ids!NextId(entries))] /\ ctxs' = ctxs
      /\ \A n \in DOMAIN ctxs : ctxs[n].iter # Dangling
  BY DEF AddHook
<1>2. l \in Lists
  BY SiteAssumption
<1>3. PICK hs : hs = hooks'
  OBVIOUS
<1>4. ASSUME NEW n \in DOMAIN ctxs
      PROVE  Sound(ctxs[n], hs)
  <2>1. PICK c \in Context : c = ctxs[n]
    BY DEF FramesInv, StackType
  <2>2. SUFFICES ASSUME InUse(c)
                 PROVE  Sound(c, hs)
    BY <2>1 DEF Sound
  <2>3. c.vfn \in VfnPtrs /\ c.obj \in Ifaces
    BY <2>1, <2>2 DEF SoundInv, Sound, Context, Ifaces
  <2>4. HasIface(hooks, c.vfn, c.obj) => HasIface(hs, c.vfn, c.obj)
    BY <1>1, <1>2, <1>3, <2>3, AddedHasIface
  <2>. QED
    BY <1>1, <2>1, <2>2, <2>4 DEF SoundInv, Sound
<1>. QED
  BY <1>1, <1>3, <1>4 DEF SoundInv

\* Every plugin with hooks on an entry has a manager there, until it takes one away.
OwnManager ==
    \A h \in Live : \E m \in Elements(hm.mans[entries[h].vfnptr]) : OwnerOf[m] = entries[h].plug

\* Removing hooks and managers leaves it so if no plugin keeps a hook and loses a manager,
\* and then the entries lose their last manager with their last hook.
LEMMA RetireOwnManagers ==
    ASSUME RegistryInv, KnownInv, OwnManager,
           NEW R \in SUBSET Live, NEW M \in SUBSET HookMans, Retire(R, M),
           \A h \in Live \ R, m \in M : OwnerOf[m] # entries[h].plug
    PROVE  OwnManager' /\ Unserved(R, M) = {}
<1>1. Unserved(R, M) = {}
  <2>1. SUFFICES ASSUME NEW v \in VfnPtrs, v \notin Emptied(R), Elements(hm.mans[v]) # {},
                        Elements(hm.mans[v]) \subseteq M
                 PROVE  FALSE
    BY DEF Unserved
  <2>2. PICK h \in Live \ R : entries[h].vfnptr = v
    BY <2>1 DEF RegistryInv, Emptied, HooksOn
  <2>3. PICK m \in Elements(hm.mans[v]) : OwnerOf[m] = entries[h].plug
    BY <2>2 DEF OwnManager
  <2>. QED
    BY <2>1, <2>2, <2>3
<1>2. ASSUME NEW h \in Live'
      PROVE  \E m \in Elements(hm'.mans[entries'[h].vfnptr]) : OwnerOf[m] = entries'[h].plug
  <2>1. h \in Live \ R /\ entries'[h] = entries[h]
    BY RetireKeepsOwners
  <2>2. PICK v \in VfnPtrs : v = entries[h].vfnptr
    BY <2>1, LiveEntries DEF RegistryInv, Ids!Info
  <2>3. PICK m \in Elements(hm.mans[v]) : OwnerOf[m] = entries[h].plug
    BY <2>1, <2>2 DEF OwnManager
  <2>4. v \notin Emptied(R) /\ m \notin M
    BY <2>1, <2>2, <2>3 DEF Emptied, HooksOn
  <2>5. Mans!Drop(Emptied(R), M) /\ Emptied(R) \in SUBSET VfnPtrs
    BY RetireEffect DEF Emptied
  <2>6. \A w \in VfnPtrs : Elements(hm'.mans[w]) = IF w \in Emptied(R) THEN {} ELSE Elements(hm.mans[w]) \ M
    BY <2>5, Dropping DEF RegistryInv
  <2>. QED
    BY <2>1, <2>2, <2>3, <2>4, <2>6
<1>. QED
  BY <1>1, <1>2 DEF OwnManager

\* A hook is added together with a manager of its plugin.
LEMMA AddOwnManager ==
    ASSUME RegistryInv, OwnManager,
           NEW m \in HookMans, NEW handler \in Handlers, NEW l \in Sites, AddHook(m, handler, l)
    PROVE  OwnManager'
<1>. DEFINE info == [vfnptr |-> l[1], iface |-> l[2], plug |-> OwnerOf[m], handler |-> handler, post |-> l[3]]
<1>1. info \in Ids!Info /\ info.vfnptr = l[1] /\ info.plug = OwnerOf[m] /\ l[1] \in VfnPtrs
  BY SiteAssumption, OwnerAssumption DEF Ids!Info, Lists
<1>2. PICK id : id = Ids!NextId(entries)
  OBVIOUS
<1>3. Ids!New(info) /\ Mans!Offer(l[1], m)
  BY DEF AddHook
<1>. HIDE DEF info
<1>4. Live' = Live \union {id} /\ entries'[id] = info /\ \A h \in Live : entries'[h] = entries[h]
  BY <1>1, <1>2, <1>3, Adding DEF RegistryInv
<1>5. /\ Elements(hm'.mans[l[1]]) = Elements(hm.mans[l[1]]) \union {m}
      /\ \A w \in VfnPtrs \ {l[1]} : hm'.mans[w] = hm.mans[w]
  BY <1>1, <1>3, Offering DEF RegistryInv
<1>6. ASSUME NEW h \in Live'
      PROVE  \E o \in Elements(hm'.mans[entries'[h].vfnptr]) : OwnerOf[o] = entries'[h].plug
  <2>1. CASE h = id
    BY <1>1, <1>4, <1>5, <2>1
  <2>2. CASE h \in Live
    <3>1. PICK v \in VfnPtrs : v = entries[h].vfnptr
      BY <2>2, LiveEntries DEF RegistryInv, Ids!Info
    <3>2. PICK o \in Elements(hm.mans[v]) : OwnerOf[o] = entries[h].plug
      BY <2>2, <3>1 DEF OwnManager
    <3>3. o \in Elements(hm'.mans[v])
      BY <1>5, <3>1, <3>2
    <3>. QED
      BY <1>4, <2>2, <3>1, <3>2, <3>3
  <2>. QED
    BY <1>4, <2>1, <2>2
<1>. QED
  BY <1>6 DEF OwnManager

\* Hook managers are removed while no call is running, and either never or by a game in
\* which no plugin is unloaded while one is.
Removes == "remove manager" \in IdleOps
UnloadsInCalls == "unload" \in HandlerOps \union BodyOps
PoliteRemovals ==
    /\ "remove manager" \notin HandlerOps \union BodyOps
    /\ Removes => ~UnloadsInCalls
NoReAdds == "re-add" \notin HandlerOps

\* OwnManager is inductive when hook managers are removed, if at all, politely.
LEMMA OwnManagerInductive ==
    /\ Init => OwnManager
    /\ PoliteRemovals /\ ~Removes /\ RegistryInv /\ KnownInv /\ OwnManager /\ [Next]_vars => OwnManager'
<1>1. Init => OwnManager
  <2>1. Init => Live = {}
    BY DEF Init, Live, Ids!IdInit, Ids!LiveIds, Ids!LiveIdsOf
  <2>. QED
    BY <2>1 DEF OwnManager
<1>2. OwnManager /\ UNCHANGED <<entries, hm>> => OwnManager'
  BY DEF OwnManager, Live, Ids!LiveIds, Ids!LiveIdsOf
<1>3. ASSUME PoliteRemovals, ~Removes, RegistryInv, KnownInv, OwnManager, Next
      PROVE  OwnManager'
  <2>1. ASSUME NEW R \in SUBSET Live, Retire(R, {})
        PROVE  OwnManager'
    <3>1. {} \in SUBSET HookMans
      OBVIOUS
    <3>. QED
      BY <1>3, <2>1, <3>1, RetireOwnManagers
  <2>2. ASSUME NEW p \in Plugins, UnloadPlugin(p)
        PROVE  OwnManager'
    <3>1. PICK R, M : R = Ids!HooksOfPlugin(entries, p) /\ M = ManagersOf(p)
      OBVIOUS
    <3>2. R \in SUBSET Live /\ M \in SUBSET HookMans /\ Retire(R, M)
      BY <1>3, <2>2, <3>1, UnloadRetires DEF UnloadPlugin
    <3>3. \A h \in Live \ R, m \in M : OwnerOf[m] # entries[h].plug
      BY <3>1 DEF ManagersOf, Ids!HooksOfPlugin, Live, Ids!LiveIds
    <3>. QED
      BY <1>3, <3>2, <3>3, RetireOwnManagers
  <2>3. ASSUME NEW m \in HookMans, RemoveHookManager(m)
        PROVE  FALSE
    BY <1>3, <2>3 DEF RemoveHookManager, May, PoliteRemovals, Removes
  <2>4. ASSUME NEW v \in VfnPtrs, NEW obj \in Objects, Call(v, obj) \/ ShCall(v, obj)
        PROVE  UNCHANGED <<entries, hm>>
    BY <2>4 DEF Call, ShCall
  <2>5. ASSUME NEW sup \in BOOLEAN, LoopStepOf(sup) \/ HookfuncReturns \/ CalleeReturns \/ Recall(sup)
        PROVE  UNCHANGED <<entries, hm>>
    BY <2>5 DEF LoopStepOf, NextHandler, PreLoopEnds, OrigReturns, RecallReturns, HandlerReturns,
                HookfuncReturns, CalleeReturns, Recall
  <2>6. ASSUME NEW h \in 1..MaxIds, PauseHook(h)
        PROVE  UNCHANGED <<entries, hm>>
    BY <2>6 DEF PauseHook
  <2>. QED
    BY <1>2, <1>3, <2>1, <2>2, <2>3, <2>4, <2>5, <2>6, AddOwnManager, StackSteps
<1>. QED
  BY <1>1, <1>2, <1>3 DEF vars

\* SoundInv is inductive when nothing is added in the place of what was removed, no
\* recall comes late, and hook managers are removed politely.
LEMMA SoundInductive ==
    /\ Init => SoundInv
    /\ TimelyRecalls /\ NoReAdds /\ PoliteRemovals
         /\ RegistryInv /\ RegistryInv' /\ KnownInv /\ FramesInv /\ NestInv /\ (Removes \/ OwnManager) /\ SoundInv
         /\ [Next]_vars => SoundInv'
<1>1. Init => SoundInv
  BY DEF Init, SoundInv
<1>2. SoundInv /\ UNCHANGED <<ctxs, hooks>> => SoundInv'
  BY DEF SoundInv
<1>3. ASSUME TimelyRecalls, NoReAdds, PoliteRemovals,
             RegistryInv, RegistryInv', KnownInv, FramesInv, NestInv, Removes \/ OwnManager, SoundInv, Next
      PROVE  SoundInv'
  <2>1. ASSUME NEW R \in SUBSET Live, NEW M \in SUBSET HookMans, Retire(R, M), frames = <<>>
        PROVE  SoundInv'
    <3>1. DOMAIN ctxs = {}
      <4>1. Len(ctxs) <= 0
        BY <1>3, <2>1, Stacks DEF FramesInv, NestInv, DepthInv
      <4>. QED
        BY <1>3, <4>1 DEF FramesInv, StackType
    <3>2. DOMAIN ctxs' = DOMAIN ctxs
      <4>1. ctxs' = [i \in DOMAIN ctxs |-> Orphaned(Notified(ctxs[i], R, Emptied(R), Left(R)), Unserved(R, M))]
        BY <1>3, <2>1, RetireEffect
      <4>. QED
        BY <4>1
    <3>. QED
      BY <3>1, <3>2 DEF SoundInv
  <2>2. ASSUME NEW R \in SUBSET Live, Retire(R, {})
        PROVE  SoundInv'
    <3>1. {} \in SUBSET HookMans /\ Unserved(R, {}) = {}
      BY DEF Unserved
    <3>. QED
      BY <1>3, <2>2, <3>1, SoundRetire
  <2>3. ASSUME NEW p \in Plugins, UnloadPlugin(p)
        PROVE  SoundInv'
    <3>1. PICK R, M : R = Ids!HooksOfPlugin(entries, p) /\ M = ManagersOf(p)
      OBVIOUS
    <3>2. R \in SUBSET Live /\ M \in SUBSET HookMans /\ Retire(R, M)
      BY <1>3, <2>3, <3>1, UnloadRetires DEF UnloadPlugin
    <3>3. \A h \in Live \ R, m \in M : OwnerOf[m] # entries[h].plug
      BY <3>1 DEF ManagersOf, Ids!HooksOfPlugin, Live, Ids!LiveIds
    <3>4. CASE OwnManager
      <4>1. Unserved(R, M) = {}
        BY <1>3, <3>2, <3>3, <3>4, RetireOwnManagers
      <4>. QED
        BY <1>3, <3>2, <4>1, SoundRetire
    <3>5. CASE Removes
      <4>1. frames = <<>>
        BY <1>3, <2>3, <3>5 DEF UnloadPlugin, May, PoliteRemovals, UnloadsInCalls
      <4>. QED
        BY <2>1, <3>2, <4>1
    <3>. QED
      BY <1>3, <3>4, <3>5
  <2>4. ASSUME NEW m \in HookMans, RemoveHookManager(m)
        PROVE  SoundInv'
    <3>1. frames = <<>>
      BY <1>3, <2>4 DEF RemoveHookManager, May, PoliteRemovals
    <3>2. {} \in SUBSET Live /\ {m} \in SUBSET HookMans /\ Retire({}, {m})
      BY <2>4 DEF RemoveHookManager
    <3>. QED
      BY <2>1, <3>1, <3>2
  <2>5. ASSUME NEW h \in 1..MaxIds, PauseHook(h)
        PROVE  UNCHANGED <<ctxs, hooks>>
    BY <2>5 DEF PauseHook
  <2>6. ASSUME NEW m \in HookMans, NEW handler \in Handlers, NEW l \in Sites, AddHook(m, handler, l)
        PROVE  SoundInv'
    BY <1>3, <2>6, SoundAdd DEF NoReAdds
  <2>. QED
    BY <1>2, <1>3, <2>2, <2>3, <2>4, <2>5, <2>6, SoundLoop, SoundReturn, SoundCall, SoundRecall, StackSteps
<1>. QED
  BY <1>1, <1>2, <1>3 DEF vars

\* As long as handlers recall and add hooks only while their loop has its list, and hook
\* managers are removed politely, no running loop is ever about to follow a pointer into
\* freed memory, whatever its handlers remove or unload.
THEOREM LoopsStaySound ==
    TimelyRecalls /\ NoReAdds /\ PoliteRemovals => (Spec => []NoUseAfterFree)
<1>. SUFFICES ASSUME TimelyRecalls, NoReAdds, PoliteRemovals
              PROVE  Spec => []NoUseAfterFree
  OBVIOUS
<1>. DEFINE Inv == /\ RegistryInv /\ KnownInv /\ FramesInv /\ NestInv
                   /\ Removes \/ OwnManager
                   /\ SoundInv
<1>1. Init => Inv
  BY RegistryInductive, KnownInductive, FramesInductive, NestInductive, OwnManagerInductive, SoundInductive
<1>2. Inv /\ [Next]_vars => Inv'
  BY RegistryInductive, KnownInductive, FramesInductive, NestInductive, OwnManagerInductive, SoundInductive
     DEF Removes
<1>3. Inv => NoUseAfterFree
  <2>1. SUFFICES ASSUME SoundInv, NEW n \in DOMAIN ctxs
                 PROVE  ~UsesFreed(ctxs[n])
    BY DEF NoUseAfterFree
  <2>2. PICK c : c = ctxs[n]
    OBVIOUS
  <2>3. Sound(c, hooks)
    BY <2>1, <2>2 DEF SoundInv
  <2>4. HasIface(hooks, c.vfn, c.obj) \/ c.iface # "set" \/ ~InUse(c)
    BY <2>3 DEF Sound
  <2>5. ListKey(c)[2] = c.obj \/ ListKey(c)[2] = VP
    BY DEF ListKey
  <2>6. ~UsesFreed(c)
    BY <2>3, <2>4, <2>5 DEF UsesFreed, Sound, InUse
  <2>. QED
    BY <2>2, <2>6
<1>. HIDE DEF Inv
<1>. QED
  BY <1>1, <1>2, <1>3, PTL DEF Spec
=============================================================================
