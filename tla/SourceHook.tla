------------------------------ MODULE SourceHook ------------------------------
(***************************************************************************)
(* CSourceHookImpl (sourcehook.cpp) together with the hookfunc of          *)
(* generate/sourcehook.hxx that drives it: hooks are added and removed     *)
(* while hook loops run, loops nest, are recalled with new parameters and  *)
(* are skipped by SH_CALL, and plugins are unloaded below running loops.   *)
(*                                                                         *)
(* Everything runs on the game's main thread: the concurrency is           *)
(* re-entrance.  frames is the C++ call stack, reduced to the calls that   *)
(* matter, innermost last:                                                 *)
(*   hook    a hookfunc between SetupHookLoop and EndContext               *)
(*   shcall  an SH_CALL between SetIgnoreHooks and ResetIgnoreHooks        *)
(*   plain   the original function, reached through an unpatched entry by  *)
(*           the call RETURN_META_NEWPARAMS makes                          *)
(* Code that may call into SourceHook runs on top: the engine when frames  *)
(* is empty, a handler, or the body of an original function.               *)
(*                                                                         *)
(* What clients may do is a parameter: each operation is named in IdleOps, *)
(* HandlerOps or BodyOps.  Four names permit what the code does not check  *)
(* and goes wrong with: "late add" (a plugin whose unload is pending, and  *)
(* whose code still runs, adds a hook), "re-add" (a hook is added while an *)
(* iterator points into a list that was freed), "late recall" (a handler   *)
(* recalls when its hook is gone) and "unhooked shcall" (SH_CALL of a      *)
(* function that is not hooked).                                           *)
(*                                                                         *)
(* Pointers into freed memory are explicit: when the code frees an object, *)
(* a context that still points at it gets NoVfn, "freed" or Dangling.      *)
(*                                                                         *)
(* Operators marked "mutant" are wrong on purpose: each stands for a       *)
(* plausible bug and is used only to show that a property detects it.      *)
(***************************************************************************)
EXTENDS Sublists, Integers, FiniteSets, SequencesExt

CONSTANTS VfnPtrs, Objects, VP,         \* vtable entries, this pointers, the NULL interface
          Plugins, Handlers,
          Unloadable,   \* all but Metamod:Source's own hooks (g_PLID)
          HookMans, Version, OwnerOf,   \* hook managers, their versions and plugins
          Orig, FreeEntry, NoVfn, None,
          Odd,          \* entries whose original address is odd: called through a thunk
          Sites,        \* the <<vfnptr, iface, post>> the clients hook
          IdleOps, HandlerOps, BodyOps, \* what the engine, a handler and a function body do
          MaxIds, MaxDepth              \* bounds: hook ids, nested calls

Ifaces == Objects \union {VP}
Lists == VfnPtrs \X Ifaces \X BOOLEAN

ASSUME SiteAssumption == Sites \subseteq Lists
ASSUME OwnerAssumption == OwnerOf \in [HookMans -> Plugins]
ASSUME ManagerAssumption == Version \in [HookMans -> Int] /\ Orig \notin HookMans
ASSUME IfaceAssumption == VP \notin Objects
ASSUME NoneAssumption == NoVfn \notin VfnPtrs /\ None \notin HookMans \union Plugins
ASSUME BoundAssumption == MaxIds \in Nat /\ MaxDepth \in Nat

VARIABLES entries,  \* m_HookIDMan
          hm,       \* m_HookManList and the managers of m_VfnPtrs
          hooks,    \* the hook ids of each CIface's pre and post list
          paused,   \* ids of paused hooks
          ctxs,     \* m_ContextStack, the top last
          tasks,    \* the m_CleanupTask of every slot m_ContextStack has used
          pending,  \* m_PendingUnloads
          gone,     \* plugins whose listener got ReadyToUnload
          frames    \* the C++ call stack

vars == <<entries, hm, hooks, paused, ctxs, tasks, pending, gone, frames>>

Ids == INSTANCE HookIDManager
Mans == INSTANCE HookManagers

ASSUME EntryAssumption == FreeEntry \notin Ids!Info

Live == Ids!LiveIds
Dangling == -1          \* m_Iter points into a freed list
AtStart == 0            \* m_Iter is null or the list's head node

HookStates == {"Pre", "PreVP", "Post", "PostVP"}
RecallStates == {"Recall_Pre", "Recall_PreVP", "Recall_Post", "Recall_PostVP"}
RecallOf == [Pre |-> "Recall_Pre", PreVP |-> "Recall_PreVP",
             Post |-> "Recall_Post", PostVP |-> "Recall_PostVP"]

IdsOn(hs, v) == UNION {ToSet(hs[l]) : l \in {k \in Lists : k[1] = v}}
HasIface(hs, v, i) == hs[<<v, i, FALSE>>] \o hs[<<v, i, TRUE>>] # <<>>
Top == Last(frames)
Current == ctxs[Top.ctx]        \* the context the running hookfunc works on
WithTop(f) == [frames EXCEPT ![Len(frames)] = f]
May(op) == op \in (IF frames = <<>> THEN IdleOps
                   ELSE CASE Top.pc = "handler" -> HandlerOps
                          [] Top.pc \in {"orig", "body"} -> BodyOps
                          [] OTHER -> {})

\* CStack::push overwrites the slot above n contexts, m_CleanupTask included;
\* CStack::make_next hands out the slot as it was left.
Pushed(ts, n) == [i \in 1..(IF Len(ts) > n THEN Len(ts) ELSE n + 1) |->
                    IF i = n + 1 THEN "none" ELSE ts[i]]
MadeNext(ts, n) == IF Len(ts) > n THEN ts ELSE Append(ts, "none")

-----------------------------------------------------------------------------
(* CHookContext *)

\* The list a context in one of the hook states walks.
ListKey(c) == <<c.vfn, IF c.state \in {"Pre", "Post", "Recall_Pre", "Recall_Post"} THEN c.obj ELSE VP,
                c.state \in {"Post", "PostVP", "Recall_Post", "Recall_PostVP"}>>

\* Increment and SkipPaused: the first unpaused hook after iter, 0 at the end.
NextHook(list, iter) ==
    LET from == IF iter = AtStart THEN 0 ELSE SelectInSeq(list, LAMBDA h : h = iter)
        n == SelectInSubSeq(list, from + 1, Len(list), LAMBDA h : h \notin paused)
    IN  IF n = 0 THEN 0 ELSE list[n]

WalkVP(c, vp, after) ==
    LET n == NextHook(hooks[<<c.vfn, VP, vp = "PostVP">>], c.iter)
    IN  IF n # 0 THEN [c EXCEPT !.state = vp, !.iter = n]
                 ELSE [c EXCEPT !.state = after, !.iter = AtStart]

WalkIface(c, normal, vp, after) ==
    LET n == IF c.iface = "set" THEN NextHook(hooks[<<c.vfn, c.obj, normal = "Post">>], c.iter) ELSE 0
    IN  IF n # 0 THEN [c EXCEPT !.state = normal, !.iter = n]
                 ELSE WalkVP([c EXCEPT !.iter = AtStart], vp, after)

PostForgotten(c) == c                                           \* mutant

\* Recall_Post and Recall_PostVP: the pre loop of a post recall ends at once.
PostResumed(c) == [c EXCEPT !.state = IF @ = "Recall_Post" THEN "Post" ELSE "PostVP"]

\* GetNext: the context afterwards, and the hook whose handler it returns.
Advanced(c) ==
    CASE c.state \in {"Born", "Pre", "Recall_Pre"} -> WalkIface(c, "Pre", "PreVP", "OrigCall")
      [] c.state \in {"PreVP", "Recall_PreVP"} -> WalkVP(c, "PreVP", "OrigCall")
      [] c.state = "OrigCall" -> WalkIface([c EXCEPT !.iter = AtStart], "Post", "PostVP", "Dead")
      [] c.state = "Post" -> WalkIface(c, "Post", "PostVP", "Dead")
      [] c.state = "PostVP" -> WalkVP(c, "PostVP", "Dead")
      [] c.state \in {"Recall_Post", "Recall_PostVP"} -> PostResumed(c)
      [] OTHER -> c

GetNext(c) == IF c.state \notin {"Recall_Post", "Recall_PostVP", "Dead"} /\ Advanced(c).state \in HookStates
              THEN Advanced(c).iter ELSE 0

\* GetNext would read freed memory: the CVfnPtr, the CIface or the list node.
UsesFreed(c) ==
    /\ c.state \notin {"Dead", "Ignore", "Stray"}
    /\ \/ c.vfn = NoVfn
       \/ c.iface = "freed"
       \/ /\ c.iter = Dangling
          /\ c.state \in HookStates \union RecallStates
          /\ IF ListKey(c)[2] = VP THEN HasIface(hooks, c.vfn, VP) ELSE c.iface = "set"

RestartedList(list, iter, R) == AtStart                         \* mutant
SteppedOn(list, iter, R) ==                                     \* mutant
    LET rest == Without(SubSeq(list, SelectInSeq(list, LAMBDA h : h = iter), Len(list)), R)
    IN  IF rest = <<>> THEN AtStart ELSE Head(rest)

\* HookRemoved: from a removed hook m_Iter goes to the one before it that stays.
SteppedBack(list, iter, R) ==
    LET before == SubSeq(list, 1, SelectInSeq(list, LAMBDA h : h = iter) - 1)
        kept == Without(before, R)
    IN  IF kept = <<>> THEN AtStart ELSE Last(kept)

\* RemoveHookManager notifies no context of the entries W it removes.
Orphaned(c, W) ==
    IF c.vfn \notin W THEN c
    ELSE [c EXCEPT !.vfn = NoVfn, !.iter = IF c.state \in {"Dead", "Ignore"} THEN @ ELSE Dangling,
                   !.iface = IF @ = "set" THEN "freed" ELSE @]

NotNotified(c, R, W, after) == Orphaned(c, W)                   \* mutant

\* HookRemoved, IfaceRemoved and VfnPtrRemoved for the hooks R, with which the
\* entries W lose their last hook; after is what remains of the lists.
Notified(c, R, W, after) ==
    LET key == ListKey(c)
        walks == c.state \in HookStates \union RecallStates /\ c.vfn # NoVfn
        Lost(i) == HasIface(hooks, c.vfn, i) /\ ~HasIface(after, c.vfn, i)
    IN  IF c.vfn = NoVfn THEN c
        ELSE IF c.vfn \in W
        THEN [c EXCEPT !.state = "Dead", !.vfn = NoVfn, !.iter = AtStart, !.iface = "null"]
        ELSE [c EXCEPT
                !.iface = IF @ = "set" /\ Lost(c.obj) THEN "null" ELSE @,
                !.iter = IF ~walks THEN @
                         ELSE IF Lost(key[2]) THEN Dangling
                         ELSE IF @ \in R THEN SteppedBack(hooks[key], @, R)
                         ELSE @]

-----------------------------------------------------------------------------
(* The hook loop: SetupHookLoop, the hookfunc's two loops, EndContext *)

NewCtx(state, v, obj) ==
    [state |-> state, vfn |-> v, obj |-> obj, iter |-> AtStart, callOrig |-> TRUE,
     iface |-> IF v # NoVfn /\ HasIface(hooks, v, obj) THEN "set" ELSE "null"]

\* A frame.  pc: where it is (pre and post: in GetNext of that loop); loop: which
\* loop it is in; sup: status = MRES_SUPERCEDE; thunk: 0, or the context whose end
\* frees what vfnptr_origentry points at, or Dangling.  due, done, asked and ran
\* only serve the properties: the hooks this call still owes, those it called,
\* whether a handler asked to supercede and how often the original ran.
Frame(kind, v, n, pc) ==
    [kind |-> kind, v |-> v, man |-> None, ctx |-> n, pc |-> pc, loop |-> "pre", hook |-> 0,
     plug |-> None, sup |-> FALSE, thunk |-> 0, due |-> {}, done |-> {}, asked |-> FALSE, ran |-> 0]

HookFrame(v, n) == [Frame("hook", v, n, "pre") EXCEPT !.man = hm.vtable[v]]

\* The hooks a loop over v for obj starts with.
Owed(v, obj) ==
    (UNION {ToSet(hooks[<<v, i, post>>]) : i \in {obj, VP}, post \in BOOLEAN}) \ paused

\* SetupHookLoop, entered through the patched entry of v: an SH_CALL's context is
\* used up, otherwise a context is made in the next slot of the stack, where
\* make_next leaves m_CleanupTask as it finds it.
SetupHookLoop(v, obj) ==
    LET n == Len(ctxs)
        found == v \in hm.served[hm.vtable[v]]
        at == IF found THEN v ELSE NoVfn
    IN  /\ hm.vtable[v] # Orig
        /\ Len(frames) < MaxDepth
        /\ n > 0 => ctxs[n].state \notin RecallStates     \* see Recall
        /\ IF n > 0 /\ ctxs[n].state = "Ignore"
           THEN /\ ctxs' = [ctxs EXCEPT ![n].state = "Dead", ![n].callOrig = TRUE, ![n].vfn = at]
                /\ frames' = Append(frames, HookFrame(v, n))
           ELSE /\ ctxs' = Append(ctxs, NewCtx(IF found THEN "Born" ELSE "Dead", at, obj))
                /\ frames' = Append(frames, [HookFrame(v, n + 1) EXCEPT !.due = Owed(v, obj)])
        /\ tasks' = IF Len(ctxs') > n THEN MadeNext(tasks, n) ELSE tasks

\* The engine, a handler or a function body calls a hooked function.
Call(v, obj) ==
    /\ May("call")
    /\ SetupHookLoop(v, obj)
    /\ UNCHANGED <<entries, hm, hooks, paused, pending, gone>>

\* One GetNext of the hookfunc on top, and the call of the handler it returns.
NextHandler ==
    LET c == Current
        h == GetNext(c)
    IN  /\ frames # <<>> /\ Top.pc \in {"pre", "post"}
        /\ ~UsesFreed(c)
        /\ h # 0
        /\ ctxs' = [ctxs EXCEPT ![Top.ctx] = Advanced(c)]
        /\ frames' = WithTop([Top EXCEPT !.pc = "handler", !.hook = h, !.plug = entries[h].plug,
                                         !.due = @ \ {h}, !.done = @ \union {h}])
        /\ UNCHANGED <<entries, hm, hooks, paused, tasks, pending, gone>>

CallsOrigAgain(c) == ~Top.sup                                   \* mutant

\* SH_CALL_ORIG: the original is called unless a handler superceded, or the loop
\* continues one of whose original has already run (ShouldCallOrig).
CallsOrig(c) == ~Top.sup /\ c.callOrig

\* The pre loop is over.
PreLoopEnds ==
    LET c == Current
        runs == CallsOrig(c)
    IN  /\ frames # <<>> /\ Top.pc = "pre"
        /\ ~UsesFreed(c)
        /\ GetNext(c) = 0
        /\ ctxs' = [ctxs EXCEPT ![Top.ctx] = Advanced(c)]
        /\ frames' = WithTop([Top EXCEPT !.loop = "post", !.hook = 0, !.plug = None,
                                         !.pc = IF runs THEN "orig" ELSE "post",
                                         !.ran = IF runs THEN @ + 1 ELSE @])
        /\ UNCHANGED <<entries, hm, hooks, paused, tasks, pending, gone>>

OrigReturns ==
    /\ frames # <<>> /\ Top.pc = "orig"
    /\ frames' = WithTop([Top EXCEPT !.pc = "post"])
    /\ UNCHANGED <<entries, hm, hooks, paused, ctxs, tasks, pending, gone>>

\* A handler returns; sup: with MRES_SUPERCEDE.
HandlerReturns(sup) ==
    /\ frames # <<>> /\ Top.pc = "handler"
    /\ frames' = WithTop([Top EXCEPT !.pc = Top.loop, !.sup = @ \/ sup, !.hook = 0, !.plug = None,
                                     !.asked = @ \/ (sup /\ Top.loop = "pre")])
    /\ UNCHANGED <<entries, hm, hooks, paused, ctxs, tasks, pending, gone>>

RipeAtOnce(u) == TRUE                                           \* mutant
NeverDeactivated(u) == u                                        \* mutant

\* ResolvePendingUnloads carries out the unloads that already sat through one drop
\* of the context stack and deactivates the others.
Ripe(u) == u.deactivated
Deactivated(u) == [u EXCEPT !.deactivated = TRUE]
RipeUnloads == {u \in ToSet(pending) : Ripe(u)}
Waiting == Without(pending, RipeUnloads)

\* EndContext: the top context's cleanup task runs, the context is popped, and when
\* that empties the stack the pending unloads are resolved.  rest: the frames left.
EndContext(rest) ==
    LET n == Len(ctxs)
    IN  /\ ctxs' = Front(ctxs)
        /\ tasks' = IF tasks[n] = "armed" THEN [tasks EXCEPT ![n] = "run"] ELSE tasks
        /\ frames' = [i \in DOMAIN rest |->
                        IF rest[i].thunk = n THEN [rest[i] EXCEPT !.thunk = Dangling] ELSE rest[i]]
        /\ IF n = 1
           THEN /\ pending' = [i \in DOMAIN Waiting |-> Deactivated(Waiting[i])]
                /\ gone' = gone \union {u.plug : u \in RipeUnloads}
           ELSE UNCHANGED <<pending, gone>>

\* The post loop is over (SH_RETURN): the hookfunc returns to its caller.
HookfuncReturns ==
    /\ frames # <<>> /\ Top.pc = "post"
    /\ ~UsesFreed(Current)
    /\ GetNext(Current) = 0
    /\ LET below == Front(frames)
           recalled == below # <<>> /\ Last(below).pc = "recall"
       IN  EndContext(IF recalled
                      THEN [below EXCEPT ![Len(below)].ran = Top.ran, ![Len(below)].asked = Top.asked]
                      ELSE below)
    /\ UNCHANGED <<entries, hm, hooks, paused>>

-----------------------------------------------------------------------------
(* Recalls and SH_CALL *)

\* RETURN_META_NEWPARAMS: DoRecall, then a call of the function the handler hooks.
\* Its hookfunc continues the loop in the recall context, and the abandoned outer
\* one hands on what it still owes.  A context that is Dead when it recalls gives
\* the new one a state outside the enumeration ("Stray"), for which SetupHookLoop
\* starts a loop of its own; and when the entry is no longer patched the call goes
\* straight to the original function and no hookfunc picks the new context up.
Recall(sup) ==
    LET n == Len(ctxs)
        cur == ctxs[n]
        v == Top.v
        hooked == hm.vtable[v] # Orig
        resumes == cur.state \in HookStates
        pushed == [NewCtx(IF resumes THEN RecallOf[cur.state] ELSE "Stray", NoVfn, cur.obj)
                        EXCEPT !.iter = cur.iter]
        again == [pushed EXCEPT !.vfn = v, !.iface = NewCtx("Born", v, cur.obj).iface,
                                !.callOrig = cur.state \in {"Pre", "PreVP"}]
        status == Top.sup \/ sup
        outer == [Top EXCEPT !.pc = "recall", !.sup = status, !.due = {},
                             !.asked = @ \/ (sup /\ Top.loop = "pre"),
                             !.ran = IF hooked THEN @ ELSE @ + 1]
        inner == IF resumes
                 THEN [HookFrame(v, n + 1) EXCEPT !.sup = status, !.due = Top.due, !.done = Top.done,
                                                  !.asked = outer.asked, !.ran = Top.ran]
                 ELSE [HookFrame(v, n + 2) EXCEPT !.due = Owed(v, cur.obj)]
        dead == [ctxs EXCEPT ![n].state = "Dead", ![n].iter = AtStart]
    IN  /\ frames # <<>> /\ Top.pc = "handler"
        /\ May("recall")
        /\ Len(frames) < MaxDepth
        /\ "late recall" \notin HandlerOps => hooked /\ resumes
        /\ ctxs' = dead \o (IF ~hooked THEN <<pushed>>
                            ELSE IF resumes THEN <<again>>
                            ELSE <<pushed, NewCtx("Born", v, cur.obj)>>)
        /\ tasks' = IF Len(ctxs') = n + 1 THEN Pushed(tasks, n) ELSE MadeNext(Pushed(tasks, n), n + 1)
        /\ frames' = Append(WithTop(outer), IF hooked THEN inner ELSE Frame("plain", v, 0, "body"))
        /\ UNCHANGED <<entries, hm, hooks, paused, pending, gone>>

\* The recalled call has returned: so does the handler, with MRES_SUPERCEDE.
RecallReturns ==
    /\ frames # <<>> /\ Top.pc = "recall"
    /\ frames' = WithTop([Top EXCEPT !.pc = Top.loop, !.sup = TRUE, !.hook = 0, !.plug = None])
    /\ UNCHANGED <<entries, hm, hooks, paused, ctxs, tasks, pending, gone>>

\* SH_CALL: SetIgnoreHooks and the call, of a patched entry or of the original.
ShCall(v, obj) ==
    LET n == Len(ctxs)
        hooked == hm.vtable[v] # Orig
        ignore == [NewCtx(IF hooked THEN "Dead" ELSE "Ignore", NoVfn, obj) EXCEPT
                        !.vfn = IF hooked THEN v ELSE NoVfn]
        caller == Frame("shcall", v, n + 1, IF hooked THEN "reset" ELSE "body")
    IN  /\ May("shcall")
        /\ Len(frames) < MaxDepth - 1
        /\ "unhooked shcall" \notin HandlerOps => hooked
        /\ ctxs' = Append(ctxs, ignore)
        /\ tasks' = Pushed(tasks, n)
        /\ frames' = frames \o (IF hooked THEN <<caller, HookFrame(v, n + 1)>> ELSE <<caller>>)
        /\ UNCHANGED <<entries, hm, hooks, paused, pending, gone>>

AnyIsLeft == ctxs # <<>>                                        \* mutant

\* ResetIgnoreHooks drops the top context if no hookfunc has used it up.
IgnoreIsLeft == ctxs # <<>> /\ Last(ctxs).state = "Ignore"

\* The call of an SH_CALL, or of a recall that met no hookfunc, returns.
CalleeReturns ==
    /\ frames # <<>> /\ Top.kind \in {"shcall", "plain"}
    /\ IF Top.kind = "shcall" /\ IgnoreIsLeft
       THEN EndContext(Front(frames))
       ELSE frames' = Front(frames) /\ UNCHANGED <<ctxs, tasks, pending, gone>>
    /\ UNCHANGED <<entries, hm, hooks, paused>>

-----------------------------------------------------------------------------
(* Adding, removing and pausing hooks; unloading plugins *)

Active(p) == p \notin gone /\ p \notin {u.plug : u \in ToSet(pending)}

\* AddHook with manager m on one of the clients' sites.  The code does not ask
\* whether m's plugin is waiting to be unloaded; only what is unmapped calls nothing.
AddHook(m, handler, l) ==
    LET info == [vfnptr |-> l[1], iface |-> l[2], plug |-> OwnerOf[m], handler |-> handler, post |-> l[3]]
    IN  /\ May("add")
        /\ OwnerOf[m] \notin gone
        /\ ~Active(OwnerOf[m]) => May("late add")
        /\ "re-add" \notin HandlerOps => \A i \in DOMAIN ctxs : ctxs[i].iter # Dangling
        /\ Ids!New(info)
        /\ Mans!Offer(l[1], m)
        /\ hooks' = [hooks EXCEPT ![l] = Append(@, Ids!NextId(entries))]
        /\ UNCHANGED <<paused, ctxs, tasks, pending, gone, frames>>

UppermostSlot(v) ==                                             \* mutant
    LET users == {i \in DOMAIN ctxs : ctxs[i].vfn = v}
    IN  IF users = {} THEN Dangling ELSE CHOOSE i \in users : \A j \in users : j <= i

\* RevertAndRemoveVfnPtr hangs the cleanup of v's thunk on the deepest context that
\* uses v; without one it runs at once.
CleanupSlot(v) ==
    LET users == {i \in DOMAIN ctxs : ctxs[i].vfn = v}
    IN  IF users = {} THEN Dangling ELSE CHOOSE i \in users : \A j \in users : i <= j

ManagersForgotten(W, M) == [hm EXCEPT !.known = @ \ M]          \* mutant

\* The registry of managers when the entries W have lost their hooks and then the
\* managers M are removed.
ManagersAfter(W, M) == Mans!Removed(Mans!Reverted(hm, W), M)

\* The hooks R and then the managers M go.  W1 are the entries that lose their
\* last hook (RemoveHookByID), W2 those that only lose their last manager
\* (RemoveHookManager).
Retire(R, M) ==
    LET left == [l \in Lists |-> Without(hooks[l], R)]
        W1 == {entries[h].vfnptr : h \in R} \cap {v \in VfnPtrs : IdsOn(left, v) = {}}
        W2 == {v \in VfnPtrs \ W1 : hm.mans[v] # <<>> /\ ToSet(hm.mans[v]) \subseteq M}
        lost == R \union UNION {Ids!HooksOnVfnPtr(entries, v) : v \in W2}
        thunks == Odd \cap (W1 \union W2)
    IN  /\ hm' = ManagersAfter(W1, M)
        /\ entries' = Ids!WithoutHooks(entries, lost)
        /\ hooks' = [l \in Lists |-> IF l[1] \in W2 THEN <<>> ELSE left[l]]
        /\ paused' = paused \ lost
        /\ ctxs' = [i \in DOMAIN ctxs |-> Orphaned(Notified(ctxs[i], R, W1, left), W2)]
        /\ tasks' = [i \in DOMAIN tasks |-> IF \E v \in thunks : CleanupSlot(v) = i THEN "armed" ELSE tasks[i]]
        /\ frames' = [i \in DOMAIN frames |->
                        [frames[i] EXCEPT !.due = @ \ lost, !.done = @ \ lost,
                            !.thunk = IF frames[i].v \in thunks /\ @ = 0 THEN CleanupSlot(frames[i].v) ELSE @]]

RemoveHookByID(h) ==
    /\ May("remove")
    /\ h \in Live
    /\ Retire({h}, {})
    /\ UNCHANGED <<pending, gone>>

\* RemoveHook removes every hook of the description, and never a VP hook: it
\* always looks for an interface pointer.
RemoveHook(info) ==
    /\ May("remove all")
    /\ info.iface # VP
    /\ Ids!HooksMatching(entries, info) # {}
    /\ Retire(Ids!HooksMatching(entries, info), {})
    /\ UNCHANGED <<pending, gone>>

RemoveHookManager(m) ==
    /\ May("remove manager")
    /\ m \in hm.known
    /\ Retire({}, {m})
    /\ UNCHANGED <<pending, gone>>

NoManagersOf(p) == {}                                           \* mutant
ManagersOf(p) == {m \in hm.known : OwnerOf[m] = p}

\* UnloadPlugin: its hooks, its managers, and the listener as soon as no loop runs.
\* The plugin manager asks once for each plugin.
UnloadPlugin(p) ==
    /\ May("unload")
    /\ p \in Unloadable
    /\ Active(p)
    /\ Retire(Ids!HooksOfPlugin(entries, p), ManagersOf(p))
    /\ IF ctxs = <<>>
       THEN gone' = gone \union {p} /\ UNCHANGED pending
       ELSE pending' = Append(pending, [plug |-> p, deactivated |-> FALSE]) /\ UNCHANGED gone

\* The plugin manager loads the plugin again: SourceHook is not told, it is only
\* the identity that may add hooks again.
LoadPlugin(p) ==
    /\ May("load")
    /\ p \in gone
    /\ gone' = gone \ {p}
    /\ UNCHANGED <<entries, hm, hooks, paused, ctxs, tasks, pending, frames>>

\* PauseHookByID, UnpauseHookByID: a paused hook is no longer owed a call.
PauseHook(h) ==
    /\ May("pause")
    /\ h \in Live \ paused
    /\ paused' = paused \union {h}
    /\ frames' = [i \in DOMAIN frames |-> [frames[i] EXCEPT !.due = @ \ {h}]]
    /\ UNCHANGED <<entries, hm, hooks, ctxs, tasks, pending, gone>>

UnpauseHook(h) ==
    /\ May("pause")
    /\ h \in paused
    /\ paused' = paused \ {h}
    /\ UNCHANGED <<entries, hm, hooks, ctxs, tasks, pending, gone, frames>>

-----------------------------------------------------------------------------
Init ==
    /\ Ids!IdInit
    /\ Mans!HMInit
    /\ hooks = [l \in Lists |-> <<>>]
    /\ paused = {} /\ gone = {}
    /\ ctxs = <<>> /\ tasks = <<>> /\ pending = <<>> /\ frames = <<>>

\* The steps the hookfunc and SH_CALL take on their own.
Continue ==
    \/ NextHandler \/ PreLoopEnds \/ OrigReturns \/ HookfuncReturns
    \/ RecallReturns \/ CalleeReturns
    \/ \E sup \in BOOLEAN : HandlerReturns(sup)

\* What a client chooses to do.
Client ==
    \/ \E v \in VfnPtrs, obj \in Objects : Call(v, obj) \/ ShCall(v, obj)
    \/ \E sup \in BOOLEAN : Recall(sup)
    \/ \E m \in HookMans, handler \in Handlers, l \in Sites : AddHook(m, handler, l)
    \/ \E h \in 1..MaxIds : RemoveHookByID(h) \/ PauseHook(h) \/ UnpauseHook(h)
    \/ \E info \in Ids!Info : RemoveHook(info)
    \/ \E m \in HookMans : RemoveHookManager(m)
    \/ \E p \in Plugins : UnloadPlugin(p) \/ LoadPlugin(p)

Next == Continue \/ Client

Spec == Init /\ [][Next]_vars

\* Code at every depth of the call stack goes on until it returns, the engine keeps
\* calling functions that are hooked, and Metamod:Source installs its own hooks.
Fairness ==
    /\ \A d \in 1..MaxDepth : SF_vars(Continue /\ Len(frames) = d)
    /\ SF_vars(frames = <<>> /\ \E v \in VfnPtrs, obj \in Objects : Call(v, obj))
    /\ WF_vars(\E m \in HookMans, handler \in Handlers, l \in Sites :
                  OwnerOf[m] \notin Unloadable /\ AddHook(m, handler, l))

FairSpec == Spec /\ Fairness

-----------------------------------------------------------------------------
(* Properties *)

Context == [state : HookStates \union RecallStates \union {"Born", "OrigCall", "Dead", "Ignore", "Stray"},
            vfn : VfnPtrs \union {NoVfn}, obj : Objects, iter : Dangling..MaxIds,
            callOrig : BOOLEAN, iface : {"set", "null", "freed"}]
FrameType == [kind : {"hook", "shcall", "plain"}, v : VfnPtrs, man : HookMans \union {None},
              ctx : Nat, pc : {"pre", "handler", "recall", "orig", "post", "body", "reset"},
              loop : {"pre", "post"}, hook : 0..MaxIds, plug : Plugins \union {None},
              sup : BOOLEAN, thunk : Nat \union {Dangling}, due : SUBSET (1..MaxIds),
              done : SUBSET (1..MaxIds), asked : BOOLEAN, ran : Nat]

TypeOK ==
    /\ Ids!IdTypeOK
    /\ Mans!HMTypeOK
    /\ hooks \in [Lists -> Seq(1..MaxIds)]
    /\ paused \subseteq 1..MaxIds
    /\ ctxs \in Seq(Context)
    /\ tasks \in Seq({"none", "armed", "run"})
    /\ pending \in Seq([plug : Plugins, deactivated : BOOLEAN])
    /\ gone \subseteq Plugins
    /\ frames \in Seq(FrameType)

\* The id table, the hook lists and the patched entries always tell the same
\* story: a live id is in exactly one list, once, the one its entry names
\* (otherwise RemoveHookByID fails and the hook can never be removed), a list
\* holds live ids only, and an entry has managers exactly while it has hooks.
RegistryAgrees ==
    /\ \A l \in Lists : /\ Len(hooks[l]) = Cardinality(ToSet(hooks[l]))
                        /\ ToSet(hooks[l]) =
                             {h \in Live : <<entries[h].vfnptr, entries[h].iface, entries[h].post>> = l}
    /\ \A v \in VfnPtrs : hm.mans[v] # <<>> <=> IdsOn(hooks, v) # {}
    /\ paused \subseteq Live

\* No hook left by an unloaded plugin is ever called, nor is its hookfunc.
NothingOfTheGone ==
    /\ \A h \in Live : entries[h].plug \notin gone
    /\ \A v \in VfnPtrs : hm.vtable[v] # Orig => OwnerOf[hm.vtable[v]] \notin gone

\* Whatever handlers remove, no running loop is left with a pointer its next
\* GetNext would follow into freed memory (HookRemoved, IfaceRemoved and
\* VfnPtrRemoved tell every context on the stack).
NoUseAfterFree == \A i \in DOMAIN ctxs : ~UsesFreed(ctxs[i])

\* EndContext pops whatever is on top: that must be the context of the hookfunc
\* that ends, and the stack is empty again when the engine has control.
ContextsNest ==
    /\ frames = <<>> => ctxs = <<>>
    /\ frames # <<>> /\ Top.kind = "hook" => Top.ctx = Len(ctxs)

\* SetupHookLoop takes any recall context it finds on top for its own: only the
\* call that made one may be about to use it.
RecallsArePickedUp ==
    ctxs # <<>> /\ Last(ctxs).state \in RecallStates =>
        Top.kind = "hook" /\ Top.pc = "pre" /\ Top.ctx = Len(ctxs)

\* The context an SH_CALL pushes to have the hooks of its function skipped is used
\* up by a call of that function, never by another one the function happens to make.
IgnoresOnlyItsFunction ==
    \A i, j \in DOMAIN frames :
        frames[i].kind = "shcall" /\ frames[j].kind = "hook" /\ frames[i].ctx = frames[j].ctx
            => frames[i].v = frames[j].v

\* The thunk a hookfunc is going to call the original through is not freed
\* before it did, even if handlers remove the entry's last hook
\* (RevertAndRemoveVfnPtr hangs the cleanup on the deepest context using it).
ThunkOutlivesLoop ==
    \A i \in DOMAIN frames : frames[i].kind = "hook" /\ frames[i].loop = "pre" =>
        frames[i].thunk # Dangling

\* A context in use never carries the pointer to a cleanup task that already ran
\* and deleted itself: EndContext would run it again.
CleanupRunsOnce == \A i \in DOMAIN ctxs : tasks[i] # "run"

Calls == /\ frames # <<>> /\ Len(frames') = Len(frames)
         /\ Top.pc \in {"pre", "post"} /\ Last(frames').pc = "handler"
Called == Last(frames').hook
Returning == frames # <<>> /\ Len(frames') < Len(frames) /\ Top.kind = "hook"

\* A hook that stays registered and unpaused from the beginning of the call to
\* its end is not skipped: HookRemoved steps back, so that removing the current
\* or another hook never makes the loop jump over one.
NoneSkipped == [][Returning => Top.due = {}]_vars

\* Within one call of the hooked function a handler runs at most once, only while
\* its hook is registered and not paused, and in the documented order: interface
\* hooks before VP hooks, pre hooks before post hooks, each list in the order the
\* hooks were added; however the lists changed since the loop began and across
\* recalls.  The original function runs exactly once, or not at all when a pre
\* handler superceded.
Rank(h) == (IF entries[h].post THEN 2 ELSE 0) + (IF entries[h].iface = VP THEN 1 ELSE 0)
Precedes(g, h) ==
    \/ Rank(g) < Rank(h)
    \/ /\ Rank(g) = Rank(h)
       /\ LET l == hooks[<<entries[h].vfnptr, entries[h].iface, entries[h].post>>]
          IN  SelectInSeq(l, LAMBDA x : x = g) < SelectInSeq(l, LAMBDA x : x = h)
OnceInOrder ==
    [][/\ Calls => /\ Called \in Live \ (paused \union Top.done)
                   /\ \A g \in Top.due : g = Called \/ ~Precedes(g, Called)
       /\ Returning => Top.ran = (IF Top.asked THEN 0 ELSE 1)]_vars

\* A plugin is unloaded only when none of its code is on the call stack: neither
\* a hookfunc of its managers, the one just ending included, nor a handler.
UnloadIsSafe ==
    [][\A p \in gone' \ gone : \A i \in DOMAIN frames :
         /\ frames[i].plug # p
         /\ frames[i].man # None => OwnerOf[frames[i].man] # p]_vars

\* Every pending unload is carried out, although EndContext lets the first drop of
\* the context stack go by, and every hooked call returns to the engine.
UnloadsHappen ==
    \A p \in Unloadable : (\E i \in DOMAIN pending : pending[i].plug = p) ~> p \in gone

\* The registry of managers behaves as its own specification says.
ImplementsManagers == Mans!HMSpec
=============================================================================
