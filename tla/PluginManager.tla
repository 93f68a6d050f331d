--------------------------- MODULE PluginManager ---------------------------
(***************************************************************************)
(* CPluginManager (core/metamod_plugins.cpp) with the part of SourceHook it *)
(* relies on: hooks belong to a plugin id, and unloads wait for the context *)
(* stack to empty.                                                          *)
(*                                                                          *)
(* The manager calls plugin code (Load, AllPluginsLoaded, Unload, Pause,    *)
(* Unpause, listeners, handlers) that may call the manager again.  stack is *)
(* the C++ stack cut at these calls: a frame is plugin code that runs, with *)
(* what the manager does when it returns.                                   *)
(*                                                                          *)
(* Everything else is one record m, so that the functions of the manager    *)
(* are operators from one value of it to the next.  pl holds the CPlugin    *)
(* objects that are not deleted.                                            *)
(***************************************************************************)
EXTENDS Sublists, Integers, FiniteSets, Sequences

CONSTANTS Files,
          Outcomes,    \* what loading a file may come to, see LoadKinds
          Metamod,     \* owner of the hooks of Metamod:Source itself
          Permits,     \* what plugins and readings do beyond what the code survives
          MaxObjects,  \* bound: CPlugin objects ever made
          MaxDepth     \* bound: frames

ASSUME MetamodAssumption == Metamod \notin Files

VARIABLES m, stack
vars == <<m, stack>>

\* "NotFound" no file, "Error" no library, "NoInterface" a library without
\* one, "WrongVersion" an interface of another API version, "Load" call Load.
LoadKinds == {"NotFound", "Error", "NoInterface", "WrongVersion", "Load"}

Pl_MinId == 1
Failed(status) == status \in {"NotFound", "Error", "Refused"}    \* < Pl_Paused

Nobody == 0
IdleLib == [refs |-> 0, plid |-> 0, up |-> FALSE]

NewPlugin(id, f) ==
    [m_Id |-> id, m_File |-> f, m_Status |-> "Refused", m_API |-> FALSE, m_Lib |-> FALSE,
     m_Events |-> FALSE, m_UnloadFn |-> FALSE, told |-> 0]

Frame(kind, o, file, then) == [kind |-> kind, obj |-> o, file |-> file, then |-> then]

Then(what, o, id) == [what |-> what, obj |-> o, id |-> id]
Nothing == Then("nothing", Nobody, 0)

(***************************************************************************)
(* Lookups                                                                 *)
(***************************************************************************)
\* The first plugin in S from position k of the list on.
FirstFrom(s, k, S) ==
    LET later == {i \in k..Len(s.m_Plugins) : s.m_Plugins[i] \in S}
    IN IF later = {} THEN Nobody
       ELSE s.m_Plugins[CHOOSE i \in later : \A j \in later : i <= j]

Position(s, o) == CHOOSE k \in DOMAIN s.m_Plugins : s.m_Plugins[k] = o

FindById(s, id) == FirstFrom(s, 1, {o \in DOMAIN s.pl : s.pl[o].m_Id = id})

\* The interface of a library is one object: a second copy has the same.
FindByAPI(s, f) == FirstFrom(s, 1, {o \in DOMAIN s.pl : s.pl[o].m_API /\ s.pl[o].m_File = f})

\* The loop both removals share: erase the first plugin that has the id of o.
EraseSameId(s, o) == [s EXCEPT !.m_Plugins = Without(@, {FindById(s, s.pl[o].m_Id)})]

Delete(s, o) == [s EXCEPT !.pl = [x \in DOMAIN @ \ {o} |-> @[x]]]

(***************************************************************************)
(* Unloader, UnloadPlugin and ResolvePendingUnloads                        *)
(***************************************************************************)
InLoop == \E k \in DOMAIN stack : stack[k].kind = "handler"

\* Unloader::ReadyToUnload: UnloadInterface_MMS, dlclose, delete.
ReadyToUnload(s, u) ==
    LET p == s.pl[u.obj]
        closed == [s EXCEPT !.lib[p.m_File] =
                     [refs |-> @.refs - 1,
                      plid |-> IF @.refs = 1 THEN 0 ELSE @.plid,
                      up   |-> @.up /\ ~p.m_UnloadFn /\ @.refs > 1]]
    IN CASE u.obj \notin DOMAIN s.pl -> s
         [] u.obj \in DOMAIN s.pl /\ u.destroy -> Delete(closed, u.obj)
         [] OTHER -> [closed EXCEPT !.pl[u.obj] = [@ EXCEPT !.m_Lib = FALSE, !.m_API = FALSE]]

\* SourceHook::UnloadPlugin: the hooks go at once, the rest when no loop runs.
KeptHooks(s, o, destroy, loop) ==                               \* mutant
    LET u == [obj |-> o, destroy |-> destroy, ripe |-> FALSE]
    IN IF loop THEN [s EXCEPT !.pending = Append(@, u)] ELSE ReadyToUnload(s, u)
UnloadPlugin(s, o, destroy, loop) ==
    LET u == [obj |-> o, destroy |-> destroy, ripe |-> FALSE]
        unhooked == [s EXCEPT !.hooks = {h \in @ : h.id # s.pl[o].m_Id}]
    IN IF loop THEN [unhooked EXCEPT !.pending = Append(@, u)]
               ELSE ReadyToUnload(unhooked, u)

\* An unload waits for a second drop of the context stack, unless forced.
ResolvePendingUnloads(s, force) ==
    LET after[n \in 0..Len(s.pending)] ==
            IF n = 0 THEN [s EXCEPT !.pending = <<>>]
            ELSE IF force \/ s.pending[n].ripe THEN ReadyToUnload(after[n - 1], s.pending[n])
            ELSE [after[n - 1] EXCEPT !.pending = Append(@, [s.pending[n] EXCEPT !.ripe = TRUE])]
    IN after[Len(s.pending)]

(***************************************************************************)
(* Going on: a configuration is the manager, the stack below, and the      *)
(* frames of the plugin code to call next (none or one).                   *)
(***************************************************************************)
Config(s, frames) == [m |-> s, call |-> frames]

\* ITER_PLEVENT from position k: the next plugin with listeners, but plid, of
\* which the listeners are told; about is the CPlugin the macro reads it from,
\* Nobody for OnPluginUnload, which has a copy.
PlEvent(s, k, about, plid) ==
    LET o == FirstFrom(s, k, {x \in DOMAIN s.pl : s.pl[x].m_Id # plid /\ s.pl[x].m_Events})
    IN Config(s, IF o = Nobody THEN <<>>
                 ELSE <<Frame("event", o, s.pl[o].m_File, Then("event", about, plid))>>)

\* plid is pl->m_Id, read again after every listener, which may have unloaded
\* that plugin: what a deleted CPlugin holds is anything.
PlidRead(s, then) ==
    CASE then.obj = Nobody          -> {then.id}
      [] then.obj \in DOMAIN s.pl   -> {s.pl[then.obj].m_Id}
      [] OTHER                      -> 0..s.m_LastId

\* SetAllLoaded from position k.
Tell(s, o) ==
    IF o = Nobody THEN Config(s, <<>>)
    ELSE Config([s EXCEPT !.pl[o].told = @ + 1],
                <<Frame("AllPluginsLoaded", o, s.pl[o].m_File, Then("setall", o, 0))>>)

TellEvenFailed(s, k) == Tell(s, FirstFrom(s, k, {x \in DOMAIN s.pl : s.pl[x].m_API}))   \* mutant
TellAll(s, k) ==
    Tell(s, FirstFrom(s, k, {x \in DOMAIN s.pl : s.pl[x].m_Status = "Running" /\ s.pl[x].m_API}))

HasCode(p) == p.m_API /\ p.m_Lib

\* _Unload up to the plugin's Unload; a plugin without code goes at once.
\* Forced is part of the continuation.
_Unload(s, o, then) ==
    IF HasCode(s.pl[o])
    THEN Config(s, <<Frame("Unload", o, s.pl[o].m_File, then)>>)
    ELSE Config(Delete(EraseSameId(s, o), o), <<>>)

Forced(then) == then.what \in {"force", "clear", "retry old", "retry new"}

\* What follows _Unload in its callers, given that it removed the plugin.
RetryOnlyReclaims(s, new, id) == [s EXCEPT !.m_LastId = @ - 1]  \* mutant
RetryDone(s, new, id) ==
    [s EXCEPT !.m_LastId = @ - 1, !.pl = IF new = Nobody THEN @ ELSE [@ EXCEPT ![new].m_Id = id]]

\* UnloadAll: plugins without code go at once, the first other one is called.
UnloadAll(s) ==
    LET list == s.m_Plugins
        gone[n \in 0..Len(list)] ==
            IF n = 0 THEN s ELSE Delete(EraseSameId(gone[n - 1], list[n]), list[n])
        o == FirstFrom(s, 1, {x \in DOMAIN s.pl : HasCode(s.pl[x])})
    IN IF o = Nobody THEN Config(gone[Len(list)], <<>>)
       ELSE _Unload(gone[Position(s, o) - 1], o, Then("clear", Nobody, 0))

AfterUnload(s, then) ==
    CASE then.what \in {"unload", "force"} -> PlEvent(s, 1, Nobody, then.id)
      [] then.what = "clear"     -> UnloadAll(s)
      [] then.what = "retry old" -> Config(RetryDone(s, then.obj, then.id), <<>>)
      [] then.what = "retry new" -> Config(RetryDone(s, Nobody, 0), <<>>)

Unloaded(s, o, then) ==
    LET c == _Unload(s, o, then) IN IF c.call = <<>> THEN AfterUnload(c.m, then) ELSE c

\* The end of _Load, and what Load or Retry do then.
FailedKept(s, o, loop) == s                                     \* mutant
FailedUnloaded(s, o, loop) ==
    IF s.pl[o].m_Lib /\ Failed(s.pl[o].m_Status)
    THEN UnloadPlugin([s EXCEPT !.pl[o].m_Events = FALSE], o, FALSE, loop)
    ELSE s

AfterLoad(s0, o, then, loop) ==
    LET s == FailedUnloaded(s0, o, loop) IN
    CASE then.what = "load"  -> PlEvent(s, 1, o, s.pl[o].m_Id)
      [] then.what = "retry" ->
           IF Failed(s.pl[o].m_Status)
           THEN Unloaded(s, o, Then("retry new", Nobody, 0))
           ELSE Unloaded(s, then.obj, Then("retry old", o, then.id))

\* The CPlugin _Load makes before it calls Load.  m_Status is not initialised
\* until Load has returned: status is whatever the memory held.
Opened(s, f, kind, status) ==
    [NewPlugin(s.m_LastId, f) EXCEPT
       !.m_Lib = kind \in {"NoInterface", "WrongVersion", "Load"},
       !.m_API = kind \in {"WrongVersion", "Load"},
       !.m_UnloadFn = kind \in {"WrongVersion", "Load"},
       !.m_Status = CASE kind = "NotFound" -> "NotFound"
                      [] kind = "Load"     -> status
                      [] OTHER             -> "Error"]

\* The library may be open already.
OpenedLib(l, p) ==
    IF p.m_Lib THEN [refs |-> l.refs + 1, plid |-> l.plid, up |-> l.up \/ p.m_API] ELSE l

Added(s, f, p) ==
    LET o == s.made + 1
    IN [s EXCEPT !.made = o, !.m_LastId = @ + 1, !.m_Plugins = Append(@, o),
                 !.pl = [x \in DOMAIN @ \cup {o} |-> IF x = o THEN p ELSE @[x]],
                 !.lib[f] = OpenedLib(@, p)]

_Load(s, f, kind, status, then, loop) ==
    LET o == s.made + 1
        p == Opened(s, f, kind, status)
        t == Added(s, f, p)
    IN IF kind = "Load"
       THEN Config([t EXCEPT !.lib[f].plid = p.m_Id], <<Frame("Load", o, f, then)>>)
       ELSE AfterLoad(t, o, then, loop)

\* Load: a plugin of this file that failed is taken off the list and loaded
\* again; one that runs is left alone.
SameFile(s, f) == {o \in Elements(s.m_Plugins) : s.pl[o].m_File = f}

Dropped(s, f) ==
    [s EXCEPT !.m_Plugins = Without(@, {o \in SameFile(s, f) : Failed(s.pl[o].m_Status)})]

Load(s, f, kind, status, loop) ==
    _Load(Dropped(s, f), f, kind, status, Then("load", Nobody, 0), loop)

(***************************************************************************)
(* Actions                                                                 *)
(***************************************************************************)
Init ==
    /\ m = [pl |-> <<>>, made |-> 0, m_Plugins |-> <<>>, m_LastId |-> Pl_MinId,
            m_AllLoaded |-> FALSE, hooks |-> {[id |-> 0, file |-> Metamod, paused |-> FALSE]},
            lib |-> [f \in Files |-> IdleLib], pending |-> <<>>]
    /\ stack = <<>>

Top   == stack[Len(stack)]
Below == SubSeq(stack, 1, Len(stack) - 1)
Room  == Len(stack) < MaxDepth

\* c is what happens next in a function called on top of the frames below.
Becomes(c, below) == m' = c.m /\ stack' = below \o c.call

\* Who calls the manager: the engine, Metamod's own handler of an engine's
\* call, or plugin code.
Engine == stack = <<>>
OwnHandler == Len(stack) = 1 /\ Top.file = Metamod /\ Room
Plugin == stack # <<>> /\ Top.file # Metamod /\ Room

\* Plugins whose code is under way outside of handlers, or that a function
\* under way still refers to.
Busy(o) == \E k \in DOMAIN stack :
             \/ stack[k].kind # "handler" /\ stack[k].obj = o
             \/ stack[k].then.what = "retry" /\ stack[k].then.obj = o
             \/ stack[k].then.what = "retry old" /\ stack[k].then.obj = o

Unloading(o)  == \E k \in DOMAIN m.pending : m.pending[k].obj = o
BeingUnloaded(f) == \E o \in DOMAIN m.pl : m.pl[o].m_File = f /\ Unloading(o)
Permitted(what, unless) == what \in Permits \/ ~unless

LoadingOf(kind) == \E k \in DOMAIN stack : stack[k].kind = kind

LoadFile(s, f) ==
    /\ s.made < MaxObjects
    /\ \A o \in SameFile(s, f) : Failed(s.pl[o].m_Status) /\ ~Busy(o)
    /\ \E kind \in Outcomes[f], status \in {"Refused", "Running"} :
         /\ kind # "Load" => status = "Refused"
         /\ Becomes(Load(s, f, kind, status, InLoop), stack)

\* "meta load": first force the pending unloads out.
AsTheyAre(s, force) == s                                        \* mutant
ForcedOut(s, force) == ResolvePendingUnloads(s, force)

ConsoleLoad(f) == Engine /\ LoadFile(ForcedOut(m, TRUE), f)

\* mm_LoadPlugins, which forces nothing out: "meta refresh", and what Metamod's
\* own handlers of GameInit and LevelShutdown read for every level.
ReadingLoad(f) ==
    /\ Engine \/ OwnHandler
    /\ Permitted("read a file that is being unloaded", BeingUnloaded(f))
    /\ LoadFile(m, f)

\* ISmmPluginManager::Load.
PluginLoad(f) ==
    /\ Plugin
    /\ Permitted("load a file that is being unloaded", BeingUnloaded(f))
    /\ Permitted("load in AllPluginsLoaded", LoadingOf("AllPluginsLoaded"))
    /\ Permitted("load in retry or clear",
                 \E k \in DOMAIN stack : stack[k].then.what \in {"retry", "retry old", "retry new", "clear"})
    /\ LoadFile(m, f)

\* Unload by id: "meta unload" and, despite its name, "meta force_unload" let
\* the plugin refuse; plugins may force.
Unload(o, then) ==
    /\ ~Busy(o)
    /\ Permitted("unload what is being unloaded", Unloading(o))
    /\ FindById(m, m.pl[o].m_Id) = o
    /\ Becomes(Unloaded(m, o, then), stack)

ConsoleUnload(o) == Engine /\ Unload(o, Then("unload", Nobody, m.pl[o].m_Id))
PluginUnload(o) ==
    /\ Plugin
    /\ \E what \in {"unload", "force"} : Unload(o, Then(what, Nobody, m.pl[o].m_Id))

Clear == /\ Engine
         /\ m.m_Plugins # <<>>
         /\ Permitted("unload what is being unloaded", \E o \in Elements(m.m_Plugins) : Unloading(o))
         /\ Becomes(UnloadAll(m), stack)

\* "meta retry" of a plugin that failed.
Retry(o) ==
    /\ Engine
    /\ Failed(m.pl[o].m_Status)
    /\ Permitted("unload what is being unloaded", Unloading(o))
    /\ m.made < MaxObjects
    /\ \E kind \in Outcomes[m.pl[o].m_File] :
         Becomes(_Load(m, m.pl[o].m_File, kind, "Refused", Then("retry", o, m.pl[o].m_Id), InLoop),
                 stack)

Pausing(o, kind, status) ==
    /\ Engine \/ Plugin
    /\ ~Busy(o)
    /\ m.pl[o].m_Status = status /\ m.pl[o].m_API
    /\ Becomes(Config(m, <<Frame(kind, o, m.pl[o].m_File, Nothing)>>), stack)

Pause(o)   == /\ Permitted("pause before all are loaded", ~m.m_AllLoaded \/ LoadingOf("AllPluginsLoaded"))
              /\ Pausing(o, "Pause", "Running")
Unpause(o) == Pausing(o, "Unpause", "Paused")

\* From GameDLLInit, or from Metamod's own handler of the engine's call.
SetAllLoaded ==
    /\ Engine \/ OwnHandler
    /\ ~m.m_AllLoaded
    /\ Becomes(TellAll([m EXCEPT !.m_AllLoaded = TRUE], 1), stack)

\* The engine or plugin code calls a hooked function, a handler runs.
CallHandler(h) ==
    /\ Room
    /\ ~h.paused
    /\ m' = m
    /\ stack' = Append(stack, Frame("handler", Nobody, h.file, Nothing))

\* EndContext
HandlerReturns ==
    /\ stack # <<>> /\ Top.kind = "handler"
    /\ stack' = Below
    /\ m' = IF \E k \in DOMAIN Below : Below[k].kind = "handler" THEN m
            ELSE ResolvePendingUnloads(m, FALSE)

BeingRetried(f) == \E k \in DOMAIN stack :
                     stack[k].file = f /\ stack[k].then.what \in {"retry", "retry old"}

\* Plugin code adds a hook under g_PLID, which its Load saved: nothing asks
\* whether that plugin is listed, runs, or has code left to run.
AddHook ==
    /\ stack # <<>> /\ Top.file # Metamod
    /\ LET f == Top.file
           id == m.lib[f].plid
           holders == {o \in DOMAIN m.pl : m.pl[o].m_Lib /\ m.pl[o].m_File = f}
       IN /\ Permitted("hook after unload", BeingUnloaded(f))
          /\ Permitted("hook after retry", BeingRetried(f) \/ \E o \in holders : m.pl[o].m_Id # id)
          /\ Permitted("hook while paused", \E o \in holders : m.pl[o].m_Status = "Paused")
          /\ m' = [m EXCEPT !.hooks = @ \cup {[id |-> id, file |-> f, paused |-> FALSE]}]
    /\ UNCHANGED stack

\* Plugin code removes a hook of its own.
RemoveHook(h) ==
    /\ stack # <<>> /\ Top.file = h.file /\ h.file # Metamod
    /\ m' = [m EXCEPT !.hooks = @ \ {h}]
    /\ UNCHANGED stack

\* MetamodSource::AddListener
AddListener ==
    /\ stack # <<>> /\ Top.kind = "Load"
    /\ LET o == FindByAPI(m, Top.file) IN
       /\ ~m.pl[o].m_Events
       /\ m' = [m EXCEPT !.pl[o].m_Events = TRUE]
    /\ UNCHANGED stack

(***************************************************************************)
(* Plugin code returns                                                     *)
(***************************************************************************)
Returns(kind) == stack # <<>> /\ Top.kind = kind

LoadReturns ==
    /\ Returns("Load")
    /\ \/ LET s == [m EXCEPT !.pl[Top.obj].m_Status = "Running"] IN
          IF m.m_AllLoaded
          THEN Becomes(Config([s EXCEPT !.pl[Top.obj].told = @ + 1],
                              <<[Top EXCEPT !.kind = "AllPluginsLoaded"]>>), Below)
          ELSE Becomes(AfterLoad(s, Top.obj, Top.then, InLoop), Below)
       \/ Becomes(AfterLoad([m EXCEPT !.pl[Top.obj].m_Status = "Refused"], Top.obj, Top.then, InLoop),
                  Below)

AllPluginsLoadedReturns ==
    /\ Returns("AllPluginsLoaded")
    /\ Becomes(IF Top.then.what = "setall" THEN TellAll(m, Position(m, Top.obj) + 1)
               ELSE AfterLoad(m, Top.obj, Top.then, InLoop), Below)

EventReturns ==
    /\ Returns("event")
    /\ \E plid \in PlidRead(m, Top.then) :
         Becomes(PlEvent(m, Position(m, Top.obj) + 1, Top.then.obj, plid), Below)

UnloadReturns ==
    /\ Returns("Unload")
    /\ \/ LET s == EraseSameId([m EXCEPT !.pl[Top.obj].m_Events = FALSE], Top.obj) IN
          Becomes(AfterUnload(UnloadPlugin(s, Top.obj, TRUE, InLoop), Top.then), Below)
       \/ ~Forced(Top.then) /\ Becomes(Config(m, <<>>), Below)

\* PausePlugin and UnpausePlugin for all hooks of the id.
HooksPausedOnly(s, id, paused) ==                               \* mutant
    {IF h.id = id THEN [h EXCEPT !.paused = TRUE] ELSE h : h \in s.hooks}
HooksPaused(s, id, paused) ==
    {IF h.id = id THEN [h EXCEPT !.paused = paused] ELSE h : h \in s.hooks}

PauseReturns ==
    \E kind \in {"Pause", "Unpause"} :
      /\ Returns(kind)
      /\ \/ LET id == m.pl[Top.obj].m_Id IN
            Becomes(PlEvent([m EXCEPT !.hooks = HooksPaused(m, id, kind = "Pause"),
                                      !.pl[Top.obj].m_Status = IF kind = "Pause" THEN "Paused" ELSE "Running"],
                            1, Top.obj, id), Below)
         \/ Becomes(Config(m, <<>>), Below)

Next ==
    \/ \E f \in Files : ConsoleLoad(f) \/ ReadingLoad(f) \/ PluginLoad(f)
    \/ \E o \in Elements(m.m_Plugins) :
         ConsoleUnload(o) \/ PluginUnload(o) \/ Retry(o) \/ Pause(o) \/ Unpause(o)
    \/ Clear \/ SetAllLoaded
    \/ \E h \in m.hooks : CallHandler(h) \/ RemoveHook(h)
    \/ HandlerReturns \/ AddHook \/ AddListener
    \/ LoadReturns \/ AllPluginsLoadedReturns \/ EventReturns \/ UnloadReturns \/ PauseReturns

Spec == Init /\ [][Next]_vars

(***************************************************************************)
(* Properties                                                              *)
(***************************************************************************)
Listed == Elements(m.m_Plugins)
Owned  == {h \in m.hooks : h.file # Metamod}

\* No library is closed while SourceHook has a hook with a handler in it or
\* while its code is on the stack: unloads from a handler wait, and what an
\* unload removes is all a plugin ever hooked.
CodeStaysMapped ==
    /\ \A h \in Owned : m.lib[h.file].refs > 0
    /\ \A k \in DOMAIN stack : stack[k].file # Metamod => m.lib[stack[k].file].refs > 0

\* Every library a CPlugin holds is of a plugin that runs, is being loaded or
\* waits for its one Unloader, which finds the object and the handle.
LibrariesAccountedFor ==
    /\ \A f \in Files :
         m.lib[f].refs = Cardinality({o \in DOMAIN m.pl : m.pl[o].m_Lib /\ m.pl[o].m_File = f})
    /\ \A k, n \in DOMAIN m.pending :
         /\ m.pending[k].obj \in DOMAIN m.pl /\ m.pl[m.pending[k].obj].m_Lib
         /\ k # n => m.pending[k].obj # m.pending[n].obj
    /\ \A o \in DOMAIN m.pl : m.pl[o].m_Lib =>
         \/ Unloading(o)
         \/ o \in Listed /\ ~Failed(m.pl[o].m_Status)
         \/ \E k \in DOMAIN stack : stack[k].kind = "Load" /\ stack[k].obj = o

\* An id names one listed plugin and is never handed out again while it does;
\* hooks are registered under the id of a plugin whose library they are in.
IdsNameOnePlugin ==
    /\ Listed \subseteq DOMAIN m.pl
    /\ \A o \in Listed : m.pl[o].m_Id < m.m_LastId /\ FindById(m, m.pl[o].m_Id) = o
    /\ \A h \in Owned : \E o \in Listed : m.pl[o].m_Id = h.id /\ m.pl[o].m_File = h.file

\* UnloadInterface_MMS is never called in a library another plugin object
\* still runs from, which a deferred unload of an earlier load could do.
InterfaceStaysUp ==
    \A o \in DOMAIN m.pl : m.pl[o].m_Lib /\ ~Failed(m.pl[o].m_Status) => m.lib[m.pl[o].m_File].up

\* AllPluginsLoaded is called once per load and only after Load accepted,
\* whether the plugin was loaded before or after SetAllLoaded.
AllPluginsLoadedOnce ==
    /\ \A o \in DOMAIN m.pl : m.pl[o].told > 0 => m.pl[o].told = 1 /\ ~Failed(m.pl[o].m_Status)
    /\ stack = <<>> /\ m.m_AllLoaded =>
         \A o \in Listed : m.pl[o].m_Status = "Running" => m.pl[o].told = 1

\* Unless the plugin is just being asked, its hooks are paused exactly when it
\* is, also when it was paused from a handler or listener of another.
PausedWithItsHooks ==
    \A h \in Owned, o \in Listed : m.pl[o].m_Id = h.id /\ ~Busy(o) =>
        (h.paused <=> m.pl[o].m_Status = "Paused")
=============================================================================
