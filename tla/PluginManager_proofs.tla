------------------------ MODULE PluginManager_proofs ------------------------
(***************************************************************************)
(* What CPluginManager promises about libraries, ids, interfaces and       *)
(* hooks, for any files, plugins and depth of calls, as long as plugins    *)
(* and the reading of the files stay within what the code survives         *)
(* (Permits = {}).                                                         *)
(*                                                                         *)
(* PluginInv says of the manager and of the stack of its callers what each *)
(* relies on: who holds a library and why, whose id a hook has, what an    *)
(* Unloader will find, and what a function under way expects of the plugin *)
(* it will go on with.  Every function of the manager is first shown to    *)
(* keep that for any manager s, then every action is a combination of the  *)
(* functions it calls.                                                     *)
(***************************************************************************)
EXTENDS PluginManager, ListLemmas

-----------------------------------------------------------------------------
(* The inductive invariant. *)
PluginsBehave == Permits = {}

Statuses == {"NotFound", "Error", "Refused", "Running", "Paused"}
CPlugins == [m_Id : Nat, m_File : Files, m_Status : Statuses, m_API : BOOLEAN, m_Lib : BOOLEAN,
             m_Events : BOOLEAN, m_UnloadFn : BOOLEAN, told : Nat]
Hooks == [id : Nat, file : Files \cup {Metamod}, paused : BOOLEAN]
Libraries == [refs : Int, plid : Nat, up : BOOLEAN]
Unloaders == [obj : Nat, destroy : BOOLEAN, ripe : BOOLEAN]

Rec(pl, made, list, lastId, allLoaded, hooks, lib, pending) ==
    [pl |-> pl, made |-> made, m_Plugins |-> list, m_LastId |-> lastId, m_AllLoaded |-> allLoaded,
     hooks |-> hooks, lib |-> lib, pending |-> pending]
IsRec(s) == s = Rec(s.pl, s.made, s.m_Plugins, s.m_LastId, s.m_AllLoaded, s.hooks, s.lib, s.pending)

Managers(s) ==
    /\ IsRec(s)
    /\ s.pl = [o \in DOMAIN s.pl |-> s.pl[o]]
    /\ \A o \in DOMAIN s.pl : s.pl[o] \in CPlugins /\ o \in 1..s.made
    /\ s.made \in Nat /\ s.m_LastId \in Nat
    /\ s.m_Plugins \in Seq(Nat) /\ Elements(s.m_Plugins) \subseteq DOMAIN s.pl
    /\ s.hooks \subseteq Hooks
    /\ s.lib \in [Files -> Libraries]
    /\ s.pending \in Seq(Unloaders)

On(s) == Elements(s.m_Plugins)
Waiting(s) == {s.pending[k].obj : k \in DOMAIN s.pending}
Held(s) == {o \in DOMAIN s.pl : s.pl[o].m_Lib}

IdsApart(s) ==
    /\ \A o \in On(s) : s.pl[o].m_Id >= Pl_MinId /\ s.pl[o].m_Id < s.m_LastId
    /\ \A o, x \in On(s) : s.pl[o].m_Id = s.pl[x].m_Id => o = x

FilesApart(s, W, R) ==
    /\ \A x, y \in On(s) : s.pl[x].m_File = s.pl[y].m_File => x = y \/ {x, y} = R
    /\ \A x \in W, y \in On(s) : s.pl[x].m_File = s.pl[y].m_File => x = y \/ {x, y} = R
    /\ \A x, y \in Held(s) : s.pl[x].m_File = s.pl[y].m_File => x = y

LibsHeld(s, W, L) ==
    /\ W \subseteq Held(s)
    /\ L \subseteq On(s) \cap Held(s) /\ L \cap W = {}
    /\ \A o \in W \cap On(s) : Failed(s.pl[o].m_Status)
    /\ \A o \in DOMAIN s.pl : s.pl[o].m_API \/ s.pl[o].m_Events => o \in Held(s)
    /\ \A o \in DOMAIN s.pl : s.pl[o].m_Events => o \in On(s) \ W
    /\ \A o \in Held(s) : o \in W \/ (o \in On(s) /\ (o \in L \/ ~Failed(s.pl[o].m_Status)))
    /\ \A o \in Held(s) : ~Failed(s.pl[o].m_Status) => s.pl[o].m_API
    /\ \A o \in Held(s) : s.lib[s.pl[o].m_File].refs = 1 /\ (s.pl[o].m_API => s.lib[s.pl[o].m_File].up)
    /\ \A f \in Files : s.lib[f].refs = 0 \/ \E o \in Held(s) : s.pl[o].m_File = f

HooksServed(s, W) ==
    \A h \in s.hooks : h.file # Metamod =>
        \E o \in (On(s) \cap Held(s)) \ W :
            /\ s.pl[o].m_Id = h.id /\ s.pl[o].m_File = h.file
            /\ h.paused <=> s.pl[o].m_Status = "Paused"

PluginsOK(s, W, L, R) == IdsApart(s) /\ FilesApart(s, W, R) /\ LibsHeld(s, W, L) /\ HooksServed(s, W)

PendingOK(s) ==
    /\ \A k, n \in DOMAIN s.pending : k # n => s.pending[k].obj # s.pending[n].obj
    /\ \A k \in DOMAIN s.pending : s.pending[k].destroy => s.pending[k].obj \notin On(s)

Kinds == {"handler", "Load", "AllPluginsLoaded", "event", "Unload", "Pause", "Unpause"}
Whats == {"nothing", "load", "retry", "setall", "event", "unload", "force", "clear"}
Thens == [what : Whats, obj : Nat, id : Nat]
Frames == [kind : Kinds, obj : Nat, file : Files \cup {Metamod}, then : Thens]

Fits(fr) ==
    CASE fr.kind \in {"handler", "Pause", "Unpause"} -> fr.then.what = "nothing"
      [] fr.kind = "Load" -> fr.then.what \in {"load", "retry"}
      [] fr.kind = "AllPluginsLoaded" -> fr.then.what \in {"load", "retry", "setall"}
      [] fr.kind = "event" -> fr.then.what = "event"
      [] fr.kind = "Unload" -> fr.then.what \in {"unload", "force", "clear"}

FrameOK(s, W, fr) ==
    /\ Fits(fr)
    /\ fr.kind = "handler" => fr.file = Metamod \/ \E o \in Held(s) : s.pl[o].m_File = fr.file
    /\ fr.kind # "handler" => fr.obj \in (On(s) \cap Held(s)) \ W /\ s.pl[fr.obj].m_File = fr.file
    /\ fr.kind = "Load" => s.pl[fr.obj].m_API /\ s.pl[fr.obj].m_Status # "Paused"
    /\ fr.kind = "AllPluginsLoaded" => s.pl[fr.obj].m_Status = "Running"
    /\ fr.then.what = "retry" =>
         LET old == fr.then.obj IN
         /\ old \in On(s) \ Held(s) /\ Failed(s.pl[old].m_Status) /\ s.pl[old].m_File = fr.file
         /\ s.pl[fr.obj].m_Id = s.m_LastId - 1 /\ fr.then.id = s.pl[old].m_Id
         /\ \A h \in s.hooks : h.file # fr.file

RefersTo(fr, o) ==
    \/ fr.kind # "handler" /\ fr.obj = o
    \/ fr.then.what = "retry" /\ fr.then.obj = o

StackOK(s, fs) ==
    /\ \A k \in DOMAIN fs : FrameOK(s, Waiting(s), fs[k])
    /\ \A k \in DOMAIN fs : fs[k].then.what \in {"retry", "clear"} => k = 1
    /\ \A k \in DOMAIN fs : fs[k].kind \in {"Load", "Unload", "Pause", "Unpause"} =>
          \A j \in 1..k - 1 : ~RefersTo(fs[j], fs[k].obj)
    /\ \A k \in DOMAIN fs : fs[k].then.what = "clear" => Waiting(s) \cap On(s) = {}
    /\ \A k, j \in DOMAIN fs : fs[k].then.what = "clear" => fs[j].kind # "Load"

Loading(fs) == {fs[k].obj : k \in {j \in DOMAIN fs : fs[j].kind = "Load"}}
Retried(fs) == UNION {{fs[k].obj, fs[k].then.obj} : k \in {j \in DOMAIN fs : fs[j].then.what = "retry"}}

Once(s) == \A i, j \in DOMAIN s.m_Plugins : s.m_Plugins[i] = s.m_Plugins[j] => i = j

ConfigOK(s, fs) ==
    /\ Managers(s) /\ fs \in Seq(Frames) /\ Once(s) /\ s.m_LastId >= Pl_MinId
    /\ PluginsOK(s, Waiting(s), Loading(fs), Retried(fs)) /\ PendingOK(s) /\ StackOK(s, fs)

PluginInv == ConfigOK(m, stack)

-----------------------------------------------------------------------------
(* Fields of a manager, and its list. *)
\* A manager's fields are those it is put together from.
LEMMA RecFields ==
    ASSUME NEW a, NEW b, NEW c, NEW d, NEW e, NEW f, NEW g, NEW h,
           NEW t, t = Rec(a, b, c, d, e, f, g, h)
    PROVE  /\ IsRec(t) /\ t.pl = a /\ t.made = b /\ t.m_Plugins = c /\ t.m_LastId = d
           /\ t.m_AllLoaded = e /\ t.hooks = f /\ t.lib = g /\ t.pending = h
BY DEF Rec, IsRec

\* Assigning one field of a manager, one lemma per field: its objects.
LEMMA WithPl ==
    ASSUME NEW s, IsRec(s), NEW x, NEW t, t = [s EXCEPT !.pl = x]
    PROVE  t = Rec(x, s.made, s.m_Plugins, s.m_LastId, s.m_AllLoaded, s.hooks, s.lib, s.pending)
BY DEF Rec, IsRec

\* The list m_Plugins alone is assigned.
LEMMA WithList ==
    ASSUME NEW s, IsRec(s), NEW x, NEW t, t = [s EXCEPT !.m_Plugins = x]
    PROVE  t = Rec(s.pl, s.made, x, s.m_LastId, s.m_AllLoaded, s.hooks, s.lib, s.pending)
BY DEF Rec, IsRec

\* SourceHook's hooks alone are assigned.
LEMMA WithHooks ==
    ASSUME NEW s, IsRec(s), NEW x, NEW t, t = [s EXCEPT !.hooks = x]
    PROVE  t = Rec(s.pl, s.made, s.m_Plugins, s.m_LastId, s.m_AllLoaded, x, s.lib, s.pending)
BY DEF Rec, IsRec

\* The libraries alone are assigned.
LEMMA WithLib ==
    ASSUME NEW s, IsRec(s), NEW x, NEW t, t = [s EXCEPT !.lib = x]
    PROVE  t = Rec(s.pl, s.made, s.m_Plugins, s.m_LastId, s.m_AllLoaded, s.hooks, x, s.pending)
BY DEF Rec, IsRec

\* The queue of Unloaders alone is assigned.
LEMMA WithPending ==
    ASSUME NEW s, IsRec(s), NEW x, NEW t, t = [s EXCEPT !.pending = x]
    PROVE  t = Rec(s.pl, s.made, s.m_Plugins, s.m_LastId, s.m_AllLoaded, s.hooks, s.lib, x)
BY DEF Rec, IsRec

\* m_AllLoaded alone is assigned.
LEMMA WithAllLoaded ==
    ASSUME NEW s, IsRec(s), NEW x, NEW t, t = [s EXCEPT !.m_AllLoaded = x]
    PROVE  t = Rec(s.pl, s.made, s.m_Plugins, s.m_LastId, x, s.hooks, s.lib, s.pending)
BY DEF Rec, IsRec

\* The searches through m_Plugins return the first plugin that fits, or none
\* when none does.
LEMMA FirstFromFinds ==
    ASSUME NEW s, s.m_Plugins \in Seq(Nat), NEW k \in Nat, k >= 1, NEW S
    PROVE  \/ /\ FirstFrom(s, k, S) = Nobody
              /\ \A i \in k..Len(s.m_Plugins) : s.m_Plugins[i] \notin S
           \/ \E i \in k..Len(s.m_Plugins) :
                /\ FirstFrom(s, k, S) = s.m_Plugins[i] /\ s.m_Plugins[i] \in S
                /\ i \in DOMAIN s.m_Plugins
                /\ \A j \in k..i - 1 : s.m_Plugins[j] \notin S
<1>. DEFINE later == {i \in k..Len(s.m_Plugins) : s.m_Plugins[i] \in S}
<1>1. CASE later = {}
  BY <1>1 DEF FirstFrom
<1>2. CASE later # {}
  <2>1. later \subseteq Nat /\ Len(s.m_Plugins) \in Nat
    OBVIOUS
  <2>2. PICK n \in later : \A j \in later : n <= j
    <3>. HIDE DEF later
    <3>. QED
      BY <1>2, <2>1, LeastNatural
  <2>3. DEFINE c == CHOOSE i \in later : \A j \in later : i <= j
  <2>4. c \in later /\ \A j \in later : c <= j
    <3>. HIDE DEF later
    <3>. QED
      BY <2>2
  <2>5. FirstFrom(s, k, S) = s.m_Plugins[c]
    BY <1>2 DEF FirstFrom
  <2>6. c \in k..Len(s.m_Plugins) /\ s.m_Plugins[c] \in S /\ c \in DOMAIN s.m_Plugins
    <3>. HIDE DEF c
    <3>. QED
      BY <2>1, <2>4
  <2>7. \A j \in k..c - 1 : s.m_Plugins[j] \notin S
    <3>. HIDE DEF c
    <3>. QED
      BY <2>1, <2>4
  <2>. QED
    BY <2>5, <2>6, <2>7
<1>. QED
  BY <1>1, <1>2

\* The elements of l are elements of q, in the order they have there.
Sublist(l, q) ==
    \A i, j \in DOMAIN l : i < j =>
       \E a, b \in DOMAIN q : a < b /\ l[i] = q[a] /\ l[j] = q[b]

Untouched(s, t, X) ==
    \A x \in DOMAIN s.pl \ X : /\ x \in DOMAIN t.pl /\ t.pl[x] = s.pl[x]
                               /\ x \in On(s) <=> x \in On(t)

\* What is on the list is an object, and no object is the null pointer.
LEMMA ListedTyped ==
    ASSUME NEW s, Managers(s)
    PROVE  /\ On(s) \subseteq DOMAIN s.pl /\ Nobody \notin DOMAIN s.pl
           /\ \A o \in DOMAIN s.pl : o \in Nat /\ s.pl[o] \in CPlugins
           /\ \A i \in DOMAIN s.m_Plugins : s.m_Plugins[i] \in On(s)
BY DEF Managers, On, Elements, Nobody

\* FindById of a listed plugin's id finds that plugin, while ids are apart.
LEMMA FoundById ==
    ASSUME NEW s, Managers(s), IdsApart(s), NEW o \in On(s)
    PROVE  FindById(s, s.pl[o].m_Id) = o
<1>. DEFINE S == {x \in DOMAIN s.pl : s.pl[x].m_Id = s.pl[o].m_Id}
<1>1. s.m_Plugins \in Seq(Nat) /\ Len(s.m_Plugins) \in Nat
  BY DEF Managers
<1>2. PICK i \in 1..Len(s.m_Plugins) : s.m_Plugins[i] = o
  BY <1>1 DEF On, Elements
<1>3. o \in S
  BY ListedTyped
<1>4. PICK j \in DOMAIN s.m_Plugins : FirstFrom(s, 1, S) = s.m_Plugins[j] /\ s.m_Plugins[j] \in S
  <2>. HIDE DEF S
  <2>. QED
    BY <1>1, <1>2, <1>3, FirstFromFinds
<1>5. s.m_Plugins[j] \in On(s)
  BY <1>4, ListedTyped
<1>. QED
  BY <1>4, <1>5 DEF IdsApart, FindById

\* Erasing from m_Plugins leaves a list of what was not erased.
LEMMA SublistOfPlugins ==
    ASSUME NEW s, Managers(s), NEW M, NEW l, l = Without(s.m_Plugins, M)
    PROVE  l \in Seq(Nat) /\ Elements(l) = On(s) \ M /\ Sublist(l, s.m_Plugins)
<1>. DEFINE q == s.m_Plugins
<1>1. q \in Seq(Nat)
  BY DEF Managers
<1>. HIDE DEF q
<1>2. l = Without(q, M)
  BY DEF q
<1>3. l \in Seq(Nat)
  BY <1>1, <1>2, WithoutIsSublist
<1>4. Elements(l) = Elements(q) \ M
  BY <1>1, <1>2, WithoutIsSublist
<1>5. \A i, j \in DOMAIN l : i < j =>
          \E a, b \in DOMAIN q : a < b /\ l[i] = q[a] /\ l[j] = q[b]
  BY <1>1, <1>2, WithoutIsSublist
<1>6. Sublist(l, q)
  BY <1>5 DEF Sublist
<1>. QED
  BY <1>3, <1>4, <1>6 DEF q, On

\* The loop that erases by id takes the plugin it was called for.
LEMMA EraseTakesIt ==
    ASSUME NEW s, Managers(s), IdsApart(s), NEW o \in On(s), NEW t, t = EraseSameId(s, o)
    PROVE  /\ t = Rec(s.pl, s.made, t.m_Plugins, s.m_LastId, s.m_AllLoaded, s.hooks, s.lib, s.pending)
           /\ t.m_Plugins \in Seq(Nat) /\ On(t) = On(s) \ {o}
           /\ Untouched(s, t, {o}) /\ Sublist(t.m_Plugins, s.m_Plugins)
<1>0. PICK M, l : M = {o} /\ l = Without(s.m_Plugins, M)
  OBVIOUS
<1>1. t = [s EXCEPT !.m_Plugins = l]
  BY <1>0, FoundById DEF EraseSameId
<1>2. t = Rec(s.pl, s.made, l, s.m_LastId, s.m_AllLoaded, s.hooks, s.lib, s.pending)
  BY <1>1, WithList DEF Managers
<1>3. t.m_Plugins = l /\ t.pl = s.pl
  BY <1>2, RecFields
<1>5. l \in Seq(Nat) /\ Elements(l) = On(s) \ M /\ Sublist(l, s.m_Plugins)
  BY <1>0, SublistOfPlugins
<1>6. On(t) = On(s) \ {o}
  BY <1>0, <1>3, <1>5 DEF On
<1>7. Untouched(s, t, {o})
  BY <1>3, <1>6 DEF Untouched
<1>. QED
  BY <1>2, <1>3, <1>5, <1>6, <1>7

-----------------------------------------------------------------------------
(* Unloading a library: CPluginManager::CUnloader. *)
\* The fields ReadyToUnload changes.
ClosedLib(l, p) ==
    [refs |-> l.refs - 1, plid |-> IF l.refs = 1 THEN 0 ELSE l.plid,
     up |-> l.up /\ ~p.m_UnloadFn /\ l.refs > 1]
LibAfter(s, u) == [s.lib EXCEPT ![s.pl[u.obj].m_File] = ClosedLib(@, s.pl[u.obj])]
PlAfter(s, u) ==
    IF u.destroy THEN [x \in DOMAIN s.pl \ {u.obj} |-> s.pl[x]]
    ELSE [s.pl EXCEPT ![u.obj] = [@ EXCEPT !.m_Lib = FALSE, !.m_API = FALSE]]

\* What ReadyToUnload leaves of a manager, field by field.
LEMMA ReadyFields ==
    ASSUME NEW s, Managers(s), NEW u \in Unloaders, u.obj \in Held(s), NEW t, t = ReadyToUnload(s, u)
    PROVE  t = Rec(PlAfter(s, u), s.made, s.m_Plugins, s.m_LastId, s.m_AllLoaded, s.hooks,
                   LibAfter(s, u), s.pending)
<1>1. IsRec(s) /\ u.obj \in DOMAIN s.pl /\ u.destroy \in BOOLEAN
  BY DEF Managers, Held, Unloaders
<1>2. PICK lib : lib = LibAfter(s, u)
  OBVIOUS
<1>3. PICK c : c = [s EXCEPT !.lib = lib]
  OBVIOUS
<1>4. c = Rec(s.pl, s.made, s.m_Plugins, s.m_LastId, s.m_AllLoaded, s.hooks, lib, s.pending)
  BY <1>1, <1>3, WithLib
<1>5. /\ IsRec(c) /\ c.pl = s.pl /\ c.made = s.made /\ c.m_Plugins = s.m_Plugins /\ c.m_LastId = s.m_LastId
      /\ c.m_AllLoaded = s.m_AllLoaded /\ c.hooks = s.hooks /\ c.lib = lib /\ c.pending = s.pending
  BY <1>4, RecFields
<1>6. t = [c EXCEPT !.pl = PlAfter(s, u)]
  <2>1. t = IF u.destroy THEN Delete(c, u.obj)
            ELSE [c EXCEPT !.pl[u.obj] = [@ EXCEPT !.m_Lib = FALSE, !.m_API = FALSE]]
    BY <1>1, <1>2, <1>3 DEF ReadyToUnload, ClosedLib, LibAfter
  <2>2. CASE u.destroy
    BY <1>5, <2>1, <2>2 DEF Delete, PlAfter
  <2>3. CASE ~u.destroy
    BY <1>5, <2>1, <2>3 DEF PlAfter
  <2>. QED
    BY <1>1, <2>2, <2>3
<1>7. t = Rec(PlAfter(s, u), c.made, c.m_Plugins, c.m_LastId, c.m_AllLoaded, c.hooks, c.lib, c.pending)
  BY <1>5, <1>6, WithPl
<1>. QED
  BY <1>2, <1>5, <1>7

Closes(s, t, o) ==
    /\ \A x \in DOMAIN t.pl : /\ t.pl[x].m_Id = s.pl[x].m_Id /\ t.pl[x].m_File = s.pl[x].m_File
                              /\ t.pl[x].m_Status = s.pl[x].m_Status /\ t.pl[x].told = s.pl[x].told
                              /\ t.pl[x].m_Events = s.pl[x].m_Events
                              /\ x = o => ~t.pl[x].m_API
    /\ \A f \in Files : f # s.pl[o].m_File => t.lib[f] = s.lib[f]
    /\ t.lib[s.pl[o].m_File].refs = s.lib[s.pl[o].m_File].refs - 1
    /\ t.made = s.made /\ t.m_Plugins = s.m_Plugins /\ t.m_LastId = s.m_LastId
    /\ t.m_AllLoaded = s.m_AllLoaded /\ t.hooks = s.hooks /\ t.pending = s.pending

\* Closing a library leaves one count less.
LEMMA ClosedTyped ==
    ASSUME NEW l \in Libraries, NEW p, NEW r, r = ClosedLib(l, p)
    PROVE  r \in Libraries /\ r.refs = l.refs - 1
<1>1. PICK a : a = l.refs - 1
  OBVIOUS
<1>2. PICK b : b = IF l.refs = 1 THEN 0 ELSE l.plid
  OBVIOUS
<1>3. PICK c : c = (l.up /\ ~p.m_UnloadFn /\ l.refs > 1)
  OBVIOUS
<1>4. l.refs \in Int /\ l.plid \in Nat
  BY DEF Libraries
<1>5. a \in Int /\ b \in Nat
  BY <1>1, <1>2, <1>4
<1>6. c \in BOOLEAN
  BY <1>3
<1>7. r = [refs |-> a, plid |-> b, up |-> c]
  BY <1>1, <1>2, <1>3 DEF ClosedLib
<1>. QED
  BY <1>1, <1>5, <1>6, <1>7 DEF Libraries

\* What the unload of o leaves of the other objects and of o itself.
LEMMA ReadyEffect ==
    ASSUME NEW s, Managers(s), NEW u \in Unloaders, u.obj \in Held(s), NEW t, t = ReadyToUnload(s, u),
           u.destroy => u.obj \notin On(s)
    PROVE  /\ Managers(t) /\ On(t) = On(s) /\ Held(t) = Held(s) \ {u.obj}
           /\ Untouched(s, t, {u.obj}) /\ DOMAIN t.pl \subseteq DOMAIN s.pl
           /\ Closes(s, t, u.obj)
<1>. DEFINE o == u.obj
            f == s.pl[o].m_File
<1>1. /\ IsRec(s) /\ o \in DOMAIN s.pl /\ u.destroy \in BOOLEAN /\ s.pl[o] \in CPlugins /\ f \in Files
      /\ s.lib \in [Files -> Libraries]
  BY DEF Managers, Held, Unloaders, CPlugins
<1>2. t = Rec(PlAfter(s, u), s.made, s.m_Plugins, s.m_LastId, s.m_AllLoaded, s.hooks,
              LibAfter(s, u), s.pending)
  BY ReadyFields
<1>20. /\ t.pl = PlAfter(s, u) /\ t.lib = LibAfter(s, u)
       /\ IsRec(t) /\ t.made = s.made /\ t.m_Plugins = s.m_Plugins /\ t.m_LastId = s.m_LastId
       /\ t.m_AllLoaded = s.m_AllLoaded /\ t.hooks = s.hooks /\ t.pending = s.pending
  BY <1>2, RecFields
<1>3. /\ t.lib = [s.lib EXCEPT ![f] = ClosedLib(@, s.pl[u.obj])]
      /\ u.destroy => t.pl = [x \in DOMAIN s.pl \ {o} |-> s.pl[x]]
      /\ ~u.destroy => t.pl = [s.pl EXCEPT ![o] = [@ EXCEPT !.m_Lib = FALSE, !.m_API = FALSE]]
  BY <1>20 DEF LibAfter, PlAfter
<1>4. /\ t.lib \in [Files -> Libraries] /\ t.lib[f].refs = s.lib[f].refs - 1
      /\ \A g \in Files : g # f => t.lib[g] = s.lib[g]
  <2>2. PICK r : r = ClosedLib(s.lib[f], s.pl[u.obj])
    OBVIOUS
  <2>3. r \in Libraries /\ r.refs = s.lib[f].refs - 1
    <3>1. PICK l, p : l = s.lib[f] /\ p = s.pl[u.obj]
      OBVIOUS
    <3>2. l \in Libraries /\ r = ClosedLib(l, p)
      BY <1>1, <2>2, <3>1
    <3>3. r \in Libraries /\ r.refs = l.refs - 1
      BY <3>2, ClosedTyped
    <3>. QED
      BY <3>1, <3>3
  <2>4. t.lib = [s.lib EXCEPT ![f] = r]
    BY <1>3, <2>2
  <2>. QED
    BY <1>1, <2>3, <2>4
<1>5. CASE u.destroy
  <2>1. DOMAIN t.pl = DOMAIN s.pl \ {o} /\ \A x \in DOMAIN t.pl : t.pl[x] = s.pl[x]
    BY <1>3, <1>5
  <2>2. t.pl = [x \in DOMAIN t.pl |-> t.pl[x]]
    BY <1>3, <1>5
  <2>3. On(t) = On(s) /\ On(s) \subseteq DOMAIN t.pl
    BY <1>20, <1>5, <2>1 DEF Managers, On
  <2>4. Managers(t)
    BY <1>20, <1>4, <2>1, <2>2, <2>3 DEF Managers, On
  <2>5. Held(t) = Held(s) \ {o}
    BY <2>1 DEF Held
  <2>6. Untouched(s, t, {o})
    BY <2>1, <2>3 DEF Untouched
  <2>. QED
    BY <1>4, <1>20, <1>5, <2>1, <2>3, <2>4, <2>5, <2>6 DEF Closes
<1>6. CASE ~u.destroy
  <2>0. PICK p : p = [s.pl[o] EXCEPT !.m_Lib = FALSE, !.m_API = FALSE]
    OBVIOUS
  <2>00. /\ p \in CPlugins /\ p.m_Lib = FALSE /\ p.m_API = FALSE /\ p.m_Id = s.pl[o].m_Id /\ p.m_File = f
         /\ p.m_Status = s.pl[o].m_Status /\ p.told = s.pl[o].told /\ p.m_Events = s.pl[o].m_Events
    BY <1>1, <2>0 DEF CPlugins
  <2>01. t.pl = [s.pl EXCEPT ![o] = p]
    BY <1>3, <1>6, <2>0
  <2>1. DOMAIN t.pl = DOMAIN s.pl /\ t.pl[o] = p /\ \A x \in DOMAIN t.pl : x # o => t.pl[x] = s.pl[x]
    BY <1>1, <2>01
  <2>2. t.pl = [x \in DOMAIN t.pl |-> t.pl[x]]
    BY <2>01
  <2>3. On(t) = On(s) /\ On(s) \subseteq DOMAIN t.pl
    BY <1>20, <2>1 DEF Managers, On
  <2>4. Managers(t)
    BY <1>20, <1>4, <2>00, <2>1, <2>2, <2>3 DEF Managers, On
  <2>5. Held(t) = Held(s) \ {o}
    BY <2>1, <2>00 DEF Held
  <2>6. Untouched(s, t, {o})
    BY <2>1, <2>3 DEF Untouched
  <2>. QED
    BY <1>4, <1>20, <2>00, <2>1, <2>3, <2>4, <2>5, <2>6 DEF Closes
<1>. QED
  BY <1>1, <1>5, <1>6

\* A library is closed: the plugin object that held it waits no more.
LEMMA ReadyKeepsPlugins ==
    ASSUME NEW s, Managers(s), NEW W, NEW L, NEW R, PluginsOK(s, W, L, R),
           NEW u \in Unloaders, u.obj \in W, u.destroy => u.obj \notin On(s),
           NEW t, t = ReadyToUnload(s, u)
    PROVE  PluginsOK(t, W \ {u.obj}, L, R)
<1>. DEFINE o == u.obj
            f == s.pl[o].m_File
            W2 == W \ {o}
<1>1. /\ IdsApart(s) /\ FilesApart(s, W, R) /\ LibsHeld(s, W, L) /\ HooksServed(s, W)
      /\ o \in Held(s) /\ o \in W
  BY DEF PluginsOK, LibsHeld
<1>2. /\ Managers(t) /\ On(t) = On(s) /\ Held(t) = Held(s) \ {o}
      /\ Untouched(s, t, {o}) /\ DOMAIN t.pl \subseteq DOMAIN s.pl /\ Closes(s, t, o)
  BY <1>1, ReadyEffect
<1>3. \A x \in DOMAIN t.pl : /\ t.pl[x].m_Id = s.pl[x].m_Id /\ t.pl[x].m_File = s.pl[x].m_File
                             /\ t.pl[x].m_Status = s.pl[x].m_Status
                             /\ t.pl[x].m_Events = s.pl[x].m_Events
                             /\ x = o => ~t.pl[x].m_API
  BY <1>2 DEF Closes
<1>4. /\ \A g \in Files : g # f => t.lib[g] = s.lib[g]
      /\ t.lib[f].refs = s.lib[f].refs - 1
      /\ t.m_LastId = s.m_LastId /\ t.hooks = s.hooks
  BY <1>2 DEF Closes
<1>5. On(t) \subseteq DOMAIN t.pl /\ Held(t) \subseteq DOMAIN t.pl /\ Held(s) \subseteq DOMAIN s.pl
  BY <1>2, ListedTyped DEF Held
<1>6. \A x \in DOMAIN s.pl : s.pl[x].m_File \in Files
  BY ListedTyped DEF CPlugins
<1>7. IdsApart(t)
  <2>1. \A x \in On(t) : x \in On(s) /\ t.pl[x].m_Id = s.pl[x].m_Id
    BY <1>2, <1>3, <1>5
  <2>. QED
    BY <1>1, <1>4, <2>1 DEF IdsApart
<1>8. FilesApart(t, W2, R)
  <2>1. \A x \in W2 : x \in DOMAIN t.pl
    BY <1>1, <1>2, <1>5 DEF LibsHeld
  <2>. QED
    BY <1>1, <1>2, <1>3, <1>5, <2>1 DEF FilesApart
<1>9. HooksServed(t, W2)
  BY <1>1, <1>2, <1>3, <1>4, <1>5 DEF HooksServed
<1>10. LibsHeld(t, W2, L)
  <2>1. W2 \subseteq Held(t) /\ L \subseteq On(t) \cap Held(t) /\ L \cap W2 = {}
    BY <1>1, <1>2 DEF LibsHeld
  <2>2. \A x \in W2 \cap On(t) : Failed(t.pl[x].m_Status)
    BY <1>1, <1>2, <1>3, <1>5 DEF LibsHeld
  <2>3. \A x \in DOMAIN t.pl : t.pl[x].m_Events => x \in On(t) \ W2 /\ x \in Held(t)
    BY <1>1, <1>2, <1>3 DEF LibsHeld
  <2>4. \A x \in DOMAIN t.pl : t.pl[x].m_API => x \in Held(t)
    <3>1. \A x \in DOMAIN t.pl : x # o => x \in DOMAIN s.pl \ {o} /\ t.pl[x] = s.pl[x]
      BY <1>2 DEF Untouched
    <3>. QED
      BY <1>1, <1>2, <1>3, <3>1 DEF LibsHeld
  <2>5. \A x \in Held(t) : x \in W2 \/ (x \in On(t) /\ (x \in L \/ ~Failed(t.pl[x].m_Status)))
    BY <1>1, <1>2, <1>3, <1>5 DEF LibsHeld
  <2>6. \A x \in Held(t) : x \in DOMAIN s.pl \ {o} /\ t.pl[x] = s.pl[x] /\ s.pl[x].m_File # f
    BY <1>1, <1>2, <1>5 DEF Untouched, FilesApart
  <2>7. \A x \in Held(t) : ~Failed(t.pl[x].m_Status) => t.pl[x].m_API
    BY <1>1, <1>2, <2>6 DEF LibsHeld
  <2>8. \A x \in Held(t) : /\ t.lib[t.pl[x].m_File].refs = 1
                           /\ t.pl[x].m_API => t.lib[t.pl[x].m_File].up
    <3>1. \A x \in Held(s) : /\ s.lib[s.pl[x].m_File].refs = 1
                             /\ s.pl[x].m_API => s.lib[s.pl[x].m_File].up
      BY <1>1 DEF LibsHeld
    <3>2. Held(t) \subseteq Held(s)
      BY <1>2
    <3>3. \A x \in Held(t) : t.pl[x] = s.pl[x] /\ t.lib[s.pl[x].m_File] = s.lib[s.pl[x].m_File]
      BY <1>4, <1>6, <2>6
    <3>. QED
      BY <3>1, <3>2, <3>3
  <2>9. ASSUME NEW g \in Files
        PROVE  t.lib[g].refs = 0 \/ \E x \in Held(t) : t.pl[x].m_File = g
    <3>1. CASE g = f
      <4>1. s.lib[f].refs = 1
        BY <1>1 DEF LibsHeld
      <4>. QED
        BY <1>4, <3>1, <4>1
    <3>2. CASE g # f
      <4>1. s.lib[g].refs = 0 \/ \E x \in Held(s) : s.pl[x].m_File = g
        BY <1>1 DEF LibsHeld
      <4>2. \A x \in Held(s) : s.pl[x].m_File = g => x \in Held(t) /\ t.pl[x].m_File = g
        BY <1>2, <1>3, <1>5, <3>2
      <4>. QED
        BY <1>4, <3>2, <4>1, <4>2
    <3>. QED
      BY <3>1, <3>2
  <2>. QED
    BY <2>1, <2>2, <2>3, <2>4, <2>5, <2>7, <2>8, <2>9 DEF LibsHeld
<1>. QED
  BY <1>7, <1>8, <1>9, <1>10 DEF PluginsOK

-----------------------------------------------------------------------------
(* Pending unloads. *)
\* PluginsOK says nothing of the objects made, of who was told and of what is pending.
LEMMA SamePlugins ==
    ASSUME NEW s, NEW t, NEW W, NEW L, NEW R, PluginsOK(s, W, L, R),
           t.pl = s.pl, t.m_Plugins = s.m_Plugins, t.m_LastId = s.m_LastId, t.hooks = s.hooks, t.lib = s.lib
    PROVE  PluginsOK(t, W, L, R)
<1>1. On(t) = On(s) /\ Held(t) = Held(s)
  BY DEF On, Held
<1>2. IdsApart(t) /\ FilesApart(t, W, R)
  BY <1>1 DEF PluginsOK, IdsApart, FilesApart
<1>3. LibsHeld(t, W, L)
  BY <1>1 DEF PluginsOK, LibsHeld
<1>4. HooksServed(t, W)
  BY <1>1 DEF PluginsOK, HooksServed
<1>. QED
  BY <1>2, <1>3, <1>4 DEF PluginsOK

\* What resolving leaves alone.
Kept(s, t) ==
    /\ Sublist(t.m_Plugins, s.m_Plugins) /\ On(t) \subseteq On(s)
    /\ t.made = s.made /\ t.m_LastId = s.m_LastId
    /\ t.m_AllLoaded = s.m_AllLoaded /\ t.hooks \subseteq s.hooks
    /\ \A x \in DOMAIN t.pl : /\ x \in DOMAIN s.pl /\ t.pl[x].m_Id = s.pl[x].m_Id
                              /\ t.pl[x].m_File = s.pl[x].m_File
                              /\ t.pl[x].m_Status = s.pl[x].m_Status /\ t.pl[x].told = s.pl[x].told

\* A list is a sublist of itself.
LEMMA SublistOfItself ==
    ASSUME NEW l
    PROVE  Sublist(l, l)
BY DEF Sublist

\* A sublist of a sublist is a sublist.
LEMMA SublistTwice ==
    ASSUME NEW l, NEW q, NEW r, Sublist(l, q), Sublist(q, r)
    PROVE  Sublist(l, r)
BY DEF Sublist

\* Two steps that keep the manager's counters keep them together.
LEMMA KeptTwice ==
    ASSUME NEW s, NEW t, NEW t2, Kept(s, t), Kept(t, t2)
    PROVE  Kept(s, t2)
BY SublistTwice DEF Kept

\* Two steps that leave plugins alone leave them alone together.
LEMMA UntouchedTwice ==
    ASSUME NEW s, NEW t, NEW t2, NEW X, Untouched(s, t, X), Untouched(t, t2, X)
    PROVE  Untouched(s, t2, X)
BY DEF Untouched

\* The pending unload u is looked at; those of Rest are not yet.
ResolveStep(t, force, u) ==
    IF force \/ u.ripe THEN ReadyToUnload(t, u)
    ELSE [t EXCEPT !.pending = Append(@, [u EXCEPT !.ripe = TRUE])]

\* An Unloader is queued for a plugin that has none.
LEMMA AppendWaits ==
    ASSUME NEW t, t.pending \in Seq(Unloaders), NEW u \in Unloaders, NEW t2,
           t2.pending = Append(t.pending, u)
    PROVE  /\ t2.pending \in Seq(Unloaders) /\ Waiting(t2) = Waiting(t) \cup {u.obj}
           /\ PendingOK(t) /\ u.obj \notin Waiting(t) /\ On(t2) = On(t)
              /\ (u.destroy => u.obj \notin On(t)) => PendingOK(t2)
<1>. DEFINE p == t.pending
            q == t2.pending
<1>1. /\ q \in Seq(Unloaders) /\ Len(p) \in Nat /\ Len(q) = Len(p) + 1
      /\ q[Len(p) + 1] = u /\ \A i \in 1..Len(p) : q[i] = p[i]
      /\ DOMAIN p = 1..Len(p) /\ DOMAIN q = 1..Len(q)
  OBVIOUS
<1>. HIDE DEF p, q
<1>2. \A n \in Nat : 1..n + 1 = (1..n) \cup {n + 1}
  OBVIOUS
<1>3. DOMAIN q = DOMAIN p \cup {Len(p) + 1} /\ Len(p) + 1 \notin DOMAIN p
  BY <1>1, <1>2
<1>4. Waiting(t2) = Waiting(t) \cup {u.obj}
  <2>1. Waiting(t) = {p[k].obj : k \in DOMAIN p} /\ Waiting(t2) = {q[k].obj : k \in DOMAIN q}
    BY DEF p, q, Waiting
  <2>. QED
    BY <1>1, <1>3, <2>1
<1>5. ASSUME PendingOK(t), u.obj \notin Waiting(t), On(t2) = On(t), u.destroy => u.obj \notin On(t)
      PROVE  PendingOK(t2)
  <2>1. /\ \A k, n \in DOMAIN p : k # n => p[k].obj # p[n].obj
        /\ \A k \in DOMAIN p : p[k].destroy => p[k].obj \notin On(t)
        /\ \A k \in DOMAIN p : p[k].obj # u.obj
    BY <1>5 DEF p, PendingOK, Waiting
  <2>2. /\ \A k, n \in DOMAIN q : k # n => q[k].obj # q[n].obj
        /\ \A k \in DOMAIN q : q[k].destroy => q[k].obj \notin On(t2)
    BY <1>1, <1>3, <1>5, <2>1
  <2>. QED
    BY <2>2 DEF q, PendingOK
<1>. QED
  BY <1>1, <1>4, <1>5 DEF q

StepReady(t, u, Rest, L, R) ==
    /\ Managers(t) /\ PendingOK(t) /\ u \in Unloaders
    /\ PluginsOK(t, Waiting(t) \cup (Rest \cup {u.obj}), L, R)
    /\ u.obj \notin Rest /\ u.obj \notin Waiting(t)
    /\ u.destroy = TRUE => u.obj \notin On(t)

StepDone(t, t2, u, force, Rest, L, R) ==
    /\ Managers(t2) /\ PendingOK(t2)
    /\ PluginsOK(t2, Waiting(t2) \cup Rest, L, R)
    /\ Waiting(t2) \subseteq Waiting(t) \cup {u.obj} /\ (force = TRUE => Waiting(t2) = Waiting(t))
    /\ Untouched(t, t2, {u.obj}) /\ Kept(t, t2) /\ t2.m_Plugins = t.m_Plugins

\* One pending unload is tried: it stays queued, or its library is closed.
LEMMA ResolveStepKeeps ==
    ASSUME NEW t, NEW u, NEW Rest, NEW L, NEW R, StepReady(t, u, Rest, L, R),
           NEW force \in BOOLEAN, NEW t2, t2 = ResolveStep(t, force, u)
    PROVE  StepDone(t, t2, u, force, Rest, L, R)
<1>a. PICK W : W = Waiting(t) \cup (Rest \cup {u.obj})
  OBVIOUS
<1>0. /\ Managers(t) /\ PendingOK(t) /\ u \in Unloaders /\ PluginsOK(t, W, L, R) /\ u.obj \in W
      /\ u.obj \notin Rest /\ u.obj \notin Waiting(t)
      /\ u.destroy = TRUE => u.obj \notin On(t)
      /\ W = Waiting(t) \cup (Rest \cup {u.obj})
  BY <1>a DEF StepReady
<1>00. u.destroy \in BOOLEAN
  BY <1>0 DEF Unloaders
<1>1. CASE force \/ u.ripe
  <2>1. t2 = ReadyToUnload(t, u) /\ PluginsOK(t, W, L, R) /\ u.obj \in W
    BY <1>0, <1>1 DEF ResolveStep
  <2>2. u.obj \in Held(t)
    BY <2>1 DEF PluginsOK, LibsHeld
  <2>3. /\ Managers(t2) /\ On(t2) = On(t) /\ Untouched(t, t2, {u.obj})
        /\ DOMAIN t2.pl \subseteq DOMAIN t.pl /\ Closes(t, t2, u.obj)
    BY <1>0, <1>00, <2>1, <2>2, ReadyEffect
  <2>4. PluginsOK(t2, W \ {u.obj}, L, R)
    BY <1>0, <1>00, <2>1, ReadyKeepsPlugins
  <2>5. t2.pending = t.pending
    BY <2>3 DEF Closes
  <2>6. Waiting(t2) = Waiting(t) /\ PendingOK(t2)
    BY <1>0, <2>3, <2>5 DEF Waiting, PendingOK
  <2>7. W \ {u.obj} = Waiting(t2) \cup Rest
    BY <1>0, <2>6
  <2>8. Kept(t, t2) /\ t2.m_Plugins = t.m_Plugins
    BY <2>3, SublistOfItself DEF Kept, Closes
  <2>. QED
    BY <2>3, <2>4, <2>6, <2>7, <2>8 DEF StepDone
<1>2. CASE ~(force \/ u.ripe)
  <2>1. PICK v : v = [u EXCEPT !.ripe = TRUE]
    OBVIOUS
  <2>2. v \in Unloaders /\ v.obj = u.obj /\ v.destroy = u.destroy
    BY <1>0, <2>1 DEF Unloaders
  <2>3. PICK p : p = Append(t.pending, v)
    OBVIOUS
  <2>4. t2 = [t EXCEPT !.pending = p]
    BY <1>2, <2>1, <2>3 DEF ResolveStep
  <2>5. t2 = Rec(t.pl, t.made, t.m_Plugins, t.m_LastId, t.m_AllLoaded, t.hooks, t.lib, p)
    BY <2>4, <1>0, WithPending DEF Managers
  <2>6. /\ IsRec(t2) /\ t2.pl = t.pl /\ t2.made = t.made /\ t2.m_Plugins = t.m_Plugins /\ t2.m_LastId = t.m_LastId
        /\ t2.m_AllLoaded = t.m_AllLoaded /\ t2.hooks = t.hooks /\ t2.lib = t.lib /\ t2.pending = p
    BY <2>5, RecFields
  <2>7. On(t2) = On(t)
    BY <2>6 DEF On
  <2>8. t.pending \in Seq(Unloaders)
    BY <1>0 DEF Managers
  <2>9. p \in Seq(Unloaders) /\ Waiting(t2) = Waiting(t) \cup {u.obj} /\ PendingOK(t2)
    BY <1>0, <1>00, <2>2, <2>3, <2>6, <2>7, <2>8, AppendWaits
  <2>10. Managers(t2)
    BY <1>0, <2>6, <2>9 DEF Managers
  <2>11. Kept(t, t2) /\ Untouched(t, t2, {u.obj}) /\ t2.m_Plugins = t.m_Plugins
    BY <2>6, <2>7, SublistOfItself DEF Kept, Untouched
  <2>13. PluginsOK(t2, W, L, R)
    BY <1>0, <2>6, SamePlugins
  <2>14. W = Waiting(t2) \cup Rest
    BY <1>0, <2>9
  <2>. QED
    BY <1>2, <2>9, <2>10, <2>11, <2>13, <2>14 DEF StepDone
<1>. QED
  BY <1>1, <1>2

\* The body of the loop in ResolvePendingUnloads, f being what it has done before.
ResolveFrom(s, force, f, n) ==
    IF n = 0 THEN [s EXCEPT !.pending = <<>>] ELSE ResolveStep(f[n - 1], force, s.pending[n])

\* The recursive function exists: otherwise take the least n for which it does not.
LEMMA ResolveExists ==
    ASSUME NEW s, NEW force, NEW N \in Nat
    PROVE  \E f : f = [n \in 0..N |-> ResolveFrom(s, force, f, n)]
<1>. DEFINE Exists(k) == \E f : f = [n \in 0..k |-> ResolveFrom(s, force, f, n)]
            Bad == {k \in 0..N : ~Exists(k)}
<1>2. SUFFICES ASSUME Bad # {}
               PROVE  FALSE
  OBVIOUS
<1>3. PICK k \in Bad : \A j \in Bad : k <= j
  <2>1. Bad \subseteq Nat
    OBVIOUS
  <2>. HIDE DEF Bad
  <2>. QED
    BY <1>2, <2>1, LeastNatural
<1>4. CASE k = 0
  <2>0. PICK b : b = [s EXCEPT !.pending = <<>>]
    OBVIOUS
  <2>1. [n \in 0..0 |-> b] = [n \in 0..0 |-> ResolveFrom(s, force, [i \in 0..0 |-> b], n)]
    BY <2>0 DEF ResolveFrom
  <2>. QED
    BY <1>3, <1>4, <2>1
<1>5. CASE k > 0
  <2>1. k - 1 \in 0..N /\ k - 1 \notin Bad
    BY <1>3, <1>5
  <2>2. PICK f : f = [n \in 0..k - 1 |-> ResolveFrom(s, force, f, n)]
    BY <2>1
  <2>3. PICK g : g = [n \in 0..k |-> IF n = k THEN ResolveFrom(s, force, f, k) ELSE f[n]]
    OBVIOUS
  <2>4. ASSUME NEW n \in 0..k
        PROVE  g[n] = ResolveFrom(s, force, g, n)
    <3>1. CASE n = k
      <4>1. g[k - 1] = f[k - 1]
        BY <1>3, <1>5, <2>3
      <4>. QED
        BY <1>5, <2>3, <3>1, <4>1 DEF ResolveFrom
    <3>2. CASE n < k
      <4>0. n \in 0..k - 1 /\ g[n] = f[n]
        BY <1>3, <2>3, <3>2
      <4>1. f[n] = ResolveFrom(s, force, f, n)
        BY <2>2, <4>0
      <4>2. n # 0 => g[n - 1] = f[n - 1]
        BY <1>3, <2>3, <3>2
      <4>. QED
        BY <4>0, <4>1, <4>2 DEF ResolveFrom
    <3>. QED
      BY <1>3, <3>1, <3>2
  <2>5. g = [n \in 0..k |-> ResolveFrom(s, force, g, n)]
    BY <2>3, <2>4
  <2>. QED
    BY <1>3, <2>5
<1>. QED
  BY <1>3, <1>4, <1>5

\* All pending unloads are tried, as ResolvePendingUnloads does when the last
\* handler returns and, by force, for 'meta load'.
LEMMA ResolveKeepsPlugins ==
    ASSUME NEW s, Managers(s), NEW L, NEW R, PluginsOK(s, Waiting(s), L, R), PendingOK(s),
           NEW force \in BOOLEAN, NEW t, t = ResolvePendingUnloads(s, force)
    PROVE  /\ Managers(t) /\ PluginsOK(t, Waiting(t), L, R) /\ PendingOK(t)
           /\ Waiting(t) \subseteq Waiting(s) /\ (force = TRUE => Waiting(t) = {})
           /\ Untouched(s, t, Waiting(s)) /\ Kept(s, t) /\ t.m_Plugins = s.m_Plugins
<1>. DEFINE p == s.pending
            N == Len(p)
            Rest(n) == {p[k].obj : k \in n + 1..N}
<1>1. N \in Nat /\ DOMAIN p = 1..N /\ \A k \in 1..N : p[k] \in Unloaders
  BY DEF Managers
<1>2. PICK f : f = [n \in 0..N |-> ResolveFrom(s, force, f, n)] /\ t = f[N]
  <2>. DEFINE after == CHOOSE f : f = [n \in 0..N |-> ResolveFrom(s, force, f, n)]
  <2>1. t = after[N]
    BY DEF ResolvePendingUnloads, ResolveFrom, ResolveStep
  <2>2. after = [n \in 0..N |-> ResolveFrom(s, force, after, n)]
    BY <1>1, ResolveExists, Zenon
  <2>. QED
    BY <2>1, <2>2
<1>. DEFINE Good(n) ==
       /\ Managers(f[n]) /\ PluginsOK(f[n], Waiting(f[n]) \cup Rest(n), L, R) /\ PendingOK(f[n])
       /\ Waiting(f[n]) \subseteq Waiting(s) \ Rest(n) /\ (force = TRUE => Waiting(f[n]) = {})
       /\ Untouched(s, f[n], Waiting(s)) /\ Kept(s, f[n]) /\ f[n].m_Plugins = s.m_Plugins
<1>3. \A i, k \in 1..N : i # k => p[i].obj # p[k].obj
  BY <1>1 DEF PendingOK
<1>30. \A k \in 1..N : p[k].destroy => p[k].obj \notin On(s)
  BY <1>1 DEF PendingOK
<1>31. Waiting(s) = {p[k].obj : k \in 1..N}
  BY <1>1 DEF Waiting
<1>4. Good(0)
  <2>1. f[0] = [s EXCEPT !.pending = <<>>]
    BY <1>1, <1>2 DEF ResolveFrom
  <2>. HIDE DEF p
  <2>2. f[0] = Rec(s.pl, s.made, s.m_Plugins, s.m_LastId, s.m_AllLoaded, s.hooks, s.lib, <<>>)
    BY <2>1, WithPending DEF Managers
  <2>3. PICK b : b = f[0]
    OBVIOUS
  <2>4. /\ IsRec(b) /\ b.pl = s.pl /\ b.made = s.made /\ b.m_Plugins = s.m_Plugins /\ b.m_LastId = s.m_LastId
        /\ b.m_AllLoaded = s.m_AllLoaded /\ b.hooks = s.hooks /\ b.lib = s.lib /\ b.pending = <<>>
    BY <2>2, <2>3, RecFields
  <2>5. Waiting(b) = {} /\ PendingOK(b)
    BY <2>4 DEF Waiting, PendingOK
  <2>6. Managers(b)
    BY <2>4 DEF Managers
  <2>7. On(b) = On(s)
    BY <2>4 DEF On
  <2>8. Untouched(s, b, Waiting(s)) /\ Kept(s, b)
    BY <2>4, <2>7, SublistOfItself DEF Untouched, Kept
  <2>9. PluginsOK(b, Waiting(s), L, R)
    BY <2>4, SamePlugins
  <2>10. Waiting(b) \cup Rest(0) = Waiting(s)
    BY <1>31, <2>5
  <2>11. Waiting(b) \subseteq Waiting(s) \ Rest(0)
    BY <2>5
  <2>. QED
    BY <2>3, <2>4, <2>5, <2>6, <2>8, <2>9, <2>10, <2>11
<1>5. ASSUME NEW n \in 1..N, Good(n - 1)
      PROVE  Good(n)
  <2>1. f[n] = ResolveStep(f[n - 1], force, p[n])
    BY <1>1, <1>2, SMTT(30) DEF ResolveFrom
  <2>2. PICK b, c, u, rest : b = f[n - 1] /\ c = f[n] /\ u = p[n] /\ rest = Rest(n)
    OBVIOUS
  <2>3. Rest(n - 1) = rest \cup {u.obj} /\ u.obj \notin rest
    BY <1>1, <1>3, <2>2
  <2>4. /\ Managers(b) /\ PluginsOK(b, Waiting(b) \cup (rest \cup {u.obj}), L, R) /\ PendingOK(b)
        /\ Waiting(b) \subseteq Waiting(s) \ (rest \cup {u.obj}) /\ (force = TRUE => Waiting(b) = {})
        /\ Untouched(s, b, Waiting(s)) /\ Kept(s, b) /\ b.m_Plugins = s.m_Plugins
    BY <1>5, <2>2, <2>3
  <2>5. u \in Unloaders /\ (u.destroy => u.obj \notin On(b)) /\ u.obj \in Waiting(s)
    BY <1>1, <1>30, <1>31, <2>2, <2>4 DEF On
  <2>. HIDE DEF p, N, Rest, Good
  <2>50. c = ResolveStep(b, force, u)
    BY <2>1, <2>2
  <2>51. StepReady(b, u, rest, L, R)
    BY <2>3, <2>4, <2>5 DEF StepReady
  <2>52. StepDone(b, c, u, force, rest, L, R)
    BY <2>50, <2>51, ResolveStepKeeps
  <2>6. /\ Managers(c) /\ PluginsOK(c, Waiting(c) \cup rest, L, R) /\ PendingOK(c)
        /\ Waiting(c) \subseteq Waiting(b) \cup {u.obj} /\ (force = TRUE => Waiting(c) = Waiting(b))
        /\ Untouched(b, c, {u.obj}) /\ Kept(b, c) /\ c.m_Plugins = b.m_Plugins
    BY <2>52 DEF StepDone
  <2>7. Waiting(c) \subseteq Waiting(s) \ rest
    BY <2>3, <2>4, <2>5, <2>6
  <2>8. Untouched(b, c, Waiting(s))
    BY <2>5, <2>6 DEF Untouched
  <2>9. Untouched(s, c, Waiting(s)) /\ Kept(s, c)
    BY <2>4, <2>6, <2>8, UntouchedTwice, KeptTwice
  <2>. QED
    BY <2>2, <2>4, <2>6, <2>7, <2>9 DEF Good
<1>6. Good(N)
  <2>. DEFINE Bad == {n \in 0..N : ~Good(n)}
  <2>. HIDE DEF Good, N
  <2>1. SUFFICES ASSUME Bad # {}
                 PROVE  FALSE
    BY <1>1
  <2>2. PICK n \in Bad : \A k \in Bad : n <= k
    <3>1. Bad \subseteq Nat
      BY <1>1
    <3>. HIDE DEF Bad
    <3>. QED
      BY <2>1, <3>1, LeastNatural
  <2>3. n # 0
    BY <1>4, <2>2
  <2>4. n - 1 \in 0..N /\ n \in 1..N
    BY <1>1, <2>2, <2>3
  <2>5. Good(n - 1)
    BY <2>2, <2>4
  <2>. QED
    BY <1>5, <2>2, <2>4, <2>5
<1>7. Rest(N) = {}
  BY <1>1
<1>8. PICK W : W = Waiting(t)
  OBVIOUS
<1>9. Waiting(f[N]) \cup Rest(N) = Waiting(t)
  BY <1>2, <1>7
<1>. HIDE DEF Rest, N, p
<1>. QED
  BY <1>2, <1>6, <1>9

-----------------------------------------------------------------------------
(* UnloadPlugin and Unload. *)
\* From s to t only the object o changed, to p.
PlSet(s, t, o, p) ==
    /\ DOMAIN t.pl = DOMAIN s.pl /\ t.pl[o] = p
    /\ \A x \in DOMAIN s.pl : x # o => t.pl[x] = s.pl[x]
    /\ t.made = s.made /\ t.m_Plugins = s.m_Plugins /\ t.m_LastId = s.m_LastId
    /\ t.m_AllLoaded = s.m_AllLoaded /\ t.hooks = s.hooks /\ t.lib = s.lib /\ t.pending = s.pending

\* One CPlugin is assigned, the others are as they were.
LEMMA PlIsSet ==
    ASSUME NEW s, Managers(s), NEW o \in DOMAIN s.pl, NEW p \in CPlugins,
           NEW t, t = [s EXCEPT !.pl = [s.pl EXCEPT ![o] = p]]
    PROVE  Managers(t) /\ PlSet(s, t, o, p)
<1>1. PICK pl : pl = [s.pl EXCEPT ![o] = p]
  OBVIOUS
<1>20. t = Rec(pl, s.made, s.m_Plugins, s.m_LastId, s.m_AllLoaded, s.hooks, s.lib, s.pending)
  BY <1>1, WithPl DEF Managers
<1>2. PICK c : c = t
  OBVIOUS
<1>21. c = Rec(pl, s.made, s.m_Plugins, s.m_LastId, s.m_AllLoaded, s.hooks, s.lib, s.pending)
  BY <1>2, <1>20
<1>22. /\ IsRec(c) /\ c.pl = pl /\ c.made = s.made /\ c.m_Plugins = s.m_Plugins /\ c.m_LastId = s.m_LastId
       /\ c.m_AllLoaded = s.m_AllLoaded /\ c.hooks = s.hooks /\ c.lib = s.lib /\ c.pending = s.pending
  BY <1>21, RecFields
<1>3. /\ IsRec(t) /\ t.pl = pl /\ t.made = s.made /\ t.m_Plugins = s.m_Plugins /\ t.m_LastId = s.m_LastId
      /\ t.m_AllLoaded = s.m_AllLoaded /\ t.hooks = s.hooks /\ t.lib = s.lib /\ t.pending = s.pending
  BY <1>2, <1>22
<1>4. DOMAIN pl = DOMAIN s.pl /\ pl[o] = p /\ \A x \in DOMAIN s.pl : x # o => pl[x] = s.pl[x]
  BY <1>1
<1>5. pl = [x \in DOMAIN pl |-> pl[x]]
  BY <1>1
<1>6. Managers(t)
  BY <1>3, <1>4, <1>5 DEF Managers
<1>. QED
  BY <1>3, <1>4, <1>6 DEF PlSet

\* Unload removes a plugin's listeners.
LEMMA EventsCleared ==
    ASSUME NEW s, Managers(s), NEW o \in DOMAIN s.pl,
           NEW t, t = [s EXCEPT !.pl[o].m_Events = FALSE]
    PROVE  /\ Managers(t) /\ PlSet(s, t, o, t.pl[o]) /\ t.pl[o] = [s.pl[o] EXCEPT !.m_Events = FALSE]
           /\ t.pl[o] \in CPlugins
<1>1. PICK p : p = [s.pl[o] EXCEPT !.m_Events = FALSE]
  OBVIOUS
<1>2. p \in CPlugins
  BY <1>1 DEF Managers, CPlugins
<1>3. t = [s EXCEPT !.pl = [s.pl EXCEPT ![o] = p]]
  BY <1>1
<1>4. Managers(t) /\ PlSet(s, t, o, p)
  BY <1>2, <1>3, PlIsSet
<1>5. t.pl[o] = p
  BY <1>4 DEF PlSet
<1>. QED
  BY <1>1, <1>2, <1>4, <1>5

\* SourceHook::UnloadPlugin removes the hooks of o, which now waits to be closed.
LEMMA Unhooked ==
    ASSUME NEW s, Managers(s), NEW W, NEW L, NEW R, PluginsOK(s, W, L, R),
           NEW o \in On(s), o \in Held(s), o \notin W,
           NEW t, Managers(t), DOMAIN t.pl = DOMAIN s.pl, t.pl[o] = [s.pl[o] EXCEPT !.m_Events = FALSE],
           \A x \in DOMAIN s.pl : x # o => t.pl[x] = s.pl[x],
           t.lib = s.lib, t.m_LastId = s.m_LastId, t.hooks = {h \in s.hooks : h.id # s.pl[o].m_Id},
           \/ On(t) = On(s) /\ Failed(s.pl[o].m_Status)
           \/ On(t) = On(s) \ {o} /\ o \notin R
    PROVE  PluginsOK(t, W \cup {o}, L \ {o}, R)
<1>1. /\ IdsApart(s) /\ FilesApart(s, W, R) /\ LibsHeld(s, W, L) /\ HooksServed(s, W)
      /\ On(t) \subseteq On(s)
  BY DEF PluginsOK
<1>2. s.pl[o] \in CPlugins /\ o \in DOMAIN s.pl /\ On(s) \subseteq DOMAIN s.pl
  BY ListedTyped
<1>3. /\ t.pl[o].m_Id = s.pl[o].m_Id /\ t.pl[o].m_File = s.pl[o].m_File /\ t.pl[o].m_Lib = s.pl[o].m_Lib
      /\ t.pl[o].m_Status = s.pl[o].m_Status /\ t.pl[o].m_API = s.pl[o].m_API /\ ~t.pl[o].m_Events
  BY <1>2 DEF CPlugins
<1>4. \A x \in DOMAIN s.pl :
      /\ t.pl[x].m_Id = s.pl[x].m_Id /\ t.pl[x].m_File = s.pl[x].m_File /\ t.pl[x].m_Lib = s.pl[x].m_Lib
      /\ t.pl[x].m_Status = s.pl[x].m_Status /\ t.pl[x].m_API = s.pl[x].m_API
      /\ t.pl[x].m_Events => x # o /\ s.pl[x].m_Events
  BY <1>3
<1>5. Held(t) = Held(s) /\ Held(s) \subseteq DOMAIN s.pl
  BY <1>4 DEF Held
<1>6. IdsApart(t)
  BY <1>1, <1>2, <1>4 DEF IdsApart
<1>7. FilesApart(t, W \cup {o}, R)
  <2>1. W \subseteq DOMAIN s.pl
    BY <1>1, <1>5 DEF LibsHeld
  <2>2. \A x \in W \cup {o}, y \in On(t) : t.pl[x].m_File = t.pl[y].m_File => x = y \/ {x, y} = R
    BY <1>1, <1>2, <1>4, <2>1 DEF FilesApart
  <2>. QED
    BY <1>1, <1>2, <1>4, <1>5, <2>2 DEF FilesApart
<1>8. HooksServed(t, W \cup {o})
  <2>. SUFFICES ASSUME NEW h \in t.hooks, h.file # Metamod
                PROVE  \E x \in (On(t) \cap Held(t)) \ (W \cup {o}) :
                          /\ t.pl[x].m_Id = h.id /\ t.pl[x].m_File = h.file
                          /\ h.paused <=> t.pl[x].m_Status = "Paused"
    BY DEF HooksServed
  <2>1. h \in s.hooks /\ h.id # s.pl[o].m_Id
    OBVIOUS
  <2>2. PICK x \in (On(s) \cap Held(s)) \ W : /\ s.pl[x].m_Id = h.id /\ s.pl[x].m_File = h.file
                                              /\ h.paused <=> s.pl[x].m_Status = "Paused"
    BY <1>1, <2>1 DEF HooksServed
  <2>3. x # o /\ x \in On(t)
    BY <2>1, <2>2
  <2>. QED
    BY <1>2, <1>4, <1>5, <2>2, <2>3
<1>9. LibsHeld(t, W \cup {o}, L \ {o})
  <2>1. /\ W \cup {o} \subseteq Held(t) /\ L \ {o} \subseteq On(t) \cap Held(t) /\ (L \ {o}) \cap (W \cup {o}) = {}
    BY <1>1, <1>5 DEF LibsHeld
  <2>2. \A x \in (W \cup {o}) \cap On(t) : Failed(t.pl[x].m_Status)
    BY <1>1, <1>2, <1>4 DEF LibsHeld
  <2>3. \A x \in DOMAIN t.pl : t.pl[x].m_API \/ t.pl[x].m_Events => x \in Held(t)
    BY <1>1, <1>4, <1>5 DEF LibsHeld
  <2>4. \A x \in DOMAIN t.pl : t.pl[x].m_Events => x \in On(t) \ (W \cup {o})
    BY <1>1, <1>4 DEF LibsHeld
  <2>5. \A x \in Held(t) : x \in W \cup {o} \/ (x \in On(t) /\ (x \in L \ {o} \/ ~Failed(t.pl[x].m_Status)))
    BY <1>1, <1>4, <1>5 DEF LibsHeld
  <2>6. \A x \in Held(t) : ~Failed(t.pl[x].m_Status) => t.pl[x].m_API
    BY <1>1, <1>4, <1>5 DEF LibsHeld
  <2>7. \A x \in Held(t) : t.lib[t.pl[x].m_File].refs = 1 /\ (t.pl[x].m_API => t.lib[t.pl[x].m_File].up)
    BY <1>1, <1>4, <1>5 DEF LibsHeld
  <2>8. \A f \in Files : t.lib[f].refs = 0 \/ \E x \in Held(t) : t.pl[x].m_File = f
    BY <1>1, <1>4, <1>5 DEF LibsHeld
  <2>. QED
    BY <2>1, <2>2, <2>3, <2>4, <2>5, <2>6, <2>7, <2>8 DEF LibsHeld
<1>. QED
  BY <1>6, <1>7, <1>8, <1>9 DEF PluginsOK

WithoutHooksOf(v, o) == [v EXCEPT !.hooks = {h \in @ : h.id # v.pl[o].m_Id}]

UnloadReady(v, o, destroy, L, R) ==
    /\ Managers(v) /\ PendingOK(v) /\ o \in Held(v) /\ o \notin Waiting(v)
    /\ destroy = TRUE => o \notin On(v)
    /\ PluginsOK(WithoutHooksOf(v, o), Waiting(v) \cup {o}, L, R)

UnloadDone(v, t, o, loop, L, R) ==
    /\ Managers(t) /\ PendingOK(t) /\ PluginsOK(t, Waiting(t), L, R)
    /\ Untouched(v, t, {o}) /\ Kept(v, t) /\ On(t) = On(v)
    /\ Waiting(t) \subseteq Waiting(v) \cup {o}
    /\ loop = TRUE => t.pl = v.pl
    /\ loop = FALSE => Waiting(t) = Waiting(v) /\ Held(t) = Held(v) \ {o}

\* UnloadPlugin removes the hooks registered under an id and nothing else.
LEMMA WithoutHooksFields ==
    ASSUME NEW v, Managers(v), NEW o, NEW c, c = WithoutHooksOf(v, o)
    PROVE  /\ Managers(c) /\ c.pl = v.pl /\ c.made = v.made /\ c.m_Plugins = v.m_Plugins /\ c.m_LastId = v.m_LastId
           /\ c.m_AllLoaded = v.m_AllLoaded /\ c.lib = v.lib /\ c.pending = v.pending
           /\ c.hooks = {h \in v.hooks : h.id # v.pl[o].m_Id}
           /\ On(c) = On(v) /\ Held(c) = Held(v) /\ Waiting(c) = Waiting(v)
<1>1. PICK hooks : hooks = {h \in v.hooks : h.id # v.pl[o].m_Id}
  OBVIOUS
<1>2. PICK d : d = Rec(v.pl, v.made, v.m_Plugins, v.m_LastId, v.m_AllLoaded, hooks, v.lib, v.pending)
  OBVIOUS
<1>3. c = d
  <2>1. c = [v EXCEPT !.hooks = hooks]
    BY <1>1 DEF WithoutHooksOf
  <2>. QED
    BY <1>2, <2>1, WithHooks DEF Managers
<1>4. /\ IsRec(d) /\ d.pl = v.pl /\ d.made = v.made /\ d.m_Plugins = v.m_Plugins /\ d.m_LastId = v.m_LastId
      /\ d.m_AllLoaded = v.m_AllLoaded /\ d.hooks = hooks /\ d.lib = v.lib /\ d.pending = v.pending
  BY <1>2, RecFields
<1>5. On(d) = On(v) /\ Held(d) = Held(v) /\ Waiting(d) = Waiting(v)
  BY <1>4 DEF On, Held, Waiting
<1>6. Managers(d)
  BY <1>1, <1>4 DEF Managers
<1>. QED
  BY <1>1, <1>3, <1>4, <1>5, <1>6

\* SourceHook::UnloadPlugin: the hooks are gone, the rest waits or is done.
LEMMA UnloadPluginKeeps ==
    ASSUME NEW v, NEW o, NEW destroy \in BOOLEAN, NEW loop \in BOOLEAN, NEW L, NEW R,
           UnloadReady(v, o, destroy, L, R), NEW t, t = UnloadPlugin(v, o, destroy, loop)
    PROVE  UnloadDone(v, t, o, loop, L, R)
<1>1. PICK c : c = WithoutHooksOf(v, o)
  OBVIOUS
<1>2. PICK u : u = [obj |-> o, destroy |-> destroy, ripe |-> FALSE]
  OBVIOUS
<1>3. /\ Managers(v) /\ PendingOK(v) /\ o \in Held(v) /\ o \notin Waiting(v)
      /\ destroy = TRUE => o \notin On(v)
      /\ PluginsOK(c, Waiting(v) \cup {o}, L, R)
  BY <1>1 DEF UnloadReady
<1>4. /\ Managers(c) /\ c.pl = v.pl /\ c.made = v.made /\ c.m_Plugins = v.m_Plugins /\ c.m_LastId = v.m_LastId
      /\ c.m_AllLoaded = v.m_AllLoaded /\ c.lib = v.lib /\ c.pending = v.pending
      /\ c.hooks \subseteq v.hooks
      /\ On(c) = On(v) /\ Held(c) = Held(v) /\ Waiting(c) = Waiting(v)
  BY <1>1, <1>3, WithoutHooksFields
<1>5. u \in Unloaders /\ u.obj = o /\ u.destroy = destroy
  <2>1. o \in Nat
    BY <1>3, ListedTyped DEF Held
  <2>. QED
    BY <1>2, <2>1 DEF Unloaders
<1>6. t = IF loop THEN [c EXCEPT !.pending = Append(@, u)] ELSE ReadyToUnload(c, u)
  BY <1>1, <1>2 DEF UnloadPlugin, WithoutHooksOf
<1>7. Untouched(v, c, {o}) /\ Kept(v, c) /\ PendingOK(c)
  BY <1>3, <1>4, SublistOfItself DEF Untouched, Kept, PendingOK
<1>8. CASE loop = TRUE
  <2>1. PICK p : p = Append(c.pending, u)
    OBVIOUS
  <2>2. PICK d : d = Rec(c.pl, c.made, c.m_Plugins, c.m_LastId, c.m_AllLoaded, c.hooks, c.lib, p)
    OBVIOUS
  <2>3. t = d
    <3>1. t = [c EXCEPT !.pending = p]
      BY <1>6, <1>8, <2>1
    <3>. QED
      BY <1>4, <2>2, <3>1, WithPending DEF Managers
  <2>4. /\ IsRec(d) /\ d.pl = c.pl /\ d.made = c.made /\ d.m_Plugins = c.m_Plugins /\ d.m_LastId = c.m_LastId
        /\ d.m_AllLoaded = c.m_AllLoaded /\ d.hooks = c.hooks /\ d.lib = c.lib /\ d.pending = p
    BY <2>2, RecFields
  <2>5. c.pending \in Seq(Unloaders)
    BY <1>4 DEF Managers
  <2>6. On(d) = On(c) /\ d.pending = Append(c.pending, u)
    BY <2>1, <2>4 DEF On
  <2>7. p \in Seq(Unloaders) /\ Waiting(d) = Waiting(c) \cup {o} /\ PendingOK(d)
    BY <1>3, <1>4, <1>5, <1>7, <2>1, <2>4, <2>5, <2>6, AppendWaits
  <2>8. Managers(d)
    BY <1>4, <2>4, <2>7 DEF Managers
  <2>9. PluginsOK(d, Waiting(d), L, R)
    <3>1. PICK W : W = Waiting(v) \cup {o}
      OBVIOUS
    <3>2. PluginsOK(d, W, L, R)
      BY <1>3, <2>4, <3>1, SamePlugins
    <3>. QED
      BY <1>4, <2>7, <3>1, <3>2
  <2>10. Untouched(v, d, {o}) /\ Kept(v, d)
    BY <1>4, <2>4, <2>6, SublistOfItself DEF Untouched, Kept
  <2>. QED
    BY <1>4, <1>8, <2>3, <2>4, <2>6, <2>7, <2>8, <2>9, <2>10 DEF UnloadDone
<1>9. CASE loop = FALSE
  <2>1. t = ReadyToUnload(c, u)
    BY <1>6, <1>9
  <2>2. u.destroy => u.obj \notin On(c)
    BY <1>3, <1>4, <1>5
  <2>3. /\ Managers(t) /\ On(t) = On(c) /\ Held(t) = Held(c) \ {o} /\ Untouched(c, t, {o})
        /\ DOMAIN t.pl \subseteq DOMAIN c.pl /\ Closes(c, t, o)
    <3>1. u.obj \in Held(c)
      BY <1>3, <1>4, <1>5
    <3>2. /\ Managers(t) /\ On(t) = On(c) /\ Held(t) = Held(c) \ {u.obj} /\ Untouched(c, t, {u.obj})
          /\ DOMAIN t.pl \subseteq DOMAIN c.pl /\ Closes(c, t, u.obj)
      BY <1>4, <1>5, <2>1, <2>2, <3>1, ReadyEffect
    <3>. QED
      BY <1>5, <3>2
  <2>4. PICK W : W = Waiting(v) \cup {o}
    OBVIOUS
  <2>5. PluginsOK(t, W \ {u.obj}, L, R)
    BY <1>3, <1>4, <1>5, <2>1, <2>2, <2>4, ReadyKeepsPlugins
  <2>6. t.pending = c.pending
    BY <2>3 DEF Closes
  <2>7. Waiting(t) = Waiting(v) /\ PendingOK(t)
    BY <1>4, <1>7, <2>3, <2>6 DEF Waiting, PendingOK
  <2>8. W \ {u.obj} = Waiting(t)
    BY <1>3, <1>5, <2>4, <2>7
  <2>9. Kept(c, t)
    BY <2>3, SublistOfItself DEF Kept, Closes
  <2>10. Kept(v, t) /\ Untouched(v, t, {o})
    BY <1>7, <2>3, <2>9, KeptTwice, UntouchedTwice
  <2>. QED
    BY <1>4, <1>9, <2>3, <2>5, <2>7, <2>8, <2>10 DEF UnloadDone
<1>. QED
  BY <1>8, <1>9

\* What the next configuration still has to serve for frames that refer to s.
FilesKept(s, t) == \A x \in Held(s) : x \in Held(t) /\ t.pl[x].m_File = s.pl[x].m_File

SitsWell(s, L, R) == Managers(s) /\ PendingOK(s) /\ PluginsOK(s, Waiting(s), L, R)

FailedDone(s, t, o, loop, L, R) ==
    /\ SitsWell(t, L \ {o}, R)
    /\ Untouched(s, t, {o}) /\ Kept(s, t) /\ On(t) = On(s)
    /\ Waiting(t) \subseteq Waiting(s) \cup {o}
    /\ loop = TRUE => FilesKept(s, t)
    /\ loop = FALSE => Waiting(t) = Waiting(s) /\ (Failed(t.pl[o].m_Status) => o \notin Held(t))

\* The end of a load that failed takes the library of the plugin with it.
LEMMA FailedUnloadedKeeps ==
    ASSUME NEW s, NEW L, NEW R, SitsWell(s, L, R), NEW o \in On(s), o \notin Waiting(s),
           NEW loop \in BOOLEAN, NEW t, t = FailedUnloaded(s, o, loop)
    PROVE  FailedDone(s, t, o, loop, L, R)
<1>1. /\ Managers(s) /\ PendingOK(s) /\ PluginsOK(s, Waiting(s), L, R) /\ o \in DOMAIN s.pl
      /\ s.pl[o] \in CPlugins
  BY ListedTyped DEF SitsWell
<1>2. CASE o \in Held(s) /\ Failed(s.pl[o].m_Status)
  <2>1. PICK v : v = [s EXCEPT !.pl[o].m_Events = FALSE]
    OBVIOUS
  <2>2. /\ Managers(v) /\ PlSet(s, v, o, v.pl[o]) /\ v.pl[o] = [s.pl[o] EXCEPT !.m_Events = FALSE]
        /\ v.pl[o] \in CPlugins
    BY <1>1, <2>1, EventsCleared
  <2>3. /\ DOMAIN v.pl = DOMAIN s.pl /\ \A x \in DOMAIN s.pl : x # o => v.pl[x] = s.pl[x]
        /\ v.made = s.made /\ v.m_Plugins = s.m_Plugins /\ v.m_LastId = s.m_LastId
        /\ v.m_AllLoaded = s.m_AllLoaded /\ v.hooks = s.hooks /\ v.lib = s.lib /\ v.pending = s.pending
    BY <2>2 DEF PlSet
  <2>4. /\ v.pl[o].m_Id = s.pl[o].m_Id /\ v.pl[o].m_File = s.pl[o].m_File /\ v.pl[o].m_Lib = s.pl[o].m_Lib
        /\ v.pl[o].m_Status = s.pl[o].m_Status /\ v.pl[o].told = s.pl[o].told
    BY <1>1, <2>2 DEF CPlugins
  <2>5. On(v) = On(s) /\ Waiting(v) = Waiting(s) /\ Held(v) = Held(s)
    <3>1. \A x \in DOMAIN s.pl : v.pl[x].m_Lib = s.pl[x].m_Lib
      BY <2>3, <2>4
    <3>2. On(v) = On(s) /\ Waiting(v) = Waiting(s)
      BY <2>3 DEF On, Waiting
    <3>3. Held(v) = Held(s)
      BY <2>3, <3>1 DEF Held
    <3>. QED
      BY <3>2, <3>3
  <2>6. PICK c : c = WithoutHooksOf(v, o)
    OBVIOUS
  <2>7. /\ Managers(c) /\ c.pl = v.pl /\ c.made = v.made /\ c.m_Plugins = v.m_Plugins /\ c.m_LastId = v.m_LastId
        /\ c.m_AllLoaded = v.m_AllLoaded /\ c.lib = v.lib /\ c.pending = v.pending
        /\ c.hooks = {h \in v.hooks : h.id # v.pl[o].m_Id}
        /\ On(c) = On(v) /\ Held(c) = Held(v) /\ Waiting(c) = Waiting(v)
    <3>1. Managers(v)
      BY <2>2
    <3>. QED
      BY <2>6, <3>1, WithoutHooksFields
  <2>8. PluginsOK(c, Waiting(s) \cup {o}, L \ {o}, R)
    <3>1. /\ DOMAIN c.pl = DOMAIN s.pl /\ c.pl[o] = [s.pl[o] EXCEPT !.m_Events = FALSE]
          /\ \A x \in DOMAIN s.pl : x # o => c.pl[x] = s.pl[x]
          /\ c.lib = s.lib /\ c.m_LastId = s.m_LastId /\ c.hooks = {h \in s.hooks : h.id # s.pl[o].m_Id}
          /\ On(c) = On(s) /\ Managers(c)
      BY <2>2, <2>3, <2>4, <2>5, <2>7
    <3>2. PICK W : W = Waiting(s)
      OBVIOUS
    <3>3. PluginsOK(s, W, L, R) /\ o \notin W
      BY <1>1, <3>2
    <3>4. PluginsOK(c, W \cup {o}, L \ {o}, R)
      BY <1>1, <1>2, <3>1, <3>3, Unhooked
    <3>. QED
      BY <3>2, <3>4
  <2>9. UnloadReady(v, o, FALSE, L \ {o}, R)
    <3>1. PendingOK(v)
      BY <1>1, <2>3, <2>5 DEF PendingOK
    <3>. QED
      BY <1>2, <2>2, <2>5, <2>6, <2>8, <3>1 DEF UnloadReady
  <2>10. t = UnloadPlugin(v, o, FALSE, loop)
    BY <1>2, <2>1 DEF FailedUnloaded, Held
  <2>11. UnloadDone(v, t, o, loop, L \ {o}, R)
    BY <2>9, <2>10, UnloadPluginKeeps
  <2>12. /\ Managers(t) /\ PendingOK(t) /\ PluginsOK(t, Waiting(t), L \ {o}, R)
         /\ Untouched(v, t, {o}) /\ Kept(v, t) /\ On(t) = On(v)
         /\ Waiting(t) \subseteq Waiting(v) \cup {o}
         /\ loop = TRUE => t.pl = v.pl
         /\ loop = FALSE => Waiting(t) = Waiting(v) /\ Held(t) = Held(v) \ {o}
    BY <2>11 DEF UnloadDone
  <2>13. Untouched(s, v, {o}) /\ Kept(s, v)
    BY <2>3, <2>4, <2>5, SublistOfItself DEF Untouched, Kept
  <2>14. Untouched(s, t, {o}) /\ Kept(s, t)
    BY <2>12, <2>13, UntouchedTwice, KeptTwice
  <2>15. loop = TRUE => FilesKept(s, t)
    <3>1. \A x \in Held(s) : v.pl[x].m_File = s.pl[x].m_File
      BY <2>3, <2>4 DEF Held
    <3>2. t.pl = v.pl => Held(t) = Held(v)
      BY DEF Held
    <3>. QED
      BY <2>5, <2>12, <3>1, <3>2 DEF FilesKept
  <2>. QED
    BY <2>5, <2>12, <2>14, <2>15 DEF FailedDone, SitsWell
<1>3. CASE ~(o \in Held(s) /\ Failed(s.pl[o].m_Status))
  <2>1. t = s
    BY <1>1, <1>3 DEF FailedUnloaded, Held
  <2>2. PluginsOK(s, Waiting(s), L \ {o}, R)
    <3>1. PICK W : W = Waiting(s)
      OBVIOUS
    <3>2. IdsApart(s) /\ FilesApart(s, W, R) /\ LibsHeld(s, W, L) /\ HooksServed(s, W)
      BY <1>1, <3>1 DEF PluginsOK
    <3>3. LibsHeld(s, W, L \ {o})
      BY <1>3, <3>1, <3>2 DEF LibsHeld
    <3>. QED
      BY <3>1, <3>2, <3>3 DEF PluginsOK
  <2>3. Untouched(s, s, {o}) /\ Kept(s, s) /\ FilesKept(s, s)
    BY SublistOfItself DEF Untouched, Kept, FilesKept
  <2>. QED
    BY <1>1, <1>3, <2>1, <2>2, <2>3 DEF FailedDone, SitsWell
<1>. QED
  BY <1>2, <1>3

RemovedDone(s, t, o, loop, L, R) ==
    /\ SitsWell(t, L \ {o}, R)
    /\ Untouched(s, t, {o}) /\ Kept(s, t) /\ On(t) = On(s) \ {o}
    /\ Waiting(t) \subseteq Waiting(s) \cup {o}
    /\ loop = TRUE => FilesKept(s, t)
    /\ loop = FALSE => Waiting(t) = Waiting(s)

Removed(s, o, loop) == UnloadPlugin(EraseSameId([s EXCEPT !.pl[o].m_Events = FALSE], o), o, TRUE, loop)

\* A plugin that agreed to be unloaded, or had to.
LEMMA RemovedKeeps ==
    ASSUME NEW s, NEW L, NEW R, SitsWell(s, L, R), NEW o \in On(s), o \in Held(s), o \notin Waiting(s), o \notin R,
           NEW loop \in BOOLEAN, NEW t, t = Removed(s, o, loop)
    PROVE  RemovedDone(s, t, o, loop, L, R)
<1>1. /\ Managers(s) /\ PendingOK(s) /\ PluginsOK(s, Waiting(s), L, R) /\ o \in DOMAIN s.pl
      /\ s.pl[o] \in CPlugins
  BY ListedTyped DEF SitsWell
<1>2. PICK e : e = [s EXCEPT !.pl[o].m_Events = FALSE]
  OBVIOUS
<1>3. /\ Managers(e) /\ PlSet(s, e, o, e.pl[o]) /\ e.pl[o] = [s.pl[o] EXCEPT !.m_Events = FALSE]
      /\ e.pl[o] \in CPlugins
  BY <1>1, <1>2, EventsCleared
<1>4. /\ DOMAIN e.pl = DOMAIN s.pl /\ \A x \in DOMAIN s.pl : x # o => e.pl[x] = s.pl[x]
      /\ e.made = s.made /\ e.m_Plugins = s.m_Plugins /\ e.m_LastId = s.m_LastId
      /\ e.m_AllLoaded = s.m_AllLoaded /\ e.hooks = s.hooks /\ e.lib = s.lib /\ e.pending = s.pending
  BY <1>3 DEF PlSet
<1>5. /\ e.pl[o].m_Id = s.pl[o].m_Id /\ e.pl[o].m_File = s.pl[o].m_File /\ e.pl[o].m_Lib = s.pl[o].m_Lib
      /\ e.pl[o].m_Status = s.pl[o].m_Status /\ e.pl[o].told = s.pl[o].told
  BY <1>1, <1>3 DEF CPlugins
<1>6. On(e) = On(s) /\ Waiting(e) = Waiting(s) /\ Held(e) = Held(s)
  <2>1. \A x \in DOMAIN s.pl : e.pl[x].m_Lib = s.pl[x].m_Lib
    BY <1>4, <1>5
  <2>. QED
    BY <1>4, <2>1 DEF On, Waiting, Held
<1>7. IdsApart(e)
  <2>1. IdsApart(s) /\ On(s) \subseteq DOMAIN s.pl
    BY <1>1, ListedTyped DEF PluginsOK
  <2>. QED
    BY <1>4, <1>5, <1>6, <2>1 DEF IdsApart
<1>8. PICK v : v = EraseSameId(e, o)
  OBVIOUS
<1>9. /\ v = Rec(e.pl, e.made, v.m_Plugins, e.m_LastId, e.m_AllLoaded, e.hooks, e.lib, e.pending)
      /\ v.m_Plugins \in Seq(Nat) /\ On(v) = On(e) \ {o}
      /\ Untouched(e, v, {o}) /\ Sublist(v.m_Plugins, e.m_Plugins)
  BY <1>3, <1>6, <1>7, <1>8, EraseTakesIt
<1>10. /\ IsRec(v) /\ v.pl = e.pl /\ v.made = e.made /\ v.m_LastId = e.m_LastId
       /\ v.m_AllLoaded = e.m_AllLoaded /\ v.hooks = e.hooks /\ v.lib = e.lib /\ v.pending = e.pending
  <2>1. PICK l : l = v.m_Plugins
    OBVIOUS
  <2>2. v = Rec(e.pl, e.made, l, e.m_LastId, e.m_AllLoaded, e.hooks, e.lib, e.pending)
    BY <1>9, <2>1
  <2>. QED
    BY <2>2, RecFields
<1>11. Managers(v) /\ Waiting(v) = Waiting(s) /\ Held(v) = Held(s) /\ On(v) = On(s) \ {o}
  <2>1. Elements(v.m_Plugins) \subseteq DOMAIN v.pl
    BY <1>3, <1>9, <1>10 DEF Managers, On
  <2>2. Managers(v)
    BY <1>3, <1>9, <1>10, <2>1 DEF Managers
  <2>. QED
    BY <1>6, <1>9, <1>10, <2>2 DEF Waiting, Held
<1>12. PICK c : c = WithoutHooksOf(v, o)
  OBVIOUS
<1>13. /\ Managers(c) /\ c.pl = v.pl /\ c.made = v.made /\ c.m_Plugins = v.m_Plugins /\ c.m_LastId = v.m_LastId
       /\ c.m_AllLoaded = v.m_AllLoaded /\ c.lib = v.lib /\ c.pending = v.pending
       /\ c.hooks = {h \in v.hooks : h.id # v.pl[o].m_Id}
       /\ On(c) = On(v) /\ Held(c) = Held(v) /\ Waiting(c) = Waiting(v)
  BY <1>11, <1>12, WithoutHooksFields
<1>14. PluginsOK(c, Waiting(s) \cup {o}, L \ {o}, R)
  <2>1. /\ DOMAIN c.pl = DOMAIN s.pl /\ c.pl[o] = [s.pl[o] EXCEPT !.m_Events = FALSE]
        /\ \A x \in DOMAIN s.pl : x # o => c.pl[x] = s.pl[x]
        /\ c.lib = s.lib /\ c.m_LastId = s.m_LastId /\ c.hooks = {h \in s.hooks : h.id # s.pl[o].m_Id}
        /\ On(c) = On(s) \ {o} /\ Managers(c)
    BY <1>3, <1>4, <1>5, <1>10, <1>11, <1>13
  <2>2. PICK W : W = Waiting(s)
    OBVIOUS
  <2>3. PluginsOK(s, W, L, R) /\ o \notin W
    BY <1>1, <2>2
  <2>4. PluginsOK(c, W \cup {o}, L \ {o}, R)
    BY <1>1, <2>1, <2>3, Unhooked
  <2>. QED
    BY <2>2, <2>4
<1>15. UnloadReady(v, o, TRUE, L \ {o}, R)
  <2>1. PendingOK(v)
    BY <1>1, <1>4, <1>10, <1>11 DEF PendingOK
  <2>. QED
    BY <1>11, <1>12, <1>14, <2>1 DEF UnloadReady
<1>16. t = UnloadPlugin(v, o, TRUE, loop)
  BY <1>2, <1>8 DEF Removed
<1>17. UnloadDone(v, t, o, loop, L \ {o}, R)
  BY <1>15, <1>16, UnloadPluginKeeps
<1>18. /\ Managers(t) /\ PendingOK(t) /\ PluginsOK(t, Waiting(t), L \ {o}, R)
       /\ Untouched(v, t, {o}) /\ Kept(v, t) /\ On(t) = On(v)
       /\ Waiting(t) \subseteq Waiting(v) \cup {o}
       /\ loop = TRUE => t.pl = v.pl
       /\ loop = FALSE => Waiting(t) = Waiting(v)
  BY <1>17 DEF UnloadDone
<1>19. Untouched(s, v, {o})
  BY <1>4, <1>10, <1>11 DEF Untouched
<1>20. Kept(s, v)
  <2>1. Sublist(v.m_Plugins, s.m_Plugins) /\ On(v) \subseteq On(s)
    BY <1>4, <1>9, <1>11
  <2>. QED
    BY <1>4, <1>5, <1>10, <2>1 DEF Kept
<1>21. Untouched(s, t, {o}) /\ Kept(s, t)
  BY <1>18, <1>19, <1>20, UntouchedTwice, KeptTwice
<1>22. loop = TRUE => FilesKept(s, t)
  <2>1. \A x \in Held(s) : v.pl[x].m_File = s.pl[x].m_File
    BY <1>4, <1>5, <1>10 DEF Held
  <2>2. t.pl = v.pl => Held(t) = Held(v)
    BY DEF Held
  <2>. QED
    BY <1>11, <1>18, <2>1, <2>2 DEF FilesKept
<1>. QED
  BY <1>11, <1>18, <1>21, <1>22 DEF RemovedDone, SitsWell

-----------------------------------------------------------------------------
(* Retry and the ids. *)
\* A sublist of a list without repetitions has none.
LEMMA KeptOnce ==
    ASSUME NEW s, Managers(s), Once(s), NEW t, Managers(t), Kept(s, t)
    PROVE  Once(t)
<1>1. Sublist(t.m_Plugins, s.m_Plugins)
  BY DEF Kept
<1>2. PICK l, q : l = t.m_Plugins /\ q = s.m_Plugins
  OBVIOUS
<1>3. l \in Seq(Nat) /\ q \in Seq(Nat) /\ Sublist(l, q) /\ \A i, j \in DOMAIN q : q[i] = q[j] => i = j
  BY <1>1, <1>2 DEF Managers, Once
<1>4. DOMAIN l \subseteq Nat /\ DOMAIN q \subseteq Nat
  BY <1>3
<1>5. \A i, j \in DOMAIN l : i < j => l[i] # l[j]
  BY <1>3, <1>4 DEF Sublist
<1>6. \A i, j \in DOMAIN l : l[i] = l[j] => i = j
  BY <1>4, <1>5
<1>. QED
  BY <1>2, <1>6 DEF Once

ErasedDone(s, t, o, L, R) ==
    /\ SitsWell(t, L, R)
    /\ Untouched(s, t, {o}) /\ Kept(s, t) /\ On(t) = On(s) \ {o} /\ Waiting(t) = Waiting(s)
    /\ FilesKept(s, t) /\ t.hooks = s.hooks

\* _Unload of a plugin without code.
LEMMA ErasedKeeps ==
    ASSUME NEW s, NEW L, NEW R, SitsWell(s, L, R), NEW o \in On(s), o \notin Held(s),
           NEW R2, R2 = R \/ o \in R,
           NEW t, t = Delete(EraseSameId(s, o), o)
    PROVE  ErasedDone(s, t, o, L, R2)
<1>0. PICK W : W = Waiting(s)
  OBVIOUS
<1>1. /\ Managers(s) /\ PendingOK(s) /\ PluginsOK(s, W, L, R) /\ o \in DOMAIN s.pl
  BY <1>0, ListedTyped DEF SitsWell
<1>2. IdsApart(s) /\ FilesApart(s, W, R) /\ LibsHeld(s, W, L) /\ HooksServed(s, W)
  BY <1>1 DEF PluginsOK
<1>3. PICK v : v = EraseSameId(s, o)
  OBVIOUS
<1>4. PICK l : l = v.m_Plugins
  OBVIOUS
<1>5. /\ v = Rec(s.pl, s.made, l, s.m_LastId, s.m_AllLoaded, s.hooks, s.lib, s.pending)
      /\ l \in Seq(Nat) /\ On(v) = On(s) \ {o} /\ Sublist(l, s.m_Plugins)
  BY <1>1, <1>2, <1>3, <1>4, EraseTakesIt
<1>6. /\ IsRec(v) /\ v.pl = s.pl /\ v.made = s.made /\ v.m_LastId = s.m_LastId
      /\ v.m_AllLoaded = s.m_AllLoaded /\ v.hooks = s.hooks /\ v.lib = s.lib /\ v.pending = s.pending
  BY <1>5, RecFields
<1>7. PICK pl : pl = [x \in DOMAIN s.pl \ {o} |-> s.pl[x]]
  OBVIOUS
<1>8. PICK d : d = Rec(pl, s.made, l, s.m_LastId, s.m_AllLoaded, s.hooks, s.lib, s.pending)
  OBVIOUS
<1>9. t = d
  <2>1. t = [v EXCEPT !.pl = pl]
    BY <1>3, <1>6, <1>7 DEF Delete
  <2>. QED
    BY <1>4, <1>6, <1>8, <2>1, WithPl
<1>10. /\ IsRec(d) /\ d.pl = pl /\ d.made = s.made /\ d.m_Plugins = l /\ d.m_LastId = s.m_LastId
       /\ d.m_AllLoaded = s.m_AllLoaded /\ d.hooks = s.hooks /\ d.lib = s.lib /\ d.pending = s.pending
  BY <1>8, RecFields
<1>11. /\ DOMAIN d.pl = DOMAIN s.pl \ {o} /\ \A x \in DOMAIN d.pl : d.pl[x] = s.pl[x]
       /\ d.pl = [x \in DOMAIN d.pl |-> d.pl[x]]
  BY <1>7, <1>10
<1>12. On(d) = On(s) \ {o}
  BY <1>4, <1>5, <1>10 DEF On
<1>13. Held(d) = Held(s) /\ Held(s) \subseteq DOMAIN d.pl
  BY <1>11 DEF Held
<1>14. Waiting(d) = W
  BY <1>0, <1>10 DEF Waiting
<1>15. On(d) \subseteq DOMAIN d.pl
  BY <1>1, <1>11, <1>12 DEF Managers, On
<1>16. Managers(d)
  BY <1>1, <1>5, <1>10, <1>11, <1>15 DEF Managers, On
<1>17. PendingOK(d)
  BY <1>1, <1>10, <1>12 DEF PendingOK
<1>18. IdsApart(d)
  BY <1>2, <1>10, <1>11, <1>12, <1>15 DEF IdsApart
<1>19. FilesApart(d, W, R2)
  <2>1. W \subseteq Held(s) /\ o \notin W
    BY <1>2 DEF LibsHeld
  <2>2. /\ \A x, y \in On(d) : d.pl[x].m_File = d.pl[y].m_File => x = y \/ {x, y} = R2
        /\ \A x \in W, y \in On(d) : d.pl[x].m_File = d.pl[y].m_File => x = y \/ {x, y} = R2
    BY <1>2, <1>11, <1>12, <1>13, <1>15, <2>1 DEF FilesApart
  <2>. QED
    BY <1>2, <1>11, <1>13, <2>2 DEF FilesApart
<1>20. LibsHeld(d, W, L)
  <2>1. \A x \in Held(d) : d.pl[x] = s.pl[x] /\ x \in Held(s) /\ x # o
    BY <1>11, <1>13
  <2>. QED
    BY <1>2, <1>10, <1>11, <1>12, <1>13, <1>15, <2>1 DEF LibsHeld
<1>21. HooksServed(d, W)
  <2>. SUFFICES ASSUME NEW h \in d.hooks, h.file # Metamod
                PROVE  \E x \in (On(d) \cap Held(d)) \ W :
                          /\ d.pl[x].m_Id = h.id /\ d.pl[x].m_File = h.file
                          /\ h.paused <=> d.pl[x].m_Status = "Paused"
    BY DEF HooksServed
  <2>1. PICK x \in (On(s) \cap Held(s)) \ W : /\ s.pl[x].m_Id = h.id /\ s.pl[x].m_File = h.file
                                              /\ h.paused <=> s.pl[x].m_Status = "Paused"
    BY <1>2, <1>10 DEF HooksServed
  <2>. QED
    BY <1>11, <1>12, <1>13, <2>1
<1>22. PluginsOK(d, Waiting(d), L, R2)
  BY <1>14, <1>18, <1>19, <1>20, <1>21 DEF PluginsOK
<1>23. Untouched(s, d, {o})
  BY <1>11, <1>12 DEF Untouched
<1>24. Kept(s, d)
  <2>1. On(d) \subseteq On(s) /\ Sublist(d.m_Plugins, s.m_Plugins)
    BY <1>5, <1>10, <1>12
  <2>. QED
    BY <1>10, <1>11, <2>1 DEF Kept
<1>25. FilesKept(s, d)
  BY <1>11, <1>13 DEF FilesKept
<1>. QED
  BY <1>0, <1>9, <1>10, <1>12, <1>14, <1>16, <1>17, <1>22, <1>23, <1>24, <1>25 DEF ErasedDone, SitsWell

\* The id counter and the objects are assigned, as Retry does.
LEMMA WithLastId ==
    ASSUME NEW s, IsRec(s), NEW x, NEW y, NEW t, t = [s EXCEPT !.m_LastId = x, !.pl = y]
    PROVE  t = Rec(y, s.made, s.m_Plugins, x, s.m_AllLoaded, s.hooks, s.lib, s.pending)
BY DEF Rec, IsRec

\* The new plugin is gone again, or it has taken the id of the old one.
LEMMA RetryDoneKeeps ==
    ASSUME NEW s, NEW L, NEW R, SitsWell(s, L, R), s.m_LastId >= Pl_MinId + 1,
           \A x \in On(s) : s.pl[x].m_Id < s.m_LastId - 1,
           NEW t, t = RetryDone(s, Nobody, 0)
    PROVE  SitsWell(t, L, R) /\ On(t) = On(s) /\ t.m_Plugins = s.m_Plugins /\ t.made = s.made
           /\ Waiting(t) = Waiting(s) /\ t.m_AllLoaded = s.m_AllLoaded /\ t.pl = s.pl
           /\ t.m_LastId = s.m_LastId - 1
<1>0. PICK W : W = Waiting(s)
  OBVIOUS
<1>1. /\ Managers(s) /\ PendingOK(s) /\ PluginsOK(s, W, L, R)
  BY <1>0, ListedTyped DEF SitsWell
<1>2. IdsApart(s) /\ FilesApart(s, W, R) /\ LibsHeld(s, W, L) /\ HooksServed(s, W)
  BY <1>1 DEF PluginsOK
<1>3. PICK id : id = s.m_LastId - 1
  OBVIOUS
<1>30. PICK q : q = s.pl
  OBVIOUS
<1>4. PICK d : d = Rec(q, s.made, s.m_Plugins, id, s.m_AllLoaded, s.hooks, s.lib, s.pending)
  OBVIOUS
<1>5. t = d
  <2>2. t = [s EXCEPT !.m_LastId = id, !.pl = q]
    BY <1>3, <1>30 DEF RetryDone
  <2>3. t = Rec(q, s.made, s.m_Plugins, id, s.m_AllLoaded, s.hooks, s.lib, s.pending)
    BY <1>1, <2>2, WithLastId DEF Managers
  <2>. QED
    BY <1>4, <2>3
<1>60. /\ IsRec(d) /\ d.pl = q /\ d.made = s.made /\ d.m_Plugins = s.m_Plugins /\ d.m_LastId = id
      /\ d.m_AllLoaded = s.m_AllLoaded /\ d.hooks = s.hooks /\ d.lib = s.lib /\ d.pending = s.pending
  BY <1>4, RecFields
<1>6. /\ IsRec(d) /\ d.pl = s.pl /\ d.made = s.made /\ d.m_Plugins = s.m_Plugins /\ d.m_LastId = id
      /\ d.m_AllLoaded = s.m_AllLoaded /\ d.hooks = s.hooks /\ d.lib = s.lib /\ d.pending = s.pending
  BY <1>30, <1>60
<1>7. On(d) = On(s) /\ Held(d) = Held(s) /\ Waiting(d) = W
  BY <1>0, <1>6 DEF On, Held, Waiting
<1>8. id \in Nat
  BY <1>1, <1>3 DEF Managers, Pl_MinId
<1>9. Managers(d) /\ PendingOK(d)
  BY <1>1, <1>6, <1>7, <1>8 DEF Managers, PendingOK
<1>10. IdsApart(d)
  BY <1>2, <1>3, <1>6, <1>7 DEF IdsApart
<1>11. FilesApart(d, W, R)
  BY <1>2, <1>6, <1>7 DEF FilesApart
<1>12. LibsHeld(d, W, L)
  BY <1>2, <1>6, <1>7 DEF LibsHeld
<1>13. HooksServed(d, W)
  BY <1>2, <1>6, <1>7 DEF HooksServed
<1>14. PluginsOK(d, Waiting(d), L, R)
  BY <1>7, <1>10, <1>11, <1>12, <1>13 DEF PluginsOK
<1>. QED
  BY <1>0, <1>3, <1>5, <1>6, <1>7, <1>9, <1>14 DEF SitsWell

SwapReady(s, new, id) ==
    /\ new \in On(s) /\ new \notin Waiting(s) /\ s.pl[new].m_Id = s.m_LastId - 1
    /\ id \in Nat /\ id >= Pl_MinId /\ id < s.m_LastId - 1 /\ \A x \in On(s) : s.pl[x].m_Id # id
    /\ \A h \in s.hooks : h.file # s.pl[new].m_File

\* Retry gives the new plugin the id of the old one and takes back the id it
\* had used: ids stay apart.
LEMMA RetrySwaps ==
    ASSUME NEW s, NEW L, NEW R, SitsWell(s, L, R), NEW new, NEW id, SwapReady(s, new, id),
           NEW t, t = RetryDone(s, new, id)
    PROVE  SitsWell(t, L, R) /\ On(t) = On(s) /\ t.m_Plugins = s.m_Plugins /\ t.made = s.made
           /\ Waiting(t) = Waiting(s) /\ t.m_AllLoaded = s.m_AllLoaded /\ DOMAIN t.pl = DOMAIN s.pl
           /\ t.m_LastId = s.m_LastId - 1
<1>0. PICK W : W = Waiting(s)
  OBVIOUS
<1>1. /\ Managers(s) /\ PendingOK(s) /\ PluginsOK(s, W, L, R) /\ new \in DOMAIN s.pl /\ new # Nobody
      /\ s.pl[new] \in CPlugins /\ On(s) \subseteq DOMAIN s.pl
  BY <1>0, ListedTyped DEF SitsWell, SwapReady
<1>2. IdsApart(s) /\ FilesApart(s, W, R) /\ LibsHeld(s, W, L) /\ HooksServed(s, W)
  BY <1>1 DEF PluginsOK
<1>3. PICK last : last = s.m_LastId - 1
  OBVIOUS
<1>03. /\ new \in On(s) /\ new \notin Waiting(s) /\ s.pl[new].m_Id = s.m_LastId - 1
       /\ id \in Nat /\ id >= Pl_MinId /\ id < s.m_LastId - 1 /\ \A x \in On(s) : s.pl[x].m_Id # id
       /\ \A h \in s.hooks : h.file # s.pl[new].m_File
  BY DEF SwapReady
<1>30. PICK p : p = [s.pl[new] EXCEPT !.m_Id = id]
  OBVIOUS
<1>31. /\ p \in CPlugins /\ p.m_Id = id /\ p.m_File = s.pl[new].m_File /\ p.m_Lib = s.pl[new].m_Lib
       /\ p.m_Status = s.pl[new].m_Status /\ p.m_API = s.pl[new].m_API /\ p.m_Events = s.pl[new].m_Events
  BY <1>1, <1>03, <1>30 DEF CPlugins
<1>32. PICK pl : pl = [s.pl EXCEPT ![new] = p]
  OBVIOUS
<1>4. PICK d : d = Rec(pl, s.made, s.m_Plugins, last, s.m_AllLoaded, s.hooks, s.lib, s.pending)
  OBVIOUS
<1>5. t = d
  <2>1. t = [s EXCEPT !.m_LastId = last, !.pl = pl]
    BY <1>1, <1>3, <1>30, <1>32 DEF RetryDone
  <2>2. IsRec(s)
    BY <1>1 DEF Managers
  <2>3. t = Rec(pl, s.made, s.m_Plugins, last, s.m_AllLoaded, s.hooks, s.lib, s.pending)
    BY <2>1, <2>2, WithLastId
  <2>. QED
    BY <1>4, <2>3
<1>6. /\ IsRec(d) /\ d.pl = pl /\ d.made = s.made /\ d.m_Plugins = s.m_Plugins /\ d.m_LastId = last
      /\ d.m_AllLoaded = s.m_AllLoaded /\ d.hooks = s.hooks /\ d.lib = s.lib /\ d.pending = s.pending
  BY <1>4, RecFields
<1>60. /\ DOMAIN d.pl = DOMAIN s.pl /\ d.pl[new] = p /\ \A x \in DOMAIN s.pl : x # new => d.pl[x] = s.pl[x]
       /\ d.pl = [x \in DOMAIN d.pl |-> d.pl[x]]
  BY <1>1, <1>6, <1>32
<1>61. \A x \in DOMAIN s.pl :
         /\ d.pl[x].m_File = s.pl[x].m_File /\ d.pl[x].m_Lib = s.pl[x].m_Lib
         /\ d.pl[x].m_Status = s.pl[x].m_Status /\ d.pl[x].m_API = s.pl[x].m_API
         /\ d.pl[x].m_Events = s.pl[x].m_Events
         /\ x # new => d.pl[x].m_Id = s.pl[x].m_Id
  BY <1>31, <1>60
<1>7. On(d) = On(s) /\ Held(d) = Held(s) /\ Waiting(d) = W /\ Held(s) \subseteq DOMAIN s.pl
  <2>1. Held(d) = Held(s)
    BY <1>60, <1>61 DEF Held
  <2>. QED
    BY <1>0, <1>6, <2>1 DEF On, Waiting, Held
<1>8. last \in Nat
  BY <1>1, <1>3, <1>03 DEF Managers, Pl_MinId
<1>9. Managers(d) /\ PendingOK(d)
  <2>1. Managers(d)
    BY <1>1, <1>6, <1>7, <1>8, <1>31, <1>60 DEF Managers
  <2>. QED
    BY <1>1, <1>6, <1>7, <2>1 DEF PendingOK
<1>10. IdsApart(d)
  <2>1. \A x \in On(d) : x # new => d.pl[x].m_Id >= Pl_MinId /\ d.pl[x].m_Id < last /\ d.pl[x].m_Id # id
    <3>. SUFFICES ASSUME NEW x \in On(d), x # new
                  PROVE  d.pl[x].m_Id >= Pl_MinId /\ d.pl[x].m_Id < last /\ d.pl[x].m_Id # id
      OBVIOUS
    <3>1. x \in On(s) /\ d.pl[x].m_Id = s.pl[x].m_Id
      BY <1>1, <1>7, <1>61
    <3>2. s.pl[x].m_Id >= Pl_MinId /\ s.pl[x].m_Id < s.m_LastId /\ s.pl[x].m_Id # s.m_LastId - 1
      BY <1>2, <1>03, <3>1 DEF IdsApart
    <3>3. s.pl[x].m_Id \in Nat /\ s.m_LastId \in Nat
      BY <1>1, <3>1 DEF Managers, CPlugins
    <3>. QED
      BY <1>3, <1>03, <3>1, <3>2, <3>3
  <2>2. \A x, y \in On(d) : d.pl[x].m_Id = d.pl[y].m_Id => x = y
    <3>1. \A x, y \in On(d) : x # new /\ y # new /\ d.pl[x].m_Id = d.pl[y].m_Id => x = y
      BY <1>1, <1>2, <1>7, <1>61 DEF IdsApart
    <3>2. d.pl[new].m_Id = id
      BY <1>31, <1>60
    <3>. QED
      BY <2>1, <3>1, <3>2
  <2>3. d.pl[new].m_Id >= Pl_MinId /\ d.pl[new].m_Id < d.m_LastId
    BY <1>3, <1>03, <1>6, <1>31, <1>60
  <2>. QED
    BY <1>6, <2>1, <2>2, <2>3 DEF IdsApart
<1>11. FilesApart(d, W, R)
  <2>1. W \subseteq DOMAIN s.pl
    BY <1>2, <1>7 DEF LibsHeld
  <2>. QED
    BY <1>1, <1>2, <1>7, <1>61, <2>1 DEF FilesApart
<1>12. LibsHeld(d, W, L)
  BY <1>1, <1>03, <1>2, <1>6, <1>7, <1>60, <1>61 DEF LibsHeld
<1>13. HooksServed(d, W)
  <2>. SUFFICES ASSUME NEW h \in d.hooks, h.file # Metamod
                PROVE  \E x \in (On(d) \cap Held(d)) \ W :
                          /\ d.pl[x].m_Id = h.id /\ d.pl[x].m_File = h.file
                          /\ h.paused <=> d.pl[x].m_Status = "Paused"
    BY DEF HooksServed
  <2>1. PICK x \in (On(s) \cap Held(s)) \ W : /\ s.pl[x].m_Id = h.id /\ s.pl[x].m_File = h.file
                                              /\ h.paused <=> s.pl[x].m_Status = "Paused"
    BY <1>2, <1>6 DEF HooksServed
  <2>2. x # new
    BY <1>03, <1>6, <2>1
  <2>. QED
    BY <1>1, <1>7, <1>61, <2>1, <2>2
<1>14. PluginsOK(d, Waiting(d), L, R)
  BY <1>7, <1>10, <1>11, <1>12, <1>13 DEF PluginsOK
<1>. QED
  BY <1>0, <1>3, <1>5, <1>6, <1>7, <1>9, <1>14, <1>60 DEF SitsWell

-----------------------------------------------------------------------------
(* New plugins. *)
DroppedDone(s, t, S, L, R) ==
    /\ SitsWell(t, L, R)
    /\ Untouched(s, t, S) /\ Kept(s, t) /\ On(t) = On(s) \ S /\ Waiting(t) = Waiting(s)
    /\ t.pl = s.pl /\ t.hooks = s.hooks /\ FilesKept(s, t)

FailedOf(s, f) == {o \in SameFile(s, f) : Failed(s.pl[o].m_Status)}

\* Plugins without a library are taken off the list; their objects stay.
LEMMA DroppedKeeps ==
    ASSUME NEW s, NEW L, NEW R, SitsWell(s, L, R), NEW f,
           NEW S, S = FailedOf(s, f), S \cap Held(s) = {},
           NEW t, t = Dropped(s, f)
    PROVE  DroppedDone(s, t, S, L, R)
<1>0. PICK W : W = Waiting(s)
  OBVIOUS
<1>1. /\ Managers(s) /\ PendingOK(s) /\ PluginsOK(s, W, L, R)
  BY <1>0, ListedTyped DEF SitsWell
<1>2. IdsApart(s) /\ FilesApart(s, W, R) /\ LibsHeld(s, W, L) /\ HooksServed(s, W)
  BY <1>1 DEF PluginsOK
<1>3. PICK l : l = Without(s.m_Plugins, S)
  OBVIOUS
<1>4. l \in Seq(Nat) /\ Elements(l) = On(s) \ S /\ Sublist(l, s.m_Plugins)
  BY <1>1, <1>3, SublistOfPlugins
<1>5. PICK d : d = Rec(s.pl, s.made, l, s.m_LastId, s.m_AllLoaded, s.hooks, s.lib, s.pending)
  OBVIOUS
<1>6. t = d
  <2>1. t = [s EXCEPT !.m_Plugins = l]
    BY <1>3 DEF Dropped, FailedOf
  <2>2. IsRec(s)
    BY <1>1 DEF Managers
  <2>3. t = Rec(s.pl, s.made, l, s.m_LastId, s.m_AllLoaded, s.hooks, s.lib, s.pending)
    BY <2>1, <2>2, WithList
  <2>. QED
    BY <1>5, <2>3
<1>7. /\ IsRec(d) /\ d.pl = s.pl /\ d.made = s.made /\ d.m_Plugins = l /\ d.m_LastId = s.m_LastId
      /\ d.m_AllLoaded = s.m_AllLoaded /\ d.hooks = s.hooks /\ d.lib = s.lib /\ d.pending = s.pending
  BY <1>5, RecFields
<1>8. On(d) = On(s) \ S /\ Held(d) = Held(s) /\ Waiting(d) = W
  BY <1>0, <1>4, <1>7 DEF On, Held, Waiting
<1>9. Managers(d) /\ PendingOK(d)
  <2>1. Elements(d.m_Plugins) \subseteq DOMAIN d.pl
    BY <1>1, <1>4, <1>7 DEF Managers, On
  <2>2. Managers(d)
    BY <1>1, <1>4, <1>7, <2>1 DEF Managers
  <2>. QED
    BY <1>1, <1>7, <1>8, <2>2 DEF PendingOK
<1>10. IdsApart(d)
  BY <1>2, <1>7, <1>8 DEF IdsApart
<1>11. FilesApart(d, W, R)
  BY <1>2, <1>7, <1>8 DEF FilesApart
<1>12. LibsHeld(d, W, L)
  <2>1. L \cap S = {}
    BY <1>2 DEF LibsHeld
  <2>2. L \subseteq On(d) \cap Held(d)
    BY <1>2, <1>8, <2>1 DEF LibsHeld
  <2>3. \A x \in DOMAIN d.pl : d.pl[x].m_Events => x \in On(d) \ W
    BY <1>2, <1>7, <1>8 DEF LibsHeld
  <2>4. \A x \in Held(d) : x \in W \/ (x \in On(d) /\ (x \in L \/ ~Failed(d.pl[x].m_Status)))
    BY <1>2, <1>7, <1>8 DEF LibsHeld
  <2>. QED
    BY <1>2, <1>7, <1>8, <2>2, <2>3, <2>4 DEF LibsHeld
<1>13. HooksServed(d, W)
  BY <1>2, <1>7, <1>8 DEF HooksServed
<1>14. PluginsOK(d, Waiting(d), L, R)
  BY <1>8, <1>10, <1>11, <1>12, <1>13 DEF PluginsOK
<1>15. Untouched(s, d, S) /\ Kept(s, d) /\ FilesKept(s, d)
  <2>1. On(d) \subseteq On(s) /\ Sublist(d.m_Plugins, s.m_Plugins)
    BY <1>4, <1>7, <1>8
  <2>. QED
    BY <1>7, <1>8, <2>1 DEF Untouched, Kept, FilesKept
<1>. QED
  BY <1>0, <1>6, <1>7, <1>8, <1>9, <1>14, <1>15 DEF DroppedDone, SitsWell

WithObject(s, a, b, c, d, e) ==
    [s EXCEPT !.made = a, !.m_LastId = b, !.m_Plugins = c, !.pl = d, !.lib = e]

\* The fields _Load assigns when it adds an object.
LEMMA WithNew ==
    ASSUME NEW s, IsRec(s), NEW a, NEW b, NEW c, NEW d, NEW e,
           NEW t, t = WithObject(s, a, b, c, d, e)
    PROVE  t = Rec(d, a, c, b, s.m_AllLoaded, s.hooks, e, s.pending)
BY DEF Rec, IsRec, WithObject

\* What is true of a CPlugin when the manager has just made it.
Fresh(s, f, p) ==
    /\ p \in CPlugins /\ p.m_Id = s.m_LastId /\ p.m_File = f /\ p.m_Events = FALSE
    /\ p.m_API = TRUE => p.m_Lib = TRUE
    /\ p.m_Lib = TRUE /\ ~Failed(p.m_Status) => p.m_API = TRUE

LibGained(s, f, p, lib) ==
    /\ lib \in [Files -> Libraries]
    /\ \A g \in Files : g # f => lib[g] = s.lib[g]
    /\ p.m_Lib = TRUE => lib[f].refs = s.lib[f].refs + 1 /\ (p.m_API = TRUE => lib[f].up)
    /\ p.m_Lib = FALSE => lib[f] = s.lib[f]

AddedDone(s, t, o, p, L, R) ==
    /\ SitsWell(t, L, R) /\ Once(t)
    /\ Untouched(s, t, {}) /\ On(t) = On(s) \cup {o} /\ Waiting(t) = Waiting(s)
    /\ o \notin DOMAIN s.pl /\ t.pl[o] = p
    /\ t.hooks = s.hooks /\ FilesKept(s, t) /\ t.m_LastId = s.m_LastId + 1 /\ t.made = s.made + 1
    /\ t.m_AllLoaded = s.m_AllLoaded

Distinct(l) == \A i, j \in DOMAIN l : l[i] = l[j] => i = j
Appends(l, o, q) == l \in Seq(Nat) /\ o \in Nat /\ q = Append(l, o)

\* A plugin is appended to the list.
LEMMA AppendListed ==
    ASSUME NEW l, NEW o, NEW q, Appends(l, o, q)
    PROVE  /\ q \in Seq(Nat) /\ Elements(q) = Elements(l) \cup {o}
           /\ Distinct(l) /\ o \notin Elements(l) => Distinct(q)
<1>0. l \in Seq(Nat) /\ o \in Nat /\ q = Append(l, o)
  BY DEF Appends
<1>1. /\ q \in Seq(Nat) /\ Len(l) \in Nat /\ Len(q) = Len(l) + 1
      /\ q[Len(l) + 1] = o /\ \A i \in 1..Len(l) : q[i] = l[i]
      /\ DOMAIN l = 1..Len(l) /\ DOMAIN q = 1..Len(q)
  BY <1>0
<1>2. \A n \in Nat : 1..n + 1 = (1..n) \cup {n + 1}
  OBVIOUS
<1>3. DOMAIN q = DOMAIN l \cup {Len(l) + 1} /\ Len(l) + 1 \notin DOMAIN l
  BY <1>1, <1>2
<1>4. Elements(q) = Elements(l) \cup {o}
  BY <1>1, <1>3 DEF Elements
<1>5. ASSUME \A i, j \in DOMAIN l : l[i] = l[j] => i = j, o \notin Elements(l)
      PROVE  \A i, j \in DOMAIN q : q[i] = q[j] => i = j
  <2>1. \A i \in DOMAIN l : l[i] # o
    BY <1>5 DEF Elements
  <2>. QED
    BY <1>1, <1>3, <1>5, <2>1
<1>. QED
  BY <1>1, <1>4, <1>5 DEF Distinct

\* A new CPlugin, after the list and the ids of the others.
PutIn(s, o, p, lib) ==
    [s EXCEPT !.made = o, !.m_LastId = @ + 1, !.m_Plugins = Append(@, o),
              !.pl = [x \in DOMAIN @ \cup {o} |-> IF x = o THEN p ELSE @[x]], !.lib = lib]

AddReady(s, f, p, L, R, L2, R2) ==
    /\ SitsWell(s, L, R) /\ Once(s) /\ s.m_LastId >= Pl_MinId /\ f \in Files
    /\ Fresh(s, f, p) /\ \A x \in Held(s) : s.pl[x].m_File # f
    /\ R = {} \/ R = R2
    /\ \A x \in On(s) : s.pl[x].m_File = f => {x, s.made + 1} = R2
    /\ L2 = IF p.m_Lib THEN L \cup {s.made + 1} ELSE L

\* A manager with a new object sits as well as before it.
LEMMA AddedKeeps ==
    ASSUME NEW s, NEW f, NEW p, NEW L, NEW R, NEW L2, NEW R2, AddReady(s, f, p, L, R, L2, R2),
           NEW lib, LibGained(s, f, p, lib), NEW o, o = s.made + 1, NEW t, t = PutIn(s, o, p, lib)
    PROVE  AddedDone(s, t, o, p, L2, R2)
<1>00. /\ SitsWell(s, L, R) /\ Once(s) /\ s.m_LastId >= Pl_MinId /\ f \in Files
       /\ Fresh(s, f, p) /\ \A x \in Held(s) : s.pl[x].m_File # f
       /\ R = {} \/ R = R2
       /\ \A x \in On(s) : s.pl[x].m_File = f => {x, o} = R2
       /\ L2 = IF p.m_Lib THEN L \cup {o} ELSE L
  BY DEF AddReady
<1>. USE <1>00
<1>0. PICK W : W = Waiting(s)
  OBVIOUS
<1>1. /\ Managers(s) /\ PendingOK(s) /\ PluginsOK(s, W, L, R)
  BY <1>0, ListedTyped DEF SitsWell
<1>2. IdsApart(s) /\ FilesApart(s, W, R) /\ LibsHeld(s, W, L) /\ HooksServed(s, W)
  BY <1>1 DEF PluginsOK
<1>3. PICK last, l, pl : /\ last = s.m_LastId + 1 /\ l = Append(s.m_Plugins, o)
                         /\ pl = [x \in DOMAIN s.pl \cup {o} |-> IF x = o THEN p ELSE s.pl[x]]
  OBVIOUS
<1>4. PICK d : d = Rec(pl, o, l, last, s.m_AllLoaded, s.hooks, lib, s.pending)
  OBVIOUS
<1>5. t = d
  <2>1. t = WithObject(s, o, last, l, pl, lib)
    BY <1>3 DEF WithObject, PutIn
  <2>2. IsRec(s)
    BY <1>1 DEF Managers
  <2>3. t = Rec(pl, o, l, last, s.m_AllLoaded, s.hooks, lib, s.pending)
    BY <2>1, <2>2, WithNew
  <2>. QED
    BY <1>4, <2>3
<1>6. /\ IsRec(d) /\ d.pl = pl /\ d.made = o /\ d.m_Plugins = l /\ d.m_LastId = last
      /\ d.m_AllLoaded = s.m_AllLoaded /\ d.hooks = s.hooks /\ d.lib = lib /\ d.pending = s.pending
  BY <1>4, RecFields
<1>7. o \in Nat /\ o \notin DOMAIN s.pl /\ DOMAIN s.pl \subseteq 1..s.made /\ s.made \in Nat
  BY <1>1 DEF Managers
<1>8. /\ DOMAIN d.pl = DOMAIN s.pl \cup {o} /\ d.pl[o] = p /\ \A x \in DOMAIN s.pl : d.pl[x] = s.pl[x]
      /\ d.pl = [x \in DOMAIN d.pl |-> d.pl[x]]
  BY <1>3, <1>6, <1>7
<1>9. /\ l \in Seq(Nat) /\ Elements(l) = On(s) \cup {o} /\ On(s) \subseteq DOMAIN s.pl
      /\ \A i, j \in DOMAIN l : l[i] = l[j] => i = j
  <2>1. On(s) = Elements(s.m_Plugins) /\ s.m_Plugins \in Seq(Nat) /\ On(s) \subseteq DOMAIN s.pl
    BY <1>1 DEF Managers, On
  <2>2. \A i, j \in DOMAIN s.m_Plugins : s.m_Plugins[i] = s.m_Plugins[j] => i = j
    BY DEF Once
  <2>3. o \notin Elements(s.m_Plugins)
    BY <1>7, <2>1
  <2>4. PICK q : q = s.m_Plugins
    OBVIOUS
  <2>5. Appends(q, o, l)
    BY <1>3, <1>7, <2>1, <2>4 DEF Appends
  <2>6. /\ l \in Seq(Nat) /\ Elements(l) = Elements(q) \cup {o}
        /\ Distinct(q) /\ o \notin Elements(q) => Distinct(l)
    BY <2>5, AppendListed
  <2>7. Distinct(l)
    BY <2>2, <2>3, <2>4, <2>6 DEF Distinct
  <2>. QED
    BY <2>1, <2>4, <2>6, <2>7 DEF Distinct
<1>10. On(d) = On(s) \cup {o} /\ Waiting(d) = W
  BY <1>0, <1>6, <1>9 DEF On, Waiting
<1>11. Held(d) = IF p.m_Lib THEN Held(s) \cup {o} ELSE Held(s)
  BY <1>8, <1>7 DEF Held
<1>12. /\ p \in CPlugins /\ p.m_Id = s.m_LastId /\ p.m_File = f /\ p.m_Events = FALSE
       /\ p.m_API = TRUE => p.m_Lib = TRUE
       /\ p.m_Lib = TRUE /\ ~Failed(p.m_Status) => p.m_API = TRUE
       /\ p.m_API \in BOOLEAN /\ p.m_Lib \in BOOLEAN
  BY DEF Fresh, CPlugins
<1>13. Managers(d)
  <2>1. \A x \in DOMAIN d.pl : d.pl[x] \in CPlugins /\ x \in 1..d.made
    BY <1>1, <1>6, <1>7, <1>8, <1>12 DEF Managers
  <2>2. last \in Nat
    BY <1>1, <1>3 DEF Managers
  <2>3. Elements(d.m_Plugins) \subseteq DOMAIN d.pl
    BY <1>6, <1>8, <1>9
  <2>. QED
    BY <1>1, <1>6, <1>7, <1>8, <1>9, <2>1, <2>2, <2>3 DEF Managers, LibGained
<1>14. PendingOK(d)
  <2>1. W \subseteq DOMAIN s.pl
    BY <1>2 DEF LibsHeld, Held
  <2>2. \A k \in DOMAIN s.pending : s.pending[k].obj # o
    BY <1>0, <1>7, <2>1 DEF Waiting
  <2>. QED
    BY <1>1, <1>6, <1>10, <2>2 DEF PendingOK
<1>15. IdsApart(d)
  <2>1. \A x \in On(s) : /\ d.pl[x].m_Id = s.pl[x].m_Id /\ d.pl[x].m_Id >= Pl_MinId
                         /\ d.pl[x].m_Id < s.m_LastId /\ d.pl[x].m_Id \in Nat
    BY <1>1, <1>2, <1>8, <1>9 DEF IdsApart, Managers, CPlugins
  <2>2. s.m_LastId \in Nat /\ last = s.m_LastId + 1 /\ d.pl[o].m_Id = s.m_LastId
    BY <1>1, <1>3, <1>8, <1>12 DEF Managers
  <2>3. \A x \in On(d) : d.pl[x].m_Id >= Pl_MinId /\ d.pl[x].m_Id < d.m_LastId
    BY <1>6, <1>10, <2>1, <2>2
  <2>4. \A x, y \in On(s) : d.pl[x].m_Id = d.pl[y].m_Id => x = y
    BY <1>2, <2>1 DEF IdsApart
  <2>5. \A x \in On(s) : d.pl[x].m_Id # d.pl[o].m_Id
    BY <2>1, <2>2
  <2>6. \A x, y \in On(d) : d.pl[x].m_Id = d.pl[y].m_Id => x = y
    BY <1>10, <2>4, <2>5
  <2>. QED
    BY <2>3, <2>6 DEF IdsApart
<1>16. FilesApart(d, W, R2)
  <2>1. W \subseteq Held(s) /\ Held(s) \subseteq DOMAIN s.pl
    BY <1>2 DEF LibsHeld, Held
  <2>2. \A x \in DOMAIN s.pl : d.pl[x].m_File = s.pl[x].m_File
    BY <1>8
  <2>3. \A x, y \in On(s) : d.pl[x].m_File = d.pl[y].m_File => x = y \/ {x, y} = R2
    BY <1>2, <1>9, <2>2 DEF FilesApart
  <2>4. \A x \in On(s) : d.pl[x].m_File = f => {x, o} = R2 /\ {o, x} = R2
    BY <1>9, <2>2
  <2>5. \A x, y \in On(d) : d.pl[x].m_File = d.pl[y].m_File => x = y \/ {x, y} = R2
    BY <1>8, <1>10, <1>12, <2>3, <2>4
  <2>6. \A x \in W : d.pl[x].m_File # f
    BY <2>1, <2>2
  <2>7. \A x \in W, y \in On(d) : d.pl[x].m_File = d.pl[y].m_File => x = y \/ {x, y} = R2
    <3>1. \A x \in W, y \in On(s) : d.pl[x].m_File = d.pl[y].m_File => x = y \/ {x, y} = R2
      BY <1>2, <1>9, <2>1, <2>2 DEF FilesApart
    <3>2. \A x \in W : d.pl[x].m_File # d.pl[o].m_File
      BY <1>8, <1>12, <2>6
    <3>. QED
      BY <1>10, <3>1, <3>2
  <2>8. \A x, y \in Held(d) : d.pl[x].m_File = d.pl[y].m_File => x = y
    <3>1. \A x, y \in Held(s) : d.pl[x].m_File = d.pl[y].m_File => x = y
      BY <1>2, <2>1, <2>2 DEF FilesApart
    <3>2. \A x \in Held(s) : d.pl[x].m_File # d.pl[o].m_File
      BY <1>8, <1>12, <2>1, <2>2
    <3>. QED
      BY <1>11, <3>1, <3>2
  <2>. QED
    BY <2>5, <2>7, <2>8 DEF FilesApart
<1>17. HooksServed(d, W)
  <2>1. Held(s) \subseteq Held(d) /\ Held(s) \subseteq DOMAIN s.pl /\ On(s) \subseteq On(d)
    BY <1>10, <1>11 DEF Held
  <2>. SUFFICES ASSUME NEW h \in d.hooks, h.file # Metamod
                PROVE  \E x \in (On(d) \cap Held(d)) \ W :
                          /\ d.pl[x].m_Id = h.id /\ d.pl[x].m_File = h.file
                          /\ h.paused <=> d.pl[x].m_Status = "Paused"
    BY DEF HooksServed
  <2>2. PICK x \in (On(s) \cap Held(s)) \ W : /\ s.pl[x].m_Id = h.id /\ s.pl[x].m_File = h.file
                                              /\ h.paused <=> s.pl[x].m_Status = "Paused"
    BY <1>2, <1>6 DEF HooksServed
  <2>. QED
    BY <1>8, <2>1, <2>2
<1>18. LibsHeld(d, W, L2)
  <2>0. /\ Held(s) \subseteq Held(d) /\ Held(d) \subseteq Held(s) \cup {o} /\ Held(s) \subseteq DOMAIN s.pl
        /\ o \in Held(d) => p.m_Lib = TRUE
        /\ p.m_Lib = TRUE => o \in Held(d) /\ L2 = L \cup {o}
        /\ p.m_Lib = FALSE => L2 = L
    BY <1>7, <1>11, <1>12 DEF Held
  <2>1. /\ W \subseteq Held(d) /\ L2 \subseteq On(d) \cap Held(d) /\ L2 \cap W = {}
    BY <1>2, <1>7, <1>10, <1>12, <2>0 DEF LibsHeld
  <2>2. \A x \in W \cap On(d) : Failed(d.pl[x].m_Status)
    BY <1>2, <1>7, <1>8, <1>10, <2>0 DEF LibsHeld
  <2>3. \A x \in DOMAIN d.pl : d.pl[x].m_API \/ d.pl[x].m_Events => x \in Held(d)
    BY <1>2, <1>8, <1>12, <2>0 DEF LibsHeld
  <2>4. \A x \in DOMAIN d.pl : d.pl[x].m_Events => x \in On(d) \ W
    BY <1>2, <1>8, <1>10, <1>12 DEF LibsHeld
  <2>5. \A x \in Held(d) : x \in W \/ (x \in On(d) /\ (x \in L2 \/ ~Failed(d.pl[x].m_Status)))
    BY <1>2, <1>8, <1>10, <1>12, <2>0 DEF LibsHeld
  <2>6. \A x \in Held(d) : ~Failed(d.pl[x].m_Status) => d.pl[x].m_API
    BY <1>2, <1>8, <1>12, <2>0 DEF LibsHeld
  <2>7. \A x \in DOMAIN s.pl : s.pl[x].m_File \in Files
    BY <1>1, ListedTyped DEF CPlugins
  <2>8. s.lib[f].refs = 0
    BY <1>2 DEF LibsHeld
  <2>9. \A x \in Held(d) : d.lib[d.pl[x].m_File].refs = 1 /\ (d.pl[x].m_API => d.lib[d.pl[x].m_File].up)
    <3>1. \A x \in Held(s) : d.lib[d.pl[x].m_File] = s.lib[s.pl[x].m_File] /\ d.pl[x] = s.pl[x]
      BY <1>6, <1>8, <2>0, <2>7 DEF LibGained
    <3>2. \A x \in Held(s) : d.lib[d.pl[x].m_File].refs = 1 /\ (d.pl[x].m_API => d.lib[d.pl[x].m_File].up)
      BY <1>2, <3>1 DEF LibsHeld
    <3>3. p.m_Lib = TRUE => lib[f].refs = 1 /\ (p.m_API => lib[f].up)
      BY <1>12, <2>8 DEF LibGained
    <3>. QED
      BY <1>6, <1>8, <1>12, <2>0, <3>2, <3>3
  <2>10. \A g \in Files : d.lib[g].refs = 0 \/ \E x \in Held(d) : d.pl[x].m_File = g
    <3>1. ASSUME NEW g \in Files, g # f
          PROVE  d.lib[g].refs = 0 \/ \E x \in Held(d) : d.pl[x].m_File = g
      <4>1. d.lib[g] = s.lib[g]
        BY <1>6, <3>1 DEF LibGained
      <4>2. s.lib[g].refs = 0 \/ \E x \in Held(s) : s.pl[x].m_File = g
        BY <1>2 DEF LibsHeld
      <4>. QED
        BY <1>8, <2>0, <4>1, <4>2
    <3>2. d.lib[f].refs = 0 \/ \E x \in Held(d) : d.pl[x].m_File = f
      BY <1>6, <1>8, <1>12, <2>0, <2>8 DEF LibGained
    <3>. QED
      BY <3>1, <3>2
  <2>. QED
    BY <2>1, <2>2, <2>3, <2>4, <2>5, <2>6, <2>9, <2>10 DEF LibsHeld
<1>19. PluginsOK(d, Waiting(d), L2, R2)
  BY <1>10, <1>15, <1>16, <1>17, <1>18 DEF PluginsOK
<1>20. Untouched(s, d, {}) /\ FilesKept(s, d)
  <2>1. Untouched(s, d, {})
    BY <1>7, <1>8, <1>10 DEF Untouched
  <2>2. Held(s) \subseteq Held(d) /\ Held(s) \subseteq DOMAIN s.pl
    BY <1>11 DEF Held
  <2>. QED
    BY <1>8, <2>1, <2>2 DEF FilesKept
<1>21. Once(d)
  BY <1>6, <1>9 DEF Once
<1>. QED
  BY <1>0, <1>3, <1>5, <1>6, <1>7, <1>8, <1>10, <1>13, <1>14, <1>19, <1>20, <1>21 DEF AddedDone, SitsWell

-----------------------------------------------------------------------------
(* The stack of callers. *)
NoHandler(fs) == \A k \in DOMAIN fs : fs[k].kind # "handler"
NoRetry(fs) == \A k \in DOMAIN fs : fs[k].then.what # "retry"
NoClear(fs) == \A k \in DOMAIN fs : fs[k].then.what # "clear"
Spares(fs, X) == \A k \in DOMAIN fs, x \in X : ~RefersTo(fs[k], x)

\* From s to t only objects in X changed, and nothing the frames rely on.
Leaves(s, t, fs, X) ==
    /\ Untouched(s, t, X) /\ Waiting(t) \subseteq Waiting(s) \cup X
    /\ Spares(fs, X)
    /\ \A k \in DOMAIN fs : fs[k].then.what = "retry" =>
          /\ t.m_LastId = s.m_LastId
          /\ \A h \in t.hooks : h.file = fs[k].file => \E g \in s.hooks : g.file = h.file
    /\ NoClear(fs) \/ Waiting(t) \cap On(t) = {}
    /\ NoHandler(fs) \/ FilesKept(s, t)

\* A frame is as it should be when the plugins it refers to are left alone and
\* the libraries of handlers stay open.
LEMMA FrameKept ==
    ASSUME NEW s, NEW t, Managers(s), NEW W, NEW V, NEW X, NEW fr, FrameOK(s, W, fr),
           Untouched(s, t, X), V \subseteq W \cup X, \A x \in X : ~RefersTo(fr, x),
           fr.then.what = "retry" =>
             /\ t.m_LastId = s.m_LastId
             /\ \A h \in t.hooks : h.file = fr.file => \E g \in s.hooks : g.file = h.file,
           fr.kind = "handler" => FilesKept(s, t)
    PROVE  FrameOK(t, V, fr)
<1>1. On(s) \subseteq DOMAIN s.pl
  BY ListedTyped
<1>2. \A x \in DOMAIN s.pl \ X : /\ x \in DOMAIN t.pl /\ t.pl[x] = s.pl[x] /\ (x \in On(s) <=> x \in On(t))
                                 /\ x \in Held(s) <=> x \in Held(t)
  BY DEF Untouched, Held
<1>3. fr.kind # "handler" => /\ fr.obj \in (On(t) \cap Held(t)) \ V /\ t.pl[fr.obj].m_File = fr.file
                             /\ t.pl[fr.obj] = s.pl[fr.obj]
  BY <1>1, <1>2 DEF FrameOK, RefersTo
<1>4. fr.kind = "handler" => fr.file = Metamod \/ \E o \in Held(t) : t.pl[o].m_File = fr.file
  BY DEF FrameOK, FilesKept
<1>5. fr.kind = "handler" => fr.then.what = "nothing"
  BY DEF FrameOK, Fits
<1>6. fr.then.what = "retry" =>
        LET old == fr.then.obj IN
         /\ old \in On(t) \ Held(t) /\ Failed(t.pl[old].m_Status) /\ t.pl[old].m_File = fr.file
         /\ t.pl[fr.obj].m_Id = t.m_LastId - 1 /\ fr.then.id = t.pl[old].m_Id
         /\ \A h \in t.hooks : h.file # fr.file
  <2>. SUFFICES ASSUME fr.then.what = "retry"
                PROVE  LET old == fr.then.obj IN
                         /\ old \in On(t) \ Held(t) /\ Failed(t.pl[old].m_Status) /\ t.pl[old].m_File = fr.file
                         /\ t.pl[fr.obj].m_Id = t.m_LastId - 1 /\ fr.then.id = t.pl[old].m_Id
                         /\ \A h \in t.hooks : h.file # fr.file
    OBVIOUS
  <2>1. /\ fr.then.obj \in On(s) \ Held(s) /\ Failed(s.pl[fr.then.obj].m_Status)
        /\ s.pl[fr.then.obj].m_File = fr.file
        /\ s.pl[fr.obj].m_Id = s.m_LastId - 1 /\ fr.then.id = s.pl[fr.then.obj].m_Id
        /\ \A h \in s.hooks : h.file # fr.file
    BY DEF FrameOK
  <2>2. fr.then.obj \notin X
    BY DEF RefersTo
  <2>3. fr.then.obj \in On(t) \ Held(t) /\ t.pl[fr.then.obj] = s.pl[fr.then.obj]
    BY <1>1, <1>2, <2>1, <2>2
  <2>4. t.pl[fr.obj] = s.pl[fr.obj]
    BY <1>3, <1>5
  <2>5. \A h \in t.hooks : h.file # fr.file
    BY <2>1
  <2>. QED
    BY <2>1, <2>3, <2>4, <2>5
<1>7. Fits(fr)
  BY DEF FrameOK
<1>8. /\ fr.kind = "Load" => t.pl[fr.obj].m_API /\ t.pl[fr.obj].m_Status # "Paused"
      /\ fr.kind = "AllPluginsLoaded" => t.pl[fr.obj].m_Status = "Running"
  BY <1>3 DEF FrameOK
<1>. QED
  BY <1>3, <1>4, <1>6, <1>7, <1>8 DEF FrameOK

\* So is a stack.
LEMMA StackKept ==
    ASSUME NEW s, NEW t, Managers(s), NEW fs, StackOK(s, fs), NEW X, Leaves(s, t, fs, X)
    PROVE  StackOK(t, fs)
<1>1. PICK W, V : W = Waiting(s) /\ V = Waiting(t)
  OBVIOUS
<1>2. /\ Untouched(s, t, X) /\ V \subseteq W \cup X
      /\ \A k \in DOMAIN fs, x \in X : ~RefersTo(fs[k], x)
      /\ \A k \in DOMAIN fs : fs[k].then.what = "retry" =>
            /\ t.m_LastId = s.m_LastId
            /\ \A h \in t.hooks : h.file = fs[k].file => \E g \in s.hooks : g.file = h.file
      /\ \A k \in DOMAIN fs : fs[k].kind = "handler" => FilesKept(s, t)
      /\ \A k \in DOMAIN fs : fs[k].then.what = "clear" => V \cap On(t) = {}
  BY <1>1 DEF Leaves, Spares, NoClear, NoHandler
<1>3. ASSUME NEW k \in DOMAIN fs
      PROVE  FrameOK(t, V, fs[k])
  <2>1. PICK fr : fr = fs[k]
    OBVIOUS
  <2>2. FrameOK(s, W, fr)
    BY <1>1, <2>1 DEF StackOK
  <2>3. /\ \A x \in X : ~RefersTo(fr, x)
        /\ fr.then.what = "retry" =>
             /\ t.m_LastId = s.m_LastId
             /\ \A h \in t.hooks : h.file = fr.file => \E g \in s.hooks : g.file = h.file
        /\ fr.kind = "handler" => FilesKept(s, t)
    BY <1>2, <2>1
  <2>4. FrameOK(t, V, fr)
    BY <1>2, <2>2, <2>3, FrameKept
  <2>. QED
    BY <2>1, <2>4
<1>. QED
  BY <1>1, <1>2, <1>3 DEF StackOK

\* gs is fs with one frame more.
OneMore(fs, fr, gs) ==
    /\ fs \in Seq(Frames) /\ fr \in Frames /\ gs \in Seq(Frames)
    /\ DOMAIN gs = DOMAIN fs \cup {Len(gs)} /\ Len(gs) \notin DOMAIN fs /\ Len(gs) \in Nat
    /\ DOMAIN fs = 1..Len(gs) - 1 /\ DOMAIN gs = 1..Len(gs) /\ Len(gs) >= 1
    /\ gs[Len(gs)] = fr /\ \A k \in DOMAIN fs : gs[k] = fs[k]
    /\ fs = <<>> <=> Len(gs) = 1

\* Appending a frame makes one more.
LEMMA OneMoreByAppend ==
    ASSUME NEW fs \in Seq(Frames), NEW fr \in Frames
    PROVE  OneMore(fs, fr, Append(fs, fr))
<1>1. PICK gs, T : gs = Append(fs, fr) /\ T = Frames
  OBVIOUS
<1>2. fs \in Seq(T) /\ fr \in T
  BY <1>1
<1>3. /\ gs \in Seq(T) /\ Len(fs) \in Nat /\ Len(gs) = Len(fs) + 1 /\ gs[Len(fs) + 1] = fr
      /\ \A k \in 1..Len(fs) : gs[k] = fs[k]
      /\ DOMAIN fs = 1..Len(fs) /\ DOMAIN gs = 1..Len(gs)
      /\ fs = <<>> <=> Len(fs) = 0
  BY <1>1, <1>2
<1>4. \A n \in Nat : 1..n + 1 = (1..n) \cup {n + 1} /\ n + 1 \notin 1..n /\ (n + 1) - 1 = n /\ n + 1 >= 1
  OBVIOUS
<1>5. /\ DOMAIN gs = DOMAIN fs \cup {Len(gs)} /\ Len(gs) \notin DOMAIN fs /\ Len(gs) \in Nat
      /\ DOMAIN fs = 1..Len(gs) - 1 /\ Len(gs) >= 1
  BY <1>3, <1>4
<1>6. fs = <<>> <=> Len(gs) = 1
  BY <1>3
<1>. QED
  BY <1>1, <1>2, <1>3, <1>5, <1>6 DEF OneMore

\* A stack is one frame more than what is below its top.
LEMMA OneMoreBySub ==
    ASSUME NEW gs \in Seq(Frames), gs # <<>>
    PROVE  OneMore(SubSeq(gs, 1, Len(gs) - 1), gs[Len(gs)], gs)
<1>1. PICK fs, T : fs = SubSeq(gs, 1, Len(gs) - 1) /\ T = Frames
  OBVIOUS
<1>2. gs \in Seq(T)
  BY <1>1
<1>3. Len(gs) \in Nat /\ Len(gs) # 0 /\ DOMAIN gs = 1..Len(gs)
  BY <1>2
<1>4. PICK n \in Nat : Len(gs) = n + 1
  <2>1. \A k \in Nat : k # 0 => k - 1 \in Nat /\ k = (k - 1) + 1
    OBVIOUS
  <2>2. Len(gs) - 1 \in Nat /\ Len(gs) = (Len(gs) - 1) + 1
    BY <1>3, <2>1
  <2>. QED
    BY <2>2
<1>5. /\ fs \in Seq(T) /\ Len(fs) = n /\ DOMAIN fs = 1..n /\ \A k \in 1..n : fs[k] = gs[k]
  BY <1>1, <1>2, <1>3, <1>4
<1>6. fs = <<>> <=> n = 0
  BY <1>5
<1>7. 1..n + 1 = (1..n) \cup {n + 1} /\ n + 1 \notin 1..n /\ (n + 1) - 1 = n /\ n + 1 >= 1 /\ n + 1 \in 1..n + 1
  OBVIOUS
<1>8. gs[Len(gs)] \in T
  BY <1>2, <1>3, <1>4, <1>7
<1>9. /\ DOMAIN gs = DOMAIN fs \cup {Len(gs)} /\ Len(gs) \notin DOMAIN fs
      /\ DOMAIN fs = 1..Len(gs) - 1 /\ Len(gs) >= 1 /\ (fs = <<>> <=> Len(gs) = 1)
  BY <1>3, <1>4, <1>5, <1>6, <1>7
<1>. QED
  BY <1>1, <1>2, <1>3, <1>5, <1>8, <1>9, <1>4 DEF OneMore

AsksAlone(fr) == fr.kind \in {"Load", "Unload", "Pause", "Unpause"}
Bottom(fr) == fr.then.what \in {"retry", "clear"}
LoadingIn(fr) == IF fr.kind = "Load" THEN {fr.obj} ELSE {}
RetriedIn(fr) == IF fr.then.what = "retry" THEN {fr.obj, fr.then.obj} ELSE {}

\* fr may run on top of fs.
MayRun(s, fs, fr) ==
    /\ FrameOK(s, Waiting(s), fr)
    /\ Bottom(fr) => fs = <<>>
    /\ AsksAlone(fr) => Spares(fs, {fr.obj})
    /\ fr.then.what = "clear" => Waiting(s) \cap On(s) = {} /\ fr.kind # "Load"
    /\ fr.kind = "Load" => NoClear(fs)

\* A stack is in order when what is below the top is and the top may run on it.
LEMMA OneMoreStack ==
    ASSUME NEW fs, NEW fr, NEW gs, OneMore(fs, fr, gs), NEW s
    PROVE  StackOK(s, gs) <=> StackOK(s, fs) /\ MayRun(s, fs, fr)
<1>1. PICK n : n = Len(gs)
  OBVIOUS
<1>2. /\ DOMAIN gs = DOMAIN fs \cup {n} /\ n \notin DOMAIN fs /\ n \in Nat
      /\ DOMAIN fs = 1..n - 1 /\ DOMAIN gs = 1..n /\ n >= 1
      /\ gs[n] = fr /\ \A k \in DOMAIN fs : gs[k] = fs[k]
      /\ fs = <<>> <=> n = 1
  BY <1>1 DEF OneMore
<1>3. (\A k \in DOMAIN gs : FrameOK(s, Waiting(s), gs[k]))
        <=> (\A k \in DOMAIN fs : FrameOK(s, Waiting(s), fs[k])) /\ FrameOK(s, Waiting(s), fr)
  BY <1>2
<1>4. (\A k \in DOMAIN gs : gs[k].then.what \in {"retry", "clear"} => k = 1)
        <=> (\A k \in DOMAIN fs : fs[k].then.what \in {"retry", "clear"} => k = 1) /\ (Bottom(fr) => fs = <<>>)
  BY <1>2 DEF Bottom
<1>7. (\A k, j \in DOMAIN gs : gs[k].then.what = "clear" => gs[j].kind # "Load")
           /\ (Bottom(fr) => fs = <<>>)
        <=> /\ \A k, j \in DOMAIN fs : fs[k].then.what = "clear" => fs[j].kind # "Load"
            /\ fr.then.what = "clear" => fr.kind # "Load"
            /\ fr.kind = "Load" => NoClear(fs)
            /\ Bottom(fr) => fs = <<>>
  <2>1. fs = <<>> => DOMAIN fs = {}
    BY <1>2
  <2>2. ASSUME ~Bottom(fr) \/ DOMAIN fs = {}
        PROVE  (\A k, j \in DOMAIN gs : gs[k].then.what = "clear" => gs[j].kind # "Load")
                 <=> /\ \A k, j \in DOMAIN fs : fs[k].then.what = "clear" => fs[j].kind # "Load"
                     /\ fr.then.what = "clear" => fr.kind # "Load"
                     /\ fr.kind = "Load" => NoClear(fs)
    BY <1>2, <2>2 DEF Bottom, NoClear
  <2>. QED
    BY <2>1, <2>2
<1>5. (\A k \in DOMAIN gs : gs[k].then.what = "clear" => Waiting(s) \cap On(s) = {})
        <=> /\ \A k \in DOMAIN fs : fs[k].then.what = "clear" => Waiting(s) \cap On(s) = {}
            /\ fr.then.what = "clear" => Waiting(s) \cap On(s) = {}
  BY <1>2
<1>6. (\A k \in DOMAIN gs : AsksAlone(gs[k]) => \A j \in 1..k - 1 : ~RefersTo(gs[j], gs[k].obj))
        <=> /\ \A k \in DOMAIN fs : AsksAlone(fs[k]) => \A j \in 1..k - 1 : ~RefersTo(fs[j], fs[k].obj)
            /\ AsksAlone(fr) => Spares(fs, {fr.obj})
  <2>1. \A k \in DOMAIN fs : \A j \in 1..k - 1 : j \in DOMAIN fs /\ gs[j] = fs[j] /\ gs[k] = fs[k]
    BY <1>2
  <2>2. (AsksAlone(gs[n]) => \A j \in 1..n - 1 : ~RefersTo(gs[j], gs[n].obj))
           <=> (AsksAlone(fr) => Spares(fs, {fr.obj}))
    BY <1>2 DEF Spares
  <2>3. (\A k \in DOMAIN fs : AsksAlone(gs[k]) => \A j \in 1..k - 1 : ~RefersTo(gs[j], gs[k].obj))
          <=> \A k \in DOMAIN fs : AsksAlone(fs[k]) => \A j \in 1..k - 1 : ~RefersTo(fs[j], fs[k].obj)
    BY <1>2, <2>1
  <2>. QED
    BY <1>2, <2>2, <2>3
<1>. QED
  BY <1>3, <1>4, <1>5, <1>6, <1>7 DEF StackOK, MayRun, AsksAlone

\* Who is being loaded and retried, and what is under way, with one frame more.
LEMMA OneMoreSets ==
    ASSUME NEW fs, NEW fr, NEW gs, OneMore(fs, fr, gs)
    PROVE  /\ Loading(gs) = Loading(fs) \cup LoadingIn(fr)
           /\ Retried(gs) = Retried(fs) \cup RetriedIn(fr)
           /\ NoHandler(gs) <=> NoHandler(fs) /\ fr.kind # "handler"
           /\ NoRetry(gs) <=> NoRetry(fs) /\ fr.then.what # "retry"
           /\ NoClear(gs) <=> NoClear(fs) /\ fr.then.what # "clear"
           /\ \A X : Spares(gs, X) <=> Spares(fs, X) /\ \A x \in X : ~RefersTo(fr, x)
<1>1. PICK n : n = Len(gs)
  OBVIOUS
<1>2. /\ DOMAIN gs = DOMAIN fs \cup {n} /\ n \notin DOMAIN fs
      /\ gs[n] = fr /\ \A k \in DOMAIN fs : gs[k] = fs[k]
  BY <1>1 DEF OneMore
<1>3. Loading(gs) = Loading(fs) \cup LoadingIn(fr)
  <2>1. \A x : x \in Loading(gs) <=> \E k \in DOMAIN gs : gs[k].kind = "Load" /\ x = gs[k].obj
    BY DEF Loading
  <2>2. \A x : x \in Loading(fs) <=> \E k \in DOMAIN fs : fs[k].kind = "Load" /\ x = fs[k].obj
    BY DEF Loading
  <2>3. \A x : x \in LoadingIn(fr) <=> fr.kind = "Load" /\ x = fr.obj
    BY DEF LoadingIn
  <2>4. \A x : x \in Loading(gs) <=> x \in Loading(fs) \/ x \in LoadingIn(fr)
    BY <1>2, <2>1, <2>2, <2>3
  <2>. QED
    BY <2>4
<1>4. Retried(gs) = Retried(fs) \cup RetriedIn(fr)
  <2>1. \A x : x \in Retried(gs) <=>
            \E k \in DOMAIN gs : gs[k].then.what = "retry" /\ x \in {gs[k].obj, gs[k].then.obj}
    BY DEF Retried
  <2>2. \A x : x \in Retried(fs) <=>
            \E k \in DOMAIN fs : fs[k].then.what = "retry" /\ x \in {fs[k].obj, fs[k].then.obj}
    BY DEF Retried
  <2>3. \A x : x \in RetriedIn(fr) <=> fr.then.what = "retry" /\ x \in {fr.obj, fr.then.obj}
    BY DEF RetriedIn
  <2>4. \A x : x \in Retried(gs) <=> x \in Retried(fs) \/ x \in RetriedIn(fr)
    BY <1>2, <2>1, <2>2, <2>3
  <2>. QED
    BY <2>4
<1>5. /\ NoHandler(gs) <=> NoHandler(fs) /\ fr.kind # "handler"
      /\ NoRetry(gs) <=> NoRetry(fs) /\ fr.then.what # "retry"
      /\ NoClear(gs) <=> NoClear(fs) /\ fr.then.what # "clear"
  BY <1>2 DEF NoHandler, NoRetry, NoClear
<1>6. ASSUME NEW X
      PROVE  Spares(gs, X) <=> Spares(fs, X) /\ \A x \in X : ~RefersTo(fr, x)
  BY <1>2 DEF Spares
<1>. QED
  BY <1>3, <1>4, <1>5, <1>6

\* With nothing under way nobody is being loaded or retried.
LEMMA EmptyStack ==
    ASSUME NEW s
    PROVE  /\ <<>> \in Seq(Frames) /\ StackOK(s, <<>>) /\ Loading(<<>>) = {} /\ Retried(<<>>) = {}
           /\ NoHandler(<<>>) /\ NoRetry(<<>>) /\ NoClear(<<>>) /\ \A X : Spares(<<>>, X)
<1>1. PICK e : e = <<>>
  OBVIOUS
<1>2. e \in Seq(Frames) /\ DOMAIN e = {}
  BY <1>1
<1>3. StackOK(s, e)
  BY <1>2 DEF StackOK
<1>4. Loading(e) = {} /\ Retried(e) = {}
  BY <1>2 DEF Loading, Retried
<1>5. NoHandler(e) /\ NoRetry(e) /\ NoClear(e) /\ \A X : Spares(e, X)
  BY <1>2 DEF NoHandler, NoRetry, NoClear, Spares
<1>. QED
  BY <1>1, <1>2, <1>3, <1>4, <1>5

\* Only the first frame retries.
LEMMA RetriedNone ==
    ASSUME NEW fs, NoRetry(fs)
    PROVE  Retried(fs) = {}
BY DEF NoRetry, Retried

\* A plugin no frame refers to is neither being loaded nor retried.
LEMMA SparesLoading ==
    ASSUME NEW s, NEW fs, StackOK(s, fs), NEW o, Spares(fs, {o})
    PROVE  o \notin Loading(fs) /\ o \notin Retried(fs)
<1>1. \A k \in DOMAIN fs : ~RefersTo(fs[k], o)
  BY DEF Spares
<1>2. o \notin Loading(fs)
  BY <1>1 DEF Loading, RefersTo
<1>3. \A k \in DOMAIN fs : fs[k].then.what = "retry" => fs[k].obj # o
  BY <1>1 DEF StackOK, FrameOK, Fits, RefersTo
<1>4. o \notin Retried(fs)
  BY <1>1, <1>3 DEF Retried, RefersTo
<1>. QED
  BY <1>2, <1>4

\* What holds when a function of the manager runs on top of fs.
RunsOn(s, fs, L, R) ==
    SitsWell(s, L, R) /\ Once(s) /\ s.m_LastId >= Pl_MinId /\ fs \in Seq(Frames) /\ StackOK(s, fs)

\* A configuration is in order when the manager may run on its stack with the
\* plugins the stack loads and retries.
LEMMA Resting ==
    ASSUME NEW s, NEW fs
    PROVE  ConfigOK(s, fs) <=> RunsOn(s, fs, Loading(fs), Retried(fs))
BY DEF ConfigOK, RunsOn, SitsWell

\* The manager calls plugin code.
LEMMA Called ==
    ASSUME NEW s, NEW fs, NEW L, NEW R, RunsOn(s, fs, L, R), NEW fr \in Frames, MayRun(s, fs, fr),
           L = Loading(fs) \cup LoadingIn(fr), R = Retried(fs) \cup RetriedIn(fr)
    PROVE  ConfigOK(s, fs \o <<fr>>)
<1>1. PICK gs : gs = Append(fs, fr)
  OBVIOUS
<1>2. fs \in Seq(Frames)
  BY DEF RunsOn
<1>3. OneMore(fs, fr, gs)
  BY <1>1, <1>2, OneMoreByAppend
<1>4. StackOK(s, gs)
  BY <1>3, OneMoreStack DEF RunsOn
<1>5. Loading(gs) = L /\ Retried(gs) = R
  BY <1>3, OneMoreSets
<1>6. gs \in Seq(Frames)
  BY <1>3 DEF OneMore
<1>7. RunsOn(s, gs, Loading(gs), Retried(gs))
  BY <1>4, <1>5, <1>6 DEF RunsOn
<1>8. ConfigOK(s, gs)
  BY <1>7, Resting
<1>9. fs \o <<fr>> = gs
  <2>1. PICK T : T = Frames
    OBVIOUS
  <2>2. fs \in Seq(T) /\ fr \in T
    BY <1>2, <2>1
  <2>. QED
    BY <1>1, <2>2
<1>. QED
  BY <1>8, <1>9

\* It calls nobody.
LEMMA NotCalled ==
    ASSUME NEW s, NEW fs, RunsOn(s, fs, Loading(fs), Retried(fs))
    PROVE  ConfigOK(s, fs \o <<>>)
<1>1. fs \in Seq(Frames)
  BY DEF RunsOn
<1>2. fs \o <<>> = fs
  <2>1. PICK T : T = Frames
    OBVIOUS
  <2>2. fs \in Seq(T)
    BY <1>1, <2>1
  <2>. QED
    BY <2>2
<1>. QED
  BY <1>2, Resting

-----------------------------------------------------------------------------
(* Calls of plugin code: listeners and AllPluginsLoaded. *)
\* t differs from s in what nothing here depends on.
Similar(s, t) ==
    /\ DOMAIN t.pl = DOMAIN s.pl
    /\ \A x \in DOMAIN s.pl :
         /\ t.pl[x].m_Id = s.pl[x].m_Id /\ t.pl[x].m_File = s.pl[x].m_File /\ t.pl[x].m_Lib = s.pl[x].m_Lib
         /\ t.pl[x].m_Status = s.pl[x].m_Status /\ t.pl[x].m_API = s.pl[x].m_API
         /\ t.pl[x].m_Events = s.pl[x].m_Events
    /\ t.m_Plugins = s.m_Plugins /\ t.m_LastId = s.m_LastId
    /\ t.hooks = s.hooks /\ t.pending = s.pending
    /\ \A f \in Files : t.lib[f].refs = s.lib[f].refs /\ t.lib[f].up = s.lib[f].up

\* What only differs in AllPluginsLoaded, its calls and saved ids runs as well.
LEMMA SimilarRuns ==
    ASSUME NEW s, NEW t, Managers(t), Similar(s, t), NEW fs, NEW L, NEW R, RunsOn(s, fs, L, R)
    PROVE  RunsOn(t, fs, L, R)
<1>1. PICK W : W = Waiting(s)
  OBVIOUS
<1>2. /\ Managers(s) /\ PendingOK(s) /\ PluginsOK(s, W, L, R) /\ Once(s) /\ s.m_LastId >= Pl_MinId
      /\ fs \in Seq(Frames) /\ StackOK(s, fs)
  BY <1>1 DEF RunsOn, SitsWell
<1>3. IdsApart(s) /\ FilesApart(s, W, R) /\ LibsHeld(s, W, L) /\ HooksServed(s, W)
  BY <1>2 DEF PluginsOK
<1>4. /\ DOMAIN t.pl = DOMAIN s.pl
      /\ \A x \in DOMAIN s.pl :
           /\ t.pl[x].m_Id = s.pl[x].m_Id /\ t.pl[x].m_File = s.pl[x].m_File /\ t.pl[x].m_Lib = s.pl[x].m_Lib
           /\ t.pl[x].m_Status = s.pl[x].m_Status /\ t.pl[x].m_API = s.pl[x].m_API
           /\ t.pl[x].m_Events = s.pl[x].m_Events
      /\ t.m_Plugins = s.m_Plugins /\ t.m_LastId = s.m_LastId
      /\ t.hooks = s.hooks /\ t.pending = s.pending
      /\ \A f \in Files : t.lib[f].refs = s.lib[f].refs /\ t.lib[f].up = s.lib[f].up
  BY DEF Similar
<1>5. On(t) = On(s) /\ Waiting(t) = W /\ On(s) \subseteq DOMAIN s.pl /\ Held(s) \subseteq DOMAIN s.pl
  BY <1>1, <1>2, <1>4, ListedTyped DEF On, Waiting, Held
<1>6. Held(t) = Held(s)
  BY <1>4 DEF Held
<1>7. W \subseteq DOMAIN s.pl
  BY <1>3, <1>5 DEF LibsHeld
<1>8. IdsApart(t)
  BY <1>3, <1>4, <1>5 DEF IdsApart
<1>9. FilesApart(t, W, R)
  BY <1>3, <1>4, <1>5, <1>6, <1>7 DEF FilesApart
<1>10. LibsHeld(t, W, L)
  <2>1. \A x \in Held(s) : s.pl[x].m_File \in Files
    BY <1>2, <1>5, ListedTyped DEF CPlugins
  <2>. QED
    BY <1>3, <1>4, <1>5, <1>6, <2>1 DEF LibsHeld
<1>11. HooksServed(t, W)
  BY <1>3, <1>4, <1>5, <1>6 DEF HooksServed
<1>12. PendingOK(t) /\ Once(t)
  BY <1>2, <1>4, <1>5 DEF PendingOK, Once
<1>13. ASSUME NEW fr, FrameOK(s, W, fr)
       PROVE  FrameOK(t, W, fr)
  <2>1. fr.kind # "handler" => fr.obj \in DOMAIN s.pl
    BY <1>5, <1>13 DEF FrameOK
  <2>2. fr.then.what = "retry" => fr.kind # "handler" /\ fr.then.obj \in DOMAIN s.pl
    BY <1>5, <1>13 DEF FrameOK, Fits
  <2>3. fr.kind = "AllPluginsLoaded" \/ fr.kind = "Load" => fr.kind # "handler"
    OBVIOUS
  <2>. QED
    BY <1>4, <1>5, <1>6, <1>13, <2>1, <2>2, <2>3 DEF FrameOK
<1>14. StackOK(t, fs)
  <2>1. \A k \in DOMAIN fs : FrameOK(t, W, fs[k])
    BY <1>1, <1>2, <1>13 DEF StackOK
  <2>. QED
    BY <1>1, <1>2, <1>5, <2>1 DEF StackOK
<1>. QED
  BY <1>2, <1>4, <1>5, <1>8, <1>9, <1>10, <1>11, <1>12, <1>14 DEF RunsOn, SitsWell, PluginsOK

\* Counting a call of AllPluginsLoaded changes nothing else.
LEMMA ToldMore ==
    ASSUME NEW s, Managers(s), NEW o \in DOMAIN s.pl, NEW t, t = [s EXCEPT !.pl[o].told = @ + 1]
    PROVE  Managers(t) /\ Similar(s, t)
<1>1. PICK p : p = [s.pl[o] EXCEPT !.told = @ + 1]
  OBVIOUS
<1>2. s.pl[o] \in CPlugins
  BY ListedTyped
<1>3. /\ p \in CPlugins
      /\ p.m_Id = s.pl[o].m_Id /\ p.m_File = s.pl[o].m_File /\ p.m_Lib = s.pl[o].m_Lib
      /\ p.m_Status = s.pl[o].m_Status /\ p.m_API = s.pl[o].m_API /\ p.m_Events = s.pl[o].m_Events
  BY <1>1, <1>2 DEF CPlugins
<1>4. t = [s EXCEPT !.pl = [s.pl EXCEPT ![o] = p]]
  BY <1>1
<1>5. Managers(t) /\ PlSet(s, t, o, p)
  BY <1>3, <1>4, PlIsSet
<1>6. Similar(s, t)
  BY <1>3, <1>5 DEF PlSet, Similar
<1>. QED
  BY <1>5, <1>6

\* The parts of a configuration.
LEMMA ConfigFields ==
    ASSUME NEW s, NEW frames, NEW c, c = Config(s, frames)
    PROVE  c.m = s /\ c.call = frames
BY DEF Config

\* A listed plugin that has an interface or listeners and did not fail may be called.
LEMMA FrameTyped ==
    ASSUME NEW kind \in Kinds, NEW o \in Nat, NEW f \in Files \cup {Metamod}, NEW what \in Whats,
           NEW x \in Nat, NEW id \in Nat, NEW fr, fr = Frame(kind, o, f, Then(what, x, id))
    PROVE  /\ fr \in Frames /\ fr.kind = kind /\ fr.obj = o /\ fr.file = f
           /\ fr.then.what = what /\ fr.then.obj = x /\ fr.then.id = id
BY DEF Frame, Then, Frames, Thens

\* ITER_PLEVENT goes on.
LEMMA PlEventRuns ==
    ASSUME NEW s, NEW fs, RunsOn(s, fs, Loading(fs), Retried(fs)), NEW k \in Nat, k >= 1,
           NEW about \in Nat, NEW plid \in Nat, NEW c, c = PlEvent(s, k, about, plid)
    PROVE  ConfigOK(c.m, fs \o c.call)
<1>. DEFINE S == {x \in DOMAIN s.pl : s.pl[x].m_Id # plid /\ s.pl[x].m_Events}
<1>1. PICK o : o = FirstFrom(s, k, S)
  OBVIOUS
<1>2. Managers(s) /\ LibsHeld(s, Waiting(s), Loading(fs)) /\ s.m_Plugins \in Seq(Nat)
  BY DEF RunsOn, SitsWell, PluginsOK, Managers
<1>3. CASE o = Nobody
  <2>1. c = Config(s, <<>>)
    BY <1>1, <1>3 DEF PlEvent
  <2>2. c.m = s /\ c.call = <<>>
    BY <2>1, ConfigFields
  <2>. QED
    BY <2>2, NotCalled
<1>4. CASE o # Nobody
  <2>1. o \in S /\ o \in On(s)
    <3>. HIDE DEF S
    <3>1. PICK i \in DOMAIN s.m_Plugins : o = s.m_Plugins[i] /\ s.m_Plugins[i] \in S
      BY <1>1, <1>2, <1>4, FirstFromFinds
    <3>. QED
      BY <1>2, <3>1, ListedTyped
  <2>2. o \in (On(s) \cap Held(s)) \ Waiting(s) /\ o \in Nat /\ s.pl[o] \in CPlugins
    BY <1>2, <2>1, ListedTyped DEF LibsHeld
  <2>3. s.pl[o].m_File \in Files
    BY <2>2 DEF CPlugins
  <2>4. PICK fr : fr = Frame("event", o, s.pl[o].m_File, Then("event", about, plid))
    OBVIOUS
  <2>5. c.m = s /\ c.call = <<fr>>
    <3>1. c = Config(s, <<fr>>)
      BY <1>1, <1>4, <2>4 DEF PlEvent
    <3>. QED
      BY <3>1, ConfigFields
  <2>6. /\ fr \in Frames /\ fr.kind = "event" /\ fr.obj = o /\ fr.file = s.pl[o].m_File
        /\ fr.then.what = "event" /\ fr.then.obj = about /\ fr.then.id = plid
    <3>1. PICK kind, what, f : kind = "event" /\ what = "event" /\ f = s.pl[o].m_File
      OBVIOUS
    <3>2. kind \in Kinds /\ what \in Whats /\ f \in Files \cup {Metamod} /\ o \in Nat
      BY <2>2, <2>3, <3>1 DEF Kinds, Whats
    <3>3. fr = Frame(kind, o, f, Then(what, about, plid))
      BY <2>4, <3>1
    <3>4. /\ fr \in Frames /\ fr.kind = kind /\ fr.obj = o /\ fr.file = f
          /\ fr.then.what = what /\ fr.then.obj = about /\ fr.then.id = plid
      BY <3>2, <3>3 DEF Frame, Then, Frames, Thens
    <3>. QED
      BY <3>1, <3>4
  <2>7. MayRun(s, fs, fr)
    BY <2>2, <2>6 DEF MayRun, FrameOK, Fits, Bottom, AsksAlone
  <2>8. LoadingIn(fr) = {} /\ RetriedIn(fr) = {}
    BY <2>6 DEF LoadingIn, RetriedIn
  <2>. QED
    BY <2>5, <2>6, <2>7, <2>8, Called
<1>. QED
  BY <1>3, <1>4

\* SetAllLoaded goes on.
LEMMA TellAllRuns ==
    ASSUME NEW s, NEW fs, RunsOn(s, fs, Loading(fs), Retried(fs)), NEW k \in Nat, k >= 1,
           NEW c, c = TellAll(s, k)
    PROVE  ConfigOK(c.m, fs \o c.call)
<1>. DEFINE S == {x \in DOMAIN s.pl : s.pl[x].m_Status = "Running" /\ s.pl[x].m_API}
<1>1. PICK o : o = FirstFrom(s, k, S)
  OBVIOUS
<1>2. Managers(s) /\ LibsHeld(s, Waiting(s), Loading(fs)) /\ s.m_Plugins \in Seq(Nat)
  BY DEF RunsOn, SitsWell, PluginsOK, Managers
<1>3. CASE o = Nobody
  <2>1. c = Config(s, <<>>)
    BY <1>1, <1>3 DEF TellAll, Tell
  <2>2. c.m = s /\ c.call = <<>>
    BY <2>1, ConfigFields
  <2>. QED
    BY <2>2, NotCalled
<1>4. CASE o # Nobody
  <2>1. o \in S /\ o \in On(s)
    <3>. HIDE DEF S
    <3>1. PICK i \in DOMAIN s.m_Plugins : o = s.m_Plugins[i] /\ s.m_Plugins[i] \in S
      BY <1>1, <1>2, <1>4, FirstFromFinds
    <3>. QED
      BY <1>2, <3>1, ListedTyped
  <2>2. o \in (On(s) \cap Held(s)) \ Waiting(s) /\ o \in Nat /\ s.pl[o] \in CPlugins /\ o \in DOMAIN s.pl
    BY <1>2, <2>1, ListedTyped DEF LibsHeld, Failed
  <2>3. s.pl[o].m_File \in Files
    BY <2>2 DEF CPlugins
  <2>4. PICK fr : fr = Frame("AllPluginsLoaded", o, s.pl[o].m_File, Then("setall", o, 0))
    OBVIOUS
  <2>40. PICK t : t = [s EXCEPT !.pl[o].told = @ + 1]
    OBVIOUS
  <2>5. c.m = t /\ c.call = <<fr>>
    <3>1. c = Config(t, <<fr>>)
      BY <1>1, <1>4, <2>4, <2>40 DEF TellAll, Tell
    <3>. QED
      BY <3>1, ConfigFields
  <2>6. /\ fr \in Frames /\ fr.kind = "AllPluginsLoaded" /\ fr.obj = o /\ fr.file = s.pl[o].m_File
        /\ fr.then.what = "setall" /\ fr.then.obj = o /\ fr.then.id = 0
    <3>1. "AllPluginsLoaded" \in Kinds /\ "setall" \in Whats /\ s.pl[o].m_File \in Files \cup {Metamod} /\ 0 \in Nat
      BY <2>3 DEF Kinds, Whats
    <3>. QED
      BY <2>2, <2>4, <3>1, FrameTyped
  <2>7. MayRun(s, fs, fr)
    BY <2>1, <2>2, <2>6 DEF MayRun, FrameOK, Fits, Bottom, AsksAlone
  <2>8. LoadingIn(fr) = {} /\ RetriedIn(fr) = {}
    BY <2>6 DEF LoadingIn, RetriedIn
  <2>9. Managers(t) /\ Similar(s, t)
    BY <1>2, <2>2, <2>40, ToldMore
  <2>10. ConfigOK(s, fs \o <<fr>>)
    BY <2>6, <2>7, <2>8, Called
  <2>11. PICK gs : gs = fs \o <<fr>>
    OBVIOUS
  <2>12. RunsOn(t, gs, Loading(gs), Retried(gs))
    BY <2>9, <2>10, <2>11, Resting, SimilarRuns
  <2>13. ConfigOK(t, gs)
    BY <2>12, Resting
  <2>. QED
    BY <2>5, <2>11, <2>13
<1>. QED
  BY <1>3, <1>4

-----------------------------------------------------------------------------
(* Unloading a plugin, under the functions that go on. *)
\* A function goes on as well with a manager in order that leaves alone whoever
\* the frames below refer to.
LEMMA RunsKept ==
    ASSUME NEW s, NEW fs, NEW L0, NEW R0, RunsOn(s, fs, L0, R0),
           NEW t, NEW L, NEW R, SitsWell(t, L, R), Kept(s, t), NEW X, Untouched(s, t, X),
           Waiting(t) \subseteq Waiting(s) \cup X, Spares(fs, X),
           NoClear(fs) \/ Waiting(t) \cap On(t) = {}, NoHandler(fs) \/ FilesKept(s, t)
    PROVE  RunsOn(t, fs, L, R)
<1>1. Managers(s) /\ Once(s) /\ StackOK(s, fs) /\ s.m_LastId >= Pl_MinId /\ fs \in Seq(Frames)
  BY DEF RunsOn, SitsWell
<1>2. t.m_LastId = s.m_LastId /\ t.hooks \subseteq s.hooks
  BY DEF Kept
<1>3. Leaves(s, t, fs, X)
  BY <1>2 DEF Leaves
<1>4. StackOK(t, fs)
  BY <1>1, <1>3, StackKept
<1>5. Managers(t)
  BY DEF SitsWell
<1>6. Once(t)
  BY <1>1, <1>5, KeptOnce
<1>. QED
  BY <1>1, <1>2, <1>4, <1>6 DEF RunsOn

\* 'meta clear' still finds nobody waiting.
LEMMA ClearStays ==
    ASSUME NEW s, NEW fs, StackOK(s, fs), NEW t, Waiting(t) \cap On(t) \subseteq Waiting(s) \cap On(s)
    PROVE  NoClear(fs) \/ Waiting(t) \cap On(t) = {}
BY DEF StackOK, NoClear

\* A plugin without a library is erased from the list and deleted.
LEMMA ErasedRuns ==
    ASSUME NEW s, NEW fs, NEW L, NEW R, RunsOn(s, fs, L, R), NEW o \in On(s), o \notin Held(s), Spares(fs, {o}),
           NEW R2, R2 = R \/ o \in R,
           NEW t, t = Delete(EraseSameId(s, o), o)
    PROVE  RunsOn(t, fs, L, R2) /\ ErasedDone(s, t, o, L, R2)
<1>1. SitsWell(s, L, R) /\ StackOK(s, fs)
  BY DEF RunsOn
<1>2. ErasedDone(s, t, o, L, R2)
  BY <1>1, ErasedKeeps
<1>3. /\ SitsWell(t, L, R2) /\ Untouched(s, t, {o}) /\ Kept(s, t) /\ On(t) = On(s) \ {o}
      /\ Waiting(t) = Waiting(s) /\ FilesKept(s, t)
  BY <1>2 DEF ErasedDone
<1>4. NoClear(fs) \/ Waiting(t) \cap On(t) = {}
  <2>1. Waiting(t) \cap On(t) \subseteq Waiting(s) \cap On(s)
    BY <1>3
  <2>. QED
    BY <1>1, <2>1, ClearStays
<1>5. PICK X : X = {o}
  OBVIOUS
<1>6. Untouched(s, t, X) /\ Waiting(t) \subseteq Waiting(s) \cup X /\ Spares(fs, X)
  BY <1>3, <1>5
<1>7. RunsOn(t, fs, L, R2)
  BY <1>3, <1>4, <1>6, RunsKept
<1>. QED
  BY <1>2, <1>7

\* A plugin nobody waits to close and no frame loads has code or no library.
LEMMA CodeOrNothing ==
    ASSUME NEW s, NEW L, NEW R, SitsWell(s, L, R), NEW o \in On(s), o \notin Waiting(s), o \notin L
    PROVE  /\ HasCode(s.pl[o]) => o \in Held(s)
           /\ ~HasCode(s.pl[o]) => o \notin Held(s)
<1>1. Managers(s) /\ LibsHeld(s, Waiting(s), L)
  BY DEF SitsWell, PluginsOK
<1>2. o \in DOMAIN s.pl
  BY <1>1, ListedTyped
<1>3. o \in Held(s) => ~Failed(s.pl[o].m_Status) /\ s.pl[o].m_API /\ s.pl[o].m_Lib
  BY <1>1 DEF LibsHeld, Held
<1>. QED
  BY <1>2, <1>3 DEF HasCode, Held

\* The manager asks o to unload.
LEMMA UnloadCalled ==
    ASSUME NEW s, NEW fs, RunsOn(s, fs, Loading(fs), Retried(fs)), NEW o \in On(s), o \notin Waiting(s),
           o \in Held(s), Spares(fs, {o}),
           NEW what \in {"unload", "force", "clear"}, NEW id \in Nat,
           what = "clear" => fs = <<>> /\ Waiting(s) \cap On(s) = {},
           NEW fr, fr = Frame("Unload", o, s.pl[o].m_File, Then(what, Nobody, id))
    PROVE  ConfigOK(s, fs \o <<fr>>)
<1>1. Managers(s)
  BY DEF RunsOn, SitsWell
<1>2. o \in Nat /\ s.pl[o] \in CPlugins
  BY <1>1, ListedTyped
<1>3. s.pl[o].m_File \in Files
  BY <1>2 DEF CPlugins
<1>4. /\ fr \in Frames /\ fr.kind = "Unload" /\ fr.obj = o /\ fr.file = s.pl[o].m_File
      /\ fr.then.what = what /\ fr.then.obj = Nobody /\ fr.then.id = id
  <2>1. PICK x, f, kind : x = Nobody /\ f = s.pl[o].m_File /\ kind = "Unload"
    OBVIOUS
  <2>2. kind \in Kinds /\ what \in Whats /\ f \in Files \cup {Metamod} /\ x \in Nat /\ o \in Nat /\ id \in Nat
    BY <1>2, <1>3, <2>1 DEF Kinds, Whats, Nobody
  <2>3. fr = Frame(kind, o, f, Then(what, x, id))
    BY <2>1
  <2>4. /\ fr \in Frames /\ fr.kind = kind /\ fr.obj = o /\ fr.file = f
        /\ fr.then.what = what /\ fr.then.obj = x /\ fr.then.id = id
    BY <2>2, <2>3, FrameTyped
  <2>. QED
    BY <2>1, <2>4
<1>5. MayRun(s, fs, fr)
  BY <1>4 DEF MayRun, FrameOK, Fits, Bottom, AsksAlone
<1>6. LoadingIn(fr) = {} /\ RetriedIn(fr) = {}
  BY <1>4 DEF LoadingIn, RetriedIn
<1>. QED
  BY <1>4, <1>5, <1>6, Called

\* Unload by id.
LEMMA UnloadedRuns ==
    ASSUME NEW s, NEW fs, RunsOn(s, fs, Loading(fs), Retried(fs)), NEW o \in On(s), o \notin Waiting(s),
           Spares(fs, {o}),
           NEW what \in {"unload", "force"}, NEW id \in Nat,
           NEW c, c = Unloaded(s, o, Then(what, Nobody, id))
    PROVE  ConfigOK(c.m, fs \o c.call)
<1>1. SitsWell(s, Loading(fs), Retried(fs)) /\ StackOK(s, fs) /\ Managers(s)
  BY DEF RunsOn, SitsWell
<1>2. o \notin Loading(fs) /\ o \notin Retried(fs)
  BY <1>1, SparesLoading
<1>3. /\ HasCode(s.pl[o]) => o \in Held(s)
      /\ ~HasCode(s.pl[o]) => o \notin Held(s)
  BY <1>1, <1>2, CodeOrNothing
<1>4. PICK then : then = Then(what, Nobody, id)
  OBVIOUS
<1>40. then.what = what /\ then.id = id
  BY <1>4 DEF Then
<1>5. CASE HasCode(s.pl[o])
  <2>1. PICK fr : fr = Frame("Unload", o, s.pl[o].m_File, Then(what, Nobody, id))
    OBVIOUS
  <2>2. PICK d : d = _Unload(s, o, then)
    OBVIOUS
  <2>3. d = Config(s, <<fr>>)
    BY <1>4, <1>5, <2>1, <2>2 DEF _Unload
  <2>4. d.m = s /\ d.call = <<fr>>
    BY <2>3, ConfigFields
  <2>5. c = d
    BY <1>4, <2>2, <2>4 DEF Unloaded
  <2>6. ConfigOK(s, fs \o <<fr>>)
    BY <1>3, <1>5, <2>1, UnloadCalled
  <2>. QED
    BY <2>4, <2>5, <2>6
<1>6. CASE ~HasCode(s.pl[o])
  <2>1. PICK t : t = Delete(EraseSameId(s, o), o)
    OBVIOUS
  <2>2. PICK d : d = _Unload(s, o, then)
    OBVIOUS
  <2>3. d = Config(t, <<>>)
    BY <1>6, <2>1, <2>2 DEF _Unload
  <2>4. d.m = t /\ d.call = <<>>
    BY <2>3, ConfigFields
  <2>5. PICK about : about = Nobody
    OBVIOUS
  <2>6. about \in Nat /\ c = PlEvent(t, 1, about, id)
    BY <1>4, <1>40, <2>2, <2>4, <2>5 DEF Unloaded, AfterUnload, Nobody
  <2>7. RunsOn(t, fs, Loading(fs), Retried(fs))
    BY <1>3, <1>6, <2>1, ErasedRuns
  <2>. QED
    BY <2>6, <2>7, PlEventRuns
<1>. QED
  BY <1>5, <1>6

-----------------------------------------------------------------------------
(* UnloadAll. *)
\* The body of the loop in UnloadAll, f being what it has done before.
GoneFrom(s, f, n) == IF n = 0 THEN s ELSE Delete(EraseSameId(f[n - 1], s.m_Plugins[n]), s.m_Plugins[n])

\* UnloadAll's managers after each erased plugin: a recursive function.
LEMMA GoneExists ==
    ASSUME NEW s, NEW N \in Nat
    PROVE  \E f : f = [n \in 0..N |-> GoneFrom(s, f, n)]
<1>. DEFINE Exists(k) == \E f : f = [n \in 0..k |-> GoneFrom(s, f, n)]
            Bad == {k \in 0..N : ~Exists(k)}
<1>2. SUFFICES ASSUME Bad # {}
               PROVE  FALSE
  OBVIOUS
<1>3. PICK k \in Bad : \A j \in Bad : k <= j
  <2>1. Bad \subseteq Nat
    OBVIOUS
  <2>. HIDE DEF Bad
  <2>. QED
    BY <1>2, <2>1, LeastNatural
<1>4. CASE k = 0
  <2>1. [n \in 0..0 |-> s] = [n \in 0..0 |-> GoneFrom(s, [i \in 0..0 |-> s], n)]
    BY DEF GoneFrom
  <2>. QED
    BY <1>3, <1>4, <2>1
<1>5. CASE k > 0
  <2>1. k - 1 \in 0..N /\ k - 1 \notin Bad
    BY <1>3, <1>5
  <2>2. PICK f : f = [n \in 0..k - 1 |-> GoneFrom(s, f, n)]
    BY <2>1
  <2>3. PICK g : g = [n \in 0..k |-> IF n = k THEN GoneFrom(s, f, k) ELSE f[n]]
    OBVIOUS
  <2>4. ASSUME NEW n \in 0..k
        PROVE  g[n] = GoneFrom(s, g, n)
    <3>1. CASE n = k
      <4>1. g[k - 1] = f[k - 1]
        BY <1>3, <1>5, <2>3
      <4>. QED
        BY <1>5, <2>3, <3>1, <4>1 DEF GoneFrom
    <3>2. CASE n < k
      <4>0. n \in 0..k - 1 /\ g[n] = f[n]
        BY <1>3, <2>3, <3>2
      <4>1. f[n] = GoneFrom(s, f, n)
        BY <2>2, <4>0
      <4>2. n # 0 => g[n - 1] = f[n - 1]
        BY <1>3, <2>3, <3>2
      <4>. QED
        BY <4>0, <4>1, <4>2 DEF GoneFrom
    <3>. QED
      BY <1>3, <3>1, <3>2
  <2>5. g = [n \in 0..k |-> GoneFrom(s, g, n)]
    BY <2>3, <2>4
  <2>. QED
    BY <1>3, <2>5
<1>. QED
  BY <1>3, <1>4, <1>5

\* UnloadAll has looked at the plugins in Seen, which had no code.
GoneSoFar(s, t, Seen) ==
    /\ RunsOn(t, <<>>, {}, {})
    /\ Untouched(s, t, Seen) /\ Kept(s, t) /\ Waiting(t) = Waiting(s)

\* UnloadAll erases one more plugin that never got a library.
LEMMA GoneStep ==
    ASSUME NEW s, Managers(s), Waiting(s) \cap On(s) = {}, NEW t, NEW Seen, GoneSoFar(s, t, Seen),
           NEW o \in On(s), o \notin Seen, ~HasCode(s.pl[o]),
           NEW t2, t2 = Delete(EraseSameId(t, o), o)
    PROVE  GoneSoFar(s, t2, Seen \cup {o})
<1>1. RunsOn(t, <<>>, {}, {}) /\ Untouched(s, t, Seen) /\ Kept(s, t) /\ Waiting(t) = Waiting(s)
  BY DEF GoneSoFar
<1>2. o \in On(t) /\ t.pl[o] = s.pl[o]
  BY <1>1, ListedTyped DEF Untouched
<1>3. o \notin Held(t)
  <2>1. SitsWell(t, {}, {})
    BY <1>1 DEF RunsOn
  <2>2. o \notin Waiting(t)
    BY <1>1
  <2>3. ~HasCode(t.pl[o]) /\ o \notin {}
    BY <1>2
  <2>. QED
    BY <1>2, <2>1, <2>2, <2>3, CodeOrNothing
<1>4. RunsOn(t2, <<>>, {}, {}) /\ ErasedDone(t, t2, o, {}, {})
  <2>1. PICK fs, L : fs = <<>> /\ L = {}
    OBVIOUS
  <2>2. Spares(fs, {o}) /\ RunsOn(t, fs, L, L)
    BY <1>1, <2>1, EmptyStack
  <2>3. RunsOn(t2, fs, L, L) /\ ErasedDone(t, t2, o, L, L)
    BY <1>2, <1>3, <2>2, ErasedRuns
  <2>. QED
    BY <2>1, <2>3
<1>5. Untouched(t, t2, {o}) /\ Kept(t, t2) /\ Waiting(t2) = Waiting(t)
  BY <1>4 DEF ErasedDone
<1>6. PICK X : X = Seen \cup {o}
  OBVIOUS
<1>7. Untouched(s, t, X) /\ Untouched(t, t2, X)
  BY <1>1, <1>5, <1>6 DEF Untouched
<1>8. Untouched(s, t2, X) /\ Kept(s, t2)
  BY <1>1, <1>5, <1>7, UntouchedTwice, KeptTwice
<1>. QED
  BY <1>1, <1>4, <1>5, <1>6, <1>8 DEF GoneSoFar

\* After erasing the first N plugins UnloadAll has touched nobody else.
LEMMA GoneKeeps ==
    ASSUME NEW s, RunsOn(s, <<>>, {}, {}), Waiting(s) \cap On(s) = {},
           NEW N \in Nat, N <= Len(s.m_Plugins), NEW f, f = [n \in 0..Len(s.m_Plugins) |-> GoneFrom(s, f, n)],
           \A i \in 1..N : ~HasCode(s.pl[s.m_Plugins[i]])
    PROVE  GoneSoFar(s, f[N], {s.m_Plugins[i] : i \in 1..N})
<1>. DEFINE Seen(n) == {s.m_Plugins[i] : i \in 1..n}
            Good(n) == GoneSoFar(s, f[n], Seen(n))
            K == Len(s.m_Plugins)
<1>1. Managers(s) /\ Once(s) /\ K \in Nat /\ DOMAIN s.m_Plugins = 1..K
  <2>1. Managers(s) /\ Once(s)
    BY DEF RunsOn, SitsWell
  <2>. QED
    BY <2>1 DEF Managers
<1>2. Good(0)
  <2>1. f[0] = s
    BY <1>1 DEF GoneFrom
  <2>2. Untouched(s, s, Seen(0)) /\ Kept(s, s)
    BY SublistOfItself DEF Untouched, Kept
  <2>. QED
    BY <2>1, <2>2 DEF GoneSoFar
<1>3. ASSUME NEW n \in 1..N, Good(n - 1)
      PROVE  Good(n)
  <2>1. PICK o, b, c, seen : o = s.m_Plugins[n] /\ b = f[n - 1] /\ c = f[n] /\ seen = Seen(n - 1)
    OBVIOUS
  <2>2. n \in 0..K /\ n \in DOMAIN s.m_Plugins /\ n # 0
    BY <1>1
  <2>3. c = Delete(EraseSameId(b, o), o)
    BY <2>1, <2>2 DEF GoneFrom
  <2>4. o \in On(s) /\ ~HasCode(s.pl[o])
    BY <1>1, <2>1, <2>2, ListedTyped
  <2>5. Seen(n) = seen \cup {o}
    <3>1. 1..n = (1..n - 1) \cup {n}
      OBVIOUS
    <3>. QED
      BY <2>1, <3>1
  <2>6. o \notin seen
    <3>1. \A i \in 1..n - 1 : i \in DOMAIN s.m_Plugins /\ i # n
      BY <1>1
    <3>. QED
      BY <1>1, <2>1, <2>2, <3>1 DEF Once
  <2>7. GoneSoFar(s, b, seen)
    BY <1>3, <2>1
  <2>8. GoneSoFar(s, c, seen \cup {o})
    BY <1>1, <2>3, <2>4, <2>6, <2>7, GoneStep
  <2>. QED
    BY <2>1, <2>5, <2>8
<1>4. Good(N)
  <2>. DEFINE Bad == {n \in 0..N : ~Good(n)}
  <2>. HIDE DEF Good
  <2>1. SUFFICES ASSUME Bad # {}
                 PROVE  FALSE
    BY <1>1
  <2>2. PICK n \in Bad : \A k \in Bad : n <= k
    <3>1. Bad \subseteq Nat
      BY <1>1
    <3>. HIDE DEF Bad
    <3>. QED
      BY <2>1, <3>1, LeastNatural
  <2>3. n # 0
    BY <1>2, <2>2
  <2>4. n - 1 \in 0..N /\ n \in 1..N
    BY <1>1, <2>2, <2>3
  <2>5. Good(n - 1)
    BY <2>2, <2>4
  <2>. QED
    BY <1>3, <2>2, <2>4, <2>5
<1>. QED
  BY <1>4

\* UnloadAll erases those without code and calls Unload in the first of the
\* others.
LEMMA UnloadAllRuns ==
    ASSUME NEW s, RunsOn(s, <<>>, {}, {}), Waiting(s) \cap On(s) = {}, NEW c, c = UnloadAll(s)
    PROVE  ConfigOK(c.m, <<>> \o c.call)
<1>. DEFINE S == {x \in DOMAIN s.pl : HasCode(s.pl[x])}
            K == Len(s.m_Plugins)
<1>1. /\ Managers(s) /\ Once(s) /\ s.m_Plugins \in Seq(Nat) /\ K \in Nat /\ DOMAIN s.m_Plugins = 1..K
  <2>1. Managers(s) /\ Once(s)
    BY DEF RunsOn, SitsWell
  <2>. QED
    BY <2>1 DEF Managers
<1>2. PICK o : o = FirstFrom(s, 1, S)
  OBVIOUS
<1>3. PICK f : /\ f = [n \in 0..K |-> GoneFrom(s, f, n)]
               /\ c = IF o = Nobody THEN Config(f[K], <<>>)
                      ELSE _Unload(f[Position(s, o) - 1], o, Then("clear", Nobody, 0))
  <2>. DEFINE gone == CHOOSE f : f = [n \in 0..K |-> GoneFrom(s, f, n)]
  <2>1. c = IF o = Nobody THEN Config(gone[K], <<>>)
            ELSE _Unload(gone[Position(s, o) - 1], o, Then("clear", Nobody, 0))
    BY <1>2 DEF UnloadAll, GoneFrom
  <2>2. gone = [n \in 0..K |-> GoneFrom(s, gone, n)]
    BY <1>1, GoneExists, Zenon
  <2>. QED
    BY <2>1, <2>2
<1>4. \A i \in 1..K : s.m_Plugins[i] \in DOMAIN s.pl /\ s.m_Plugins[i] \in On(s)
  BY <1>1, ListedTyped
<1>5. PICK e : e = <<>>
  OBVIOUS
<1>6. Loading(e) = {} /\ Retried(e) = {} /\ Spares(e, {o})
  BY <1>5, EmptyStack
<1>7. CASE o = Nobody
  <2>1. \A i \in 1..K : s.m_Plugins[i] \notin S
    <3>. HIDE DEF S
    <3>1. \A n \in DOMAIN s.m_Plugins : s.m_Plugins[n] # Nobody
      BY <1>1, ListedTyped
    <3>. QED
      BY <1>1, <1>2, <1>7, <3>1, FirstFromFinds
  <2>2. \A i \in 1..K : ~HasCode(s.pl[s.m_Plugins[i]])
    BY <1>4, <2>1
  <2>3. PICK t : t = f[K]
    OBVIOUS
  <2>4. GoneSoFar(s, f[K], {s.m_Plugins[i] : i \in 1..K})
    <3>1. PICK N : N = K
      OBVIOUS
    <3>2. N \in Nat /\ N <= Len(s.m_Plugins) /\ \A i \in 1..N : ~HasCode(s.pl[s.m_Plugins[i]])
      BY <1>1, <2>2, <3>1
    <3>3. GoneSoFar(s, f[N], {s.m_Plugins[i] : i \in 1..N})
      BY <1>3, <3>2, GoneKeeps
    <3>. QED
      BY <3>1, <3>3
  <2>5. RunsOn(t, e, {}, {})
    BY <1>5, <2>3, <2>4 DEF GoneSoFar
  <2>6. c.m = t /\ c.call = <<>>
    <3>1. c = Config(t, <<>>)
      BY <1>3, <1>7, <2>3
    <3>. QED
      BY <3>1, ConfigFields
  <2>7. ConfigOK(t, e \o <<>>)
    BY <1>6, <2>5, NotCalled
  <2>. QED
    BY <1>5, <2>6, <2>7
<1>8. CASE o # Nobody
  <2>1. PICK n \in 1..K : o = s.m_Plugins[n] /\ o \in S /\ \A j \in 1..n - 1 : s.m_Plugins[j] \notin S
    <3>. HIDE DEF S
    <3>. QED
      BY <1>1, <1>2, <1>8, FirstFromFinds
  <2>2. Position(s, o) = n
    <3>1. n \in DOMAIN s.m_Plugins /\ \A k \in DOMAIN s.m_Plugins : s.m_Plugins[k] = o => k = n
      BY <1>1, <2>1 DEF Once
    <3>. QED
      BY <2>1, <3>1 DEF Position
  <2>3. PICK N : N = n - 1
    OBVIOUS
  <2>4. N \in Nat /\ N <= Len(s.m_Plugins) /\ \A i \in 1..N : i \in 1..K /\ i # n
    BY <1>1, <2>3
  <2>5. \A i \in 1..N : ~HasCode(s.pl[s.m_Plugins[i]])
    BY <1>4, <2>1, <2>3, <2>4
  <2>6. PICK t, seen : t = f[N] /\ seen = {s.m_Plugins[i] : i \in 1..N}
    OBVIOUS
  <2>7. GoneSoFar(s, t, seen)
    <3>1. GoneSoFar(s, f[N], {s.m_Plugins[i] : i \in 1..N})
      BY <1>3, <2>4, <2>5, GoneKeeps
    <3>. QED
      BY <2>6, <3>1
  <2>8. o \notin seen
    <3>1. \A i \in 1..N : i \in DOMAIN s.m_Plugins /\ i # n
      BY <1>1, <2>4
    <3>. QED
      BY <1>1, <2>1, <2>6, <3>1 DEF Once
  <2>9. RunsOn(t, e, {}, {}) /\ Untouched(s, t, seen) /\ Kept(s, t) /\ Waiting(t) = Waiting(s)
    BY <1>5, <2>7 DEF GoneSoFar
  <2>10. o \in On(s) /\ o \in DOMAIN s.pl
    BY <1>4, <2>1
  <2>11. o \in On(t) /\ t.pl[o] = s.pl[o] /\ HasCode(t.pl[o])
    BY <2>1, <2>8, <2>9, <2>10 DEF Untouched
  <2>12. o \notin Waiting(t) /\ Waiting(t) \cap On(t) = {}
    BY <2>9, <2>10 DEF Kept
  <2>13. o \in Held(t)
    <3>1. SitsWell(t, {}, {}) /\ o \notin {}
      BY <2>9 DEF RunsOn
    <3>. QED
      BY <2>11, <2>12, <3>1, CodeOrNothing
  <2>14. PICK fr : fr = Frame("Unload", o, t.pl[o].m_File, Then("clear", Nobody, 0))
    OBVIOUS
  <2>15. c.m = t /\ c.call = <<fr>>
    <3>1. c = _Unload(t, o, Then("clear", Nobody, 0))
      BY <1>3, <1>8, <2>2, <2>3, <2>6
    <3>2. c = Config(t, <<fr>>)
      BY <2>11, <2>14, <3>1 DEF _Unload
    <3>. QED
      BY <3>2, ConfigFields
  <2>16. ConfigOK(t, e \o <<fr>>)
    <3>1. RunsOn(t, e, Loading(e), Retried(e))
      BY <1>6, <2>9
    <3>2. PICK what, id : what = "clear" /\ id = 0
      OBVIOUS
    <3>3. /\ what \in {"unload", "force", "clear"} /\ id \in Nat
          /\ what = "clear" => e = <<>> /\ Waiting(t) \cap On(t) = {}
          /\ fr = Frame("Unload", o, t.pl[o].m_File, Then(what, Nobody, id))
      BY <1>5, <2>12, <2>14, <3>2
    <3>. QED
      BY <1>6, <2>11, <2>12, <2>13, <3>1, <3>3, UnloadCalled
  <2>. QED
    BY <1>5, <2>15, <2>16
<1>. QED
  BY <1>7, <1>8

-----------------------------------------------------------------------------
(* What follows an unload or a load. *)
RemoveReady(s, fs, o, loop, then) ==
    /\ RunsOn(s, fs, Loading(fs), Retried(fs)) /\ o \in On(s) /\ o \in Held(s)
    /\ o \notin Waiting(s) /\ Spares(fs, {o}) /\ loop \in BOOLEAN
    /\ loop = FALSE => NoHandler(fs)
    /\ then.what \in {"unload", "force", "clear"} /\ then.id \in Nat
    /\ then.what = "clear" => fs = <<>> /\ Waiting(s) \cap On(s) = {} /\ loop = FALSE

\* A plugin is unloaded, and the manager goes on with what it was asked for.
LEMMA RemovedRuns ==
    ASSUME NEW s, NEW fs, NEW o, NEW loop, NEW then, RemoveReady(s, fs, o, loop, then),
           NEW c, c = AfterUnload(Removed(s, o, loop), then)
    PROVE  ConfigOK(c.m, fs \o c.call)
<1>0. /\ RunsOn(s, fs, Loading(fs), Retried(fs)) /\ o \in On(s) /\ o \in Held(s)
      /\ o \notin Waiting(s) /\ Spares(fs, {o}) /\ loop \in BOOLEAN
      /\ loop = FALSE => NoHandler(fs)
      /\ then.what \in {"unload", "force", "clear"} /\ then.id \in Nat
      /\ then.what = "clear" => fs = <<>> /\ Waiting(s) \cap On(s) = {} /\ loop = FALSE
  BY DEF RemoveReady
<1>. USE <1>0
<1>1. PICK L, R, t : L = Loading(fs) /\ R = Retried(fs) /\ t = Removed(s, o, loop)
  OBVIOUS
<1>2. SitsWell(s, L, R) /\ StackOK(s, fs) /\ RunsOn(s, fs, L, R)
  BY <1>1 DEF RunsOn
<1>3. o \notin L /\ o \notin R
  BY <1>1, <1>2, SparesLoading
<1>4. RemovedDone(s, t, o, loop, L, R)
  BY <1>1, <1>2, <1>3, RemovedKeeps
<1>5. /\ SitsWell(t, L \ {o}, R) /\ L \ {o} = L
      /\ Untouched(s, t, {o}) /\ Kept(s, t) /\ On(t) = On(s) \ {o}
      /\ Waiting(t) \subseteq Waiting(s) \cup {o}
      /\ loop = TRUE => FilesKept(s, t)
      /\ loop = FALSE => Waiting(t) = Waiting(s)
  BY <1>3, <1>4 DEF RemovedDone
<1>6. NoClear(fs) \/ Waiting(t) \cap On(t) = {}
  <2>1. Waiting(t) \cap On(t) \subseteq Waiting(s) \cap On(s)
    BY <1>5
  <2>. QED
    BY <1>2, <2>1, ClearStays
<1>7. RunsOn(t, fs, L, R)
  <2>1. PICK X : X = {o}
    OBVIOUS
  <2>2. SitsWell(t, L, R) /\ Untouched(s, t, X) /\ Waiting(t) \subseteq Waiting(s) \cup X /\ Spares(fs, X)
    BY <1>5, <2>1
  <2>3. NoHandler(fs) \/ FilesKept(s, t)
    BY <1>5
  <2>. QED
    BY <1>2, <1>5, <1>6, <2>2, <2>3, RunsKept
<1>8. c = AfterUnload(t, then)
  BY <1>1
<1>9. CASE then.what \in {"unload", "force"}
  <2>1. c = PlEvent(t, 1, Nobody, then.id)
    BY <1>8, <1>9 DEF AfterUnload
  <2>2. RunsOn(t, fs, Loading(fs), Retried(fs))
    BY <1>1, <1>7
  <2>3. PICK k, about, id : k = 1 /\ about = Nobody /\ id = then.id
    OBVIOUS
  <2>4. k \in Nat /\ k >= 1 /\ about \in Nat /\ id \in Nat /\ c = PlEvent(t, k, about, id)
    BY <2>1, <2>3 DEF Nobody
  <2>. QED
    BY <2>2, <2>4, PlEventRuns
<1>10. CASE then.what = "clear"
  <2>1. c = UnloadAll(t)
    BY <1>8, <1>10 DEF AfterUnload
  <2>2. fs = <<>> /\ Waiting(t) \cap On(t) = {}
    BY <1>5, <1>10
  <2>3. L = {} /\ R = {}
    BY <1>1, <2>2, EmptyStack
  <2>4. RunsOn(t, <<>>, {}, {})
    BY <1>7, <2>2, <2>3
  <2>5. ConfigOK(c.m, <<>> \o c.call)
    BY <2>1, <2>2, <2>4, UnloadAllRuns
  <2>. QED
    BY <2>2, <2>5
<1>. QED
  BY <1>9, <1>10

FailReady(s, fs, L, R, o, loop) ==
    /\ RunsOn(s, fs, L, R) /\ o \in On(s) /\ o \notin Waiting(s) /\ Spares(fs, {o})
    /\ loop \in BOOLEAN /\ (loop = FALSE => NoHandler(fs))
    /\ loop = TRUE => NoClear(fs) \/ ~Failed(s.pl[o].m_Status)

\* A plugin whose load failed gives its library back, at once or when the
\* handlers under way are done.
LEMMA FailedRuns ==
    ASSUME NEW s, NEW fs, NEW L, NEW R, NEW o, NEW loop, FailReady(s, fs, L, R, o, loop),
           NEW t, t = FailedUnloaded(s, o, loop)
    PROVE  RunsOn(t, fs, L \ {o}, R) /\ FailedDone(s, t, o, loop, L, R)
<1>0. /\ RunsOn(s, fs, L, R) /\ o \in On(s) /\ o \notin Waiting(s) /\ Spares(fs, {o})
      /\ loop \in BOOLEAN /\ (loop = FALSE => NoHandler(fs))
      /\ loop = TRUE => NoClear(fs) \/ ~Failed(s.pl[o].m_Status)
  BY DEF FailReady
<1>. USE <1>0
<1>2. SitsWell(s, L, R) /\ StackOK(s, fs)
  BY DEF RunsOn
<1>4. FailedDone(s, t, o, loop, L, R)
  BY <1>2, FailedUnloadedKeeps
<1>40. PICK L2 : L2 = L \ {o}
  OBVIOUS
<1>5. /\ SitsWell(t, L2, R)
      /\ Untouched(s, t, {o}) /\ Kept(s, t) /\ On(t) = On(s)
      /\ Waiting(t) \subseteq Waiting(s) \cup {o}
      /\ loop = TRUE => FilesKept(s, t)
      /\ loop = FALSE => Waiting(t) = Waiting(s)
  BY <1>4, <1>40 DEF FailedDone
<1>6. NoClear(fs) \/ Waiting(t) \cap On(t) = {}
  <2>1. CASE loop = FALSE
    <3>1. Waiting(t) \cap On(t) \subseteq Waiting(s) \cap On(s)
      BY <1>5, <2>1
    <3>. QED
      BY <1>2, <3>1, ClearStays
  <2>2. CASE ~Failed(s.pl[o].m_Status)
    <3>1. t = s
      BY <2>2 DEF FailedUnloaded
    <3>. QED
      BY <1>2, <3>1, ClearStays
  <2>. QED
    BY <2>1, <2>2
<1>7. RunsOn(t, fs, L2, R)
  <2>1. PICK X : X = {o}
    OBVIOUS
  <2>2. SitsWell(t, L2, R) /\ Untouched(s, t, X) /\ Waiting(t) \subseteq Waiting(s) \cup X /\ Spares(fs, X)
    BY <1>5, <2>1
  <2>3. NoHandler(fs) \/ FilesKept(s, t)
    BY <1>5
  <2>. QED
    BY <1>5, <1>6, <2>2, <2>3, RunsKept
<1>. QED
  BY <1>4, <1>40, <1>7

\* What follows a Load in Load.
LEMMA LoadDone ==
    ASSUME NEW s, NEW fs, NEW L, RunsOn(s, fs, L, Retried(fs)), NEW o \in On(s), L \ {o} = Loading(fs),
           o \notin Waiting(s), Spares(fs, {o}),
           NEW loop \in BOOLEAN, loop = FALSE => NoHandler(fs),
           loop = TRUE => NoClear(fs) \/ ~Failed(s.pl[o].m_Status),
           NEW then, then.what = "load", NEW c, c = AfterLoad(s, o, then, loop)
    PROVE  ConfigOK(c.m, fs \o c.call)
<1>1. PICK t, R : t = FailedUnloaded(s, o, loop) /\ R = Retried(fs)
  OBVIOUS
<1>2. RunsOn(t, fs, L \ {o}, R) /\ FailedDone(s, t, o, loop, L, R)
  <2>1. RunsOn(s, fs, L, R)
    BY <1>1
  <2>2. FailReady(s, fs, L, R, o, loop)
    BY <2>1 DEF FailReady
  <2>. QED
    BY <1>1, <2>2, FailedRuns
<1>3. PICK id : id = t.pl[o].m_Id
  OBVIOUS
<1>4. id \in Nat /\ o \in Nat
  <2>1. o \in On(t) /\ Managers(t)
    BY <1>2 DEF FailedDone, SitsWell
  <2>. QED
    BY <1>3, <2>1, ListedTyped DEF CPlugins
<1>5. PICK k : k = 1
  OBVIOUS
<1>6. c = PlEvent(t, k, o, id)
  BY <1>1, <1>3, <1>5 DEF AfterLoad
<1>7. RunsOn(t, fs, Loading(fs), Retried(fs)) /\ k \in Nat /\ k >= 1
  BY <1>1, <1>2, <1>5
<1>. QED
  BY <1>4, <1>6, <1>7, PlEventRuns

\* Arithmetic of ids around the last one.
LEMMA BelowLast ==
    /\ \A a, b \in Nat : a < b /\ a # b - 1 => a < b - 1
    /\ \A a, b \in Nat : a >= 1 /\ a < b => b >= 1 + 1 /\ b - 1 >= 1
    /\ \A a, b \in Nat : a >= 1 /\ a = b - 1 => b >= 1 + 1 /\ b - 1 >= 1
    /\ \A b \in Nat : b >= 1 + 1 => b - 1 >= 1
OBVIOUS

\* A retry loads o for old.
RetryReady(s, o, old, L, R) ==
    /\ RunsOn(s, <<>>, L, R) /\ o \in On(s) \ Waiting(s) /\ L \ {o} = {}
    /\ old \in On(s) \ Held(s) /\ o # old /\ R = {o, old}
    /\ s.pl[o].m_Id = s.m_LastId - 1
    /\ \A h \in s.hooks : h.file # s.pl[o].m_File

\* The second load fails too: the new plugin goes, the old one stays.
LEMMA RetryFails ==
    ASSUME NEW s, NEW o, NEW old, NEW L, NEW R, RetryReady(s, o, old, L, R), o \notin Held(s),
           NEW c, c = Unloaded(s, o, Then("retry new", Nobody, 0))
    PROVE  ConfigOK(c.m, <<>> \o c.call)
<1>1. PICK e, E : e = <<>> /\ E = {}
  OBVIOUS
<1>2. /\ RunsOn(s, e, L, R) /\ o \in On(s) \ Waiting(s) /\ L \ {o} = {} /\ o \in R
      /\ s.pl[o].m_Id = s.m_LastId - 1
  BY <1>1 DEF RetryReady
<1>3. Managers(s) /\ StackOK(s, e) /\ SitsWell(s, L, R) /\ IdsApart(s) /\ LibsHeld(s, Waiting(s), L)
  BY <1>2 DEF RunsOn, SitsWell, PluginsOK
<1>4. L = E
  <2>1. L \subseteq Held(s)
    BY <1>3 DEF LibsHeld
  <2>2. \A x \in L : x = o
    BY <1>2
  <2>. QED
    BY <1>1, <2>1, <2>2
<1>5. ~HasCode(s.pl[o]) /\ o \in DOMAIN s.pl
  BY <1>2, <1>3, ListedTyped DEF HasCode, Held
<1>6. PICK then : then = Then("retry new", Nobody, 0)
  OBVIOUS
<1>7. then.what = "retry new"
  BY <1>6 DEF Then
<1>8. PICK t : t = Delete(EraseSameId(s, o), o)
  OBVIOUS
<1>9. PICK d : d = _Unload(s, o, then)
  OBVIOUS
<1>10. d.m = t /\ d.call = <<>>
  <2>1. d = Config(t, <<>>)
    BY <1>5, <1>8, <1>9 DEF _Unload
  <2>. QED
    BY <2>1, ConfigFields
<1>11. PICK u : u = RetryDone(t, Nobody, 0)
  OBVIOUS
<1>12. c.m = u /\ c.call = <<>>
  <2>1. c = Config(u, <<>>)
    BY <1>6, <1>7, <1>9, <1>10, <1>11 DEF Unloaded, AfterUnload
  <2>. QED
    BY <2>1, ConfigFields
<1>13. RunsOn(t, e, E, E) /\ ErasedDone(s, t, o, E, E)
  <2>1. Spares(e, {o}) /\ E = {}
    BY <1>1, EmptyStack
  <2>2. RunsOn(s, e, E, R) /\ (E = R \/ o \in R) /\ o \in On(s)
    BY <1>1, <1>2, <1>4
  <2>3. ASSUME NEW R2, R2 = R \/ o \in R, R2 = E
        PROVE  RunsOn(t, e, E, R2) /\ ErasedDone(s, t, o, E, R2)
    BY <1>8, <2>1, <2>2, <2>3, ErasedRuns
  <2>. QED
    BY <2>2, <2>3
<1>14. SitsWell(t, E, E) /\ Kept(s, t) /\ On(t) = On(s) \ {o} /\ Once(t)
  BY <1>13 DEF ErasedDone, RunsOn
<1>15. /\ s.m_LastId \in Nat /\ s.pl[o].m_Id >= Pl_MinId /\ s.pl[o].m_Id \in Nat
       /\ \A x \in On(s) : s.pl[x].m_Id < s.m_LastId /\ s.pl[x].m_Id \in Nat
       /\ \A x \in On(s) : x # o => s.pl[x].m_Id # s.pl[o].m_Id
  <2>1. s.m_LastId \in Nat /\ \A x \in On(s) : s.pl[x].m_Id \in Nat
    BY <1>3, ListedTyped DEF Managers, CPlugins
  <2>. QED
    BY <1>2, <1>3, <2>1 DEF IdsApart
<1>16. \A x \in On(t) : x \in On(s) /\ x # o /\ t.pl[x].m_Id = s.pl[x].m_Id
  <2>1. Managers(t) /\ On(t) \subseteq DOMAIN t.pl
    BY <1>14, ListedTyped DEF SitsWell
  <2>. QED
    BY <1>14, <2>1 DEF Kept
<1>17. t.m_LastId = s.m_LastId
  BY <1>14 DEF Kept
<1>18. t.m_LastId >= Pl_MinId + 1 /\ \A x \in On(t) : t.pl[x].m_Id < t.m_LastId - 1
  <2>1. \A x \in On(t) : s.pl[x].m_Id # s.m_LastId - 1 /\ s.pl[x].m_Id < s.m_LastId /\ s.pl[x].m_Id \in Nat
    BY <1>2, <1>15, <1>16
  <2>2. \A x \in On(t) : s.pl[x].m_Id < s.m_LastId - 1
    BY <1>15, <2>1, BelowLast
  <2>3. s.m_LastId >= Pl_MinId + 1
    <3>1. PICK a, b : a = s.pl[o].m_Id /\ b = s.m_LastId
      OBVIOUS
    <3>2. a \in Nat /\ b \in Nat /\ a >= 1 /\ a = b - 1
      BY <1>2, <1>15, <3>1 DEF Pl_MinId
    <3>3. b >= 1 + 1
      BY <3>2, BelowLast
    <3>. QED
      BY <3>1, <3>3 DEF Pl_MinId
  <2>. QED
    BY <1>16, <1>17, <2>2, <2>3
<1>19. SitsWell(u, E, E) /\ u.m_Plugins = t.m_Plugins /\ u.m_LastId = t.m_LastId - 1
  BY <1>11, <1>14, <1>18, RetryDoneKeeps
<1>20. RunsOn(u, e, E, E)
  <2>1. Once(u)
    BY <1>14, <1>19 DEF Once
  <2>2. u.m_LastId >= Pl_MinId
    <3>1. PICK a, b : a = u.m_LastId /\ b = t.m_LastId
      OBVIOUS
    <3>2. a = b - 1 /\ b >= 1 + 1 /\ b \in Nat
      BY <1>15, <1>17, <1>18, <1>19, <3>1 DEF Pl_MinId
    <3>3. a >= 1
      BY <3>2, BelowLast
    <3>. QED
      BY <3>1, <3>3 DEF Pl_MinId
  <2>3. e \in Seq(Frames) /\ StackOK(u, e)
    BY <1>1, EmptyStack
  <2>. QED
    BY <1>19, <2>1, <2>2, <2>3 DEF RunsOn
<1>21. Loading(e) = E /\ Retried(e) = E
  BY <1>1, EmptyStack
<1>22. ConfigOK(u, e \o <<>>)
  BY <1>20, <1>21, NotCalled
<1>. QED
  BY <1>1, <1>12, <1>22

\* The second load succeeds: with the old plugin gone the new one has its id.
LEMMA RetrySwapped ==
    ASSUME NEW s, NEW o, NEW old, NEW L, NEW R, RetryReady(s, o, old, L, R), o \in Held(s), L = {},
           NEW id, id = s.pl[old].m_Id,
           NEW t, t = Delete(EraseSameId(s, old), old), NEW u, u = RetryDone(t, o, id)
    PROVE  RunsOn(u, <<>>, {}, {})
<1>1. PICK e, E : e = <<>> /\ E = {}
  OBVIOUS
<1>2. /\ RunsOn(s, e, E, R) /\ o \in On(s) \ Waiting(s) /\ old \in R
      /\ old \in On(s) \ Held(s) /\ o # old
      /\ s.pl[o].m_Id = s.m_LastId - 1
      /\ \A h \in s.hooks : h.file # s.pl[o].m_File
  BY <1>1 DEF RetryReady
<1>3. Managers(s) /\ StackOK(s, e) /\ SitsWell(s, L, R) /\ IdsApart(s)
  BY <1>1, <1>2 DEF RunsOn, SitsWell, PluginsOK
<1>13. RunsOn(t, e, E, E) /\ ErasedDone(s, t, old, E, E)
  <2>1. Spares(e, {old}) /\ old \in On(s) /\ old \notin Held(s)
    BY <1>1, <1>2, EmptyStack
  <2>2. E = R \/ old \in R
    BY <1>2
  <2>3. ASSUME NEW R2, R2 = R \/ old \in R, R2 = E
        PROVE  RunsOn(t, e, E, R2) /\ ErasedDone(s, t, old, E, R2)
    BY <1>2, <2>1, <2>3, ErasedRuns
  <2>. QED
    BY <2>2, <2>3
<1>14. /\ SitsWell(t, E, E) /\ Kept(s, t) /\ On(t) = On(s) \ {old} /\ Once(t) /\ t.hooks = s.hooks
       /\ Waiting(t) = Waiting(s) /\ Untouched(s, t, {old})
  BY <1>13 DEF ErasedDone, RunsOn
<1>15. /\ s.m_LastId \in Nat /\ id >= Pl_MinId /\ id \in Nat /\ id < s.m_LastId /\ id # s.m_LastId - 1
       /\ \A x \in On(s) : s.pl[x].m_Id = id => x = old
  <2>1. s.m_LastId \in Nat /\ \A x \in On(s) : s.pl[x].m_Id \in Nat
    BY <1>3, ListedTyped DEF Managers, CPlugins
  <2>. QED
    BY <1>2, <1>3, <2>1 DEF IdsApart
<1>150. id < s.m_LastId - 1
  <2>1. PICK b : b = s.m_LastId
    OBVIOUS
  <2>2. b \in Nat /\ id \in Nat /\ id < b /\ id # b - 1
    BY <1>15, <2>1
  <2>3. id < b - 1
    BY <2>2, BelowLast
  <2>. QED
    BY <2>1, <2>3
<1>16. \A x \in On(t) : x \in On(s) /\ x # old /\ t.pl[x].m_Id = s.pl[x].m_Id
  <2>1. Managers(t) /\ On(t) \subseteq DOMAIN t.pl
    BY <1>14, ListedTyped DEF SitsWell
  <2>. QED
    BY <1>14, <2>1 DEF Kept
<1>17. t.m_LastId = s.m_LastId
  BY <1>14 DEF Kept
<1>170. o \in DOMAIN s.pl \ {old}
  BY <1>2, <1>3, ListedTyped
<1>18. o \in On(t) /\ o \notin Waiting(t) /\ t.pl[o] = s.pl[o]
  BY <1>2, <1>14, <1>170 DEF Untouched
<1>180. /\ t.pl[o].m_Id = t.m_LastId - 1 /\ id < t.m_LastId - 1
        /\ \A x \in On(t) : t.pl[x].m_Id # id
        /\ \A h \in t.hooks : h.file # t.pl[o].m_File
  BY <1>2, <1>14, <1>15, <1>150, <1>16, <1>17, <1>18
<1>19. SitsWell(u, E, E) /\ u.m_Plugins = t.m_Plugins /\ u.m_LastId = t.m_LastId - 1
  <2>1. SwapReady(t, o, id)
    BY <1>15, <1>18, <1>180 DEF SwapReady
  <2>. QED
    BY <1>14, <2>1, RetrySwaps
<1>20. RunsOn(u, e, E, E)
  <2>1. Once(u)
    BY <1>14, <1>19 DEF Once
  <2>2. u.m_LastId >= Pl_MinId
    <3>1. PICK a, b : a = u.m_LastId /\ b = s.m_LastId
      OBVIOUS
    <3>2. a = b - 1 /\ b \in Nat /\ id \in Nat /\ id >= 1 /\ id < b
      BY <1>15, <1>17, <1>19, <3>1 DEF Pl_MinId
    <3>3. a >= 1
      BY <3>2, BelowLast
    <3>. QED
      BY <3>1, <3>3 DEF Pl_MinId
  <2>3. e \in Seq(Frames) /\ StackOK(u, e)
    BY <1>1, EmptyStack
  <2>. QED
    BY <1>19, <2>1, <2>2, <2>3 DEF RunsOn
<1>. QED
  BY <1>1, <1>20

\* The second load succeeds: the old plugin is unloaded by id.
LEMMA RetrySucceeds ==
    ASSUME NEW s, NEW o, NEW old, NEW L, NEW R, RetryReady(s, o, old, L, R), o \in Held(s), L = {},
           NEW id, id = s.pl[old].m_Id,
           NEW c, c = Unloaded(s, old, Then("retry old", o, id))
    PROVE  ConfigOK(c.m, <<>> \o c.call)
<1>1. PICK e, E : e = <<>> /\ E = {}
  OBVIOUS
<1>2. /\ RunsOn(s, e, E, R) /\ o \in On(s) \ Waiting(s) /\ old \in R
      /\ old \in On(s) \ Held(s) /\ o # old
      /\ s.pl[o].m_Id = s.m_LastId - 1
      /\ \A h \in s.hooks : h.file # s.pl[o].m_File
  BY <1>1 DEF RetryReady
<1>3. Managers(s) /\ StackOK(s, e) /\ SitsWell(s, L, R) /\ IdsApart(s)
  BY <1>1, <1>2 DEF RunsOn, SitsWell, PluginsOK
<1>5. ~HasCode(s.pl[old]) /\ old \in DOMAIN s.pl
  BY <1>2, <1>3, ListedTyped DEF HasCode, Held
<1>6. PICK then : then = Then("retry old", o, id)
  OBVIOUS
<1>7. then.what = "retry old" /\ then.obj = o /\ then.id = id
  BY <1>6 DEF Then
<1>8. PICK t : t = Delete(EraseSameId(s, old), old)
  OBVIOUS
<1>9. PICK d : d = _Unload(s, old, then)
  OBVIOUS
<1>10. d.m = t /\ d.call = <<>>
  <2>1. d = Config(t, <<>>)
    BY <1>5, <1>8, <1>9 DEF _Unload
  <2>. QED
    BY <2>1, ConfigFields
<1>11. PICK u : u = RetryDone(t, o, id)
  OBVIOUS
<1>12. c.m = u /\ c.call = <<>>
  <2>1. c = Config(u, <<>>)
    BY <1>6, <1>7, <1>9, <1>10, <1>11 DEF Unloaded, AfterUnload
  <2>. QED
    BY <2>1, ConfigFields
<1>13. RunsOn(u, e, E, E)
  BY <1>1, <1>8, <1>11, RetrySwapped
<1>21. Loading(e) = E /\ Retried(e) = E
  BY <1>1, EmptyStack
<1>22. ConfigOK(u, e \o <<>>)
  BY <1>13, <1>21, NotCalled
<1>. QED
  BY <1>1, <1>12, <1>22

\* What follows a Load in Retry.
LEMMA RetryEnds ==
    ASSUME NEW s, NEW o, NEW old, NEW L, NEW R, RetryReady(s, o, old, L, R),
           ~Failed(s.pl[o].m_Status) => o \in Held(s),
           NEW then, then.what = "retry", then.obj = old, then.id = s.pl[old].m_Id,
           NEW c, c = AfterLoad(s, o, then, FALSE)
    PROVE  ConfigOK(c.m, <<>> \o c.call)
<1>1. PICK e, t, loop, L2 : e = <<>> /\ loop = FALSE /\ t = FailedUnloaded(s, o, loop) /\ L2 = L \ {o}
  OBVIOUS
<1>2. /\ RunsOn(s, e, L, R) /\ o \in On(s) /\ o \notin Waiting(s) /\ L2 = {}
      /\ old \in On(s) \ Held(s) /\ o # old /\ R = {o, old}
      /\ s.pl[o].m_Id = s.m_LastId - 1
      /\ \A h \in s.hooks : h.file # s.pl[o].m_File
  BY <1>1 DEF RetryReady
<1>3. loop \in BOOLEAN /\ NoHandler(e) /\ NoClear(e) /\ Spares(e, {o})
  BY <1>1, EmptyStack
<1>4. RunsOn(t, e, L \ {o}, R) /\ FailedDone(s, t, o, loop, L, R)
  <2>1. FailReady(s, e, L, R, o, loop)
    BY <1>1, <1>2, <1>3 DEF FailReady
  <2>. QED
    BY <1>1, <2>1, FailedRuns
<1>5. /\ RunsOn(t, e, L2, R) /\ Untouched(s, t, {o}) /\ Kept(s, t) /\ On(t) = On(s)
      /\ Waiting(t) = Waiting(s) /\ (Failed(t.pl[o].m_Status) => o \notin Held(t))
  BY <1>1, <1>4 DEF FailedDone
<1>6. Managers(s) /\ Managers(t)
  BY <1>2, <1>5 DEF RunsOn, SitsWell
<1>7. /\ o \in DOMAIN t.pl /\ o \in DOMAIN s.pl /\ old \in DOMAIN s.pl \ {o}
  BY <1>2, <1>5, <1>6, ListedTyped
<1>8. /\ t.m_LastId = s.m_LastId /\ t.hooks \subseteq s.hooks
      /\ t.pl[o].m_Id = s.pl[o].m_Id /\ t.pl[o].m_File = s.pl[o].m_File /\ t.pl[o].m_Status = s.pl[o].m_Status
  BY <1>5, <1>7 DEF Kept
<1>9. t.pl[old] = s.pl[old] /\ old \notin Held(t)
  BY <1>2, <1>5, <1>7 DEF Untouched, Held
<1>10. RetryReady(t, o, old, L2, R)
  <2>1. L2 \ {o} = {}
    BY <1>2
  <2>. QED
    BY <1>1, <1>2, <1>5, <1>8, <1>9, <2>1 DEF RetryReady
<1>11. CASE Failed(s.pl[o].m_Status)
  <2>1. c = Unloaded(t, o, Then("retry new", Nobody, 0))
    BY <1>1, <1>8, <1>11 DEF AfterLoad
  <2>2. o \notin Held(t)
    BY <1>5, <1>8, <1>11
  <2>. QED
    BY <1>10, <2>1, <2>2, RetryFails
<1>12. CASE ~Failed(s.pl[o].m_Status)
  <2>1. c = Unloaded(t, old, Then("retry old", o, then.id))
    BY <1>1, <1>8, <1>12 DEF AfterLoad
  <2>2. t = s
    BY <1>1, <1>12 DEF FailedUnloaded
  <2>3. o \in Held(t)
    BY <1>12, <2>2
  <2>4. PICK id : id = then.id
    OBVIOUS
  <2>5. id = t.pl[old].m_Id /\ c = Unloaded(t, old, Then("retry old", o, id))
    BY <1>9, <2>1, <2>4
  <2>. QED
    BY <1>2, <1>10, <2>3, <2>5, RetrySucceeds
<1>. QED
  BY <1>11, <1>12

-----------------------------------------------------------------------------
(* Loading a plugin, under the functions that go on. *)
OpenedAs(s, f, kind, status, p) ==
    /\ Fresh(s, f, p)
    /\ kind = "Load" => p.m_Lib = TRUE /\ p.m_API = TRUE /\ p.m_Status = status
    /\ kind # "Load" => Failed(p.m_Status)

\* What a _Load makes of a file: an object that is well formed.
LEMMA OpenedIsFresh ==
    ASSUME NEW s, Managers(s), NEW f \in Files, NEW kind, NEW status \in {"Refused", "Running"},
           NEW p, p = Opened(s, f, kind, status)
    PROVE  OpenedAs(s, f, kind, status, p)
<1>1. PICK lib, api, st : /\ lib = (kind \in {"NoInterface", "WrongVersion", "Load"})
                          /\ api = (kind \in {"WrongVersion", "Load"})
                          /\ st = CASE kind = "NotFound" -> "NotFound"
                                    [] kind = "Load"     -> status
                                    [] OTHER             -> "Error"
  OBVIOUS
<1>2. p = [m_Id |-> s.m_LastId, m_File |-> f, m_Status |-> st, m_API |-> api, m_Lib |-> lib,
           m_Events |-> FALSE, m_UnloadFn |-> api, told |-> 0]
  BY <1>1 DEF Opened, NewPlugin
<1>3. lib \in BOOLEAN /\ api \in BOOLEAN /\ (api = TRUE => lib = TRUE)
  <2>1. api = TRUE => lib = TRUE
    BY <1>1
  <2>2. lib \in BOOLEAN
    BY <1>1
  <2>3. api \in BOOLEAN
    BY <1>1
  <2>. QED
    BY <2>1, <2>2, <2>3
<1>4. /\ st \in Statuses
      /\ lib = TRUE /\ ~Failed(st) => api = TRUE
      /\ kind = "Load" => lib = TRUE /\ api = TRUE /\ st = status
      /\ kind # "Load" => Failed(st)
  <2>1. CASE kind = "Load"
    BY <1>1, <2>1 DEF Statuses
  <2>2. CASE kind # "Load"
    <3>1. st \in {"NotFound", "Error"}
      BY <1>1, <2>2
    <3>. QED
      BY <2>2, <3>1 DEF Statuses, Failed
  <2>. QED
    BY <2>1, <2>2
<1>5. s.m_LastId \in Nat
  BY DEF Managers
<1>6. p \in CPlugins
  BY <1>2, <1>3, <1>4, <1>5 DEF CPlugins
<1>7. p.m_Id = s.m_LastId /\ p.m_File = f /\ p.m_Events = FALSE /\ p.m_API = api /\ p.m_Lib = lib /\ p.m_Status = st
  BY <1>2
<1>8. Fresh(s, f, p)
  BY <1>3, <1>4, <1>6, <1>7 DEF Fresh
<1>. QED
  BY <1>4, <1>7, <1>8 DEF OpenedAs

\* Opening a library counts one more, and an interface found in it is up.
LEMMA OpenedLibrary ==
    ASSUME NEW l \in Libraries, NEW p \in CPlugins, NEW q, q = OpenedLib(l, p)
    PROVE  /\ q \in Libraries
           /\ p.m_Lib = TRUE => q.refs = l.refs + 1 /\ (p.m_API = TRUE => q.up)
           /\ p.m_Lib = FALSE => q = l
<1>0. p.m_API \in BOOLEAN /\ p.m_Lib \in BOOLEAN
  BY DEF CPlugins
<1>1. CASE p.m_Lib = TRUE
  <2>1. PICK up : up = (l.up \/ p.m_API)
    OBVIOUS
  <2>2. q = [refs |-> l.refs + 1, plid |-> l.plid, up |-> up]
    BY <1>1, <2>1 DEF OpenedLib
  <2>3. l.refs \in Int /\ l.plid \in Nat /\ l.up \in BOOLEAN
    BY DEF Libraries
  <2>4. up \in BOOLEAN /\ (p.m_API = TRUE => up = TRUE)
    BY <1>0, <2>1, <2>3
  <2>5. q.refs = l.refs + 1 /\ q.up = up
    BY <2>2
  <2>6. q \in Libraries
    BY <2>2, <2>3, <2>4 DEF Libraries
  <2>. QED
    BY <1>1, <2>4, <2>5, <2>6
<1>2. CASE p.m_Lib = FALSE
  BY <1>2 DEF OpenedLib
<1>. QED
  BY <1>0, <1>1, <1>2

\* Adding an object opens its library when the object holds one.
LEMMA LibOfAdded ==
    ASSUME NEW s, Managers(s), NEW f \in Files, NEW p \in CPlugins,
           NEW lib, lib = [s.lib EXCEPT ![f] = OpenedLib(@, p)]
    PROVE  LibGained(s, f, p, lib)
<1>1. s.lib \in [Files -> Libraries]
  BY DEF Managers
<1>2. PICK l, q : l = s.lib[f] /\ q = OpenedLib(l, p)
  OBVIOUS
<1>3. lib = [s.lib EXCEPT ![f] = q]
  BY <1>1, <1>2
<1>4. l \in Libraries
  BY <1>1, <1>2
<1>5. /\ q \in Libraries
      /\ p.m_Lib = TRUE => q.refs = l.refs + 1 /\ (p.m_API = TRUE => q.up)
      /\ p.m_Lib = FALSE => q = l
  BY <1>2, <1>4, OpenedLibrary
<1>6. lib \in [Files -> Libraries] /\ lib[f] = q /\ \A g \in Files : g # f => lib[g] = s.lib[g]
  BY <1>1, <1>3, <1>5
<1>. QED
  BY <1>2, <1>5, <1>6 DEF LibGained

\* _Load adds its object: the manager with it is in order.
LEMMA AddedPlugin ==
    ASSUME NEW s, NEW f, NEW p, NEW L, NEW R, NEW L2, NEW R2, AddReady(s, f, p, L, R, L2, R2),
           NEW t, t = Added(s, f, p), NEW o, o = s.made + 1
    PROVE  AddedDone(s, t, o, p, L2, R2)
<1>0. /\ SitsWell(s, L, R) /\ Once(s) /\ s.m_LastId >= Pl_MinId /\ f \in Files
      /\ Fresh(s, f, p) /\ \A x \in Held(s) : s.pl[x].m_File # f
      /\ R = {} \/ R = R2
      /\ \A x \in On(s) : s.pl[x].m_File = f => {x, o} = R2
      /\ L2 = IF p.m_Lib THEN L \cup {o} ELSE L
  BY DEF AddReady
<1>1. PICK lib : lib = [s.lib EXCEPT ![f] = OpenedLib(@, p)]
  OBVIOUS
<1>2. Managers(s)
  BY <1>0 DEF SitsWell
<1>3. p \in CPlugins
  BY <1>0 DEF Fresh
<1>4. LibGained(s, f, p, lib)
  BY <1>0, <1>1, <1>2, <1>3, LibOfAdded
<1>5. t = PutIn(s, o, p, lib)
  BY <1>1 DEF Added, PutIn
<1>. QED
  BY <1>0, <1>4, <1>5, AddedKeeps

\* No frame refers to a plugin that is not listed.
LEMMA SparesUnlisted ==
    ASSUME NEW s, NEW fs, StackOK(s, fs), NEW o, o \notin On(s)
    PROVE  Spares(fs, {o})
<1>. SUFFICES ASSUME NEW k \in DOMAIN fs
              PROVE  ~RefersTo(fs[k], o)
  BY DEF Spares
<1>1. FrameOK(s, Waiting(s), fs[k])
  BY DEF StackOK
<1>. QED
  BY <1>1 DEF FrameOK, RefersTo

\* The plid that a library learns before its Load is called.
LEMMA PlidSet ==
    ASSUME NEW s, Managers(s), NEW f \in Files, NEW id \in Nat, NEW t, t = [s EXCEPT !.lib[f].plid = id]
    PROVE  Managers(t) /\ Similar(s, t)
<1>1. PICK l : l = s.lib[f]
  OBVIOUS
<1>2. PICK q : q = [l EXCEPT !.plid = id]
  OBVIOUS
<1>3. PICK lib : lib = [s.lib EXCEPT ![f] = q]
  OBVIOUS
<1>4. s.lib \in [Files -> Libraries] /\ l \in Libraries
  BY <1>1 DEF Managers
<1>5. q \in Libraries /\ q.refs = l.refs /\ q.up = l.up
  BY <1>2, <1>4 DEF Libraries
<1>6. /\ lib \in [Files -> Libraries]
      /\ \A g \in Files : lib[g].refs = s.lib[g].refs /\ lib[g].up = s.lib[g].up
  BY <1>1, <1>3, <1>4, <1>5
<1>7. t = [s EXCEPT !.lib = lib]
  BY <1>1, <1>2, <1>3
<1>8. IsRec(s)
  BY DEF Managers
<1>9. PICK d : d = Rec(s.pl, s.made, s.m_Plugins, s.m_LastId, s.m_AllLoaded, s.hooks, lib, s.pending)
  OBVIOUS
<1>10. /\ IsRec(d) /\ d.pl = s.pl /\ d.made = s.made /\ d.m_Plugins = s.m_Plugins /\ d.m_LastId = s.m_LastId
       /\ d.m_AllLoaded = s.m_AllLoaded /\ d.hooks = s.hooks /\ d.lib = lib /\ d.pending = s.pending
  BY <1>9, RecFields
<1>100. t = d
  BY <1>7, <1>8, <1>9, WithLib
<1>11. Managers(d)
  BY <1>6, <1>10 DEF Managers
<1>. QED
  BY <1>6, <1>10, <1>100, <1>11 DEF Similar

\* A plugin made on top of frames none of which is a retry.
LEMMA AddedRuns ==
    ASSUME NEW s, NEW fs, NEW L, NEW R, RunsOn(s, fs, L, R), NoRetry(fs),
           NEW o, NEW p, NEW L2, NEW R2, NEW t, AddedDone(s, t, o, p, L2, R2)
    PROVE  RunsOn(t, fs, L2, R2)
<1>1. /\ Managers(s) /\ SitsWell(s, L, R) /\ s.m_LastId \in Nat /\ s.m_LastId >= Pl_MinId
      /\ fs \in Seq(Frames) /\ StackOK(s, fs)
  BY DEF RunsOn, SitsWell, Managers
<1>2. /\ SitsWell(t, L2, R2) /\ Once(t) /\ Untouched(s, t, {}) /\ On(t) = On(s) \cup {o} /\ Waiting(t) = Waiting(s)
      /\ o \notin DOMAIN s.pl /\ t.hooks = s.hooks /\ FilesKept(s, t) /\ t.m_LastId = s.m_LastId + 1
  BY DEF AddedDone
<1>3. Waiting(s) \subseteq DOMAIN s.pl
  <2>1. LibsHeld(s, Waiting(s), L)
    BY <1>1 DEF SitsWell, PluginsOK
  <2>. QED
    BY <2>1 DEF LibsHeld, Held
<1>4. NoClear(fs) \/ Waiting(t) \cap On(t) = {}
  <2>1. Waiting(t) \cap On(t) \subseteq Waiting(s) \cap On(s)
    BY <1>2, <1>3
  <2>. QED
    BY <1>1, <2>1, ClearStays
<1>5. PICK X : X = {}
  OBVIOUS
<1>6. Leaves(s, t, fs, X)
  <2>1. Spares(fs, X)
    BY <1>5 DEF Spares
  <2>2. \A k \in DOMAIN fs : fs[k].then.what # "retry"
    BY DEF NoRetry
  <2>. QED
    BY <1>2, <1>4, <1>5, <2>1, <2>2 DEF Leaves
<1>7. StackOK(t, fs)
  BY <1>1, <1>6, StackKept
<1>8. t.m_LastId >= Pl_MinId
  BY <1>1, <1>2 DEF Pl_MinId
<1>. QED
  BY <1>1, <1>2, <1>7, <1>8 DEF RunsOn

LoadReady(s, fs, f, loop) ==
    /\ RunsOn(s, fs, Loading(fs), Retried(fs)) /\ NoRetry(fs) /\ NoClear(fs)
    /\ f \in Files
    /\ \A x \in On(s) : s.pl[x].m_File # f
    /\ \A x \in Held(s) : s.pl[x].m_File # f
    /\ loop \in BOOLEAN
    /\ loop = FALSE => NoHandler(fs)

MadeOf(s, t, fs, f, p, o, L, R) ==
    /\ RunsOn(t, fs, L, R) /\ o \in On(t) /\ o \notin Waiting(t) /\ o \notin DOMAIN s.pl
    /\ t.pl[o] = p /\ o \in Nat /\ Untouched(s, t, {}) /\ t.hooks = s.hooks /\ t.m_LastId = s.m_LastId + 1
    /\ On(t) = On(s) \cup {o}

\* The same, with a stack under way below.
LEMMA PluginMade ==
    ASSUME NEW s, NEW fs, RunsOn(s, fs, Loading(fs), Retried(fs)), NoRetry(fs), NEW f \in Files,
           NEW o, o = s.made + 1,
           NEW R, \A x \in On(s) : s.pl[x].m_File = f => {x, o} = R,
           \A x \in Held(s) : s.pl[x].m_File # f,
           NEW p, Fresh(s, f, p), NEW L, L = IF p.m_Lib THEN Loading(fs) \cup {o} ELSE Loading(fs),
           NEW t, t = Added(s, f, p)
    PROVE  MadeOf(s, t, fs, f, p, o, L, R)
<1>1. PICK L0, R0 : L0 = Loading(fs) /\ R0 = Retried(fs)
  OBVIOUS
<1>2. RunsOn(s, fs, L0, R0) /\ R0 = {} /\ L = IF p.m_Lib THEN L0 \cup {o} ELSE L0
  BY <1>1, RetriedNone
<1>3. SitsWell(s, L0, R0) /\ Once(s) /\ s.m_LastId >= Pl_MinId /\ Managers(s)
  BY <1>2 DEF RunsOn, SitsWell
<1>4. AddedDone(s, t, o, p, L, R)
  <2>1. AddReady(s, f, p, L0, R0, L, R)
    BY <1>2, <1>3 DEF AddReady
  <2>. QED
    BY <2>1, AddedPlugin
<1>5. RunsOn(t, fs, L, R)
  BY <1>2, <1>4, AddedRuns
<1>6. Waiting(s) \subseteq DOMAIN s.pl
  <2>1. LibsHeld(s, Waiting(s), L0)
    BY <1>3 DEF SitsWell, PluginsOK
  <2>. QED
    BY <2>1 DEF LibsHeld, Held
<1>7. s.made \in Nat
  BY <1>3 DEF Managers
<1>. QED
  BY <1>4, <1>5, <1>6, <1>7 DEF MadeOf, AddedDone

RetriesWell(t, fs, f, p, x, id) ==
    /\ fs = <<>> /\ x \in On(t) \ Held(t) /\ Failed(t.pl[x].m_Status) /\ t.pl[x].m_File = f
    /\ p.m_Id = t.m_LastId - 1 /\ id = t.pl[x].m_Id
    /\ \A h \in t.hooks : h.file # f

\* The frame of a plugin's Load.
LEMMA LoadCalled ==
    ASSUME NEW s, NEW t, NEW fs, NEW f \in Files, NEW o, NEW p, NEW L, NEW R, MadeOf(s, t, fs, f, p, o, L, R),
           StackOK(s, fs), Managers(s), NoClear(fs), p.m_API = TRUE, p.m_Lib = TRUE, p.m_Status # "Paused",
           p.m_File = f, p.m_Id \in Nat,
           NEW u, u = [t EXCEPT !.lib[f].plid = p.m_Id],
           L = Loading(fs) \cup {o},
           NEW what \in {"load", "retry"}, NEW x \in Nat, NEW id \in Nat,
           R = Retried(fs) \cup IF what = "retry" THEN {o, x} ELSE {},
           what = "retry" => RetriesWell(t, fs, f, p, x, id),
           NEW fr, fr = Frame("Load", o, f, Then(what, x, id))
    PROVE  ConfigOK(u, fs \o <<fr>>)
<1>1. /\ RunsOn(t, fs, L, R) /\ o \in On(t) /\ o \notin Waiting(t) /\ o \notin DOMAIN s.pl /\ o \in Nat
      /\ t.pl[o] = p
  BY DEF MadeOf
<1>2. /\ fr \in Frames /\ fr.kind = "Load" /\ fr.obj = o /\ fr.file = f
      /\ fr.then.what = what /\ fr.then.obj = x /\ fr.then.id = id
  <2>1. what \in Whats /\ "Load" \in Kinds /\ f \in Files \cup {Metamod}
    BY DEF Whats, Kinds
  <2>2. PICK kind : kind = "Load"
    OBVIOUS
  <2>3. kind \in Kinds /\ fr = Frame(kind, o, f, Then(what, x, id))
    BY <2>1, <2>2
  <2>. QED
    BY <1>1, <2>1, <2>2, <2>3, FrameTyped
<1>3. Managers(t)
  BY <1>1 DEF RunsOn, SitsWell
<1>4. Managers(u) /\ Similar(t, u)
  BY <1>3, PlidSet
<1>5. RunsOn(u, fs, L, R)
  BY <1>1, <1>4, SimilarRuns
<1>6. o \in DOMAIN t.pl /\ On(t) \subseteq DOMAIN t.pl /\ o \in Held(t)
  BY <1>1, <1>3, ListedTyped DEF Held
<1>7. /\ On(u) = On(t) /\ Waiting(u) = Waiting(t) /\ DOMAIN u.pl = DOMAIN t.pl
      /\ u.hooks = t.hooks /\ u.m_LastId = t.m_LastId
      /\ \A y \in DOMAIN t.pl :
           /\ u.pl[y].m_Id = t.pl[y].m_Id /\ u.pl[y].m_File = t.pl[y].m_File /\ u.pl[y].m_Lib = t.pl[y].m_Lib
           /\ u.pl[y].m_Status = t.pl[y].m_Status /\ u.pl[y].m_API = t.pl[y].m_API
  BY <1>4 DEF Similar, On, Waiting
<1>8. Held(u) = Held(t)
  BY <1>7 DEF Held
<1>9. FrameOK(u, Waiting(u), fr)
  <2>1. Fits(fr)
    BY <1>2 DEF Fits
  <2>2. fr.obj \in (On(u) \cap Held(u)) \ Waiting(u) /\ u.pl[fr.obj].m_File = fr.file
    BY <1>1, <1>2, <1>6, <1>7, <1>8
  <2>3. u.pl[fr.obj].m_API /\ u.pl[fr.obj].m_Status # "Paused"
    BY <1>1, <1>2, <1>6, <1>7
  <2>4. what = "retry" =>
          /\ x \in On(u) \ Held(u) /\ Failed(u.pl[x].m_Status) /\ u.pl[x].m_File = f
          /\ u.pl[o].m_Id = u.m_LastId - 1 /\ id = u.pl[x].m_Id
          /\ \A h \in u.hooks : h.file # f
    BY <1>1, <1>6, <1>7, <1>8 DEF RetriesWell
  <2>. QED
    BY <1>2, <2>1, <2>2, <2>3, <2>4 DEF FrameOK
<1>10. Spares(fs, {o})
  BY <1>1, ListedTyped, SparesUnlisted
<1>11. MayRun(u, fs, fr)
  BY <1>2, <1>9, <1>10 DEF MayRun, Bottom, AsksAlone, RetriesWell
<1>12. L = Loading(fs) \cup LoadingIn(fr) /\ R = Retried(fs) \cup RetriedIn(fr)
  <2>1. LoadingIn(fr) = {o}
    BY <1>2 DEF LoadingIn
  <2>2. RetriedIn(fr) = IF what = "retry" THEN {o, x} ELSE {}
    BY <1>2 DEF RetriedIn
  <2>. QED
    BY <2>1, <2>2
<1>. QED
  BY <1>2, <1>5, <1>11, <1>12, Called

\* When all is in place _Load saves g_PLID and calls Load.
LEMMA LoadCalls ==
    ASSUME NEW s, NEW f, NEW kind, NEW status, NEW then, NEW loop,
           NEW o, o = s.made + 1, NEW p, p = Opened(s, f, kind, status), NEW t, t = Added(s, f, p),
           kind = "Load", NEW u, u = [t EXCEPT !.lib[f].plid = p.m_Id], NEW fr, fr = Frame("Load", o, f, then),
           NEW c, c = _Load(s, f, kind, status, then, loop)
    PROVE  c.m = u /\ c.call = <<fr>>
<1>1. c = Config(u, <<fr>>)
  BY DEF _Load
<1>. QED
  BY <1>1, ConfigFields

\* When something is wrong _Load goes straight to its end.
LEMMA LoadStops ==
    ASSUME NEW s, NEW f, NEW kind, NEW status, NEW then, NEW loop,
           NEW o, o = s.made + 1, NEW p, p = Opened(s, f, kind, status), NEW t, t = Added(s, f, p),
           kind # "Load", NEW c, c = _Load(s, f, kind, status, then, loop)
    PROVE  c = AfterLoad(t, o, then, loop)
BY DEF _Load

\* _Load, for Load.
LEMMA LoadRuns ==
    ASSUME NEW s, NEW fs, NEW f, NEW loop, LoadReady(s, fs, f, loop),
           NEW kind, NEW status \in {"Refused", "Running"},
           NEW c, c = _Load(s, f, kind, status, Then("load", Nobody, 0), loop)
    PROVE  ConfigOK(c.m, fs \o c.call)
<1>1. PICK o, p, t, then : /\ o = s.made + 1 /\ p = Opened(s, f, kind, status) /\ t = Added(s, f, p)
                           /\ then = Then("load", Nobody, 0)
  OBVIOUS
<1>2. /\ RunsOn(s, fs, Loading(fs), Retried(fs)) /\ NoRetry(fs) /\ NoClear(fs)
      /\ f \in Files /\ loop \in BOOLEAN /\ (loop = FALSE => NoHandler(fs))
      /\ \A x \in On(s) : s.pl[x].m_File # f
      /\ \A x \in Held(s) : s.pl[x].m_File # f
  BY DEF LoadReady
<1>3. Managers(s) /\ StackOK(s, fs)
  BY <1>2 DEF RunsOn, SitsWell
<1>4. /\ Fresh(s, f, p)
      /\ kind = "Load" => p.m_Lib = TRUE /\ p.m_API = TRUE /\ p.m_Status = status
      /\ kind # "Load" => Failed(p.m_Status)
  <2>1. Managers(s) /\ f \in Files /\ p = Opened(s, f, kind, status)
    BY <1>1, <1>2, <1>3
  <2>2. OpenedAs(s, f, kind, status, p)
    BY <2>1, OpenedIsFresh
  <2>. QED
    BY <2>2 DEF OpenedAs
<1>5. p \in CPlugins /\ p.m_Id \in Nat /\ p.m_File = f
  BY <1>4 DEF Fresh, CPlugins
<1>6. PICK L, R : L = (IF p.m_Lib THEN Loading(fs) \cup {o} ELSE Loading(fs)) /\ R = {}
  OBVIOUS
<1>7. MadeOf(s, t, fs, f, p, o, L, R)
  <2>1. \A x \in On(s) : s.pl[x].m_File = f => {x, o} = R
    BY <1>2
  <2>. QED
    BY <1>1, <1>2, <1>4, <1>6, <2>1, PluginMade
<1>8. R = Retried(fs)
  BY <1>2, <1>6, RetriedNone
<1>9. CASE kind = "Load"
  <2>1. PICK u, fr : u = [t EXCEPT !.lib[f].plid = p.m_Id] /\ fr = Frame("Load", o, f, then)
    OBVIOUS
  <2>2. c = _Load(s, f, kind, status, then, loop)
    BY <1>1
  <2>3. c.m = u /\ c.call = <<fr>>
    BY <1>1, <1>9, <2>1, <2>2, LoadCalls
  <2>4. PICK what, x, id : what = "load" /\ x = Nobody /\ id = 0
    OBVIOUS
  <2>5. /\ what \in {"load", "retry"} /\ x \in Nat /\ id \in Nat /\ what # "retry"
        /\ fr = Frame("Load", o, f, Then(what, x, id))
    BY <1>1, <2>1, <2>4 DEF Nobody
  <2>6. L = Loading(fs) \cup {o} /\ R = Retried(fs) \cup IF what = "retry" THEN {o, x} ELSE {}
    BY <1>4, <1>6, <1>8, <1>9, <2>5
  <2>7. p.m_Lib = TRUE /\ p.m_API = TRUE /\ p.m_Status # "Paused"
    BY <1>4, <1>9
  <2>8. ConfigOK(u, fs \o <<fr>>)
    BY <1>2, <1>3, <1>5, <1>7, <2>1, <2>5, <2>6, <2>7, LoadCalled
  <2>. QED
    BY <2>3, <2>8
<1>10. CASE kind # "Load"
  <2>0. c = _Load(s, f, kind, status, then, loop)
    BY <1>1
  <2>1. c = AfterLoad(t, o, then, loop)
    BY <1>1, <1>10, <2>0, LoadStops
  <2>2. RunsOn(t, fs, L, Retried(fs)) /\ o \in On(t) /\ o \notin Waiting(t) /\ o \notin DOMAIN s.pl
    BY <1>7, <1>8 DEF MadeOf
  <2>3. Spares(fs, {o})
    BY <1>3, <2>2, ListedTyped, SparesUnlisted
  <2>4. o \notin Loading(fs)
    BY <1>3, <2>3, SparesLoading
  <2>5. L \ {o} = Loading(fs)
    BY <1>6, <2>4
  <2>6. then.what = "load"
    BY <1>1 DEF Then
  <2>. QED
    BY <1>2, <2>1, <2>2, <2>3, <2>5, <2>6, LoadDone
<1>. QED
  BY <1>9, <1>10

RetryStarts(s, old, f, fs, loop, then) ==
    /\ fs = <<>> /\ loop = FALSE /\ then = Then("retry", old, s.pl[old].m_Id)
    /\ RunsOn(s, fs, {}, {}) /\ old \in On(s) \ Held(s) /\ Failed(s.pl[old].m_Status)
    /\ s.pl[old].m_File = f
    /\ \A x \in Held(s) : s.pl[x].m_File # f
    /\ \A h \in s.hooks : h.file # f

\* _Load, for Retry.
LEMMA RetryRuns ==
    ASSUME NEW s, NEW old, NEW f, NEW fs, NEW loop, NEW then, RetryStarts(s, old, f, fs, loop, then),
           NEW kind, NEW status, status \in {"Refused", "Running"},
           NEW c, c = _Load(s, f, kind, status, then, loop)
    PROVE  ConfigOK(c.m, fs \o c.call)
<1>0. PICK id : id = s.pl[old].m_Id
  OBVIOUS
<1>1. PICK o, p, t : o = s.made + 1 /\ p = Opened(s, f, kind, status) /\ t = Added(s, f, p)
  OBVIOUS
<1>2. /\ RunsOn(s, fs, {}, {}) /\ old \in On(s) \ Held(s) /\ Failed(s.pl[old].m_Status)
      /\ s.pl[old].m_File = f
      /\ \A x \in Held(s) : s.pl[x].m_File # f
      /\ \A h \in s.hooks : h.file # f
  BY DEF RetryStarts
<1>3. Managers(s) /\ StackOK(s, fs) /\ SitsWell(s, {}, {}) /\ s.m_LastId \in Nat
  BY <1>2 DEF RunsOn, SitsWell, Managers
<1>4. FilesApart(s, Waiting(s), {})
  BY <1>3 DEF SitsWell, PluginsOK
<1>5. old \in DOMAIN s.pl /\ old \in Nat /\ f \in Files /\ id \in Nat
  <2>1. old \in DOMAIN s.pl /\ old \in Nat /\ s.pl[old] \in CPlugins
    BY <1>2, <1>3, ListedTyped
  <2>. QED
    BY <1>0, <1>2, <2>1 DEF CPlugins
<1>6. /\ Fresh(s, f, p)
      /\ kind = "Load" => p.m_Lib = TRUE /\ p.m_API = TRUE /\ p.m_Status = status
      /\ kind # "Load" => Failed(p.m_Status)
  <2>1. Managers(s) /\ f \in Files /\ p = Opened(s, f, kind, status)
    BY <1>1, <1>3, <1>5
  <2>2. OpenedAs(s, f, kind, status, p)
    BY <2>1, OpenedIsFresh
  <2>. QED
    BY <2>2 DEF OpenedAs
<1>7. p \in CPlugins /\ p.m_Id = s.m_LastId /\ p.m_Id \in Nat /\ p.m_File = f
  BY <1>6 DEF Fresh, CPlugins
<1>8. NoRetry(fs) /\ NoClear(fs) /\ Loading(fs) = {} /\ Retried(fs) = {}
  BY EmptyStack DEF RetryStarts
<1>9. PICK L, R : L = (IF p.m_Lib THEN Loading(fs) \cup {o} ELSE Loading(fs)) /\ R = {old, o}
  OBVIOUS
<1>10. \A x \in On(s) : s.pl[x].m_File = f => {x, o} = R
  <2>1. \A x \in On(s) : s.pl[x].m_File = f => x = old
    BY <1>2, <1>4 DEF FilesApart
  <2>. QED
    BY <1>9, <2>1
<1>11. MadeOf(s, t, fs, f, p, o, L, R)
  <2>1. RunsOn(s, fs, Loading(fs), Retried(fs))
    BY <1>2, <1>8
  <2>. QED
    BY <1>1, <1>2, <1>5, <1>6, <1>8, <1>9, <1>10, <2>1, PluginMade
<1>12. /\ RunsOn(t, fs, L, R) /\ o \in On(t) /\ o \notin Waiting(t) /\ o \notin DOMAIN s.pl
       /\ t.pl[o] = p /\ Untouched(s, t, {}) /\ t.hooks = s.hooks /\ t.m_LastId = s.m_LastId + 1
  BY <1>11 DEF MadeOf
<1>13. t.pl[old] = s.pl[old] /\ old \in On(t) \ Held(t) /\ o # old
  BY <1>2, <1>5, <1>12 DEF Untouched, Held
<1>14. p.m_Id = t.m_LastId - 1
  <2>1. PICK a : a = s.m_LastId
    OBVIOUS
  <2>2. a \in Nat /\ (a + 1) - 1 = a
    BY <1>3, <2>1
  <2>. QED
    BY <1>7, <1>12, <2>1, <2>2
<1>15. CASE kind = "Load"
  <2>1. PICK u, fr : u = [t EXCEPT !.lib[f].plid = p.m_Id] /\ fr = Frame("Load", o, f, then)
    OBVIOUS
  <2>3. c.m = u /\ c.call = <<fr>>
    BY <1>1, <1>15, <2>1, LoadCalls
  <2>4. PICK what : what = "retry"
    OBVIOUS
  <2>5. what \in {"load", "retry"} /\ fr = Frame("Load", o, f, Then(what, old, id))
    BY <1>0, <1>1, <2>1, <2>4 DEF RetryStarts
  <2>6. L = Loading(fs) \cup {o} /\ R = Retried(fs) \cup IF what = "retry" THEN {o, old} ELSE {}
    BY <1>6, <1>8, <1>9, <1>15, <2>4
  <2>7. p.m_Lib = TRUE /\ p.m_API = TRUE /\ p.m_Status # "Paused"
    BY <1>1, <1>6, <1>15
  <2>8. RetriesWell(t, fs, f, p, old, id)
    BY <1>0, <1>2, <1>12, <1>13, <1>14 DEF RetriesWell, RetryStarts
  <2>9. ConfigOK(u, fs \o <<fr>>)
    <3>1. StackOK(s, fs) /\ Managers(s) /\ NoClear(fs) /\ f \in Files /\ old \in Nat /\ id \in Nat
      BY <1>3, <1>5, <1>8
    <3>2. p.m_API = TRUE /\ p.m_Lib = TRUE /\ p.m_Status # "Paused" /\ p.m_File = f /\ p.m_Id \in Nat
      BY <1>7, <2>7
    <3>. QED
      BY <1>11, <2>1, <2>5, <2>6, <2>8, <3>1, <3>2, LoadCalled
  <2>. QED
    BY <1>1, <2>3, <2>9
<1>16. CASE kind # "Load"
  <2>1. c = AfterLoad(t, o, then, loop)
    BY <1>1, <1>16, LoadStops
  <2>2. L \ {o} = {} /\ R = {o, old}
    BY <1>8, <1>9
  <2>3. RetryReady(t, o, old, L, R)
    BY <1>1, <1>2, <1>7, <1>12, <1>13, <1>14, <2>2 DEF RetryReady, RetryStarts
  <2>4. Failed(t.pl[o].m_Status)
    BY <1>6, <1>12, <1>16
  <2>5. then.what = "retry" /\ then.obj = old /\ then.id = t.pl[old].m_Id
    BY <1>13 DEF Then, RetryStarts
  <2>6. loop = FALSE /\ fs = <<>>
    BY DEF RetryStarts
  <2>. QED
    BY <2>1, <2>3, <2>4, <2>5, <2>6, RetryEnds
<1>. QED
  BY <1>15, <1>16

-----------------------------------------------------------------------------
(* Steps of the console and of plugins. *)
LoadsFile(s, fs, f, loop) ==
    /\ RunsOn(s, fs, Loading(fs), Retried(fs)) /\ NoRetry(fs) /\ NoClear(fs) /\ f \in Files
    /\ loop \in BOOLEAN
    /\ loop = FALSE => NoHandler(fs)
    /\ \A x \in Waiting(s) : s.pl[x].m_File # f
    /\ \A o \in SameFile(s, f) : Failed(s.pl[o].m_Status) /\ Spares(fs, {o})

\* Load takes the failed plugins of the file off the list and loads it.
LEMMA FileLoads ==
    ASSUME NEW s, NEW fs, NEW f, NEW loop, LoadsFile(s, fs, f, loop),
           NEW kind, NEW status \in {"Refused", "Running"},
           NEW c, c = Load(s, f, kind, status, loop)
    PROVE  ConfigOK(c.m, fs \o c.call)
<1>1. /\ RunsOn(s, fs, Loading(fs), Retried(fs)) /\ NoRetry(fs) /\ NoClear(fs) /\ f \in Files
      /\ loop \in BOOLEAN
      /\ loop = FALSE => NoHandler(fs)
      /\ \A x \in Waiting(s) : s.pl[x].m_File # f
      /\ \A o \in SameFile(s, f) : Failed(s.pl[o].m_Status) /\ Spares(fs, {o})
  BY DEF LoadsFile
<1>2. PICK S, t, L, R : S = FailedOf(s, f) /\ t = Dropped(s, f) /\ L = Loading(fs) /\ R = Retried(fs)
  OBVIOUS
<1>3. /\ SitsWell(s, L, R) /\ Managers(s) /\ LibsHeld(s, Waiting(s), L) /\ StackOK(s, fs)
  BY <1>1, <1>2 DEF RunsOn, SitsWell, PluginsOK
<1>4. S = SameFile(s, f) /\ \A o \in On(s) : s.pl[o].m_File = f <=> o \in S
  BY <1>1, <1>2 DEF FailedOf, SameFile, On
<1>5. Spares(fs, S)
  BY <1>1, <1>4 DEF Spares
<1>6. S \cap L = {}
  <2>. SUFFICES ASSUME NEW o \in S
                PROVE  o \notin L
    OBVIOUS
  <2>1. Spares(fs, {o})
    BY <1>5 DEF Spares
  <2>. QED
    BY <1>2, <1>3, <2>1, SparesLoading
<1>7. \A x \in Held(s) : s.pl[x].m_File # f
  <2>. SUFFICES ASSUME NEW x \in Held(s), s.pl[x].m_File = f
                PROVE  FALSE
    OBVIOUS
  <2>1. x \notin Waiting(s)
    BY <1>1
  <2>2. x \in On(s) /\ (x \in L \/ ~Failed(s.pl[x].m_Status))
    BY <1>3, <2>1 DEF LibsHeld
  <2>3. x \in S /\ Failed(s.pl[x].m_Status)
    BY <1>1, <1>4, <2>2
  <2>. QED
    BY <1>6, <2>2, <2>3
<1>8. DroppedDone(s, t, S, L, R)
  <2>1. S \cap Held(s) = {}
    <3>1. S \subseteq On(s)
      BY <1>4 DEF SameFile, On
    <3>. QED
      BY <1>4, <1>7, <3>1
  <2>. QED
    BY <1>2, <1>3, <2>1, DroppedKeeps
<1>9. /\ SitsWell(t, L, R) /\ Untouched(s, t, S) /\ Kept(s, t) /\ On(t) = On(s) \ S /\ Waiting(t) = Waiting(s)
      /\ t.pl = s.pl /\ FilesKept(s, t)
  BY <1>8 DEF DroppedDone
<1>10. RunsOn(t, fs, L, R)
  <2>1. RunsOn(s, fs, L, R) /\ Waiting(t) \subseteq Waiting(s) \cup S
    BY <1>1, <1>2, <1>9
  <2>. QED
    BY <1>1, <1>5, <1>9, <2>1, RunsKept
<1>11. LoadReady(t, fs, f, loop)
  <2>1. \A x \in On(t) : t.pl[x].m_File # f
    BY <1>4, <1>9
  <2>2. \A x \in Held(t) : t.pl[x].m_File # f
    BY <1>7, <1>9 DEF Held
  <2>. QED
    BY <1>1, <1>2, <1>10, <2>1, <2>2 DEF LoadReady
<1>12. c = _Load(t, f, kind, status, Then("load", Nobody, 0), loop)
  BY <1>2 DEF Load
<1>. QED
  BY <1>11, <1>12, LoadRuns

\* A plugin that is not busy: no frame refers to it.
LEMMA BusySpares ==
    ASSUME NEW o, ~Busy(o)
    PROVE  Spares(stack, {o})
BY DEF Busy, Spares, RefersTo

\* InLoop says whether a handler is under way.
LEMMA LoopKnown ==
    ASSUME NEW loop, loop = InLoop
    PROVE  loop \in BOOLEAN /\ (loop = FALSE => NoHandler(stack)) /\ (stack = <<>> => loop = FALSE)
<1>1. loop \in BOOLEAN
  BY DEF InLoop
<1>2. InLoop \/ NoHandler(stack)
  BY DEF InLoop, NoHandler
<1>3. stack = <<>> => ~InLoop
  BY DEF InLoop
<1>. QED
  BY <1>1, <1>2, <1>3

\* Load of a file that no live plugin has.
LEMMA LoadFileStep ==
    ASSUME NEW s, NEW f \in Files, RunsOn(s, stack, Loading(stack), Retried(stack)), NoRetry(stack), NoClear(stack),
           \A x \in Waiting(s) : s.pl[x].m_File # f,
           LoadFile(s, f)
    PROVE  PluginInv'
<1>1. PICK kind, status, loop : /\ status \in {"Refused", "Running"} /\ loop = InLoop
                                /\ Becomes(Load(s, f, kind, status, InLoop), stack)
  BY DEF LoadFile
<1>2. PICK c : c = Load(s, f, kind, status, loop)
  OBVIOUS
<1>3. \A o \in SameFile(s, f) : Failed(s.pl[o].m_Status) /\ Spares(stack, {o})
  BY BusySpares DEF LoadFile
<1>4. LoadsFile(s, stack, f, loop)
  BY <1>1, <1>3, LoopKnown DEF LoadsFile
<1>5. ConfigOK(c.m, stack \o c.call)
  BY <1>1, <1>2, <1>4, FileLoads
<1>6. m' = c.m /\ stack' = stack \o c.call
  BY <1>1, <1>2 DEF Becomes
<1>. QED
  BY <1>5, <1>6 DEF PluginInv

\* What the invariant says of the manager and of the frames.
LEMMA InvRuns ==
    ASSUME PluginInv
    PROVE  /\ RunsOn(m, stack, Loading(stack), Retried(stack)) /\ Managers(m) /\ StackOK(m, stack)
           /\ SitsWell(m, Loading(stack), Retried(stack)) /\ stack \in Seq(Frames)
           /\ LibsHeld(m, Waiting(m), Loading(stack)) /\ HooksServed(m, Waiting(m))
           /\ IdsApart(m) /\ FilesApart(m, Waiting(m), Retried(stack))
<1>1. RunsOn(m, stack, Loading(stack), Retried(stack))
  BY Resting DEF PluginInv
<1>. QED
  BY <1>1 DEF RunsOn, SitsWell, PluginsOK

\* Nothing that has to be permitted happens.
LEMMA Denied ==
    ASSUME PluginsBehave, NEW what, NEW unless, Permitted(what, unless)
    PROVE  ~unless
BY DEF PluginsBehave, Permitted

\* A plugin without an Unloader is not among those that wait.
LEMMA UnloadingWaits ==
    ASSUME NEW o, ~Unloading(o)
    PROVE  o \notin Waiting(m)
BY DEF Unloading, Waiting

\* Without frames.
LEMMA Quiet ==
    ASSUME PluginInv, stack = <<>>
    PROVE  /\ RunsOn(m, stack, {}, {}) /\ Loading(stack) = {} /\ Retried(stack) = {}
           /\ NoRetry(stack) /\ NoClear(stack) /\ NoHandler(stack) /\ \A X : Spares(stack, X)
<1>1. RunsOn(m, stack, Loading(stack), Retried(stack))
  BY InvRuns
<1>2. /\ Loading(stack) = {} /\ Retried(stack) = {}
      /\ NoRetry(stack) /\ NoClear(stack) /\ NoHandler(stack) /\ \A X : Spares(stack, X)
  BY EmptyStack
<1>. QED
  BY <1>1, <1>2

\* 'meta load', with the pending unloads forced out first.
LEMMA ConsoleLoadStep ==
    ASSUME PluginInv, NEW f \in Files, ConsoleLoad(f)
    PROVE  PluginInv'
<1>1. stack = <<>>
  BY DEF ConsoleLoad, Engine
<1>2. PICK force, s, E, X : force = TRUE /\ s = ResolvePendingUnloads(m, force) /\ E = {} /\ X = Waiting(m)
  OBVIOUS
<1>3. LoadFile(s, f)
  BY <1>2 DEF ConsoleLoad, ForcedOut
<1>4. /\ RunsOn(m, stack, E, E) /\ Loading(stack) = E /\ Retried(stack) = E
      /\ NoRetry(stack) /\ NoClear(stack) /\ NoHandler(stack) /\ Spares(stack, X)
  BY <1>1, <1>2, Quiet
<1>5. Managers(m) /\ PluginsOK(m, Waiting(m), E, E) /\ PendingOK(m)
  BY <1>4 DEF RunsOn, SitsWell
<1>6. /\ Managers(s) /\ PluginsOK(s, Waiting(s), E, E) /\ PendingOK(s)
      /\ Waiting(s) \subseteq Waiting(m) /\ (force = TRUE => Waiting(s) = {})
      /\ Untouched(m, s, Waiting(m)) /\ Kept(m, s)
  <2>1. force \in BOOLEAN
    BY <1>2
  <2>. QED
    BY <1>2, <1>5, <2>1, ResolveKeepsPlugins
<1>7. RunsOn(s, stack, E, E)
  <2>1. SitsWell(s, E, E)
    BY <1>6 DEF SitsWell
  <2>2. Untouched(m, s, X) /\ Waiting(s) \subseteq Waiting(m) \cup X
    BY <1>2, <1>6
  <2>. QED
    BY <1>4, <1>6, <2>1, <2>2, RunsKept
<1>8. \A x \in Waiting(s) : s.pl[x].m_File # f
  BY <1>2, <1>6
<1>. QED
  BY <1>3, <1>4, <1>7, <1>8, LoadFileStep

\* Metamod's own handler alone is on the stack, or nothing is.
LEMMA OwnFrames ==
    ASSUME PluginInv, Engine \/ OwnHandler
    PROVE  \A k \in DOMAIN stack : stack[k].file = Metamod /\ stack[k].kind = "handler" /\ stack[k].then.what = "nothing"
<1>1. Managers(m) /\ StackOK(m, stack) /\ stack \in Seq(Frames)
  BY InvRuns
<1>2. \A k \in DOMAIN stack : stack[k].file = Metamod
  <2>1. CASE stack = <<>>
    BY <2>1
  <2>2. CASE Len(stack) = 1 /\ Top.file = Metamod
    <3>1. PICK F : F = Frames
      OBVIOUS
    <3>2. stack \in Seq(F)
      BY <1>1, <3>1
    <3>3. DOMAIN stack = 1..1
      BY <2>2, <3>2
    <3>. QED
      BY <2>2, <3>3 DEF Top
  <2>. QED
    BY <2>1, <2>2 DEF Engine, OwnHandler
<1>3. ASSUME NEW k \in DOMAIN stack
      PROVE  stack[k].kind = "handler" /\ stack[k].then.what = "nothing"
  <2>1. FrameOK(m, Waiting(m), stack[k])
    BY <1>1 DEF StackOK
  <2>2. stack[k].kind = "handler"
    <3>. SUFFICES ASSUME stack[k].kind # "handler"
                  PROVE  FALSE
      OBVIOUS
    <3>1. stack[k].obj \in On(m) /\ m.pl[stack[k].obj].m_File = Metamod
      BY <1>2, <2>1 DEF FrameOK
    <3>2. m.pl[stack[k].obj] \in CPlugins
      BY <1>1, <3>1, ListedTyped
    <3>. QED
      BY <3>1, <3>2, MetamodAssumption DEF CPlugins
  <2>. QED
    BY <2>1, <2>2 DEF FrameOK, Fits
<1>. QED
  BY <1>2, <1>3

\* The files are read, from the console or from Metamod's own handler.
LEMMA ReadingLoadStep ==
    ASSUME PluginsBehave, PluginInv, NEW f \in Files, ReadingLoad(f)
    PROVE  PluginInv'
<1>1. RunsOn(m, stack, Loading(stack), Retried(stack)) /\ LibsHeld(m, Waiting(m), Loading(stack))
  BY InvRuns
<1>2. \A x \in Waiting(m) : m.pl[x].m_File # f
  <2>1. ~BeingUnloaded(f)
    BY Denied DEF ReadingLoad
  <2>2. \A x \in Waiting(m) : x \in DOMAIN m.pl
    BY <1>1 DEF LibsHeld, Held
  <2>. QED
    BY <2>1, <2>2, UnloadingWaits DEF BeingUnloaded
<1>3. NoRetry(stack) /\ NoClear(stack)
  BY OwnFrames DEF ReadingLoad, NoRetry, NoClear
<1>4. LoadFile(m, f)
  BY DEF ReadingLoad
<1>. QED
  BY <1>1, <1>2, <1>3, <1>4, LoadFileStep

\* A plugin loads a plugin, perhaps from a handler.
LEMMA PluginLoadStep ==
    ASSUME PluginsBehave, PluginInv, NEW f \in Files, PluginLoad(f)
    PROVE  PluginInv'
<1>1. RunsOn(m, stack, Loading(stack), Retried(stack)) /\ LibsHeld(m, Waiting(m), Loading(stack))
  BY InvRuns
<1>2. \A x \in Waiting(m) : m.pl[x].m_File # f
  <2>1. ~\E o \in DOMAIN m.pl : m.pl[o].m_File = f /\ Unloading(o)
    BY Denied DEF PluginLoad, BeingUnloaded
  <2>2. \A x \in Waiting(m) : x \in DOMAIN m.pl
    BY <1>1 DEF LibsHeld, Held
  <2>. QED
    BY <2>1, <2>2, UnloadingWaits
<1>3. ~\E k \in DOMAIN stack : stack[k].then.what \in {"retry", "retry old", "retry new", "clear"}
  BY Denied DEF PluginLoad
<1>4. NoRetry(stack) /\ NoClear(stack)
  BY <1>3 DEF NoRetry, NoClear
<1>5. LoadFile(m, f)
  BY DEF PluginLoad
<1>. QED
  BY <1>1, <1>2, <1>4, <1>5, LoadFileStep

\* 'meta retry'.
LEMMA RetryStep ==
    ASSUME PluginsBehave, PluginInv, NEW o \in Elements(m.m_Plugins), Retry(o)
    PROVE  PluginInv'
<1>1. PICK f, loop, status, then, fs :
        /\ f = m.pl[o].m_File /\ loop = InLoop /\ status = "Refused" /\ fs = stack
        /\ then = Then("retry", o, m.pl[o].m_Id)
  OBVIOUS
<1>2. PICK kind : Becomes(_Load(m, f, kind, status, then, loop), stack)
  BY <1>1 DEF Retry
<1>3. stack = <<>> /\ Failed(m.pl[o].m_Status) /\ o \in On(m)
  BY DEF Retry, Engine, On
<1>4. ~Unloading(o)
  BY Denied DEF Retry
<1>5. o \notin Waiting(m)
  BY <1>4, UnloadingWaits
<1>6. /\ RunsOn(m, stack, {}, {}) /\ Loading(stack) = {} /\ Retried(stack) = {}
  BY <1>3, Quiet
<1>7. /\ LibsHeld(m, Waiting(m), {}) /\ HooksServed(m, Waiting(m)) /\ FilesApart(m, Waiting(m), {}) /\ Managers(m)
  BY <1>6, InvRuns
<1>8. o \notin Held(m)
  BY <1>3, <1>5, <1>7 DEF LibsHeld
<1>9. \A x \in Held(m) : m.pl[x].m_File # f
  <2>. SUFFICES ASSUME NEW x \in Held(m), m.pl[x].m_File = f
                PROVE  FALSE
    OBVIOUS
  <2>1. x \in Waiting(m) \/ x \in On(m)
    BY <1>7 DEF LibsHeld
  <2>2. x = o \/ {x, o} = {}
    BY <1>1, <1>3, <1>7, <2>1 DEF FilesApart
  <2>. QED
    BY <1>8, <2>2
<1>10. \A h \in m.hooks : h.file # f
  <2>1. f \in Files
    <3>1. m.pl[o] \in CPlugins
      BY <1>3, <1>7, ListedTyped
    <3>. QED
      BY <1>1, <3>1 DEF CPlugins
  <2>2. f # Metamod
    BY <2>1, MetamodAssumption
  <2>. QED
    BY <1>7, <1>9, <2>2 DEF HooksServed
<1>11. fs = <<>> /\ loop = FALSE /\ status \in {"Refused", "Running"}
  BY <1>1, <1>3, LoopKnown
<1>12. RetryStarts(m, o, f, fs, loop, then)
  BY <1>1, <1>3, <1>6, <1>8, <1>9, <1>10, <1>11 DEF RetryStarts
<1>13. PICK c : c = _Load(m, f, kind, status, then, loop)
  OBVIOUS
<1>14. ConfigOK(c.m, fs \o c.call)
  BY <1>11, <1>12, <1>13, RetryRuns
<1>15. m' = c.m /\ stack' = stack \o c.call
  BY <1>2, <1>13 DEF Becomes
<1>. QED
  BY <1>1, <1>14, <1>15 DEF PluginInv

\* Unload by id, from the console or a plugin, forced or not.
LEMMA UnloadStep ==
    ASSUME PluginsBehave, PluginInv, NEW o \in Elements(m.m_Plugins), NEW what \in {"unload", "force"},
           Unload(o, Then(what, Nobody, m.pl[o].m_Id))
    PROVE  PluginInv'
<1>1. PICK id, fs : id = m.pl[o].m_Id /\ fs = stack
  OBVIOUS
<1>2. PICK c : c = Unloaded(m, o, Then(what, Nobody, id))
  OBVIOUS
<1>3. m' = c.m /\ stack' = stack \o c.call
  BY <1>1, <1>2 DEF Unload, Becomes
<1>4. Spares(stack, {o})
  BY BusySpares DEF Unload
<1>5. o \notin Waiting(m)
  <2>1. ~Unloading(o)
    BY Denied DEF Unload
  <2>. QED
    BY <2>1, UnloadingWaits
<1>6. RunsOn(m, stack, Loading(stack), Retried(stack)) /\ Managers(m) /\ o \in On(m)
  BY InvRuns DEF On
<1>7. id \in Nat
  <2>1. m.pl[o] \in CPlugins
    BY <1>6, ListedTyped
  <2>. QED
    BY <1>1, <2>1 DEF CPlugins
<1>8. ConfigOK(c.m, stack \o c.call)
  BY <1>2, <1>4, <1>5, <1>6, <1>7, UnloadedRuns
<1>. QED
  BY <1>3, <1>8 DEF PluginInv

\* 'meta clear'.
LEMMA ClearStep ==
    ASSUME PluginsBehave, PluginInv, Clear
    PROVE  PluginInv'
<1>1. stack = <<>>
  BY DEF Clear, Engine
<1>2. PICK c, fs : c = UnloadAll(m) /\ fs = <<>>
  OBVIOUS
<1>3. m' = c.m /\ stack' = fs \o c.call
  BY <1>1, <1>2 DEF Clear, Becomes
<1>4. Waiting(m) \cap On(m) = {}
  <2>1. ~\E o \in Elements(m.m_Plugins) : Unloading(o)
    BY Denied DEF Clear
  <2>. QED
    BY <2>1, UnloadingWaits DEF On
<1>5. RunsOn(m, fs, {}, {})
  BY <1>1, <1>2, Quiet
<1>6. ConfigOK(c.m, fs \o c.call)
  BY <1>2, <1>4, <1>5, UnloadAllRuns
<1>. QED
  BY <1>3, <1>6 DEF PluginInv

\* Setting m_AllLoaded changes nothing else.
LEMMA AllLoadedSet ==
    ASSUME NEW s, Managers(s), NEW t, t = [s EXCEPT !.m_AllLoaded = TRUE]
    PROVE  Managers(t) /\ Similar(s, t)
<1>1. PICK all : all = TRUE
  OBVIOUS
<1>2. PICK d : d = Rec(s.pl, s.made, s.m_Plugins, s.m_LastId, all, s.hooks, s.lib, s.pending)
  OBVIOUS
<1>3. IsRec(s)
  BY DEF Managers
<1>4. t = d
  BY <1>1, <1>2, <1>3, WithAllLoaded
<1>5. /\ IsRec(d) /\ d.pl = s.pl /\ d.made = s.made /\ d.m_Plugins = s.m_Plugins /\ d.m_LastId = s.m_LastId
      /\ d.m_AllLoaded = all /\ d.hooks = s.hooks /\ d.lib = s.lib /\ d.pending = s.pending
  BY <1>2, RecFields
<1>6. Managers(d)
  BY <1>5 DEF Managers
<1>. QED
  BY <1>4, <1>5, <1>6 DEF Similar

\* SetAllLoaded starts telling the plugins.
LEMMA SetAllLoadedStep ==
    ASSUME PluginInv, SetAllLoaded
    PROVE  PluginInv'
<1>1. PICK t : t = [m EXCEPT !.m_AllLoaded = TRUE]
  OBVIOUS
<1>2. PICK k : k = 1
  OBVIOUS
<1>3. PICK c : c = TellAll(t, k)
  OBVIOUS
<1>4. m' = c.m /\ stack' = stack \o c.call
  BY <1>1, <1>2, <1>3 DEF SetAllLoaded, Becomes
<1>5. Managers(t) /\ Similar(m, t)
  BY <1>1, InvRuns, AllLoadedSet
<1>6. RunsOn(t, stack, Loading(stack), Retried(stack))
  BY <1>5, InvRuns, SimilarRuns
<1>7. k \in Nat /\ k >= 1
  BY <1>2
<1>8. ConfigOK(c.m, stack \o c.call)
  BY <1>3, <1>6, <1>7, TellAllRuns
<1>. QED
  BY <1>4, <1>8 DEF PluginInv

\* A hooked function is called and a handler runs.
LEMMA CallHandlerStep ==
    ASSUME PluginInv, NEW h \in m.hooks, CallHandler(h)
    PROVE  PluginInv'
<1>1. PICK kind, what, x, id : kind = "handler" /\ what = "nothing" /\ x = Nobody /\ id = 0
  OBVIOUS
<1>2. PICK f : f = h.file
  OBVIOUS
<1>3. PICK fr : fr = Frame(kind, x, f, Then(what, x, id))
  OBVIOUS
<1>4. kind \in Kinds /\ what \in Whats /\ x \in Nat /\ id \in Nat
  BY <1>1 DEF Kinds, Whats, Nobody
<1>5. f \in Files \cup {Metamod}
  <2>1. Managers(m)
    BY InvRuns
  <2>. QED
    BY <1>2, <2>1 DEF Managers, Hooks
<1>6. fr \in Frames /\ fr.kind = kind /\ fr.obj = x /\ fr.file = f /\ fr.then.what = what
  BY <1>3, <1>4, <1>5 DEF Frame, Then, Frames, Thens
<1>7. m' = m /\ stack' = stack \o <<fr>>
  <2>1. m' = m /\ stack' = Append(stack, fr)
    <3>1. Nothing = Then(what, x, id)
      BY <1>1 DEF Nothing, Nobody
    <3>. QED
      BY <1>1, <1>2, <1>3, <3>1 DEF CallHandler
  <2>2. Append(stack, fr) = stack \o <<fr>>
    <3>1. PICK T : T = Frames
      OBVIOUS
    <3>2. stack \in Seq(T) /\ fr \in T
      BY <1>6, <3>1, InvRuns
    <3>. QED
      BY <3>2
  <2>. QED
    BY <2>1, <2>2
<1>8. MayRun(m, stack, fr)
  <2>1. FrameOK(m, Waiting(m), fr)
    <3>1. f = Metamod \/ \E o \in Held(m) : m.pl[o].m_File = f
      BY <1>2, InvRuns DEF HooksServed
    <3>. QED
      BY <1>1, <1>6, <3>1 DEF FrameOK, Fits
  <2>. QED
    BY <1>1, <1>6, <2>1 DEF MayRun, Bottom, AsksAlone
<1>9. /\ Loading(stack) = Loading(stack) \cup LoadingIn(fr)
      /\ Retried(stack) = Retried(stack) \cup RetriedIn(fr)
  <2>1. LoadingIn(fr) = {} /\ RetriedIn(fr) = {}
    BY <1>1, <1>6 DEF LoadingIn, RetriedIn
  <2>. QED
    BY <2>1
<1>10. ConfigOK(m, stack \o <<fr>>)
  BY <1>6, <1>8, <1>9, InvRuns, Called
<1>. QED
  BY <1>7, <1>10 DEF PluginInv

-----------------------------------------------------------------------------
(* Steps that return, and those of plugin code under way. *)
\* What is below the top frame goes on when that returns.
Popped(fs, fr) ==
    /\ RunsOn(m, fs, Loading(fs) \cup LoadingIn(fr), Retried(fs) \cup RetriedIn(fr))
    /\ MayRun(m, fs, fr) /\ fs \in Seq(Frames) /\ fr \in Frames /\ StackOK(m, fs) /\ Managers(m)
    /\ NoHandler(stack) <=> NoHandler(fs) /\ fr.kind # "handler"
    /\ stack \in Seq(Frames)

\* Under a frame that returns, what remains is in order and the frame may run
\* on it.
LEMMA InvPops ==
    ASSUME PluginInv, stack # <<>>
    PROVE  Popped(Below, Top)
<1>1. PICK gs, fs, fr : gs = stack /\ fs = Below /\ fr = Top
  OBVIOUS
<1>2. RunsOn(m, gs, Loading(gs), Retried(gs)) /\ StackOK(m, gs) /\ gs \in Seq(Frames) /\ gs # <<>>
  BY <1>1, InvRuns
<1>3. OneMore(fs, fr, gs)
  BY <1>1, <1>2, OneMoreBySub DEF Below, Top
<1>4. /\ Loading(gs) = Loading(fs) \cup LoadingIn(fr)
      /\ Retried(gs) = Retried(fs) \cup RetriedIn(fr)
      /\ NoHandler(gs) <=> NoHandler(fs) /\ fr.kind # "handler"
  BY <1>3, OneMoreSets
<1>5. StackOK(m, fs) /\ MayRun(m, fs, fr)
  BY <1>2, <1>3, OneMoreStack
<1>6. fs \in Seq(Frames) /\ fr \in Frames
  BY <1>3 DEF OneMore
<1>7. Managers(m)
  BY InvRuns
<1>8. RunsOn(m, fs, Loading(gs), Retried(gs))
  BY <1>2, <1>5, <1>6 DEF RunsOn
<1>9. RunsOn(m, fs, Loading(fs) \cup LoadingIn(fr), Retried(fs) \cup RetriedIn(fr))
  BY <1>4, <1>8
<1>. QED
  BY <1>1, <1>2, <1>4, <1>5, <1>6, <1>7, <1>9 DEF Popped

\* Pause or Unpause is called in a plugin.
LEMMA PausingStep ==
    ASSUME PluginInv, NEW o \in Elements(m.m_Plugins), NEW kind \in {"Pause", "Unpause"},
           NEW status \in {"Running", "Paused"}, Pausing(o, kind, status)
    PROVE  PluginInv'
<1>1. PICK what, x, id, f : what = "nothing" /\ x = Nobody /\ id = 0 /\ f = m.pl[o].m_File
  OBVIOUS
<1>2. PICK fr : fr = Frame(kind, o, f, Then(what, x, id))
  OBVIOUS
<1>3. /\ Managers(m) /\ LibsHeld(m, Waiting(m), Loading(stack)) /\ o \in On(m)
      /\ RunsOn(m, stack, Loading(stack), Retried(stack))
  BY InvRuns DEF On
<1>4. o \in DOMAIN m.pl /\ o \in Nat /\ f \in Files
  <2>1. o \in DOMAIN m.pl /\ o \in Nat /\ m.pl[o] \in CPlugins
    BY <1>3, ListedTyped
  <2>. QED
    BY <1>1, <2>1 DEF CPlugins
<1>5. m.pl[o].m_Status = status /\ m.pl[o].m_API /\ Spares(stack, {o})
  BY BusySpares DEF Pausing
<1>6. o \in Held(m) /\ o \notin Waiting(m)
  <2>1. ~Failed(m.pl[o].m_Status)
    BY <1>5 DEF Failed
  <2>. QED
    BY <1>3, <1>4, <1>5, <2>1 DEF LibsHeld
<1>7. fr \in Frames /\ fr.kind = kind /\ fr.obj = o /\ fr.file = f /\ fr.then.what = what
  <2>1. kind \in Kinds /\ what \in Whats /\ x \in Nat /\ id \in Nat /\ f \in Files \cup {Metamod}
    BY <1>1, <1>4 DEF Kinds, Whats, Nobody
  <2>. QED
    BY <1>2, <1>4, <2>1, FrameTyped
<1>8. m' = m /\ stack' = stack \o <<fr>>
  <2>1. PICK c : c = Config(m, <<fr>>)
    OBVIOUS
  <2>2. c.m = m /\ c.call = <<fr>>
    BY <2>1, ConfigFields
  <2>3. Nothing = Then(what, x, id)
    BY <1>1 DEF Nothing
  <2>4. m' = c.m /\ stack' = stack \o c.call
    BY <1>1, <1>2, <2>1, <2>3 DEF Pausing, Becomes
  <2>. QED
    BY <2>2, <2>4
<1>9. MayRun(m, stack, fr)
  <2>1. FrameOK(m, Waiting(m), fr)
    BY <1>1, <1>3, <1>6, <1>7 DEF FrameOK, Fits
  <2>. QED
    BY <1>1, <1>5, <1>7, <2>1 DEF MayRun, Bottom, AsksAlone
<1>10. /\ Loading(stack) = Loading(stack) \cup LoadingIn(fr)
       /\ Retried(stack) = Retried(stack) \cup RetriedIn(fr)
  <2>1. LoadingIn(fr) = {} /\ RetriedIn(fr) = {}
    BY <1>1, <1>7 DEF LoadingIn, RetriedIn
  <2>. QED
    BY <2>1
<1>11. ConfigOK(m, stack \o <<fr>>)
  BY <1>3, <1>7, <1>9, <1>10, Called
<1>. QED
  BY <1>8, <1>11 DEF PluginInv

\* No frame refers to a plugin whose unload is pending.
LEMMA SparesWaiting ==
    ASSUME NEW s, NEW fs, StackOK(s, fs), Waiting(s) \subseteq Held(s)
    PROVE  Spares(fs, Waiting(s))
<1>. SUFFICES ASSUME NEW k \in DOMAIN fs, NEW x \in Waiting(s)
              PROVE  ~RefersTo(fs[k], x)
  BY DEF Spares
<1>1. FrameOK(s, Waiting(s), fs[k])
  BY DEF StackOK
<1>. QED
  BY <1>1 DEF FrameOK, RefersTo

\* A handler returns; the last one to do so resolves the pending unloads.
LEMMA HandlerReturnsStep ==
    ASSUME PluginInv, HandlerReturns
    PROVE  PluginInv'
<1>1. PICK fs, fr : fs = Below /\ fr = Top
  OBVIOUS
<1>2. Popped(fs, fr) /\ fr.kind = "handler" /\ stack' = fs
  BY <1>1, InvPops DEF HandlerReturns
<1>3. LoadingIn(fr) = {} /\ RetriedIn(fr) = {}
  <2>1. FrameOK(m, Waiting(m), fr)
    BY <1>2 DEF Popped, MayRun
  <2>. QED
    BY <1>2, <2>1 DEF LoadingIn, RetriedIn, FrameOK, Fits
<1>4. RunsOn(m, fs, Loading(fs), Retried(fs))
  BY <1>2, <1>3 DEF Popped
<1>5. CASE \E k \in DOMAIN Below : Below[k].kind = "handler"
  <2>1. m' = m
    BY <1>5 DEF HandlerReturns
  <2>. QED
    BY <1>2, <1>4, <2>1, Resting DEF PluginInv
<1>6. CASE ~\E k \in DOMAIN Below : Below[k].kind = "handler"
  <2>1. PICK force, t, X, L, R : /\ force = FALSE /\ t = ResolvePendingUnloads(m, force) /\ X = Waiting(m)
                                 /\ L = Loading(fs) /\ R = Retried(fs)
    OBVIOUS
  <2>2. m' = t
    BY <1>6, <2>1 DEF HandlerReturns
  <2>3. NoHandler(fs)
    BY <1>1, <1>6 DEF NoHandler
  <2>4. RunsOn(m, fs, L, R)
    BY <1>4, <2>1
  <2>5. Managers(m) /\ PluginsOK(m, Waiting(m), L, R) /\ PendingOK(m) /\ StackOK(m, fs)
    BY <2>4 DEF RunsOn, SitsWell
  <2>6. force \in BOOLEAN
    BY <2>1
  <2>7. /\ Managers(t) /\ PluginsOK(t, Waiting(t), L, R) /\ PendingOK(t)
        /\ Waiting(t) \subseteq Waiting(m) /\ Untouched(m, t, Waiting(m)) /\ Kept(m, t)
        /\ t.m_Plugins = m.m_Plugins
    BY <2>1, <2>5, <2>6, ResolveKeepsPlugins
  <2>8. Spares(fs, X)
    <3>1. Waiting(m) \subseteq Held(m)
      BY <2>5 DEF PluginsOK, LibsHeld
    <3>. QED
      BY <2>1, <2>5, <3>1, SparesWaiting
  <2>9. NoClear(fs) \/ Waiting(t) \cap On(t) = {}
    <3>1. Waiting(t) \cap On(t) \subseteq Waiting(m) \cap On(m)
      BY <2>7 DEF On
    <3>. QED
      BY <2>5, <3>1, ClearStays
  <2>10. RunsOn(t, fs, L, R)
    <3>1. SitsWell(t, L, R)
      BY <2>7 DEF SitsWell
    <3>2. Untouched(m, t, X) /\ Waiting(t) \subseteq Waiting(m) \cup X
      BY <2>1, <2>7
    <3>. QED
      BY <2>3, <2>4, <2>7, <2>8, <2>9, <3>1, <3>2, RunsKept
  <2>11. ConfigOK(t, fs)
    BY <2>1, <2>10, Resting
  <2>. QED
    BY <1>2, <2>2, <2>11 DEF PluginInv
<1>. QED
  BY <1>5, <1>6

HookServedBy(s, h, o) ==
    /\ o \in (On(s) \cap Held(s)) \ Waiting(s) /\ h \in Hooks
    /\ s.pl[o].m_Id = h.id /\ s.pl[o].m_File = h.file
    /\ h.paused = FALSE /\ s.pl[o].m_Status # "Paused"

\* A hook is added under the id of a listed plugin that holds the library its
\* handler is in.
LEMMA HookAdded ==
    ASSUME NEW s, NEW fs, NEW L, NEW R, RunsOn(s, fs, L, R), NEW h, NEW o, HookServedBy(s, h, o),
           \A k \in DOMAIN fs : fs[k].then.what = "retry" => fs[k].file # h.file,
           NEW t, t = [s EXCEPT !.hooks = @ \cup {h}]
    PROVE  RunsOn(t, fs, L, R)
<1>1. PICK W, hooks, X : W = Waiting(s) /\ hooks = s.hooks \cup {h} /\ X = {}
  OBVIOUS
<1>2. PICK d : d = Rec(s.pl, s.made, s.m_Plugins, s.m_LastId, s.m_AllLoaded, hooks, s.lib, s.pending)
  OBVIOUS
<1>3. /\ Managers(s) /\ PendingOK(s) /\ PluginsOK(s, W, L, R) /\ Once(s) /\ s.m_LastId >= Pl_MinId
      /\ fs \in Seq(Frames) /\ StackOK(s, fs)
  BY <1>1 DEF RunsOn, SitsWell
<1>4. IdsApart(s) /\ FilesApart(s, W, R) /\ LibsHeld(s, W, L) /\ HooksServed(s, W)
  BY <1>3 DEF PluginsOK
<1>5. /\ o \in (On(s) \cap Held(s)) \ W /\ h \in Hooks
      /\ s.pl[o].m_Id = h.id /\ s.pl[o].m_File = h.file
      /\ h.paused = FALSE /\ s.pl[o].m_Status # "Paused"
  BY <1>1 DEF HookServedBy
<1>6. t = d
  <2>1. IsRec(s)
    BY <1>3 DEF Managers
  <2>2. t = [s EXCEPT !.hooks = hooks]
    BY <1>1
  <2>. QED
    BY <1>2, <2>1, <2>2, WithHooks
<1>7. /\ IsRec(d) /\ d.pl = s.pl /\ d.made = s.made /\ d.m_Plugins = s.m_Plugins /\ d.m_LastId = s.m_LastId
      /\ d.m_AllLoaded = s.m_AllLoaded /\ d.hooks = hooks /\ d.lib = s.lib /\ d.pending = s.pending
  BY <1>2, RecFields
<1>8. On(d) = On(s) /\ Held(d) = Held(s) /\ Waiting(d) = W
  BY <1>1, <1>7 DEF On, Held, Waiting
<1>9. Managers(d)
  <2>1. hooks \subseteq Hooks
    BY <1>1, <1>3, <1>5 DEF Managers
  <2>. QED
    BY <1>3, <1>7, <2>1 DEF Managers
<1>10. IdsApart(d) /\ FilesApart(d, W, R) /\ PendingOK(d) /\ Once(d)
  BY <1>3, <1>4, <1>7, <1>8 DEF IdsApart, FilesApart, PendingOK, Once
<1>11. LibsHeld(d, W, L)
  BY <1>4, <1>7, <1>8 DEF LibsHeld
<1>12. HooksServed(d, W)
  <2>. SUFFICES ASSUME NEW g \in hooks, g.file # Metamod
                PROVE  \E x \in (On(s) \cap Held(s)) \ W :
                          /\ s.pl[x].m_Id = g.id /\ s.pl[x].m_File = g.file
                          /\ g.paused <=> s.pl[x].m_Status = "Paused"
    BY <1>7, <1>8 DEF HooksServed
  <2>1. CASE g \in s.hooks
    BY <1>4, <2>1 DEF HooksServed
  <2>2. CASE g = h
    BY <1>5, <2>2
  <2>. QED
    BY <1>1, <2>1, <2>2
<1>13. Leaves(s, d, fs, X)
  <2>1. Untouched(s, d, X) /\ FilesKept(s, d)
    BY <1>7, <1>8 DEF Untouched, FilesKept, Held
  <2>2. Spares(fs, X)
    BY <1>1 DEF Spares
  <2>3. NoClear(fs) \/ Waiting(d) \cap On(d) = {}
    BY <1>1, <1>3, <1>8, ClearStays
  <2>4. \A k \in DOMAIN fs : fs[k].then.what = "retry" =>
          \A g \in d.hooks : g.file = fs[k].file => \E g2 \in s.hooks : g2.file = g.file
    BY <1>1, <1>7
  <2>. QED
    BY <1>1, <1>7, <1>8, <2>1, <2>2, <2>3, <2>4 DEF Leaves
<1>14. StackOK(d, fs)
  BY <1>3, <1>13, StackKept
<1>15. RunsOn(d, fs, L, R)
  BY <1>3, <1>7, <1>8, <1>9, <1>10, <1>11, <1>12, <1>14 DEF RunsOn, SitsWell, PluginsOK
<1>. QED
  BY <1>6, <1>15

\* A hook is removed.
LEMMA HookDropped ==
    ASSUME NEW s, NEW fs, NEW L, NEW R, RunsOn(s, fs, L, R), NEW h, NEW t, t = [s EXCEPT !.hooks = @ \ {h}]
    PROVE  RunsOn(t, fs, L, R)
<1>1. PICK W, hooks, X : W = Waiting(s) /\ hooks = s.hooks \ {h} /\ X = {}
  OBVIOUS
<1>2. PICK d : d = Rec(s.pl, s.made, s.m_Plugins, s.m_LastId, s.m_AllLoaded, hooks, s.lib, s.pending)
  OBVIOUS
<1>3. /\ Managers(s) /\ PendingOK(s) /\ PluginsOK(s, W, L, R) /\ Once(s) /\ s.m_LastId >= Pl_MinId
      /\ fs \in Seq(Frames) /\ StackOK(s, fs)
  BY <1>1 DEF RunsOn, SitsWell
<1>4. IdsApart(s) /\ FilesApart(s, W, R) /\ LibsHeld(s, W, L) /\ HooksServed(s, W)
  BY <1>3 DEF PluginsOK
<1>5. t = d
  <2>1. IsRec(s)
    BY <1>3 DEF Managers
  <2>2. t = [s EXCEPT !.hooks = hooks]
    BY <1>1
  <2>. QED
    BY <1>2, <2>1, <2>2, WithHooks
<1>6. /\ IsRec(d) /\ d.pl = s.pl /\ d.made = s.made /\ d.m_Plugins = s.m_Plugins /\ d.m_LastId = s.m_LastId
      /\ d.m_AllLoaded = s.m_AllLoaded /\ d.hooks = hooks /\ d.lib = s.lib /\ d.pending = s.pending
  BY <1>2, RecFields
<1>7. On(d) = On(s) /\ Held(d) = Held(s) /\ Waiting(d) = W /\ d.hooks \subseteq s.hooks
  BY <1>1, <1>6 DEF On, Held, Waiting
<1>8. Managers(d)
  <2>1. hooks \subseteq Hooks
    BY <1>1, <1>3 DEF Managers
  <2>. QED
    BY <1>3, <1>6, <2>1 DEF Managers
<1>9. IdsApart(d) /\ FilesApart(d, W, R) /\ PendingOK(d) /\ Once(d)
  BY <1>3, <1>4, <1>6, <1>7 DEF IdsApart, FilesApart, PendingOK, Once
<1>10. LibsHeld(d, W, L)
  BY <1>4, <1>6, <1>7 DEF LibsHeld
<1>11. HooksServed(d, W)
  BY <1>4, <1>6, <1>7 DEF HooksServed
<1>12. Leaves(s, d, fs, X)
  <2>1. Untouched(s, d, X) /\ FilesKept(s, d)
    BY <1>6, <1>7 DEF Untouched, FilesKept, Held
  <2>2. Spares(fs, X)
    BY <1>1 DEF Spares
  <2>3. NoClear(fs) \/ Waiting(d) \cap On(d) = {}
    BY <1>1, <1>3, <1>7, ClearStays
  <2>. QED
    BY <1>1, <1>6, <1>7, <2>1, <2>2, <2>3 DEF Leaves
<1>13. StackOK(d, fs)
  BY <1>3, <1>12, StackKept
<1>. QED
  BY <1>3, <1>5, <1>6, <1>7, <1>8, <1>9, <1>10, <1>11, <1>13 DEF RunsOn, SitsWell, PluginsOK

\* Plugin code removes a hook of its own.
LEMMA RemoveHookStep ==
    ASSUME PluginInv, NEW h, RemoveHook(h)
    PROVE  PluginInv'
<1>1. PICK t : t = [m EXCEPT !.hooks = @ \ {h}]
  OBVIOUS
<1>2. m' = t /\ stack' = stack
  BY <1>1 DEF RemoveHook
<1>3. RunsOn(t, stack, Loading(stack), Retried(stack))
  BY <1>1, InvRuns, HookDropped
<1>. QED
  BY <1>2, <1>3, Resting DEF PluginInv

\* Code of a library runs in a CPlugin that holds it, in a handler as well.
LEMMA CodeHeld ==
    ASSUME PluginInv, stack # <<>>, Top.file # Metamod
    PROVE  \E o \in Held(m) : m.pl[o].m_File = Top.file
<1>1. FrameOK(m, Waiting(m), Top)
  BY InvPops DEF Popped, MayRun
<1>. QED
  BY <1>1 DEF FrameOK

\* Plugin code adds a hook under the id its Load saved.
LEMMA AddHookStep ==
    ASSUME PluginsBehave, PluginInv, AddHook
    PROVE  PluginInv'
<1>1. PICK f, id : f = Top.file /\ id = m.lib[f].plid
  OBVIOUS
<1>2. PICK h : h = [id |-> id, file |-> f, paused |-> FALSE]
  OBVIOUS
<1>3. stack # <<>> /\ f # Metamod /\ stack' = stack /\ m' = [m EXCEPT !.hooks = @ \cup {h}]
  BY <1>1, <1>2 DEF AddHook
<1>4. ~BeingUnloaded(f)
  BY <1>1, Denied DEF AddHook
<1>5. ~(BeingRetried(f) \/ \E o \in {x \in DOMAIN m.pl : m.pl[x].m_Lib /\ m.pl[x].m_File = f} : m.pl[o].m_Id # id)
  BY <1>1, Denied DEF AddHook
<1>6. ~\E o \in {x \in DOMAIN m.pl : m.pl[x].m_Lib /\ m.pl[x].m_File = f} : m.pl[o].m_Status = "Paused"
  BY <1>1, Denied DEF AddHook
<1>7. PICK o \in Held(m) : m.pl[o].m_File = f
  BY <1>1, <1>3, CodeHeld
<1>8. o \in (On(m) \cap Held(m)) \ Waiting(m)
  <2>1. o \notin Waiting(m)
    BY <1>4, <1>7, UnloadingWaits DEF BeingUnloaded, Held
  <2>. QED
    BY <1>7, <2>1, InvRuns DEF LibsHeld
<1>9. m.pl[o].m_Id = id /\ m.pl[o].m_Status # "Paused"
  BY <1>5, <1>6, <1>7 DEF Held
<1>10. h \in Hooks /\ h.id = m.pl[o].m_Id /\ h.file = f /\ h.paused = FALSE
  <2>1. m.pl[o] \in CPlugins
    BY <1>8, InvRuns, ListedTyped
  <2>2. f \in Files /\ m.pl[o].m_Id \in Nat
    BY <1>7, <2>1 DEF CPlugins
  <2>3. h.id = m.pl[o].m_Id /\ h.file = f /\ h.paused = FALSE
    BY <1>2, <1>9
  <2>4. h \in Hooks
    BY <1>2, <1>9, <2>2 DEF Hooks
  <2>. QED
    BY <2>3, <2>4
<1>11. HookServedBy(m, h, o)
  BY <1>7, <1>8, <1>9, <1>10 DEF HookServedBy
<1>12. \A k \in DOMAIN stack : stack[k].then.what = "retry" => stack[k].file # h.file
  BY <1>5, <1>10 DEF BeingRetried
<1>13. PICK t : t = [m EXCEPT !.hooks = @ \cup {h}]
  OBVIOUS
<1>14. RunsOn(t, stack, Loading(stack), Retried(stack))
  BY <1>11, <1>12, <1>13, InvRuns, HookAdded
<1>15. m' = t
  BY <1>3, <1>13
<1>. QED
  BY <1>3, <1>14, <1>15, Resting DEF PluginInv

\* A plugin becomes a listener.
LEMMA EventsSet ==
    ASSUME NEW s, Managers(s), NEW o \in DOMAIN s.pl,
           NEW t, t = [s EXCEPT !.pl[o].m_Events = TRUE]
    PROVE  /\ Managers(t) /\ PlSet(s, t, o, t.pl[o]) /\ t.pl[o] = [s.pl[o] EXCEPT !.m_Events = TRUE]
           /\ t.pl[o] \in CPlugins
<1>1. PICK p : p = [s.pl[o] EXCEPT !.m_Events = TRUE]
  OBVIOUS
<1>2. p \in CPlugins
  <2>1. s.pl[o] \in CPlugins
    BY ListedTyped
  <2>. QED
    BY <1>1, <2>1 DEF CPlugins
<1>3. t = [s EXCEPT !.pl = [s.pl EXCEPT ![o] = p]]
  BY <1>1
<1>4. Managers(t) /\ PlSet(s, t, o, p)
  BY <1>2, <1>3, PlIsSet
<1>5. t.pl[o] = p
  BY <1>4 DEF PlSet
<1>. QED
  BY <1>1, <1>2, <1>4, <1>5

\* A listed plugin that is loaded gets listeners.
LEMMA ListenerAdded ==
    ASSUME NEW s, NEW fs, NEW L, NEW R, RunsOn(s, fs, L, R), NEW o, o \in (On(s) \cap Held(s)) \ Waiting(s),
           NEW t, t = [s EXCEPT !.pl[o].m_Events = TRUE]
    PROVE  RunsOn(t, fs, L, R)
<1>1. PICK W : W = Waiting(s)
  OBVIOUS
<1>2. /\ Managers(s) /\ PendingOK(s) /\ PluginsOK(s, W, L, R) /\ Once(s) /\ s.m_LastId >= Pl_MinId
      /\ fs \in Seq(Frames) /\ StackOK(s, fs) /\ o \in DOMAIN s.pl /\ On(s) \subseteq DOMAIN s.pl
  BY <1>1, ListedTyped DEF RunsOn, SitsWell
<1>3. IdsApart(s) /\ FilesApart(s, W, R) /\ LibsHeld(s, W, L) /\ HooksServed(s, W)
  BY <1>2 DEF PluginsOK
<1>40. PICK d : d = t
  OBVIOUS
<1>4. /\ Managers(d) /\ PlSet(s, d, o, d.pl[o]) /\ d.pl[o] = [s.pl[o] EXCEPT !.m_Events = TRUE]
      /\ d.pl[o] \in CPlugins
  <2>1. /\ Managers(t) /\ PlSet(s, t, o, t.pl[o]) /\ t.pl[o] = [s.pl[o] EXCEPT !.m_Events = TRUE]
        /\ t.pl[o] \in CPlugins
    BY <1>2, EventsSet
  <2>. QED
    BY <1>40, <2>1
<1>5. /\ DOMAIN d.pl = DOMAIN s.pl /\ \A x \in DOMAIN s.pl : x # o => d.pl[x] = s.pl[x]
      /\ d.made = s.made /\ d.m_Plugins = s.m_Plugins /\ d.m_LastId = s.m_LastId
      /\ d.m_AllLoaded = s.m_AllLoaded /\ d.hooks = s.hooks /\ d.lib = s.lib /\ d.pending = s.pending
  BY <1>4 DEF PlSet
<1>6. \A x \in DOMAIN s.pl :
        /\ d.pl[x].m_Id = s.pl[x].m_Id /\ d.pl[x].m_File = s.pl[x].m_File /\ d.pl[x].m_Lib = s.pl[x].m_Lib
        /\ d.pl[x].m_Status = s.pl[x].m_Status /\ d.pl[x].m_API = s.pl[x].m_API
        /\ x # o => d.pl[x].m_Events = s.pl[x].m_Events
  <2>1. s.pl[o] \in CPlugins
    BY <1>2, ListedTyped
  <2>2. /\ d.pl[o].m_Id = s.pl[o].m_Id /\ d.pl[o].m_File = s.pl[o].m_File /\ d.pl[o].m_Lib = s.pl[o].m_Lib
        /\ d.pl[o].m_Status = s.pl[o].m_Status /\ d.pl[o].m_API = s.pl[o].m_API
    BY <1>4, <2>1 DEF CPlugins
  <2>. QED
    BY <1>5, <2>2
<1>7. On(d) = On(s) /\ Held(d) = Held(s) /\ Waiting(d) = W
  BY <1>1, <1>5, <1>6 DEF On, Held, Waiting
<1>8. W \subseteq DOMAIN s.pl
  BY <1>3 DEF LibsHeld, Held
<1>9. IdsApart(d) /\ PendingOK(d) /\ Once(d)
  BY <1>2, <1>3, <1>5, <1>6, <1>7 DEF IdsApart, PendingOK, Once
<1>10. FilesApart(d, W, R)
  <2>1. Held(s) \subseteq DOMAIN s.pl
    BY DEF Held
  <2>. QED
    BY <1>2, <1>3, <1>6, <1>7, <1>8, <2>1 DEF FilesApart
<1>11. LibsHeld(d, W, L)
  <2>1. Held(s) \subseteq DOMAIN s.pl /\ o \in Held(s) /\ o \in On(s) \ W
    BY <1>1 DEF Held
  <2>. QED
    BY <1>2, <1>3, <1>5, <1>6, <1>7, <1>8, <2>1 DEF LibsHeld
<1>12. HooksServed(d, W)
  BY <1>2, <1>3, <1>5, <1>6, <1>7 DEF HooksServed
<1>13. ASSUME NEW fr, FrameOK(s, W, fr)
       PROVE  FrameOK(d, W, fr)
  <2>1. fr.kind # "handler" => fr.obj \in DOMAIN s.pl
    BY <1>2, <1>13 DEF FrameOK
  <2>2. fr.then.what = "retry" => fr.kind # "handler" /\ fr.then.obj \in DOMAIN s.pl
    BY <1>2, <1>13 DEF FrameOK, Fits
  <2>3. fr.kind = "AllPluginsLoaded" \/ fr.kind = "Load" => fr.kind # "handler"
    OBVIOUS
  <2>4. Held(s) \subseteq DOMAIN s.pl
    BY DEF Held
  <2>. QED
    BY <1>5, <1>6, <1>7, <1>13, <2>1, <2>2, <2>3, <2>4 DEF FrameOK
<1>14. StackOK(d, fs)
  <2>1. \A k \in DOMAIN fs : FrameOK(d, W, fs[k])
    BY <1>1, <1>2, <1>13 DEF StackOK
  <2>. QED
    BY <1>1, <1>2, <1>7, <2>1 DEF StackOK
<1>15. RunsOn(d, fs, L, R)
  BY <1>2, <1>4, <1>5, <1>7, <1>9, <1>10, <1>11, <1>12, <1>14 DEF RunsOn, SitsWell, PluginsOK
<1>. QED
  BY <1>40, <1>15

\* Load adds a listener: the plugin FindByAPI finds is the one being loaded.
LEMMA AddListenerStep ==
    ASSUME PluginInv, AddListener
    PROVE  PluginInv'
<1>1. PICK f, fr, o, S, k : /\ f = Top.file /\ fr = Top /\ o = FindByAPI(m, f) /\ k = 1
                            /\ S = {x \in DOMAIN m.pl : m.pl[x].m_API /\ m.pl[x].m_File = f}
  OBVIOUS
<1>2. /\ stack # <<>> /\ fr.kind = "Load" /\ stack' = stack
      /\ m' = [m EXCEPT !.pl[o].m_Events = TRUE]
  BY <1>1 DEF AddListener
<1>3. FrameOK(m, Waiting(m), fr)
  BY <1>1, <1>2, InvPops DEF Popped, MayRun
<1>4. /\ fr.obj \in (On(m) \cap Held(m)) \ Waiting(m) /\ m.pl[fr.obj].m_File = f /\ m.pl[fr.obj].m_API
  BY <1>1, <1>2, <1>3 DEF FrameOK
<1>5. Managers(m) /\ LibsHeld(m, Waiting(m), Loading(stack)) /\ FilesApart(m, Waiting(m), Retried(stack))
  BY InvRuns
<1>6. o = fr.obj
  <2>1. fr.obj \in S
    BY <1>1, <1>4 DEF Held
  <2>2. PICK i \in DOMAIN m.m_Plugins : m.m_Plugins[i] = fr.obj
    BY <1>4 DEF On, Elements
  <2>3. o = FirstFrom(m, k, S)
    BY <1>1 DEF FindByAPI
  <2>4. m.m_Plugins \in Seq(Nat)
    BY <1>5 DEF Managers
  <2>5. k \in Nat /\ k >= 1 /\ i \in k..Len(m.m_Plugins)
    BY <1>1, <2>2, <2>4
  <2>6. o \in S
    BY <2>1, <2>2, <2>3, <2>4, <2>5, FirstFromFinds
  <2>7. o \in Held(m) /\ m.pl[o].m_File = f
    BY <1>1, <1>5, <2>6 DEF LibsHeld
  <2>. QED
    BY <1>4, <1>5, <2>7 DEF FilesApart
<1>7. PICK t : t = [m EXCEPT !.pl[o].m_Events = TRUE]
  OBVIOUS
<1>8. RunsOn(m, stack, Loading(stack), Retried(stack)) /\ o \in (On(m) \cap Held(m)) \ Waiting(m)
  BY <1>4, <1>6, InvRuns
<1>9. RunsOn(t, stack, Loading(stack), Retried(stack))
  BY <1>7, <1>8, ListenerAdded
<1>10. m' = t
  BY <1>2, <1>7
<1>. QED
  BY <1>2, <1>9, <1>10, Resting DEF PluginInv

\* A listed plugin has a position on the list.
LEMMA PositionFound ==
    ASSUME NEW s, Managers(s), NEW o \in On(s), NEW k, k = Position(s, o) + 1
    PROVE  k \in Nat /\ k >= 1
<1>1. \E i \in DOMAIN s.m_Plugins : s.m_Plugins[i] = o
  BY DEF On, Elements
<1>2. Position(s, o) \in DOMAIN s.m_Plugins
  BY <1>1 DEF Position
<1>3. DOMAIN s.m_Plugins = 1..Len(s.m_Plugins) /\ Len(s.m_Plugins) \in Nat
  BY DEF Managers
<1>4. Position(s, o) \in Nat
  BY <1>2, <1>3
<1>. QED
  BY <1>4

\* What the step of a plugin that returns becomes.
LEMMA Resumed ==
    ASSUME NEW c, NEW fs, fs = Below, Becomes(c, Below), ConfigOK(c.m, fs \o c.call)
    PROVE  PluginInv'
BY DEF Becomes, PluginInv

\* What ITER_PLEVENT reads again is an id, also in a CPlugin that was deleted.
LEMMA PlidTyped ==
    ASSUME PluginInv, NEW fr \in Frames, NEW plid \in PlidRead(m, fr.then)
    PROVE  fr.then.obj \in Nat /\ plid \in Nat
<1>1. fr.then.obj \in Nat /\ fr.then.id \in Nat
  BY DEF Frames, Thens
<1>2. m.m_LastId \in Nat /\ \A o \in DOMAIN m.pl : m.pl[o].m_Id \in Nat
  BY InvRuns DEF Managers, CPlugins
<1>3. PICK about, id, last : about = fr.then.obj /\ id = fr.then.id /\ last = m.m_LastId
  OBVIOUS
<1>4. plid \in CASE about = Nobody -> {id} [] about \in DOMAIN m.pl -> {m.pl[about].m_Id} [] OTHER -> 0..last
  BY <1>3 DEF PlidRead
<1>5. CASE about = Nobody
  BY <1>1, <1>2, <1>3, <1>4, <1>5, ListedTyped, InvRuns
<1>6. CASE about # Nobody /\ about \in DOMAIN m.pl
  BY <1>1, <1>2, <1>4, <1>6
<1>7. CASE about # Nobody /\ about \notin DOMAIN m.pl
  <2>1. plid \in 0..last
    BY <1>4, <1>7
  <2>. QED
    BY <1>1, <1>2, <1>3, <2>1
<1>. QED
  BY <1>5, <1>6, <1>7

\* A listener returns and the next one is called.
LEMMA EventReturnsStep ==
    ASSUME PluginInv, EventReturns
    PROVE  PluginInv'
<1>1. PICK fs, fr, k, about : fs = Below /\ fr = Top /\ k = Position(m, fr.obj) + 1 /\ about = fr.then.obj
  OBVIOUS
<1>2. PICK id \in PlidRead(m, fr.then) : Becomes(PlEvent(m, k, about, id), Below)
  BY <1>1 DEF EventReturns
<1>3. PICK c : c = PlEvent(m, k, about, id)
  OBVIOUS
<1>4. stack # <<>> /\ fr.kind = "event" /\ Becomes(c, Below)
  BY <1>1, <1>2, <1>3 DEF EventReturns, Returns
<1>5. Popped(fs, fr)
  BY <1>1, <1>4, InvPops
<1>6. fr.obj \in On(m) /\ fr.then.what = "event"
  BY <1>4, <1>5 DEF Popped, MayRun, FrameOK, Fits
<1>7. LoadingIn(fr) = {} /\ RetriedIn(fr) = {}
  BY <1>4, <1>6 DEF LoadingIn, RetriedIn
<1>8. RunsOn(m, fs, Loading(fs), Retried(fs)) /\ Managers(m) /\ fr \in Frames
  BY <1>5, <1>7 DEF Popped
<1>9. k \in Nat /\ k >= 1
  BY <1>1, <1>6, <1>8, PositionFound
<1>10. about \in Nat /\ id \in Nat
  BY <1>1, <1>2, <1>8, PlidTyped
<1>11. ConfigOK(c.m, fs \o c.call)
  BY <1>3, <1>8, <1>9, <1>10, PlEventRuns
<1>. QED
  BY <1>1, <1>4, <1>11, Resumed

\* Unload returns: the plugin is removed, or has refused and stays.
LEMMA UnloadReturnsStep ==
    ASSUME PluginInv, UnloadReturns
    PROVE  PluginInv'
<1>1. PICK fs, fr, o, then, loop : fs = Below /\ fr = Top /\ o = fr.obj /\ then = fr.then /\ loop = InLoop
  OBVIOUS
<1>2. stack # <<>> /\ fr.kind = "Unload"
  BY <1>1 DEF UnloadReturns, Returns
<1>3. Popped(fs, fr)
  BY <1>1, <1>2, InvPops
<1>4. FrameOK(m, Waiting(m), fr) /\ MayRun(m, fs, fr) /\ fr \in Frames /\ StackOK(m, fs)
  BY <1>3 DEF Popped, MayRun
<1>5. o \in On(m) /\ o \in Held(m) /\ o \notin Waiting(m) /\ then.what \in {"unload", "force", "clear"}
  BY <1>1, <1>2, <1>4 DEF FrameOK, Fits
<1>6. LoadingIn(fr) = {} /\ RetriedIn(fr) = {}
  BY <1>1, <1>2, <1>5 DEF LoadingIn, RetriedIn
<1>7. RunsOn(m, fs, Loading(fs), Retried(fs))
  BY <1>3, <1>6 DEF Popped
<1>8. CASE Becomes(AfterUnload(Removed(m, o, loop), then), Below)
  <2>1. PICK c : c = AfterUnload(Removed(m, o, loop), then)
    OBVIOUS
  <2>2. Spares(fs, {o})
    BY <1>1, <1>2, <1>4 DEF MayRun, AsksAlone
  <2>3. loop \in BOOLEAN /\ (loop = FALSE => NoHandler(fs))
    BY <1>1, <1>3, LoopKnown DEF Popped
  <2>4. then.id \in Nat
    BY <1>1, <1>4 DEF Frames, Thens
  <2>5. then.what = "clear" => fs = <<>> /\ Waiting(m) \cap On(m) = {} /\ loop = FALSE
    <3>1. then.what = "clear" => fs = <<>> /\ Waiting(m) \cap On(m) = {}
      BY <1>1, <1>4 DEF MayRun, Bottom
    <3>2. fs = <<>> => NoHandler(stack)
      BY <1>2, <1>3, EmptyStack DEF Popped
    <3>3. NoHandler(stack) => loop = FALSE
      BY <1>1 DEF InLoop, NoHandler
    <3>. QED
      BY <3>1, <3>2, <3>3
  <2>6. RemoveReady(m, fs, o, loop, then)
    BY <1>5, <1>7, <2>2, <2>3, <2>4, <2>5 DEF RemoveReady
  <2>7. ConfigOK(c.m, fs \o c.call)
    BY <2>1, <2>6, RemovedRuns
  <2>. QED
    BY <1>1, <1>8, <2>1, <2>7, Resumed
<1>9. CASE Becomes(Config(m, <<>>), Below)
  <2>1. PICK c, e : e = <<>> /\ c = Config(m, e)
    OBVIOUS
  <2>2. c.m = m /\ c.call = e
    BY <2>1, ConfigFields
  <2>3. ConfigOK(m, fs \o e)
    BY <1>7, <2>1, NotCalled
  <2>. QED
    BY <1>1, <1>9, <2>1, <2>2, <2>3, Resumed
<1>10. UnloadReturns => \/ Becomes(AfterUnload(Removed(m, o, loop), then), Below)
                        \/ Becomes(Config(m, <<>>), Below)
  BY <1>1 DEF UnloadReturns, Removed
<1>. QED
  BY <1>8, <1>9, <1>10

\* A retry that succeeded in loading: its frame, and what follows.
LEMMA RetryResumes ==
    ASSUME NEW s, NEW fs, NEW fr, NEW o, NEW then, NEW L, NEW R, o = fr.obj, then = fr.then, then.what = "retry",
           FrameOK(s, Waiting(s), fr), Bottom(fr) => fs = <<>>,
           R = Retried(fs) \cup RetriedIn(fr), L \ {o} = {}, RunsOn(s, fs, L, R),
           NEW loop, fs = <<>> => loop = FALSE,
           NEW c, c = AfterLoad(s, o, then, loop)
    PROVE  ConfigOK(c.m, fs \o c.call)
<1>1. PICK old : old = then.obj
  OBVIOUS
<1>2. fs = <<>> /\ loop = FALSE
  BY DEF Bottom
<1>3. Retried(fs) = {} /\ RetriedIn(fr) = {o, old}
  BY <1>1, <1>2, EmptyStack DEF RetriedIn
<1>4. fr.kind # "handler"
  BY DEF FrameOK, Fits
<1>5. /\ o \in (On(s) \cap Held(s)) \ Waiting(s) /\ s.pl[o].m_File = fr.file
      /\ old \in On(s) \ Held(s) /\ s.pl[o].m_Id = s.m_LastId - 1 /\ then.id = s.pl[old].m_Id
      /\ \A h \in s.hooks : h.file # fr.file
  BY <1>1, <1>4 DEF FrameOK
<1>6. RetryReady(s, o, old, L, R)
  BY <1>2, <1>3, <1>5 DEF RetryReady
<1>7. o \in Held(s) /\ then.obj = old /\ then.id = s.pl[old].m_Id
  BY <1>1, <1>5
<1>8. c = AfterLoad(s, o, then, FALSE)
  BY <1>2
<1>9. ConfigOK(c.m, <<>> \o c.call)
  BY <1>6, <1>7, <1>8, RetryEnds
<1>. QED
  BY <1>2, <1>9

\* AllPluginsLoaded returns: the next plugin is told or _Load comes to its end.
LEMMA AllPluginsLoadedReturnsStep ==
    ASSUME PluginInv, AllPluginsLoadedReturns
    PROVE  PluginInv'
<1>1. PICK fs, fr, o, then, loop : fs = Below /\ fr = Top /\ o = fr.obj /\ then = fr.then /\ loop = InLoop
  OBVIOUS
<1>2. stack # <<>> /\ fr.kind = "AllPluginsLoaded"
  BY <1>1 DEF AllPluginsLoadedReturns, Returns
<1>3. Popped(fs, fr)
  BY <1>1, <1>2, InvPops
<1>4. FrameOK(m, Waiting(m), fr) /\ MayRun(m, fs, fr) /\ fr \in Frames /\ StackOK(m, fs) /\ Managers(m)
  BY <1>3 DEF Popped, MayRun
<1>5. o \in On(m) /\ m.pl[o].m_Status = "Running" /\ then.what \in {"load", "retry", "setall"}
  BY <1>1, <1>2, <1>4 DEF FrameOK, Fits
<1>6. LoadingIn(fr) = {}
  BY <1>2 DEF LoadingIn
<1>7. RunsOn(m, fs, Loading(fs), Retried(fs) \cup RetriedIn(fr))
  BY <1>3, <1>6 DEF Popped
<1>8. CASE then.what = "setall"
  <2>1. PICK k, c : k = Position(m, o) + 1 /\ c = TellAll(m, k)
    OBVIOUS
  <2>2. Becomes(c, Below)
    BY <1>1, <1>8, <2>1 DEF AllPluginsLoadedReturns
  <2>3. k \in Nat /\ k >= 1
    BY <1>4, <1>5, <2>1, PositionFound
  <2>4. RetriedIn(fr) = {}
    BY <1>1, <1>8 DEF RetriedIn
  <2>5. RunsOn(m, fs, Loading(fs), Retried(fs))
    BY <1>7, <2>4
  <2>6. ConfigOK(c.m, fs \o c.call)
    BY <2>1, <2>3, <2>5, TellAllRuns
  <2>. QED
    BY <1>1, <2>2, <2>6, Resumed
<1>9. CASE then.what # "setall"
  <2>1. PICK c : c = AfterLoad(m, o, then, loop)
    OBVIOUS
  <2>2. Becomes(c, Below)
    BY <1>1, <1>9, <2>1 DEF AllPluginsLoadedReturns
  <2>3. CASE then.what = "load"
    <3>1. ~Failed(m.pl[o].m_Status)
      BY <1>5 DEF Failed
    <3>2. FailedUnloaded(m, o, loop) = m
      BY <3>1 DEF FailedUnloaded
    <3>3. PICK k, id : k = 1 /\ id = m.pl[o].m_Id
      OBVIOUS
    <3>4. c = PlEvent(m, k, o, id)
      BY <2>1, <2>3, <3>2, <3>3 DEF AfterLoad
    <3>5. k \in Nat /\ k >= 1 /\ id \in Nat /\ o \in Nat
      <4>1. m.pl[o] \in CPlugins /\ o \in Nat
        BY <1>4, <1>5, ListedTyped
      <4>. QED
        BY <3>3, <4>1 DEF CPlugins
    <3>6. RetriedIn(fr) = {}
      BY <1>1, <2>3 DEF RetriedIn
    <3>7. RunsOn(m, fs, Loading(fs), Retried(fs))
      BY <1>7, <3>6
    <3>8. ConfigOK(c.m, fs \o c.call)
      BY <3>4, <3>5, <3>7, PlEventRuns
    <3>. QED
      BY <1>1, <2>2, <3>8, Resumed
  <2>4. CASE then.what = "retry"
    <3>1. Bottom(fr) => fs = <<>>
      BY <1>4 DEF MayRun
    <3>2. fs = <<>>
      BY <1>1, <2>4, <3>1 DEF Bottom
    <3>3. PICK L, R : L = Loading(fs) /\ R = Retried(fs) \cup RetriedIn(fr)
      OBVIOUS
    <3>4. L = {}
      BY <3>2, <3>3, EmptyStack
    <3>40. L \ {o} = {}
      BY <3>4
    <3>5. fs = <<>> => loop = FALSE
      <4>1. fs = <<>> => NoHandler(stack)
        BY <1>2, <1>3, EmptyStack DEF Popped
      <4>2. NoHandler(stack) => loop = FALSE
        BY <1>1 DEF InLoop, NoHandler
      <4>. QED
        BY <4>1, <4>2
    <3>6. RunsOn(m, fs, L, R)
      BY <1>7, <3>3
    <3>7. ConfigOK(c.m, fs \o c.call)
      BY <1>1, <1>4, <2>1, <2>4, <3>1, <3>3, <3>40, <3>5, <3>6, RetryResumes
    <3>. QED
      BY <1>1, <2>2, <3>7, Resumed
  <2>. QED
    BY <1>5, <1>9, <2>3, <2>4
<1>. QED
  BY <1>8, <1>9

\* s with another status, and perhaps other hooks, of o.
StatusIs(s, t, o, x) ==
    /\ Managers(t) /\ DOMAIN t.pl = DOMAIN s.pl /\ t.pl[o] = [s.pl[o] EXCEPT !.m_Status = x]
    /\ \A y \in DOMAIN s.pl : y # o => t.pl[y] = s.pl[y]
    /\ t.made = s.made /\ t.m_Plugins = s.m_Plugins /\ t.m_LastId = s.m_LastId
    /\ t.m_AllLoaded = s.m_AllLoaded /\ t.lib = s.lib /\ t.pending = s.pending
    /\ \A g \in t.hooks : \E h \in s.hooks :
         /\ g.file = h.file /\ g.id = h.id
         /\ g.file # Metamod /\ h.id = s.pl[o].m_Id => (g.paused <=> x = "Paused")
         /\ h.id # s.pl[o].m_Id => (g.paused <=> h.paused)

StatusReady(s, fs, L, R, o, x) ==
    /\ RunsOn(s, fs, L, R) /\ o \in (On(s) \cap Held(s)) \ Waiting(s) /\ Spares(fs, {o})
    /\ x \in Statuses /\ s.pl[o].m_API
    /\ Failed(x) => o \in L

\* The manager goes on when a plugin no frame refers to has another status.
LEMMA StatusRuns ==
    ASSUME NEW s, NEW fs, NEW L, NEW R, NEW o, NEW x, StatusReady(s, fs, L, R, o, x),
           NEW t, StatusIs(s, t, o, x),
           NEW L2, L2 = L \/ (L2 = L \ {o} /\ ~Failed(x))
    PROVE  RunsOn(t, fs, L2, R)
<1>1. PICK W, X : W = Waiting(s) /\ X = {o}
  OBVIOUS
<1>2. /\ RunsOn(s, fs, L, R) /\ o \in (On(s) \cap Held(s)) \ W /\ Spares(fs, {o})
      /\ x \in Statuses /\ s.pl[o].m_API
      /\ Failed(x) => o \in L
  BY <1>1 DEF StatusReady
<1>3. /\ Managers(s) /\ PendingOK(s) /\ PluginsOK(s, W, L, R) /\ Once(s) /\ s.m_LastId >= Pl_MinId
      /\ fs \in Seq(Frames) /\ StackOK(s, fs) /\ o \in DOMAIN s.pl /\ On(s) \subseteq DOMAIN s.pl
  BY <1>1, <1>2, ListedTyped DEF RunsOn, SitsWell
<1>4. IdsApart(s) /\ FilesApart(s, W, R) /\ LibsHeld(s, W, L) /\ HooksServed(s, W)
  BY <1>3 DEF PluginsOK
<1>5. /\ Managers(t) /\ DOMAIN t.pl = DOMAIN s.pl /\ t.pl[o] = [s.pl[o] EXCEPT !.m_Status = x]
      /\ \A y \in DOMAIN s.pl : y # o => t.pl[y] = s.pl[y]
      /\ t.made = s.made /\ t.m_Plugins = s.m_Plugins /\ t.m_LastId = s.m_LastId
      /\ t.m_AllLoaded = s.m_AllLoaded /\ t.lib = s.lib /\ t.pending = s.pending
      /\ \A g \in t.hooks : \E h \in s.hooks :
           /\ g.file = h.file /\ g.id = h.id
           /\ g.file # Metamod /\ h.id = s.pl[o].m_Id => (g.paused <=> x = "Paused")
           /\ h.id # s.pl[o].m_Id => (g.paused <=> h.paused)
  BY DEF StatusIs
<1>6. /\ t.pl[o].m_Status = x
      /\ \A y \in DOMAIN s.pl :
           /\ t.pl[y].m_Id = s.pl[y].m_Id /\ t.pl[y].m_File = s.pl[y].m_File /\ t.pl[y].m_Lib = s.pl[y].m_Lib
           /\ t.pl[y].m_API = s.pl[y].m_API /\ t.pl[y].m_Events = s.pl[y].m_Events
           /\ y # o => t.pl[y].m_Status = s.pl[y].m_Status
  <2>1. s.pl[o] \in CPlugins
    BY <1>3, ListedTyped
  <2>2. /\ t.pl[o].m_Id = s.pl[o].m_Id /\ t.pl[o].m_File = s.pl[o].m_File /\ t.pl[o].m_Lib = s.pl[o].m_Lib
        /\ t.pl[o].m_API = s.pl[o].m_API /\ t.pl[o].m_Events = s.pl[o].m_Events /\ t.pl[o].m_Status = x
    BY <1>5, <2>1 DEF CPlugins
  <2>. QED
    BY <1>5, <2>2
<1>7. On(t) = On(s) /\ Held(t) = Held(s) /\ Waiting(t) = W
  BY <1>1, <1>5, <1>6 DEF On, Held, Waiting
<1>8. W \subseteq DOMAIN s.pl /\ Held(s) \subseteq DOMAIN s.pl
  BY <1>4 DEF LibsHeld, Held
<1>9. IdsApart(t) /\ PendingOK(t) /\ Once(t)
  <2>1. IdsApart(t)
    BY <1>3, <1>4, <1>5, <1>6, <1>7 DEF IdsApart
  <2>2. PendingOK(t)
    BY <1>3, <1>5, <1>7 DEF PendingOK
  <2>. QED
    BY <1>3, <1>5, <2>1, <2>2 DEF Once
<1>10. FilesApart(t, W, R)
  BY <1>3, <1>4, <1>6, <1>7, <1>8 DEF FilesApart
<1>11. LibsHeld(t, W, L2)
  <2>1. L2 \subseteq L /\ \A y \in L : y # o \/ Failed(x) => y \in L2
    OBVIOUS
  <2>2. o \notin W /\ o \in On(s) /\ (o \in L2 \/ ~Failed(x))
    BY <1>2, <2>1
  <2>3. W \subseteq Held(t) /\ L2 \subseteq On(t) \cap Held(t) /\ L2 \cap W = {}
    BY <1>4, <1>7, <2>1 DEF LibsHeld
  <2>4. /\ \A y \in W \cap On(t) : Failed(t.pl[y].m_Status)
        /\ \A y \in DOMAIN t.pl : t.pl[y].m_API \/ t.pl[y].m_Events => y \in Held(t)
        /\ \A y \in DOMAIN t.pl : t.pl[y].m_Events => y \in On(t) \ W
    BY <1>3, <1>4, <1>5, <1>6, <1>7, <2>2 DEF LibsHeld
  <2>5. \A y \in Held(t) : y \in W \/ (y \in On(t) /\ (y \in L2 \/ ~Failed(t.pl[y].m_Status)))
    BY <1>4, <1>6, <1>7, <1>8, <2>1, <2>2 DEF LibsHeld
  <2>6. /\ \A y \in Held(t) : ~Failed(t.pl[y].m_Status) => t.pl[y].m_API
        /\ \A y \in Held(t) : t.lib[t.pl[y].m_File].refs = 1 /\ (t.pl[y].m_API => t.lib[t.pl[y].m_File].up)
        /\ \A f \in Files : t.lib[f].refs = 0 \/ \E y \in Held(t) : t.pl[y].m_File = f
    BY <1>2, <1>4, <1>5, <1>6, <1>7, <1>8 DEF LibsHeld
  <2>. QED
    BY <2>3, <2>4, <2>5, <2>6 DEF LibsHeld
<1>12. HooksServed(t, W)
  <2>. SUFFICES ASSUME NEW g \in t.hooks, g.file # Metamod
                PROVE  \E y \in (On(s) \cap Held(s)) \ W :
                          /\ t.pl[y].m_Id = g.id /\ t.pl[y].m_File = g.file
                          /\ g.paused <=> t.pl[y].m_Status = "Paused"
    BY <1>7 DEF HooksServed
  <2>1. PICK h \in s.hooks :
           /\ g.file = h.file /\ g.id = h.id
           /\ g.file # Metamod /\ h.id = s.pl[o].m_Id => (g.paused <=> x = "Paused")
           /\ h.id # s.pl[o].m_Id => (g.paused <=> h.paused)
    BY <1>5
  <2>2. PICK y \in (On(s) \cap Held(s)) \ W : /\ s.pl[y].m_Id = h.id /\ s.pl[y].m_File = h.file
                                              /\ h.paused <=> s.pl[y].m_Status = "Paused"
    BY <1>4, <2>1 DEF HooksServed
  <2>3. y \in DOMAIN s.pl
    BY <1>3, <2>2
  <2>4. CASE y = o
    BY <1>6, <2>1, <2>2, <2>3, <2>4
  <2>5. CASE y # o
    <3>1. h.id # s.pl[o].m_Id
      BY <1>2, <1>4, <2>2, <2>5 DEF IdsApart
    <3>. QED
      BY <1>6, <2>1, <2>2, <2>3, <2>5, <3>1
  <2>. QED
    BY <2>4, <2>5
<1>13. Leaves(s, t, fs, X)
  <2>1. Untouched(s, t, X)
    BY <1>1, <1>5, <1>7 DEF Untouched
  <2>2. FilesKept(s, t)
    BY <1>6, <1>7, <1>8 DEF FilesKept
  <2>3. NoClear(fs) \/ Waiting(t) \cap On(t) = {}
    BY <1>1, <1>3, <1>7, ClearStays
  <2>4. Spares(fs, X) /\ Waiting(t) \subseteq Waiting(s) \cup X
    BY <1>1, <1>2, <1>7
  <2>5. \A g \in t.hooks : \E h \in s.hooks : h.file = g.file
    BY <1>5
  <2>. QED
    BY <1>5, <2>1, <2>2, <2>3, <2>4, <2>5 DEF Leaves
<1>14. StackOK(t, fs)
  BY <1>3, <1>13, StackKept
<1>. QED
  BY <1>3, <1>5, <1>7, <1>9, <1>10, <1>11, <1>12, <1>14 DEF RunsOn, SitsWell, PluginsOK

\* A plugin that is not paused gets a status, its hooks stay as they are.
LEMMA StatusSet ==
    ASSUME NEW s, NEW L, NEW R, SitsWell(s, L, R), NEW o, o \in On(s), s.pl[o].m_Status # "Paused",
           NEW x \in Statuses, x # "Paused",
           NEW t, t = [s EXCEPT !.pl[o].m_Status = x]
    PROVE  StatusIs(s, t, o, x)
<1>1. PICK p, d : p = [s.pl[o] EXCEPT !.m_Status = x] /\ d = t
  OBVIOUS
<1>2. Managers(s) /\ IdsApart(s) /\ HooksServed(s, Waiting(s))
  BY DEF SitsWell, PluginsOK
<1>3. o \in DOMAIN s.pl /\ s.pl[o] \in CPlugins
  BY <1>2, ListedTyped
<1>4. p \in CPlugins
  BY <1>1, <1>3 DEF CPlugins
<1>5. t = [s EXCEPT !.pl = [s.pl EXCEPT ![o] = p]]
  BY <1>1
<1>6. Managers(t) /\ PlSet(s, t, o, p)
  BY <1>2, <1>3, <1>4, <1>5, PlIsSet
<1>7. Managers(d) /\ PlSet(s, d, o, p)
  BY <1>1, <1>6
<1>8. \A h \in s.hooks : h.file # Metamod /\ h.id = s.pl[o].m_Id => ~h.paused
  <2>. SUFFICES ASSUME NEW h \in s.hooks, h.file # Metamod, h.id = s.pl[o].m_Id
                PROVE  ~h.paused
    OBVIOUS
  <2>1. PICK y \in (On(s) \cap Held(s)) \ Waiting(s) : /\ s.pl[y].m_Id = h.id
                                                       /\ h.paused <=> s.pl[y].m_Status = "Paused"
    BY <1>2 DEF HooksServed
  <2>2. y = o
    BY <1>2, <2>1 DEF IdsApart
  <2>. QED
    BY <2>1, <2>2
<1>9. StatusIs(s, d, o, x)
  <2>1. \A g \in d.hooks : g \in s.hooks
    BY <1>7 DEF PlSet
  <2>2. d.pl[o] = [s.pl[o] EXCEPT !.m_Status = x]
    BY <1>1, <1>7 DEF PlSet
  <2>. QED
    BY <1>7, <1>8, <2>1, <2>2 DEF StatusIs, PlSet
<1>. QED
  BY <1>1, <1>9

WithHooksAndPl(s, x, y) == [s EXCEPT !.hooks = x, !.pl = y]

\* The hooks and the objects are assigned, as PausePlugin does.
LEMMA WithHooksPl ==
    ASSUME NEW s, IsRec(s), NEW x, NEW y, NEW t, t = WithHooksAndPl(s, x, y)
    PROVE  t = Rec(y, s.made, s.m_Plugins, s.m_LastId, s.m_AllLoaded, x, s.lib, s.pending)
BY DEF Rec, IsRec, WithHooksAndPl

\* PausePlugin and UnpausePlugin set the hooks of one id and no others.
LEMMA HooksPausedOf ==
    ASSUME NEW s, s.hooks \subseteq Hooks, NEW id, NEW paused \in BOOLEAN, NEW hooks, hooks = HooksPaused(s, id, paused)
    PROVE  /\ hooks \subseteq Hooks
           /\ \A g \in hooks : \E h \in s.hooks :
                /\ g.file = h.file /\ g.id = h.id
                /\ h.id = id => (g.paused <=> paused)
                /\ h.id # id => (g.paused <=> h.paused)
<1>. SUFFICES ASSUME NEW g \in hooks
              PROVE  /\ g \in Hooks
                     /\ \E h \in s.hooks :
                          /\ g.file = h.file /\ g.id = h.id
                          /\ h.id = id => (g.paused <=> paused)
                          /\ h.id # id => (g.paused <=> h.paused)
  OBVIOUS
<1>1. PICK h \in s.hooks : g = IF h.id = id THEN [h EXCEPT !.paused = paused] ELSE h
  BY DEF HooksPaused
<1>2. h \in Hooks
  BY <1>1
<1>3. CASE h.id = id
  <2>1. g = [h EXCEPT !.paused = paused]
    BY <1>1, <1>3
  <2>2. g \in Hooks /\ g.file = h.file /\ g.id = h.id /\ g.paused = paused
    BY <1>2, <2>1 DEF Hooks
  <2>. QED
    BY <1>1, <1>3, <2>2
<1>4. CASE h.id # id
  BY <1>1, <1>2, <1>4
<1>. QED
  BY <1>3, <1>4

\* A plugin's status and its hooks are paused and unpaused together.
LEMMA PauseSet ==
    ASSUME NEW s, Managers(s), NEW o, o \in On(s), NEW x \in Statuses, NEW paused \in BOOLEAN,
           paused <=> x = "Paused",
           NEW t, t = [s EXCEPT !.hooks = HooksPaused(s, s.pl[o].m_Id, paused), !.pl[o].m_Status = x]
    PROVE  StatusIs(s, t, o, x)
<1>1. PICK p, pl, hooks, id :
        /\ p = [s.pl[o] EXCEPT !.m_Status = x] /\ pl = [s.pl EXCEPT ![o] = p]
        /\ id = s.pl[o].m_Id /\ hooks = HooksPaused(s, id, paused)
  OBVIOUS
<1>2. PICK d : d = Rec(pl, s.made, s.m_Plugins, s.m_LastId, s.m_AllLoaded, hooks, s.lib, s.pending)
  OBVIOUS
<1>3. t = d
  <2>1. t = WithHooksAndPl(s, hooks, pl)
    BY <1>1 DEF WithHooksAndPl
  <2>2. IsRec(s)
    BY DEF Managers
  <2>3. t = Rec(pl, s.made, s.m_Plugins, s.m_LastId, s.m_AllLoaded, hooks, s.lib, s.pending)
    BY <2>1, <2>2, WithHooksPl
  <2>. QED
    BY <1>2, <2>3
<1>4. /\ IsRec(d) /\ d.pl = pl /\ d.made = s.made /\ d.m_Plugins = s.m_Plugins /\ d.m_LastId = s.m_LastId
      /\ d.m_AllLoaded = s.m_AllLoaded /\ d.hooks = hooks /\ d.lib = s.lib /\ d.pending = s.pending
  BY <1>2, RecFields
<1>5. o \in DOMAIN s.pl /\ s.pl[o] \in CPlugins
  BY ListedTyped
<1>6. p \in CPlugins
  BY <1>1, <1>5 DEF CPlugins
<1>7. /\ DOMAIN pl = DOMAIN s.pl /\ pl[o] = p /\ \A y \in DOMAIN s.pl : y # o => pl[y] = s.pl[y]
      /\ pl = [y \in DOMAIN pl |-> pl[y]]
  BY <1>1, <1>5
<1>8. /\ hooks \subseteq Hooks
      /\ \A g \in hooks : \E h \in s.hooks :
           /\ g.file = h.file /\ g.id = h.id
           /\ h.id = id => (g.paused <=> paused)
           /\ h.id # id => (g.paused <=> h.paused)
  <2>1. s.hooks \subseteq Hooks
    BY DEF Managers
  <2>. QED
    BY <1>1, <2>1, HooksPausedOf
<1>9. Managers(d)
  <2>1. On(d) = On(s)
    BY <1>4 DEF On
  <2>2. \A y \in DOMAIN d.pl : d.pl[y] \in CPlugins /\ y \in 1..d.made
    BY <1>4, <1>6, <1>7 DEF Managers
  <2>. QED
    BY <1>4, <1>7, <1>8, <2>2 DEF Managers
<1>10. StatusIs(s, d, o, x)
  BY <1>1, <1>4, <1>7, <1>8, <1>9 DEF StatusIs
<1>. QED
  BY <1>3, <1>10

\* Pause or Unpause returns: the plugin agreed or declined.
LEMMA PauseReturnsStep ==
    ASSUME PluginInv, PauseReturns
    PROVE  PluginInv'
<1>1. PICK fs, fr, o : fs = Below /\ fr = Top /\ o = fr.obj
  OBVIOUS
<1>2. PICK id : id = m.pl[o].m_Id
  OBVIOUS
<1>3. PICK kind \in {"Pause", "Unpause"} :
        /\ stack # <<>> /\ fr.kind = kind
        /\ \/ Becomes(PlEvent([m EXCEPT !.hooks = HooksPaused(m, id, kind = "Pause"),
                                        !.pl[o].m_Status = IF kind = "Pause" THEN "Paused" ELSE "Running"],
                              1, o, id), Below)
           \/ Becomes(Config(m, <<>>), Below)
  BY <1>1, <1>2 DEF PauseReturns, Returns
<1>4. Popped(fs, fr)
  BY <1>1, <1>3, InvPops
<1>5. FrameOK(m, Waiting(m), fr) /\ MayRun(m, fs, fr) /\ StackOK(m, fs) /\ Managers(m)
  BY <1>4 DEF Popped, MayRun
<1>6. o \in (On(m) \cap Held(m)) \ Waiting(m) /\ fr.then.what = "nothing"
  BY <1>1, <1>3, <1>5 DEF FrameOK, Fits
<1>7. LoadingIn(fr) = {} /\ RetriedIn(fr) = {}
  BY <1>3, <1>6 DEF LoadingIn, RetriedIn
<1>8. RunsOn(m, fs, Loading(fs), Retried(fs))
  BY <1>4, <1>7 DEF Popped
<1>9. Spares(fs, {o})
  BY <1>1, <1>3, <1>5 DEF MayRun, AsksAlone
<1>10. PICK L, R : L = Loading(fs) /\ R = Retried(fs)
  OBVIOUS
<1>11. o \notin L
  BY <1>5, <1>9, <1>10, SparesLoading
<1>12. m.pl[o].m_API
  <2>1. LibsHeld(m, Waiting(m), L)
    BY <1>8, <1>10 DEF RunsOn, SitsWell, PluginsOK
  <2>. QED
    BY <1>6, <1>11, <2>1 DEF LibsHeld
<1>13. id \in Nat /\ o \in Nat
  <2>1. m.pl[o] \in CPlugins /\ o \in Nat
    BY <1>5, <1>6, ListedTyped
  <2>. QED
    BY <1>2, <2>1 DEF CPlugins
<1>14. PICK x, paused : x = (IF kind = "Pause" THEN "Paused" ELSE "Running") /\ paused = (kind = "Pause")
  OBVIOUS
<1>15. x \in Statuses /\ paused \in BOOLEAN /\ (paused <=> x = "Paused") /\ ~Failed(x)
  BY <1>14 DEF Statuses, Failed
<1>16. PICK t : t = [m EXCEPT !.hooks = HooksPaused(m, m.pl[o].m_Id, paused), !.pl[o].m_Status = x]
  OBVIOUS
<1>17. StatusIs(m, t, o, x)
  BY <1>5, <1>6, <1>15, <1>16, PauseSet
<1>18. StatusReady(m, fs, L, R, o, x)
  BY <1>6, <1>8, <1>9, <1>10, <1>12, <1>15 DEF StatusReady
<1>19. RunsOn(t, fs, L, R)
  BY <1>17, <1>18, StatusRuns
<1>20. CASE Becomes(PlEvent(t, 1, o, id), Below)
  <2>1. PICK k : k = 1
    OBVIOUS
  <2>2. PICK c : c = PlEvent(t, k, o, id)
    OBVIOUS
  <2>3. RunsOn(t, fs, Loading(fs), Retried(fs)) /\ k \in Nat /\ k >= 1
    BY <1>10, <1>19, <2>1
  <2>4. ConfigOK(c.m, fs \o c.call)
    BY <1>13, <2>2, <2>3, PlEventRuns
  <2>. QED
    BY <1>1, <1>20, <2>1, <2>2, <2>4, Resumed
<1>21. CASE Becomes(Config(m, <<>>), Below)
  <2>1. PICK c, e : e = <<>> /\ c = Config(m, e)
    OBVIOUS
  <2>2. c.m = m /\ c.call = e
    BY <2>1, ConfigFields
  <2>3. ConfigOK(m, fs \o e)
    BY <1>8, <2>1, NotCalled
  <2>. QED
    BY <1>1, <1>21, <2>1, <2>2, <2>3, Resumed
<1>. QED
  BY <1>2, <1>3, <1>14, <1>16, <1>20, <1>21

StaysReady(s, t, fr, o, x) ==
    /\ Managers(s) /\ FrameOK(s, Waiting(s), fr) /\ fr.kind = "Load" /\ o = fr.obj
    /\ x # "Paused" /\ StatusIs(s, t, o, x)
StaysDone(t, fr, o, x) == FrameOK(t, Waiting(t), fr) /\ t.pl[o].m_Status = x

\* The frame of a plugin's Load, when its status has changed.
LEMMA LoadFrameStays ==
    ASSUME NEW s, NEW t, NEW fr, NEW o, NEW x, StaysReady(s, t, fr, o, x)
    PROVE  StaysDone(t, fr, o, x)
<1>0. /\ Managers(s) /\ FrameOK(s, Waiting(s), fr) /\ fr.kind = "Load" /\ o = fr.obj
      /\ x # "Paused" /\ StatusIs(s, t, o, x)
  BY DEF StaysReady
<1>. USE <1>0
<1>1. /\ o \in (On(s) \cap Held(s)) \ Waiting(s) /\ s.pl[o].m_File = fr.file /\ s.pl[o].m_API /\ Fits(fr)
  BY DEF FrameOK
<1>2. /\ DOMAIN t.pl = DOMAIN s.pl /\ t.pl[o] = [s.pl[o] EXCEPT !.m_Status = x]
      /\ \A y \in DOMAIN s.pl : y # o => t.pl[y] = s.pl[y]
      /\ t.m_Plugins = s.m_Plugins /\ t.m_LastId = s.m_LastId /\ t.pending = s.pending
      /\ \A g \in t.hooks : \E h \in s.hooks : g.file = h.file
  BY DEF StatusIs
<1>3. s.pl[o] \in CPlugins /\ o \in DOMAIN s.pl /\ On(s) \subseteq DOMAIN s.pl
  BY <1>1, ListedTyped
<1>4. /\ t.pl[o].m_Id = s.pl[o].m_Id /\ t.pl[o].m_File = s.pl[o].m_File /\ t.pl[o].m_Lib = s.pl[o].m_Lib
      /\ t.pl[o].m_API = s.pl[o].m_API /\ t.pl[o].m_Status = x
  BY <1>2, <1>3 DEF CPlugins
<1>5. On(t) = On(s) /\ Waiting(t) = Waiting(s) /\ Held(t) = Held(s)
  <2>1. On(t) = On(s) /\ Waiting(t) = Waiting(s)
    BY <1>2 DEF On, Waiting
  <2>2. \A y \in DOMAIN s.pl : t.pl[y].m_Lib = s.pl[y].m_Lib
    BY <1>2, <1>4
  <2>3. Held(t) = Held(s)
    BY <1>2, <2>2 DEF Held
  <2>. QED
    BY <2>1, <2>3
<1>6. fr.then.what = "retry" =>
         /\ fr.then.obj \in On(t) \ Held(t) /\ Failed(t.pl[fr.then.obj].m_Status)
         /\ t.pl[fr.then.obj].m_File = fr.file
         /\ t.pl[o].m_Id = t.m_LastId - 1 /\ fr.then.id = t.pl[fr.then.obj].m_Id
         /\ \A h \in t.hooks : h.file # fr.file
  <2>. SUFFICES ASSUME fr.then.what = "retry"
                PROVE  /\ fr.then.obj \in On(t) \ Held(t) /\ Failed(t.pl[fr.then.obj].m_Status)
                       /\ t.pl[fr.then.obj].m_File = fr.file
                       /\ t.pl[o].m_Id = t.m_LastId - 1 /\ fr.then.id = t.pl[fr.then.obj].m_Id
                       /\ \A h \in t.hooks : h.file # fr.file
    OBVIOUS
  <2>1. PICK old : old = fr.then.obj
    OBVIOUS
  <2>2. /\ old \in On(s) \ Held(s) /\ Failed(s.pl[old].m_Status) /\ s.pl[old].m_File = fr.file
        /\ s.pl[o].m_Id = s.m_LastId - 1 /\ fr.then.id = s.pl[old].m_Id
        /\ \A h \in s.hooks : h.file # fr.file
    BY <2>1 DEF FrameOK
  <2>3. t.pl[old] = s.pl[old]
    BY <1>1, <1>2, <1>3, <2>2
  <2>. QED
    BY <1>2, <1>4, <1>5, <2>1, <2>2, <2>3
<1>7. FrameOK(t, Waiting(t), fr)
  BY <1>1, <1>4, <1>5, <1>6 DEF FrameOK
<1>. QED
  BY <1>4, <1>7 DEF StaysDone

TellReady(s, fr, gr) ==
    /\ fr \in Frames /\ FrameOK(s, Waiting(s), fr) /\ fr.kind = "Load"
    /\ s.pl[fr.obj].m_Status = "Running" /\ gr = [fr EXCEPT !.kind = "AllPluginsLoaded"]
TellDone(s, fr, gr) ==
    /\ gr \in Frames /\ gr.kind = "AllPluginsLoaded" /\ gr.obj = fr.obj /\ gr.then = fr.then
    /\ FrameOK(s, Waiting(s), gr)

\* AllPluginsLoaded is called with what the manager has left to do.
LEMMA AllLoadedFrame ==
    ASSUME NEW s, NEW fr, NEW gr, TellReady(s, fr, gr)
    PROVE  TellDone(s, fr, gr)
<1>0. /\ fr \in Frames /\ FrameOK(s, Waiting(s), fr) /\ fr.kind = "Load"
      /\ s.pl[fr.obj].m_Status = "Running" /\ gr = [fr EXCEPT !.kind = "AllPluginsLoaded"]
  BY DEF TellReady
<1>. USE <1>0
<1>1. gr \in Frames /\ gr.kind = "AllPluginsLoaded" /\ gr.obj = fr.obj /\ gr.then = fr.then /\ gr.file = fr.file
  BY DEF Frames, Kinds
<1>2. Fits(gr)
  BY <1>1 DEF FrameOK, Fits
<1>3. FrameOK(s, Waiting(s), gr)
  BY <1>1, <1>2 DEF FrameOK
<1>. QED
  BY <1>1, <1>3 DEF TellDone

LoadPops(fs, fr, o, L, R) ==
    /\ RunsOn(m, fs, L, R) /\ L \ {o} = Loading(fs) /\ R = Retried(fs) \cup RetriedIn(fr)
    /\ o \in (On(m) \cap Held(m)) \ Waiting(m) /\ o \in L /\ m.pl[o].m_API /\ m.pl[o].m_Status # "Paused"
    /\ Spares(fs, {o}) /\ NoClear(fs) /\ fr.then.what \in {"load", "retry"}
    /\ Bottom(fr) => fs = <<>>
    /\ FrameOK(m, Waiting(m), fr) /\ fr \in Frames /\ fr.kind = "Load" /\ Managers(m)

\* When Load returns its plugin is listed and holds its library, and no frame
\* below refers to it.
LEMMA LoadingPops ==
    ASSUME NEW fs, NEW fr, NEW o, Popped(fs, fr), fr.kind = "Load", o = fr.obj
    PROVE  LoadPops(fs, fr, o, Loading(fs) \cup {o}, Retried(fs) \cup RetriedIn(fr))
<1>1. FrameOK(m, Waiting(m), fr) /\ MayRun(m, fs, fr) /\ fr \in Frames /\ StackOK(m, fs) /\ Managers(m)
  BY DEF Popped, MayRun
<1>2. /\ o \in (On(m) \cap Held(m)) \ Waiting(m) /\ m.pl[o].m_API /\ m.pl[o].m_Status # "Paused"
      /\ fr.then.what \in {"load", "retry"}
  BY <1>1 DEF FrameOK, Fits
<1>3. Spares(fs, {o}) /\ NoClear(fs) /\ (Bottom(fr) => fs = <<>>)
  BY <1>1 DEF MayRun, AsksAlone
<1>4. o \notin Loading(fs)
  BY <1>1, <1>3, SparesLoading
<1>5. LoadingIn(fr) = {o}
  BY DEF LoadingIn
<1>6. RunsOn(m, fs, Loading(fs) \cup {o}, Retried(fs) \cup RetriedIn(fr))
  BY <1>5 DEF Popped
<1>. QED
  BY <1>1, <1>2, <1>3, <1>4, <1>6 DEF LoadPops

\* A plugin of known status that comes to the end of _Load.
LEMMA LoadEnds ==
    ASSUME NEW fs, NEW fr, NEW o, NEW L, NEW R, LoadPops(fs, fr, o, L, R), o = fr.obj,
           NEW x \in {"Running", "Refused"}, NEW t, t = [m EXCEPT !.pl[o].m_Status = x],
           NEW loop \in BOOLEAN, loop = FALSE => NoHandler(fs), fs = <<>> => loop = FALSE,
           NEW then, then = fr.then,
           NEW c, c = AfterLoad(t, o, then, loop)
    PROVE  ConfigOK(c.m, fs \o c.call)
<1>1. /\ RunsOn(m, fs, L, R) /\ L \ {o} = Loading(fs) /\ R = Retried(fs) \cup RetriedIn(fr)
      /\ o \in (On(m) \cap Held(m)) \ Waiting(m) /\ o \in L /\ m.pl[o].m_API /\ m.pl[o].m_Status # "Paused"
      /\ Spares(fs, {o}) /\ NoClear(fs) /\ fr.then.what \in {"load", "retry"}
      /\ Bottom(fr) => fs = <<>>
      /\ FrameOK(m, Waiting(m), fr) /\ fr \in Frames /\ fr.kind = "Load" /\ Managers(m)
  BY DEF LoadPops
<1>2. x \in Statuses /\ x # "Paused"
  BY DEF Statuses
<1>3. StatusIs(m, t, o, x)
  <2>1. SitsWell(m, L, R) /\ o \in On(m) /\ m.pl[o].m_Status # "Paused"
    BY <1>1 DEF RunsOn
  <2>. QED
    BY <1>2, <2>1, StatusSet
<1>4. RunsOn(t, fs, L, R)
  <2>1. StatusReady(m, fs, L, R, o, x)
    BY <1>1, <1>2 DEF StatusReady
  <2>. QED
    BY <1>3, <2>1, StatusRuns
<1>5. FrameOK(t, Waiting(t), fr)
  <2>1. Managers(m) /\ FrameOK(m, Waiting(m), fr) /\ fr.kind = "Load"
    BY <1>1
  <2>2. StaysReady(m, t, fr, o, x)
    BY <1>2, <1>3, <2>1 DEF StaysReady
  <2>3. StaysDone(t, fr, o, x)
    BY <2>2, LoadFrameStays
  <2>. QED
    BY <2>3 DEF StaysDone
<1>6. o \in On(t) /\ o \notin Waiting(t)
  BY <1>1, <1>5 DEF FrameOK
<1>7. CASE then.what = "load"
  <2>1. RetriedIn(fr) = {}
    BY <1>7 DEF RetriedIn
  <2>2. RunsOn(t, fs, L, Retried(fs))
    BY <1>1, <1>4, <2>1
  <2>. QED
    BY <1>1, <1>6, <1>7, <2>2, LoadDone
<1>8. CASE then.what = "retry"
  <2>1. fs = <<>>
    BY <1>1, <1>8 DEF Bottom
  <2>2. L \ {o} = {}
    BY <1>1, <2>1, EmptyStack
  <2>3. fs = <<>> => loop = FALSE
    OBVIOUS
  <2>. QED
    BY <1>1, <1>4, <1>5, <1>8, <2>2, <2>3, RetryResumes
<1>. QED
  BY <1>1, <1>7, <1>8

\* With everything loaded, AllPluginsLoaded is called first.
LEMMA LoadTells ==
    ASSUME NEW fs, NEW fr, NEW o, NEW L, NEW R, LoadPops(fs, fr, o, L, R), o = fr.obj,
           NEW x, x = "Running", NEW t, t = [m EXCEPT !.pl[o].m_Status = x],
           NEW u, u = [t EXCEPT !.pl[o].told = @ + 1],
           NEW gr, gr = [fr EXCEPT !.kind = "AllPluginsLoaded"]
    PROVE  ConfigOK(u, fs \o <<gr>>)
<1>1. /\ RunsOn(m, fs, L, R) /\ L \ {o} = Loading(fs) /\ R = Retried(fs) \cup RetriedIn(fr)
      /\ o \in (On(m) \cap Held(m)) \ Waiting(m) /\ o \in L /\ m.pl[o].m_API /\ m.pl[o].m_Status # "Paused"
      /\ Spares(fs, {o}) /\ NoClear(fs) /\ fr.then.what \in {"load", "retry"}
      /\ Bottom(fr) => fs = <<>>
      /\ FrameOK(m, Waiting(m), fr) /\ fr \in Frames /\ fr.kind = "Load" /\ Managers(m)
  BY DEF LoadPops
<1>2. x \in Statuses /\ x # "Paused" /\ ~Failed(x)
  BY DEF Statuses, Failed
<1>3. StatusIs(m, t, o, x)
  <2>1. SitsWell(m, L, R) /\ o \in On(m) /\ m.pl[o].m_Status # "Paused"
    BY <1>1 DEF RunsOn
  <2>. QED
    BY <1>2, <2>1, StatusSet
<1>4. PICK L2 : L2 = L \ {o}
  OBVIOUS
<1>5. RunsOn(t, fs, L2, R)
  <2>1. StatusReady(m, fs, L, R, o, x)
    BY <1>1, <1>2 DEF StatusReady
  <2>. QED
    BY <1>2, <1>3, <1>4, <2>1, StatusRuns
<1>6. FrameOK(t, Waiting(t), fr) /\ t.pl[o].m_Status = x
  <2>1. Managers(m) /\ FrameOK(m, Waiting(m), fr) /\ fr.kind = "Load"
    BY <1>1
  <2>2. StaysReady(m, t, fr, o, x)
    BY <1>2, <1>3, <2>1 DEF StaysReady
  <2>3. StaysDone(t, fr, o, x)
    BY <2>2, LoadFrameStays
  <2>. QED
    BY <2>3 DEF StaysDone
<1>7. /\ gr \in Frames /\ gr.kind = "AllPluginsLoaded" /\ gr.obj = fr.obj /\ gr.then = fr.then
      /\ FrameOK(t, Waiting(t), gr)
  <2>1. t.pl[fr.obj].m_Status = "Running"
    BY <1>6
  <2>2. fr \in Frames /\ fr.kind = "Load"
    BY <1>1
  <2>3. TellReady(t, fr, gr)
    BY <1>6, <2>1, <2>2 DEF TellReady
  <2>4. TellDone(t, fr, gr)
    BY <2>3, AllLoadedFrame
  <2>. QED
    BY <2>4 DEF TellDone
<1>8. MayRun(t, fs, gr)
  BY <1>1, <1>7 DEF MayRun, Bottom, AsksAlone
<1>9. L2 = Loading(fs) \cup LoadingIn(gr) /\ R = Retried(fs) \cup RetriedIn(gr)
  <2>1. LoadingIn(gr) = {} /\ RetriedIn(gr) = RetriedIn(fr)
    BY <1>7 DEF LoadingIn, RetriedIn
  <2>. QED
    BY <1>1, <1>4, <2>1
<1>10. PICK gs : gs = fs \o <<gr>>
  OBVIOUS
<1>11. ConfigOK(t, gs)
  BY <1>5, <1>7, <1>8, <1>9, <1>10, Called
<1>12. RunsOn(t, gs, Loading(gs), Retried(gs))
  BY <1>11, Resting
<1>13. Managers(t) /\ o \in DOMAIN t.pl
  <2>1. Managers(t) /\ o \in On(t)
    BY <1>1, <1>6, <1>12 DEF RunsOn, SitsWell, FrameOK
  <2>. QED
    BY <2>1, ListedTyped
<1>14. Managers(u) /\ Similar(t, u)
  BY <1>13, ToldMore
<1>15. RunsOn(u, gs, Loading(gs), Retried(gs))
  BY <1>12, <1>14, SimilarRuns
<1>. QED
  BY <1>10, <1>15, Resting

-----------------------------------------------------------------------------
(* The invariant holds. *)
\* Load returns: AllPluginsLoaded is called or _Load goes on, with the plugin
\* running or refused.
LEMMA LoadReturnsStep ==
    ASSUME PluginInv, LoadReturns
    PROVE  PluginInv'
<1>1. PICK fs, fr, o, then, loop : fs = Below /\ fr = Top /\ o = fr.obj /\ then = fr.then /\ loop = InLoop
  OBVIOUS
<1>2. stack # <<>> /\ fr.kind = "Load"
  BY <1>1 DEF LoadReturns, Returns
<1>3. Popped(fs, fr)
  BY <1>1, <1>2, InvPops
<1>4. PICK L, R : L = Loading(fs) \cup {o} /\ R = Retried(fs) \cup RetriedIn(fr)
  OBVIOUS
<1>5. LoadPops(fs, fr, o, L, R)
  BY <1>1, <1>2, <1>3, <1>4, LoadingPops
<1>6. loop \in BOOLEAN /\ (loop = FALSE => NoHandler(fs)) /\ (fs = <<>> => loop = FALSE)
  <2>1. NoHandler(stack) <=> NoHandler(fs)
    BY <1>2, <1>3 DEF Popped
  <2>2. loop \in BOOLEAN /\ (loop = FALSE => NoHandler(stack)) /\ (NoHandler(stack) => loop = FALSE)
    BY <1>1, LoopKnown DEF InLoop, NoHandler
  <2>3. fs = <<>> => NoHandler(fs)
    BY EmptyStack
  <2>. QED
    BY <2>1, <2>2, <2>3
<1>7. PICK x : x = "Running"
  OBVIOUS
<1>8. PICK y : y = "Refused"
  OBVIOUS
<1>9. PICK t : t = [m EXCEPT !.pl[o].m_Status = x]
  OBVIOUS
<1>10. PICK r : r = [m EXCEPT !.pl[o].m_Status = y]
  OBVIOUS
<1>11. PICK u : u = [t EXCEPT !.pl[o].told = @ + 1]
  OBVIOUS
<1>12. PICK gr : gr = [fr EXCEPT !.kind = "AllPluginsLoaded"]
  OBVIOUS
<1>13. \/ Becomes(Config(u, <<gr>>), Below)
       \/ Becomes(AfterLoad(t, o, then, loop), Below)
       \/ Becomes(AfterLoad(r, o, then, loop), Below)
  BY <1>1, <1>7, <1>8, <1>9, <1>10, <1>11, <1>12 DEF LoadReturns
<1>14. CASE Becomes(Config(u, <<gr>>), Below)
  <2>1. ConfigOK(u, fs \o <<gr>>)
    BY <1>1, <1>5, <1>7, <1>9, <1>11, <1>12, LoadTells
  <2>2. PICK e, c : e = <<gr>> /\ c = Config(u, e)
    OBVIOUS
  <2>3. c.m = u /\ c.call = e
    BY <2>2, ConfigFields
  <2>. QED
    BY <1>1, <1>14, <2>1, <2>2, <2>3, Resumed
<1>15. CASE Becomes(AfterLoad(t, o, then, loop), Below)
  <2>1. PICK c : c = AfterLoad(t, o, then, loop)
    OBVIOUS
  <2>2. ConfigOK(c.m, fs \o c.call)
    BY <1>1, <1>5, <1>6, <1>7, <1>9, <2>1, LoadEnds
  <2>. QED
    BY <1>1, <1>15, <2>1, <2>2, Resumed
<1>16. CASE Becomes(AfterLoad(r, o, then, loop), Below)
  <2>1. PICK c : c = AfterLoad(r, o, then, loop)
    OBVIOUS
  <2>2. ConfigOK(c.m, fs \o c.call)
    BY <1>1, <1>5, <1>6, <1>8, <1>10, <2>1, LoadEnds
  <2>. QED
    BY <1>1, <1>16, <2>1, <2>2, Resumed
<1>. QED
  BY <1>13, <1>14, <1>15, <1>16

\* Before the first load there is Metamod's own hook and nothing else.
LEMMA InitInv ==
    ASSUME Init
    PROVE  PluginInv
<1>1. PICK s : s = m
  OBVIOUS
<1>2. PICK e : e = <<>>
  OBVIOUS
<1>3. /\ s = Rec(e, 0, e, Pl_MinId, FALSE, {[id |-> 0, file |-> Metamod, paused |-> FALSE]},
                 [f \in Files |-> IdleLib], e)
      /\ stack = e
  BY <1>1, <1>2 DEF Init, Rec
<1>4. /\ s.pl = e /\ s.made = 0 /\ s.m_Plugins = e /\ s.m_LastId = Pl_MinId
      /\ s.hooks = {[id |-> 0, file |-> Metamod, paused |-> FALSE]}
      /\ s.lib = [f \in Files |-> IdleLib] /\ s.pending = e /\ IsRec(s)
  BY <1>3 DEF Rec, IsRec
<1>5. DOMAIN e = {} /\ e \in Seq(Nat) /\ e \in Seq(Unloaders) /\ e \in Seq(Frames) /\ e = [o \in DOMAIN e |-> e[o]]
  BY <1>2
<1>6. Elements(e) = {}
  BY <1>5 DEF Elements
<1>7. On(s) = {} /\ Waiting(s) = {} /\ Held(s) = {} /\ DOMAIN s.pl = {}
  BY <1>4, <1>5, <1>6 DEF On, Waiting, Held
<1>8. Pl_MinId \in Nat
  BY DEF Pl_MinId
<1>9. Managers(s)
  <2>1. s.hooks \subseteq Hooks
    BY <1>4 DEF Hooks
  <2>2. s.lib \in [Files -> Libraries]
    BY <1>4 DEF IdleLib, Libraries
  <2>. QED
    BY <1>4, <1>5, <1>6, <1>8, <2>1, <2>2 DEF Managers
<1>10. \A h \in s.hooks : h.file = Metamod
  BY <1>4
<1>11. \A f \in Files : s.lib[f].refs = 0
  BY <1>4 DEF IdleLib
<1>12. Loading(e) = {} /\ Retried(e) = {}
  BY <1>2, EmptyStack
<1>13. IdsApart(s) /\ FilesApart(s, {}, {}) /\ HooksServed(s, {})
  BY <1>7, <1>10 DEF IdsApart, FilesApart, HooksServed
<1>14. LibsHeld(s, {}, {})
  BY <1>7, <1>11 DEF LibsHeld
<1>15. PendingOK(s) /\ StackOK(s, e) /\ Once(s)
  BY <1>4, <1>5 DEF PendingOK, StackOK, Once
<1>16. s.m_LastId >= Pl_MinId
  BY <1>4, <1>8
<1>. QED
  BY <1>1, <1>3, <1>5, <1>7, <1>9, <1>12, <1>13, <1>14, <1>15, <1>16 DEF PluginInv, ConfigOK, PluginsOK

\* Every step of the manager, of SourceHook and of the plugins keeps the
\* invariant.
LEMMA NextInv ==
    ASSUME PluginsBehave, PluginInv, [Next]_vars
    PROVE  PluginInv'
<1>1. ASSUME NEW f \in Files, ConsoleLoad(f) PROVE PluginInv'
  BY <1>1, ConsoleLoadStep
<1>2. ASSUME NEW f \in Files, ReadingLoad(f) \/ PluginLoad(f) PROVE PluginInv'
  BY <1>2, ReadingLoadStep, PluginLoadStep
<1>3. ASSUME NEW o \in Elements(m.m_Plugins), ConsoleUnload(o) PROVE PluginInv'
  BY <1>3, UnloadStep DEF ConsoleUnload
<1>4. ASSUME NEW o \in Elements(m.m_Plugins), PluginUnload(o) PROVE PluginInv'
  BY <1>4, UnloadStep DEF PluginUnload
<1>5. ASSUME NEW o \in Elements(m.m_Plugins), Retry(o) PROVE PluginInv'
  BY <1>5, RetryStep
<1>6. ASSUME NEW o \in Elements(m.m_Plugins), Pause(o) \/ Unpause(o) PROVE PluginInv'
  BY <1>6, PausingStep DEF Pause, Unpause
<1>7. CASE Clear
  BY <1>7, ClearStep
<1>8. CASE SetAllLoaded
  BY <1>8, SetAllLoadedStep
<1>9. ASSUME NEW h \in m.hooks, CallHandler(h) \/ RemoveHook(h) PROVE PluginInv'
  BY <1>9, CallHandlerStep, RemoveHookStep
<1>10. CASE HandlerReturns
  BY <1>10, HandlerReturnsStep
<1>11. CASE AddHook
  BY <1>11, AddHookStep
<1>12. CASE AddListener
  BY <1>12, AddListenerStep
<1>13. CASE LoadReturns
  BY <1>13, LoadReturnsStep
<1>14. CASE AllPluginsLoadedReturns
  BY <1>14, AllPluginsLoadedReturnsStep
<1>15. CASE EventReturns
  BY <1>15, EventReturnsStep
<1>16. CASE UnloadReturns
  BY <1>16, UnloadReturnsStep
<1>17. CASE PauseReturns
  BY <1>17, PauseReturnsStep
<1>18. CASE UNCHANGED vars
  BY <1>18 DEF vars, PluginInv
<1>. QED
  BY <1>1, <1>2, <1>3, <1>4, <1>5, <1>6, <1>7, <1>8, <1>9, <1>10, <1>11, <1>12, <1>13, <1>14, <1>15,
     <1>16, <1>17, <1>18 DEF Next

-----------------------------------------------------------------------------
(* What follows from it. *)
\* While nothing that the code does not survive is done (Permits = {}),
\* CPluginManager and the stack of its callers keep the inductive invariant, for all files, all outcomes
\* of a load and any number of plugins and frames.
THEOREM PluginsStayWell == PluginsBehave => (Spec => []PluginInv)
<1>. SUFFICES ASSUME PluginsBehave
              PROVE  Spec => []PluginInv
  OBVIOUS
<1>1. Init => PluginInv
  BY InitInv
<1>2. PluginInv /\ [Next]_vars => PluginInv'
  BY NextInv
<1>. QED
  BY <1>1, <1>2, PTL DEF Spec

\* CodeStaysMapped: ResolvePendingUnloads and UnloadPlugin never close a library
\* that a hook's handler is in or whose code is on the stack.
THEOREM CodeMapped == PluginsBehave => (Spec => []CodeStaysMapped)
<1>. SUFFICES ASSUME PluginsBehave
              PROVE  Spec => []CodeStaysMapped
  OBVIOUS
<1>1. PluginInv => CodeStaysMapped
  <2>. SUFFICES ASSUME PluginInv
                PROVE  CodeStaysMapped
    OBVIOUS
  <2>1. Managers(m) /\ LibsHeld(m, Waiting(m), Loading(stack)) /\ HooksServed(m, Waiting(m)) /\ StackOK(m, stack)
        /\ stack \in Seq(Frames)
    BY DEF PluginInv, ConfigOK, PluginsOK
  <2>2. \A o \in Held(m) : m.lib[m.pl[o].m_File].refs = 1
    BY <2>1 DEF LibsHeld
  <2>3. ASSUME NEW h \in Owned PROVE m.lib[h.file].refs > 0
    <3>1. \E o \in Held(m) : m.pl[o].m_File = h.file
      BY <2>1 DEF HooksServed, Owned
    <3>. QED
      BY <2>2, <3>1
  <2>4. ASSUME NEW k \in DOMAIN stack, stack[k].file # Metamod PROVE m.lib[stack[k].file].refs > 0
    <3>1. FrameOK(m, Waiting(m), stack[k])
      BY <2>1 DEF StackOK
    <3>2. \E o \in Held(m) : m.pl[o].m_File = stack[k].file
      BY <2>4, <3>1 DEF FrameOK
    <3>. QED
      BY <2>2, <3>2
  <2>. QED
    BY <2>3, <2>4 DEF CodeStaysMapped
<1>. QED
  BY <1>1, PluginsStayWell, PTL

\* LibrariesAccountedFor: each handle dlopen returned is held by one CPlugin that
\* runs, is being loaded, or waits for its only Unloader.
THEOREM LibrariesAccounted == PluginsBehave => (Spec => []LibrariesAccountedFor)
<1>. SUFFICES ASSUME PluginsBehave
              PROVE  Spec => []LibrariesAccountedFor
  OBVIOUS
<1>1. PluginInv => LibrariesAccountedFor
  <2>. SUFFICES ASSUME PluginInv
                PROVE  LibrariesAccountedFor
    OBVIOUS
  <2>1. Managers(m) /\ LibsHeld(m, Waiting(m), Loading(stack)) /\ PendingOK(m)
        /\ FilesApart(m, Waiting(m), Retried(stack))
    BY DEF PluginInv, ConfigOK, PluginsOK
  <2>2. ASSUME NEW f \in Files
        PROVE  m.lib[f].refs = Cardinality({o \in DOMAIN m.pl : m.pl[o].m_Lib /\ m.pl[o].m_File = f})
    <3>1. PICK X : X = {o \in DOMAIN m.pl : m.pl[o].m_Lib /\ m.pl[o].m_File = f}
      OBVIOUS
    <3>2. \A o \in X : m.lib[f].refs = 1
      BY <2>1, <3>1 DEF LibsHeld, Held
    <3>3. CASE X = {}
      <4>1. m.lib[f].refs = 0
        BY <2>1, <3>1, <3>3 DEF LibsHeld, Held
      <4>. QED
        BY <3>1, <3>3, <4>1, FS_EmptySet
    <3>4. CASE X # {}
      <4>1. PICK o \in X : TRUE
        BY <3>4
      <4>2. \A x, y \in X : x = y
        BY <2>1, <3>1 DEF FilesApart, Held
      <4>3. X = {o}
        BY <4>1, <4>2
      <4>4. Cardinality(X) = 1
        BY <4>3, FS_Singleton
      <4>. QED
        BY <3>1, <3>2, <4>1, <4>4
    <3>. QED
      BY <3>3, <3>4
  <2>3. ASSUME NEW k \in DOMAIN m.pending, NEW n \in DOMAIN m.pending
        PROVE  /\ m.pending[k].obj \in DOMAIN m.pl /\ m.pl[m.pending[k].obj].m_Lib
               /\ k # n => m.pending[k].obj # m.pending[n].obj
    <3>1. m.pending[k].obj \in Waiting(m)
      BY DEF Waiting
    <3>2. m.pending[k].obj \in Held(m)
      BY <2>1, <3>1 DEF LibsHeld
    <3>3. k # n => m.pending[k].obj # m.pending[n].obj
      BY <2>1 DEF PendingOK
    <3>. QED
      BY <3>2, <3>3 DEF Held
  <2>4. ASSUME NEW o \in DOMAIN m.pl, m.pl[o].m_Lib
        PROVE  \/ Unloading(o)
               \/ o \in Listed /\ ~Failed(m.pl[o].m_Status)
               \/ \E k \in DOMAIN stack : stack[k].kind = "Load" /\ stack[k].obj = o
    <3>1. o \in Held(m)
      BY <2>4 DEF Held
    <3>2. o \in Waiting(m) \/ (o \in On(m) /\ (o \in Loading(stack) \/ ~Failed(m.pl[o].m_Status)))
      BY <2>1, <3>1 DEF LibsHeld
    <3>3. o \in Waiting(m) => Unloading(o)
      BY DEF Waiting, Unloading
    <3>4. o \in Loading(stack) => \E k \in DOMAIN stack : stack[k].kind = "Load" /\ stack[k].obj = o
      BY DEF Loading
    <3>5. On(m) = Listed
      BY DEF On, Listed
    <3>. QED
      BY <3>2, <3>3, <3>4, <3>5
  <2>. QED
    BY <2>2, <2>3, <2>4 DEF LibrariesAccountedFor
<1>. QED
  BY <1>1, PluginsStayWell, PTL

\* IdsNameOnePlugin: FindById finds the plugin an id was given to, across Retry,
\* which hands an id on, and no hook is registered under the id of another's.
THEOREM IdsApartAlways == PluginsBehave => (Spec => []IdsNameOnePlugin)
<1>. SUFFICES ASSUME PluginsBehave
              PROVE  Spec => []IdsNameOnePlugin
  OBVIOUS
<1>1. PluginInv => IdsNameOnePlugin
  <2>. SUFFICES ASSUME PluginInv
                PROVE  IdsNameOnePlugin
    OBVIOUS
  <2>1. Managers(m) /\ HooksServed(m, Waiting(m)) /\ IdsApart(m)
    BY DEF PluginInv, ConfigOK, PluginsOK
  <2>2. On(m) = Listed
    BY DEF On, Listed
  <2>3. Listed \subseteq DOMAIN m.pl
    BY <2>1 DEF Managers, Listed
  <2>4. ASSUME NEW o \in Listed PROVE m.pl[o].m_Id < m.m_LastId /\ FindById(m, m.pl[o].m_Id) = o
    <3>1. FindById(m, m.pl[o].m_Id) = o
      BY <2>1, <2>2, FoundById
    <3>2. m.pl[o].m_Id < m.m_LastId
      BY <2>1, <2>2 DEF IdsApart
    <3>. QED
      BY <3>1, <3>2
  <2>5. ASSUME NEW h \in Owned PROVE \E o \in Listed : m.pl[o].m_Id = h.id /\ m.pl[o].m_File = h.file
    BY <2>1, <2>2 DEF HooksServed, Owned
  <2>. QED
    BY <2>3, <2>4, <2>5 DEF IdsNameOnePlugin
<1>. QED
  BY <1>1, PluginsStayWell, PTL

\* InterfaceStaysUp: UnloadInterface_MMS is not called in a library a plugin that
\* still runs was loaded from.
THEOREM InterfacesUp == PluginsBehave => (Spec => []InterfaceStaysUp)
<1>. SUFFICES ASSUME PluginsBehave
              PROVE  Spec => []InterfaceStaysUp
  OBVIOUS
<1>1. PluginInv => InterfaceStaysUp
  <2>. SUFFICES ASSUME PluginInv, NEW o \in DOMAIN m.pl, m.pl[o].m_Lib, ~Failed(m.pl[o].m_Status)
                PROVE  m.lib[m.pl[o].m_File].up
    BY DEF InterfaceStaysUp
  <2>1. LibsHeld(m, Waiting(m), Loading(stack))
    BY DEF PluginInv, ConfigOK, PluginsOK
  <2>2. o \in Held(m)
    BY DEF Held
  <2>. QED
    BY <2>1, <2>2 DEF LibsHeld
<1>. QED
  BY <1>1, PluginsStayWell, PTL

\* PausedWithItsHooks, and more: also while a plugin is busy its hooks are paused
\* if and only if it is.
THEOREM HooksPauseWithPlugins == PluginsBehave => (Spec => []PausedWithItsHooks)
<1>. SUFFICES ASSUME PluginsBehave
              PROVE  Spec => []PausedWithItsHooks
  OBVIOUS
<1>1. PluginInv => PausedWithItsHooks
  <2>. SUFFICES ASSUME PluginInv, NEW h \in Owned, NEW o \in Listed, m.pl[o].m_Id = h.id
                PROVE  h.paused <=> m.pl[o].m_Status = "Paused"
    BY DEF PausedWithItsHooks
  <2>1. HooksServed(m, Waiting(m)) /\ IdsApart(m)
    BY DEF PluginInv, ConfigOK, PluginsOK
  <2>2. PICK x \in On(m) : m.pl[x].m_Id = h.id /\ (h.paused <=> m.pl[x].m_Status = "Paused")
    BY <2>1 DEF HooksServed, Owned
  <2>3. x = o
    BY <2>1, <2>2 DEF IdsApart, On, Listed
  <2>. QED
    BY <2>2, <2>3
<1>. QED
  BY <1>1, PluginsStayWell, PTL

-----------------------------------------------------------------------------
(* Who was told that all plugins are loaded: a second invariant. *)
\* The objects a function under way is asking to pause or unpause, and the one
\* SetAllLoaded is telling.
Asked(fs)   == {fs[k].obj : k \in {j \in DOMAIN fs : fs[j].kind \in {"Pause", "Unpause"}}}
Telling(fs) == {fs[k].obj : k \in {j \in DOMAIN fs : fs[j].then.what = "setall"}}
OneTells(fs) == \A k, j \in DOMAIN fs : fs[k].then.what = "setall" /\ fs[j].then.what = "setall" => k = j

\* What comes after x on the list.
Later(s, x) == {s.m_Plugins[j] : j \in {i \in DOMAIN s.m_Plugins :
                                          \E a \in DOMAIN s.m_Plugins : a < i /\ s.m_Plugins[a] = x}}

\* Nobody is told twice or after a failure, a plugin was told before it was
\* paused, and what runs from the list has an interface to tell.
ToldWell(s) ==
    /\ \A o \in DOMAIN s.pl : s.pl[o].told > 0 => s.pl[o].told = 1 /\ ~Failed(s.pl[o].m_Status)
    /\ \A o \in DOMAIN s.pl : s.pl[o].m_Status = "Paused" => s.pl[o].told = 1
    /\ \A o \in On(s) : ~Failed(s.pl[o].m_Status) => s.pl[o].m_API

\* With L being loaded, A asked to pause or unpause and T being told: once
\* m_AllLoaded is set, a plugin that runs untold is in its Load, which will tell
\* it, or behind the one SetAllLoaded is telling.
ToldOK(s, L, A, T) ==
    /\ ToldWell(s)
    /\ ~s.m_AllLoaded => T = {} /\ \A o \in DOMAIN s.pl : s.pl[o].told = 0
    /\ \A o \in L \cap DOMAIN s.pl : s.pl[o].told = 0
    /\ \A o \in A \cap DOMAIN s.pl : s.pl[o].told = 1
    /\ T # {} => L = {}
    /\ \A x, y \in T : x = y
    /\ \A x \in T : \A y \in Later(s, x) : s.pl[y].told = 0
    /\ s.m_AllLoaded => \A o \in On(s) : s.pl[o].m_Status = "Running" /\ s.pl[o].told = 0 =>
                           o \in L \/ \E x \in T : o \in Later(s, x)

ToldFor(s, fs) == ToldOK(s, Loading(fs), Asked(fs), Telling(fs)) /\ OneTells(fs)
ToldInv == ToldFor(m, stack)

-----------------------------------------------------------------------------
(* Changes that tell nobody. *)
Shape(s) == IsRec(s) /\ s.m_Plugins \in Seq(Nat) /\ \A x \in DOMAIN s.pl : s.pl[x] \in CPlugins

Steady(s, t) ==
    /\ Sublist(t.m_Plugins, s.m_Plugins) /\ On(t) \subseteq On(s)
    /\ t.m_AllLoaded = s.m_AllLoaded /\ t.made = s.made
    /\ \A x \in DOMAIN t.pl :
         /\ x \in DOMAIN s.pl /\ t.pl[x].told = s.pl[x].told /\ t.pl[x].m_Status = s.pl[x].m_Status
         /\ x \in On(t) => Failed(s.pl[x].m_Status) \/ t.pl[x].m_API = s.pl[x].m_API

Steps(s, t) == Shape(t) /\ Steady(s, t)

\* Nothing changes: nobody is told.
LEMMA SteadyItself ==
    ASSUME NEW s
    PROVE  Steady(s, s)
BY SublistOfItself DEF Steady

\* Two changes that tell nobody tell nobody together.
LEMMA SteadyTwice ==
    ASSUME NEW s, NEW t, NEW u, Steady(s, t), Steady(t, u)
    PROVE  Steady(s, u)
<1>1. Sublist(u.m_Plugins, s.m_Plugins)
  BY SublistTwice DEF Steady
<1>. QED
  BY <1>1 DEF Steady

\* A manager has the fields these lemmas are about.
LEMMA ShapeOfManager ==
    ASSUME NEW s, Managers(s)
    PROVE  Shape(s)
BY DEF Managers, Shape

\* Fields that plugins' lists and objects do not depend on.
LEMMA OthersStep ==
    ASSUME NEW s, Shape(s), NEW t, IsRec(t), t.pl = s.pl, t.m_Plugins = s.m_Plugins,
           t.m_AllLoaded = s.m_AllLoaded, t.made = s.made
    PROVE  Steps(s, t)
<1>1. On(t) = On(s)
  BY DEF On
<1>2. Sublist(t.m_Plugins, s.m_Plugins)
  BY SublistOfItself
<1>. QED
  BY <1>1, <1>2 DEF Steps, Steady, Shape

Alike(q, p) == /\ p \in CPlugins /\ p.told = q.told /\ p.m_Status = q.m_Status
               /\ Failed(q.m_Status) \/ p.m_API = q.m_API

MayBecome(s, o, p) == o \in DOMAIN s.pl => Alike(s.pl[o], p)

\* A plugin changes, but not what it was told, its status or its interface.
LEMMA ObjectSteps ==
    ASSUME NEW s, Shape(s), NEW o, NEW p, MayBecome(s, o, p),
           NEW t, IsRec(t), t.pl = [s.pl EXCEPT ![o] = p], t.m_Plugins = s.m_Plugins,
           t.m_AllLoaded = s.m_AllLoaded, t.made = s.made
    PROVE  Steps(s, t)
<1>1. On(t) = On(s)
  BY DEF On
<1>2. Sublist(t.m_Plugins, s.m_Plugins)
  BY SublistOfItself
<1>3. /\ DOMAIN t.pl = DOMAIN s.pl
      /\ \A x \in DOMAIN s.pl : x # o => t.pl[x] = s.pl[x]
      /\ o \in DOMAIN s.pl => t.pl[o] = p
  OBVIOUS
<1>4. ASSUME NEW x \in DOMAIN s.pl
      PROVE  /\ t.pl[x] \in CPlugins /\ t.pl[x].told = s.pl[x].told /\ t.pl[x].m_Status = s.pl[x].m_Status
             /\ Failed(s.pl[x].m_Status) \/ t.pl[x].m_API = s.pl[x].m_API
  <2>1. CASE x = o
    BY <1>3, <2>1 DEF Alike, MayBecome
  <2>2. CASE x # o
    BY <1>3, <2>2 DEF Shape
  <2>. QED
    BY <2>1, <2>2
<1>5. Shape(t)
  BY <1>3, <1>4 DEF Shape
<1>6. Steady(s, t)
  BY <1>1, <1>2, <1>3, <1>4 DEF Steady
<1>. QED
  BY <1>5, <1>6 DEF Steps

Erased(s, M) == [s EXCEPT !.m_Plugins = Without(@, M)]

\* Plugins are erased from m_Plugins.
LEMMA ErasedSteps ==
    ASSUME NEW s, Shape(s), NEW M, NEW t, t = Erased(s, M)
    PROVE  Steps(s, t) /\ t.pl = s.pl
<1>1. PICK l, q : q = s.m_Plugins /\ l = Without(q, M)
  OBVIOUS
<1>2. t = Rec(s.pl, s.made, l, s.m_LastId, s.m_AllLoaded, s.hooks, s.lib, s.pending)
  BY <1>1, WithList DEF Shape, Erased
<1>3. IsRec(t) /\ t.pl = s.pl /\ t.m_Plugins = l /\ t.m_AllLoaded = s.m_AllLoaded /\ t.made = s.made
  BY <1>2 DEF Rec, IsRec
<1>4. q \in Seq(Nat)
  BY <1>1 DEF Shape
<1>a. l \in Seq(Nat)
  BY <1>1, <1>4, WithoutIsSublist
<1>b. Elements(l) = Elements(q) \ M
  BY <1>1, <1>4, WithoutIsSublist
<1>c. \A i, j \in DOMAIN l : i < j => \E a, b \in DOMAIN q : a < b /\ l[i] = q[a] /\ l[j] = q[b]
  <2>1. \A i, j \in DOMAIN Without(q, M) : i < j =>
           \E a, b \in DOMAIN q : a < b /\ Without(q, M)[i] = q[a] /\ Without(q, M)[j] = q[b]
    BY <1>4, WithoutIsSublist
  <2>. QED
    BY <1>1, <2>1
<1>5. /\ l \in Seq(Nat) /\ Elements(l) = Elements(q) \ M
      /\ \A i, j \in DOMAIN l : i < j => \E a, b \in DOMAIN q : a < b /\ l[i] = q[a] /\ l[j] = q[b]
  BY <1>a, <1>b, <1>c
<1>6. Sublist(t.m_Plugins, s.m_Plugins) /\ On(t) \subseteq On(s)
  BY <1>1, <1>3, <1>5 DEF Sublist, On
<1>. QED
  BY <1>3, <1>5, <1>6 DEF Steps, Steady, Shape

\* A CPlugin is deleted.
LEMMA DeletedSteps ==
    ASSUME NEW s, Shape(s), NEW o, NEW t, t = Delete(s, o)
    PROVE  Steps(s, t)
<1>1. PICK d : d = [x \in DOMAIN s.pl \ {o} |-> s.pl[x]]
  OBVIOUS
<1>2. t = [s EXCEPT !.pl = d]
  BY <1>1 DEF Delete
<1>3. t = Rec(d, s.made, s.m_Plugins, s.m_LastId, s.m_AllLoaded, s.hooks, s.lib, s.pending)
  BY <1>2, WithPl DEF Shape
<1>4. IsRec(t) /\ t.pl = d /\ t.m_Plugins = s.m_Plugins /\ t.m_AllLoaded = s.m_AllLoaded /\ t.made = s.made
  BY <1>3, RecFields
<1>5. \A x \in DOMAIN t.pl : x \in DOMAIN s.pl /\ t.pl[x] = s.pl[x]
  BY <1>1, <1>4
<1>6. Sublist(t.m_Plugins, s.m_Plugins) /\ On(t) \subseteq On(s)
  BY <1>4, SublistOfItself DEF On
<1>. QED
  BY <1>4, <1>5, <1>6 DEF Steps, Steady, Shape

\* Two such changes, one after the other.
LEMMA StepsTwice ==
    ASSUME NEW s, NEW t, NEW u, Steps(s, t), Steps(t, u)
    PROVE  Steps(s, u)
BY SteadyTwice DEF Steps

\* An Unloader that keeps the object is one of a plugin that failed.
LEMMA ReadySteps ==
    ASSUME NEW s, Shape(s), NEW u,
           u.obj \in DOMAIN s.pl => u.destroy = TRUE \/ (u.destroy = FALSE /\ Failed(s.pl[u.obj].m_Status)),
           NEW t, t = ReadyToUnload(s, u)
    PROVE  Steps(s, t)
<1>1. CASE u.obj \notin DOMAIN s.pl
  <2>1. t = s
    BY <1>1 DEF ReadyToUnload
  <2>. QED
    BY <2>1, SteadyItself DEF Steps
<1>2. CASE u.obj \in DOMAIN s.pl
  <2>1. PICK lib : lib = LibAfter(s, u)
    OBVIOUS
  <2>2. PICK c : c = [s EXCEPT !.lib = lib]
    OBVIOUS
  <2>3. c = Rec(s.pl, s.made, s.m_Plugins, s.m_LastId, s.m_AllLoaded, s.hooks, lib, s.pending)
    BY <2>2, WithLib DEF Shape
  <2>4. IsRec(c) /\ c.pl = s.pl /\ c.m_Plugins = s.m_Plugins /\ c.m_AllLoaded = s.m_AllLoaded /\ c.made = s.made
    BY <2>3, RecFields
  <2>5. Steps(s, c)
    BY <2>4, OthersStep
  <2>6. Shape(c)
    BY <2>5 DEF Steps
  <2>7. t = IF u.destroy THEN Delete(c, u.obj)
            ELSE [c EXCEPT !.pl[u.obj] = [@ EXCEPT !.m_Lib = FALSE, !.m_API = FALSE]]
    BY <1>2, <2>1, <2>2 DEF ReadyToUnload, ClosedLib, LibAfter
  <2>8. CASE u.destroy = TRUE
    <3>1. t = Delete(c, u.obj)
      BY <2>7, <2>8
    <3>2. Steps(c, t)
      BY <2>6, <3>1, DeletedSteps
    <3>. QED
      BY <2>5, <3>2, StepsTwice
  <2>9. CASE u.destroy = FALSE /\ Failed(s.pl[u.obj].m_Status)
    <3>1. PICK o, p : o = u.obj /\ p = [c.pl[o] EXCEPT !.m_Lib = FALSE, !.m_API = FALSE]
      OBVIOUS
    <3>2. PICK pl : pl = [c.pl EXCEPT ![o] = p]
      OBVIOUS
    <3>3. t = [c EXCEPT !.pl = pl]
      BY <2>7, <2>9, <3>1, <3>2
    <3>4. t = Rec(pl, c.made, c.m_Plugins, c.m_LastId, c.m_AllLoaded, c.hooks, c.lib, c.pending)
      BY <2>4, <3>3, WithPl
    <3>5. IsRec(t) /\ t.pl = pl /\ t.m_Plugins = c.m_Plugins /\ t.m_AllLoaded = c.m_AllLoaded /\ t.made = c.made
      BY <3>4, RecFields
    <3>6. Alike(c.pl[o], p)
      <4>1. c.pl[o] \in CPlugins /\ Failed(c.pl[o].m_Status)
        BY <1>2, <2>4, <2>9, <3>1 DEF Shape
      <4>. QED
        BY <3>1, <4>1 DEF Alike, CPlugins
    <3>7. Steps(c, t)
      BY <2>6, <3>2, <3>5, <3>6, ObjectSteps DEF MayBecome
    <3>. QED
      BY <2>5, <3>7, StepsTwice
  <2>. QED
    BY <1>2, <2>8, <2>9
<1>. QED
  BY <1>1, <1>2

\* UnloadPlugin of SourceHook, with the Unloader run or queued.
LEMMA UnloadPluginSteps ==
    ASSUME NEW s, Shape(s), NEW o, NEW destroy, NEW loop,
           destroy = TRUE \/ (destroy = FALSE /\ (o \in DOMAIN s.pl => Failed(s.pl[o].m_Status))),
           NEW t, t = UnloadPlugin(s, o, destroy, loop)
    PROVE  Steps(s, t)
<1>1. PICK u : u = [obj |-> o, destroy |-> destroy, ripe |-> FALSE]
  OBVIOUS
<1>2. u.obj = o /\ u.destroy = destroy
  BY <1>1
<1>3. PICK c, hooks : hooks = {h \in s.hooks : h.id # s.pl[o].m_Id} /\ c = [s EXCEPT !.hooks = hooks]
  OBVIOUS
<1>4. c = Rec(s.pl, s.made, s.m_Plugins, s.m_LastId, s.m_AllLoaded, hooks, s.lib, s.pending)
  BY <1>3, WithHooks DEF Shape
<1>5. IsRec(c) /\ c.pl = s.pl /\ c.m_Plugins = s.m_Plugins /\ c.m_AllLoaded = s.m_AllLoaded /\ c.made = s.made
  BY <1>4 DEF Rec, IsRec
<1>6. Steps(s, c)
  BY <1>5, OthersStep
<1>7. Shape(c)
  BY <1>6 DEF Steps
<1>8. t = IF loop THEN [c EXCEPT !.pending = Append(@, u)] ELSE ReadyToUnload(c, u)
  BY <1>1, <1>3 DEF UnloadPlugin
<1>9. CASE loop
  <2>1. PICK q : q = Append(c.pending, u)
    OBVIOUS
  <2>2. t = [c EXCEPT !.pending = q]
    BY <1>8, <1>9, <2>1
  <2>3. t = Rec(c.pl, c.made, c.m_Plugins, c.m_LastId, c.m_AllLoaded, c.hooks, c.lib, q)
    BY <1>5, <2>2, WithPending
  <2>4. IsRec(t) /\ t.pl = c.pl /\ t.m_Plugins = c.m_Plugins /\ t.m_AllLoaded = c.m_AllLoaded /\ t.made = c.made
    BY <2>3, RecFields
  <2>5. Steps(c, t)
    BY <1>7, <2>4, OthersStep
  <2>. QED
    BY <1>6, <2>5, StepsTwice
<1>10. CASE ~loop
  <2>1. t = ReadyToUnload(c, u)
    BY <1>8, <1>10
  <2>2. Steps(c, t)
    BY <1>2, <1>5, <1>7, <2>1, ReadySteps
  <2>. QED
    BY <1>6, <2>2, StepsTwice
<1>. QED
  BY <1>9, <1>10

Listening(s, o, b) == [s EXCEPT !.pl[o].m_Events = b]

\* A plugin's listeners are removed, or its first one added.
LEMMA QuietSteps ==
    ASSUME NEW s, Shape(s), NEW o, NEW b \in BOOLEAN, NEW t, t = Listening(s, o, b)
    PROVE  Steps(s, t)
<1>1. PICK p : p = [s.pl[o] EXCEPT !.m_Events = b]
  OBVIOUS
<1>2. PICK pl : pl = [s.pl EXCEPT ![o] = p]
  OBVIOUS
<1>3. t = [s EXCEPT !.pl = pl]
  BY <1>1, <1>2 DEF Listening
<1>4. t = Rec(pl, s.made, s.m_Plugins, s.m_LastId, s.m_AllLoaded, s.hooks, s.lib, s.pending)
  BY <1>3, WithPl DEF Shape
<1>5. IsRec(t) /\ t.pl = pl /\ t.m_Plugins = s.m_Plugins /\ t.m_AllLoaded = s.m_AllLoaded /\ t.made = s.made
  BY <1>4 DEF Rec, IsRec
<1>6. MayBecome(s, o, p)
  BY <1>1 DEF Shape, Alike, MayBecome, CPlugins
<1>7. IsRec(t) /\ t.pl = [s.pl EXCEPT ![o] = p]
  BY <1>2, <1>5
<1>8. t.m_Plugins = s.m_Plugins /\ t.m_AllLoaded = s.m_AllLoaded /\ t.made = s.made
  BY <1>5
<1>. QED
  BY <1>6, <1>7, <1>8, ObjectSteps

\* The library of a load that failed is given back.
LEMMA FailedUnloadedSteps ==
    ASSUME NEW s, Shape(s), NEW o, NEW loop, NEW t, t = FailedUnloaded(s, o, loop)
    PROVE  Steps(s, t)
<1>1. CASE s.pl[o].m_Lib /\ Failed(s.pl[o].m_Status)
  <2>1. PICK v, b, d : b = FALSE /\ v = Listening(s, o, b) /\ d = FALSE
    OBVIOUS
  <2>2. Steps(s, v)
    BY <2>1, QuietSteps
  <2>3. t = UnloadPlugin(v, o, d, loop)
    BY <1>1, <2>1 DEF FailedUnloaded, Listening
  <2>4. Shape(v) /\ (o \in DOMAIN v.pl => Failed(v.pl[o].m_Status))
    BY <1>1, <2>2 DEF Steps, Steady
  <2>5. Steps(v, t)
    BY <2>1, <2>3, <2>4, UnloadPluginSteps
  <2>. QED
    BY <2>2, <2>5, StepsTwice
<1>2. CASE ~(s.pl[o].m_Lib /\ Failed(s.pl[o].m_Status))
  <2>1. t = s
    BY <1>2 DEF FailedUnloaded
  <2>. QED
    BY <2>1, SteadyItself DEF Steps
<1>. QED
  BY <1>1, <1>2

\* A plugin that agreed to its unload is erased and unloaded.
LEMMA RemovedSteps ==
    ASSUME NEW s, Shape(s), NEW o, NEW loop, NEW t, t = Removed(s, o, loop)
    PROVE  Steps(s, t)
<1>1. PICK v, b, w, d : /\ b = FALSE /\ v = Listening(s, o, b)
                        /\ w = EraseSameId(v, o) /\ d = TRUE
  OBVIOUS
<1>2. Steps(s, v)
  BY <1>1, QuietSteps
<1>3. Steps(v, w)
  <2>1. PICK M : M = {FindById(v, v.pl[o].m_Id)}
    OBVIOUS
  <2>2. w = Erased(v, M)
    BY <1>1, <2>1 DEF EraseSameId, Erased
  <2>. QED
    BY <1>2, <2>2, ErasedSteps DEF Steps
<1>4. t = UnloadPlugin(w, o, d, loop)
  BY <1>1 DEF Removed, Listening
<1>5. Steps(w, t)
  BY <1>1, <1>3, <1>4, UnloadPluginSteps DEF Steps
<1>. QED
  BY <1>2, <1>3, <1>5, StepsTwice

\* A plugin without a library is erased and deleted.
LEMMA GoneSteps ==
    ASSUME NEW s, Shape(s), NEW o, NEW t, t = Delete(EraseSameId(s, o), o)
    PROVE  Steps(s, t)
<1>1. PICK w, M : M = {FindById(s, s.pl[o].m_Id)} /\ w = EraseSameId(s, o)
  OBVIOUS
<1>2. w = Erased(s, M)
  BY <1>1 DEF EraseSameId, Erased
<1>3. Steps(s, w)
  BY <1>2, ErasedSteps
<1>4. Steps(w, t)
  BY <1>1, <1>3, DeletedSteps DEF Steps
<1>. QED
  BY <1>3, <1>4, StepsTwice

\* Retry gives the new plugin the old one's id.
LEMMA RetryDoneSteps ==
    ASSUME NEW s, Shape(s), NEW new, NEW id \in Nat, NEW t, t = RetryDone(s, new, id)
    PROVE  Steps(s, t)
<1>1. PICK last : last = s.m_LastId - 1
  OBVIOUS
<1>2. CASE new = Nobody
  <2>1. t = [s EXCEPT !.m_LastId = last, !.pl = s.pl]
    BY <1>1, <1>2 DEF RetryDone
  <2>2. t = Rec(s.pl, s.made, s.m_Plugins, last, s.m_AllLoaded, s.hooks, s.lib, s.pending)
    BY <2>1, WithLastId DEF Shape
  <2>3. IsRec(t) /\ t.pl = s.pl /\ t.m_Plugins = s.m_Plugins /\ t.m_AllLoaded = s.m_AllLoaded /\ t.made = s.made
    BY <2>2, RecFields
  <2>. QED
    BY <2>3, OthersStep
<1>3. CASE new # Nobody
  <2>1. PICK p : p = [s.pl[new] EXCEPT !.m_Id = id]
    OBVIOUS
  <2>2. PICK pl : pl = [s.pl EXCEPT ![new] = p]
    OBVIOUS
  <2>3. t = [s EXCEPT !.m_LastId = last, !.pl = pl]
    BY <1>1, <1>3, <2>1, <2>2 DEF RetryDone
  <2>4. t = Rec(pl, s.made, s.m_Plugins, last, s.m_AllLoaded, s.hooks, s.lib, s.pending)
    BY <2>3, WithLastId DEF Shape
  <2>5. IsRec(t) /\ t.pl = pl /\ t.m_Plugins = s.m_Plugins /\ t.m_AllLoaded = s.m_AllLoaded /\ t.made = s.made
    BY <2>4, RecFields
  <2>6. MayBecome(s, new, p)
    BY <2>1 DEF Shape, Alike, MayBecome, CPlugins
  <2>7. t.pl = [s.pl EXCEPT ![new] = p]
    BY <2>2, <2>5
  <2>. QED
    BY <2>5, <2>6, <2>7, ObjectSteps
<1>. QED
  BY <1>2, <1>3

-----------------------------------------------------------------------------
(* Calls that tell nobody. *)
Calm(fr) == fr.kind \notin {"Load", "Pause", "Unpause"} /\ fr.then.what # "setall"

GoesOn(s, c) == /\ Steps(s, c.m)
                /\ c.call = <<>> \/ \E fr : c.call = <<fr>> /\ Calm(fr)

\* UnloadAll erases those without code before it calls anyone.
LEMMA GoneQuietly ==
    ASSUME NEW s, Shape(s), NEW N \in Nat, NEW f, f = [n \in 0..N |-> GoneFrom(s, f, n)], NEW K \in 0..N
    PROVE  Steps(s, f[K])
<1>. DEFINE Good(n) == Steps(s, f[n])
            Bad == {n \in 0..N : ~Good(n)}
<1>1. Good(0)
  <2>1. f[0] = s
    BY DEF GoneFrom
  <2>. QED
    BY <2>1, SteadyItself DEF Steps
<1>2. ASSUME NEW n \in 1..N, Good(n - 1)
      PROVE  Good(n)
  <2>1. PICK o, b, c : o = s.m_Plugins[n] /\ b = f[n - 1] /\ c = f[n]
    OBVIOUS
  <2>2. n \in 0..N /\ n # 0
    OBVIOUS
  <2>3. c = Delete(EraseSameId(b, o), o)
    BY <2>1, <2>2 DEF GoneFrom
  <2>4. Steps(s, b) /\ Shape(b)
    BY <1>2, <2>1 DEF Steps
  <2>5. Steps(b, c)
    BY <2>3, <2>4, GoneSteps
  <2>. QED
    BY <2>1, <2>4, <2>5, StepsTwice
<1>. HIDE DEF Good
<1>3. Bad = {}
  <2>1. SUFFICES ASSUME Bad # {}
                 PROVE  FALSE
    OBVIOUS
  <2>2. PICK n \in Bad : \A k \in Bad : n <= k
    <3>1. Bad \subseteq Nat
      OBVIOUS
    <3>. HIDE DEF Bad
    <3>. QED
      BY <2>1, <3>1, LeastNatural
  <2>3. n # 0
    BY <1>1, <2>2
  <2>4. n - 1 \in 0..N /\ n \in 1..N
    BY <2>2, <2>3
  <2>5. Good(n - 1)
    BY <2>2, <2>4
  <2>. QED
    BY <1>2, <2>2, <2>4, <2>5
<1>4. Good(K)
  BY <1>3
<1>. QED
  BY <1>4 DEF Good

\* _Unload calls Unload, or goes on without it.
LEMMA UnloadCalm ==
    ASSUME NEW s, Shape(s), NEW o, NEW then, then.what # "setall", NEW c, c = _Unload(s, o, then)
    PROVE  GoesOn(s, c)
<1>1. CASE HasCode(s.pl[o])
  <2>1. PICK fr : fr = Frame("Unload", o, s.pl[o].m_File, then)
    OBVIOUS
  <2>2. c.m = s /\ c.call = <<fr>>
    <3>1. c = Config(s, <<fr>>)
      BY <1>1, <2>1 DEF _Unload
    <3>. QED
      BY <3>1, ConfigFields
  <2>3. Calm(fr)
    BY <2>1 DEF Calm, Frame
  <2>. QED
    BY <2>2, <2>3, SteadyItself DEF GoesOn, Steps
<1>2. CASE ~HasCode(s.pl[o])
  <2>1. PICK t : t = Delete(EraseSameId(s, o), o)
    OBVIOUS
  <2>2. c.m = t /\ c.call = <<>>
    <3>1. c = Config(t, <<>>)
      BY <1>2, <2>1 DEF _Unload
    <3>. QED
      BY <3>1, ConfigFields
  <2>3. Steps(s, t)
    BY <2>1, GoneSteps
  <2>. QED
    BY <2>2, <2>3 DEF GoesOn
<1>. QED
  BY <1>1, <1>2

\* ITER_PLEVENT calls a listener.
LEMMA EventCalm ==
    ASSUME NEW s, Shape(s), NEW k, NEW about, NEW id, NEW c, c = PlEvent(s, k, about, id)
    PROVE  GoesOn(s, c)
<1>1. PICK o : o = FirstFrom(s, k, {x \in DOMAIN s.pl : s.pl[x].m_Id # id /\ s.pl[x].m_Events})
  OBVIOUS
<1>2. PICK fr : fr = Frame("event", o, s.pl[o].m_File, Then("event", about, id))
  OBVIOUS
<1>3. c = Config(s, IF o = Nobody THEN <<>> ELSE <<fr>>)
  BY <1>1, <1>2 DEF PlEvent
<1>4. c.m = s /\ (c.call = <<>> \/ c.call = <<fr>>)
  <2>1. PICK e : e = IF o = Nobody THEN <<>> ELSE <<fr>>
    OBVIOUS
  <2>2. c.m = s /\ c.call = e
    BY <1>3, <2>1, ConfigFields
  <2>. QED
    BY <2>1, <2>2
<1>5. Calm(fr)
  BY <1>2 DEF Calm, Frame, Then
<1>. QED
  BY <1>4, <1>5, SteadyItself DEF GoesOn, Steps

\* UnloadAll calls the first Unload.
LEMMA UnloadAllCalm ==
    ASSUME NEW s, Shape(s), NEW c, c = UnloadAll(s)
    PROVE  GoesOn(s, c)
<1>. DEFINE S == {x \in DOMAIN s.pl : HasCode(s.pl[x])}
            K == Len(s.m_Plugins)
<1>1. s.m_Plugins \in Seq(Nat) /\ K \in Nat /\ DOMAIN s.m_Plugins = 1..K
  BY DEF Shape
<1>2. PICK o : o = FirstFrom(s, 1, S)
  OBVIOUS
<1>3. PICK f : /\ f = [n \in 0..K |-> GoneFrom(s, f, n)]
               /\ c = IF o = Nobody THEN Config(f[K], <<>>)
                      ELSE _Unload(f[Position(s, o) - 1], o, Then("clear", Nobody, 0))
  <2>. DEFINE gone == CHOOSE f : f = [n \in 0..K |-> GoneFrom(s, f, n)]
  <2>1. c = IF o = Nobody THEN Config(gone[K], <<>>)
            ELSE _Unload(gone[Position(s, o) - 1], o, Then("clear", Nobody, 0))
    BY <1>2 DEF UnloadAll, GoneFrom
  <2>2. gone = [n \in 0..K |-> GoneFrom(s, gone, n)]
    BY <1>1, GoneExists, Zenon
  <2>. QED
    BY <2>1, <2>2
<1>4. \A n \in 0..K : Steps(s, f[n])
  BY <1>1, <1>3, GoneQuietly
<1>5. CASE o = Nobody
  <2>1. PICK t : t = f[K]
    OBVIOUS
  <2>2. Steps(s, t)
    BY <1>1, <1>4, <2>1
  <2>3. c.m = t /\ c.call = <<>>
    <3>1. c = Config(t, <<>>)
      BY <1>3, <1>5, <2>1
    <3>. QED
      BY <3>1, ConfigFields
  <2>. QED
    BY <2>2, <2>3 DEF GoesOn
<1>6. CASE o # Nobody
  <2>1. PICK i \in DOMAIN s.m_Plugins : o = s.m_Plugins[i]
    <3>. HIDE DEF S
    <3>. QED
      BY <1>1, <1>2, <1>6, FirstFromFinds
  <2>2. PICK n : n = Position(s, o)
    OBVIOUS
  <2>3. n \in DOMAIN s.m_Plugins
    BY <2>1, <2>2 DEF Position
  <2>4. n - 1 \in 0..K
    BY <1>1, <2>3
  <2>5. PICK t, then : t = f[n - 1] /\ then = Then("clear", Nobody, 0)
    OBVIOUS
  <2>6. Steps(s, t) /\ Shape(t)
    BY <1>4, <2>4, <2>5 DEF Steps
  <2>7. c = _Unload(t, o, then) /\ then.what # "setall"
    BY <1>3, <1>6, <2>2, <2>5 DEF Then
  <2>8. GoesOn(t, c)
    BY <2>6, <2>7, UnloadCalm
  <2>. QED
    BY <2>6, <2>8, StepsTwice DEF GoesOn
<1>. QED
  BY <1>5, <1>6

OfUnload(then) == then.what \in {"unload", "force", "clear", "retry old", "retry new"} /\ then.id \in Nat

\* After an unload the functions that asked for it go on.
LEMMA AfterUnloadCalm ==
    ASSUME NEW s, Shape(s), NEW then, OfUnload(then), NEW c, c = AfterUnload(s, then)
    PROVE  GoesOn(s, c)
<1>1. CASE then.what \in {"unload", "force"}
  <2>1. PICK k, about, id : k = 1 /\ about = Nobody /\ id = then.id
    OBVIOUS
  <2>2. c = PlEvent(s, k, about, id)
    BY <1>1, <2>1 DEF AfterUnload
  <2>. QED
    BY <2>2, EventCalm
<1>2. CASE then.what = "clear"
  <2>1. c = UnloadAll(s)
    BY <1>2 DEF AfterUnload
  <2>. QED
    BY <2>1, UnloadAllCalm
<1>3. CASE then.what \in {"retry old", "retry new"}
  <2>1. PICK new, id : /\ new = IF then.what = "retry old" THEN then.obj ELSE Nobody
                       /\ id = IF then.what = "retry old" THEN then.id ELSE 0
    OBVIOUS
  <2>2. PICK t : t = RetryDone(s, new, id)
    OBVIOUS
  <2>3. c = Config(t, <<>>)
    BY <1>3, <2>1, <2>2 DEF AfterUnload
  <2>4. c.m = t /\ c.call = <<>>
    BY <2>3, ConfigFields
  <2>5. id \in Nat
    BY <2>1 DEF OfUnload
  <2>6. Steps(s, t)
    BY <2>2, <2>5, RetryDoneSteps
  <2>. QED
    BY <2>4, <2>6 DEF GoesOn
<1>. QED
  BY <1>1, <1>2, <1>3 DEF OfUnload

\* Unload by id.
LEMMA UnloadedCalm ==
    ASSUME NEW s, Shape(s), NEW o, NEW then, OfUnload(then), NEW c, c = Unloaded(s, o, then)
    PROVE  GoesOn(s, c)
<1>1. PICK d : d = _Unload(s, o, then)
  OBVIOUS
<1>2. GoesOn(s, d)
  BY <1>1, UnloadCalm DEF OfUnload
<1>3. c = IF d.call = <<>> THEN AfterUnload(d.m, then) ELSE d
  BY <1>1 DEF Unloaded
<1>4. CASE d.call = <<>>
  <2>1. PICK t : t = d.m
    OBVIOUS
  <2>2. Steps(s, t) /\ Shape(t)
    BY <1>2, <2>1 DEF GoesOn, Steps
  <2>3. c = AfterUnload(t, then)
    BY <1>3, <1>4, <2>1
  <2>4. GoesOn(t, c)
    BY <2>2, <2>3, AfterUnloadCalm
  <2>. QED
    BY <2>2, <2>4, StepsTwice DEF GoesOn
<1>5. CASE d.call # <<>>
  BY <1>2, <1>3, <1>5
<1>. QED
  BY <1>4, <1>5

\* After a load ITER_PLEVENT, or the rest of Retry.
LEMMA AfterLoadCalm ==
    ASSUME NEW s, Shape(s), NEW o, NEW then, then.what \in {"load", "retry"}, then.id \in Nat, NEW loop,
           NEW c, c = AfterLoad(s, o, then, loop)
    PROVE  GoesOn(s, c)
<1>1. PICK t : t = FailedUnloaded(s, o, loop)
  OBVIOUS
<1>2. Steps(s, t) /\ Shape(t)
  BY <1>1, FailedUnloadedSteps DEF Steps
<1>3. GoesOn(t, c)
  <2>1. CASE then.what = "load"
    <3>1. PICK k, id : k = 1 /\ id = t.pl[o].m_Id
      OBVIOUS
    <3>2. c = PlEvent(t, k, o, id)
      BY <1>1, <2>1, <3>1 DEF AfterLoad
    <3>. QED
      BY <1>2, <3>2, EventCalm
  <2>2. CASE then.what = "retry" /\ Failed(t.pl[o].m_Status)
    <3>1. PICK d : d = Then("retry new", Nobody, 0)
      OBVIOUS
    <3>2. OfUnload(d)
      BY <3>1 DEF Then, OfUnload
    <3>3. c = Unloaded(t, o, d)
      BY <1>1, <2>2, <3>1 DEF AfterLoad
    <3>. QED
      BY <1>2, <3>2, <3>3, UnloadedCalm
  <2>3. CASE then.what = "retry" /\ ~Failed(t.pl[o].m_Status)
    <3>1. PICK d, old : old = then.obj /\ d = Then("retry old", o, then.id)
      OBVIOUS
    <3>2. OfUnload(d)
      BY <3>1 DEF Then, OfUnload
    <3>3. c = Unloaded(t, old, d)
      BY <1>1, <2>3, <3>1 DEF AfterLoad
    <3>. QED
      BY <1>2, <3>2, <3>3, UnloadedCalm
  <2>. QED
    BY <2>1, <2>2, <2>3
<1>. QED
  BY <1>2, <1>3, StepsTwice DEF GoesOn

\* What holds up to here goes on to hold.
LEMMA LaterKept ==
    ASSUME NEW s, s.m_Plugins \in Seq(Nat), Once(s), NEW t, t.m_Plugins \in Seq(Nat),
           Sublist(t.m_Plugins, s.m_Plugins), NEW x \in On(t)
    PROVE  /\ Later(t, x) \subseteq Later(s, x)
           /\ On(t) \cap Later(s, x) \subseteq Later(t, x)
<1>1. PICK l, q : l = t.m_Plugins /\ q = s.m_Plugins
  OBVIOUS
<1>2. /\ DOMAIN l = 1..Len(l) /\ DOMAIN q = 1..Len(q) /\ Len(l) \in Nat /\ Len(q) \in Nat
      /\ \A i, j \in DOMAIN q : q[i] = q[j] => i = j
      /\ \A i, j \in DOMAIN l : i < j => \E a, b \in DOMAIN q : a < b /\ l[i] = q[a] /\ l[j] = q[b]
  BY <1>1 DEF Once, Sublist
<1>3. ASSUME NEW y \in Later(t, x)
      PROVE  y \in Later(s, x)
  <2>1. PICK i, j \in DOMAIN l : i < j /\ l[i] = x /\ l[j] = y
    BY <1>1, <1>3 DEF Later
  <2>2. PICK a, b \in DOMAIN q : a < b /\ l[i] = q[a] /\ l[j] = q[b]
    BY <1>2, <2>1
  <2>. QED
    BY <1>1, <2>1, <2>2 DEF Later
<1>4. ASSUME NEW y \in On(t), y \in Later(s, x)
      PROVE  y \in Later(t, x)
  <2>1. PICK a, b \in DOMAIN q : a < b /\ q[a] = x /\ q[b] = y
    BY <1>1, <1>4 DEF Later
  <2>2. PICK i, j \in DOMAIN l : l[i] = x /\ l[j] = y
    BY <1>1, <1>4 DEF On, Elements
  <2>3. CASE i < j
    BY <1>1, <2>2, <2>3 DEF Later
  <2>4. CASE i = j
    BY <1>2, <2>1, <2>2, <2>4
  <2>5. CASE j < i
    <3>1. PICK d, e \in DOMAIN q : d < e /\ l[j] = q[d] /\ l[i] = q[e]
      BY <1>2, <2>2, <2>5
    <3>2. d = b /\ e = a
      BY <1>2, <2>1, <2>2, <3>1
    <3>. QED
      BY <1>2, <2>1, <3>1, <3>2
  <2>. QED
    BY <1>2, <2>3, <2>4, <2>5
<1>. QED
  BY <1>3, <1>4

\* What is later on the list is on the list.
LEMMA LaterListed ==
    ASSUME NEW s, NEW x
    PROVE  Later(s, x) \subseteq On(s)
BY DEF Later, On, Elements

Listed1(s) == s.m_Plugins \in Seq(Nat) /\ Once(s) /\ On(s) \subseteq DOMAIN s.pl

\* A change that tells nobody keeps who has been told and who has yet to be.
LEMMA SteadyTold ==
    ASSUME NEW s, Listed1(s), NEW t, Steady(s, t), t.m_Plugins \in Seq(Nat), On(t) \subseteq DOMAIN t.pl,
           NEW L, NEW A, NEW T, T \subseteq On(t), ToldOK(s, L, A, T)
    PROVE  ToldOK(t, L, A, T)
<1>1. /\ On(t) \subseteq On(s) /\ t.m_AllLoaded = s.m_AllLoaded
      /\ \A x \in DOMAIN t.pl :
           /\ x \in DOMAIN s.pl /\ t.pl[x].told = s.pl[x].told /\ t.pl[x].m_Status = s.pl[x].m_Status
           /\ x \in On(t) => Failed(s.pl[x].m_Status) \/ t.pl[x].m_API = s.pl[x].m_API
  BY DEF Steady
<1>2. \A x \in T : Later(t, x) \subseteq Later(s, x) /\ On(t) \cap Later(s, x) \subseteq Later(t, x)
  BY LaterKept DEF Listed1, Steady
<1>3. ToldWell(t)
  BY <1>1 DEF ToldOK, ToldWell
<1>4. ~t.m_AllLoaded => T = {} /\ \A o \in DOMAIN t.pl : t.pl[o].told = 0
  BY <1>1 DEF ToldOK
<1>5. /\ \A o \in L \cap DOMAIN t.pl : t.pl[o].told = 0
      /\ \A o \in A \cap DOMAIN t.pl : t.pl[o].told = 1
  BY <1>1 DEF ToldOK
<1>6. \A x \in T : \A y \in Later(t, x) : t.pl[y].told = 0
  <2>. SUFFICES ASSUME NEW x \in T, NEW y \in Later(t, x)
                PROVE  t.pl[y].told = 0
    OBVIOUS
  <2>1. y \in Later(s, x) /\ y \in DOMAIN t.pl
    BY <1>2, LaterListed
  <2>. QED
    BY <1>1, <2>1 DEF ToldOK
<1>7. t.m_AllLoaded => \A o \in On(t) : t.pl[o].m_Status = "Running" /\ t.pl[o].told = 0 =>
                           o \in L \/ \E x \in T : o \in Later(t, x)
  <2>. SUFFICES ASSUME t.m_AllLoaded, NEW o \in On(t), t.pl[o].m_Status = "Running", t.pl[o].told = 0
                PROVE  o \in L \/ \E x \in T : o \in Later(t, x)
    OBVIOUS
  <2>1. o \in On(s) /\ s.pl[o].m_Status = "Running" /\ s.pl[o].told = 0
    BY <1>1
  <2>2. o \in L \/ \E x \in T : o \in Later(s, x)
    BY <1>1, <2>1 DEF ToldOK
  <2>. QED
    BY <1>2, <2>2
<1>. QED
  BY <1>3, <1>4, <1>5, <1>6, <1>7 DEF ToldOK

AskedIn(fr)   == IF fr.kind \in {"Pause", "Unpause"} THEN {fr.obj} ELSE {}
TellingIn(fr) == IF fr.then.what = "setall" THEN {fr.obj} ELSE {}

\* Who is asked and told under a stack with one frame more.
LEMMA OneMoreTold ==
    ASSUME NEW fs, NEW fr, NEW gs, OneMore(fs, fr, gs)
    PROVE  /\ Asked(gs) = Asked(fs) \cup AskedIn(fr)
           /\ Telling(gs) = Telling(fs) \cup TellingIn(fr)
           /\ OneTells(gs) => OneTells(fs) /\ (fr.then.what = "setall" => Telling(fs) = {})
           /\ OneTells(fs) /\ (fr.then.what = "setall" => Telling(fs) = {}) => OneTells(gs)
<1>1. PICK n : n = Len(gs)
  OBVIOUS
<1>2. /\ DOMAIN gs = DOMAIN fs \cup {n} /\ n \notin DOMAIN fs
      /\ gs[n] = fr /\ \A k \in DOMAIN fs : gs[k] = fs[k]
  BY <1>1 DEF OneMore
<1>3. Asked(gs) = Asked(fs) \cup AskedIn(fr)
  BY <1>2 DEF Asked, AskedIn
<1>4. Telling(gs) = Telling(fs) \cup TellingIn(fr)
  BY <1>2 DEF Telling, TellingIn
<1>5. Telling(fs) = {} <=> \A k \in DOMAIN fs : fs[k].then.what # "setall"
  BY DEF Telling
<1>6. OneTells(gs) => OneTells(fs)
  BY <1>2 DEF OneTells
<1>7. OneTells(gs) /\ fr.then.what = "setall" => Telling(fs) = {}
  <2>. SUFFICES ASSUME OneTells(gs), fr.then.what = "setall", NEW k \in DOMAIN fs, fs[k].then.what = "setall"
                PROVE  FALSE
    BY <1>5
  <2>. QED
    BY <1>2 DEF OneTells
<1>8. OneTells(fs) /\ (fr.then.what = "setall" => Telling(fs) = {}) => OneTells(gs)
  <2>. SUFFICES ASSUME OneTells(fs), fr.then.what = "setall" => Telling(fs) = {},
                       NEW k \in DOMAIN gs, NEW j \in DOMAIN gs,
                       gs[k].then.what = "setall", gs[j].then.what = "setall"
                PROVE  k = j
    BY DEF OneTells
  <2>1. CASE fr.then.what = "setall"
    BY <1>2, <1>5, <2>1
  <2>2. CASE fr.then.what # "setall"
    BY <1>2, <2>2 DEF OneTells
  <2>. QED
    BY <2>1, <2>2
<1>. QED
  BY <1>3, <1>4, <1>6, <1>7, <1>8

\* Calling a function is one frame more.
LEMMA OnTop ==
    ASSUME NEW fs \in Seq(Frames), NEW fr, NEW gs, gs = fs \o <<fr>>, gs \in Seq(Frames)
    PROVE  OneMore(fs, fr, gs)
<1>1. PICK F : F = Frames
  OBVIOUS
<1>2. fs \in Seq(F) /\ gs \in Seq(F)
  BY <1>1
<1>3. Len(gs) = Len(fs) + 1 /\ gs[Len(fs) + 1] = fr /\ Len(fs) + 1 \in DOMAIN gs
  BY <1>2
<1>4. fr \in F
  BY <1>2, <1>3
<1>5. gs = Append(fs, fr)
  BY <1>2, <1>4
<1>. QED
  BY <1>1, <1>4, <1>5, OneMoreByAppend

\* Such a call on top changes neither who is loading nor who is asked or told.
LEMMA CalmAbove ==
    ASSUME NEW fs \in Seq(Frames), NEW call, call = <<>> \/ \E fr : call = <<fr>> /\ Calm(fr),
           NEW gs, gs = fs \o call, gs \in Seq(Frames)
    PROVE  /\ Loading(gs) = Loading(fs) /\ Asked(gs) = Asked(fs) /\ Telling(gs) = Telling(fs)
           /\ OneTells(fs) => OneTells(gs)
<1>1. CASE call = <<>>
  <2>1. gs = fs
    BY <1>1
  <2>. QED
    BY <2>1
<1>2. ASSUME NEW fr, call = <<fr>>, Calm(fr)
      PROVE  /\ Loading(gs) = Loading(fs) /\ Asked(gs) = Asked(fs) /\ Telling(gs) = Telling(fs)
             /\ OneTells(fs) => OneTells(gs)
  <2>1. OneMore(fs, fr, gs)
    BY <1>2, OnTop
  <2>2. LoadingIn(fr) = {} /\ AskedIn(fr) = {} /\ TellingIn(fr) = {} /\ fr.then.what # "setall"
    BY <1>2 DEF Calm, LoadingIn, AskedIn, TellingIn
  <2>3. Loading(gs) = Loading(fs) \cup LoadingIn(fr)
    BY <2>1, OneMoreSets
  <2>4. /\ Asked(gs) = Asked(fs) \cup AskedIn(fr)
        /\ Telling(gs) = Telling(fs) \cup TellingIn(fr)
        /\ OneTells(fs) /\ (fr.then.what = "setall" => Telling(fs) = {}) => OneTells(gs)
    BY <2>1, OneMoreTold
  <2>. QED
    BY <2>2, <2>3, <2>4
<1>. QED
  BY <1>1, <1>2

\* Who is asked to pause or being told is on the list.
LEMMA AskedAndTelling ==
    ASSUME NEW s, NEW fs \in Seq(Frames), StackOK(s, fs)
    PROVE  /\ Asked(fs) \subseteq On(s) /\ Telling(fs) \subseteq On(s)
           /\ \A k \in DOMAIN fs : fs[k].then.what = "setall" => fs[k].kind = "AllPluginsLoaded"
<1>. SUFFICES ASSUME NEW k \in DOMAIN fs
              PROVE  /\ fs[k].kind \in {"Pause", "Unpause"} => fs[k].obj \in On(s)
                     /\ fs[k].then.what = "setall" => fs[k].obj \in On(s) /\ fs[k].kind = "AllPluginsLoaded"
  BY DEF Asked, Telling
<1>1. FrameOK(s, Waiting(s), fs[k])
  BY DEF StackOK
<1>2. Fits(fs[k]) /\ (fs[k].kind # "handler" => fs[k].obj \in On(s))
  BY <1>1 DEF FrameOK
<1>3. fs[k].then.what = "setall" => fs[k].kind = "AllPluginsLoaded"
  <2>1. PICK fr : fr = fs[k]
    OBVIOUS
  <2>2. fr.kind \in Kinds
    <3>1. PICK F : F = Frames
      OBVIOUS
    <3>2. fs \in Seq(F)
      BY <3>1
    <3>3. fr \in F
      BY <2>1, <3>2
    <3>. QED
      BY <3>1, <3>3 DEF Frames
  <2>. QED
    BY <1>2, <2>1, <2>2 DEF Fits, Kinds
<1>. QED
  BY <1>2, <1>3

\* The list holds each of its objects once.
LEMMA ListedByManager ==
    ASSUME NEW s, Managers(s), Once(s)
    PROVE  Listed1(s)
BY DEF Managers, Listed1, On

\* A function goes on without telling anyone.
LEMMA CalmStep ==
    ASSUME PluginInv', NEW fs \in Seq(Frames), NEW s, Listed1(s), ToldFor(s, fs),
           NEW c, GoesOn(s, c), m' = c.m, stack' = fs \o c.call
    PROVE  ToldInv'
<1>1. PICK t, gs, call : t = c.m /\ call = c.call /\ gs = fs \o call
  OBVIOUS
<1>2. m' = t /\ stack' = gs
  BY <1>1
<1>3. ConfigOK(t, gs)
  BY <1>2 DEF PluginInv
<1>4. Managers(t) /\ gs \in Seq(Frames) /\ StackOK(t, gs)
  BY <1>3 DEF ConfigOK
<1>5. Steady(s, t) /\ (call = <<>> \/ \E fr : call = <<fr>> /\ Calm(fr))
  BY <1>1 DEF GoesOn, Steps
<1>6. /\ Loading(gs) = Loading(fs) /\ Asked(gs) = Asked(fs) /\ Telling(gs) = Telling(fs)
      /\ OneTells(fs) => OneTells(gs)
  BY <1>1, <1>4, <1>5, CalmAbove
<1>7. t.m_Plugins \in Seq(Nat) /\ On(t) \subseteq DOMAIN t.pl
  BY <1>4, ListedTyped DEF Managers
<1>8. PICK L, A, T : L = Loading(fs) /\ A = Asked(fs) /\ T = Telling(fs)
  OBVIOUS
<1>9. T \subseteq On(t)
  BY <1>4, <1>6, <1>8, AskedAndTelling
<1>10. ToldOK(s, L, A, T) /\ OneTells(fs)
  BY <1>8 DEF ToldFor
<1>11. ToldOK(t, L, A, T)
  BY <1>5, <1>7, <1>9, <1>10, SteadyTold
<1>12. ToldFor(t, gs)
  BY <1>6, <1>8, <1>10, <1>11 DEF ToldFor
<1>. QED
  BY <1>2, <1>12 DEF ToldInv

PoppedTold(fs, fr) ==
    /\ fs = Below /\ fr = Top /\ fs \in Seq(Frames) /\ fr \in Frames /\ Fits(fr)
    /\ ToldOK(m, Loading(fs) \cup LoadingIn(fr), Asked(fs) \cup AskedIn(fr), Telling(fs) \cup TellingIn(fr))
    /\ OneTells(fs) /\ (fr.then.what = "setall" => Telling(fs) = {})

\* What the invariant PluginInv says of the list.
LEMMA InvListed ==
    ASSUME PluginInv
    PROVE  Listed1(m) /\ Shape(m) /\ Managers(m) /\ Once(m) /\ stack \in Seq(Frames) /\ StackOK(m, stack)
           /\ On(m) \subseteq DOMAIN m.pl
<1>1. Managers(m) /\ Once(m) /\ stack \in Seq(Frames) /\ StackOK(m, stack)
  BY DEF PluginInv, ConfigOK
<1>. QED
  BY <1>1, ListedByManager, ShapeOfManager DEF Listed1

\* A frame that returns, and what is known under it.
LEMMA PopsTold ==
    ASSUME PluginInv, ToldInv, stack # <<>>
    PROVE  PoppedTold(Below, Top)
<1>1. PICK gs, fs, fr : gs = stack /\ fs = Below /\ fr = Top
  OBVIOUS
<1>2. gs \in Seq(Frames) /\ gs # <<>> /\ StackOK(m, gs)
  BY <1>1, InvListed
<1>3. OneMore(fs, fr, gs)
  BY <1>1, <1>2, OneMoreBySub DEF Below, Top
<1>4. Loading(gs) = Loading(fs) \cup LoadingIn(fr)
  BY <1>3, OneMoreSets
<1>5. /\ Asked(gs) = Asked(fs) \cup AskedIn(fr)
      /\ Telling(gs) = Telling(fs) \cup TellingIn(fr)
      /\ OneTells(gs) => OneTells(fs) /\ (fr.then.what = "setall" => Telling(fs) = {})
  BY <1>3, OneMoreTold
<1>6. fs \in Seq(Frames) /\ fr \in Frames
  BY <1>3 DEF OneMore
<1>7. Fits(fr)
  <2>1. Len(gs) \in DOMAIN gs /\ gs[Len(gs)] = fr
    BY <1>3 DEF OneMore
  <2>2. FrameOK(m, Waiting(m), fr)
    BY <1>2, <2>1 DEF StackOK
  <2>. QED
    BY <2>2 DEF FrameOK
<1>8. ToldOK(m, Loading(gs), Asked(gs), Telling(gs)) /\ OneTells(gs)
  BY <1>1 DEF ToldInv, ToldFor
<1>. QED
  BY <1>1, <1>4, <1>5, <1>6, <1>7, <1>8 DEF PoppedTold

\* With fewer plugins asked nothing is lost.
LEMMA FewerAsked ==
    ASSUME NEW s, NEW L, NEW A, NEW B, NEW T, ToldOK(s, L, A, T), B \subseteq A
    PROVE  ToldOK(s, L, B, T)
BY DEF ToldOK

\* The top frame is gone, of a function that tells and loads nobody.
LEMMA PoppedRest ==
    ASSUME NEW fs, NEW fr, PoppedTold(fs, fr), fr.kind # "Load", fr.then.what # "setall"
    PROVE  ToldFor(m, fs)
<1>1. PICK L, A, T : L = Loading(fs) /\ A = Asked(fs) /\ T = Telling(fs)
  OBVIOUS
<1>2. LoadingIn(fr) = {} /\ TellingIn(fr) = {}
  BY DEF LoadingIn, TellingIn
<1>3. ToldOK(m, L, A \cup AskedIn(fr), T) /\ OneTells(fs)
  BY <1>1, <1>2 DEF PoppedTold
<1>4. ToldOK(m, L, A, T)
  BY <1>3, FewerAsked
<1>. QED
  BY <1>1, <1>3, <1>4 DEF ToldFor

-----------------------------------------------------------------------------
(* Steps that tell nobody. *)
\* A function returns or is called and nobody is told.
LEMMA RunningOn ==
    ASSUME PluginInv', PluginInv, NEW fs \in Seq(Frames), ToldFor(m, fs),
           NEW c, GoesOn(m, c), Becomes(c, fs)
    PROVE  ToldInv'
BY InvListed, CalmStep DEF Becomes

\* No call at all.
LEMMA StandsStill ==
    ASSUME NEW s, Shape(s), NEW c, c = Config(s, <<>>)
    PROVE  GoesOn(s, c)
<1>1. PICK e : e = <<>>
  OBVIOUS
<1>2. c.m = s /\ c.call = e
  BY <1>1, ConfigFields
<1>. QED
  BY <1>1, <1>2, SteadyItself DEF GoesOn, Steps

\* 'meta unload', or a plugin's, calls nobody's AllPluginsLoaded.
LEMMA UnloadTold ==
    ASSUME PluginInv', PluginInv, ToldInv, NEW o \in Elements(m.m_Plugins), NEW what \in {"unload", "force"},
           Unload(o, Then(what, Nobody, m.pl[o].m_Id))
    PROVE  ToldInv'
<1>1. PICK then : then = Then(what, Nobody, m.pl[o].m_Id)
  OBVIOUS
<1>2. o \in DOMAIN m.pl /\ Shape(m) /\ stack \in Seq(Frames)
  BY InvListed DEF On
<1>3. OfUnload(then)
  BY <1>1, <1>2 DEF Then, OfUnload, Shape, CPlugins
<1>4. PICK c : c = Unloaded(m, o, then)
  OBVIOUS
<1>5. GoesOn(m, c)
  BY <1>2, <1>3, <1>4, UnloadedCalm
<1>6. Becomes(c, stack)
  BY <1>1, <1>4 DEF Unload
<1>. QED
  BY <1>2, <1>5, <1>6, RunningOn DEF ToldInv

\* Nor does 'meta clear'.
LEMMA ClearTold ==
    ASSUME PluginInv', PluginInv, ToldInv, Clear
    PROVE  ToldInv'
<1>1. PICK c : c = UnloadAll(m)
  OBVIOUS
<1>2. GoesOn(m, c)
  BY <1>1, InvListed, UnloadAllCalm
<1>3. Becomes(c, stack)
  BY <1>1 DEF Clear
<1>. QED
  BY <1>2, <1>3, InvListed, RunningOn DEF ToldInv

\* Nor does a call of a hooked function.
LEMMA CallHandlerTold ==
    ASSUME PluginInv', PluginInv, ToldInv, NEW h \in m.hooks, CallHandler(h)
    PROVE  ToldInv'
<1>1. PICK fr : fr = Frame("handler", Nobody, h.file, Nothing)
  OBVIOUS
<1>2. PICK c, e : e = <<fr>> /\ c = Config(m, e)
  OBVIOUS
<1>3. c.m = m /\ c.call = e
  BY <1>2, ConfigFields
<1>4. Calm(fr)
  BY <1>1 DEF Calm, Frame, Nothing, Then
<1>5. GoesOn(m, c)
  BY <1>2, <1>3, <1>4, SteadyItself, InvListed DEF GoesOn, Steps
<1>6. Becomes(c, stack)
  <2>1. m' = m /\ stack' = Append(stack, fr)
    BY <1>1 DEF CallHandler
  <2>2. stack \in Seq(Frames) /\ stack' \in Seq(Frames)
    BY InvListed DEF PluginInv, ConfigOK
  <2>3. Append(stack, fr) = stack \o e
    <3>1. PICK F : F = Frames
      OBVIOUS
    <3>2. stack \in Seq(F) /\ Append(stack, fr) \in Seq(F)
      BY <2>1, <2>2, <3>1
    <3>3. fr \in F
      <4>1. Len(Append(stack, fr)) = Len(stack) + 1 /\ Append(stack, fr)[Len(stack) + 1] = fr
        BY <3>2
      <4>. QED
        BY <3>2, <4>1
    <3>. QED
      BY <1>2, <3>2, <3>3
  <2>. QED
    BY <1>3, <2>1, <2>3 DEF Becomes
<1>. QED
  BY <1>5, <1>6, InvListed, RunningOn DEF ToldInv

\* A step that calls nothing, above fs.
LEMMA RestsOn ==
    ASSUME PluginInv', PluginInv, NEW fs \in Seq(Frames), ToldFor(m, fs), Steps(m, m'), stack' = fs
    PROVE  ToldInv'
<1>1. PICK t, e : t = m' /\ e = <<>>
  OBVIOUS
<1>2. PICK c : c = Config(t, e)
  OBVIOUS
<1>3. c.m = t /\ c.call = e
  BY <1>2, ConfigFields
<1>4. GoesOn(m, c)
  BY <1>1, <1>3 DEF GoesOn
<1>5. fs \o e = fs
  <2>1. PICK F : F = Frames
    OBVIOUS
  <2>2. fs \in Seq(F)
    BY <2>1
  <2>. QED
    BY <1>1, <2>2
<1>6. m' = c.m /\ stack' = fs \o c.call
  BY <1>1, <1>3, <1>5
<1>. QED
  BY <1>4, <1>6, InvListed, CalmStep

\* Nor do the pending unloads: those whose objects stay have failed.
LEMMA ResolvedSteps ==
    ASSUME NEW s, NEW L, NEW R, SitsWell(s, L, R), NEW force \in BOOLEAN, NEW t, t = ResolvePendingUnloads(s, force)
    PROVE  Steps(s, t) /\ Managers(t)
<1>1. Managers(s) /\ PendingOK(s) /\ PluginsOK(s, Waiting(s), L, R)
  BY DEF SitsWell
<1>2. /\ Managers(t) /\ Untouched(s, t, Waiting(s)) /\ Kept(s, t) /\ t.m_Plugins = s.m_Plugins
  BY <1>1, ResolveKeepsPlugins
<1>3. \A o \in Waiting(s) \cap On(s) : Failed(s.pl[o].m_Status)
  BY <1>1 DEF PluginsOK, LibsHeld
<1>4. ASSUME NEW x \in DOMAIN t.pl, x \in On(t)
      PROVE  Failed(s.pl[x].m_Status) \/ t.pl[x].m_API = s.pl[x].m_API
  <2>1. x \in DOMAIN s.pl /\ x \in On(s)
    BY <1>2, <1>4 DEF Kept
  <2>2. CASE x \in Waiting(s)
    BY <1>3, <2>1, <2>2
  <2>3. CASE x \notin Waiting(s)
    BY <1>2, <2>1, <2>3 DEF Untouched
  <2>. QED
    BY <2>2, <2>3
<1>5. Steady(s, t)
  BY <1>2, <1>4 DEF Steady, Kept
<1>. QED
  BY <1>2, <1>5, ShapeOfManager DEF Steps

\* A handler returns.
LEMMA HandlerReturnsTold ==
    ASSUME PluginInv', PluginInv, ToldInv, HandlerReturns
    PROVE  ToldInv'
<1>1. PICK fs, fr : fs = Below /\ fr = Top
  OBVIOUS
<1>2. stack # <<>> /\ fr.kind = "handler" /\ stack' = fs
  BY <1>1 DEF HandlerReturns
<1>3. PoppedTold(fs, fr)
  BY <1>1, <1>2, PopsTold
<1>4. fs \in Seq(Frames) /\ fr.then.what = "nothing"
  BY <1>2, <1>3 DEF PoppedTold, Fits
<1>5. ToldFor(m, fs)
  BY <1>2, <1>3, <1>4, PoppedRest
<1>6. Steps(m, m')
  <2>1. CASE m' = m
    BY <2>1, SteadyItself, InvListed DEF Steps
  <2>2. CASE m' = ResolvePendingUnloads(m, FALSE)
    <3>1. PICK t, force, L, R : /\ force = FALSE /\ t = ResolvePendingUnloads(m, force)
                                /\ L = Loading(stack) /\ R = Retried(stack)
      OBVIOUS
    <3>2. SitsWell(m, L, R) /\ force \in BOOLEAN
      BY <3>1, InvRuns
    <3>3. Steps(m, t)
      BY <3>1, <3>2, ResolvedSteps
    <3>. QED
      BY <2>2, <3>1, <3>3
  <2>. QED
    BY <2>1, <2>2 DEF HandlerReturns
<1>. QED
  BY <1>2, <1>4, <1>5, <1>6, RestsOn

\* A hook is added or removed.
LEMMA HooksTold ==
    ASSUME PluginInv', PluginInv, ToldInv, NEW hooks, m' = [m EXCEPT !.hooks = hooks], stack' = stack
    PROVE  ToldInv'
<1>1. PICK t : t = m'
  OBVIOUS
<1>2. t = Rec(m.pl, m.made, m.m_Plugins, m.m_LastId, m.m_AllLoaded, hooks, m.lib, m.pending)
  BY <1>1, WithHooks, InvListed DEF Shape
<1>3. IsRec(t) /\ t.pl = m.pl /\ t.m_Plugins = m.m_Plugins /\ t.m_AllLoaded = m.m_AllLoaded /\ t.made = m.made
  BY <1>2, RecFields
<1>4. Steps(m, t)
  BY <1>3, InvListed, OthersStep
<1>. QED
  BY <1>1, <1>4, InvListed, RestsOn DEF ToldInv

\* A listener is added.
LEMMA AddListenerTold ==
    ASSUME PluginInv', PluginInv, ToldInv, AddListener
    PROVE  ToldInv'
<1>1. PICK o, b : o = FindByAPI(m, Top.file) /\ b = TRUE
  OBVIOUS
<1>2. PICK t : t = Listening(m, o, b)
  OBVIOUS
<1>3. m' = t /\ stack' = stack
  BY <1>1, <1>2 DEF AddListener, Listening
<1>4. Steps(m, t)
  BY <1>1, <1>2, InvListed, QuietSteps
<1>. QED
  BY <1>3, <1>4, InvListed, RestsOn DEF ToldInv

\* A listener returns.
LEMMA EventReturnsTold ==
    ASSUME PluginInv', PluginInv, ToldInv, EventReturns
    PROVE  ToldInv'
<1>1. PICK fs, fr, k, about : fs = Below /\ fr = Top /\ k = Position(m, fr.obj) + 1 /\ about = fr.then.obj
  OBVIOUS
<1>2. stack # <<>> /\ fr.kind = "event"
  BY <1>1 DEF EventReturns, Returns
<1>3. PoppedTold(fs, fr)
  BY <1>1, <1>2, PopsTold
<1>4. fs \in Seq(Frames) /\ fr.then.what = "event"
  BY <1>2, <1>3 DEF PoppedTold, Fits
<1>5. ToldFor(m, fs)
  BY <1>2, <1>3, <1>4, PoppedRest
<1>6. PICK id : Becomes(PlEvent(m, k, about, id), fs)
  BY <1>1 DEF EventReturns
<1>7. PICK c : c = PlEvent(m, k, about, id)
  OBVIOUS
<1>8. GoesOn(m, c) /\ Becomes(c, fs)
  BY <1>6, <1>7, InvListed, EventCalm
<1>. QED
  BY <1>4, <1>5, <1>8, RunningOn

\* Unload returns, agreeing or not.
LEMMA UnloadReturnsTold ==
    ASSUME PluginInv', PluginInv, ToldInv, UnloadReturns
    PROVE  ToldInv'
<1>1. PICK fs, fr, o, then, loop : fs = Below /\ fr = Top /\ o = fr.obj /\ then = fr.then /\ loop = InLoop
  OBVIOUS
<1>2. stack # <<>> /\ fr.kind = "Unload"
  BY <1>1 DEF UnloadReturns, Returns
<1>3. PoppedTold(fs, fr)
  BY <1>1, <1>2, PopsTold
<1>4. fs \in Seq(Frames) /\ OfUnload(then) /\ then.what # "setall"
  BY <1>1, <1>2, <1>3 DEF PoppedTold, Fits, Frames, Thens, OfUnload
<1>5. ToldFor(m, fs)
  BY <1>1, <1>2, <1>3, <1>4, PoppedRest
<1>6. PICK t : t = Removed(m, o, loop)
  OBVIOUS
<1>7. PICK c : c = AfterUnload(t, then)
  OBVIOUS
<1>8. Becomes(c, fs) \/ Becomes(Config(m, <<>>), fs)
  BY <1>1, <1>6, <1>7 DEF UnloadReturns, Removed
<1>9. CASE Becomes(c, fs)
  <2>1. Steps(m, t) /\ Shape(t)
    BY <1>6, InvListed, RemovedSteps DEF Steps
  <2>2. GoesOn(t, c)
    BY <1>4, <1>7, <2>1, AfterUnloadCalm
  <2>3. GoesOn(m, c)
    BY <2>1, <2>2, StepsTwice DEF GoesOn
  <2>. QED
    BY <1>4, <1>5, <1>9, <2>3, RunningOn
<1>10. CASE Becomes(Config(m, <<>>), fs)
  <2>1. PICK d : d = Config(m, <<>>)
    OBVIOUS
  <2>2. GoesOn(m, d)
    BY <2>1, InvListed, StandsStill
  <2>. QED
    BY <1>4, <1>5, <1>10, <2>1, <2>2, RunningOn
<1>. QED
  BY <1>8, <1>9, <1>10

\* AllPluginsLoaded returns to the _Load that called it.
LEMMA LoadedReturnsTold ==
    ASSUME PluginInv', PluginInv, ToldInv, AllPluginsLoadedReturns, Top.then.what # "setall"
    PROVE  ToldInv'
<1>1. PICK fs, fr, o, then, loop : fs = Below /\ fr = Top /\ o = fr.obj /\ then = fr.then /\ loop = InLoop
  OBVIOUS
<1>2. stack # <<>> /\ fr.kind = "AllPluginsLoaded"
  BY <1>1 DEF AllPluginsLoadedReturns, Returns
<1>3. PoppedTold(fs, fr)
  BY <1>1, <1>2, PopsTold
<1>4. fs \in Seq(Frames) /\ then.what \in {"load", "retry"} /\ then.id \in Nat
  BY <1>1, <1>2, <1>3 DEF PoppedTold, Fits, Frames, Thens
<1>5. ToldFor(m, fs)
  BY <1>1, <1>2, <1>3, PoppedRest
<1>6. PICK c : c = AfterLoad(m, o, then, loop)
  OBVIOUS
<1>7. GoesOn(m, c)
  BY <1>4, <1>6, InvListed, AfterLoadCalm
<1>8. Becomes(c, fs)
  BY <1>1, <1>6 DEF AllPluginsLoadedReturns
<1>. QED
  BY <1>4, <1>5, <1>7, <1>8, RunningOn

-----------------------------------------------------------------------------
(* SetAllLoaded. *)
ToTell(s)    == {x \in DOMAIN s.pl : s.pl[x].m_Status = "Running" /\ s.pl[x].m_API}

NextToTell(s, A, k) ==
    /\ Managers(s) /\ Once(s) /\ s.m_AllLoaded /\ ToldWell(s) /\ k \in Nat /\ k >= 1
    /\ \A o \in A \cap DOMAIN s.pl : s.pl[o].told = 1
    /\ \A i \in DOMAIN s.m_Plugins : i >= k => s.pl[s.m_Plugins[i]].told = 0
    /\ \A i \in DOMAIN s.m_Plugins : i < k /\ s.pl[s.m_Plugins[i]].m_Status = "Running" =>
          s.pl[s.m_Plugins[i]].told # 0

\* SetAllLoaded's search finds every plugin that runs.
LEMMA RunningIsToTell ==
    ASSUME NEW s, Managers(s), ToldWell(s), NEW o \in On(s), s.pl[o].m_Status = "Running"
    PROVE  o \in ToTell(s)
<1>1. o \in DOMAIN s.pl
  BY ListedTyped
<1>2. ~Failed(s.pl[o].m_Status)
  BY DEF Failed
<1>. QED
  BY <1>1, <1>2 DEF ToldWell, ToTell

\* SetAllLoaded has come to the end of the list: whoever runs was told.
LEMMA TellEnds ==
    ASSUME NEW s, NEW A, NEW k, NextToTell(s, A, k),
           \A i \in DOMAIN s.m_Plugins : i >= k => s.m_Plugins[i] \notin ToTell(s)
    PROVE  ToldOK(s, {}, A, {})
<1>1. Managers(s) /\ ToldWell(s) /\ s.m_AllLoaded /\ s.m_Plugins \in Seq(Nat) /\ k \in Nat
  BY DEF NextToTell, Managers
<1>2. ASSUME NEW o \in On(s), s.pl[o].m_Status = "Running"
      PROVE  s.pl[o].told # 0
  <2>1. PICK i \in DOMAIN s.m_Plugins : s.m_Plugins[i] = o
    BY DEF On, Elements
  <2>2. o \in ToTell(s)
    BY <1>1, <1>2, RunningIsToTell
  <2>3. i \in Nat /\ i < k
    BY <1>1, <2>1, <2>2
  <2>. QED
    BY <1>2, <2>1, <2>3 DEF NextToTell
<1>3. \A o \in A \cap DOMAIN s.pl : s.pl[o].told = 1
  BY DEF NextToTell
<1>. QED
  BY <1>1, <1>2, <1>3 DEF ToldOK

ToldOnceMore(s, t, o) ==
    /\ DOMAIN t.pl = DOMAIN s.pl /\ t.pl[o] = [s.pl[o] EXCEPT !.told = @ + 1]
    /\ \A x \in DOMAIN s.pl : x # o => t.pl[x] = s.pl[x]
    /\ t.m_Plugins = s.m_Plugins /\ t.m_AllLoaded = s.m_AllLoaded

TellOnce(s, o) == [s EXCEPT !.pl[o].told = @ + 1]

\* One plugin's AllPluginsLoaded is called.
LEMMA TellsOne ==
    ASSUME NEW s, Shape(s), NEW o \in DOMAIN s.pl, NEW t, t = TellOnce(s, o)
    PROVE  ToldOnceMore(s, t, o) /\ IsRec(t)
<1>1. PICK p : p = [s.pl[o] EXCEPT !.told = @ + 1]
  OBVIOUS
<1>2. PICK pl : pl = [s.pl EXCEPT ![o] = p]
  OBVIOUS
<1>3. t = [s EXCEPT !.pl = pl]
  BY <1>1, <1>2 DEF TellOnce
<1>4. t = Rec(pl, s.made, s.m_Plugins, s.m_LastId, s.m_AllLoaded, s.hooks, s.lib, s.pending)
  BY <1>3, WithPl DEF Shape
<1>5. IsRec(t) /\ t.pl = pl /\ t.m_Plugins = s.m_Plugins /\ t.m_AllLoaded = s.m_AllLoaded
  BY <1>4 DEF Rec, IsRec
<1>. QED
  BY <1>1, <1>2, <1>5 DEF ToldOnceMore

\* SetAllLoaded tells the next that runs: it was not told before, and those
\* after it have yet to be.
LEMMA TellFound ==
    ASSUME NEW s, NEW A, NEW k, NextToTell(s, A, k),
           NEW i \in DOMAIN s.m_Plugins, i >= k, NEW o, o = s.m_Plugins[i], o \in ToTell(s),
           \A j \in DOMAIN s.m_Plugins : j >= k /\ j < i => s.m_Plugins[j] \notin ToTell(s),
           NEW t, ToldOnceMore(s, t, o)
    PROVE  ToldOK(t, {}, A, {o})
<1>1. PICK l : l = s.m_Plugins
  OBVIOUS
<1>2. /\ Managers(s) /\ ToldWell(s) /\ s.m_AllLoaded /\ l \in Seq(Nat) /\ k \in Nat
      /\ \A a, b \in DOMAIN l : l[a] = l[b] => a = b
      /\ \A a \in DOMAIN l : a \in Nat
  BY <1>1 DEF NextToTell, Managers, Once
<1>3. o \in DOMAIN s.pl /\ s.pl[o] \in CPlugins /\ s.pl[o].m_Status = "Running"
  BY <1>2 DEF ToTell, Managers
<1>4. s.pl[o].told = 0
  BY <1>1 DEF NextToTell
<1>5. t.pl[o].told = 1 /\ t.pl[o].m_Status = s.pl[o].m_Status /\ t.pl[o].m_API = s.pl[o].m_API
  BY <1>3, <1>4 DEF ToldOnceMore, CPlugins
<1>6. /\ DOMAIN t.pl = DOMAIN s.pl /\ On(t) = On(s) /\ t.m_Plugins = l /\ t.m_AllLoaded = s.m_AllLoaded
      /\ \A x \in DOMAIN s.pl : x # o => t.pl[x] = s.pl[x]
  BY <1>1, <1>2 DEF ToldOnceMore, On
<1>7. ToldWell(t)
  <2>1. ~Failed(s.pl[o].m_Status)
    BY <1>3 DEF Failed
  <2>2. ASSUME NEW x \in DOMAIN t.pl
        PROVE  /\ t.pl[x].told > 0 => t.pl[x].told = 1 /\ ~Failed(t.pl[x].m_Status)
               /\ t.pl[x].m_Status = "Paused" => t.pl[x].told = 1
               /\ x \in On(t) /\ ~Failed(t.pl[x].m_Status) => t.pl[x].m_API
    <3>1. CASE x = o
      BY <1>2, <1>5, <1>6, <2>1, <3>1 DEF ToldWell
    <3>2. CASE x # o
      BY <1>2, <1>6, <2>2, <3>2 DEF ToldWell
    <3>. QED
      BY <3>1, <3>2
  <2>3. On(t) \subseteq DOMAIN t.pl
    BY <1>2, <1>6, ListedTyped
  <2>. QED
    BY <2>2, <2>3 DEF ToldWell
<1>8. \A x \in A \cap DOMAIN t.pl : t.pl[x].told = 1
  BY <1>5, <1>6 DEF NextToTell
<1>9. \A y \in Later(t, o) : t.pl[y].told = 0
  <2>. SUFFICES ASSUME NEW y \in Later(t, o)
                PROVE  t.pl[y].told = 0
    OBVIOUS
  <2>1. PICK a, j \in DOMAIN l : a < j /\ l[a] = o /\ l[j] = y
    BY <1>6 DEF Later
  <2>2. a = i
    BY <1>1, <1>2, <2>1
  <2>3. y # o /\ j >= k
    BY <1>1, <1>2, <2>1, <2>2
  <2>4. s.pl[y].told = 0
    BY <1>1, <2>1, <2>3 DEF NextToTell
  <2>5. y \in DOMAIN s.pl
    BY <1>1, <1>2, <2>1, ListedTyped
  <2>. QED
    BY <1>6, <2>3, <2>4, <2>5
<1>10. ASSUME NEW x \in On(t), t.pl[x].m_Status = "Running", t.pl[x].told = 0
       PROVE  x \in Later(t, o)
  <2>1. x # o /\ x \in On(s) /\ x \in DOMAIN s.pl
    BY <1>2, <1>5, <1>6, <1>10, ListedTyped
  <2>2. s.pl[x].m_Status = "Running" /\ s.pl[x].told = 0
    BY <1>6, <1>10, <2>1
  <2>3. x \in ToTell(s)
    BY <1>2, <2>1, <2>2, RunningIsToTell
  <2>4. PICK j \in DOMAIN l : l[j] = x
    BY <1>1, <2>1 DEF On, Elements
  <2>5. ~(j < k)
    BY <1>1, <2>2, <2>4 DEF NextToTell
  <2>6. i < j
    BY <1>1, <1>2, <2>1, <2>3, <2>4, <2>5
  <2>. QED
    BY <1>1, <1>6, <2>4, <2>6 DEF Later
<1>. QED
  BY <1>2, <1>6, <1>7, <1>8, <1>9, <1>10 DEF ToldOK

\* SetAllLoaded from position k, as a step.
LEMMA TellNext ==
    ASSUME PluginInv', NEW fs \in Seq(Frames), Loading(fs) = {}, Telling(fs) = {}, OneTells(fs),
           NEW s, NEW k, NextToTell(s, Asked(fs), k), NEW c, c = TellAll(s, k),
           m' = c.m, stack' = fs \o c.call
    PROVE  ToldInv'
<1>1. PICK o, S : S = ToTell(s) /\ o = FirstFrom(s, k, S)
  OBVIOUS
<1>2. c = Tell(s, o)
  BY <1>1 DEF TellAll, ToTell
<1>3. Managers(s) /\ s.m_Plugins \in Seq(Nat) /\ k \in Nat /\ k >= 1 /\ DOMAIN s.m_Plugins = 1..Len(s.m_Plugins)
  BY DEF NextToTell, Managers
<1>4. \/ o = Nobody /\ \A i \in k..Len(s.m_Plugins) : s.m_Plugins[i] \notin S
      \/ \E i \in k..Len(s.m_Plugins) :
           /\ o = s.m_Plugins[i] /\ o \in S /\ i \in DOMAIN s.m_Plugins
           /\ \A j \in k..i - 1 : s.m_Plugins[j] \notin S
  <2>1. s.m_Plugins \in Seq(Nat) /\ k \in Nat /\ k >= 1
    BY <1>3
  <2>2. \/ /\ FirstFrom(s, k, S) = Nobody
           /\ \A i \in k..Len(s.m_Plugins) : s.m_Plugins[i] \notin S
        \/ \E i \in k..Len(s.m_Plugins) :
             /\ FirstFrom(s, k, S) = s.m_Plugins[i] /\ s.m_Plugins[i] \in S
             /\ i \in DOMAIN s.m_Plugins
             /\ \A j \in k..i - 1 : s.m_Plugins[j] \notin S
    BY <2>1, FirstFromFinds
  <2>. QED
    BY <1>1, <2>2
<1>5. stack' \in Seq(Frames)
  BY DEF PluginInv, ConfigOK
<1>6. CASE o = Nobody
  <2>1. PICK e : e = <<>>
    OBVIOUS
  <2>2. c.m = s /\ c.call = e
    BY <1>2, <1>6, <2>1, ConfigFields DEF Tell
  <2>3. \A i \in DOMAIN s.m_Plugins : i >= k => s.m_Plugins[i] \notin ToTell(s)
    <3>1. Nobody \notin S
      BY <1>1, <1>3, ListedTyped DEF ToTell
    <3>2. \A i \in k..Len(s.m_Plugins) : s.m_Plugins[i] \notin S
      BY <1>4, <1>6, <3>1
    <3>. QED
      BY <1>1, <1>3, <3>2
  <2>4. ToldOK(s, {}, Asked(fs), {})
    BY <2>3, TellEnds
  <2>5. fs \o e = fs
    <3>1. PICK F : F = Frames
      OBVIOUS
    <3>2. fs \in Seq(F)
      BY <3>1
    <3>. QED
      BY <2>1, <3>2
  <2>6. ToldFor(s, fs)
    BY <2>4 DEF ToldFor
  <2>. QED
    BY <2>2, <2>5, <2>6 DEF ToldInv
<1>7. CASE o # Nobody
  <2>0. PICK i \in k..Len(s.m_Plugins) : /\ o = s.m_Plugins[i] /\ o \in S /\ i \in DOMAIN s.m_Plugins
                                         /\ \A j \in k..i - 1 : s.m_Plugins[j] \notin S
    BY <1>4, <1>7
  <2>1. /\ i \in DOMAIN s.m_Plugins /\ i >= k /\ o = s.m_Plugins[i] /\ o \in ToTell(s)
        /\ \A j \in k..i - 1 : s.m_Plugins[j] \notin ToTell(s)
    BY <1>1, <1>3, <2>0
  <2>2. \A j \in DOMAIN s.m_Plugins : j >= k /\ j < i => s.m_Plugins[j] \notin ToTell(s)
    BY <1>3, <2>1
  <2>3. PICK fr, t : /\ fr = Frame("AllPluginsLoaded", o, s.pl[o].m_File, Then("setall", o, 0))
                     /\ t = [s EXCEPT !.pl[o].told = @ + 1]
    OBVIOUS
  <2>4. c.m = t /\ c.call = <<fr>>
    <3>1. c = Config(t, <<fr>>)
      BY <1>2, <1>7, <2>3 DEF Tell
    <3>. QED
      BY <3>1, ConfigFields
  <2>5. ToldOnceMore(s, t, o)
    <3>1. Shape(s) /\ o \in DOMAIN s.pl
      BY <1>3, <2>1, ShapeOfManager DEF ToTell
    <3>. QED
      BY <2>3, <3>1, TellsOne DEF TellOnce
  <2>6. PICK A : A = Asked(fs)
    OBVIOUS
  <2>7. ToldOK(t, {}, A, {o})
    BY <2>1, <2>2, <2>5, <2>6, TellFound
  <2>8. PICK gs : gs = fs \o <<fr>>
    OBVIOUS
  <2>9. OneMore(fs, fr, gs)
    BY <1>5, <2>4, <2>8, OnTop
  <2>10. fr.kind = "AllPluginsLoaded" /\ fr.then.what = "setall" /\ fr.obj = o
    BY <2>3 DEF Frame, Then
  <2>11. Loading(gs) = {} /\ Asked(gs) = A /\ Telling(gs) = {o} /\ OneTells(gs)
    <3>1. Loading(gs) = Loading(fs) \cup LoadingIn(fr)
      BY <2>9, OneMoreSets
    <3>2. /\ Asked(gs) = Asked(fs) \cup AskedIn(fr)
          /\ Telling(gs) = Telling(fs) \cup TellingIn(fr)
          /\ OneTells(gs)
      BY <2>9, OneMoreTold
    <3>3. LoadingIn(fr) = {} /\ AskedIn(fr) = {} /\ TellingIn(fr) = {o}
      BY <2>10 DEF LoadingIn, AskedIn, TellingIn
    <3>. QED
      BY <2>6, <3>1, <3>2, <3>3
  <2>12. ToldFor(t, gs)
    BY <2>7, <2>11 DEF ToldFor
  <2>. QED
    BY <2>4, <2>8, <2>12 DEF ToldInv
<1>. QED
  BY <1>6, <1>7

\* AllPluginsLoaded returns to SetAllLoaded.
LEMMA SetAllReturnsTold ==
    ASSUME PluginInv', PluginInv, ToldInv, AllPluginsLoadedReturns, Top.then.what = "setall"
    PROVE  ToldInv'
<1>1. PICK fs, fr, o, k, l : fs = Below /\ fr = Top /\ o = fr.obj /\ k = Position(m, o) + 1 /\ l = m.m_Plugins
  OBVIOUS
<1>2. stack # <<>> /\ fr.kind = "AllPluginsLoaded" /\ fr.then.what = "setall"
  BY <1>1 DEF AllPluginsLoadedReturns, Returns
<1>3. PoppedTold(fs, fr)
  BY <1>1, <1>2, PopsTold
<1>4. LoadingIn(fr) = {} /\ AskedIn(fr) = {} /\ TellingIn(fr) = {o}
  BY <1>1, <1>2 DEF LoadingIn, AskedIn, TellingIn
<1>5. PICK L, A : L = Loading(fs) /\ A = Asked(fs)
  OBVIOUS
<1>6. fs \in Seq(Frames) /\ OneTells(fs) /\ Telling(fs) = {} /\ ToldOK(m, L, A, {o})
  <2>1. L \cup {} = L /\ A \cup {} = A /\ {} \cup {o} = {o}
    OBVIOUS
  <2>2. Telling(fs) = {} /\ ToldOK(m, L \cup {}, A \cup {}, {} \cup {o}) /\ fs \in Seq(Frames) /\ OneTells(fs)
    BY <1>2, <1>3, <1>4, <1>5 DEF PoppedTold
  <2>. QED
    BY <2>1, <2>2
<1>7. L = {} /\ m.m_AllLoaded /\ ToldWell(m) /\ \A x \in A \cap DOMAIN m.pl : m.pl[x].told = 1
  BY <1>6 DEF ToldOK
<1>8. Managers(m) /\ Once(m) /\ l \in Seq(Nat) /\ \A a, b \in DOMAIN l : l[a] = l[b] => a = b
  BY <1>1, InvListed DEF Managers, Once
<1>9. PICK p \in DOMAIN l : l[p] = o /\ k = p + 1
  <2>1. o \in On(m)
    <3>1. Popped(fs, fr)
      BY <1>1, <1>2, InvPops
    <3>2. FrameOK(m, Waiting(m), fr)
      BY <3>1 DEF Popped, MayRun
    <3>. QED
      BY <1>1, <1>2, <3>2 DEF FrameOK
  <2>2. \E i \in DOMAIN m.m_Plugins : m.m_Plugins[i] = o
    BY <2>1 DEF On, Elements
  <2>. QED
    BY <1>1, <2>2 DEF Position
<1>10. p \in Nat /\ p >= 1 /\ k \in Nat /\ k >= 1
  BY <1>8, <1>9
<1>11. ASSUME NEW i \in DOMAIN l, i >= k
       PROVE  m.pl[l[i]].told = 0
  <2>1. p < i
    BY <1>8, <1>9, <1>10, <1>11
  <2>2. l[i] \in Later(m, o)
    BY <1>1, <1>9, <2>1 DEF Later
  <2>. QED
    BY <1>6, <2>2 DEF ToldOK
<1>12. ASSUME NEW i \in DOMAIN l, i < k, m.pl[l[i]].m_Status = "Running"
       PROVE  m.pl[l[i]].told # 0
  <2>1. SUFFICES ASSUME m.pl[l[i]].told = 0
                 PROVE  FALSE
    OBVIOUS
  <2>2. l[i] \in On(m)
    BY <1>1 DEF On, Elements
  <2>3. l[i] \in Later(m, o)
    BY <1>6, <1>7, <1>12, <2>1, <2>2 DEF ToldOK
  <2>4. PICK a, j \in DOMAIN l : a < j /\ l[a] = o /\ l[j] = l[i]
    BY <1>1, <2>3 DEF Later
  <2>5. a = p /\ j = i
    BY <1>8, <1>9, <2>4
  <2>. QED
    BY <1>8, <1>9, <1>12, <2>4, <2>5
<1>13. NextToTell(m, A, k)
  BY <1>1, <1>7, <1>8, <1>10, <1>11, <1>12 DEF NextToTell
<1>14. PICK c : c = TellAll(m, k)
  OBVIOUS
<1>15. m' = c.m /\ stack' = fs \o c.call
  BY <1>1, <1>2, <1>14 DEF AllPluginsLoadedReturns, Becomes
<1>. QED
  BY <1>5, <1>6, <1>7, <1>13, <1>14, <1>15, TellNext

\* Only Metamod's own handler is under way.
LEMMA OnlyHandlers ==
    ASSUME PluginInv, \A k \in DOMAIN stack : stack[k].file = Metamod
    PROVE  Loading(stack) = {} /\ Asked(stack) = {} /\ Telling(stack) = {} /\ OneTells(stack)
<1>1. ASSUME NEW k \in DOMAIN stack
      PROVE  stack[k].kind = "handler" /\ stack[k].then.what = "nothing"
  <2>1. FrameOK(m, Waiting(m), stack[k])
    BY InvListed DEF StackOK
  <2>2. CASE stack[k].kind # "handler"
    <3>1. stack[k].obj \in On(m) /\ m.pl[stack[k].obj].m_File = Metamod
      BY <2>1, <2>2 DEF FrameOK
    <3>2. m.pl[stack[k].obj].m_File \in Files
      <4>1. m.pl[stack[k].obj] \in CPlugins
        BY <3>1, InvListed, ListedTyped
      <4>. QED
        BY <4>1 DEF CPlugins
    <3>. QED
      BY <3>1, <3>2, MetamodAssumption
  <2>3. CASE stack[k].kind = "handler"
    BY <2>1, <2>3 DEF FrameOK, Fits
  <2>. QED
    BY <2>2, <2>3
<1>. QED
  BY <1>1 DEF Loading, Asked, Telling, OneTells

\* SetAllLoaded sets m_AllLoaded and tells the first.
LEMMA SetAllLoadedTold ==
    ASSUME PluginInv', PluginInv, ToldInv, SetAllLoaded
    PROVE  ToldInv'
<1>1. PICK t, k : t = [m EXCEPT !.m_AllLoaded = TRUE] /\ k = 1
  OBVIOUS
<1>2. PICK c : c = TellAll(t, k)
  OBVIOUS
<1>3. m' = c.m /\ stack' = stack \o c.call /\ ~m.m_AllLoaded
  BY <1>1, <1>2 DEF SetAllLoaded, Becomes
<1>4. \A i \in DOMAIN stack : stack[i].file = Metamod
  BY OwnFrames DEF SetAllLoaded
<1>5. /\ Loading(stack) = {} /\ Asked(stack) = {} /\ Telling(stack) = {} /\ OneTells(stack)
      /\ stack \in Seq(Frames)
  BY <1>4, OnlyHandlers, InvListed
<1>6. t.pl = m.pl /\ t.m_Plugins = m.m_Plugins /\ t.m_AllLoaded
  <2>1. PICK all : all = TRUE
    OBVIOUS
  <2>2. t = Rec(m.pl, m.made, m.m_Plugins, m.m_LastId, all, m.hooks, m.lib, m.pending)
    BY <1>1, <2>1, WithAllLoaded, InvListed DEF Shape
  <2>. QED
    BY <2>1, <2>2 DEF Rec
<1>7. Managers(t)
  BY <1>1, InvListed, AllLoadedSet
<1>8. ToldWell(m) /\ \A o \in DOMAIN m.pl : m.pl[o].told = 0
  BY <1>3 DEF ToldInv, ToldFor, ToldOK
<1>9. On(t) = On(m) /\ Once(t) /\ On(m) \subseteq DOMAIN m.pl
  BY <1>6, InvListed DEF On, Once
<1>10. ToldWell(t)
  BY <1>6, <1>8, <1>9 DEF ToldWell
<1>11. \A i \in DOMAIN t.m_Plugins : i >= 1 /\ t.pl[t.m_Plugins[i]].told = 0
  <2>1. t.m_Plugins \in Seq(Nat) /\ \A i \in DOMAIN t.m_Plugins : t.m_Plugins[i] \in DOMAIN t.pl
    BY <1>7, ListedTyped DEF Managers
  <2>. QED
    BY <1>6, <1>8, <2>1
<1>12. \A i \in DOMAIN t.m_Plugins : ~(i < 1)
  <2>1. DOMAIN t.m_Plugins = 1..Len(t.m_Plugins)
    BY <1>7 DEF Managers
  <2>. QED
    BY <2>1
<1>13. NextToTell(t, Asked(stack), k)
  BY <1>1, <1>5, <1>6, <1>7, <1>9, <1>10, <1>11, <1>12 DEF NextToTell
<1>. QED
  BY <1>2, <1>3, <1>5, <1>13, TellNext

-----------------------------------------------------------------------------
(* A plugin of another status. *)
Became(s, t, o, x, n) ==
    /\ Shape(t) /\ o \in DOMAIN s.pl /\ DOMAIN t.pl = DOMAIN s.pl
    /\ t.pl[o].m_Status = x /\ t.pl[o].told = n /\ t.pl[o].m_API = s.pl[o].m_API
    /\ \A y \in DOMAIN s.pl : y # o => t.pl[y] = s.pl[y]
    /\ t.m_Plugins = s.m_Plugins /\ t.m_AllLoaded = s.m_AllLoaded

\* A change of status leaves the list alone.
LEMMA BecameListed ==
    ASSUME NEW s, Listed1(s), NEW t, NEW o, NEW x, NEW n, Became(s, t, o, x, n)
    PROVE  Listed1(t) /\ On(t) = On(s)
<1>1. On(t) = On(s) /\ (Once(s) => Once(t))
  BY DEF Became, On, Once
<1>. QED
  BY <1>1 DEF Listed1, Became

\* A change of status.
LEMMA BecameByStatus ==
    ASSUME NEW s, NEW o, NEW x, NEW t, StatusIs(s, t, o, x), o \in DOMAIN s.pl, s.pl[o] \in CPlugins, x \in Statuses
    PROVE  Became(s, t, o, x, s.pl[o].told)
<1>1. t.pl[o] = [s.pl[o] EXCEPT !.m_Status = x]
  BY DEF StatusIs
<1>2. t.pl[o].m_Status = x /\ t.pl[o].told = s.pl[o].told /\ t.pl[o].m_API = s.pl[o].m_API
  BY <1>1 DEF CPlugins
<1>3. Shape(t)
  BY ShapeOfManager DEF StatusIs
<1>. QED
  BY <1>2, <1>3 DEF StatusIs, Became

\* A change of status, and AllPluginsLoaded called.
LEMMA BecameTold ==
    ASSUME NEW s, Shape(s), NEW o, NEW x, NEW r, Became(s, r, o, x, 0), NEW t, t = TellOnce(r, o)
    PROVE  Became(s, t, o, x, 1)
<1>1. Shape(r) /\ o \in DOMAIN r.pl /\ r.pl[o] \in CPlugins /\ r.pl[o].told = 0
  BY DEF Became, Shape
<1>2. ToldOnceMore(r, t, o) /\ IsRec(t)
  BY <1>1, TellsOne
<1>3. t.pl[o] = [r.pl[o] EXCEPT !.told = @ + 1]
  BY <1>2 DEF ToldOnceMore
<1>4. /\ t.pl[o].told = 1 /\ t.pl[o].m_Status = r.pl[o].m_Status /\ t.pl[o].m_API = r.pl[o].m_API
      /\ t.pl[o] \in CPlugins
  BY <1>1, <1>3 DEF CPlugins
<1>5. \A y \in DOMAIN t.pl : t.pl[y] \in CPlugins
  BY <1>1, <1>2, <1>4 DEF ToldOnceMore, Shape
<1>6. Shape(t)
  BY <1>1, <1>2, <1>5 DEF ToldOnceMore, Shape
<1>. QED
  BY <1>2, <1>4, <1>6 DEF ToldOnceMore, Became

\* How a plugin may go on without breaking what is promised about it.
MayGoOn(s, o, x, n) ==
    /\ x # "Paused" \/ n = 1
    /\ n = 0 \/ (n = 1 /\ ~Failed(x) /\ s.m_AllLoaded)
    /\ ~Failed(x) => s.pl[o].m_API
    /\ n = 0 => s.pl[o].told = 0 /\ (s.m_AllLoaded => x # "Running")

\* When a plugin may go on that way, what was known of everybody holds still.
LEMMA BecameGoesOn ==
    ASSUME NEW s, Listed1(s), NEW L, NEW A, NEW T, ToldOK(s, L, A, T), NEW o, NEW x, NEW n, NEW t,
           Became(s, t, o, x, n), NEW L2, L2 = L \/ L2 = L \ {o}, o \notin L2, MayGoOn(s, o, x, n),
           \A y \in T : o \notin Later(s, y)
    PROVE  ToldOK(t, L2, A, T)
<1>1. /\ o \in DOMAIN s.pl /\ DOMAIN t.pl = DOMAIN s.pl
      /\ t.pl[o].m_Status = x /\ t.pl[o].told = n /\ t.pl[o].m_API = s.pl[o].m_API
      /\ \A y \in DOMAIN s.pl : y # o => t.pl[y] = s.pl[y]
      /\ t.m_Plugins = s.m_Plugins /\ t.m_AllLoaded = s.m_AllLoaded
  BY DEF Became
<1>2. On(t) = On(s) /\ On(t) \subseteq DOMAIN t.pl
  BY <1>1, BecameListed DEF Listed1
<1>3. \A y : Later(t, y) = Later(s, y)
  BY <1>1 DEF Later
<1>4. ToldWell(t)
  <2>1. ASSUME NEW y \in DOMAIN t.pl
        PROVE  /\ t.pl[y].told > 0 => t.pl[y].told = 1 /\ ~Failed(t.pl[y].m_Status)
               /\ t.pl[y].m_Status = "Paused" => t.pl[y].told = 1
               /\ y \in On(t) /\ ~Failed(t.pl[y].m_Status) => t.pl[y].m_API
    <3>1. CASE y = o
      BY <1>1, <3>1 DEF MayGoOn
    <3>2. CASE y # o
      BY <1>1, <1>2, <2>1, <3>2 DEF ToldOK, ToldWell
    <3>. QED
      BY <3>1, <3>2
  <2>. QED
    BY <1>2, <2>1 DEF ToldWell
<1>5. ~t.m_AllLoaded => T = {} /\ \A y \in DOMAIN t.pl : t.pl[y].told = 0
  BY <1>1 DEF ToldOK, MayGoOn
<1>6. \A y \in L2 \cap DOMAIN t.pl : t.pl[y].told = 0
  BY <1>1 DEF ToldOK
<1>7. \A y \in A \cap DOMAIN t.pl : t.pl[y].told = 1
  BY <1>1 DEF ToldOK, MayGoOn
<1>8. \A y \in T : \A z \in Later(t, y) : t.pl[z].told = 0
  <2>. SUFFICES ASSUME NEW y \in T, NEW z \in Later(t, y)
                PROVE  t.pl[z].told = 0
    OBVIOUS
  <2>1. z # o /\ z \in DOMAIN s.pl /\ z \in Later(s, y)
    BY <1>1, <1>2, <1>3, LaterListed
  <2>. QED
    BY <1>1, <2>1 DEF ToldOK
<1>9. ASSUME t.m_AllLoaded, NEW y \in On(t), t.pl[y].m_Status = "Running", t.pl[y].told = 0
      PROVE  y \in L2 \/ \E z \in T : y \in Later(t, z)
  <2>1. y # o
    BY <1>1, <1>9 DEF MayGoOn
  <2>2. y \in On(s) /\ s.pl[y].m_Status = "Running" /\ s.pl[y].told = 0
    BY <1>1, <1>2, <1>9, <2>1
  <2>3. y \in L \/ \E z \in T : y \in Later(s, z)
    BY <1>1, <1>9, <2>2 DEF ToldOK
  <2>. QED
    BY <1>3, <2>1, <2>3
<1>10. (T # {} => L2 = {}) /\ \A y, z \in T : y = z
  BY DEF ToldOK
<1>. QED
  BY <1>4, <1>5, <1>6, <1>7, <1>8, <1>9, <1>10 DEF ToldOK

\* The same, as a step.
LEMMA ChangedStep ==
    ASSUME PluginInv', PluginInv, NEW fs \in Seq(Frames), OneTells(fs), NEW L, ToldOK(m, L, Asked(fs), Telling(fs)),
           NEW o, NEW x, NEW n, NEW t, Became(m, t, o, x, n), MayGoOn(m, o, x, n),
           Loading(fs) = L \/ Loading(fs) = L \ {o}, o \notin Loading(fs),
           \A y \in Telling(fs) : o \notin Later(m, y),
           NEW c, GoesOn(t, c), Becomes(c, fs)
    PROVE  ToldInv'
<1>1. PICK L2, A, T : L2 = Loading(fs) /\ A = Asked(fs) /\ T = Telling(fs)
  OBVIOUS
<1>2. ToldOK(t, L2, A, T)
  BY <1>1, InvListed, BecameGoesOn
<1>3. ToldFor(t, fs) /\ Listed1(t)
  BY <1>1, <1>2, InvListed, BecameListed DEF ToldFor
<1>. QED
  BY <1>3, CalmStep DEF Becomes

LoadLeft(fs, fr, o, L) ==
    /\ LoadPops(fs, fr, o, L, Retried(fs) \cup RetriedIn(fr))
    /\ fs \in Seq(Frames) /\ fr.then.id \in Nat /\ OneTells(fs) /\ ToldOK(m, L, Asked(fs), Telling(fs))
    /\ Telling(fs) = {} /\ o \in On(m) /\ o \in DOMAIN m.pl /\ m.pl[o] \in CPlugins /\ m.pl[o].told = 0

\* When Load returns its plugin was not told yet, and SetAllLoaded tells nobody.
LEMMA LoadLeaves ==
    ASSUME PluginInv, ToldInv, stack # <<>>, NEW fs, fs = Below, NEW fr, fr = Top, fr.kind = "Load",
           NEW o, o = fr.obj
    PROVE  LoadLeft(fs, fr, o, Loading(fs) \cup {o})
<1>1. Popped(fs, fr) /\ PoppedTold(fs, fr)
  BY InvPops, PopsTold
<1>2. PICK L, R, A, T : /\ L = Loading(fs) \cup {o} /\ R = Retried(fs) \cup RetriedIn(fr)
                        /\ A = Asked(fs) /\ T = Telling(fs)
  OBVIOUS
<1>3. LoadPops(fs, fr, o, L, R)
  BY <1>1, <1>2, LoadingPops
<1>4. fr.then.what \in {"load", "retry"} /\ o \in On(m)
  BY <1>3 DEF LoadPops
<1>5. LoadingIn(fr) = {o} /\ AskedIn(fr) = {} /\ TellingIn(fr) = {}
  BY <1>4 DEF LoadingIn, AskedIn, TellingIn
<1>6. ToldOK(m, L, A, T) /\ OneTells(fs) /\ fs \in Seq(Frames) /\ fr \in Frames
  <2>1. A \cup {} = A /\ T \cup {} = T
    OBVIOUS
  <2>2. ToldOK(m, L, A \cup {}, T \cup {})
    BY <1>1, <1>2, <1>5 DEF PoppedTold
  <2>. QED
    BY <1>1, <2>1, <2>2 DEF PoppedTold
<1>7. o \in DOMAIN m.pl /\ m.pl[o] \in CPlugins
  BY <1>4, InvListed, ListedTyped
<1>8. T = {} /\ m.pl[o].told = 0
  BY <1>2, <1>6, <1>7 DEF ToldOK
<1>9. fr.then.id \in Nat
  BY <1>6 DEF Frames, Thens
<1>. QED
  BY <1>2, <1>3, <1>4, <1>6, <1>7, <1>8, <1>9 DEF LoadLeft

\* Load returns: a plugin that accepted is told at once if all are loaded.
LEMMA LoadReturnsTold ==
    ASSUME PluginInv', PluginInv, ToldInv, LoadReturns
    PROVE  ToldInv'
<1>1. PICK fs, fr, o, then, loop : fs = Below /\ fr = Top /\ o = fr.obj /\ then = fr.then /\ loop = InLoop
  OBVIOUS
<1>2. stack # <<>> /\ fr.kind = "Load"
  BY <1>1 DEF LoadReturns, Returns
<1>3. PICK L, R : L = Loading(fs) \cup {o} /\ R = Retried(fs) \cup RetriedIn(fr)
  OBVIOUS
<1>4. LoadLeft(fs, fr, o, L)
  BY <1>1, <1>2, <1>3, LoadLeaves
<1>5. LoadPops(fs, fr, o, L, R)
  BY <1>3, <1>4 DEF LoadLeft
<1>6. /\ SitsWell(m, L, R) /\ o \in On(m) /\ m.pl[o].m_Status # "Paused" /\ m.pl[o].m_API
      /\ Loading(fs) = L \ {o} /\ o \notin Loading(fs) /\ then.what \in {"load", "retry"}
  BY <1>1, <1>5 DEF LoadPops, RunsOn
<1>7. /\ fs \in Seq(Frames) /\ then.id \in Nat /\ OneTells(fs) /\ ToldOK(m, L, Asked(fs), Telling(fs))
      /\ o \in DOMAIN m.pl /\ m.pl[o] \in CPlugins /\ m.pl[o].told = 0
      /\ \A y \in Telling(fs) : o \notin Later(m, y)
  BY <1>1, <1>4 DEF LoadLeft
<1>8. PICK x, y : x = "Running" /\ y = "Refused"
  OBVIOUS
<1>9. x \in Statuses /\ y \in Statuses /\ x # "Paused" /\ y # "Paused" /\ ~Failed(x) /\ Failed(y)
  BY <1>8 DEF Statuses, Failed
<1>10. PICK t, r : t = [m EXCEPT !.pl[o].m_Status = x] /\ r = [m EXCEPT !.pl[o].m_Status = y]
  OBVIOUS
<1>11. PICK u : u = TellOnce(t, o)
  OBVIOUS
<1>12. Became(m, t, o, x, 0) /\ Became(m, r, o, y, 0)
  <2>1. StatusIs(m, t, o, x)
    BY <1>6, <1>9, <1>10, StatusSet
  <2>2. StatusIs(m, r, o, y)
    BY <1>6, <1>9, <1>10, StatusSet
  <2>3. Became(m, t, o, x, m.pl[o].told)
    BY <1>7, <1>9, <2>1, BecameByStatus
  <2>4. Became(m, r, o, y, m.pl[o].told)
    BY <1>7, <1>9, <2>2, BecameByStatus
  <2>. QED
    BY <1>7, <2>3, <2>4
<1>13. Became(m, u, o, x, 1)
  BY <1>11, <1>12, InvListed, BecameTold
<1>14. PICK gr : gr = [fr EXCEPT !.kind = "AllPluginsLoaded"]
  OBVIOUS
<1>15. \/ m.m_AllLoaded /\ Becomes(Config(u, <<gr>>), fs)
       \/ ~m.m_AllLoaded /\ Becomes(AfterLoad(t, o, then, loop), fs)
       \/ Becomes(AfterLoad(r, o, then, loop), fs)
  BY <1>1, <1>8, <1>10, <1>11, <1>14 DEF LoadReturns, TellOnce
<1>16. CASE m.m_AllLoaded /\ Becomes(Config(u, <<gr>>), fs)
  <2>1. PICK c, e : e = <<gr>> /\ c = Config(u, e)
    OBVIOUS
  <2>2. c.m = u /\ c.call = e
    BY <2>1, ConfigFields
  <2>3. Calm(gr)
    <3>1. fr \in Frames
      BY <1>5 DEF LoadPops
    <3>2. gr.kind = "AllPluginsLoaded" /\ gr.then = fr.then
      BY <1>14, <3>1 DEF Frames
    <3>. QED
      BY <1>1, <1>6, <3>2 DEF Calm
  <2>4. GoesOn(u, c)
    BY <1>13, <2>1, <2>2, <2>3, SteadyItself DEF GoesOn, Steps, Became
  <2>5. MayGoOn(m, o, x, 1)
    BY <1>6, <1>9, <1>16 DEF MayGoOn
  <2>6. Becomes(c, fs)
    BY <1>16, <2>1
  <2>. QED
    BY <1>6, <1>7, <1>13, <2>4, <2>5, <2>6, ChangedStep
<1>17. CASE ~m.m_AllLoaded /\ Becomes(AfterLoad(t, o, then, loop), fs)
  <2>1. PICK c : c = AfterLoad(t, o, then, loop)
    OBVIOUS
  <2>2. GoesOn(t, c)
    <3>1. Shape(t)
      BY <1>12 DEF Became
    <3>. QED
      BY <1>6, <1>7, <2>1, <3>1, AfterLoadCalm
  <2>3. MayGoOn(m, o, x, 0)
    BY <1>6, <1>7, <1>9, <1>17 DEF MayGoOn
  <2>4. Becomes(c, fs)
    BY <1>17, <2>1
  <2>. QED
    BY <1>6, <1>7, <1>12, <2>2, <2>3, <2>4, ChangedStep
<1>18. CASE Becomes(AfterLoad(r, o, then, loop), fs)
  <2>1. PICK c : c = AfterLoad(r, o, then, loop)
    OBVIOUS
  <2>2. GoesOn(r, c)
    <3>1. Shape(r)
      BY <1>12 DEF Became
    <3>. QED
      BY <1>6, <1>7, <2>1, <3>1, AfterLoadCalm
  <2>3. MayGoOn(m, o, y, 0)
    BY <1>7, <1>8, <1>9 DEF MayGoOn
  <2>4. Becomes(c, fs)
    BY <1>18, <2>1
  <2>. QED
    BY <1>6, <1>7, <1>12, <2>2, <2>3, <2>4, ChangedStep
<1>. QED
  BY <1>15, <1>16, <1>17, <1>18

\* Pause or Unpause returns: whoever agreed was told before.
LEMMA PauseReturnsTold ==
    ASSUME PluginInv', PluginInv, ToldInv, PauseReturns
    PROVE  ToldInv'
<1>1. PICK fs, fr, o, id, k : fs = Below /\ fr = Top /\ o = fr.obj /\ id = m.pl[o].m_Id /\ k = 1
  OBVIOUS
<1>3. PICK kind \in {"Pause", "Unpause"} :
        /\ stack # <<>> /\ fr.kind = kind
        /\ \/ Becomes(PlEvent([m EXCEPT !.hooks = HooksPaused(m, id, kind = "Pause"),
                                        !.pl[o].m_Status = IF kind = "Pause" THEN "Paused" ELSE "Running"],
                              k, o, id), Below)
           \/ Becomes(Config(m, <<>>), Below)
  BY <1>1 DEF PauseReturns, Returns
<1>4. PoppedTold(fs, fr)
  BY <1>1, <1>3, PopsTold
<1>5. fs \in Seq(Frames) /\ fr.then.what = "nothing"
  BY <1>3, <1>4 DEF PoppedTold, Fits
<1>6. ToldFor(m, fs)
  BY <1>3, <1>4, <1>5, PoppedRest
<1>7. PICK L, T : L = Loading(fs) /\ T = Telling(fs)
  OBVIOUS
<1>8. OneTells(fs) /\ ToldOK(m, L, Asked(fs), T)
  BY <1>6, <1>7 DEF ToldFor
<1>9. o \in On(m) /\ o \in DOMAIN m.pl /\ m.pl[o] \in CPlugins
  <2>1. Popped(fs, fr)
    BY <1>1, <1>3, InvPops
  <2>2. FrameOK(m, Waiting(m), fr) /\ Managers(m)
    BY <2>1 DEF Popped, MayRun
  <2>3. o \in On(m)
    BY <1>1, <1>3, <2>2 DEF FrameOK
  <2>. QED
    BY <2>2, <2>3, ListedTyped
<1>10. m.pl[o].told = 1
  <2>1. AskedIn(fr) = {o}
    BY <1>1, <1>3 DEF AskedIn
  <2>. QED
    BY <1>4, <1>9, <2>1 DEF PoppedTold, ToldOK
<1>11. o \notin L /\ (\A y \in T : o \notin Later(m, y)) /\ m.m_AllLoaded
  BY <1>8, <1>9, <1>10 DEF ToldOK
<1>12. PICK x, paused : x = (IF kind = "Pause" THEN "Paused" ELSE "Running") /\ paused = (kind = "Pause")
  OBVIOUS
<1>13. x \in Statuses /\ paused \in BOOLEAN /\ (paused <=> x = "Paused") /\ ~Failed(x)
  BY <1>12 DEF Statuses, Failed
<1>14. PICK t : t = [m EXCEPT !.hooks = HooksPaused(m, m.pl[o].m_Id, paused), !.pl[o].m_Status = x]
  OBVIOUS
<1>15. Became(m, t, o, x, 1)
  <2>1. StatusIs(m, t, o, x)
    BY <1>9, <1>13, <1>14, InvListed, PauseSet
  <2>2. Became(m, t, o, x, m.pl[o].told)
    BY <1>9, <1>13, <2>1, BecameByStatus
  <2>. QED
    BY <1>10, <2>2
<1>16. MayGoOn(m, o, x, 1)
  <2>1. m.pl[o].m_API
    <3>1. ~Failed(m.pl[o].m_Status)
      BY <1>8, <1>9, <1>10 DEF ToldOK, ToldWell
    <3>. QED
      BY <1>8, <1>9, <3>1 DEF ToldOK, ToldWell
  <2>. QED
    BY <1>11, <1>13, <2>1 DEF MayGoOn
<1>17. CASE Becomes(PlEvent(t, k, o, id), fs)
  <2>1. PICK c : c = PlEvent(t, k, o, id)
    OBVIOUS
  <2>2. GoesOn(t, c)
    <3>1. Shape(t)
      BY <1>15 DEF Became
    <3>. QED
      BY <2>1, <3>1, EventCalm
  <2>3. Becomes(c, fs)
    BY <1>17, <2>1
  <2>. QED
    BY <1>5, <1>7, <1>8, <1>11, <1>15, <1>16, <2>2, <2>3, ChangedStep
<1>18. CASE Becomes(Config(m, <<>>), fs)
  <2>1. PICK d : d = Config(m, <<>>)
    OBVIOUS
  <2>2. GoesOn(m, d)
    BY <2>1, InvListed, StandsStill
  <2>. QED
    BY <1>5, <1>6, <1>18, <2>1, <2>2, RunningOn
<1>. QED
  BY <1>1, <1>3, <1>12, <1>14, <1>17, <1>18

\* Only a plugin that was told is asked to pause or unpause.
LEMMA PausingTold ==
    ASSUME PluginInv', PluginInv, ToldInv, NEW o \in Elements(m.m_Plugins), NEW kind \in {"Pause", "Unpause"},
           NEW status, Pausing(o, kind, status), m.pl[o].told = 1
    PROVE  ToldInv'
<1>1. PICK fr : fr = Frame(kind, o, m.pl[o].m_File, Nothing)
  OBVIOUS
<1>2. PICK e, gs : e = <<fr>> /\ gs = stack \o e
  OBVIOUS
<1>3. m' = m /\ stack' = gs
  <2>1. PICK c : c = Config(m, e)
    OBVIOUS
  <2>2. c.m = m /\ c.call = e
    BY <2>1, ConfigFields
  <2>3. m' = c.m /\ stack' = stack \o c.call
    BY <1>1, <1>2, <2>1 DEF Pausing, Becomes
  <2>. QED
    BY <1>2, <2>2, <2>3
<1>4. stack \in Seq(Frames) /\ gs \in Seq(Frames)
  BY <1>3, InvListed DEF PluginInv, ConfigOK
<1>5. OneMore(stack, fr, gs)
  BY <1>2, <1>4, OnTop
<1>6. fr.kind = kind /\ fr.obj = o /\ fr.then.what = "nothing"
  BY <1>1 DEF Frame, Nothing, Then
<1>7. LoadingIn(fr) = {} /\ AskedIn(fr) = {o} /\ TellingIn(fr) = {}
  BY <1>6 DEF LoadingIn, AskedIn, TellingIn
<1>8. PICK L, A, T : L = Loading(stack) /\ A = Asked(stack) /\ T = Telling(stack)
  OBVIOUS
<1>9. ToldOK(m, L, A, T) /\ OneTells(stack)
  BY <1>8 DEF ToldInv, ToldFor
<1>10. Loading(gs) = L /\ Asked(gs) = A \cup {o} /\ Telling(gs) = T /\ OneTells(gs)
  <2>1. Loading(gs) = Loading(stack) \cup LoadingIn(fr)
    BY <1>5, OneMoreSets
  <2>2. /\ Asked(gs) = Asked(stack) \cup AskedIn(fr)
        /\ Telling(gs) = Telling(stack) \cup TellingIn(fr)
        /\ OneTells(stack) /\ (fr.then.what = "setall" => Telling(stack) = {}) => OneTells(gs)
    BY <1>5, OneMoreTold
  <2>. QED
    BY <1>6, <1>7, <1>8, <1>9, <2>1, <2>2
<1>11. ToldOK(m, L, A \cup {o}, T)
  BY <1>9 DEF ToldOK
<1>12. ToldFor(m, gs)
  BY <1>10, <1>11 DEF ToldFor
<1>. QED
  BY <1>3, <1>12 DEF ToldInv

\* A plugin that is asked to pause has been told: nobody pauses before all are
\* loaded, or from AllPluginsLoaded.
LEMMA PauseTold ==
    ASSUME PluginsBehave, PluginInv', PluginInv, ToldInv, NEW o \in Elements(m.m_Plugins), Pause(o)
    PROVE  ToldInv'
<1>1. m.m_AllLoaded /\ ~LoadingOf("AllPluginsLoaded")
  BY Denied DEF Pause
<1>2. Pausing(o, "Pause", "Running")
  BY DEF Pause
<1>3. ~Busy(o) /\ m.pl[o].m_Status = "Running"
  BY <1>2 DEF Pausing
<1>4. Telling(stack) = {}
  <2>1. \A k \in DOMAIN stack : stack[k].then.what = "setall" => stack[k].kind = "AllPluginsLoaded"
    BY InvListed, AskedAndTelling
  <2>. QED
    BY <1>1, <2>1 DEF Telling, LoadingOf
<1>5. o \notin Loading(stack)
  BY <1>3 DEF Busy, Loading
<1>6. o \in On(m) /\ o \in DOMAIN m.pl /\ m.pl[o].told \in Nat
  BY InvListed DEF On, Shape, CPlugins
<1>7. m.pl[o].told = 1
  BY <1>1, <1>3, <1>4, <1>5, <1>6 DEF ToldInv, ToldFor, ToldOK, ToldWell
<1>. QED
  BY <1>2, <1>7, PausingTold

\* A paused plugin was told before it was paused.
LEMMA UnpauseTold ==
    ASSUME PluginInv', PluginInv, ToldInv, NEW o \in Elements(m.m_Plugins), Unpause(o)
    PROVE  ToldInv'
<1>1. Pausing(o, "Unpause", "Paused")
  BY DEF Unpause
<1>2. o \in DOMAIN m.pl /\ m.pl[o].m_Status = "Paused"
  BY <1>1, InvListed DEF On, Pausing
<1>3. m.pl[o].told = 1
  BY <1>2 DEF ToldInv, ToldFor, ToldOK, ToldWell
<1>. QED
  BY <1>1, <1>3, PausingTold

-----------------------------------------------------------------------------
(* Loading. *)
\* Erasing from the list leaves a manager in order.
LEMMA ErasedManaged ==
    ASSUME NEW s, Managers(s), Once(s), NEW M, NEW t, t = Erased(s, M)
    PROVE  Managers(t) /\ Once(t) /\ Steps(s, t) /\ t.pl = s.pl
<1>1. Steps(s, t) /\ t.pl = s.pl
  BY ShapeOfManager, ErasedSteps
<1>2. PICK l, q : l = Without(s.m_Plugins, M) /\ q = s.m_Plugins
  OBVIOUS
<1>3. l \in Seq(Nat) /\ Elements(l) = On(s) \ M /\ Sublist(l, q)
  BY <1>2, SublistOfPlugins
<1>4. t = Rec(s.pl, s.made, l, s.m_LastId, s.m_AllLoaded, s.hooks, s.lib, s.pending)
  BY <1>2, WithList DEF Managers, Erased
<1>5. /\ IsRec(t) /\ t.pl = s.pl /\ t.made = s.made /\ t.m_Plugins = l /\ t.m_LastId = s.m_LastId
      /\ t.hooks = s.hooks /\ t.lib = s.lib /\ t.pending = s.pending
  BY <1>4 DEF Rec, IsRec
<1>6. Elements(l) \subseteq DOMAIN t.pl
  BY <1>3, <1>5 DEF Managers, On
<1>7. Managers(t)
  BY <1>3, <1>5, <1>6 DEF Managers
<1>8. q \in Seq(Nat) /\ \A i, j \in DOMAIN q : q[i] = q[j] => i = j
  BY <1>2 DEF Managers, Once
<1>9. DOMAIN l \subseteq Nat /\ DOMAIN q \subseteq Nat
  BY <1>3, <1>8
<1>10. \A i, j \in DOMAIN l : i < j => l[i] # l[j]
  BY <1>3, <1>8, <1>9 DEF Sublist
<1>11. Once(t)
  BY <1>5, <1>9, <1>10 DEF Once
<1>. QED
  BY <1>1, <1>7, <1>11

\* A plugin just made.
Newcomer(p) == p \in CPlugins /\ p.told = 0 /\ p.m_Status # "Paused" /\ (~Failed(p.m_Status) => p.m_API)

\* _Load makes a plugin nobody told, that has failed unless its Load is called.
LEMMA OpenedIsNew ==
    ASSUME NEW s, Managers(s), NEW f \in Files, NEW kind, NEW status \in {"Refused", "Running"},
           NEW p, p = Opened(s, f, kind, status)
    PROVE  Newcomer(p) /\ (kind # "Load" => Failed(p.m_Status))
<1>1. OpenedAs(s, f, kind, status, p)
  BY OpenedIsFresh
<1>2. p.told = 0
  BY DEF Opened, NewPlugin
<1>3. p.m_Status # "Paused"
  BY <1>1 DEF OpenedAs, Failed
<1>4. ~Failed(p.m_Status) => p.m_API
  BY <1>1 DEF OpenedAs
<1>5. p \in CPlugins
  BY <1>1 DEF OpenedAs, Fresh
<1>. QED
  BY <1>1, <1>2, <1>3, <1>4, <1>5 DEF Newcomer, OpenedAs

JoinsAs(s, t, o, p) ==
    /\ Shape(t) /\ Listed1(t) /\ On(t) = On(s) \cup {o} /\ o \notin DOMAIN s.pl
    /\ DOMAIN t.pl = DOMAIN s.pl \cup {o} /\ t.pl[o] = p /\ \A x \in DOMAIN s.pl : t.pl[x] = s.pl[x]
    /\ t.m_AllLoaded = s.m_AllLoaded

\* It joins the list at its end.
LEMMA AddedJoins ==
    ASSUME NEW s, Managers(s), Once(s), NEW f, NEW p \in CPlugins, NEW o, o = s.made + 1, NEW t, t = Added(s, f, p)
    PROVE  JoinsAs(s, t, o, p)
<1>1. PICK lib, q, d, last :
        /\ lib = [s.lib EXCEPT ![f] = OpenedLib(@, p)] /\ q = Append(s.m_Plugins, o) /\ last = s.m_LastId + 1
        /\ d = [x \in DOMAIN s.pl \cup {o} |-> IF x = o THEN p ELSE s.pl[x]]
  OBVIOUS
<1>2. t = WithObject(s, o, last, q, d, lib)
  BY <1>1 DEF Added, WithObject
<1>3. t = Rec(d, o, q, last, s.m_AllLoaded, s.hooks, lib, s.pending)
  BY <1>2, WithNew DEF Managers
<1>4. IsRec(t) /\ t.pl = d /\ t.m_Plugins = q /\ t.m_AllLoaded = s.m_AllLoaded
  BY <1>3 DEF Rec, IsRec
<1>5. o \in Nat /\ o \notin DOMAIN s.pl
  BY DEF Managers
<1>6. DOMAIN d = DOMAIN s.pl \cup {o} /\ d[o] = p /\ \A x \in DOMAIN s.pl : d[x] = s.pl[x]
  BY <1>1, <1>5
<1>7. PICK l : l = s.m_Plugins
  OBVIOUS
<1>8. Appends(l, o, q)
  BY <1>1, <1>5, <1>7 DEF Appends, Managers
<1>9. On(s) \subseteq DOMAIN s.pl /\ Elements(l) = On(s) /\ o \notin Elements(l) /\ Distinct(l)
  BY <1>5, <1>7, ListedTyped DEF On, Distinct, Once
<1>10. q \in Seq(Nat) /\ Elements(q) = Elements(l) \cup {o} /\ Distinct(q)
  BY <1>8, <1>9, AppendListed
<1>11. On(t) = On(s) \cup {o} /\ Once(t)
  BY <1>4, <1>9, <1>10 DEF On, Once, Distinct
<1>12. \A x \in DOMAIN t.pl : t.pl[x] \in CPlugins
  BY <1>4, <1>6 DEF Managers
<1>13. Shape(t) /\ Listed1(t)
  BY <1>4, <1>6, <1>9, <1>10, <1>11, <1>12 DEF Shape, Listed1
<1>. QED
  BY <1>4, <1>5, <1>6, <1>11, <1>13 DEF JoinsAs

\* Nobody is being told then, so the newcomer is loading or has failed.
LEMMA JoinsTold ==
    ASSUME NEW s, NEW L, NEW A, NEW T, ToldOK(s, L, A, T), T = {}, A \subseteq DOMAIN s.pl, On(s) \subseteq DOMAIN s.pl,
           NEW o, NEW p, Newcomer(p), NEW t, JoinsAs(s, t, o, p),
           NEW L2, L2 = L \cup {o} \/ (L2 = L /\ Failed(p.m_Status))
    PROVE  ToldOK(t, L2, A, T)
<1>1. /\ On(t) = On(s) \cup {o} /\ o \notin DOMAIN s.pl
      /\ DOMAIN t.pl = DOMAIN s.pl \cup {o} /\ t.pl[o] = p /\ \A x \in DOMAIN s.pl : t.pl[x] = s.pl[x]
      /\ t.m_AllLoaded = s.m_AllLoaded
  BY DEF JoinsAs
<1>2. p.told = 0 /\ p.m_Status # "Paused" /\ (~Failed(p.m_Status) => p.m_API)
  BY DEF Newcomer
<1>3. ToldWell(t)
  <2>1. ASSUME NEW x \in DOMAIN t.pl
        PROVE  /\ t.pl[x].told > 0 => t.pl[x].told = 1 /\ ~Failed(t.pl[x].m_Status)
               /\ t.pl[x].m_Status = "Paused" => t.pl[x].told = 1
               /\ x \in On(t) /\ ~Failed(t.pl[x].m_Status) => t.pl[x].m_API
    <3>1. CASE x = o
      BY <1>1, <1>2, <3>1
    <3>2. CASE x # o
      BY <1>1, <2>1, <3>2 DEF ToldOK, ToldWell
    <3>. QED
      BY <3>1, <3>2
  <2>2. On(t) \subseteq DOMAIN t.pl
    BY <1>1
  <2>. QED
    BY <2>1, <2>2 DEF ToldWell
<1>4. ~t.m_AllLoaded => \A x \in DOMAIN t.pl : t.pl[x].told = 0
  BY <1>1, <1>2 DEF ToldOK
<1>5. \A x \in L2 \cap DOMAIN t.pl : t.pl[x].told = 0
  BY <1>1, <1>2 DEF ToldOK
<1>6. \A x \in A \cap DOMAIN t.pl : t.pl[x].told = 1
  BY <1>1 DEF ToldOK
<1>7. ASSUME t.m_AllLoaded, NEW x \in On(t), t.pl[x].m_Status = "Running", t.pl[x].told = 0
      PROVE  x \in L2
  <2>1. CASE x = o
    <3>1. ~Failed(p.m_Status)
      BY <1>1, <1>7, <2>1 DEF Failed
    <3>. QED
      BY <2>1, <3>1
  <2>2. CASE x # o
    <3>1. x \in On(s) /\ s.pl[x].m_Status = "Running" /\ s.pl[x].told = 0
      BY <1>1, <1>7, <2>2
    <3>2. x \in L
      BY <1>1, <1>7, <3>1 DEF ToldOK
    <3>. QED
      BY <3>2
  <2>. QED
    BY <2>1, <2>2
<1>. QED
  BY <1>3, <1>4, <1>5, <1>6, <1>7 DEF ToldOK

ReadyToLoad(s, fs) ==
    /\ Managers(s) /\ Once(s) /\ On(s) \subseteq DOMAIN s.pl /\ fs \in Seq(Frames) /\ ToldFor(s, fs)
    /\ Telling(fs) = {} /\ Asked(fs) \subseteq DOMAIN s.pl

OfLoad(then) == then.what \in {"load", "retry"} /\ then.id \in Nat

\* _Load, for Load and for Retry.
LEMMA LoadTold ==
    ASSUME PluginInv', NEW s, NEW fs, ReadyToLoad(s, fs), NEW f \in Files, NEW kind, NEW status \in {"Refused", "Running"},
           NEW then, OfLoad(then), NEW loop, NEW c, c = _Load(s, f, kind, status, then, loop),
           m' = c.m, stack' = fs \o c.call
    PROVE  ToldInv'
<1>1. /\ Managers(s) /\ Once(s) /\ On(s) \subseteq DOMAIN s.pl /\ fs \in Seq(Frames) /\ ToldFor(s, fs)
      /\ Telling(fs) = {} /\ Asked(fs) \subseteq DOMAIN s.pl
  BY DEF ReadyToLoad
<1>2. PICK o, p, t : o = s.made + 1 /\ p = Opened(s, f, kind, status) /\ t = Added(s, f, p)
  OBVIOUS
<1>3. Newcomer(p) /\ (kind # "Load" => Failed(p.m_Status)) /\ p \in CPlugins
  BY <1>1, <1>2, OpenedIsNew DEF Newcomer
<1>4. JoinsAs(s, t, o, p)
  BY <1>1, <1>2, <1>3, AddedJoins
<1>5. Shape(t) /\ Listed1(t)
  BY <1>4 DEF JoinsAs
<1>6. PICK L, A, T : L = Loading(fs) /\ A = Asked(fs) /\ T = Telling(fs)
  OBVIOUS
<1>7. ToldOK(s, L, A, T) /\ OneTells(fs) /\ T = {} /\ A \subseteq DOMAIN s.pl
  BY <1>1, <1>6 DEF ToldFor
<1>8. CASE kind = "Load"
  <2>1. PICK u, fr : u = [t EXCEPT !.lib[f].plid = p.m_Id] /\ fr = Frame("Load", o, f, then)
    OBVIOUS
  <2>2. c.m = u /\ c.call = <<fr>>
    <3>1. PICK e : e = <<fr>>
      OBVIOUS
    <3>2. c = Config(u, e)
      BY <1>2, <1>8, <2>1, <3>1 DEF _Load
    <3>3. c.m = u /\ c.call = e
      BY <3>2, ConfigFields
    <3>. QED
      BY <3>1, <3>3
  <2>3. PICK gs : gs = fs \o <<fr>>
    OBVIOUS
  <2>4. m' = u /\ stack' = gs
    BY <2>2, <2>3
  <2>5. gs \in Seq(Frames)
    BY <2>4 DEF PluginInv, ConfigOK
  <2>6. OneMore(fs, fr, gs)
    BY <1>1, <2>3, <2>5, OnTop
  <2>7. fr.kind = "Load" /\ fr.obj = o /\ fr.then.what # "setall"
    BY <2>1 DEF Frame, OfLoad
  <2>8. Loading(gs) = L \cup {o} /\ Asked(gs) = A /\ Telling(gs) = T /\ OneTells(gs)
    <3>1. LoadingIn(fr) = {o} /\ AskedIn(fr) = {} /\ TellingIn(fr) = {}
      BY <2>7 DEF LoadingIn, AskedIn, TellingIn
    <3>2. Loading(gs) = Loading(fs) \cup LoadingIn(fr)
      BY <2>6, OneMoreSets
    <3>3. /\ Asked(gs) = Asked(fs) \cup AskedIn(fr)
          /\ Telling(gs) = Telling(fs) \cup TellingIn(fr)
          /\ OneTells(fs) /\ (fr.then.what = "setall" => Telling(fs) = {}) => OneTells(gs)
      BY <2>6, OneMoreTold
    <3>. QED
      BY <1>6, <1>7, <2>7, <3>1, <3>2, <3>3
  <2>9. PICK L2 : L2 = L \cup {o}
    OBVIOUS
  <2>10. ToldOK(t, L2, A, T)
    BY <1>1, <1>3, <1>4, <1>7, <2>9, JoinsTold
  <2>11. Steps(t, u)
    <3>1. PICK lib : lib = [t.lib EXCEPT ![f].plid = p.m_Id]
      OBVIOUS
    <3>2. u = [t EXCEPT !.lib = lib]
      BY <2>1, <3>1
    <3>3. u = Rec(t.pl, t.made, t.m_Plugins, t.m_LastId, t.m_AllLoaded, t.hooks, lib, t.pending)
      BY <1>5, <3>2, WithLib DEF Shape
    <3>4. IsRec(u) /\ u.pl = t.pl /\ u.m_Plugins = t.m_Plugins /\ u.m_AllLoaded = t.m_AllLoaded /\ u.made = t.made
      BY <3>3, RecFields
    <3>. QED
      BY <1>5, <3>4, OthersStep
  <2>12. u.m_Plugins \in Seq(Nat) /\ On(u) \subseteq DOMAIN u.pl
    <3>1. Managers(u)
      BY <2>4 DEF PluginInv, ConfigOK
    <3>. QED
      BY <3>1, ListedTyped DEF Managers
  <2>13. ToldOK(u, L2, A, T)
    <3>1. Steady(t, u) /\ T \subseteq On(u)
      BY <1>7, <2>11 DEF Steps
    <3>. QED
      BY <1>5, <2>10, <2>12, <3>1, SteadyTold
  <2>. QED
    BY <2>4, <2>8, <2>9, <2>13 DEF ToldInv, ToldFor
<1>9. CASE kind # "Load"
  <2>1. c = AfterLoad(t, o, then, loop)
    BY <1>2, <1>9, LoadStops
  <2>2. GoesOn(t, c)
    BY <1>5, <2>1, AfterLoadCalm DEF OfLoad
  <2>3. ToldOK(t, L, A, T)
    BY <1>1, <1>3, <1>4, <1>7, <1>9, JoinsTold
  <2>4. ToldFor(t, fs)
    BY <1>6, <1>7, <2>3 DEF ToldFor
  <2>. QED
    BY <1>1, <1>5, <2>2, <2>4, CalmStep
<1>. QED
  BY <1>8, <1>9

\* Load drops the failed plugins of the file and loads it.
LEMMA LoadFileTold ==
    ASSUME PluginInv', NEW s, NEW fs, fs = stack, ReadyToLoad(s, fs), NEW f \in Files, LoadFile(s, f)
    PROVE  ToldInv'
<1>1. PICK kind, status, loop : /\ status \in {"Refused", "Running"} /\ loop = InLoop
                                /\ Becomes(Load(s, f, kind, status, InLoop), stack)
  BY DEF LoadFile
<1>2. PICK t, M : M = {o \in SameFile(s, f) : Failed(s.pl[o].m_Status)} /\ t = Erased(s, M)
  OBVIOUS
<1>3. t = Dropped(s, f)
  BY <1>2 DEF Dropped, Erased
<1>4. PICK then : then = Then("load", Nobody, 0)
  OBVIOUS
<1>5. OfLoad(then)
  BY <1>4 DEF OfLoad, Then
<1>6. PICK c : c = _Load(t, f, kind, status, then, loop)
  OBVIOUS
<1>7. c = Load(s, f, kind, status, InLoop)
  BY <1>1, <1>3, <1>4, <1>6 DEF Load
<1>8. m' = c.m /\ stack' = fs \o c.call
  BY <1>1, <1>7 DEF Becomes
<1>9. /\ Managers(s) /\ Once(s) /\ On(s) \subseteq DOMAIN s.pl /\ fs \in Seq(Frames) /\ ToldFor(s, fs)
      /\ Telling(fs) = {} /\ Asked(fs) \subseteq DOMAIN s.pl
  BY DEF ReadyToLoad
<1>10. Managers(t) /\ Once(t) /\ Steps(s, t) /\ t.pl = s.pl
  BY <1>2, <1>9, ErasedManaged
<1>11. Listed1(s) /\ Listed1(t)
  BY <1>9, <1>10, ListedByManager
<1>12. PICK L, A, T : L = Loading(fs) /\ A = Asked(fs) /\ T = Telling(fs)
  OBVIOUS
<1>13. ToldOK(s, L, A, T) /\ OneTells(fs) /\ T \subseteq On(t)
  BY <1>9, <1>12 DEF ToldFor
<1>14. ToldOK(t, L, A, T)
  BY <1>10, <1>11, <1>13, SteadyTold DEF Listed1, Steps
<1>15. ReadyToLoad(t, fs)
  BY <1>9, <1>10, <1>11, <1>12, <1>13, <1>14 DEF ReadyToLoad, ToldFor, Listed1
<1>. QED
  BY <1>1, <1>5, <1>6, <1>8, <1>15, LoadTold

\* On an empty stack nobody is loading, asked or told.
LEMMA NobodyAsked ==
    ASSUME stack = <<>>
    PROVE  Loading(stack) = {} /\ Asked(stack) = {} /\ Telling(stack) = {}
<1>1. DOMAIN stack = {}
  OBVIOUS
<1>. QED
  BY <1>1 DEF Loading, Asked, Telling

\* 'meta load', after the pending unloads.
LEMMA ConsoleLoadTold ==
    ASSUME PluginInv', PluginInv, ToldInv, NEW f \in Files, ConsoleLoad(f)
    PROVE  ToldInv'
<1>1. stack = <<>>
  BY DEF ConsoleLoad, Engine
<1>2. PICK force, s, L, A, T, R : /\ force = TRUE /\ s = ResolvePendingUnloads(m, force) /\ R = Retried(stack)
                                  /\ L = Loading(stack) /\ A = Asked(stack) /\ T = Telling(stack)
  OBVIOUS
<1>3. LoadFile(s, f)
  BY <1>2 DEF ConsoleLoad, ForcedOut
<1>4. L = {} /\ A = {} /\ T = {}
  BY <1>1, <1>2, NobodyAsked
<1>5. SitsWell(m, L, R) /\ force \in BOOLEAN
  BY <1>2, InvRuns
<1>6. Steps(m, s) /\ Managers(s)
  BY <1>2, <1>5, ResolvedSteps
<1>7. Managers(m) /\ PluginsOK(m, Waiting(m), L, R) /\ PendingOK(m) /\ Once(m)
  BY <1>5, InvListed DEF SitsWell
<1>8. Kept(m, s)
  BY <1>2, <1>5, <1>7, ResolveKeepsPlugins
<1>9. Once(s)
  BY <1>6, <1>7, <1>8, KeptOnce
<1>10. Listed1(m) /\ Listed1(s)
  BY <1>6, <1>9, InvListed, ListedByManager
<1>11. ToldOK(m, L, A, T) /\ OneTells(stack)
  BY <1>2 DEF ToldInv, ToldFor
<1>12. ToldOK(s, L, A, T)
  BY <1>4, <1>6, <1>10, <1>11, SteadyTold DEF Listed1, Steps
<1>13. ReadyToLoad(s, stack)
  BY <1>2, <1>4, <1>6, <1>9, <1>10, <1>11, <1>12, InvListed DEF ReadyToLoad, ToldFor, Listed1
<1>. QED
  BY <1>3, <1>13, LoadFileTold

\* While nobody is being told a plugin may be loaded.
LEMMA ReadyNow ==
    ASSUME PluginInv, ToldInv, Telling(stack) = {}
    PROVE  ReadyToLoad(m, stack)
<1>1. Asked(stack) \subseteq On(m)
  BY InvListed, AskedAndTelling
<1>. QED
  BY <1>1, InvListed DEF ReadyToLoad, ToldInv

\* The files are read.
LEMMA ReadingLoadTold ==
    ASSUME PluginInv', PluginInv, ToldInv, NEW f \in Files, ReadingLoad(f)
    PROVE  ToldInv'
<1>1. Telling(stack) = {}
  BY OwnFrames DEF ReadingLoad, Telling
<1>2. ReadyToLoad(m, stack)
  BY <1>1, ReadyNow
<1>3. LoadFile(m, f)
  BY DEF ReadingLoad
<1>. QED
  BY <1>2, <1>3, LoadFileTold

\* A plugin loads a plugin, which behaving plugins do not do from
\* AllPluginsLoaded.
LEMMA PluginLoadTold ==
    ASSUME PluginsBehave, PluginInv', PluginInv, ToldInv, NEW f \in Files, PluginLoad(f)
    PROVE  ToldInv'
<1>1. ~LoadingOf("AllPluginsLoaded")
  BY Denied DEF PluginLoad
<1>2. \A k \in DOMAIN stack : stack[k].then.what = "setall" => stack[k].kind = "AllPluginsLoaded"
  BY InvListed, AskedAndTelling
<1>3. Telling(stack) = {}
  BY <1>1, <1>2 DEF Telling, LoadingOf
<1>4. ReadyToLoad(m, stack)
  BY <1>3, ReadyNow
<1>5. LoadFile(m, f)
  BY DEF PluginLoad
<1>. QED
  BY <1>4, <1>5, LoadFileTold

\* 'meta retry'.
LEMMA RetryTold ==
    ASSUME PluginInv', PluginInv, ToldInv, NEW o \in Elements(m.m_Plugins), Retry(o)
    PROVE  ToldInv'
<1>1. PICK f, loop, status, then, fs :
        /\ f = m.pl[o].m_File /\ loop = InLoop /\ status = "Refused" /\ fs = stack
        /\ then = Then("retry", o, m.pl[o].m_Id)
  OBVIOUS
<1>2. PICK kind : Becomes(_Load(m, f, kind, status, then, loop), stack)
  BY <1>1 DEF Retry
<1>3. stack = <<>>
  BY DEF Retry, Engine
<1>4. ReadyToLoad(m, fs)
  BY <1>1, <1>3, NobodyAsked, ReadyNow
<1>5. m.pl[o] \in CPlugins
  BY InvListed DEF On, Shape
<1>6. f \in Files /\ OfLoad(then) /\ status \in {"Refused", "Running"}
  BY <1>1, <1>5 DEF CPlugins, OfLoad, Then
<1>7. PICK c : c = _Load(m, f, kind, status, then, loop)
  OBVIOUS
<1>8. m' = c.m /\ stack' = fs \o c.call
  BY <1>1, <1>2, <1>7 DEF Becomes
<1>. QED
  BY <1>4, <1>6, <1>7, <1>8, LoadTold

\* Nobody was told before the first load.
LEMMA InitTold ==
    ASSUME Init
    PROVE  ToldInv
<1>1. m.pl = <<>> /\ m.m_Plugins = <<>> /\ m.m_AllLoaded = FALSE /\ stack = <<>>
  BY DEF Init
<1>2. DOMAIN m.pl = {} /\ On(m) = {} /\ DOMAIN stack = {}
  BY <1>1 DEF On, Elements
<1>3. PICK L, A, T : L = Loading(stack) /\ A = Asked(stack) /\ T = Telling(stack)
  OBVIOUS
<1>4. L = {} /\ A = {} /\ T = {}
  BY <1>1, <1>3, NobodyAsked
<1>5. ToldWell(m)
  BY <1>2 DEF ToldWell
<1>6. ToldOK(m, L, A, T)
  BY <1>1, <1>2, <1>4, <1>5 DEF ToldOK
<1>7. OneTells(stack)
  BY <1>2 DEF OneTells
<1>. QED
  BY <1>3, <1>6, <1>7 DEF ToldInv, ToldFor

\* Every step keeps what is known of who was told.
LEMMA NextTold ==
    ASSUME PluginsBehave, PluginInv, PluginInv', ToldInv, [Next]_vars
    PROVE  ToldInv'
<1>1. ASSUME NEW f \in Files, ConsoleLoad(f) PROVE ToldInv'
  BY <1>1, ConsoleLoadTold
<1>2. ASSUME NEW f \in Files, ReadingLoad(f) \/ PluginLoad(f) PROVE ToldInv'
  BY <1>2, ReadingLoadTold, PluginLoadTold
<1>3. ASSUME NEW o \in Elements(m.m_Plugins), ConsoleUnload(o) PROVE ToldInv'
  <2>1. PICK what : what = "unload" /\ Unload(o, Then(what, Nobody, m.pl[o].m_Id))
    BY <1>3 DEF ConsoleUnload
  <2>2. what \in {"unload", "force"}
    BY <2>1
  <2>. QED
    BY <2>1, <2>2, UnloadTold
<1>4. ASSUME NEW o \in Elements(m.m_Plugins), PluginUnload(o) PROVE ToldInv'
  BY <1>4, UnloadTold DEF PluginUnload
<1>5. ASSUME NEW o \in Elements(m.m_Plugins), Retry(o) PROVE ToldInv'
  BY <1>5, RetryTold
<1>6. ASSUME NEW o \in Elements(m.m_Plugins), Pause(o) PROVE ToldInv'
  BY <1>6, PauseTold
<1>7. ASSUME NEW o \in Elements(m.m_Plugins), Unpause(o) PROVE ToldInv'
  BY <1>7, UnpauseTold
<1>8. CASE Clear
  BY <1>8, ClearTold
<1>9. CASE SetAllLoaded
  BY <1>9, SetAllLoadedTold
<1>10. ASSUME NEW h \in m.hooks, CallHandler(h) \/ RemoveHook(h) PROVE ToldInv'
  BY <1>10, CallHandlerTold, HooksTold DEF RemoveHook
<1>11. CASE HandlerReturns
  BY <1>11, HandlerReturnsTold
<1>12. CASE AddHook
  BY <1>12, HooksTold DEF AddHook
<1>13. CASE AddListener
  BY <1>13, AddListenerTold
<1>14. CASE LoadReturns
  BY <1>14, LoadReturnsTold
<1>15. CASE AllPluginsLoadedReturns
  <2>1. CASE Top.then.what = "setall"
    BY <1>15, <2>1, SetAllReturnsTold
  <2>2. CASE Top.then.what # "setall"
    BY <1>15, <2>2, LoadedReturnsTold
  <2>. QED
    BY <2>1, <2>2
<1>16. CASE EventReturns
  BY <1>16, EventReturnsTold
<1>17. CASE UnloadReturns
  BY <1>17, UnloadReturnsTold
<1>18. CASE PauseReturns
  BY <1>18, PauseReturnsTold
<1>19. CASE UNCHANGED vars
  BY <1>19 DEF vars, ToldInv
<1>. QED
  BY <1>1, <1>2, <1>3, <1>4, <1>5, <1>6, <1>7, <1>8, <1>9, <1>10, <1>11, <1>12, <1>13, <1>14, <1>15,
     <1>16, <1>17, <1>18, <1>19 DEF Next

\* AllPluginsLoadedOnce: while plugins behave each load is followed by one call of
\* AllPluginsLoaded, by _Load or by SetAllLoaded, for all files, objects and depths, whoever loads, unloads
\* or pauses plugins in between.
THEOREM ToldOnceAlways == PluginsBehave => (Spec => []AllPluginsLoadedOnce)
<1>. SUFFICES ASSUME PluginsBehave
              PROVE  Spec => []AllPluginsLoadedOnce
  OBVIOUS
<1>1. Init => PluginInv /\ ToldInv
  BY InitInv, InitTold
<1>2. PluginInv /\ ToldInv /\ [Next]_vars => PluginInv' /\ ToldInv'
  <2>. SUFFICES ASSUME PluginInv, ToldInv, [Next]_vars
                PROVE  PluginInv' /\ ToldInv'
    OBVIOUS
  <2>1. PluginInv'
    BY NextInv
  <2>2. ToldInv'
    BY <2>1, NextTold
  <2>. QED
    BY <2>1, <2>2
<1>3. PluginInv /\ ToldInv => AllPluginsLoadedOnce
  <2>. SUFFICES ASSUME PluginInv, ToldInv
                PROVE  AllPluginsLoadedOnce
    OBVIOUS
  <2>1. PICK L, A, T : L = Loading(stack) /\ A = Asked(stack) /\ T = Telling(stack)
    OBVIOUS
  <2>2. ToldOK(m, L, A, T) /\ ToldWell(m)
    BY <2>1 DEF ToldInv, ToldFor, ToldOK
  <2>3. ASSUME stack = <<>>, m.m_AllLoaded, NEW o \in Listed, m.pl[o].m_Status = "Running"
        PROVE  m.pl[o].told = 1
    <3>1. L = {} /\ T = {}
      BY <2>1, <2>3, NobodyAsked
    <3>2. o \in On(m) /\ o \in DOMAIN m.pl /\ m.pl[o].told \in Nat
      BY InvListed DEF On, Listed, Shape, CPlugins
    <3>3. m.pl[o].told # 0
      BY <2>2, <2>3, <3>1, <3>2 DEF ToldOK
    <3>. QED
      BY <2>2, <3>2, <3>3 DEF ToldWell
  <2>4. \A o \in DOMAIN m.pl : m.pl[o].told > 0 => m.pl[o].told = 1 /\ ~Failed(m.pl[o].m_Status)
    BY <2>2 DEF ToldWell
  <2>. QED
    BY <2>3, <2>4 DEF AllPluginsLoadedOnce
<1>. QED
  BY <1>1, <1>2, <1>3, PTL DEF Spec

=============================================================================
