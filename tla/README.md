# A verification model of Metamod:Source and SourceHook

Metamod:Source loads plugins into a Source-engine game server. SourceHook, the
library at its core, lets plugins hook virtual functions: it patches a vtable entry
with a *hookfunc*, which calls the handlers of all hooks, the original function and
the post handlers. All of it runs on the game's main thread, but it is far from
sequential: a handler may call hooked functions again, add and remove hooks, its own
included, restart the loop with new parameters, or unload a plugin whose code is on
the call stack. This project models that core in TLA+, checks it with TLC and proves
the data structures, the hook loops and the start-up correct with TLAPS.

All paths below are relative to the repository; `sh/` stands for
`public/sourcehook/`.

## Inventory

| Component | State | Operations | What is hard, and what makes it correct |
|---|---|---|---|
| SourceHook core (`sh/sourcehook.cpp`, `sourcehook_impl.h`) | `m_HookManList`, `m_VfnPtrs`, `m_HookIDMan`, `m_ContextStack`, `m_PendingUnloads` | AddHook, RemoveHook(ByID), Pause/Unpause, UnloadPlugin, RemoveHookManager, SetIgnoreHooks, DoRecall, SetupHookLoop, GetNext, EndContext | re-entrance: loops nested in loops while the lists they walk change. No freed memory is reached, no hook is skipped, repeated or out of order, the original runs once, unloads are safe and happen |
| Hookfunc and macros (`sh/generate/sourcehook.hxx`; `sourcehook.h` is generated) | the C++ stack frame: status, thunk address, context | SH_HANDLEFUNC, RETURN_META(_NEWPARAMS), SH_CALL, HookManPubFunc | calls must nest with the context stack although recalls and SH_CALL push contexts for a call that is still to come |
| Hook ids (`sh/sourcehook_impl_chookidman.*`) | `m_Entries` | New, Remove, RemoveAll, QueryHook, FindAllHooks | ids are reused; a live id must keep its meaning |
| Hook managers and vtable entries (`sh/sourcehook_impl_chookmaninfo.*`, `_cvfnptr.*`) | `m_HookMans` per entry, `m_VfnPtrs` per manager, `ms_HI`, the vtable | AddHookMan, HookManRemoved, IncrRef, DecrRef, Patch, Revert, thunks for odd addresses | take-over by newer managers; a hookfunc in a vtable must find its `ms_HI` and its entry |
| Prototypes (`sh/sourcehook_impl_cproto.*`) | `m_Proto` of each manager | Fill, `==`, ExactlyEqual, CProtoInfoBuilder | two representations of one prototype, and a comparison that does not look at all of it; what compares equal must fit on the stack |
| Containers (`sh/sh_stack.h`, `sh_list.h`, `sh_vector.h`, `sh_tinyhash.h`, `sh_string.h`) | slots, sectors, nodes, buckets, a buffer | the usual ones | hand-written growing, linking and rebuilding; pointers to elements that clients keep |
| Page allocator (`sh/sh_pagealloc.h`) | regions, allocation units, access rights | Alloc, AllocIsolated, Free, SetRE, SetRW | best fit with alignment; rights are per region, so writing one piece of code touches the rights of all others in it |
| Hook manager generator (`sh/sourcehook_hookmangen*`) | emitted code, cached managers with their counts | MakeHookMan, ReleaseHookMan, GenContext::Generate, some 150 emitters | machine code that must keep stack, registers and objects in order for every prototype, two compilers, recalls and any stack alignment |
| Plugin manager (`core/metamod_plugins.*`) | `m_Plugins`, `m_LastId`, `m_AllLoaded`; per plugin id, status, library, API | Load, Retry, Pause, Unpause, Unload, UnloadAll, SetAllLoaded; `Unloader` called back by SourceHook | plugin code that calls back into the manager, ids that move between copies (Retry), failures after partial loading, unloads that are deferred |
| Life cycle (`core/metamod.cpp`, `vsp_bridge.cpp`, `gamedll_bridge.cpp`) | flags: `is_gamedll_loaded`, `is_game_init`, `in_first_level`, `vsp_load_requested`, `were_plugins_loaded`, `g_bIsVspBridged` | DLLInit, GameInit, LevelInit, LevelShutdown, VSP load and unload, reading `metaplugins.ini` and VDF files, InterfaceSearch | the order of engine callbacks decides when plugins load |
| Loader (`loader/*`) | bridges, cached game libraries, patched vtables | CreateInterface, ServerPlugin Load/Unload, DLLInit, DLLShutdown | two ways in that must exclude each other; failures half-way |
| Console, providers (`core/metamod_console.*`, `core/provider/*`) | lists of commands | the `meta` command, SMConVarAccessor, engine glue | commands of several owners in one list of the engine |
| Utilities, OS link (`core/metamod_util.*`, `metamod_oslink.*`, `public/*.h`) | - | paths, dlopen | I/O |

How they interact: the loader loads the Metamod core; the life cycle code hooks the
engine through SourceHook like a plugin (with `g_PLID`) and tells the plugin manager
when to load; plugins hook functions through the macros; the plugin manager unloads
through `SourceHook::UnloadPlugin`, which calls `Unloader::ReadyToUnload` back, at
once or when the context stack has emptied; the engine calls hookfuncs.

The hazards this code is exposed to, each at its line and with the properties aimed
at it, are listed in `PROJECT.json`.

## Modules

SourceHook:

* `HookTable`: the abstract specification of the hook ids, a table that acquires and
  releases ids.
* `HookIDManager`: `CHookIDManager`. `entries` is `m_Entries`; `New`, `Remove`,
  `RemoveAll` are the operations, written over the operators `NextId`, `WithHook`,
  `WithoutHooks` and `HooksMatching` so that SourceHook can use them several times
  in a step. `ImplementsTable` states that it implements `HookTable`.
  `HookIDPeak` is the same with a history variable for the peak of live hooks.
* `HookManagers`: `CHookManager` and the manager half of `CVfnPtr`. One record `hm`
  holds who is known, listed, serving and registered, and what the vtable points at.
  `Offered` is AddHookMan, `Removed` is HookManRemoved for a set of managers on every
  entry, `Reverted` is Revert together with the destructor. `VTables` declares the
  constant it shares with the ids.
* `SourceHook`: `CSourceHookImpl`, `CHookContext` and the hookfunc. It instantiates
  the two modules above (`Ids!`, `Mans!`) and adds the lists of hooks, the context
  stack with the clean-up task of every slot, the pending unloads and `frames`, the
  C++ call stack reduced to hookfuncs, SH_CALLs and direct calls of an original.
* `CProto`: prototypes of any version taken over by `SetInfo`, `==` (`Compatible`)
  and `ExactlyEqual`.
* `CodePages`: `CPageAlloc` under its two users, the `GenBuffer`s of generated hook
  managers with the reference-counted cache of `CHookManagerAutoGen`, and the thunks
  of `CVfnPtr`.

Generated hook managers:

* `X86`: each emitter of `sourcehook_hookmangen_x86.h` as an instruction with its
  parts and its length.
* `X86Encoding`: the bytes the same emitters write, and a decoder (external, IA-32)
  that reads them back.
* `HookManGen`: `GenContext`: frame layout, and the code of the hook function and
  the public function of a prototype for gcc and msvc, as sequences of instructions.
* `HookFuncRun`: a processor that executes that code. Its environment, the hook loop
  interface of SourceHook, hooks, the original function and the methods of the class
  in the prototype, answers as the calling convention says.

Containers. `Collection`, `Dictionary` and `Text` say what a sequence, a dictionary
and a string promise for each call (`Calls`); `CVector`, `CStack` (over CVector),
`List`, `THash` and `CString` are the data structures in memory, with spare slots,
sectors, linked nodes, buckets and a NUL-terminated buffer. `Containers` states that
each implements its specification (INSTANCE with the contents as refinement mapping)
and that pointers to elements stay good.

The Metamod:Source core:

* `PluginManager`: `CPluginManager`, the plugin code it calls, and the part of
  SourceHook it relies on (hooks under a plugin id, deferred unloads).
* `PluginFiles`: how files become plugins: lines of `metaplugins.ini`, VDF files,
  `GetFullPluginPath`, aliases, `meta load` and `meta refresh`.
* `ConCommands`: the lists of commands of plugins and of Metamod:Source, and the
  accessors that link them into the engine's list, in both ways the engines have.
* `InterfaceSearch`: the loop of `InterfaceSearch` and `VInterfaceMatch`.
* `Startup`: loader, core flags and bridges, driven by an engine of the Source 1
  family, with gameinfo.txt or the server plugin as way in, or of Source 2.

Instances for TLC: `MCSourceHook`, `MCPluginManager`, `MCHookFuncRun`, and
`MCComponents` for the modules that share no state with others: its variable `part`,
chosen at the start, says which of them runs, so that each is checked exactly as it
would be alone. Proofs: `ListLemmas` (positions and filtered lists), `HookTables_proofs`
(the hook ids and the registry of managers), `SourceHook_proofs` (the registry),
`SourceHookStack_proofs` (the stacks), `SourceHookLoops_proofs` (the order in which a
loop calls its hooks), `PluginManager_proofs`, `Startup_proofs`, `Components_proofs`
(prototypes, console commands, code pages and plugin files).

Operators with the comment `mutant` are wrong variants of an operator of the code,
at least one for each property of a passing run; no specification uses them. Putting
one in the place of its original must violate the property.

### SourceHook in more detail

| Action | Code |
|---|---|
| `Call` / `SetupHookLoop` | a call through a patched entry up to the first GetNext: the three cases of SetupHookLoop (a State_Ignore context, a recall context, a new one from `make_next`) |
| `NextHandler`, `PreLoopEnds`, `HookfuncReturns` | one GetNext of SH_CALL_HOOKS with what follows it: a handler, the original, EndContext |
| `OrigReturns`, `HandlerReturns` | the original or a handler returns, the latter with or without MRES_SUPERCEDE |
| `Recall`, `RecallReturns` | RETURN_META_NEWPARAMS: DoRecall, the call of the hooked function, whose SetupHookLoop resumes the loop, and MRES_SUPERCEDE for the abandoned one |
| `ShCall`, `CalleeReturns` | SH_CALL: SetIgnoreHooks, the call, ResetIgnoreHooks |
| `AddHook`, `RemoveHookByID`, `RemoveHook`, `RemoveHookManager`, `UnloadPlugin`, `PauseHook`, `UnpauseHook` | the functions of those names; the removals share `Retire`, since all end in the same sequence of erasing hooks, telling the contexts, dropping interfaces, entries and managers |
| `LoadPlugin` | the plugin manager loads a plugin again (external to SourceHook) |

`UnloadPlugin` removes hook after hook; nothing can run in between, so it is one
step. Pointers to freed objects are values of their own (`NoVfn`, `"freed"`,
`Dangling`): `UsesFreed` says when the next GetNext of a context would follow one.
The fields `due`, `done`, `asked` and `ran` of a frame are history used by the
properties only: which hooks the call still owes, which it ran, whether a handler
superceded and how often the original ran.

Abstracted: parameters and return values (only MRES_SUPERCEDE matters to control),
`thisptr_offs`, prototypes and vtable offsets (a function of the manager), handlers
(equivalence classes of IsEqual), and ModuleInMemory, which is taken to be true.
GetNext's fields that carry only data (pIfacePtr, pOrigRet, pOverrideRet) are absent.

What clients may do is a parameter: `IdleOps` for the engine, `HandlerOps` for a
handler, `BodyOps` for the body of an original function. Four values of
`HandlerOps` are not operations but permit behaviour that the code does not check for
and does not survive, or that contradicts its documentation, and that the passing runs
therefore exclude or have to name:

* `"late add"`: a plugin that was unloaded below its own handler, and waits for that
  handler to return, adds a hook. AddHook asks nobody whether the plugin is still there,
  UnloadPlugin has already been through the hooks, and the new one stays when the library
  is closed (`MCSourceHookLateAdd.cfg`).
* `"late recall"`: a handler recalls although its entry was unhooked under it. DoRecall
  computes a state from State_Dead and the context is never ended.
* `"re-add"`: hooks are added while a loop still holds an iterator into a freed list
  (run `readd`).
* `"unhooked shcall"`: SH_CALL of a function nobody hooks, the context of which is used
  up by another function's hookfunc (allowed in the `unload` run).

`RemoveHookManager` is called by the engine only: a call from a handler destroys
entries without notifying the contexts (`Orphaned` models this).

### PluginManager in more detail

`m` is everything the manager, the plugins' libraries and SourceHook know; `stack` is
the C++ stack cut where the manager calls plugin code (Load, AllPluginsLoaded, Unload,
Pause, Unpause, a listener) or SourceHook calls a handler. A frame says whose code runs
and, in `then`, what the manager does when it returns. Plugin code may call the manager
again from any of them. What a file comes to when it is loaded is a choice among all
outcomes of `_Load`, from a file that is not there to a Load that refuses after hooks,
listeners and other plugins were added.

| Action | Code |
|---|---|
| `ConsoleLoad` | `meta load`, which first forces the pending unloads out (ResolvePendingUnloads) |
| `ReadingLoad` | a file named in `metaplugins.ini` or a VDF file: `meta refresh` and the reading for each level, from the engine or from Metamod's own handlers of GameInit and LevelShutdown. Nothing is forced out |
| `PluginLoad` | ISmmPluginManager::Load |
| `ConsoleUnload`, `PluginUnload`, `Clear` | Unload, forced or not, and UnloadAll |
| `Retry`, `Pause`, `Unpause`, `SetAllLoaded` | the functions of those names |
| `LoadReturns`, `AllPluginsLoadedReturns`, `UnloadReturns`, `PauseReturns`, `EventReturns` | the rest of `_Load`, `_Unload`, `_Pause`, `_Unpause` and ITER_PLEVENT, which reads the id of the plugin it announces anew after each listener (`PlidRead`) |
| `CallHandler`, `HandlerReturns`, `AddHook`, `RemoveHook`, `AddListener` | what plugin code does with SourceHook and ISmmAPI from whatever frame it runs in, handlers and Unload included; EndContext with its pending unloads |

The functions of the manager are operators on a manager `s` and the stack below: `Opened`
is dlopen with the constructors of the library, `Added` the object `_Load` appends,
`FirstFrom` the next plugin a loop over the list comes to. An action applies them to `m`
and `stack`.

`Permits` names what plugins, the operator and the readings of the files might do that
the code neither prevents nor survives. The passing run permits none of it:

* `"load a file that is being unloaded"`: a plugin loads a file whose unload is pending;
* `"read a file that is being unloaded"`: `meta refresh` or the reading for a level does
  so. The deferred unload then hits the running copy (run `plugins_refresh`);
* `"hook after unload"`: code that still runs when its plugin was unloaded below it adds
  a hook, which outlives the library (`"late add"` of SourceHook);
* `"hook after retry"`: hooks added by a plugin that was retried are under another id
  than the plugin's (run `plugins_retry`);
* `"hook while paused"`: the new hook is not paused;
* `"load in AllPluginsLoaded"`: the new plugin is told twice;
* `"load in retry or clear"`: while `meta retry` or `meta clear` is under way;
* `"unload what is being unloaded"`: two Unloaders for one library;
* `"pause before all are loaded"`: before SetAllLoaded has finished; a paused plugin is
  never told.

Beside these, a plugin whose own code is under way outside of handlers cannot be
unloaded or paused (`Busy`): the iterator of the loop that called it would dangle. From
a handler it can, and the code that runs on in it is what `CodeStaysMapped` is about.

### Startup in more detail

`engine` is the engine's side: which game libraries are where, whether gameinfo.txt
names the loader, the engine family, and how far the game is; `loader` and `core` are
the globals of those two libraries. The actions are the calls of the engine in the
order it makes them: CreateInterface with one version of ServerGameDLL after the other
(or the configuration interface of Source 2), DLLInit, GameInit, levels, the shutdown
of server plugins, then DLLShutdown; `plugin_load` for the loader may come at any time
while the game runs, from a file or through EnableVSPListener. That order is an
assumption, and external. So are the results of reading gameinfo.txt and of detecting
the engine, which are choices. Left out: DLLInit of the game failing when there is no
bridge (the code then calls through NULL, `DLLInitFails`), and a second Load of the
server plugin in a loader that stays in memory after a first one failed for a reason
found after the vtable was fitted: each Load moves the vtable entries again.

### The generator in more detail

A prototype has a compiler, a convention, a return value and parameters with sizes,
types and flags. `GenerateHookFunc` and `GeneratePubFunc` give the sequence of
instructions the code emits for it, jumps with their distances in bytes. `HookFuncRun`
executes them one at a time over symbolic words: `<<"param", i, k>>` is word k of
parameter i, an address is an area and an offset, and whatever was not written is
`Junk`. A hook returns any META_RES with a value of its own, clobbers what its
convention lets it clobber, and its arguments are checked when it is entered.

`X86` stops at instructions; that the bytes mean those instructions is the subject of
`X86Encoding`, where every emitter is a row of a table (opcode, operands, addressing,
immediate, meaning), written out and decoded. Three emitters which nobody calls write
another instruction than their name says (`Misnamed`); they are excluded.

## Runs

| Run | Instance | Shows |
|---|---|---|
| `components`: ids | 2 entries, 2 plugins, 3 ids | `ImplementsTable`, `BoundedByPeak` |
| - managers | 3 managers, versions 4, 5, 5, 2 entries, all drops of sets | `HookfuncFindsEntry`, `OneServes`, `HighestVersionServes`, `SwitchesOnlyUp` |
| - startup | 2 game paths, 2 interface versions, 3 levels, 2 requests, all engines | `CallsLandInLoadedCode`, `ReadOncePerLevel`, `ListenerArrives` |
| - code, thunks | 2 hook managers held twice, 4 thunks, pages of 6 units | `LiveCodeExecutes` |
| - search | 5 versions, every subset of them in the factory | `SearchAnswers`: of the versions asked for, the first the factory has is found, and none is passed over |
| - vector, stack, list, hash, string | see Bounds | `ContainersImplement`, `PointersStayValid` |
| - encode | every emitter, registers 0, 1, 4, 5 | `EmittersEncode` |
| - files | 4 metaplugins.ini, 2 VDF directories, all files there or not | `ReadingLoadsWhatIsNamed` |
| - commands | 2 plugins, a variable, 2 commands, both kinds of list, code that runs on after its unload | `NoCommandStaysBehind` |
| - protos | 3 hook managers, 18 prototypes of versions 0, 1 and 2 | `FoundProtosFit` |
| `loops` | 1 entry with a normal, a VP and a post list, 3 hooks, depth 2, nested calls, removals, pauses and recalls in handlers | `OnceInOrder`, `NoneSkipped`, `RecallsArePickedUp`, `RegistryAgrees` |
| `unload` | 2 entries (one with a thunk and a VP list), 2 plugins, depth 3, adding hooks, unload, load, SH_CALL, recall | `NoUseAfterFree`, `UnloadIsSafe`, `NothingOfTheGone`, `ContextsNest`, `ThunkOutlivesLoop`, the composition implements `HookManagers` |
| `unload_progress` | 2 entries, 2 plugins, depth 2, fairness | `UnloadsHappen` |
| `hookgen` | 24 prototypes, up to 2 hooks with all results, recalls before and after, 4 stack alignments | `StackBalanced`, `ArgumentsArrive`, `HookSeesResults`, `ReturnsWhatItShould`, `ObjectsDestroyedOnce`, `WritesInBounds` |
| `plugins` | 2 files, 3 plugin objects, depth 3 (1.4 million states, a minute) | `CodeStaysMapped`, `LibrariesAccountedFor`, `IdsNameOnePlugin`, `InterfaceStaysUp`, `AllPluginsLoadedOnce`, `PausedWithItsHooks` |
| `cleanup_twice` | 1 entry with a thunk | violated: the clean-up task of a slot runs twice |
| `readd` | 1 entry, VP hooks | violated: use after free when a VP hook is removed and another added in handlers |
| `sh_call_ignore` | 2 entries, 1 hook | violated: SH_CALL makes another function's hooks be skipped |
| `hookgen_fbr` | 1 gcc prototype with an object passed by the address of a copy | violated: the copy is made of the stack slot, not of the object it points at |
| `plugins_refresh` | 1 file, 2 objects, depth 3 | violated: the files are read while an unload is pending, and the deferred unload calls UnloadInterface_MMS in the copy that runs |
| `plugins_retry` | 2 files, depth 1 | violated: hooks added after `meta retry` are under another id than the plugin and survive its unload |

Two more configurations are not among the runs of `PROJECT.json`; TLC finds their
invariant violated as well:

* `MCSourceHookLateAdd.cfg` (1 entry, 2 plugins, depth 2): a hook added by a handler
  whose plugin was unloaded below it is still registered, and its hookfunc still in the
  vtable, when the plugin is gone. `sh/sourcehook.cpp:363` says of the unload "1) Remove
  all hooks by this plugin", `core/metamod_plugins.cpp:624` "Make sure to detach it from
  sourcehook!".
* `MCInterfaceSearch.cfg` (run it on `InterfaceSearch`): a search up to a version finds
  the one after it, since the factory is asked before the number is compared with max
  (`core/metamod.cpp:851`). `core/ISmmAPI.h:217` calls max "Maximum version to look up."

### Bounds

SourceHook. `MaxIds` hooks exist at a time; three are the smallest number for which a
list has a hook before, at and after the one removed, and the lists of `loops` let
three hooks share one list or be spread over all three. `MaxDepth` bounds the
nesting of calls: depth 2 has a loop and one recall or nested call in it, depth 3
an outer loop, one that is changed and one that changes it, which is also the
shortest stack where the deepest and the uppermost user of an entry differ from the
one in between. Pauses and removals of single hooks are only in `loops`, plugins of
different versions and hooks added in handlers only in `unload`; that the properties of
either hold with all of them together is what the theorems say.

PluginManager. `MaxObjects` plugin objects are ever made: three let one file have an
old and a new copy beside another plugin. `MaxDepth` 3 is a plugin that calls the
manager from code that another plugin's code caused. One file always loads, so that
there is someone to act, the other comes to every outcome.

Startup. `NumPaths` 2 has a cached library before and after the one that answers,
`Newest` 2 a version that is refused before one that is found, `MaxLevels` 3 a first,
a second and a later level, `MaxRequests` 2 a server plugin loaded twice.

CodePages. `PageSize` 6 with thunks of 3 (aligned to 2) and buffers of 1, 2 and 4
leave gaps at the beginning, between and at the end of a region; `MaxSize` 4 lets a
buffer grow twice while the other hook manager's code is beside it, `MaxHolders` 2
tells a count from a flag.

InterfaceSearch. The code asks the factory before it compares with max, so a search that
finds nothing looks one version further than `ISmmAPI.h` says (`MCInterfaceSearch.cfg`);
`SearchAnswers` says nothing of that version. `Versions` and `Maxima` include 0, a gap,
and a version one past and two past the largest maximum asked for. `DigitCounts` is {3}: a
name with fewer digits has no room for the next one in the buffer InterfaceSearch passes
(at once, or after the first step), FormatIface then returns -1 for ever, and unless the
factory answers the search never ends. (Given room, FormatIface would also write over the
last letter of a name without digits.) The model has such names, the run does not: the
interfaces of the engine have three digits.

Containers. First allocations of 2 slots, sectors of 2 elements and tables of 2
buckets (8, 16 and 32 in the code) with `MaxLen` 4, `MaxNodes` 4 and `MaxText` 3 reach
growth, shrinking, a second sector, a full one that stays empty, and a hash that is
rebuilt; `HashKeys` 0..2 collide in 2 buckets and part in 4, `MaxBuckets` 4 keeps copies
of tables apart from tables that grow. `HashFunction` is the identity. Elements are
passed by value: a reference to one of a vector's own elements is not modelled.

X86Encoding. `EncRegs` are eax, ecx, esp and ebp (0, 1, 4, 5): the two registers with
special encodings and two without. Numbers include both ends of a signed byte and one
beyond each.

PluginFiles, ConCommands, CProto. `MaxCommands` 1 is one command of the operator
between two readings; names are one plugin written in two ways and the empty one.
`MaxListed` 2 is a list with a first and a last; `MaxLate` 1 lets one command at a time be
one that was registered after its unload (the proof has any number). The 18 prototypes are one function as
an old header, the present one and the builder describe it, with more and with less
known, and some that differ in one respect.

Hookgen. Eleven prototypes under each compiler: no parameter, all basic sizes and both
floats, references, an object with and without constructors, results in eax, eax:edx,
the floating point stack, registers and memory, variable arguments; and two with class
parameters under msvc. `MaxHooks` 2 has a hook before and after another, before and
after the original; `Results` are all META_RES. Left out under gcc: a parameter passed by
the address of a copy, which `hookgen_fbr` shows to go wrong; a result in registers
together with such a parameter, whose destructor is called before the result is saved.
The call of a copy constructor in `PushObject` is not aligned (`:TODO: alignment here?`
in the source), and `CallsAligned` only speaks of calls the code checks.

Deadlock is checked in all runs; there is always something to do.

### Fairness

`unload_progress`: code at every depth of the stack goes on until it returns: strong
fairness of `Continue` at each depth, strong because deeper calls interrupt it. The
engine calls hooked functions for ever, as a game server does every frame, so that the
context stack is dropped again (EndContext lets a pending unload sit through the first
drop). And Metamod's own hooks exist (`g_PLID` hooks the level and frame functions
during start-up), weak fairness of its AddHook: without any hook left nothing would
ever drop the stack again, and the unload would stay pending.

`components`: the engine runs its command buffer while the game is up (weak fairness
of `RunCommand`, for `ListenerArrives`), and the search loop goes on (weak fairness of
`Turn`, for `SearchAnswers`). Nothing else is assumed to happen.

## Proofs

Proved with TLAPS, for every value of the constants that satisfies the named
assumptions:

* markers are not values: `FreeEntryAssumption` and `EntryAssumption`, `OrigAssumption`,
  `NoneAssumption`, `IfaceAssumption` (the NULL interface is no object), `MetamodAssumption`
  (no file owns the hooks of Metamod:Source itself), `ConAssumption` (Metamod:Source is
  not the engine, and commands are finitely many);
* constants have types: `MaxIdsAssumption`, `BoundAssumption`, `VersionAssumption`,
  `ManagerAssumption`, `OwnerAssumption`, `SiteAssumption` (hooks are added to lists that
  exist), `ProtoInfosAssumption`, `PagesAssumption` (pages, thunks, alignments and first
  buffers are not of size 0), `FilesAssumption` (names are a part before the extension, an
  extension and a flag; files hold lines and VDF files made of such names),
  `StartupAssumption` (which includes `Newest` >= 1: names start at ServerGameDLL001 and
  the engine asks for at least one of them).

### The data structures

* `IdTypeCorrect`, by `IdTypeInductive`.
* `IdManagerIsATable`: `IdSpec => ImplementsTable`. The argument: the id New returns is
  free (`NextIdIsFree`), its slot is the only one written (`WithHookEntries`), and a
  removal changes only what it names (`WithoutHooksEntries`), so New maps to Acquire
  and both removals to Release.
* `IdsAreReused`: `PeakSpec => []BoundedByPeak`. The vector grows only if every slot is
  live, and then the number of live hooks is the new length.
* `RegistryConsistent`: `HMSpec => []HMIInv`. HookfuncFindsEntry, OneServes and
  HighestVersionServes are not inductive by themselves: nothing would tie the serving
  manager to the list it was taken from. HMIInv adds that each list is sorted and
  without duplicates and that the vtable, the served sets and the registered managers
  are functions of the lists' first elements. `ServeConsistent` shows that this
  survives the counting of references whenever gains and losses agree with the new
  lists; `OfferedConsistent`, `RevertedConsistent` and `RemovedConsistent` establish
  that agreement for each operation, the first from `InsertedList` (insertion at the
  end of the version group keeps the order), the last from `WithoutList`.
* `HookfuncAlwaysFindsEntry`, `ExactlyOneServes`, `HighestServes` follow from it.
* `OnlySwitchesUp`: `HMSpec => SwitchesOnlyUp`, from the invariant and the lists before
  and after (`OfferedLists`, `DroppedLists`).
* `ProtosFit`: `ProtoSpec => []FoundProtosFit`. Whatever ProtoInfo a plugin gives, Fill
  makes a prototype of it (`FillMakesProtos`). Of any two prototypes, compatible ones
  have the same number of bytes for each parameter, hence in total
  (`CompatibleSizes`, from `SameParameters`), both comparisons are symmetric
  (`CompatibleSymmetric`, `ExactlyEqualSymmetric`), and prototypes that share a hook
  function are compatible with the same others (`SharedAreInterchangeable`). That
  compatibility is not transitive, because of what old headers leave unknown, is why
  the last needs ExactlyEqual.

`LeastNatural` (in `ListLemmas`) replaces induction: the search for a position is the
least element of a non-empty set, and the recursive function of `Without` is shown to
exist (`KeptExists`), and to filter (`WithoutIsSublist`), by a least counterexample.

### SourceHook

Seven invariants, each inductive over some of the ones before it:

1. `RegistryInv` (`RegistryInvariant`): ids, lists and entries agree, and the managers
   satisfy `HMIInv`. Every change of the registry is an AddHook or a `Retire`;
   `RetireEffect` says which hooks survive one, whatever set of hooks and managers it
   removes. From it come `RegistryAlwaysAgrees`, `SetupFindsEntry` (a hookfunc finds its
   entry) and `ManagersImplemented`, the refinement: each step of SourceHook is an
   Offer, a Drop, or leaves the managers alone.
2. `OwnersInv`: hooks and managers belong to plugins that are neither gone nor waiting
   to go. It gives `NothingOfTheGoneIsLeft`, and needs `NoLateAdds`.
3. `FramesInv` (`FramesInvariant`, over 1 alone): which frame runs in which context, that
   contexts of running frames are in stack order, that a frame whose thunk is to be freed
   waits for a context no deeper than its own. ThunkOutlivesLoop alone is not inductive:
   that the cleanup hangs on the deepest user only helps because users are ordered. It
   gives `StacksTyped` and `ThunksOutliveLoops`; with `RipeInv` (an unload that sat
   through one drop of the stack has no code on it any more), and again with `NoLateAdds`,
   `UnloadsAreSafe`: a hook added late could be called anew between the two drops.
4. `NestInv`: the context stack is as deep as the innermost frame says, every context
   has a hookfunc or is one an SH_CALL left, and a recall context on top is one whose
   hookfunc runs. It gives `CallsNest` and `RecallsFindTheirCall`.
5. `SoundInv`: each context points at an entry, an interface and a list node that
   exist, or knows that it does not. It gives `LoopsStaySound`.
6. `WholeInv` and `TrackInv` (`TrackInductive`), over 1, 3 and 4. `Ahead` is what a context
   still has before it: the rest of the list it walks, after the iterator's place, and
   the whole of the lists its states lead to. `TrackInv` says of every call that what it
   owes (`due`) is ahead and not paused, and that what it called (`done`) is within reach
   but not ahead any more. Each operation moves the two together: GetNext takes the next
   hook off what is ahead and only paused ones with it (`AdvancedSplits`, from
   `NextHookSplits` for one list), HookRemoved's step back leaves what is ahead of an
   iterator as it was but for the removed hook (`RetireOnTrack`), a hook added at the
   end of a list is ahead of whoever has not passed that list but owed by nobody
   (`OthersOnTrack`), and DoRecall hands iterator and debt to the new context while the
   old one dies (`RecallOnTrack`). `WholeInv` is what keeps the iterator at a hook of its list.
7. `CountsInv` (`CountsInductive`), over 6: how often the original ran is settled once the
   pre loop is over, or from the start where a post handler recalled, and a call that
   waits for the one it recalled leaves its account to it. That DoRecall tells the new
   context whether to call the original (ShouldCallOrig) is what makes this true.

From 6 and 7 follow `NoneIsSkipped` and `HandlersOnceInOrder`. Neither property is
inductive: both speak of a call's last step or of one handler's start, and only what is
ahead ties these to the changes the lists went through since the call began.

What clients do is not restricted in 1 and 3 (any `IdleOps`, `HandlerOps` and `BodyOps`).
The rest has hypotheses, which the passing runs `loops` and `unload` satisfy
and without which the code is wrong:

* `NoLateAdds` ("late add" is in none of the three sets of operations) for 2 and
  `UnloadsAreSafe`: `MCSourceHookLateAdd.cfg` shows what happens.
* `TimelyRecalls` ("late recall" is not in `HandlerOps`) for 4 to 7: DoRecall computes
  a new state from State_Dead when the entry was unhooked under the handler, and the
  recall context is never ended (hazard at sourcehook.cpp:464).
* `NoReAdds` ("re-add" is not in `HandlerOps`) for 5: the run `readd` shows what happens.
* `PoliteRemovals` for 5: RemoveHookManager is not called while calls are under way
  (hazard at sourcehook.cpp:395); and if the engine calls it at all, no plugin is unloaded
  from within a call. Otherwise an entry may have hooks whose only manager is another
  plugin's, that plugin's unload from a handler takes the entry away, and no context
  hears of it (`W2` of `Retire`).

### The plugin manager

`PluginInv` is one invariant, `ConfigOK(m, stack)`: what the manager and the stack of its
callers must agree on. Its parts, and what fails without them:

* `LibsHeld` says for every library who holds it and why: a plugin on the list that is
  not in a failed state, one whose Load is under way, or one that waits for its Unloader.
  LibrariesAccountedFor counts holders and is not inductive: that dlclose unmaps a library
  only when nobody else needs it depends on there being exactly one reason.
* `FilesApart`: two objects of one file are on the list only while one of them is being
  retried, and never do both hold the library.
* `HooksServed`: a hook belongs to the plugin on the list that has its id and its file,
  and is paused exactly when that plugin is. So removing or pausing the hooks of an id
  touches one plugin only (`IdsApart`), and a library that goes leaves no hook. This is
  what hooks added after an unload, after a retry or while paused would break; a hook
  added by any other code, handlers included, is under the id of a listed plugin because
  that plugin holds the library, and g_PLID was set by its Load.
* `PendingOK`: an Unloader finds its own plugin, once, and deletes only what has left
  the list.
* `StackOK` says of every function under way what it expects when it goes on: that its
  plugin is still on the list and holds its library, that a Load still finds its object
  in the state it left it, that a retry finds the failed object and no hook of its file,
  that `meta retry` and `meta clear` are the outermost callers, and that what is being
  loaded, unloaded or paused is no deeper function's plugin.
* `Once`: no object is on the list twice, so removing it removes it.

The proof first shows each function of the manager to keep `ConfigOK` for any manager `s`
and any stack, then each action as a combination of the functions it calls. The loops
that ResolvePendingUnloads, UnloadAll and ITER_PLEVENT run over lists are recursive
functions; they are shown to exist, and to keep the invariant, by a least counterexample
as in `ListLemmas`.

From `PluginsStayWell` (`PluginsBehave => (Spec => []PluginInv)`) follow, for all files,
outcomes of a load, numbers of objects and depths of calls:

* `CodeMapped`: the code that runs, at every depth, is in a library that is mapped.
* `LibrariesAccounted`: every library is held as often as plugins account for.
* `IdsApartAlways`: an id names one plugin.
* `InterfacesUp`: a plugin whose interface the manager would call has it.
* `HooksPauseWithPlugins`: a plugin's hooks are paused exactly when it is.

`ToldOnceAlways` (AllPluginsLoadedOnce) takes a second invariant beside it, `ToldInv`: who
was told that all plugins are loaded, and who has yet to be. Untold and running is only
a plugin behind the one SetAllLoaded is telling. A plugin whose Load is under way was not
told, one that is paused or being asked was. While SetAllLoaded is telling, nobody is
being loaded, so those behind the one it tells on the list have not been told by a late
`_Load`. Most functions tell nobody: lemmas `...Steps` and `...Calm` show once for each
function that it changes neither status, interface nor what was told, and only erases
from the list, and one lemma (`SteadyTold`) that such a change keeps `ToldInv`. The steps
left are those that load, tell, pause or change a status. Without PluginsBehave it fails:
a plugin that loads or pauses others in AllPluginsLoaded, or pauses one before all are
loaded, makes SetAllLoaded tell twice or never.

`PluginsBehave` is `Permits = {}`: plugins, the operator and the readings do none of the
things listed above that the manager does not survive. The run `plugins` satisfies it;
`plugins_retry` and `plugins_refresh`, which permit one each, show that CodeStaysMapped
and InterfaceStaysUp fail without it.

### Console commands

`NoCommandStaysBehindAlways`: `ConSpec => []NoCommandStaysBehind`, from `ConInv`. That the
engine's list holds only commands whose code is there is not inductive: what an unload
takes out is what is in the lists of the plugin, so the invariant says of each command in
the engine's list in which list it is noted (`Chained`: the engine's own, one of
m_RegisteredCommands, or of the plugin it is part of), that these lists hold nothing of
others, that only what is loaded has any, and that a listener points only at what is in
the engine's list, since it hears of all that leaves. Excepted are the commands in `late`.
Code that runs on after its own unload may still register a command: FindByAPI finds no
plugin, so it is linked and noted in no list, and nothing will take it out. The property
names these commands instead of excluding the step. `RegisterLinksIn` shows where cutting
a linked chain is harmless. The two loops (the commands Metamod:Source registers,
UnloadAll) are recursive functions, which exist and keep the invariant by a least
counterexample; that Metamod:Source registers no command twice is part of the first.

### Code pages

`LiveCodeExecutesAlways`: `PagesSpec => []LiveCodeExecutes`, from `PagesInv`, for any page
size, alignments and numbers of hook managers and thunks. Three facts that
LiveCodeExecutes does not state make it inductive. Each unit is larger than the padding
that aligns it (`UnitsOK`), so two units that share a pointer overlap, and Free, which
looks for the pointer, takes out one unit at most (`PointsAtOne`). A buffer that was
allocated holds a unit of its own even while its hook manager is being generated, when
nobody is entitled to call it yet (`CodeHeld`, `CodeApart`), and m_RefCnt counts exactly
the clients (`RefCounted`), so the last release frees what nobody holds. And the only pages
that may be writable are those that hold the buffer being generated (`Beneath`): a push
leaves the new copy's pages writable and protects the old copy's before it is freed,
also when both are in the same region, which is the case `PushKeeps` is about.
`TryAllocTakes` shows that the best gap `CheckGaps` finds ends at the next unit, so that a
unit taken in it overlaps none.

### Plugin files

`ReadingLoadsWhatIsNamedAlways`: `FilesSpec => []ReadingLoadsWhatIsNamed`, for any names,
contents of metaplugins.ini and of the VDF directory, files on disk and commands in
between. The property speaks of a finished reading; `FilesInv` says of one under way that
it holds for the entries read so far (`ReadUpTo`), and that no file and no alias is in its
list twice (`PluginsOK`, `AliasesOK`). Two lemmas carry it. `LoadLoads`: Load drops only
copies that do not run and are of the same file, so that a file that had a copy still has
one, and what ran runs on; it adds a copy only where none is left, and then that one is
not among those counted before. `SetAliasSets`: setting an alias, with a value or with
none, changes what that alias leads to and nothing else, so the last entry that sets it
decides. The counters cannot be exact, and are not claimed to be: a copy that replaces a
failed one counts as "already loaded" (`CountedAs`), so the new copies lie between
`total` and `total + skipped`.

### Startup

`StartupInv` (`StartupConsistent`) is one invariant over the engine, the loader and the
core, from which `CallsAlwaysLand` and `ReadsOncePerLevel` follow. CallsLandInLoadedCode
says that no call lands in a library that was unloaded; that is not inductive, since
what the engine will call depends on what was handed to it. `Handles` counts how often
each game library is open, `Thunks` says in which phase of the game which function of
the game leads through the loader, `Fitted` how often the vtable of the server plugin
was moved, `GameBridge` and `ServerPluginBridge` tie the two ways in to the phase of
the game, and `CoreLoaded` the core's flags to the bridges. `TellsOnce` relates the
count of readings to the level the game is in.

### Only model-checked

Liveness (`UnloadsHappen`, `ListenerArrives`, `SearchAnswers`), which is out of the
prover's reach; of `InterfaceSearch` nothing is proved. The generator: its six
invariants execute code that is computed from a prototype instruction by instruction, and
`EmittersEncode` evaluates encodings, for which no step-wise argument is shorter than
the evaluation TLC does. The containers: `THash` and `List` use RECURSIVE
operators, which the prover cannot reason about, so nothing is proved about them or
about modules that extend them. Refinements proved are those of the id table and of the
managers.

## What the models show to be wrong

The findings with a run are the rows above that say "violated"; `PROJECT.json` quotes what
the repository says against each. Others were met while modelling and have no run, because
nothing in the repository says what should happen, or because the consequence lies outside
of the model: a command registered by code that runs on after its plugin's unload stays in
the engine's list (`late`); a handler that recalls after its entry was unhooked leaves a
context for ever (`"late recall"`); RemoveHookManager from a handler; RemoveHook never
finds a VP hook; the search of names without digits and the vtable fitting described
above; a game library path beyond the tenth is dropped; SetIgnoreHooks does not look at
its argument (see `sh_call_ignore`); `vsp_loaded` is read and never set.

## Not modelled, and the plan

Not modelled:

* `CompleteShutdown`: in `Startup` it takes every hook out; its order is not modelled.
* Return values in `SourceHook` (GetOrigRet, GetOverrideRet, GetStatus): `HookFuncRun`
  has them for generated hook functions.
* The overload macros of `sourcehook.h`, which differ from each other in the number of
  parameters only. It is generated from `sourcehook.hxx`.
* Failing system calls (mmap, mprotect, new) and AllocIsolated, which nobody calls.
* Member function pointers and FastDelegate: compiler-specific or third-party.
* What console commands print, user messages, the parts of ISmmAPI that forward to the
  engine, path handling, dynamic linking: pure I/O.
* Commands that plugins give to the engine through GetCvarBaseAccessor: they have no
  owner Metamod:Source knows of.
* The x86-64 build, which has no generator; build files and tests.

What is left, in this order:

1. The safety part of `InterfaceSearch`.
2. Late recalls and RemoveHookManager from handlers as runs of `SourceHook`, and
   CompleteShutdown below a running loop.
