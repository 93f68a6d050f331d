------------------------------- MODULE Startup -------------------------------
(***************************************************************************)
(* How Metamod:Source comes into a server process and leaves it: the loader *)
(* (loader.cpp, gamedll.cpp, serverplugin.cpp), the core library with its   *)
(* two bridges and the flags of metamod.cpp, and the engine that drives     *)
(* them.  The engine and the game library are external: their actions here  *)
(* are the calls of an engine of the Source 1 family or of Source 2.        *)
(*                                                                          *)
(* There are two ways in.  gameinfo.txt may name the loader's directory, so *)
(* that the engine takes the loader for the game library; or the loader is  *)
(* a server plugin (VSP).  In the first case the loader may be a server     *)
(* plugin as well, only to hear of server plugin callbacks.  Source 2 has   *)
(* the first way only, and no server plugins; it asks the game library for  *)
(* a configuration interface, connects it, and asks for the server then.    *)
(***************************************************************************)
EXTENDS Integers

CONSTANTS NumPaths,   \* entries of gamedll_paths
          Newest,     \* version of ServerGameDLL the engine asks for first
          MaxLevels,  \* bound: levels played
          MaxRequests \* bound: times plugin_load is typed in

\* Interface versions are numbered from 1 (ServerGameDLL001), and the engine asks
\* for one at least.
ASSUME StartupAssumption ==
    NumPaths \in Nat /\ Newest \in Nat \ {0} /\ MaxLevels \in Nat /\ MaxRequests \in Nat

VARIABLES engine, loader, core
startupVars == <<engine, loader, core>>

Paths == 1..NumPaths
Nowhere == 0

\* What is at a game path: a file that cannot be loaded, or a library with the
\* game interface of one version (0: of none).
Broken == -1
Contents == {Broken} \cup 0..Newest

\* Engine families by the layout of IServerPluginCallbacks they expect.
Kinds == {"Episode1", "Orangebox", "AlienSwarm", "UNKNOWN"}
IsSource2(e) == e.kind = "Source2"

-----------------------------------------------------------------------------
(* The core library.  reads, told and ends count what its plugins see: the  *)
(* plugin files read, AllPluginsLoaded, and the ends of levels it handled.  *)
FreshCore ==
    [is_gamedll_loaded |-> FALSE, in_first_level |-> TRUE, is_game_init |-> FALSE,
     vsp_load_requested |-> FALSE, were_plugins_loaded |-> FALSE, g_bIsVspBridged |-> FALSE,
     vsp_callbacks |-> FALSE, g_plugin_unload |-> FALSE, serverHooks |-> 0,
     bGameServerHooked |-> FALSE, reads |-> 0, told |-> 0, ends |-> 0]

mm_LoadPlugins(c) == [c EXCEPT !.reads = @ + 1]
SetAllLoaded(c)   == [c EXCEPT !.told = @ + 1]

mm_InitializeForLoad(c) == [c EXCEPT !.in_first_level = TRUE, !.serverHooks = @ + 1]

mm_StartupMetamod(c, is_vsp_load) ==
    IF is_vsp_load THEN [c EXCEPT !.g_bIsVspBridged = TRUE]
    ELSE [mm_LoadPlugins(c) EXCEPT !.g_bIsVspBridged = FALSE, !.in_first_level = TRUE]

\* CompleteShutdown takes every hook out, those of the core included.
mm_UnloadMetamod(c) == [c EXCEPT !.serverHooks = 0, !.g_plugin_unload = FALSE]

DLLInit_Pre(c) ==
    mm_StartupMetamod(mm_InitializeForLoad([c EXCEPT !.is_gamedll_loaded = TRUE]), FALSE)

NotifyBridgedOnly(c) ==                                         \* mutant
    IF c.is_gamedll_loaded
    THEN [c EXCEPT !.vsp_callbacks = TRUE, !.g_bIsVspBridged = TRUE]
    ELSE [c EXCEPT !.vsp_callbacks = TRUE]

NotifyVSPListening(c) ==
    IF c.is_gamedll_loaded
    THEN [c EXCEPT !.vsp_callbacks = TRUE, !.g_bIsVspBridged = TRUE, !.were_plugins_loaded = TRUE]
    ELSE [c EXCEPT !.vsp_callbacks = TRUE]

\* VspBridge::Load once the interfaces it needs are there.
VspBridgeLoad(c) ==
    [IF c.is_gamedll_loaded THEN NotifyVSPListening(c)
     ELSE mm_StartupMetamod(NotifyVSPListening(mm_InitializeForLoad(c)), TRUE)
       EXCEPT !.g_plugin_unload = TRUE]

VspBridgeUnload(c) ==
    IF c.is_gamedll_loaded THEN [c EXCEPT !.g_plugin_unload = FALSE] ELSE mm_UnloadMetamod(c)

\* In VSP mode the plugins are loaded at the first chance after the VSP is.
LoadLate(c) ==
    IF c.g_bIsVspBridged /\ ~c.were_plugins_loaded
    THEN [SetAllLoaded(mm_LoadPlugins(c)) EXCEPT !.were_plugins_loaded = TRUE]
    ELSE c

mm_HandleGameInit(c) ==
    IF c.is_game_init THEN c ELSE [LoadLate(c) EXCEPT !.is_game_init = TRUE]

\* At the end of every level but the first the plugin files are read again.
ReadAgain(c) ==
    IF c.in_first_level THEN [c EXCEPT !.in_first_level = FALSE] ELSE mm_LoadPlugins(c)

mm_HandleLevelShutdown(c) ==
    LET late == c.g_bIsVspBridged /\ ~c.were_plugins_loaded
        first == [LoadLate(c) EXCEPT !.in_first_level = @ \/ late]
    IN [ReadAgain(first) EXCEPT !.ends = @ + 1]

\* InitializeVSP types "plugin_load" for the loader into the engine's console.
InitializeVSP(c, e) == IF c.g_bIsVspBridged THEN e ELSE [e EXCEPT !.commands = @ + 1]

-----------------------------------------------------------------------------
(* The loader.  Pointers are TRUE when they are not NULL; opened counts the *)
(* handles the loader has of the game library at each path.                 *)
NewLoader ==
    [game_info_detected |-> 0, gamedll_libs |-> [p \in Paths |-> FALSE], gamedll_lib |-> Nowhere,
     opened |-> [p \in Paths |-> 0], isgd_orig_init |-> FALSE, isgd_orig_shutdown |-> FALSE,
     is2sc_orig_connect |-> FALSE, is2sc_orig_allowdedi |-> FALSE,
     gamedll_bridge |-> FALSE, vsp_bridge |-> FALSE, mm_library |-> FALSE,
     load_allowed |-> FALSE, shifts |-> 0, swapped |-> FALSE]

\* The first path whose library has the interface, 0 if there is none.
Provider(content, version) ==
    LET has == {p \in Paths : content[p] = version}
    IN IF has = {} THEN Nowhere ELSE CHOOSE p \in has : \A q \in has : p <= q

mm_LoadMetamodLibrary(l)   == [l EXCEPT !.mm_library = TRUE]
mm_UnloadMetamodLibrary(l) == [l EXCEPT !.mm_library = FALSE]

\* gameinfo.txt or gameinfo.gi is read once, and may name no game path.
mm_DetectGameInformation(l) ==
    IF l.game_info_detected # 0 THEN {l}
    ELSE {[l EXCEPT !.game_info_detected = found] : found \in {-1, 1}}

\* A patched entry of the game's vtables keeps the original function.
mm_PatchDllInit(l, patch)        == [l EXCEPT !.isgd_orig_init = patch]
mm_PatchDllShutdown(l)           == [l EXCEPT !.isgd_orig_shutdown = TRUE]
mm_PatchConnect(l, patch)        == [l EXCEPT !.is2sc_orig_connect = patch]
mm_PatchAllowDedicated(l, patch) == [l EXCEPT !.is2sc_orig_allowdedi = patch]

\* mm_GameDllRequest opens libraries in the order of the paths and keeps them
\* cached until one answers; the others are freed then.
Cached(l, content, found) ==
    [p \in Paths |-> l.gamedll_libs[p]
                     \/ (content[p] # Broken /\ (found = Nowhere \/ p <= found))]

Searched(l, content, version) ==
    LET found  == Provider(content, version)
        cached == Cached(l, content, found)
        opened == [p \in Paths |-> l.opened[p] + IF cached[p] /\ ~l.gamedll_libs[p] THEN 1 ELSE 0]
        kept   == [p \in Paths |-> cached[p] /\ p # found]
    IN IF found = Nowhere THEN [l EXCEPT !.gamedll_libs = cached, !.opened = opened]
       ELSE [l EXCEPT !.gamedll_libs = kept,
                      !.opened = [p \in Paths |-> opened[p] - IF kept[p] THEN 1 ELSE 0],
                      !.gamedll_lib = found]

\* ServerGameDLL, and Source2ServerConfig of Source 2 (on Windows with a second
\* patch).
GameRequest(l, e) ==
    LET r == Searched(l, e.content, e.ask)
    IN IF r.gamedll_lib = Nowhere THEN r ELSE mm_PatchDllInit(r, TRUE)

ConfigRequest(l, e) ==
    LET r == Searched(l, e.content, e.ask)
    IN IF r.gamedll_lib = Nowhere THEN r
       ELSE mm_PatchAllowDedicated(mm_PatchConnect(r, TRUE), e.windows)

\* ServerPlugin::Load makes the vtable of the callbacks fit the engine.
FitVtable(l, kind) ==
    [l EXCEPT !.swapped = @ \/ kind # "Episode1",
              !.shifts  = @ + IF kind # "AlienSwarm" THEN 1 ELSE 0]

\* ServerPlugin::Unload.  vsp_bridge keeps its value.
UnloadAlways(l) == mm_UnloadMetamodLibrary(l)                   \* mutant
VspUnloaded(l) == IF l.gamedll_bridge THEN l ELSE mm_UnloadMetamodLibrary(l)

-----------------------------------------------------------------------------
(* The engine.  A game goes off, asked, initing, up, (game, level, up)*,    *)
(* down, in Source 2 with config and connected before asked; vsp says       *)
(* whether the loader is one of its server plugins.                         *)
Asking(e) == IF IsSource2(e) THEN 1 ELSE Newest       \* Source 2 has one name to ask for

Engines ==
    {e \in [gameinfo : BOOLEAN, windows : BOOLEAN, kind : Kinds \cup {"Source2"},
            content : [Paths -> Contents], game : {"off"}, ask : {1, Newest}, vsp : {FALSE},
            levels : {0}, commands : {0}, typed : {0}] :
       /\ e.ask = Asking(e)
       /\ IF IsSource2(e) THEN e.gameinfo ELSE ~e.windows}

StartupInit ==
    /\ engine \in Engines
    /\ loader = NewLoader
    /\ core = FreshCore

In(states) == engine.game \in states
Running == In({"up", "game", "level"})

\* CreateInterface for ServerGameDLL, newest version first, or for
\* Source2ServerConfig.
AskGame ==
    /\ In({"off"}) /\ engine.gameinfo
    /\ \E l \in mm_DetectGameInformation(loader) :
         loader' = IF l.game_info_detected = -1 THEN l
                   ELSE IF IsSource2(engine) THEN ConfigRequest(l, engine) ELSE GameRequest(l, engine)
    /\ engine' = [engine EXCEPT !.ask = @ - 1,
                    !.game = IF loader'.gamedll_lib # Nowhere
                             THEN IF IsSource2(engine) THEN "config" ELSE "asked"
                             ELSE IF engine.ask = 1 THEN "down" ELSE "off"]
    /\ UNCHANGED core

\* Without the loader in gameinfo.txt the engine finds the game itself.
FindGame ==
    /\ In({"off"}) /\ ~engine.gameinfo
    /\ engine' = [engine EXCEPT !.game = "up"]
    /\ UNCHANGED <<loader, core>>

\* ISource2ServerConfig::Connect and AllowDedicatedServers of the thunk, each once.
Connect ==
    /\ In({"config"})
    /\ engine' = [engine EXCEPT !.game = "connected"]
    /\ loader' = mm_PatchConnect(loader, FALSE)
    /\ UNCHANGED core

AllowDedicatedServers ==
    /\ In({"connected"}) /\ loader.is2sc_orig_allowdedi
    /\ loader' = mm_PatchAllowDedicated(loader, FALSE)
    /\ UNCHANGED <<engine, core>>

\* CreateInterface for Source2Server.
AskServer ==
    /\ In({"connected"})
    /\ engine' = [engine EXCEPT !.game = "asked"]
    /\ loader' = mm_PatchDllInit(loader, TRUE)
    /\ UNCHANGED core

\* IServerGameDLL::DLLInit, or ISource2Server::Init, of the thunk, up to the call of the original.
GameBridged(l) == [mm_LoadMetamodLibrary(l) EXCEPT !.gamedll_bridge = TRUE]

DLLInit ==
    /\ In({"asked"})
    /\ engine' = [engine EXCEPT !.game = "initing"]
    /\ \/ /\ engine.kind # "UNKNOWN"
          /\ loader' = GameBridged(loader)
          /\ core' = DLLInit_Pre(FreshCore)
       \/ UNCHANGED <<loader, core>>         \* no library, or one without the bridge

\* The original returns true, and DLLInit_Post is called.  The thunk of DLLShutdown
\* goes in only with a bridge.
GameInited(l) ==
    mm_PatchDllInit(IF l.gamedll_bridge THEN mm_PatchDllShutdown(l) ELSE l, FALSE)

DLLInitReturns ==
    /\ In({"initing"})
    /\ engine' = [engine EXCEPT !.game = "up"]
    /\ loader' = GameInited(loader)
    /\ core' = IF loader.gamedll_bridge THEN SetAllLoaded(core) ELSE core

\* The original returns false: the engine gives up.  Without a bridge the
\* code calls through NULL then.
DLLInitFails ==
    /\ In({"initing"}) /\ loader.gamedll_bridge
    /\ engine' = [engine EXCEPT !.game = "down"]
    /\ loader' = mm_PatchDllInit(mm_UnloadMetamodLibrary([loader EXCEPT !.gamedll_bridge = FALSE]), FALSE)
    /\ core' = mm_UnloadMetamod(core)

\* GameInit, or the switch to the loop "levelload" of Source 2.
GameInit ==
    /\ In({"up"})
    /\ engine' = LET e == [engine EXCEPT !.game = "game"] IN
                 IF core.serverHooks > 0 /\ ~core.is_game_init /\ core.vsp_load_requested
                 THEN InitializeVSP(core, e) ELSE e
    /\ core' = IF core.serverHooks > 0 THEN mm_HandleGameInit(core) ELSE core
    /\ UNCHANGED loader

\* LevelInit, or StartupServer of Source 2: the hooks on the game server go in
\* when there is one.
GameServerHooked(c) == [c EXCEPT !.bGameServerHooked = TRUE]

LevelInit ==
    /\ In({"game"}) /\ engine.levels < MaxLevels
    /\ engine' = [engine EXCEPT !.game = "level", !.levels = @ + 1]
    /\ core' = IF IsSource2(engine) /\ core.serverHooks > 0 THEN GameServerHooked(core) ELSE core
    /\ UNCHANGED loader

\* LevelShutdown, or StartChangeLevel of Source 2.
HearsLevelEnd(c, e) == c.serverHooks > 0 /\ (IsSource2(e) => c.bGameServerHooked)

LevelShutdown ==
    /\ In({"level"})
    /\ engine' = [engine EXCEPT !.game = "up"]
    /\ core' = IF HearsLevelEnd(core, engine) THEN mm_HandleLevelShutdown(core) ELSE core
    /\ UNCHANGED loader

\* A plugin calls EnableVSPListener, at any time after it was loaded.
RequestBeforeTest(c, e) == e                                    \* mutant
RequestVSP(c, e) ==
    IF c.is_game_init /\ ~c.vsp_load_requested THEN InitializeVSP(c, e) ELSE e

EnableVSPListener ==
    /\ core.reads > 0 /\ loader.mm_library /\ ~In({"down"})
    /\ ~core.vsp_load_requested
    /\ engine' = RequestVSP(core, engine)
    /\ core' = [core EXCEPT !.vsp_load_requested = TRUE]
    /\ UNCHANGED loader

\* The engine loads the loader as a server plugin: CreateInterface, Load, and
\* after a Load that failed Unload, which does nothing then, and dlclose.
Callbacks == ~loader.vsp_bridge            \* mm_GetVspCallbacks is not NULL

VspLoad(e) ==
    \/ /\ ~Callbacks
       /\ engine' = e /\ UNCHANGED <<loader, core>>
    \/ /\ Callbacks
       /\ loader.gamedll_bridge \/ (~e.gameinfo /\ e.kind # "UNKNOWN")
       /\ engine' = [e EXCEPT !.vsp = TRUE]
       /\ loader' = mm_LoadMetamodLibrary([FitVtable(loader, e.kind) EXCEPT !.vsp_bridge = TRUE])
       /\ core' = VspBridgeLoad(IF loader.mm_library THEN core ELSE FreshCore)
    \/ /\ Callbacks /\ ~loader.gamedll_bridge
       /\ engine' = e
       /\ loader' = IF ~e.gameinfo THEN NewLoader
                    ELSE IF e.kind = "UNKNOWN" THEN loader ELSE FitVtable(loader, e.kind)
       /\ UNCHANGED core

\* From a .vdf file, or typed in.
LoadServerPlugin ==
    /\ Running /\ ~IsSource2(engine) /\ engine.typed < MaxRequests
    /\ VspLoad([engine EXCEPT !.typed = @ + 1])

\* From the command buffer; Source 2 does not know the command.
RunCommand ==
    /\ Running /\ engine.commands > 0
    /\ LET e == [engine EXCEPT !.commands = @ - 1]
       IN IF IsSource2(e) THEN engine' = e /\ UNCHANGED <<loader, core>> ELSE VspLoad(e)

\* The engine shuts down: server plugins first, then the game.
UnloadServerPlugin ==
    /\ Running /\ engine.vsp
    /\ engine' = [engine EXCEPT !.vsp = FALSE, !.game = "leaving"]
    /\ core' = VspBridgeUnload(core)
    /\ loader' = IF engine.gameinfo THEN VspUnloaded(loader) ELSE NewLoader

GameUnloaded(l) ==
    [mm_UnloadMetamodLibrary(l) EXCEPT !.gamedll_bridge = FALSE,
        !.opened[l.gamedll_lib] = @ - 1, !.gamedll_lib = Nowhere]

DLLShutdown ==
    /\ (Running /\ ~engine.vsp) \/ In({"leaving"})
    /\ engine' = [engine EXCEPT !.game = "down"]
    /\ IF loader.isgd_orig_shutdown
       THEN /\ core' = mm_UnloadMetamod(core)
            /\ loader' = GameUnloaded(loader)
       ELSE UNCHANGED <<loader, core>>

\* "plugin_unload" of the loader: the core ends the process with Error.
PluginUnload ==
    /\ Running /\ engine.vsp
    /\ engine' = [engine EXCEPT !.game = "down"]
    /\ UNCHANGED <<loader, core>>

\* Another process.
Restart ==
    /\ In({"down"})
    /\ engine' = [engine EXCEPT !.game = "off", !.ask = Asking(engine), !.vsp = FALSE, !.levels = 0,
                                !.commands = 0, !.typed = 0]
    /\ loader' = NewLoader /\ core' = FreshCore

StartupNext ==
    \/ AskGame \/ FindGame \/ Connect \/ AllowDedicatedServers \/ AskServer \/ DLLInit \/ DLLInitReturns \/ DLLInitFails
    \/ GameInit \/ LevelInit \/ LevelShutdown
    \/ EnableVSPListener \/ LoadServerPlugin \/ RunCommand
    \/ UnloadServerPlugin \/ DLLShutdown \/ PluginUnload \/ Restart

\* The engine runs its command buffer.
StartupSpec == StartupInit /\ [][StartupNext]_startupVars /\ WF_startupVars(RunCommand)

-----------------------------------------------------------------------------
\* No pointer the engine may still call through leads into a library that is
\* gone: the core while a bridge, a hook of its own or the thunk of DLLShutdown
\* needs it, and the game library while the game runs, whose handle is the only
\* one left open.  And the callbacks of a loaded server plugin are at the places
\* its engine expects: Load has moved them once, never for the newest engines.
\* The original Init is kept while its thunk is in, and Connect's no longer.
CallsLandInLoadedCode ==
    /\ loader.gamedll_bridge => loader.mm_library
    /\ engine.vsp => loader.vsp_bridge /\ loader.mm_library
    /\ core.serverHooks > 0 \/ core.g_plugin_unload => loader.mm_library
    /\ loader.isgd_orig_init <=> In({"asked", "initing"})
    /\ loader.is2sc_orig_connect <=> In({"config"})
    /\ loader.isgd_orig_shutdown /\ ~In({"down"}) => loader.gamedll_bridge
    /\ \A p \in Paths : loader.gamedll_lib # Nowhere =>
          loader.opened[p] = IF p = loader.gamedll_lib THEN 1 ELSE 0
    /\ engine.vsp => /\ loader.swapped <=> engine.kind # "Episode1"
                     /\ loader.shifts = IF engine.kind = "AlienSwarm" THEN 0 ELSE 1

\* Whichever way in, the plugin files are read once for every level that has
\* ended, the first read being the initial load, and plugins are told once that
\* all are loaded; hooks on the game are never put in twice.
ReadOncePerLevel ==
    /\ core.serverHooks <= 1
    /\ core.reads > 0 => core.reads = IF core.ends = 0 THEN 1 ELSE core.ends
    /\ core.is_game_init \/ core.ends > 0 => core.reads > 0
    /\ ~In({"initing", "down"}) => core.told = IF core.reads > 0 THEN 1 ELSE 0

\* A plugin that asked for server plugin callbacks gets them once the game is
\* initialised, whether it asked before or after, unless the server goes down or
\* the engine has no server plugins.
ListenerArrives ==
    core.vsp_load_requested /\ core.is_game_init /\ ~IsSource2(engine) ~> core.vsp_callbacks \/ ~Running
=============================================================================
