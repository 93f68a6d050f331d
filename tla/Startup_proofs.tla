---------------------------- MODULE Startup_proofs ----------------------------
(***************************************************************************)
(* No call of the engine lands in a library that is gone, and the plugins   *)
(* are loaded and told as often as they should be, for any number of game   *)
(* paths, versions, levels and requests.  The properties relate the flags   *)
(* of three parts; what makes them inductive is what each part knows of the *)
(* others in each phase of the engine.                                      *)
(***************************************************************************)
EXTENDS Startup, ListLemmas

-----------------------------------------------------------------------------
(* The states. *)
BeforeInit == {"off", "config", "connected", "asked"}
Playing == {"up", "game", "level"}
Games == BeforeInit \cup {"initing"} \cup Playing \cup {"leaving", "down"}

EngineStates ==
    [gameinfo : BOOLEAN, windows : BOOLEAN, kind : Kinds \cup {"Source2"},
     content : [Paths -> Contents], game : Games, ask : Int, vsp : BOOLEAN,
     levels : Nat, commands : Int, typed : Nat]

LoaderStates ==
    [game_info_detected : {-1, 0, 1}, gamedll_libs : [Paths -> BOOLEAN],
     gamedll_lib : Paths \cup {Nowhere}, opened : [Paths -> Int],
     isgd_orig_init : BOOLEAN, isgd_orig_shutdown : BOOLEAN,
     is2sc_orig_connect : BOOLEAN, is2sc_orig_allowdedi : BOOLEAN,
     gamedll_bridge : BOOLEAN, vsp_bridge : BOOLEAN, mm_library : BOOLEAN,
     load_allowed : BOOLEAN, shifts : Nat, swapped : BOOLEAN]

CoreStates ==
    [is_gamedll_loaded : BOOLEAN, in_first_level : BOOLEAN, is_game_init : BOOLEAN,
     vsp_load_requested : BOOLEAN, were_plugins_loaded : BOOLEAN, g_bIsVspBridged : BOOLEAN,
     vsp_callbacks : BOOLEAN, g_plugin_unload : BOOLEAN, serverHooks : Nat,
     bGameServerHooked : BOOLEAN, reads : Nat, told : Nat, ends : Nat]

-----------------------------------------------------------------------------
(* The inductive invariant, by who relates to whom. *)

\* The core's counts follow from its flags: the first level is the one before the
\* first end; a core that came in as a server plugin has read the plugin files when
\* were_plugins_loaded says so, one that came in as the game library always.
CoreCounts(c) ==
    /\ c.serverHooks <= 1
    /\ c.in_first_level <=> c.ends = 0
    /\ c.reads = IF c.ends > 0 THEN c.ends ELSE IF c.reads > 0 THEN 1 ELSE 0
    /\ c.is_game_init => c.reads > 0
    /\ c.g_bIsVspBridged => (c.were_plugins_loaded <=> c.reads > 0)
    /\ c.is_gamedll_loaded => c.reads > 0
    /\ c.serverHooks > 0 => c.is_gamedll_loaded \/ c.g_bIsVspBridged

\* The plugins are told once, but only after the game's DLLInit has returned.
TellsOnce(e, c) ==
    e.game # "down" => c.told = IF c.reads > 0 /\ e.game # "initing" THEN 1 ELSE 0

\* While the engine asks, exactly the cached libraries are open; once one has
\* answered, only that one.
Handles(e, l) ==
    /\ e.game = "off" => /\ l.gamedll_lib = Nowhere
                         /\ e.ask > 0
                         /\ \A p \in Paths : l.opened[p] = IF l.gamedll_libs[p] THEN 1 ELSE 0
    /\ l.gamedll_lib # Nowhere =>
          \A p \in Paths : l.opened[p] = IF p = l.gamedll_lib THEN 1 ELSE 0

\* The thunk of DLLShutdown is in while there is a bridge to the game.
Thunks(e, l) ==
    /\ l.isgd_orig_init <=> e.game \in {"asked", "initing"}
    /\ l.is2sc_orig_connect <=> e.game = "config"
    /\ e.game \in Playing \cup {"leaving"} => (l.isgd_orig_shutdown <=> l.gamedll_bridge)
    /\ l.isgd_orig_shutdown => e.game \in Playing \cup {"leaving", "down"}

\* Only an engine that read the loader's directory in gameinfo.txt asks it for the
\* game, and the bridge to the game exists only then and from DLLInit on.
GameBridge(e, l) ==
    /\ e.game \in {"config", "connected", "asked", "initing"} => e.gameinfo
    /\ l.gamedll_bridge => e.gameinfo /\ e.kind # "UNKNOWN" /\ l.mm_library
    /\ l.gamedll_bridge => e.game \notin BeforeInit

\* The bridge of the server plugin exists while the game runs and the plugin is
\* loaded; without gameinfo.txt it is the only one.
ServerPluginBridge(e, l) ==
    /\ e.vsp => l.vsp_bridge
    /\ l.vsp_bridge => e.game \in Playing \cup {"leaving", "down"} /\ ~IsSource2(e)
    /\ e.game \in Playing => (l.vsp_bridge <=> e.vsp)
    /\ e.vsp => e.game \in Playing \cup {"down"}
    /\ e.vsp => l.gamedll_bridge \/ ~e.gameinfo

\* The core is loaded for a bridge, hooks and guards itself only while it is, and
\* knows which bridge is the game's.
CoreLoaded(e, l, c) ==
    /\ l.mm_library <=> l.gamedll_bridge \/ e.vsp
    /\ c.serverHooks > 0 \/ c.g_plugin_unload => l.mm_library
    /\ e.game \notin {"leaving", "down"} /\ l.mm_library =>
          (c.is_gamedll_loaded <=> l.gamedll_bridge)
    /\ e.game = "leaving" => ~c.g_plugin_unload
    /\ ~l.gamedll_bridge /\ e.game \in BeforeInit \cup {"initing"} => c = FreshCore

\* The vtable of the callbacks is as the compiler made it until a Load that can
\* succeed, and fits the engine after it.
Fitted(e, l) ==
    /\ e.vsp => /\ l.swapped <=> e.kind # "Episode1"
                /\ l.shifts = IF e.kind = "AlienSwarm" THEN 0 ELSE 1
    /\ ~l.vsp_bridge /\ (l.gamedll_bridge \/ ~e.gameinfo \/ e.game \in BeforeInit \cup {"initing"})
         => l.shifts = 0 /\ ~l.swapped

LoaderInv(e, l) == Handles(e, l) /\ Thunks(e, l) /\ Fitted(e, l)
BridgesInv(e, l, c) == GameBridge(e, l) /\ ServerPluginBridge(e, l) /\ CoreLoaded(e, l, c)
CoreInv(e, c) == CoreCounts(c) /\ TellsOnce(e, c)

StartupTypeOK == engine \in EngineStates /\ loader \in LoaderStates /\ core \in CoreStates

StartupInv ==
    /\ StartupTypeOK
    /\ CoreInv(engine, core)
    /\ LoaderInv(engine, loader)
    /\ BridgesInv(engine, loader, core)

-----------------------------------------------------------------------------
(* What the core's operations do to its counts. *)
\* A core that has just been loaded has no hooks and has read nothing.
LEMMA FreshCounts ==
    /\ FreshCore \in CoreStates
    /\ CoreCounts(FreshCore)
    /\ FreshCore.serverHooks = 0
    /\ ~FreshCore.g_plugin_unload
    /\ FreshCore.reads = 0
    /\ FreshCore.told = 0
<1>1. FreshCore \in CoreStates /\ CoreCounts(FreshCore)
  BY DEF FreshCore, CoreStates, CoreCounts
<1>2. FreshCore.serverHooks = 0 /\ FreshCore.reads = 0 /\ FreshCore.told = 0
  BY DEF FreshCore
<1>3. ~FreshCore.g_plugin_unload
  BY DEF FreshCore
<1>. QED
  BY <1>1, <1>2, <1>3

\* Each of them leaves a state of the core.
LEMMA CoreOperationsTyped ==
    ASSUME NEW c \in CoreStates
    PROVE  /\ mm_LoadPlugins(c) \in CoreStates
           /\ SetAllLoaded(c) \in CoreStates
           /\ mm_InitializeForLoad(c) \in CoreStates
           /\ NotifyVSPListening(c) \in CoreStates
           /\ mm_UnloadMetamod(c) \in CoreStates
<1>1. mm_LoadPlugins(c) \in CoreStates
  BY DEF mm_LoadPlugins, CoreStates
<1>2. SetAllLoaded(c) \in CoreStates
  BY DEF SetAllLoaded, CoreStates
<1>3. mm_InitializeForLoad(c) \in CoreStates
  <2>1. c.serverHooks + 1 \in Nat
    BY DEF CoreStates
  <2>. QED
    BY <2>1 DEF mm_InitializeForLoad, CoreStates
<1>4. NotifyVSPListening(c) \in CoreStates
  BY DEF NotifyVSPListening, CoreStates
<1>5. mm_UnloadMetamod(c) \in CoreStates
  BY DEF mm_UnloadMetamod, CoreStates
<1>. QED
  BY <1>1, <1>2, <1>3, <1>4, <1>5

\* So do the loading of plugins and of bridges.
LEMMA CoreLoadingTyped ==
    ASSUME NEW c \in CoreStates
    PROVE  /\ DLLInit_Pre(c) \in CoreStates
           /\ LoadLate(c) \in CoreStates
           /\ VspBridgeLoad(c) \in CoreStates
<1>1. ASSUME NEW d \in CoreStates, NEW is_vsp_load \in BOOLEAN
      PROVE  mm_StartupMetamod(d, is_vsp_load) \in CoreStates
  <2>1. mm_LoadPlugins(d) \in CoreStates
    BY CoreOperationsTyped
  <2>. QED
    BY <2>1 DEF mm_StartupMetamod, CoreStates
<1>2. DLLInit_Pre(c) \in CoreStates
  <2>1. [c EXCEPT !.is_gamedll_loaded = TRUE] \in CoreStates
    BY DEF CoreStates
  <2>2. mm_InitializeForLoad([c EXCEPT !.is_gamedll_loaded = TRUE]) \in CoreStates
    BY <2>1, CoreOperationsTyped
  <2>. QED
    BY <2>2, <1>1 DEF DLLInit_Pre
<1>3. LoadLate(c) \in CoreStates
  <2>1. SetAllLoaded(mm_LoadPlugins(c)) \in CoreStates
    BY CoreOperationsTyped
  <2>. QED
    BY <2>1 DEF LoadLate, CoreStates
<1>4. VspBridgeLoad(c) \in CoreStates
  <2>1. /\ NotifyVSPListening(c) \in CoreStates
        /\ mm_StartupMetamod(NotifyVSPListening(mm_InitializeForLoad(c)), TRUE) \in CoreStates
    BY <1>1, CoreOperationsTyped
  <2>. QED
    BY <2>1 DEF VspBridgeLoad, CoreStates
<1>. QED
  BY <1>2, <1>3, <1>4

\* mm_UnloadMetamod takes the hooks out and leaves the counts.
LEMMA UnloadMetamod ==
    ASSUME NEW c \in CoreStates, CoreCounts(c)
    PROVE  /\ CoreCounts(mm_UnloadMetamod(c))
           /\ mm_UnloadMetamod(c).serverHooks = 0
           /\ ~mm_UnloadMetamod(c).g_plugin_unload
           /\ mm_UnloadMetamod(c).told = c.told
           /\ mm_UnloadMetamod(c).reads = c.reads
<1>1. CoreCounts(mm_UnloadMetamod(c))
  BY DEF mm_UnloadMetamod, CoreStates, CoreCounts
<1>. QED
  BY <1>1 DEF mm_UnloadMetamod, CoreStates

\* DLLInit_Pre reads the plugin files and knows that the game is behind it.
LEMMA DLLInitPre ==
    /\ DLLInit_Pre(FreshCore) \in CoreStates
    /\ CoreCounts(DLLInit_Pre(FreshCore))
    /\ DLLInit_Pre(FreshCore).is_gamedll_loaded
    /\ DLLInit_Pre(FreshCore).reads = 1
    /\ DLLInit_Pre(FreshCore).told = 0
<1>1. DLLInit_Pre(FreshCore) \in CoreStates
  BY FreshCounts, CoreLoadingTyped
<1>. USE DEF DLLInit_Pre, mm_StartupMetamod, mm_InitializeForLoad, mm_LoadPlugins, FreshCore
<1>2. CoreCounts(DLLInit_Pre(FreshCore))
  BY DEF CoreCounts
<1>3. DLLInit_Pre(FreshCore).is_gamedll_loaded
  OBVIOUS
<1>4. DLLInit_Pre(FreshCore).reads = 1 /\ DLLInit_Pre(FreshCore).told = 0
  OBVIOUS
<1>. QED
  BY <1>1, <1>2, <1>3, <1>4

\* The late loading of plugins, where it applies, reads and tells once; afterwards a
\* core with hooks has read the plugin files.
LEMMA LoadsLate ==
    ASSUME NEW c \in CoreStates, CoreCounts(c), c.told = IF c.reads > 0 THEN 1 ELSE 0
    PROVE  /\ LoadLate(c) \in CoreStates
           /\ CoreCounts(LoadLate(c))
           /\ LoadLate(c).told = IF LoadLate(c).reads > 0 THEN 1 ELSE 0
           /\ c.serverHooks > 0 => LoadLate(c).reads > 0
           /\ LoadLate(c).serverHooks = c.serverHooks
           /\ LoadLate(c).g_plugin_unload = c.g_plugin_unload
           /\ LoadLate(c).is_gamedll_loaded = c.is_gamedll_loaded
           /\ LoadLate(c).ends = c.ends
           /\ ~(c.g_bIsVspBridged /\ ~c.were_plugins_loaded) => LoadLate(c) = c
           /\ c.g_bIsVspBridged /\ ~c.were_plugins_loaded => c.ends = 0
<1>. USE DEF LoadLate, SetAllLoaded, mm_LoadPlugins
<1>1. LoadLate(c) \in CoreStates
  BY CoreLoadingTyped
<1>2. CoreCounts(LoadLate(c))
  BY DEF CoreStates, CoreCounts
<1>3. /\ LoadLate(c).told = IF LoadLate(c).reads > 0 THEN 1 ELSE 0
      /\ c.serverHooks > 0 => LoadLate(c).reads > 0
  BY DEF CoreStates, CoreCounts
<1>4. /\ LoadLate(c).serverHooks = c.serverHooks
      /\ LoadLate(c).g_plugin_unload = c.g_plugin_unload
      /\ LoadLate(c).is_gamedll_loaded = c.is_gamedll_loaded
      /\ LoadLate(c).ends = c.ends
  BY DEF CoreStates
<1>5. c.g_bIsVspBridged /\ ~c.were_plugins_loaded => c.ends = 0
  BY DEF CoreStates, CoreCounts
<1>. QED
  BY <1>1, <1>2, <1>3, <1>4, <1>5

\* mm_HandleGameInit keeps the counts, the hooks and the bridges.
LEMMA HandlesGameInit ==
    ASSUME NEW c \in CoreStates, CoreCounts(c), c.told = IF c.reads > 0 THEN 1 ELSE 0,
           c.serverHooks > 0
    PROVE  /\ mm_HandleGameInit(c) \in CoreStates
           /\ CoreCounts(mm_HandleGameInit(c))
           /\ mm_HandleGameInit(c).told = IF mm_HandleGameInit(c).reads > 0 THEN 1 ELSE 0
           /\ mm_HandleGameInit(c).serverHooks = c.serverHooks
           /\ mm_HandleGameInit(c).g_plugin_unload = c.g_plugin_unload
           /\ mm_HandleGameInit(c).is_gamedll_loaded = c.is_gamedll_loaded
<1>. DEFINE d == LoadLate(c)
<1>1. /\ d \in CoreStates /\ CoreCounts(d)
      /\ d.told = IF d.reads > 0 THEN 1 ELSE 0
      /\ d.reads > 0
      /\ d.serverHooks = c.serverHooks
      /\ d.g_plugin_unload = c.g_plugin_unload
      /\ d.is_gamedll_loaded = c.is_gamedll_loaded
  BY LoadsLate
<1>2. mm_HandleGameInit(c) = IF c.is_game_init THEN c ELSE [d EXCEPT !.is_game_init = TRUE]
  BY DEF mm_HandleGameInit
<1>. HIDE DEF d
<1>3. mm_HandleGameInit(c) \in CoreStates
  BY <1>1, <1>2 DEF CoreStates
<1>4. CoreCounts(mm_HandleGameInit(c))
  BY <1>1, <1>2 DEF CoreStates, CoreCounts
<1>. QED
  BY <1>1, <1>2, <1>3, <1>4 DEF CoreStates

\* mm_HandleLevelShutdown reads the files again but after the first level, and keeps
\* the hooks and the bridges.
LEMMA HandlesLevelShutdown ==
    ASSUME NEW c \in CoreStates, CoreCounts(c), c.told = IF c.reads > 0 THEN 1 ELSE 0,
           c.serverHooks > 0
    PROVE  /\ mm_HandleLevelShutdown(c) \in CoreStates
           /\ CoreCounts(mm_HandleLevelShutdown(c))
           /\ mm_HandleLevelShutdown(c).told =
                IF mm_HandleLevelShutdown(c).reads > 0 THEN 1 ELSE 0
           /\ mm_HandleLevelShutdown(c).serverHooks = c.serverHooks
           /\ mm_HandleLevelShutdown(c).g_plugin_unload = c.g_plugin_unload
           /\ mm_HandleLevelShutdown(c).is_gamedll_loaded = c.is_gamedll_loaded
<1>. DEFINE late == c.g_bIsVspBridged /\ ~c.were_plugins_loaded
            d == LoadLate(c)
<1>1. /\ d \in CoreStates /\ CoreCounts(d)
      /\ d.told = IF d.reads > 0 THEN 1 ELSE 0
      /\ d.reads > 0
      /\ d.serverHooks = c.serverHooks
      /\ d.g_plugin_unload = c.g_plugin_unload
      /\ d.is_gamedll_loaded = c.is_gamedll_loaded
      /\ d.ends = c.ends
      /\ late => c.ends = 0
  BY LoadsLate
<1>2. [d EXCEPT !.in_first_level = @ \/ late] = d
  BY <1>1 DEF CoreStates, CoreCounts
<1>3. mm_HandleLevelShutdown(c) = [ReadAgain(d) EXCEPT !.ends = @ + 1]
  BY <1>2 DEF mm_HandleLevelShutdown
<1>. HIDE DEF d
<1>. USE DEF ReadAgain, mm_LoadPlugins
<1>4. mm_HandleLevelShutdown(c) \in CoreStates
  <2>1. ReadAgain(d) \in CoreStates
    <3>1. [d EXCEPT !.in_first_level = FALSE] \in CoreStates
      BY <1>1 DEF CoreStates
    <3>. QED
      BY <1>1, <3>1, CoreOperationsTyped
  <2>2. ReadAgain(d).ends + 1 \in Nat
    BY <2>1 DEF CoreStates
  <2>. HIDE DEF ReadAgain
  <2>. QED
    BY <2>1, <2>2, <1>3 DEF CoreStates
<1>5. CoreCounts(mm_HandleLevelShutdown(c))
  BY <1>1, <1>3 DEF CoreStates, CoreCounts
<1>6. mm_HandleLevelShutdown(c).told = 1 /\ mm_HandleLevelShutdown(c).reads > 0
  BY <1>1, <1>3 DEF CoreStates
<1>. QED
  BY <1>1, <1>3, <1>4, <1>5, <1>6 DEF CoreStates

\* A second bridge, to the server plugin, for a core the game's bridge has loaded; or
\* the first one, for a fresh core.
LEMMA LoadsSecondBridge ==
    ASSUME NEW c \in CoreStates, CoreCounts(c), c.is_gamedll_loaded
    PROVE  /\ VspBridgeLoad(c) \in CoreStates
           /\ CoreCounts(VspBridgeLoad(c))
           /\ VspBridgeLoad(c).told = c.told
           /\ VspBridgeLoad(c).reads = c.reads
           /\ VspBridgeLoad(c).is_gamedll_loaded
<1>. USE DEF VspBridgeLoad, NotifyVSPListening
<1>1. VspBridgeLoad(c) \in CoreStates
  BY CoreLoadingTyped
<1>2. CoreCounts(VspBridgeLoad(c))
  BY DEF CoreStates, CoreCounts
<1>. QED
  BY <1>1, <1>2 DEF CoreStates

\* The first bridge of a fresh core: the plugin files are read later.
LEMMA LoadsFirstBridge ==
    /\ VspBridgeLoad(FreshCore) \in CoreStates
    /\ CoreCounts(VspBridgeLoad(FreshCore))
    /\ VspBridgeLoad(FreshCore).told = 0
    /\ VspBridgeLoad(FreshCore).reads = 0
    /\ ~VspBridgeLoad(FreshCore).is_gamedll_loaded
<1>1. VspBridgeLoad(FreshCore) \in CoreStates
  BY FreshCounts, CoreLoadingTyped
<1>. USE DEF VspBridgeLoad, NotifyVSPListening, mm_StartupMetamod, mm_InitializeForLoad, FreshCore
<1>2. CoreCounts(VspBridgeLoad(FreshCore))
  BY DEF CoreCounts
<1>3. ~VspBridgeLoad(FreshCore).is_gamedll_loaded
  OBVIOUS
<1>4. VspBridgeLoad(FreshCore).reads = 0 /\ VspBridgeLoad(FreshCore).told = 0
  OBVIOUS
<1>. QED
  BY <1>1, <1>2, <1>3, <1>4

-----------------------------------------------------------------------------
(* The search for the game library. *)
\* Provider finds a path that has the version, when there is one.
LEMMA FirstProvider ==
    ASSUME NEW content \in [Paths -> Contents], NEW version
    PROVE  LET found == Provider(content, version)
           IN found # Nowhere => found \in Paths /\ content[found] = version
<1>. DEFINE has == {p \in Paths : content[p] = version}
<1>1. ASSUME has # {}
      PROVE  \E p \in has : \A q \in has : p <= q
  <2>1. has \subseteq Nat
    BY StartupAssumption DEF Paths
  <2>. HIDE DEF has
  <2>. QED
    BY <1>1, <2>1, LeastNatural
<1>. QED
  BY <1>1 DEF Provider

\* The loader after a search: only its libraries differ, and their handles are one per
\* cached library while none has answered, or one, of the library that has.
LoaderSearched(l, r) ==
    \E libs \in [Paths -> BOOLEAN], handles \in [Paths -> Int], lib \in Paths \cup {Nowhere} :
      /\ r = [l EXCEPT !.gamedll_libs = libs, !.opened = handles, !.gamedll_lib = lib]
      /\ \A p \in Paths :
           handles[p] = IF lib = Nowhere THEN IF libs[p] THEN 1 ELSE 0
                        ELSE IF p = lib THEN 1 ELSE 0

\* mm_GameDllRequest leaves open what LoaderSearched says.
LEMMA Searches ==
    ASSUME NEW l \in LoaderStates, NEW content \in [Paths -> Contents], NEW version \in Nat \ {0},
           \A p \in Paths : l.opened[p] = IF l.gamedll_libs[p] THEN 1 ELSE 0,
           l.gamedll_lib = Nowhere
    PROVE  LoaderSearched(l, Searched(l, content, version))
<1>. USE DEF LoaderSearched
<1>. DEFINE found  == Provider(content, version)
            cached == Cached(l, content, found)
            opened == [p \in Paths |-> l.opened[p] + IF cached[p] /\ ~l.gamedll_libs[p] THEN 1 ELSE 0]
            kept   == [p \in Paths |-> cached[p] /\ p # found]
            closed == [p \in Paths |-> opened[p] - IF kept[p] THEN 1 ELSE 0]
<1>1. found # Nowhere => found \in Paths /\ content[found] = version
  BY FirstProvider
<1>2. /\ cached \in [Paths -> BOOLEAN]
      /\ \A p \in Paths : l.gamedll_libs[p] => cached[p]
      /\ found # Nowhere => cached[found]
  <2>1. Paths \subseteq Int /\ version # Broken
    BY StartupAssumption DEF Paths, Broken
  <2>2. cached \in [Paths -> BOOLEAN]
    BY DEF Cached
  <2>3. \A p \in Paths : l.gamedll_libs[p] => cached[p]
    BY DEF Cached
  <2>4. found # Nowhere => cached[found]
    <3>1. found # Nowhere => found \in Paths /\ content[found] # Broken
      BY <1>1, <2>1, Zenon
    <3>2. \A i \in Int : i <= i
      OBVIOUS
    <3>3. \A p \in Paths : content[p] # Broken /\ p <= found => cached[p]
      BY DEF Cached
    <3>. HIDE DEF cached, found
    <3>. QED
      BY <2>1, <3>1, <3>2, <3>3, Zenon
  <2>. HIDE DEF cached, found
  <2>. QED
    BY <2>2, <2>3, <2>4
<1>3. \A p \in Paths : opened[p] = IF cached[p] THEN 1 ELSE 0
  <2>. HIDE DEF cached
  <2>. QED
    BY <1>2 DEF LoaderStates
<1>4. CASE found = Nowhere
  <2>1. Searched(l, content, version) = [l EXCEPT !.gamedll_libs = cached, !.opened = opened]
    BY <1>4 DEF Searched
  <2>2. opened \in [Paths -> Int]
    <3>1. opened = [p \in Paths |-> opened[p]]
      OBVIOUS
    <3>. HIDE DEF opened
    <3>. QED
      BY <1>3, <3>1
  <2>. HIDE DEF cached, opened
  <2>3. [l EXCEPT !.gamedll_libs = cached, !.opened = opened] =
        [l EXCEPT !.gamedll_libs = cached, !.opened = opened, !.gamedll_lib = Nowhere]
    BY DEF LoaderStates
  <2>4. /\ Nowhere \in Paths \cup {Nowhere}
        /\ \A p \in Paths : opened[p] = IF Nowhere = Nowhere THEN IF cached[p] THEN 1 ELSE 0
                                        ELSE IF p = Nowhere THEN 1 ELSE 0
    BY <1>3
  <2>5. cached \in [Paths -> BOOLEAN]
    BY <1>2
  <2>. USE <2>2, <2>4, <2>5
  <2>. WITNESS cached \in [Paths -> BOOLEAN], opened \in [Paths -> Int],
               Nowhere \in Paths \cup {Nowhere}
  <2>. QED
    BY <2>1, <2>3, <2>4, Zenon
<1>5. CASE found # Nowhere
  <2>1. Searched(l, content, version) =
          [l EXCEPT !.gamedll_libs = kept, !.opened = closed, !.gamedll_lib = found]
    BY <1>5 DEF Searched
  <2>2. \A p \in Paths : closed[p] = IF p = found THEN 1 ELSE 0
    <3>1. \A p \in Paths : closed[p] = opened[p] - IF cached[p] /\ p # found THEN 1 ELSE 0
      BY Zenon
    <3>. HIDE DEF cached, opened, found, closed
    <3>. QED
      BY <3>1, <1>1, <1>2, <1>3, <1>5
  <2>3. kept \in [Paths -> BOOLEAN] /\ closed \in [Paths -> Int]
    <3>1. kept \in [Paths -> BOOLEAN]
      OBVIOUS
    <3>2. closed = [p \in Paths |-> closed[p]]
      OBVIOUS
    <3>. HIDE DEF closed
    <3>. QED
      BY <2>2, <3>1, <3>2
  <2>. HIDE DEF cached, opened, kept, closed, found
  <2>4. /\ found \in Paths \cup {Nowhere}
        /\ \A p \in Paths : closed[p] = IF found = Nowhere THEN IF kept[p] THEN 1 ELSE 0
                                        ELSE IF p = found THEN 1 ELSE 0
    BY <1>1, <1>5, <2>2
  <2>. USE <2>3, <2>4
  <2>. WITNESS kept \in [Paths -> BOOLEAN], closed \in [Paths -> Int],
               found \in Paths \cup {Nowhere}
  <2>. QED
    BY <2>1, <2>4, Zenon
<1>. QED
  BY <1>4, <1>5

\* A loader that has just been loaded: no pointer, no handle.
LEMMA NewLoaderStates ==
    /\ NewLoader \in LoaderStates
    /\ ~NewLoader.gamedll_bridge /\ ~NewLoader.vsp_bridge /\ ~NewLoader.mm_library
    /\ ~NewLoader.isgd_orig_init /\ ~NewLoader.isgd_orig_shutdown /\ ~NewLoader.is2sc_orig_connect
    /\ NewLoader.gamedll_lib = Nowhere
    /\ \A p \in Paths : NewLoader.opened[p] = IF NewLoader.gamedll_libs[p] THEN 1 ELSE 0
    /\ NewLoader.shifts = 0
    /\ ~NewLoader.swapped
<1>. USE DEF NewLoader
<1>1. NewLoader \in LoaderStates
  BY DEF LoaderStates, Nowhere
<1>2. ~NewLoader.gamedll_bridge /\ ~NewLoader.vsp_bridge /\ ~NewLoader.mm_library
  OBVIOUS
<1>3. ~NewLoader.isgd_orig_init /\ ~NewLoader.isgd_orig_shutdown /\ ~NewLoader.is2sc_orig_connect
  OBVIOUS
<1>4. \A p \in Paths : NewLoader.opened[p] = IF NewLoader.gamedll_libs[p] THEN 1 ELSE 0
  OBVIOUS
<1>5. NewLoader.gamedll_lib = Nowhere /\ NewLoader.shifts = 0 /\ ~NewLoader.swapped
  OBVIOUS
<1>. QED
  BY <1>1, <1>2, <1>3, <1>4, <1>5

\* A step of the engine changes these of its fields.
LEMMA EngineUpdates ==
    ASSUME NEW e \in EngineStates, NEW game \in Games, NEW ask \in Int, NEW vsp \in BOOLEAN,
           NEW levels \in Nat, NEW commands \in Int, NEW typed \in Nat
    PROVE  [e EXCEPT !.game = game, !.ask = ask, !.vsp = vsp, !.levels = levels,
                     !.commands = commands, !.typed = typed] \in EngineStates
BY DEF EngineStates

\* One handle less, of a path or of none, leaves counts of handles.
LEMMA OneLess ==
    ASSUME NEW opened \in [Paths -> Int], NEW p
    PROVE  [opened EXCEPT ![p] = @ - 1] \in [Paths -> Int]
<1>1. CASE p \in Paths
  BY <1>1
<1>2. CASE p \notin Paths
  <2>1. [opened EXCEPT ![p] = @ - 1] = opened
    BY <1>2
  <2>. QED
    BY <2>1
<1>. QED
  BY <1>1, <1>2

\* GameUnloaded drops the core, the bridge and the game library.
LEMMA UnloadsGame ==
    ASSUME NEW l \in LoaderStates
    PROVE  /\ GameUnloaded(l) \in LoaderStates
           /\ ~GameUnloaded(l).mm_library /\ ~GameUnloaded(l).gamedll_bridge
           /\ GameUnloaded(l).gamedll_lib = Nowhere
           /\ GameUnloaded(l).isgd_orig_init = l.isgd_orig_init
           /\ GameUnloaded(l).is2sc_orig_connect = l.is2sc_orig_connect
           /\ GameUnloaded(l).vsp_bridge = l.vsp_bridge
<1>. DEFINE k == mm_UnloadMetamodLibrary(l)
            opened == [k.opened EXCEPT ![l.gamedll_lib] = @ - 1]
<1>1. /\ k \in LoaderStates
      /\ ~k.mm_library
      /\ k.isgd_orig_init = l.isgd_orig_init
      /\ k.is2sc_orig_connect = l.is2sc_orig_connect
      /\ k.vsp_bridge = l.vsp_bridge
  BY DEF mm_UnloadMetamodLibrary, LoaderStates
<1>. HIDE DEF k
<1>2. opened \in [Paths -> Int]
  <2>1. k.opened \in [Paths -> Int]
    BY <1>1 DEF LoaderStates
  <2>. QED
    BY <2>1, OneLess, Zenon
<1>3. GameUnloaded(l) = [k EXCEPT !.gamedll_bridge = FALSE, !.opened = opened, !.gamedll_lib = Nowhere]
  BY DEF GameUnloaded, k
<1>. HIDE DEF opened
<1>. QED
  BY <1>1, <1>2, <1>3 DEF LoaderStates

-----------------------------------------------------------------------------
(* Each step keeps the invariant. *)
USE DEF In, Running, IsSource2, BeforeInit, Playing, Nowhere

\* Another process starts with nothing loaded.
LEMMA RestartKeeps ==
    ASSUME StartupInv, Restart
    PROVE  StartupInv'
<1>1. engine \in EngineStates
  BY DEF StartupInv, StartupTypeOK
<1>2. Asking(engine) \in Nat \ {0}
  BY StartupAssumption DEF Asking
<1>3. loader' = NewLoader /\ core' = FreshCore
  BY DEF Restart
<1>4. engine' \in EngineStates
  <2>1. engine' = [engine EXCEPT !.game = "off", !.ask = Asking(engine), !.vsp = FALSE,
                                 !.levels = 0, !.commands = 0, !.typed = 0]
    BY DEF Restart
  <2>2. "off" \in Games /\ FALSE \in BOOLEAN /\ 0 \in Nat /\ 0 \in Int
    BY DEF Games
  <2>3. Asking(engine) \in Int
    BY <1>2
  <2>. QED
    BY <1>1, <2>1, <2>2, <2>3, EngineUpdates, Zenon
<1>5. engine'.game = "off" /\ ~engine'.vsp /\ engine'.ask > 0
  BY <1>1, <1>2 DEF Restart, EngineStates
<1>. USE <1>3, <1>5
<1>6. loader' \in LoaderStates /\ core' \in CoreStates
  BY NewLoaderStates, FreshCounts
<1>7. CoreInv(engine, core)'
  BY FreshCounts DEF CoreInv, TellsOnce
<1>8. LoaderInv(engine, loader)'
  BY NewLoaderStates DEF LoaderInv, Handles, Thunks, Fitted
<1>9. BridgesInv(engine, loader, core)'
  BY NewLoaderStates, FreshCounts DEF BridgesInv, GameBridge, ServerPluginBridge, CoreLoaded
<1>. QED
  BY <1>4, <1>6, <1>7, <1>8, <1>9 DEF StartupInv, StartupTypeOK

\* The thunk of DLLShutdown unloads all; without it nothing is loaded any more.
LEMMA DLLShutdownKeeps ==
    ASSUME StartupInv, DLLShutdown
    PROVE  StartupInv'
<1>1. engine \in EngineStates /\ loader \in LoaderStates /\ core \in CoreStates
  BY DEF StartupInv, StartupTypeOK
<1>2. CoreInv(engine, core) /\ LoaderInv(engine, loader) /\ BridgesInv(engine, loader, core)
  BY DEF StartupInv
<1>3. ~engine.vsp /\ (loader.isgd_orig_shutdown <=> loader.gamedll_bridge)
  BY <1>1, <1>2 DEF DLLShutdown, EngineStates, BridgesInv, ServerPluginBridge, LoaderInv, Thunks
<1>4. engine' \in EngineStates /\ engine'.game = "down" /\ ~engine'.vsp
  BY <1>1, <1>3 DEF DLLShutdown, EngineStates, Games
<1>5. engine'.kind = engine.kind /\ engine'.gameinfo = engine.gameinfo
  BY <1>1 DEF DLLShutdown, EngineStates
<1>6. CASE loader.isgd_orig_shutdown
  <2>1. core' = mm_UnloadMetamod(core) /\ loader' = GameUnloaded(loader)
    BY <1>6 DEF DLLShutdown
  <2>2. loader' \in LoaderStates
    BY <1>1, <2>1, UnloadsGame
  <2>3. core' \in CoreStates /\ CoreInv(engine, core)'
    BY <1>1, <1>2, <1>4, <2>1, UnloadMetamod, CoreOperationsTyped DEF CoreInv, TellsOnce
  <2>4. LoaderInv(engine, loader)'
    BY <1>1, <1>2, <1>3, <1>4, <1>5, <1>6, <2>1, UnloadsGame
       DEF DLLShutdown, LoaderInv, Handles, Thunks, Fitted, BridgesInv, GameBridge
  <2>5. BridgesInv(engine, loader, core)'
    BY <1>1, <1>2, <1>4, <1>5, <2>1, UnloadsGame, UnloadMetamod
       DEF CoreInv, BridgesInv, GameBridge, ServerPluginBridge, CoreLoaded
  <2>. QED
    BY <1>4, <2>2, <2>3, <2>4, <2>5 DEF StartupInv, StartupTypeOK
<1>7. CASE ~loader.isgd_orig_shutdown
  <2>1. loader' = loader /\ core' = core
    BY <1>7 DEF DLLShutdown
  <2>2. CoreInv(engine, core)'
    BY <1>2, <1>4, <2>1 DEF CoreInv, TellsOnce
  <2>3. LoaderInv(engine, loader)'
    BY <1>2, <1>3, <1>4, <1>5, <1>7, <2>1 DEF DLLShutdown, LoaderInv, Handles, Thunks, Fitted
  <2>4. BridgesInv(engine, loader, core)'
    BY <1>2, <1>3, <1>4, <1>5, <1>7, <2>1
       DEF BridgesInv, GameBridge, ServerPluginBridge, CoreLoaded
  <2>. QED
    BY <1>1, <1>4, <2>1, <2>2, <2>3, <2>4 DEF StartupInv, StartupTypeOK
<1>. QED
  BY <1>6, <1>7

\* Unloading the server plugin unloads the core only when the game's bridge does not
\* need it.
LEMMA UnloadServerPluginKeeps ==
    ASSUME StartupInv, UnloadServerPlugin
    PROVE  StartupInv'
<1>1. engine \in EngineStates /\ loader \in LoaderStates /\ core \in CoreStates
  BY DEF StartupInv, StartupTypeOK
<1>2. CoreInv(engine, core) /\ LoaderInv(engine, loader) /\ BridgesInv(engine, loader, core)
  BY DEF StartupInv
<1>3. /\ engine' \in EngineStates /\ engine'.game = "leaving" /\ ~engine'.vsp
      /\ engine'.kind = engine.kind /\ engine'.gameinfo = engine.gameinfo
  BY <1>1 DEF UnloadServerPlugin, EngineStates, Games
<1>4. /\ engine.vsp /\ loader.mm_library
      /\ engine.game \notin {"leaving", "down"}
      /\ core.is_gamedll_loaded <=> loader.gamedll_bridge
      /\ loader.gamedll_bridge <=> engine.gameinfo
  BY <1>1, <1>2 DEF UnloadServerPlugin, EngineStates, LoaderStates, BridgesInv, GameBridge,
                    ServerPluginBridge, CoreLoaded
<1>5. CASE loader.gamedll_bridge
  <2>1. core' = [core EXCEPT !.g_plugin_unload = FALSE] /\ loader' = loader
    BY <1>4, <1>5 DEF UnloadServerPlugin, VspBridgeUnload, VspUnloaded
  <2>2. core' \in CoreStates
    BY <1>1, <2>1 DEF CoreStates
  <2>3. CoreInv(engine, core)'
    BY <1>1, <1>2, <1>3, <1>4, <2>1 DEF CoreStates, CoreInv, CoreCounts, TellsOnce,
                                        UnloadServerPlugin
  <2>4. LoaderInv(engine, loader)'
    BY <1>2, <1>3, <1>4, <2>1 DEF UnloadServerPlugin, LoaderInv, Handles, Thunks, Fitted, BridgesInv,
                                  ServerPluginBridge
  <2>5. BridgesInv(engine, loader, core)'
    BY <1>1, <1>2, <1>3, <1>4, <1>5, <2>1
       DEF CoreStates, BridgesInv, GameBridge, ServerPluginBridge, CoreLoaded
  <2>. QED
    BY <1>1, <1>3, <2>1, <2>2, <2>3, <2>4, <2>5 DEF StartupInv, StartupTypeOK
<1>6. CASE ~loader.gamedll_bridge
  <2>1. core' = mm_UnloadMetamod(core) /\ loader' = NewLoader
    BY <1>4, <1>6 DEF UnloadServerPlugin, VspBridgeUnload
  <2>2. loader' \in LoaderStates /\ core' \in CoreStates
    BY <1>1, <2>1, NewLoaderStates, CoreOperationsTyped
  <2>3. CoreInv(engine, core)'
    BY <1>1, <1>2, <1>3, <2>1, UnloadMetamod DEF CoreInv, TellsOnce, UnloadServerPlugin
  <2>4. LoaderInv(engine, loader)'
    BY <1>3, <2>1, NewLoaderStates DEF LoaderInv, Handles, Thunks, Fitted
  <2>5. BridgesInv(engine, loader, core)'
    BY <1>1, <1>2, <1>3, <2>1, NewLoaderStates, UnloadMetamod
       DEF CoreInv, BridgesInv, GameBridge, ServerPluginBridge, CoreLoaded
  <2>. QED
    BY <1>3, <2>2, <2>3, <2>4, <2>5 DEF StartupInv, StartupTypeOK
<1>. QED
  BY <1>5, <1>6

\* A step of the game that leaves the loader alone, and of the core's state neither
\* its hooks nor its bridges.
LEMMA GameSteps ==
    ASSUME StartupInv, UNCHANGED loader,
           engine' \in EngineStates, core' \in CoreStates, CoreInv(engine, core)',
           engine'.game = engine.game \/ {engine.game, engine'.game} \subseteq Playing,
           engine'.vsp = engine.vsp, engine'.ask = engine.ask, engine'.kind = engine.kind,
           engine'.gameinfo = engine.gameinfo,
           core'.serverHooks = core.serverHooks, core'.g_plugin_unload = core.g_plugin_unload,
           core'.is_gamedll_loaded = core.is_gamedll_loaded,
           core' = core \/ loader.mm_library
    PROVE  StartupInv'
<1>1. engine \in EngineStates /\ loader \in LoaderStates /\ core \in CoreStates
  BY DEF StartupInv, StartupTypeOK
<1>2. CoreInv(engine, core) /\ LoaderInv(engine, loader) /\ BridgesInv(engine, loader, core)
  BY DEF StartupInv
<1>3. loader' \in LoaderStates
  BY <1>1
<1>4. LoaderInv(engine, loader)'
  BY <1>2 DEF LoaderInv, Handles, Thunks, Fitted
<1>5. BridgesInv(engine, loader, core)'
  BY <1>2 DEF BridgesInv, GameBridge, ServerPluginBridge, CoreLoaded
<1>. QED
  BY <1>3, <1>4, <1>5 DEF StartupInv, StartupTypeOK

\* GameInit: plugins load late, and the core asks for its server plugin.
LEMMA GameInitKeeps ==
    ASSUME StartupInv, GameInit
    PROVE  StartupInv'
<1>1. engine \in EngineStates /\ loader \in LoaderStates /\ core \in CoreStates
  BY DEF StartupInv, StartupTypeOK
<1>2. CoreInv(engine, core) /\ LoaderInv(engine, loader) /\ BridgesInv(engine, loader, core)
  BY DEF StartupInv
<1>3. /\ engine' \in EngineStates /\ engine.game = "up" /\ engine'.game = "game"
      /\ engine'.vsp = engine.vsp /\ engine'.ask = engine.ask /\ engine'.kind = engine.kind
      /\ engine'.gameinfo = engine.gameinfo
  <2>1. [engine EXCEPT !.game = "game"] \in EngineStates
    BY <1>1 DEF EngineStates, Games
  <2>2. [engine EXCEPT !.game = "game"].commands + 1 \in Int
    BY <2>1 DEF EngineStates
  <2>3. engine' \in EngineStates
    BY <2>1, <2>2 DEF GameInit, InitializeVSP, EngineStates
  <2>. QED
    BY <1>1, <2>3 DEF GameInit, InitializeVSP, EngineStates
<1>4. core.told = IF core.reads > 0 THEN 1 ELSE 0
  BY <1>2, <1>3 DEF CoreInv, TellsOnce
<1>5. CASE core.serverHooks > 0
  <2>1. core' = mm_HandleGameInit(core) /\ UNCHANGED loader
    BY <1>5 DEF GameInit
  <2>2. core' \in CoreStates /\ CoreInv(engine, core)'
    BY <1>1, <1>2, <1>3, <1>4, <1>5, <2>1, HandlesGameInit DEF CoreInv, TellsOnce
  <2>3. loader.mm_library
    BY <1>2, <1>5 DEF BridgesInv, CoreLoaded
  <2>4. /\ core'.serverHooks = core.serverHooks /\ core'.g_plugin_unload = core.g_plugin_unload
        /\ core'.is_gamedll_loaded = core.is_gamedll_loaded
    BY <1>1, <1>2, <1>4, <1>5, <2>1, HandlesGameInit DEF CoreInv
  <2>. QED
    BY <1>3, <2>1, <2>2, <2>3, <2>4, GameSteps
<1>6. CASE ~(core.serverHooks > 0)
  <2>1. core' = core /\ UNCHANGED loader
    BY <1>6 DEF GameInit
  <2>2. CoreInv(engine, core)'
    BY <1>2, <1>3, <2>1 DEF CoreInv, TellsOnce
  <2>. QED
    BY <1>1, <1>3, <2>1, <2>2, GameSteps
<1>. QED
  BY <1>5, <1>6

\* LevelInit: a core in Source 2 hooks the game server.
LEMMA LevelInitKeeps ==
    ASSUME StartupInv, LevelInit
    PROVE  StartupInv'
<1>1. engine \in EngineStates /\ loader \in LoaderStates /\ core \in CoreStates
  BY DEF StartupInv, StartupTypeOK
<1>2. CoreInv(engine, core) /\ LoaderInv(engine, loader) /\ BridgesInv(engine, loader, core)
  BY DEF StartupInv
<1>3. /\ engine' \in EngineStates /\ engine.game = "game" /\ engine'.game = "level"
      /\ engine'.vsp = engine.vsp /\ engine'.ask = engine.ask /\ engine'.kind = engine.kind
      /\ engine'.gameinfo = engine.gameinfo
  <2>1. "level" \in Games
    BY DEF Games
  <2>2. engine.levels + 1 \in Nat
    BY <1>1 DEF EngineStates
  <2>. QED
    BY <1>1, <2>1, <2>2 DEF LevelInit, EngineStates
<1>4. CASE IsSource2(engine) /\ core.serverHooks > 0
  <2>1. core' = GameServerHooked(core) /\ UNCHANGED loader
    BY <1>4 DEF LevelInit
  <2>2. core' \in CoreStates
    BY <1>1, <2>1 DEF GameServerHooked, CoreStates
  <2>3. CoreInv(engine, core)'
    BY <1>1, <1>2, <1>3, <2>1 DEF GameServerHooked, CoreStates, CoreInv, CoreCounts, TellsOnce
  <2>4. /\ core'.serverHooks = core.serverHooks /\ core'.g_plugin_unload = core.g_plugin_unload
        /\ core'.is_gamedll_loaded = core.is_gamedll_loaded
    BY <1>1, <2>1 DEF GameServerHooked, CoreStates
  <2>5. loader.mm_library
    BY <1>2, <1>4 DEF BridgesInv, CoreLoaded
  <2>. QED
    BY <1>3, <2>1, <2>2, <2>3, <2>4, <2>5, GameSteps
<1>5. CASE ~(IsSource2(engine) /\ core.serverHooks > 0)
  <2>1. core' = core /\ UNCHANGED loader
    BY <1>5 DEF LevelInit
  <2>2. CoreInv(engine, core)'
    BY <1>2, <1>3, <2>1 DEF CoreInv, TellsOnce
  <2>. QED
    BY <1>1, <1>3, <2>1, <2>2, GameSteps
<1>. QED
  BY <1>4, <1>5

\* LevelShutdown, for a core that hears of it or one that does not.
LEMMA LevelShutdownKeeps ==
    ASSUME StartupInv, LevelShutdown
    PROVE  StartupInv'
<1>1. engine \in EngineStates /\ loader \in LoaderStates /\ core \in CoreStates
  BY DEF StartupInv, StartupTypeOK
<1>2. CoreInv(engine, core) /\ LoaderInv(engine, loader) /\ BridgesInv(engine, loader, core)
  BY DEF StartupInv
<1>3. /\ engine' \in EngineStates /\ engine.game = "level" /\ engine'.game = "up"
      /\ engine'.vsp = engine.vsp /\ engine'.ask = engine.ask /\ engine'.kind = engine.kind
      /\ engine'.gameinfo = engine.gameinfo
  BY <1>1 DEF LevelShutdown, EngineStates, Games
<1>4. core.told = IF core.reads > 0 THEN 1 ELSE 0
  BY <1>2, <1>3 DEF CoreInv, TellsOnce
<1>5. CASE HearsLevelEnd(core, engine)
  <2>1. core' = mm_HandleLevelShutdown(core) /\ UNCHANGED loader /\ core.serverHooks > 0
    BY <1>5 DEF LevelShutdown, HearsLevelEnd
  <2>2. core' \in CoreStates /\ CoreInv(engine, core)'
    BY <1>1, <1>2, <1>3, <1>4, <2>1, HandlesLevelShutdown DEF CoreInv, TellsOnce
  <2>3. loader.mm_library
    BY <1>2, <2>1 DEF BridgesInv, CoreLoaded
  <2>4. /\ core'.serverHooks = core.serverHooks /\ core'.g_plugin_unload = core.g_plugin_unload
        /\ core'.is_gamedll_loaded = core.is_gamedll_loaded
    BY <1>1, <1>2, <1>4, <2>1, HandlesLevelShutdown DEF CoreInv
  <2>. QED
    BY <1>3, <2>1, <2>2, <2>3, <2>4, GameSteps
<1>6. CASE ~HearsLevelEnd(core, engine)
  <2>1. core' = core /\ UNCHANGED loader
    BY <1>6 DEF LevelShutdown
  <2>2. CoreInv(engine, core)'
    BY <1>2, <1>3, <2>1 DEF CoreInv, TellsOnce
  <2>. QED
    BY <1>1, <1>3, <2>1, <2>2, GameSteps
<1>. QED
  BY <1>5, <1>6

\* A plugin's request changes no bridge.
LEMMA EnableVSPListenerKeeps ==
    ASSUME StartupInv, EnableVSPListener
    PROVE  StartupInv'
<1>1. engine \in EngineStates /\ loader \in LoaderStates /\ core \in CoreStates
  BY DEF StartupInv, StartupTypeOK
<1>2. CoreInv(engine, core) /\ LoaderInv(engine, loader) /\ BridgesInv(engine, loader, core)
  BY DEF StartupInv
<1>3. /\ engine' \in EngineStates /\ engine'.game = engine.game
      /\ engine'.vsp = engine.vsp /\ engine'.ask = engine.ask /\ engine'.kind = engine.kind
      /\ engine'.gameinfo = engine.gameinfo
  BY <1>1 DEF EnableVSPListener, RequestVSP, InitializeVSP, EngineStates
<1>4. core' = [core EXCEPT !.vsp_load_requested = TRUE] /\ UNCHANGED loader /\ loader.mm_library
  BY DEF EnableVSPListener
<1>5. core' \in CoreStates
  BY <1>1, <1>4 DEF CoreStates
<1>6. CoreInv(engine, core)'
  BY <1>1, <1>2, <1>3, <1>4 DEF CoreStates, CoreInv, CoreCounts, TellsOnce
<1>7. /\ core'.serverHooks = core.serverHooks /\ core'.g_plugin_unload = core.g_plugin_unload
      /\ core'.is_gamedll_loaded = core.is_gamedll_loaded
  BY <1>1, <1>4 DEF CoreStates
<1>. QED
  BY <1>3, <1>4, <1>5, <1>6, <1>7, GameSteps

\* plugin_unload of the loader ends the process as it is.
LEMMA PluginUnloadKeeps ==
    ASSUME StartupInv, PluginUnload
    PROVE  StartupInv'
<1>1. engine \in EngineStates /\ loader \in LoaderStates /\ core \in CoreStates
  BY DEF StartupInv, StartupTypeOK
<1>2. CoreInv(engine, core) /\ LoaderInv(engine, loader) /\ BridgesInv(engine, loader, core)
  BY DEF StartupInv
<1>3. engine' \in EngineStates /\ engine'.game = "down"
  BY <1>1 DEF PluginUnload, EngineStates, Games
<1>4. CoreInv(engine, core)'
  BY <1>2, <1>3 DEF PluginUnload, CoreInv, TellsOnce
<1>5. LoaderInv(engine, loader)'
  BY <1>1, <1>2 DEF PluginUnload, EngineStates, LoaderInv, Handles, Thunks, Fitted
<1>6. BridgesInv(engine, loader, core)'
  BY <1>1, <1>2 DEF PluginUnload, EngineStates, BridgesInv, GameBridge, ServerPluginBridge,
                    CoreLoaded
<1>. QED
  BY <1>1, <1>3, <1>4, <1>5, <1>6 DEF PluginUnload, StartupInv, StartupTypeOK

\* Without gameinfo.txt the loader is not asked.
LEMMA FindGameKeeps ==
    ASSUME StartupInv, FindGame
    PROVE  StartupInv'
<1>1. engine \in EngineStates /\ loader \in LoaderStates /\ core \in CoreStates
  BY DEF StartupInv, StartupTypeOK
<1>2. CoreInv(engine, core) /\ LoaderInv(engine, loader) /\ BridgesInv(engine, loader, core)
  BY DEF StartupInv
<1>3. engine' \in EngineStates /\ engine'.game = "up"
  BY <1>1 DEF FindGame, EngineStates, Games
<1>4. loader' \in LoaderStates
  BY <1>1 DEF FindGame, LoaderStates
<1>5. core' = core
  BY DEF FindGame
<1>6. CoreInv(engine, core)'
  BY <1>1, <1>2, <1>3, <1>5 DEF FindGame, EngineStates, CoreInv, TellsOnce
<1>7. LoaderInv(engine, loader)'
  BY <1>1, <1>2 DEF FindGame, EngineStates, LoaderStates, LoaderInv, Handles, Thunks,
                    Fitted, BridgesInv, GameBridge, ServerPluginBridge
<1>8. BridgesInv(engine, loader, core)'
  BY <1>1, <1>2, <1>5, FreshCounts
     DEF FindGame, EngineStates, LoaderStates, BridgesInv, GameBridge,
         ServerPluginBridge, CoreLoaded
<1>. QED
  BY <1>1, <1>3, <1>4, <1>5, <1>6, <1>7, <1>8 DEF StartupInv, StartupTypeOK

\* The thunk of Connect takes itself out.
LEMMA ConnectKeeps ==
    ASSUME StartupInv, Connect
    PROVE  StartupInv'
<1>1. engine \in EngineStates /\ loader \in LoaderStates /\ core \in CoreStates
  BY DEF StartupInv, StartupTypeOK
<1>2. CoreInv(engine, core) /\ LoaderInv(engine, loader) /\ BridgesInv(engine, loader, core)
  BY DEF StartupInv
<1>3. engine' \in EngineStates /\ engine'.game = "connected"
  BY <1>1 DEF Connect, EngineStates, Games
<1>4. loader' \in LoaderStates
  BY <1>1 DEF Connect, mm_PatchConnect, LoaderStates
<1>5. core' = core
  BY DEF Connect
<1>6. CoreInv(engine, core)'
  BY <1>1, <1>2, <1>3, <1>5 DEF Connect, EngineStates, CoreInv, TellsOnce
<1>7. LoaderInv(engine, loader)'
  BY <1>1, <1>2 DEF Connect, mm_PatchConnect, EngineStates, LoaderStates, LoaderInv, Handles, Thunks,
                    Fitted, BridgesInv, GameBridge, ServerPluginBridge
<1>8. BridgesInv(engine, loader, core)'
  BY <1>1, <1>2, <1>5, FreshCounts
     DEF Connect, mm_PatchConnect, EngineStates, LoaderStates, BridgesInv, GameBridge,
         ServerPluginBridge, CoreLoaded
<1>. QED
  BY <1>1, <1>3, <1>4, <1>5, <1>6, <1>7, <1>8 DEF StartupInv, StartupTypeOK

\* The thunk of AllowDedicatedServers takes itself out.
LEMMA AllowDedicatedServersKeeps ==
    ASSUME StartupInv, AllowDedicatedServers
    PROVE  StartupInv'
<1>1. engine \in EngineStates /\ loader \in LoaderStates /\ core \in CoreStates
  BY DEF StartupInv, StartupTypeOK
<1>2. CoreInv(engine, core) /\ LoaderInv(engine, loader) /\ BridgesInv(engine, loader, core)
  BY DEF StartupInv
<1>3. engine' \in EngineStates /\ engine'.game = "connected"
  BY <1>1 DEF AllowDedicatedServers
<1>4. loader' \in LoaderStates
  BY <1>1 DEF AllowDedicatedServers, mm_PatchAllowDedicated, LoaderStates
<1>5. core' = core
  BY DEF AllowDedicatedServers
<1>6. CoreInv(engine, core)'
  BY <1>1, <1>2, <1>3, <1>5 DEF AllowDedicatedServers, EngineStates, CoreInv, TellsOnce
<1>7. LoaderInv(engine, loader)'
  BY <1>1, <1>2 DEF AllowDedicatedServers, mm_PatchAllowDedicated, EngineStates, LoaderStates,
                    LoaderInv, Handles, Thunks, Fitted, BridgesInv, GameBridge, ServerPluginBridge
<1>8. BridgesInv(engine, loader, core)'
  BY <1>1, <1>2, <1>5, FreshCounts
     DEF AllowDedicatedServers, mm_PatchAllowDedicated, EngineStates, LoaderStates, BridgesInv, GameBridge,
         ServerPluginBridge, CoreLoaded
<1>. QED
  BY <1>1, <1>3, <1>4, <1>5, <1>6, <1>7, <1>8 DEF StartupInv, StartupTypeOK

\* The thunk of ISource2Server::Init goes in.
LEMMA AskServerKeeps ==
    ASSUME StartupInv, AskServer
    PROVE  StartupInv'
<1>1. engine \in EngineStates /\ loader \in LoaderStates /\ core \in CoreStates
  BY DEF StartupInv, StartupTypeOK
<1>2. CoreInv(engine, core) /\ LoaderInv(engine, loader) /\ BridgesInv(engine, loader, core)
  BY DEF StartupInv
<1>3. engine' \in EngineStates /\ engine'.game = "asked"
  BY <1>1 DEF AskServer, EngineStates, Games
<1>4. loader' \in LoaderStates
  BY <1>1 DEF AskServer, mm_PatchDllInit, LoaderStates
<1>5. core' = core
  BY DEF AskServer
<1>6. CoreInv(engine, core)'
  BY <1>1, <1>2, <1>3, <1>5 DEF AskServer, EngineStates, CoreInv, TellsOnce
<1>7. LoaderInv(engine, loader)'
  BY <1>1, <1>2 DEF AskServer, mm_PatchDllInit, EngineStates, LoaderStates, LoaderInv, Handles, Thunks,
                    Fitted, BridgesInv, GameBridge, ServerPluginBridge
<1>8. BridgesInv(engine, loader, core)'
  BY <1>1, <1>2, <1>5, FreshCounts
     DEF AskServer, mm_PatchDllInit, EngineStates, LoaderStates, BridgesInv, GameBridge,
         ServerPluginBridge, CoreLoaded
<1>. QED
  BY <1>1, <1>3, <1>4, <1>5, <1>6, <1>7, <1>8 DEF StartupInv, StartupTypeOK

\* DLLInit loads the core, or leaves the game to itself.
LEMMA DLLInitKeeps ==
    ASSUME StartupInv, DLLInit
    PROVE  StartupInv'
<1>1. engine \in EngineStates /\ loader \in LoaderStates /\ core \in CoreStates
  BY DEF StartupInv, StartupTypeOK
<1>2. CoreInv(engine, core) /\ LoaderInv(engine, loader) /\ BridgesInv(engine, loader, core)
  BY DEF StartupInv
<1>3. /\ engine' \in EngineStates /\ engine.game = "asked" /\ engine'.game = "initing"
      /\ engine'.vsp = engine.vsp /\ engine'.kind = engine.kind /\ engine'.gameinfo = engine.gameinfo
  BY <1>1 DEF DLLInit, EngineStates, Games
<1>4. ~engine.vsp /\ ~loader.gamedll_bridge /\ ~loader.vsp_bridge /\ core = FreshCore /\ engine.gameinfo
  BY <1>2, <1>3 DEF BridgesInv, GameBridge, ServerPluginBridge, CoreLoaded
<1>5. CASE engine.kind # "UNKNOWN" /\ loader' = GameBridged(loader) /\ core' = DLLInit_Pre(FreshCore)
  <2>1. loader' \in LoaderStates
    BY <1>1, <1>5 DEF GameBridged, mm_LoadMetamodLibrary, LoaderStates
  <2>2. core' \in CoreStates /\ CoreInv(engine, core)'
    BY <1>3, <1>5, DLLInitPre DEF CoreInv, TellsOnce
  <2>3. LoaderInv(engine, loader)'
    BY <1>1, <1>2, <1>3, <1>4, <1>5
       DEF GameBridged, mm_LoadMetamodLibrary, LoaderStates, LoaderInv, Handles, Thunks, Fitted
  <2>4. BridgesInv(engine, loader, core)'
    BY <1>1, <1>3, <1>4, <1>5, DLLInitPre
       DEF GameBridged, mm_LoadMetamodLibrary, LoaderStates, BridgesInv, GameBridge,
           ServerPluginBridge, CoreLoaded
  <2>. QED
    BY <1>3, <2>1, <2>2, <2>3, <2>4 DEF StartupInv, StartupTypeOK
<1>6. CASE UNCHANGED <<loader, core>>
  <2>1. CoreInv(engine, core)'
    BY <1>2, <1>3, <1>4, <1>6, FreshCounts DEF CoreInv, TellsOnce
  <2>2. LoaderInv(engine, loader)'
    BY <1>2, <1>3, <1>4, <1>6 DEF LoaderInv, Handles, Thunks, Fitted
  <2>3. BridgesInv(engine, loader, core)'
    BY <1>2, <1>3, <1>4, <1>6 DEF BridgesInv, GameBridge, ServerPluginBridge, CoreLoaded
  <2>. QED
    BY <1>1, <1>3, <1>6, <2>1, <2>2, <2>3 DEF StartupInv, StartupTypeOK
<1>. QED
  BY <1>5, <1>6 DEF DLLInit

\* After DLLInit the plugins are told, and the thunk of DLLShutdown goes in.
LEMMA DLLInitReturnsKeeps ==
    ASSUME StartupInv, DLLInitReturns
    PROVE  StartupInv'
<1>1. engine \in EngineStates /\ loader \in LoaderStates /\ core \in CoreStates
  BY DEF StartupInv, StartupTypeOK
<1>2. CoreInv(engine, core) /\ LoaderInv(engine, loader) /\ BridgesInv(engine, loader, core)
  BY DEF StartupInv
<1>3. /\ engine' \in EngineStates /\ engine.game = "initing" /\ engine'.game = "up"
      /\ engine'.vsp = engine.vsp /\ engine'.kind = engine.kind /\ engine'.gameinfo = engine.gameinfo
  BY <1>1 DEF DLLInitReturns, EngineStates, Games
<1>4. ~engine.vsp /\ ~loader.vsp_bridge
  BY <1>2, <1>3 DEF BridgesInv, ServerPluginBridge
<1>5. /\ loader' = GameInited(loader)
      /\ core' = IF loader.gamedll_bridge THEN SetAllLoaded(core) ELSE core
  BY DEF DLLInitReturns
<1>6. loader' \in LoaderStates
  BY <1>1, <1>5 DEF GameInited, mm_PatchDllInit, mm_PatchDllShutdown, LoaderStates
<1>7. core' \in CoreStates
  BY <1>1, <1>5, CoreOperationsTyped
<1>8. CoreCounts(core)'
  BY <1>1, <1>2, <1>5 DEF SetAllLoaded, CoreStates, CoreInv, CoreCounts
<1>9. TellsOnce(engine, core)'
  <2>1. CASE loader.gamedll_bridge
    <3>1. core.is_gamedll_loaded
      BY <1>2, <1>3, <2>1 DEF BridgesInv, CoreLoaded
    <3>2. core.told = 0 /\ core.reads > 0
      BY <1>2, <1>3, <3>1 DEF CoreInv, CoreCounts, TellsOnce
    <3>. QED
      BY <1>1, <1>3, <1>5, <2>1, <3>2 DEF SetAllLoaded, CoreStates, TellsOnce
  <2>2. CASE ~loader.gamedll_bridge
    <3>1. core' = FreshCore
      BY <1>2, <1>3, <1>5, <2>2 DEF BridgesInv, CoreLoaded
    <3>. QED
      BY <1>3, <3>1, FreshCounts DEF TellsOnce
  <2>. QED
    BY <2>1, <2>2
<1>10. LoaderInv(engine, loader)'
  BY <1>1, <1>2, <1>3, <1>4, <1>5
     DEF GameInited, mm_PatchDllInit, mm_PatchDllShutdown, LoaderStates, LoaderInv, Handles, Thunks, Fitted
<1>11. BridgesInv(engine, loader, core)'
  BY <1>1, <1>2, <1>3, <1>4, <1>5
     DEF GameInited, mm_PatchDllInit, mm_PatchDllShutdown, SetAllLoaded, LoaderStates, CoreStates,
         BridgesInv, GameBridge, ServerPluginBridge, CoreLoaded
<1>. QED
  BY <1>3, <1>6, <1>7, <1>8, <1>9, <1>10, <1>11 DEF StartupInv, StartupTypeOK, CoreInv

\* A DLLInit that failed unloads the core.
LEMMA DLLInitFailsKeeps ==
    ASSUME StartupInv, DLLInitFails
    PROVE  StartupInv'
<1>1. engine \in EngineStates /\ loader \in LoaderStates /\ core \in CoreStates
  BY DEF StartupInv, StartupTypeOK
<1>2. CoreInv(engine, core) /\ LoaderInv(engine, loader) /\ BridgesInv(engine, loader, core)
  BY DEF StartupInv
<1>3. /\ engine' \in EngineStates /\ engine.game = "initing" /\ engine'.game = "down"
      /\ engine'.vsp = engine.vsp /\ engine'.kind = engine.kind /\ engine'.gameinfo = engine.gameinfo
  BY <1>1 DEF DLLInitFails, EngineStates, Games
<1>4. ~engine.vsp /\ ~loader.vsp_bridge
  BY <1>2, <1>3 DEF BridgesInv, ServerPluginBridge
<1>5. core' = mm_UnloadMetamod(core)
  BY DEF DLLInitFails
<1>6. loader' \in LoaderStates
  BY <1>1 DEF DLLInitFails, mm_PatchDllInit, mm_UnloadMetamodLibrary, LoaderStates
<1>7. core' \in CoreStates /\ CoreInv(engine, core)'
  BY <1>1, <1>2, <1>3, <1>5, UnloadMetamod, CoreOperationsTyped DEF CoreInv, TellsOnce
<1>8. LoaderInv(engine, loader)'
  BY <1>1, <1>2, <1>3, <1>4
     DEF DLLInitFails, mm_PatchDllInit, mm_UnloadMetamodLibrary, LoaderStates, LoaderInv, Handles,
         Thunks, Fitted
<1>9. BridgesInv(engine, loader, core)'
  BY <1>1, <1>2, <1>3, <1>4, <1>5, UnloadMetamod
     DEF DLLInitFails, mm_PatchDllInit, mm_UnloadMetamodLibrary, LoaderStates, CoreInv,
         BridgesInv, GameBridge, ServerPluginBridge, CoreLoaded
<1>. QED
  BY <1>3, <1>6, <1>7, <1>8, <1>9 DEF StartupInv, StartupTypeOK

\* The search, on whatever copy of the loader knows the game information.
LEMMA AskGameKeeps ==
    ASSUME StartupInv, AskGame
    PROVE  StartupInv'
<1>1. engine \in EngineStates /\ loader \in LoaderStates /\ core \in CoreStates
  BY DEF StartupInv, StartupTypeOK
<1>2. CoreInv(engine, core) /\ LoaderInv(engine, loader) /\ BridgesInv(engine, loader, core)
  BY DEF StartupInv
<1>3. engine.game = "off" /\ engine.gameinfo /\ core' = core
  BY DEF AskGame
<1>4. /\ ~engine.vsp /\ ~loader.gamedll_bridge /\ ~loader.vsp_bridge /\ ~loader.mm_library
      /\ core = FreshCore
  BY <1>2, <1>3 DEF BridgesInv, GameBridge, ServerPluginBridge, CoreLoaded
<1>5. engine.ask \in Nat \ {0}
  BY <1>1, <1>2, <1>3 DEF EngineStates, LoaderInv, Handles
<1>6. PICK l \in mm_DetectGameInformation(loader) :
        loader' = IF l.game_info_detected = -1 THEN l
                  ELSE IF IsSource2(engine) THEN ConfigRequest(l, engine) ELSE GameRequest(l, engine)
  BY DEF AskGame
<1>7. PICK known \in {-1, 0, 1} : l = [loader EXCEPT !.game_info_detected = known]
  <2>1. loader = [loader EXCEPT !.game_info_detected = @] /\ loader.game_info_detected \in {-1, 0, 1}
    BY <1>1 DEF LoaderStates
  <2>. QED
    BY <1>6, <2>1 DEF mm_DetectGameInformation
<1>8. /\ l \in LoaderStates
      /\ \A p \in Paths : l.opened[p] = IF l.gamedll_libs[p] THEN 1 ELSE 0
      /\ l.gamedll_lib = Nowhere
      /\ ~l.gamedll_bridge /\ ~l.vsp_bridge /\ ~l.mm_library
      /\ ~l.isgd_orig_init /\ ~l.isgd_orig_shutdown /\ ~l.is2sc_orig_connect
      /\ l.shifts = 0 /\ ~l.swapped
  <2>1. l \in LoaderStates
    BY <1>1, <1>7 DEF LoaderStates
  <2>2. /\ \A p \in Paths : l.opened[p] = IF l.gamedll_libs[p] THEN 1 ELSE 0
        /\ l.gamedll_lib = Nowhere
    BY <1>1, <1>2, <1>3, <1>7 DEF LoaderStates, LoaderInv, Handles
  <2>3. /\ ~l.gamedll_bridge /\ ~l.vsp_bridge /\ ~l.mm_library
        /\ ~l.isgd_orig_init /\ ~l.isgd_orig_shutdown /\ ~l.is2sc_orig_connect
        /\ l.shifts = 0 /\ ~l.swapped
    BY <1>1, <1>2, <1>3, <1>4, <1>7 DEF LoaderStates, LoaderInv, Thunks, Fitted
  <2>. QED
    BY <2>1, <2>2, <2>3
<1>9. PICK r : r = Searched(l, engine.content, engine.ask)
  OBVIOUS
<1>10. /\ r \in LoaderStates
       /\ \A p \in Paths :
            r.opened[p] = IF r.gamedll_lib = Nowhere THEN IF r.gamedll_libs[p] THEN 1 ELSE 0
                          ELSE IF p = r.gamedll_lib THEN 1 ELSE 0
       /\ ~r.gamedll_bridge /\ ~r.vsp_bridge /\ ~r.mm_library
       /\ ~r.isgd_orig_init /\ ~r.isgd_orig_shutdown /\ ~r.is2sc_orig_connect
       /\ r.shifts = 0 /\ ~r.swapped
  <2>1. engine.content \in [Paths -> Contents]
    BY <1>1 DEF EngineStates
  <2>2. \A p \in Paths : l.opened[p] = IF l.gamedll_libs[p] THEN 1 ELSE 0
    BY <1>8, Zenon
  <2>3. l \in LoaderStates /\ l.gamedll_lib = Nowhere
    BY <1>8, Zenon
  <2>4. LoaderSearched(l, r)
    BY <1>5, <1>9, <2>1, <2>2, <2>3, Searches, Zenon
  <2>5. PICK libs \in [Paths -> BOOLEAN], handles \in [Paths -> Int], lib \in Paths \cup {Nowhere} :
          /\ r = [l EXCEPT !.gamedll_libs = libs, !.opened = handles, !.gamedll_lib = lib]
          /\ \A p \in Paths :
               handles[p] = IF lib = Nowhere THEN IF libs[p] THEN 1 ELSE 0
                            ELSE IF p = lib THEN 1 ELSE 0
    BY <2>4, Zenon DEF LoaderSearched
  <2>6. r.gamedll_libs = libs /\ r.opened = handles /\ r.gamedll_lib = lib
    BY <1>8, <2>5 DEF LoaderStates
  <2>7. r \in LoaderStates
    BY <1>8, <2>5 DEF LoaderStates
  <2>8. /\ ~r.gamedll_bridge /\ ~r.vsp_bridge /\ ~r.mm_library
        /\ ~r.isgd_orig_init /\ ~r.isgd_orig_shutdown /\ ~r.is2sc_orig_connect
        /\ r.shifts = 0 /\ ~r.swapped
    BY <1>8, <2>5 DEF LoaderStates
  <2>. QED
    BY <2>5, <2>6, <2>7, <2>8
<1>11. /\ loader' \in LoaderStates
       /\ ~loader'.gamedll_bridge /\ ~loader'.vsp_bridge /\ ~loader'.mm_library
       /\ ~loader'.isgd_orig_shutdown
       /\ loader'.shifts = 0 /\ ~loader'.swapped
       /\ \A p \in Paths :
            loader'.opened[p] = IF loader'.gamedll_lib = Nowhere THEN IF loader'.gamedll_libs[p] THEN 1 ELSE 0
                                ELSE IF p = loader'.gamedll_lib THEN 1 ELSE 0
       /\ loader'.isgd_orig_init <=> loader'.gamedll_lib # Nowhere /\ ~IsSource2(engine)
       /\ loader'.is2sc_orig_connect <=> loader'.gamedll_lib # Nowhere /\ IsSource2(engine)
  <2>1. CASE loader' = l
    BY <1>8, <2>1
  <2>2. CASE loader' = r /\ r.gamedll_lib = Nowhere
    BY <1>10, <2>2
  <2>3. CASE /\ loader' = mm_PatchDllInit(r, TRUE) /\ r.gamedll_lib # Nowhere
             /\ ~IsSource2(engine)
    BY <1>10, <2>3 DEF mm_PatchDllInit, LoaderStates
  <2>4. CASE /\ loader' = mm_PatchAllowDedicated(mm_PatchConnect(r, TRUE), engine.windows)
             /\ r.gamedll_lib # Nowhere /\ IsSource2(engine)
    <3>1. engine.windows \in BOOLEAN
      BY <1>1 DEF EngineStates
    <3>. QED
      BY <1>10, <2>4, <3>1 DEF mm_PatchAllowDedicated, mm_PatchConnect, LoaderStates
  <2>. QED
    BY <1>6, <1>9, <2>1, <2>2, <2>3, <2>4 DEF GameRequest, ConfigRequest
<1>12. PICK game \in {"off", "config", "asked", "down"} :
         /\ engine' = [engine EXCEPT !.ask = @ - 1, !.game = game]
         /\ loader'.gamedll_lib # Nowhere => game = IF IsSource2(engine) THEN "config" ELSE "asked"
         /\ loader'.gamedll_lib = Nowhere => game \in {"off", "down"} /\ (engine.ask = 1 => game = "down")
  BY DEF AskGame
<1>13. /\ engine' \in EngineStates /\ engine'.game = game /\ engine'.ask = engine.ask - 1
       /\ engine'.gameinfo /\ ~engine'.vsp /\ engine'.kind = engine.kind
  <2>1. game \in Games
    BY DEF Games
  <2>2. engine.ask - 1 \in Int
    <3>1. \A n \in Nat \ {0} : n - 1 \in Int
      OBVIOUS
    <3>. QED
      BY <1>5, <3>1, Zenon
  <2>3. engine' \in EngineStates
    BY <1>1, <1>12, <2>1, <2>2 DEF EngineStates
  <2>. QED
    BY <1>1, <1>3, <1>4, <1>12, <2>3 DEF EngineStates
<1>14. CoreInv(engine, core)'
  BY <1>3, <1>4, <1>13, FreshCounts DEF CoreInv, TellsOnce
<1>15. LoaderInv(engine, loader)'
  BY <1>5, <1>11, <1>12, <1>13 DEF LoaderInv, Handles, Thunks, Fitted
<1>16. BridgesInv(engine, loader, core)'
  BY <1>3, <1>4, <1>11, <1>12, <1>13, FreshCounts
     DEF BridgesInv, GameBridge, ServerPluginBridge, CoreLoaded
<1>. QED
  BY <1>1, <1>3, <1>11, <1>13, <1>14, <1>15, <1>16 DEF StartupInv, StartupTypeOK

\* FitVtable changes these two fields only.
LEMMA FitsVtable ==
    ASSUME NEW l \in LoaderStates, NEW kind
    PROVE  /\ FitVtable(l, kind) \in LoaderStates
           /\ FitVtable(l, kind).shifts = l.shifts + IF kind # "AlienSwarm" THEN 1 ELSE 0
           /\ FitVtable(l, kind).swapped <=> l.swapped \/ kind # "Episode1"
           /\ \A f \in DOMAIN l \ {"shifts", "swapped"} : FitVtable(l, kind)[f] = l[f]
<1>1. PICK shifts \in Nat : shifts = l.shifts + IF kind # "AlienSwarm" THEN 1 ELSE 0
  BY DEF LoaderStates
<1>2. PICK swapped \in BOOLEAN : swapped <=> l.swapped \/ kind # "Episode1"
  OBVIOUS
<1>3. FitVtable(l, kind) = [l EXCEPT !.swapped = swapped, !.shifts = shifts]
  BY <1>1, <1>2 DEF FitVtable, LoaderStates
<1>4. FitVtable(l, kind) \in LoaderStates
  BY <1>3 DEF LoaderStates
<1>5. /\ FitVtable(l, kind).shifts = shifts
      /\ FitVtable(l, kind).swapped = swapped
  BY <1>3 DEF LoaderStates
<1>6. \A f \in DOMAIN l \ {"shifts", "swapped"} : FitVtable(l, kind)[f] = l[f]
  BY <1>3
<1>. QED
  BY <1>1, <1>2, <1>4, <1>5, <1>6

\* The engine loads the server plugin while the game runs; e is the engine that has
\* taken the request off its list.
LEMMA VspLoadKeeps ==
    ASSUME StartupInv, Running, ~IsSource2(engine), NEW e \in EngineStates, VspLoad(e),
           e.game = engine.game, e.vsp = engine.vsp, e.ask = engine.ask, e.kind = engine.kind,
           e.gameinfo = engine.gameinfo
    PROVE  StartupInv'
<1>1. engine \in EngineStates /\ loader \in LoaderStates /\ core \in CoreStates
  BY DEF StartupInv, StartupTypeOK
<1>2. CoreInv(engine, core) /\ LoaderInv(engine, loader) /\ BridgesInv(engine, loader, core)
  BY DEF StartupInv
<1>3. /\ engine.game \in Playing
      /\ loader.vsp_bridge <=> engine.vsp
      /\ CoreInv(e, core) /\ LoaderInv(e, loader) /\ BridgesInv(e, loader, core)
  BY <1>2 DEF CoreInv, TellsOnce, LoaderInv, Handles, Thunks, Fitted, BridgesInv, GameBridge,
              ServerPluginBridge, CoreLoaded
<1>4. CASE engine' = e /\ UNCHANGED <<loader, core>>
  BY <1>1, <1>3, <1>4 DEF StartupInv, StartupTypeOK
<1>5. CASE /\ Callbacks
           /\ loader.gamedll_bridge \/ (~e.gameinfo /\ e.kind # "UNKNOWN")
           /\ engine' = [e EXCEPT !.vsp = TRUE]
           /\ loader' = mm_LoadMetamodLibrary([FitVtable(loader, e.kind) EXCEPT !.vsp_bridge = TRUE])
           /\ core' = VspBridgeLoad(IF loader.mm_library THEN core ELSE FreshCore)
  <2>1. /\ ~engine.vsp /\ ~loader.vsp_bridge
        /\ loader.mm_library <=> loader.gamedll_bridge
        /\ loader.gamedll_bridge => core.is_gamedll_loaded
        /\ loader.shifts = 0 /\ ~loader.swapped
    BY <1>2, <1>3, <1>5 DEF Callbacks, BridgesInv, CoreLoaded, LoaderInv, Fitted
  <2>2. /\ engine' \in EngineStates /\ engine'.vsp
        /\ engine'.game = engine.game /\ engine'.ask = engine.ask
        /\ engine'.kind = engine.kind /\ engine'.gameinfo = engine.gameinfo
    BY <1>5 DEF EngineStates
  <2>3. PICK l \in LoaderStates : l = FitVtable(loader, e.kind)
    BY <1>1, FitsVtable
  <2>4. /\ l.shifts = IF engine.kind # "AlienSwarm" THEN 1 ELSE 0
        /\ l.swapped <=> engine.kind # "Episode1"
    BY <1>1, <2>1, <2>3, FitsVtable
  <2>5. /\ l.gamedll_bridge = loader.gamedll_bridge /\ l.gamedll_lib = loader.gamedll_lib
        /\ l.isgd_orig_init = loader.isgd_orig_init
        /\ l.isgd_orig_shutdown = loader.isgd_orig_shutdown
        /\ l.is2sc_orig_connect = loader.is2sc_orig_connect
        /\ l.opened = loader.opened
    BY <1>1, <2>3, FitsVtable DEF LoaderStates
  <2>6. loader' = [l EXCEPT !.vsp_bridge = TRUE, !.mm_library = TRUE]
    BY <1>5, <2>3 DEF mm_LoadMetamodLibrary
  <2>7. loader' \in LoaderStates
    BY <2>3, <2>6 DEF LoaderStates
  <2>8. /\ core' \in CoreStates /\ CoreCounts(core')
        /\ core'.told = IF core'.reads > 0 THEN 1 ELSE 0
        /\ core'.is_gamedll_loaded <=> loader.gamedll_bridge
    <3>1. CASE loader.gamedll_bridge
      BY <1>1, <1>2, <1>3, <1>5, <2>1, <3>1, LoadsSecondBridge DEF CoreInv, TellsOnce
    <3>2. CASE ~loader.gamedll_bridge
      BY <1>5, <2>1, <3>2, LoadsFirstBridge
    <3>. QED
      BY <3>1, <3>2
  <2>9. CoreInv(engine, core)'
    BY <1>3, <2>2, <2>8 DEF CoreInv, TellsOnce
  <2>10. LoaderInv(engine, loader)'
    BY <1>2, <1>3, <2>2, <2>3, <2>4, <2>5, <2>6 DEF LoaderStates, LoaderInv, Handles, Thunks, Fitted
  <2>11. BridgesInv(engine, loader, core)'
    BY <1>2, <1>3, <1>5, <2>1, <2>2, <2>3, <2>5, <2>6, <2>8
       DEF LoaderStates, BridgesInv, GameBridge, ServerPluginBridge, CoreLoaded
  <2>. QED
    BY <2>2, <2>7, <2>8, <2>9, <2>10, <2>11 DEF StartupInv, StartupTypeOK
<1>6. CASE /\ Callbacks /\ ~loader.gamedll_bridge
           /\ engine' = e
           /\ loader' = IF ~e.gameinfo THEN NewLoader
                        ELSE IF e.kind = "UNKNOWN" THEN loader ELSE FitVtable(loader, e.kind)
           /\ UNCHANGED core
  <2>1. /\ ~engine.vsp /\ ~loader.vsp_bridge /\ ~loader.mm_library
    BY <1>2, <1>3, <1>6 DEF Callbacks, BridgesInv, CoreLoaded
  <2>2. CASE loader' = NewLoader
    <3>1. LoaderInv(engine, loader)'
      BY <1>3, <1>6, <2>1, <2>2, NewLoaderStates DEF LoaderInv, Handles, Thunks, Fitted
    <3>2. BridgesInv(engine, loader, core)'
      BY <1>3, <1>6, <2>1, <2>2, NewLoaderStates
         DEF BridgesInv, GameBridge, ServerPluginBridge, CoreLoaded
    <3>. QED
      BY <1>1, <1>3, <1>6, <2>2, <3>1, <3>2, NewLoaderStates DEF StartupInv, StartupTypeOK
  <2>3. CASE loader' = loader
    BY <1>1, <1>3, <1>6, <2>3 DEF StartupInv, StartupTypeOK
  <2>4. CASE loader' = FitVtable(loader, e.kind) /\ e.gameinfo
    <3>1. loader' \in LoaderStates
      BY <1>1, <2>4, FitsVtable
    <3>2. /\ loader'.gamedll_bridge = loader.gamedll_bridge
          /\ loader'.gamedll_lib = loader.gamedll_lib
          /\ loader'.isgd_orig_init = loader.isgd_orig_init
          /\ loader'.isgd_orig_shutdown = loader.isgd_orig_shutdown
          /\ loader'.is2sc_orig_connect = loader.is2sc_orig_connect
          /\ loader'.opened = loader.opened /\ loader'.mm_library = loader.mm_library
          /\ loader'.vsp_bridge = loader.vsp_bridge
      BY <1>1, <2>4, FitsVtable DEF LoaderStates
    <3>3. LoaderInv(engine, loader)'
      BY <1>3, <1>6, <2>1, <2>4, <3>2 DEF LoaderInv, Handles, Thunks, Fitted
    <3>4. BridgesInv(engine, loader, core)'
      BY <1>3, <1>6, <3>2 DEF BridgesInv, GameBridge, ServerPluginBridge, CoreLoaded
    <3>. QED
      BY <1>1, <1>3, <1>6, <3>1, <3>3, <3>4 DEF StartupInv, StartupTypeOK
  <2>. QED
    BY <1>6, <2>2, <2>3, <2>4
<1>. QED
  BY <1>4, <1>5, <1>6 DEF VspLoad

\* plugin_load, typed in or in a .vdf file.
LEMMA LoadServerPluginKeeps ==
    ASSUME StartupInv, LoadServerPlugin
    PROVE  StartupInv'
<1>1. engine \in EngineStates
  BY DEF StartupInv, StartupTypeOK
<1>2. PICK e : e = [engine EXCEPT !.typed = @ + 1]
  OBVIOUS
<1>3. engine.typed + 1 \in Nat
  BY <1>1 DEF EngineStates
<1>4. /\ e \in EngineStates
      /\ e.game = engine.game /\ e.vsp = engine.vsp /\ e.ask = engine.ask
      /\ e.kind = engine.kind /\ e.gameinfo = engine.gameinfo
  BY <1>1, <1>2, <1>3 DEF EngineStates
<1>5. Running /\ ~IsSource2(engine) /\ VspLoad(e)
  BY <1>2 DEF LoadServerPlugin
<1>. QED
  BY <1>4, <1>5, VspLoadKeeps

\* plugin_load from the command buffer.
LEMMA RunCommandKeeps ==
    ASSUME StartupInv, RunCommand
    PROVE  StartupInv'
<1>1. engine \in EngineStates /\ loader \in LoaderStates /\ core \in CoreStates
  BY DEF StartupInv, StartupTypeOK
<1>2. CoreInv(engine, core) /\ LoaderInv(engine, loader) /\ BridgesInv(engine, loader, core)
  BY DEF StartupInv
<1>3. PICK e : e = [engine EXCEPT !.commands = @ - 1]
  OBVIOUS
<1>4. engine.commands - 1 \in Int
  BY <1>1 DEF EngineStates
<1>5. /\ e \in EngineStates
      /\ e.game = engine.game /\ e.vsp = engine.vsp /\ e.ask = engine.ask
      /\ e.kind = engine.kind /\ e.gameinfo = engine.gameinfo
  BY <1>1, <1>3, <1>4 DEF EngineStates
<1>6. CASE IsSource2(e)
  <2>1. engine' = e /\ UNCHANGED <<loader, core>>
    BY <1>3, <1>6 DEF RunCommand
  <2>2. CoreInv(engine, core)'
    BY <1>2, <1>5, <2>1 DEF CoreInv, TellsOnce
  <2>. QED
    BY <1>1, <1>5, <2>1, <2>2, GameSteps
<1>7. CASE ~IsSource2(e)
  <2>1. Running /\ ~IsSource2(engine) /\ VspLoad(e)
    BY <1>3, <1>5, <1>7 DEF RunCommand
  <2>. QED
    BY <1>5, <2>1, VspLoadKeeps
<1>. QED
  BY <1>6, <1>7

\* The inductive invariant of the start-up: what the loader, the core and the engine
\* know of each other agrees in every phase, for any game paths, versions and bounds.
THEOREM StartupConsistent == StartupSpec => []StartupInv
<1>1. StartupInit => StartupInv
  <2>. SUFFICES ASSUME StartupInit
                PROVE  StartupInv
    OBVIOUS
  <2>1. loader = NewLoader /\ core = FreshCore
    BY DEF StartupInit
  <2>2. /\ engine.gameinfo \in BOOLEAN /\ engine.windows \in BOOLEAN
        /\ engine.kind \in Kinds \cup {"Source2"} /\ engine.content \in [Paths -> Contents]
        /\ engine.game = "off" /\ engine.ask = Asking(engine)
        /\ engine.vsp = FALSE /\ engine.levels = 0 /\ engine.commands = 0 /\ engine.typed = 0
    BY DEF StartupInit, Engines
  <2>3. engine.ask \in Nat \ {0}
    BY <2>2, StartupAssumption DEF Asking
  <2>4. engine \in EngineStates
    <3>1. PICK game \in Games, n \in Nat, vsp \in BOOLEAN : game = "off" /\ n = 0 /\ vsp = FALSE
      BY DEF Games
    <3>2. engine \in [gameinfo : BOOLEAN, windows : BOOLEAN, kind : Kinds \cup {"Source2"},
                      content : [Paths -> Contents], game : {game}, ask : {1, Newest}, vsp : {vsp},
                      levels : {n}, commands : {n}, typed : {n}]
      BY <3>1 DEF StartupInit, Engines
    <3>3. {1, Newest} \subseteq Int
      BY StartupAssumption
    <3>. QED
      BY <3>2, <3>3 DEF EngineStates
  <2>5. CoreInv(engine, core)
    BY <2>1, <2>2, FreshCounts DEF CoreInv, TellsOnce
  <2>6. LoaderInv(engine, loader)
    BY <2>1, <2>2, <2>3, NewLoaderStates DEF LoaderInv, Handles, Thunks, Fitted
  <2>7. BridgesInv(engine, loader, core)
    BY <2>1, <2>2, NewLoaderStates, FreshCounts
       DEF BridgesInv, GameBridge, ServerPluginBridge, CoreLoaded
  <2>. QED
    BY <2>1, <2>4, <2>5, <2>6, <2>7, NewLoaderStates, FreshCounts DEF StartupInv, StartupTypeOK
<1>2. StartupInv /\ [StartupNext]_startupVars => StartupInv'
  <2>1. ASSUME StartupInv, StartupNext
        PROVE  StartupInv'
    BY <2>1, AskGameKeeps, FindGameKeeps, ConnectKeeps, AllowDedicatedServersKeeps, AskServerKeeps,
       DLLInitKeeps, DLLInitReturnsKeeps, DLLInitFailsKeeps, GameInitKeeps, LevelInitKeeps,
       LevelShutdownKeeps, EnableVSPListenerKeeps, LoadServerPluginKeeps, RunCommandKeeps,
       UnloadServerPluginKeeps, DLLShutdownKeeps, PluginUnloadKeeps, RestartKeeps DEF StartupNext
  <2>2. ASSUME StartupInv, UNCHANGED startupVars
        PROVE  StartupInv'
    BY <2>2 DEF startupVars, StartupInv, StartupTypeOK
  <2>. QED
    BY <2>1, <2>2
<1>. QED
  BY <1>1, <1>2, PTL DEF StartupSpec

\* No pointer the engine may call through leads into a library that is gone, whichever
\* way Metamod:Source came in.
THEOREM CallsAlwaysLand == StartupSpec => []CallsLandInLoadedCode
<1>1. StartupInv => CallsLandInLoadedCode
  BY DEF StartupInv, StartupTypeOK, EngineStates, LoaderStates, CoreStates, LoaderInv, Handles,
         Thunks, Fitted, BridgesInv, GameBridge, ServerPluginBridge, CoreLoaded,
         CallsLandInLoadedCode, Games
<1>. QED
  BY <1>1, StartupConsistent, PTL

\* Plugin files are read once per level that has ended, and plugins are told once.
THEOREM ReadsOncePerLevel == StartupSpec => []ReadOncePerLevel
<1>1. StartupInv => ReadOncePerLevel
  BY DEF StartupInv, StartupTypeOK, CoreStates, CoreInv, CoreCounts, TellsOnce, ReadOncePerLevel
<1>. QED
  BY <1>1, StartupConsistent, PTL
=============================================================================
