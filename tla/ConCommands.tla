----------------------------- MODULE ConCommands -----------------------------
(***************************************************************************)
(* Console commands and variables of plugins: the lists of commands each    *)
(* plugin registered (core/metamod_plugins.cpp), the functions of           *)
(* MetamodSource that keep them (core/metamod.cpp), and SMConVarAccessor,   *)
(* which puts commands into the engine's list (core/provider/console.cpp).  *)
(* The engine's list is external: a chain of commands, new ones in front.   *)
(* Left out: commands that a plugin registers behind the manager's back     *)
(* (GetCvarBaseAccessor), and a chain whose head was not found.             *)
(*                                                                          *)
(* Listeners hear of a command that goes (OnUnlinkConCommandBase) to forget *)
(* pointers to it; known is what each plugin points at.                     *)
(*                                                                          *)
(* A plugin may be unloaded below its own code.  Its library then stays     *)
(* until that code ends, and meanwhile the code may still register: nothing *)
(* lists such a command, so nothing will unregister it.  late is a history  *)
(* variable: the commands last registered in that way.                      *)
(***************************************************************************)
EXTENDS Sublists, FiniteSets

CONSTANTS Owner,     \* whose code each command is part of
          Commands,  \* the commands that are not variables
          Engine,    \* owner of the engine's own commands
          MetamodItself,
          MaxListed, \* bound: commands in a list of a plugin
          MaxLate    \* bound: commands in late

\* Metamod:Source is not the engine, and there are so many commands only.
ASSUME ConAssumption == Engine # MetamodItself /\ IsFiniteSet(DOMAIN Owner)

VARIABLES cc,
          running,   \* plugins unloaded below their own code
          late

conVars == <<cc, running, late>>

ConPlugins == {Owner[c] : c \in DOMAIN Owner} \ {Engine, MetamodItself}
OwnedBy(x) == {c \in DOMAIN Owner : Owner[c] = x}
IsConCommandBaseACommand(c) == c \in Commands

\* pCommand->SetNext(NULL) loses what followed a command in the chain.
CutAfter(chain, c) ==
    IF c \notin Elements(chain) THEN chain
    ELSE SubSeq(chain, 1, CHOOSE k \in DOMAIN chain : chain[k] = c)

\* SMConVarAccessor::Register; the engine links a command in once.
Register(s, c) ==
    LET cut == IF s.linked THEN CutAfter(s.chain, c) ELSE s.chain
    IN IF c \in Elements(cut) THEN cut ELSE <<c>> \o cut

\* SMConVarAccessor::Unregister for each of the commands C: the engine's
\* UnregisterConCommand, or in a linked list the head is moved or the element
\* before takes over what follows.
Unregister(chain, C) == Without(chain, C)

\* SMConVarAccessor::RegisterConCommandBase, what Metamod:Source calls for itself.
RegisterOwn(s, c) ==
    [s EXCEPT !.m_RegisteredCommands = Append(@, c), !.chain = Register(s, c)]

RemoveMetamodCommands(s) ==
    [s EXCEPT !.chain = Unregister(@, Elements(s.m_RegisteredCommands))]

\* The commands of a list, one after the other.
RegisterEach(s, list) ==
    LET after[n \in 0..Len(list)] == IF n = 0 THEN s ELSE RegisterOwn(after[n - 1], list[n])
    IN after[Len(list)]

-----------------------------------------------------------------------------
\* MetamodSource::UnregisterConCommandBase(id) for each of the commands C:
\* listeners first, then the engine.
UnregisterById(s, C) ==
    [s EXCEPT !.known = [p \in ConPlugins |-> IF p \in s.listens THEN s.known[p] \ C ELSE s.known[p]],
              !.chain = Unregister(@, C)]

\* FindByAPI finds the plugins that are loaded, and others are in no list.
AddPluginCommand(s, p, c) ==
    CASE p \notin s.loaded -> s
      [] p \in s.loaded /\ IsConCommandBaseACommand(c) -> [s EXCEPT !.m_Cmds[p] = Append(@, c)]
      [] OTHER -> [s EXCEPT !.m_Cvars[p] = Append(@, c)]

RemovePluginCommand(s, p, c) ==
    CASE p \notin s.loaded -> s
      [] p \in s.loaded /\ IsConCommandBaseACommand(c) -> [s EXCEPT !.m_Cmds[p] = Without(@, {c})]
      [] OTHER -> [s EXCEPT !.m_Cvars[p] = Without(@, {c})]

RegisterConCommandBase(s, p, c) ==
    [AddPluginCommand(s, p, c) EXCEPT !.chain = Register(s, c)]
UnregisterConCommandBase(s, p, c) == UnregisterById(RemovePluginCommand(s, p, c), {c})

UnregVariables(s, p) ==                                         \* mutant
    [UnregisterById(s, Elements(s.m_Cvars[p])) EXCEPT !.m_Cvars[p] = <<>>, !.m_Cmds[p] = <<>>]
UnregAllConCmds(s, p) ==
    [UnregisterById(s, Elements(s.m_Cvars[p]) \cup Elements(s.m_Cmds[p]))
       EXCEPT !.m_Cvars[p] = <<>>, !.m_Cmds[p] = <<>>]

\* What _Unload, and a Load that failed, leave: no listeners, then no commands.
Unloaded(s, p) ==
    [UnregAllConCmds([s EXCEPT !.listens = @ \ {p}], p)
       EXCEPT !.loaded = @ \ {p}, !.known = [q \in ConPlugins |-> IF q = p THEN {} ELSE @[q]]]

\* The plugins of a list, one after the other.
UnloadEach(s, list) ==
    LET after[n \in 0..Len(list)] == IF n = 0 THEN s ELSE Unloaded(after[n - 1], list[n])
    IN after[Len(list)]

-----------------------------------------------------------------------------
\* Some order of the members of a set.
Order(S) == CHOOSE list \in [1..Cardinality(S) -> S] :
              Elements(list) = S /\ \A i, j \in DOMAIN list : list[i] = list[j] => i = j

\* linked: the chain is Metamod:Source's to mend, before Orange Box.
ConInit ==
    /\ \E linked \in BOOLEAN :
       cc = [linked |-> linked, chain |-> Order(OwnedBy(Engine)), m_RegisteredCommands |-> <<>>,
             m_Cvars |-> [p \in ConPlugins |-> <<>>], m_Cmds |-> [p \in ConPlugins |-> <<>>],
             loaded |-> {}, listens |-> {}, known |-> [p \in ConPlugins |-> {}], up |-> FALSE]
    /\ running = {} /\ late = {}

\* Notify_DLLInit_Pre and the variables mm_InitializeGlobals creates.
Startup ==
    /\ ~cc.up
    /\ cc' = [RegisterEach(cc, Order(OwnedBy(MetamodItself))) EXCEPT !.up = TRUE]
    /\ UNCHANGED <<running, late>>

\* mm_UnloadMetamod: UnloadAll, then Notify_DLLShutdown_Pre.  The library goes
\* with its lists, and before it those whose unload is pending.
Shutdown ==
    /\ cc.up
    /\ cc' = [RemoveMetamodCommands(UnloadEach(cc, Order(cc.loaded)))
                EXCEPT !.m_RegisteredCommands = <<>>, !.up = FALSE]
    /\ running' = {} /\ late' = late

LoadPlugin ==
    /\ cc.up
    /\ \E p \in ConPlugins \ cc.loaded : \E l \in SUBSET {p} :
         cc' = [cc EXCEPT !.loaded = @ \cup {p}, !.listens = @ \cup l]
    /\ UNCHANGED <<running, late>>

\* By command, or because it refused to load, or from code of its own.
UnloadPlugin ==
    \E p \in cc.loaded, below \in BOOLEAN :
      /\ cc' = Unloaded(cc, p)
      /\ running' = IF below THEN running \cup {p} ELSE running
      /\ late' = late

\* The code ends, and the library can go.
CodeEnds == \E p \in running : running' = running \ {p} /\ UNCHANGED <<cc, late>>

\* Through META_REGCMD; in a linked chain only what the chain does not have.
PluginRegisters ==
    \E p \in cc.loaded \cup running, c \in DOMAIN Owner :
      /\ Owner[c] = p /\ (cc.linked => c \notin Elements(cc.chain))
      /\ Len(cc.m_Cvars[p]) < MaxListed /\ Len(cc.m_Cmds[p]) < MaxListed
      /\ p \notin cc.loaded => Cardinality(late \cup {c}) <= MaxLate
      /\ cc' = RegisterConCommandBase(cc, p, c)
      /\ late' = IF p \in cc.loaded THEN late \ {c} ELSE late \cup {c}
      /\ running' = running

\* Any plugin may have any plugin's command unregistered.
PluginUnregisters ==
    \E p \in cc.loaded \cup running, c \in Elements(cc.chain) :
      /\ Owner[c] \in ConPlugins
      /\ cc' = UnregisterConCommandBase(cc, p, c)
      /\ UNCHANGED <<running, late>>

\* A plugin that listens takes a pointer to a command of another.
Finds ==
    \E p \in cc.listens, c \in Elements(cc.chain) :
      /\ Owner[c] \in ConPlugins \ {p}
      /\ cc' = [cc EXCEPT !.known[p] = @ \cup {c}]
      /\ UNCHANGED <<running, late>>

ConNext == \/ Startup \/ Shutdown \/ LoadPlugin \/ UnloadPlugin \/ CodeEnds
           \/ PluginRegisters \/ PluginUnregisters \/ Finds
ConSpec == ConInit /\ [][ConNext]_conVars

-----------------------------------------------------------------------------
Alive(c) == Owner[c] = Engine \/ (Owner[c] = MetamodItself /\ cc.up) \/ Owner[c] \in cc.loaded

\* No command stays behind when the code it is part of goes, unless that code
\* registered it when it had been unloaded: not in the engine's list, and no
\* listener still points at it.  None at all stays in the lists that will be
\* unregistered later.  And no command is lost: those of the engine stay in its
\* list.
NoCommandStaysBehind ==
    /\ \A c \in Elements(cc.chain) : Alive(c) \/ c \in late
    /\ \A p \in cc.listens : \A c \in cc.known[p] : Alive(c) \/ c \in late
    /\ \A c \in Elements(cc.m_RegisteredCommands) : Alive(c)
    /\ \A p \in ConPlugins : \A c \in Elements(cc.m_Cvars[p]) \cup Elements(cc.m_Cmds[p]) : Alive(c)
    /\ \A c \in OwnedBy(Engine) : c \in Elements(cc.chain)
=============================================================================
