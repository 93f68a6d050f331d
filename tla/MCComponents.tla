----------------------------- MODULE MCComponents -----------------------------
(***************************************************************************)
(* The components that share no state with another, each with its own       *)
(* instance; part, chosen at the start, says which of them runs.            *)
(***************************************************************************)
EXTENDS HookIDPeak, HookManagers, Startup, CodePages, InterfaceSearch, Containers,
        X86Encoding, PluginFiles, ConCommands, CProto, TLC

CONSTANTS m1, m2, m3

\* Three managers in two version groups.
MCVersion == (m1 :> 4) @@ (m2 :> 5) @@ (m3 :> 5)

\* Two names for one plugin, each good as an alias too: one without extension,
\* one with a separator too many.
MCPlain == FileName("a", "", FALSE)
MCTwice == FileName("a", ".so", TRUE)
MCNames == {Empty, MCPlain, MCTwice}
MCLineFiles ==
    {<<Skipped, Quoted(MCPlain), OneWord(MCTwice)>>,
     <<TwoWords(MCPlain, MCTwice, TRUE)>>,
     <<TwoWords(MCPlain, MCTwice, FALSE), Quoted(Empty)>>,
     <<TwoWords(MCTwice, MCPlain, TRUE), OneWord(MCPlain)>>}
MCVdfDirs == {<<BadVdf, Vdf(MCTwice, MCPlain)>>, <<Vdf(MCPlain, Empty), Vdf(Empty, MCTwice)>>}

\* Two plugins; the first has a variable too.
MCOwner == ("say" :> "engine") @@ ("meta" :> "metamod")
           @@ ("c1" :> "p1") @@ ("v1" :> "p1") @@ ("c2" :> "p2")

\* Prototypes of one function as an old sourcehook.h, the present one and the
\* builder give it, with what each may know, and some of others.
MCPass(size, type, flags, dtor) ==
    [size |-> size, type |-> type, flags |-> flags, pNormalCtor |-> NULL, pCopyCtor |-> dtor,
     pDtor |-> dtor, pAssignOperator |-> NULL]
MCProtoInfo(version, convention, ret, params) ==
    [version |-> version, convention |-> convention, retPassInfo |-> ret, paramsPassInfo |-> params]
MCInt == MCPass(4, "Basic", {"ByVal"}, NULL)
MCObject == MCPass(12, "Object", {"ByVal"}, "f")
MCProtoInfos ==
    [version : {0, 1}, convention : {{}, {"ThisCall"}}, retPassInfo : {MCInt},
     paramsPassInfo : {<<MCPass(12, "Unknown", {}, NULL)>>, <<MCPass(12, "Object", {"ByVal"}, NULL)>>}]
    \cup {Built(conv, MCInt, <<obj>>) : conv \in {{}, {"ThisCall"}, {"Cdecl"}},
                                       obj \in {MCObject, [MCObject EXCEPT !.pCopyCtor = "g"]}}
    \cup {MCProtoInfo(2, {}, MCInt, <<>>),
          MCProtoInfo(0, {}, MCInt, <<MCPass(1, "Basic", {}, NULL), MCPass(8, "Float", {}, NULL)>>),
          Built({}, MCPass(12, "Basic", {"ByRef"}, NULL), <<MCPass(4, "Unknown", {}, NULL)>>),
          Built({}, MCInt, <<MCPass(60, "Object", {"ByRef"}, NULL)>>)}

VARIABLE part

tableVars == <<entries, peak>>
mcVars == <<tableVars, hm, startupVars, code, srch, containerVars, enc, rf, conVars, proto, part>>

Parts == {"ids", "managers", "startup", "code", "thunks", "search",
          "vector", "stack", "list", "hash", "string", "encode", "files", "commands", "protos"}

MCInit ==
    /\ part \in Parts
    /\ engine \in IF part = "startup" THEN Engines ELSE {CHOOSE e \in Engines : TRUE}
    /\ PeakInit /\ HMInit /\ StartupInit /\ PagesInit /\ SearchInit /\ ContainersInit
    /\ EncInit /\ FilesInit /\ ConInit /\ ProtoInit
    /\ part # "commands" => ~cc.linked
    /\ part # "files"    => /\ rf.disk = {}
                            /\ rf.lines = CHOOSE l \in LineFiles : TRUE
                            /\ rf.vdfs = CHOOSE d \in VdfDirs : TRUE

\* One step of a part; the others stand still.
Only(p) == /\ part = p /\ UNCHANGED part
           /\ p # "ids"                => UNCHANGED tableVars
           /\ p # "managers"           => UNCHANGED hm
           /\ p # "startup"            => UNCHANGED startupVars
           /\ p \notin {"code", "thunks"} => UNCHANGED code
           /\ p # "search"             => UNCHANGED srch
           /\ p # "vector"             => UNCHANGED vec
           /\ p # "stack"              => UNCHANGED stk
           /\ p # "list"               => UNCHANGED lst
           /\ p # "hash"               => UNCHANGED hash
           /\ p # "string"             => UNCHANGED str
           /\ p # "encode"             => UNCHANGED enc
           /\ p # "files"              => UNCHANGED rf
           /\ p # "commands"           => UNCHANGED conVars
           /\ p # "protos"             => UNCHANGED proto

MCNext ==
    \/ Only("ids")      /\ PeakNext
    \/ Only("managers") /\ HMNext
    \/ Only("startup")  /\ StartupNext
    \/ Only("code")     /\ HookManNext
    \/ Only("thunks")   /\ ThunkNext
    \/ Only("search")   /\ SearchNext
    \/ Only("vector")   /\ VecNext
    \/ Only("stack")    /\ StkNext
    \/ Only("list")     /\ ListNext
    \/ Only("hash")     /\ HashNext
    \/ Only("string")   /\ StrNext
    \/ Only("encode")   /\ EncNext
    \/ Only("files")    /\ FilesNext
    \/ Only("commands") /\ ConNext
    \/ Only("protos")   /\ ProtoNext

\* What the specifications of the components assume of fairness.
MCSpec == MCInit /\ [][MCNext]_mcVars /\ WF_startupVars(RunCommand) /\ WF_srch(Turn)
=============================================================================
