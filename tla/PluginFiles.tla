----------------------------- MODULE PluginFiles -----------------------------
(***************************************************************************)
(* How Metamod:Source finds its plugins (core/metamod.cpp): the lines of    *)
(* metaplugins.ini, then the VDF files of a directory, each turned into a   *)
(* path and given to CPluginManager::Load; and the aliases both may set,    *)
(* for "meta load" to use.  "meta refresh" reads everything again.          *)
(*                                                                          *)
(* A file name is its part before the extension, the extension, and whether *)
(* a separator in it is written twice.  What a plugin does when it is       *)
(* loaded is left to PluginManager: here it runs or it fails.               *)
(***************************************************************************)
EXTENDS Sublists, FiniteSets

CONSTANTS Names,      \* file names as they are written
          LineFiles,  \* contents metaplugins.ini may have
          VdfDirs,    \* contents the VDF directory may have
          MaxCommands \* bound: commands between two readings

FileName(base, ext, twice) == [base |-> base, ext |-> ext, twice |-> twice]
Empty == FileName("", "", FALSE)
Suffixed == "_i486.so"

\* A line of metaplugins.ini once it is trimmed.  Letter says whether the
\* second word begins with a letter.
Skipped == [kind |-> "skipped"]
Quoted(name) == [kind |-> "quoted", first |-> name]
OneWord(name) == [kind |-> "word", first |-> name]
TwoWords(first, second, letter) ==
    [kind |-> "words", first |-> first, second |-> second, letter |-> letter]

\* A VDF file: its "file" and "alias" keys, Empty when the alias is missing.
BadVdf == [good |-> FALSE]
Vdf(file, alias) == [good |-> TRUE, file |-> file, alias |-> alias]

Path  == [base : {n.base : n \in Names}, ext : {n.ext : n \in Names} \cup {Suffixed, ".so"}, twice : BOOLEAN]
Lines == {Skipped} \cup {Quoted(n) : n \in Names} \cup {OneWord(n) : n \in Names \ {Empty}}
         \cup {TwoWords(n, m, letter) : n \in Names \ {Empty}, m \in Names \ {Empty}, letter \in BOOLEAN}
Vdfs  == {BadVdf} \cup {Vdf(n, m) : n \in Names, m \in Names}

ASSUME FilesAssumption ==
    /\ Names \subseteq Path /\ Empty \in Names
    /\ LineFiles \subseteq Seq(Lines) /\ VdfDirs \subseteq Seq(Vdfs)

VARIABLE rf

-----------------------------------------------------------------------------
\* GetFullPluginPath: a name without extension gets the suffix of the platform,
\* and the plain extension when no such file is there.
GetFullPluginPath(name, disk) ==
    CASE name.ext # "" -> name
      [] name.ext = "" /\ <<name.base, Suffixed>> \in disk -> [name EXCEPT !.ext = Suffixed]
      [] OTHER -> [name EXCEPT !.ext = ".so"]

OnDisk(path, disk) == <<path.base, path.ext>> \in disk

\* UTIL_PathCmp: separators written twice count once.
UTIL_PathCmp(p, q) == p.base = q.base /\ p.ext = q.ext

\* The list of aliases, in the order they were first set.
AliasIndex(aliases, alias) == Lowest({k \in DOMAIN aliases : aliases[k].alias = alias})

LookupAlias(aliases, alias) ==
    LET k == AliasIndex(aliases, alias) IN IF k = 0 THEN Empty ELSE aliases[k].value

SetAlias(aliases, alias, value) ==
    LET k == AliasIndex(aliases, alias) IN
    CASE k # 0 /\ value = Empty -> Without(aliases, {aliases[k]})
      [] k # 0 /\ value # Empty -> [aliases EXCEPT ![k].value = value]
      [] k = 0 /\ value = Empty -> aliases
      [] OTHER                  -> Append(aliases, [alias |-> alias, value |-> value])

-----------------------------------------------------------------------------
\* CPluginManager::Load: copies of the file that failed are dropped, up to one
\* that runs, if there is one.  starts says how a new copy fares.
NewCopy(path, starts) == [file |-> path, runs |-> starts, new |-> TRUE]

RunningCopy(s, path) ==
    Lowest({k \in DOMAIN s.plugins : s.plugins[k].runs /\ UTIL_PathCmp(path, s.plugins[k].file)})

LoadEvenFailed(s, path, starts) ==                              \* mutant
    LET k == RunningCopy(s, path) IN
    IF k # 0 THEN [s EXCEPT !.already = TRUE, !.loaded = TRUE]
    ELSE [s EXCEPT !.already = FALSE, !.loaded = starts,
                   !.plugins = Append(@, NewCopy(path, starts))]

Load(s, path, starts) ==
    LET k == RunningCopy(s, path)
        failed == {i \in DOMAIN s.plugins : /\ k = 0 \/ i < k
                                            /\ ~s.plugins[i].runs /\ UTIL_PathCmp(path, s.plugins[i].file)}
        kept   == Without(s.plugins, {s.plugins[i] : i \in failed})
    IN IF k # 0 THEN [s EXCEPT !.plugins = kept, !.already = TRUE, !.loaded = TRUE]
       ELSE [s EXCEPT !.plugins = Append(kept, NewCopy(path, starts)),
                      !.already = failed # {}, !.loaded = starts]

Counted(s, skip, success) ==
    CASE skip -> [s EXCEPT !.skipped = @ + 1]
      [] ~skip /\ success -> [s EXCEPT !.total = @ + 1]
      [] OTHER -> s

\* One line of LoadPluginsFromFile: the aliases after it and the file it names.
IsAlias(line) == line.kind = "words" /\ line.letter

LineFile(line) ==
    CASE line.kind = "skipped" -> Empty
      [] IsAlias(line)         -> line.second
      [] OTHER                 -> line.first

LineAliases(line, aliases) ==
    IF IsAlias(line) THEN SetAlias(aliases, line.first, line.second) ELSE aliases

LoadLine(s, line, starts) ==
    LET file == LineFile(line)
        loaded == Load([s EXCEPT !.aliases = LineAliases(line, @)],
                       GetFullPluginPath(file, s.disk), starts)
    IN IF file = Empty THEN s
       ELSE Counted(loaded, loaded.loaded /\ loaded.already, loaded.loaded)

\* ProcessVDF and its caller: a copy that failed before counts as skipped even
\* when it fails again.
LoadVdf(s, vdf, starts) ==
    LET aliased == IF vdf.alias = Empty THEN s
                   ELSE [s EXCEPT !.aliases = SetAlias(@, vdf.alias, vdf.file)]
        loaded == Load(aliased, GetFullPluginPath(vdf.file, s.disk), starts)
    IN IF ~vdf.good THEN s ELSE Counted(loaded, loaded.already, loaded.loaded)

\* A copy starts only if its file is there.
MayStart(s, file) == IF OnDisk(GetFullPluginPath(file, s.disk), s.disk) THEN BOOLEAN ELSE {FALSE}

-----------------------------------------------------------------------------
Files == {<<n.base, e>> : n \in {x \in Names : x # Empty}, e \in {Suffixed, ".so"}}

RunningIn(plugins) == {p \in Elements(plugins) : p.runs}

FilesInit ==
    \E lines \in LineFiles, vdfs \in VdfDirs, disk \in SUBSET Files :
      rf = [lines |-> lines, vdfs |-> vdfs, disk |-> disk, aliases |-> <<>>, plugins |-> <<>>,
            pc |-> "idle", at |-> 1, total |-> 0, skipped |-> 0,
            already |-> FALSE, loaded |-> FALSE, old |-> {}, commands |-> 0]

\* mm_LoadPlugins, at startup or by "meta refresh".
Refresh ==
    /\ rf.pc \in {"idle", "read"}
    /\ rf' = [rf EXCEPT !.pc = "file", !.at = 1, !.total = 0, !.skipped = 0, !.commands = 0,
                         !.plugins = [k \in DOMAIN @ |-> [@[k] EXCEPT !.new = FALSE]],
                         !.old = {p.file : p \in RunningIn(rf.plugins)}]

ReadLine ==
    /\ rf.pc = "file" /\ rf.at <= Len(rf.lines)
    /\ \E starts \in MayStart(rf, LineFile(rf.lines[rf.at])) :
         rf' = [LoadLine(rf, rf.lines[rf.at], starts) EXCEPT !.at = @ + 1]

OpenVdfDir == rf.pc = "file" /\ rf.at > Len(rf.lines) /\ rf' = [rf EXCEPT !.pc = "vdf", !.at = 1]

ReadVdf ==
    /\ rf.pc = "vdf" /\ rf.at <= Len(rf.vdfs)
    /\ LET vdf == rf.vdfs[rf.at] IN
       \E starts \in IF vdf.good THEN MayStart(rf, vdf.file) ELSE {FALSE} :
         rf' = [LoadVdf(rf, vdf, starts) EXCEPT !.at = @ + 1]

Summary ==
    rf.pc = "vdf" /\ rf.at > Len(rf.vdfs) /\ rf' = [rf EXCEPT !.pc = "read", !.at = 1]

\* Between two readings, after the first.
Commanded(s) ==
    /\ rf.pc \in {"read", "idle"} /\ rf.commands < MaxCommands
    /\ rf' = [s EXCEPT !.pc = "idle", !.commands = @ + 1]

\* "meta load": an alias stands for its file.
ConsoleLoad ==
    \E word \in Names \ {Empty} :
      LET value == LookupAlias(rf.aliases, word)
          file == IF value = Empty THEN word ELSE value
      IN \E starts \in MayStart(rf, file) :
           Commanded(Load(rf, GetFullPluginPath(file, rf.disk), starts))

\* "meta alias" with a value, empty to delete.
ConsoleAlias ==
    \E word \in Names \ {Empty}, value \in Names :
      Commanded([rf EXCEPT !.aliases = SetAlias(@, word, value)])

\* The operator unloads a plugin, or puts another file in place.
Unload == \E k \in DOMAIN rf.plugins : Commanded([rf EXCEPT !.plugins = Without(@, {@[k]})])
Deploy == \E f \in Files \ rf.disk : Commanded([rf EXCEPT !.disk = @ \cup {f}])

FilesNext == \/ Refresh \/ ReadLine \/ OpenVdfDir \/ ReadVdf \/ Summary
             \/ ConsoleLoad \/ ConsoleAlias \/ Unload \/ Deploy
FilesSpec == FilesInit /\ [][FilesNext]_rf

-----------------------------------------------------------------------------
\* What a whole reading names, in its order: whether a line or a VDF file names a
\* plugin, its file and its alias, Empty if none.
Entry(names, file, alias) == [names |-> names, file |-> file, alias |-> alias]

LineEntry(line) ==
    Entry(LineFile(line) # Empty, LineFile(line), IF IsAlias(line) THEN line.first ELSE Empty)
VdfEntry(vdf) == IF vdf.good THEN Entry(TRUE, vdf.file, vdf.alias) ELSE Entry(FALSE, Empty, Empty)

EntryAt(k) == IF k <= Len(rf.lines) THEN LineEntry(rf.lines[k])
              ELSE VdfEntry(rf.vdfs[k - Len(rf.lines)])

Entries == {k \in 1 .. Len(rf.lines) + Len(rf.vdfs) : EntryAt(k).names}

CopiesOf(file) ==
    {k \in DOMAIN rf.plugins : UTIL_PathCmp(rf.plugins[k].file, GetFullPluginPath(file, rf.disk))}

\* The last entry that sets an alias.
Setters(alias) == {k \in Entries : EntryAt(k).alias = alias}
LastSetter(alias) == CHOOSE k \in Setters(alias) : \A j \in Setters(alias) : j <= k

\* No file is in the list of plugins twice, whatever the operator does between
\* two readings.  After a reading every file it names is in the list once; the
\* plugins that ran before are the same copies; every alias leads to the file
\* named with it last; and the plugins "Loaded" and "already loaded" that
\* mm_LoadPlugins reports account for all that are new.
ReadingLoadsWhatIsNamed ==
    /\ \A j, k \in DOMAIN rf.plugins :
         UTIL_PathCmp(rf.plugins[j].file, rf.plugins[k].file) => j = k
    /\ rf.pc = "read" =>
         LET new == {p \in RunningIn(rf.plugins) : p.new} IN
         /\ \A k \in Entries : Cardinality(CopiesOf(EntryAt(k).file)) = 1
         /\ rf.old = {p.file : p \in RunningIn(rf.plugins) \ new}
         /\ \A k \in Entries : EntryAt(k).alias # Empty =>
              LookupAlias(rf.aliases, EntryAt(k).alias) = EntryAt(LastSetter(EntryAt(k).alias)).file
         /\ rf.total <= Cardinality(new) /\ Cardinality(new) <= rf.total + rf.skipped
         /\ rf.total + rf.skipped <= Cardinality(Entries)
=============================================================================
