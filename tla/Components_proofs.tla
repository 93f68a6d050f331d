--------------------------- MODULE Components_proofs ---------------------------
(***************************************************************************)
(* What holds of components that share no state with others (the ones      *)
(* MCComponents runs), each for any constants.                             *)
(*                                                                         *)
(* Console commands, for any commands, owners and bounds: no command stays *)
(* behind when the code it is part of goes, unless that code registered it *)
(* after its own unload.  The invariant says why.  Any other command in    *)
(* the engine's list is the engine's own, or it is in a list that will be  *)
(* unregistered before its code goes: m_RegisteredCommands, or the lists   *)
(* of the plugin it is part of.  And what a listener points at is in the   *)
(* engine's list, because a listener hears of every command that leaves it.*)
(*                                                                         *)
(* Code pages, for any sizes, alignments and users: code in use stays      *)
(* where it is, whole and executable.  Every pointer in use has a unit of  *)
(* its own in its region, behind the padding that aligns it, and units do  *)
(* not overlap; each hook manager is counted as often as it is held; and   *)
(* no pages are writable but those with the buffer of the code that is     *)
(* being generated, because every push ends with them and nothing else     *)
(* writable and every end of a function protects them.                     *)
(*                                                                         *)
(* Plugin files, for any names, lines, VDF files and bounds: a reading     *)
(* loads what is named.  While one is under way, what the property says of *)
(* a whole reading holds of the entries read so far (ReadUpTo), because    *)
(* loading a file drops only failed copies of that file and adds one that  *)
(* has no copy, and setting an alias changes that one only.                *)
(*                                                                         *)
(* Prototypes, for any two SourceHook compares: compatible ones fit.       *)
(***************************************************************************)
EXTENDS CProto, ConCommands, CodePages, PluginFiles, ListLemmas

-----------------------------------------------------------------------------
(* The invariant, and the parts of a state *)

\* What plugin p registered, and the parts of a state.
ListedBy(s, p) == Elements(s.m_Cvars[p]) \cup Elements(s.m_Cmds[p])

ConRec(linked, chain, registered, cvars, cmds, loaded, listens, known, up) ==
    [linked |-> linked, chain |-> chain, m_RegisteredCommands |-> registered, m_Cvars |-> cvars,
     m_Cmds |-> cmds, loaded |-> loaded, listens |-> listens, known |-> known, up |-> up]
IsCon(s) == s = ConRec(s.linked, s.chain, s.m_RegisteredCommands, s.m_Cvars, s.m_Cmds, s.loaded,
                       s.listens, s.known, s.up)

\* Every command in the engine's list is the engine's, or in a list that will be
\* unregistered before its code goes, or one of L, those registered late;
\* listeners point into the engine's list.
Chained(s, L, c) ==
    \/ Owner[c] = Engine
    \/ c \in Elements(s.m_RegisteredCommands)
    \/ Owner[c] \in ConPlugins /\ c \in ListedBy(s, Owner[c])
    \/ Owner[c] \in ConPlugins /\ c \in L

\* The type of a state; a listener is loaded.
ConTypes(s) ==
    /\ IsCon(s)
    /\ s.chain \in Seq(DOMAIN Owner) /\ s.m_RegisteredCommands \in Seq(DOMAIN Owner)
    /\ s.m_Cvars \in [ConPlugins -> Seq(DOMAIN Owner)] /\ s.m_Cmds \in [ConPlugins -> Seq(DOMAIN Owner)]
    /\ s.loaded \subseteq ConPlugins /\ s.listens \subseteq s.loaded
    /\ s.known \in [ConPlugins -> SUBSET DOMAIN Owner]

ConKept(s, L) ==
    /\ \A c \in Elements(s.chain) : Chained(s, L, c)
    /\ OwnedBy(Engine) \subseteq Elements(s.chain)
    /\ \A c \in Elements(s.m_RegisteredCommands) : Owner[c] = MetamodItself
    /\ \A p \in ConPlugins : \A c \in ListedBy(s, p) : Owner[c] = p /\ p \in s.loaded
    /\ \A p \in ConPlugins : /\ s.known[p] \subseteq Elements(s.chain)
                             /\ p \notin s.listens => s.known[p] = {}

ConOK(s, L) == ConTypes(s) /\ ConKept(s, L)

\* Until it is up, Metamod:Source has registered nothing and no plugin runs.
ConInv ==
    /\ ConOK(cc, late) /\ running \subseteq ConPlugins
    /\ ~cc.up => cc.m_RegisteredCommands = <<>> /\ cc.loaded = {} /\ running = {}

\* A state's fields are those it is put together from.
LEMMA ConFields ==
    ASSUME NEW a, NEW b, NEW c, NEW d, NEW e, NEW f, NEW g, NEW h, NEW i,
           NEW t, t = ConRec(a, b, c, d, e, f, g, h, i)
    PROVE  /\ IsCon(t) /\ t.linked = a /\ t.chain = b /\ t.m_RegisteredCommands = c /\ t.m_Cvars = d
           /\ t.m_Cmds = e /\ t.loaded = f /\ t.listens = g /\ t.known = h /\ t.up = i
BY DEF ConRec, IsCon

\* The chain without some commands.
LEMMA UnlinkedChain ==
    ASSUME NEW chain \in Seq(DOMAIN Owner), NEW C
    PROVE  /\ Without(chain, C) \in Seq(DOMAIN Owner)
           /\ Elements(Without(chain, C)) = Elements(chain) \ C
BY WithoutIsSublist

\* The pointers left to the plugins when those who listen forget C.
ForgetAll(s, listens, C) ==
    [p \in ConPlugins |-> IF p \in listens THEN s.known[p] \ C ELSE s.known[p]]

\* What unregistering the commands C by id leaves: the chain without them, and
\* listeners that have forgotten them.
LEMMA UnregisterFields ==
    ASSUME NEW s, IsCon(s), NEW C, NEW t, t = UnregisterById(s, C)
    PROVE  t = ConRec(s.linked, Without(s.chain, C), s.m_RegisteredCommands, s.m_Cvars, s.m_Cmds,
                      s.loaded, s.listens, ForgetAll(s, s.listens, C), s.up)
<1>1. PICK chain, known : chain = Without(s.chain, C) /\ known = ForgetAll(s, s.listens, C)
  OBVIOUS
<1>2. t = [s EXCEPT !.known = known, !.chain = chain]
  BY <1>1 DEF UnregisterById, ForgetAll, Unregister
<1>3. t = ConRec(s.linked, chain, s.m_RegisteredCommands, s.m_Cvars, s.m_Cmds, s.loaded, s.listens, known, s.up)
  BY <1>2 DEF ConRec, IsCon
<1>. QED
  BY <1>1, <1>3

\* What unloading p leaves: the chain without what p registered, its lists empty.
LEMMA UnloadedFields ==
    ASSUME NEW s, IsCon(s), NEW p, NEW t, t = Unloaded(s, p)
    PROVE  /\ IsCon(t)
           /\ t.chain = Without(s.chain, ListedBy(s, p)) /\ t.m_RegisteredCommands = s.m_RegisteredCommands
           /\ t.m_Cvars = [s.m_Cvars EXCEPT ![p] = <<>>] /\ t.m_Cmds = [s.m_Cmds EXCEPT ![p] = <<>>]
           /\ t.loaded = s.loaded \ {p} /\ t.listens = s.listens \ {p} /\ t.up = s.up
           /\ t.known = [q \in ConPlugins |-> IF q = p THEN {}
                                              ELSE ForgetAll(s, s.listens \ {p}, ListedBy(s, p))[q]]
<1>1. PICK listens, loaded, C : listens = s.listens \ {p} /\ loaded = s.loaded \ {p} /\ C = ListedBy(s, p)
  OBVIOUS
<1>2. PICK u : u = [s EXCEPT !.listens = listens]
  OBVIOUS
<1>3. u = ConRec(s.linked, s.chain, s.m_RegisteredCommands, s.m_Cvars, s.m_Cmds, s.loaded, listens, s.known, s.up)
  BY <1>2 DEF ConRec, IsCon
<1>4. /\ IsCon(u) /\ u.linked = s.linked /\ u.chain = s.chain /\ u.m_RegisteredCommands = s.m_RegisteredCommands
      /\ u.m_Cvars = s.m_Cvars /\ u.m_Cmds = s.m_Cmds /\ u.loaded = s.loaded /\ u.listens = listens
      /\ u.known = s.known /\ u.up = s.up
  BY <1>3, ConFields
<1>5. PICK v : v = UnregisterById(u, C)
  OBVIOUS
<1>6. PICK chain, known : chain = Without(s.chain, C) /\ known = ForgetAll(s, listens, C)
  OBVIOUS
<1>7. ForgetAll(u, u.listens, C) = known
  BY <1>4, <1>6 DEF ForgetAll
<1>8. v = ConRec(s.linked, chain, s.m_RegisteredCommands, s.m_Cvars, s.m_Cmds, s.loaded, listens, known, s.up)
  BY <1>4, <1>5, <1>6, <1>7, UnregisterFields
<1>9. /\ IsCon(v) /\ v.linked = s.linked /\ v.chain = chain /\ v.m_RegisteredCommands = s.m_RegisteredCommands
      /\ v.m_Cvars = s.m_Cvars /\ v.m_Cmds = s.m_Cmds /\ v.loaded = s.loaded /\ v.listens = listens
      /\ v.known = known /\ v.up = s.up
  BY <1>8, ConFields
<1>10. PICK cvars, cmds : cvars = [s.m_Cvars EXCEPT ![p] = <<>>] /\ cmds = [s.m_Cmds EXCEPT ![p] = <<>>]
  OBVIOUS
<1>11. PICK w : w = [v EXCEPT !.m_Cvars = cvars, !.m_Cmds = cmds]
  OBVIOUS
<1>12. w = UnregAllConCmds(u, p)
  <2>1. Elements(u.m_Cvars[p]) \cup Elements(u.m_Cmds[p]) = C
    BY <1>1, <1>4 DEF ListedBy
  <2>2. UnregAllConCmds(u, p) = [v EXCEPT !.m_Cvars[p] = <<>>, !.m_Cmds[p] = <<>>]
    BY <1>5, <2>1 DEF UnregAllConCmds
  <2>. QED
    BY <1>9, <1>10, <1>11, <2>2
<1>13. w = ConRec(s.linked, chain, s.m_RegisteredCommands, cvars, cmds, s.loaded, listens, known, s.up)
  BY <1>9, <1>11 DEF ConRec, IsCon
<1>14. /\ IsCon(w) /\ w.linked = s.linked /\ w.chain = chain /\ w.m_RegisteredCommands = s.m_RegisteredCommands
       /\ w.m_Cvars = cvars /\ w.m_Cmds = cmds /\ w.loaded = s.loaded /\ w.listens = listens
       /\ w.known = known /\ w.up = s.up
  BY <1>13, ConFields
<1>15. PICK last : last = [q \in ConPlugins |-> IF q = p THEN {} ELSE known[q]]
  OBVIOUS
<1>16. t = [w EXCEPT !.loaded = loaded, !.known = last]
  <2>1. t = [w EXCEPT !.loaded = @ \ {p}, !.known = [q \in ConPlugins |-> IF q = p THEN {} ELSE @[q]]]
    BY <1>1, <1>2, <1>12 DEF Unloaded
  <2>. QED
    BY <1>1, <1>14, <1>15, <2>1
<1>17. t = ConRec(s.linked, chain, s.m_RegisteredCommands, cvars, cmds, loaded, listens, last, s.up)
  BY <1>14, <1>16 DEF ConRec, IsCon
<1>18. /\ IsCon(t) /\ t.chain = chain /\ t.m_RegisteredCommands = s.m_RegisteredCommands
       /\ t.m_Cvars = cvars /\ t.m_Cmds = cmds /\ t.loaded = loaded /\ t.listens = listens
       /\ t.known = last /\ t.up = s.up
  BY <1>17, ConFields
<1>. QED
  BY <1>1, <1>6, <1>10, <1>15, <1>18

-----------------------------------------------------------------------------
(* Unloading a plugin *)

\* The types of the lists of one plugin.
LEMMA ListTypes ==
    ASSUME NEW s, ConTypes(s), NEW p \in ConPlugins
    PROVE  /\ s.m_Cvars[p] \in Seq(DOMAIN Owner) /\ s.m_Cmds[p] \in Seq(DOMAIN Owner)
           /\ s.known[p] \in SUBSET DOMAIN Owner
BY DEF ConTypes

\* The empty list has no elements.
LEMMA NothingInEmpty == Elements(<<>>) = {}
<1>1. PICK e : e = <<>>
  OBVIOUS
<1>2. DOMAIN e = {}
  BY <1>1
<1>. QED
  BY <1>1, <1>2 DEF Elements

\* The lists of p are others, the rest as it was.
Relisted(s, t, p) ==
    /\ DOMAIN t.m_Cvars = ConPlugins /\ DOMAIN t.m_Cmds = ConPlugins
    /\ \A q \in ConPlugins : q # p => t.m_Cvars[q] = s.m_Cvars[q] /\ t.m_Cmds[q] = s.m_Cmds[q]

\* Then what the other plugins registered is as it was.
LEMMA OthersListed ==
    ASSUME NEW s, NEW p, NEW t, Relisted(s, t, p), NEW q \in ConPlugins, q # p
    PROVE  ListedBy(t, q) = ListedBy(s, q)
BY DEF Relisted, ListedBy

\* A plugin that is unloaded takes its commands along, and only those.
LEMMA UnloadedKeeps ==
    ASSUME NEW s, NEW L, ConOK(s, L), NEW p \in ConPlugins, NEW t, t = Unloaded(s, p)
    PROVE  /\ ConOK(t, L) /\ t.up = s.up /\ t.m_RegisteredCommands = s.m_RegisteredCommands
           /\ t.loaded = s.loaded \ {p}
<1>1. ConTypes(s) /\ IsCon(s)
  BY DEF ConOK, ConTypes
<1>2. PICK C : C = ListedBy(s, p)
  OBVIOUS
<1>3. /\ IsCon(t)
      /\ t.chain = Without(s.chain, C) /\ t.m_RegisteredCommands = s.m_RegisteredCommands
      /\ t.m_Cvars = [s.m_Cvars EXCEPT ![p] = <<>>] /\ t.m_Cmds = [s.m_Cmds EXCEPT ![p] = <<>>]
      /\ t.loaded = s.loaded \ {p} /\ t.listens = s.listens \ {p} /\ t.up = s.up
      /\ t.known = [q \in ConPlugins |-> IF q = p THEN {} ELSE ForgetAll(s, s.listens \ {p}, C)[q]]
  BY <1>1, <1>2, UnloadedFields
<1>4. t.chain \in Seq(DOMAIN Owner) /\ Elements(t.chain) = Elements(s.chain) \ C
  BY <1>1, <1>3, UnlinkedChain DEF ConTypes
<1>5. t.m_Cvars \in [ConPlugins -> Seq(DOMAIN Owner)] /\ t.m_Cmds \in [ConPlugins -> Seq(DOMAIN Owner)]
  BY <1>1, <1>3 DEF ConTypes
<1>6. /\ Relisted(s, t, p) /\ t.m_Cvars[p] = <<>> /\ t.m_Cmds[p] = <<>>
  BY <1>1, <1>3, <1>5 DEF ConTypes, Relisted
<1>7. ListedBy(t, p) = {}
  BY <1>6, NothingInEmpty DEF ListedBy
<1>8. \A q \in ConPlugins : q # p => ListedBy(t, q) = ListedBy(s, q)
  BY <1>6, OthersListed
<1>9. \A q \in ConPlugins : t.known[q] = IF q = p THEN {} ELSE IF q \in s.listens THEN s.known[q] \ C ELSE s.known[q]
  BY <1>3 DEF ForgetAll
<1>10. ConTypes(t)
  <2>1. t.known \in [ConPlugins -> SUBSET DOMAIN Owner]
    <3>1. \A q \in ConPlugins : t.known[q] \in SUBSET DOMAIN Owner
      BY <1>1, <1>9, ListTypes
    <3>2. t.known = [q \in ConPlugins |-> t.known[q]]
      BY <1>3
    <3>. QED
      BY <3>1, <3>2
  <2>2. t.loaded \subseteq ConPlugins /\ t.listens \subseteq t.loaded
    BY <1>1, <1>3 DEF ConTypes
  <2>. QED
    BY <1>1, <1>3, <1>4, <1>5, <2>1, <2>2 DEF ConTypes
<1>11. ConKept(s, L)
  BY DEF ConOK
<1>12. ASSUME NEW c \in Elements(t.chain)
       PROVE  Chained(t, L, c)
  <2>1. Chained(s, L, c) /\ c \notin C
    BY <1>4, <1>11, <1>12 DEF ConKept
  <2>2. CASE Owner[c] \in ConPlugins /\ c \in ListedBy(s, Owner[c])
    <3>1. Owner[c] # p
      BY <1>2, <2>1, <2>2
    <3>. QED
      BY <1>8, <2>2, <3>1 DEF Chained
  <2>. QED
    BY <1>3, <2>1, <2>2 DEF Chained
<1>13. OwnedBy(Engine) \subseteq Elements(t.chain)
  <2>1. p # Engine /\ \A c \in C : Owner[c] = p
    BY <1>2, <1>11 DEF ConKept, ConPlugins
  <2>. QED
    BY <1>4, <1>11, <2>1 DEF ConKept, OwnedBy
<1>14. \A q \in ConPlugins : \A c \in ListedBy(t, q) : Owner[c] = q /\ q \in t.loaded
  BY <1>3, <1>7, <1>8, <1>11 DEF ConKept
<1>15. \A q \in ConPlugins : t.known[q] \subseteq Elements(t.chain) /\ (q \notin t.listens => t.known[q] = {})
  <2>1. ASSUME NEW q \in ConPlugins, q # p
        PROVE  t.known[q] \subseteq Elements(s.chain) \ C /\ (q \notin s.listens => t.known[q] = {})
    <3>1. s.known[q] \subseteq Elements(s.chain) /\ (q \notin s.listens => s.known[q] = {})
      BY <1>11 DEF ConKept
    <3>. QED
      BY <1>9, <2>1, <3>1
  <2>. QED
    BY <1>3, <1>4, <1>9, <2>1
<1>16. ConKept(t, L)
  BY <1>3, <1>11, <1>12, <1>13, <1>14, <1>15 DEF ConKept
<1>. QED
  BY <1>3, <1>10, <1>16 DEF ConOK

\* The bodies of the two loops, f being what they have done before.
UnloadFrom(s, list, f, n) == IF n = 0 THEN s ELSE Unloaded(f[n - 1], list[n])
RegisterFrom(s, list, f, n) == IF n = 0 THEN s ELSE RegisterOwn(f[n - 1], list[n])

\* The loop over the plugins is defined: by the least length at which it is not.
LEMMA UnloadExists ==
    ASSUME NEW s, NEW list, NEW N \in Nat
    PROVE  \E f : f = [n \in 0..N |-> UnloadFrom(s, list, f, n)]
<1>. DEFINE Exists(k) == \E f : f = [n \in 0..k |-> UnloadFrom(s, list, f, n)]
            Bad == {k \in 0..N : ~Exists(k)}
<1>2. SUFFICES ASSUME Bad # {}
               PROVE  FALSE
  OBVIOUS
<1>3. PICK k \in Bad : \A j \in Bad : k <= j
  <2>1. Bad \subseteq Nat
    OBVIOUS
  <2>. HIDE DEF Bad
  <2>. QED
    BY <1>2, <2>1, LeastNatural
<1>4. CASE k = 0
  <2>1. [n \in 0..0 |-> s] = [n \in 0..0 |-> UnloadFrom(s, list, [i \in 0..0 |-> s], n)]
    BY DEF UnloadFrom
  <2>. QED
    BY <1>3, <1>4, <2>1
<1>5. CASE k > 0
  <2>1. k - 1 \in 0..N /\ k - 1 \notin Bad
    BY <1>3, <1>5
  <2>2. PICK f : f = [n \in 0..k - 1 |-> UnloadFrom(s, list, f, n)]
    BY <2>1
  <2>3. PICK g : g = [n \in 0..k |-> IF n = k THEN UnloadFrom(s, list, f, k) ELSE f[n]]
    OBVIOUS
  <2>4. ASSUME NEW n \in 0..k
        PROVE  g[n] = UnloadFrom(s, list, g, n)
    <3>1. CASE n = k
      <4>1. g[k - 1] = f[k - 1]
        BY <1>3, <1>5, <2>3
      <4>. QED
        BY <1>5, <2>3, <3>1, <4>1 DEF UnloadFrom
    <3>2. CASE n < k
      <4>0. n \in 0..k - 1 /\ g[n] = f[n]
        BY <1>3, <2>3, <3>2
      <4>1. f[n] = UnloadFrom(s, list, f, n)
        BY <2>2, <4>0
      <4>2. n # 0 => g[n - 1] = f[n - 1]
        BY <1>3, <2>3, <3>2
      <4>. QED
        BY <4>0, <4>1, <4>2 DEF UnloadFrom
    <3>. QED
      BY <1>3, <3>1, <3>2
  <2>5. g = [n \in 0..k |-> UnloadFrom(s, list, g, n)]
    BY <2>3, <2>4
  <2>. QED
    BY <1>3, <2>5
<1>. QED
  BY <1>3, <1>4, <1>5

\* f is the recursive function in RegisterEach.
RegistersBy(s, list, N, f) == f = [n \in 0..N |-> RegisterFrom(s, list, f, n)]

\* So is the loop over the commands Metamod:Source registers.
LEMMA RegisterExists ==
    ASSUME NEW s, NEW list, NEW N \in Nat
    PROVE  \E f : RegistersBy(s, list, N, f)
<1>. DEFINE Exists(k) == \E f : f = [n \in 0..k |-> RegisterFrom(s, list, f, n)]
            Bad == {k \in 0..N : ~Exists(k)}
<1>2. SUFFICES ASSUME Bad # {}
               PROVE  FALSE
  BY DEF RegistersBy
<1>3. PICK k \in Bad : \A j \in Bad : k <= j
  <2>1. Bad \subseteq Nat
    OBVIOUS
  <2>. HIDE DEF Bad
  <2>. QED
    BY <1>2, <2>1, LeastNatural
<1>4. CASE k = 0
  <2>1. [n \in 0..0 |-> s] = [n \in 0..0 |-> RegisterFrom(s, list, [i \in 0..0 |-> s], n)]
    BY DEF RegisterFrom
  <2>. QED
    BY <1>3, <1>4, <2>1
<1>5. CASE k > 0
  <2>1. k - 1 \in 0..N /\ k - 1 \notin Bad
    BY <1>3, <1>5
  <2>2. PICK f : f = [n \in 0..k - 1 |-> RegisterFrom(s, list, f, n)]
    BY <2>1
  <2>3. PICK g : g = [n \in 0..k |-> IF n = k THEN RegisterFrom(s, list, f, k) ELSE f[n]]
    OBVIOUS
  <2>4. ASSUME NEW n \in 0..k
        PROVE  g[n] = RegisterFrom(s, list, g, n)
    <3>1. CASE n = k
      <4>1. g[k - 1] = f[k - 1]
        BY <1>3, <1>5, <2>3
      <4>. QED
        BY <1>5, <2>3, <3>1, <4>1 DEF RegisterFrom
    <3>2. CASE n < k
      <4>0. n \in 0..k - 1 /\ g[n] = f[n]
        BY <1>3, <2>3, <3>2
      <4>1. f[n] = RegisterFrom(s, list, f, n)
        BY <2>2, <4>0
      <4>2. n # 0 => g[n - 1] = f[n - 1]
        BY <1>3, <2>3, <3>2
      <4>. QED
        BY <4>0, <4>1, <4>2 DEF RegisterFrom
    <3>. QED
      BY <1>3, <3>1, <3>2
  <2>5. g = [n \in 0..k |-> RegisterFrom(s, list, g, n)]
    BY <2>3, <2>4
  <2>. QED
    BY <1>3, <2>5
<1>. QED
  BY <1>3, <1>4, <1>5

-----------------------------------------------------------------------------
(* Unloading every plugin *)

\* An order of a finite set lists each of its members once.
LEMMA OrderLists ==
    ASSUME NEW S, IsFiniteSet(S), NEW list, list = Order(S)
    PROVE  /\ list \in Seq(S) /\ Elements(list) = S
           /\ \A i, j \in DOMAIN list : list[i] = list[j] => i = j
<1>1. PICK n : n = Cardinality(S)
  OBVIOUS
<1>2. n \in Nat /\ ExistsBijection(1..n, S)
  BY <1>1, FS_CardinalityType
<1>3. PICK f : f \in Bijection(1..n, S)
  BY <1>2 DEF ExistsBijection
<1>4. f \in [1..n -> S] /\ Elements(f) = S /\ \A i, j \in DOMAIN f : f[i] = f[j] => i = j
  <2>1. f \in [1..n -> S]
    BY <1>3 DEF Bijection, Injection
  <2>2. \A i, j \in 1..n : f[i] = f[j] => i = j
    BY <1>3 DEF Bijection, Injection, IsInjective
  <2>3. \A x \in S : \E i \in 1..n : f[i] = x
    BY <1>3 DEF Bijection, Surjection
  <2>. QED
    BY <2>1, <2>2, <2>3 DEF Elements
<1>5. list \in [1..n -> S] /\ Elements(list) = S /\ \A i, j \in DOMAIN list : list[i] = list[j] => i = j
  <2>1. list = CHOOSE l \in [1..n -> S] : Elements(l) = S /\ \A i, j \in DOMAIN l : l[i] = l[j] => i = j
    BY <1>1 DEF Order
  <2>. QED
    BY <1>4, <2>1, Zenon
<1>6. list \in Seq(S)
  BY <1>2, <1>5
<1>. QED
  BY <1>5, <1>6

\* There are finitely many commands, so finitely many of each owner, and finitely
\* many plugins that own one.
LEMMA OwnersFinite ==
    /\ \A x : IsFiniteSet(OwnedBy(x))
    /\ \A T : T \subseteq ConPlugins => IsFiniteSet(T)
<1>1. IsFiniteSet(DOMAIN Owner)
  BY ConAssumption
<1>2. PICK D : D = DOMAIN Owner
  OBVIOUS
<1>3. PICK f : f = [c \in D |-> Owner[c]]
  OBVIOUS
<1>4. PICK R : R = {Owner[c] : c \in D}
  OBVIOUS
<1>5. f \in Surjection(D, R)
  BY <1>3, <1>4 DEF Surjection
<1>6. IsFiniteSet(R)
  BY <1>1, <1>2, <1>5, FS_Surjection
<1>7. ASSUME NEW x
      PROVE  IsFiniteSet(OwnedBy(x))
  <2>1. OwnedBy(x) \in SUBSET (DOMAIN Owner)
    BY DEF OwnedBy
  <2>. QED
    BY <1>1, <2>1, FS_Subset
<1>8. ASSUME NEW T, T \subseteq ConPlugins
      PROVE  IsFiniteSet(T)
  <2>1. T \in SUBSET R
    BY <1>2, <1>4, <1>8 DEF ConPlugins
  <2>. QED
    BY <1>6, <2>1, FS_Subset
<1>. QED
  BY <1>7, <1>8

\* Unloading the plugins of a list, one after the other, leaves the others.
LEMMA UnloadEachKeeps ==
    ASSUME NEW s, NEW L, ConOK(s, L), NEW list \in Seq(ConPlugins), NEW t, t = UnloadEach(s, list)
    PROVE  /\ ConOK(t, L) /\ t.up = s.up /\ t.m_RegisteredCommands = s.m_RegisteredCommands
           /\ t.loaded = s.loaded \ Elements(list)
<1>1. PICK N : N = Len(list) /\ N \in Nat
  OBVIOUS
<1>2. PICK f : f = [n \in 0..N |-> UnloadFrom(s, list, f, n)] /\ t = f[N]
  <2>. DEFINE after == CHOOSE f : f = [n \in 0..N |-> UnloadFrom(s, list, f, n)]
  <2>1. t = after[N]
    BY <1>1 DEF UnloadEach, UnloadFrom
  <2>2. after = [n \in 0..N |-> UnloadFrom(s, list, after, n)]
    BY <1>1, UnloadExists, Zenon
  <2>. QED
    BY <2>1, <2>2
<1>. DEFINE Good(n) == /\ ConOK(f[n], L) /\ f[n].up = s.up
                       /\ f[n].m_RegisteredCommands = s.m_RegisteredCommands
                       /\ f[n].loaded = s.loaded \ {list[i] : i \in 1..n}
            Bad == {n \in 0..N : ~Good(n)}
<1>3. Bad = {}
  <2>1. SUFFICES ASSUME Bad # {}
                 PROVE  FALSE
    OBVIOUS
  <2>2. PICK n \in Bad : \A k \in Bad : n <= k
    <3>1. Bad \subseteq Nat
      BY <1>1
    <3>. HIDE DEF Bad
    <3>. QED
      BY <2>1, <3>1, LeastNatural
  <2>3. n \in 0..N /\ ~Good(n)
    BY <2>2
  <2>4. f[n] = UnloadFrom(s, list, f, n)
    BY <1>2, <2>3
  <2>5. n # 0
    <3>1. ASSUME n = 0
          PROVE  Good(n)
      <4>1. f[n] = s /\ {list[i] : i \in 1..n} = {}
        BY <2>4, <3>1 DEF UnloadFrom
      <4>. QED
        BY <4>1
    <3>. HIDE DEF Good
    <3>. QED
      BY <2>3, <3>1
  <2>6. n - 1 \in 0..N /\ n \in 1..N /\ Good(n - 1)
    <3>1. n - 1 \in 0..N /\ n \in 1..N /\ n - 1 < n
      BY <1>1, <2>3, <2>5
    <3>2. n - 1 \notin Bad
      <4>. HIDE DEF Bad
      <4>. QED
        BY <1>1, <2>2, <2>3, <3>1
    <3>. HIDE DEF Good
    <3>. QED
      BY <3>1, <3>2
  <2>7. list[n] \in ConPlugins /\ f[n] = Unloaded(f[n - 1], list[n])
    BY <1>1, <2>4, <2>5, <2>6 DEF UnloadFrom
  <2>8. /\ ConOK(f[n], L) /\ f[n].up = f[n - 1].up /\ f[n].m_RegisteredCommands = f[n - 1].m_RegisteredCommands
        /\ f[n].loaded = f[n - 1].loaded \ {list[n]}
    <3>1. PICK u, p, v : u = f[n - 1] /\ p = list[n] /\ v = f[n]
      OBVIOUS
    <3>2. ConOK(u, L)
      BY <2>6, <3>1
    <3>. HIDE DEF Good, Bad
    <3>3. p \in ConPlugins /\ v = Unloaded(u, p)
      BY <2>7, <3>1
    <3>4. /\ ConOK(v, L) /\ v.up = u.up /\ v.m_RegisteredCommands = u.m_RegisteredCommands
          /\ v.loaded = u.loaded \ {p}
      BY <3>2, <3>3, UnloadedKeeps
    <3>. QED
      BY <3>1, <3>4
  <2>9. {list[i] : i \in 1..n} = {list[i] : i \in 1..n - 1} \cup {list[n]}
    BY <1>1, <2>6
  <2>10. f[n].loaded = s.loaded \ {list[i] : i \in 1..n}
    BY <2>6, <2>8, <2>9
  <2>11. f[n].up = s.up /\ f[n].m_RegisteredCommands = s.m_RegisteredCommands
    BY <2>6, <2>8
  <2>12. Good(n)
    BY <2>8, <2>10, <2>11
  <2>. QED
    BY <2>3, <2>12
<1>4. Good(N)
  <2>1. N \in 0..N
    BY <1>1
  <2>. QED
    BY <1>3, <2>1
<1>5. Elements(list) = {list[i] : i \in 1..N}
  BY <1>1 DEF Elements
<1>. QED
  BY <1>2, <1>4, <1>5

-----------------------------------------------------------------------------
(* Registering the commands of Metamod:Source *)

\* A list with c before it, and after it.
PutInFront(list, c) == <<c>> \o list
PutAtTheEnd(list, c) == Append(list, c)

\* What the list has with one more in front.
LEMMA InFront ==
    ASSUME NEW D, NEW list \in Seq(D), NEW c \in D, NEW t, t = PutInFront(list, c)
    PROVE  t \in Seq(D) /\ Elements(t) = Elements(list) \cup {c}
<1>. USE DEF PutInFront
<1>1. PICK n : n = Len(list) /\ n \in Nat
  OBVIOUS
<1>2. t \in Seq(D) /\ Len(t) = n + 1
  BY <1>1
<1>3. DOMAIN t = 1..n + 1 /\ DOMAIN list = 1..n
  BY <1>1, <1>2
<1>4. t[1] = c /\ \A i \in 1..n : t[i + 1] = list[i]
  BY <1>1
<1>5. ASSUME NEW x \in Elements(t)
      PROVE  x \in Elements(list) \cup {c}
  <2>1. PICK i \in 1..n + 1 : x = t[i]
    BY <1>3, <1>5 DEF Elements
  <2>2. CASE i = 1
    BY <1>4, <2>1, <2>2
  <2>3. CASE i # 1
    <3>1. i - 1 \in 1..n /\ (i - 1) + 1 = i
      BY <1>1, <2>1, <2>3
    <3>2. t[i] = list[i - 1]
      BY <1>4, <3>1
    <3>. QED
      BY <1>3, <2>1, <3>1, <3>2 DEF Elements
  <2>. QED
    BY <2>2, <2>3
<1>6. ASSUME NEW i \in 1..n
      PROVE  list[i] \in Elements(t)
  <2>1. i + 1 \in 1..n + 1 /\ t[i + 1] = list[i]
    BY <1>1, <1>4
  <2>. QED
    BY <1>3, <2>1 DEF Elements
<1>7. c \in Elements(t)
  BY <1>1, <1>3, <1>4 DEF Elements
<1>8. Elements(list) \subseteq Elements(t)
  BY <1>3, <1>6 DEF Elements
<1>. QED
  BY <1>2, <1>5, <1>7, <1>8

\* What the list has with one more at the end.
LEMMA AtTheEnd ==
    ASSUME NEW D, NEW list \in Seq(D), NEW c \in D, NEW t, t = PutAtTheEnd(list, c)
    PROVE  t \in Seq(D) /\ Elements(t) = Elements(list) \cup {c}
<1>. USE DEF PutAtTheEnd
<1>1. PICK n : n = Len(list) /\ n \in Nat
  OBVIOUS
<1>2. t \in Seq(D) /\ DOMAIN t = 1..n + 1 /\ DOMAIN list = 1..n
  BY <1>1
<1>3. t[n + 1] = c /\ \A i \in 1..n : t[i] = list[i]
  BY <1>1
<1>. QED
  BY <1>1, <1>2, <1>3 DEF Elements

\* Register adds the command to the chain and loses none: in a linked chain the
\* command is new, so nothing follows it there.
LEMMA RegisterLinksIn ==
    ASSUME NEW s, s.chain \in Seq(DOMAIN Owner), NEW c \in DOMAIN Owner,
           s.linked => c \notin Elements(s.chain), NEW t, t = Register(s, c)
    PROVE  t \in Seq(DOMAIN Owner) /\ Elements(t) = Elements(s.chain) \cup {c}
<1>1. PICK chain : chain = s.chain
  OBVIOUS
<1>2. t = IF c \in Elements(chain) THEN chain ELSE <<c>> \o chain
  BY <1>1 DEF Register, CutAfter
<1>3. CASE c \in Elements(chain)
  BY <1>1, <1>2, <1>3
<1>4. CASE c \notin Elements(chain)
  <2>1. PICK D : D = DOMAIN Owner
    OBVIOUS
  <2>2. chain \in Seq(D) /\ c \in D /\ t = PutInFront(chain, c)
    BY <1>1, <1>2, <1>4, <2>1 DEF PutInFront
  <2>3. t \in Seq(D) /\ Elements(t) = Elements(chain) \cup {c}
    BY <2>2, InFront
  <2>. QED
    BY <1>1, <2>1, <2>3
<1>. QED
  BY <1>3, <1>4

\* Metamod:Source's own commands are linked in once each.
LEMMA RegisterOwnKeeps ==
    ASSUME NEW s, NEW L, ConOK(s, L), NEW c \in OwnedBy(MetamodItself), c \notin Elements(s.m_RegisteredCommands),
           NEW t, t = RegisterOwn(s, c)
    PROVE  /\ ConOK(t, L) /\ t.up = s.up /\ t.loaded = s.loaded
           /\ Elements(t.m_RegisteredCommands) = Elements(s.m_RegisteredCommands) \cup {c}
<1>1. ConTypes(s) /\ IsCon(s) /\ ConKept(s, L)
  BY DEF ConOK, ConTypes
<1>2. c \in DOMAIN Owner /\ Owner[c] = MetamodItself
  BY DEF OwnedBy
<1>3. c \notin Elements(s.chain)
  <2>1. ~Chained(s, L, c)
    BY <1>2, ConAssumption DEF Chained, ConPlugins
  <2>. QED
    BY <1>1, <2>1 DEF ConKept
<1>4. PICK chain, registered : chain = Register(s, c) /\ registered = Append(s.m_RegisteredCommands, c)
  OBVIOUS
<1>5. chain \in Seq(DOMAIN Owner) /\ Elements(chain) = Elements(s.chain) \cup {c}
  BY <1>1, <1>2, <1>3, <1>4, RegisterLinksIn DEF ConTypes
<1>6. /\ registered \in Seq(DOMAIN Owner)
      /\ Elements(registered) = Elements(s.m_RegisteredCommands) \cup {c}
  <2>1. PICK D, reg : D = DOMAIN Owner /\ reg = s.m_RegisteredCommands
    OBVIOUS
  <2>2. reg \in Seq(D) /\ c \in D /\ registered = PutAtTheEnd(reg, c)
    BY <1>1, <1>2, <1>4, <2>1 DEF ConTypes, PutAtTheEnd
  <2>3. registered \in Seq(D) /\ Elements(registered) = Elements(reg) \cup {c}
    BY <2>2, AtTheEnd
  <2>. QED
    BY <2>1, <2>3
<1>7. t = [s EXCEPT !.m_RegisteredCommands = registered, !.chain = chain]
  BY <1>4 DEF RegisterOwn
<1>8. t = ConRec(s.linked, chain, registered, s.m_Cvars, s.m_Cmds, s.loaded, s.listens, s.known, s.up)
  BY <1>1, <1>7 DEF ConRec, IsCon
<1>9. /\ IsCon(t) /\ t.linked = s.linked /\ t.chain = chain /\ t.m_RegisteredCommands = registered
      /\ t.m_Cvars = s.m_Cvars /\ t.m_Cmds = s.m_Cmds /\ t.loaded = s.loaded /\ t.listens = s.listens
      /\ t.known = s.known /\ t.up = s.up
  BY <1>8, ConFields
<1>10. ConTypes(t)
  BY <1>1, <1>5, <1>6, <1>9 DEF ConTypes
<1>11. \A q : ListedBy(t, q) = ListedBy(s, q)
  BY <1>9 DEF ListedBy
<1>12. ConKept(t, L)
  <2>1. ASSUME NEW x \in Elements(t.chain)
        PROVE  Chained(t, L, x)
    <3>1. CASE x = c
      BY <1>6, <1>9, <3>1 DEF Chained
    <3>2. CASE x # c
      <4>1. Chained(s, L, x)
        BY <1>1, <1>5, <1>9, <2>1, <3>2 DEF ConKept
      <4>. QED
        BY <1>6, <1>9, <1>11, <4>1 DEF Chained
    <3>. QED
      BY <3>1, <3>2
  <2>2. OwnedBy(Engine) \subseteq Elements(t.chain)
    BY <1>1, <1>5, <1>9 DEF ConKept
  <2>3. \A x \in Elements(t.m_RegisteredCommands) : Owner[x] = MetamodItself
    BY <1>1, <1>2, <1>6, <1>9 DEF ConKept
  <2>4. \A p \in ConPlugins : \A x \in ListedBy(t, p) : Owner[x] = p /\ p \in t.loaded
    BY <1>1, <1>9, <1>11 DEF ConKept
  <2>5. \A p \in ConPlugins : /\ t.known[p] \subseteq Elements(t.chain)
                              /\ p \notin t.listens => t.known[p] = {}
    BY <1>1, <1>5, <1>9 DEF ConKept
  <2>. QED
    BY <2>1, <2>2, <2>3, <2>4, <2>5 DEF ConKept
<1>. QED
  BY <1>6, <1>9, <1>10, <1>12 DEF ConOK

\* Startup registers all of them, with nothing to cut: each is new to the chain.
LEMMA RegisterEachKeeps ==
    ASSUME NEW s, NEW L, ConOK(s, L), s.m_RegisteredCommands = <<>>,
           NEW list, list = Order(OwnedBy(MetamodItself)), NEW t, t = RegisterEach(s, list)
    PROVE  ConOK(t, L) /\ t.loaded = s.loaded
<1>0. PICK O : O = OwnedBy(MetamodItself)
  OBVIOUS
<1>1. list \in Seq(O) /\ \A i, j \in DOMAIN list : list[i] = list[j] => i = j
  BY <1>0, OrderLists, OwnersFinite
<1>2. PICK N : N = Len(list) /\ N \in Nat /\ DOMAIN list = 1..N
  BY <1>1
<1>14. N \in Nat
  BY <1>2
<1>15. \E g : RegistersBy(s, list, N, g)
  BY <1>14, RegisterExists
<1>3. PICK f : f = [n \in 0..N |-> RegisterFrom(s, list, f, n)] /\ t = f[N]
  <2>. DEFINE after == CHOOSE f : f = [n \in 0..N |-> RegisterFrom(s, list, f, n)]
  <2>1. t = after[N]
    BY <1>2 DEF RegisterEach, RegisterFrom
  <2>3. after = [n \in 0..N |-> RegisterFrom(s, list, after, n)]
    <3>. DEFINE Is(g) == g = [n \in 0..N |-> RegisterFrom(s, list, g, n)]
    <3>1. \E g : Is(g)
      BY <1>15 DEF RegistersBy
    <3>2. after = CHOOSE g : Is(g)
      OBVIOUS
    <3>. HIDE DEF Is, after
    <3>3. Is(after)
      BY <3>1, <3>2, Zenon
    <3>. QED
      BY <3>3 DEF Is
  <2>. QED
    BY <2>1, <2>3
<1>. DEFINE Good(n) == /\ ConOK(f[n], L) /\ f[n].loaded = s.loaded
                       /\ Elements(f[n].m_RegisteredCommands) = {list[i] : i \in 1..n}
            Bad == {n \in 0..N : ~Good(n)}
<1>4. Bad = {}
  <2>1. SUFFICES ASSUME Bad # {}
                 PROVE  FALSE
    OBVIOUS
  <2>2. PICK n \in Bad : \A k \in Bad : n <= k
    <3>1. Bad \subseteq Nat
      BY <1>2
    <3>. HIDE DEF Bad
    <3>. QED
      BY <2>1, <3>1, LeastNatural
  <2>3. n \in 0..N /\ ~Good(n)
    BY <2>2
  <2>4. f[n] = RegisterFrom(s, list, f, n)
    BY <1>3, <2>3
  <2>5. n # 0
    <3>1. ASSUME n = 0
          PROVE  Good(n)
      <4>1. f[n] = s /\ {list[i] : i \in 1..n} = {}
        BY <2>4, <3>1 DEF RegisterFrom
      <4>. QED
        BY <4>1, NothingInEmpty
    <3>. HIDE DEF Good
    <3>. QED
      BY <2>3, <3>1
  <2>6. n - 1 \in 0..N /\ n \in 1..N /\ Good(n - 1)
    <3>1. n - 1 \in 0..N /\ n \in 1..N /\ n - 1 < n
      BY <1>2, <2>3, <2>5
    <3>2. n - 1 \notin Bad
      <4>. HIDE DEF Bad
      <4>. QED
        BY <1>2, <2>2, <2>3, <3>1
    <3>. HIDE DEF Good
    <3>. QED
      BY <3>1, <3>2
  <2>7. list[n] \in O /\ f[n] = RegisterOwn(f[n - 1], list[n])
    BY <1>1, <1>2, <2>4, <2>5, <2>6 DEF RegisterFrom
  <2>8. /\ ConOK(f[n], L) /\ f[n].loaded = f[n - 1].loaded
        /\ Elements(f[n].m_RegisteredCommands) = Elements(f[n - 1].m_RegisteredCommands) \cup {list[n]}
    <3>1. PICK u, c, v : u = f[n - 1] /\ c = list[n] /\ v = f[n]
      OBVIOUS
    <3>2. ConOK(u, L) /\ Elements(u.m_RegisteredCommands) = {list[i] : i \in 1..n - 1}
      BY <2>6, <3>1
    <3>. HIDE DEF Good, Bad
    <3>3. c \in OwnedBy(MetamodItself) /\ v = RegisterOwn(u, c)
      BY <1>0, <2>7, <3>1
    <3>4. c \notin Elements(u.m_RegisteredCommands)
      <4>1. \A i \in 1..n - 1 : i \in 1..N /\ n \in 1..N /\ i # n
        BY <1>2, <2>6
      <4>2. \A i \in 1..n - 1 : list[i] # list[n]
        BY <1>1, <1>2, <4>1
      <4>. QED
        BY <3>1, <3>2, <4>2
    <3>5. /\ ConOK(v, L) /\ v.loaded = u.loaded
          /\ Elements(v.m_RegisteredCommands) = Elements(u.m_RegisteredCommands) \cup {c}
      BY <3>2, <3>3, <3>4, RegisterOwnKeeps
    <3>. QED
      BY <3>1, <3>5
  <2>9. {list[i] : i \in 1..n} = {list[i] : i \in 1..n - 1} \cup {list[n]}
    BY <1>2, <2>6
  <2>10. Elements(f[n].m_RegisteredCommands) = {list[i] : i \in 1..n}
    BY <2>6, <2>8, <2>9
  <2>11. f[n].loaded = s.loaded
    BY <2>6, <2>8
  <2>12. Good(n)
    BY <2>8, <2>10, <2>11
  <2>. QED
    BY <2>3, <2>12
<1>5. Good(N)
  <2>1. N \in 0..N
    BY <1>2
  <2>. QED
    BY <1>4, <2>1
<1>. QED
  BY <1>3, <1>5

-----------------------------------------------------------------------------
(* The lists of a plugin *)

\* u is s with other lists of commands of plugin p.
OnlyRelisted(s, u, p) ==
    /\ IsCon(u) /\ u.linked = s.linked /\ u.chain = s.chain
    /\ u.m_RegisteredCommands = s.m_RegisteredCommands
    /\ u.loaded = s.loaded /\ u.listens = s.listens /\ u.known = s.known /\ u.up = s.up
    /\ u.m_Cvars \in [ConPlugins -> Seq(DOMAIN Owner)] /\ u.m_Cmds \in [ConPlugins -> Seq(DOMAIN Owner)]
    /\ Relisted(s, u, p)

\* A plugin gets another list of commands, or of variables.
LEMMA ListReplaced ==
    ASSUME NEW s, ConTypes(s), NEW p \in ConPlugins, NEW list \in Seq(DOMAIN Owner), NEW u,
           u = [s EXCEPT !.m_Cmds[p] = list] \/ u = [s EXCEPT !.m_Cvars[p] = list]
    PROVE  OnlyRelisted(s, u, p)
<1>0. IsCon(s)
  BY DEF ConTypes
<1>1. PICK cvars, cmds : cvars = [s.m_Cvars EXCEPT ![p] = list] /\ cmds = [s.m_Cmds EXCEPT ![p] = list]
  OBVIOUS
<1>2. PICK D, T : D = DOMAIN Owner /\ T = [ConPlugins -> Seq(D)]
  OBVIOUS
<1>3. s.m_Cvars \in T /\ s.m_Cmds \in T /\ list \in Seq(D)
  BY <1>2 DEF ConTypes
<1>4. /\ cvars \in T /\ cvars[p] = list /\ \A q \in ConPlugins : q # p => cvars[q] = s.m_Cvars[q]
      /\ cmds \in T /\ cmds[p] = list /\ \A q \in ConPlugins : q # p => cmds[q] = s.m_Cmds[q]
  BY <1>1, <1>2, <1>3
<1>5. CASE u = [s EXCEPT !.m_Cmds[p] = list]
  <2>1. u = [s EXCEPT !.m_Cmds = cmds]
    BY <1>0, <1>1, <1>5 DEF IsCon, ConRec
  <2>2. u = ConRec(s.linked, s.chain, s.m_RegisteredCommands, s.m_Cvars, cmds, s.loaded, s.listens, s.known, s.up)
    BY <1>0, <2>1 DEF IsCon, ConRec
  <2>3. /\ IsCon(u) /\ u.linked = s.linked /\ u.chain = s.chain
        /\ u.m_RegisteredCommands = s.m_RegisteredCommands
        /\ u.m_Cvars = s.m_Cvars /\ u.m_Cmds = cmds
        /\ u.loaded = s.loaded /\ u.listens = s.listens /\ u.known = s.known /\ u.up = s.up
    BY <2>2, ConFields
  <2>4. DOMAIN u.m_Cvars = ConPlugins /\ DOMAIN u.m_Cmds = ConPlugins
    BY <1>2, <1>3, <1>4, <2>3
  <2>5. Relisted(s, u, p)
    BY <1>4, <2>3, <2>4 DEF Relisted
  <2>. QED
    BY <1>2, <1>3, <1>4, <1>5, <2>3, <2>5 DEF OnlyRelisted
<1>6. CASE u # [s EXCEPT !.m_Cmds[p] = list]
  <2>1. u = [s EXCEPT !.m_Cvars = cvars]
    BY <1>0, <1>1, <1>6 DEF IsCon, ConRec
  <2>2. u = ConRec(s.linked, s.chain, s.m_RegisteredCommands, cvars, s.m_Cmds, s.loaded, s.listens, s.known, s.up)
    BY <1>0, <2>1 DEF IsCon, ConRec
  <2>3. /\ IsCon(u) /\ u.linked = s.linked /\ u.chain = s.chain
        /\ u.m_RegisteredCommands = s.m_RegisteredCommands
        /\ u.m_Cvars = cvars /\ u.m_Cmds = s.m_Cmds
        /\ u.loaded = s.loaded /\ u.listens = s.listens /\ u.known = s.known /\ u.up = s.up
    BY <2>2, ConFields
  <2>4. DOMAIN u.m_Cvars = ConPlugins /\ DOMAIN u.m_Cmds = ConPlugins
    BY <1>2, <1>3, <1>4, <2>3
  <2>5. Relisted(s, u, p)
    BY <1>4, <2>3, <2>4 DEF Relisted
  <2>. QED
    BY <1>2, <1>3, <1>4, <1>6, <2>3, <2>5 DEF OnlyRelisted
<1>. QED
  BY <1>5, <1>6

\* AddPluginCommand notes the command in one of the two lists of p.
LEMMA CommandAdded ==
    ASSUME NEW s, ConTypes(s), NEW p \in s.loaded, NEW c \in DOMAIN Owner, NEW u, u = AddPluginCommand(s, p, c)
    PROVE  OnlyRelisted(s, u, p) /\ ListedBy(u, p) = ListedBy(s, p) \cup {c}
<1>1. p \in ConPlugins
  BY DEF ConTypes
<1>2. PICK D : D = DOMAIN Owner
  OBVIOUS
<1>3. PICK old, other : /\ old = IF IsConCommandBaseACommand(c) THEN s.m_Cmds[p] ELSE s.m_Cvars[p]
                        /\ other = IF IsConCommandBaseACommand(c) THEN s.m_Cvars[p] ELSE s.m_Cmds[p]
  OBVIOUS
<1>4. old \in Seq(D)
  BY <1>1, <1>2, <1>3, ListTypes
<1>5. PICK list : list = PutAtTheEnd(old, c)
  OBVIOUS
<1>6. list \in Seq(D) /\ Elements(list) = Elements(old) \cup {c}
  BY <1>2, <1>4, <1>5, AtTheEnd
<1>7. ListedBy(s, p) = Elements(old) \cup Elements(other)
  BY <1>3 DEF ListedBy
<1>8. CASE IsConCommandBaseACommand(c)
  <2>1. u = [s EXCEPT !.m_Cmds[p] = list]
    BY <1>3, <1>5, <1>8 DEF AddPluginCommand, PutAtTheEnd, ConTypes, IsCon, ConRec
  <2>2. OnlyRelisted(s, u, p)
    BY <1>1, <1>2, <1>6, <2>1, ListReplaced
  <2>3. u.m_Cmds[p] = list /\ u.m_Cvars[p] = s.m_Cvars[p]
    BY <1>1, <2>1 DEF ConTypes, IsCon, ConRec
  <2>. QED
    BY <1>3, <1>6, <1>7, <1>8, <2>2, <2>3 DEF ListedBy
<1>9. CASE ~IsConCommandBaseACommand(c)
  <2>1. u = [s EXCEPT !.m_Cvars[p] = list]
    BY <1>3, <1>5, <1>9 DEF AddPluginCommand, PutAtTheEnd, ConTypes, IsCon, ConRec
  <2>2. OnlyRelisted(s, u, p)
    BY <1>1, <1>2, <1>6, <2>1, ListReplaced
  <2>3. u.m_Cvars[p] = list /\ u.m_Cmds[p] = s.m_Cmds[p]
    BY <1>1, <2>1 DEF ConTypes, IsCon, ConRec
  <2>. QED
    BY <1>3, <1>6, <1>7, <1>9, <2>2, <2>3 DEF ListedBy
<1>. QED
  BY <1>8, <1>9

\* RemovePluginCommand takes at most that command out of them.
LEMMA CommandRemoved ==
    ASSUME NEW s, ConTypes(s), NEW p \in s.loaded, NEW c, NEW u, u = RemovePluginCommand(s, p, c)
    PROVE  /\ OnlyRelisted(s, u, p) /\ ListedBy(s, p) \ {c} \subseteq ListedBy(u, p)
           /\ ListedBy(u, p) \subseteq ListedBy(s, p)
<1>1. p \in ConPlugins
  BY DEF ConTypes
<1>2. PICK D : D = DOMAIN Owner
  OBVIOUS
<1>3. PICK old, other : /\ old = IF IsConCommandBaseACommand(c) THEN s.m_Cmds[p] ELSE s.m_Cvars[p]
                        /\ other = IF IsConCommandBaseACommand(c) THEN s.m_Cvars[p] ELSE s.m_Cmds[p]
  OBVIOUS
<1>4. old \in Seq(D)
  BY <1>1, <1>2, <1>3, ListTypes
<1>5. PICK list : list = Without(old, {c})
  OBVIOUS
<1>6. list \in Seq(D) /\ Elements(list) = Elements(old) \ {c}
  BY <1>4, <1>5, WithoutIsSublist
<1>7. ListedBy(s, p) = Elements(old) \cup Elements(other)
  BY <1>3 DEF ListedBy
<1>8. CASE IsConCommandBaseACommand(c)
  <2>1. u = [s EXCEPT !.m_Cmds[p] = list]
    BY <1>3, <1>5, <1>8 DEF RemovePluginCommand, ConTypes, IsCon, ConRec
  <2>2. OnlyRelisted(s, u, p)
    BY <1>1, <1>2, <1>6, <2>1, ListReplaced
  <2>3. u.m_Cmds[p] = list /\ u.m_Cvars[p] = s.m_Cvars[p]
    BY <1>1, <2>1 DEF ConTypes, IsCon, ConRec
  <2>. QED
    BY <1>3, <1>6, <1>7, <1>8, <2>2, <2>3 DEF ListedBy
<1>9. CASE ~IsConCommandBaseACommand(c)
  <2>1. u = [s EXCEPT !.m_Cvars[p] = list]
    BY <1>3, <1>5, <1>9 DEF RemovePluginCommand, ConTypes, IsCon, ConRec
  <2>2. OnlyRelisted(s, u, p)
    BY <1>1, <1>2, <1>6, <2>1, ListReplaced
  <2>3. u.m_Cvars[p] = list /\ u.m_Cmds[p] = s.m_Cmds[p]
    BY <1>1, <2>1 DEF ConTypes, IsCon, ConRec
  <2>. QED
    BY <1>3, <1>6, <1>7, <1>9, <2>2, <2>3 DEF ListedBy
<1>. QED
  BY <1>8, <1>9

-----------------------------------------------------------------------------
(* Plugins register and unregister *)

\* A command is linked in and noted in the list of its plugin.
LEMMA RegisterKeeps ==
    ASSUME NEW s, NEW L, ConOK(s, L), NEW p \in s.loaded, NEW c \in DOMAIN Owner, Owner[c] = p,
           s.linked => c \notin Elements(s.chain), NEW t, t = RegisterConCommandBase(s, p, c)
    PROVE  ConOK(t, L \ {c}) /\ t.up = s.up
<1>1. ConTypes(s) /\ IsCon(s) /\ ConKept(s, L) /\ p \in ConPlugins
  BY DEF ConOK, ConTypes
<1>2. PICK u, chain : u = AddPluginCommand(s, p, c) /\ chain = Register(s, c)
  OBVIOUS
<1>3. OnlyRelisted(s, u, p) /\ ListedBy(u, p) = ListedBy(s, p) \cup {c}
  BY <1>1, <1>2, CommandAdded
<1>4. chain \in Seq(DOMAIN Owner) /\ Elements(chain) = Elements(s.chain) \cup {c}
  BY <1>1, <1>2, RegisterLinksIn DEF ConTypes
<1>5. t = [u EXCEPT !.chain = chain]
  BY <1>2 DEF RegisterConCommandBase
<1>6. t = ConRec(u.linked, chain, u.m_RegisteredCommands, u.m_Cvars, u.m_Cmds, u.loaded, u.listens, u.known, u.up)
  BY <1>3, <1>5 DEF ConRec, IsCon, OnlyRelisted
<1>7. /\ IsCon(t) /\ t.linked = s.linked /\ t.chain = chain /\ t.m_RegisteredCommands = s.m_RegisteredCommands
      /\ t.m_Cvars = u.m_Cvars /\ t.m_Cmds = u.m_Cmds /\ t.loaded = s.loaded /\ t.listens = s.listens
      /\ t.known = s.known /\ t.up = s.up
  BY <1>3, <1>6, ConFields DEF OnlyRelisted
<1>8. ConTypes(t)
  BY <1>1, <1>3, <1>4, <1>7 DEF ConTypes, OnlyRelisted
<1>9. ListedBy(t, p) = ListedBy(s, p) \cup {c}
  BY <1>3, <1>7 DEF ListedBy
<1>10. \A q \in ConPlugins : q # p => ListedBy(t, q) = ListedBy(s, q)
  <2>1. Relisted(s, t, p)
    BY <1>3, <1>7 DEF OnlyRelisted, Relisted
  <2>. QED
    BY <2>1, OthersListed
<1>11. ASSUME NEW x \in Elements(t.chain)
       PROVE  Chained(t, L \ {c}, x)
  <2>1. CASE x = c
    BY <1>1, <1>9, <2>1 DEF Chained
  <2>2. CASE x # c
    <3>1. Chained(s, L, x)
      BY <1>1, <1>4, <1>7, <1>11, <2>2 DEF ConKept
    <3>. QED
      BY <1>7, <1>9, <1>10, <2>2, <3>1 DEF Chained
  <2>. QED
    BY <2>1, <2>2
<1>12. ConKept(t, L \ {c})
  <2>1. OwnedBy(Engine) \subseteq Elements(t.chain)
    BY <1>1, <1>4, <1>7 DEF ConKept
  <2>2. \A x \in Elements(t.m_RegisteredCommands) : Owner[x] = MetamodItself
    BY <1>1, <1>7 DEF ConKept
  <2>3. \A q \in ConPlugins : \A x \in ListedBy(t, q) : Owner[x] = q /\ q \in t.loaded
    BY <1>1, <1>7, <1>9, <1>10 DEF ConKept
  <2>4. \A q \in ConPlugins : /\ t.known[q] \subseteq Elements(t.chain)
                              /\ q \notin t.listens => t.known[q] = {}
    BY <1>1, <1>4, <1>7 DEF ConKept
  <2>. QED
    BY <1>11, <2>1, <2>2, <2>3, <2>4 DEF ConKept
<1>. QED
  BY <1>7, <1>8, <1>12 DEF ConOK

\* A command that a plugin registers when it has been unloaded is linked in, and
\* noted nowhere.
LEMMA LateRegisterKeeps ==
    ASSUME NEW s, NEW L, ConOK(s, L), NEW p \in ConPlugins, p \notin s.loaded, NEW c \in DOMAIN Owner,
           Owner[c] = p, s.linked => c \notin Elements(s.chain), NEW t, t = RegisterConCommandBase(s, p, c)
    PROVE  ConOK(t, L \cup {c}) /\ t.up = s.up
<1>1. ConTypes(s) /\ IsCon(s) /\ ConKept(s, L)
  BY DEF ConOK, ConTypes
<1>2. PICK chain : chain = Register(s, c)
  OBVIOUS
<1>3. chain \in Seq(DOMAIN Owner) /\ Elements(chain) = Elements(s.chain) \cup {c}
  BY <1>1, <1>2, RegisterLinksIn DEF ConTypes
<1>4. t = [s EXCEPT !.chain = chain]
  BY <1>2 DEF RegisterConCommandBase, AddPluginCommand
<1>5. t = ConRec(s.linked, chain, s.m_RegisteredCommands, s.m_Cvars, s.m_Cmds, s.loaded, s.listens, s.known, s.up)
  BY <1>1, <1>4 DEF ConRec, IsCon
<1>6. /\ IsCon(t) /\ t.linked = s.linked /\ t.chain = chain /\ t.m_RegisteredCommands = s.m_RegisteredCommands
      /\ t.m_Cvars = s.m_Cvars /\ t.m_Cmds = s.m_Cmds /\ t.loaded = s.loaded /\ t.listens = s.listens
      /\ t.known = s.known /\ t.up = s.up
  BY <1>5, ConFields
<1>7. ConTypes(t)
  BY <1>1, <1>3, <1>6 DEF ConTypes
<1>8. \A q : ListedBy(t, q) = ListedBy(s, q)
  BY <1>6 DEF ListedBy
<1>9. ASSUME NEW x \in Elements(t.chain)
      PROVE  Chained(t, L \cup {c}, x)
  <2>1. CASE x = c
    BY <2>1 DEF Chained
  <2>2. CASE x # c
    <3>1. Chained(s, L, x)
      BY <1>1, <1>3, <1>6, <1>9, <2>2 DEF ConKept
    <3>. QED
      BY <1>6, <1>8, <3>1 DEF Chained
  <2>. QED
    BY <2>1, <2>2
<1>10. ConKept(t, L \cup {c})
  <2>1. OwnedBy(Engine) \subseteq Elements(t.chain)
    BY <1>1, <1>3, <1>6 DEF ConKept
  <2>2. \A q \in ConPlugins : \A x \in ListedBy(t, q) : Owner[x] = q /\ q \in t.loaded
    BY <1>1, <1>6, <1>8 DEF ConKept
  <2>3. \A q \in ConPlugins : /\ t.known[q] \subseteq Elements(t.chain)
                              /\ q \notin t.listens => t.known[q] = {}
    BY <1>1, <1>3, <1>6 DEF ConKept
  <2>. QED
    BY <1>1, <1>6, <1>9, <2>1, <2>2, <2>3 DEF ConKept
<1>. QED
  BY <1>6, <1>7, <1>10 DEF ConOK

\* Any plugin may unregister any plugin's command.
LEMMA UnregisterKeeps ==
    ASSUME NEW s, NEW L, ConOK(s, L), NEW p \in ConPlugins, NEW c \in DOMAIN Owner, Owner[c] \in ConPlugins,
           NEW t, t = UnregisterConCommandBase(s, p, c)
    PROVE  ConOK(t, L) /\ t.up = s.up
<1>1. ConTypes(s) /\ IsCon(s) /\ ConKept(s, L)
  BY DEF ConOK, ConTypes
<1>2. PICK u : u = RemovePluginCommand(s, p, c)
  OBVIOUS
<1>3. /\ OnlyRelisted(s, u, p) /\ ListedBy(s, p) \ {c} \subseteq ListedBy(u, p)
      /\ ListedBy(u, p) \subseteq ListedBy(s, p)
  <2>1. CASE p \in s.loaded
    BY <1>1, <1>2, <2>1, CommandRemoved
  <2>2. CASE p \notin s.loaded
    <3>1. u = s
      BY <1>2, <2>2 DEF RemovePluginCommand
    <3>. QED
      BY <1>1, <3>1 DEF OnlyRelisted, Relisted, ConTypes
  <2>. QED
    BY <2>1, <2>2
<1>4. PICK C : C = {c}
  OBVIOUS
<1>5. t = UnregisterById(u, C) /\ IsCon(u)
  BY <1>2, <1>3, <1>4 DEF UnregisterConCommandBase, OnlyRelisted
<1>6. PICK chain, known : chain = Without(s.chain, C) /\ known = ForgetAll(s, s.listens, C)
  OBVIOUS
<1>7. Without(u.chain, C) = chain /\ ForgetAll(u, u.listens, C) = known
  BY <1>3, <1>6 DEF OnlyRelisted, ForgetAll
<1>8. t = ConRec(u.linked, chain, u.m_RegisteredCommands, u.m_Cvars, u.m_Cmds, u.loaded, u.listens, known, u.up)
  BY <1>5, <1>7, UnregisterFields
<1>9. /\ IsCon(t) /\ t.linked = s.linked /\ t.chain = chain /\ t.m_RegisteredCommands = s.m_RegisteredCommands
      /\ t.m_Cvars = u.m_Cvars /\ t.m_Cmds = u.m_Cmds /\ t.loaded = s.loaded /\ t.listens = s.listens
      /\ t.known = known /\ t.up = s.up
  BY <1>3, <1>8, ConFields DEF OnlyRelisted
<1>10. chain \in Seq(DOMAIN Owner) /\ Elements(chain) = Elements(s.chain) \ C
  BY <1>1, <1>6, UnlinkedChain DEF ConTypes
<1>11. \A q \in ConPlugins : known[q] = IF q \in s.listens THEN s.known[q] \ C ELSE s.known[q]
  BY <1>6 DEF ForgetAll
<1>12. ConTypes(t)
  <2>1. t.known \in [ConPlugins -> SUBSET DOMAIN Owner]
    <3>1. \A q \in ConPlugins : known[q] \in SUBSET DOMAIN Owner
      BY <1>1, <1>11, ListTypes
    <3>2. known = [q \in ConPlugins |-> known[q]]
      BY <1>6 DEF ForgetAll
    <3>. QED
      BY <1>9, <3>1, <3>2
  <2>. QED
    BY <1>1, <1>3, <1>9, <1>10, <2>1 DEF ConTypes, OnlyRelisted
<1>13. /\ ListedBy(s, p) \ {c} \subseteq ListedBy(t, p)
       /\ ListedBy(t, p) \subseteq ListedBy(s, p)
  BY <1>3, <1>9 DEF ListedBy
<1>14. \A q \in ConPlugins : q # p => ListedBy(t, q) = ListedBy(s, q)
  <2>1. Relisted(s, t, p)
    BY <1>3, <1>9 DEF OnlyRelisted, Relisted
  <2>. QED
    BY <2>1, OthersListed
<1>15. ASSUME NEW x \in Elements(t.chain)
       PROVE  Chained(t, L, x)
  <2>1. Chained(s, L, x) /\ x # c
    BY <1>1, <1>4, <1>9, <1>10, <1>15 DEF ConKept
  <2>. QED
    BY <1>9, <1>13, <1>14, <2>1 DEF Chained
<1>16. ConKept(t, L)
  <2>1. OwnedBy(Engine) \subseteq Elements(t.chain)
    BY <1>1, <1>4, <1>9, <1>10 DEF ConKept, OwnedBy, ConPlugins
  <2>2. \A x \in Elements(t.m_RegisteredCommands) : Owner[x] = MetamodItself
    BY <1>1, <1>9 DEF ConKept
  <2>3. \A q \in ConPlugins : \A x \in ListedBy(t, q) : Owner[x] = q /\ q \in t.loaded
    BY <1>1, <1>9, <1>13, <1>14 DEF ConKept
  <2>4. \A q \in ConPlugins : /\ t.known[q] \subseteq Elements(t.chain)
                              /\ q \notin t.listens => t.known[q] = {}
    <3>1. \A q \in ConPlugins : s.known[q] \subseteq Elements(s.chain) /\ (q \notin s.listens => s.known[q] = {})
      BY <1>1 DEF ConKept
    <3>. QED
      BY <1>9, <1>10, <1>11, <3>1
  <2>. QED
    BY <1>15, <2>1, <2>2, <2>3, <2>4 DEF ConKept
<1>. QED
  BY <1>9, <1>12, <1>16 DEF ConOK

-----------------------------------------------------------------------------
(* The steps *)

\* Metamod:Source comes up with the lists as they are.
LEMMA UpChanged ==
    ASSUME NEW s, NEW L, ConOK(s, L), NEW b, NEW t, t = [s EXCEPT !.up = b]
    PROVE  ConOK(t, L) /\ t.up = b
<1>1. IsCon(s) /\ ConTypes(s) /\ ConKept(s, L)
  BY DEF ConOK, ConTypes
<1>2. t = ConRec(s.linked, s.chain, s.m_RegisteredCommands, s.m_Cvars, s.m_Cmds, s.loaded, s.listens, s.known, b)
  BY <1>1 DEF IsCon, ConRec
<1>3. /\ IsCon(t) /\ t.linked = s.linked /\ t.chain = s.chain
      /\ t.m_RegisteredCommands = s.m_RegisteredCommands
      /\ t.m_Cvars = s.m_Cvars /\ t.m_Cmds = s.m_Cmds /\ t.loaded = s.loaded /\ t.listens = s.listens
      /\ t.known = s.known /\ t.up = b
  BY <1>2, ConFields
<1>4. \A p : ListedBy(t, p) = ListedBy(s, p)
  BY <1>3 DEF ListedBy
<1>5. ConTypes(t)
  BY <1>1, <1>3 DEF ConTypes
<1>6. \A c : Chained(t, L, c) <=> Chained(s, L, c)
  BY <1>3, <1>4 DEF Chained
<1>7. ConKept(t, L)
  BY <1>1, <1>3, <1>4, <1>6 DEF ConKept
<1>. QED
  BY <1>3, <1>5, <1>7 DEF ConOK

\* Startup finds no command registered and registers its own.
LEMMA StartupKeeps ==
    ASSUME ConInv, Startup
    PROVE  ConInv'
<1>1. PICK s, L, list : s = cc /\ L = late /\ list = Order(OwnedBy(MetamodItself))
  OBVIOUS
<1>2. ConOK(s, L) /\ s.m_RegisteredCommands = <<>>
  BY <1>1 DEF ConInv, Startup
<1>3. PICK u, t : u = RegisterEach(s, list) /\ t = [u EXCEPT !.up = TRUE]
  OBVIOUS
<1>4. ConOK(u, L)
  BY <1>1, <1>2, <1>3, RegisterEachKeeps
<1>5. ConOK(t, L) /\ t.up = TRUE
  BY <1>3, <1>4, UpChanged
<1>6. cc' = t
  BY <1>1, <1>3 DEF Startup
<1>7. ConOK(cc', late') /\ cc'.up /\ running' = running
  BY <1>1, <1>5, <1>6 DEF Startup
<1>. QED
  BY <1>7 DEF ConInv

\* What Notify_DLLShutdown_Pre leaves.
TakenOut(s) == [RemoveMetamodCommands(s) EXCEPT !.m_RegisteredCommands = <<>>, !.up = FALSE]

\* Metamod:Source takes its own commands out when no plugin is left.
LEMMA RemoveOwnKeeps ==
    ASSUME NEW s, NEW L, ConOK(s, L), s.loaded = {},
           NEW t, t = TakenOut(s)
    PROVE  ConOK(t, L) /\ t.m_RegisteredCommands = <<>> /\ t.loaded = {}
<1>1. IsCon(s) /\ ConTypes(s) /\ ConKept(s, L)
  BY DEF ConOK, ConTypes
<1>2. PICK C, chain, none : C = Elements(s.m_RegisteredCommands) /\ chain = Without(s.chain, C) /\ none = <<>>
  OBVIOUS
<1>3. PICK v : v = [s EXCEPT !.chain = chain]
  OBVIOUS
<1>4. v = RemoveMetamodCommands(s)
  BY <1>2, <1>3 DEF RemoveMetamodCommands, Unregister
<1>5. t = [v EXCEPT !.m_RegisteredCommands = none, !.up = FALSE]
  BY <1>2, <1>4 DEF TakenOut
<1>6. t = ConRec(s.linked, chain, none, s.m_Cvars, s.m_Cmds, s.loaded, s.listens, s.known, FALSE)
  BY <1>1, <1>3, <1>5 DEF IsCon, ConRec
<1>7. /\ IsCon(t) /\ t.chain = chain /\ t.m_RegisteredCommands = none
      /\ t.m_Cvars = s.m_Cvars /\ t.m_Cmds = s.m_Cmds /\ t.loaded = s.loaded /\ t.listens = s.listens
      /\ t.known = s.known
  BY <1>6 DEF ConRec, IsCon
<1>8. chain \in Seq(DOMAIN Owner) /\ Elements(chain) = Elements(s.chain) \ C
  BY <1>1, <1>2, UnlinkedChain DEF ConTypes
<1>9. none \in Seq(DOMAIN Owner) /\ Elements(none) = {}
  BY <1>2, NothingInEmpty
<1>10. ConTypes(t)
  BY <1>1, <1>7, <1>8, <1>9 DEF ConTypes
<1>11. s.listens = {} /\ \A p \in ConPlugins : ListedBy(s, p) = {} /\ s.known[p] = {}
  BY <1>1 DEF ConTypes, ConKept
<1>12. \A p : ListedBy(t, p) = ListedBy(s, p)
  BY <1>7 DEF ListedBy
<1>13. ASSUME NEW x \in Elements(t.chain)
       PROVE  Chained(t, L, x)
  <2>1. Chained(s, L, x) /\ x \notin C
    BY <1>1, <1>7, <1>8, <1>13 DEF ConKept
  <2>2. Owner[x] = Engine \/ (Owner[x] \in ConPlugins /\ x \in L)
    BY <1>2, <1>11, <2>1 DEF Chained
  <2>. QED
    BY <2>2 DEF Chained
<1>14. OwnedBy(Engine) \subseteq Elements(t.chain)
  <2>1. \A x \in C : Owner[x] = MetamodItself
    BY <1>1, <1>2 DEF ConKept
  <2>. QED
    BY <1>1, <1>7, <1>8, <2>1, ConAssumption DEF ConKept, OwnedBy
<1>15. ConKept(t, L)
  BY <1>7, <1>9, <1>11, <1>12, <1>13, <1>14 DEF ConKept
<1>. QED
  BY <1>2, <1>7, <1>10, <1>15 DEF ConOK

\* Shutdown unloads every plugin, then takes the own commands out.
LEMMA ShutdownKeeps ==
    ASSUME ConInv, Shutdown
    PROVE  ConInv'
<1>1. PICK s, L : s = cc /\ L = late
  OBVIOUS
<1>2. PICK P, list : P = s.loaded /\ list = Order(P)
  OBVIOUS
<1>3. ConOK(s, L) /\ P \subseteq ConPlugins
  BY <1>1, <1>2 DEF ConInv, ConOK, ConTypes
<1>4. IsFiniteSet(P)
  BY <1>3, OwnersFinite
<1>5. list \in Seq(P) /\ Elements(list) = P
  BY <1>2, <1>4, OrderLists
<1>6. list \in Seq(ConPlugins)
  BY <1>3, <1>5
<1>7. PICK u : u = UnloadEach(s, list)
  OBVIOUS
<1>8. ConOK(u, L) /\ u.loaded = {}
  BY <1>2, <1>3, <1>5, <1>6, <1>7, UnloadEachKeeps
<1>9. PICK t : t = TakenOut(u)
  OBVIOUS
<1>10. ConOK(t, L) /\ t.m_RegisteredCommands = <<>> /\ t.loaded = {}
  BY <1>8, <1>9, RemoveOwnKeeps
<1>11. cc' = t
  BY <1>1, <1>2, <1>7, <1>9 DEF Shutdown, TakenOut
<1>12. /\ ConOK(cc', late') /\ cc'.m_RegisteredCommands = <<>> /\ cc'.loaded = {}
       /\ running' = {}
  BY <1>1, <1>10, <1>11 DEF Shutdown
<1>. QED
  BY <1>12 DEF ConInv

\* Plugin p is loaded, and may listen.
LoadedAs(s, p, t) ==
    \E l \in SUBSET {p} : t = [s EXCEPT !.loaded = @ \cup {p}, !.listens = @ \cup l]

\* A plugin that is loaded has no commands yet.
LEMMA LoadKeeps ==
    ASSUME NEW s, NEW L, ConOK(s, L), NEW p \in ConPlugins, p \notin s.loaded, NEW t, LoadedAs(s, p, t)
    PROVE  ConOK(t, L) /\ t.up = s.up
<1>1. IsCon(s) /\ ConTypes(s) /\ ConKept(s, L)
  BY DEF ConOK, ConTypes
<1>2. PICK l \in SUBSET {p} : t = [s EXCEPT !.loaded = @ \cup {p}, !.listens = @ \cup l]
  BY DEF LoadedAs
<1>3. PICK loaded, listens : loaded = s.loaded \cup {p} /\ listens = s.listens \cup l
  OBVIOUS
<1>4. t = ConRec(s.linked, s.chain, s.m_RegisteredCommands, s.m_Cvars, s.m_Cmds, loaded, listens, s.known, s.up)
  BY <1>1, <1>2, <1>3 DEF IsCon, ConRec
<1>5. /\ IsCon(t) /\ t.chain = s.chain /\ t.m_RegisteredCommands = s.m_RegisteredCommands
      /\ t.m_Cvars = s.m_Cvars /\ t.m_Cmds = s.m_Cmds /\ t.loaded = loaded /\ t.listens = listens
      /\ t.known = s.known /\ t.up = s.up
  BY <1>4 DEF ConRec, IsCon
<1>6. s.loaded \subseteq loaded /\ loaded \subseteq ConPlugins /\ listens \subseteq loaded /\ s.listens \subseteq listens
  BY <1>1, <1>2, <1>3 DEF ConTypes
<1>7. ConTypes(t)
  BY <1>1, <1>5, <1>6 DEF ConTypes
<1>8. \A q : ListedBy(t, q) = ListedBy(s, q)
  BY <1>5 DEF ListedBy
<1>9. \A c : Chained(t, L, c) <=> Chained(s, L, c)
  BY <1>5, <1>8 DEF Chained
<1>10. ConKept(t, L)
  BY <1>1, <1>5, <1>6, <1>8, <1>9 DEF ConKept
<1>. QED
  BY <1>5, <1>7, <1>10 DEF ConOK

\* s with listener p pointing at c.
FoundBy(s, p, c) == [s EXCEPT !.known[p] = @ \cup {c}]

\* A listener takes a pointer to a command that is in the chain.
LEMMA FindKeeps ==
    ASSUME NEW s, NEW L, ConOK(s, L), NEW p \in s.listens, NEW c \in Elements(s.chain),
           NEW t, t = FoundBy(s, p, c)
    PROVE  ConOK(t, L) /\ t.up = s.up
<1>1. IsCon(s) /\ ConTypes(s) /\ ConKept(s, L)
  BY DEF ConOK, ConTypes
<1>2. p \in ConPlugins /\ c \in DOMAIN Owner
  BY <1>1 DEF ConTypes, Elements
<1>3. PICK known : known = [s.known EXCEPT ![p] = @ \cup {c}]
  OBVIOUS
<1>4. t = ConRec(s.linked, s.chain, s.m_RegisteredCommands, s.m_Cvars, s.m_Cmds, s.loaded, s.listens, known, s.up)
  BY <1>1, <1>3 DEF IsCon, ConRec, FoundBy
<1>5. /\ IsCon(t) /\ t.chain = s.chain /\ t.m_RegisteredCommands = s.m_RegisteredCommands
      /\ t.m_Cvars = s.m_Cvars /\ t.m_Cmds = s.m_Cmds /\ t.loaded = s.loaded /\ t.listens = s.listens
      /\ t.known = known /\ t.up = s.up
  BY <1>4 DEF ConRec, IsCon
<1>6. s.known \in [ConPlugins -> SUBSET DOMAIN Owner]
  BY <1>1 DEF ConTypes
<1>7. \A q \in ConPlugins : known[q] = IF q = p THEN s.known[q] \cup {c} ELSE s.known[q]
  BY <1>3, <1>6
<1>8. known \in [ConPlugins -> SUBSET DOMAIN Owner]
  BY <1>2, <1>3, <1>6
<1>9. ConTypes(t)
  BY <1>1, <1>5, <1>8 DEF ConTypes
<1>10. \A q : ListedBy(t, q) = ListedBy(s, q)
  BY <1>5 DEF ListedBy
<1>11. \A x : Chained(t, L, x) <=> Chained(s, L, x)
  BY <1>5, <1>10 DEF Chained
<1>12. \A q \in ConPlugins : /\ t.known[q] \subseteq Elements(t.chain)
                             /\ q \notin t.listens => t.known[q] = {}
  <2>1. \A q \in ConPlugins : s.known[q] \subseteq Elements(s.chain) /\ (q \notin s.listens => s.known[q] = {})
    BY <1>1 DEF ConKept
  <2>2. \A q \in ConPlugins : known[q] \subseteq Elements(s.chain)
    BY <1>7, <2>1
  <2>3. \A q \in ConPlugins : q \notin s.listens => known[q] = {}
    BY <1>7, <2>1
  <2>4. t.known = known /\ t.chain = s.chain /\ t.listens = s.listens
    BY <1>5
  <2>. QED
    BY <2>2, <2>3, <2>4
<1>13. ConKept(t, L)
  BY <1>1, <1>5, <1>10, <1>11, <1>12 DEF ConKept
<1>. QED
  BY <1>5, <1>9, <1>13 DEF ConOK

\* At first there are the commands of the engine.
LEMMA ConInitially == ConInit => ConInv
<1>1. SUFFICES ASSUME ConInit
               PROVE  ConInv
  OBVIOUS
<1>2. PICK linked \in BOOLEAN :
        cc = [linked |-> linked, chain |-> Order(OwnedBy(Engine)), m_RegisteredCommands |-> <<>>,
              m_Cvars |-> [p \in ConPlugins |-> <<>>], m_Cmds |-> [p \in ConPlugins |-> <<>>],
              loaded |-> {}, listens |-> {}, known |-> [p \in ConPlugins |-> {}], up |-> FALSE]
  BY <1>1 DEF ConInit
<1>3. PICK s, L, chain, lists, known, none : /\ s = cc /\ L = late /\ chain = Order(OwnedBy(Engine))
                             /\ lists = [p \in ConPlugins |-> <<>>] /\ known = [p \in ConPlugins |-> {}]
                             /\ none = <<>>
  OBVIOUS
<1>4. s = ConRec(linked, chain, none, lists, lists, {}, {}, known, FALSE)
  BY <1>2, <1>3 DEF ConRec
<1>5. /\ IsCon(s) /\ s.chain = chain /\ s.m_RegisteredCommands = none
      /\ s.m_Cvars = lists /\ s.m_Cmds = lists /\ s.loaded = {} /\ s.listens = {}
      /\ s.known = known /\ s.up = FALSE
  BY <1>4 DEF ConRec, IsCon
<1>6. PICK E : E = OwnedBy(Engine)
  OBVIOUS
<1>7. chain \in Seq(E) /\ Elements(chain) = E
  BY <1>3, <1>6, OrderLists, OwnersFinite
<1>8. E \subseteq DOMAIN Owner /\ \A x \in E : Owner[x] = Engine
  BY <1>6 DEF OwnedBy
<1>9. none \in Seq(DOMAIN Owner) /\ Elements(none) = {}
  BY <1>3, NothingInEmpty
<1>10. chain \in Seq(DOMAIN Owner)
  BY <1>7, <1>8
<1>11. lists \in [ConPlugins -> Seq(DOMAIN Owner)] /\ \A p \in ConPlugins : lists[p] = none
  BY <1>3, <1>9
<1>12. known \in [ConPlugins -> SUBSET DOMAIN Owner] /\ \A p \in ConPlugins : known[p] = {}
  BY <1>3
<1>13. ConTypes(s)
  BY <1>5, <1>9, <1>10, <1>11, <1>12 DEF ConTypes
<1>14. \A p \in ConPlugins : ListedBy(s, p) = {}
  BY <1>5, <1>9, <1>11 DEF ListedBy
<1>15. ConKept(s, L)
  BY <1>5, <1>6, <1>7, <1>8, <1>9, <1>12, <1>14 DEF ConKept, Chained
<1>16. ConOK(cc, late) /\ cc.m_RegisteredCommands = <<>> /\ cc.loaded = {} /\ running = {}
  BY <1>1, <1>3, <1>5, <1>13, <1>15 DEF ConOK, ConInit
<1>. QED
  BY <1>16 DEF ConInv

\* Every step keeps the invariant.
LEMMA ConNextKeeps == ConInv /\ [ConNext]_conVars => ConInv'
<1>1. SUFFICES ASSUME ConInv, [ConNext]_conVars
               PROVE  ConInv'
  OBVIOUS
<1>2. PICK s, L : s = cc /\ L = late
  OBVIOUS
<1>3. /\ ConOK(s, L) /\ ConTypes(s) /\ running \subseteq ConPlugins
      /\ ~s.up => s.loaded = {} /\ running = {}
  BY <1>1, <1>2 DEF ConInv, ConOK
<1>4. ASSUME ConOK(cc', late'), s.up, cc'.up = s.up, running' \subseteq ConPlugins
      PROVE  ConInv'
  BY <1>4 DEF ConInv
<1>5. CASE LoadPlugin
  <2>1. PICK p \in ConPlugins \ s.loaded : \E l \in SUBSET {p} :
          cc' = [s EXCEPT !.loaded = @ \cup {p}, !.listens = @ \cup l]
    BY <1>2, <1>5 DEF LoadPlugin
  <2>2. LoadedAs(s, p, cc') /\ p \in ConPlugins /\ p \notin s.loaded
    BY <2>1 DEF LoadedAs
  <2>3. PICK t : t = cc'
    OBVIOUS
  <2>4. ConOK(t, L) /\ t.up = s.up
    BY <1>3, <2>2, <2>3, LoadKeeps
  <2>5. ConOK(cc', late') /\ cc'.up = s.up /\ running' = running
    BY <1>2, <1>5, <2>3, <2>4 DEF LoadPlugin
  <2>. QED
    BY <1>2, <1>3, <1>4, <1>5, <2>5 DEF LoadPlugin
<1>6. CASE UnloadPlugin
  <2>1. PICK p \in s.loaded : /\ cc' = Unloaded(s, p) /\ late' = late
                             /\ running' \subseteq running \cup {p}
    BY <1>2, <1>6 DEF UnloadPlugin
  <2>2. p \in ConPlugins /\ s.up
    BY <1>3, <2>1 DEF ConTypes
  <2>3. PICK t : t = Unloaded(s, p)
    OBVIOUS
  <2>4. ConOK(t, L) /\ t.up = s.up
    BY <1>3, <2>2, <2>3, UnloadedKeeps
  <2>5. ConOK(cc', late') /\ cc'.up = s.up /\ running' \subseteq ConPlugins
    BY <1>2, <1>3, <2>1, <2>2, <2>3, <2>4
  <2>. QED
    BY <1>4, <2>2, <2>5
<1>7. CASE PluginRegisters
  <2>1. PICK p \in s.loaded \cup running, c \in DOMAIN Owner :
          /\ Owner[c] = p /\ (s.linked => c \notin Elements(s.chain))
          /\ cc' = RegisterConCommandBase(s, p, c)
          /\ late' = IF p \in s.loaded THEN late \ {c} ELSE late \cup {c}
          /\ running' = running
    BY <1>2, <1>7 DEF PluginRegisters
  <2>2. p \in ConPlugins /\ s.up
    BY <1>3, <2>1 DEF ConTypes
  <2>3. PICK t : t = RegisterConCommandBase(s, p, c)
    OBVIOUS
  <2>4. ConOK(t, IF p \in s.loaded THEN L \ {c} ELSE L \cup {c}) /\ t.up = s.up
    <3>1. CASE p \in s.loaded
      BY <1>3, <2>1, <2>3, <3>1, RegisterKeeps
    <3>2. CASE p \notin s.loaded
      BY <1>3, <2>1, <2>2, <2>3, <3>2, LateRegisterKeeps
    <3>. QED
      BY <3>1, <3>2
  <2>5. ConOK(cc', late') /\ cc'.up = s.up
    BY <1>2, <2>1, <2>3, <2>4
  <2>. QED
    BY <1>3, <1>4, <2>1, <2>2, <2>5
<1>8. CASE PluginUnregisters
  <2>1. PICK p \in s.loaded \cup running, c \in Elements(s.chain) :
          Owner[c] \in ConPlugins /\ cc' = UnregisterConCommandBase(s, p, c)
    BY <1>2, <1>8 DEF PluginUnregisters
  <2>2. c \in DOMAIN Owner /\ p \in ConPlugins /\ s.up
    BY <1>3, <2>1 DEF ConTypes, Elements
  <2>3. PICK t : t = UnregisterConCommandBase(s, p, c)
    OBVIOUS
  <2>4. ConOK(t, L) /\ t.up = s.up
    BY <1>3, <2>1, <2>2, <2>3, UnregisterKeeps
  <2>5. ConOK(cc', late') /\ cc'.up = s.up /\ running' = running
    BY <1>2, <1>8, <2>1, <2>3, <2>4 DEF PluginUnregisters
  <2>. QED
    BY <1>3, <1>4, <2>2, <2>5
<1>9. CASE Finds
  <2>1. PICK p \in s.listens, c \in Elements(s.chain) : cc' = [s EXCEPT !.known[p] = @ \cup {c}]
    BY <1>2, <1>9 DEF Finds
  <2>2. s.up
    BY <1>3, <2>1 DEF ConTypes
  <2>3. PICK t : t = FoundBy(s, p, c)
    OBVIOUS
  <2>4. ConOK(t, L) /\ t.up = s.up
    BY <1>3, <2>1, <2>3, FindKeeps
  <2>5. ConOK(cc', late') /\ cc'.up = s.up /\ running' = running
    BY <1>2, <1>9, <2>1, <2>3, <2>4 DEF FoundBy, Finds
  <2>. QED
    BY <1>3, <1>4, <2>2, <2>5
<1>10. CASE CodeEnds \/ UNCHANGED conVars
  <2>1. cc' = s /\ late' = late /\ running' \subseteq running
    BY <1>2, <1>10 DEF CodeEnds, conVars
  <2>2. /\ ConOK(cc', late') /\ running' \subseteq ConPlugins
        /\ ~cc'.up => cc'.m_RegisteredCommands = <<>> /\ cc'.loaded = {} /\ running' = {}
    BY <1>1, <1>2, <1>3, <2>1 DEF ConInv
  <2>. QED
    BY <2>2 DEF ConInv
<1>. QED
  BY <1>1, <1>5, <1>6, <1>7, <1>8, <1>9, <1>10, StartupKeeps, ShutdownKeeps DEF ConNext

\* The invariant is enough: whoever chained a command is there.
LEMMA ConInvHolds == ConInv => NoCommandStaysBehind
<1>1. SUFFICES ASSUME ConInv
               PROVE  NoCommandStaysBehind
  OBVIOUS
<1>2. /\ ConTypes(cc) /\ ConKept(cc, late)
      /\ ~cc.up => cc.m_RegisteredCommands = <<>> /\ cc.loaded = {}
  BY <1>1 DEF ConInv, ConOK
<1>3. \A c \in Elements(cc.m_RegisteredCommands) : Owner[c] = MetamodItself /\ cc.up
  BY <1>2, NothingInEmpty DEF ConKept
<1>4. \A p \in ConPlugins : \A c \in ListedBy(cc, p) : Owner[c] = p /\ p \in cc.loaded
  BY <1>2 DEF ConKept
<1>5. \A c : Chained(cc, late, c) => Alive(c) \/ c \in late
  BY <1>3, <1>4 DEF Chained, Alive
<1>6. \A c \in Elements(cc.chain) : Alive(c) \/ c \in late
  BY <1>2, <1>5 DEF ConKept
<1>7. \A c \in Elements(cc.m_RegisteredCommands) : Alive(c)
  BY <1>3 DEF Alive
<1>8. \A p \in ConPlugins : \A c \in Elements(cc.m_Cvars[p]) \cup Elements(cc.m_Cmds[p]) : Alive(c)
  BY <1>4 DEF Alive, ListedBy
<1>9. \A p \in cc.listens : \A c \in cc.known[p] : Alive(c) \/ c \in late
  BY <1>2, <1>6 DEF ConTypes, ConKept
<1>10. \A c \in OwnedBy(Engine) : c \in Elements(cc.chain)
  BY <1>2 DEF ConKept
<1>. QED
  BY <1>6, <1>7, <1>8, <1>9, <1>10 DEF NoCommandStaysBehind

\* No command stays behind when the code it is part of goes, but one that this
\* code registered when it had been unloaded: not in the engine's list and not in
\* a listener's pointer.  None at all stays in a list to be unregistered later,
\* and no command of the engine is lost (UnregAllConCmds, RemoveMetamodCommands).
THEOREM NoCommandStaysBehindAlways == ConSpec => []NoCommandStaysBehind
<1>1. ConInit => ConInv
  BY ConInitially
<1>2. ConInv /\ [ConNext]_conVars => ConInv'
  BY ConNextKeeps
<1>3. ConInv => NoCommandStaysBehind
  BY ConInvHolds
<1>. QED
  BY <1>1, <1>2, <1>3, PTL DEF ConSpec

-----------------------------------------------------------------------------
(* Code pages: Alignment *)

\* Quotient and remainder.
LEMMA DivMod ==
    ASSUME NEW a \in Int, NEW b \in Nat \ {0}
    PROVE  a = b * (a \div b) + (a % b) /\ a \div b \in Int /\ a % b \in 0..b - 1
OBVIOUS

\* The remainder of a multiple and something smaller.
LEMMA ModOf ==
    ASSUME NEW b \in Nat \ {0}, NEW q \in Int, NEW r \in 0..b - 1
    PROVE  (b * q + r) % b = r
<1>1. PICK a : a = b * q + r /\ a \in Int
  OBVIOUS
<1>2. a = b * (a \div b) + (a % b) /\ a \div b \in Int /\ a % b \in 0..b - 1
  BY <1>1, DivMod
<1>3. b * (q - (a \div b)) = (a % b) - r
  BY <1>1, <1>2
<1>4. PICK d \in Int : d = q - (a \div b)
  BY <1>2
<1>5. b * d \in -(b - 1)..b - 1
  BY <1>2, <1>3, <1>4
<1>6. d < 1
  BY <1>5
<1>7. d > -1
  BY <1>5
<1>8. d = 0
  BY <1>6, <1>7
<1>. QED
  BY <1>1, <1>2, <1>3, <1>4, <1>8

\* Padding is less than the alignment, and aligns.
LEMMA PaddingAligns ==
    ASSUME NEW begin \in Nat, NEW align \in Nat \ {0}
    PROVE  /\ Padding(begin, align) \in 0..align - 1
           /\ (begin + Padding(begin, align)) % align = 0
           /\ Padding(0, align) = 0
<1>1. PICK q, r : q = begin \div align /\ r = begin % align
  OBVIOUS
<1>2. q \in Int /\ r \in 0..align - 1 /\ begin = align * q + r
  BY <1>1, DivMod
<1>3. Padding(begin, align) = (align - r) % align
  BY <1>1 DEF Padding
<1>4. align % align = 0
  <2>1. align = align * 1 + 0 /\ 0 \in 0..align - 1
    OBVIOUS
  <2>. QED
    BY <2>1, ModOf
<1>5. ASSUME r = 0
      PROVE  Padding(begin, align) \in 0..align - 1 /\ (begin + Padding(begin, align)) % align = 0
  <2>1. Padding(begin, align) = 0
    BY <1>3, <1>4, <1>5
  <2>. QED
    BY <1>1, <1>5, <2>1
<1>6. ASSUME r # 0
      PROVE  Padding(begin, align) \in 0..align - 1 /\ (begin + Padding(begin, align)) % align = 0
  <2>1. align - r \in 0..align - 1 /\ align - r = align * 0 + (align - r)
    BY <1>2, <1>6
  <2>2. (align - r) % align = align - r
    BY <2>1, ModOf
  <2>3. begin + (align - r) = align * (q + 1) + 0
    BY <1>2
  <2>4. (align * (q + 1) + 0) % align = 0
    BY <1>2, ModOf
  <2>. QED
    BY <1>2, <1>3, <2>1, <2>2, <2>3, <2>4
<1>7. Padding(0, align) = 0
  <2>1. 0 % align = 0
    <3>1. 0 = align * 0 + 0
      OBVIOUS
    <3>. QED
      BY <3>1, ModOf
  <2>. QED
    BY <1>4, <2>1 DEF Padding
<1>. QED
  BY <1>5, <1>6, <1>7

\* Whole pages, enough for what is asked.
LEMMA RoundedUp ==
    ASSUME NEW size \in Nat \ {0}
    PROVE  RoundUp(size) \in Nat /\ RoundUp(size) >= size
<1>0. PageSize \in Nat \ {0}
  BY PagesAssumption
<1>1. PICK a, q : a = size + PageSize - 1 /\ q = a \div PageSize
  OBVIOUS
<1>2. a \in Int /\ q \in Int
  BY <1>0, <1>1, DivMod
<1>3. a = PageSize * q + (a % PageSize) /\ a % PageSize \in 0..PageSize - 1
  BY <1>0, <1>1, <1>2, DivMod
<1>4. RoundUp(size) = PageSize * q
  BY <1>1 DEF RoundUp
<1>5. PageSize * q >= size
  BY <1>0, <1>1, <1>2, <1>3
<1>. QED
  BY <1>0, <1>2, <1>4, <1>5

-----------------------------------------------------------------------------
(* Code pages: Regions and their units *)

\* The types of allocation units and regions.
Unit == [begin : Nat, size : Nat]
Region == [id : Nat \ {0}, size : Nat, units : SUBSET Unit, isRE : BOOLEAN]

\* The units of a region lie in it, overlap no other, and have room behind the
\* padding.
UnitsOK(r, align) ==
    /\ \A u \in r.units : u.begin + u.size <= r.size /\ Padding(u.begin, align) < u.size
    /\ \A u, w \in r.units : u # w => Apart(u, w)

RegionOK(r, align) == r \in Region /\ UnitsOK(r, align)

\* A region's fields,
LEMMA RegionFields ==
    ASSUME NEW r \in Region
    PROVE  r.id \in Nat \ {0} /\ r.size \in Nat /\ r.units \in SUBSET Unit /\ r.isRE \in BOOLEAN
BY DEF Region

\* and its units'.
LEMMA UnitFields ==
    ASSUME NEW r \in Region, NEW u \in r.units
    PROVE  u \in Unit /\ u.begin \in Nat /\ u.size \in Nat
BY RegionFields DEF Unit

\* A gap begins inside its region,
LEMMA EndsInside ==
    ASSUME NEW align, NEW r, RegionOK(r, align), NEW begin \in Ends(r)
    PROVE  begin \in Nat /\ begin <= r.size
<1>1. r \in Region /\ UnitsOK(r, align) /\ r.size \in Nat
  BY RegionFields DEF RegionOK
<1>2. ASSUME NEW u \in r.units
      PROVE  u.begin + u.size \in Nat /\ u.begin + u.size <= r.size
  BY <1>1, <1>2, UnitFields DEF UnitsOK
<1>. QED
  BY <1>1, <1>2 DEF Ends

\* the places where it may end include the end of the region,
LEMMA BeginsNat ==
    ASSUME NEW align, NEW r, RegionOK(r, align)
    PROVE  Begins(r) \subseteq Nat /\ r.size \in Begins(r)
<1>1. r \in Region /\ r.size \in Nat
  BY RegionFields DEF RegionOK
<1>. QED
  BY <1>1, UnitFields DEF Begins

\* and it ends at the next of them.
LEMMA GapEndIsNext ==
    ASSUME NEW align, NEW r, RegionOK(r, align), NEW begin \in Ends(r)
    PROVE  /\ GapEnd(r, begin) \in Begins(r) /\ GapEnd(r, begin) \in Nat /\ GapEnd(r, begin) >= begin
           /\ GapEnd(r, begin) <= r.size
           /\ \A b \in Begins(r) : b >= begin => GapEnd(r, begin) <= b
<1>1. begin \in Nat /\ begin <= r.size
  BY EndsInside
<1>2. Begins(r) \subseteq Nat /\ r.size \in Begins(r)
  BY BeginsNat
<1>3. PICK B, after : B = Begins(r) /\ after = {b \in B : b >= begin}
  OBVIOUS
<1>4. after \subseteq Nat /\ after # {}
  BY <1>1, <1>2, <1>3
<1>5. PICK n \in after : \A k \in after : n <= k
  BY <1>4, LeastNatural
<1>6. GapEnd(r, begin) = CHOOSE e \in after : \A b \in B : b >= begin => e <= b
  BY <1>3 DEF GapEnd
<1>7. \E e \in after : \A b \in B : b >= begin => e <= b
  BY <1>3, <1>5
<1>8. GapEnd(r, begin) \in after /\ \A b \in B : b >= begin => GapEnd(r, begin) <= b
  BY <1>6, <1>7
<1>. QED
  BY <1>1, <1>2, <1>3, <1>8

\* What it takes for a gap to fit.
LEMMA FittingIs ==
    ASSUME NEW r, NEW size, NEW align, NEW begin
    PROVE  begin \in Fitting(r, size, align)
             <=> begin \in Ends(r) /\ GapEnd(r, begin) - begin >= size + Padding(begin, align)
BY DEF Fitting

\* The smallest gap, and of several the first.
LEMMA CheckGapsFits ==
    ASSUME NEW align, NEW r, RegionOK(r, align), NEW size, Fitting(r, size, align) # {}
    PROVE  CheckGaps(r, size, align) \in Fitting(r, size, align)
<1>1. PICK F : F = Fitting(r, size, align)
  OBVIOUS
<1>2. ASSUME NEW b \in F
      PROVE  b \in Nat /\ GapEnd(r, b) - b \in Nat
  <2>1. b \in Ends(r)
    BY <1>1, <1>2, FittingIs
  <2>2. b \in Nat /\ GapEnd(r, b) \in Nat /\ GapEnd(r, b) >= b
    BY <2>1, EndsInside, GapEndIsNext
  <2>. QED
    BY <2>2
<1>3. PICK gaps : gaps = {GapEnd(r, b) - b : b \in F}
  OBVIOUS
<1>4. gaps \subseteq Nat /\ gaps # {}
  BY <1>1, <1>2, <1>3
<1>5. PICK g \in gaps : \A k \in gaps : g <= k
  BY <1>4, LeastNatural
<1>6. PICK ones : ones = {b \in F : GapEnd(r, b) - b = g}
  OBVIOUS
<1>7. ones \subseteq Nat /\ ones # {}
  BY <1>2, <1>3, <1>6
<1>8. PICK n \in ones : \A k \in ones : n <= k
  BY <1>7, LeastNatural
<1>9. ASSUME NEW other \in F
      PROVE  LET here == GapEnd(r, n) - n  there == GapEnd(r, other) - other
             IN here < there \/ (here = there /\ n <= other)
  <2>1. PICK here, there : here = GapEnd(r, n) - n /\ there = GapEnd(r, other) - other
    OBVIOUS
  <2>2. here = g /\ n \in F
    BY <1>6, <1>8, <2>1
  <2>3. g <= there /\ there \in Nat /\ here \in Nat
    BY <1>2, <1>3, <1>5, <1>9, <2>1, <2>2
  <2>4. here = there => n <= other
    BY <1>6, <1>8, <1>9, <2>1, <2>2
  <2>5. here < there \/ (here = there /\ n <= other)
    BY <2>2, <2>3, <2>4
  <2>. QED
    BY <2>1, <2>5
<1>10. n \in F
  BY <1>6, <1>8
<1>. DEFINE Best(b) == \A other \in F :
                         LET here == GapEnd(r, b) - b  there == GapEnd(r, other) - other
                         IN here < there \/ (here = there /\ b <= other)
<1>11. Best(n)
  BY <1>9
<1>12. CheckGaps(r, size, align) = CHOOSE b \in F : Best(b)
  BY <1>1 DEF CheckGaps
<1>. HIDE DEF Best
<1>13. CheckGaps(r, size, align) \in F
  BY <1>10, <1>11, <1>12
<1>. QED
  BY <1>1, <1>13

\* What a unit that is taken holds.
TakenUnit(begin, size, align) == [begin |-> begin, size |-> size + Padding(begin, align)]

\* A unit that is taken overlaps no other.
LEMMA TryAllocTakes ==
    ASSUME NEW align \in Nat \ {0}, NEW r, RegionOK(r, align), NEW size \in Nat \ {0},
           Fitting(r, size, align) # {},
           NEW u, u = TakenUnit(CheckGaps(r, size, align), size, align),
           NEW t, t = TryAlloc(r, size, align)
    PROVE  /\ RegionOK(t, align) /\ t.id = r.id /\ t.isRE = r.isRE /\ t.units = r.units \cup {u}
           /\ u \in Unit /\ u.size = size + Padding(u.begin, align)
           /\ TryAllocAt(r, size, align) = u.begin + Padding(u.begin, align)
           /\ \A w \in r.units : Apart(w, u) /\ w # u
<1>1. PICK begin, padding : begin = CheckGaps(r, size, align) /\ padding = Padding(begin, align)
  OBVIOUS
<1>2. begin \in Ends(r) /\ GapEnd(r, begin) - begin >= size + padding
  BY <1>1, CheckGapsFits, FittingIs
<1>3. begin \in Nat
  BY <1>2, EndsInside
<1>4. padding \in Nat
  BY <1>1, <1>3, PaddingAligns
<1>5. PICK last : last = GapEnd(r, begin)
  OBVIOUS
<1>6. /\ last \in Nat /\ last <= r.size /\ r.size \in Nat
      /\ \A b \in Begins(r) : b >= begin => last <= b
  <2>1. r.size \in Nat
    BY RegionFields DEF RegionOK
  <2>. QED
    BY <1>2, <1>5, <2>1, GapEndIsNext
<1>7. u.begin = begin /\ u.size = size + padding /\ u \in Unit
  BY <1>1, <1>3, <1>4 DEF TakenUnit, Unit
<1>8. begin + u.size <= last
  BY <1>2, <1>3, <1>4, <1>5, <1>6, <1>7
<1>9. ASSUME NEW w \in r.units
      PROVE  Apart(w, u) /\ w # u
  <2>1. w.begin \in Nat /\ w.size \in Nat
    BY UnitFields DEF RegionOK
  <2>2. CASE w.begin >= begin
    <3>1. w.begin \in Begins(r)
      BY DEF Begins
    <3>2. last <= w.begin
      BY <1>6, <2>2, <3>1
    <3>3. u.begin + u.size <= w.begin /\ u.size > 0
      BY <1>3, <1>4, <1>6, <1>7, <1>8, <2>1, <3>2
    <3>. QED
      BY <1>3, <1>7, <2>1, <3>3 DEF Apart
  <2>3. CASE w.begin < begin
    <3>1. PICK v \in r.units : begin = v.begin + v.size
      BY <1>2, <2>1, <2>3 DEF Ends
    <3>2. v.begin \in Nat /\ v.size \in Nat
      BY UnitFields DEF RegionOK
    <3>3. v = w \/ Apart(v, w)
      BY DEF RegionOK, UnitsOK
    <3>4. w.begin + w.size <= begin
      BY <2>1, <2>3, <3>1, <3>2, <3>3 DEF Apart
    <3>. QED
      BY <1>3, <1>7, <2>1, <2>3, <3>4 DEF Apart
  <2>. QED
    BY <1>3, <2>1, <2>2, <2>3
<1>10. PICK units : units = r.units \cup {u}
  OBVIOUS
<1>11. t = [r EXCEPT !.units = units]
  BY <1>1, <1>10 DEF TryAlloc, TakenUnit
<1>12. r \in Region /\ UnitsOK(r, align)
  BY DEF RegionOK
<1>13. units \in SUBSET Unit
  BY <1>7, <1>10, <1>12, RegionFields
<1>14. /\ t \in Region /\ t.id = r.id /\ t.size = r.size /\ t.isRE = r.isRE /\ t.units = units
  BY <1>11, <1>12, <1>13 DEF Region
<1>15. UnitsOK(t, align)
  <2>1. ASSUME NEW w \in t.units
        PROVE  w.begin + w.size <= t.size /\ Padding(w.begin, align) < w.size
    <3>1. CASE w = u
      <4>1. u.begin + u.size <= r.size
        BY <1>3, <1>4, <1>6, <1>7, <1>8
      <4>2. padding < u.size
        BY <1>4, <1>7
      <4>. QED
        BY <1>1, <1>7, <1>14, <3>1, <4>1, <4>2
    <3>2. CASE w \in r.units
      BY <1>12, <1>14, <3>2 DEF UnitsOK
    <3>. QED
      BY <1>10, <1>14, <2>1, <3>1, <3>2
  <2>2. ASSUME NEW v \in t.units, NEW w \in t.units, v # w
        PROVE  Apart(v, w)
    <3>1. CASE v \in r.units /\ w \in r.units
      BY <1>12, <2>2, <3>1 DEF UnitsOK
    <3>2. CASE v \in r.units /\ w = u
      BY <1>9, <3>2
    <3>3. CASE v = u /\ w \in r.units
      BY <1>9, <3>3 DEF Apart
    <3>. QED
      BY <1>10, <1>14, <2>2, <3>1, <3>2, <3>3
  <2>. QED
    BY <2>1, <2>2 DEF UnitsOK
<1>16. TryAllocAt(r, size, align) = u.begin + Padding(u.begin, align)
  BY <1>1, <1>7 DEF TryAllocAt
<1>. QED
  BY <1>1, <1>7, <1>9, <1>10, <1>14, <1>15, <1>16 DEF RegionOK

\* No two units have one pointer.
LEMMA PointsAtOne ==
    ASSUME NEW align \in Nat \ {0}, NEW r, RegionOK(r, align), NEW u \in r.units, NEW w \in r.units,
           u.begin + Padding(u.begin, align) = w.begin + Padding(w.begin, align)
    PROVE  u = w
<1>1. u \in Unit /\ u.begin \in Nat /\ u.size \in Nat /\ w \in Unit /\ w.begin \in Nat /\ w.size \in Nat
  BY UnitFields DEF RegionOK
<1>2. PICK pu, pw : pu = Padding(u.begin, align) /\ pw = Padding(w.begin, align)
  OBVIOUS
<1>3. pu \in Nat /\ pw \in Nat /\ pu < u.size /\ pw < w.size
  <2>1. pu < u.size /\ pw < w.size
    BY <1>2 DEF RegionOK, UnitsOK
  <2>2. pu \in 0..align - 1 /\ pw \in 0..align - 1
    BY <1>1, <1>2, PaddingAligns
  <2>. QED
    BY <2>1, <2>2
<1>4. u.begin + pu = w.begin + pw
  BY <1>2
<1>5. ~Apart(u, w)
  BY <1>1, <1>3, <1>4 DEF Apart
<1>. QED
  BY <1>5 DEF RegionOK, UnitsOK

-----------------------------------------------------------------------------
(* Code pages: Lists of regions *)

\* A list of regions: each has an address of its own and sound units.
PagesOK(rs, align) ==
    /\ rs \in Seq(Region)
    /\ \A j, k \in DOMAIN rs : rs[j].id = rs[k].id => j = k
    /\ \A k \in DOMAIN rs : UnitsOK(rs[k], align)

\* The regions whose code cannot be executed now.
Writable(rs) == {rs[k].id : k \in {j \in DOMAIN rs : ~rs[j].isRE}}

\* The pointer is that of a unit that was allocated for so many bytes.
HeldIn(r, ptr, size, align) ==
    \E u \in r.units : /\ ptr = <<r.id, u.begin + Padding(u.begin, align)>>
                       /\ u.size = size + Padding(u.begin, align)
Holds(rs, ptr, size, align) == \E k \in DOMAIN rs : HeldIn(rs[k], ptr, size, align)

\* Each region of a list is sound.
LEMMA RegionsOK ==
    ASSUME NEW rs, NEW align, PagesOK(rs, align)
    PROVE  \A k \in DOMAIN rs : RegionOK(rs[k], align) /\ rs[k] \in Region
BY DEF PagesOK, RegionOK

\* The first of some positions is one of them.
LEMMA LowestIs ==
    ASSUME NEW positions, positions \subseteq Nat \ {0}
    PROVE  /\ Lowest(positions) = 0 => positions = {}
           /\ positions = {} => Lowest(positions) = 0
           /\ positions # {} => Lowest(positions) \in positions
<1>1. CASE positions = {}
  BY <1>1 DEF Lowest
<1>2. CASE positions # {}
  <2>1. positions \subseteq Nat
    OBVIOUS
  <2>2. \E k \in positions : \A j \in positions : k <= j
    BY <1>2, <2>1, LeastNatural
  <2>3. Lowest(positions) = CHOOSE k \in positions : \A j \in positions : k <= j
    BY <1>2 DEF Lowest
  <2>4. Lowest(positions) \in positions
    BY <2>2, <2>3
  <2>. QED
    BY <1>2, <2>4
<1>. QED
  BY <1>1, <1>2

\* A pointer names its region.
LEMMA HeldBits ==
    ASSUME NEW r, NEW ptr, NEW size, NEW align, HeldIn(r, ptr, size, align)
    PROVE  ptr[1] = r.id
BY DEF HeldIn

\* Of one more address than there are regions one is free.
OneIsFree(n, ids) == \E i \in 1..n + 1 : \A k \in 1..n : ids[k] # i

\* So there is an address for a new region.
LEMMA NewIdExists ==
    ASSUME NEW n \in Nat, NEW ids
    PROVE  OneIsFree(n, ids)
<1>. USE DEF OneIsFree
<1>1. SUFFICES ASSUME \A i \in 1..n + 1 : \E k \in 1..n : ids[k] = i
               PROVE  FALSE
  OBVIOUS
<1>2. PICK f : f = [i \in 1..n + 1 |-> CHOOSE k \in 1..n : ids[k] = i]
  OBVIOUS
<1>3. ASSUME NEW i \in 1..n + 1
      PROVE  f[i] \in 1..n /\ ids[f[i]] = i
  BY <1>1, <1>2
<1>4. PICK S, T : S = 1..n + 1 /\ T = 1..n
  OBVIOUS
<1>5. IsFiniteSet(S) /\ Cardinality(S) = n + 1 /\ IsFiniteSet(T) /\ Cardinality(T) = n
  BY <1>4, FS_Interval
<1>6. f \in [S -> T]
  BY <1>2, <1>3, <1>4
<1>7. Cardinality(T) < Cardinality(S)
  BY <1>5
<1>8. PICK x, y \in S : x # y /\ f[x] = f[y]
  BY <1>5, <1>6, <1>7, FS_PigeonHole
<1>. QED
  BY <1>3, <1>4, <1>8

\* A new region has an address of its own and one gap, with room for what is asked.
LEMMA NewRegionIs ==
    ASSUME NEW align \in Nat \ {0}, NEW rs, PagesOK(rs, align), NEW size \in Nat \ {0},
           NEW r, r = NewRegion(rs, size)
    PROVE  /\ RegionOK(r, align) /\ \A k \in DOMAIN rs : rs[k].id # r.id
           /\ r.units = {} /\ Fitting(r, size, align) # {}
<1>1. PICK n : n = Len(rs) /\ n \in Nat /\ DOMAIN rs = 1..n
  BY DEF PagesOK
<1>2. PICK i, whole : /\ i = CHOOSE j \in 1..n + 1 : \A k \in DOMAIN rs : rs[k].id # j
                      /\ whole = RoundUp(size)
  OBVIOUS
<1>3. i \in 1..n + 1 /\ \A k \in DOMAIN rs : rs[k].id # i
  <2>1. PICK ids : ids = [k \in 1..n |-> rs[k].id]
    OBVIOUS
  <2>2. OneIsFree(n, ids)
    BY <1>1, NewIdExists
  <2>3. \E j \in 1..n + 1 : \A k \in DOMAIN rs : rs[k].id # j
    BY <1>1, <2>1, <2>2 DEF OneIsFree
  <2>. QED
    BY <1>2, <2>3
<1>4. whole \in Nat /\ whole >= size
  BY <1>2, RoundedUp
<1>5. r = [id |-> i, size |-> whole, units |-> {}, isRE |-> FALSE]
  BY <1>1, <1>2 DEF NewRegion
<1>6. /\ r \in Region /\ r.id = i /\ r.size = whole /\ r.units = {}
  BY <1>1, <1>3, <1>4, <1>5 DEF Region
<1>7. RegionOK(r, align)
  BY <1>6 DEF RegionOK, UnitsOK
<1>8. Ends(r) = {0} /\ Begins(r) = {whole}
  BY <1>6 DEF Ends, Begins
<1>9. GapEnd(r, 0) = whole
  <2>1. 0 \in Ends(r)
    BY <1>8
  <2>2. GapEnd(r, 0) \in Begins(r)
    BY <1>7, <2>1, GapEndIsNext
  <2>. QED
    BY <1>8, <2>2
<1>10. 0 \in Fitting(r, size, align)
  <2>1. Padding(0, align) = 0
    BY PaddingAligns
  <2>2. GapEnd(r, 0) - 0 >= size + Padding(0, align)
    BY <1>4, <1>9, <2>1
  <2>. QED
    BY <1>8, <2>2, FittingIs
<1>. QED
  BY <1>3, <1>6, <1>7, <1>10

-----------------------------------------------------------------------------
(* Code pages: Alloc *)

\* Two ways to change a list of regions, and what each does.
WithRegion(rs, k, r) == [rs EXCEPT ![k] = r]
WithOneMore(rs, r) == Append(rs, r)

OneReplaced(rs, t, k, r) ==
    /\ DOMAIN t = DOMAIN rs /\ t[k] = r
    /\ \A j \in DOMAIN rs : j # k => t[j] = rs[j]
OneAdded(rs, t, n, r) ==
    /\ DOMAIN t = DOMAIN rs \cup {n + 1} /\ t[n + 1] = r
    /\ \A j \in DOMAIN rs : t[j] = rs[j]

\* A region is replaced by one at the same address,
LEMMA RegionReplaced ==
    ASSUME NEW align, NEW rs, PagesOK(rs, align), NEW k \in DOMAIN rs, NEW r, RegionOK(r, align),
           r.id = rs[k].id, NEW t, t = WithRegion(rs, k, r)
    PROVE  PagesOK(t, align) /\ OneReplaced(rs, t, k, r)
<1>1. rs \in Seq(Region) /\ r \in Region
  BY DEF PagesOK, RegionOK
<1>2. t \in Seq(Region) /\ DOMAIN t = DOMAIN rs
  BY <1>1 DEF WithRegion
<1>3. t[k] = r /\ \A j \in DOMAIN rs : j # k => t[j] = rs[j]
  BY <1>1 DEF WithRegion
<1>4. \A j \in DOMAIN rs : t[j].id = rs[j].id /\ UnitsOK(t[j], align)
  BY <1>3 DEF PagesOK, RegionOK
<1>. QED
  BY <1>2, <1>3, <1>4 DEF PagesOK, OneReplaced

\* or one is added at the end.
LEMMA RegionAdded ==
    ASSUME NEW align, NEW rs, PagesOK(rs, align), NEW r, RegionOK(r, align),
           \A k \in DOMAIN rs : rs[k].id # r.id, NEW t, t = WithOneMore(rs, r)
    PROVE  PagesOK(t, align) /\ OneAdded(rs, t, Len(rs), r) /\ Len(t) = Len(rs) + 1
<1>1. rs \in Seq(Region) /\ r \in Region
  BY DEF PagesOK, RegionOK
<1>2. PICK n : n = Len(rs) /\ n \in Nat /\ DOMAIN rs = 1..n
  BY <1>1
<1>3. /\ t \in Seq(Region) /\ DOMAIN t = 1..n + 1 /\ t[n + 1] = r
      /\ \A j \in 1..n : t[j] = rs[j]
      /\ Len(t) = n + 1
  BY <1>1, <1>2 DEF WithOneMore
<1>4. DOMAIN t = 1..n \cup {n + 1}
  BY <1>2, <1>3
<1>5. \A j \in 1..n : UnitsOK(t[j], align)
  BY <1>2, <1>3 DEF PagesOK
<1>6. \A k \in DOMAIN t : UnitsOK(t[k], align)
  BY <1>3, <1>4, <1>5 DEF RegionOK
<1>7. ASSUME NEW j \in DOMAIN t, NEW k \in DOMAIN t, t[j].id = t[k].id
      PROVE  j = k
  BY <1>2, <1>3, <1>4, <1>7 DEF PagesOK
<1>8. PagesOK(t, align)
  BY <1>3, <1>6, <1>7 DEF PagesOK
<1>. QED
  BY <1>2, <1>3, <1>4, <1>8 DEF OneAdded

\* What an allocation of size bytes gives: a unit of its own for the new pointer, and
\* whoever had one keeps it.
Allocated(rs, t, ptr, size, align) ==
    /\ PagesOK(t, align) /\ Holds(t, ptr, size, align)
    /\ ptr \in Nat \X Nat /\ ptr # Null
    /\ \A other, n : Holds(rs, other, n, align) => Holds(t, other, n, align) /\ other # ptr
    /\ Writable(t) \subseteq Writable(rs) \cup {ptr[1]}

\* A unit is taken in a region with room.
LEMMA UnitTaken ==
    ASSUME NEW align \in Nat \ {0}, NEW rs, PagesOK(rs, align), NEW i \in DOMAIN rs, NEW size \in Nat \ {0},
           Fitting(rs[i], size, align) # {},
           NEW t, t = [rs EXCEPT ![i] = TryAlloc(@, size, align)],
           NEW ptr, ptr = <<rs[i].id, TryAllocAt(rs[i], size, align)>>
    PROVE  Allocated(rs, t, ptr, size, align)
<1>1. PICK r, u, v : /\ r = rs[i] /\ u = TakenUnit(CheckGaps(r, size, align), size, align)
                     /\ v = TryAlloc(r, size, align)
  OBVIOUS
<1>2. RegionOK(r, align)
  BY <1>1, RegionsOK
<1>3. /\ RegionOK(v, align) /\ v.id = r.id /\ v.isRE = r.isRE /\ v.units = r.units \cup {u}
      /\ u \in Unit /\ u.size = size + Padding(u.begin, align)
      /\ TryAllocAt(r, size, align) = u.begin + Padding(u.begin, align)
      /\ \A w \in r.units : Apart(w, u) /\ w # u
  BY <1>1, <1>2, TryAllocTakes
<1>4. t = WithRegion(rs, i, v)
  BY <1>1 DEF WithRegion
<1>5. /\ PagesOK(t, align) /\ DOMAIN t = DOMAIN rs /\ t[i] = v
      /\ \A j \in DOMAIN rs : j # i => t[j] = rs[j]
  <2>1. v.id = rs[i].id
    BY <1>1, <1>3
  <2>2. PagesOK(t, align) /\ OneReplaced(rs, t, i, v)
    BY <1>3, <1>4, <2>1, RegionReplaced
  <2>. QED
    BY <2>2 DEF OneReplaced
<1>6. PICK at : at = u.begin + Padding(u.begin, align)
  OBVIOUS
<1>7. ptr = <<r.id, at>> /\ r.id \in Nat \ {0} /\ at \in Nat
  <2>1. r.id \in Nat \ {0}
    BY <1>2, RegionFields DEF RegionOK
  <2>2. u.begin \in Nat
    BY <1>3 DEF Unit
  <2>3. Padding(u.begin, align) \in 0..align - 1
    BY <2>2, PaddingAligns
  <2>. QED
    BY <1>1, <1>3, <1>6, <2>1, <2>2, <2>3
<1>8. ptr \in Nat \X Nat /\ ptr # Null /\ ptr[1] = r.id
  BY <1>7 DEF Null
<1>9. HeldIn(v, ptr, size, align)
  BY <1>3, <1>6, <1>7 DEF HeldIn
<1>10. Holds(t, ptr, size, align)
  BY <1>5, <1>9 DEF Holds
<1>11. ASSUME NEW other, NEW n, Holds(rs, other, n, align)
       PROVE  Holds(t, other, n, align) /\ other # ptr
  <2>1. PICK j \in DOMAIN rs : HeldIn(rs[j], other, n, align)
    BY <1>11 DEF Holds
  <2>2. CASE j = i
    <3>1. PICK w \in r.units : /\ other = <<r.id, w.begin + Padding(w.begin, align)>>
                               /\ w.size = n + Padding(w.begin, align)
      BY <1>1, <2>1, <2>2 DEF HeldIn
    <3>2. w \in v.units /\ u \in v.units /\ w # u
      BY <1>3, <3>1
    <3>3. HeldIn(v, other, n, align)
      BY <1>3, <3>1, <3>2 DEF HeldIn
    <3>4. w.begin + Padding(w.begin, align) # at
      BY <1>3, <1>6, <3>2, PointsAtOne
    <3>5. other # ptr
      BY <1>7, <3>1, <3>4
    <3>. QED
      BY <1>5, <3>3, <3>5 DEF Holds
  <2>3. CASE j # i
    <3>1. Holds(t, other, n, align)
      BY <1>5, <2>1, <2>3 DEF Holds
    <3>2. other[1] = rs[j].id /\ rs[j].id # rs[i].id
      BY <2>1, <2>3, HeldBits DEF PagesOK
    <3>. QED
      BY <1>1, <1>8, <3>1, <3>2
  <2>. QED
    BY <2>2, <2>3
<1>12. Writable(t) \subseteq Writable(rs) \cup {ptr[1]}
  BY <1>1, <1>3, <1>5, <1>8 DEF Writable
<1>. QED
  BY <1>5, <1>8, <1>10, <1>11, <1>12 DEF Allocated

\* CPageAlloc::Alloc, in a region that has room or in a new one.
LEMMA AllocGives ==
    ASSUME NEW align \in Nat \ {0}, NEW rs, PagesOK(rs, align), NEW size \in Nat \ {0},
           NEW a, a = Alloc(rs, size, align)
    PROVE  Allocated(rs, a.regions, a.ptr, size, align)
<1>1. PICK k : k = Roomy(rs, size, align)
  OBVIOUS
<1>2. PICK n : n = Len(rs) /\ n \in Nat /\ DOMAIN rs = 1..n
  BY DEF PagesOK
<1>3. /\ k # 0 => k \in DOMAIN rs /\ Fitting(rs[k], size, align) # {}
      /\ k = 0 => \A j \in DOMAIN rs : Fitting(rs[j], size, align) = {}
  <2>1. PICK positions : positions = {j \in DOMAIN rs : Fitting(rs[j], size, align) # {}}
    OBVIOUS
  <2>2. positions \subseteq Nat \ {0}
    BY <1>2, <2>1
  <2>3. k = Lowest(positions)
    BY <1>1, <2>1 DEF Roomy
  <2>. QED
    BY <2>1, <2>2, <2>3, LowestIs
<1>4. PICK r, more : r = NewRegion(rs, size) /\ more = WithOneMore(rs, r)
  OBVIOUS
<1>5. CASE k = 0
  <2>1. /\ RegionOK(r, align) /\ \A j \in DOMAIN rs : rs[j].id # r.id
        /\ r.units = {} /\ Fitting(r, size, align) # {}
    BY <1>4, NewRegionIs
  <2>2. /\ PagesOK(more, align) /\ DOMAIN more = DOMAIN rs \cup {n + 1} /\ more[n + 1] = r
        /\ \A j \in DOMAIN rs : more[j] = rs[j]
        /\ Len(more) = n + 1
    <3>1. PagesOK(more, align) /\ OneAdded(rs, more, Len(rs), r) /\ Len(more) = Len(rs) + 1
      BY <1>4, <2>1, RegionAdded
    <3>. QED
      BY <1>2, <3>1 DEF OneAdded
  <2>3. PICK t, ptr : /\ t = [more EXCEPT ![n + 1] = TryAlloc(@, size, align)]
                      /\ ptr = <<more[n + 1].id, TryAllocAt(more[n + 1], size, align)>>
    OBVIOUS
  <2>4. a = [regions |-> t, ptr |-> ptr]
    BY <1>1, <1>4, <1>5, <2>2, <2>3 DEF Alloc, WithOneMore
  <2>5. Allocated(more, t, ptr, size, align)
    <3>1. n + 1 \in DOMAIN more /\ Fitting(more[n + 1], size, align) # {}
      BY <2>1, <2>2
    <3>. QED
      BY <2>2, <2>3, <3>1, UnitTaken
  <2>6. \A other, m : Holds(rs, other, m, align) => Holds(more, other, m, align)
    BY <2>2 DEF Holds
  <2>7. Writable(more) \subseteq Writable(rs) \cup {r.id}
    BY <2>2 DEF Writable
  <2>8. r.id = ptr[1]
    BY <2>2, <2>3
  <2>9. Allocated(rs, t, ptr, size, align)
    BY <2>5, <2>6, <2>7, <2>8 DEF Allocated
  <2>. QED
    BY <2>4, <2>9
<1>6. CASE k # 0
  <2>1. PICK t, ptr : /\ t = [rs EXCEPT ![k] = TryAlloc(@, size, align)]
                      /\ ptr = <<rs[k].id, TryAllocAt(rs[k], size, align)>>
    OBVIOUS
  <2>2. a = [regions |-> t, ptr |-> ptr]
    BY <1>1, <1>6, <2>1 DEF Alloc
  <2>3. Allocated(rs, t, ptr, size, align)
    BY <1>3, <1>6, <2>1, UnitTaken
  <2>. QED
    BY <2>2, <2>3
<1>. QED
  BY <1>5, <1>6

-----------------------------------------------------------------------------
(* Code pages: Free and SetAccess *)

\* Which of the regions a pointer is in.
LEMMA IndexOfIs ==
    ASSUME NEW align, NEW rs, PagesOK(rs, align), NEW ptr, NEW k \in DOMAIN rs, ptr[1] = rs[k].id
    PROVE  IndexOf(rs, ptr) = k
<1>1. PICK positions : positions = {j \in DOMAIN rs : rs[j].id = ptr[1]}
  OBVIOUS
<1>2. positions \subseteq Nat \ {0} /\ positions = {k}
  BY <1>1 DEF PagesOK
<1>3. IndexOf(rs, ptr) = Lowest(positions)
  BY <1>1 DEF IndexOf
<1>4. Lowest(positions) \in positions
  BY <1>2, LowestIs
<1>. QED
  BY <1>2, <1>3, <1>4

\* What may be left of what is freed or protected: who had a unit keeps it.
Kept(rs, t, gone, align) ==
    /\ PagesOK(t, align)
    /\ \A other, n : Holds(rs, other, n, align) /\ other # gone => Holds(t, other, n, align)

\* The elements of t are elements of s, in the same order.
InOrder(s, t) ==
    \A i, j \in DOMAIN t : i < j => \E a, b \in DOMAIN s : a < b /\ t[i] = s[a] /\ t[j] = s[b]

\* What is left when some elements are erased, in this form.
LEMMA WithoutInOrder ==
    ASSUME NEW S, NEW s \in Seq(S), NEW M
    PROVE  Without(s, M) \in Seq(S) /\ Elements(Without(s, M)) = Elements(s) \ M /\ InOrder(s, Without(s, M))
BY WithoutIsSublist DEF InOrder

\* A part of a list of regions is one, too.
LEMMA DifferInOrder ==
    ASSUME NEW align, NEW rs, PagesOK(rs, align), NEW t, t \in Seq(Region), InOrder(rs, t),
           Elements(t) \subseteq Elements(rs)
    PROVE  PagesOK(t, align)
<1>4. DOMAIN t \subseteq Nat /\ DOMAIN rs \subseteq Nat
  <2>1. \A s : s \in Seq(Region) => DOMAIN s \subseteq Nat
    OBVIOUS
  <2>2. rs \in Seq(Region)
    BY DEF PagesOK
  <2>. QED
    BY <2>1, <2>2
<1>5. ASSUME NEW i \in DOMAIN t, NEW j \in DOMAIN t, i < j
      PROVE  t[i].id # t[j].id
  <2>1. PICK a, b \in DOMAIN rs : a < b /\ t[i] = rs[a] /\ t[j] = rs[b]
    BY <1>5 DEF InOrder
  <2>2. a # b
    BY <1>4, <2>1
  <2>. QED
    BY <2>1, <2>2 DEF PagesOK
<1>6. ASSUME NEW i \in DOMAIN t, NEW j \in DOMAIN t, t[i].id = t[j].id
      PROVE  i = j
  <2>1. i \in Nat /\ j \in Nat
    BY <1>4
  <2>2. ~(i < j) /\ ~(j < i)
    BY <1>5, <1>6
  <2>. QED
    BY <2>1, <2>2
<1>7. ASSUME NEW i \in DOMAIN t
      PROVE  UnitsOK(t[i], align)
  <2>1. t[i] \in Elements(rs)
    BY DEF Elements
  <2>2. PICK a \in DOMAIN rs : t[i] = rs[a]
    BY <2>1 DEF Elements
  <2>. QED
    BY <2>2 DEF PagesOK
<1>. QED
  BY <1>6, <1>7 DEF PagesOK

\* Regions are dropped.
LEMMA RegionDropped ==
    ASSUME NEW align, NEW rs, PagesOK(rs, align), NEW M, NEW t, t = Without(rs, M)
    PROVE  PagesOK(t, align) /\ Elements(t) = Elements(rs) \ M
<1>1. rs \in Seq(Region)
  BY DEF PagesOK
<1>2. t \in Seq(Region) /\ Elements(t) = Elements(rs) \ M /\ InOrder(rs, t)
  BY <1>1, WithoutInOrder
<1>. QED
  BY <1>2, DifferInOrder

\* CPageAlloc::Free: all but the freed pointer keep their units.
LEMMA FreeLeaves ==
    ASSUME NEW align \in Nat \ {0}, NEW rs, PagesOK(rs, align), NEW ptr, NEW size,
           ptr # Null => Holds(rs, ptr, size, align), NEW t, t = Free(rs, ptr, align)
    PROVE  Kept(rs, t, ptr, align) /\ Writable(t) \subseteq Writable(rs)
<1>1. CASE ptr = Null
  <2>1. t = rs
    BY <1>1 DEF Free
  <2>. QED
    BY <2>1 DEF Kept
<1>2. CASE ptr # Null
  <2>1. PICK k \in DOMAIN rs : HeldIn(rs[k], ptr, size, align)
    BY <1>2 DEF Holds
  <2>2. PICK r : r = rs[k] /\ RegionOK(r, align)
    BY RegionsOK
  <2>3. ptr[1] = r.id /\ IndexOf(rs, ptr) = k
    <3>1. ptr[1] = rs[k].id
      BY <2>1, HeldBits
    <3>. QED
      BY <2>2, <3>1, IndexOfIs
  <2>4. PICK units, left : units = r.units \ UnitsAt(r, ptr, align) /\ left = [r EXCEPT !.units = units]
    OBVIOUS
  <2>5. r \in Region /\ UnitsOK(r, align) /\ units \in SUBSET Unit
    BY <2>2, <2>4, RegionFields DEF RegionOK
  <2>6. /\ left \in Region /\ left.id = r.id /\ left.size = r.size /\ left.isRE = r.isRE
        /\ left.units = units
    BY <2>4, <2>5 DEF Region
  <2>7. RegionOK(left, align)
    BY <2>4, <2>5, <2>6 DEF RegionOK, UnitsOK
  <2>8. t = IF units = {} THEN Without(rs, {r}) ELSE WithRegion(rs, k, left)
    BY <1>2, <2>2, <2>3, <2>4, <2>6 DEF Free, WithRegion
  <2>9. ASSUME NEW other, NEW n, HeldIn(r, other, n, align), other # ptr
        PROVE  HeldIn(left, other, n, align)
    <3>1. PICK u \in r.units : /\ other = <<r.id, u.begin + Padding(u.begin, align)>>
                               /\ u.size = n + Padding(u.begin, align)
      BY <2>9 DEF HeldIn
    <3>2. PICK at : ptr = <<r.id, at>>
      BY <2>1, <2>2 DEF HeldIn
    <3>3. ptr[2] = at /\ u.begin + Padding(u.begin, align) # at
      BY <2>9, <3>1, <3>2
    <3>4. u \in units
      BY <2>4, <3>3 DEF UnitsAt
    <3>. QED
      BY <2>6, <3>1, <3>4 DEF HeldIn
  <2>10. CASE units = {}
    <3>1. PagesOK(t, align) /\ Elements(t) = Elements(rs) \ {r}
      BY <2>2, <2>8, <2>10, RegionDropped
    <3>2. ASSUME NEW other, NEW n, Holds(rs, other, n, align), other # ptr
          PROVE  Holds(t, other, n, align)
      <4>1. PICK j \in DOMAIN rs : HeldIn(rs[j], other, n, align)
        BY <3>2 DEF Holds
      <4>2. rs[j] # r
        BY <2>6, <2>9, <2>10, <3>2, <4>1 DEF HeldIn
      <4>3. rs[j] \in Elements(t)
        BY <3>1, <4>2 DEF Elements
      <4>4. PICK i \in DOMAIN t : t[i] = rs[j]
        BY <4>3 DEF Elements
      <4>. QED
        BY <4>1, <4>4 DEF Holds
    <3>3. Writable(t) \subseteq Writable(rs)
      BY <3>1 DEF Writable, Elements
    <3>. QED
      BY <3>1, <3>2, <3>3 DEF Kept
  <2>11. CASE units # {}
    <3>1. t = WithRegion(rs, k, left) /\ left.id = rs[k].id
      BY <2>2, <2>6, <2>8, <2>11
    <3>2. PagesOK(t, align) /\ OneReplaced(rs, t, k, left)
      BY <2>7, <3>1, RegionReplaced
    <3>3. ASSUME NEW other, NEW n, Holds(rs, other, n, align), other # ptr
          PROVE  Holds(t, other, n, align)
      <4>1. PICK j \in DOMAIN rs : HeldIn(rs[j], other, n, align)
        BY <3>3 DEF Holds
      <4>2. HeldIn(t[j], other, n, align) /\ j \in DOMAIN t
        BY <2>2, <2>9, <3>2, <3>3, <4>1 DEF OneReplaced
      <4>. QED
        BY <4>2 DEF Holds
    <3>4. Writable(t) \subseteq Writable(rs)
      BY <2>2, <2>6, <3>2 DEF Writable, OneReplaced
    <3>. QED
      BY <3>2, <3>3, <3>4 DEF Kept
  <2>. QED
    BY <2>10, <2>11
<1>. QED
  BY <1>1, <1>2

\* SetRE and SetRW change the protection of one region.
LEMMA SetAccessSets ==
    ASSUME NEW align, NEW rs, PagesOK(rs, align), NEW ptr, NEW size,
           ptr # Null => Holds(rs, ptr, size, align), NEW b \in BOOLEAN, NEW t, t = SetAccess(rs, ptr, b)
    PROVE  /\ PagesOK(t, align)
           /\ \A other, n : Holds(rs, other, n, align) => Holds(t, other, n, align)
           /\ b => Writable(t) \subseteq Writable(rs) \ {ptr[1]}
           /\ Writable(t) \subseteq Writable(rs) \cup {ptr[1]}
<1>1. CASE ptr = Null
  <2>1. t = rs
    BY <1>1 DEF SetAccess
  <2>2. ptr[1] = 0
    BY <1>1 DEF Null
  <2>3. \A k \in DOMAIN rs : rs[k].id # 0
    BY RegionsOK, RegionFields
  <2>. QED
    BY <2>1, <2>2, <2>3 DEF Writable
<1>2. CASE ptr # Null
  <2>1. PICK k \in DOMAIN rs : HeldIn(rs[k], ptr, size, align)
    BY <1>2 DEF Holds
  <2>2. PICK r : r = rs[k] /\ RegionOK(r, align)
    BY RegionsOK
  <2>3. ptr[1] = r.id /\ IndexOf(rs, ptr) = k
    <3>1. ptr[1] = rs[k].id
      BY <2>1, HeldBits
    <3>. QED
      BY <2>2, <3>1, IndexOfIs
  <2>4. PICK s : s = [r EXCEPT !.isRE = b]
    OBVIOUS
  <2>5. r \in Region /\ UnitsOK(r, align)
    BY <2>2 DEF RegionOK
  <2>6. /\ s \in Region /\ s.id = r.id /\ s.size = r.size /\ s.isRE = b /\ s.units = r.units
    BY <2>4, <2>5 DEF Region
  <2>7. RegionOK(s, align)
    BY <2>5, <2>6 DEF RegionOK, UnitsOK
  <2>8. t = WithRegion(rs, k, s)
    BY <1>2, <2>2, <2>3, <2>4 DEF SetAccess, WithRegion, PagesOK
  <2>9. PagesOK(t, align) /\ OneReplaced(rs, t, k, s)
    <3>1. s.id = rs[k].id
      BY <2>2, <2>6
    <3>. QED
      BY <2>7, <2>8, <3>1, RegionReplaced
  <2>10. \A other, n : HeldIn(r, other, n, align) => HeldIn(s, other, n, align)
    BY <2>6 DEF HeldIn
  <2>11. ASSUME NEW other, NEW n, Holds(rs, other, n, align)
         PROVE  Holds(t, other, n, align)
    <3>1. PICK j \in DOMAIN rs : HeldIn(rs[j], other, n, align)
      BY <2>11 DEF Holds
    <3>2. HeldIn(t[j], other, n, align) /\ j \in DOMAIN t
      BY <2>2, <2>9, <2>10, <3>1 DEF OneReplaced
    <3>. QED
      BY <3>2 DEF Holds
  <2>12. Writable(t) \subseteq Writable(rs) \cup {ptr[1]}
    BY <2>2, <2>3, <2>6, <2>9 DEF Writable, OneReplaced
  <2>13. b => ptr[1] \notin Writable(t)
    <3>1. ASSUME b, NEW j \in DOMAIN t, ~t[j].isRE
          PROVE  t[j].id # ptr[1]
      <4>1. j # k
        BY <2>6, <2>9, <3>1 DEF OneReplaced
      <4>2. t[j].id # t[k].id /\ t[k].id = r.id
        BY <2>6, <2>9, <4>1 DEF OneReplaced, PagesOK
      <4>. QED
        BY <2>3, <4>2
    <3>. QED
      BY <3>1 DEF Writable
  <2>. QED
    BY <2>9, <2>11, <2>12, <2>13
<1>. QED
  BY <1>1, <1>2

-----------------------------------------------------------------------------
(* Code pages: GenBuffer *)

\* A buffer's code and its size.
Buffer == [data : Nat \X Nat, allocated : Nat]

\* A buffer without code, or with a unit of its own size.
BufferHeld(rs, b) ==
    b.data # Null => b.allocated > 0 /\ Holds(rs, b.data, b.allocated, BufferAlign)

\* What a push leaves: a unit for the copy, and whoever else had one keeps it.
PushedTo(rs, t, old, new) ==
    /\ PagesOK(t, BufferAlign)
    /\ new \in Buffer /\ new.data # Null /\ BufferHeld(t, new)
    /\ \A other, n : Holds(rs, other, n, BufferAlign) /\ other # old.data
                       => Holds(t, other, n, BufferAlign) /\ other # new.data
    /\ Writable(t) \subseteq {new.data[1]}

\* A buffer grows to a size that is not zero.
LEMMA GrownIs ==
    ASSUME NEW b \in Buffer
    PROVE  GrownSize(b) \in Nat \ {0}
<1>1. b.allocated \in Nat
  BY DEF Buffer
<1>2. Initial \in Nat \ {0}
  BY PagesAssumption
<1>. QED
  BY <1>1, <1>2 DEF GrownSize

\* GenBuffer::push to a larger buffer.
LEMMA PushKeeps ==
    ASSUME NEW rs, PagesOK(rs, BufferAlign), NEW b \in Buffer, BufferHeld(rs, b),
           Writable(rs) \subseteq {b.data[1]}, NEW pushed, pushed = Push(rs, b)
    PROVE  PushedTo(rs, pushed.regions, b, pushed.buffer)
<1>1. PICK size, align : size = GrownSize(b) /\ align = BufferAlign
  OBVIOUS
<1>2. size \in Nat \ {0} /\ align \in Nat \ {0}
  BY <1>1, GrownIs DEF BufferAlign
<1>3. PICK a : a = Alloc(rs, size, align)
  OBVIOUS
<1>4. PICK old, new : old = b.data /\ new = a.ptr
  OBVIOUS
<1>5. PICK r1, r2, r3, r4, r5 :
        /\ r1 = a.regions /\ r2 = SetRW(r1, new) /\ r3 = SetRE(r2, old) /\ r4 = SetRW(r3, new)
        /\ r5 = Free(r4, old, align)
  OBVIOUS
<1>6. pushed.regions = r5 /\ pushed.buffer = [data |-> new, allocated |-> size]
  BY <1>1, <1>3, <1>4, <1>5 DEF Push
<1>7. PagesOK(rs, align)
  BY <1>1
<1>8. Allocated(rs, r1, new, size, align)
  BY <1>2, <1>3, <1>4, <1>5, <1>7, AllocGives
<1>9. /\ PagesOK(r1, align) /\ Holds(r1, new, size, align) /\ new \in Nat \X Nat /\ new # Null
      /\ \A other, n : Holds(rs, other, n, align) => Holds(r1, other, n, align) /\ other # new
      /\ Writable(r1) \subseteq {old[1], new[1]}
  BY <1>4, <1>8 DEF Allocated
<1>10. PICK was : was = b.allocated
  OBVIOUS
<1>11. old # Null => Holds(r1, old, was, align) /\ old # new
  BY <1>1, <1>4, <1>9, <1>10 DEF BufferHeld
<1>12. old # new
  BY <1>9, <1>11
<1>13. /\ PagesOK(r2, align)
       /\ \A other, n : Holds(r1, other, n, align) => Holds(r2, other, n, align)
       /\ Writable(r2) \subseteq {old[1], new[1]}
  <2>1. r2 = SetAccess(r1, new, FALSE)
    BY <1>5 DEF SetRW
  <2>2. PagesOK(r1, align) /\ Holds(r1, new, size, align)
    BY <1>9
  <2>3. /\ PagesOK(r2, align)
        /\ \A other, n : Holds(r1, other, n, align) => Holds(r2, other, n, align)
        /\ Writable(r2) \subseteq Writable(r1) \cup {new[1]}
    BY <2>1, <2>2, SetAccessSets
  <2>. QED
    BY <1>9, <2>3
<1>14. /\ PagesOK(r3, align)
       /\ \A other, n : Holds(r2, other, n, align) => Holds(r3, other, n, align)
       /\ Writable(r3) \subseteq {new[1]}
  <2>1. r3 = SetAccess(r2, old, TRUE)
    BY <1>5 DEF SetRE
  <2>2. old # Null => Holds(r2, old, was, align)
    BY <1>11, <1>13
  <2>3. /\ PagesOK(r3, align)
        /\ \A other, n : Holds(r2, other, n, align) => Holds(r3, other, n, align)
        /\ Writable(r3) \subseteq Writable(r2) \ {old[1]}
    BY <1>13, <2>1, <2>2, SetAccessSets
  <2>. QED
    BY <1>13, <2>3
<1>15. /\ PagesOK(r4, align)
       /\ \A other, n : Holds(r3, other, n, align) => Holds(r4, other, n, align)
       /\ Writable(r4) \subseteq {new[1]}
  <2>1. r4 = SetAccess(r3, new, FALSE)
    BY <1>5 DEF SetRW
  <2>2. Holds(r3, new, size, align)
    BY <1>9, <1>13, <1>14
  <2>3. /\ PagesOK(r4, align)
        /\ \A other, n : Holds(r3, other, n, align) => Holds(r4, other, n, align)
        /\ Writable(r4) \subseteq Writable(r3) \cup {new[1]}
    BY <1>14, <2>1, <2>2, SetAccessSets
  <2>. QED
    BY <1>14, <2>3
<1>16. \A other, n : Holds(r1, other, n, align) => Holds(r4, other, n, align)
  BY <1>13, <1>14, <1>15
<1>17. Kept(r4, r5, old, align) /\ Writable(r5) \subseteq Writable(r4)
  <2>1. old # Null => Holds(r4, old, was, align)
    BY <1>11, <1>16
  <2>. QED
    BY <1>2, <1>5, <1>15, <2>1, FreeLeaves
<1>18. /\ PagesOK(r5, align) /\ Writable(r5) \subseteq {new[1]}
       /\ \A other, n : Holds(r4, other, n, align) /\ other # old => Holds(r5, other, n, align)
  BY <1>15, <1>17 DEF Kept
<1>19. Holds(r5, new, size, align)
  BY <1>9, <1>12, <1>16, <1>18
<1>20. PICK buffer : buffer = pushed.buffer
  OBVIOUS
<1>21. /\ buffer \in Buffer /\ buffer.data = new /\ buffer.allocated = size
  BY <1>2, <1>6, <1>9, <1>20 DEF Buffer
<1>22. BufferHeld(r5, buffer)
  BY <1>1, <1>2, <1>19, <1>21 DEF BufferHeld
<1>23. \A other, n : Holds(rs, other, n, align) /\ other # old => Holds(r5, other, n, align) /\ other # new
  BY <1>9, <1>16, <1>18
<1>24. PushedTo(rs, r5, b, buffer)
  BY <1>1, <1>4, <1>9, <1>18, <1>21, <1>22, <1>23 DEF PushedTo
<1>. QED
  BY <1>6, <1>20, <1>24

\* A buffer without code.
LEMMA EmptyBufferIs == EmptyBuffer \in Buffer /\ EmptyBuffer.data = Null
BY DEF EmptyBuffer, Buffer, Null

\* A held pointer executes unless its pages are writable.
LEMMA HeldExecutes ==
    ASSUME NEW align \in Nat \ {0}, NEW rs, PagesOK(rs, align), Writable(rs) = {}, NEW ptr, NEW size \in Nat,
           Holds(rs, ptr, size, align)
    PROVE  Executes(rs, ptr, size, align)
<1>1. PICK k \in DOMAIN rs : HeldIn(rs[k], ptr, size, align)
  BY DEF Holds
<1>2. PICK r : r = rs[k]
  OBVIOUS
<1>3. RegionOK(r, align) /\ r \in Region
  BY <1>2, RegionsOK
<1>4. PICK u \in r.units : /\ ptr = <<r.id, u.begin + Padding(u.begin, align)>>
                           /\ u.size = size + Padding(u.begin, align)
  BY <1>1, <1>2 DEF HeldIn
<1>5. ptr[1] = r.id /\ ptr[2] = u.begin + Padding(u.begin, align)
  BY <1>4
<1>6. IndexOf(rs, ptr) = k
  BY <1>2, <1>5, IndexOfIs
<1>7. k # 0
  BY DEF PagesOK
<1>8. r.isRE
  <2>1. r.isRE \in BOOLEAN
    BY <1>3, RegionFields
  <2>. QED
    BY <1>2, <2>1 DEF Writable
<1>9. u.begin \in Nat /\ u.size \in Nat
  BY <1>3, UnitFields
<1>10. ptr[2] % align = 0 /\ Padding(u.begin, align) \in Nat
  <2>1. /\ Padding(u.begin, align) \in 0..align - 1
        /\ (u.begin + Padding(u.begin, align)) % align = 0
    BY <1>9, PaddingAligns
  <2>2. Padding(u.begin, align) \in Nat
    BY <2>1
  <2>. QED
    BY <1>5, <2>1, <2>2
<1>11. u.begin <= ptr[2] /\ ptr[2] + size <= u.begin + u.size
  BY <1>4, <1>5, <1>9, <1>10
<1>12. u.begin + u.size <= r.size /\ \A w \in r.units \ {u} : Apart(u, w)
  BY <1>3 DEF RegionOK, UnitsOK
<1>13. \E v \in r.units :
         /\ v.begin <= ptr[2] /\ ptr[2] + size <= v.begin + v.size /\ v.begin + v.size <= r.size
         /\ \A w \in r.units \ {v} : Apart(v, w)
  BY <1>11, <1>12
<1>. QED
  BY <1>2, <1>6, <1>7, <1>8, <1>10, <1>13 DEF Executes

-----------------------------------------------------------------------------
(* Code pages: Hook managers *)

\* The two functions of a hook manager, its entry in m_Contexts, and what is generated.
Stages  == {"hookFunc", "pubFunc"}
Context == [hookFunc : Buffer, pubFunc : Buffer, refCnt : Nat]
Gens    == [proto : Protos, stage : Stages]

\* The invariant: each buffer has a unit of its own, m_RefCnt counts the clients,
\* and only the pages of the code that is being generated are writable.
CodeHeld(pages, ctx) == \A p \in Protos : \A f \in Stages : BufferHeld(pages, ctx[p][f])
CodeApart(ctx) ==
    \A p, q \in Protos : \A f, g \in Stages :
      ctx[p][f].data # Null /\ ctx[p][f].data = ctx[q][g].data => p = q /\ f = g
RefCounted(ctx, held) ==
    \A p \in Protos : /\ ctx[p].refCnt = held[p]
                      /\ held[p] > 0 => \A f \in Stages : ctx[p][f].data # Null
Beneath(ctx, gen) == IF gen = Idle THEN {} ELSE {ctx[gen.proto][gen.stage].data[1]}
HookFuncFirst(ctx, gen) == gen # Idle /\ gen.stage = "pubFunc" => ctx[gen.proto]["hookFunc"].data # Null

ManagersOK(pages, ctx, held, gen) ==
    /\ ctx \in [Protos -> Context] /\ held \in [Protos -> Nat] /\ gen \in Gens \cup {Idle}
    /\ PagesOK(pages, BufferAlign) /\ Writable(pages) \subseteq Beneath(ctx, gen)
    /\ CodeHeld(pages, ctx) /\ CodeApart(ctx) /\ RefCounted(ctx, held) /\ HookFuncFirst(ctx, gen)

\* One entry of m_Contexts changes, or one count of clients.
OneContext(ctx, t, p, c) ==
    /\ t \in [Protos -> Context] /\ t[p] = c
    /\ \A q \in Protos : q # p => t[q] = ctx[q]
OneHeld(held, t, p, n) ==
    /\ t \in [Protos -> Nat] /\ t[p] = n
    /\ \A q \in Protos : q # p => t[q] = held[q]

\* One entry of m_Contexts changes,
LEMMA ContextReplaced ==
    ASSUME NEW ctx \in [Protos -> Context], NEW p \in Protos, NEW c \in Context,
           NEW t, t = [ctx EXCEPT ![p] = c]
    PROVE  OneContext(ctx, t, p, c)
BY DEF OneContext

\* or one count.
LEMMA HeldReplaced ==
    ASSUME NEW held \in [Protos -> Nat], NEW p \in Protos, NEW n \in Nat,
           NEW t, t = [held EXCEPT ![p] = n]
    PROVE  OneHeld(held, t, p, n)
BY DEF OneHeld

\* A context's two buffers and its count.
LEMMA StageBuffers ==
    ASSUME NEW c \in Context
    PROVE  /\ \A f \in Stages : c[f] \in Buffer
           /\ c["hookFunc"] = c.hookFunc /\ c["pubFunc"] = c.pubFunc /\ c.refCnt \in Nat
           /\ "hookFunc" \in Stages /\ "pubFunc" \in Stages
BY DEF Context, Stages

\* A context without code.
LEMMA NoContextIs == NoContext \in Context /\ NoContext.refCnt = 0 /\ \A f \in Stages : NoContext[f].data = Null
BY EmptyBufferIs DEF NoContext, Context, Stages

\* One buffer of a context changes,
LEMMA StageReplaced ==
    ASSUME NEW c \in Context, NEW s \in Stages, NEW b \in Buffer, NEW d, d = [c EXCEPT ![s] = b]
    PROVE  d \in Context /\ d[s] = b /\ d.refCnt = c.refCnt /\ \A f \in Stages : f # s => d[f] = c[f]
BY DEF Context, Stages

\* or its count.
LEMMA CountReplaced ==
    ASSUME NEW c \in Context, NEW n \in Nat, NEW d, d = [c EXCEPT !.refCnt = n]
    PROVE  d \in Context /\ d.refCnt = n /\ \A f \in Stages : d[f] = c[f]
BY DEF Context, Stages

\* What is generated, if anything.
LEMMA GenIs ==
    ASSUME NEW gen \in Gens \cup {Idle}
    PROVE  gen # Idle => gen \in Gens /\ gen.proto \in Protos /\ gen.stage \in Stages
BY DEF Gens

\* A hook manager whose generation begins.
LEMMA GenFields ==
    ASSUME NEW p \in Protos, NEW s \in Stages, NEW g, g = [proto |-> p, stage |-> s]
    PROVE  g \in Gens /\ g.proto = p /\ g.stage = s /\ g # Idle
BY DEF Gens, Idle, Stages

\* The same code, counted differently.
SameCode(ctx, t) == \A q \in Protos : \A f \in Stages : t[q][f] = ctx[q][f]

\* A new count leaves the code as it is.
LEMMA Recounted ==
    ASSUME NEW ctx \in [Protos -> Context], NEW p \in Protos, NEW n \in Nat, NEW c, c = [ctx[p] EXCEPT !.refCnt = n],
           NEW t, OneContext(ctx, t, p, c)
    PROVE  SameCode(ctx, t) /\ c \in Context /\ c.refCnt = n
<1>1. PICK d : d = ctx[p]
  OBVIOUS
<1>2. d \in Context
  BY <1>1
<1>3. c \in Context /\ c.refCnt = n /\ \A f \in Stages : c[f] = d[f]
  BY <1>1, <1>2, CountReplaced
<1>. QED
  BY <1>1, <1>3 DEF SameCode, OneContext

\* What is said of the code stays true.
LEMMA SameCodeKeeps ==
    ASSUME NEW pages, NEW ctx, NEW t, NEW gen \in Gens \cup {Idle}, SameCode(ctx, t)
    PROVE  /\ CodeHeld(pages, ctx) => CodeHeld(pages, t)
           /\ CodeApart(ctx) => CodeApart(t)
           /\ Beneath(t, gen) = Beneath(ctx, gen)
           /\ HookFuncFirst(ctx, gen) => HookFuncFirst(t, gen)
<1>1. \A q \in Protos : \A f \in Stages : t[q][f] = ctx[q][f]
  BY DEF SameCode
<1>2. CodeHeld(pages, ctx) => CodeHeld(pages, t)
  BY <1>1 DEF CodeHeld
<1>3. CodeApart(ctx) => CodeApart(t)
  BY <1>1 DEF CodeApart
<1>4. Beneath(t, gen) = Beneath(ctx, gen)
  BY <1>1, GenIs DEF Beneath
<1>5. HookFuncFirst(ctx, gen) => HookFuncFirst(t, gen)
  <2>1. "hookFunc" \in Stages
    BY DEF Stages
  <2>. QED
    BY <1>1, <2>1, GenIs DEF HookFuncFirst
<1>. QED
  BY <1>2, <1>3, <1>4, <1>5

\* One count changes on both sides.
LEMMA CountedOne ==
    ASSUME NEW ctx, NEW held, NEW p \in Protos, NEW c, NEW n, NEW t, NEW u, RefCounted(ctx, held),
           OneContext(ctx, t, p, c), OneHeld(held, u, p, n), c.refCnt = n,
           n > 0 => \A f \in Stages : c[f].data # Null
    PROVE  RefCounted(t, u)
BY DEF RefCounted, OneContext, OneHeld

\* A hook manager that is there is counted once more, or once less.
LEMMA RecountKeeps ==
    ASSUME NEW pages, NEW ctx, NEW held, NEW gen, ManagersOK(pages, ctx, held, gen),
           NEW p \in Protos, held[p] > 0, NEW n \in Nat,
           NEW c, c = [ctx[p] EXCEPT !.refCnt = n], NEW t, t = [ctx EXCEPT ![p] = c],
           NEW u, u = [held EXCEPT ![p] = n]
    PROVE  ManagersOK(pages, t, u, gen)
<1>1. /\ ctx \in [Protos -> Context] /\ held \in [Protos -> Nat] /\ gen \in Gens \cup {Idle}
      /\ PagesOK(pages, BufferAlign) /\ Writable(pages) \subseteq Beneath(ctx, gen)
      /\ CodeHeld(pages, ctx) /\ CodeApart(ctx) /\ RefCounted(ctx, held) /\ HookFuncFirst(ctx, gen)
  BY DEF ManagersOK
<1>2. PICK d : d = ctx[p]
  OBVIOUS
<1>3. d \in Context
  BY <1>1, <1>2
<1>4. c \in Context /\ c.refCnt = n /\ \A f \in Stages : c[f] = d[f]
  BY <1>2, <1>3, CountReplaced
<1>5. OneContext(ctx, t, p, c) /\ OneHeld(held, u, p, n)
  BY <1>1, <1>4, ContextReplaced, HeldReplaced
<1>6. SameCode(ctx, t)
  BY <1>1, <1>5, Recounted
<1>7. \A f \in Stages : c[f].data # Null
  BY <1>1, <1>2, <1>4 DEF RefCounted
<1>8. RefCounted(t, u)
  BY <1>1, <1>4, <1>5, <1>7, CountedOne
<1>9. t \in [Protos -> Context] /\ u \in [Protos -> Nat]
  BY <1>5 DEF OneContext, OneHeld
<1>10. /\ CodeHeld(pages, t) /\ CodeApart(t) /\ Beneath(t, gen) = Beneath(ctx, gen) /\ HookFuncFirst(t, gen)
  BY <1>1, <1>6, SameCodeKeeps
<1>. QED
  BY <1>1, <1>8, <1>9, <1>10 DEF ManagersOK

\* A context whose code is gone, or not there yet.
LEMMA CodeGone ==
    ASSUME NEW ctx \in [Protos -> Context], NEW p \in Protos, NEW t, OneContext(ctx, t, p, NoContext)
    PROVE  /\ t \in [Protos -> Context]
           /\ \A f \in Stages : t[p][f].data = Null
           /\ CodeApart(ctx) => CodeApart(t)
<1>1. \A q \in Protos : q # p => t[q] = ctx[q]
  BY DEF OneContext
<1>2. \A f \in Stages : t[p][f].data = Null
  BY NoContextIs DEF OneContext
<1>3. CodeApart(ctx) => CodeApart(t)
  <2>1. SUFFICES ASSUME CodeApart(ctx), NEW q \in Protos, NEW r \in Protos, NEW f \in Stages, NEW g \in Stages,
                        t[q][f].data # Null, t[q][f].data = t[r][g].data
                 PROVE  q = r /\ f = g
    BY DEF CodeApart
  <2>2. q # p /\ r # p
    BY <1>2, <2>1
  <2>. QED
    BY <1>1, <2>1, <2>2 DEF CodeApart
<1>. QED
  BY <1>2, <1>3 DEF OneContext

\* A hook manager is generated that nobody holds.
LEMMA BeginKeeps ==
    ASSUME NEW pages, NEW ctx, NEW held, ManagersOK(pages, ctx, held, Idle),
           NEW p \in Protos, ctx[p].refCnt <= 0, NEW t, t = [ctx EXCEPT ![p] = NoContext],
           NEW g, g = [proto |-> p, stage |-> "hookFunc"]
    PROVE  ManagersOK(pages, t, held, g)
<1>1. /\ ctx \in [Protos -> Context] /\ held \in [Protos -> Nat]
      /\ PagesOK(pages, BufferAlign) /\ Writable(pages) \subseteq Beneath(ctx, Idle)
      /\ CodeHeld(pages, ctx) /\ CodeApart(ctx) /\ RefCounted(ctx, held)
  BY DEF ManagersOK
<1>2. OneContext(ctx, t, p, NoContext)
  BY <1>1, NoContextIs, ContextReplaced
<1>3. /\ t \in [Protos -> Context] /\ CodeApart(t)
      /\ \A f \in Stages : t[p][f].data = Null
      /\ \A q \in Protos : q # p => t[q] = ctx[q]
  <2>1. t \in [Protos -> Context] /\ (\A f \in Stages : t[p][f].data = Null) /\ CodeApart(t)
    BY <1>1, <1>2, CodeGone
  <2>. QED
    BY <1>2, <2>1 DEF OneContext
<1>4. CodeHeld(pages, t)
  BY <1>1, <1>3 DEF CodeHeld, BufferHeld
<1>5. held[p] = 0
  BY <1>1 DEF RefCounted
<1>6. t[p].refCnt = 0
  BY <1>2, NoContextIs DEF OneContext
<1>7. RefCounted(t, held)
  BY <1>1, <1>3, <1>5, <1>6 DEF RefCounted
<1>8. g \in Gens /\ g.stage = "hookFunc"
  BY GenFields DEF Stages
<1>9. HookFuncFirst(t, g) /\ Writable(pages) \subseteq Beneath(t, g)
  BY <1>1, <1>8 DEF HookFuncFirst, Beneath
<1>. QED
  BY <1>1, <1>3, <1>4, <1>7, <1>8, <1>9 DEF ManagersOK

\* The buffer of the code that is being generated is moved.
LEMMA GrowKeeps ==
    ASSUME NEW pages, NEW ctx, NEW held, NEW gen, ManagersOK(pages, ctx, held, gen), gen # Idle,
           NEW p, NEW s, p = gen.proto, s = gen.stage,
           NEW more, NEW b, PushedTo(pages, more, ctx[p][s], b), NEW t, t = [ctx EXCEPT ![p][s] = b]
    PROVE  ManagersOK(more, t, held, gen)
<1>1. /\ ctx \in [Protos -> Context] /\ held \in [Protos -> Nat] /\ gen \in Gens \cup {Idle}
      /\ CodeHeld(pages, ctx) /\ CodeApart(ctx) /\ RefCounted(ctx, held) /\ HookFuncFirst(ctx, gen)
  BY DEF ManagersOK
<1>2. p \in Protos /\ s \in Stages
  BY <1>1, GenIs
<1>3. PICK old : old = ctx[p][s]
  OBVIOUS
<1>4. /\ PagesOK(more, BufferAlign) /\ Writable(more) \subseteq {b.data[1]}
      /\ b \in Buffer /\ b.data # Null /\ BufferHeld(more, b)
      /\ \A other, n : Holds(pages, other, n, BufferAlign) /\ other # old.data
                         => Holds(more, other, n, BufferAlign) /\ other # b.data
  BY <1>3 DEF PushedTo
<1>5. PICK d, c : d = ctx[p] /\ c = [d EXCEPT ![s] = b]
  OBVIOUS
<1>6. d \in Context
  BY <1>1, <1>2, <1>5
<1>7. c \in Context /\ c[s] = b /\ c.refCnt = d.refCnt /\ \A f \in Stages : f # s => c[f] = d[f]
  <2>1. b \in Buffer /\ c = [d EXCEPT ![s] = b]
    BY <1>4, <1>5
  <2>. QED
    BY <1>2, <1>6, <2>1 DEF Context, Stages
<1>8. t = [ctx EXCEPT ![p] = c]
  BY <1>5
<1>9. OneContext(ctx, t, p, c)
  BY <1>1, <1>2, <1>7, <1>8, ContextReplaced
<1>10. /\ t \in [Protos -> Context] /\ t[p] = c /\ \A q \in Protos : q # p => t[q] = ctx[q]
  BY <1>9 DEF OneContext
<1>11. /\ t[p][s] = b
       /\ \A q \in Protos : \A f \in Stages : ~(q = p /\ f = s) => t[q][f] = ctx[q][f]
  BY <1>5, <1>7, <1>10
<1>12. ASSUME NEW q \in Protos, NEW f \in Stages, ~(q = p /\ f = s)
       PROVE  BufferHeld(more, t[q][f]) /\ t[q][f].data # b.data
  <2>1. PICK x : x = ctx[q][f]
    OBVIOUS
  <2>2. t[q][f] = x
    BY <1>11, <1>12, <2>1
  <2>3. CASE x.data = Null
    BY <1>4, <2>2, <2>3 DEF BufferHeld
  <2>4. CASE x.data # Null
    <3>1. x.data # old.data
      BY <1>1, <1>2, <1>3, <1>12, <2>1, <2>4 DEF CodeApart
    <3>2. x.allocated > 0 /\ Holds(pages, x.data, x.allocated, BufferAlign)
      BY <1>1, <2>1, <2>4 DEF CodeHeld, BufferHeld
    <3>3. Holds(more, x.data, x.allocated, BufferAlign) /\ x.data # b.data
      BY <1>4, <3>1, <3>2
    <3>. QED
      BY <2>2, <3>2, <3>3 DEF BufferHeld
  <2>. QED
    BY <2>3, <2>4
<1>13. CodeHeld(more, t)
  BY <1>4, <1>11, <1>12 DEF CodeHeld
<1>14. CodeApart(t)
  <2>1. SUFFICES ASSUME NEW q \in Protos, NEW r \in Protos, NEW f \in Stages, NEW g \in Stages,
                        t[q][f].data # Null, t[q][f].data = t[r][g].data
                 PROVE  q = r /\ f = g
    BY DEF CodeApart
  <2>2. CASE q = p /\ f = s
    BY <1>11, <1>12, <2>1, <2>2
  <2>3. CASE r = p /\ g = s
    BY <1>11, <1>12, <2>1, <2>3
  <2>4. CASE ~(q = p /\ f = s) /\ ~(r = p /\ g = s)
    <3>1. t[q][f] = ctx[q][f] /\ t[r][g] = ctx[r][g]
      BY <1>11, <2>4
    <3>. QED
      BY <1>1, <2>1, <3>1 DEF CodeApart
  <2>. QED
    BY <2>2, <2>3, <2>4
<1>15. RefCounted(t, held)
  <2>1. ASSUME NEW q \in Protos
        PROVE  t[q].refCnt = ctx[q].refCnt
    BY <1>5, <1>7, <1>10, <2>1
  <2>2. ASSUME NEW q \in Protos, held[q] > 0, NEW f \in Stages
        PROVE  t[q][f].data # Null
    BY <1>1, <1>4, <1>11, <2>2 DEF RefCounted
  <2>. QED
    BY <1>1, <2>1, <2>2 DEF RefCounted
<1>16. Writable(more) \subseteq Beneath(t, gen)
  BY <1>4, <1>11 DEF Beneath
<1>17. HookFuncFirst(t, gen)
  <2>1. "hookFunc" \in Stages
    BY DEF Stages
  <2>. QED
    BY <1>1, <1>2, <1>4, <1>11, <2>1 DEF HookFuncFirst
<1>. QED
  BY <1>1, <1>4, <1>10, <1>13, <1>14, <1>15, <1>16, <1>17 DEF ManagersOK

\* The pages of the code that was generated are executable again.
LEMMA ProtectKeeps ==
    ASSUME NEW pages, NEW ctx, NEW held, NEW gen, ManagersOK(pages, ctx, held, gen), gen # Idle,
           NEW p, NEW s, p = gen.proto, s = gen.stage,
           NEW more, more = SetRE(pages, ctx[p][s].data)
    PROVE  PagesOK(more, BufferAlign) /\ Writable(more) = {} /\ CodeHeld(more, ctx)
<1>1. /\ ctx \in [Protos -> Context] /\ gen \in Gens \cup {Idle}
      /\ PagesOK(pages, BufferAlign) /\ Writable(pages) \subseteq Beneath(ctx, gen)
      /\ CodeHeld(pages, ctx)
  BY DEF ManagersOK
<1>2. p \in Protos /\ s \in Stages
  BY <1>1, GenIs
<1>3. PICK b, ptr, size, align : b = ctx[p][s] /\ ptr = b.data /\ size = b.allocated /\ align = BufferAlign
  OBVIOUS
<1>4. ptr # Null => Holds(pages, ptr, size, align)
  BY <1>1, <1>2, <1>3 DEF CodeHeld, BufferHeld
<1>5. Writable(pages) \subseteq {ptr[1]}
  BY <1>1, <1>3 DEF Beneath
<1>6. more = SetAccess(pages, ptr, TRUE)
  BY <1>3 DEF SetRE
<1>7. PagesOK(pages, align)
  BY <1>1, <1>3
<1>8. /\ PagesOK(more, align)
      /\ \A other, n : Holds(pages, other, n, align) => Holds(more, other, n, align)
      /\ Writable(more) \subseteq Writable(pages) \ {ptr[1]}
  BY <1>4, <1>6, <1>7, SetAccessSets
<1>9. Writable(more) = {}
  BY <1>5, <1>8
<1>10. CodeHeld(more, ctx)
  BY <1>1, <1>3, <1>8 DEF CodeHeld, BufferHeld
<1>. QED
  BY <1>3, <1>8, <1>9, <1>10

\* Then the public function is generated,
LEMMA HookFuncKeeps ==
    ASSUME NEW pages, NEW ctx, NEW held, NEW gen, ManagersOK(pages, ctx, held, gen), gen # Idle,
           NEW p, p = gen.proto, gen.stage = "hookFunc", ctx[p]["hookFunc"].data # Null,
           NEW more, more = SetRE(pages, ctx[p]["hookFunc"].data),
           NEW g, g = [gen EXCEPT !.stage = "pubFunc"]
    PROVE  ManagersOK(more, ctx, held, g)
<1>1. /\ ctx \in [Protos -> Context] /\ held \in [Protos -> Nat] /\ gen \in Gens \cup {Idle}
      /\ CodeApart(ctx) /\ RefCounted(ctx, held)
  BY DEF ManagersOK
<1>2. PagesOK(more, BufferAlign) /\ Writable(more) = {} /\ CodeHeld(more, ctx)
  BY ProtectKeeps
<1>3. g \in Gens /\ g.proto = p /\ g.stage = "pubFunc"
  BY <1>1, GenIs DEF Gens, Stages
<1>4. HookFuncFirst(ctx, g)
  BY <1>3 DEF HookFuncFirst
<1>. QED
  BY <1>1, <1>2, <1>3, <1>4 DEF ManagersOK

\* or the hook manager is complete and its first client has it.
LEMMA PubFuncKeeps ==
    ASSUME NEW pages, NEW ctx, NEW held, NEW gen, ManagersOK(pages, ctx, held, gen), gen # Idle,
           NEW p, p = gen.proto, gen.stage = "pubFunc", ctx[p]["pubFunc"].data # Null,
           NEW more, more = SetRE(pages, ctx[p]["pubFunc"].data),
           NEW c, c = [ctx[p] EXCEPT !.refCnt = 1], NEW t, t = [ctx EXCEPT ![p] = c],
           NEW u, u = [held EXCEPT ![p] = 1]
    PROVE  ManagersOK(more, t, u, Idle)
<1>1. /\ ctx \in [Protos -> Context] /\ held \in [Protos -> Nat] /\ gen \in Gens \cup {Idle}
      /\ CodeApart(ctx) /\ RefCounted(ctx, held) /\ HookFuncFirst(ctx, gen)
  BY DEF ManagersOK
<1>2. PagesOK(more, BufferAlign) /\ Writable(more) = {} /\ CodeHeld(more, ctx)
  BY ProtectKeeps
<1>3. p \in Protos /\ ctx[p] \in Context
  BY <1>1, GenIs
<1>4. PICK d : d = ctx[p]
  OBVIOUS
<1>5. c \in Context /\ c.refCnt = 1 /\ \A f \in Stages : c[f] = d[f]
  BY <1>3, <1>4, CountReplaced
<1>6. OneContext(ctx, t, p, c) /\ OneHeld(held, u, p, 1)
  BY <1>1, <1>3, <1>5, ContextReplaced, HeldReplaced
<1>7. SameCode(ctx, t)
  BY <1>1, <1>3, <1>6, Recounted
<1>8. CodeHeld(more, t) /\ CodeApart(t)
  BY <1>1, <1>2, <1>7, SameCodeKeeps
<1>9. \A f \in Stages : c[f].data # Null
  BY <1>1, <1>4, <1>5 DEF HookFuncFirst, Stages
<1>10. RefCounted(t, u)
  BY <1>1, <1>3, <1>5, <1>6, <1>9, CountedOne
<1>11. t \in [Protos -> Context] /\ u \in [Protos -> Nat]
  BY <1>6 DEF OneContext, OneHeld
<1>12. HookFuncFirst(t, Idle) /\ Writable(more) \subseteq Beneath(t, Idle)
  BY <1>2 DEF HookFuncFirst
<1>. QED
  BY <1>2, <1>8, <1>10, <1>11, <1>12 DEF ManagersOK

\* The last client gives a hook manager back.
LEMMA LastReleaseKeeps ==
    ASSUME NEW pages, NEW ctx, NEW held, ManagersOK(pages, ctx, held, Idle),
           NEW p \in Protos, held[p] > 0, ~(ctx[p].refCnt > 1), NEW c, c = ctx[p],
           NEW more, more = Clear(Clear(pages, c.hookFunc), c.pubFunc),
           NEW t, t = [ctx EXCEPT ![p] = NoContext], NEW n, n = held[p] - 1, NEW u, u = [held EXCEPT ![p] = n]
    PROVE  ManagersOK(more, t, u, Idle)
<1>1. /\ ctx \in [Protos -> Context] /\ held \in [Protos -> Nat]
      /\ PagesOK(pages, BufferAlign) /\ Writable(pages) \subseteq Beneath(ctx, Idle)
      /\ CodeHeld(pages, ctx) /\ CodeApart(ctx) /\ RefCounted(ctx, held)
  BY DEF ManagersOK
<1>2. c \in Context /\ c.refCnt \in Nat /\ c.refCnt = held[p]
  <2>1. c \in Context
    BY <1>1
  <2>. QED
    BY <1>1, <2>1, StageBuffers DEF RefCounted
<1>3. n = 0
  BY <1>2
<1>4. OneContext(ctx, t, p, NoContext) /\ OneHeld(held, u, p, 0)
  <2>1. u = [held EXCEPT ![p] = 0]
    BY <1>3
  <2>2. 0 \in Nat /\ NoContext \in Context
    BY NoContextIs
  <2>. QED
    BY <1>1, <2>1, <2>2, ContextReplaced, HeldReplaced
<1>5. t \in [Protos -> Context] /\ (\A f \in Stages : t[p][f].data = Null) /\ CodeApart(t)
  BY <1>1, <1>4, CodeGone
<1>6. PICK align, one, two, h, k :
        align = BufferAlign /\ one = c.hookFunc.data /\ two = c.pubFunc.data
        /\ h = c.hookFunc.allocated /\ k = c.pubFunc.allocated
  OBVIOUS
<1>7. /\ one = ctx[p]["hookFunc"].data /\ two = ctx[p]["pubFunc"].data
      /\ h = ctx[p]["hookFunc"].allocated /\ k = ctx[p]["pubFunc"].allocated
      /\ "hookFunc" \in Stages /\ "pubFunc" \in Stages /\ "hookFunc" # "pubFunc"
  <2>1. c["hookFunc"] = c.hookFunc /\ c["pubFunc"] = c.pubFunc /\ "hookFunc" \in Stages /\ "pubFunc" \in Stages
    BY <1>2, StageBuffers
  <2>. QED
    BY <1>6, <2>1
<1>8. /\ one # Null => Holds(pages, one, h, align)
      /\ two # Null => Holds(pages, two, k, align) /\ two # one
  <2>1. BufferHeld(pages, ctx[p]["hookFunc"]) /\ BufferHeld(pages, ctx[p]["pubFunc"])
    BY <1>1, <1>7 DEF CodeHeld
  <2>2. two # Null => two # one
    BY <1>1, <1>7 DEF CodeApart
  <2>. QED
    BY <1>6, <1>7, <2>1, <2>2 DEF BufferHeld
<1>9. PICK some : some = Free(pages, one, align)
  OBVIOUS
<1>10. more = Free(some, two, align)
  BY <1>6, <1>9 DEF Clear
<1>11. align \in Nat \ {0} /\ PagesOK(pages, align)
  BY <1>1, <1>6 DEF BufferAlign
<1>12. Kept(pages, some, one, align) /\ Writable(some) \subseteq Writable(pages)
  BY <1>8, <1>9, <1>11, FreeLeaves
<1>13. /\ PagesOK(some, align)
       /\ \A other, m : Holds(pages, other, m, align) /\ other # one => Holds(some, other, m, align)
  BY <1>12 DEF Kept
<1>14. two # Null => Holds(some, two, k, align)
  BY <1>8, <1>13
<1>15. Kept(some, more, two, align) /\ Writable(more) \subseteq Writable(some)
  BY <1>10, <1>11, <1>13, <1>14, FreeLeaves
<1>16. /\ PagesOK(more, align)
       /\ \A other, m : Holds(pages, other, m, align) /\ other # one /\ other # two
                          => Holds(more, other, m, align)
  BY <1>13, <1>15 DEF Kept
<1>17. CodeHeld(more, t)
  <2>1. SUFFICES ASSUME NEW q \in Protos, NEW f \in Stages, t[q][f].data # Null
                 PROVE  t[q][f].allocated > 0 /\ Holds(more, t[q][f].data, t[q][f].allocated, BufferAlign)
    BY DEF CodeHeld, BufferHeld
  <2>2. q # p
    BY <1>5, <2>1
  <2>3. t[q][f] = ctx[q][f]
    BY <1>4, <2>2 DEF OneContext
  <2>4. ctx[q][f].allocated > 0 /\ Holds(pages, ctx[q][f].data, ctx[q][f].allocated, align)
    BY <1>1, <1>6, <2>1, <2>3 DEF CodeHeld, BufferHeld
  <2>5. ctx[q][f].data # one /\ ctx[q][f].data # two
    BY <1>1, <1>7, <2>1, <2>2, <2>3 DEF CodeApart
  <2>. QED
    BY <1>6, <1>16, <2>3, <2>4, <2>5
<1>18. RefCounted(t, u)
  BY <1>1, <1>4, NoContextIs, CountedOne
<1>19. u \in [Protos -> Nat] /\ Writable(more) \subseteq Beneath(t, Idle) /\ HookFuncFirst(t, Idle)
  BY <1>1, <1>4, <1>12, <1>15 DEF OneHeld, Beneath, HookFuncFirst
<1>. QED
  BY <1>5, <1>6, <1>16, <1>17, <1>18, <1>19 DEF ManagersOK

-----------------------------------------------------------------------------
(* Code pages: thunks *)
\* Each thunk has a unit of its own, in pages that are executable.
ThunkApart(thunk) == \A v, w \in ThunkOwners : thunk[v] # Null /\ thunk[v] = thunk[w] => v = w
ThunkHeld(pages, thunk) ==
    \A v \in ThunkOwners : thunk[v] # Null => Holds(pages, thunk[v], ThunkSize, ThunkAlign)
ThunksOK(pages, thunk) ==
    /\ thunk \in [ThunkOwners -> Nat \X Nat]
    /\ PagesOK(pages, ThunkAlign) /\ Writable(pages) = {}
    /\ ThunkHeld(pages, thunk) /\ ThunkApart(thunk)

\* CVfnPtr::Init allocates a thunk,
LEMMA ThunkMade ==
    ASSUME NEW pages, NEW thunk, ThunksOK(pages, thunk), NEW v \in ThunkOwners, thunk[v] = Null,
           NEW a, a = Alloc(pages, ThunkSize, ThunkAlign),
           NEW more, more = SetRE(SetRW(a.regions, a.ptr), a.ptr),
           NEW t, t = [thunk EXCEPT ![v] = a.ptr]
    PROVE  ThunksOK(more, t)
<1>1. /\ thunk \in [ThunkOwners -> Nat \X Nat] /\ PagesOK(pages, ThunkAlign) /\ Writable(pages) = {}
      /\ ThunkHeld(pages, thunk) /\ ThunkApart(thunk)
  BY DEF ThunksOK
<1>2. ThunkSize \in Nat \ {0} /\ ThunkAlign \in Nat \ {0}
  BY PagesAssumption
<1>3. PICK new, r1, r2 : new = a.ptr /\ r1 = a.regions /\ r2 = SetAccess(r1, new, FALSE)
  OBVIOUS
<1>4. more = SetAccess(r2, new, TRUE)
  BY <1>3 DEF SetRE, SetRW
<1>5. Allocated(pages, r1, new, ThunkSize, ThunkAlign)
  BY <1>1, <1>2, <1>3, AllocGives
<1>6. /\ PagesOK(r1, ThunkAlign) /\ Holds(r1, new, ThunkSize, ThunkAlign) /\ new \in Nat \X Nat /\ new # Null
      /\ \A other, n : Holds(pages, other, n, ThunkAlign) => Holds(r1, other, n, ThunkAlign) /\ other # new
      /\ Writable(r1) \subseteq Writable(pages) \cup {new[1]}
  BY <1>5 DEF Allocated
<1>7. /\ PagesOK(r2, ThunkAlign)
      /\ \A other, n : Holds(r1, other, n, ThunkAlign) => Holds(r2, other, n, ThunkAlign)
      /\ Writable(r2) \subseteq Writable(r1) \cup {new[1]}
  <2>1. PagesOK(r1, ThunkAlign) /\ Holds(r1, new, ThunkSize, ThunkAlign) /\ r2 = SetAccess(r1, new, FALSE)
    BY <1>3, <1>6
  <2>. QED
    BY <2>1, SetAccessSets
<1>8. /\ PagesOK(more, ThunkAlign)
      /\ \A other, n : Holds(r2, other, n, ThunkAlign) => Holds(more, other, n, ThunkAlign)
      /\ Writable(more) \subseteq Writable(r2) \ {new[1]}
  <2>1. Holds(r2, new, ThunkSize, ThunkAlign) /\ PagesOK(r2, ThunkAlign)
    BY <1>6, <1>7
  <2>. QED
    BY <1>4, <2>1, SetAccessSets
<1>9. Writable(more) = {}
  BY <1>1, <1>6, <1>7, <1>8
<1>10. /\ t \in [ThunkOwners -> Nat \X Nat] /\ t[v] = new
       /\ \A w \in ThunkOwners : w # v => t[w] = thunk[w]
  BY <1>1, <1>3, <1>6
<1>11. \A w \in ThunkOwners : w # v => t[w] # new
  <2>1. \A w \in ThunkOwners : thunk[w] # Null => thunk[w] # new
    BY <1>1, <1>6 DEF ThunkHeld
  <2>. QED
    BY <1>6, <1>10, <2>1
<1>12. ThunkHeld(more, t)
  BY <1>1, <1>6, <1>7, <1>8, <1>10 DEF ThunkHeld
<1>13. ThunkApart(t)
  BY <1>1, <1>10, <1>11 DEF ThunkApart
<1>. QED
  BY <1>8, <1>9, <1>10, <1>12, <1>13 DEF ThunksOK

\* and the clean-up task frees it.
LEMMA ThunkFreed ==
    ASSUME NEW pages, NEW thunk, ThunksOK(pages, thunk), NEW v \in ThunkOwners, thunk[v] # Null,
           NEW more, more = Free(pages, thunk[v], ThunkAlign), NEW t, t = [thunk EXCEPT ![v] = Null]
    PROVE  ThunksOK(more, t)
<1>1. /\ thunk \in [ThunkOwners -> Nat \X Nat] /\ PagesOK(pages, ThunkAlign) /\ Writable(pages) = {}
      /\ ThunkHeld(pages, thunk) /\ ThunkApart(thunk)
  BY DEF ThunksOK
<1>2. ThunkAlign \in Nat \ {0}
  BY PagesAssumption
<1>3. PICK ptr : ptr = thunk[v]
  OBVIOUS
<1>4. Holds(pages, ptr, ThunkSize, ThunkAlign) /\ more = Free(pages, ptr, ThunkAlign)
  BY <1>1, <1>3 DEF ThunkHeld
<1>5. Kept(pages, more, ptr, ThunkAlign) /\ Writable(more) \subseteq Writable(pages)
  BY <1>1, <1>2, <1>4, FreeLeaves
<1>6. /\ PagesOK(more, ThunkAlign)
      /\ \A other, n : Holds(pages, other, n, ThunkAlign) /\ other # ptr => Holds(more, other, n, ThunkAlign)
  BY <1>5 DEF Kept
<1>7. /\ t \in [ThunkOwners -> Nat \X Nat] /\ t[v] = Null
      /\ \A w \in ThunkOwners : w # v => t[w] = thunk[w]
  BY <1>1 DEF Null
<1>8. ThunkHeld(more, t)
  <2>1. ASSUME NEW w \in ThunkOwners, t[w] # Null
        PROVE  Holds(more, t[w], ThunkSize, ThunkAlign)
    <3>1. t[w] = thunk[w] /\ w # v
      BY <1>7, <2>1
    <3>2. thunk[w] # ptr /\ Holds(pages, thunk[w], ThunkSize, ThunkAlign)
      BY <1>1, <1>3, <2>1, <3>1 DEF ThunkHeld, ThunkApart
    <3>. QED
      BY <1>6, <3>1, <3>2
  <2>. QED
    BY <2>1 DEF ThunkHeld
<1>9. ThunkApart(t)
  BY <1>1, <1>7 DEF ThunkApart
<1>10. Writable(more) = {}
  BY <1>1, <1>5
<1>. QED
  BY <1>6, <1>7, <1>8, <1>9, <1>10 DEF ThunksOK

-----------------------------------------------------------------------------
(* Code pages: Every action *)

\* The parts of a state, and the invariant.
PagesRec(gen, genPages, thunkPages, ctx, held, thunk) ==
    [gen |-> gen, genPages |-> genPages, thunkPages |-> thunkPages, ctx |-> ctx, held |-> held, thunk |-> thunk]
IsPages(s) == s = PagesRec(s.gen, s.genPages, s.thunkPages, s.ctx, s.held, s.thunk)

CodeOK(s) == IsPages(s) /\ ManagersOK(s.genPages, s.ctx, s.held, s.gen) /\ ThunksOK(s.thunkPages, s.thunk)

PagesInv == CodeOK(code)

\* A state's fields are those it is put together from.
LEMMA PagesFields ==
    ASSUME NEW a, NEW b, NEW c, NEW d, NEW e, NEW f, NEW t, t = PagesRec(a, b, c, d, e, f)
    PROVE  /\ IsPages(t) /\ t.gen = a /\ t.genPages = b /\ t.thunkPages = c /\ t.ctx = d /\ t.held = e
           /\ t.thunk = f
BY DEF PagesRec, IsPages

\* A state of sound parts.
LEMMA CodeFrom ==
    ASSUME NEW a, NEW b, NEW c, NEW d, NEW e, NEW f, NEW t, t = PagesRec(a, b, c, d, e, f),
           ManagersOK(b, d, e, a), ThunksOK(c, f)
    PROVE  CodeOK(t)
BY PagesFields DEF CodeOK

\* At the start there is no code.
LEMMA PagesInitially == PagesInit => PagesInv
<1>1. SUFFICES ASSUME PagesInit
               PROVE  PagesInv
  OBVIOUS
<1>2. PICK ctx, held, thunk, none :
        ctx = [p \in Protos |-> NoContext] /\ held = [p \in Protos |-> 0]
        /\ thunk = [v \in ThunkOwners |-> Null] /\ none = <<>>
  OBVIOUS
<1>3. code = PagesRec(Idle, none, none, ctx, held, thunk)
  BY <1>1, <1>2 DEF PagesInit, PagesRec
<1>4. none \in Seq(Region) /\ DOMAIN none = {}
  BY <1>2
<1>5. \A align : PagesOK(none, align)
  BY <1>4 DEF PagesOK
<1>6. Writable(none) = {}
  BY <1>4 DEF Writable
<1>7. /\ ctx \in [Protos -> Context] /\ held \in [Protos -> Nat]
      /\ \A p \in Protos : ctx[p] = NoContext /\ held[p] = 0
  BY <1>2, NoContextIs
<1>8. CodeHeld(none, ctx) /\ CodeApart(ctx) /\ RefCounted(ctx, held)
  <2>1. \A p \in Protos : ctx[p].refCnt = 0 /\ \A f \in Stages : ctx[p][f].data = Null
    BY <1>7, NoContextIs
  <2>. QED
    BY <1>7, <2>1 DEF CodeHeld, BufferHeld, CodeApart, RefCounted
<1>9. ManagersOK(none, ctx, held, Idle)
  BY <1>5, <1>6, <1>7, <1>8 DEF ManagersOK, HookFuncFirst
<1>10. /\ thunk \in [ThunkOwners -> Nat \X Nat] /\ \A v \in ThunkOwners : thunk[v] = Null
  BY <1>2 DEF Null
<1>11. ThunksOK(none, thunk)
  BY <1>5, <1>6, <1>10 DEF ThunksOK, ThunkHeld, ThunkApart
<1>. QED
  BY <1>3, <1>9, <1>11, CodeFrom DEF PagesInv

\* MakeHookMan counts a known hook manager, or begins another one.
LEMMA MakeHookManKeeps ==
    ASSUME PagesInv, NEW p \in Protos, MakeHookMan(p)
    PROVE  PagesInv'
<1>1. PICK s, t : s = code /\ t = code'
  OBVIOUS
<1>2. IsPages(s) /\ ManagersOK(s.genPages, s.ctx, s.held, s.gen) /\ ThunksOK(s.thunkPages, s.thunk)
  BY <1>1 DEF PagesInv, CodeOK
<1>3. s.gen = Idle
  BY <1>1 DEF MakeHookMan, Generating
<1>4. s.ctx \in [Protos -> Context] /\ s.held \in [Protos -> Nat] /\ RefCounted(s.ctx, s.held)
  BY <1>2 DEF ManagersOK
<1>5. s.ctx[p] \in Context /\ s.ctx[p].refCnt \in Nat /\ s.ctx[p].refCnt = s.held[p]
  <2>1. s.ctx[p] \in Context
    BY <1>4
  <2>. QED
    BY <1>4, <2>1, StageBuffers DEF RefCounted
<1>6. CASE s.ctx[p].refCnt > 0
  <2>1. PICK n : n = s.held[p] + 1 /\ n \in Nat
    BY <1>5
  <2>2. PICK c, ctx, held :
          c = [s.ctx[p] EXCEPT !.refCnt = n] /\ ctx = [s.ctx EXCEPT ![p] = c] /\ held = [s.held EXCEPT ![p] = n]
    OBVIOUS
  <2>3. ManagersOK(s.genPages, ctx, held, s.gen)
    BY <1>2, <1>5, <1>6, <2>1, <2>2, RecountKeeps
  <2>4. t = [s EXCEPT !.ctx[p].refCnt = @ + 1, !.held[p] = @ + 1]
    BY <1>1, <1>6 DEF MakeHookMan
  <2>5. t = PagesRec(s.gen, s.genPages, s.thunkPages, ctx, held, s.thunk)
    BY <1>2, <1>5, <2>1, <2>2, <2>4 DEF IsPages, PagesRec
  <2>. QED
    BY <1>1, <1>2, <2>3, <2>5, CodeFrom DEF PagesInv
<1>7. CASE ~(s.ctx[p].refCnt > 0)
  <2>1. PICK g, ctx : g = [proto |-> p, stage |-> "hookFunc"] /\ ctx = [s.ctx EXCEPT ![p] = NoContext]
    OBVIOUS
  <2>2. ManagersOK(s.genPages, ctx, s.held, g)
    <3>1. s.ctx[p].refCnt <= 0
      BY <1>5, <1>7
    <3>2. ManagersOK(s.genPages, s.ctx, s.held, Idle)
      BY <1>2, <1>3
    <3>. QED
      BY <2>1, <3>1, <3>2, BeginKeeps
  <2>3. t = [s EXCEPT !.gen = [proto |-> p, stage |-> "hookFunc"], !.ctx[p] = NoContext]
    BY <1>1, <1>7 DEF MakeHookMan
  <2>4. t = PagesRec(g, s.genPages, s.thunkPages, ctx, s.held, s.thunk)
    BY <1>2, <2>1, <2>3 DEF IsPages, PagesRec
  <2>. QED
    BY <1>1, <1>2, <2>2, <2>4, CodeFrom DEF PagesInv
<1>. QED
  BY <1>6, <1>7

\* An instruction for which the buffer has to grow.
LEMMA GrowActionKeeps == ASSUME PagesInv, Grow PROVE PagesInv'
<1>1. PICK s, t, p, f : s = code /\ t = code' /\ p = s.gen.proto /\ f = s.gen.stage
  OBVIOUS
<1>2. IsPages(s) /\ ManagersOK(s.genPages, s.ctx, s.held, s.gen) /\ ThunksOK(s.thunkPages, s.thunk)
  BY <1>1 DEF PagesInv, CodeOK
<1>3. s.gen # Idle
  BY <1>1 DEF Grow, Generating
<1>4. /\ s.ctx \in [Protos -> Context] /\ s.gen \in Gens \cup {Idle} /\ CodeHeld(s.genPages, s.ctx)
      /\ PagesOK(s.genPages, BufferAlign) /\ Writable(s.genPages) \subseteq Beneath(s.ctx, s.gen)
  BY <1>2 DEF ManagersOK
<1>5. p \in Protos /\ f \in Stages
  BY <1>1, <1>3, <1>4, GenIs
<1>6. PICK b, pages, pushed : b = s.ctx[p][f] /\ pages = s.genPages /\ pushed = Push(pages, b)
  OBVIOUS
<1>7. b \in Buffer /\ BufferHeld(pages, b)
  <2>1. s.ctx[p] \in Context
    BY <1>4, <1>5
  <2>. QED
    BY <1>4, <1>5, <1>6, <2>1, StageBuffers DEF CodeHeld
<1>8. Writable(pages) \subseteq {b.data[1]} /\ PagesOK(pages, BufferAlign)
  BY <1>1, <1>3, <1>4, <1>6 DEF Beneath
<1>9. PICK more, new : more = pushed.regions /\ new = pushed.buffer
  OBVIOUS
<1>10. PushedTo(pages, more, b, new)
  BY <1>6, <1>7, <1>8, <1>9, PushKeeps
<1>11. PICK ctx : ctx = [s.ctx EXCEPT ![p][f] = new]
  OBVIOUS
<1>12. ManagersOK(more, ctx, s.held, s.gen)
  <2>1. PushedTo(s.genPages, more, s.ctx[p][f], new)
    BY <1>6, <1>10
  <2>. QED
    BY <1>1, <1>2, <1>3, <1>11, <2>1, GrowKeeps
<1>13. t = [s EXCEPT !.genPages = more, !.ctx[p][f] = new]
  BY <1>1, <1>6, <1>9 DEF Grow
<1>14. t = PagesRec(s.gen, more, s.thunkPages, ctx, s.held, s.thunk)
  BY <1>2, <1>11, <1>13 DEF IsPages, PagesRec
<1>. QED
  BY <1>1, <1>2, <1>12, <1>14, CodeFrom DEF PagesInv

\* The end of GenerateHookFunc and of GeneratePubFunc.
LEMMA GeneratedKeeps == ASSUME PagesInv, Generated PROVE PagesInv'
<1>1. PICK s, t, p : s = code /\ t = code' /\ p = s.gen.proto
  OBVIOUS
<1>2. IsPages(s) /\ ManagersOK(s.genPages, s.ctx, s.held, s.gen) /\ ThunksOK(s.thunkPages, s.thunk)
  BY <1>1 DEF PagesInv, CodeOK
<1>3. s.gen # Idle
  BY <1>1 DEF Generated, Generating
<1>4. s.ctx \in [Protos -> Context] /\ s.gen \in Gens /\ p \in Protos /\ s.gen.stage \in Stages
  BY <1>1, <1>2, <1>3, GenIs DEF ManagersOK
<1>5. CASE s.gen.stage = "hookFunc"
  <2>1. PICK more, g :
          more = SetRE(s.genPages, s.ctx[p]["hookFunc"].data) /\ g = [s.gen EXCEPT !.stage = "pubFunc"]
    OBVIOUS
  <2>2. s.ctx[p]["hookFunc"].data # Null
    BY <1>1, <1>5 DEF Generated
  <2>3. ManagersOK(more, s.ctx, s.held, g)
    BY <1>1, <1>2, <1>3, <1>5, <2>1, <2>2, HookFuncKeeps
  <2>4. t = [[s EXCEPT !.genPages = more] EXCEPT !.gen.stage = "pubFunc"]
    <3>1. t = [[s EXCEPT !.genPages = SetRE(@, s.ctx[p]["hookFunc"].data)] EXCEPT !.gen.stage = "pubFunc"]
      BY <1>1, <1>5 DEF Generated
    <3>2. [s EXCEPT !.genPages = SetRE(@, s.ctx[p]["hookFunc"].data)] = [s EXCEPT !.genPages = more]
      BY <2>1
    <3>. QED
      BY <3>1, <3>2
  <2>5. t = PagesRec(g, more, s.thunkPages, s.ctx, s.held, s.thunk)
    BY <1>2, <2>1, <2>4 DEF IsPages, PagesRec
  <2>. QED
    BY <1>1, <1>2, <2>3, <2>5, CodeFrom DEF PagesInv
<1>6. CASE s.gen.stage = "pubFunc"
  <2>1. PICK more, c, ctx, held :
          /\ more = SetRE(s.genPages, s.ctx[p]["pubFunc"].data)
          /\ c = [s.ctx[p] EXCEPT !.refCnt = 1] /\ ctx = [s.ctx EXCEPT ![p] = c] /\ held = [s.held EXCEPT ![p] = 1]
    OBVIOUS
  <2>2. s.ctx[p]["pubFunc"].data # Null
    BY <1>1, <1>6 DEF Generated
  <2>3. ManagersOK(more, ctx, held, Idle)
    BY <1>1, <1>2, <1>3, <1>6, <2>1, <2>2, PubFuncKeeps
  <2>4. t = [[s EXCEPT !.genPages = more] EXCEPT !.gen = Idle, !.ctx[p].refCnt = 1, !.held[p] = 1]
    BY <1>1, <1>6, <2>1 DEF Generated
  <2>5. t = PagesRec(Idle, more, s.thunkPages, ctx, held, s.thunk)
    BY <1>2, <2>1, <2>4 DEF IsPages, PagesRec
  <2>. QED
    BY <1>1, <1>2, <2>3, <2>5, CodeFrom DEF PagesInv
<1>. QED
  BY <1>4, <1>5, <1>6 DEF Stages

\* ReleaseHookMan, the last one or not.
LEMMA ReleaseHookManKeeps ==
    ASSUME PagesInv, NEW p \in Protos, ReleaseHookMan(p)
    PROVE  PagesInv'
<1>1. PICK s, t : s = code /\ t = code'
  OBVIOUS
<1>2. IsPages(s) /\ ManagersOK(s.genPages, s.ctx, s.held, s.gen) /\ ThunksOK(s.thunkPages, s.thunk)
  BY <1>1 DEF PagesInv, CodeOK
<1>3. s.gen = Idle /\ s.held[p] > 0
  BY <1>1 DEF ReleaseHookMan, Generating
<1>4. s.ctx \in [Protos -> Context] /\ s.held \in [Protos -> Nat] /\ RefCounted(s.ctx, s.held)
  BY <1>2 DEF ManagersOK
<1>5. PICK n : n = s.held[p] - 1 /\ n = s.ctx[p].refCnt - 1 /\ n \in Nat
  BY <1>3, <1>4 DEF RefCounted
<1>6. CASE s.ctx[p].refCnt > 1
  <2>1. PICK c, ctx, held :
          c = [s.ctx[p] EXCEPT !.refCnt = n] /\ ctx = [s.ctx EXCEPT ![p] = c] /\ held = [s.held EXCEPT ![p] = n]
    OBVIOUS
  <2>2. ManagersOK(s.genPages, ctx, held, s.gen)
    BY <1>2, <1>3, <1>5, <2>1, RecountKeeps
  <2>3. t = [s EXCEPT !.held[p] = @ - 1, !.ctx[p].refCnt = @ - 1]
    BY <1>1, <1>6 DEF ReleaseHookMan
  <2>4. t = PagesRec(s.gen, s.genPages, s.thunkPages, ctx, held, s.thunk)
    BY <1>2, <1>5, <2>1, <2>3 DEF IsPages, PagesRec
  <2>. QED
    BY <1>1, <1>2, <2>2, <2>4, CodeFrom DEF PagesInv
<1>7. CASE ~(s.ctx[p].refCnt > 1)
  <2>1. PICK c, more, ctx, held :
          /\ c = s.ctx[p] /\ more = Clear(Clear(s.genPages, c.hookFunc), c.pubFunc)
          /\ ctx = [s.ctx EXCEPT ![p] = NoContext] /\ held = [s.held EXCEPT ![p] = n]
    OBVIOUS
  <2>2. ManagersOK(more, ctx, held, Idle)
    <3>1. ManagersOK(s.genPages, s.ctx, s.held, Idle)
      BY <1>2, <1>3
    <3>. QED
      BY <1>3, <1>5, <1>7, <2>1, <3>1, LastReleaseKeeps
  <2>3. t = [[s EXCEPT !.held[p] = @ - 1, !.ctx[p].refCnt = @ - 1]
               EXCEPT !.ctx[p] = NoContext, !.genPages = Clear(Clear(@, c.hookFunc), c.pubFunc)]
    BY <1>1, <1>7, <2>1 DEF ReleaseHookMan
  <2>4. t = PagesRec(s.gen, more, s.thunkPages, ctx, held, s.thunk)
    BY <1>2, <1>5, <2>1, <2>3 DEF IsPages, PagesRec
  <2>. QED
    BY <1>1, <1>2, <1>3, <2>2, <2>4, CodeFrom DEF PagesInv
<1>. QED
  BY <1>6, <1>7

\* The thunks of CVfnPtr.
LEMMA ThunkActionsKeep ==
    ASSUME PagesInv, NEW v \in ThunkOwners, MakeThunk(v) \/ FreeThunk(v)
    PROVE  PagesInv'
<1>1. PICK s, t : s = code /\ t = code'
  OBVIOUS
<1>2. IsPages(s) /\ ManagersOK(s.genPages, s.ctx, s.held, s.gen) /\ ThunksOK(s.thunkPages, s.thunk)
  BY <1>1 DEF PagesInv, CodeOK
<1>3. CASE MakeThunk(v)
  <2>1. PICK a, more, thunk :
          /\ a = Alloc(s.thunkPages, ThunkSize, ThunkAlign)
          /\ more = SetRE(SetRW(a.regions, a.ptr), a.ptr) /\ thunk = [s.thunk EXCEPT ![v] = a.ptr]
    OBVIOUS
  <2>2. s.thunk[v] = Null
    BY <1>1, <1>3 DEF MakeThunk
  <2>3. ThunksOK(more, thunk)
    BY <1>2, <2>1, <2>2, ThunkMade
  <2>4. t = [s EXCEPT !.thunkPages = more, !.thunk[v] = a.ptr]
    BY <1>1, <1>3, <2>1 DEF MakeThunk
  <2>5. t = PagesRec(s.gen, s.genPages, more, s.ctx, s.held, thunk)
    BY <1>2, <2>1, <2>4 DEF IsPages, PagesRec
  <2>. QED
    BY <1>1, <1>2, <2>3, <2>5, CodeFrom DEF PagesInv
<1>4. CASE FreeThunk(v)
  <2>1. PICK more, thunk :
          more = Free(s.thunkPages, s.thunk[v], ThunkAlign) /\ thunk = [s.thunk EXCEPT ![v] = Null]
    OBVIOUS
  <2>2. s.thunk[v] # Null
    BY <1>1, <1>4 DEF FreeThunk
  <2>3. ThunksOK(more, thunk)
    BY <1>2, <2>1, <2>2, ThunkFreed
  <2>4. t = [s EXCEPT !.thunkPages = Free(@, s.thunk[v], ThunkAlign), !.thunk[v] = Null]
    BY <1>1, <1>4 DEF FreeThunk
  <2>5. t = PagesRec(s.gen, s.genPages, more, s.ctx, s.held, thunk)
    BY <1>2, <2>1, <2>4 DEF IsPages, PagesRec
  <2>. QED
    BY <1>1, <1>2, <2>3, <2>5, CodeFrom DEF PagesInv
<1>. QED
  BY <1>3, <1>4

\* Every step preserves the invariant.
LEMMA PagesNextKeeps == PagesInv /\ [PagesNext]_code => PagesInv'
<1>1. SUFFICES ASSUME PagesInv, [PagesNext]_code
               PROVE  PagesInv'
  OBVIOUS
<1>2. ASSUME NEW p \in Protos, MakeHookMan(p)
      PROVE  PagesInv'
  BY <1>1, <1>2, MakeHookManKeeps
<1>3. ASSUME NEW p \in Protos, ReleaseHookMan(p)
      PROVE  PagesInv'
  BY <1>1, <1>3, ReleaseHookManKeeps
<1>4. CASE Grow
  BY <1>1, <1>4, GrowActionKeeps
<1>5. CASE Generated
  BY <1>1, <1>5, GeneratedKeeps
<1>6. ASSUME NEW v \in ThunkOwners, MakeThunk(v) \/ FreeThunk(v)
      PROVE  PagesInv'
  BY <1>1, <1>6, ThunkActionsKeep
<1>7. CASE UNCHANGED code
  BY <1>1, <1>7 DEF PagesInv
<1>. QED
  BY <1>1, <1>2, <1>3, <1>4, <1>5, <1>6, <1>7 DEF PagesNext, HookManNext, ThunkNext

\* The invariant is enough: held code is whole, apart and executable.
LEMMA PagesInvExecutes == PagesInv => LiveCodeExecutes
<1>1. SUFFICES ASSUME PagesInv
               PROVE  LiveCodeExecutes
  OBVIOUS
<1>2. PICK s : s = code
  OBVIOUS
<1>3. ManagersOK(s.genPages, s.ctx, s.held, s.gen) /\ ThunksOK(s.thunkPages, s.thunk)
  BY <1>1, <1>2 DEF PagesInv, CodeOK
<1>4. ASSUME s.gen = Idle, NEW p \in Protos, s.held[p] > 0, NEW f \in Stages
      PROVE  Executes(s.genPages, s.ctx[p][f].data, s.ctx[p][f].allocated, BufferAlign)
  <2>1. /\ s.ctx \in [Protos -> Context] /\ PagesOK(s.genPages, BufferAlign)
        /\ Writable(s.genPages) = {} /\ CodeHeld(s.genPages, s.ctx) /\ RefCounted(s.ctx, s.held)
    BY <1>3, <1>4 DEF ManagersOK, Beneath
  <2>2. PICK b : b = s.ctx[p][f]
    OBVIOUS
  <2>3. b \in Buffer /\ b.allocated \in Nat
    <3>1. s.ctx[p] \in Context
      BY <2>1
    <3>2. b \in Buffer
      BY <1>4, <2>2, <3>1, StageBuffers
    <3>. QED
      BY <3>2 DEF Buffer
  <2>4. Holds(s.genPages, b.data, b.allocated, BufferAlign)
    BY <1>4, <2>1, <2>2 DEF CodeHeld, BufferHeld, RefCounted
  <2>5. BufferAlign \in Nat \ {0}
    BY DEF BufferAlign
  <2>. QED
    BY <2>1, <2>2, <2>3, <2>4, <2>5, HeldExecutes
<1>5. ASSUME NEW v \in ThunkOwners, s.thunk[v] # Null
      PROVE  Executes(s.thunkPages, s.thunk[v], ThunkSize, ThunkAlign)
  <2>1. /\ PagesOK(s.thunkPages, ThunkAlign) /\ Writable(s.thunkPages) = {}
        /\ Holds(s.thunkPages, s.thunk[v], ThunkSize, ThunkAlign)
    BY <1>3, <1>5 DEF ThunksOK, ThunkHeld
  <2>2. ThunkSize \in Nat /\ ThunkAlign \in Nat \ {0}
    BY PagesAssumption
  <2>. QED
    BY <2>1, <2>2, HeldExecutes
<1>. QED
  BY <1>2, <1>4, <1>5 DEF LiveCodeExecutes, Generating, Stages

\* Code that clients hold stays where it is, intact and executable, whatever else is
\* generated, moved and freed in the same pages (sh_pagealloc.h, GenBuffer::push).
THEOREM LiveCodeExecutesAlways == PagesSpec => []LiveCodeExecutes
<1>1. PagesInit => PagesInv
  BY PagesInitially
<1>2. PagesInv /\ [PagesNext]_code => PagesInv'
  BY PagesNextKeeps
<1>3. PagesInv => LiveCodeExecutes
  BY PagesInvExecutes
<1>. QED
  BY <1>1, <1>2, <1>3, PTL DEF PagesSpec

-----------------------------------------------------------------------------
(* Plugin files: the list of aliases *)

\* The elements of the two lists, and what keeps each of them without doubles.
Plugin == [file : Path, runs : BOOLEAN, new : BOOLEAN]
Alias  == [alias : Path, value : Path]

OneCopyEach(plugins) ==
    \A j, k \in DOMAIN plugins : UTIL_PathCmp(plugins[j].file, plugins[k].file) => j = k
OneValueEach(aliases) ==
    \A j, k \in DOMAIN aliases : aliases[j].alias = aliases[k].alias => j = k

AliasesOK(al) == al \in Seq(Alias) /\ OneValueEach(al)

\* What a lookup finds: the value of the alias if it is in the list.
LeadsTo(al, a, v) ==
    \/ \E k \in DOMAIN al : al[k].alias = a /\ al[k].value = v
    \/ (\A k \in DOMAIN al : al[k].alias # a) /\ v = Empty

\* The positions of an alias are one or none.
LEMMA AliasIndexIs ==
    ASSUME NEW al, AliasesOK(al), NEW a
    PROVE  /\ AliasIndex(al, a) = 0 => \A k \in DOMAIN al : al[k].alias # a
           /\ AliasIndex(al, a) # 0 => AliasIndex(al, a) \in DOMAIN al /\ al[AliasIndex(al, a)].alias = a
<1>1. PICK D : D = {k \in DOMAIN al : al[k].alias = a}
  OBVIOUS
<1>2. al \in Seq(Alias)
  BY DEF AliasesOK
<1>3. DOMAIN al \subseteq Nat \ {0}
  BY <1>2
<1>4. D \subseteq Nat \ {0}
  BY <1>1, <1>3
<1>5. /\ Lowest(D) = 0 => D = {}
      /\ D = {} => Lowest(D) = 0
      /\ D # {} => Lowest(D) \in D
  BY <1>4, LowestIs
<1>6. AliasIndex(al, a) = Lowest(D)
  BY <1>1 DEF AliasIndex
<1>. QED
  BY <1>1, <1>5, <1>6

\* LookupAlias finds what is in the list, and nothing else.
LEMMA LookupIs ==
    ASSUME NEW al, AliasesOK(al), NEW a, NEW v
    PROVE  LeadsTo(al, a, v) <=> LookupAlias(al, a) = v
<1>1. PICK k : k = AliasIndex(al, a)
  OBVIOUS
<1>2. /\ k = 0 => \A j \in DOMAIN al : al[j].alias # a
      /\ k # 0 => k \in DOMAIN al /\ al[k].alias = a
  BY <1>1, AliasIndexIs
<1>3. LookupAlias(al, a) = IF k = 0 THEN Empty ELSE al[k].value
  BY <1>1 DEF LookupAlias
<1>4. CASE k = 0
  BY <1>2, <1>3, <1>4 DEF LeadsTo
<1>5. CASE k # 0
  <2>1. \A j \in DOMAIN al : al[j].alias = a => j = k
    BY <1>2, <1>5 DEF AliasesOK, OneValueEach
  <2>. QED
    BY <1>2, <1>3, <1>5, <2>1 DEF LeadsTo
<1>. QED
  BY <1>4, <1>5

\* A part of the list, in its order, has no doubles either.
LEMMA FewerAliases ==
    ASSUME NEW al, AliasesOK(al), NEW t, t \in Seq(Alias), InOrder(al, t)
    PROVE  AliasesOK(t)
<1>1. \A s : s \in Seq(Alias) => DOMAIN s \subseteq Nat
  OBVIOUS
<1>2. DOMAIN t \subseteq Nat /\ DOMAIN al \subseteq Nat
  BY <1>1 DEF AliasesOK
<1>3. ASSUME NEW i \in DOMAIN t, NEW j \in DOMAIN t, i < j
      PROVE  t[i].alias # t[j].alias
  <2>1. PICK a, b \in DOMAIN al : a < b /\ t[i] = al[a] /\ t[j] = al[b]
    BY <1>3 DEF InOrder
  <2>2. a # b
    BY <1>2, <2>1
  <2>. QED
    BY <2>1, <2>2 DEF AliasesOK, OneValueEach
<1>4. ASSUME NEW i \in DOMAIN t, NEW j \in DOMAIN t, t[i].alias = t[j].alias
      PROVE  i = j
  <2>1. i \in Nat /\ j \in Nat
    BY <1>2
  <2>2. ~(i < j) /\ ~(j < i)
    BY <1>3, <1>4
  <2>. QED
    BY <2>1, <2>2
<1>. QED
  BY <1>4 DEF AliasesOK, OneValueEach

\* t is al with a set to v.
AliasSet(al, t, a, v) ==
    /\ AliasesOK(t) /\ LookupAlias(t, a) = v
    /\ \A b : b # a => LookupAlias(t, b) = LookupAlias(al, b)

\* Deleting one.
LEMMA AliasDeleted ==
    ASSUME NEW al, AliasesOK(al), NEW k \in DOMAIN al, NEW t, t = Without(al, {al[k]})
    PROVE  AliasSet(al, t, al[k].alias, Empty)
<1>1. al \in Seq(Alias)
  BY DEF AliasesOK
<1>2. t \in Seq(Alias) /\ Elements(t) = Elements(al) \ {al[k]} /\ InOrder(al, t)
  BY <1>1, WithoutInOrder
<1>3. AliasesOK(t)
  BY <1>2, FewerAliases
<1>4. \A j \in DOMAIN t : t[j] \in Elements(al) /\ t[j] # al[k]
  BY <1>2 DEF Elements
<1>5. ASSUME NEW j \in DOMAIN t
      PROVE  \E i \in DOMAIN al : t[j] = al[i] /\ i # k
  BY <1>4 DEF Elements
<1>6. \A j \in DOMAIN t : t[j].alias # al[k].alias
  BY <1>5 DEF AliasesOK, OneValueEach
<1>7. LookupAlias(t, al[k].alias) = Empty
  <2>1. LeadsTo(t, al[k].alias, Empty)
    BY <1>6 DEF LeadsTo
  <2>. QED
    BY <1>3, <2>1, LookupIs
<1>8. ASSUME NEW b, b # al[k].alias
      PROVE  LookupAlias(t, b) = LookupAlias(al, b)
  <2>1. PICK v : v = LookupAlias(al, b)
    OBVIOUS
  <2>2. LeadsTo(al, b, v)
    BY <2>1, LookupIs
  <2>3. CASE \E i \in DOMAIN al : al[i].alias = b /\ al[i].value = v
    <3>1. PICK i \in DOMAIN al : al[i].alias = b /\ al[i].value = v
      BY <2>3
    <3>2. al[i] \in Elements(t)
      BY <1>2, <1>8, <3>1 DEF Elements
    <3>3. LeadsTo(t, b, v)
      BY <3>1, <3>2 DEF LeadsTo, Elements
    <3>. QED
      BY <1>3, <2>1, <3>3, LookupIs
  <2>4. CASE (\A i \in DOMAIN al : al[i].alias # b) /\ v = Empty
    <3>1. \A j \in DOMAIN t : t[j].alias # b
      BY <1>5, <2>4
    <3>2. LeadsTo(t, b, v)
      BY <2>4, <3>1 DEF LeadsTo
    <3>. QED
      BY <1>3, <2>1, <3>2, LookupIs
  <2>. QED
    BY <2>2, <2>3, <2>4 DEF LeadsTo
<1>. QED
  BY <1>3, <1>7, <1>8 DEF AliasSet

\* Giving one another value.
LEMMA AliasChanged ==
    ASSUME NEW al, AliasesOK(al), NEW k \in DOMAIN al, NEW v \in Path,
           NEW t, t = [al EXCEPT ![k].value = v]
    PROVE  AliasSet(al, t, al[k].alias, v)
<1>1. al \in Seq(Alias)
  BY DEF AliasesOK
<1>2. \A j \in DOMAIN al : al[j] \in Alias
  BY <1>1
<1>12. PICK e : e = [al[k] EXCEPT !.value = v]
  OBVIOUS
<1>13. t = [al EXCEPT ![k] = e]
  BY <1>12
<1>3. DOMAIN t = DOMAIN al
  BY <1>13
<1>4. \A j \in DOMAIN al : j # k => t[j] = al[j]
  BY <1>13
<1>5. t[k] = [al[k] EXCEPT !.value = v]
  BY <1>12, <1>13
<1>6. t[k] \in Alias /\ t[k].alias = al[k].alias /\ t[k].value = v
  BY <1>2, <1>5 DEF Alias
<1>7. \A j \in DOMAIN al : t[j].alias = al[j].alias /\ t[j] \in Alias
  BY <1>2, <1>4, <1>6
<1>8. t \in Seq(Alias)
  <2>1. e \in Alias
    BY <1>5, <1>6, <1>12
  <2>. QED
    BY <1>1, <1>13, <2>1
<1>9. AliasesOK(t)
  BY <1>3, <1>7, <1>8 DEF AliasesOK, OneValueEach
<1>10. LookupAlias(t, al[k].alias) = v
  <2>1. LeadsTo(t, al[k].alias, v)
    BY <1>3, <1>6 DEF LeadsTo
  <2>. QED
    BY <1>9, <2>1, LookupIs
<1>11. ASSUME NEW b, b # al[k].alias
       PROVE  LookupAlias(t, b) = LookupAlias(al, b)
  <2>1. PICK w : w = LookupAlias(al, b)
    OBVIOUS
  <2>2. LeadsTo(al, b, w)
    BY <2>1, LookupIs
  <2>3. LeadsTo(t, b, w)
    BY <1>3, <1>4, <1>7, <1>11, <2>2 DEF LeadsTo
  <2>. QED
    BY <1>9, <2>1, <2>3, LookupIs
<1>. QED
  BY <1>9, <1>10, <1>11 DEF AliasSet

\* Adding one.
LEMMA AliasAdded ==
    ASSUME NEW al, AliasesOK(al), NEW a \in Path, NEW v \in Path, \A k \in DOMAIN al : al[k].alias # a,
           NEW t, t = Append(al, [alias |-> a, value |-> v])
    PROVE  AliasSet(al, t, a, v)
<1>1. al \in Seq(Alias)
  BY DEF AliasesOK
<1>2. PICK e : e = [alias |-> a, value |-> v]
  OBVIOUS
<1>3. e \in Alias /\ e.alias = a /\ e.value = v
  BY <1>2 DEF Alias
<1>4. t = Append(al, e)
  BY <1>2
<1>5. /\ t \in Seq(Alias) /\ Len(al) \in Nat /\ DOMAIN al = 1 .. Len(al)
      /\ DOMAIN t = 1 .. Len(al) + 1 /\ t[Len(al) + 1] = e
      /\ \A j \in 1 .. Len(al) : t[j] = al[j]
  BY <1>1, <1>3, <1>4
<1>6. PICK n : n = Len(al) + 1
  OBVIOUS
<1>7. /\ n \in DOMAIN t /\ t[n] = e /\ n \notin DOMAIN al
      /\ DOMAIN t = DOMAIN al \cup {n}
      /\ \A j \in DOMAIN al : t[j] = al[j]
  BY <1>5, <1>6
<1>8. AliasesOK(t)
  BY <1>3, <1>5, <1>7 DEF AliasesOK, OneValueEach
<1>9. LookupAlias(t, a) = v
  <2>1. LeadsTo(t, a, v)
    BY <1>3, <1>7 DEF LeadsTo
  <2>. QED
    BY <1>8, <2>1, LookupIs
<1>10. ASSUME NEW b, b # a
       PROVE  LookupAlias(t, b) = LookupAlias(al, b)
  <2>1. PICK w : w = LookupAlias(al, b)
    OBVIOUS
  <2>2. LeadsTo(al, b, w)
    BY <2>1, LookupIs
  <2>3. LeadsTo(t, b, w)
    BY <1>3, <1>7, <1>10, <2>2 DEF LeadsTo
  <2>. QED
    BY <1>8, <2>1, <2>3, LookupIs
<1>. QED
  BY <1>8, <1>9, <1>10 DEF AliasSet

\* Setting an alias sets that one only.
LEMMA SetAliasSets ==
    ASSUME NEW al, AliasesOK(al), NEW a \in Path, NEW v \in Path
    PROVE  AliasSet(al, SetAlias(al, a, v), a, v)
<1>1. PICK k : k = AliasIndex(al, a)
  OBVIOUS
<1>2. /\ k = 0 => \A j \in DOMAIN al : al[j].alias # a
      /\ k # 0 => k \in DOMAIN al /\ al[k].alias = a
  BY <1>1, AliasIndexIs
<1>3. PICK t : t = SetAlias(al, a, v)
  OBVIOUS
<1>4. CASE k # 0 /\ v = Empty
  <2>1. t = Without(al, {al[k]})
    BY <1>1, <1>3, <1>4 DEF SetAlias
  <2>2. AliasSet(al, t, al[k].alias, Empty)
    BY <1>2, <1>4, <2>1, AliasDeleted
  <2>. QED
    BY <1>2, <1>3, <1>4, <2>2
<1>5. CASE k # 0 /\ v # Empty
  <2>1. t = [al EXCEPT ![k].value = v]
    BY <1>1, <1>3, <1>5 DEF SetAlias
  <2>2. AliasSet(al, t, al[k].alias, v)
    BY <1>2, <1>5, <2>1, AliasChanged
  <2>. QED
    BY <1>2, <1>3, <1>5, <2>2
<1>6. CASE k = 0 /\ v = Empty
  <2>1. t = al
    BY <1>1, <1>3, <1>6 DEF SetAlias
  <2>2. LeadsTo(al, a, Empty)
    BY <1>2, <1>6 DEF LeadsTo
  <2>3. LookupAlias(al, a) = Empty
    BY <2>2, LookupIs
  <2>. QED
    BY <1>3, <1>6, <2>1, <2>3 DEF AliasSet
<1>7. CASE k = 0 /\ v # Empty
  <2>1. t = Append(al, [alias |-> a, value |-> v])
    BY <1>1, <1>3, <1>7 DEF SetAlias
  <2>2. AliasSet(al, t, a, v)
    BY <1>2, <1>7, <2>1, AliasAdded
  <2>. QED
    BY <1>3, <2>2
<1>. QED
  BY <1>4, <1>5, <1>6, <1>7

-----------------------------------------------------------------------------
(* Plugin files: the list of plugins *)

PluginsOK(plugins) == plugins \in Seq(Plugin) /\ OneCopyEach(plugins)

HasCopy(plugins, path) == \E j \in DOMAIN plugins : UTIL_PathCmp(plugins[j].file, path)

\* The copies that run, those of this reading and those from before it.
NewRunning(plugins) == {p \in RunningIn(plugins) : p.new}
OldRunning(plugins) == {p \in RunningIn(plugins) : ~p.new}

\* The elements of a list of plugins.
LEMMA PluginAt ==
    ASSUME NEW ps, PluginsOK(ps)
    PROVE  /\ \A j \in DOMAIN ps : ps[j] \in Plugin /\ ps[j] \in Elements(ps)
           /\ \A p \in Elements(ps) : p \in Plugin /\ \E j \in DOMAIN ps : p = ps[j]
<1>1. ps \in Seq(Plugin)
  BY DEF PluginsOK
<1>2. \A j \in DOMAIN ps : ps[j] \in Plugin
  BY <1>1
<1>. QED
  BY <1>2 DEF Elements

\* A part of the list, in its order.
LEMMA FewerPlugins ==
    ASSUME NEW ps, PluginsOK(ps), NEW t, t \in Seq(Plugin), InOrder(ps, t)
    PROVE  PluginsOK(t)
<1>1. \A s : s \in Seq(Plugin) => DOMAIN s \subseteq Nat
  OBVIOUS
<1>2. DOMAIN t \subseteq Nat /\ DOMAIN ps \subseteq Nat
  BY <1>1 DEF PluginsOK
<1>3. ASSUME NEW i \in DOMAIN t, NEW j \in DOMAIN t, i < j
      PROVE  ~UTIL_PathCmp(t[i].file, t[j].file)
  <2>1. PICK a, b \in DOMAIN ps : a < b /\ t[i] = ps[a] /\ t[j] = ps[b]
    BY <1>3 DEF InOrder
  <2>2. a # b
    BY <1>2, <2>1
  <2>. QED
    BY <2>1, <2>2 DEF PluginsOK, OneCopyEach
<1>4. ASSUME NEW i \in DOMAIN t, NEW j \in DOMAIN t, UTIL_PathCmp(t[i].file, t[j].file)
      PROVE  i = j
  <2>1. i \in Nat /\ j \in Nat
    BY <1>2
  <2>2. UTIL_PathCmp(t[j].file, t[i].file)
    BY <1>4 DEF UTIL_PathCmp
  <2>3. ~(i < j) /\ ~(j < i)
    BY <1>3, <1>4, <2>2
  <2>. QED
    BY <2>1, <2>3
<1>. QED
  BY <1>4 DEF PluginsOK, OneCopyEach

\* Copies of path that do not run are dropped.
FailedOf(M, path) == \A p \in M : ~p.runs /\ UTIL_PathCmp(path, p.file)

LEMMA FailedDropped ==
    ASSUME NEW ps, PluginsOK(ps), NEW path, NEW M, FailedOf(M, path), NEW t, t = Without(ps, M)
    PROVE  /\ PluginsOK(t) /\ RunningIn(t) = RunningIn(ps) /\ Elements(t) = Elements(ps) \ M
           /\ \A q : HasCopy(ps, q) => HasCopy(t, q) \/ UTIL_PathCmp(path, q)
<1>1. ps \in Seq(Plugin)
  BY DEF PluginsOK
<1>2. t \in Seq(Plugin) /\ Elements(t) = Elements(ps) \ M /\ InOrder(ps, t)
  BY <1>1, WithoutInOrder
<1>3. PluginsOK(t)
  BY <1>2, FewerPlugins
<1>4. RunningIn(t) = RunningIn(ps)
  BY <1>2 DEF RunningIn, FailedOf
<1>5. ASSUME NEW q, HasCopy(ps, q), ~UTIL_PathCmp(path, q)
      PROVE  HasCopy(t, q)
  <2>1. PICK j \in DOMAIN ps : UTIL_PathCmp(ps[j].file, q)
    BY <1>5 DEF HasCopy
  <2>2. ps[j] \notin M
    <3>1. ~UTIL_PathCmp(path, ps[j].file)
      BY <1>5, <2>1 DEF UTIL_PathCmp
    <3>. QED
      BY <3>1 DEF FailedOf
  <2>3. ps[j] \in Elements(t)
    BY <1>2, <2>2, PluginAt
  <2>4. PICK i \in DOMAIN t : t[i] = ps[j]
    BY <1>3, <2>3, PluginAt
  <2>. QED
    BY <2>1, <2>4 DEF HasCopy
<1>. QED
  BY <1>2, <1>3, <1>4, <1>5

\* A copy of a file that has none is added.
LEMMA CopyAdded ==
    ASSUME NEW ps, PluginsOK(ps), NEW e \in Plugin, ~HasCopy(ps, e.file), NEW t, t = Append(ps, e)
    PROVE  /\ PluginsOK(t) /\ Elements(t) = Elements(ps) \cup {e}
           /\ HasCopy(t, e.file) /\ \A q : HasCopy(ps, q) => HasCopy(t, q)
<1>1. ps \in Seq(Plugin)
  BY DEF PluginsOK
<1>2. /\ t \in Seq(Plugin) /\ Len(ps) \in Nat /\ DOMAIN ps = 1 .. Len(ps)
      /\ DOMAIN t = 1 .. Len(ps) + 1 /\ t[Len(ps) + 1] = e
      /\ \A j \in 1 .. Len(ps) : t[j] = ps[j]
  BY <1>1
<1>3. PICK n : n = Len(ps) + 1
  OBVIOUS
<1>4. /\ n \in DOMAIN t /\ t[n] = e /\ n \notin DOMAIN ps
      /\ DOMAIN t = DOMAIN ps \cup {n}
      /\ \A j \in DOMAIN ps : t[j] = ps[j]
  BY <1>2, <1>3
<1>5. ASSUME NEW j \in DOMAIN ps
      PROVE  ~UTIL_PathCmp(t[j].file, t[n].file) /\ ~UTIL_PathCmp(t[n].file, t[j].file)
  BY <1>4 DEF HasCopy, UTIL_PathCmp
<1>6. OneCopyEach(t)
  <2>1. ASSUME NEW i \in DOMAIN t, NEW j \in DOMAIN t, UTIL_PathCmp(t[i].file, t[j].file)
        PROVE  i = j
    <3>1. CASE i \in DOMAIN ps /\ j \in DOMAIN ps
      BY <1>4, <2>1, <3>1 DEF PluginsOK, OneCopyEach
    <3>2. CASE i = n \/ j = n
      BY <1>4, <1>5, <2>1, <3>2
    <3>. QED
      BY <1>4, <3>1, <3>2
  <2>. QED
    BY <2>1 DEF OneCopyEach
<1>7. PluginsOK(t)
  BY <1>2, <1>6 DEF PluginsOK
<1>8. Elements(t) = Elements(ps) \cup {e}
  BY <1>4 DEF Elements
<1>9. HasCopy(t, e.file)
  BY <1>4 DEF HasCopy, UTIL_PathCmp
<1>10. \A q : HasCopy(ps, q) => HasCopy(t, q)
  BY <1>4 DEF HasCopy
<1>. QED
  BY <1>7, <1>8, <1>9, <1>10

\* What a call of Load does to the list: afterwards the file is in it, once, and no
\* other file is gone; and what runs is as it was, or a new copy runs, too.
LoadedInto(ps, t, path, already, loaded) ==
    /\ PluginsOK(t) /\ HasCopy(t, path)
    /\ \A q : HasCopy(ps, q) => HasCopy(t, q)
    /\ OldRunning(t) = OldRunning(ps)
    /\ \/ NewRunning(t) = NewRunning(ps) /\ (loaded => already)
       \/ loaded /\ \E p : p \notin NewRunning(ps) /\ NewRunning(t) = NewRunning(ps) \cup {p}

LoadResult(s, t, already, loaded) == [s EXCEPT !.plugins = t, !.already = already, !.loaded = loaded]

\* A running copy is found.
LEMMA RunningCopyIs ==
    ASSUME NEW s, PluginsOK(s.plugins), NEW path, NEW k, k = RunningCopy(s, path)
    PROVE  /\ k # 0 => k \in DOMAIN s.plugins /\ s.plugins[k].runs /\ UTIL_PathCmp(path, s.plugins[k].file)
           /\ k = 0 => \A j \in DOMAIN s.plugins : ~(s.plugins[j].runs /\ UTIL_PathCmp(path, s.plugins[j].file))
<1>1. PICK D : D = {j \in DOMAIN s.plugins : s.plugins[j].runs /\ UTIL_PathCmp(path, s.plugins[j].file)}
  OBVIOUS
<1>2. \A ps : ps \in Seq(Plugin) => DOMAIN ps \subseteq Nat \ {0}
  OBVIOUS
<1>3. D \subseteq Nat \ {0}
  BY <1>1, <1>2 DEF PluginsOK
<1>4. /\ Lowest(D) = 0 => D = {}
      /\ D = {} => Lowest(D) = 0
      /\ D # {} => Lowest(D) \in D
  BY <1>3, LowestIs
<1>5. k = Lowest(D)
  BY <1>1 DEF RunningCopy
<1>. QED
  BY <1>1, <1>4, <1>5

\* CPluginManager::Load does that.
LEMMA LoadLoads ==
    ASSUME NEW s, PluginsOK(s.plugins), NEW path \in Path, NEW starts \in BOOLEAN
    PROVE  \E t : \E already, loaded \in BOOLEAN :
              /\ LoadedInto(s.plugins, t, path, already, loaded)
              /\ Load(s, path, starts) = LoadResult(s, t, already, loaded)
<1>1. PICK ps : ps = s.plugins
  OBVIOUS
<1>2. PICK k : k = RunningCopy(s, path)
  OBVIOUS
<1>3. PICK failed : failed = {i \in DOMAIN s.plugins : /\ k = 0 \/ i < k
                                          /\ ~s.plugins[i].runs /\ UTIL_PathCmp(path, s.plugins[i].file)}
  OBVIOUS
<1>4. PICK M : M = {s.plugins[i] : i \in failed}
  OBVIOUS
<1>5. PICK kept : kept = Without(ps, M)
  OBVIOUS
<1>6. Load(s, path, starts) =
         IF k # 0 THEN [s EXCEPT !.plugins = kept, !.already = TRUE, !.loaded = TRUE]
         ELSE [s EXCEPT !.plugins = Append(kept, NewCopy(path, starts)),
                        !.already = failed # {}, !.loaded = starts]
  BY <1>1, <1>2, <1>3, <1>4, <1>5 DEF Load
<1>7. FailedOf(M, path)
  BY <1>3, <1>4 DEF FailedOf
<1>8. /\ PluginsOK(kept) /\ RunningIn(kept) = RunningIn(ps) /\ Elements(kept) = Elements(ps) \ M
      /\ \A q : HasCopy(ps, q) => HasCopy(kept, q) \/ UTIL_PathCmp(path, q)
  BY <1>1, <1>5, <1>7, FailedDropped
<1>9. /\ k # 0 => k \in DOMAIN ps /\ ps[k].runs /\ UTIL_PathCmp(path, ps[k].file)
      /\ k = 0 => \A j \in DOMAIN ps : ~(ps[j].runs /\ UTIL_PathCmp(path, ps[j].file))
  BY <1>1, <1>2, RunningCopyIs
<1>10. CASE k # 0
  <2>1. Load(s, path, starts) = LoadResult(s, kept, TRUE, TRUE)
    BY <1>6, <1>10 DEF LoadResult
  <2>2. ps[k] \in Elements(kept)
    <3>1. ps[k] \notin M
      BY <1>7, <1>9, <1>10 DEF FailedOf
    <3>. QED
      BY <1>1, <1>8, <1>9, <1>10, <3>1, PluginAt
  <2>3. PICK j \in DOMAIN kept : kept[j] = ps[k]
    BY <1>8, <2>2, PluginAt
  <2>4. HasCopy(kept, path)
    BY <1>9, <1>10, <2>3 DEF HasCopy, UTIL_PathCmp
  <2>5. \A q : HasCopy(ps, q) => HasCopy(kept, q)
    BY <1>8, <2>4 DEF HasCopy, UTIL_PathCmp
  <2>6. LoadedInto(ps, kept, path, TRUE, TRUE)
    BY <1>8, <2>4, <2>5 DEF LoadedInto, OldRunning, NewRunning
  <2>. QED
    BY <1>1, <2>1, <2>6
<1>11. CASE k = 0
  <2>1. PICK e : e = NewCopy(path, starts)
    OBVIOUS
  <2>2. e \in Plugin /\ e.file = path /\ e.runs = starts /\ e.new
    BY <2>1 DEF Plugin, NewCopy
  <2>3. PICK t : t = Append(kept, e)
    OBVIOUS
  <2>4. PICK already \in BOOLEAN : already = (failed # {})
    OBVIOUS
  <2>5. Load(s, path, starts) = LoadResult(s, t, already, starts)
    BY <1>6, <1>11, <2>1, <2>3, <2>4 DEF LoadResult
  <2>6. ~HasCopy(kept, e.file)
    <3>1. SUFFICES ASSUME NEW j \in DOMAIN kept, UTIL_PathCmp(kept[j].file, path)
                   PROVE  FALSE
      BY <2>2 DEF HasCopy
    <3>2. kept[j] \in Elements(ps) /\ kept[j] \notin M
      BY <1>8, PluginAt
    <3>3. PICK i \in DOMAIN ps : kept[j] = ps[i]
      BY <1>1, <3>2, PluginAt
    <3>4. UTIL_PathCmp(path, ps[i].file)
      BY <3>1, <3>3 DEF UTIL_PathCmp
    <3>5. i \in failed
      BY <1>1, <1>3, <1>9, <1>11, <3>4
    <3>. QED
      BY <1>1, <1>4, <3>2, <3>3, <3>5
  <2>7. /\ PluginsOK(t) /\ Elements(t) = Elements(kept) \cup {e}
        /\ HasCopy(t, e.file) /\ \A q : HasCopy(kept, q) => HasCopy(t, q)
    BY <1>8, <2>2, <2>3, <2>6, CopyAdded
  <2>8. \A q : HasCopy(ps, q) => HasCopy(t, q)
    <3>1. \A q : UTIL_PathCmp(path, q) => HasCopy(t, q)
      BY <2>2, <2>7 DEF HasCopy, UTIL_PathCmp
    <3>. QED
      BY <1>8, <2>7, <3>1
  <2>9. OldRunning(t) = OldRunning(ps)
    BY <1>8, <2>2, <2>7 DEF OldRunning, RunningIn
  <2>10. CASE starts
    <3>1. NewRunning(t) = NewRunning(ps) \cup {e}
      BY <1>8, <2>2, <2>7, <2>10 DEF NewRunning, RunningIn
    <3>2. e \notin NewRunning(ps)
      <4>1. SUFFICES ASSUME e \in NewRunning(ps)
                     PROVE  FALSE
        OBVIOUS
      <4>2. e \in Elements(ps)
        BY <4>1 DEF NewRunning, RunningIn
      <4>3. PICK i \in DOMAIN ps : ps[i] = e
        BY <1>1, <4>2, PluginAt
      <4>. QED
        BY <1>9, <1>11, <2>2, <2>10, <4>3 DEF UTIL_PathCmp
    <3>3. LoadedInto(ps, t, path, already, starts)
      BY <2>2, <2>7, <2>8, <2>9, <2>10, <3>1, <3>2 DEF LoadedInto
    <3>. QED
      BY <1>1, <2>5, <3>3
  <2>11. CASE ~starts
    <3>1. NewRunning(t) = NewRunning(ps)
      BY <1>8, <2>2, <2>7, <2>11 DEF NewRunning, RunningIn
    <3>2. LoadedInto(ps, t, path, already, starts)
      BY <2>2, <2>7, <2>8, <2>9, <2>11, <3>1 DEF LoadedInto
    <3>. QED
      BY <1>1, <2>5, <3>2
  <2>. QED
    BY <2>10, <2>11
<1>. QED
  BY <1>10, <1>11

-----------------------------------------------------------------------------
(* Plugin files: what has been read *)

\* The entries of a reading, as EntryAt has them, and those of the first n that name
\* a plugin or set the alias a.
EntryOf(s, k) ==
    IF k <= Len(s.lines) THEN LineEntry(s.lines[k]) ELSE VdfEntry(s.vdfs[k - Len(s.lines)])
NamedUpTo(s, n) == {k \in 1 .. n : EntryOf(s, k).names}
SettersUpTo(s, n, a) == {k \in NamedUpTo(s, n) : EntryOf(s, k).alias = a}

\* Every file read so far is in the list.
FilesRead(s, n) ==
    \A k \in NamedUpTo(s, n) : HasCopy(s.plugins, GetFullPluginPath(EntryOf(s, k).file, s.disk))

\* Every alias set so far leads to the file it was set to last.
AliasesRead(s, n) ==
    \A a \in Names \ {Empty} : SettersUpTo(s, n, a) # {} =>
       \E k \in SettersUpTo(s, n, a) : /\ \A j \in SettersUpTo(s, n, a) : j <= k
                                       /\ LookupAlias(s.aliases, a) = EntryOf(s, k).file

\* The counters account for the new copies that run, and for no more than was read.
CountsRead(s, n) ==
    LET c == Cardinality(NewRunning(s.plugins)) IN
    s.total <= c /\ c <= s.total + s.skipped /\ s.total + s.skipped <= Cardinality(NamedUpTo(s, n))

ReadUpTo(s, n) ==
    /\ FilesRead(s, n) /\ AliasesRead(s, n) /\ CountsRead(s, n)
    /\ s.old = {p.file : p \in OldRunning(s.plugins)}

\* t is s after the entry e: it names no plugin and changes nothing, or its alias is
\* set and its file loaded and counted.
CountedAs(s, t, already, loaded) ==
    \/ loaded /\ ~already /\ t.total = s.total + 1 /\ t.skipped = s.skipped
    \/ loaded /\ already /\ t.total = s.total /\ t.skipped = s.skipped + 1
    \/ ~loaded /\ t.total = s.total /\ t.skipped \in {s.skipped, s.skipped + 1}

NothingRead(s, t) ==
    t.plugins = s.plugins /\ t.aliases = s.aliases /\ t.total = s.total /\ t.skipped = s.skipped

PluginRead(s, t, e) ==
    /\ \/ e.alias = Empty /\ t.aliases = s.aliases
       \/ e.alias # Empty /\ AliasSet(s.aliases, t.aliases, e.alias, e.file)
    /\ \E already, loaded \in BOOLEAN :
          /\ LoadedInto(s.plugins, t.plugins, GetFullPluginPath(e.file, s.disk), already, loaded)
          /\ CountedAs(s, t, already, loaded)

SameFiles(s, t) == t.lines = s.lines /\ t.vdfs = s.vdfs /\ t.disk = s.disk /\ t.old = s.old

\* Reading the same files, entries are the same.
LEMMA SameEntries ==
    ASSUME NEW s, NEW t, SameFiles(s, t)
    PROVE  /\ \A k : EntryOf(t, k) = EntryOf(s, k)
           /\ \A n : NamedUpTo(t, n) = NamedUpTo(s, n)
           /\ \A n, a : SettersUpTo(t, n, a) = SettersUpTo(s, n, a)
<1>1. \A k : EntryOf(t, k) = EntryOf(s, k)
  BY DEF SameFiles, EntryOf
<1>2. \A n : NamedUpTo(t, n) = NamedUpTo(s, n)
  BY <1>1 DEF NamedUpTo
<1>. QED
  BY <1>1, <1>2 DEF SettersUpTo

\* One more entry.
LEMMA OneMore ==
    ASSUME NEW s, NEW n \in Nat
    PROVE  /\ EntryOf(s, n + 1).names => NamedUpTo(s, n + 1) = NamedUpTo(s, n) \cup {n + 1}
           /\ ~EntryOf(s, n + 1).names => NamedUpTo(s, n + 1) = NamedUpTo(s, n)
           /\ n + 1 \notin NamedUpTo(s, n) /\ \A k \in NamedUpTo(s, n) : k \in Nat /\ k <= n
<1>1. PICK P : P = {k \in 1 .. n + 1 : EntryOf(s, k).names}
  OBVIOUS
<1>2. PICK Q : Q = {k \in 1 .. n : EntryOf(s, k).names}
  OBVIOUS
<1>3. NamedUpTo(s, n + 1) = P /\ NamedUpTo(s, n) = Q
  BY <1>1, <1>2 DEF NamedUpTo
<1>4. 1 .. n + 1 = (1 .. n) \cup {n + 1}
  OBVIOUS
<1>5. EntryOf(s, n + 1).names => P = Q \cup {n + 1}
  BY <1>1, <1>2, <1>4
<1>6. ~EntryOf(s, n + 1).names => P = Q
  BY <1>1, <1>2, <1>4
<1>7. n + 1 \notin Q /\ \A k \in Q : k \in Nat /\ k <= n
  BY <1>2
<1>. QED
  BY <1>3, <1>5, <1>6, <1>7

\* The sets that are counted are finite.
LEMMA FiniteCounts ==
    /\ \A s : \A n \in Nat : IsFiniteSet(NamedUpTo(s, n))
    /\ \A ps : PluginsOK(ps) => IsFiniteSet(NewRunning(ps))
<1>1. ASSUME NEW s, NEW n \in Nat
      PROVE  IsFiniteSet(NamedUpTo(s, n))
  <2>1. IsFiniteSet(1 .. n)
    BY FS_Interval
  <2>2. NamedUpTo(s, n) \in SUBSET (1 .. n)
    BY DEF NamedUpTo
  <2>. QED
    BY <2>1, <2>2, FS_Subset
<1>2. ASSUME NEW ps, PluginsOK(ps)
      PROVE  IsFiniteSet(NewRunning(ps))
  <2>1. PICK D : D = DOMAIN ps
    OBVIOUS
  <2>2. IsFiniteSet(D)
    <3>1. PICK m \in Nat : D = 1 .. m
      <4>1. ps \in Seq(Plugin)
        BY <1>2 DEF PluginsOK
      <4>2. Len(ps) \in Nat /\ DOMAIN ps = 1 .. Len(ps)
        BY <4>1
      <4>. QED
        BY <2>1, <4>2
    <3>. QED
      BY <3>1, FS_Interval
  <2>3. PICK R : R = {ps[j] : j \in D}
    OBVIOUS
  <2>4. PICK f : f = [j \in D |-> ps[j]]
    OBVIOUS
  <2>5. f \in Surjection(D, R)
    BY <2>3, <2>4 DEF Surjection
  <2>6. IsFiniteSet(R)
    BY <2>2, <2>5, FS_Surjection
  <2>7. NewRunning(ps) \in SUBSET R
    BY <2>1, <2>3 DEF NewRunning, RunningIn, Elements
  <2>. QED
    BY <2>6, <2>7, FS_Subset
<1>. QED
  BY <1>1, <1>2

\* The new copies are as many as before or, when the file was loaded, one more.
LEMMA NewCounted ==
    ASSUME NEW ps, PluginsOK(ps), NEW t, NEW path, NEW already \in BOOLEAN, NEW loaded \in BOOLEAN,
           LoadedInto(ps, t, path, already, loaded)
    PROVE  /\ Cardinality(NewRunning(ps)) \in Nat
           /\ \/ Cardinality(NewRunning(t)) = Cardinality(NewRunning(ps)) /\ (loaded => already)
              \/ loaded /\ Cardinality(NewRunning(t)) = Cardinality(NewRunning(ps)) + 1
<1>1. IsFiniteSet(NewRunning(ps))
  BY FiniteCounts
<1>2. Cardinality(NewRunning(ps)) \in Nat
  BY <1>1, FS_CardinalityType
<1>3. CASE NewRunning(t) = NewRunning(ps) /\ (loaded => already)
  BY <1>2, <1>3
<1>4. CASE loaded /\ \E p : p \notin NewRunning(ps) /\ NewRunning(t) = NewRunning(ps) \cup {p}
  <2>1. PICK p : p \notin NewRunning(ps) /\ NewRunning(t) = NewRunning(ps) \cup {p}
    BY <1>4
  <2>2. Cardinality(NewRunning(ps) \cup {p}) = Cardinality(NewRunning(ps)) + 1
    BY <1>1, <2>1, FS_AddElement
  <2>. QED
    BY <1>2, <1>4, <2>1, <2>2
<1>. QED
  BY <1>3, <1>4 DEF LoadedInto

\* An entry that names no plugin leaves everything as it was.
LEMMA NothingReadKeeps ==
    ASSUME NEW s, NEW t, NEW n \in Nat, ReadUpTo(s, n), SameFiles(s, t),
           ~EntryOf(s, n + 1).names, NothingRead(s, t)
    PROVE  ReadUpTo(t, n + 1)
<1>1. NamedUpTo(t, n + 1) = NamedUpTo(s, n)
  BY SameEntries, OneMore
<1>2. \A a : SettersUpTo(t, n + 1, a) = SettersUpTo(s, n, a)
  BY <1>1, SameEntries DEF SettersUpTo
<1>3. \A k : EntryOf(t, k) = EntryOf(s, k)
  BY SameEntries
<1>4. /\ t.plugins = s.plugins /\ t.aliases = s.aliases /\ t.total = s.total /\ t.skipped = s.skipped
      /\ t.disk = s.disk /\ t.old = s.old
  BY DEF SameFiles, NothingRead
<1>5. FilesRead(t, n + 1)
  BY <1>1, <1>3, <1>4 DEF FilesRead, ReadUpTo
<1>6. AliasesRead(t, n + 1)
  BY <1>2, <1>3, <1>4 DEF AliasesRead, ReadUpTo
<1>7. CountsRead(t, n + 1)
  BY <1>1, <1>4 DEF CountsRead, ReadUpTo
<1>. QED
  BY <1>4, <1>5, <1>6, <1>7 DEF ReadUpTo

\* An entry that names one adds it.
LEMMA PluginReadKeeps ==
    ASSUME NEW s, NEW t, NEW n \in Nat, ReadUpTo(s, n), SameFiles(s, t), PluginsOK(s.plugins),
           AliasesOK(s.aliases), s.total \in Nat, s.skipped \in Nat,
           EntryOf(s, n + 1).names, PluginRead(s, t, EntryOf(s, n + 1))
    PROVE  ReadUpTo(t, n + 1) /\ PluginsOK(t.plugins) /\ AliasesOK(t.aliases)
<1>1. PICK e : e = EntryOf(s, n + 1)
  OBVIOUS
<1>2. PICK m : m = n + 1
  OBVIOUS
<1>3. /\ NamedUpTo(t, m) = NamedUpTo(s, n) \cup {m} /\ m \notin NamedUpTo(s, n)
      /\ \A k \in NamedUpTo(s, n) : k \in Nat /\ k <= m
  <2>1. NamedUpTo(s, n + 1) = NamedUpTo(s, n) \cup {n + 1}
    BY OneMore
  <2>2. n + 1 \notin NamedUpTo(s, n) /\ \A k \in NamedUpTo(s, n) : k \in Nat /\ k <= n
    BY OneMore
  <2>3. NamedUpTo(t, n + 1) = NamedUpTo(s, n + 1)
    BY SameEntries
  <2>. QED
    BY <1>2, <2>1, <2>2, <2>3
<1>4. \A k : EntryOf(t, k) = EntryOf(s, k)
  BY SameEntries
<1>5. PICK already, loaded \in BOOLEAN :
          /\ LoadedInto(s.plugins, t.plugins, GetFullPluginPath(e.file, s.disk), already, loaded)
          /\ CountedAs(s, t, already, loaded)
  BY <1>1 DEF PluginRead
<1>6. \/ e.alias = Empty /\ t.aliases = s.aliases
      \/ e.alias # Empty /\ AliasSet(s.aliases, t.aliases, e.alias, e.file)
  BY <1>1 DEF PluginRead
<1>7. t.disk = s.disk /\ t.old = s.old
  BY DEF SameFiles
<1>8. FilesRead(t, m)
  <2>1. SUFFICES ASSUME NEW k \in NamedUpTo(t, m)
                 PROVE  HasCopy(t.plugins, GetFullPluginPath(EntryOf(s, k).file, s.disk))
    BY <1>4, <1>7 DEF FilesRead
  <2>2. CASE k = m
    BY <1>1, <1>2, <1>5, <2>2 DEF LoadedInto
  <2>3. CASE k \in NamedUpTo(s, n)
    BY <1>5, <2>3 DEF LoadedInto, ReadUpTo, FilesRead
  <2>. QED
    BY <1>3, <2>2, <2>3
<1>9. AliasesRead(t, m)
  <2>1. SUFFICES ASSUME NEW a \in Names \ {Empty}, SettersUpTo(t, m, a) # {}
                 PROVE  \E k \in SettersUpTo(t, m, a) :
                           /\ \A j \in SettersUpTo(t, m, a) : j <= k
                           /\ LookupAlias(t.aliases, a) = EntryOf(s, k).file
    BY <1>4 DEF AliasesRead
  <2>2. \A k : k \in SettersUpTo(t, m, a) <=> k \in NamedUpTo(t, m) /\ EntryOf(s, k).alias = a
    BY <1>4 DEF SettersUpTo
  <2>3. CASE e.alias = a
    <3>1. m \in SettersUpTo(t, m, a)
      BY <1>1, <1>2, <1>3, <2>2, <2>3
    <3>2. \A j \in SettersUpTo(t, m, a) : j <= m
      BY <1>2, <1>3, <2>2
    <3>3. LookupAlias(t.aliases, a) = e.file
      BY <1>6, <2>3 DEF AliasSet
    <3>. QED
      BY <1>1, <1>2, <3>1, <3>2, <3>3
  <2>4. CASE e.alias # a
    <3>1. SettersUpTo(t, m, a) = SettersUpTo(s, n, a)
      BY <1>1, <1>2, <1>3, <2>2, <2>4 DEF SettersUpTo
    <3>2. LookupAlias(t.aliases, a) = LookupAlias(s.aliases, a)
      BY <1>6, <2>4 DEF AliasSet
    <3>3. AliasesRead(s, n)
      BY DEF ReadUpTo
    <3>. QED
      BY <2>1, <3>1, <3>2, <3>3 DEF AliasesRead
  <2>. QED
    BY <2>3, <2>4
<1>10. CountsRead(t, m)
  <2>1. PICK c : c = Cardinality(NewRunning(s.plugins))
    OBVIOUS
  <2>2. PICK d : d = Cardinality(NewRunning(t.plugins))
    OBVIOUS
  <2>3. PICK x : x = Cardinality(NamedUpTo(s, n))
    OBVIOUS
  <2>4. /\ c \in Nat
        /\ \/ d = c /\ (loaded => already)
           \/ loaded /\ d = c + 1
    BY <1>5, <2>1, <2>2, NewCounted
  <2>5. IsFiniteSet(NamedUpTo(s, n))
    BY FiniteCounts
  <2>6. x \in Nat
    BY <2>3, <2>5, FS_CardinalityType
  <2>7. Cardinality(NamedUpTo(t, m)) = x + 1
    BY <1>3, <2>3, <2>5, FS_AddElement
  <2>8. s.total <= c /\ c <= s.total + s.skipped /\ s.total + s.skipped <= x
    BY <2>1, <2>3 DEF ReadUpTo, CountsRead
  <2>9. t.total <= d /\ d <= t.total + t.skipped /\ t.total + t.skipped <= x + 1
    BY <1>5, <2>4, <2>6, <2>8 DEF CountedAs
  <2>. QED
    BY <2>2, <2>7, <2>9 DEF CountsRead
<1>11. t.old = {p.file : p \in OldRunning(t.plugins)}
  BY <1>5, <1>7 DEF LoadedInto, ReadUpTo
<1>12. PluginsOK(t.plugins)
  BY <1>5 DEF LoadedInto
<1>13. AliasesOK(t.aliases)
  BY <1>6 DEF AliasSet
<1>14. ReadUpTo(t, m)
  BY <1>8, <1>9, <1>10, <1>11 DEF ReadUpTo
<1>. QED
  BY <1>2, <1>12, <1>13, <1>14

-----------------------------------------------------------------------------
(* Plugin files: a state, and one entry of a reading *)

Phases == {"idle", "file", "vdf", "read"}
Positions == Nat \ {0}

FilesState ==
    [lines : Seq(Lines), vdfs : Seq(Vdfs), disk : SUBSET Files, aliases : Seq(Alias), plugins : Seq(Plugin),
     pc : Phases, at : Positions, total : Nat, skipped : Nat,
     already : BOOLEAN, loaded : BOOLEAN, old : SUBSET Path, commands : Nat]

FilesTypes(s) == s \in FilesState /\ PluginsOK(s.plugins) /\ AliasesOK(s.aliases)

\* t continues the reading of s.
Continues(s, t) ==
    t \in FilesState /\ SameFiles(s, t) /\ t.pc = s.pc /\ t.at = s.at /\ t.commands = s.commands

\* Aliases are replaced.
LEMMA AliasesReplaced ==
    ASSUME NEW s \in FilesState, NEW al \in Seq(Alias), NEW t, t = [s EXCEPT !.aliases = al]
    PROVE  /\ Continues(s, t) /\ t.aliases = al /\ t.plugins = s.plugins
           /\ t.total = s.total /\ t.skipped = s.skipped
BY DEF FilesState, Continues, SameFiles

\* Plugins are replaced.
LEMMA PluginsReplaced ==
    ASSUME NEW s \in FilesState, NEW ps \in Seq(Plugin), NEW already \in BOOLEAN, NEW loaded \in BOOLEAN,
           NEW t, t = LoadResult(s, ps, already, loaded)
    PROVE  /\ Continues(s, t) /\ t.plugins = ps /\ t.already = already /\ t.loaded = loaded
           /\ t.aliases = s.aliases /\ t.total = s.total /\ t.skipped = s.skipped
BY DEF FilesState, Continues, SameFiles, LoadResult

\* A counter is counted up.
LEMMA CountedUp ==
    ASSUME NEW s \in FilesState, NEW skip \in BOOLEAN, NEW success \in BOOLEAN,
           NEW t, t = Counted(s, skip, success)
    PROVE  /\ Continues(s, t) /\ t.plugins = s.plugins /\ t.aliases = s.aliases
           /\ t.total = (IF ~skip /\ success THEN s.total + 1 ELSE s.total)
           /\ t.skipped = (IF skip THEN s.skipped + 1 ELSE s.skipped)
<1>1. CASE skip
  <2>1. PICK n : n = s.skipped + 1
    OBVIOUS
  <2>2. t = [s EXCEPT !.skipped = n]
    BY <1>1, <2>1 DEF Counted
  <2>3. n \in Nat
    BY <2>1 DEF FilesState
  <2>. QED
    BY <1>1, <2>1, <2>2, <2>3 DEF FilesState, Continues, SameFiles
<1>2. CASE ~skip /\ success
  <2>1. PICK n : n = s.total + 1
    OBVIOUS
  <2>2. t = [s EXCEPT !.total = n]
    BY <1>2, <2>1 DEF Counted
  <2>3. n \in Nat
    BY <2>1 DEF FilesState
  <2>. QED
    BY <1>2, <2>1, <2>2, <2>3 DEF FilesState, Continues, SameFiles
<1>3. CASE ~skip /\ ~success
  <2>1. t = s
    BY <1>3 DEF Counted
  <2>. QED
    BY <1>3, <2>1 DEF FilesState, Continues, SameFiles
<1>. QED
  BY <1>1, <1>2, <1>3

\* Loading a file with the aliases al and counting it is what PluginRead says.
LEMMA LoadedAndCounted ==
    ASSUME NEW s, FilesTypes(s), NEW e, NEW u, Continues(s, u), u.plugins = s.plugins,
           u.total = s.total, u.skipped = s.skipped,
           \/ e.alias = Empty /\ u.aliases = s.aliases
           \/ e.alias # Empty /\ AliasSet(s.aliases, u.aliases, e.alias, e.file),
           NEW path \in Path, path = GetFullPluginPath(e.file, s.disk), NEW starts \in BOOLEAN,
           NEW v, v = Load(u, path, starts), NEW t,
           \/ t = Counted(v, v.loaded /\ v.already, v.loaded)
           \/ t = Counted(v, v.already, v.loaded)
    PROVE  Continues(s, t) /\ PluginRead(s, t, e)
<1>1. u \in FilesState /\ PluginsOK(u.plugins)
  BY DEF FilesTypes, Continues
<1>2. PICK ps : \E already, loaded \in BOOLEAN :
              /\ LoadedInto(u.plugins, ps, path, already, loaded)
              /\ Load(u, path, starts) = LoadResult(u, ps, already, loaded)
  BY <1>1, LoadLoads
<1>3. PICK already, loaded \in BOOLEAN :
              /\ LoadedInto(s.plugins, ps, path, already, loaded)
              /\ v = LoadResult(u, ps, already, loaded)
  BY <1>2
<1>4. ps \in Seq(Plugin)
  BY <1>3 DEF LoadedInto, PluginsOK
<1>5. /\ Continues(u, v) /\ v.plugins = ps /\ v.already = already /\ v.loaded = loaded
      /\ v.aliases = u.aliases /\ v.total = u.total /\ v.skipped = u.skipped
  BY <1>1, <1>3, <1>4, PluginsReplaced
<1>6. v \in FilesState
  BY <1>5 DEF Continues
<1>7. s.total \in Nat /\ s.skipped \in Nat
  BY DEF FilesTypes, FilesState
<1>8. /\ Continues(v, t) /\ t.plugins = ps /\ t.aliases = u.aliases
      /\ CountedAs(s, t, already, loaded)
  <2>1. CASE t = Counted(v, loaded /\ already, loaded)
    <3>1. (loaded /\ already) \in BOOLEAN
      OBVIOUS
    <3>2. PICK skip \in BOOLEAN : skip = (loaded /\ already)
      BY <3>1
    <3>3. t = Counted(v, skip, loaded)
      BY <2>1, <3>2
    <3>4. /\ Continues(v, t) /\ t.plugins = v.plugins /\ t.aliases = v.aliases
          /\ t.total = (IF ~skip /\ loaded THEN v.total + 1 ELSE v.total)
          /\ t.skipped = (IF skip THEN v.skipped + 1 ELSE v.skipped)
      BY <1>6, <3>3, CountedUp
    <3>. QED
      BY <1>5, <1>7, <3>2, <3>4 DEF CountedAs
  <2>2. CASE t = Counted(v, already, loaded)
    <3>1. /\ Continues(v, t) /\ t.plugins = v.plugins /\ t.aliases = v.aliases
          /\ t.total = (IF ~already /\ loaded THEN v.total + 1 ELSE v.total)
          /\ t.skipped = (IF already THEN v.skipped + 1 ELSE v.skipped)
      BY <1>6, <2>2, CountedUp
    <3>. QED
      BY <1>3, <1>5, <1>7, <3>1 DEF CountedAs
  <2>. QED
    BY <1>5, <2>1, <2>2
<1>9. Continues(s, t)
  BY <1>5, <1>8 DEF Continues, SameFiles
<1>10. PluginRead(s, t, e)
  BY <1>3, <1>8 DEF PluginRead
<1>. QED
  BY <1>9, <1>10

\* The path of a name is one, whatever is on disk.
LEMMA PathsAre ==
    /\ Names \subseteq Path
    /\ \A name \in Path : \A disk : GetFullPluginPath(name, disk) \in Path
<1>1. Names \subseteq Path
  BY FilesAssumption
<1>2. ASSUME NEW name \in Path, NEW disk
      PROVE  GetFullPluginPath(name, disk) \in Path
  <2>1. CASE name.ext # ""
    BY <2>1 DEF GetFullPluginPath
  <2>2. CASE name.ext = "" /\ <<name.base, Suffixed>> \in disk
    <3>1. GetFullPluginPath(name, disk) = [name EXCEPT !.ext = Suffixed]
      BY <2>2 DEF GetFullPluginPath
    <3>. QED
      BY <3>1 DEF Path
  <2>3. CASE name.ext = "" /\ <<name.base, Suffixed>> \notin disk
    <3>1. GetFullPluginPath(name, disk) = [name EXCEPT !.ext = ".so"]
      BY <2>3 DEF GetFullPluginPath
    <3>. QED
      BY <3>1 DEF Path
  <2>. QED
    BY <2>1, <2>2, <2>3
<1>. QED
  BY <1>1, <1>2

\* What a line names.
LEMMA LineIs ==
    ASSUME NEW line \in Lines
    PROVE  /\ LineFile(line) \in Names
           /\ IsAlias(line) => line.first \in Names \ {Empty} /\ line.second \in Names \ {Empty}
           /\ IsAlias(line) => LineFile(line) = line.second
<1>1. Empty \in Names
  BY FilesAssumption
<1>2. CASE line = Skipped
  BY <1>1, <1>2 DEF LineFile, IsAlias, Skipped
<1>3. CASE line \in {Quoted(n) : n \in Names}
  BY <1>1, <1>3 DEF LineFile, IsAlias, Quoted
<1>4. CASE line \in {OneWord(n) : n \in Names \ {Empty}}
  BY <1>1, <1>4 DEF LineFile, IsAlias, OneWord
<1>5. CASE line \in {TwoWords(n, m, letter) : n \in Names \ {Empty}, m \in Names \ {Empty}, letter \in BOOLEAN}
  BY <1>1, <1>5 DEF LineFile, IsAlias, TwoWords
<1>. QED
  BY <1>2, <1>3, <1>4, <1>5 DEF Lines

\* What a VDF file names.
LEMMA VdfIs ==
    ASSUME NEW vdf \in Vdfs, vdf.good
    PROVE  vdf.file \in Names /\ vdf.alias \in Names
<1>1. vdf # BadVdf
  BY DEF BadVdf
<1>2. vdf \in {Vdf(n, m) : n \in Names, m \in Names}
  BY <1>1 DEF Vdfs
<1>. QED
  BY <1>2 DEF Vdf

EntryRead(s, t, e) ==
    \/ e.names /\ PluginRead(s, t, e)
    \/ ~e.names /\ NothingRead(s, t)

\* One line of metaplugins.ini.
LEMMA LineRead ==
    ASSUME NEW s, FilesTypes(s), NEW line \in Lines, NEW starts \in BOOLEAN,
           NEW t, t = LoadLine(s, line, starts)
    PROVE  Continues(s, t) /\ EntryRead(s, t, LineEntry(line))
<1>1. PICK file : file = LineFile(line)
  OBVIOUS
<1>2. PICK e : e = LineEntry(line)
  OBVIOUS
<1>3. /\ e.names = (file # Empty) /\ e.file = file
      /\ e.alias = (IF IsAlias(line) THEN line.first ELSE Empty)
  BY <1>1, <1>2 DEF LineEntry, Entry
<1>4. PICK al : al = LineAliases(line, s.aliases)
  OBVIOUS
<1>5. PICK u : u = [s EXCEPT !.aliases = al]
  OBVIOUS
<1>6. PICK path : path = GetFullPluginPath(file, s.disk)
  OBVIOUS
<1>7. PICK v : v = Load(u, path, starts)
  OBVIOUS
<1>8. u = [s EXCEPT !.aliases = LineAliases(line, @)]
  BY <1>4, <1>5
<1>9. t = IF file = Empty THEN s ELSE Counted(v, v.loaded /\ v.already, v.loaded)
  BY <1>1, <1>6, <1>7, <1>8 DEF LoadLine
<1>10. CASE file = Empty
  BY <1>2, <1>3, <1>9, <1>10 DEF Continues, SameFiles, EntryRead, NothingRead, FilesTypes
<1>11. CASE file # Empty
  <2>1. file \in Names
    BY <1>1, LineIs
  <2>2. path \in Path
    BY <1>6, <2>1, PathsAre
  <2>3. AliasesOK(s.aliases) /\ s \in FilesState
    BY DEF FilesTypes
  <2>4. /\ AliasesOK(al)
        /\ \/ e.alias = Empty /\ al = s.aliases
           \/ e.alias # Empty /\ AliasSet(s.aliases, al, e.alias, file)
    <3>1. CASE IsAlias(line)
      <4>1. line.first \in Names \ {Empty} /\ file = line.second /\ line.first \in Path /\ file \in Path
        BY <1>1, <3>1, LineIs, PathsAre
      <4>2. al = SetAlias(s.aliases, line.first, file)
        BY <1>4, <3>1, <4>1 DEF LineAliases
      <4>3. AliasSet(s.aliases, al, line.first, file)
        BY <2>3, <4>1, <4>2, SetAliasSets
      <4>. QED
        BY <1>3, <3>1, <4>1, <4>3 DEF AliasSet
    <3>2. CASE ~IsAlias(line)
      BY <1>3, <1>4, <2>3, <3>2 DEF LineAliases
    <3>. QED
      BY <3>1, <3>2
  <2>5. al \in Seq(Alias)
    BY <2>4 DEF AliasesOK
  <2>6. /\ Continues(s, u) /\ u.aliases = al /\ u.plugins = s.plugins
        /\ u.total = s.total /\ u.skipped = s.skipped
    BY <1>5, <2>3, <2>5, AliasesReplaced
  <2>7. t = Counted(v, v.loaded /\ v.already, v.loaded)
    BY <1>9, <1>11
  <2>8. path = GetFullPluginPath(e.file, s.disk)
    BY <1>3, <1>6
  <2>9. \/ e.alias = Empty /\ u.aliases = s.aliases
        \/ e.alias # Empty /\ AliasSet(s.aliases, u.aliases, e.alias, e.file)
    BY <1>3, <2>4, <2>6
  <2>10. Continues(s, t) /\ PluginRead(s, t, e)
    BY <1>7, <2>2, <2>6, <2>7, <2>8, <2>9, LoadedAndCounted
  <2>. QED
    BY <1>2, <1>3, <1>11, <2>10 DEF EntryRead
<1>. QED
  BY <1>10, <1>11

\* One VDF file.
LEMMA VdfRead ==
    ASSUME NEW s, FilesTypes(s), NEW vdf \in Vdfs, NEW starts \in BOOLEAN,
           NEW t, t = LoadVdf(s, vdf, starts)
    PROVE  Continues(s, t) /\ EntryRead(s, t, VdfEntry(vdf))
<1>1. PICK e : e = VdfEntry(vdf)
  OBVIOUS
<1>2. PICK u : u = IF vdf.alias = Empty THEN s
                   ELSE [s EXCEPT !.aliases = SetAlias(@, vdf.alias, vdf.file)]
  OBVIOUS
<1>3. PICK path : path = GetFullPluginPath(vdf.file, s.disk)
  OBVIOUS
<1>4. PICK v : v = Load(u, path, starts)
  OBVIOUS
<1>5. t = IF ~vdf.good THEN s ELSE Counted(v, v.already, v.loaded)
  BY <1>2, <1>3, <1>4 DEF LoadVdf
<1>6. AliasesOK(s.aliases) /\ s \in FilesState
  BY DEF FilesTypes
<1>7. CASE ~vdf.good
  <2>1. e.names = FALSE
    BY <1>1, <1>7 DEF VdfEntry, Entry
  <2>. QED
    BY <1>1, <1>5, <1>6, <1>7, <2>1 DEF Continues, SameFiles, EntryRead, NothingRead
<1>8. CASE vdf.good
  <2>1. e.names = TRUE /\ e.file = vdf.file /\ e.alias = vdf.alias
    BY <1>1, <1>8 DEF VdfEntry, Entry
  <2>2. vdf.file \in Names /\ vdf.alias \in Names
    BY <1>8, VdfIs
  <2>3. path \in Path /\ vdf.file \in Path /\ vdf.alias \in Path
    BY <1>3, <2>2, PathsAre
  <2>4. /\ Continues(s, u) /\ u.plugins = s.plugins /\ u.total = s.total /\ u.skipped = s.skipped
        /\ \/ e.alias = Empty /\ u.aliases = s.aliases
           \/ e.alias # Empty /\ AliasSet(s.aliases, u.aliases, e.alias, e.file)
    <3>1. CASE vdf.alias = Empty
      BY <1>2, <1>6, <2>1, <3>1 DEF Continues, SameFiles
    <3>2. CASE vdf.alias # Empty
      <4>1. PICK al : al = SetAlias(s.aliases, vdf.alias, vdf.file)
        OBVIOUS
      <4>2. AliasSet(s.aliases, al, vdf.alias, vdf.file)
        BY <1>6, <2>3, <4>1, SetAliasSets
      <4>3. al \in Seq(Alias)
        BY <4>2 DEF AliasSet, AliasesOK
      <4>4. u = [s EXCEPT !.aliases = al]
        BY <1>2, <3>2, <4>1
      <4>5. /\ Continues(s, u) /\ u.aliases = al /\ u.plugins = s.plugins
            /\ u.total = s.total /\ u.skipped = s.skipped
        BY <1>6, <4>3, <4>4, AliasesReplaced
      <4>. QED
        BY <2>1, <3>2, <4>2, <4>5
    <3>. QED
      BY <3>1, <3>2
  <2>5. t = Counted(v, v.already, v.loaded)
    BY <1>5, <1>8
  <2>6. path = GetFullPluginPath(e.file, s.disk)
    BY <1>3, <2>1
  <2>7. Continues(s, t) /\ PluginRead(s, t, e)
    BY <1>4, <2>3, <2>4, <2>5, <2>6, LoadedAndCounted
  <2>. QED
    BY <1>1, <2>1, <2>7 DEF EntryRead
<1>. QED
  BY <1>7, <1>8

\* Reading an entry keeps what was read.
LEMMA EntryReadKeeps ==
    ASSUME NEW s, FilesTypes(s), NEW t, Continues(s, t), NEW n \in Nat, ReadUpTo(s, n),
           EntryRead(s, t, EntryOf(s, n + 1))
    PROVE  FilesTypes(t) /\ ReadUpTo(t, n + 1)
<1>1. /\ SameFiles(s, t) /\ t \in FilesState
      /\ PluginsOK(s.plugins) /\ AliasesOK(s.aliases) /\ s.total \in Nat /\ s.skipped \in Nat
  BY DEF Continues, FilesTypes, FilesState
<1>2. CASE EntryOf(s, n + 1).names /\ PluginRead(s, t, EntryOf(s, n + 1))
  <2>1. ReadUpTo(t, n + 1) /\ PluginsOK(t.plugins) /\ AliasesOK(t.aliases)
    BY <1>1, <1>2, PluginReadKeeps
  <2>. QED
    BY <1>1, <2>1 DEF FilesTypes
<1>3. CASE ~EntryOf(s, n + 1).names /\ NothingRead(s, t)
  <2>1. ReadUpTo(t, n + 1)
    BY <1>1, <1>3, NothingReadKeeps
  <2>2. t.plugins = s.plugins /\ t.aliases = s.aliases
    BY <1>3 DEF NothingRead
  <2>. QED
    BY <1>1, <2>1, <2>2 DEF FilesTypes
<1>. QED
  BY <1>2, <1>3 DEF EntryRead

-----------------------------------------------------------------------------
(* Plugin files: the invariant, and each action *)

FilesOK(s) ==
    /\ FilesTypes(s)
    /\ s.pc = "file" => s.at <= Len(s.lines) + 1 /\ ReadUpTo(s, s.at - 1)
    /\ s.pc = "vdf"  => s.at <= Len(s.vdfs) + 1 /\ ReadUpTo(s, Len(s.lines) + s.at - 1)
    /\ s.pc = "read" => ReadUpTo(s, Len(s.lines) + Len(s.vdfs))

FilesInv == FilesOK(rf)

\* The types of what the steps compute with.
LEMMA FilesTyped ==
    ASSUME NEW s, FilesTypes(s)
    PROVE  /\ s \in FilesState /\ s.at \in Nat \ {0} /\ s.total \in Nat /\ s.skipped \in Nat
           /\ Len(s.lines) \in Nat /\ Len(s.vdfs) \in Nat /\ s.commands \in Nat
           /\ \A k \in 1 .. Len(s.lines) : s.lines[k] \in Lines
           /\ \A k \in 1 .. Len(s.vdfs) : s.vdfs[k] \in Vdfs
<1>1. s \in FilesState
  BY DEF FilesTypes
<1>2. s.lines \in Seq(Lines) /\ s.vdfs \in Seq(Vdfs)
  BY <1>1 DEF FilesState
<1>3. s.at \in Nat \ {0} /\ s.total \in Nat /\ s.skipped \in Nat /\ s.commands \in Nat
  BY <1>1 DEF FilesState, Positions
<1>4. \A k \in 1 .. Len(s.lines) : s.lines[k] \in Lines
  BY <1>2
<1>5. \A k \in 1 .. Len(s.vdfs) : s.vdfs[k] \in Vdfs
  BY <1>2
<1>6. Len(s.lines) \in Nat /\ Len(s.vdfs) \in Nat
  BY <1>2
<1>. QED
  BY <1>1, <1>3, <1>4, <1>5, <1>6

\* What was read stays read while the lists and counters do.
LEMMA StaysRead ==
    ASSUME NEW s, FilesTypes(s), NEW t \in FilesState, SameFiles(s, t), NothingRead(s, t)
    PROVE  FilesTypes(t) /\ \A n : ReadUpTo(s, n) => ReadUpTo(t, n)
<1>1. /\ t.plugins = s.plugins /\ t.aliases = s.aliases /\ t.total = s.total /\ t.skipped = s.skipped
      /\ t.disk = s.disk /\ t.old = s.old
  BY DEF NothingRead, SameFiles
<1>2. FilesTypes(t)
  BY <1>1 DEF FilesTypes
<1>3. ASSUME NEW n, ReadUpTo(s, n)
      PROVE  ReadUpTo(t, n)
  <2>1. /\ \A k : EntryOf(t, k) = EntryOf(s, k)
        /\ NamedUpTo(t, n) = NamedUpTo(s, n)
        /\ \A a : SettersUpTo(t, n, a) = SettersUpTo(s, n, a)
    BY SameEntries
  <2>2. FilesRead(t, n)
    BY <1>1, <1>3, <2>1 DEF FilesRead, ReadUpTo
  <2>3. AliasesRead(t, n)
    BY <1>1, <1>3, <2>1 DEF AliasesRead, ReadUpTo
  <2>4. CountsRead(t, n)
    BY <1>1, <1>3, <2>1 DEF CountsRead, ReadUpTo
  <2>. QED
    BY <1>1, <1>3, <2>2, <2>3, <2>4 DEF ReadUpTo
<1>. QED
  BY <1>2, <1>3

\* What s has read, t has.
ReadsOn(s, t) == SameFiles(s, t) /\ \A n : ReadUpTo(s, n) => ReadUpTo(t, n)

\* Moving on in the reading.
MovedTo(s, pc, at) == [s EXCEPT !.pc = pc, !.at = at]

LEMMA MovedOn ==
    ASSUME NEW s, FilesTypes(s), NEW pc \in Phases, NEW at \in Positions,
           NEW t, t = MovedTo(s, pc, at)
    PROVE  FilesTypes(t) /\ t.pc = pc /\ t.at = at /\ ReadsOn(s, t)
<1>1. s \in FilesState
  BY DEF FilesTypes
<1>2. t \in FilesState
  BY <1>1 DEF MovedTo, FilesState
<1>3. t.pc = pc /\ t.at = at /\ SameFiles(s, t) /\ NothingRead(s, t)
  BY <1>1 DEF MovedTo, FilesState, SameFiles, NothingRead
<1>4. FilesTypes(t) /\ \A n : ReadUpTo(s, n) => ReadUpTo(t, n)
  BY <1>2, <1>3, StaysRead
<1>. QED
  BY <1>3, <1>4 DEF ReadsOn

\* Nothing has been read yet.
LEMMA NothingNamed ==
    ASSUME NEW s
    PROVE  NamedUpTo(s, 0) = {}
BY DEF NamedUpTo

\* Forgetting which copies are new.
Forgotten(ps) == [k \in DOMAIN ps |-> [ps[k] EXCEPT !.new = FALSE]]

LEMMA ForgottenAre ==
    ASSUME NEW ps, PluginsOK(ps), NEW t, t = Forgotten(ps)
    PROVE  /\ PluginsOK(t) /\ NewRunning(t) = {}
           /\ {p.file : p \in OldRunning(t)} = {p.file : p \in RunningIn(ps)}
<1>1. ps \in Seq(Plugin)
  BY DEF PluginsOK
<1>2. PICK n \in Nat : DOMAIN ps = 1 .. n
  BY <1>1
<1>3. DOMAIN t = DOMAIN ps
  BY DEF Forgotten
<1>4. ASSUME NEW k \in DOMAIN ps
      PROVE  t[k] \in Plugin /\ t[k].file = ps[k].file /\ t[k].runs = ps[k].runs /\ ~t[k].new
  <2>1. ps[k] \in Plugin
    BY <1>1
  <2>2. t[k] = [ps[k] EXCEPT !.new = FALSE]
    BY DEF Forgotten
  <2>. QED
    BY <2>1, <2>2 DEF Plugin
<1>5. t \in Seq(Plugin)
  <2>1. PICK D : D = DOMAIN ps
    OBVIOUS
  <2>2. PICK f : f = [k \in D |-> t[k]]
    OBVIOUS
  <2>3. t = f
    <3>1. t = [k \in D |-> [ps[k] EXCEPT !.new = FALSE]]
      BY <2>1 DEF Forgotten
    <3>. QED
      BY <2>2, <3>1
  <2>4. \A k \in 1 .. n : t[k] \in Plugin
    BY <1>2, <1>4
  <2>5. f = [k \in 1 .. n |-> t[k]]
    BY <1>2, <2>1, <2>2
  <2>6. [k \in 1 .. n |-> t[k]] \in Seq(Plugin)
    BY <2>4
  <2>. QED
    BY <2>3, <2>5, <2>6
<1>6. OneCopyEach(t)
  BY <1>3, <1>4 DEF PluginsOK, OneCopyEach
<1>7. NewRunning(t) = {}
  BY <1>3, <1>4 DEF NewRunning, RunningIn, Elements
<1>8. ASSUME NEW x
      PROVE  x \in {p.file : p \in OldRunning(t)} <=> x \in {p.file : p \in RunningIn(ps)}
  <2>1. x \in {p.file : p \in OldRunning(t)} <=> \E k \in DOMAIN ps : t[k].runs /\ ~t[k].new /\ x = t[k].file
    BY <1>3 DEF OldRunning, RunningIn, Elements
  <2>2. x \in {p.file : p \in RunningIn(ps)} <=> \E k \in DOMAIN ps : ps[k].runs /\ x = ps[k].file
    BY DEF RunningIn, Elements
  <2>. QED
    BY <1>4, <2>1, <2>2
<1>. QED
  BY <1>5, <1>6, <1>7, <1>8 DEF PluginsOK

\* A reading begins.
LEMMA RefreshKeeps ==
    ASSUME FilesInv, Refresh
    PROVE  FilesInv'
<1>1. PICK s : s = rf
  OBVIOUS
<1>2. PICK t : t = rf'
  OBVIOUS
<1>3. FilesTypes(s)
  BY <1>1 DEF FilesInv, FilesOK
<1>4. s \in FilesState /\ PluginsOK(s.plugins) /\ AliasesOK(s.aliases)
  BY <1>3 DEF FilesTypes
<1>5. PICK ps : ps = Forgotten(s.plugins)
  OBVIOUS
<1>6. PICK old : old = {p.file : p \in RunningIn(s.plugins)}
  OBVIOUS
<1>7. t = [s EXCEPT !.pc = "file", !.at = 1, !.total = 0, !.skipped = 0, !.commands = 0,
                    !.plugins = ps, !.old = old]
  BY <1>1, <1>2, <1>5, <1>6 DEF Refresh, Forgotten
<1>8. /\ PluginsOK(ps) /\ NewRunning(ps) = {}
      /\ {p.file : p \in OldRunning(ps)} = old
  BY <1>4, <1>5, <1>6, ForgottenAre
<1>9. ps \in Seq(Plugin)
  BY <1>8 DEF PluginsOK
<1>10. old \in SUBSET Path
  <2>1. \A p \in RunningIn(s.plugins) : p \in Plugin
    BY <1>4, PluginAt DEF RunningIn
  <2>. QED
    BY <1>6, <2>1 DEF Plugin
<1>11. t \in FilesState
  <2>1. PICK u : u = MovedTo(s, "file", 1)
    OBVIOUS
  <2>2. PICK v : v = [u EXCEPT !.total = 0, !.skipped = 0, !.commands = 0]
    OBVIOUS
  <2>6. "file" \in Phases /\ 1 \in Positions
    BY DEF Phases, Positions
  <2>3. u \in FilesState
    BY <1>3, <2>1, <2>6, MovedOn DEF FilesTypes
  <2>4. v \in FilesState
    BY <2>2, <2>3 DEF FilesState
  <2>5. t = [v EXCEPT !.plugins = ps, !.old = old]
    BY <1>7, <2>1, <2>2 DEF MovedTo
  <2>. QED
    BY <1>9, <1>10, <2>4, <2>5 DEF FilesState
<1>12. /\ t.pc = "file" /\ t.at = 1 /\ t.total = 0 /\ t.skipped = 0 /\ t.plugins = ps /\ t.old = old
       /\ t.aliases = s.aliases
  BY <1>4, <1>7 DEF FilesState
<1>13. FilesTypes(t)
  BY <1>4, <1>8, <1>11, <1>12 DEF FilesTypes
<1>14. ReadUpTo(t, 0)
  <2>1. NamedUpTo(t, 0) = {}
    BY NothingNamed
  <2>2. FilesRead(t, 0)
    BY <2>1 DEF FilesRead
  <2>3. AliasesRead(t, 0)
    BY <2>1 DEF AliasesRead, SettersUpTo
  <2>4. Cardinality({}) = 0
    BY FS_EmptySet
  <2>5. CountsRead(t, 0)
    BY <1>8, <1>12, <2>1, <2>4 DEF CountsRead
  <2>. QED
    BY <1>8, <1>12, <2>2, <2>3, <2>5 DEF ReadUpTo
<1>15. t.at <= Len(t.lines) + 1 /\ t.at - 1 = 0
  <2>1. Len(t.lines) \in Nat
    BY <1>13, FilesTyped
  <2>. QED
    BY <1>12, <2>1
<1>16. FilesOK(t)
  BY <1>12, <1>13, <1>14, <1>15 DEF FilesOK
<1>. QED
  BY <1>2, <1>16 DEF FilesInv

\* An entry is read and the reading moves on.
LEMMA StepKeeps ==
    ASSUME NEW s, FilesTypes(s), NEW u, Continues(s, u), NEW n \in Nat, ReadUpTo(s, n),
           EntryRead(s, u, EntryOf(s, n + 1)), NEW t, t = MovedTo(u, u.pc, u.at + 1)
    PROVE  /\ FilesTypes(t) /\ ReadUpTo(t, n + 1)
           /\ t.pc = s.pc /\ t.at = s.at + 1 /\ SameFiles(s, t)
<1>1. FilesTypes(u) /\ ReadUpTo(u, n + 1)
  BY EntryReadKeeps
<1>2. PICK at, pc : at = u.at + 1 /\ pc = u.pc
  OBVIOUS
<1>3. u.at \in Positions /\ pc \in Phases
  BY <1>1, <1>2 DEF FilesTypes, FilesState
<1>4. at \in Positions
  BY <1>2, <1>3 DEF Positions
<1>5. t = MovedTo(u, pc, at)
  BY <1>2
<1>6. FilesTypes(t) /\ t.pc = pc /\ t.at = at /\ ReadsOn(u, t)
  BY <1>1, <1>3, <1>4, <1>5, MovedOn
<1>. QED
  BY <1>1, <1>2, <1>6 DEF Continues, SameFiles, ReadsOn

\* A line is read.
LEMMA ReadLineKeeps ==
    ASSUME FilesInv, ReadLine
    PROVE  FilesInv'
<1>1. PICK s, t : s = rf /\ t = rf'
  OBVIOUS
<1>2. FilesTypes(s) /\ s.pc = "file" /\ s.at <= Len(s.lines) /\ ReadUpTo(s, s.at - 1)
  BY <1>1 DEF FilesInv, FilesOK, ReadLine
<1>3. PICK starts \in BOOLEAN : t = [LoadLine(s, s.lines[s.at], starts) EXCEPT !.at = @ + 1]
  BY <1>1 DEF ReadLine, MayStart
<1>4. PICK line : line = s.lines[s.at]
  OBVIOUS
<1>5. PICK n : n = s.at - 1
  OBVIOUS
<1>6. /\ s.at \in Nat \ {0} /\ Len(s.lines) \in Nat
      /\ \A k \in 1 .. Len(s.lines) : s.lines[k] \in Lines
  BY <1>2, FilesTyped
<1>16. PICK at \in Nat \ {0}, x \in Nat : at = s.at /\ x = Len(s.lines)
  BY <1>6
<1>17. at <= x /\ n = at - 1
  BY <1>2, <1>5, <1>16
<1>18. at \in 1 .. x /\ n \in Nat /\ n + 1 = at
  BY <1>17
<1>7. line \in Lines /\ n \in Nat /\ n + 1 = s.at
  BY <1>4, <1>6, <1>16, <1>18
<1>8. EntryOf(s, n + 1) = LineEntry(line)
  BY <1>2, <1>4, <1>7 DEF EntryOf
<1>9. PICK u : u = LoadLine(s, line, starts)
  OBVIOUS
<1>10. Continues(s, u) /\ EntryRead(s, u, EntryOf(s, n + 1))
  BY <1>2, <1>7, <1>8, <1>9, LineRead
<1>11. t = MovedTo(u, u.pc, u.at + 1)
  <2>1. t = [u EXCEPT !.at = @ + 1]
    BY <1>3, <1>4, <1>9
  <2>2. u \in FilesState
    BY <1>10 DEF Continues
  <2>. QED
    BY <2>1, <2>2 DEF MovedTo, FilesState
<1>12. ReadUpTo(s, n)
  BY <1>2, <1>5
<1>13. /\ FilesTypes(t) /\ ReadUpTo(t, n + 1)
       /\ t.pc = s.pc /\ t.at = s.at + 1 /\ SameFiles(s, t)
  BY <1>2, <1>7, <1>10, <1>11, <1>12, StepKeeps
<1>14. t.at - 1 = n + 1 /\ t.at <= Len(t.lines) + 1
  <2>1. Len(t.lines) = x /\ t.at = at + 1
    BY <1>13, <1>16 DEF SameFiles
  <2>. QED
    BY <1>17, <2>1
<1>15. FilesOK(t)
  BY <1>2, <1>13, <1>14 DEF FilesOK
<1>. QED
  BY <1>1, <1>15 DEF FilesInv

\* A VDF file is read.
LEMMA ReadVdfKeeps ==
    ASSUME FilesInv, ReadVdf
    PROVE  FilesInv'
<1>1. PICK s, t : s = rf /\ t = rf'
  OBVIOUS
<1>2. FilesTypes(s) /\ s.pc = "vdf" /\ s.at <= Len(s.vdfs) /\ ReadUpTo(s, Len(s.lines) + s.at - 1)
  BY <1>1 DEF FilesInv, FilesOK, ReadVdf
<1>3. PICK starts \in BOOLEAN : t = [LoadVdf(s, s.vdfs[s.at], starts) EXCEPT !.at = @ + 1]
  BY <1>1 DEF ReadVdf, MayStart
<1>4. PICK vdf : vdf = s.vdfs[s.at]
  OBVIOUS
<1>5. PICK n : n = Len(s.lines) + s.at - 1
  OBVIOUS
<1>6. /\ s.at \in Nat \ {0} /\ Len(s.lines) \in Nat /\ Len(s.vdfs) \in Nat
      /\ \A k \in 1 .. Len(s.vdfs) : s.vdfs[k] \in Vdfs
  BY <1>2, FilesTyped
<1>16. PICK at \in Nat \ {0}, x \in Nat, y \in Nat : at = s.at /\ x = Len(s.lines) /\ y = Len(s.vdfs)
  BY <1>6
<1>17. at <= y /\ n = x + at - 1
  BY <1>2, <1>5, <1>16
<1>18. at \in 1 .. y /\ n \in Nat /\ n + 1 > x /\ n + 1 - x = at
  <2>1. n = x + at - 1 /\ at \in Nat /\ at >= 1 /\ at <= y
    BY <1>17
  <2>2. n \in Nat
    BY <2>1
  <2>. QED
    BY <2>1, <2>2
<1>7. vdf \in Vdfs /\ n \in Nat /\ n + 1 > Len(s.lines) /\ n + 1 - Len(s.lines) = s.at
  BY <1>4, <1>6, <1>16, <1>18
<1>8. EntryOf(s, n + 1) = VdfEntry(vdf)
  <2>1. ~(n + 1 <= Len(s.lines))
    <3>1. ~(n + 1 <= x)
      BY <1>18
    <3>. QED
      BY <1>16, <3>1
  <2>2. PICK m : m = (n + 1) - x
    OBVIOUS
  <2>3. m = at
    BY <1>18, <2>2
  <2>4. EntryOf(s, n + 1) = VdfEntry(s.vdfs[m])
    BY <1>16, <2>1, <2>2, Zenon DEF EntryOf
  <2>. QED
    BY <1>4, <1>16, <2>3, <2>4, Zenon
<1>9. PICK u : u = LoadVdf(s, vdf, starts)
  OBVIOUS
<1>10. Continues(s, u) /\ EntryRead(s, u, EntryOf(s, n + 1))
  BY <1>2, <1>7, <1>8, <1>9, VdfRead
<1>11. t = MovedTo(u, u.pc, u.at + 1)
  <2>1. t = [u EXCEPT !.at = @ + 1]
    BY <1>3, <1>4, <1>9
  <2>2. u \in FilesState
    BY <1>10 DEF Continues
  <2>. QED
    BY <2>1, <2>2 DEF MovedTo, FilesState
<1>12. ReadUpTo(s, n)
  BY <1>2, <1>5
<1>13. /\ FilesTypes(t) /\ ReadUpTo(t, n + 1)
       /\ t.pc = s.pc /\ t.at = s.at + 1 /\ SameFiles(s, t)
  BY <1>2, <1>7, <1>10, <1>11, <1>12, StepKeeps
<1>14. Len(t.lines) + t.at - 1 = n + 1 /\ t.at <= Len(t.vdfs) + 1
  <2>1. Len(t.lines) = x /\ Len(t.vdfs) = y /\ t.at = at + 1
    BY <1>13, <1>16 DEF SameFiles
  <2>. QED
    BY <1>17, <2>1
<1>15. FilesOK(t)
  BY <1>2, <1>13, <1>14 DEF FilesOK
<1>. QED
  BY <1>1, <1>15 DEF FilesInv

\* From the lines to the VDF files, and from there to the end.
LEMMA OpenVdfDirKeeps ==
    ASSUME FilesInv, OpenVdfDir
    PROVE  FilesInv'
<1>1. PICK s, t : s = rf /\ t = rf'
  OBVIOUS
<1>2. /\ FilesTypes(s) /\ s.pc = "file" /\ s.at > Len(s.lines) /\ s.at <= Len(s.lines) + 1
      /\ ReadUpTo(s, s.at - 1)
  BY <1>1 DEF FilesInv, FilesOK, OpenVdfDir
<1>3. t = MovedTo(s, "vdf", 1)
  BY <1>1 DEF OpenVdfDir, MovedTo
<1>8. "vdf" \in Phases /\ 1 \in Positions
  BY DEF Phases, Positions
<1>4. FilesTypes(t) /\ t.pc = "vdf" /\ t.at = 1 /\ ReadsOn(s, t)
  BY <1>2, <1>3, <1>8, MovedOn
<1>5. s.at \in Nat \ {0} /\ Len(s.lines) \in Nat /\ Len(t.vdfs) \in Nat
  BY <1>2, <1>4, FilesTyped
<1>6. s.at - 1 = Len(t.lines) + t.at - 1 /\ t.at <= Len(t.vdfs) + 1
  BY <1>2, <1>4, <1>5 DEF SameFiles, ReadsOn
<1>7. FilesOK(t)
  BY <1>2, <1>4, <1>6 DEF FilesOK, ReadsOn
<1>. QED
  BY <1>1, <1>7 DEF FilesInv

\* The reading ends.
LEMMA SummaryKeeps ==
    ASSUME FilesInv, Summary
    PROVE  FilesInv'
<1>1. PICK s, t : s = rf /\ t = rf'
  OBVIOUS
<1>2. /\ FilesTypes(s) /\ s.pc = "vdf" /\ s.at > Len(s.vdfs) /\ s.at <= Len(s.vdfs) + 1
      /\ ReadUpTo(s, Len(s.lines) + s.at - 1)
  BY <1>1 DEF FilesInv, FilesOK, Summary
<1>3. t = MovedTo(s, "read", 1)
  BY <1>1 DEF Summary, MovedTo
<1>8. "read" \in Phases /\ 1 \in Positions
  BY DEF Phases, Positions
<1>4. FilesTypes(t) /\ t.pc = "read" /\ t.at = 1 /\ ReadsOn(s, t)
  BY <1>2, <1>3, <1>8, MovedOn
<1>5. s.at \in Nat \ {0} /\ Len(s.lines) \in Nat /\ Len(s.vdfs) \in Nat
  BY <1>2, FilesTyped
<1>6. Len(s.lines) + s.at - 1 = Len(t.lines) + Len(t.vdfs)
  <2>1. t.lines = s.lines /\ t.vdfs = s.vdfs
    BY <1>4 DEF SameFiles, ReadsOn
  <2>2. s.at = Len(s.vdfs) + 1
    BY <1>2, <1>5
  <2>. QED
    BY <1>5, <2>1, <2>2
<1>7. FilesOK(t)
  BY <1>2, <1>4, <1>6 DEF FilesOK, ReadsOn
<1>. QED
  BY <1>1, <1>7 DEF FilesInv

\* Between two readings only the types and the lists matter.
LEMMA CommandedKeeps ==
    ASSUME FilesInv, NEW s, FilesTypes(s), s.commands = rf.commands, Commanded(s)
    PROVE  FilesInv'
<1>1. PICK t : t = rf'
  OBVIOUS
<1>2. s \in FilesState
  BY DEF FilesTypes
<1>3. PICK c : c = s.commands + 1
  OBVIOUS
<1>4. t = [s EXCEPT !.pc = "idle", !.commands = c]
  BY <1>1, <1>3 DEF Commanded
<1>5. c \in Nat
  BY <1>2, <1>3 DEF FilesState
<1>6. t \in FilesState /\ t.pc = "idle" /\ t.plugins = s.plugins /\ t.aliases = s.aliases
  BY <1>2, <1>4, <1>5 DEF FilesState, Phases
<1>7. FilesTypes(t)
  BY <1>6 DEF FilesTypes
<1>8. FilesOK(t)
  BY <1>6, <1>7 DEF FilesOK
<1>. QED
  BY <1>1, <1>8 DEF FilesInv

\* "meta load".
LEMMA ConsoleLoadKeeps ==
    ASSUME FilesInv, ConsoleLoad
    PROVE  FilesInv'
<1>1. FilesTypes(rf)
  BY DEF FilesInv, FilesOK
<1>2. PICK word \in Names \ {Empty} :
        LET value == LookupAlias(rf.aliases, word)
            file == IF value = Empty THEN word ELSE value
        IN \E starts \in MayStart(rf, file) :
             Commanded(Load(rf, GetFullPluginPath(file, rf.disk), starts))
  BY DEF ConsoleLoad
<1>3. PICK value : value = LookupAlias(rf.aliases, word)
  OBVIOUS
<1>4. PICK file : file = IF value = Empty THEN word ELSE value
  OBVIOUS
<1>5. PICK starts \in BOOLEAN : Commanded(Load(rf, GetFullPluginPath(file, rf.disk), starts))
  BY <1>2, <1>3, <1>4 DEF MayStart
<1>6. AliasesOK(rf.aliases) /\ PluginsOK(rf.plugins) /\ rf \in FilesState
  BY <1>1 DEF FilesTypes
<1>7. value \in Path
  <2>1. LeadsTo(rf.aliases, word, value)
    BY <1>3, <1>6, LookupIs
  <2>2. Empty \in Path
    BY FilesAssumption
  <2>3. rf.aliases \in Seq(Alias)
    BY <1>6 DEF AliasesOK
  <2>4. \A k \in DOMAIN rf.aliases : rf.aliases[k] \in Alias
    BY <2>3
  <2>. QED
    BY <2>1, <2>2, <2>4 DEF LeadsTo, Alias
<1>8. PICK path \in Path : path = GetFullPluginPath(file, rf.disk)
  <2>1. file \in Path
    BY <1>4, <1>7, PathsAre
  <2>. QED
    BY <2>1, PathsAre
<1>9. PICK s : s = Load(rf, path, starts)
  OBVIOUS
<1>10. PICK ps : \E already, loaded \in BOOLEAN :
              /\ LoadedInto(rf.plugins, ps, path, already, loaded)
              /\ Load(rf, path, starts) = LoadResult(rf, ps, already, loaded)
  BY <1>6, LoadLoads
<1>11. PICK already, loaded \in BOOLEAN :
              /\ LoadedInto(rf.plugins, ps, path, already, loaded)
              /\ s = LoadResult(rf, ps, already, loaded)
  BY <1>9, <1>10
<1>12. PluginsOK(ps)
  BY <1>11 DEF LoadedInto
<1>13. ps \in Seq(Plugin)
  BY <1>12 DEF PluginsOK
<1>14. Continues(rf, s) /\ s.plugins = ps /\ s.aliases = rf.aliases
  BY <1>6, <1>11, <1>13, PluginsReplaced
<1>15. FilesTypes(s) /\ s.commands = rf.commands
  BY <1>6, <1>12, <1>14 DEF FilesTypes, Continues
<1>16. Commanded(s)
  BY <1>5, <1>8, <1>9
<1>. QED
  BY <1>15, <1>16, CommandedKeeps

\* "meta alias".
LEMMA ConsoleAliasKeeps ==
    ASSUME FilesInv, ConsoleAlias
    PROVE  FilesInv'
<1>1. FilesTypes(rf)
  BY DEF FilesInv, FilesOK
<1>2. PICK word \in Names \ {Empty}, value \in Names :
        Commanded([rf EXCEPT !.aliases = SetAlias(@, word, value)])
  BY DEF ConsoleAlias
<1>3. AliasesOK(rf.aliases) /\ PluginsOK(rf.plugins) /\ rf \in FilesState
  BY <1>1 DEF FilesTypes
<1>4. word \in Path /\ value \in Path
  BY PathsAre
<1>5. PICK al : al = SetAlias(rf.aliases, word, value)
  OBVIOUS
<1>6. AliasSet(rf.aliases, al, word, value)
  BY <1>3, <1>4, <1>5, SetAliasSets
<1>7. AliasesOK(al)
  BY <1>6 DEF AliasSet
<1>8. al \in Seq(Alias)
  BY <1>7 DEF AliasesOK
<1>9. PICK s : s = [rf EXCEPT !.aliases = al]
  OBVIOUS
<1>10. Continues(rf, s) /\ s.aliases = al /\ s.plugins = rf.plugins
  BY <1>3, <1>8, <1>9, AliasesReplaced
<1>11. FilesTypes(s) /\ s.commands = rf.commands
  BY <1>3, <1>7, <1>10 DEF FilesTypes, Continues
<1>12. Commanded(s)
  BY <1>2, <1>5, <1>9
<1>. QED
  BY <1>11, <1>12, CommandedKeeps

\* A plugin is unloaded.
LEMMA UnloadKeeps ==
    ASSUME FilesInv, Unload
    PROVE  FilesInv'
<1>1. FilesTypes(rf)
  BY DEF FilesInv, FilesOK
<1>2. PICK k \in DOMAIN rf.plugins : Commanded([rf EXCEPT !.plugins = Without(@, {@[k]})])
  BY DEF Unload
<1>3. AliasesOK(rf.aliases) /\ PluginsOK(rf.plugins) /\ rf \in FilesState
  BY <1>1 DEF FilesTypes
<1>4. rf.plugins \in Seq(Plugin)
  BY <1>3 DEF PluginsOK
<1>5. PICK ps : ps = Without(rf.plugins, {rf.plugins[k]})
  OBVIOUS
<1>6. ps \in Seq(Plugin) /\ InOrder(rf.plugins, ps)
  BY <1>4, <1>5, WithoutInOrder
<1>7. PluginsOK(ps)
  BY <1>3, <1>6, FewerPlugins
<1>8. PICK s : s = [rf EXCEPT !.plugins = ps]
  OBVIOUS
<1>9. s \in FilesState /\ s.plugins = ps /\ s.aliases = rf.aliases /\ s.commands = rf.commands
  BY <1>3, <1>6, <1>8 DEF FilesState
<1>10. FilesTypes(s)
  BY <1>3, <1>7, <1>9 DEF FilesTypes
<1>11. Commanded(s)
  BY <1>2, <1>5, <1>8
<1>. QED
  BY <1>9, <1>10, <1>11, CommandedKeeps

\* A file is put in place.
LEMMA DeployKeeps ==
    ASSUME FilesInv, Deploy
    PROVE  FilesInv'
<1>1. FilesTypes(rf)
  BY DEF FilesInv, FilesOK
<1>2. PICK f \in Files \ rf.disk : Commanded([rf EXCEPT !.disk = @ \cup {f}])
  BY DEF Deploy
<1>3. AliasesOK(rf.aliases) /\ PluginsOK(rf.plugins) /\ rf \in FilesState
  BY <1>1 DEF FilesTypes
<1>4. PICK disk : disk = rf.disk \cup {f}
  OBVIOUS
<1>5. disk \in SUBSET Files
  BY <1>3, <1>4 DEF FilesState
<1>6. PICK s : s = [rf EXCEPT !.disk = disk]
  OBVIOUS
<1>7. s \in FilesState /\ s.plugins = rf.plugins /\ s.aliases = rf.aliases /\ s.commands = rf.commands
  BY <1>3, <1>5, <1>6 DEF FilesState
<1>8. FilesTypes(s)
  BY <1>3, <1>7 DEF FilesTypes
<1>9. Commanded(s)
  BY <1>2, <1>4, <1>6
<1>. QED
  BY <1>7, <1>8, <1>9, CommandedKeeps

\* At first both lists are empty and nothing is read.
LEMMA FilesInitially == FilesInit => FilesInv
<1>1. SUFFICES ASSUME FilesInit
               PROVE  FilesInv
  OBVIOUS
<1>2. PICK lines \in LineFiles, vdfs \in VdfDirs, disk \in SUBSET Files :
      rf = [lines |-> lines, vdfs |-> vdfs, disk |-> disk, aliases |-> <<>>, plugins |-> <<>>,
            pc |-> "idle", at |-> 1, total |-> 0, skipped |-> 0,
            already |-> FALSE, loaded |-> FALSE, old |-> {}, commands |-> 0]
  BY <1>1 DEF FilesInit
<1>3. lines \in Seq(Lines) /\ vdfs \in Seq(Vdfs)
  BY FilesAssumption
<1>4. PICK e : e = <<>>
  OBVIOUS
<1>5. e \in Seq(Alias) /\ e \in Seq(Plugin) /\ DOMAIN e = {}
  <2>1. \A T : <<>> \in Seq(T)
    OBVIOUS
  <2>2. DOMAIN e = {}
    BY <1>4
  <2>. QED
    BY <1>4, <2>1, <2>2
<1>6. rf \in FilesState /\ rf.pc = "idle" /\ rf.plugins = e /\ rf.aliases = e
  BY <1>2, <1>3, <1>4, <1>5 DEF FilesState, Phases, Positions
<1>7. PluginsOK(e) /\ AliasesOK(e)
  BY <1>5 DEF PluginsOK, AliasesOK, OneCopyEach, OneValueEach
<1>. QED
  BY <1>6, <1>7 DEF FilesInv, FilesOK, FilesTypes

\* Every step keeps the invariant.
LEMMA FilesNextKeeps == FilesInv /\ [FilesNext]_rf => FilesInv'
<1>1. SUFFICES ASSUME FilesInv, [FilesNext]_rf
               PROVE  FilesInv'
  OBVIOUS
<1>2. CASE Refresh
  BY <1>1, <1>2, RefreshKeeps
<1>3. CASE ReadLine
  BY <1>1, <1>3, ReadLineKeeps
<1>4. CASE OpenVdfDir
  BY <1>1, <1>4, OpenVdfDirKeeps
<1>5. CASE ReadVdf
  BY <1>1, <1>5, ReadVdfKeeps
<1>6. CASE Summary
  BY <1>1, <1>6, SummaryKeeps
<1>7. CASE ConsoleLoad
  BY <1>1, <1>7, ConsoleLoadKeeps
<1>8. CASE ConsoleAlias
  BY <1>1, <1>8, ConsoleAliasKeeps
<1>9. CASE Unload
  BY <1>1, <1>9, UnloadKeeps
<1>10. CASE Deploy
  BY <1>1, <1>10, DeployKeeps
<1>11. CASE UNCHANGED rf
  BY <1>1, <1>11 DEF FilesInv
<1>. QED
  BY <1>1, <1>2, <1>3, <1>4, <1>5, <1>6, <1>7, <1>8, <1>9, <1>10, <1>11 DEF FilesNext

\* The entries of a whole reading are those the invariant speaks of.
LEMMA EntriesAre ==
    ASSUME FilesTypes(rf), NEW n, n = Len(rf.lines) + Len(rf.vdfs)
    PROVE  /\ \A k : EntryAt(k) = EntryOf(rf, k)
           /\ Entries = NamedUpTo(rf, n)
           /\ \A a : Setters(a) = SettersUpTo(rf, n, a)
           /\ \A k \in Entries : k \in Nat /\ EntryAt(k).alias \in Names
<1>1. \A k : EntryAt(k) = EntryOf(rf, k)
  BY DEF EntryAt, EntryOf
<1>2. Entries = NamedUpTo(rf, n)
  BY <1>1 DEF Entries, NamedUpTo
<1>3. \A a : Setters(a) = SettersUpTo(rf, n, a)
  BY <1>1, <1>2 DEF Setters, SettersUpTo
<1>4. ASSUME NEW k \in Entries
      PROVE  k \in Nat /\ EntryAt(k).alias \in Names
  <2>1. /\ Len(rf.lines) \in Nat /\ Len(rf.vdfs) \in Nat
        /\ \A j \in 1 .. Len(rf.lines) : rf.lines[j] \in Lines
        /\ \A j \in 1 .. Len(rf.vdfs) : rf.vdfs[j] \in Vdfs
    BY FilesTyped
  <2>2. k \in 1 .. Len(rf.lines) + Len(rf.vdfs) /\ EntryAt(k).names
    BY DEF Entries
  <2>7. PICK x \in Nat, y \in Nat : x = Len(rf.lines) /\ y = Len(rf.vdfs)
    BY <2>1
  <2>3. k \in Nat /\ k >= 1 /\ k <= x + y
    <3>1. k \in 1 .. x + y
      BY <2>2, <2>7
    <3>. QED
      BY <3>1
  <2>4. Empty \in Names
    BY FilesAssumption
  <2>5. CASE k <= Len(rf.lines)
    <3>1. PICK line \in Lines : line = rf.lines[k]
      <4>1. k \in 1 .. Len(rf.lines)
        BY <2>3, <2>5, <2>7
      <4>. QED
        BY <2>1, <4>1
    <3>2. EntryAt(k) = LineEntry(line)
      BY <2>5, <3>1 DEF EntryAt
    <3>3. EntryAt(k).alias = IF IsAlias(line) THEN line.first ELSE Empty
      BY <3>2 DEF LineEntry, Entry
    <3>4. IsAlias(line) => line.first \in Names
      BY LineIs
    <3>. QED
      BY <2>3, <2>4, <3>3, <3>4
  <2>6. CASE ~(k <= Len(rf.lines))
    <3>1. k - x \in 1 .. y
      <4>1. PICK i \in Nat : i = k
        BY <2>3
      <4>2. i <= x + y /\ ~(i <= x)
        BY <2>3, <2>6, <2>7, <4>1
      <4>3. i - x \in 1 .. y
        BY <4>2
      <4>. QED
        BY <4>1, <4>3
    <3>2. PICK vdf \in Vdfs : vdf = rf.vdfs[k - Len(rf.lines)]
      BY <2>1, <2>7, <3>1
    <3>3. EntryAt(k) = VdfEntry(vdf)
      BY <2>6, <3>2 DEF EntryAt
    <3>4. vdf.good /\ EntryAt(k).alias = vdf.alias
      BY <2>2, <3>3 DEF VdfEntry, Entry
    <3>5. vdf.alias \in Names
      BY <3>4, VdfIs
    <3>. QED
      BY <2>3, <3>4, <3>5
  <2>. QED
    BY <2>5, <2>6
<1>. QED
  BY <1>1, <1>2, <1>3, <1>4

\* The last of the entries that set an alias.
LEMMA LastSetterIs ==
    ASSUME NEW a, \A j \in Setters(a) : j \in Nat, NEW k \in Setters(a), \A j \in Setters(a) : j <= k
    PROVE  LastSetter(a) = k
<1>1. PICK S : S = Setters(a)
  OBVIOUS
<1>2. PICK m : m = CHOOSE i \in S : \A j \in S : j <= i
  OBVIOUS
<1>3. k \in S /\ \A j \in S : j <= k
  BY <1>1
<1>4. m \in S /\ \A j \in S : j <= m
  BY <1>2, <1>3
<1>5. m <= k /\ k <= m /\ m \in Nat /\ k \in Nat
  BY <1>1, <1>3, <1>4
<1>6. m = k
  BY <1>5
<1>. QED
  BY <1>1, <1>2, <1>6 DEF LastSetter

\* A list without doubles that has a copy of a file has one.
LEMMA CopiesAreOne ==
    ASSUME PluginsOK(rf.plugins), NEW file, HasCopy(rf.plugins, GetFullPluginPath(file, rf.disk))
    PROVE  Cardinality(CopiesOf(file)) = 1
<1>1. PICK path : path = GetFullPluginPath(file, rf.disk)
  OBVIOUS
<1>2. PICK j \in DOMAIN rf.plugins : UTIL_PathCmp(rf.plugins[j].file, path)
  BY <1>1 DEF HasCopy
<1>3. ASSUME NEW k \in DOMAIN rf.plugins, UTIL_PathCmp(rf.plugins[k].file, path)
      PROVE  k = j
  <2>1. UTIL_PathCmp(rf.plugins[k].file, rf.plugins[j].file)
    BY <1>2, <1>3 DEF UTIL_PathCmp
  <2>. QED
    BY <2>1 DEF PluginsOK, OneCopyEach
<1>4. CopiesOf(file) = {k \in DOMAIN rf.plugins : UTIL_PathCmp(rf.plugins[k].file, path)}
  BY <1>1 DEF CopiesOf
<1>5. CopiesOf(file) = {j}
  BY <1>2, <1>3, <1>4
<1>. QED
  BY <1>5, FS_Singleton

\* The invariant is enough.
LEMMA FilesInvHolds == FilesInv => ReadingLoadsWhatIsNamed
<1>1. SUFFICES ASSUME FilesInv
               PROVE  ReadingLoadsWhatIsNamed
  OBVIOUS
<1>2. FilesTypes(rf) /\ PluginsOK(rf.plugins)
  BY <1>1 DEF FilesInv, FilesOK, FilesTypes
<1>3. \A j, k \in DOMAIN rf.plugins :
         UTIL_PathCmp(rf.plugins[j].file, rf.plugins[k].file) => j = k
  BY <1>2 DEF PluginsOK, OneCopyEach
<1>4. SUFFICES ASSUME rf.pc = "read", NEW new, new = {p \in RunningIn(rf.plugins) : p.new}
               PROVE  /\ \A k \in Entries : Cardinality(CopiesOf(EntryAt(k).file)) = 1
                      /\ rf.old = {p.file : p \in RunningIn(rf.plugins) \ new}
                      /\ \A k \in Entries : EntryAt(k).alias # Empty =>
                           LookupAlias(rf.aliases, EntryAt(k).alias) = EntryAt(LastSetter(EntryAt(k).alias)).file
                      /\ rf.total <= Cardinality(new) /\ Cardinality(new) <= rf.total + rf.skipped
                      /\ rf.total + rf.skipped <= Cardinality(Entries)
  BY <1>3 DEF ReadingLoadsWhatIsNamed
<1>5. PICK n : n = Len(rf.lines) + Len(rf.vdfs)
  OBVIOUS
<1>6. ReadUpTo(rf, n)
  BY <1>1, <1>4, <1>5 DEF FilesInv, FilesOK
<1>7. /\ \A k : EntryAt(k) = EntryOf(rf, k)
      /\ Entries = NamedUpTo(rf, n)
      /\ \A a : Setters(a) = SettersUpTo(rf, n, a)
      /\ \A k \in Entries : k \in Nat /\ EntryAt(k).alias \in Names
  BY <1>2, <1>5, EntriesAre
<1>8. ASSUME NEW k \in Entries
      PROVE  Cardinality(CopiesOf(EntryAt(k).file)) = 1
  <2>1. HasCopy(rf.plugins, GetFullPluginPath(EntryAt(k).file, rf.disk))
    BY <1>6, <1>7 DEF ReadUpTo, FilesRead
  <2>. QED
    BY <1>2, <2>1, CopiesAreOne
<1>9. new = NewRunning(rf.plugins)
  BY <1>4 DEF NewRunning
<1>10. rf.old = {p.file : p \in RunningIn(rf.plugins) \ new}
  <2>1. RunningIn(rf.plugins) \ new = OldRunning(rf.plugins)
    BY <1>4 DEF OldRunning
  <2>. QED
    BY <1>6, <2>1 DEF ReadUpTo
<1>11. ASSUME NEW k \in Entries, EntryAt(k).alias # Empty
       PROVE  LookupAlias(rf.aliases, EntryAt(k).alias) = EntryAt(LastSetter(EntryAt(k).alias)).file
  <2>1. PICK a \in Names \ {Empty} : a = EntryAt(k).alias
    BY <1>7, <1>11
  <2>2. k \in Setters(a)
    BY <2>1 DEF Setters
  <2>3. SettersUpTo(rf, n, a) = Setters(a) /\ Setters(a) # {}
    BY <1>7, <2>2
  <2>4. AliasesRead(rf, n)
    BY <1>6 DEF ReadUpTo
  <2>5. PICK m \in Setters(a) : /\ \A j \in Setters(a) : j <= m
                                /\ LookupAlias(rf.aliases, a) = EntryAt(m).file
    BY <1>7, <2>3, <2>4 DEF AliasesRead
  <2>6. \A j \in Setters(a) : j \in Nat
    BY <1>7 DEF Setters
  <2>7. LastSetter(a) = m
    BY <2>5, <2>6, LastSetterIs
  <2>. QED
    BY <2>1, <2>5, <2>7
<1>12. /\ rf.total <= Cardinality(new) /\ Cardinality(new) <= rf.total + rf.skipped
       /\ rf.total + rf.skipped <= Cardinality(Entries)
  BY <1>6, <1>7, <1>9 DEF ReadUpTo, CountsRead
<1>. QED
  BY <1>8, <1>10, <1>11, <1>12

\* Whatever metaplugins.ini and the VDF directory hold, whichever files are on disk,
\* whichever plugins start and whatever the operator does in between: a reading loads
\* every file it names once, sets every alias as it was set last, leaves the plugins
\* that ran where they are, and its counters account for the new ones.
THEOREM ReadingLoadsWhatIsNamedAlways == FilesSpec => []ReadingLoadsWhatIsNamed
<1>1. FilesInit => FilesInv
  BY FilesInitially
<1>2. FilesInv /\ [FilesNext]_rf => FilesInv'
  BY FilesNextKeeps
<1>3. FilesInv => ReadingLoadsWhatIsNamed
  BY FilesInvHolds
<1>. QED
  BY <1>1, <1>2, <1>3, PTL DEF FilesSpec

-----------------------------------------------------------------------------
(* Prototypes *)

Filled == [m_Version : {-1, 0, 1}, m_Convention : SUBSET CallConvs,
           m_RetPassInfo : PassInfo, m_ParamsPassInfo : Seq(PassInfo)]

ProtoTypeOK == proto \in [Users -> Filled]

\* What the constructor leaves can be kept like any other prototype.
LEMMA InvalidIsAProto == Invalid \in Filled
BY DEF Invalid, Filled, NoPassInfo, PassInfo, PassTypes, Pointers

\* What Fill makes of a ProtoInfo is a prototype.
LEMMA FillMakesProtos ==
    ASSUME NEW info, info \in ProtoInfo
    PROVE  Fill(info) \in Filled
<1>1. NoPassInfo \in PassInfo
  BY DEF NoPassInfo, PassInfo, PassTypes, Pointers
<1>2. \A pi \in PassInfo : OldPassInfo(pi) \in PassInfo
  BY <1>1 DEF OldPassInfo, NoPassInfo, GetRealFlags, PassInfo, PassFlags, Pointers
<1>3. info.retPassInfo \in PassInfo /\ info.paramsPassInfo \in Seq(PassInfo)
      /\ info.convention \in SUBSET CallConvs
  BY DEF ProtoInfo
<1>4. CASE info.version = 0
  <2>1. [i \in DOMAIN info.paramsPassInfo |-> OldPassInfo(info.paramsPassInfo[i])] \in Seq(PassInfo)
    BY <1>2, <1>3
  <2>. QED
    BY <1>2, <1>3, <1>4, <2>1 DEF Fill, FillWith, Filled
<1>5. CASE info.version = 1
  <2>1. [i \in DOMAIN info.paramsPassInfo |-> info.paramsPassInfo[i]] \in Seq(PassInfo)
    BY <1>3
  <2>. QED
    BY <1>3, <1>5, <2>1 DEF Fill, FillWith, Filled
<1>6. CASE info.version \notin {0, 1}
  BY <1>6, InvalidIsAProto DEF Fill
<1>. QED
  BY <1>4, <1>5, <1>6

\* Prototypes with as many parameters have the same positions.
LEMMA SameParameters ==
    ASSUME NEW p \in Filled, NEW q \in Filled,
           Len(p.m_ParamsPassInfo) = Len(q.m_ParamsPassInfo)
    PROVE  DOMAIN p.m_ParamsPassInfo = DOMAIN q.m_ParamsPassInfo
BY DEF Filled

\* Parameters of compatible prototypes lie at the same places.
LEMMA CompatibleSizes ==
    ASSUME NEW p \in Filled, NEW q \in Filled, Compatible(p, q)
    PROVE  GetParamsStackSize(p) = GetParamsStackSize(q)
<1>1. DOMAIN p.m_ParamsPassInfo = DOMAIN q.m_ParamsPassInfo
  BY SameParameters DEF Compatible
<1>2. StackSizes(p) = StackSizes(q)
  BY <1>1 DEF StackSizes, Compatible
<1>. QED
  BY <1>2 DEF GetParamsStackSize

\* It does not matter which of two prototypes is asked.
LEMMA CompatibleSymmetric ==
    ASSUME NEW p \in Filled, NEW q \in Filled, Compatible(p, q)
    PROVE  Compatible(q, p)
<1>1. DOMAIN p.m_ParamsPassInfo = DOMAIN q.m_ParamsPassInfo
  BY SameParameters DEF Compatible
<1>. QED
  BY <1>1 DEF Compatible, SameKind

\* Nor does it for exact equality.
LEMMA ExactlyEqualSymmetric ==
    ASSUME NEW p \in Filled, NEW q \in Filled, ExactlyEqual(p, q)
    PROVE  ExactlyEqual(q, p)
<1>1. DOMAIN p.m_ParamsPassInfo = DOMAIN q.m_ParamsPassInfo
  BY SameParameters DEF ExactlyEqual
<1>. QED
  BY <1>1 DEF ExactlyEqual, SamePassInfo, SameKind

\* Prototypes that share a hook function are compatible with the same ones.
LEMMA SharedAreInterchangeable ==
    ASSUME NEW p \in Filled, NEW q \in Filled, NEW r \in Filled,
           ExactlyEqual(p, q), Compatible(p, r)
    PROVE  Compatible(q, r)
<1>1. DOMAIN p.m_ParamsPassInfo = DOMAIN q.m_ParamsPassInfo
  BY SameParameters DEF ExactlyEqual
<1>2. ASSUME NEW i \in DOMAIN q.m_ParamsPassInfo
      PROVE  LET b == q.m_ParamsPassInfo[i]
                 c == r.m_ParamsPassInfo[i]
             IN /\ GetRealSize(b) = GetRealSize(c)
                /\ b.type = "Unknown" \/ c.type = "Unknown" \/ SameKind(b, c)
  BY <1>1 DEF ExactlyEqual, Compatible, SamePassInfo, SameKind, GetRealSize
<1>3. GetRealSize(q.m_RetPassInfo) = GetRealSize(r.m_RetPassInfo)
  BY DEF ExactlyEqual, Compatible, SamePassInfo, SameKind, GetRealSize
<1>. QED
  BY <1>2, <1>3 DEF ExactlyEqual, Compatible

\* Hooks found under another prototype, and hook functions shared with one, fit,
\* whatever prototypes plugins give.
THEOREM ProtosFit == ProtoSpec => []FoundProtosFit
<1>1. ProtoInit => ProtoTypeOK
  BY InvalidIsAProto DEF ProtoInit, ProtoTypeOK
<1>2. ProtoTypeOK /\ [ProtoNext]_proto => ProtoTypeOK'
  <2>1. ASSUME ProtoTypeOK, NEW u \in Users, NEW info \in ProtoInfos, SetInfo(u, info)
        PROVE  ProtoTypeOK'
    BY <2>1, FillMakesProtos, ProtoInfosAssumption DEF ProtoTypeOK, SetInfo
  <2>2. ASSUME ProtoTypeOK, NEW u \in Users, Construct(u)
        PROVE  ProtoTypeOK'
    BY <2>2, InvalidIsAProto DEF ProtoTypeOK, Construct
  <2>. QED
    BY <2>1, <2>2 DEF ProtoNext, ProtoTypeOK
<1>3. ProtoTypeOK => FoundProtosFit
  <2>. SUFFICES ASSUME ProtoTypeOK, NEW u \in Users, NEW v \in Users
       PROVE /\ Compatible(proto[u], proto[v]) =>
                  /\ Compatible(proto[v], proto[u])
                  /\ GetParamsStackSize(proto[u]) = GetParamsStackSize(proto[v])
                  /\ GetRealSize(proto[u].m_RetPassInfo) = GetRealSize(proto[v].m_RetPassInfo)
             /\ proto[u].m_Version >= 0 => Compatible(proto[u], proto[u])
             /\ ExactlyEqual(proto[u], proto[v]) =>
                  /\ ExactlyEqual(proto[v], proto[u])
                  /\ \A w \in Users : Compatible(proto[u], proto[w]) => Compatible(proto[v], proto[w])
    BY DEF FoundProtosFit
  <2>1. \A w \in Users : proto[w] \in Filled
    BY DEF ProtoTypeOK
  <2>2. Compatible(proto[u], proto[v]) =>
          /\ Compatible(proto[v], proto[u])
          /\ GetParamsStackSize(proto[u]) = GetParamsStackSize(proto[v])
    BY <2>1, CompatibleSymmetric, CompatibleSizes
  <2>3. Compatible(proto[u], proto[v]) =>
          GetRealSize(proto[u].m_RetPassInfo) = GetRealSize(proto[v].m_RetPassInfo)
    BY DEF Compatible
  <2>4. proto[u].m_Version >= 0 => Compatible(proto[u], proto[u])
    BY DEF Compatible, SameKind
  <2>5. ExactlyEqual(proto[u], proto[v]) => ExactlyEqual(proto[v], proto[u])
    BY <2>1, ExactlyEqualSymmetric
  <2>6. ASSUME ExactlyEqual(proto[u], proto[v]), NEW w \in Users, Compatible(proto[u], proto[w])
        PROVE  Compatible(proto[v], proto[w])
    BY <2>1, <2>6, SharedAreInterchangeable
  <2>. QED
    BY <2>2, <2>3, <2>4, <2>5, <2>6
<1>. QED
  BY <1>1, <1>2, <1>3, PTL DEF ProtoSpec
=============================================================================
