---------------------------- MODULE HookFuncRun ----------------------------
(***************************************************************************)
(* The code HookManGen emits, executed.  The processor runs the hook       *)
(* function (or the public function) of one prototype; what it calls (the  *)
(* hook loop interface of SourceHook, hooks, the hooked function, and the  *)
(* methods of the object class of the prototype) answers the way its       *)
(* calling convention and sourcehook.cpp say.                              *)
(*                                                                         *)
(* A word is a tuple that starts with a tag; an address is <<area, n>>     *)
(* with n in bytes.  The area "stk" is the stack and n counts from ebp.    *)
(***************************************************************************)
EXTENDS HookManGen, TLC

CONSTANTS Protos,     \* sequence of the prototypes, as given to Generate
          Scenarios,  \* set of [kind, p, al, mode, status]
          MaxHooks,   \* bound: hooks the two loops call together
          Results     \* META_RES values hooks give

ASSUME ProtosAssumption == \A k \in DOMAIN Protos : Generates(Protos[k])

VARIABLES
    run,    \* the scenario
    gen,    \* the function of its prototype
    pc,     \* index of the instruction to run; 0 when it has returned
    reg,    \* general registers
    mem,    \* memory, by address
    flags,  \* the two values last compared
    fpu,    \* floating point stack, top last
    ctx,    \* what SetupHookLoop was given, and the pointers it answers
    hist,   \* what the hooks and the original returned
    live    \* addresses where an object of the class exists

vars == <<run, gen, pc, reg, mem, flags, fpu, ctx, hist, live>>

\* Built by appending, so that TLC computes each of them once.
Each(f(_), seq) == FoldLeft(LAMBDA done, x : Append(done, f(x)), <<>>, seq)

\* The code of a function, and the byte each instruction starts at, which takes
\* the code in halves.
Program(code) ==
    LET ends[from, to \in DOMAIN code] ==
          IF from = to THEN <<code[from].len>>
          ELSE LET middle == (from + to) \div 2
                   left   == ends[from, middle]
                   right  == ends[middle + 1, to]
               IN left \o [k \in DOMAIN right |-> Last(left) + right[k]]
    IN [code |-> code, off |-> <<0>> \o ends[1, Len(code)]]

\* A prototype with the flags Generate finds out, the frame of its hook function,
\* and the function of a kind.
Compiled(p, code) == [proto |-> p, frame |-> Frame(p), prog |-> Program(code)]
HookProgram(given) == LET p == Detected(given) IN Compiled(p, GenerateHookFunc(p))
PubProgram(given)  == LET p == Detected(given) IN Compiled(p, GeneratePubFunc(p))

Programs == [hook |-> Each(HookProgram, Protos), pub |-> Each(PubProgram, Protos)]

P    == gen.proto
F    == gen.frame
Code == gen.prog
I    == Code.code[pc]

(***************************************************************************)
(* What the calling conventions say (gcc: Itanium C++ ABI on i386, msvc:   *)
(* thiscall, and cdecl for variable arguments).                            *)
(***************************************************************************)
WordsOf(pi)   == IF ByRef(pi) \/ ForcedByRef(pi) THEN 1 ELSE (pi.size + 3) \div 4
RetWords(p)   == IF Void(p) THEN 0 ELSE WordsOf(p.ret)
Class(p)      == CHOOSE pi \in {p.ret} \cup Range(p.params) : pi.type = "Object" /\ ByVal(pi)
Plus(a, n)    == <<a[1], a[2] + n>>
Stk(n)        == <<"stk", n>>
Junk          == <<"junk", 0>>
ParamHome(i)  == <<"fbr", 1000 * i>>      \* the caller's object of a by-reference parameter
OutAddr       == <<"out", 0>>             \* where the caller wants a memory return

\* The words of parameter i in the parameter area.
ParamWords(p, i) ==
    IF ForcedByRef(p.params[i]) THEN <<ParamHome(i)>>
    ELSE [k \in 1..WordsOf(p.params[i]) |-> <<"param", i, k>>]

AllParamWords(p) == FlattenSeq([i \in DOMAIN p.params |-> ParamWords(p, i)])

ParamOffset(p, i) == 4 * Len(FlattenSeq([j \in 1..i - 1 |-> ParamWords(p, j)]))

\* Hidden arguments before the parameters, on the stack.
Hidden(p, this, memret, thisOnStack) ==
    LET m == When(RetMem(p), <<memret>>) IN
    CASE p.comp = "gcc"                     -> m \o <<this>>
      [] p.comp = "msvc" /\ thisOnStack     -> <<this>> \o m
      [] p.comp = "msvc" /\ ~thisOnStack    -> m

FmtWord(p) == <<"param", NumOfParams(p) + 1, 1>>

\* Bytes the callee removes: everything for thiscall, the address of a memory
\* return on gcc.
CalleePops(p, words, thisOnStack) ==
    CASE p.comp = "gcc"                  -> IF RetMem(p) THEN 4 ELSE 0
      [] p.comp = "msvc" /\ thisOnStack  -> 0
      [] p.comp = "msvc" /\ ~thisOnStack -> 4 * words

\* A return value, and a parameter, whose construction and destruction matters.
IsTracked(pi)  == pi.type = "Object" /\ ByVal(pi) /\ pi.dtor
TrackedRet(p)  == ~Void(p) /\ IsTracked(p.ret)

(***************************************************************************)
(* The state in which the caller enters the function.                      *)
(***************************************************************************)
EntryWords(s) ==
    IF s.kind = "hook"
    THEN Hidden(P, <<"this", 0>>, OutAddr, ThisOnStack(P)) \o AllParamWords(P)
         \o When(HasVarArgs(P), <<FmtWord(P)>>)
    ELSE <<Num(s.status), IF s.mode = "fresh" THEN <<"hi", 0>> ELSE Num(0)>>

\* ebp + 8 is the return address of the hook function, ebp + 4 that of the
\* public function, which saves one register only.
ReturnAt(s) == IF s.kind = "hook" THEN 8 ELSE 4

EntryMem(s) ==
    LET w == EntryWords(s)
        byRef == {i \in DOMAIN P.params : ForcedByRef(P.params[i])}
        homes == {<<"fbr", 1000 * i + 4 * (k - 1)>> : i \in byRef, k \in 1..3}
    IN [a \in {Stk(ReturnAt(s))} |-> <<"retaddr", 0>>]
       @@ [a \in {Stk(ReturnAt(s) + 4 * k) : k \in DOMAIN w} |-> w[(a[2] - ReturnAt(s)) \div 4]]
       @@ [a \in homes |-> <<"param", a[2] \div 1000, (a[2] % 1000) \div 4 + 1>>]
       @@ [a \in {<<"m_pHI", 0>>} |-> IF s.kind = "hook" THEN <<"hi", 0>> ELSE Num(0)]

\* Objects that exist on entry: the by-value parameters.
EntryLive(s) ==
    LET first == 12 + 4 * Len(Hidden(P, <<>>, <<>>, ThisOnStack(P)))
        objects == {i \in DOMAIN P.params : IsTracked(P.params[i])}
    IN IF s.kind = "pub" THEN {}
       ELSE {IF ForcedByRef(P.params[i]) THEN ParamHome(i)
             ELSE Stk(first + ParamOffset(P, i)) : i \in objects}

EntryReg(s) ==
    [r \in {"eax", "ecx", "edx", "ebx", "esp", "ebp", "esi", "edi"} |->
       CASE r = "esp" -> Stk(ReturnAt(s))
         [] r = "ecx" /\ ~ThisOnStack(P) -> <<"this", 0>>
         [] r \in {"ebx", "ebp", "esi", "edi"} -> <<"saved", r>>
         [] OTHER -> Junk]

NoContext == [set |-> FALSE]

Init ==
    /\ run \in Scenarios
    /\ gen = Programs[run.kind][run.p]
    /\ pc = 1
    /\ reg = EntryReg(run)
    /\ mem = EntryMem(run)
    /\ flags = <<Junk, Junk>>
    /\ fpu = <<>>
    /\ ctx = NoContext
    /\ hist = [phase |-> "enter", hooks |-> 0, prev |-> 0, status |-> 0,
               over |-> <<>>, orig |-> <<>>, told |-> FALSE]
    /\ live = EntryLive(run)

(***************************************************************************)
(* The processor                                                           *)
(***************************************************************************)
\* Tables the code follows: virtual tables of the context, of a hook's
\* delegate, of the hooked object and of the hook manager information.
Tables ==
    (<<"ctx", 0>> :> <<"ctxvt", 0>>) @@ (<<"ctxvt", 0>> :> Fn("GetNext"))
    @@ (<<"ctxvt", 4>> :> Fn("GetOverrideRetPtr")) @@ (<<"ctxvt", 8>> :> Fn("GetOrigRetPtr"))
    @@ (<<"ctxvt", 12>> :> Fn("ShouldCallOrig"))
    @@ (<<"iter", 0>> :> <<"itervt", 0>>) @@ (<<"itervt", 8>> :> Fn("hook"))
    @@ (<<"this", VtblOffs>> :> <<"thisvt", 0>>)
    @@ (<<"hi", 0>> :> <<"hivt", 0>>) @@ (<<"hivt", 0>> :> Fn("SetInfo"))

Load(a) == CASE a \in DOMAIN mem    -> mem[a]
             [] a \in DOMAIN Tables -> Tables[a]
             [] OTHER               -> Junk

WordsAt(a, n) == [k \in 1..n |-> Load(Plus(a, 4 * (k - 1)))]

\* Memory with the words w at a.
Written(m, a, w) == [b \in {Plus(a, 4 * (k - 1)) : k \in DOMAIN w} |-> w[(b[2] - a[2]) \div 4 + 1]] @@ m

IsAddress(v) == Len(v) = 2 /\ v[1] \notin {"int", "junk", "fn", "saved", "bool", "str"}

\* The address the ModR/M and SIB bytes mean.
Address(i) ==
    CASE i.sib # NoSib /\ i.mod = "mem" /\ i.sib[3] = REG_IMM_BASE ->
           Num(i.sib[1] * reg[i.sib[2]][2] + i.disp)
      [] i.sib # NoSib /\ ~(i.mod = "mem" /\ i.sib[3] = REG_IMM_BASE) ->
           Plus(reg[i.sib[3]], i.disp)
      [] OTHER -> Plus(reg[i.rm], i.disp)

Operand(i) == IF i.mod = "reg" THEN reg[i.rm] ELSE Load(Address(i))

Advance == pc' = pc + 1 /\ UNCHANGED <<run, gen, ctx, hist, live>>

SetReg(r, v) == reg' = [reg EXCEPT ![r] = v] /\ Advance /\ UNCHANGED <<mem, flags, fpu>>

At(ops) == pc # 0 /\ I.op \in ops

Push ==
    /\ At({"push", "push_imm", "push_rm"})
    /\ LET v == CASE I.op = "push"     -> reg[I.reg]
                  [] I.op = "push_imm" -> I.imm
                  [] I.op = "push_rm"  -> Operand(I)
       IN mem' = Written(mem, Plus(reg["esp"], -4), <<v>>)
    /\ reg' = [reg EXCEPT !["esp"] = Plus(@, -4)]
    /\ Advance
    /\ UNCHANGED <<flags, fpu>>

Pop ==
    /\ At({"pop"})
    /\ reg' = [reg EXCEPT !["esp"] = Plus(@, 4), ![I.reg] = Load(reg["esp"])]
    /\ Advance
    /\ UNCHANGED <<mem, flags, fpu>>

AlignDown(n) == ((n + run.al) \div 16) * 16 - run.al

Holds(cond) ==
    CASE cond = "z"   -> flags[1] = flags[2]
      [] cond = "nge" -> flags[1][2] < flags[2][2]
      [] cond = "ng"  -> flags[1][2] <= flags[2][2]

\* The instructions that leave a value in a register.
ToRegister ==
    \/ At({"mov", "movzx8", "movzx16"}) /\ SetReg(I.reg, Operand(I))
    \/ At({"mov_imm"})  /\ SetReg(I.reg, I.imm)
    \/ At({"lea"})      /\ SetReg(I.reg, Address(I))
    \/ At({"xor"})      /\ SetReg(I.reg, Num(0))
    \/ At({"add"})      /\ SetReg(I.reg, Plus(reg[I.reg], Operand(I)[2]))
    \/ At({"add_imm"})  /\ SetReg(I.rm, Plus(reg[I.rm], I.imm[2]))
    \/ At({"sub_imm"})  /\ SetReg(I.rm, Plus(reg[I.rm], -I.imm[2]))
    \/ At({"and_imm"})  /\ SetReg(I.rm, Stk(AlignDown(reg[I.rm][2])))
    \/ At({"setcc"})    /\ SetReg(I.rm, Num(IF Holds(I.reg) THEN 1 ELSE 0))
    \/ At({"mov_to_imm"}) /\ I.mod = "reg" /\ SetReg(I.rm, I.imm)

ToMemory ==
    /\ \/ At({"mov_to"})
       \/ At({"mov_to_imm"}) /\ I.mod # "reg"
       \/ At({"mov8_to"})
    /\ mem' = Written(mem, Address(I), <<IF I.op = "mov_to_imm" THEN I.imm ELSE reg[I.reg]>>)
    /\ Advance
    /\ UNCHANGED <<reg, flags, fpu>>

\* A bool is only in the lowest byte of eax.
Compare ==
    /\ At({"cmp", "cmp_imm", "test", "test8"})
    /\ flags' = CASE I.op = "cmp"     -> <<reg[I.reg], Operand(I)>>
                  [] I.op = "cmp_imm" -> <<Operand(I), I.imm>>
                  [] I.op = "test"    -> <<reg[I.reg], Num(0)>>
                  [] I.op = "test8"   -> <<<<"low", reg[I.reg][2]>>, <<"low", 0>>>>
    /\ Advance
    /\ UNCHANGED <<reg, mem, fpu>>

Jump ==
    /\ At({"jmp", "jcc"})
    /\ LET target == Code.off[pc + 1] + I.imm[2] IN
       IF I.op = "jmp" \/ Holds(I.reg)
       THEN pc' \in {j \in DOMAIN Code.off : Code.off[j] = target}
       ELSE pc' = pc + 1
    /\ UNCHANGED <<run, gen, reg, mem, flags, fpu, ctx, hist, live>>

FloatWords(i) == IF i.op \in {"fld32", "fstp32"} THEN 1 ELSE 2

Float ==
    /\ \/ /\ At({"fld32", "fld64"})
          /\ fpu' = Append(fpu, WordsAt(Address(I), FloatWords(I)))
          /\ UNCHANGED mem
       \/ /\ At({"fstp32", "fstp64"})
          /\ I.len = 2 + DispLen(I.mod) + Len(I.sib) \div 3
          /\ fpu # <<>>
          /\ mem' = Written(mem, Address(I), SubSeq(Last(fpu), 1, FloatWords(I)))
          /\ fpu' = Front(fpu)
    /\ Advance
    /\ UNCHANGED <<reg, flags>>

\* rep movs: a last partial word is copied like a word.
StringMove ==
    /\ \/ At({"cld", "rep", "prefix16"}) /\ UNCHANGED <<reg, mem>>
       \/ /\ At({"movsd", "movsb"})
          /\ LET n    == reg["ecx"][2]
                 step == IF I.op = "movsd" THEN 4 * n ELSE n
             IN /\ mem' = Written(mem, reg["edi"],
                                  WordsAt(reg["esi"], IF I.op = "movsd" THEN n ELSE 1))
                /\ reg' = [reg EXCEPT !["edi"] = Plus(@, step), !["esi"] = Plus(@, step),
                                      !["ecx"] = Num(0)]
    /\ Advance
    /\ UNCHANGED <<flags, fpu>>

Return ==
    /\ At({"ret"})
    /\ pc' = 0
    /\ reg' = [reg EXCEPT !["esp"] = Plus(@, 4 + I.imm[2])]
    /\ UNCHANGED <<run, gen, mem, flags, fpu, ctx, hist, live>>

(***************************************************************************)
(* Calls                                                                   *)
(***************************************************************************)
Calling(f) == At({"call"}) /\ reg[I.rm] = Fn(f)

Arg(k) == Load(Plus(reg["esp"], 4 * k))

\* "this" of a member function without variable arguments.
This == IF P.comp = "gcc" THEN Arg(0) ELSE reg["ecx"]

\* Argument k of a member function that returns nothing in memory.
MemberArg(k) == IF P.comp = "gcc" THEN Arg(k + 1) ELSE Arg(k)

PopIfMsvc(words) == IF P.comp = "msvc" THEN 4 * words ELSE 0

\* Returning from a call: scratch registers and the stack below are lost.
Back(pops, eax, edx, m, floats) ==
    /\ pc' = pc + 1
    /\ reg' = [reg EXCEPT !["esp"] = Plus(@, pops), !["eax"] = eax, !["ecx"] = Junk,
                          !["edx"] = edx]
    /\ mem' = [a \in {b \in DOMAIN m : b[1] = "stk" => b[2] >= reg["esp"][2] + pops} |-> m[a]]
    /\ flags' = <<Junk, Junk>>
    /\ fpu' = fpu \o floats
    /\ UNCHANGED <<run, gen>>

Outer(k) == <<"outer", 0, k>>
OuterOrig(k) == <<"outerorig", 0, k>>
RecAddr     == <<"rec", 0>>
RecOrigAddr == <<"rec", 1000>>

\* CSourceHookImpl::SetupHookLoop, in a fresh context or picked up by a
\* recalled one, which brings status, override and (post) original value of
\* the function that recalled.
CallSetup ==
    /\ Calling("SetupHookLoop")
    /\ LET a(k) == MemberArg(k)
           n    == RetWords(P)
           outer(f(_)) == [k \in 1..n |-> f(k)]
           post == run.mode = "recall_post"
           m1 == Written(mem, a(3), <<Fn("orig")>>)
           m2 == IF run.mode = "fresh" THEN m1
                 ELSE Written(Written(m1, a(4), <<Num(run.status)>>), a(5), <<Num(run.status)>>)
           m3 == IF run.mode = "fresh" \/ n = 0 THEN m2
                 ELSE Written(Written(m2, RecAddr, outer(Outer)), RecOrigAddr, outer(OuterOrig))
       IN /\ ctx' = [set |-> TRUE, hi |-> a(0), vfnptr |-> a(1), this |-> a(2),
                     status |-> a(4), prev |-> a(5), cur |-> a(6),
                     orig |-> IF post THEN RecOrigAddr ELSE a(7),
                     over |-> CASE run.mode = "fresh" -> a(8)
                                [] post /\ run.status < MRES_OVERRIDE -> RecOrigAddr
                                [] OTHER -> RecAddr,
                     calls |-> ~post]
          /\ hist' = [hist EXCEPT !.phase = "pre", !.status = run.status,
                        !.over = CASE run.mode = "fresh" -> <<>>
                                   [] post /\ run.status < MRES_OVERRIDE -> outer(OuterOrig)
                                   [] OTHER -> outer(Outer),
                        !.orig = IF post THEN outer(OuterOrig) ELSE <<>>]
          /\ Back(PopIfMsvc(9), <<"ctx", 0>>, Junk, m3, <<>>)
    /\ live' = IF run.mode # "fresh" /\ TrackedRet(P) THEN live \cup {RecAddr, RecOrigAddr} ELSE live

\* CHookContext::GetNext: another hook, or none.
CallGetNext ==
    /\ Calling("GetNext")
    /\ \/ /\ hist.hooks < MaxHooks
          /\ Back(0, <<"iter", 0>>, Junk, mem, <<>>)
          /\ UNCHANGED hist
       \/ /\ Back(0, Num(0), Junk, mem, <<>>)
          /\ hist' = [hist EXCEPT !.phase = IF @ = "pre" THEN "orig" ELSE "end",
                                  !.prev = 0]
    /\ UNCHANGED <<ctx, live>>

CallRetPtr ==
    /\ \/ /\ Calling("GetOverrideRetPtr")
          /\ Back(0, ctx.over, Junk, mem, <<>>)
       \/ /\ Calling("GetOrigRetPtr")
          /\ Back(0, ctx.orig, Junk, mem, <<>>)
    /\ UNCHANGED <<ctx, hist, live>>

CallShouldCallOrig ==
    /\ Calling("ShouldCallOrig")
    /\ Back(0, <<"bool", IF ctx.calls THEN 1 ELSE 0>>, Junk, mem, <<>>)
    /\ hist' = [hist EXCEPT !.phase = IF ctx.calls THEN "orig" ELSE "skipped"]
    /\ UNCHANGED <<ctx, live>>

CallEnd ==
    /\ Calling("EndContext")
    /\ Back(PopIfMsvc(1), Junk, Junk, mem, <<>>)
    /\ ctx' = NoContext
    /\ UNCHANGED <<hist, live>>

\* Where the arguments of the pending call to a hook or to the original are.
OnStack(f)   == ThisOnStack(P) /\ (f = "orig" \/ P.comp = "gcc")
HiddenWords(f) == Len(Hidden(P, <<>>, <<>>, OnStack(f)))
FirstParam(f) == Plus(reg["esp"], 4 * HiddenWords(f))
MemRetArg(f) == IF P.comp = "msvc" /\ OnStack(f) THEN Arg(1) ELSE Arg(0)
TailWords(f) == IF ~HasVafmt(P) THEN 0 ELSE IF f = "orig" THEN 2 ELSE 1
ArgWords(f)  == HiddenWords(f) + Len(AllParamWords(P)) + TailWords(f)

\* A call to a function of the prototype that returns the words w: the
\* arguments are the callee's to change, and the by-value objects among them to
\* destroy.
Answer(f, w, m) ==
    LET pops  == CalleePops(P, ArgWords(f), OnStack(f))
        above == reg["esp"][2] + 4 * ArgWords(f)
        kept  == {a \in DOMAIN m : a[1] = "stk" => a[2] >= above}
        rest  == [a \in kept |-> m[a]]
        byVal == {i \in DOMAIN P.params : P.params[i].type = "Object" /\ ByVal(P.params[i])
                                          /\ ~ForcedByRef(P.params[i])}
        taken == {Plus(FirstParam(f), ParamOffset(P, i)) : i \in byVal}
        made  == IF RetMem(P) /\ TrackedRet(P) THEN {MemRetArg(f)} ELSE {}
    IN /\ live' = (live \ taken) \cup made
       /\ CASE Void(P) -> Back(pops, Junk, Junk, rest, <<>>)
            [] ~Void(P) /\ ~ByRef(P.ret) /\ P.ret.type = "Float" -> Back(pops, Junk, Junk, rest, <<w>>)
            [] ~Void(P) /\ RetMem(P) -> Back(pops, MemRetArg(f), Junk, Written(rest, MemRetArg(f), w), <<>>)
            [] OTHER -> Back(pops, w[1], IF Len(w) = 2 THEN w[2] ELSE Junk, rest, <<>>)

CallHook ==
    /\ Calling("hook")
    /\ \E res \in Results :
         LET w == [k \in 1..RetWords(P) |-> <<hist.phase, hist.hooks, k>>]
             m == IF res = MRES_IGNORED THEN mem ELSE Written(mem, ctx.cur, <<Num(res)>>)
         IN /\ Answer("hook", w, m)
            /\ hist' = [hist EXCEPT !.hooks = @ + 1, !.prev = res,
                                    !.status = IF res > @ THEN res ELSE @,
                                    !.over = IF res >= MRES_OVERRIDE THEN w ELSE @]
    /\ UNCHANGED ctx

CallOrig ==
    /\ Calling("orig")
    /\ LET w == [k \in 1..RetWords(P) |-> <<"orig", 0, k>>]
       IN /\ Answer("orig", w, mem)
          /\ hist' = [hist EXCEPT !.orig = w, !.phase = "called"]
    /\ UNCHANGED ctx

\* Constructor and destructor of the class, copy constructor and assignment.
Source == IF P.comp = "gcc" THEN Arg(1) ELSE Arg(0)

CallMethod ==
    /\ \/ /\ Calling("ctor")
          /\ live' = live \cup {This}
          /\ Back(0, Junk, Junk, Written(mem, This, [k \in 1..WordsOf(Class(P)) |-> <<"new", 0, k>>]), <<>>)
       \/ /\ Calling("dtor")
          /\ live' = live \ {This}
          /\ Back(0, Junk, Junk, mem, <<>>)
       \/ /\ Calling("copy")
          /\ live' = live \cup {This}
          /\ Back(PopIfMsvc(1), Junk, Junk, Written(mem, This, WordsAt(Source, WordsOf(Class(P)))), <<>>)
       \/ /\ Calling("assign")
          /\ Back(PopIfMsvc(1), Junk, Junk, Written(mem, This, WordsAt(Source, WordsOf(Class(P)))), <<>>)
          /\ UNCHANGED live
    /\ UNCHANGED <<ctx, hist>>

CallVsnprintf ==
    /\ Calling("vsnprintf")
    /\ Back(0, Junk, Junk, Written(mem, Arg(0), <<<<"text", 0>>>>), <<>>)
    /\ UNCHANGED <<ctx, hist, live>>

\* IHookManagerInfo::SetInfo, called by the public function.
CallSetInfo ==
    /\ Calling("SetInfo")
    /\ hist' = [hist EXCEPT !.told = TRUE]
    /\ Back(PopIfMsvc(5), Junk, Junk, mem, <<>>)
    /\ UNCHANGED <<ctx, live>>

Done == pc = 0 /\ UNCHANGED vars

Next ==
    \/ Push \/ Pop \/ ToRegister \/ ToMemory \/ Compare \/ Jump \/ Float \/ StringMove \/ Return
    \/ CallSetup \/ CallGetNext \/ CallRetPtr \/ CallShouldCallOrig \/ CallEnd
    \/ CallHook \/ CallOrig \/ CallMethod \/ CallVsnprintf \/ CallSetInfo
    \/ Done

Spec == Init /\ [][Next]_vars

(***************************************************************************)
(* Properties                                                              *)
(***************************************************************************)
\* Lowest address of the frame, where esp rests between statements.
FrameTop    == IF ThisOnStack(P) THEN 0 ELSE -4
FrameBottom == ((FrameTop - F.varsSize + run.al) \div 16) * 16 - run.al
InFrame(a)  == a[1] = "stk" /\ FrameBottom <= a[2] /\ a[2] < FrameTop

\* Every call that CheckAlignmentBeforeCall guards, in a check that is compiled
\* out, is made with the stack pointer at a multiple of 16, wherever the caller
\* left it and whatever the sizes of the parameters.
CallsAligned == At({"call"}) /\ I.imm = <<"aligned", 0>> => (reg["esp"][2] + run.al) % 16 = 0

\* Calls are aligned; pushes, alignment adjustments, arguments and what callees
\* remove cancel out: the loops start where the frame ends, the floating point
\* stack holds nothing but a result, and the function returns to its caller with
\* the registers the caller keeps, removing the arguments its convention says.
StackBalanced ==
    /\ CallsAligned
    /\ At({"call"}) /\ reg[I.rm] \in {Fn("GetNext"), Fn("GetOverrideRetPtr"), Fn("ShouldCallOrig")} =>
         reg["esp"][2] = FrameBottom - (IF P.comp = "gcc" THEN 4 ELSE 0)
    /\ At({"call"}) => fpu = <<>>
    /\ At({"ret"}) =>
         /\ reg["esp"] = Stk(ReturnAt(run))
         /\ Load(reg["esp"]) = <<"retaddr", 0>>
         /\ \A r \in {"ebx", "ebp", "esi", "edi"} : reg[r] = <<"saved", r>>
         /\ I.imm[2] = IF run.kind = "pub" THEN 0
                       ELSE CalleePops(P, Len(EntryWords(run)), ThisOnStack(P))
         /\ Len(fpu) = IF run.kind = "hook" /\ ~Void(P) /\ ~ByRef(P.ret) /\ P.ret.type = "Float"
                       THEN 1 ELSE 0

\* The words of the parameters a callee finds where its convention puts them;
\* what is passed by the address of a copy counts with what is at the address.
ArgumentWords(f) ==
    FlattenSeq([i \in DOMAIN P.params |->
        LET a == Plus(FirstParam(f), ParamOffset(P, i)) IN
        IF ForcedByRef(P.params[i]) THEN WordsAt(Load(a), (P.params[i].size + 3) \div 4)
        ELSE WordsAt(a, WordsOf(P.params[i]))])

CallerWords ==
    FlattenSeq([i \in DOMAIN P.params |->
        [k \in 1..(IF ByRef(P.params[i]) THEN 1 ELSE (P.params[i].size + 3) \div 4)
            |-> <<"param", i, k>>]])

\* Hooks and the original get the arguments the caller passed, in the order of
\* the convention, whatever earlier callees did to theirs; memory for the
\* result; the formatted text in place of variable arguments; and "this".
\* SetupHookLoop gets the hook manager, the entry of the virtual table and
\* distinct variables of the frame; SetInfo gets what the manager is about.
ArgumentsArrive ==
    /\ \A f \in {"hook", "orig"} : Calling(f) =>
         /\ ArgumentWords(f) = CallerWords
         /\ (IF OnStack(f) THEN Arg(IF P.comp = "gcc" /\ RetMem(P) THEN 1 ELSE 0) ELSE reg["ecx"])
              = (IF f = "hook" THEN <<"iter", 0>> ELSE <<"this", 0>>)
         /\ RetMem(P) => InFrame(MemRetArg(f))
         /\ HasVafmt(P) =>
              LET tail == WordsAt(Plus(reg["esp"], 4 * (ArgWords(f) - TailWords(f))), TailWords(f)) IN
              /\ f = "orig" => tail[1] = <<"str", "%s">>
              /\ Load(Last(tail)) = <<"text", 0>>
    /\ Calling("SetupHookLoop") =>
         /\ This = <<"shptr", 0>>
         /\ MemberArg(0) = <<"hi", 0>>
         /\ MemberArg(1) = <<"thisvt", 4 * VtblIdx>>
         /\ MemberArg(2) = <<"this", 0>>
         /\ LET given == IF Void(P) THEN 3..6 ELSE 3..8 IN
            /\ \A k \in given : InFrame(MemberArg(k))
            /\ Cardinality({MemberArg(k) : k \in given}) = Cardinality(given)
    /\ Calling("EndContext") => This = <<"shptr", 0>> /\ MemberArg(0) = <<"ctx", 0>>
    /\ Calling("SetInfo") =>
         /\ This = <<"hi", 0>>
         /\ <<MemberArg(1), MemberArg(2)>> = <<Num(VtblOffs), Num(VtblIdx)>>

\* A hook reads the highest result so far as status and the result of the hook
\* before it, in this loop, as previous result; its own starts as MRES_IGNORED.
HookSeesResults ==
    Calling("hook") => /\ Load(ctx.status) = Num(hist.status)
                       /\ Load(ctx.prev) = Num(hist.prev)
                       /\ Load(ctx.cur) = Num(MRES_IGNORED)

\* The caller gets the value of the last hook that overrode, or what the
\* original returned when none did, where its convention looks for it; the
\* public function tells hi about the manager and stores it when asked to.
ReturnsWhatItShould ==
    /\ pc = 0 /\ run.kind = "hook" /\ ~Void(P) =>
         LET w == IF hist.status >= MRES_OVERRIDE THEN hist.over ELSE hist.orig IN
         CASE RetMem(P) -> WordsAt(OutAddr, Len(w)) = w /\ reg["eax"] = OutAddr
           [] ~RetMem(P) /\ ~ByRef(P.ret) /\ P.ret.type = "Float" -> Last(fpu) = w
           [] OTHER -> reg["eax"] = w[1] /\ (Len(w) = 2 => reg["edx"] = w[2])
    /\ pc = 0 /\ run.kind = "pub" =>
         /\ reg["eax"] = Num(0)
         /\ hist.told = (run.mode = "fresh")
         /\ mem[<<"m_pHI", 0>>] = IF run.status = 0 THEN Num(0) ELSE EntryWords(run)[2]

\* Objects are constructed where there is none and copied, assigned and
\* destroyed where there is one; when the function returns, of the objects it
\* or its callees made only the result in the caller's memory is left.
ObjectsDestroyedOnce ==
    /\ Calling("ctor") => This \notin live
    /\ Calling("copy") => This \notin live /\ Source \in live
    /\ Calling("dtor") => This \in live
    /\ Calling("assign") /\ IsTracked(Class(P)) => {This, Source} \subseteq live
    /\ pc = 0 => {a \in live : a[1] \in {"stk", "out"}} =
                 (IF run.kind = "hook" /\ RetMem(P) /\ TrackedRet(P) THEN {OutAddr} ELSE {})

\* The code writes through addresses only, and only above the stack pointer:
\* into its frame, the memory of the result or the stored hook manager.
WritesInBounds ==
    At({"mov_to", "mov_to_imm", "mov8_to", "fstp32", "fstp64", "movsd", "movsb"}) /\ I.mod # "reg" =>
      LET a == IF I.op \in {"movsd", "movsb"} THEN reg["edi"] ELSE Address(I) IN
      \/ a[1] = "stk" /\ reg["esp"][2] <= a[2] /\ a[2] < FrameTop
      \/ a[1] \in {"out", "rec", "m_pHI"}
=============================================================================
