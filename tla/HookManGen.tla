----------------------------- MODULE HookManGen -----------------------------
(***************************************************************************)
(* GenContext (sourcehook_hookmangen.cpp): the hook function and the       *)
(* public function it emits for a prototype, as sequences of the           *)
(* instructions of module X86.                                             *)
(*                                                                         *)
(* A prototype is a record                                                 *)
(*   [comp, conv, ret, params]                                             *)
(* with comp the compiler SourceHook was built with ("gcc" or "msvc"),     *)
(* conv a set of calling-convention flags, and each pass info              *)
(*   [size, type, flags, ctor, copy, dtor, assign]                         *)
(* with the set of PassFlag_ names and which function pointers are given.  *)
(***************************************************************************)
EXTENDS X86, FiniteSetsExt

SIZE_PTR   == 4
STRBUF_LEN == 4096

MRES_IGNORED   == 0
MRES_OVERRIDE  == 2
MRES_SUPERCEDE == 3

CONSTANTS VtblOffs, VtblIdx      \* where the hooked function is in the object

ASSUME VtblAssumption == VtblOffs \in Nat /\ VtblIdx \in Nat

\* The immediate that is the address of something known when code is made.
Fn(name) == <<"fn", name>>

GccOnly(p, code)  == IF p.comp = "gcc"  THEN code ELSE <<>>
MsvcOnly(p, code) == IF p.comp = "msvc" THEN code ELSE <<>>
When(cond, code)  == IF cond THEN code ELSE <<>>

HasVarArgs(p) == "HasVarArgs" \in p.conv
HasVafmt(p)   == "HasVafmt" \in p.conv
RetMem(p)     == "RetMem" \in p.ret.flags
Void(p)       == p.ret.size = 0
ByVal(pi)     == "ByVal" \in pi.flags
ByRef(pi)     == "ByRef" \in pi.flags
ForcedByRef(pi) == "ForcedByRef" \in pi.flags
NumOfParams(p) == Len(p.params)

(***************************************************************************)
(* Conditions on prototypes                                                *)
(***************************************************************************)
PassInfoSupported(pi) ==
    /\ pi.type \in {"Basic", "Float", "Object"}
    /\ pi.type = "Object" /\ ByVal(pi) =>
         /\ "CCtor" \in pi.flags    => pi.copy
         /\ "ODtor" \in pi.flags    => pi.dtor
         /\ "AssignOp" \in pi.flags => pi.assign
         /\ "OCtor" \in pi.flags    => pi.ctor
    /\ pi.flags \cap {"ByVal", "ByRef"} # {}

AutoDetectRetType(pi) ==
    LET flags ==
          CASE ByVal(pi) /\ pi.type \in {"Basic", "Float"} /\ pi.size <= 8
                 -> (pi.flags \ {"RetMem"}) \cup {"RetReg"}
            [] ByVal(pi) /\ pi.type \in {"Basic", "Float"} /\ pi.size > 8
                 -> (pi.flags \ {"RetReg"}) \cup {"RetMem"}
            [] ByVal(pi) /\ pi.type = "Object" /\ pi.flags \cap {"RetMem", "RetReg"} = {}
                 -> pi.flags \cup {"RetMem"}
            [] ~ByVal(pi)
                 -> (pi.flags \ {"RetMem"}) \cup {"RetReg"}
            [] OTHER -> pi.flags
    IN [pi EXCEPT !.flags = flags]

AutoDetectParamFlags(comp, pi) ==
    IF comp = "gcc" /\ pi.type = "Object" /\ ByVal(pi) /\ "ODtor" \in pi.flags
    THEN [pi EXCEPT !.flags = @ \cup {"ForcedByRef"}]
    ELSE pi

Detected(p) ==
    [p EXCEPT !.ret    = AutoDetectRetType(p.ret),
              !.params = [i \in DOMAIN p.params |-> AutoDetectParamFlags(p.comp, p.params[i])]]

\* GenContext::Generate makes code for exactly these prototypes (of a version
\* CProto knows).
Generates(p) ==
    /\ p.conv \ {"HasVarArgs", "HasVafmt"} = {"ThisCall"}
    /\ ~Void(p) => PassInfoSupported(Detected(p).ret)
    /\ \A i \in DOMAIN p.params : PassInfoSupported(Detected(p).params[i])

(***************************************************************************)
(* Sizes                                                                   *)
(***************************************************************************)
GetRealSize(pi) == IF ByRef(pi) \/ ForcedByRef(pi) THEN SIZE_PTR ELSE pi.size

AlignSize(x, boundary) == IF x % boundary # 0 THEN (x \div boundary) * boundary + boundary ELSE x

GetParamStackSize(pi) == AlignSize(GetRealSize(pi), 4)

GetParamsTotalStackSize(p) ==
    FoldLeft(LAMBDA acc, pi : acc + GetParamStackSize(pi), 0, p.params)

GetForcedByRefParamOffset(p, i) ==
    FoldLeft(LAMBDA off, pi : IF ForcedByRef(pi) THEN off + AlignSize(pi.size, 4) ELSE off,
             0, SubSeq(p.params, 1, i - 1))

GetForcedByRefParamsSize(p) == GetForcedByRefParamOffset(p, NumOfParams(p) + 1)

\* Memory return AND (has destructor OR has assign operator)
MemRetWithTempObj(p) == RetMem(p) /\ p.ret.flags \cap {"ODtor", "AssignOp"} # {}

(***************************************************************************)
(* The frame of the hook function: offsets from ebp.                       *)
(***************************************************************************)
ThisOnStack(p) == p.comp = "gcc" \/ HasVarArgs(p)

AddVarToFrame(offset, size) == offset - size

\* ResetFrame and every AddVarToFrame of GenerateHookFunc, in order.
Frame(p) ==
    LET start      == IF ThisOnStack(p) THEN 0 ELSE -4
        params0    == IF ThisOnStack(p) THEN 16 ELSE 12
        retsize    == IF Void(p) THEN 0 ELSE GetParamStackSize(p.ret)
        vfnptr     == AddVarToFrame(start, SIZE_PTR)
        status     == AddVarToFrame(vfnptr, 4)
        prev       == AddVarToFrame(status, 4)
        cur        == AddVarToFrame(prev, 4)
        iter       == AddVarToFrame(cur, SIZE_PTR)
        context    == AddVarToFrame(iter, SIZE_PTR)
        retptr     == AddVarToFrame(context, IF Void(p) THEN 0 ELSE SIZE_PTR)
        origret    == AddVarToFrame(retptr, retsize)
        overrideret == AddVarToFrame(origret, retsize)
        pluginret  == AddVarToFrame(overrideret, retsize)
        memret     == AddVarToFrame(pluginret, IF MemRetWithTempObj(p) THEN retsize ELSE 0)
        fbrr       == AddVarToFrame(memret, IF p.comp = "gcc" THEN GetForcedByRefParamsSize(p) ELSE 0)
        argptr     == AddVarToFrame(fbrr, IF HasVarArgs(p) THEN SIZE_PTR ELSE 0)
        vabuf      == AddVarToFrame(argptr, IF HasVafmt(p) THEN STRBUF_LEN ELSE 0)
    IN [v_this |-> IF ~ThisOnStack(p) THEN -4
                   ELSE IF RetMem(p) /\ p.comp = "gcc" THEN 16 ELSE 12,
        v_memret_addr |-> IF ~RetMem(p) THEN 0
                          ELSE IF p.comp = "gcc" THEN 12 ELSE params0,
        param_base_offs |-> IF RetMem(p) THEN params0 + SIZE_PTR ELSE params0,
        v_vfnptr_origentry |-> vfnptr, v_status |-> status, v_prev_res |-> prev,
        v_cur_res |-> cur, v_iter |-> iter, v_pContext |-> context, v_ret_ptr |-> retptr,
        v_orig_ret |-> origret, v_override_ret |-> overrideret, v_plugin_ret |-> pluginret,
        v_place_for_memret |-> memret, v_place_fbrr_base |-> fbrr,
        v_va_argptr |-> argptr, v_va_buf |-> vabuf, varsSize |-> start - vabuf]

(***************************************************************************)
(* Copies and calls.  A call that CheckAlignmentBeforeCall precedes in the *)
(* source is marked: the check, which is compiled out, says what the stack *)
(* pointer has to be there.                                                *)
(***************************************************************************)
BitwiseCopy_Setup == IA32_Cld \o IA32_Push_Reg("edi") \o IA32_Push_Reg("esi")

CopyDwords(size) ==                                             \* mutant
    IA32_Mov_Reg_Imm32("ecx", Num(size \div 4)) \o IA32_Rep \o IA32_Movsd
    \o IA32_Pop_Reg("esi") \o IA32_Pop_Reg("edi")
BitwiseCopy_Do(size) ==
    LET dwords == size \div 4
        bytes  == size % 4
    IN When(dwords # 0, IA32_Mov_Reg_Imm32("ecx", Num(dwords)) \o IA32_Rep \o IA32_Movsd)
    \o When(bytes # 0, IA32_Mov_Reg_Imm32("ecx", Num(bytes)) \o IA32_Rep \o IA32_Movsb)
    \o IA32_Pop_Reg("esi") \o IA32_Pop_Reg("edi")

CheckAlignmentBeforeCall(reg) == <<[IA32_Call_Reg(reg)[1] EXCEPT !.imm = <<"aligned", 0>>]>>

\* Bytes a call pushes; flags are the words it adds to its parameters.
PushedByCall(p, paramsize, flags) ==
    paramsize + (IF p.comp = "gcc"  /\ "GCC_ThisOnStack" \in flags  THEN SIZE_PTR ELSE 0)
              + (IF p.comp = "msvc" /\ "MSVC_ThisOnStack" \in flags THEN SIZE_PTR ELSE 0)
              + (IF "MemRet" \in flags THEN SIZE_PTR ELSE 0)

\* What AlignStackBeforeCall subtracts from esp; pushed is
\* m_BytesPushedAfterInitialAlignment.
AlignStackBeforeCall(p, paramsize, flags, pushed) ==
    LET size == PushedByCall(p, paramsize, flags)
        sub  == (IF size % 16 = 0 THEN 0 ELSE 16 - (size % 16)) - pushed
    IN IF sub < 0 THEN 16 - ((-sub) % 16) ELSE sub

AlignStackAfterCall(bytes) == When(bytes # 0, IA32_Add_Rm_ImmAuto("esp", bytes, "reg"))

\* The code between AlignStackBeforeCall and AlignStackAfterCall.
Aligned(bytes, code) ==
    When(bytes # 0, IA32_Sub_Rm_ImmAuto("esp", bytes, "reg")) \o code \o AlignStackAfterCall(bytes)

\* Constructor or destructor of the object at ebp + where.
CallOnObject(p, where, function) ==
       IA32_Lea_DispRegImmAuto("ecx", "ebp", where)
    \o GccOnly(p, IA32_Push_Reg("ecx"))
    \o IA32_Mov_Reg_Imm32("eax", Fn(function))
    \o CheckAlignmentBeforeCall("eax")
    \o GccOnly(p, IA32_Pop_Reg("ecx"))

\* Copy constructor or assignment operator: source address in edx,
\* destination in ecx on msvc and pushed by dest on gcc.
CallWithSource(p, source, dest, function) ==
    Aligned(AlignStackBeforeCall(p, SIZE_PTR, {"GCC_ThisOnStack"}, 0),
            source \o IA32_Push_Reg("edx") \o dest
         \o IA32_Mov_Reg_Imm32("eax", Fn(function))
         \o CheckAlignmentBeforeCall("eax")
         \o GccOnly(p, IA32_Add_Rm_ImmAuto("esp", 2 * SIZE_PTR, "reg")))

\* *(ebp + to) = *(ebp + from) by the assignment operator.
AssignVar(p, to, from) ==
    Aligned(AlignStackBeforeCall(p, SIZE_PTR, {"GCC_ThisOnStack"}, 0),
            IA32_Lea_DispRegImmAuto("edx", "ebp", from)
         \o IA32_Lea_DispRegImmAuto("ecx", "ebp", to)
         \o IA32_Push_Reg("edx") \o GccOnly(p, IA32_Push_Reg("ecx"))
         \o IA32_Mov_Reg_Imm32("eax", Fn("assign"))
         \o CheckAlignmentBeforeCall("eax")
         \o GccOnly(p, IA32_Add_Rm_ImmAuto("esp", 2 * SIZE_PTR, "reg")))

\* *(ebp + to) = *(ebp + from), bit by bit.
CopyVar(p, to, from) ==
    BitwiseCopy_Setup \o IA32_Lea_DispRegImmAuto("edi", "ebp", to)
                      \o IA32_Lea_DispRegImmAuto("esi", "ebp", from)
                      \o BitwiseCopy_Do(p.ret.size)

(***************************************************************************)
(* Parameters                                                              *)
(***************************************************************************)
\* NextRegEBX_ECX_EDX: the register of the n-th use.
NextRegEBX_ECX_EDX(n) == <<"ebx", "ecx", "edx">>[(n % 3) + 1]

PushRef(offset) == IA32_Push_Rm_DispAuto("ebp", offset)

PushBasic(offset, pi, n) ==
    LET reg  == NextRegEBX_ECX_EDX(n)
        reg2 == NextRegEBX_ECX_EDX(n + 1)
    IN CASE pi.size = 1 -> IA32_Movzx_Reg32_Rm8_DispAuto(reg, "ebp", offset) \o IA32_Push_Reg(reg)
         [] pi.size = 2 -> IA32_16BIT_PREFIX \o IA32_Movzx_Reg32_Rm16_DispAuto(reg, "ebp", offset)
                        \o IA32_Push_Reg(reg)
         [] pi.size = 4 -> IA32_Mov_Reg_Rm_DispAuto(reg, "ebp", offset) \o IA32_Push_Reg(reg)
         [] pi.size = 8 -> IA32_Mov_Reg_Rm_DispAuto(reg, "ebp", offset + 4)
                        \o IA32_Mov_Reg_Rm_DispAuto(reg2, "ebp", offset)
                        \o IA32_Push_Reg(reg) \o IA32_Push_Reg(reg2)

PushFloat(offset, pi, n) ==
    CASE pi.size = 4 -> IA32_Fld_Mem32_DispAuto("ebp", offset)
                     \o IA32_Push_Reg(NextRegEBX_ECX_EDX(n)) \o IA32_Fstp_Mem32_ESP
      [] pi.size = 8 -> IA32_Fld_Mem64_DispAuto("ebp", offset)
                     \o IA32_Sub_Rm_Imm8("esp", 8, "reg") \o IA32_Fstp_Mem64_ESP

PushObject(p, offset, pi, place) ==
    LET toPlace(reg) == IA32_Lea_DispRegImmAuto(reg, "ebp", place)
        toStack(reg, over) == IA32_Lea_Reg_DispRegMultImm8(reg, REG_NOIDX, "esp", 1, over)
        construct == IA32_Push_Reg("eax")
                  \o (IF ForcedByRef(pi) THEN toPlace("ecx") ELSE toStack("ecx", 4))
                  \o IA32_Lea_DispRegImmAuto("eax", "ebp", offset)
                  \o IA32_Push_Reg("eax") \o GccOnly(p, IA32_Push_Reg("ecx"))
                  \o IA32_Mov_Reg_Imm32("edx", Fn("copy")) \o IA32_Call_Reg("edx")
                  \o GccOnly(p, IA32_Add_Rm_ImmAuto("esp", 2 * SIZE_PTR, "reg"))
                  \o IA32_Pop_Reg("eax")
        bitwise   == BitwiseCopy_Setup
                  \o (IF ForcedByRef(pi) THEN toPlace("edi") ELSE toStack("edi", 8))
                  \o IA32_Lea_DispRegImmAuto("esi", "ebp", offset)
                  \o BitwiseCopy_Do(pi.size)
    IN When(~ForcedByRef(pi), IA32_Sub_Rm_ImmAuto("esp", GetParamStackSize(pi), "reg"))
    \o (IF pi.copy THEN construct ELSE bitwise)
    \o When(ForcedByRef(pi), toPlace("ecx") \o IA32_Push_Reg("ecx"))

\* How often pushing a parameter asks for a register.
RegUses(pi) ==
    CASE ByVal(pi) /\ pi.type = "Basic" /\ pi.size = 8 -> 2
      [] ByVal(pi) /\ pi.type = "Basic" /\ pi.size # 8 -> 1
      [] ByVal(pi) /\ pi.type = "Float" /\ pi.size = 4 -> 1
      [] OTHER -> 0

RegUsesFrom(p, i) == FoldLeft(LAMBDA n, pi : n + RegUses(pi), 0,
                              SubSeq(p.params, i, NumOfParams(p)))

\* The parameters in reverse order; m_RegCounter starts at n.
PushParams(p, base, fbrr, n) ==
    LET offset(i) == base + GetParamsTotalStackSize([p EXCEPT !.params = SubSeq(@, 1, i - 1)])
        used(i)   == n + RegUsesFrom(p, i + 1)
        push(i)   ==
            LET pi == p.params[i] IN
            CASE ByVal(pi) /\ pi.type = "Basic"  -> PushBasic(offset(i), pi, used(i))
              [] ByVal(pi) /\ pi.type = "Float"  -> PushFloat(offset(i), pi, used(i))
              [] ByVal(pi) /\ pi.type = "Object" ->
                    PushObject(p, offset(i), pi, fbrr + GetForcedByRefParamOffset(p, i))
              [] ~ByVal(pi) /\ ByRef(pi)         -> PushRef(offset(i))
    IN FlattenSeq([k \in 1..NumOfParams(p) |-> push(NumOfParams(p) + 1 - k)])

DestroyParams(p, fbrr) ==
    LET destroy(i) ==
          LET pi == p.params[i] IN
          When(pi.type = "Object" /\ "ODtor" \in pi.flags /\ ByVal(pi) /\ ForcedByRef(pi),
               Aligned(AlignStackBeforeCall(p, 0, {"GCC_ThisOnStack"}, 0),
                  IA32_Lea_DispRegImmAuto("ecx", "ebp", fbrr + GetForcedByRefParamOffset(p, i))
               \o IA32_Push_Reg("ecx") \o IA32_Mov_Reg_Imm32("eax", Fn("dtor"))
               \o CheckAlignmentBeforeCall("eax") \o IA32_Pop_Reg("ecx")))
    IN FlattenSeq([k \in 1..NumOfParams(p) |-> destroy(NumOfParams(p) + 1 - k)])

PushMemRetPtr(p, saveTo, place) ==
    When(RetMem(p),
         IA32_Lea_DispRegImmAuto("edx", "ebp", IF MemRetWithTempObj(p) THEN place ELSE saveTo)
      \o IA32_Push_Reg("edx"))

CallerCleansMemRet(p) == IF RetMem(p) THEN 4 ELSE 0             \* mutant

\* What PushMemRetPtr and PushParams return: bytes the caller cleans.
MemRetBytes(p) == IF RetMem(p) /\ p.comp = "msvc" THEN 4 ELSE 0

(***************************************************************************)
(* Return values                                                           *)
(***************************************************************************)
ReturnedInRegisters(pi) ==
    pi.type = "Basic" \/ (pi.type = "Object" /\ "RetReg" \in pi.flags)

SaveEax(size, where) ==                                         \* mutant
    IF size <= 8 THEN IA32_Mov_Rm_Reg_DispAuto("ebp", "eax", where) ELSE <<>>

\* mov eax(:edx) to the variable, for sizes up to 4 and 8
SaveRegisters(size, where) ==
    CASE size <= 4 -> IA32_Mov_Rm_Reg_DispAuto("ebp", "eax", where)
      [] size > 4 /\ size <= 8 -> IA32_Mov_Rm_Reg_DispAuto("ebp", "eax", where)
                               \o IA32_Mov_Rm_Reg_DispAuto("ebp", "edx", where + 4)
      [] OTHER -> <<>>

SaveRetVal(p, where, place) ==
    LET size == GetRealSize(p.ret)
        takeTemp ==
             (IF p.ret.assign THEN AssignVar(p, where, place) ELSE CopyVar(p, where, place))
          \o When(p.ret.dtor, Aligned(AlignStackBeforeCall(p, 0, {"GCC_ThisOnStack"}, 0),
                                      CallOnObject(p, place, "dtor")))
        registers ==
          CASE p.ret.type = "Float" /\ size = 4 -> IA32_Fstp_Mem32_DispAuto("ebp", where)
            [] p.ret.type = "Float" /\ size = 8 -> IA32_Fstp_Mem64_DispAuto("ebp", where)
            [] ReturnedInRegisters(p.ret) -> SaveRegisters(size, where)
            [] OTHER -> <<>>
    IN CASE size = 0 -> <<>>
         [] size # 0 /\ ByRef(p.ret) -> IA32_Mov_Rm_Reg_DispAuto("ebp", "eax", where)
         [] size # 0 /\ ~ByRef(p.ret) /\ RetMem(p) /\ ~MemRetWithTempObj(p) -> <<>>
         [] OTHER -> When(RetMem(p), takeTemp) \o registers

\* A virtual call of the context: entry index of its table.
CallContext(p, context, fetch) ==
       IA32_Mov_Reg_Rm_DispAuto("ecx", "ebp", context)
    \o GccOnly(p, IA32_Push_Reg("ecx"))
    \o IA32_Mov_Reg_Rm("eax", "ecx", "mem") \o fetch \o IA32_Call_Reg("eax")
    \o GccOnly(p, IA32_Pop_Reg("ecx"))

JumpOver8(cond, code)  == IA32_Jump_Cond_Imm8(cond, Bytes(code)) \o code
JumpOver32(cond, code) == IA32_Jump_Cond_Imm32(cond, Bytes(code)) \o code

\* if (cur_res >= MRES_OVERRIDE) *pContext->GetOverrideRetPtr() = plugin_ret
ProcessPluginRetVal(p, F) ==
    LET store ==
          CASE ByRef(p.ret) -> IA32_Mov_Reg_Rm_DispAuto("ecx", "ebp", F.v_plugin_ret)
                            \o IA32_Mov_Rm_Reg("eax", "ecx", "mem")
            [] ~ByRef(p.ret) /\ p.ret.assign ->
                 CallWithSource(p, IA32_Lea_DispRegImmAuto("edx", "ebp", F.v_plugin_ret),
                                IF p.comp = "msvc" THEN IA32_Mov_Reg_Rm("ecx", "eax", "reg")
                                                   ELSE IA32_Push_Reg("eax"), "assign")
            [] OTHER -> BitwiseCopy_Setup \o IA32_Mov_Reg_Rm("edi", "eax", "reg")
                        \o IA32_Lea_DispRegImmAuto("esi", "ebp", F.v_plugin_ret)
                        \o BitwiseCopy_Do(p.ret.size)
    IN When(~Void(p),
            IA32_Mov_Reg_Rm_DispAuto("eax", "ebp", F.v_cur_res)
         \o IA32_Cmp_Rm_Imm32("reg", "eax", MRES_OVERRIDE)
         \o JumpOver8("nge",
                 CallContext(p, F.v_pContext, IA32_Mov_Reg_Rm_DispAuto("eax", "eax", 4)) \o store))

\* retptr = status >= MRES_OVERRIDE ? GetOverrideRetPtr() : GetOrigRetPtr()
PrepareReturn(p, F) ==
    When(~Void(p),
         IA32_Mov_Reg_Rm_DispAuto("ecx", "ebp", F.v_pContext)
      \o GccOnly(p, IA32_Push_Reg("ecx"))
      \o IA32_Xor_Reg_Rm("eax", "eax", "reg")
      \o IA32_Cmp_Rm_Disp8_Imm8("ebp", F.v_status, MRES_OVERRIDE)
      \o IA32_SetCC_Rm8("eax", "nge")
      \o IA32_Lea_Reg_RegMultImm32("eax", "eax", 4, 4)
      \o IA32_Mov_Reg_Rm("edx", "ecx", "mem")
      \o IA32_Add_Reg_Rm("edx", "eax", "reg")
      \o IA32_Mov_Reg_Rm("edx", "edx", "mem")
      \o IA32_Call_Reg("edx")
      \o GccOnly(p, IA32_Pop_Reg("ecx"))
      \o IA32_Mov_Rm_Reg_DispAuto("ebp", "eax", F.v_ret_ptr))

DoReturn(p, F) ==
    LET size == p.ret.size
        load == IA32_Mov_Reg_Rm("eax", "ecx", "mem")
        registers ==
          CASE p.ret.type = "Float" /\ size = 4 -> IA32_Fld_Mem32("ecx")
            [] p.ret.type = "Float" /\ size = 8 -> IA32_Fld_Mem64("ecx")
            [] ReturnedInRegisters(p.ret) /\ size <= 4 -> load
            [] ReturnedInRegisters(p.ret) /\ size > 4 /\ size <= 8 -> load \o IA32_Mov_Reg_Rm_DispAuto("edx", "ecx", 4)
            [] OTHER -> <<>>
        memory ==
          (IF p.ret.copy
           THEN CallWithSource(p, IA32_Mov_Reg_Rm("edx", "ecx", "reg"),
                               IF p.comp = "msvc"
                               THEN IA32_Mov_Reg_Rm_DispAuto("ecx", "ebp", F.v_memret_addr)
                               ELSE IA32_Push_Rm_DispAuto("ebp", F.v_memret_addr), "copy")
           ELSE BitwiseCopy_Setup
             \o IA32_Mov_Reg_Rm_DispAuto("edi", "ebp", F.v_memret_addr)
             \o IA32_Mov_Reg_Rm("esi", "ecx", "reg") \o BitwiseCopy_Do(size))
          \o IA32_Mov_Reg_Rm_DispAuto("eax", "ebp", F.v_memret_addr)
    IN When(~Void(p),
            IA32_Mov_Reg_Rm_DispAuto("ecx", "ebp", F.v_ret_ptr)
         \o (IF ByRef(p.ret) THEN load ELSE registers \o When(RetMem(p), memory)))

(***************************************************************************)
(* The loops over the hooks and the original call                          *)
(***************************************************************************)
HookMemRetFlag(p) == IF RetMem(p) THEN {"MemRet"} ELSE {}

LastResultIsStatus(F) ==                                        \* mutant
       IA32_Mov_Reg_Rm_DispAuto("eax", "ebp", F.v_cur_res)
    \o IA32_Mov_Rm_Reg_Disp8("ebp", "eax", F.v_prev_res)
    \o IA32_Mov_Rm_Reg_Disp8("ebp", "eax", F.v_status)

\* prev_res = cur_res; if (cur_res > status) status = cur_res;
ProcessMetaReturn(F) ==
       IA32_Mov_Reg_Rm_DispAuto("eax", "ebp", F.v_cur_res)
    \o IA32_Mov_Reg_Rm_DispAuto("edx", "ebp", F.v_status)
    \o IA32_Mov_Rm_Reg_Disp8("ebp", "eax", F.v_prev_res)
    \o IA32_Cmp_Reg_Rm("eax", "edx", "reg")
    \o JumpOver8("ng", IA32_Mov_Rm_Reg_Disp8("ebp", "eax", F.v_status))

\* n is m_RegCounter when the parameters are pushed
GenerateCallHooks(p, F, n) ==
    LET fmtBytes == IF HasVafmt(p) THEN SIZE_PTR ELSE 0
        getNext  == CallContext(p, F.v_pContext, IA32_Mov_Reg_Rm("eax", "eax", "mem"))
                 \o IA32_Test_Rm_Reg("eax", "eax", "reg")
        align    == AlignStackBeforeCall(p, GetParamsTotalStackSize(p) + fmtBytes,
                                         {"GCC_ThisOnStack"} \cup HookMemRetFlag(p), 0)
        clean    == fmtBytes + GetParamsTotalStackSize(p) + MemRetBytes(p)
        callHook ==
            Aligned(align,
               When(HasVafmt(p), IA32_Lea_DispRegImmAuto("ecx", "ebp", F.v_va_buf)
                              \o IA32_Push_Reg("ecx"))
            \o PushParams(p, F.param_base_offs, F.v_place_fbrr_base, n)
            \o IA32_Mov_Reg_Rm("ecx", "eax", "reg")
            \o GccOnly(p, IA32_Push_Reg("ecx"))
            \o PushMemRetPtr(p, F.v_plugin_ret, F.v_place_for_memret)
            \o IA32_Mov_Reg_Rm("eax", "ecx", "mem")
            \o IA32_Mov_Reg_Rm_DispAuto("eax", "eax", 2 * SIZE_PTR)
            \o CheckAlignmentBeforeCall("eax"))
         \o GccOnly(p, IA32_Add_Rm_ImmAuto("esp", clean + SIZE_PTR, "reg"))
        body == IA32_Mov_Rm_Imm32_Disp8("ebp", Num(MRES_IGNORED), F.v_cur_res)
             \o callHook
             \o DestroyParams(p, F.v_place_fbrr_base)
             \o SaveRetVal(p, F.v_plugin_ret, F.v_place_for_memret)
             \o ProcessMetaReturn(F)
             \o ProcessPluginRetVal(p, F)
        quit   == IA32_Jump_Cond_Imm32("z", Bytes(body) + Bytes(IA32_Jump_Imm32(0)))
        length == Bytes(getNext \o quit \o body \o IA32_Jump_Imm32(0))
    IN IA32_Mov_Rm_Imm32_Disp8("ebp", Num(MRES_IGNORED), F.v_prev_res)
       \o getNext \o quit \o body \o IA32_Jump_Imm32(-length)

GenerateCallOrig(p, F, n) ==
    LET fmtBytes == IF HasVafmt(p) THEN 2 * SIZE_PTR ELSE 0
        align == AlignStackBeforeCall(p, GetParamsTotalStackSize(p) + fmtBytes,
                    {"GCC_ThisOnStack"} \cup HookMemRetFlag(p)
                    \cup (IF HasVarArgs(p) THEN {"MSVC_ThisOnStack"} ELSE {}), 0)
        clean == fmtBytes + GetParamsTotalStackSize(p) + MemRetBytes(p)
        memret == PushMemRetPtr(p, F.v_orig_ret, F.v_place_for_memret)
        callOrig ==
            Aligned(align,
               When(HasVafmt(p), IA32_Lea_DispRegImmAuto("ecx", "ebp", F.v_va_buf)
                              \o IA32_Push_Reg("ecx") \o IA32_Push_Imm32(<<"str", "%s">>))
            \o PushParams(p, F.param_base_offs, F.v_place_fbrr_base, n)
            \o IA32_Mov_Reg_Rm_DispAuto("ecx", "ebp", F.v_this)
            \o GccOnly(p, IA32_Push_Reg("ecx"))
            \o memret
            \o MsvcOnly(p, When(HasVarArgs(p), IA32_Push_Reg("ecx")))
            \o IA32_Mov_Reg_Rm_DispAuto("eax", "ebp", F.v_vfnptr_origentry)
            \o CheckAlignmentBeforeCall("eax"))
         \o When(ThisOnStack(p), IA32_Add_Rm_ImmAuto("esp", clean + SIZE_PTR, "reg"))
         \o DestroyParams(p, F.v_place_fbrr_base)
         \o SaveRetVal(p, F.v_orig_ret, F.v_place_for_memret)
        dontCall ==
            CASE ByRef(p.ret) -> IA32_Mov_Reg_Rm_DispAuto("ecx", "ebp", F.v_override_ret)
                              \o IA32_Mov_Rm_Reg_DispAuto("ebp", "ecx", F.v_orig_ret)
              [] ~ByRef(p.ret) /\ p.ret.assign -> AssignVar(p, F.v_orig_ret, F.v_override_ret)
              [] OTHER -> CopyVar(p, F.v_orig_ret, F.v_override_ret)
        called == callOrig \o IA32_Jump_Imm32(Bytes(dontCall))
        should == CallContext(p, F.v_pContext, IA32_Mov_Reg_Rm_Disp8("eax", "eax", 3 * SIZE_PTR))
               \o IA32_Test_Rm_Reg8("eax", "eax", "reg")
               \o JumpOver32("z", called)
    IN IA32_Mov_Reg_Rm_DispAuto("eax", "ebp", F.v_status)
       \o IA32_Cmp_Rm_Imm32("reg", "eax", MRES_SUPERCEDE)
       \o JumpOver32("z", should)
       \o dontCall

\* shptr->SetupHookLoop(*m_pHI, vfnptr, this, &vfnptr_origentry, &status,
\*                      &prev_res, &cur_res, &orig_ret, &override_ret)
CallSetupHookLoop(p, F) ==
       (IF Void(p) THEN IA32_Push_Imm8(0) \o IA32_Push_Imm8(0)
        ELSE IA32_Lea_DispRegImmAuto("eax", "ebp", F.v_override_ret)
          \o IA32_Lea_DispRegImmAuto("edx", "ebp", F.v_orig_ret)
          \o IA32_Push_Reg("eax") \o IA32_Push_Reg("edx"))
    \o IA32_Lea_DispRegImm8("eax", "ebp", F.v_cur_res)
    \o IA32_Lea_DispRegImm8("edx", "ebp", F.v_prev_res)
    \o IA32_Push_Reg("eax") \o IA32_Push_Reg("edx")
    \o IA32_Lea_DispRegImm8("eax", "ebp", F.v_status)
    \o IA32_Lea_DispRegImm8("edx", "ebp", F.v_vfnptr_origentry)
    \o IA32_Push_Reg("eax") \o IA32_Push_Reg("edx")
    \o IA32_Mov_Reg_Rm_DispAuto("eax", "ebp", F.v_this) \o IA32_Push_Reg("eax")
    \o IA32_Mov_Reg_Rm_DispAuto("ecx", "ebp", F.v_this)
    \o IA32_Mov_Reg_Rm_DispAuto("eax", "ecx", VtblOffs)
    \o IA32_Add_Rm_ImmAuto("eax", VtblIdx * SIZE_PTR, "reg") \o IA32_Push_Reg("eax")
    \o IA32_Mov_Rm_Imm32("edx", <<"m_pHI", 0>>, "reg")
    \o IA32_Mov_Reg_Rm("eax", "edx", "mem") \o IA32_Push_Reg("eax")
    \o (IF p.comp = "gcc" THEN IA32_Push_Imm32(<<"shptr", 0>>)
                          ELSE IA32_Mov_Reg_Imm32("ecx", <<"shptr", 0>>))
    \o IA32_Mov_Reg_Imm32("eax", Fn("SetupHookLoop")) \o IA32_Call_Reg("eax")
    \o GccOnly(p, IA32_Add_Rm_Imm8("esp", 10 * SIZE_PTR, "reg"))
    \o IA32_Mov_Rm_Reg_Disp8("ebp", "eax", F.v_pContext)

CallEndContext(p, F) ==
       IA32_Mov_Reg_Rm_DispAuto("eax", "ebp", F.v_pContext) \o IA32_Push_Reg("eax")
    \o (IF p.comp = "gcc" THEN IA32_Push_Imm32(<<"shptr", 0>>)
                          ELSE IA32_Mov_Reg_Imm32("ecx", <<"shptr", 0>>))
    \o IA32_Mov_Reg_Imm32("eax", Fn("EndContext")) \o IA32_Call_Reg("eax")
    \o GccOnly(p, IA32_Add_Rm_Imm8("esp", 2 * SIZE_PTR, "reg"))

(***************************************************************************)
(* The hook function                                                       *)
(***************************************************************************)
Prologue(p, F) ==
       IA32_Push_Reg("ebp") \o IA32_Push_Reg("ebx") \o IA32_Mov_Reg_Rm("ebp", "esp", "reg")
    \o When(~ThisOnStack(p), IA32_Push_Reg("ecx"))
    \o IA32_Sub_Rm_Imm32("esp", F.varsSize, "reg")
    \o IA32_And_Rm_Imm32("esp", "reg", -16)
    \o IA32_Mov_Rm_Imm32_Disp8("ebp", Num(MRES_IGNORED), F.v_status)

\* argptr, and the arguments after the format printed into va_buf
FormatVarArgs(p, F) ==
    LET last == F.param_base_offs + GetParamsTotalStackSize(p) IN
       When(HasVarArgs(p), IA32_Lea_DispRegImmAuto("eax", "ebp", last + SIZE_PTR)
                        \o IA32_Mov_Rm_Reg_DispAuto("ebp", "eax", F.v_va_argptr))
    \o When(HasVafmt(p),
            Aligned(AlignStackBeforeCall(p, SIZE_PTR * 3 + 4, {}, 0),
               IA32_Push_Reg("eax") \o IA32_Push_Rm_DispAuto("ebp", last)
            \o IA32_Push_Imm32(Num(STRBUF_LEN - 1))
            \o IA32_Lea_DispRegImmAuto("ecx", "ebp", F.v_va_buf) \o IA32_Push_Reg("ecx")
            \o IA32_Mov_Reg_Imm32("eax", Fn("vsnprintf")) \o CheckAlignmentBeforeCall("eax")
            \o IA32_Add_Rm_Imm32("esp", 16, "reg"))
         \o IA32_Xor_Reg_Rm("edx", "edx", "reg")
         \o IA32_Mov_Rm8_Reg8_DispAuto("ebp", "edx", F.v_va_buf + STRBUF_LEN - 1))

ConstructRetVars(p, F) ==
    When(ByVal(p.ret) /\ p.ret.ctor,
         Aligned(AlignStackBeforeCall(p, 0, {"GCC_ThisOnStack"}, 0),
            CallOnObject(p, F.v_orig_ret, "ctor")
         \o CallOnObject(p, F.v_override_ret, "ctor")
         \o CallOnObject(p, F.v_plugin_ret, "ctor")))

\* Destructors of by-value parameters that are not passed by reference
DestroyOwnParams(p, F) ==
    LET offset(i) == F.param_base_offs
                     + GetParamsTotalStackSize([p EXCEPT !.params = SubSeq(@, 1, i - 1)])
        destroy(i) ==
          LET pi == p.params[i] IN
          When(pi.type = "Object" /\ "ODtor" \in pi.flags /\ ByVal(pi) /\ ~ForcedByRef(pi),
               IA32_Lea_DispRegImmAuto("ecx", "ebp", offset(i))
            \o IA32_Mov_Reg_Imm32("eax", Fn("dtor"))
            \o GccOnly(p, IA32_Push_Reg("ecx"))
            \o CheckAlignmentBeforeCall("eax")
            \o GccOnly(p, IA32_Pop_Reg("ecx")))
    IN Aligned(AlignStackBeforeCall(p, 0, {"GCC_ThisOnStack"}, 0),
               FlattenSeq([i \in DOMAIN p.params |-> destroy(i)]))

DestroyUsedRetVars(p, F) ==                                     \* mutant
    When(ByVal(p.ret) /\ p.ret.dtor,
         IA32_Push_Reg("eax") \o IA32_Push_Reg("edx")
      \o Aligned(AlignStackBeforeCall(p, 0, {"GCC_ThisOnStack"}, 8),
            CallOnObject(p, F.v_override_ret, "dtor") \o CallOnObject(p, F.v_orig_ret, "dtor"))
      \o IA32_Pop_Reg("edx") \o IA32_Pop_Reg("eax"))
DestroyRetVars(p, F) ==
    When(ByVal(p.ret) /\ p.ret.dtor,
         IA32_Push_Reg("eax") \o IA32_Push_Reg("edx")
      \o Aligned(AlignStackBeforeCall(p, 0, {"GCC_ThisOnStack"}, 8),
            CallOnObject(p, F.v_plugin_ret, "dtor")
         \o CallOnObject(p, F.v_override_ret, "dtor")
         \o CallOnObject(p, F.v_orig_ret, "dtor"))
      \o IA32_Pop_Reg("edx") \o IA32_Pop_Reg("eax"))

Epilogue(p) ==
       IA32_Mov_Reg_Rm("esp", "ebp", "reg") \o IA32_Pop_Reg("ebx") \o IA32_Pop_Reg("ebp")
    \o (CASE p.comp = "msvc" /\ ~HasVarArgs(p) ->
               IA32_Return_Popstack(GetParamsTotalStackSize(p) + (IF RetMem(p) THEN SIZE_PTR ELSE 0))
          [] p.comp = "gcc" /\ RetMem(p) -> IA32_Return_Popstack(SIZE_PTR)
          [] OTHER -> IA32_Return)

GenerateHookFunc(p) ==
    LET F == Frame(p)
        uses == RegUsesFrom(p, 1)
    IN Prologue(p, F)
       \o FormatVarArgs(p, F)
       \o ConstructRetVars(p, F)
       \o CallSetupHookLoop(p, F)
       \o GenerateCallHooks(p, F, 0)
       \o GenerateCallOrig(p, F, uses)
       \o GenerateCallHooks(p, F, 2 * uses)
       \o PrepareReturn(p, F)
       \o CallEndContext(p, F)
       \o DestroyOwnParams(p, F)
       \o DoReturn(p, F)
       \o DestroyRetVars(p, F)
       \o Epilogue(p)

\* int HookManPubFunc(bool store, IHookManagerInfo *hi)
GeneratePubFunc(p) ==
    LET keep == IA32_Mov_Rm_Imm32("edx", <<"m_pHI", 0>>, "reg")
             \o IA32_Mov_Rm_Reg("edx", "ecx", "mem")
        setInfo ==
            IA32_Push_Imm32(<<"m_HookfuncVfnptr", 0>>) \o IA32_Push_Imm32(<<"m_BuiltPI", 0>>)
         \o IA32_Push_Imm32(Num(VtblIdx)) \o IA32_Push_Imm32(Num(VtblOffs))
         \o IA32_Push_Imm32(<<"SH_HOOKMAN_VERSION", 0>>)
         \o GccOnly(p, IA32_Push_Reg("ecx"))
         \o IA32_Mov_Reg_Rm("edx", "ecx", "mem") \o IA32_Mov_Reg_Rm("eax", "edx", "mem")
         \o IA32_Call_Reg("eax")
         \o GccOnly(p, IA32_Add_Rm_Imm8("esp", 6 * SIZE_PTR, "reg"))
    IN IA32_Push_Reg("ebp") \o IA32_Mov_Reg_Rm("ebp", "esp", "reg")
       \o IA32_Movzx_Reg32_Rm8_Disp8("eax", "ebp", 8)
       \o IA32_Mov_Reg_Rm_DispAuto("ecx", "ebp", 12)
       \o IA32_Test_Rm_Reg8("eax", "eax", "reg") \o JumpOver8("z", keep)
       \o IA32_Test_Rm_Reg("ecx", "ecx", "reg") \o JumpOver8("z", setInfo)
       \o IA32_Xor_Reg_Rm("eax", "eax", "reg")
       \o IA32_Mov_Reg_Rm("esp", "ebp", "reg") \o IA32_Pop_Reg("ebp") \o IA32_Return
=============================================================================
