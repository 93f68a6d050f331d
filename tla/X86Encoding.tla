----------------------------- MODULE X86Encoding -----------------------------
(***************************************************************************)
(* The bytes the IA-32 emitters of sourcehook_hookmangen_x86.h write, read   *)
(* back by a decoder.  An emitter is a row: its opcode, the operands it puts *)
(* into the ModR/M byte, how it addresses memory, its immediate, and what    *)
(* its name says the instruction does.  Emitters that differ in addressing   *)
(* only share a line.  X86 abstracts the same emitters to instructions.      *)
(*                                                                           *)
(* Operators marked "mutant" are wrong on purpose.                           *)
(***************************************************************************)
EXTENDS Integers, Sequences
LOCAL INSTANCE TLC

CONSTANT EncRegs     \* the register codes the instance tries, part of 0 .. 7
ASSUME EncodingAssumption == EncRegs \subseteq 0 .. 7

VARIABLE enc         \* the emitter called last and two of its registers

-----------------------------------------------------------------------------
(* The constants of the header.                                             *)
MOD_MEM_REG == 0
MOD_DISP8 == 1
MOD_DISP32 == 2
MOD_REG == 3
NOSCALE == 0
ESP == 4
REG_SIB == 4
NOIDX == 4
IMM_BASE == 5

Condition == [b |-> 2, nb |-> 3, e |-> 4, ne |-> 5, be |-> 6, a |-> 7,
              l |-> 12, ge |-> 13, le |-> 14, g |-> 15]

Opcode ==
  [XOR_RM_REG |-> <<\h31>>, XOR_REG_RM |-> <<\h33>>, XOR_EAX_IMM32 |-> <<\h35>>,
   XOR_RM_IMM32 |-> <<\h81>>, XOR_RM_IMM8 |-> <<\h83>>,
   ADD_RM_REG |-> <<\h01>>, ADD_REG_RM |-> <<\h03>>, ADD_RM_IMM32 |-> <<\h81>>,
   ADD_RM_IMM8 |-> <<\h83>>, ADD_EAX_IMM32 |-> <<\h05>>,
   SUB_RM_REG |-> <<\h29>>, SUB_REG_RM |-> <<\h2B>>, SUB_RM_IMM8 |-> <<\h83>>,
   SUB_RM_IMM32 |-> <<\h81>>, SBB_REG_RM |-> <<\h1B>>, SBB_RM_IMM8 |-> <<\h83>>,
   JMP_IMM32 |-> <<\hE9>>, JMP_IMM8 |-> <<\hEB>>, JMP_RM |-> <<\hFF>>,
   CALL_IMM32 |-> <<\hE8>>, CALL_RM |-> <<\hFF>>,
   MOV_REG_IMM |-> <<\hB8>>, MOV_RM8_REG |-> <<\h88>>, MOV_RM_REG |-> <<\h89>>,
   MOV_RM16_REG |-> <<\h66, \h89>>, MOV_REG_RM |-> <<\h8B>>, MOV_REG8_RM8 |-> <<\h8A>>,
   MOV_RM8_REG8 |-> <<\h88>>, MOV_RM_IMM32 |-> <<\hC7>>,
   CMP_RM_IMM32 |-> <<\h81>>, CMP_RM_IMM8 |-> <<\h83>>, CMP_AL_IMM32 |-> <<\h3C>>,
   CMP_EAX_IMM32 |-> <<\h3D>>, CMP_RM_REG |-> <<\h39>>, CMP_REG_RM |-> <<\h3B>>,
   CMPSB |-> <<\hA6>>, TEST_RM_REG8 |-> <<\h84>>, TEST_RM_REG |-> <<\h85>>,
   TEST_RM_IMM32 |-> <<\hF7>>, JCC_IMM |-> <<\h70>>, JCC_IMM32 |-> <<\h0F, \h80>>,
   RET |-> <<\hC3>>, RETN |-> <<\hC2>>, NEG_RM |-> <<\hF7>>,
   INC_REG |-> <<\h40>>, INC_RM |-> <<\hFF>>, DEC_REG |-> <<\h48>>, DEC_RM |-> <<\hFF>>,
   OR_REG_RM |-> <<\h0B>>, AND_REG_RM |-> <<\h23>>, AND_EAX_IMM32 |-> <<\h25>>,
   AND_RM_IMM32 |-> <<\h81>>, AND_RM_IMM8 |-> <<\h83>>, NOT_RM |-> <<\hF7>>,
   DIV_RM |-> <<\hF7>>, MUL_RM |-> <<\hF7>>, IDIV_RM |-> <<\hF7>>, IMUL_RM |-> <<\hF7>>,
   IMUL_REG_IMM32 |-> <<\h69>>, IMUL_REG_IMM8 |-> <<\h6B>>, IMUL_REG_RM |-> <<\h0F, \hAF>>,
   SHR_RM_IMM8 |-> <<\hC1>>, SHR_RM_1 |-> <<\hD1>>, SHL_RM_IMM8 |-> <<\hC1>>,
   SHL_RM_1 |-> <<\hD1>>, SAR_RM_CL |-> <<\hD3>>, SAR_RM_1 |-> <<\hD1>>,
   SHR_RM_CL |-> <<\hD3>>, SHL_RM_CL |-> <<\hD3>>, SAR_RM_IMM8 |-> <<\hC1>>,
   SETCC_RM8 |-> <<\h0F, \h90>>, CMOVCC_RM |-> <<\h0F, \h40>>, XCHG_EAX_REG |-> <<\h90>>,
   LEA_REG_MEM |-> <<\h8D>>, POP_REG |-> <<\h58>>, PUSH_REG |-> <<\h50>>,
   PUSH_RM |-> <<\hFF>>, PUSH_IMM32 |-> <<\h68>>, PUSH_IMM8 |-> <<\h6A>>,
   REP |-> <<\hF3>>, MOVSD |-> <<\hA5>>, MOVSB |-> <<\hA4>>, STOSD |-> <<\hAB>>,
   CLD |-> <<\hFC>>, PUSHAD |-> <<\h60>>, POPAD |-> <<\h61>>, INT3 |-> <<\hCC>>,
   FSTP_MEM32 |-> <<\hD9>>, FSTP_MEM64 |-> <<\hDD>>, FLD_MEM32 |-> <<\hD9>>,
   FLD_MEM64 |-> <<\hDD>>, FILD_MEM32 |-> <<\hDB>>, FADD_MEM32 |-> <<\hD8>>,
   FADD_FPREG_ST0 |-> <<\hDC, \hC0>>, FSUB_MEM32 |-> <<\hD8>>, FMUL_MEM32 |-> <<\hD8>>,
   FDIV_MEM32 |-> <<\hD8>>, FSTCW_MEM16 |-> <<\h9B, \hD9>>, FLDCW_MEM16 |-> <<\hD9>>,
   FISTP_MEM32 |-> <<\hDB>>, FUCOMIP |-> <<\hDF, \hE8>>, FSTP_FPREG |-> <<\hDD, \hD8>>,
   MOVZX_R32_RM8 |-> <<\h0F, \hB6>>, MOVZX_R32_RM16 |-> <<\h0F, \hB7>>]

\* E: the emitters of an opcode, one for each way of addressing in addrs.  codes is
\* what is put into the opcode ("+r", "+cc") and the ModR/M byte ("/r", "/0" to
\* "/7"); does is the operation with its operands, the destination first.
E(op, codes, addrs, imm, does) ==
    {[op |-> <<op>>, codes |-> codes, addr |-> a, imm |-> imm, does |-> does] : a \in addrs}

\* The ImmAuto emitters call the one for a byte or the one for 32 bits.
ImmAuto(op8, op32, codes, does) ==
    {[op |-> <<op8, op32>>, codes |-> codes, addr |-> "mode", imm |-> "auto", does |-> does]}

-----------------------------------------------------------------------------
(* The emitters, section by section.                                        *)
IncDecEmitters ==
    E("INT3", {}, {"none"}, "none", <<"int3">>) \cup
    E("INC_REG", {"+r"}, {"none"}, "none", <<"inc", "reg">>) \cup
    E("INC_RM", {"/0"}, {"disp8", "disp32", "sib"}, "none", <<"inc", "rm">>) \cup
    E("DEC_REG", {"+r"}, {"none"}, "none", <<"dec", "reg">>) \cup
    E("DEC_RM", {"/1"}, {"disp8", "disp32", "sib"}, "none", <<"dec", "rm">>)

LogicEmitters ==
    E("XOR_RM_REG", {"/r"}, {"mode"}, "none", <<"xor", "rm", "reg">>) \cup
    E("XOR_REG_RM", {"/r"}, {"mode"}, "none", <<"xor", "reg", "rm">>) \cup
    E("XOR_RM_IMM8", {"/6"}, {"mode"}, "byte", <<"xor", "rm", "imm">>) \cup
    E("XOR_RM_IMM32", {"/6"}, {"mode"}, "int32", <<"xor", "rm", "imm">>) \cup
    E("XOR_EAX_IMM32", {}, {"none"}, "int32", <<"xor", "eax", "imm">>) \cup
    E("NEG_RM", {"/3"}, {"mode"}, "none", <<"neg", "rm">>) \cup
    E("OR_REG_RM", {"/r"}, {"mode"}, "none", <<"or", "reg", "rm">>) \cup
    E("AND_REG_RM", {"/r"}, {"mode"}, "none", <<"and", "reg", "rm">>) \cup
    E("AND_RM_IMM32", {"/4"}, {"mode"}, "int32", <<"and", "rm", "imm">>) \cup
    E("AND_RM_IMM8", {"/4"}, {"mode"}, "byte", <<"and", "rm", "imm">>) \cup
    E("AND_EAX_IMM32", {}, {"none"}, "int32", <<"and", "eax", "imm">>) \cup
    E("NOT_RM", {"/2"}, {"mode"}, "none", <<"not", "rm">>) \cup
    E("SHR_RM_IMM8", {"/5"}, {"mode"}, "ubyte", <<"shr", "rm", "imm">>) \cup
    E("SHR_RM_1", {"/5"}, {"mode"}, "none", <<"shr", "rm", "one">>) \cup
    E("SHL_RM_IMM8", {"/4"}, {"mode"}, "ubyte", <<"shl", "rm", "imm">>) \cup
    E("SHL_RM_1", {"/4"}, {"mode"}, "none", <<"shl", "rm", "one">>) \cup
    E("SAR_RM_IMM8", {"/7"}, {"mode"}, "ubyte", <<"sar", "rm", "imm">>) \cup
    E("SAR_RM_CL", {"/7"}, {"mode"}, "none", <<"sar", "rm", "cl">>) \cup
    E("SAR_RM_1", {"/7"}, {"mode"}, "none", <<"sar", "rm", "one">>) \cup
    E("SHR_RM_CL", {"/5"}, {"mode"}, "none", <<"shr", "rm", "cl">>) \cup
    E("SHL_RM_CL", {"/4"}, {"mode"}, "none", <<"shl", "rm", "cl">>) \cup
    E("XCHG_EAX_REG", {"+r"}, {"none"}, "none", <<"xchg", "eax", "reg">>)

ArithmeticEmitters ==
    E("ADD_RM_REG", {"/r"}, {"mode"}, "none", <<"add", "rm", "reg">>) \cup
    E("ADD_REG_RM", {"/r"}, {"mode"}, "none", <<"add", "reg", "rm">>) \cup
    E("ADD_RM_IMM8", {"/0"}, {"mode"}, "byte", <<"add", "rm", "imm">>) \cup
    E("ADD_RM_IMM32", {"/0"}, {"mode"}, "int32", <<"add", "rm", "imm">>) \cup
    ImmAuto("ADD_RM_IMM8", "ADD_RM_IMM32", {"/0"}, <<"add", "rm", "imm">>) \cup
    E("ADD_EAX_IMM32", {}, {"none"}, "int32", <<"add", "eax", "imm">>) \cup
    E("SUB_RM_REG", {"/r"}, {"mode", "disp8"}, "none", <<"sub", "rm", "reg">>) \cup
    E("SUB_REG_RM", {"/r"}, {"mode", "disp8"}, "none", <<"sub", "reg", "rm">>) \cup
    E("SUB_RM_IMM8", {"/5"}, {"mode"}, "byte", <<"sub", "rm", "imm">>) \cup
    E("SUB_RM_IMM32", {"/5"}, {"mode"}, "int32", <<"sub", "rm", "imm">>) \cup
    ImmAuto("SUB_RM_IMM8", "SUB_RM_IMM32", {"/5"}, <<"sub", "rm", "imm">>) \cup
    E("SBB_REG_RM", {"/r"}, {"mode"}, "none", <<"sbb", "reg", "rm">>) \cup
    E("SBB_RM_IMM8", {"/3"}, {"mode"}, "byte", <<"sbb", "rm", "imm">>) \cup
    E("DIV_RM", {"/6"}, {"mode"}, "none", <<"div", "rm">>) \cup
    E("IDIV_RM", {"/7"}, {"mode"}, "none", <<"idiv", "rm">>) \cup
    E("MUL_RM", {"/4"}, {"mode"}, "none", <<"mul", "rm">>) \cup
    E("IMUL_RM", {"/5"}, {"mode"}, "none", <<"imul", "rm">>) \cup
    E("IMUL_REG_IMM8", {"/0"}, {"mode"}, "byte", <<"imul", "rm", "rm", "imm">>) \cup
    E("IMUL_REG_IMM32", {"/0"}, {"mode"}, "int32", <<"imul", "rm", "rm", "imm">>) \cup
    E("IMUL_REG_RM", {"/r"}, {"mode"}, "none", <<"imul", "reg", "rm">>)

MemoryArithmeticEmitters ==
    E("ADD_RM_REG", {"/r"}, {"disp8"}, "none", <<"add", "rm", "reg">>) \cup
    E("ADD_REG_RM", {"/r"}, {"disp8"}, "none", <<"add", "reg", "rm">>) \cup
    E("ADD_RM_IMM8", {"/0"}, {"disp8", "disp32", "sib disp0"}, "byte", <<"add", "rm", "imm">>) \cup
    E("ADD_RM_IMM32", {"/0"}, {"disp8"}, "int32", <<"add", "rm", "imm">>) \cup
    E("ADD_RM_IMM32", {"/0"}, {"mode"}, "later", <<"add", "rm", "imm">>) \cup
    E("SUB_RM_IMM8", {"/5"}, {"disp8", "disp32", "sib disp0"}, "byte", <<"sub", "rm", "imm">>)

LeaEmitters ==
    E("LEA_REG_MEM", {"/r"}, {"sib", "sib disp0", "sib disp8", "sib disp32", "index",
                              "disp8", "disp32", "auto"}, "none", <<"lea", "reg", "rm">>)

StackEmitters ==
    E("POP_REG", {"+r"}, {"none"}, "none", <<"pop", "reg">>) \cup
    E("PUSH_REG", {"+r"}, {"none"}, "none", <<"push", "reg">>) \cup
    E("PUSH_IMM8", {}, {"none"}, "byte", <<"push", "imm">>) \cup
    E("PUSH_IMM32", {}, {"none"}, "int32", <<"push", "imm">>) \cup
    E("PUSHAD", {}, {"none"}, "none", <<"pushad">>) \cup
    E("POPAD", {}, {"none"}, "none", <<"popad">>) \cup
    E("PUSH_RM", {"/6"}, {"disp8", "disp32", "auto", "esp disp8"}, "none", <<"push", "rm">>)

LoadEmitters ==
    E("MOV_REG_RM", {"/r"}, {"mode", "esp", "disp8", "esp disp8", "disp32", "sib", "sib disp8",
                             "sib disp0", "auto up"}, "none", <<"mov", "reg", "rm">>) \cup
    E("MOV_REG8_RM8", {"/r"}, {"mode", "disp8", "disp32"}, "none", <<"mov", "reg8", "rm8">>)

StoreEmitters ==
    E("MOV_RM_REG", {"/r"}, {"mode", "esp", "disp8", "disp32", "auto", "sib disp0"},
      "none", <<"mov", "rm", "reg">>) \cup
    E("MOV_RM8_REG8", {"/r"}, {"mode", "disp8", "disp32", "auto"},
      "none", <<"mov", "rm8", "reg8">>) \cup
    E("MOV_RM8_REG", {"/r"}, {"sib disp0"}, "none", <<"mov", "rm8", "reg8">>) \cup
    E("MOV_RM16_REG", {"/r"}, {"sib disp0"}, "none", <<"mov", "rm16", "reg16">>)

ImmediateMoveEmitters ==
    E("MOV_REG_IMM", {"+r"}, {"none"}, "int32", <<"mov", "reg", "imm">>) \cup
    E("MOV_RM_IMM32", {"/0"}, {"mode", "disp8", "disp32", "sib disp0", "esp disp8"},
      "int32", <<"mov", "rm", "imm">>)

FpuEmitters ==
    E("FSTCW_MEM16", {"/7"}, {"esp"}, "none", <<"fstcw", "rm">>) \cup
    E("FLDCW_MEM16", {"/5"}, {"esp", "esp disp8"}, "none", <<"fldcw", "rm">>) \cup
    E("FISTP_MEM32", {"/3"}, {"esp", "esp disp8"}, "none", <<"fistp", "rm">>) \cup
    E("FUCOMIP", {"+r"}, {"none"}, "none", <<"fucomip", "st">>) \cup
    E("FADD_FPREG_ST0", {"+r"}, {"none"}, "none", <<"fadd", "st">>) \cup
    E("FADD_MEM32", {"/0"}, {"disp8", "esp"}, "none", <<"fadd", "rm">>) \cup
    E("FSUB_MEM32", {"/4"}, {"disp8"}, "none", <<"fsub", "rm">>) \cup
    E("FMUL_MEM32", {"/1"}, {"disp8"}, "none", <<"fmul", "rm">>) \cup
    E("FDIV_MEM32", {"/6"}, {"disp8"}, "none", <<"fdiv", "rm">>) \cup
    E("FILD_MEM32", {"/0"}, {"mem"}, "none", <<"fild", "rm">>) \cup
    E("FSTP_MEM32", {"/3"}, {"mem", "auto byte"}, "none", <<"fstp", "rm">>)

FpuMoveEmitters ==
    E("FSTP_MEM64", {"/3"}, {"mem", "esp", "auto byte"}, "none", <<"fstp64", "rm">>) \cup
    E("FSTP_MEM32", {"/3"}, {"esp"}, "none", <<"fstp", "rm">>) \cup
    E("FSTP_FPREG", {"+r"}, {"none"}, "none", <<"fstp", "st">>) \cup
    E("FLD_MEM32", {"/0"}, {"mem", "disp8", "disp32", "auto up"}, "none", <<"fld", "rm">>) \cup
    E("FLD_MEM64", {"/0"}, {"mem", "disp8", "disp32", "auto up"}, "none", <<"fld64", "rm">>)

MovzxEmitters ==
    E("MOVZX_R32_RM8", {"/r"}, {"mode", "disp8", "disp32", "auto"},
      "none", <<"movzx", "reg", "rm8">>) \cup
    E("MOVZX_R32_RM16", {"/r"}, {"mode", "disp8", "disp32", "auto"},
      "none", <<"movzx", "reg", "rm16">>)

BranchEmitters ==
    E("JCC_IMM", {"+cc"}, {"none"}, "byte", <<"jcc", "cc", "imm">>) \cup
    E("JMP_IMM32", {}, {"none"}, "int32", <<"jmp", "imm">>) \cup
    E("JMP_IMM8", {}, {"none"}, "byte", <<"jmp", "imm">>) \cup
    E("JCC_IMM32", {"+cc"}, {"none"}, "int32", <<"jcc", "cc", "imm">>) \cup
    E("JMP_RM", {"/4"}, {"direct", "mode"}, "none", <<"jmp", "rm">>) \cup
    E("CALL_IMM32", {}, {"none"}, "int32", <<"call", "imm">>) \cup
    E("CALL_RM", {"/2"}, {"direct"}, "none", <<"call", "rm">>) \cup
    E("CALL_RM", {"/4"}, {"mode"}, "none", <<"call", "rm">>) \cup
    E("RET", {}, {"none"}, "none", <<"ret">>) \cup
    E("RETN", {}, {"none"}, "ushort", <<"ret", "imm">>)

CompareEmitters ==
    E("TEST_RM_REG", {"/r"}, {"mode"}, "none", <<"test", "rm", "reg">>) \cup
    E("TEST_RM_REG8", {"/r"}, {"mode"}, "none", <<"test", "rm8", "reg8">>) \cup
    E("TEST_RM_IMM32", {"/0"}, {"mode"}, "int32", <<"test", "rm", "imm">>) \cup
    E("CMP_RM_REG", {"/r"}, {"mode"}, "none", <<"cmp", "rm", "reg">>) \cup
    E("CMP_REG_RM", {"/r"}, {"mode", "esp", "disp8"}, "none", <<"cmp", "reg", "rm">>) \cup
    E("CMP_RM_IMM8", {"/7"}, {"mode", "disp8"}, "byte", <<"cmp", "rm", "imm">>) \cup
    E("CMP_RM_IMM32", {"/7"}, {"mode", "disp8"}, "int32", <<"cmp", "rm", "imm">>) \cup
    E("CMP_AL_IMM32", {}, {"none"}, "byte", <<"cmp", "al", "imm">>) \cup
    E("CMP_EAX_IMM32", {}, {"none"}, "int32", <<"cmp", "eax", "imm">>) \cup
    E("SETCC_RM8", {"+cc", "/0"}, {"direct"}, "none", <<"setcc", "cc", "rm8">>) \cup
    E("CMOVCC_RM", {"+cc", "/0"}, {"mem", "disp8"}, "none", <<"cmov", "cc", "eax", "rm">>)

StringEmitters ==
    E("CMPSB", {}, {"none"}, "none", <<"cmpsb">>) \cup
    E("REP", {}, {"none"}, "none", <<"rep">>) \cup
    E("MOVSD", {}, {"none"}, "none", <<"movsd">>) \cup
    E("MOVSB", {}, {"none"}, "none", <<"movsb">>) \cup
    E("STOSD", {}, {"none"}, "none", <<"stosd">>) \cup
    E("CLD", {}, {"none"}, "none", <<"cld">>)

Emitters == IncDecEmitters \cup LogicEmitters \cup ArithmeticEmitters
    \cup MemoryArithmeticEmitters \cup LeaEmitters \cup StackEmitters \cup LoadEmitters
    \cup StoreEmitters \cup ImmediateMoveEmitters \cup FpuEmitters \cup FpuMoveEmitters
    \cup MovzxEmitters \cup BranchEmitters \cup CompareEmitters \cup StringEmitters

\* Three emitters nobody calls write another instruction than their names say: call
\* through memory is written as a jump, and a product overwrites eax.
Misnamed == {e \in Emitters : \/ e.does[1] = "call" /\ e.addr = "mode"
                              \/ e.does[1] = "imul" /\ "/0" \in e.codes}

-----------------------------------------------------------------------------
(* Writing.  o holds the operands: two registers, an index with its scale, a *)
(* mode, a displacement, an immediate and a condition.                       *)
Byte(x)   == <<x % 256>>
UShort(x) == <<x % 256, (x \div 256) % 256>>
Int32(x)  == UShort(x) \o UShort(x \div 65536)

IsByte(x) == -128 <= x /\ x <= 127       \* SCHAR_MIN, SCHAR_MAX

ModRMSwapped(mode, reg, rm) == Byte((64 * mode) + (8 * rm) + reg)      \* mutant
ia32_modrm(mode, reg, rm)   == Byte((64 * mode) + (8 * reg) + rm)
ia32_sib(scale, index, base) == Byte((64 * scale) + (8 * index) + base)

Digit == [d \in {"/0", "/1", "/2", "/3", "/4", "/5", "/6", "/7"} |->
            CASE d = "/0" -> 0 [] d = "/1" -> 1 [] d = "/2" -> 2 [] d = "/3" -> 3
              [] d = "/4" -> 4 [] d = "/5" -> 5 [] d = "/6" -> 6 [] d = "/7" -> 7]

RegField(e, o) == IF "/r" \in e.codes THEN o.reg
                  ELSE Digit[CHOOSE d \in DOMAIN Digit : d \in e.codes]

\* The DispAuto emitters choose by the displacement: most take a byte where it fits,
\* "auto up" (loads of registers and of the FPU) do not look whether it is too low, and
\* "auto byte" (fstp) always writes one byte of it.
Addressed(e, o) ==
    LET ModRM(mode, rm)  == ia32_modrm(mode, RegField(e, o), rm)
        Plain(mode)      == ModRM(mode, o.rm)
        Sib(mode)        == ModRM(mode, REG_SIB) \o ia32_sib(o.scale, o.index, o.rm)
        OnStack(mode)    == ModRM(mode, REG_SIB) \o ia32_sib(NOSCALE, NOIDX, ESP)
        Disp8            == Plain(MOD_DISP8) \o Byte(o.disp)
        Disp32           == Plain(MOD_DISP32) \o Int32(o.disp)
    IN CASE e.addr = "none"       -> <<>>
         [] e.addr = "mode"       -> Plain(o.mode)
         [] e.addr = "mem"        -> Plain(MOD_MEM_REG)
         [] e.addr = "direct"     -> Plain(MOD_REG)
         [] e.addr = "disp8"      -> Disp8
         [] e.addr = "disp32"     -> Disp32
         [] e.addr = "auto"       -> IF IsByte(o.disp) THEN Disp8 ELSE Disp32
         [] e.addr = "auto up"    -> IF o.disp = 0 THEN Plain(MOD_MEM_REG)
                                     ELSE IF o.disp <= 127 THEN Disp8 ELSE Disp32
         [] e.addr = "auto byte"  -> IF -128 < o.disp /\ o.disp < 127 THEN Disp8
                                     ELSE Plain(MOD_DISP32) \o Byte(o.disp)
         [] e.addr = "sib"        -> Sib(MOD_MEM_REG)
         [] e.addr = "sib disp0"  -> Sib(MOD_DISP8) \o Byte(0)
         [] e.addr = "sib disp8"  -> Sib(MOD_DISP8) \o Byte(o.disp)
         [] e.addr = "sib disp32" -> Sib(MOD_DISP32) \o Int32(o.disp)
         [] e.addr = "index"      -> ModRM(MOD_MEM_REG, REG_SIB)
                                       \o ia32_sib(o.scale, o.index, IMM_BASE) \o Int32(o.disp)
         [] e.addr = "esp"        -> OnStack(MOD_MEM_REG)
         [] e.addr = "esp disp8"  -> OnStack(MOD_DISP8) \o Byte(o.disp)

\* The emitters that write 8 or 32 bits choose the opcode with the size.
SmallImm(e, o)  == e.imm = "byte" \/ (e.imm = "auto" /\ IsByte(o.imm))
OpcodeOf(e, o)  == Opcode[IF e.imm = "auto" /\ ~ SmallImm(e, o) THEN e.op[2] ELSE e.op[1]]

OpcodeBytes(e, o) ==
    LET bytes == OpcodeOf(e, o)
        plus  == CASE "+r" \in e.codes -> o.reg
                   [] "+cc" \in e.codes -> Condition[o.cc]
                   [] OTHER -> 0
    IN [bytes EXCEPT ![Len(bytes)] = @ + plus]

Immediate(e, o) ==
    CASE e.imm = "none"                     -> <<>>
      [] SmallImm(e, o) \/ e.imm = "ubyte"  -> Byte(o.imm)
      [] e.imm = "ushort"                   -> UShort(o.imm)
      [] e.imm = "later"                    -> Int32(0)
      [] OTHER                              -> Int32(o.imm)

BeforeImmediate(e, o) == OpcodeBytes(e, o) \o Addressed(e, o)
Emit(e, o) == BeforeImmediate(e, o) \o Immediate(e, o)

\* Jumps, calls, loads of an immediate and the addition whose immediate comes later
\* return the position of their immediate; GenBuffer::rewrite overwrites it there.
ReturnsPosition(e) == \/ e.imm = "later"
                      \/ e.does[1] \in {"jcc", "jmp", "call"} /\ e.imm # "none"
                      \/ e.does = <<"mov", "reg", "imm">>
Position(e, o) == Len(BeforeImmediate(e, o))

Rewrite(code, offset, bytes) ==
    [i \in 1 .. Len(code) |-> IF i - offset \in 1 .. Len(bytes) THEN bytes[i - offset] ELSE code[i]]

Patched(e, o) ==
    IF ReturnsPosition(e)
    THEN Rewrite(Emit(e, [o EXCEPT !.imm = 0]), Position(e, o),
                 IF e.imm = "byte" THEN Byte(o.imm) ELSE Int32(o.imm))
    ELSE Emit(e, o)

-----------------------------------------------------------------------------
(* Reading: what an IA-32 processor takes a sequence of bytes for.  An       *)
(* operand is a register of 8, 16 or 32 bits, a place in memory (base, index *)
(* or Nothing, scale, displacement), a number or a condition.                *)
Nothing == -1

Reg(width, r) == <<"reg", width, r>>
Signed(n, size) == LET half == CASE size = 1 -> 128 [] size = 2 -> 32768
                   IN IF n >= half THEN n - (2 * half) ELSE n
Number(b, at, size) ==
    CASE size = 1 -> Signed(b[at], 1)
      [] size = 4 -> b[at] + (256 * b[at + 1]) + (65536 * (b[at + 2] + (256 * Signed(b[at + 3], 1))))

\* The operand of the ModR/M byte at a position, and how long it is with what follows.
ModRMOperand(b, at, width) ==
    LET mod  == b[at] \div 64
        rm   == b[at] % 8
        sib  == mod # 3 /\ rm = 4
        low  == IF sib THEN b[at + 1] % 8 ELSE rm       \* what stands for the base
        bare == mod = 0 /\ low = 5
        size == CASE mod = 1 -> 1 [] mod = 2 \/ bare -> 4 [] OTHER -> 0
        next == at + (IF sib THEN 2 ELSE 1)
        index == IF sib THEN (b[at + 1] \div 8) % 8 ELSE 4
    IN IF mod = 3
       THEN [operand |-> Reg(width, rm), length |-> 1]
       ELSE [operand |-> <<"mem", IF bare THEN Nothing ELSE low,
                           IF index = 4 THEN Nothing ELSE index,
                           IF index = 4 THEN 0 ELSE b[at + 1] \div 64,
                           IF size = 0 THEN 0 ELSE Number(b, next, size)>>,
             length |-> next - at + size]

\* The opcodes the emitters use: the operation, or the eight that the ModR/M byte
\* selects from, and the operands.
Group1 == <<"add", "or", "adc", "sbb", "and", "sub", "xor", "cmp">>
Group2 == <<"rol", "ror", "rcl", "rcr", "shl", "shr", "sal", "sar">>
Group3 == <<"test", "test", "not", "neg", "mul", "imul", "div", "idiv">>
Group5 == <<"inc", "dec", "call", "callf", "jmp", "jmpf", "push", "none">>
Fpu8   == <<"fadd", "fmul", "fcom", "fcomp", "fsub", "fsubr", "fdiv", "fdivr">>
Fpu9   == <<"fld", "none", "fst", "fstp", "fldenv", "fldcw", "fstenv", "fnstcw">>
FpuB   == <<"fild", "fisttp", "fist", "fistp", "none", "fld80", "none", "fstp80">>
FpuD   == <<"fld64", "fisttp64", "fst64", "fstp64", "frstor", "none", "fsave", "fnstsw">>

One(op, args)   == [ops |-> <<op>>, args |-> args]
Many(ops, args) == [ops |-> ops, args |-> args]
Simple == (\h60 :> "pushad") @@ (\h61 :> "popad") @@ (\hA4 :> "movsb") @@ (\hA5 :> "movsd")
    @@ (\hA6 :> "cmpsb") @@ (\hAB :> "stosd") @@ (\hC3 :> "ret") @@ (\hCC :> "int3")
    @@ (\hF3 :> "rep") @@ (\hFC :> "cld")

OneByte(op, digit) ==
    LET low == op % 8  high == op - low IN
    CASE op < 64 /\ low = 1 -> One(Group1[(op \div 8) + 1], <<"rm", "reg">>)
      [] op < 64 /\ low = 3 -> One(Group1[(op \div 8) + 1], <<"reg", "rm">>)
      [] op < 64 /\ low = 4 -> One(Group1[(op \div 8) + 1], <<"al", "imm8">>)
      [] op < 64 /\ low = 5 -> One(Group1[(op \div 8) + 1], <<"eax", "imm32">>)
      [] high = \h40 -> One("inc", <<"+reg">>)      [] high = \h48 -> One("dec", <<"+reg">>)
      [] high = \h50 -> One("push", <<"+reg">>)     [] high = \h58 -> One("pop", <<"+reg">>)
      [] op = \h68 -> One("push", <<"imm32">>)      [] op = \h6A -> One("push", <<"imm8">>)
      [] op = \h69 -> One("imul", <<"reg", "rm", "imm32">>)
      [] op = \h6B -> One("imul", <<"reg", "rm", "imm8">>)
      [] high \in {\h70, \h78} -> One("jcc", <<"+cc", "imm8">>)
      [] op = \h81 -> Many(Group1, <<"rm", "imm32">>)
      [] op = \h83 -> Many(Group1, <<"rm", "imm8">>)
      [] op = \h84 -> One("test", <<"rm8", "reg8">>) [] op = \h85 -> One("test", <<"rm", "reg">>)
      [] op = \h88 -> One("mov", <<"rm8", "reg8">>)  [] op = \h89 -> One("mov", <<"rm", "reg">>)
      [] op = \h8A -> One("mov", <<"reg8", "rm8">>)  [] op = \h8B -> One("mov", <<"reg", "rm">>)
      [] op = \h8D -> One("lea", <<"reg", "rm">>)    [] high = \h90 -> One("xchg", <<"eax", "+reg">>)
      [] high = \hB8 -> One("mov", <<"+reg", "imm32">>)
      [] op = \hC1 -> Many(Group2, <<"rm", "count">>)
      [] op = \hC2 -> One("ret", <<"imm16">>)        [] op = \hC7 -> One("mov", <<"rm", "imm32">>)
      [] op = \hD1 -> Many(Group2, <<"rm", "one">>)  [] op = \hD3 -> Many(Group2, <<"rm", "cl">>)
      [] op = \hD8 -> Many(Fpu8, <<"rm">>)           [] op = \hD9 -> Many(Fpu9, <<"rm">>)
      [] op = \hDB -> Many(FpuB, <<"rm">>)           [] op = \hDD -> Many(FpuD, <<"rm">>)
      [] op = \hE8 -> One("call", <<"imm32">>)       [] op = \hE9 -> One("jmp", <<"imm32">>)
      [] op = \hEB -> One("jmp", <<"imm8">>)
      [] op = \hF7 -> Many(Group3, IF digit \in {0, 1} THEN <<"rm", "imm32">> ELSE <<"rm">>)
      [] op = \hFF -> Many(Group5, <<"rm">>)
      [] op \in DOMAIN Simple -> One(Simple[op], <<>>)

TwoBytes(first, op) ==
    LET high == op - (op % 8) IN
    CASE first = \h0F /\ high \in {\h40, \h48} -> One("cmov", <<"+cc", "reg", "rm">>)
      [] first = \h0F /\ high \in {\h80, \h88} -> One("jcc", <<"+cc", "imm32">>)
      [] first = \h0F /\ high \in {\h90, \h98} -> One("setcc", <<"+cc", "rm8">>)
      [] first = \h0F /\ op = \hAF  -> One("imul", <<"reg", "rm">>)
      [] first = \h0F /\ op = \hB6  -> One("movzx", <<"reg", "rm8">>)
      [] first = \h0F /\ op = \hB7  -> One("movzx", <<"reg", "rm16">>)
      [] first = \h66 /\ op = \h89  -> One("mov", <<"rm16", "reg16">>)
      [] first = \h9B /\ op = \hD9  -> Many([Fpu9 EXCEPT ![8] = "fstcw"], <<"rm">>)
      [] first = \hDC /\ high = \hC0 -> One("fadd", <<"+st">>)
      [] first = \hDD /\ high = \hD8 -> One("fstp", <<"+st">>)
      [] first = \hDF /\ high = \hE8 -> One("fucomip", <<"+st">>)

IsTwoBytes(b) == \/ b[1] \in {\h0F, \h66, \h9B, \hDC, \hDF}
                 \/ b[1] = \hDD /\ b[2] >= 192

ModRMArgs == {"rm", "rm8", "rm16", "reg", "reg8", "reg16"}
Width == [a \in {"rm", "reg", "rm8", "reg8", "rm16", "reg16"} |->
            CASE a \in {"rm", "reg"} -> 32 [] a \in {"rm8", "reg8"} -> 8 [] OTHER -> 16]
ConditionName(code) == CHOOSE c \in DOMAIN Condition : Condition[c] = code

Decode(b) ==
    LET at    == IF IsTwoBytes(b) THEN 2 ELSE 1        \* the last byte of the opcode
        modrm == IF at < Len(b) THEN b[at + 1] ELSE 0
        digit == (modrm \div 8) % 8
        inst  == IF at = 2 THEN TwoBytes(b[1], b[2]) ELSE OneByte(b[1], digit)
        Has(args) == \E i \in DOMAIN inst.args : inst.args[i] \in args
        after == at + 1 + (IF Has(ModRMArgs) THEN ModRMOperand(b, at + 1, 32).length ELSE 0)
        Operand(a) ==
            CASE a \in {"rm", "rm8", "rm16"} -> ModRMOperand(b, at + 1, Width[a]).operand
              [] a \in {"reg", "reg8", "reg16"} -> Reg(Width[a], digit)
              [] a = "+reg" -> Reg(32, b[at] % 8)
              [] a = "+st"  -> <<"st", b[at] % 8>>
              [] a = "+cc"  -> <<"cc", ConditionName(b[at] % 16)>>
              [] a = "eax"  -> Reg(32, 0)
              [] a = "al"   -> Reg(8, 0)
              [] a = "cl"   -> Reg(8, 1)
              [] a = "one"  -> <<"number", 1>>
              [] a = "imm8" -> <<"number", Number(b, after, 1)>>
              [] a = "count" -> <<"number", b[after]>>
              [] a = "imm16" -> <<"number", b[after] + (256 * b[after + 1])>>
              [] a = "imm32" -> <<"number", Number(b, after, 4)>>
    IN [op |-> IF Len(inst.ops) = 1 THEN inst.ops[1] ELSE inst.ops[digit + 1],
        args |-> [i \in DOMAIN inst.args |-> Operand(inst.args[i])],
        length |-> after - 1 + (CASE Has({"imm8", "count"}) -> 1 [] Has({"imm16"}) -> 2
                                  [] Has({"imm32"}) -> 4 [] OTHER -> 0)]

-----------------------------------------------------------------------------
(* What the name of an emitter promises, for the operands it can encode.     *)
UsesMemory(e, o) == e.addr \notin {"none", "direct"} /\ (e.addr = "mode" => o.mode # MOD_REG)
UsesSib(e)       == e.addr \in {"sib", "sib disp0", "sib disp8", "sib disp32", "index"}

\* Memory through esp needs a SIB byte and through ebp a displacement, for which there
\* are emitters of their own; the number fits the type of the parameter.
Encodable(e, o) ==
    /\ UsesMemory(e, o) /\ ~ UsesSib(e) => o.rm # ESP
    /\ o.rm = IMM_BASE => /\ e.addr \notin {"mem", "sib"}
                          /\ e.addr = "mode" => ~ UsesMemory(e, o)
                          /\ e.addr = "auto up" => o.disp # 0
    /\ e.addr \in {"disp8", "sib disp8", "esp disp8"} => IsByte(o.disp)
    /\ e.addr = "auto up"   => -128 <= o.disp
    /\ e.addr = "auto byte" => -128 < o.disp /\ o.disp < 127
    /\ e.imm = "byte"       => IsByte(o.imm)
    /\ e.imm = "ubyte"      => o.imm \in 0 .. 255
    /\ e.imm = "ushort"     => o.imm \in 0 .. 65535

Address(e, o) ==
    LET indexed == UsesSib(e) /\ o.index # NOIDX
    IN <<"mem",
         CASE e.addr = "index" -> Nothing
           [] e.addr \in {"esp", "esp disp8"} -> ESP
           [] OTHER -> o.rm,
         IF indexed THEN o.index ELSE Nothing,
         IF indexed THEN o.scale ELSE 0,
         IF e.addr \in {"mode", "mem", "esp", "sib", "sib disp0"} THEN 0 ELSE o.disp>>

Meant(e, o) ==
    LET Operand(a) ==
          CASE a \in {"rm", "rm8", "rm16"} -> IF UsesMemory(e, o) THEN Address(e, o)
                                              ELSE Reg(Width[a], o.rm)
            [] a \in {"reg", "reg8", "reg16"} -> Reg(Width[a], o.reg)
            [] a = "st"  -> <<"st", o.reg>>
            [] a = "cc"  -> <<"cc", o.cc>>
            [] a = "eax" -> Reg(32, 0)
            [] a = "al"  -> Reg(8, 0)
            [] a = "cl"  -> Reg(8, 1)
            [] a = "one" -> <<"number", 1>>
            [] a = "imm" -> <<"number", o.imm>>
    IN [op |-> e.does[1], args |-> [i \in 1 .. Len(e.does) - 1 |-> Operand(e.does[i + 1])],
        length |-> Len(Emit(e, o))]

\* The operands tried: bytes, their neighbours, and numbers of more than one byte.
Tried(numbers, used) == IF used THEN numbers ELSE {0}
Numbers == {-2147483647, -129, -128, -1, 0, 1, 127, 128, 200, 65535, 305419896}
OperandsOf(e, reg, rm) ==
    [reg : {reg}, rm : {rm},
     index : IF UsesSib(e) THEN EncRegs ELSE {0}, scale : IF UsesSib(e) THEN {0, 3} ELSE {0},
     mode : IF e.addr = "mode" THEN {MOD_MEM_REG, MOD_REG} ELSE {MOD_MEM_REG},
     disp : Tried(Numbers, e.addr \notin {"none", "mode", "mem", "direct", "esp", "sib", "sib disp0"}),
     imm  : Tried(Numbers, e.imm # "none"),
     cc   : IF "+cc" \in e.codes THEN DOMAIN Condition ELSE {"b"}]

-----------------------------------------------------------------------------
NoEmitter == [op |-> <<>>, codes |-> {}, addr |-> "none", imm |-> "none", does |-> <<>>]
EncInit == enc = [emitter |-> NoEmitter, reg |-> 0, rm |-> 0]

\* The generator calls an emitter, for some registers; afterwards it may call another.
CallEmitter ==
    /\ enc.emitter = NoEmitter
    /\ \E e \in Emitters, reg \in EncRegs, rm \in EncRegs :
         enc' = [emitter |-> e, reg |-> reg, rm |-> rm]
EmitterReturns ==
    /\ enc.emitter # NoEmitter
    /\ enc' = [enc EXCEPT !.emitter = NoEmitter, !.reg = 0, !.rm = 0]
EncNext == CallEmitter \/ EmitterReturns

EncSpec == EncInit /\ [][EncNext]_enc

\* What an emitter writes is the instruction it is named for, with its operands, and no
\* byte more or less; also after its immediate was filled in where it told.  (All
\* emitters but Misnamed, for operands that are Encodable.)
EmittersEncode ==
    LET e == enc.emitter
    IN e \notin Misnamed \cup {NoEmitter} =>
         \A o \in OperandsOf(e, enc.reg, enc.rm) :
            Encodable(e, o) => /\ e.imm # "later" => Decode(Emit(e, o)) = Meant(e, o)
                               /\ Decode(Patched(e, o)) = Meant(e, o)
=============================================================================
