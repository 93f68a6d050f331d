-------------------------------- MODULE X86 --------------------------------
(***************************************************************************)
(* The IA-32 emitters of sourcehook_hookmangen_x86.h.  An emitter appends  *)
(* the bytes of one instruction to a GenBuffer; here it is the sequence    *)
(* of one record that has the parts of the encoding a decoder sees (the    *)
(* operation, the fields of the ModR/M and SIB bytes, displacement and     *)
(* immediate) and the number of bytes it takes.  Values of opcodes are     *)
(* abstracted to names; register codes keep the collisions the encoding    *)
(* has (no index = ESP, no base = EBP).                                    *)
(*                                                                         *)
(* Operators marked "mutant" are wrong on purpose, as in SourceHook.       *)
(***************************************************************************)
EXTENDS Integers, Sequences, SequencesExt

REG_NOIDX    == "esp"
REG_IMM_BASE == "ebp"

NoSib == <<>>

\* static_cast<jit_int8_t>: what a sign-extended byte keeps of a number.
S8(x) == ((x + 128) % 256) - 128

\* SCHAR_MIN <= x <= SCHAR_MAX
FitsByte(x) == -128 <= x /\ x <= 127

Num(n) == <<"int", n>>

DispLen(mod) == CASE mod = "disp8" -> 1 [] mod = "disp32" -> 4 [] OTHER -> 0

Inst(op, len) ==
    [op |-> op, mod |-> "none", reg |-> "none", rm |-> "none", sib |-> NoSib,
     disp |-> 0, imm |-> Num(0), len |-> len]

\* ia32_modrm and, when sib is given, ia32_sib, with the displacement the
\* mode announces and an immediate of immlen bytes.
ia32_modrm(op, mod, reg, rm, disp, imm, immlen) ==
    <<[Inst(op, 2 + DispLen(mod) + immlen) EXCEPT
         !.mod = mod, !.reg = reg, !.rm = rm, !.imm = imm,
         !.disp = IF mod = "disp8" THEN S8(disp) ELSE disp]>>

ia32_sib(op, mod, reg, scale, index, base, disp, displen) ==
    <<[Inst(op, 3 + displen) EXCEPT
         !.mod = mod, !.reg = reg, !.rm = "esp", !.sib = <<scale, index, base>>,
         !.disp = IF displen = 1 THEN S8(disp) ELSE disp]>>

WithReg(op, reg, imm, len) == <<[Inst(op, len) EXCEPT !.reg = reg, !.imm = imm]>>

(***************************************************************************)
(* Logic and arithmetic                                                    *)
(***************************************************************************)
IA32_Xor_Reg_Rm(dest, src, mode)   == ia32_modrm("xor", mode, dest, src, 0, Num(0), 0)
IA32_And_Rm_Imm32(reg, mode, val)  == ia32_modrm("and_imm", mode, "none", reg, 0, Num(val), 4)
IA32_Add_Reg_Rm(dest, src, mode)   == ia32_modrm("add", mode, dest, src, 0, Num(0), 0)
IA32_Add_Rm_Imm8(reg, val, mode)   == ia32_modrm("add_imm", mode, "none", reg, 0, Num(S8(val)), 1)
IA32_Add_Rm_Imm32(reg, val, mode)  == ia32_modrm("add_imm", mode, "none", reg, 0, Num(val), 4)
IA32_Add_Rm_ImmAuto(reg, val, mode) ==
    IF FitsByte(val) THEN IA32_Add_Rm_Imm8(reg, val, mode)
                     ELSE IA32_Add_Rm_Imm32(reg, val, mode)
IA32_Sub_Rm_Imm8(reg, val, mode)   == ia32_modrm("sub_imm", mode, "none", reg, 0, Num(S8(val)), 1)
IA32_Sub_Rm_Imm32(reg, val, mode)  == ia32_modrm("sub_imm", mode, "none", reg, 0, Num(val), 4)
IA32_Sub_Rm_ImmAuto(reg, val, mode) ==
    IF FitsByte(val) THEN IA32_Sub_Rm_Imm8(reg, val, mode)
                     ELSE IA32_Sub_Rm_Imm32(reg, val, mode)

(***************************************************************************)
(* Addresses                                                               *)
(***************************************************************************)
IA32_Lea_Reg_DispRegMultImm8(dest, base, index, scale, val) ==
    ia32_sib("lea", "disp8", dest, scale, index, base, val, 1)
IA32_Lea_Reg_RegMultImm32(dest, index, scale, val) ==
    ia32_sib("lea", "mem", dest, scale, index, REG_IMM_BASE, val, 4)
IA32_Lea_DispRegImm8(dest, base, val)  == ia32_modrm("lea", "disp8", dest, base, val, Num(0), 0)
IA32_Lea_DispRegImm32(dest, base, val) == ia32_modrm("lea", "disp32", dest, base, val, Num(0), 0)
LeaUpToByte(dest, base, val) ==                                 \* mutant
    IF val <= 127 THEN IA32_Lea_DispRegImm8(dest, base, val)
                  ELSE IA32_Lea_DispRegImm32(dest, base, val)
IA32_Lea_DispRegImmAuto(dest, base, val) ==
    IF FitsByte(val) THEN IA32_Lea_DispRegImm8(dest, base, val)
                     ELSE IA32_Lea_DispRegImm32(dest, base, val)

(***************************************************************************)
(* Stack                                                                   *)
(***************************************************************************)
IA32_Pop_Reg(reg)    == WithReg("pop", reg, Num(0), 1)
IA32_Push_Reg(reg)   == WithReg("push", reg, Num(0), 1)
IA32_Push_Imm8(val)  == WithReg("push_imm", "none", Num(S8(val)), 2)
IA32_Push_Imm32(val) == WithReg("push_imm", "none", val, 5)
IA32_Push_Rm_Disp8(reg, disp)  == ia32_modrm("push_rm", "disp8", "none", reg, disp, Num(0), 0)
IA32_Push_Rm_Disp32(reg, disp) == ia32_modrm("push_rm", "disp32", "none", reg, disp, Num(0), 0)
IA32_Push_Rm_DispAuto(reg, disp) ==
    IF FitsByte(disp) THEN IA32_Push_Rm_Disp8(reg, disp) ELSE IA32_Push_Rm_Disp32(reg, disp)

(***************************************************************************)
(* Moves.  Mov_Reg_Rm_DispAuto and the Fld forms take the byte form for    *)
(* every displacement up to SCHAR_MAX, those below SCHAR_MIN included, and *)
(* the Fstp forms write one byte where the mode announces four.            *)
(***************************************************************************)
IA32_Mov_Reg_Rm(dest, src, mode)        == ia32_modrm("mov", mode, dest, src, 0, Num(0), 0)
IA32_Mov_Reg_Rm_Disp8(dest, src, disp)  == ia32_modrm("mov", "disp8", dest, src, disp, Num(0), 0)
IA32_Mov_Reg_Rm_Disp32(dest, src, disp) == ia32_modrm("mov", "disp32", dest, src, disp, Num(0), 0)
IA32_Mov_Reg_Rm_DispAuto(dest, src, disp) ==
    CASE disp = 0     -> IA32_Mov_Reg_Rm(dest, src, "mem")
      [] disp # 0 /\ disp <= 127 -> IA32_Mov_Reg_Rm_Disp8(dest, src, disp)
      [] OTHER        -> IA32_Mov_Reg_Rm_Disp32(dest, src, disp)
IA32_Mov_Rm_Reg(dest, src, mode)        == ia32_modrm("mov_to", mode, src, dest, 0, Num(0), 0)
IA32_Mov_Rm_Reg_Disp8(dest, src, disp)  == ia32_modrm("mov_to", "disp8", src, dest, disp, Num(0), 0)
IA32_Mov_Rm_Reg_Disp32(dest, src, disp) == ia32_modrm("mov_to", "disp32", src, dest, disp, Num(0), 0)
IA32_Mov_Rm_Reg_DispAuto(dest, src, disp) ==
    IF FitsByte(disp) THEN IA32_Mov_Rm_Reg_Disp8(dest, src, disp)
                      ELSE IA32_Mov_Rm_Reg_Disp32(dest, src, disp)
IA32_Mov_Rm8_Reg8_Disp8(dest, src, disp)  == ia32_modrm("mov8_to", "disp8", src, dest, disp, Num(0), 0)
IA32_Mov_Rm8_Reg8_Disp32(dest, src, disp) == ia32_modrm("mov8_to", "disp32", src, dest, disp, Num(0), 0)
IA32_Mov_Rm8_Reg8_DispAuto(dest, src, disp) ==
    IF FitsByte(disp) THEN IA32_Mov_Rm8_Reg8_Disp8(dest, src, disp)
                      ELSE IA32_Mov_Rm8_Reg8_Disp32(dest, src, disp)
IA32_Mov_Reg_Imm32(dest, val)             == WithReg("mov_imm", dest, val, 5)
IA32_Mov_Rm_Imm32(dest, val, mode)        == ia32_modrm("mov_to_imm", mode, "none", dest, 0, val, 4)
IA32_Mov_Rm_Imm32_Disp8(dest, val, disp)  == ia32_modrm("mov_to_imm", "disp8", "none", dest, disp, val, 4)

IA32_Fstp_Mem32_DispAuto(dest, disp) ==
    IF -128 < disp /\ disp < 127
    THEN ia32_modrm("fstp32", "disp8", "none", dest, disp, Num(0), 0)
    ELSE <<[ia32_modrm("fstp32", "disp32", "none", dest, S8(disp), Num(0), 0)[1] EXCEPT !.len = 3]>>
IA32_Fstp_Mem64_DispAuto(dest, disp) ==
    IF -128 < disp /\ disp < 127
    THEN ia32_modrm("fstp64", "disp8", "none", dest, disp, Num(0), 0)
    ELSE <<[ia32_modrm("fstp64", "disp32", "none", dest, S8(disp), Num(0), 0)[1] EXCEPT !.len = 3]>>
IA32_Fstp_Mem32_ESP == ia32_sib("fstp32", "mem", "none", 1, REG_NOIDX, "esp", 0, 0)
IA32_Fstp_Mem64_ESP == ia32_sib("fstp64", "mem", "none", 1, REG_NOIDX, "esp", 0, 0)
IA32_Fld_Mem32(src) == ia32_modrm("fld32", "mem", "none", src, 0, Num(0), 0)
IA32_Fld_Mem64(src) == ia32_modrm("fld64", "mem", "none", src, 0, Num(0), 0)
IA32_Fld_Mem32_Disp8(src, disp)  == ia32_modrm("fld32", "disp8", "none", src, disp, Num(0), 0)
IA32_Fld_Mem64_Disp8(src, disp)  == ia32_modrm("fld64", "disp8", "none", src, disp, Num(0), 0)
IA32_Fld_Mem32_Disp32(src, disp) == ia32_modrm("fld32", "disp32", "none", src, disp, Num(0), 0)
IA32_Fld_Mem64_Disp32(src, disp) == ia32_modrm("fld64", "disp32", "none", src, disp, Num(0), 0)
IA32_Fld_Mem32_DispAuto(src, disp) ==
    CASE disp = 0     -> IA32_Fld_Mem32(src)
      [] disp # 0 /\ disp <= 127 -> IA32_Fld_Mem32_Disp8(src, disp)
      [] OTHER        -> IA32_Fld_Mem32_Disp32(src, disp)
IA32_Fld_Mem64_DispAuto(src, disp) ==
    CASE disp = 0     -> IA32_Fld_Mem64(src)
      [] disp # 0 /\ disp <= 127 -> IA32_Fld_Mem64_Disp8(src, disp)
      [] OTHER        -> IA32_Fld_Mem64_Disp32(src, disp)

\* The two opcode bytes of movzx make it one byte longer.
Movzx(op, mod, dest, src, disp) ==
    <<[ia32_modrm(op, mod, dest, src, disp, Num(0), 0)[1] EXCEPT !.len = @ + 1]>>
IA32_Movzx_Reg32_Rm8_Disp8(dest, src, disp)  == Movzx("movzx8", "disp8", dest, src, disp)
IA32_Movzx_Reg32_Rm8_Disp32(dest, src, disp) == Movzx("movzx8", "disp32", dest, src, disp)
IA32_Movzx_Reg32_Rm8_DispAuto(dest, src, disp) ==
    IF FitsByte(disp) THEN IA32_Movzx_Reg32_Rm8_Disp8(dest, src, disp)
                      ELSE IA32_Movzx_Reg32_Rm8_Disp32(dest, src, disp)
IA32_Movzx_Reg32_Rm16_Disp8(dest, src, disp)  == Movzx("movzx16", "disp8", dest, src, disp)
IA32_Movzx_Reg32_Rm16_Disp32(dest, src, disp) == Movzx("movzx16", "disp32", dest, src, disp)
IA32_Movzx_Reg32_Rm16_DispAuto(dest, src, disp) ==
    IF FitsByte(disp) THEN IA32_Movzx_Reg32_Rm16_Disp8(dest, src, disp)
                      ELSE IA32_Movzx_Reg32_Rm16_Disp32(dest, src, disp)

(***************************************************************************)
(* Branches, comparisons and string moves                                  *)
(***************************************************************************)
IA32_Jump_Cond_Imm8(cond, disp)  == WithReg("jcc", cond, Num(S8(disp)), 2)
IA32_Jump_Cond_Imm32(cond, disp) == WithReg("jcc", cond, Num(disp), 6)
IA32_Jump_Imm32(disp)            == WithReg("jmp", "none", Num(disp), 5)
IA32_Call_Reg(reg)               == ia32_modrm("call", "reg", "none", reg, 0, Num(0), 0)
IA32_Return                      == WithReg("ret", "none", Num(0), 1)
IA32_Return_Popstack(bytes)      == WithReg("ret", "none", Num(bytes), 3)
IA32_Test_Rm_Reg(r1, r2, mode)   == ia32_modrm("test", mode, r2, r1, 0, Num(0), 0)
IA32_Test_Rm_Reg8(r1, r2, mode)  == ia32_modrm("test8", mode, r2, r1, 0, Num(0), 0)
IA32_Cmp_Reg_Rm(dest, src, mode) == ia32_modrm("cmp", mode, dest, src, 0, Num(0), 0)
IA32_Cmp_Rm_Imm32(mode, rm, val) == ia32_modrm("cmp_imm", mode, "none", rm, 0, Num(val), 4)
IA32_Cmp_Rm_Disp8_Imm8(reg, disp, val) ==
    ia32_modrm("cmp_imm", "disp8", "none", reg, disp, Num(S8(val)), 1)
IA32_SetCC_Rm8(reg, cond) == <<[Inst("setcc", 3) EXCEPT !.mod = "reg", !.rm = reg, !.reg = cond]>>
IA32_Rep   == <<Inst("rep", 1)>>
IA32_Movsd == <<Inst("movsd", 1)>>
IA32_Movsb == <<Inst("movsb", 1)>>
IA32_Cld   == <<Inst("cld", 1)>>

\* The operand-size prefix, which the generator writes as a byte of its own.
IA32_16BIT_PREFIX == <<Inst("prefix16", 1)>>

(***************************************************************************)
(* GenBuffer::get_outputpos, start_count and end_count: bytes of code.     *)
(***************************************************************************)
Bytes(code) == FoldLeft(LAMBDA n, i : n + i.len, 0, code)
=============================================================================
