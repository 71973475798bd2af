------------------------------ MODULE M68kMemory ------------------------------
(***************************************************************************)
(* Instructions with operands in memory: how the 68k core finds them, in   *)
(* which order it steps address registers, reads and writes, and its       *)
(* arithmetic and logic with them.  Results are those of module M68kAlu.   *)
(*                                                                         *)
(* The code has a function for each instruction, size and addressing mode, *)
(* m68k_op_add_8_er_ai() and so on.  Here an action stands for an          *)
(* instruction of one size, add_8_er, or for one with one addressing mode  *)
(* where the instruction itself is long; EA finds the operand.             *)
(*                                                                         *)
(* Memory has bytes of BYTE bits, most significant first.  The program is  *)
(* not in memory: code is a sequence of instructions, and an instruction   *)
(* is one unit of the program counter.  The CPU is a 68020.                *)
(***************************************************************************)
EXTENDS M68kRoutines

VARIABLES areg,           \* A0, A1 and A7, with their numbers in REG_DA
          mem

memoryVars == <<areg, mem>>

BYTE == WORD \div 2
SP == 15
REG_A == {8, 9, SP}
REG_DA == REG_D \cup REG_A
Addresses == 0 .. 2^LONG - 1
Bytes(w) == w \div BYTE

-----------------------------------------------------------------------------
(* Memory, and the state of the CPU an instruction passes on while it runs  *)

AllRegisters == [i \in REG_DA |-> IF i \in REG_D THEN d[i] ELSE areg[i]]
cpu == [r |-> AllRegisters, m |-> mem]

Read16(m, at) == m[at] * 2^BYTE + m[at + 1]
ReadMemory(m, w, at) ==
    CASE w = BYTE -> m[at]
      [] w = WORD -> Read16(m, at)
      [] w = LONG -> Read16(m, at) * 2^WORD + Read16(m, at + 2)

\* Byte number k of v, counted from the least significant one.
ByteOf(v, k) == Mask(BYTE, v \div 2^(BYTE * k))
WriteMemory(m, w, at, v) ==
    [i \in DOMAIN m |-> IF i \in at .. at + Bytes(w) - 1 THEN ByteOf(v, at + Bytes(w) - 1 - i) ELSE m[i]]

Read(c, w, at) == ReadMemory(c.m, w, at)
Write(c, w, at, v) == [c EXCEPT !.m = WriteMemory(c.m, w, at, v)]
SetLong(c, r, v) == [c EXCEPT !.r[r] = Mask(LONG, v)]
SetLow(c, w, r, v) == [c EXCEPT !.r[r] = @ - Mask(w, @) + Mask(w, v)]

Push(c, v) == Write(SetLong(c, SP, c.r[SP] - 4), LONG, Mask(LONG, c.r[SP] - 4), v)
\* The value on the stack, and the state without it.
Top(c) == Read(c, LONG, c.r[SP])
Pull(c) == SetLong(c, SP, c.r[SP] + 4)

-----------------------------------------------------------------------------
(* Effective addresses.  x is an operand as the instruction names it: its   *)
(* mode, a register and extension words.                                    *)

\* The stack pointer stays even.
\* Mutant: it is stepped by single bytes.
StepOdd(w, r) == Bytes(w)
Step(w, r) == IF w = BYTE /\ r = SP THEN 2 ELSE Bytes(w)

IndexOf(c, x) == (IF x.long THEN c.r[x.index] ELSE Signed(WORD, c.r[x.index])) * 2^x.scale

\* Brief and full extension words; displacements of a full one are not sign
\* extended.
FullExtension(c, x, base, i) ==
    CASE x.indirect = "none" -> base + x.disp + i
      [] x.indirect = "post" -> Read(c, LONG, Mask(LONG, base + x.disp)) + i + x.outer
      [] x.indirect = "pre" -> Read(c, LONG, Mask(LONG, base + x.disp + i)) + x.outer
m68ki_get_ea_ix(c, x, base) ==
    IF x.indirect = "brief" THEN Mask(LONG, base + IndexOf(c, x) + Signed(BYTE, x.disp))
    ELSE Mask(LONG, FullExtension(c, x, IF x.noBase THEN 0 ELSE base,
                                        IF x.noIndex THEN 0 ELSE IndexOf(c, x)))

Place(c, kind, at) == [cpu |-> c, in |-> kind, at |-> at]

EA(w, c, x) ==
    LET At(ea) == Place(c, "memory", Mask(LONG, ea))
    IN  CASE x.mode \in {"d", "a"} -> Place(c, "register", x.r)
          [] x.mode = "ai" -> At(c.r[x.r])
          [] x.mode = "pi" -> Place(SetLong(c, x.r, c.r[x.r] + Step(w, x.r)), "memory", c.r[x.r])
          [] x.mode = "pd" -> LET p == SetLong(c, x.r, c.r[x.r] - Step(w, x.r))
                              IN  Place(p, "memory", p.r[x.r])
          [] x.mode = "di" -> At(c.r[x.r] + Signed(WORD, x.disp))
          [] x.mode = "ix" -> At(m68ki_get_ea_ix(c, x, c.r[x.r]))
          [] x.mode = "aw" -> At(Signed(WORD, x.disp))
          [] x.mode = "al" -> At(x.disp)
          [] x.mode = "pcdi" -> At(x.pc + Signed(WORD, x.disp))
          [] x.mode = "pcix" -> At(m68ki_get_ea_ix(c, x, x.pc))
          [] x.mode = "i" -> Place(c, "immediate", x.value)

Value(w, e) ==
    CASE e.in = "register" -> Mask(w, e.cpu.r[e.at])
      [] e.in = "memory" -> Read(e.cpu, w, e.at)
      [] e.in = "immediate" -> Mask(w, e.at)

Stored(w, e, v) ==
    CASE e.in = "register" -> SetLow(e.cpu, w, e.at, v)
      [] e.in = "memory" -> Write(e.cpu, w, e.at, v)

-----------------------------------------------------------------------------
(* What instructions have in common                                        *)

Op(name) == Running /\ Here.op = name
Form(form, w) == Here.form = form /\ Here.w = w
Size(w) == Here.w = w

Becomes(c, f) ==
    /\ d' = [r \in REG_D |-> c.r[r]] /\ areg' = [r \in REG_A |-> c.r[r]] /\ mem' = c.m
    /\ ccr' = f
Leaves(c, f) == Becomes(c, f) /\ Goes(pc + 1)
Traps(c, f) == Becomes(c, f) /\ Goes(Trapped)
Jumps(c, to) == Becomes(c, ccr) /\ Goes(to)

Source == EA(Here.w, cpu, Here.ea)
DX(c) == Mask(Here.w, c.r[Here.d])

LeavesLow(c, r, a) == Leaves(SetLow(c, Here.w, r, a.res), a.ccr)
LeavesLong(c, r, a) == Leaves(SetLong(c, r, a.res), a.ccr)
LeavesOperand(e, a) == Leaves(Stored(Here.w, e, a.res), a.ccr)

\* Instructions of the form DX op <ea>, and those on an operand e with source s.
IntoRegister(e, Alu(_, _, _, _)) == LeavesLow(e.cpu, Here.d, Alu(Here.w, ccr, Value(Here.w, e), DX(e.cpu)))
IntoLong(e, Alu(_, _, _, _)) == LeavesLong(e.cpu, Here.d, Alu(Here.w, ccr, Value(Here.w, e), e.cpu.r[Here.d]))
IntoOperand(e, s, Alu(_, _, _, _)) == LeavesOperand(e, Alu(Here.w, ccr, s, Value(Here.w, e)))
Examined(e, s, Alu(_, _, _, _)) == Leaves(e.cpu, Alu(Here.w, ccr, s, Value(Here.w, e)).ccr)

\* The second operand is found after the first one has been read.
Second(e) == EA(Here.w, e.cpu, Here.to)
MemoryToMemory(e, Alu(_, _, _, _)) == IntoOperand(Second(e), Value(Here.w, e), Alu)
-----------------------------------------------------------------------------
(* Arithmetic and logic.  32 bit arithmetic has its own operators.          *)

add_8_er == Form("er", BYTE) /\ IntoRegister(Source, ADD)
add_16_er == Form("er", WORD) /\ IntoRegister(Source, ADD)
add_32_er == Form("er", LONG) /\ IntoRegister(Source, ADD_32)
sub_8_er == Form("er", BYTE) /\ IntoRegister(Source, SUB)
sub_16_er == Form("er", WORD) /\ IntoRegister(Source, SUB)
sub_32_er == Form("er", LONG) /\ IntoRegister(Source, SUB_32)
and_8_er == Form("er", BYTE) /\ IntoRegister(Source, AND)
and_16_er == Form("er", WORD) /\ IntoRegister(Source, AND)
and_32_er == Form("er", LONG) /\ IntoRegister(Source, AND)
or_8_er == Form("er", BYTE) /\ IntoRegister(Source, OR)
or_16_er == Form("er", WORD) /\ IntoRegister(Source, OR)
or_32_er == Form("er", LONG) /\ IntoRegister(Source, OR)
add_8_re == Form("re", BYTE) /\ IntoOperand(Source, DX(cpu), ADD)
add_16_re == Form("re", WORD) /\ IntoOperand(Source, DX(cpu), ADD)
add_32_re == Form("re", LONG) /\ IntoOperand(Source, DX(cpu), ADD_32)
sub_8_re == Form("re", BYTE) /\ IntoOperand(Source, DX(cpu), SUB)
sub_16_re == Form("re", WORD) /\ IntoOperand(Source, DX(cpu), SUB)
sub_32_re == Form("re", LONG) /\ IntoOperand(Source, DX(cpu), SUB_32)
and_8_re == Form("re", BYTE) /\ IntoOperand(Source, DX(cpu), AND)
and_16_re == Form("re", WORD) /\ IntoOperand(Source, DX(cpu), AND)
and_32_re == Form("re", LONG) /\ IntoOperand(Source, DX(cpu), AND)
or_8_re == Form("re", BYTE) /\ IntoOperand(Source, DX(cpu), OR)
or_16_re == Form("re", WORD) /\ IntoOperand(Source, DX(cpu), OR)
or_32_re == Form("re", LONG) /\ IntoOperand(Source, DX(cpu), OR)
eor_8_re == Form("re", BYTE) /\ IntoOperand(Source, DX(cpu), EOR)
eor_16_re == Form("re", WORD) /\ IntoOperand(Source, DX(cpu), EOR)
eor_32_re == Form("re", LONG) /\ IntoOperand(Source, DX(cpu), EOR)

\* With an immediate operand
addi_8 == Form("imm", BYTE) /\ IntoOperand(Source, Here.q, ADD)
addi_16 == Form("imm", WORD) /\ IntoOperand(Source, Here.q, ADD)
addi_32 == Form("imm", LONG) /\ IntoOperand(Source, Here.q, ADD_32)
subi_8 == Form("imm", BYTE) /\ IntoOperand(Source, Here.q, SUB)
subi_16 == Form("imm", WORD) /\ IntoOperand(Source, Here.q, SUB)
subi_32 == Form("imm", LONG) /\ IntoOperand(Source, Here.q, SUB_32)
andi_8 == Form("imm", BYTE) /\ IntoOperand(Source, Here.q, AND)
andi_16 == Form("imm", WORD) /\ IntoOperand(Source, Here.q, AND)
andi_32 == Form("imm", LONG) /\ IntoOperand(Source, Here.q, AND)
ori_8 == Form("imm", BYTE) /\ IntoOperand(Source, Here.q, OR)
ori_16 == Form("imm", WORD) /\ IntoOperand(Source, Here.q, OR)
ori_32 == Form("imm", LONG) /\ IntoOperand(Source, Here.q, OR)
eori_8 == Form("imm", BYTE) /\ IntoOperand(Source, Here.q, EOR)
eori_16 == Form("imm", WORD) /\ IntoOperand(Source, Here.q, EOR)
eori_32 == Form("imm", LONG) /\ IntoOperand(Source, Here.q, EOR)

\* With the numbers 1 to 8; address registers are changed as a whole.
QuickAddress(q) == Here.ea.mode = "a" /\ Leaves(SetLong(cpu, Here.ea.r, cpu.r[Here.ea.r] + q), ccr)
QuickOperand(Alu(_, _, _, _)) == Here.ea.mode # "a" /\ IntoOperand(Source, Quick(Here.q), Alu)
addq_8 == Form("quick", BYTE) /\ QuickOperand(ADD)
addq_16 == Form("quick", WORD) /\ (QuickOperand(ADD) \/ QuickAddress(Quick(Here.q)))
addq_32 == Form("quick", LONG) /\ (QuickOperand(ADD_32) \/ QuickAddress(Quick(Here.q)))
subq_8 == Form("quick", BYTE) /\ QuickOperand(SUB)
subq_16 == Form("quick", WORD) /\ (QuickOperand(SUB) \/ QuickAddress(-Quick(Here.q)))
subq_32 == Form("quick", LONG) /\ (QuickOperand(SUB_32) \/ QuickAddress(-Quick(Here.q)))

\* With one operand
neg_8 == Size(BYTE) /\ IntoOperand(Source, 0, NEG)
neg_16 == Size(WORD) /\ IntoOperand(Source, 0, NEG)
neg_32 == Size(LONG) /\ IntoOperand(Source, 0, NEG_32)
negx_8 == Size(BYTE) /\ IntoOperand(Source, 0, NEGX)
negx_16 == Size(WORD) /\ IntoOperand(Source, 0, NEGX)
negx_32 == Size(LONG) /\ IntoOperand(Source, 0, NEGX_32)
not_8 == Size(BYTE) /\ IntoOperand(Source, 0, NOT)
not_16 == Size(WORD) /\ IntoOperand(Source, 0, NOT)
not_32 == Size(LONG) /\ IntoOperand(Source, 0, NOT)
clr_8 == Size(BYTE) /\ IntoOperand(Source, 0, CLR)
clr_16 == Size(WORD) /\ IntoOperand(Source, 0, CLR)
clr_32 == Size(LONG) /\ IntoOperand(Source, 0, CLR)
tst_8 == Size(BYTE) /\ Examined(Source, 0, TST)
tst_16 == Size(WORD) /\ Examined(Source, 0, TST)
tst_32 == Size(LONG) /\ Examined(Source, 0, TST)

\* -(AY) and -(AX): the way to add numbers of any length
addx_8_mm == Size(BYTE) /\ MemoryToMemory(Source, ADDX)
addx_16_mm == Size(WORD) /\ MemoryToMemory(Source, ADDX)
addx_32_mm == Size(LONG) /\ MemoryToMemory(Source, ADDX_32)
subx_8_mm == Size(BYTE) /\ MemoryToMemory(Source, SUBX)
subx_16_mm == Size(WORD) /\ MemoryToMemory(Source, SUBX)
subx_32_mm == Size(LONG) /\ MemoryToMemory(Source, SUBX_32)

(* Comparisons *)
Compares_ER(e, Alu(_, _, _, _)) == Leaves(e.cpu, Alu(Here.w, ccr, Value(Here.w, e), DX(e.cpu)).ccr)
cmp_8 == Form("er", BYTE) /\ Compares_ER(Source, CMP)
cmp_16 == Form("er", WORD) /\ Compares_ER(Source, CMP)
cmp_32 == Form("er", LONG) /\ Compares_ER(Source, CMP_32)
cmpi_8 == Form("imm", BYTE) /\ Examined(Source, Here.q, CMP)
cmpi_16 == Form("imm", WORD) /\ Examined(Source, Here.q, CMP)
cmpi_32 == Form("imm", LONG) /\ Examined(Source, Here.q, CMP_32)
\* (AY)+ and (AX)+
Compares_MM(e, Alu(_, _, _, _)) == Examined(Second(e), Value(Here.w, e), Alu)
cmpm_8 == Form("mm", BYTE) /\ Compares_MM(Source, CMP)
cmpm_16 == Form("mm", WORD) /\ Compares_MM(Source, CMP)
cmpm_32 == Form("mm", LONG) /\ Compares_MM(Source, CMP_32)

(* Shifts of memory move a word by one bit, and bits of memory are in bytes *)
asl_16 == Op("asl") /\ IntoOperand(Source, 1, ASL)
asr_16 == Op("asr") /\ IntoOperand(Source, 1, ASR)
lsl_16 == Op("lsl") /\ IntoOperand(Source, 1, LSL)
lsr_16 == Op("lsr") /\ IntoOperand(Source, 1, LSR)
rol_16 == Op("rol") /\ IntoOperand(Source, 1, ROL)
ror_16 == Op("ror") /\ IntoOperand(Source, 1, ROR)
roxl_16 == Op("roxl") /\ IntoOperand(Source, 1, ROXL)
roxr_16 == Op("roxr") /\ IntoOperand(Source, 1, ROXR)
bset_8_r == Form("r", BYTE) /\ IntoOperand(Source, cpu.r[Here.d], BSET)
bset_8_s == Form("s", BYTE) /\ IntoOperand(Source, Here.q, BSET)
bclr_8_r == Form("r", BYTE) /\ IntoOperand(Source, cpu.r[Here.d], BCLR)
bclr_8_s == Form("s", BYTE) /\ IntoOperand(Source, Here.q, BCLR)
bchg_8_r == Form("r", BYTE) /\ IntoOperand(Source, cpu.r[Here.d], BCHG)
bchg_8_s == Form("s", BYTE) /\ IntoOperand(Source, Here.q, BCHG)
btst_8_r == Form("r", BYTE) /\ Examined(Source, cpu.r[Here.d], BTST)
btst_8_s == Form("s", BYTE) /\ Examined(Source, Here.q, BTST)

-----------------------------------------------------------------------------
(* Multiplication and division by an operand in memory                     *)

mulu_16 == Op("mulu") /\ IntoLong(Source, LAMBDA w, f, s, t : MULU(w, f, s, Mask(w, t)))
muls_16 == Op("muls") /\ IntoLong(Source, LAMBDA w, f, s, t : MULS(w, f, s, Mask(w, t)))

DivisorIs0 == Value(Here.w, Source) = 0
\* The address register has been stepped when the exception is taken.
ZeroDivide == DivisorIs0 /\ Traps(Source.cpu, ccr)
divu_16 == Op("divu") /\ (ZeroDivide \/ (~DivisorIs0 /\ IntoLong(Source, DIVU)))
divs_16 == Op("divs") /\ (ZeroDivide \/ (~DivisorIs0 /\ IntoLong(Source, DIVS)))

\* lo and hi: the registers of product and dividend, of quotient and remainder.
\* If they are the same, the low part or the quotient is what stays.
SetTwo(c, hi, lo) == SetLong(SetLong(c, Here.hi, hi), Here.lo, lo)
LeavesProduct(c, p) ==
    Leaves(IF Here.quad THEN SetTwo(c, p.hi, p.lo) ELSE SetLong(c, Here.lo, p.lo), p.ccr)
MultipliesLong(e) ==
    LeavesProduct(e.cpu, MULL(LONG, ccr, Value(LONG, e), e.cpu.r[Here.lo], Here.signed, Here.quad))
\* Overflow of the quotient leaves both registers alone.
LeavesQuotient(c, a) == Leaves(IF a.ccr.v THEN c ELSE SetTwo(c, a.remainder, a.quotient), a.ccr)
DividesBy(c, s) ==
    IF s = 0 THEN Traps(c, ccr)
    ELSE LeavesQuotient(c, IF Here.quad
                           THEN DIVL(LONG, ccr, s, [lo |-> c.r[Here.lo], hi |-> c.r[Here.hi]], Here.signed)
                           ELSE DIVL_32(LONG, ccr, s, c.r[Here.lo], Here.signed))
DividesLong(e) == DividesBy(e.cpu, Value(LONG, e))
By(mode) == Here.ea.mode = mode
mull_32_d == By("d") /\ MultipliesLong(Source)
mull_32_ai == By("ai") /\ MultipliesLong(Source)
mull_32_pi == By("pi") /\ MultipliesLong(Source)
mull_32_pd == By("pd") /\ MultipliesLong(Source)
mull_32_di == By("di") /\ MultipliesLong(Source)
mull_32_ix == By("ix") /\ MultipliesLong(Source)
mull_32_aw == By("aw") /\ MultipliesLong(Source)
mull_32_al == By("al") /\ MultipliesLong(Source)
mull_32_pcdi == By("pcdi") /\ MultipliesLong(Source)
mull_32_pcix == By("pcix") /\ MultipliesLong(Source)
mull_32_i == By("i") /\ MultipliesLong(Source)
divl_32_d == By("d") /\ DividesLong(Source)
divl_32_ai == By("ai") /\ DividesLong(Source)
divl_32_pi == By("pi") /\ DividesLong(Source)
divl_32_pd == By("pd") /\ DividesLong(Source)
divl_32_di == By("di") /\ DividesLong(Source)
divl_32_ix == By("ix") /\ DividesLong(Source)
divl_32_aw == By("aw") /\ DividesLong(Source)
divl_32_al == By("al") /\ DividesLong(Source)
divl_32_pcdi == By("pcdi") /\ DividesLong(Source)
divl_32_pcix == By("pcix") /\ DividesLong(Source)
divl_32_i == By("i") /\ DividesLong(Source)
=============================================================================
