----------------------------- MODULE M68kControl -----------------------------
(***************************************************************************)
(* Instructions of the 68k core that decide and call, and those on bit     *)
(* fields in memory; then the next step of a program.                      *)
(***************************************************************************)
EXTENDS M68kMoves

-----------------------------------------------------------------------------
(* Checks and semaphores                                                   *)

\* Dc becomes what was found, unless that was expected.
LeavesSwapped(e, a) ==
    Leaves(IF a.ccr.z THEN Stored(Here.w, e, a.memory) ELSE SetLow(e.cpu, Here.w, Here.c, a.expected), a.ccr)
Swaps(e, Alu(_, _, _, _, _)) ==
    LeavesSwapped(e, Alu(Here.w, ccr, Mask(Here.w, e.cpu.r[Here.c]), Mask(Here.w, e.cpu.r[Here.d]),
                         Value(Here.w, e)))
cas_8 == Size(BYTE) /\ Swaps(Source, CAS)
cas_16 == Size(WORD) /\ Swaps(Source, CAS)
cas_32 == Size(LONG) /\ Swaps(Source, CAS_32)

\* Two operands at the addresses in registers are both replaced, or both are
\* loaded; a word that an address register points to fills its register.
SwapsTwo ==
    LET v == [i \in 1 .. 2 |-> Read(cpu, Here.w, cpu.r[Here.at[i]])]
        Compared(i) == IF Here.w = LONG THEN CMP_32(LONG, ccr, cpu.r[Here.c[i]], v[i]).ccr
                       ELSE CMP(Here.w, ccr, Mask(Here.w, cpu.r[Here.c[i]]), v[i]).ccr
        Updated(c, i) == Write(c, Here.w, cpu.r[Here.at[i]], Mask(Here.w, cpu.r[Here.u[i]]))
        Loaded(c, i) == IF Here.at[i] \in REG_A THEN SetLong(c, Here.c[i], v[i])
                        ELSE SetLow(c, Here.w, Here.c[i], v[i])
        f == IF Compared(1).z THEN Compared(2) ELSE Compared(1)
    IN  IF f.z THEN Leaves(Updated(Updated(cpu, 1), 2), f) ELSE Leaves(Loaded(Loaded(cpu, 1), 2), f)
cas2_16 == Size(WORD) /\ SwapsTwo
cas2_32 == Size(LONG) /\ SwapsTwo

\* A byte is tested and then has its sign set.
LeavesTaken(e, v) == Leaves(Stored(BYTE, e, Either(BYTE, v, 2^(BYTE - 1))), Logical(ccr, BYTE, v).ccr)
Takes(e) == LeavesTaken(e, Value(BYTE, e))
tas_8 == Op("tas") /\ Takes(Source)

scc_8 ==
    Op("scc") /\ Leaves(Stored(BYTE, EA(BYTE, cpu, Here.ea), IF Cond(Here.cc, ccr) THEN 2^BYTE - 1 ELSE 0), ccr)

\* DX within 0 and the operand; only N tells where it was not.
ChecksBound(c, v, bound) ==
    LET f == [ccr EXCEPT !.z = v = 0, !.v = FALSE, !.c = FALSE]
    IN  IF v \in 0 .. bound THEN Leaves(c, f) ELSE Traps(c, [f EXCEPT !.n = v < 0])
Checks(e) == ChecksBound(e.cpu, Signed(Here.w, DX(cpu)), Signed(Here.w, Value(Here.w, e)))
chk_16 == Size(WORD) /\ Checks(Source)
chk_32 == Size(LONG) /\ Checks(Source)

\* A register within two bounds in memory.  For the lower one, the low bits of
\* data registers are compared signed; for the upper one, only words are.
AsSigned(signed, v) == IF signed THEN Signed(Here.w, v) ELSE v
Outside(signedLow, signedHigh, r, low, high) ==
    \/ AsSigned(signedLow, r) < AsSigned(signedLow, low)
    \/ AsSigned(signedHigh, high) < AsSigned(signedHigh, r)
\* Mutant: CHK2 traps within the bounds.
LeavesCheckedInside(c, f) == IF ~f.c /\ Here.trap THEN Traps(c, f) ELSE Leaves(c, f)
LeavesChecked(c, f) == IF f.c /\ Here.trap THEN Traps(c, f) ELSE Leaves(c, f)
ChecksBounds(c, signedLow, signedHigh, r, low, high) ==
    LeavesChecked(c, [ccr EXCEPT !.c = Outside(signedLow, signedHigh, r, low, high), !.z = r \in {low, high}])
ChecksTwo(e, signedLow, signedHigh) ==
    ChecksBounds(e.cpu, signedLow, signedHigh, DX(e.cpu), Read(e.cpu, Here.w, e.at),
                 Read(e.cpu, Here.w, e.at + Bytes(Here.w)))
chk2cmp2_8 == Size(BYTE) /\ ChecksTwo(Source, Here.d \in REG_D, FALSE)
chk2cmp2_16 == Size(WORD) /\ ChecksTwo(Source, Here.d \in REG_D, Here.d \in REG_D)
chk2cmp2_32 == Size(LONG) /\ ChecksTwo(Source, FALSE, FALSE)

\* The operand word or long of TRAPcc is skipped.
TrapsIf(cc) == IF Cond(cc, ccr) THEN Traps(cpu, ccr) ELSE Leaves(cpu, ccr)
trapv == Op("trapv") /\ TrapsIf("VS")
trapcc == Size(0) /\ TrapsIf(Here.cc)
trapcc_16 == Size(WORD) /\ TrapsIf(Here.cc)
trapcc_32 == Size(LONG) /\ TrapsIf(Here.cc)

-----------------------------------------------------------------------------
(* Jumps, subroutines and stack frames.  Displacements count from the next  *)
(* instruction.                                                             *)

Displaced(w) == Mask(LONG, pc + 1 + Signed(w, Here.disp))
bra_16 == Size(WORD) /\ Jumps(cpu, Displaced(WORD))
bra_32 == Size(LONG) /\ Jumps(cpu, Displaced(LONG))
Branches(w) == Jumps(cpu, IF Cond(Here.cc, ccr) THEN Displaced(w) ELSE pc + 1)
bcc_16 == Size(WORD) /\ Branches(WORD)
bcc_32 == Size(LONG) /\ Branches(LONG)

Calls(c, to) == Jumps(Push(c, pc + 1), to)
bsr_16 == Size(WORD) /\ Calls(cpu, Displaced(WORD))
bsr_32 == Size(LONG) /\ Calls(cpu, Displaced(LONG))

jmp_32 == Op("jmp") /\ Jumps(Source.cpu, Source.at)
jsr_32 == Op("jsr") /\ Calls(Source.cpu, Source.at)
rts_32 == Op("rts") /\ Jumps(Pull(cpu), Top(cpu))
\* Drops the caller's arguments, too.
rtd_32 ==
    /\ Op("rtd")
    /\ LET c == Pull(cpu)
       IN  Jumps(SetLong(c, SP, c.r[SP] + Signed(WORD, Here.disp)), Top(cpu))

lea_32 == Op("lea") /\ Leaves(SetLong(Source.cpu, Here.d, Source.at), ccr)
pea_32 == Op("pea") /\ Leaves(Push(Source.cpu, Source.at), ccr)

\* The frame pointer is pushed and set to the stack, then local variables are
\* reserved; with A7 itself, what is pushed is the stack pointer after the step.
Reserved(c) == SetLong(c, SP, c.r[SP] + Signed(Here.w, Here.disp))
Links == LET c == Push(cpu, cpu.r[Here.d])
         IN  Here.d # SP /\ Leaves(Reserved(SetLong(c, Here.d, c.r[SP])), ccr)
LinksA7 == Here.d = SP /\ Leaves(Reserved(Push(cpu, Mask(LONG, cpu.r[SP] - 4))), ccr)
link_16 == Size(WORD) /\ (Links \/ LinksA7)
link_32 == Size(LONG) /\ (Links \/ LinksA7)

\* Mutant: the stack is not taken back to the frame.
unlk_32Kept == Here.d # SP /\ Leaves(SetLong(Pull(cpu), Here.d, Top(cpu)), ccr)
unlk_32 == LET c == SetLong(cpu, SP, cpu.r[Here.d])
           IN  Here.d # SP /\ Leaves(SetLong(Pull(c), Here.d, Top(c)), ccr)
unlk_32_a7 == Here.d = SP /\ Leaves(SetLong(cpu, SP, Top(cpu)), ccr)

-----------------------------------------------------------------------------
(* Bit fields in memory begin at a signed offset from the most significant  *)
(* bit of a byte and may extend over five bytes.  Where they do, the code   *)
(* that changes or tests a field takes the low byte of its mask, not yet    *)
(* shifted, for the fifth byte; the one that extracts it shifts.            *)

\* Mutant: offsets are divided like C does it, towards zero.
FieldPlaceTruncated(c, at, offset, k) ==
    [at |-> Mask(LONG, at + Quotient(offset, BYTE)), o |-> offset % BYTE, offset |-> offset,
     k |-> Width(LONG, k), cpu |-> c]
FieldPlace(c, at, offset, k) ==
    [at |-> Mask(LONG, at + (offset \div BYTE)), o |-> offset % BYTE, offset |-> offset,
     k |-> Width(LONG, k), cpu |-> c]
FieldOf(e) == FieldPlace(e.cpu, e.at, Signed(LONG, e.cpu.r[Here.o]), e.cpu.r[Here.k])
FieldHere == FieldOf(EA(BYTE, cpu, Here.ea))

Crosses(p) == p.k + p.o > LONG
LongOf(p) == Read(p.cpu, LONG, p.at)
FifthOf(p) == IF Crosses(p) THEN Read(p.cpu, BYTE, p.at + 4) ELSE 0
MaskBase(p) == 2^LONG - 2^(LONG - p.k)
MaskLong(p) == MaskBase(p) \div 2^p.o
MaskByte(p) == Mask(BYTE, MaskBase(p))

Untouched(p) == Both(BYTE, FifthOf(p), MaskByte(p)) = 0
FieldTested(p) == [ccr EXCEPT !.n = Bit(LongOf(p), LONG - 1 - p.o), !.v = FALSE, !.c = FALSE,
                              !.z = Both(LONG, LongOf(p), MaskLong(p)) = 0 /\ Untouched(p)]
TestsField(p) == Leaves(p.cpu, FieldTested(p))
\* The long and the byte behind it.
PutField(p, long, byte) ==
    IF Crosses(p) THEN Write(Write(p.cpu, LONG, p.at, long), BYTE, p.at + 4, byte)
                  ELSE Write(p.cpu, LONG, p.at, long)
ChangesField(p, Change(_, _, _)) ==
    Leaves(PutField(p, Change(LONG, LongOf(p), MaskLong(p)), Change(BYTE, FifthOf(p), MaskByte(p))),
           FieldTested(p))
Without(w, v, mask) == v - Both(w, v, mask)
InsertsField(p, insert) ==
    Leaves(PutField(p, Without(LONG, LongOf(p), MaskLong(p)) + (insert \div 2^p.o),
                    Either(BYTE, Without(BYTE, FifthOf(p), MaskByte(p)), Mask(BYTE, insert))),
           [Logical(ccr, LONG, insert).ccr EXCEPT !.z = @ /\ Untouched(p)])
Inserts(p) == InsertsField(p, Mask(LONG, cpu.r[Here.d] * 2^(LONG - p.k)))

\* The field on top of a register; r is what becomes of the destination.
FieldData(p) == Mask(LONG, LongOf(p) * 2^p.o) + ((FifthOf(p) * 2^p.o) \div 2^BYTE)
Extracts(p, data, r) ==
    Leaves(SetLong(p.cpu, Here.d, r),
           [Logical(ccr, LONG, data \div 2^(LONG - p.k)).ccr EXCEPT !.n = Msb(LONG, data)])
ExtractsUnsigned(p, data) == Extracts(p, data, data \div 2^(LONG - p.k))
ExtractsSigned(p, data) == Extracts(p, data, Signed(LONG, data) \div 2^(LONG - p.k))
FindsFirst(p, data) ==
    Extracts(p, data,
             p.offset + Smallest({i \in 0 .. p.k - 1 : Bit(data, LONG - 1 - i)} \cup {p.k}))

bftst_32 == Op("bftst") /\ TestsField(FieldHere)
bfset_32 == Op("bfset") /\ ChangesField(FieldHere, Either)
bfclr_32 == Op("bfclr") /\ ChangesField(FieldHere, Without)
bfchg_32 == Op("bfchg") /\ ChangesField(FieldHere, OneOf)
bfins_32 == Op("bfins") /\ Inserts(FieldHere)
bfextu_32 == Op("bfextu") /\ ExtractsUnsigned(FieldHere, FieldData(FieldHere))
bfexts_32 == Op("bfexts") /\ ExtractsSigned(FieldHere, FieldData(FieldHere))
bfffo_32 == Op("bfffo") /\ FindsFirst(FieldHere, FieldData(FieldHere))

-----------------------------------------------------------------------------
(* The next instruction of a program *)

add == Op("add") /\ (add_8_er \/ add_16_er \/ add_32_er \/ add_8_re \/ add_16_re \/ add_32_re
                     \/ addi_8 \/ addi_16 \/ addi_32 \/ addq_8 \/ addq_16 \/ addq_32 \/ adda_16
                     \/ adda_32)
sub == Op("sub") /\ (sub_8_er \/ sub_16_er \/ sub_32_er \/ sub_8_re \/ sub_16_re \/ sub_32_re
                     \/ subi_8 \/ subi_16 \/ subi_32 \/ subq_8 \/ subq_16 \/ subq_32 \/ suba_16
                     \/ suba_32)
and == Op("and") /\ (and_8_er \/ and_16_er \/ and_32_er \/ and_8_re \/ and_16_re \/ and_32_re
                     \/ andi_8 \/ andi_16 \/ andi_32)
or == Op("or") /\ (or_8_er \/ or_16_er \/ or_32_er \/ or_8_re \/ or_16_re \/ or_32_re \/ ori_8
                   \/ ori_16 \/ ori_32)
eor == Op("eor") /\ (eor_8_re \/ eor_16_re \/ eor_32_re \/ eori_8 \/ eori_16 \/ eori_32)
neg == Op("neg") /\ (neg_8 \/ neg_16 \/ neg_32)
negx == Op("negx") /\ (negx_8 \/ negx_16 \/ negx_32)
not == Op("not") /\ (not_8 \/ not_16 \/ not_32)
clr == Op("clr") /\ (clr_8 \/ clr_16 \/ clr_32)
tst == Op("tst") /\ (tst_8 \/ tst_16 \/ tst_32)
addx == Op("addx") /\ (addx_8_mm \/ addx_16_mm \/ addx_32_mm)
subx == Op("subx") /\ (subx_8_mm \/ subx_16_mm \/ subx_32_mm)
cmp == Op("cmp") /\ (cmp_8 \/ cmp_16 \/ cmp_32 \/ cmpi_8 \/ cmpi_16 \/ cmpi_32 \/ cmpm_8
                     \/ cmpm_16 \/ cmpm_32 \/ cmpa_16 \/ cmpa_32)
bset == Op("bset") /\ (bset_8_r \/ bset_8_s)
bclr == Op("bclr") /\ (bclr_8_r \/ bclr_8_s)
bchg == Op("bchg") /\ (bchg_8_r \/ bchg_8_s)
btst == Op("btst") /\ (btst_8_r \/ btst_8_s)
move == Op("move") /\ (move_8_d \/ move_8_ai \/ move_8_pi \/ move_8_pi7 \/ move_8_pd \/ move_8_pd7
                       \/ move_8_di \/ move_8_ix \/ move_8_aw \/ move_8_al \/ move_16_d
                       \/ move_16_ai \/ move_16_pi \/ move_16_pd \/ move_16_di \/ move_16_ix
                       \/ move_16_aw \/ move_16_al \/ move_32_d \/ move_32_ai \/ move_32_pi
                       \/ move_32_pd \/ move_32_di \/ move_32_ix \/ move_32_aw \/ move_32_al)
movem == Op("movem") /\ (movem_16_re \/ movem_32_re \/ movem_16_er \/ movem_32_er)
movep == Op("movep") /\ (movep_16_re \/ movep_32_re \/ movep_16_er \/ movep_32_er)
mull == Op("mull") /\ (mull_32_d \/ mull_32_ai \/ mull_32_pi \/ mull_32_pd \/ mull_32_di
                       \/ mull_32_ix \/ mull_32_aw \/ mull_32_al \/ mull_32_pcdi \/ mull_32_pcix
                       \/ mull_32_i)
divl == Op("divl") /\ (divl_32_d \/ divl_32_ai \/ divl_32_pi \/ divl_32_pd \/ divl_32_di
                       \/ divl_32_ix \/ divl_32_aw \/ divl_32_al \/ divl_32_pcdi \/ divl_32_pcix
                       \/ divl_32_i)
cas == Op("cas") /\ (cas_8 \/ cas_16 \/ cas_32)
cas2 == Op("cas2") /\ (cas2_16 \/ cas2_32)
chk == Op("chk") /\ (chk_16 \/ chk_32)
chk2 == Op("chk2") /\ (chk2cmp2_8 \/ chk2cmp2_16 \/ chk2cmp2_32)
trap == Op("trap") /\ (trapcc \/ trapcc_16 \/ trapcc_32)
bra == Op("bra") /\ (bra_16 \/ bra_32)
bcc == Op("bcc") /\ (bcc_16 \/ bcc_32)
bsr == Op("bsr") /\ (bsr_16 \/ bsr_32)
link == Op("link") /\ (link_16 \/ link_32)
unlk == Op("unlk") /\ (unlk_32 \/ unlk_32_a7)

MemoryStep ==
    \/ add \/ sub \/ and \/ or \/ eor \/ neg \/ negx \/ not \/ clr \/ tst \/ addx \/ subx \/ cmp
    \/ asl_16 \/ asr_16 \/ lsl_16 \/ lsr_16 \/ rol_16 \/ ror_16 \/ roxl_16 \/ roxr_16 \/ bset
    \/ bclr \/ bchg \/ btst \/ move \/ movea_16 \/ movea_32 \/ movem \/ movep \/ exg_32 \/ mulu_16
    \/ muls_16 \/ divu_16 \/ divs_16 \/ mull \/ divl \/ cas \/ cas2 \/ tas_8 \/ scc_8 \/ chk
    \/ chk2 \/ trap \/ trapv \/ bra \/ bcc \/ bsr \/ jmp_32 \/ jsr_32 \/ rts_32 \/ rtd_32
    \/ lea_32 \/ pea_32 \/ link \/ unlk \/ bftst_32 \/ bfset_32 \/ bfclr_32 \/ bfchg_32
    \/ bfins_32 \/ bfextu_32 \/ bfexts_32 \/ bfffo_32

\* Instructions on registers alone are those of module M68kRoutines.
GuestNext ==
    \/ MemoryStep
    \/ Next /\ UNCHANGED memoryVars
=============================================================================
