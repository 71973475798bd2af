--------------------------- MODULE M68kGuest_proofs ---------------------------
(***************************************************************************)
(* Proofs about module M68kGuest, for words and longs of any width: what   *)
(* routines on numbers and comparisons leave is what arithmetic on the     *)
(* integers says, and subroutines that call themselves leave stack and     *)
(* frame pointer as they were.  The theorems follow one routine from       *)
(* instruction to instruction; NumberInv, CompareInv and FramesInv say     *)
(* what is so in between.                                                  *)
(***************************************************************************)
EXTENDS M68kGuest, M68kAlu_proofs

-----------------------------------------------------------------------------
(* Numbers of two words                                                    *)

\* The powers of 2 that sizes need; a half is half a word.
LEMMA PowersAre ==
    /\ WORD \in Nat /\ LONG \in Nat /\ WORD \div 2 \in Nat \ {0} /\ Doubling(LONG)
    /\ Doubling(LONG + 1)
    /\ \A i \in 0 .. LONG : 2^i \in Nat \ {0}
    /\ \A w \in {WORD, LONG} : 2^(w - 1) \in Nat \ {0} /\ 2^w = 2 * 2^(w - 1)
    /\ 2^LONG = 2^WORD * 2^WORD /\ 2^WORD = 2^(WORD \div 2) * 2^(WORD \div 2)
    /\ 2^WORD >= 16 /\ 2^8 = 256
<1>1. /\ WORD \in Nat /\ WORD >= 4 /\ LONG = 2 * WORD /\ LONG \in Nat /\ LONG >= 8
      /\ WORD = (WORD \div 2) + (WORD \div 2) /\ WORD \div 2 \in 1 .. LONG
  BY M68kAssumption
<1>2. Doubling(LONG) /\ Doubling(LONG + 1)
  BY <1>1, PowersOfTwo DEF Doubling
<1>3. \A i \in 0 .. LONG : 2^i \in Nat \ {0}
  BY <1>1, <1>2, PowersArePositive
<1>4. ASSUME NEW w \in {WORD, LONG} PROVE 2^(w - 1) \in Nat \ {0} /\ 2^w = 2 * 2^(w - 1)
  <2>1. w - 1 \in 0 .. LONG - 1 /\ w - 1 \in 0 .. LONG /\ (w - 1) + 1 = w
    BY <1>1
  <2>2. 2^((w - 1) + 1) = 2 * 2^(w - 1)
    BY <2>1, PowersOfTwo
  <2> QED BY <1>3, <2>1, <2>2
<1>5. 2^(WORD + WORD) = 2^WORD * 2^WORD
  BY <1>1, <1>2, PowersMultiply
<1>6. 2^((WORD \div 2) + (WORD \div 2)) = 2^(WORD \div 2) * 2^(WORD \div 2)
  <2> DEFINE h == WORD \div 2
  <2>1. h \in 0 .. LONG /\ h + h <= LONG
    BY <1>1
  <2> HIDE DEF h
  <2>2. 2^(h + h) = 2^h * 2^h
    BY <1>1, <1>2, <2>1, PowersMultiply
  <2> QED BY <2>2 DEF h
<1>7. 2^4 = 16 /\ 2^8 = 256
  <2>1. 2^0 = 1 /\ 2^(0 + 1) = 2 * 2^0 /\ 2^(1 + 1) = 2 * 2^1 /\ 2^(2 + 1) = 2 * 2^2
        /\ 2^(3 + 1) = 2 * 2^3
    BY <1>1, PowersOfTwo
  <2>2. /\ 2^(4 + 1) = 2 * 2^4 /\ 2^(5 + 1) = 2 * 2^5 /\ 2^(6 + 1) = 2 * 2^6
        /\ 2^(7 + 1) = 2 * 2^7
    BY <1>1, PowersOfTwo
  <2>3. 2^1 = 2 /\ 2^2 = 4 /\ 2^3 = 8 /\ 2^4 = 16
    BY <2>1
  <2> QED BY <2>2, <2>3
<1>8. 2^WORD >= 16
  <2>1. 4 \in 0 .. LONG /\ WORD - 4 \in 0 .. LONG /\ 4 + (WORD - 4) = WORD /\ WORD <= LONG
    BY <1>1
  <2>2. 2^(4 + (WORD - 4)) = 2^4 * 2^(WORD - 4) /\ 2^(WORD - 4) \in Nat \ {0}
    BY <1>1, <1>2, <1>3, <2>1, PowersMultiply
  <2> DEFINE p == 2^(WORD - 4)
  <2>3. 2^WORD = 16 * p /\ p \in Nat \ {0}
    BY <1>7, <2>1, <2>2
  <2> HIDE DEF p
  <2> QED BY <2>3
<1>9. WORD + WORD = LONG
  BY <1>1
<1> QED BY <1>1, <1>2, <1>3, <1>4, <1>5, <1>6, <1>7, <1>8, <1>9

\* Words and longs have a sign, and a long is two words.
LEMMA SizesAre ==
    /\ HasSign(WORD) /\ HasSign(LONG)
    /\ 2^LONG = 2^WORD * 2^WORD /\ 2^(LONG - 1) = 2^(WORD - 1) * 2^WORD
<1>1. HasSign(WORD) /\ HasSign(LONG) /\ 2^LONG = 2^WORD * 2^WORD
  BY PowersAre DEF HasSign
<1> DEFINE H == 2^(WORD - 1)
           M == 2^WORD
           L == 2^(LONG - 1)
<1>2. H \in Nat /\ M = 2 * H /\ L \in Nat /\ 2 * L = M * M
  BY <1>1 DEF HasSign
<1> HIDE DEF H, M, L
<1>3. 2 * (H * M) = M * M
  BY <1>2, Z3
<1>4. H * M \in Nat
  BY <1>2
<1>5. L = H * M
  BY <1>2, <1>3, <1>4
<1> QED BY <1>1, <1>5 DEF H, M, L

\* The upper word decides about a number of two words.
LEMMA TwoWords ==
    ASSUME NEW hi \in Int, NEW lo \in Unsigned(WORD)
    PROVE  LET n == hi * 2^WORD + lo
           IN  /\ n \in Int /\ n % 2^LONG = (hi % 2^WORD) * 2^WORD + lo
               /\ (n \in Unsigned(LONG)) = (hi \in Unsigned(WORD))
               /\ InRange(LONG, n) = InRange(WORD, hi)
               /\ (n >= 2^(LONG - 1)) = (hi >= 2^(WORD - 1))
               /\ (n = 0) = (hi = 0 /\ lo = 0)
<1> DEFINE H == 2^(WORD - 1)
           M == 2^WORD
           n == hi * M + lo
<1>1. H \in Nat \ {0} /\ M = 2 * H /\ M \in Nat \ {0} /\ lo \in 0 .. M - 1
  BY SizesAre DEF HasSign, Unsigned
<1>2. 2^LONG = M * M /\ 2^(LONG - 1) = H * M
  BY SizesAre
<1> HIDE DEF H, M
<1>3. n \in Int /\ H * M \in Int /\ M * M \in Int
  BY <1>1
<1>4. n % (M * M) = (hi % M) * M + lo
  BY <1>1, UpperCut
<1>5. \A k \in Int : (n < k * M) <=> (hi < k)
  BY <1>1, SameSide
<1>6. (n < M * M) <=> (hi < M)
  BY <1>1, <1>5
<1>7. (n < H * M) <=> (hi < H)
  BY <1>1, <1>5
<1>8. (n < 0) <=> (hi < 0)
  <2>1. 0 * M = 0
    BY <1>1
  <2> QED BY <1>5, <2>1
<1>9. (n < -(H * M)) <=> (hi < -H)
  <2>1. (-H) * M = -(H * M) /\ -H \in Int
    BY <1>1, Z3
  <2> QED BY <1>5, <2>1
<1>10. (n = 0) <=> (hi = 0 /\ lo = 0)
  <2>1. ASSUME n = 0 PROVE hi = 0 /\ lo = 0
    <3>1. (n < 1 * M) <=> (hi < 1)
      BY <1>5
    <3>2. hi = 0
      BY <1>1, <1>8, <2>1, <3>1
    <3> QED BY <1>1, <2>1, <3>2
  <2>2. ASSUME hi = 0, lo = 0 PROVE n = 0
    BY <1>1, <2>2
  <2> QED BY <2>1, <2>2
<1>11. (n \in Unsigned(LONG)) = (hi \in Unsigned(WORD))
  BY <1>1, <1>2, <1>3, <1>6, <1>8 DEF Unsigned, M
<1>12. InRange(LONG, n) = InRange(WORD, hi)
  BY <1>1, <1>2, <1>3, <1>7, <1>9 DEF InRange, H
<1>13. (n >= H * M) = (hi >= H)
  BY <1>1, <1>3, <1>7
<1> QED BY <1>2, <1>3, <1>4, <1>10, <1>11, <1>12, <1>13 DEF H, M

\* Its sign is that of the upper word.
LEMMA PairIs ==
    ASSUME NEW hi \in Unsigned(WORD), NEW lo \in Unsigned(WORD)
    PROVE  Signed(LONG, hi * 2^WORD + lo) = Signed(WORD, hi) * 2^WORD + lo
<1> DEFINE M == 2^WORD
           n == hi * M + lo
<1>1. M \in Nat /\ hi \in Int /\ lo \in Int /\ 2^LONG = M * M
  BY SizesAre DEF Unsigned, HasSign
<1>2. n \in Unsigned(LONG) /\ (n >= 2^(LONG - 1)) = (hi >= 2^(WORD - 1))
  BY <1>1, TwoWords
<1>3. Signed(LONG, n) = IF hi >= 2^(WORD - 1) THEN n - M * M ELSE n
  BY <1>1, <1>2, SignedIs, SizesAre
<1>4. Signed(WORD, hi) = IF hi >= 2^(WORD - 1) THEN hi - M ELSE hi
  BY SignedIs, SizesAre
<1> HIDE DEF M
<1>5. (hi - M) * M + lo = (hi * M + lo) - M * M
  BY <1>1, Z3
<1> QED BY <1>1, <1>3, <1>4, <1>5 DEF M

\* The result and the flags f of a number of two words, from those of the upper one.
ResultOf(b, f, r, u, g) ==
    /\ r = u % 2^b
    /\ f.c = (u \notin Unsigned(b)) /\ f.x = f.c
    /\ f.v = ~InRange(b, g)
    /\ f.z = (r = 0) /\ f.n = (r >= 2^(b - 1))

\* A correct upper word, with Z of both, completes a correct long.
LEMMA BothHalves ==
    ASSUME NEW a, NEW hi \in Int, NEW g \in Int, NEW lo \in Unsigned(WORD),
           Correct(WORD, a, hi, g), a.ccr.z = (lo = 0 /\ a.res = 0)
    PROVE  ResultOf(LONG, a.ccr, a.res * 2^WORD + lo, hi * 2^WORD + lo, g * 2^WORD + lo)
<1>1. a.res \in Unsigned(WORD) /\ a.res = hi % 2^WORD /\ a.res \in Int
  BY DEF Correct, Unsigned
<1>2. a.res * 2^WORD + lo = (hi * 2^WORD + lo) % 2^LONG
  BY <1>1, TwoWords
<1>3. (hi * 2^WORD + lo \in Unsigned(LONG)) = (hi \in Unsigned(WORD))
  BY TwoWords
<1>4. InRange(LONG, g * 2^WORD + lo) = InRange(WORD, g)
  BY TwoWords
<1>5. /\ (a.res * 2^WORD + lo >= 2^(LONG - 1)) = (a.res >= 2^(WORD - 1))
      /\ (a.res * 2^WORD + lo = 0) = (a.res = 0 /\ lo = 0)
  BY <1>1, TwoWords
<1> QED BY <1>2, <1>3, <1>4, <1>5 DEF Correct, ResultOf

-----------------------------------------------------------------------------
(* What an instruction does to a routine                                   *)

\* The instructions of the routines that the theorems are about.
Followed == {"ADD", "ADD_32", "ADDX", "ADDX_32", "SUB", "SUB_32", "SUBX", "SUBX_32",
             "NEG", "NEG_32", "NEGX", "NEGX_32", "ADDQ", "SUBQ", "ADDA", "SUBA",
             "ABCD", "SBCD", "NBCD", "CMP", "CMP_32", "CMPA", "CAS", "TST", "MOVE", "Bcc", "Scc"}

\* And others, in module M68kRoutines_proofs.
Calculated == {"CLR", "SWAP", "EXT", "MULU", "MULS", "DIVU", "DIVS", "MULL", "DIVL", "DBcc",
               "ASL", "ASR", "LSL", "LSR", "ROL", "ROR", "ROXL", "ROXR"}

\* A step that executes none of these; no step changes the program.
Aside == Running /\ UNCHANGED <<routine, code, was>> /\ Here.op \notin Followed
MemoryAside == Aside /\ Here.op \notin Calculated

LEMMA MemorySteps == MemoryStep => MemoryAside
<1>1. add => MemoryAside
    BY DEF add, Op, add_8_er, IntoRegister, LeavesLow, Leaves, add_16_er, add_32_er,
         add_8_re, IntoOperand, LeavesOperand, add_16_re, add_32_re, addi_8, addi_16,
         addi_32, addq_8, QuickOperand, addq_16, QuickAddress, addq_32, adda_16,
         AddsAddress, adda_32, Goes, Aside, MemoryAside, Followed, Calculated
<1>2. sub => MemoryAside
    BY DEF sub, Op, sub_8_er, IntoRegister, LeavesLow, Leaves, sub_16_er, sub_32_er,
         sub_8_re, IntoOperand, LeavesOperand, sub_16_re, sub_32_re, subi_8, subi_16,
         subi_32, subq_8, QuickOperand, subq_16, QuickAddress, subq_32, suba_16,
         SubtractsAddress, suba_32, Goes, Aside, MemoryAside, Followed, Calculated
<1>3. and \/ or \/ eor => MemoryAside
    BY DEF and, Op, and_8_er, IntoRegister, LeavesLow, Leaves, and_16_er, and_32_er,
         and_8_re, IntoOperand, LeavesOperand, and_16_re, and_32_re, andi_8, andi_16,
         andi_32, or, or_8_er, or_16_er, or_32_er, or_8_re, or_16_re, or_32_re, ori_8,
         ori_16, ori_32, eor, eor_8_re, eor_16_re, eor_32_re, eori_8, eori_16,
         eori_32, Goes, Aside, MemoryAside, Followed, Calculated
<1>4. neg \/ negx \/ not \/ clr \/ tst => MemoryAside
    BY DEF neg, Op, neg_8, IntoOperand, LeavesOperand, Leaves, neg_16, neg_32, negx,
         negx_8, negx_16, negx_32, not, not_8, not_16, not_32, clr, clr_8, clr_16,
         clr_32, tst, tst_8, Examined, tst_16, tst_32, Goes, Aside, MemoryAside, Followed, Calculated
<1>5. addx \/ subx \/ cmp => MemoryAside
    BY DEF addx, Op, addx_8_mm, MemoryToMemory, IntoOperand, LeavesOperand, Leaves,
         addx_16_mm, addx_32_mm, subx, subx_8_mm, subx_16_mm, subx_32_mm, cmp, cmp_8,
         Compares_ER, cmp_16, cmp_32, cmpi_8, Examined, cmpi_16, cmpi_32, cmpm_8,
         Compares_MM, cmpm_16, cmpm_32, cmpa_16, ComparesAddress, cmpa_32, Goes,
         Aside, MemoryAside, Followed, Calculated
<1>6. asl_16 \/ asr_16 \/ lsl_16 \/ lsr_16 \/ rol_16 \/ ror_16 \/ roxl_16 \/ roxr_16 => MemoryAside
    BY DEF asl_16, Op, IntoOperand, LeavesOperand, Leaves, asr_16, lsl_16, lsr_16,
         rol_16, ror_16, roxl_16, roxr_16, Goes, Aside, MemoryAside, Followed, Calculated
<1>7. bset \/ bclr \/ bchg \/ btst => MemoryAside
    BY DEF bset, Op, bset_8_r, IntoOperand, LeavesOperand, Leaves, bset_8_s, bclr,
         bclr_8_r, bclr_8_s, bchg, bchg_8_r, bchg_8_s, btst, btst_8_r, Examined,
         btst_8_s, Goes, Aside, MemoryAside, Followed, Calculated
<1>8. move => MemoryAside
    BY DEF move, Op, move_8_d, Moves, MemoryToMemory, IntoOperand, LeavesOperand,
         Leaves, move_8_ai, move_8_pi, move_8_pi7, move_8_pd, move_8_pd7, move_8_di,
         move_8_ix, move_8_aw, move_8_al, move_16_d, move_16_ai, move_16_pi,
         move_16_pd, move_16_di, move_16_ix, move_16_aw, move_16_al, move_32_d,
         move_32_ai, move_32_pi, move_32_pd, move_32_di, move_32_ix, move_32_aw,
         move_32_al, Goes, Aside, MemoryAside, Followed, Calculated
<1>9. movea_16 \/ movea_32 \/ movem \/ movep \/ exg_32 => MemoryAside
    BY DEF movea_16, Op, MovesAddress, Leaves, movea_32, movem, movem_16_re,
         SavesDown, SavesUp, movem_32_re, movem_16_er, RestoresUp, movem_32_er, movep,
         movep_16_re, SavesBytes, movep_32_re, movep_16_er, LoadsBytes, movep_32_er,
         exg_32, Goes, Aside, MemoryAside, Followed, Calculated
<1>10. mulu_16 \/ muls_16 \/ divu_16 \/ divs_16 => MemoryAside
    BY DEF mulu_16, Op, IntoLong, LeavesLong, Leaves, muls_16, divu_16, ZeroDivide,
         Traps, divs_16, Goes, Aside, MemoryAside, Followed, Calculated
<1>11. mull => MemoryAside
  <2>1. mull => Op("mull") /\ MultipliesLong(Source)
    BY Zenon DEF mull, mull_32_d, mull_32_ai, mull_32_pi, mull_32_pd, mull_32_di, mull_32_ix, mull_32_aw,
         mull_32_al, mull_32_pcdi, mull_32_pcix, mull_32_i
  <2>2. MultipliesLong(Source) => UNCHANGED <<routine, code, was>>
    BY DEF MultipliesLong, LeavesProduct, Leaves, Goes
  <2> QED BY <2>1, <2>2 DEF Op, Aside, MemoryAside, Followed, Calculated
<1>12. divl => MemoryAside
  <2>1. divl => Op("divl") /\ DividesLong(Source)
    BY Zenon DEF divl, divl_32_d, divl_32_ai, divl_32_pi, divl_32_pd, divl_32_di, divl_32_ix, divl_32_aw,
         divl_32_al, divl_32_pcdi, divl_32_pcix, divl_32_i
  <2>2. ASSUME NEW c, NEW f PROVE Leaves(c, f) \/ Traps(c, f) => UNCHANGED <<routine, code, was>>
    BY DEF Leaves, Traps, Goes
  <2>3. DividesLong(Source) => UNCHANGED <<routine, code, was>>
    <3>1. ASSUME NEW c, NEW a PROVE LeavesQuotient(c, a) => UNCHANGED <<routine, code, was>>
      BY <2>2 DEF LeavesQuotient
    <3>2. ASSUME NEW c, NEW s PROVE DividesBy(c, s) => UNCHANGED <<routine, code, was>>
      <4>1. CASE s = 0
        BY <2>2, <4>1 DEF DividesBy
      <4>2. CASE s # 0
        BY <3>1, <4>2, Zenon DEF DividesBy
      <4> QED BY <4>1, <4>2
    <3> QED BY <3>2 DEF DividesLong
  <2> QED BY <2>1, <2>3 DEF Op, Aside, MemoryAside, Followed, Calculated
<1>13. cas \/ cas2 \/ tas_8 \/ scc_8 => MemoryAside
    BY DEF cas, Op, cas_8, Swaps, LeavesSwapped, Leaves, cas_16, cas_32, cas2,
         cas2_16, SwapsTwo, cas2_32, tas_8, Takes, LeavesTaken, scc_8, Goes, Aside, MemoryAside, Followed, Calculated, Calculated
<1>14. chk \/ chk2 \/ trap \/ trapv => MemoryAside
    BY DEF chk, Op, chk_16, Checks, ChecksBound, Leaves, Traps, chk_32, chk2,
         chk2cmp2_8, ChecksTwo, ChecksBounds, LeavesChecked, trap, trapcc, TrapsIf,
         trapcc_16, trapcc_32, chk2cmp2_16, chk2cmp2_32, trapv, Goes, Aside, MemoryAside, Followed, Calculated
<1>15. bra \/ bcc \/ bsr \/ jmp_32 \/ jsr_32 \/ rts_32 \/ rtd_32 => MemoryAside
    BY DEF bra, Op, bra_16, Jumps, bra_32, bcc, bcc_16, Branches, bcc_32, bsr, bsr_16,
         Calls, bsr_32, jmp_32, jsr_32, rts_32, rtd_32, Goes, Aside, MemoryAside, Followed, Calculated
<1>16. lea_32 \/ pea_32 \/ link \/ unlk => MemoryAside
    BY DEF lea_32, Op, Leaves, pea_32, link, link_16, Links, LinksA7, link_32, unlk,
         unlk_32, unlk_32_a7, Goes, Aside, MemoryAside, Followed, Calculated
<1>17. bftst_32 \/ bfset_32 \/ bfclr_32 \/ bfchg_32 => MemoryAside
    BY DEF bftst_32, Op, TestsField, Leaves, bfset_32, ChangesField, bfclr_32,
         bfchg_32, Goes, Aside, MemoryAside, Followed, Calculated
<1>18. bfins_32 \/ bfextu_32 \/ bfexts_32 \/ bfffo_32 => MemoryAside
    BY DEF bfins_32, Op, Inserts, InsertsField, Leaves, bfextu_32, ExtractsUnsigned,
         Extracts, bfexts_32, ExtractsSigned, bfffo_32, FindsFirst, Goes, Aside, MemoryAside, Followed, Calculated, Calculated
<1> QED BY <1>1, <1>2, <1>3, <1>4, <1>5, <1>6, <1>7, <1>8, <1>9, <1>10, <1>11, <1>12, <1>13, <1>14,
           <1>15, <1>16, <1>17, <1>18 DEF MemoryStep

OtherInstruction ==
    \/ Executes("CLR", CLR) \/ Executes("SWAP", SWAP)
    \/ ExecutesLong("EXT", LAMBDA w, f, s, t : EXT(w, LONG, f, Mask(w, t)))
    \/ Logic \/ ChangeBit \/ ChangeField \/ InsertField \/ ExtractField \/ Shift \/ Rotate
    \/ Multiply \/ Divide \/ MultiplyLong \/ DivideLong \/ DBcc

LEMMA RegisterSteps == OtherInstruction => Aside
<1>1. Executes("CLR", CLR) \/ Executes("SWAP", SWAP) \/ Logic => Aside
  BY DEF Executes, Logic, Stores, Goes, Aside, Followed
<1>2. Multiply \/ ExecutesLong("EXT", LAMBDA w, f, s, t : EXT(w, LONG, f, Mask(w, t))) => Aside
  BY DEF Multiply, ExecutesLong, Stores, Goes, Aside, Followed
<1>3. ChangeBit \/ Shift \/ Rotate => Aside
  BY DEF ChangeBit, Shift, Rotate, ExecutesCount, Executes, Stores, Goes, Aside, Followed
<1>4. ChangeField \/ InsertField \/ ExtractField => Aside
  BY DEF ChangeField, InsertField, ExtractField, ExecutesField, Executes, Stores, Goes, Aside,
         Followed
<1>5. Divide \/ MultiplyLong \/ DivideLong \/ DBcc => Aside
  BY DEF Divide, MultiplyLong, DivideLong, DBcc, ExecutesLong, Stores, Goes, Aside, Followed
<1> QED BY <1>1, <1>2, <1>3, <1>4, <1>5 DEF OtherInstruction

FollowedStep ==
    \/ Add \/ Sub \/ Neg \/ AddSubQuick \/ Address \/ BinaryDecimal \/ Compare
    \/ Executes("MOVE", MOVE) \/ CompareAndSwap \/ Bcc \/ Scc

\* The instruction is one of those followed, or another.
LEMMA EachStep == GuestNext => FollowedStep \/ Aside
<1>1. Move => Executes("MOVE", MOVE) \/ OtherInstruction
  BY DEF Move, OtherInstruction
<1>2. Next => FollowedStep \/ OtherInstruction
  BY <1>1, ZenonT(60) DEF Next, FollowedStep, OtherInstruction
<1> QED BY <1>2, RegisterSteps, MemorySteps DEF GuestNext, MemoryAside

\* What the instruction says is stored, and nothing else happens.
LEMMA FollowedSteps ==
    ASSUME GuestNext, Here.op \in Followed
    PROVE  /\ Running /\ UNCHANGED <<routine, code, was>>
           /\ Here.op # "Bcc" => pc' = pc + 1
           /\ LET w == Here.w
                  s == Operand(w, Here.s)
                  t == Operand(w, Here.d)
                  ws == Operand(WORD, Here.s)
              IN  /\ Here.op = "ADD" => Stores(w, Here.d, ADD(w, ccr, s, t))
                  /\ Here.op = "ADD_32" => Stores(w, Here.d, ADD_32(w, ccr, s, t))
                  /\ Here.op = "ADDX" => Stores(w, Here.d, ADDX(w, ccr, s, t))
                  /\ Here.op = "ADDX_32" => Stores(w, Here.d, ADDX_32(w, ccr, s, t))
                  /\ Here.op = "SUB" => Stores(w, Here.d, SUB(w, ccr, s, t))
                  /\ Here.op = "SUB_32" => Stores(w, Here.d, SUB_32(w, ccr, s, t))
                  /\ Here.op = "SUBX" => Stores(w, Here.d, SUBX(w, ccr, s, t))
                  /\ Here.op = "SUBX_32" => Stores(w, Here.d, SUBX_32(w, ccr, s, t))
                  /\ Here.op = "NEG" => Stores(w, Here.d, NEG(w, ccr, s, t))
                  /\ Here.op = "NEG_32" => Stores(w, Here.d, NEG_32(w, ccr, s, t))
                  /\ Here.op = "NEGX" => Stores(w, Here.d, NEGX(w, ccr, s, t))
                  /\ Here.op = "NEGX_32" => Stores(w, Here.d, NEGX_32(w, ccr, s, t))
                  /\ Here.op = "ADDQ" => Stores(w, Here.d, ADDQ(w, ccr, Here.q, t))
                  /\ Here.op = "SUBQ" => Stores(w, Here.d, SUBQ(w, ccr, Here.q, t))
                  /\ Here.op = "ADDA" => Stores(LONG, Here.d, ADDA(WORD, LONG, ccr, ws, d[Here.d]))
                  /\ Here.op = "SUBA" => Stores(LONG, Here.d, SUBA(WORD, LONG, ccr, ws, d[Here.d]))
                  /\ Here.op = "ABCD" => Stores(w, Here.d, ABCD(ccr, s, t))
                  /\ Here.op = "SBCD" => Stores(w, Here.d, SBCD(ccr, s, t))
                  /\ Here.op = "NBCD" => Stores(w, Here.d, NBCD(ccr, s, t))
                  /\ Here.op = "CMP" => Stores(w, Here.d, CMP(w, ccr, s, t))
                  /\ Here.op = "CMP_32" => Stores(w, Here.d, CMP_32(w, ccr, s, t))
                  /\ Here.op = "CMPA" => Stores(LONG, Here.d, CMPA(WORD, LONG, ccr, ws, d[Here.d]))
                  /\ Here.op = "TST" => Stores(w, Here.d, TST(w, ccr, s, t))
                  /\ Here.op = "MOVE" => Stores(w, Here.d, MOVE(w, ccr, s, t))
                  /\ Here.op = "CAS" => CompareAndSwap
                  /\ Here.op = "Bcc" => Bcc
                  /\ Here.op = "Scc" => Scc
<1>1. FollowedStep
  BY EachStep DEF Aside
<1>2. CASE Add
  BY <1>2 DEF Add, Executes, Stores, Goes
<1>3. CASE Sub
  BY <1>3 DEF Sub, Executes, Stores, Goes
<1>4. CASE Neg
  BY <1>4 DEF Neg, Executes, Stores, Goes
<1>5. CASE AddSubQuick
  BY <1>5 DEF AddSubQuick, ExecutesQuick, Executes, Stores, Goes
<1>6. CASE Address
  BY <1>6 DEF Address, ExecutesLong, Stores, Goes
<1>7. CASE BinaryDecimal
  BY <1>7 DEF BinaryDecimal, ExecutesDecimal, Executes, Stores, Goes
<1>8. CASE Compare
  BY <1>8 DEF Compare, ExecutesLong, Executes, Stores, Goes
<1>9. CASE Executes("MOVE", MOVE)
  BY <1>9 DEF Executes, Stores, Goes
<1>10. CASE CompareAndSwap
  <2>1. Here.op = "CAS" /\ Running /\ UNCHANGED <<routine, code, was>> /\ pc' = pc + 1
    BY <1>10 DEF CompareAndSwap, Goes
  <2> QED BY <1>10, <2>1
<1>11. CASE Bcc
  <2>1. Here.op = "Bcc" /\ Running /\ UNCHANGED <<routine, code, was>>
    BY <1>11 DEF Bcc, Goes
  <2> QED BY <1>11, <2>1
<1>12. CASE Scc
  <2>1. Here.op = "Scc" /\ Running /\ UNCHANGED <<routine, code, was>> /\ pc' = pc + 1
    BY <1>12 DEF Scc, Stores, Goes
  <2> QED BY <1>12, <2>1
<1> QED BY <1>1, <1>2, <1>3, <1>4, <1>5, <1>6, <1>7, <1>8, <1>9, <1>10, <1>11, <1>12
        DEF FollowedStep

\* Programs do not change themselves.
LEMMA ProgramsKept ==
    /\ GuestNext => Running
    /\ [GuestNext]_<<vars, memoryVars>> => UNCHANGED <<routine, code, was>>
<1>1. FollowedStep => Running /\ UNCHANGED <<routine, code, was>>
  BY SMTT(30) DEF FollowedStep, Add, Sub, Neg, AddSubQuick, Address, BinaryDecimal, Compare,
         CompareAndSwap, Bcc, Scc, ExecutesQuick, ExecutesLong, ExecutesDecimal, Executes,
         Stores, Goes
<1> QED BY <1>1, EachStep DEF vars, Aside

-----------------------------------------------------------------------------
(* Routines on numbers                                                     *)

InHalves == {"add", "sub", "neg"}
Numbers == InHalves \cup {"quick", "pointer", "decimal"}
Comparing == {"compare", "max", "cas"}
Multiplying == {"product", "quotient", "longproduct", "longquotient", "loop", "mul32"}
Proved == Numbers \cup Comparing \cup Multiplying \cup {"shift"}

\* What does not change while a routine is executed: its instructions, and the
\* registers it began with.
Begun ==
    /\ code = Code(routine)
    /\ was.ccr \in Flags /\ was.d \in [REG_D -> Int]
    /\ routine.name \in InHalves \cup {"quick"} => \A r \in REG_D : was.d[r] \in Words
    /\ routine.name = "quick" => routine.op \in {"ADDQ", "SUBQ"} /\ routine.q \in 0 .. 7
    /\ routine.name = "pointer" => was.d[0] \in Words /\ was.d[1] \in Longs /\ was.d[2] \in Words
    /\ routine.name = "decimal" => /\ routine.op \in {"ABCD", "SBCD", "NBCD"}
                                   /\ was.d[0] \in Packed /\ was.d[1] \in Packed
    /\ routine.name \in Comparing => was.d[0] \in Words
    /\ routine.name \in {"max", "cas"} => was.d[1] \in Words
    /\ routine.name = "cas" => was.d[2] \in Words
    /\ routine.name = "compare" =>
           /\ routine.op \in {"CMP", "CMP_32", "CMPA"} /\ was.d[2] \in Longs
           /\ was.d[1] \in IF routine.op = "CMPA" THEN Longs ELSE Words

LEMMA Instructions ==
    ASSUME code = Code(routine)
    PROVE  LET of(op, long) == IF routine.long THEN long ELSE op
           IN  /\ routine.name = "add" =>
                      code = <<Ins(of("ADD", "ADD_32"), WORD, 0, 2),
                               Ins(of("ADDX", "ADDX_32"), WORD, 1, 3)>>
               /\ routine.name = "sub" =>
                      code = <<Ins(of("SUB", "SUB_32"), WORD, 0, 2),
                               Ins(of("SUBX", "SUBX_32"), WORD, 1, 3)>>
               /\ routine.name = "neg" =>
                      code = <<Ins(of("NEG", "NEG_32"), WORD, 0, 2),
                               Ins(of("NEGX", "NEGX_32"), WORD, 0, 3)>>
               /\ routine.name = "quick" =>
                      code = <<[op |-> routine.op, w |-> WORD, s |-> 0, d |-> 2, q |-> routine.q]>>
               /\ routine.name = "pointer" =>
                      code = <<Ins("ADDA", WORD, 0, 1), Ins("SUBA", WORD, 2, 1)>>
               /\ routine.name = "decimal" => code = <<Ins(routine.op, 8, 0, 1)>>
               /\ routine.name = "compare" =>
                      code = <<Ins(routine.op, WORD, 0, 1), Branch("Scc", 2, routine.cc, 0)>>
               /\ routine.name = "max" =>
                      code = <<Ins("CMP", WORD, 0, 1), Branch("Bcc", 0, "GE", 4),
                               Ins("MOVE", WORD, 0, 1), Ins("TST", WORD, 1, 1)>>
               /\ routine.name = "cas" => code = <<Ins("CAS", WORD, 0, 2)>>
  BY DEF Code

\* Trials in memory have other names.
Unrelated(k) == "name" \in DOMAIN k /\ k.name \notin Proved

LEMMA KindsUnrelated ==
    /\ \A k \in Kinds : Unrelated(k)
    /\ \A k \in Products \cup Chains : Unrelated(k)
    /\ \A k \in Transfers \cup Twice \cup Savings : Unrelated(k)
    /\ \A k \in Peripheral \cup Blocks \cup Frames : Unrelated(k)
    /\ \A k \in Deciding \cup Checking \cup Bounding : Unrelated(k)
    /\ \A k \in Swapping \cup TwoSwapping : Unrelated(k)
    /\ \A k \in Semaphores \cup Strings : Unrelated(k)
    /\ \A k \in MemoryFields : Unrelated(k)
<1>1. \A k \in Kinds : Unrelated(k)
  BY DEF Kinds, Unrelated, Proved, Numbers, InHalves, Comparing, Multiplying
<1>2. \A k \in Products \cup Chains : Unrelated(k)
  BY DEF Products, Chains, Unrelated, Proved, Numbers, InHalves, Comparing, Multiplying
<1>3. \A k \in Transfers \cup Twice \cup Savings : Unrelated(k)
  BY DEF Transfers, Twice, Savings, Unrelated, Proved, Numbers, InHalves, Comparing, Multiplying
<1>4. \A k \in Peripheral \cup Blocks \cup Frames : Unrelated(k)
  BY DEF Peripheral, Blocks, Frames, Unrelated, Proved, Numbers, InHalves, Comparing, Multiplying
<1>5. \A k \in Deciding \cup Checking \cup Bounding : Unrelated(k)
  BY DEF Deciding, Checking, Bounding, Unrelated, Proved, Numbers, InHalves, Comparing, Multiplying
<1>6. \A k \in Swapping \cup TwoSwapping : Unrelated(k)
  BY DEF Swapping, TwoSwapping, Unrelated, Proved, Numbers, InHalves, Comparing, Multiplying
<1>7. \A k \in Semaphores \cup Strings : Unrelated(k)
  BY DEF Semaphores, Strings, Unrelated, Proved, Numbers, InHalves, Comparing, Multiplying
<1>8. \A k \in MemoryFields : Unrelated(k)
  BY DEF MemoryFields, Unrelated, Proved, Numbers, InHalves, Comparing, Multiplying
<1> QED BY <1>1, <1>2, <1>3, <1>4, <1>5, <1>6, <1>7, <1>8

LEMMA TrialUnrelated ==
    ASSUME NEW k, Unrelated(k), NEW g, NEW operands, Begins(Trial(k, operands), g) \/ Begins(k, g)
    PROVE  routine.name \notin Proved
  BY DEF Trial, Unrelated, Begins

LEMMA OtherTrials ==
    OnOperands \/ OnBlocks \/ OnFrames \/ OnFields \/ OnDecisions => routine.name \notin Proved
<1>1. OnOperands => routine.name \notin Proved
  BY TrialUnrelated, KindsUnrelated DEF OnOperands
<1>2. OnBlocks => routine.name \notin Proved
  <2>1. ASSUME NEW way, NEW g, Begins([name |-> "address", way |-> way], g)
        PROVE  routine.name \notin Proved
    BY <2>1 DEF Begins, Proved, Numbers, InHalves, Comparing, Multiplying
  <2> QED BY <2>1, TrialUnrelated, KindsUnrelated DEF OnBlocks
<1>3. OnFrames => routine.name \notin Proved
  <2>1. ASSUME NEW w, NEW g, Begins([name |-> "own frame", w |-> w], g)
        PROVE  routine.name \notin Proved
    BY <2>1 DEF Begins, Proved, Numbers, InHalves, Comparing, Multiplying
  <2> QED BY <2>1, TrialUnrelated, KindsUnrelated DEF OnFrames
<1>4. OnFields => routine.name \notin Proved
  BY TrialUnrelated, KindsUnrelated DEF OnFields
<1>5. OnDecisions => routine.name \notin Proved
  <2>1. ASSUME NEW a, NEW b, NEW g, Begins([name |-> "overflow", a |-> a, b |-> b], g)
        PROVE  routine.name \notin Proved
    BY <2>1 DEF Begins, Proved, Numbers, InHalves, Comparing, Multiplying
  <2> QED BY <2>1, TrialUnrelated, KindsUnrelated DEF OnDecisions
<1> QED BY <1>1, <1>2, <1>3, <1>4, <1>5

\* Initial states of the routines on registers.
LEMMA RoutinesBegin ==
    ASSUME OnRegisters, routine.name \in Numbers \cup Comparing
    PROVE  Begun /\ pc = 1 /\ d = was.d /\ ccr = was.ccr
<1>1. PICK r \in Routines, x \in BOOLEAN, z \in BOOLEAN :
          /\ \E a \in Operands(r)[1], b \in Operands(r)[2],
                c \in Operands(r)[3], e \in Operands(r)[4] :
                 d = [i \in REG_D |-> <<a, b, c, e>>[i + 1]]
          /\ routine = r /\ code = Code(r) /\ pc = 1
          /\ ccr = [x |-> x, n |-> FALSE, z |-> z, v |-> FALSE, c |-> FALSE]
          /\ was = [d |-> d, ccr |-> ccr]
  BY DEF OnRegisters, Init
<1>2. PICK a \in Operands(r)[1], b \in Operands(r)[2],
           c \in Operands(r)[3], e \in Operands(r)[4] :
          d = [i \in REG_D |-> <<a, b, c, e>>[i + 1]]
  BY <1>1
<1>3. was.d = d /\ was.ccr = ccr /\ ccr \in Flags
  BY <1>1 DEF Flags
<1>4. d[0] = a /\ d[1] = b /\ d[2] = c /\ d[3] = e /\ DOMAIN d = REG_D /\ REG_D = {0, 1, 2, 3}
  BY <1>2 DEF REG_D
<1>5. Edge \subseteq Words /\ LongEdge \subseteq Longs /\ Zero \subseteq Words /\ Zero \subseteq Longs
  BY M68kAssumption, SizesAre DEF Words, Longs, Zero, HasSign
<1>6. Words \subseteq Int /\ Longs \subseteq Int /\ Packed \subseteq Int
  BY SizesAre DEF Words, Longs, HasSign, Packed
<1>7. code = Code(routine) /\ (a \in Int /\ b \in Int /\ c \in Int /\ e \in Int => d \in [REG_D -> Int])
  BY <1>1, <1>2, <1>4
<1>8. CASE r.name \in {"add", "sub"}
  <2>1. Operands(r) = <<Edge, Edge, Edge, Edge>>
    BY <1>8 DEF Operands
  <2>2. a \in Words /\ b \in Words /\ c \in Words /\ e \in Words
    BY <1>5, <2>1
  <2>3. d \in [REG_D -> Int] /\ \A i \in REG_D : d[i] \in Words
    BY <1>4, <1>6, <1>7, <2>2
  <2> QED BY <1>1, <1>3, <1>7, <1>8, <2>3 DEF Begun, InHalves, Comparing
<1>9. CASE r.name \in {"neg", "quick"}
  <2>1. Operands(r) = <<Zero, Zero, Words, Words>>
    BY <1>9 DEF Operands
  <2>2. a \in Words /\ b \in Words /\ c \in Words /\ e \in Words
    BY <1>5, <2>1
  <2>3. d \in [REG_D -> Int] /\ \A i \in REG_D : d[i] \in Words
    BY <1>4, <1>6, <1>7, <2>2
  <2>4. r.name = "quick" => r.op \in {"ADDQ", "SUBQ"} /\ r.q \in 0 .. 7
    BY <1>9 DEF Routines, Named
  <2> QED BY <1>1, <1>3, <1>7, <1>9, <2>3, <2>4 DEF Begun, InHalves, Comparing
<1>10. CASE r.name = "pointer"
  <2>1. Operands(r) = <<Words, LongEdge, Words, Zero>>
    BY <1>10 DEF Operands
  <2>2. a \in Words /\ b \in Longs /\ c \in Words /\ e \in Words
    BY <1>5, <2>1
  <2>3. d \in [REG_D -> Int]
    BY <1>6, <1>7, <2>2
  <2> QED BY <1>1, <1>3, <1>4, <1>7, <1>10, <2>2, <2>3 DEF Begun, InHalves, Comparing
<1>11. CASE r.name = "decimal"
  <2>1. Operands(r) = <<Packed, Packed, Zero, Zero>>
    BY <1>11 DEF Operands
  <2>2. a \in Packed /\ b \in Packed /\ c \in Words /\ e \in Words
    BY <1>5, <2>1
  <2>3. d \in [REG_D -> Int]
    BY <1>6, <1>7, <2>2
  <2>4. r.op \in {"ABCD", "SBCD", "NBCD"}
    BY <1>11 DEF Routines, Named
  <2> QED BY <1>1, <1>3, <1>4, <1>7, <1>11, <2>2, <2>3, <2>4 DEF Begun, InHalves, Comparing
<1>12. CASE r.name = "compare"
  <2>1. Operands(r) = <<IF r.op = "CMPA" THEN Words ELSE Edge,
                        IF r.op = "CMPA" THEN LongEdge ELSE Words, LongEdge, Zero>>
    BY <1>12 DEF Operands
  <2>2. /\ a \in Words /\ b \in (IF r.op = "CMPA" THEN Longs ELSE Words)
        /\ c \in Longs /\ e \in Words
    BY <1>5, <2>1
  <2>3. d \in [REG_D -> Int]
    BY <1>6, <1>7, <2>2
  <2>4. r.op \in {"CMP", "CMP_32", "CMPA"}
    BY <1>12 DEF Routines, Named
  <2> QED BY <1>1, <1>3, <1>4, <1>7, <1>12, <2>2, <2>3, <2>4 DEF Begun, InHalves, Comparing
<1>13. CASE r.name = "max"
  <2>1. Operands(r) = <<Words, Words, Zero, Zero>>
    BY <1>13 DEF Operands
  <2>2. a \in Words /\ b \in Words /\ c \in Words /\ e \in Words
    BY <1>5, <2>1
  <2>3. d \in [REG_D -> Int]
    BY <1>6, <1>7, <2>2
  <2> QED BY <1>1, <1>3, <1>4, <1>7, <1>13, <2>2, <2>3 DEF Begun, InHalves, Comparing
<1>14. CASE r.name = "cas"
  <2>1. Operands(r) = <<Words, Words, Words, Zero>>
    BY <1>14 DEF Operands
  <2>2. a \in Words /\ b \in Words /\ c \in Words /\ e \in Words
    BY <1>5, <2>1
  <2>3. d \in [REG_D -> Int]
    BY <1>6, <1>7, <2>2
  <2> QED BY <1>1, <1>3, <1>4, <1>7, <1>14, <2>2, <2>3 DEF Begun, InHalves, Comparing
<1> QED BY <1>1, <1>8, <1>9, <1>10, <1>11, <1>12, <1>13, <1>14
        DEF Numbers, InHalves, Comparing

\* Between two instructions: a lower half has been computed, and X is what it
\* lacks of the lower half of the result; or a pointer is half way.
Halfway ==
    /\ routine.name \in InHalves =>
           /\ d \in [REG_D -> Int] /\ d[2] \in Words /\ \A r \in {0, 1, 3} : d[r] = was.d[r]
           /\ ccr \in Flags /\ ccr.z = (d[2] = 0)
    /\ routine.name = "add" => was.d[0] + was.d[2] = d[2] + AsOne(ccr.x) * 2^WORD
    /\ routine.name = "sub" => was.d[2] - was.d[0] = d[2] - AsOne(ccr.x) * 2^WORD
    /\ routine.name = "neg" => 0 - was.d[2] = d[2] - AsOne(ccr.x) * 2^WORD
    /\ routine.name = "pointer" =>
           /\ d = [was.d EXCEPT ![1] = (was.d[1] + Signed(WORD, was.d[0])) % 2^LONG]
           /\ ccr = was.ccr

\* While a routine computes: its registers are those it began with, then those of
\* half a number.
NumberInv ==
    routine.name \in Numbers =>
        /\ Begun
        /\ pc \in 1 .. Len(code) + 1
        /\ pc = 1 => d = was.d /\ ccr = was.ccr
        /\ pc = 2 => Halfway
        /\ MultiPrecision

\* A result that is a word replaces a register that holds one.
LEMMA WordStored ==
    ASSUME NEW a, NEW r \in REG_D, d \in [REG_D -> Int], d[r] \in Words, a.res \in Words,
           Stores(WORD, r, a)
    PROVE  /\ d' = [d EXCEPT ![r] = a.res] /\ ccr' = a.ccr
           /\ d' \in [REG_D -> Int] /\ d'[r] = a.res /\ \A q \in REG_D \ {r} : d'[q] = d[q]
<1>1. Mask(WORD, d[r]) = d[r] /\ Mask(WORD, a.res) = a.res
  BY SignedIs, SizesAre DEF Words, Unsigned
<1>2. d[r] \in Int /\ a.res \in Int
  BY SizesAre DEF Words, HasSign
<1>3. Merged(WORD, r, a.res) = a.res
  BY <1>1, <1>2 DEF Merged, Operand
<1>4. d' = [d EXCEPT ![r] = a.res] /\ ccr' = a.ccr
  BY <1>3 DEF Stores
<1> QED BY <1>2, <1>4

LEMMA LowStored ==
    ASSUME NEW a, NEW u, NEW g, Correct(WORD, a, u, g), ZeroNew(a), Stores(WORD, 2, a),
           d \in [REG_D -> Int], d[2] \in Words
    PROVE  /\ d' \in [REG_D -> Int] /\ d'[2] = a.res /\ a.res \in Words
           /\ \A r \in {0, 1, 3} : d'[r] = d[r]
           /\ ccr' = a.ccr /\ ccr' \in Flags /\ ccr'.z = (d'[2] = 0)
<1>1. a.res \in Words /\ a.ccr \in Flags
  BY DEF Correct, Words, Unsigned
<1>2. /\ ccr' = a.ccr /\ d' \in [REG_D -> Int] /\ d'[2] = a.res
      /\ \A q \in REG_D \ {2} : d'[q] = d[q]
  BY <1>1, WordStored, 2 \in REG_D DEF REG_D
<1> QED BY <1>1, <1>2 DEF ZeroNew, REG_D

\* The first and the second instruction of each chain.
LEMMA AddLow ==
    ASSUME GuestNext, NumberInv, routine.name = "add", pc = 1
    PROVE  pc' = 2 /\ Halfway'
<1>1. Begun /\ d = was.d /\ ccr = was.ccr /\ ccr \in Flags /\ d \in [REG_D -> Int]
  BY DEF NumberInv, Numbers, InHalves, Begun
<1>2. \A r \in REG_D : d[r] \in Words /\ d[r] \in Unsigned(WORD) /\ d[r] \in Int
  BY <1>1, SizesAre DEF Begun, InHalves, Words, Unsigned, HasSign
<1>3. Here.op \in {"ADD", "ADD_32"} /\ Here.w = WORD /\ Here.s = 0 /\ Here.d = 2
  BY <1>1, Instructions DEF Begun, Here, Ins
<1>4. Operand(WORD, 0) = d[0] /\ Operand(WORD, 2) = d[2]
  BY <1>2, SignedIs, SizesAre DEF Operand, REG_D
<1> DEFINE u == d[0] + d[2]
           g == Signed(WORD, d[0]) + Signed(WORD, d[2])
<1>5. PICK a : Correct(WORD, a, u, g) /\ ZeroNew(a) /\ Stores(WORD, 2, a)
  <2> DEFINE a1 == ADD(WORD, ccr, d[0], d[2])
             a2 == ADD_32(WORD, ccr, d[0], d[2])
  <2>1. Stores(WORD, 2, a1) \/ Stores(WORD, 2, a2)
    BY <1>3, <1>4, FollowedSteps DEF Followed
  <2>2. \A a \in {a1, a2} : Correct(WORD, a, u, g) /\ ZeroNew(a)
    BY <1>1, <1>2, Additions, SizesAre DEF REG_D
  <2> HIDE DEF a1, a2, u, g
  <2> QED BY <2>1, <2>2
<1>6. u \in -(2^WORD) .. 2 * 2^WORD - 1 /\ u >= 0
  BY <1>2, SizesAre DEF Unsigned, HasSign, REG_D
<1>7. u = a.res + AsOne(a.ccr.x) * 2^WORD
  BY <1>5, <1>6, CarryIs, SizesAre
<1>8. pc' = 2 /\ UNCHANGED <<routine, code, was>>
  BY <1>3, FollowedSteps DEF Followed
<1>9. /\ d' \in [REG_D -> Int] /\ d'[2] = a.res /\ a.res \in Words
      /\ \A r \in {0, 1, 3} : d'[r] = d[r]
      /\ ccr' = a.ccr /\ ccr' \in Flags /\ ccr'.z = (d'[2] = 0)
  <2>1. d[2] \in Words
    BY <1>2 DEF REG_D
  <2> HIDE DEF u, g
  <2> QED BY <1>1, <1>5, <2>1, LowStored
<1> QED BY <1>1, <1>7, <1>8, <1>9 DEF Halfway, InHalves

LEMMA SubLow ==
    ASSUME GuestNext, NumberInv, routine.name = "sub", pc = 1
    PROVE  pc' = 2 /\ Halfway'
<1>1. Begun /\ d = was.d /\ ccr = was.ccr /\ ccr \in Flags /\ d \in [REG_D -> Int]
  BY DEF NumberInv, Numbers, InHalves, Begun
<1>2. \A r \in REG_D : d[r] \in Words /\ d[r] \in Unsigned(WORD) /\ d[r] \in Int
  BY <1>1, SizesAre DEF Begun, InHalves, Words, Unsigned, HasSign
<1>3. Here.op \in {"SUB", "SUB_32"} /\ Here.w = WORD /\ Here.s = 0 /\ Here.d = 2
  BY <1>1, Instructions DEF Begun, Here, Ins
<1>4. Operand(WORD, 0) = d[0] /\ Operand(WORD, 2) = d[2]
  BY <1>2, SignedIs, SizesAre DEF Operand, REG_D
<1> DEFINE u == d[2] - d[0]
           g == Signed(WORD, d[2]) - Signed(WORD, d[0])
<1>5. PICK a : Correct(WORD, a, u, g) /\ ZeroNew(a) /\ Stores(WORD, 2, a)
  <2> DEFINE a1 == SUB(WORD, ccr, d[0], d[2])
             a2 == SUB_32(WORD, ccr, d[0], d[2])
  <2>1. Stores(WORD, 2, a1) \/ Stores(WORD, 2, a2)
    BY <1>3, <1>4, FollowedSteps DEF Followed
  <2>2. \A a \in {a1, a2} : Correct(WORD, a, u, g) /\ ZeroNew(a)
    BY <1>1, <1>2, Subtractions, SizesAre DEF REG_D
  <2> HIDE DEF a1, a2, u, g
  <2> QED BY <2>1, <2>2
<1>6. u \in -(2^WORD) .. 2 * 2^WORD - 1 /\ u < 2^WORD
  BY <1>2, SizesAre DEF Unsigned, HasSign, REG_D
<1>7. u = a.res - AsOne(a.ccr.x) * 2^WORD
  BY <1>5, <1>6, CarryIs, SizesAre
<1>8. pc' = 2 /\ UNCHANGED <<routine, code, was>>
  BY <1>3, FollowedSteps DEF Followed
<1>9. /\ d' \in [REG_D -> Int] /\ d'[2] = a.res /\ a.res \in Words
      /\ \A r \in {0, 1, 3} : d'[r] = d[r]
      /\ ccr' = a.ccr /\ ccr' \in Flags /\ ccr'.z = (d'[2] = 0)
  <2>1. d[2] \in Words
    BY <1>2 DEF REG_D
  <2> HIDE DEF u, g
  <2> QED BY <1>1, <1>5, <2>1, LowStored
<1> QED BY <1>1, <1>7, <1>8, <1>9 DEF Halfway, InHalves

LEMMA NegLow ==
    ASSUME GuestNext, NumberInv, routine.name = "neg", pc = 1
    PROVE  pc' = 2 /\ Halfway'
<1>1. Begun /\ d = was.d /\ ccr = was.ccr /\ ccr \in Flags /\ d \in [REG_D -> Int]
  BY DEF NumberInv, Numbers, InHalves, Begun
<1>2. \A r \in REG_D : d[r] \in Words /\ d[r] \in Unsigned(WORD) /\ d[r] \in Int
  BY <1>1, SizesAre DEF Begun, InHalves, Words, Unsigned, HasSign
<1>3. Here.op \in {"NEG", "NEG_32"} /\ Here.w = WORD /\ Here.s = 0 /\ Here.d = 2
  BY <1>1, Instructions DEF Begun, Here, Ins
<1>4. Operand(WORD, 0) = d[0] /\ Operand(WORD, 2) = d[2]
  BY <1>2, SignedIs, SizesAre DEF Operand, REG_D
<1> DEFINE u == 0 - d[2]
           g == 0 - Signed(WORD, d[2])
<1>5. PICK a : Correct(WORD, a, u, g) /\ ZeroNew(a) /\ Stores(WORD, 2, a)
  <2> DEFINE a1 == NEG(WORD, ccr, d[0], d[2])
             a2 == NEG_32(WORD, ccr, d[0], d[2])
  <2>1. Stores(WORD, 2, a1) \/ Stores(WORD, 2, a2)
    BY <1>3, <1>4, FollowedSteps DEF Followed
  <2>2. \A a \in {a1, a2} : Correct(WORD, a, u, g) /\ ZeroNew(a)
    BY <1>1, <1>2, Negations, SizesAre DEF REG_D
  <2> HIDE DEF a1, a2, u, g
  <2> QED BY <2>1, <2>2
<1>6. u \in -(2^WORD) .. 2 * 2^WORD - 1 /\ u < 2^WORD
  BY <1>2, SizesAre DEF Unsigned, HasSign, REG_D
<1>7. u = a.res - AsOne(a.ccr.x) * 2^WORD
  BY <1>5, <1>6, CarryIs, SizesAre
<1>8. pc' = 2 /\ UNCHANGED <<routine, code, was>>
  BY <1>3, FollowedSteps DEF Followed
<1>9. /\ d' \in [REG_D -> Int] /\ d'[2] = a.res /\ a.res \in Words
      /\ \A r \in {0, 1, 3} : d'[r] = d[r]
      /\ ccr' = a.ccr /\ ccr' \in Flags /\ ccr'.z = (d'[2] = 0)
  <2>1. d[2] \in Words
    BY <1>2 DEF REG_D
  <2> HIDE DEF u, g
  <2> QED BY <1>1, <1>5, <2>1, LowStored
<1> QED BY <1>1, <1>7, <1>8, <1>9 DEF Halfway, InHalves

\* What the second instruction of a chain leaves in D3 completes a result.
LEMMA HighStored ==
    ASSUME NEW a, NEW hi \in Int, NEW g \in Int, Correct(WORD, a, hi, g), ZeroKept(ccr, a),
           Stores(WORD, 3, a), d \in [REG_D -> Int], d[2] \in Words, d[3] \in Words,
           ccr.z = (d[2] = 0)
    PROVE  ResultOf(LONG, ccr', Pair(d', 3, 2), hi * 2^WORD + d[2], g * 2^WORD + d[2])
<1>1. a.res \in Words /\ d[2] \in Unsigned(WORD)
  BY DEF Correct, Words, Unsigned
<1>2. ccr' = a.ccr /\ d'[3] = a.res /\ d'[2] = d[2]
  BY <1>1, WordStored, 3 \in REG_D DEF REG_D
<1>3. ResultOf(LONG, a.ccr, a.res * 2^WORD + d[2], hi * 2^WORD + d[2], g * 2^WORD + d[2])
  BY <1>1, BothHalves DEF ZeroKept
<1> QED BY <1>2, <1>3 DEF Pair

LEMMA AddHigh ==
    ASSUME GuestNext, NumberInv, routine.name = "add", pc = 2
    PROVE  pc' = 3 /\ MultiPrecision'
<1>1. /\ Begun /\ Halfway /\ d \in [REG_D -> Int] /\ ccr \in Flags /\ ccr.z = (d[2] = 0)
      /\ d[2] \in Words /\ d[0] = was.d[0] /\ d[1] = was.d[1] /\ d[3] = was.d[3]
  BY DEF NumberInv, Numbers, InHalves, Halfway
<1>2. \A r \in REG_D : was.d[r] \in Unsigned(WORD) /\ was.d[r] \in Int
  BY <1>1, SizesAre DEF Begun, InHalves, Words, Unsigned, HasSign
<1> DEFINE x == AsOne(ccr.x)
           M == 2^WORD
           D == was.d
           s1 == Signed(WORD, D[1])
           s3 == Signed(WORD, D[3])
           hi == D[1] + D[3] + x
           g == s1 + s3 + x
<1>3. /\ D[0] \in Unsigned(WORD) /\ D[1] \in Unsigned(WORD)
      /\ D[2] \in Unsigned(WORD) /\ D[3] \in Unsigned(WORD)
      /\ D[0] \in Int /\ D[1] \in Int /\ D[2] \in Int /\ D[3] \in Int /\ d[2] \in Int
      /\ x \in Int /\ M \in Int
  BY <1>1, <1>2, SizesAre DEF REG_D, AsOne, HasSign, Words
<1>4. s1 \in Int /\ s3 \in Int
  BY <1>3, SignedIs, SizesAre DEF InRange, HasSign
<1>5. Here.op \in {"ADDX", "ADDX_32"} /\ Here.w = WORD /\ Here.s = 1 /\ Here.d = 3
  BY <1>1, Instructions DEF Begun, Here, Ins
<1>6. Operand(WORD, 1) = D[1] /\ Operand(WORD, 3) = D[3]
  BY <1>1, <1>3, SignedIs, SizesAre DEF Operand
<1>7. PICK a : Correct(WORD, a, hi, g) /\ ZeroKept(ccr, a) /\ Stores(WORD, 3, a)
  <2> DEFINE a1 == ADDX(WORD, ccr, D[1], D[3])
             a2 == ADDX_32(WORD, ccr, D[1], D[3])
  <2>1. Stores(WORD, 3, a1) \/ Stores(WORD, 3, a2)
    BY <1>5, <1>6, FollowedSteps DEF Followed
  <2>2. \A a \in {a1, a2} : Correct(WORD, a, hi, g) /\ ZeroKept(ccr, a)
    BY <1>1, <1>3, Additions, SizesAre
  <2> HIDE DEF a1, a2, hi, g
  <2> QED BY <2>1, <2>2
<1>8. hi \in Int /\ g \in Int
  BY <1>3, <1>4
<1>9. ResultOf(LONG, ccr', Pair(d', 3, 2), hi * M + d[2], g * M + d[2])
  <2>1. d[3] \in Words
    BY <1>1, <1>3 DEF Unsigned, Words
  <2> HIDE DEF hi, g
  <2> QED BY <1>1, <1>7, <1>8, <2>1, HighStored
<1>10. D[0] + D[2] = d[2] + x * M
  BY <1>1 DEF Halfway
<1>15. Pair(D, 1, 0) + Pair(D, 3, 2) = hi * M + d[2]
  <2>1. Pair(D, 1, 0) = D[1] * M + D[0] /\ Pair(D, 3, 2) = D[3] * M + D[2]
    BY DEF Pair
  <2> HIDE DEF x, M, D
  <2>2. (D[1] + D[3] + x) * M = D[1] * M + D[3] * M + x * M
    BY <1>3, Z3
  <2> DEFINE p1 == D[1] * M
             p3 == D[3] * M
             px == x * M
             ph == hi * M
  <2>3. p1 \in Int /\ p3 \in Int /\ px \in Int /\ ph = p1 + p3 + px
    BY <1>3, <1>4, <2>2
  <2>4. D[0] + D[2] = d[2] + px
    BY <1>10
  <2>5. Pair(D, 1, 0) = p1 + D[0] /\ Pair(D, 3, 2) = p3 + D[2]
    BY <2>1
  <2> HIDE DEF p1, p3, px, ph, hi
  <2>6. Pair(D, 1, 0) + Pair(D, 3, 2) = ph + d[2]
    BY <1>3, <2>3, <2>4, <2>5
  <2> QED BY <2>6 DEF ph
<1>11. Signed(LONG, Pair(D, 1, 0)) + Signed(LONG, Pair(D, 3, 2)) = g * M + d[2]
  <2>1. Signed(LONG, Pair(D, 1, 0)) = s1 * M + D[0] /\ Signed(LONG, Pair(D, 3, 2)) = s3 * M + D[2]
    BY <1>3, PairIs DEF Pair
  <2> HIDE DEF x, M, D, s1, s3
  <2>2. (s1 + s3 + x) * M = s1 * M + s3 * M + x * M
    BY <1>3, <1>4, Z3
  <2> DEFINE p1 == s1 * M
             p3 == s3 * M
             px == x * M
             ph == g * M
  <2>3. p1 \in Int /\ p3 \in Int /\ px \in Int /\ ph = p1 + p3 + px
    BY <1>3, <1>4, <2>2
  <2>4. D[0] + D[2] = d[2] + px
    BY <1>10
  <2>5. Signed(LONG, Pair(D, 1, 0)) = p1 + D[0] /\ Signed(LONG, Pair(D, 3, 2)) = p3 + D[2]
    BY <2>1
  <2> HIDE DEF p1, p3, px, ph, g
  <2>6. Signed(LONG, Pair(D, 1, 0)) + Signed(LONG, Pair(D, 3, 2)) = ph + d[2]
    BY <1>3, <2>3, <2>4, <2>5
  <2> QED BY <2>6 DEF ph
<1>12. ResultOf(LONG, ccr', Pair(d', 3, 2), Pair(D, 1, 0) + Pair(D, 3, 2),
               Signed(LONG, Pair(D, 1, 0)) + Signed(LONG, Pair(D, 3, 2)))
  <2> HIDE DEF hi, g, M, D
  <2> QED BY <1>9, <1>15, <1>11
<1>13. pc' = 3 /\ UNCHANGED <<routine, code, was>>
  BY <1>5, FollowedSteps DEF Followed
<1>14. IsResult(LONG, Pair(d, 3, 2), Pair(was.d, 1, 0) + Pair(was.d, 3, 2),
               Signed(LONG, Pair(was.d, 1, 0)) + Signed(LONG, Pair(was.d, 3, 2)))'
  <2> HIDE DEF hi, g
  <2> QED BY <1>12, <1>13 DEF ResultOf, IsResult, InRange, Unsigned, Pair
<1> QED BY <1>13, <1>14 DEF MultiPrecision, Ends

LEMMA SubHigh ==
    ASSUME GuestNext, NumberInv, routine.name = "sub", pc = 2
    PROVE  pc' = 3 /\ MultiPrecision'
<1>1. /\ Begun /\ Halfway /\ d \in [REG_D -> Int] /\ ccr \in Flags /\ ccr.z = (d[2] = 0)
      /\ d[2] \in Words /\ d[0] = was.d[0] /\ d[1] = was.d[1] /\ d[3] = was.d[3]
  BY DEF NumberInv, Numbers, InHalves, Halfway
<1>2. \A r \in REG_D : was.d[r] \in Unsigned(WORD) /\ was.d[r] \in Int
  BY <1>1, SizesAre DEF Begun, InHalves, Words, Unsigned, HasSign
<1> DEFINE x == AsOne(ccr.x)
           M == 2^WORD
           D == was.d
           s1 == Signed(WORD, D[1])
           s3 == Signed(WORD, D[3])
           hi == D[3] - D[1] - x
           g == s3 - s1 - x
<1>3. /\ D[0] \in Unsigned(WORD) /\ D[1] \in Unsigned(WORD)
      /\ D[2] \in Unsigned(WORD) /\ D[3] \in Unsigned(WORD)
      /\ D[0] \in Int /\ D[1] \in Int /\ D[2] \in Int /\ D[3] \in Int /\ d[2] \in Int
      /\ x \in Int /\ M \in Int
  BY <1>1, <1>2, SizesAre DEF REG_D, AsOne, HasSign, Words
<1>4. s1 \in Int /\ s3 \in Int
  BY <1>3, SignedIs, SizesAre DEF InRange, HasSign
<1>5. Here.op \in {"SUBX", "SUBX_32"} /\ Here.w = WORD /\ Here.s = 1 /\ Here.d = 3
  BY <1>1, Instructions DEF Begun, Here, Ins
<1>6. Operand(WORD, 1) = D[1] /\ Operand(WORD, 3) = D[3]
  BY <1>1, <1>3, SignedIs, SizesAre DEF Operand
<1>7. PICK a : Correct(WORD, a, hi, g) /\ ZeroKept(ccr, a) /\ Stores(WORD, 3, a)
  <2> DEFINE a1 == SUBX(WORD, ccr, D[1], D[3])
             a2 == SUBX_32(WORD, ccr, D[1], D[3])
  <2>1. Stores(WORD, 3, a1) \/ Stores(WORD, 3, a2)
    BY <1>5, <1>6, FollowedSteps DEF Followed
  <2>2. \A a \in {a1, a2} : Correct(WORD, a, hi, g) /\ ZeroKept(ccr, a)
    BY <1>1, <1>3, Subtractions, SizesAre
  <2> HIDE DEF a1, a2, hi, g
  <2> QED BY <2>1, <2>2
<1>8. hi \in Int /\ g \in Int
  BY <1>3, <1>4
<1>9. ResultOf(LONG, ccr', Pair(d', 3, 2), hi * M + d[2], g * M + d[2])
  <2>1. d[3] \in Words
    BY <1>1, <1>3 DEF Unsigned, Words
  <2> HIDE DEF hi, g
  <2> QED BY <1>1, <1>7, <1>8, <2>1, HighStored
<1>10. D[2] - D[0] = d[2] - x * M
  BY <1>1 DEF Halfway
<1>15. Pair(D, 3, 2) - Pair(D, 1, 0) = hi * M + d[2]
  <2>1. Pair(D, 1, 0) = D[1] * M + D[0] /\ Pair(D, 3, 2) = D[3] * M + D[2]
    BY DEF Pair
  <2> HIDE DEF x, M, D
  <2>2. (D[3] - D[1] - x) * M = D[3] * M - D[1] * M - x * M
    BY <1>3, Z3
  <2> DEFINE p1 == D[1] * M
             p3 == D[3] * M
             px == x * M
             ph == hi * M
  <2>3. p1 \in Int /\ p3 \in Int /\ px \in Int /\ ph = p3 - p1 - px
    BY <1>3, <1>4, <2>2
  <2>4. D[2] - D[0] = d[2] - px
    BY <1>10
  <2>5. Pair(D, 1, 0) = p1 + D[0] /\ Pair(D, 3, 2) = p3 + D[2]
    BY <2>1
  <2> HIDE DEF p1, p3, px, ph, hi
  <2>6. Pair(D, 3, 2) - Pair(D, 1, 0) = ph + d[2]
    BY <1>3, <2>3, <2>4, <2>5
  <2> QED BY <2>6 DEF ph
<1>11. Signed(LONG, Pair(D, 3, 2)) - Signed(LONG, Pair(D, 1, 0)) = g * M + d[2]
  <2>1. Signed(LONG, Pair(D, 1, 0)) = s1 * M + D[0] /\ Signed(LONG, Pair(D, 3, 2)) = s3 * M + D[2]
    BY <1>3, PairIs DEF Pair
  <2> HIDE DEF x, M, D, s1, s3
  <2>2. (s3 - s1 - x) * M = s3 * M - s1 * M - x * M
    BY <1>3, <1>4, Z3
  <2> DEFINE p1 == s1 * M
             p3 == s3 * M
             px == x * M
             ph == g * M
  <2>3. p1 \in Int /\ p3 \in Int /\ px \in Int /\ ph = p3 - p1 - px
    BY <1>3, <1>4, <2>2
  <2>4. D[2] - D[0] = d[2] - px
    BY <1>10
  <2>5. Signed(LONG, Pair(D, 1, 0)) = p1 + D[0] /\ Signed(LONG, Pair(D, 3, 2)) = p3 + D[2]
    BY <2>1
  <2> HIDE DEF p1, p3, px, ph, g
  <2>6. Signed(LONG, Pair(D, 3, 2)) - Signed(LONG, Pair(D, 1, 0)) = ph + d[2]
    BY <1>3, <2>3, <2>4, <2>5
  <2> QED BY <2>6 DEF ph
<1>12. ResultOf(LONG, ccr', Pair(d', 3, 2), Pair(D, 3, 2) - Pair(D, 1, 0),
               Signed(LONG, Pair(D, 3, 2)) - Signed(LONG, Pair(D, 1, 0)))
  <2> HIDE DEF hi, g, M, D
  <2> QED BY <1>9, <1>15, <1>11
<1>13. pc' = 3 /\ UNCHANGED <<routine, code, was>>
  BY <1>5, FollowedSteps DEF Followed
<1>14. IsResult(LONG, Pair(d, 3, 2), Pair(was.d, 3, 2) - Pair(was.d, 1, 0),
               Signed(LONG, Pair(was.d, 3, 2)) - Signed(LONG, Pair(was.d, 1, 0)))'
  <2> HIDE DEF hi, g
  <2> QED BY <1>12, <1>13 DEF ResultOf, IsResult, InRange, Unsigned, Pair
<1> QED BY <1>13, <1>14 DEF MultiPrecision, Ends

LEMMA NegHigh ==
    ASSUME GuestNext, NumberInv, routine.name = "neg", pc = 2
    PROVE  pc' = 3 /\ MultiPrecision'
<1>1. /\ Begun /\ Halfway /\ d \in [REG_D -> Int] /\ ccr \in Flags /\ ccr.z = (d[2] = 0)
      /\ d[2] \in Words /\ d[0] = was.d[0] /\ d[1] = was.d[1] /\ d[3] = was.d[3]
  BY DEF NumberInv, Numbers, InHalves, Halfway
<1>2. \A r \in REG_D : was.d[r] \in Unsigned(WORD) /\ was.d[r] \in Int
  BY <1>1, SizesAre DEF Begun, InHalves, Words, Unsigned, HasSign
<1> DEFINE x == AsOne(ccr.x)
           M == 2^WORD
           D == was.d
           s1 == Signed(WORD, D[1])
           s3 == Signed(WORD, D[3])
           hi == 0 - D[3] - x
           g == 0 - s3 - x
<1>3. /\ D[0] \in Unsigned(WORD) /\ D[1] \in Unsigned(WORD)
      /\ D[2] \in Unsigned(WORD) /\ D[3] \in Unsigned(WORD)
      /\ D[0] \in Int /\ D[1] \in Int /\ D[2] \in Int /\ D[3] \in Int /\ d[2] \in Int
      /\ x \in Int /\ M \in Int
  BY <1>1, <1>2, SizesAre DEF REG_D, AsOne, HasSign, Words
<1>4. s1 \in Int /\ s3 \in Int
  BY <1>3, SignedIs, SizesAre DEF InRange, HasSign
<1>5. Here.op \in {"NEGX", "NEGX_32"} /\ Here.w = WORD /\ Here.s = 0 /\ Here.d = 3
  BY <1>1, Instructions DEF Begun, Here, Ins
<1>6. Operand(WORD, 0) = D[0] /\ Operand(WORD, 3) = D[3]
  BY <1>1, <1>3, SignedIs, SizesAre DEF Operand
<1>7. PICK a : Correct(WORD, a, hi, g) /\ ZeroKept(ccr, a) /\ Stores(WORD, 3, a)
  <2> DEFINE a1 == NEGX(WORD, ccr, D[0], D[3])
             a2 == NEGX_32(WORD, ccr, D[0], D[3])
  <2>1. Stores(WORD, 3, a1) \/ Stores(WORD, 3, a2)
    BY <1>5, <1>6, FollowedSteps DEF Followed
  <2>2. \A a \in {a1, a2} : Correct(WORD, a, hi, g) /\ ZeroKept(ccr, a)
    BY <1>1, <1>3, Negations, SizesAre
  <2> HIDE DEF a1, a2, hi, g
  <2> QED BY <2>1, <2>2
<1>8. hi \in Int /\ g \in Int
  BY <1>3, <1>4
<1>9. ResultOf(LONG, ccr', Pair(d', 3, 2), hi * M + d[2], g * M + d[2])
  <2>1. d[3] \in Words
    BY <1>1, <1>3 DEF Unsigned, Words
  <2> HIDE DEF hi, g
  <2> QED BY <1>1, <1>7, <1>8, <2>1, HighStored
<1>10. 0 - D[2] = d[2] - x * M
  BY <1>1 DEF Halfway
<1>15. -Pair(D, 3, 2) = hi * M + d[2]
  <2>1. Pair(D, 1, 0) = D[1] * M + D[0] /\ Pair(D, 3, 2) = D[3] * M + D[2]
    BY DEF Pair
  <2> HIDE DEF x, M, D
  <2>2. (0 - D[3] - x) * M = 0 - D[3] * M - x * M
    BY <1>3, Z3
  <2> DEFINE p1 == D[1] * M
             p3 == D[3] * M
             px == x * M
             ph == hi * M
  <2>3. p1 \in Int /\ p3 \in Int /\ px \in Int /\ ph = 0 - p3 - px
    BY <1>3, <1>4, <2>2
  <2>4. 0 - D[2] = d[2] - px
    BY <1>10
  <2>5. Pair(D, 1, 0) = p1 + D[0] /\ Pair(D, 3, 2) = p3 + D[2]
    BY <2>1
  <2> HIDE DEF p1, p3, px, ph, hi
  <2>6. -Pair(D, 3, 2) = ph + d[2]
    BY <1>3, <2>3, <2>4, <2>5
  <2> QED BY <2>6 DEF ph
<1>11. -Signed(LONG, Pair(D, 3, 2)) = g * M + d[2]
  <2>1. Signed(LONG, Pair(D, 1, 0)) = s1 * M + D[0] /\ Signed(LONG, Pair(D, 3, 2)) = s3 * M + D[2]
    BY <1>3, PairIs DEF Pair
  <2> HIDE DEF x, M, D, s1, s3
  <2>2. (0 - s3 - x) * M = 0 - s3 * M - x * M
    BY <1>3, <1>4, Z3
  <2> DEFINE p1 == s1 * M
             p3 == s3 * M
             px == x * M
             ph == g * M
  <2>3. p1 \in Int /\ p3 \in Int /\ px \in Int /\ ph = 0 - p3 - px
    BY <1>3, <1>4, <2>2
  <2>4. 0 - D[2] = d[2] - px
    BY <1>10
  <2>5. Signed(LONG, Pair(D, 1, 0)) = p1 + D[0] /\ Signed(LONG, Pair(D, 3, 2)) = p3 + D[2]
    BY <2>1
  <2> HIDE DEF p1, p3, px, ph, g
  <2>6. -Signed(LONG, Pair(D, 3, 2)) = ph + d[2]
    BY <1>3, <2>3, <2>4, <2>5
  <2> QED BY <2>6 DEF ph
<1>12. ResultOf(LONG, ccr', Pair(d', 3, 2), -Pair(D, 3, 2), -Signed(LONG, Pair(D, 3, 2)))
  <2> HIDE DEF hi, g, M, D
  <2> QED BY <1>9, <1>15, <1>11
<1>13. pc' = 3 /\ UNCHANGED <<routine, code, was>>
  BY <1>5, FollowedSteps DEF Followed
<1>14. IsResult(LONG, Pair(d, 3, 2), -Pair(was.d, 3, 2), -Signed(LONG, Pair(was.d, 3, 2)))'
  <2> HIDE DEF hi, g
  <2> QED BY <1>12, <1>13 DEF ResultOf, IsResult, InRange, Unsigned, Pair
<1> QED BY <1>13, <1>14 DEF MultiPrecision, Ends

-----------------------------------------------------------------------------
(* Quick operands, address registers and decimals                          *)

LEMMA QuickIs ==
    ASSUME NEW q \in 0 .. 7
    PROVE  /\ Quick(q) = IF q = 0 THEN 8 ELSE q
           /\ Quick(q) \in Unsigned(WORD)
<1>1. Quick(q) = IF q = 0 THEN 8 ELSE q
  BY DEF Quick
<1>2. 2^WORD >= 16 /\ 2^WORD \in Int
  BY PowersAre, SizesAre DEF HasSign
<1> QED BY <1>1, <1>2 DEF Unsigned

LEMMA QuickStep ==
    ASSUME GuestNext, NumberInv, routine.name = "quick", pc = 1
    PROVE  pc' = 2 /\ Halfway' /\ MultiPrecision'
<1>1. Begun /\ d = was.d /\ ccr = was.ccr /\ ccr \in Flags /\ d \in [REG_D -> Int]
  BY DEF NumberInv, Numbers, InHalves, Begun
<1>2. d[2] \in Words /\ d[2] \in Unsigned(WORD) /\ d[2] \in Int
  BY <1>1, SizesAre DEF Begun, REG_D, Words, Unsigned, HasSign
<1>3. /\ Here.op \in {"ADDQ", "SUBQ"} /\ Here.op = routine.op /\ Here.w = WORD /\ Here.d = 2
      /\ Here.q = routine.q /\ routine.q \in 0 .. 7
  BY <1>1, Instructions DEF Begun, Here
<1>4. Operand(WORD, 2) = d[2]
  BY <1>2, SignedIs, SizesAre DEF Operand
<1>5. pc' = 2 /\ UNCHANGED <<routine, code, was>>
  BY <1>3, FollowedSteps DEF Followed
<1>6. Halfway'
  BY <1>5 DEF Halfway, InHalves
<1> DEFINE q == IF routine.q = 0 THEN 8 ELSE routine.q
           b == was.d[2]
           S == Signed(WORD, b)
           Q == Signed(WORD, q)
<1>7. q \in Unsigned(WORD) /\ Quick(routine.q) = q /\ q \in Int /\ S \in Int /\ Q \in Int
  BY <1>1, <1>2, <1>3, QuickIs, SignedIs, SizesAre DEF InRange, HasSign
<1>8. ASSUME NEW a, NEW u, NEW g, Correct(WORD, a, u, g), ZeroNew(a), Stores(WORD, 2, a)
      PROVE  ResultOf(WORD, ccr', d'[2], u, g)
  <2>1. d'[2] = a.res /\ ccr' = a.ccr /\ ccr'.z = (d'[2] = 0)
    BY <1>1, <1>2, <1>8, LowStored
  <2> QED BY <1>8, <2>1 DEF Correct, ResultOf
<1>9. CASE routine.op = "ADDQ"
  <2> DEFINE a == ADD(WORD, ccr, q, d[2])
  <2>1. Stores(WORD, 2, a)
    BY <1>3, <1>4, <1>7, <1>9, FollowedSteps DEF Followed, ADDQ
  <2>2. Correct(WORD, a, q + b, Q + S) /\ ZeroNew(a)
    BY <1>1, <1>2, <1>7, Additions, SizesAre
  <2>3. ResultOf(WORD, ccr', d'[2], q + b, Q + S)
    <3> HIDE DEF a, q, S, Q
    <3> QED BY <1>8, <2>1, <2>2
  <2>4. q + b = b + q /\ Q + S = S + Q
    <3> HIDE DEF q, S, Q
    <3> QED BY <1>1, <1>2, <1>7
  <2>5. ResultOf(WORD, ccr', d'[2], b + q, S + Q)
    BY <2>3, <2>4
  <2>6. IsResult(WORD, d[2], was.d[2] + q, S + Q)'
    BY <1>5, <2>5 DEF ResultOf, IsResult, InRange, Unsigned
  <2> QED BY <1>5, <1>6, <1>9, <2>6 DEF MultiPrecision, Ends, Start
<1>10. CASE routine.op = "SUBQ"
  <2> DEFINE a == SUB(WORD, ccr, q, d[2])
  <2>1. Stores(WORD, 2, a)
    BY <1>3, <1>4, <1>7, <1>10, FollowedSteps DEF Followed, SUBQ
  <2>2. Correct(WORD, a, b - q, S - Q) /\ ZeroNew(a)
    BY <1>1, <1>2, <1>7, Subtractions, SizesAre
  <2>3. ResultOf(WORD, ccr', d'[2], b - q, S - Q)
    <3> HIDE DEF a, q, S, Q
    <3> QED BY <1>8, <2>1, <2>2
  <2>4. IsResult(WORD, d[2], was.d[2] - q, S - Q)'
    BY <1>5, <2>3 DEF ResultOf, IsResult, InRange, Unsigned
  <2> QED BY <1>5, <1>6, <1>10, <2>4 DEF MultiPrecision, Ends, Start
<1> QED BY <1>3, <1>9, <1>10

-----------------------------------------------------------------------------

\* A result that is a long replaces a register that holds one.
LEMMA LongStored ==
    ASSUME NEW a, NEW r \in REG_D, d \in [REG_D -> Int], d[r] \in Longs, a.res \in Longs,
           Stores(LONG, r, a)
    PROVE  d' = [d EXCEPT ![r] = a.res] /\ ccr' = a.ccr
<1>1. Mask(LONG, d[r]) = d[r] /\ Mask(LONG, a.res) = a.res
  BY SignedIs, SizesAre DEF Longs, Unsigned
<1>2. d[r] \in Int /\ a.res \in Int
  BY SizesAre DEF Longs, HasSign
<1>3. Merged(LONG, r, a.res) = a.res
  BY <1>1, <1>2 DEF Merged, Operand
<1> QED BY <1>3 DEF Stores

LEMMA PointerLow ==
    ASSUME GuestNext, NumberInv, routine.name = "pointer", pc = 1
    PROVE  pc' = 2 /\ Halfway'
<1>1. /\ Begun /\ d = was.d /\ ccr = was.ccr /\ d \in [REG_D -> Int]
      /\ d[0] \in Words /\ d[1] \in Longs
  BY DEF NumberInv, Numbers, Begun
<1>2. Here.op = "ADDA" /\ Here.s = 0 /\ Here.d = 1
  BY <1>1, Instructions DEF Begun, Here, Ins
<1>3. Operand(WORD, 0) = d[0]
  BY <1>1, SignedIs, SizesAre DEF Operand, Words, Unsigned
<1> DEFINE a == ADDA(WORD, LONG, ccr, d[0], d[1])
           S == Signed(WORD, d[0])
<1>4. Stores(LONG, 1, a) /\ pc' = 2 /\ UNCHANGED <<routine, code, was>>
  BY <1>2, <1>3, FollowedSteps DEF Followed
<1>5. a.res = (d[1] + S) % 2^LONG /\ a.ccr = ccr
  BY DEF ADDA, Mask
<1>6. S \in Int /\ d[1] \in Int
  BY <1>1, SignedIs, SizesAre DEF Words, Unsigned, InRange, HasSign, REG_D
<1>7. a.res \in Longs
  <2> HIDE DEF S
  <2>1. d[1] + S \in Int /\ 2^LONG \in Nat \ {0}
    BY <1>6, SizesAre DEF HasSign
  <2> QED BY <1>5, <2>1, MaskTwice DEF Longs
<1>8. d' = [d EXCEPT ![1] = a.res] /\ ccr' = ccr
  <2> HIDE DEF a
  <2> QED BY <1>1, <1>4, <1>5, <1>7, LongStored, 1 \in REG_D DEF REG_D
<1> QED BY <1>1, <1>4, <1>5, <1>8 DEF Halfway, InHalves

LEMMA PointerHigh ==
    ASSUME GuestNext, NumberInv, routine.name = "pointer", pc = 2
    PROVE  pc' = 3 /\ MultiPrecision'
<1> DEFINE s0 == Signed(WORD, was.d[0])
           s2 == Signed(WORD, was.d[2])
           u == was.d[1] + s0
           L == 2^LONG
<1>1. /\ Begun /\ d = [was.d EXCEPT ![1] = u % L] /\ ccr = was.ccr /\ was.d \in [REG_D -> Int]
      /\ was.d[0] \in Words /\ was.d[1] \in Longs /\ was.d[2] \in Words
  BY DEF NumberInv, Numbers, Begun, Halfway
<1>2. Here.op = "SUBA" /\ Here.s = 2 /\ Here.d = 1
  BY <1>1, Instructions DEF Begun, Here, Ins
<1>3. s0 \in Int /\ s2 \in Int /\ was.d[1] \in Int /\ u \in Int /\ L \in Nat \ {0}
  BY <1>1, SignedIs, SizesAre DEF Words, Unsigned, InRange, HasSign, REG_D
<1>4. d[1] = u % L /\ d[2] = was.d[2] /\ u % L \in Longs /\ d \in [REG_D -> Int]
  <2>1. u % L \in 0 .. L - 1 /\ u % L \in Int
    <3> HIDE DEF u, L
    <3> QED BY <1>3, MaskTwice
  <2> HIDE DEF u
  <2> QED BY <1>1, <2>1 DEF Longs, REG_D
<1>5. Operand(WORD, 2) = was.d[2]
  BY <1>1, <1>4, SignedIs, SizesAre DEF Operand, Words, Unsigned
<1> DEFINE a == SUBA(WORD, LONG, ccr, was.d[2], d[1])
<1>6. Stores(LONG, 1, a) /\ pc' = 3 /\ UNCHANGED <<routine, code, was>>
  BY <1>2, <1>5, FollowedSteps DEF Followed
<1>7. a.res = (d[1] - s2) % L /\ a.ccr = ccr
  BY DEF SUBA, Mask
<1>8. a.res = (u - s2) % L /\ a.res \in Longs
  <2>1. ((u % L) - s2) % L = (u - s2) % L
    <3> HIDE DEF u, L, s2
    <3> QED BY <1>3, MaskTwice
  <2>2. (u - s2) % L \in 0 .. L - 1
    <3> DEFINE n == u - s2
    <3>1. n \in Int
      BY <1>3
    <3> HIDE DEF n, L
    <3>2. n % L \in 0 .. L - 1
      BY <1>3, <3>1, MaskTwice
    <3> QED BY <3>2 DEF n
  <2> QED BY <1>4, <1>7, <2>1, <2>2 DEF Longs
<1>9. d'[1] = a.res /\ ccr' = ccr
  <2> HIDE DEF a
  <2> QED BY <1>4, <1>6, <1>7, <1>8, LongStored, 1 \in REG_D DEF REG_D
<1>10. d'[1] = (was.d[1] + s0 - s2) % 2^LONG /\ ccr' = was.ccr
  <2>1. u - s2 = was.d[1] + s0 - s2
    <3> DEFINE b == was.d[1]
    <3> HIDE DEF s0, s2, b
    <3>1. (b + s0) - s2 = b + s0 - s2
      BY <1>3 DEF b
    <3> QED BY <3>1 DEF b
  <2> QED BY <1>1, <1>8, <1>9, <2>1
<1> QED BY <1>6, <1>10 DEF MultiPrecision, Ends, Start

-----------------------------------------------------------------------------

\* The two digits of a byte.
Decimals(n) == 10 * (n \div 16) + (n % 16)

LEMMA DigitsOf ==
    ASSUME NEW t \in 0 .. 9, NEW u \in 0 .. 9, NEW n, n = 16 * t + u
    PROVE  /\ n \in 0 .. 153 /\ n \in Packed
           /\ Decimals(n) = 10 * t + u
           /\ Mask(8, n) = n /\ LowNibble(n) = u /\ HighNibble(n) = 16 * t
<1>1. n \in 0 .. 153 /\ n % 16 = u /\ n \div 16 = t /\ n % 256 = n
  OBVIOUS
<1>2. Mask(8, n) = n
  BY <1>1, PowersAre DEF Mask
<1> QED BY <1>1, <1>2 DEF Packed, Decimals, LowNibble, HighNibble

\* The byte and the carry that are the sum or difference r.
IsDecimal(a, f, r) ==
    /\ a.res \in Packed /\ Decimals(a.res) = r % 100
    /\ a.ccr.c = (r \notin 0 .. 99) /\ a.ccr.x = a.ccr.c /\ a.ccr.z = (f.z /\ r % 100 = 0)

\* Two digits and a carry, found in whatever way, are that byte.
LEMMA DecimalIs ==
    ASSUME NEW t \in 0 .. 9, NEW u \in 0 .. 9, NEW n, n = 16 * t + u, NEW f \in Flags,
           NEW c \in BOOLEAN, NEW r, r % 100 = 10 * t + u, c = (r \notin 0 .. 99)
    PROVE  IsDecimal(Decimal(f, n, c), f, r)
<1>1. Mask(8, n) = n /\ n \in Packed /\ Decimals(n) = r % 100 /\ (n = 0) = (r % 100 = 0)
  BY DigitsOf
<1> QED BY <1>1 DEF IsDecimal, Decimal, Flags

\* ABCD, SBCD and NBCD find the digits of the sum, difference and complement.
LEMMA DecimalAddition ==
    ASSUME NEW f \in Flags, NEW a \in Packed, NEW b \in Packed
    PROVE  IsDecimal(ABCD(f, a, b), f, Decimals(b) + Decimals(a) + AsOne(f.x))
<1>1. PICK ta \in 0 .. 9, ua \in 0 .. 9, tb \in 0 .. 9, ub \in 0 .. 9 :
          a = 16 * ta + ua /\ b = 16 * tb + ub
  BY DEF Packed
<1>2. /\ Decimals(a) = 10 * ta + ua /\ Decimals(b) = 10 * tb + ub
      /\ LowNibble(a) = ua /\ LowNibble(b) = ub
      /\ HighNibble(a) = 16 * ta /\ HighNibble(b) = 16 * tb
  BY <1>1, DigitsOf
<1> DEFINE x == AsOne(f.x)
           low == ua + ub + x
           n == (IF low > 9 THEN low + 6 ELSE low) + 16 * ta + 16 * tb
           c == n > 153
           m == IF n > 153 THEN n - 160 ELSE n
           r == (10 * tb + ub) + (10 * ta + ua) + x
           k == IF low > 9 THEN 1 ELSE 0
           t == IF ta + tb + k > 9 THEN ta + tb + k - 10 ELSE ta + tb + k
           u == IF low > 9 THEN low - 10 ELSE low
<1>3. x \in {0, 1}
  BY DEF AsOne
<1>4. ABCD(f, a, b) = Decimal(f, m, c) /\ Decimals(b) + Decimals(a) + x = r
  BY <1>2 DEF ABCD
<1> HIDE DEF x
<1>5. t \in 0 .. 9 /\ u \in 0 .. 9 /\ m = 16 * t + u /\ c = (r \notin 0 .. 99)
      /\ (r = 10 * t + u \/ r = (10 * t + u) + 100) /\ c \in BOOLEAN
  BY <1>3
<1> HIDE DEF t, u, m, c, n, r, low, k
<1>6. r % 100 = 10 * t + u
  <2> DEFINE e == 10 * t + u
  <2>1. e \in 0 .. 99 /\ (r = e \/ r = e + 100)
    BY <1>5
  <2> HIDE DEF e
  <2>2. r % 100 = e
    BY <2>1
  <2> QED BY <2>2 DEF e
<1>7. IsDecimal(Decimal(f, m, c), f, r)
  BY <1>5, <1>6, DecimalIs, ZenonT(60)
<1> QED BY <1>4, <1>7 DEF x

LEMMA DecimalSubtraction ==
    ASSUME NEW f \in Flags, NEW a \in Packed, NEW b \in Packed
    PROVE  IsDecimal(SBCD(f, a, b), f, Decimals(b) - Decimals(a) - AsOne(f.x))
<1>1. PICK ta \in 0 .. 9, ua \in 0 .. 9, tb \in 0 .. 9, ub \in 0 .. 9 :
          a = 16 * ta + ua /\ b = 16 * tb + ub
  BY DEF Packed
<1>2. /\ Decimals(a) = 10 * ta + ua /\ Decimals(b) = 10 * tb + ub
      /\ LowNibble(a) = ua /\ LowNibble(b) = ub
      /\ HighNibble(a) = 16 * ta /\ HighNibble(b) = 16 * tb
  BY <1>1, DigitsOf
<1> DEFINE x == AsOne(f.x)
           low == ub - ua - x
           n == (IF Exceeds(low, 9) THEN low - 6 ELSE low) + 16 * tb - 16 * ta
           c == Exceeds(n, 153)
           m == IF Exceeds(n, 153) THEN n + 160 ELSE n
           r == (10 * tb + ub) - (10 * ta + ua) - x
           k == IF low < 0 THEN 1 ELSE 0
           t == IF tb - ta - k < 0 THEN (tb - ta - k) + 10 ELSE tb - ta - k
           u == IF low < 0 THEN low + 10 ELSE low
<1>3. x \in {0, 1}
  BY DEF AsOne
<1>4. SBCD(f, a, b) = Decimal(f, m, c) /\ Decimals(b) - Decimals(a) - x = r
  BY <1>2 DEF SBCD
<1> HIDE DEF x
<1>5. /\ t \in 0 .. 9 /\ u \in 0 .. 9 /\ m = 16 * t + u /\ c = (r \notin 0 .. 99)
      /\ (r = 10 * t + u \/ r = (10 * t + u) - 100) /\ c \in BOOLEAN
  BY <1>3 DEF Exceeds
<1> HIDE DEF t, u, m, c, n, r, low, k
<1>6. r % 100 = 10 * t + u
  <2> DEFINE e == 10 * t + u
  <2>1. e \in 0 .. 99 /\ (r = e \/ r = e - 100)
    BY <1>5
  <2> HIDE DEF e
  <2>2. r % 100 = e
    BY <2>1
  <2> QED BY <2>2 DEF e
<1>7. IsDecimal(Decimal(f, m, c), f, r)
  BY <1>5, <1>6, DecimalIs, ZenonT(60)
<1> QED BY <1>4, <1>7 DEF x

LEMMA DecimalNegation ==
    ASSUME NEW f \in Flags, NEW a, NEW b \in Packed
    PROVE  IsDecimal(NBCD(f, a, b), f, 0 - Decimals(b) - AsOne(f.x))
<1>1. PICK tb \in 0 .. 9, ub \in 0 .. 9 : b = 16 * tb + ub
  BY DEF Packed
<1>2. Decimals(b) = 10 * tb + ub /\ Mask(8, b) = b
  BY <1>1, DigitsOf
<1> DEFINE x == AsOne(f.x)
           n == 154 - b - x
           m == IF n % 16 = 10 THEN n - 10 + 16 ELSE n
           r == 0 - (10 * tb + ub) - x
           w == ub + x
           t == IF w = 0 THEN 10 - tb ELSE 9 - tb
           u == IF w = 0 THEN 0 ELSE 10 - w
<1>3. x \in {0, 1} /\ x = AsOne(f.x)
  BY DEF AsOne
<1> HIDE DEF x
<1>4. b \in 0 .. 153 /\ n \in 0 .. 154 /\ Mask(8, n) = n
  <2>1. b \in 0 .. 153 /\ n \in 0 .. 154
    BY <1>1, <1>3
  <2> QED BY <2>1, PowersAre DEF Mask
<1>5. CASE n = 154
  <2>1. b = 0 /\ x = 0 /\ r = 0 /\ tb = 0 /\ ub = 0
    BY <1>1, <1>3, <1>5
  <2>2. NBCD(f, a, b) = [res |-> 0, ccr |-> [f EXCEPT !.x = FALSE, !.c = FALSE]]
    BY <1>2, <1>3, <1>4, <1>5, <2>1 DEF NBCD
  <2>3. 0 \in Packed /\ Decimals(0) = 0
    BY DigitsOf, 0 \in 0 .. 9
  <2>4. IsDecimal(NBCD(f, a, b), f, 0)
    <3> DEFINE g == [f EXCEPT !.x = FALSE, !.c = FALSE]
    <3>1. g.c = FALSE /\ g.x = FALSE /\ g.z = f.z /\ f.z \in BOOLEAN
      BY DEF Flags
    <3>2. 0 % 100 = 0 /\ 0 \in 0 .. 99
      OBVIOUS
    <3> HIDE DEF g
    <3>3. g.c = (0 \notin 0 .. 99) /\ g.x = g.c /\ g.z = (f.z /\ 0 % 100 = 0)
      BY <3>1, <3>2
    <3>4. IsDecimal([res |-> 0, ccr |-> g], f, 0)
      BY <2>3, <3>2, <3>3 DEF IsDecimal
    <3> QED BY <2>2, <3>4 DEF g
  <2> QED BY <1>2, <1>3, <2>1, <2>4
<1>6. CASE n # 154
  <2>1. NBCD(f, a, b) = Decimal(f, m, TRUE)
    BY <1>3, <1>4, <1>6, ZenonT(60) DEF NBCD
  <2>2. /\ t \in 0 .. 9 /\ u \in 0 .. 9 /\ r = (10 * t + u) - 100 /\ r \notin 0 .. 99
    BY <1>1, <1>3, <1>6
  <2>3. n = 16 * (9 - tb) + (10 - w) /\ w \in 0 .. 10 /\ w \in Int
    BY <1>1, <1>3
  <2>4. m = 16 * t + u
    <3>1. CASE w = 0
      <4>1. n % 16 = 10
        BY <2>3, <3>1
      <4> QED BY <2>3, <3>1, <4>1
    <3>2. CASE w # 0
      <4>1. n % 16 = 10 - w
        BY <2>2, <2>3, <3>2
      <4>2. t = 9 - tb /\ u = 10 - w
        BY <3>2
      <4> HIDE DEF n, w
      <4>3. n % 16 # 10
        BY <2>3, <3>2, <4>1
      <4> QED BY <2>3, <4>2, <4>3
    <3> QED BY <3>1, <3>2
  <2> HIDE DEF t, u, m, n, r, w
  <2>5. r % 100 = 10 * t + u
    BY <2>2
  <2>6. IsDecimal(Decimal(f, m, TRUE), f, r)
    BY <2>2, <2>4, <2>5, DecimalIs, ZenonT(60)
  <2> QED BY <1>2, <1>3, <2>1, <2>6 DEF r
<1> QED BY <1>5, <1>6

LEMMA DecimalStep ==
    ASSUME GuestNext, NumberInv, routine.name = "decimal", pc = 1
    PROVE  pc' = 2 /\ Halfway' /\ MultiPrecision'
<1>1. /\ Begun /\ d = was.d /\ ccr = was.ccr /\ ccr \in Flags /\ d \in [REG_D -> Int]
      /\ d[0] \in Packed /\ d[1] \in Packed
  BY DEF NumberInv, Numbers, Begun
<1>2. /\ Here.op \in {"ABCD", "SBCD", "NBCD"} /\ Here.op = routine.op /\ Here.w = 8
      /\ Here.s = 0 /\ Here.d = 1
  BY <1>1, Instructions DEF Begun, Here, Ins
<1>3. \A n \in Packed : Mask(8, n) = n /\ n \in Int
  BY DigitsOf DEF Packed
<1>4. Operand(8, 0) = d[0] /\ Operand(8, 1) = d[1]
  BY <1>1, <1>3 DEF Operand
<1>5. pc' = 2 /\ UNCHANGED <<routine, code, was>>
  BY <1>2, FollowedSteps DEF Followed
<1>6. Halfway'
  BY <1>5 DEF Halfway, InHalves
<1> DEFINE va == Decimals(d[0])
           vb == Decimals(d[1])
           x == AsOne(ccr.x)
           r == CASE routine.op = "ABCD" -> vb + va + x
                  [] routine.op = "SBCD" -> vb - va - x
                  [] routine.op = "NBCD" -> 0 - vb - x
<1>7. PICK a : IsDecimal(a, ccr, r) /\ Stores(8, 1, a)
  <2>1. CASE routine.op = "ABCD"
    <3>1. Stores(8, 1, ABCD(ccr, d[0], d[1]))
      BY <1>2, <1>4, <2>1, FollowedSteps DEF Followed
    <3>2. IsDecimal(ABCD(ccr, d[0], d[1]), ccr, r)
      BY <1>1, <2>1, DecimalAddition
    <3> QED BY <3>1, <3>2
  <2>2. CASE routine.op = "SBCD"
    <3>1. Stores(8, 1, SBCD(ccr, d[0], d[1]))
      BY <1>2, <1>4, <2>2, FollowedSteps DEF Followed
    <3>2. IsDecimal(SBCD(ccr, d[0], d[1]), ccr, r)
      BY <1>1, <2>2, DecimalSubtraction
    <3> QED BY <3>1, <3>2
  <2>3. CASE routine.op = "NBCD"
    <3>1. Stores(8, 1, NBCD(ccr, d[0], d[1]))
      BY <1>2, <1>4, <2>3, FollowedSteps DEF Followed
    <3>2. IsDecimal(NBCD(ccr, d[0], d[1]), ccr, r)
      BY <1>1, <2>3, DecimalNegation
    <3> QED BY <3>1, <3>2
  <2> QED BY <1>2, <2>1, <2>2, <2>3
<1> HIDE DEF r
<1>8. d'[1] = a.res /\ ccr' = a.ccr
  <2>1. Mask(8, d[1]) = d[1] /\ Mask(8, a.res) = a.res /\ d[1] \in Int /\ a.res \in Int
    BY <1>1, <1>3, <1>7 DEF IsDecimal
  <2>2. Merged(8, 1, a.res) = a.res
    BY <2>1 DEF Merged, Operand
  <2> QED BY <1>1, <1>7, <2>2, 1 \in REG_D DEF Stores, REG_D
<1>9. d'[1] \in Packed /\ Decimals(d'[1]) = r % 100 /\ ccr'.c = (r \notin 0 .. 99)
      /\ ccr'.x = ccr'.c /\ ccr'.z = (was.ccr.z /\ r % 100 = 0)
  BY <1>1, <1>7, <1>8, SMTT(30) DEF IsDecimal
<1>10. IsDecimalResult(routine.op, was.d[0], was.d[1])'
  BY <1>1, <1>5, <1>9 DEF IsDecimalResult, Decimals, r
<1> QED BY <1>5, <1>6, <1>10 DEF MultiPrecision, Ends, Start

-----------------------------------------------------------------------------
(* Routines on numbers leave the right results                             *)

\* Before the end nothing is claimed.
LEMMA NotYet ==
    ASSUME routine.name' \in Numbers => ~Ended'
    PROVE  MultiPrecision'
  BY DEF MultiPrecision, Ends, Numbers, InHalves

LEMMA Lengths ==
    ASSUME Begun
    PROVE  /\ routine.name \in InHalves \cup {"pointer"} => Len(code) = 2
           /\ routine.name \in {"quick", "decimal"} => Len(code) = 1
  BY Instructions DEF Begun, InHalves

LEMMA NumbersBegin == GuestInit => NumberInv
<1> SUFFICES ASSUME GuestInit, routine.name \in Numbers
             PROVE  NumberInv
  BY DEF NumberInv
<1>1. Begun /\ pc = 1 /\ d = was.d /\ ccr = was.ccr
  BY OtherTrials, RoutinesBegin DEF GuestInit, Proved
<1>2. Len(code) \in {1, 2}
  BY <1>1, Lengths DEF Numbers
<1>3. ~Ended /\ pc \in 1 .. Len(code) + 1
  <2> DEFINE n == Len(code)
  <2>1. n \in {1, 2}
    BY <1>2
  <2> HIDE DEF n
  <2>2. pc # n + 1 /\ pc \in 1 .. n + 1
    BY <1>1, <2>1
  <2> QED BY <2>2 DEF Ended, n
<1>4. MultiPrecision
  BY <1>3 DEF MultiPrecision, Ends
<1> QED BY <1>1, <1>3, <1>4 DEF NumberInv

LEMMA NumbersStep == NumberInv /\ [GuestNext]_<<vars, memoryVars>> => NumberInv'
<1> SUFFICES ASSUME NumberInv, [GuestNext]_<<vars, memoryVars>>
             PROVE  NumberInv'
  OBVIOUS
<1> SUFFICES ASSUME routine.name \in Numbers
             PROVE  NumberInv'
  BY ProgramsKept, SMTT(30) DEF NumberInv
<1>1. CASE UNCHANGED <<vars, memoryVars>>
  BY <1>1, ZenonT(60) DEF NumberInv, vars, Begun, Halfway, MultiPrecision, Ends, Ended, IsResult,
                   IsDecimalResult, Start
<1>2. CASE GuestNext
  <2>1. UNCHANGED <<routine, code, was>> /\ Running /\ Begun /\ pc \in 1 .. Len(code) + 1
    BY <1>2, ProgramsKept DEF NumberInv
  <2>2. Begun'
    BY <2>1 DEF Begun
  <2>3. pc \in 1 .. Len(code)
    BY <2>1, Lengths DEF Running, Ended, Numbers
  <2>4. CASE routine.name \in InHalves /\ pc = 1
    <3>1. pc' = 2 /\ Halfway'
      BY <1>2, <2>4, AddLow, SubLow, NegLow DEF InHalves
    <3>2. ~Ended' /\ pc' \in 1 .. Len(code) + 1
      BY <2>1, <2>4, <3>1, Lengths DEF Ended
    <3> QED BY <2>1, <2>2, <3>1, <3>2, NotYet DEF NumberInv
  <2>5. CASE routine.name \in InHalves /\ pc = 2
    <3>1. pc' = 3 /\ MultiPrecision'
      BY <1>2, <2>5, AddHigh, SubHigh, NegHigh DEF InHalves
    <3> QED BY <2>1, <2>2, <2>5, <3>1, Lengths DEF NumberInv
  <2>6. CASE routine.name = "pointer" /\ pc = 1
    <3>1. pc' = 2 /\ Halfway'
      BY <1>2, <2>6, PointerLow
    <3>2. ~Ended' /\ pc' \in 1 .. Len(code) + 1
      BY <2>1, <2>6, <3>1, Lengths DEF Ended
    <3> QED BY <2>1, <2>2, <3>1, <3>2, NotYet DEF NumberInv
  <2>7. CASE routine.name = "pointer" /\ pc = 2
    <3>1. pc' = 3 /\ MultiPrecision'
      BY <1>2, <2>7, PointerHigh
    <3> QED BY <2>1, <2>2, <2>7, <3>1, Lengths DEF NumberInv
  <2>8. CASE routine.name \in {"quick", "decimal"} /\ pc = 1
    <3>1. pc' = 2 /\ Halfway' /\ MultiPrecision'
      BY <1>2, <2>8, QuickStep, DecimalStep
    <3> QED BY <2>1, <2>2, <2>8, <3>1, Lengths DEF NumberInv
  <2>9. \/ routine.name \in InHalves \cup {"pointer"} /\ pc \in {1, 2}
        \/ routine.name \in {"quick", "decimal"} /\ pc = 1
    <3> DEFINE n == Len(code)
    <3>1. /\ pc \in 1 .. n
          /\ \/ routine.name \in InHalves \cup {"pointer"} /\ n = 2
             \/ routine.name \in {"quick", "decimal"} /\ n = 1
      BY <2>1, <2>3, Lengths DEF Numbers
    <3> HIDE DEF n
    <3> QED BY <3>1
  <2> QED BY <2>4, <2>5, <2>6, <2>7, <2>8, <2>9
<1> QED BY <1>1, <1>2

LEMMA NumbersEnough == NumberInv => MultiPrecision
  BY DEF NumberInv, MultiPrecision, Ends, Numbers, InHalves

\* However wide words and longs are, chains of ADD and ADDX, SUB and SUBX, NEG and
\* NEGX leave the result and all flags of one instruction on the whole number, and
\* so do quick operands, sums of pointers and decimal digits (m68kopac.c:2183).
THEOREM MultiPrecisionHolds == GuestSpec => []MultiPrecision
<1>1. GuestInit => NumberInv
  BY NumbersBegin
<1>2. NumberInv /\ [GuestNext]_<<vars, memoryVars>> => NumberInv'
  BY NumbersStep
<1>3. NumberInv => MultiPrecision
  BY NumbersEnough
<1> QED BY <1>1, <1>2, <1>3, PTL DEF GuestSpec

-----------------------------------------------------------------------------
(* Conditions decide like the integers do                                  *)

\* Flags that tell the order of u and t decide every condition.
Ordered(b, f, u, t) ==
    /\ f.c = (u < t) /\ f.z = (u = t)
    /\ (f.n # f.v) = (Signed(b, u) < Signed(b, t))

LEMMA OrderDecides ==
    ASSUME NEW w, HasSign(w), NEW u \in Unsigned(w), NEW t \in Unsigned(w),
           NEW f \in Flags, Ordered(w, f, u, t)
    PROVE  \A cc \in Compares : Cond(cc, f) = Holds(cc, w, u, t)
<1> DEFINE Su == Signed(w, u)
           St == Signed(w, t)
<1>1. u \in Int /\ t \in Int /\ Su \in Int /\ St \in Int
  BY SignedIs DEF Unsigned, InRange, HasSign
<1>2. f.c = (u < t) /\ f.z = (u = t) /\ (f.n # f.v) = (Su < St)
  BY DEF Ordered
<1> HIDE DEF Su, St
<1>3. /\ (~f.c /\ ~f.z) = (u > t) /\ (f.c \/ f.z) = (u <= t)
      /\ (~f.c) = (u >= t) /\ (~f.z) = (u # t)
  <2>1. f.c <=> u < t
    BY <1>2
  <2>2. f.z <=> u = t
    BY <1>2
  <2>3. (~f.c /\ ~f.z) <=> (u > t)
    BY <1>1, <2>1, <2>2
  <2>4. (f.c \/ f.z) <=> (u <= t)
    BY <1>1, <2>1, <2>2
  <2>5. (~f.c) <=> (u >= t)
    BY <1>1, <2>1, <2>2
  <2> QED BY <2>2, <2>3, <2>4, <2>5
<1>4. (u = t) = (Su = St)
  <2>1. Su = (IF u >= 2^(w - 1) THEN u - 2^w ELSE u) /\ St = (IF t >= 2^(w - 1) THEN t - 2^w ELSE t)
    BY SignedIs DEF Su, St
  <2> DEFINE M == 2^w
             H == 2^(w - 1)
  <2>2. M \in Nat /\ H \in Nat /\ u \in 0 .. M - 1 /\ t \in 0 .. M - 1 /\ M = 2 * H
    BY DEF HasSign, Unsigned
  <2> HIDE DEF M, H
  <2>3. Su = (IF u >= H THEN u - M ELSE u) /\ St = (IF t >= H THEN t - M ELSE t)
    BY <2>1 DEF M, H
  <2> QED BY <2>2, <2>3
<1>5. /\ (f.n = f.v /\ ~f.z) = (Su > St) /\ (f.n # f.v \/ f.z) = (Su <= St)
      /\ (f.n = f.v) = (Su >= St)
  <2> DEFINE less == f.n # f.v
  <2>1. (f.n = f.v) = ~less /\ less = (Su < St) /\ f.z = (Su = St)
    BY <1>2, <1>4
  <2> HIDE DEF less
  <2>2. (~less /\ ~f.z) = (Su > St) /\ (less \/ f.z) = (Su <= St) /\ (~less) = (Su >= St)
    <3>1. (less <=> (Su < St)) /\ (f.z <=> (Su = St))
      BY <2>1
    <3>2. (~less /\ ~f.z) <=> (Su > St)
      BY <1>1, <3>1
    <3>3. (less \/ f.z) <=> (Su <= St)
      BY <1>1, <3>1
    <3>4. (~less) <=> (Su >= St)
      BY <1>1, <3>1
    <3> QED BY <3>2, <3>3, <3>4
  <2> QED BY <2>1, <2>2 DEF less
<1> SUFFICES ASSUME NEW cc \in Compares
             PROVE  Cond(cc, f) = Holds(cc, w, u, t)
  OBVIOUS
<1>6. CASE cc \in {"HI", "LS", "CC", "CS", "NE", "EQ"}
  BY <1>2, <1>3, <1>6 DEF Cond, Holds
<1>7. CASE cc \in {"GE", "LT", "GT", "LE"}
  BY <1>2, <1>5, <1>7 DEF Cond, Holds, Su, St
<1> QED BY <1>6, <1>7 DEF Compares

\* What CMP, CMPA and CAS find.
LEMMA ComparisonIs ==
    ASSUME NEW w, HasSign(w), NEW f \in Flags, NEW s \in Unsigned(w), NEW t \in Unsigned(w)
    PROVE  \A a \in {CMP(w, f, s, t), CMP_32(w, f, s, t)} :
               a.res = t /\ a.ccr \in Flags /\ a.ccr.x = f.x /\ Ordered(w, a.ccr, t, s)
<1>1. ASSUME NEW a, Correct(w, a, t - s, Signed(w, t) - Signed(w, s)), ZeroNew(a)
      PROVE  LET c == Comparison(f, t, a)
             IN  c.res = t /\ c.ccr \in Flags /\ c.ccr.x = f.x /\ Ordered(w, c.ccr, t, s)
  <2>1. a.ccr \in Flags
    BY <1>1 DEF Correct
  <2>2. Ordered(w, a.ccr, t, s)
    BY <1>1, OrderIs DEF Ordered
  <2> QED BY <2>1, <2>2 DEF Comparison, Ordered, Flags
<1> DEFINE a1 == SUB(w, f, s, t)
           a2 == SUB_32(w, f, s, t)
           u == t - s
           g == Signed(w, t) - Signed(w, s)
<1>2. \A a \in {a1, a2} : Correct(w, a, u, g) /\ ZeroNew(a)
  BY Subtractions
<1>3. CMP(w, f, s, t) = Comparison(f, t, a1) /\ CMP_32(w, f, s, t) = Comparison(f, t, a2)
  BY DEF CMP, CMP_32
<1> HIDE DEF a1, a2
<1> QED BY <1>1, <1>2, <1>3

\* D1, after the larger number has been put into it.
Largest(n) == Signed(WORD, n) = -Smallest({-Signed(WORD, was.d[0]), -Signed(WORD, was.d[1])})

\* While a routine compares: the flags tell the order of its operands until it
\* ends; the one that looks for the larger number jumps over its move unless D0 is it.
CompareInv ==
    routine.name \in Comparing =>
        /\ Begun
        /\ pc \in 1 .. Len(code) + 1
        /\ pc = 1 => d = was.d /\ ccr = was.ccr
        /\ (routine.name = "compare" /\ pc = 2) => d = was.d /\ ccr.x = was.ccr.x
        /\ (routine.name = "max" /\ pc = 2) => d = was.d /\ Ordered(WORD, ccr, d[1], d[0])
        /\ (routine.name = "max" /\ pc = 3) => d = was.d /\ Signed(WORD, d[1]) < Signed(WORD, d[0])
        /\ (routine.name = "max" /\ pc = 4) =>
               d \in [REG_D -> Int] /\ d[1] \in Words /\ Largest(d[1])
        /\ ConditionsCompare

LEMMA SmallestIs ==
    ASSUME NEW a \in Int, NEW b \in Int, a <= b
    PROVE  Smallest({a, b}) = a /\ Smallest({b, a}) = a
<1>1. ASSUME NEW S, S = {a, b} PROVE Smallest(S) = a
  <2>1. \E c \in S : \A e \in S : c <= e
    BY <1>1
  <2>2. Smallest(S) \in S /\ \A e \in S : Smallest(S) <= e
    BY <2>1 DEF Smallest
  <2> QED BY <1>1, <2>2
<1>2. {b, a} = {a, b}
  OBVIOUS
<1> QED BY <1>1, <1>2

LEMMA CompareFirst ==
    ASSUME GuestNext, CompareInv, routine.name = "compare", pc = 1
    PROVE  CompareInv'
<1>1. /\ Begun /\ d = was.d /\ ccr = was.ccr /\ ccr \in Flags /\ d \in [REG_D -> Int]
      /\ routine.op \in {"CMP", "CMP_32", "CMPA"} /\ d[0] \in Words
      /\ d[1] \in IF routine.op = "CMPA" THEN Longs ELSE Words
  BY DEF CompareInv, Comparing, Begun
<1>2. Here.op = routine.op /\ Here.w = WORD /\ Here.s = 0 /\ Here.d = 1 /\ Len(code) = 2
  BY <1>1, Instructions DEF Begun, Here, Ins
<1>3. pc' = 2 /\ UNCHANGED <<routine, code, was>>
  BY <1>1, <1>2, FollowedSteps DEF Followed
<1> DEFINE b == IF routine.op = "CMPA" THEN LONG ELSE WORD
           t == IF routine.op = "CMPA" THEN Signed(WORD, d[0]) % 2^LONG ELSE d[0]
<1>4. /\ d' = d /\ ccr' \in Flags /\ ccr'.x = ccr.x /\ Ordered(b, ccr', d[1], t) /\ HasSign(b)
      /\ d[1] \in Unsigned(b) /\ t \in Unsigned(b)
  <2>1. CASE routine.op # "CMPA"
    <3>1. d[0] \in Unsigned(WORD) /\ d[1] \in Unsigned(WORD)
      BY <1>1, <2>1 DEF Unsigned, Words
    <3>2. Operand(WORD, 0) = d[0] /\ Operand(WORD, 1) = d[1]
      BY <3>1, SignedIs, SizesAre DEF Operand
    <3> DEFINE a1 == CMP(WORD, ccr, d[0], d[1])
               a2 == CMP_32(WORD, ccr, d[0], d[1])
    <3>3. PICK a \in {a1, a2} : Stores(WORD, 1, a)
      BY <1>1, <1>2, <2>1, <3>2, FollowedSteps DEF Followed
    <3>4. a.res = d[1] /\ a.ccr \in Flags /\ a.ccr.x = ccr.x /\ Ordered(WORD, a.ccr, d[1], d[0])
      BY <1>1, <3>1, <3>3, ComparisonIs, SizesAre
    <3> HIDE DEF a1, a2
    <3>5. d' = [d EXCEPT ![1] = a.res] /\ ccr' = a.ccr
      BY <1>1, <2>1, <3>3, <3>4, WordStored, 1 \in REG_D DEF REG_D
    <3> QED BY <1>1, <2>1, <3>1, <3>4, <3>5, SizesAre
  <2>2. CASE routine.op = "CMPA"
    <3>1. d[0] \in Unsigned(WORD) /\ d[1] \in Unsigned(LONG) /\ d[1] \in Longs
      BY <1>1, <2>2 DEF Unsigned, Words, Longs
    <3>2. Operand(WORD, 0) = d[0]
      BY <3>1, SignedIs, SizesAre DEF Operand
    <3> DEFINE a == CMPA(WORD, LONG, ccr, d[0], d[1])
               S == Signed(WORD, d[0])
    <3>3. Stores(LONG, 1, a)
      BY <1>2, <2>2, <3>2, FollowedSteps DEF Followed
    <3>4. t \in Unsigned(LONG)
      <4>1. S \in Int /\ 2^LONG \in Nat \ {0}
        BY <3>1, SignedIs, SizesAre DEF InRange, HasSign
      <4> HIDE DEF S
      <4>2. S % 2^LONG \in 0 .. 2^LONG - 1
        BY <4>1, MaskTwice
      <4> QED BY <2>2, <4>2 DEF S, Unsigned
    <3>5. a = CMP_32(LONG, ccr, t, d[1])
      BY <2>2 DEF CMPA, CMP_32, Mask
    <3>6. a.res = d[1] /\ a.ccr \in Flags /\ a.ccr.x = ccr.x /\ Ordered(LONG, a.ccr, d[1], t)
      <4> HIDE DEF t, a
      <4> QED BY <1>1, <3>1, <3>4, <3>5, ComparisonIs, SizesAre
    <3>7. d' = [d EXCEPT ![1] = a.res] /\ ccr' = a.ccr
      <4> HIDE DEF a
      <4> QED BY <1>1, <3>1, <3>3, <3>6, LongStored, 1 \in REG_D DEF REG_D
    <3> HIDE DEF a
    <3> QED BY <1>1, <2>2, <3>1, <3>4, <3>6, <3>7, SizesAre
  <2> QED BY <2>1, <2>2
<1>5. \A cc \in Compares : Cond(cc, ccr') = Holds(cc, b, d[1], t)
  <2> HIDE DEF b, t
  <2> QED BY <1>4, OrderDecides
<1>6. ConditionsCompare'
  <2>1. ~Ended'
    <3>1. Len(code') = 2
      BY <1>2, <1>3
    <3> QED BY <1>3, <3>1 DEF Ended
  <2>2. was'.d[1] = d[1] /\ was'.d[0] = d[0] /\ routine' = routine
    BY <1>1, <1>3
  <2> QED BY <1>5, <2>1, <2>2 DEF ConditionsCompare, Ends, Start
<1>7. Begun'
  BY <1>1, <1>3 DEF Begun
<1>8. pc' = 2 /\ pc' \in 1 .. Len(code') + 1 /\ d' = was'.d /\ ccr'.x = was'.ccr.x
  <2>1. Len(code') = 2
    BY <1>2, <1>3
  <2>2. d' = was'.d /\ ccr'.x = was'.ccr.x
    BY <1>1, <1>3, <1>4
  <2> QED BY <1>3, <2>1, <2>2
<1>9. routine'.name = "compare"
  BY <1>3
<1> QED BY <1>6, <1>7, <1>8, <1>9 DEF CompareInv

LEMMA CompareSecond ==
    ASSUME GuestNext, CompareInv, routine.name = "compare", pc = 2
    PROVE  CompareInv'
<1>1. /\ Begun /\ d = was.d /\ ccr.x = was.ccr.x /\ d \in [REG_D -> Int] /\ d[2] \in Longs
      /\ ConditionsCompare
  BY DEF CompareInv, Comparing, Begun
<1>2. Here.op = "Scc" /\ Here.d = 2 /\ Here.cc = routine.cc /\ Len(code) = 2
  BY <1>1, Instructions DEF Begun, Here, Branch
<1>3. pc' = 3 /\ UNCHANGED <<routine, code, was>> /\ Scc
  BY <1>2, FollowedSteps DEF Followed
<1> DEFINE v == IF Cond(routine.cc, ccr) THEN 255 ELSE 0
<1>4. ccr' = ccr /\ d' = [d EXCEPT ![2] = Merged(8, 2, v)]
  BY <1>2, <1>3 DEF Scc, Stores
<1>5. Merged(8, 2, v) = (d[2] - (d[2] % 256)) + v
  <2>1. v \in 0 .. 255
    OBVIOUS
  <2> HIDE DEF v
  <2>2. Mask(8, v) = v /\ Mask(8, d[2]) = d[2] % 256
    BY <2>1, PowersAre DEF Mask
  <2> QED BY <2>2 DEF Merged, Operand
<1>6. d'[1] = was'.d[1] /\ d'[2] = (was'.d[2] - (was'.d[2] % 256)) + v
  <2> HIDE DEF v
  <2> QED BY <1>1, <1>3, <1>4, <1>5 DEF REG_D
<1>7. ConditionsCompare'
  <2>1. Cond(routine.cc, ccr)' = Cond(routine.cc, ccr)
    BY <1>3, <1>4
  <2>2. d'[2] = (was'.d[2] - (was'.d[2] % 256)) + (IF Cond(routine.cc, ccr)' THEN 255 ELSE 0)
    BY <1>6, <2>1
  <2>3. routine'.name = "compare" /\ routine'.op = routine.op
    BY <1>3
  <2>4. ccr'.x = was'.ccr.x
    BY <1>1, <1>3, <1>4
  <2> DEFINE b == IF routine.op = "CMPA" THEN LONG ELSE WORD
             t == IF routine.op = "CMPA" THEN Signed(WORD, was.d[0]) % 2^LONG ELSE was.d[0]
  <2>5. \A cc \in Compares : Cond(cc, ccr') = Holds(cc, b, was'.d[1], t)
    <3>1. \A cc \in Compares : Cond(cc, ccr) = Holds(cc, b, was.d[1], t)
      BY <1>1 DEF ConditionsCompare, Start
    <3> HIDE DEF b, t
    <3> QED BY <1>3, <1>4, <3>1
  <2>6. was' = was
    BY <1>3
  <2> QED BY <1>6, <2>2, <2>3, <2>4, <2>5, <2>6 DEF ConditionsCompare, Ends, Start
<1>8. Begun'
  BY <1>1, <1>3 DEF Begun
<1>9. pc' = 3 /\ pc' \in 1 .. Len(code') + 1
  <2>1. Len(code') = 2
    BY <1>2, <1>3
  <2> QED BY <1>3, <2>1
<1>10. routine'.name = "compare"
  BY <1>3
<1> QED BY <1>7, <1>8, <1>9, <1>10 DEF CompareInv

\* Before the end nothing is claimed of the larger number.
LEMMA NotFound ==
    ASSUME routine'.name = "max", ~Ended'
    PROVE  ConditionsCompare'
  BY DEF ConditionsCompare, Ends

LEMMA MaxSteps ==
    ASSUME GuestNext, CompareInv, routine.name = "max"
    PROVE  CompareInv'
<1>1. Begun /\ was.d[0] \in Words /\ was.d[1] \in Words /\ was.d \in [REG_D -> Int]
      /\ was.ccr \in Flags
  BY DEF CompareInv, Comparing, Begun
<1>2. code = <<Ins("CMP", WORD, 0, 1), Branch("Bcc", 0, "GE", 4),
               Ins("MOVE", WORD, 0, 1), Ins("TST", WORD, 1, 1)>>
  BY <1>1, Instructions DEF Begun
<1>3. Running /\ UNCHANGED <<routine, code, was>>
  BY ProgramsKept
<1>4. Len(code) = 4 /\ Len(code') = 4 /\ routine'.name = "max" /\ Begun'
  BY <1>1, <1>2, <1>3 DEF Begun
<1>5. pc \in 1 .. 4
  <2> DEFINE n == Len(code)
  <2>1. n = 4 /\ pc \in 1 .. n + 1 /\ pc # n + 1
    BY <1>3, <1>4 DEF CompareInv, Comparing, Running, Ended
  <2> HIDE DEF n
  <2> QED BY <2>1
<1> DEFINE S0 == Signed(WORD, was.d[0])
           S1 == Signed(WORD, was.d[1])
<1>6. S0 \in Int /\ S1 \in Int
  BY <1>1, SignedIs, SizesAre DEF Words, Unsigned, InRange, HasSign
<1>7. CASE pc = 1
  <2>1. d = was.d /\ ccr = was.ccr
    BY <1>7 DEF CompareInv, Comparing
  <2>2. Here.op = "CMP" /\ Here.w = WORD /\ Here.s = 0 /\ Here.d = 1
    BY <1>2, <1>7 DEF Here, Ins
  <2>3. Operand(WORD, 0) = d[0] /\ Operand(WORD, 1) = d[1] /\ d[0] \in Unsigned(WORD)
        /\ d[1] \in Unsigned(WORD)
    BY <1>1, <2>1, SignedIs, SizesAre DEF Operand, Words, Unsigned
  <2> DEFINE a == CMP(WORD, ccr, d[0], d[1])
  <2>4. Stores(WORD, 1, a) /\ pc' = 2
    BY <1>7, <2>2, <2>3, FollowedSteps DEF Followed
  <2>5. a.res = d[1] /\ Ordered(WORD, a.ccr, d[1], d[0])
    BY <1>1, <2>1, <2>3, ComparisonIs, SizesAre
  <2> HIDE DEF a
  <2>6. d' = [d EXCEPT ![1] = a.res] /\ ccr' = a.ccr
    BY <1>1, <2>1, <2>4, <2>5, WordStored, 1 \in REG_D DEF REG_D
  <2>7. d' = was'.d /\ Ordered(WORD, ccr', d'[1], d'[0])
    BY <1>1, <1>3, <2>1, <2>5, <2>6
  <2>8. ConditionsCompare'
    BY <1>4, <2>4, NotFound DEF Ended
  <2> QED BY <1>4, <2>4, <2>7, <2>8 DEF CompareInv, Ordered
<1>8. CASE pc = 2
  <2>1. d = was.d /\ Ordered(WORD, ccr, d[1], d[0])
    BY <1>8 DEF CompareInv, Comparing
  <2>2. Here.op = "Bcc" /\ Here.cc = "GE" /\ Here.to = 4
    BY <1>2, <1>8 DEF Here, Branch
  <2>3. d' = d /\ ccr' = ccr /\ pc' = IF Cond("GE", ccr) THEN 4 ELSE 3
    BY <1>8, <2>2, FollowedSteps DEF Followed, Bcc, Goes
  <2>4. Cond("GE", ccr) = ~(S1 < S0)
    <3>1. (ccr.n # ccr.v) = (S1 < S0)
      BY <2>1 DEF Ordered
    <3>2. Cond("GE", ccr) = (ccr.n = ccr.v)
      BY DEF Cond
    <3> QED BY <3>1, <3>2
  <2>5. CASE S1 < S0
    <3>1. pc' = 3 /\ d' = was'.d /\ Signed(WORD, d'[1]) < Signed(WORD, d'[0])
      BY <1>3, <2>1, <2>3, <2>4, <2>5
    <3>2. ConditionsCompare'
      BY <1>4, <3>1, NotFound DEF Ended
    <3> QED BY <1>4, <3>1, <3>2 DEF CompareInv
  <2>6. CASE ~(S1 < S0)
    <3>1. pc' = 4 /\ d' = was'.d /\ was' = was
      BY <1>3, <2>1, <2>3, <2>4, <2>6
    <3>2. -Smallest({-S0, -S1}) = S1
      <4> HIDE DEF S0, S1
      <4>1. -S1 <= -S0 /\ -S1 \in Int /\ -S0 \in Int
        BY <1>6, <2>6
      <4>2. Smallest({-S0, -S1}) = -S1
        BY <4>1, SmallestIs
      <4> QED BY <1>6, <4>2
    <3>3. Largest(d[1])' /\ d' \in [REG_D -> Int] /\ d'[1] \in Words
      BY <1>1, <3>1, <3>2 DEF Largest
    <3>4. ConditionsCompare'
      BY <1>4, <3>1, NotFound DEF Ended
    <3> QED BY <1>4, <3>1, <3>3, <3>4 DEF CompareInv
  <2> QED BY <2>5, <2>6
<1>9. CASE pc = 3
  <2>1. d = was.d /\ S1 < S0
    BY <1>9 DEF CompareInv, Comparing
  <2>2. Here.op = "MOVE" /\ Here.w = WORD /\ Here.s = 0 /\ Here.d = 1
    BY <1>2, <1>9 DEF Here, Ins
  <2>3. Operand(WORD, 0) = d[0] /\ d[0] \in Unsigned(WORD)
    BY <1>1, <2>1, SignedIs, SizesAre DEF Operand, Words, Unsigned
  <2> DEFINE a == MOVE(WORD, ccr, d[0], Operand(WORD, 1))
  <2>4. Stores(WORD, 1, a) /\ pc' = 4
    BY <1>9, <2>2, <2>3, FollowedSteps DEF Followed
  <2>5. a.res = d[0]
    BY <2>3, SignedIs, SizesAre DEF MOVE, Logical, Arithmetic
  <2> HIDE DEF a
  <2>6. d' \in [REG_D -> Int] /\ d'[1] = d[0]
    BY <1>1, <2>1, <2>4, <2>5, WordStored, 1 \in REG_D DEF REG_D
  <2>7. -Smallest({-S0, -S1}) = S0
    <3> HIDE DEF S0, S1
    <3>1. -S0 <= -S1 /\ -S1 \in Int /\ -S0 \in Int
      BY <1>6, <2>1
    <3>2. Smallest({-S0, -S1}) = -S0
      BY <3>1, SmallestIs
    <3> QED BY <1>6, <3>2
  <2>8. Largest(d[1])' /\ d'[1] \in Words
    BY <1>1, <1>3, <2>1, <2>6, <2>7 DEF Largest
  <2>9. ConditionsCompare'
    BY <1>4, <2>4, NotFound DEF Ended
  <2> QED BY <1>4, <2>4, <2>6, <2>8, <2>9 DEF CompareInv
<1>10. CASE pc = 4
  <2>1. d \in [REG_D -> Int] /\ d[1] \in Words /\ Largest(d[1])
    BY <1>10 DEF CompareInv, Comparing
  <2>2. Here.op = "TST" /\ Here.w = WORD /\ Here.s = 1 /\ Here.d = 1
    BY <1>2, <1>10 DEF Here, Ins
  <2>3. Operand(WORD, 1) = d[1]
    BY <2>1, SignedIs, SizesAre DEF Operand, Words, Unsigned
  <2> DEFINE a == TST(WORD, ccr, d[1], d[1])
  <2>4. Stores(WORD, 1, a) /\ pc' = 5
    BY <1>10, <2>2, <2>3, FollowedSteps DEF Followed
  <2>5. a.res = d[1]
    BY <2>1, SignedIs, SizesAre DEF TST, Logical, Arithmetic, Words, Unsigned
  <2> HIDE DEF a
  <2>6. d'[1] = d[1]
    BY <2>1, <2>4, <2>5, WordStored, 1 \in REG_D DEF REG_D
  <2>7. Signed(WORD, d'[1]) = -Smallest({-Signed(WORD, was'.d[0]), -Signed(WORD, was'.d[1])})
    BY <1>3, <2>1, <2>6 DEF Largest
  <2>8. ConditionsCompare'
    BY <1>4, <2>7 DEF ConditionsCompare, Ends, Start
  <2> QED BY <1>4, <2>4, <2>8 DEF CompareInv
<1> QED BY <1>5, <1>7, <1>8, <1>9, <1>10

LEMMA CasStep ==
    ASSUME GuestNext, CompareInv, routine.name = "cas", pc = 1
    PROVE  CompareInv'
<1>1. /\ Begun /\ d = was.d /\ ccr = was.ccr /\ ccr \in Flags /\ d \in [REG_D -> Int]
      /\ d[0] \in Words /\ d[1] \in Words /\ d[2] \in Words
  BY DEF CompareInv, Comparing, Begun
<1>2. Here.op = "CAS" /\ Here.w = WORD /\ Len(code) = 1
  BY <1>1, Instructions DEF Begun, Here, Ins
<1>3. pc' = 2 /\ UNCHANGED <<routine, code, was>> /\ CompareAndSwap
  BY <1>2, FollowedSteps DEF Followed
<1>4. d[0] \in Unsigned(WORD) /\ d[1] \in Unsigned(WORD) /\ d[2] \in Unsigned(WORD)
  BY <1>1 DEF Words, Unsigned
<1>5. Operand(WORD, 0) = d[0] /\ Operand(WORD, 1) = d[1] /\ Operand(WORD, 2) = d[2]
  BY <1>4, SignedIs, SizesAre DEF Operand
<1> DEFINE k == CMP(WORD, ccr, d[0], d[2]).ccr
           a == Swapped(k, d[0], d[1], d[2])
<1>6. d' = [d EXCEPT ![0] = Merged(WORD, 0, a.expected), ![2] = a.memory] /\ ccr' = a.ccr
  BY <1>3, <1>5 DEF CompareAndSwap, CAS
<1>7. k \in Flags /\ Ordered(WORD, k, d[2], d[0])
  BY <1>1, <1>4, ComparisonIs, SizesAre
<1> HIDE DEF k
<1>8. /\ a.ccr = k /\ k.z = (d[2] = d[0])
      /\ a.expected = (IF d[0] = d[2] THEN d[0] ELSE d[2])
      /\ a.memory = (IF d[0] = d[2] THEN d[1] ELSE d[2])
  BY <1>7 DEF Swapped, Ordered
<1>9. Merged(WORD, 0, a.expected) = a.expected
  <2>1. Mask(WORD, a.expected) = a.expected /\ Mask(WORD, d[0]) = d[0]
    BY <1>4, <1>8, SignedIs, SizesAre
  <2>2. d[0] \in Int /\ a.expected \in Int
    BY <1>4, <1>8, SizesAre DEF Unsigned, HasSign
  <2> HIDE DEF a
  <2> QED BY <2>1, <2>2 DEF Merged, Operand
<1>10. d' = IF was'.d[0] = was'.d[2] THEN [was'.d EXCEPT ![2] = was'.d[1]]
                                     ELSE [was'.d EXCEPT ![0] = was'.d[2]]
  <2>1. d' = [d EXCEPT ![0] = a.expected, ![2] = a.memory]
    BY <1>6, <1>9
  <2>2. CASE d[0] = d[2]
    <3>1. d' = [d EXCEPT ![0] = d[0], ![2] = d[1]]
      BY <1>8, <2>1, <2>2
    <3> QED BY <1>1, <1>3, <2>2, <3>1 DEF REG_D
  <2>3. CASE d[0] # d[2]
    <3>1. d' = [d EXCEPT ![0] = d[2], ![2] = d[2]]
      BY <1>8, <2>1, <2>3
    <3> QED BY <1>1, <1>3, <2>3, <3>1 DEF REG_D
  <2> QED BY <2>2, <2>3
<1>11. \A cc \in Compares : Cond(cc, ccr') = Holds(cc, WORD, was'.d[2], was'.d[0])
  <2>1. \A cc \in Compares : Cond(cc, k) = Holds(cc, WORD, d[2], d[0])
    BY <1>4, <1>7, OrderDecides, SizesAre
  <2> QED BY <1>1, <1>3, <1>6, <1>8, <2>1
<1>12. routine'.name = "cas" /\ Begun' /\ Len(code') = 1
  BY <1>1, <1>2, <1>3 DEF Begun
<1>13. ConditionsCompare'
  BY <1>10, <1>11, <1>12 DEF ConditionsCompare, Ends, Start
<1> QED BY <1>3, <1>12, <1>13 DEF CompareInv

LEMMA ComparisonsBegin == GuestInit => CompareInv
<1> SUFFICES ASSUME GuestInit, routine.name \in Comparing
             PROVE  CompareInv
  BY DEF CompareInv
<1>1. Begun /\ pc = 1 /\ d = was.d /\ ccr = was.ccr
  BY OtherTrials, RoutinesBegin DEF GuestInit, Proved
<1>2. /\ routine.name = "compare" => Len(code) = 2
      /\ routine.name = "max" => Len(code) = 4
      /\ routine.name = "cas" => Len(code) = 1
  BY <1>1, Instructions DEF Begun
<1>3. ~Ended /\ pc \in 1 .. Len(code) + 1
  <2> DEFINE n == Len(code)
  <2>1. n \in {1, 2, 4}
    BY <1>2 DEF Comparing
  <2> HIDE DEF n
  <2>2. pc # n + 1 /\ pc \in 1 .. n + 1
    BY <1>1, <2>1
  <2> QED BY <2>2 DEF Ended, n
<1>4. ConditionsCompare
  BY <1>1, <1>3 DEF ConditionsCompare, Ends
<1> QED BY <1>1, <1>3, <1>4 DEF CompareInv

LEMMA ComparisonsStep == CompareInv /\ [GuestNext]_<<vars, memoryVars>> => CompareInv'
<1> SUFFICES ASSUME CompareInv, [GuestNext]_<<vars, memoryVars>>
             PROVE  CompareInv'
  OBVIOUS
<1> SUFFICES ASSUME routine.name \in Comparing
             PROVE  CompareInv'
  BY ProgramsKept DEF CompareInv
<1>1. CASE UNCHANGED <<vars, memoryVars>>
  <2>1. /\ routine' = routine /\ code' = code /\ pc' = pc /\ d' = d /\ ccr' = ccr /\ was' = was
    BY <1>1 DEF vars
  <2>2. Begun /\ ConditionsCompare
    BY DEF CompareInv
  <2>3. Begun'
    BY <2>1, <2>2 DEF Begun
  <2>4. ConditionsCompare'
    BY <2>1, <2>2 DEF ConditionsCompare, Ends, Ended, Start
  <2>5. Largest(d[1])' = Largest(d[1])
    BY <2>1 DEF Largest
  <2> QED BY <2>1, <2>3, <2>4, <2>5 DEF CompareInv, Ordered
<1>2. CASE GuestNext
  <2>1. Running /\ Begun /\ pc \in 1 .. Len(code) + 1
    BY <1>2, ProgramsKept DEF CompareInv
  <2>2. CASE routine.name = "max"
    BY <1>2, <2>2, MaxSteps
  <2>3. CASE routine.name = "cas"
    <3> DEFINE n == Len(code)
    <3>1. n = 1 /\ pc \in 1 .. n + 1 /\ pc # n + 1
      BY <2>1, <2>3, Instructions DEF Begun, Running, Ended
    <3> HIDE DEF n
    <3>2. pc = 1
      BY <3>1
    <3> QED BY <1>2, <2>3, <3>2, CasStep
  <2>4. CASE routine.name = "compare"
    <3> DEFINE n == Len(code)
    <3>1. n = 2 /\ pc \in 1 .. n + 1 /\ pc # n + 1
      BY <2>1, <2>4, Instructions DEF Begun, Running, Ended
    <3> HIDE DEF n
    <3>2. pc \in {1, 2}
      BY <3>1
    <3> QED BY <1>2, <2>4, <3>2, CompareFirst, CompareSecond
  <2> QED BY <2>2, <2>3, <2>4 DEF Comparing
<1> QED BY <1>1, <1>2

LEMMA ComparisonsEnough == CompareInv => ConditionsCompare
  BY DEF CompareInv, ConditionsCompare, Ends, Comparing

\* However wide words and longs are, after CMP, CMPA and CAS every condition that
\* compares decides like the integers do, signed and unsigned; Scc, Bcc and the
\* swap act on it, and what they leave is right (m68kcpu.h:722, m68kopac.c:8686,
\* 11346).
THEOREM ConditionsCompareHolds == GuestSpec => []ConditionsCompare
<1>1. GuestInit => CompareInv
  BY ComparisonsBegin
<1>2. CompareInv /\ [GuestNext]_<<vars, memoryVars>> => CompareInv'
  BY ComparisonsStep
<1>3. CompareInv => ConditionsCompare
  BY ComparisonsEnough
<1> QED BY <1>1, <1>2, <1>3, PTL DEF GuestSpec

-----------------------------------------------------------------------------
(* Numbers in memory                                                       *)

\* Bytes, words and longs: two bytes make a word, four a long.
LEMMA MemorySizes ==
    /\ BYTE \in Nat \ {0} /\ WORD = 2 * BYTE /\ LONG = 4 * BYTE
    /\ BYTE \in 0 .. LONG /\ WORD \in 0 .. LONG
    /\ BYTE # WORD /\ WORD # LONG /\ BYTE # LONG
    /\ Bytes(BYTE) = 1 /\ Bytes(WORD) = 2 /\ Bytes(LONG) = 4
    /\ 2^BYTE \in Nat \ {0} /\ 2^WORD \in Nat \ {0} /\ 2^LONG \in Nat \ {0}
    /\ 2^WORD = 2^BYTE * 2^BYTE /\ 2^LONG = 2^WORD * 2^WORD /\ 2^LONG >= 256
<1>1. /\ WORD \in Nat /\ WORD >= 4 /\ LONG = 2 * WORD /\ WORD = (WORD \div 2) + (WORD \div 2)
  BY M68kAssumption
<1>2. /\ BYTE \in Nat \ {0} /\ WORD = 2 * BYTE /\ LONG = 4 * BYTE
  BY <1>1, PowersAre DEF BYTE
<1>3. BYTE \in 0 .. LONG /\ WORD \in 0 .. LONG /\ BYTE # WORD /\ WORD # LONG /\ BYTE # LONG
  BY <1>2
<1>4. 1 * BYTE = BYTE /\ 2 * BYTE = WORD /\ 4 * BYTE = LONG
  BY <1>2
<1>5. Bytes(BYTE) = 1 /\ Bytes(WORD) = 2 /\ Bytes(LONG) = 4
  <2>1. \A k \in {1, 2, 4} : (k * BYTE) \div BYTE = k
    <3> SUFFICES ASSUME NEW k \in {1, 2, 4} PROVE (k * BYTE) \div BYTE = k
      OBVIOUS
    <3>1. 0 \in 0 .. BYTE - 1 /\ k * BYTE = k * BYTE + 0 /\ k \in Int /\ BYTE \in Nat \ {0}
      BY <1>2
    <3> HIDE DEF BYTE
    <3> QED BY <3>1, DivisionIs
  <2> QED BY <2>1, <1>4 DEF Bytes
<1>6. 2^BYTE \in Nat \ {0} /\ 2^WORD \in Nat \ {0} /\ 2^LONG \in Nat \ {0}
  BY <1>3, <1>2, PowersAre
<1>7. 2^WORD = 2^BYTE * 2^BYTE /\ 2^LONG = 2^WORD * 2^WORD
  BY PowersAre DEF BYTE
<1>8. 2^LONG >= 256
  <2> DEFINE W == 2^WORD
  <2>1. W \in Nat /\ W >= 16
    BY <1>6, PowersAre
  <2> HIDE DEF W
  <2>2. W * W >= 16 * 16
    BY <2>1, Z3
  <2> QED BY <2>2, <1>7 DEF W
<1> QED BY <1>2, <1>3, <1>5, <1>6, <1>7, <1>8

\* Bytes of memory.
InMemory(m, at, n) == at \in Int /\ \A i \in 0 .. n - 1 : at + i \in DOMAIN m /\ m[at + i] \in Int
Cells(m) == \A i \in DOMAIN m : i \in Int /\ m[i] \in Int

LEMMA WrittenIs ==
    ASSUME NEW m, Cells(m), NEW at \in Int, NEW w \in {WORD, LONG}, NEW v
    PROVE  LET z == WriteMemory(m, w, at, v)
               n == IF w = WORD THEN 2 ELSE 4
           IN  /\ DOMAIN z = DOMAIN m /\ \A i \in DOMAIN m : i \notin at .. at + n - 1 => z[i] = m[i]
               /\ \A k \in 0 .. n - 1 : at + k \in DOMAIN m => z[at + k] = ByteOf(v, n - 1 - k)
<1> DEFINE n == IF w = WORD THEN 2 ELSE 4
<1>1. Bytes(w) = n /\ n \in {2, 4}
  BY MemorySizes
<1>2. \A k \in Int : at + n - 1 - (at + k) = n - 1 - k
  BY <1>1
<1> HIDE DEF n
<1>3. WriteMemory(m, w, at, v) =
        [i \in DOMAIN m |-> IF i \in at .. at + n - 1 THEN ByteOf(v, at + n - 1 - i) ELSE m[i]]
  BY <1>1 DEF WriteMemory
<1>4. ASSUME NEW k \in 0 .. n - 1, at + k \in DOMAIN m
      PROVE  WriteMemory(m, w, at, v)[at + k] = ByteOf(v, n - 1 - k)
  <2>1. at + k \in at .. at + n - 1
    BY <1>1
  <2> QED BY <1>2, <1>3, <1>4, <2>1
<1> QED BY <1>3, <1>4 DEF n

\* The bytes of a number make it up again.
LEMMA BytesMake ==
    ASSUME NEW v \in Nat
    PROVE  LET B == 2^BYTE
           IN  /\ \A k \in 0 .. 3 : ByteOf(v, k) \in 0 .. B - 1
               /\ v < 2^WORD => ByteOf(v, 1) * B + ByteOf(v, 0) = v
               /\ v < 2^LONG =>
                      (ByteOf(v, 3) * B + ByteOf(v, 2)) * 2^WORD + (ByteOf(v, 1) * B + ByteOf(v, 0)) = v
<1> DEFINE B == 2^BYTE
           W == 2^WORD
           q1 == v \div B
           q2 == v \div (B * B)
           q3 == v \div (B * B * B)
<1>1. B \in Nat \ {0} /\ W = B * B /\ 2^LONG = W * W
  BY MemorySizes
<1>2. 2^(BYTE * 0) = 1 /\ 2^(BYTE * 1) = B /\ 2^(BYTE * 2) = B * B /\ 2^(BYTE * 3) = B * B * B
  <2>1. /\ BYTE * 0 = 0 /\ BYTE * 1 = BYTE /\ BYTE * 2 = WORD /\ BYTE * 3 = WORD + BYTE
        /\ WORD + BYTE <= LONG /\ BYTE \in 0 .. LONG /\ WORD \in 0 .. LONG
    BY MemorySizes
  <2>2. 2^(WORD + BYTE) = 2^WORD * 2^BYTE /\ 2^0 = 1
    BY <2>1, PowersAre, PowersMultiply DEF Doubling
  <2> QED BY <2>1, <2>2, MemorySizes
<1>3. /\ ByteOf(v, 0) = v % B /\ ByteOf(v, 1) = q1 % B /\ ByteOf(v, 2) = q2 % B /\ ByteOf(v, 3) = q3 % B
  <2>1. v \div 1 = v
    OBVIOUS
  <2> QED BY <1>2, <2>1 DEF ByteOf, Mask
<1> HIDE DEF B, W
<1>4. B * B \in Nat \ {0} /\ B * B * B \in Nat \ {0}
  BY <1>1, Z3
<1> DEFINE DividedBy(y, M, q, r) ==
               /\ q \in Nat /\ r \in 0 .. M - 1 /\ y = q * M + r
               /\ \A k \in Int : (y < k * M) <=> (q < k)
<1>d. ASSUME NEW y \in Nat, NEW M \in Nat \ {0} PROVE DividedBy(y, M, y \div M, y % M)
  <2>1. y \in Int /\ y >= 0
    OBVIOUS
  <2> DEFINE q == y \div M
             r == y % M
  <2>2. /\ q \in Int /\ r \in 0 .. M - 1 /\ y = q * M + r /\ q >= 0
        /\ \A k \in Int : (y < k * M) <=> (q < k)
    BY <2>1, DivisionOf
  <2> HIDE DEF q, r
  <2>3. DividedBy(y, M, q, r)
    BY <2>2
  <2> QED BY <2>3 DEF q, r
<1>e. DividedBy(v, B, q1, v % B) /\ DividedBy(v, B * B, q2, v % (B * B)) /\ DividedBy(v, B * B * B, q3, v % (B * B * B))
  BY <1>1, <1>4, <1>d
<1>5. q1 \in Nat /\ q2 \in Nat /\ q3 \in Nat
  BY <1>e
<1>6. q2 = q1 \div B /\ q3 = q2 \div B
  <2>1. \A M \in Nat \ {0} : v \div (M * B) = (v \div M) \div B
    <3> SUFFICES ASSUME NEW M \in Nat \ {0} PROVE v \div (M * B) = (v \div M) \div B
      OBVIOUS
    <3> DEFINE y == v \div M
               r == v % M
               u == y \div B
               s == y % B
               c == s * M + r
               N == M * B
    <3>1. y \in Int /\ r \in 0 .. M - 1 /\ v = y * M + r
      BY DivisionOf
    <3> HIDE DEF y, r
    <3>2. u \in Int /\ s \in 0 .. B - 1 /\ y = u * B + s
      BY <1>1, <3>1, DivisionOf
    <3> HIDE DEF u, s
    <3>3. v = u * (M * B) + (s * M + r)
      <4>1. y * M = u * (M * B) + s * M
        BY <3>1, <3>2, <1>1, Z3
      <4> DEFINE a1 == y * M
                 a2 == u * (M * B)
                 a3 == s * M
      <4>2. a1 \in Int /\ a2 \in Int /\ a3 \in Int
        BY <3>1, <3>2, <1>1, Z3
      <4>3. a1 = a2 + a3 /\ v = a1 + r
        BY <4>1, <3>1
      <4> HIDE DEF a1, a2, a3
      <4>4. v = a2 + (a3 + r)
        BY <4>2, <4>3, <3>1
      <4> QED BY <4>4 DEF a2, a3
    <3>4. c \in 0 .. N - 1 /\ N \in Nat \ {0}
      <4>1. s * M >= 0 /\ s * M <= (B - 1) * M /\ (B - 1) * M = M * B - M
        BY <3>2, <1>1, Z3
      <4> DEFINE a3 == s * M
                 a4 == M * B
                 a5 == (B - 1) * M
      <4>2. a3 \in Int /\ a4 \in Int /\ a4 > 0 /\ a5 \in Int
        BY <3>2, <1>1, Z3
      <4>3. a3 >= 0 /\ a3 <= a5 /\ a5 = a4 - M
        BY <4>1
      <4> HIDE DEF a3, a4, a5
      <4>4. a3 + r \in 0 .. a4 - 1 /\ a4 \in Nat \ {0}
        BY <4>2, <4>3, <3>1
      <4> QED BY <4>4 DEF a3, a4
    <3>5. v = u * N + c
      BY <3>3
    <3> HIDE DEF N, c
    <3>6. v \div N = u
      BY <3>2, <3>4, <3>5, DivisionIs
    <3> QED BY <3>6 DEF N, u, y
  <2> QED BY <2>1, <1>1, <1>4
<1> DEFINE b0 == v % B
           b1 == q1 % B
           b2 == q2 % B
           b3 == q3 % B
<1>7. /\ b0 \in 0 .. B - 1 /\ b1 \in 0 .. B - 1 /\ b2 \in 0 .. B - 1 /\ b3 \in 0 .. B - 1
      /\ v = q1 * B + b0 /\ q1 = q2 * B + b1 /\ q2 = q3 * B + b2
  <2>1. DividedBy(q1, B, q2, b1) /\ DividedBy(q2, B, q3, b2) /\ DividedBy(q3, B, q3 \div B, b3)
    BY <1>1, <1>5, <1>6, <1>d
  <2> QED BY <2>1, <1>e
<1>8. v < W => b1 * B + b0 = v
  <2> SUFFICES ASSUME v < W PROVE b1 * B + b0 = v
    OBVIOUS
  <2>1. q1 < B
    BY <1>1, <1>e
  <2>2. q1 % B = q1
    BY <2>1, <1>5, <1>1
  <2> QED BY <2>2, <1>7
<1>9. v < W * W => (b3 * B + b2) * W + (b1 * B + b0) = v
  <2> SUFFICES ASSUME v < W * W PROVE (b3 * B + b2) * W + (b1 * B + b0) = v
    OBVIOUS
  <2>1. q3 < B
    <3>1. v < B * (B * B * B)
      BY <1>1, Z3
    <3> DEFINE C == B * B * B
    <3>2. C \in Nat \ {0} /\ v < B * C /\ q3 = v \div C /\ B \in Int
      BY <3>1, <1>4, <1>1
    <3> HIDE DEF C, q3
    <3>3. DividedBy(v, C, q3, v % C)
      BY <1>e DEF C, q3
    <3> QED BY <3>2, <3>3
  <2>2. q3 % B = q3
    BY <2>1, <1>5, <1>1
  <2> HIDE DEF q1, q2, q3
  <2>3. b3 * B + b2 = q2
    BY <2>2, <1>7
  <2>4. v = q2 * W + (b1 * B + b0)
    <3> HIDE DEF b0, b1, b2, b3
    <3>1. q1 * B = q2 * W + b1 * B
      BY <1>7, <1>1, <1>5, Z3
    <3> DEFINE a1 == q1 * B
               a2 == q2 * W
               a3 == b1 * B
    <3>2. a1 \in Int /\ a2 \in Int /\ a3 \in Int
      BY <1>7, <1>1, <1>5, Z3
    <3>3. a1 = a2 + a3 /\ v = a1 + b0 /\ b0 \in Int
      BY <3>1, <1>7
    <3> HIDE DEF a1, a2, a3
    <3>4. v = a2 + (a3 + b0)
      BY <3>2, <3>3
    <3> QED BY <3>4 DEF a2, a3
  <2> QED BY <2>3, <2>4
<1> QED BY <1>1, <1>3, <1>7, <1>8, <1>9 DEF B, W

\* A number that is written can be read again, and others are as they were.
LEMMA ReadBack ==
    ASSUME NEW m, Cells(m), NEW at \in Int, NEW w \in {WORD, LONG}, NEW v \in 0 .. 2^w - 1,
           at .. at + (IF w = WORD THEN 1 ELSE 3) \subseteq DOMAIN m
    PROVE  LET z == WriteMemory(m, w, at, v)
           IN  /\ Cells(z) /\ DOMAIN z = DOMAIN m
               /\ ReadMemory(z, w, at) = v
<1> DEFINE z == WriteMemory(m, w, at, v)
           n == IF w = WORD THEN 2 ELSE 4
           B == 2^BYTE
<1>1. v \in Nat
  BY MemorySizes
<1>2. \A k \in 0 .. 3 : ByteOf(v, k) \in 0 .. B - 1
  BY <1>1, BytesMake
<1>3. /\ DOMAIN z = DOMAIN m /\ \A i \in DOMAIN m : i \notin at .. at + n - 1 => z[i] = m[i]
      /\ \A k \in 0 .. n - 1 : at + k \in DOMAIN m => z[at + k] = ByteOf(v, n - 1 - k)
  BY WrittenIs
<1>4. B \in Nat \ {0}
  BY MemorySizes
<1> HIDE DEF z, B
<1>5. Cells(z)
  <2> SUFFICES ASSUME NEW i \in DOMAIN z PROVE i \in Int /\ z[i] \in Int
    BY DEF Cells
  <2>1. i \in DOMAIN m /\ i \in Int
    BY <1>3 DEF Cells
  <2>2. CASE i \notin at .. at + n - 1
    BY <2>1, <2>2, <1>3 DEF Cells
  <2>3. CASE i \in at .. at + n - 1
    <3> DEFINE k == i - at
    <3>1. k \in 0 .. n - 1 /\ at + k = i /\ n - 1 - k \in 0 .. 3
      BY <2>1, <2>3
    <3> HIDE DEF k
    <3>2. z[i] = ByteOf(v, n - 1 - k)
      BY <2>1, <3>1, <1>3
    <3> QED BY <3>1, <3>2, <1>2, <1>4, <2>1
  <2> QED BY <2>2, <2>3
<1>6. CASE w = WORD
  <2>1. z[at] = ByteOf(v, 1) /\ z[at + 1] = ByteOf(v, 0)
    <3>1. at + 0 = at /\ at \in DOMAIN m /\ at + 1 \in DOMAIN m /\ n = 2
      BY <1>6
    <3> QED BY <3>1, <1>3
  <2>2. ReadMemory(z, w, at) = z[at] * B + z[at + 1]
    BY <1>6, MemorySizes DEF ReadMemory, Read16, B
  <2>3. ByteOf(v, 1) * B + ByteOf(v, 0) = v
    BY <1>6, <1>1, MemorySizes, BytesMake DEF B
  <2> QED BY <1>3, <1>5, <2>1, <2>2, <2>3 DEF z
<1>7. CASE w = LONG
  <2>1. z[at] = ByteOf(v, 3) /\ z[at + 1] = ByteOf(v, 2) /\ z[at + 2] = ByteOf(v, 1) /\ z[at + 3] = ByteOf(v, 0)
    <3>1. at + 0 = at /\ at \in DOMAIN m /\ at + 1 \in DOMAIN m /\ at + 2 \in DOMAIN m /\ at + 3 \in DOMAIN m /\ n = 4
      BY <1>7, MemorySizes
    <3> QED BY <3>1, <1>3
  <2>2. ReadMemory(z, w, at) = (z[at] * B + z[at + 1]) * 2^WORD + (z[at + 2] * B + z[at + 3])
    <3>1. at + 2 + 1 = at + 3
      OBVIOUS
    <3> QED BY <3>1, <1>7, MemorySizes DEF ReadMemory, Read16, B
  <2>3. (ByteOf(v, 3) * B + ByteOf(v, 2)) * 2^WORD + (ByteOf(v, 1) * B + ByteOf(v, 0)) = v
    <3>1. v < 2^LONG
      BY <1>7, MemorySizes
    <3> QED BY <3>1, <1>1, BytesMake DEF B
  <2> QED BY <1>3, <1>5, <2>1, <2>2, <2>3 DEF z
<1> QED BY <1>6, <1>7

LEMMA ReadOther ==
    ASSUME NEW m, Cells(m), NEW at \in Int, NEW w \in {WORD, LONG},
           NEW u \in {WORD, LONG}, NEW p \in Int,
           p .. p + (IF u = WORD THEN 1 ELSE 3) \subseteq DOMAIN m,
           p + (IF u = WORD THEN 1 ELSE 3) < at \/ at + (IF w = WORD THEN 1 ELSE 3) < p
    PROVE  \A v : ReadMemory(WriteMemory(m, w, at, v), u, p) = ReadMemory(m, u, p)
<1> SUFFICES ASSUME NEW v PROVE ReadMemory(WriteMemory(m, w, at, v), u, p) = ReadMemory(m, u, p)
  OBVIOUS
<1> DEFINE z == WriteMemory(m, w, at, v)
           n == IF w = WORD THEN 2 ELSE 4
<1>1. \A i \in DOMAIN m : i \notin at .. at + n - 1 => z[i] = m[i]
  BY WrittenIs
<1> HIDE DEF z
<1>2. CASE u = WORD
  <2>1. z[p] = m[p] /\ z[p + 1] = m[p + 1]
    BY <1>1, <1>2
  <2> QED BY <1>2, <2>1, MemorySizes DEF ReadMemory, Read16, z
<1>3. CASE u = LONG
  <2>1. z[p] = m[p] /\ z[p + 1] = m[p + 1] /\ z[p + 2] = m[p + 2] /\ z[p + 2 + 1] = m[p + 2 + 1]
    <3>1. p + 3 < at \/ at + n - 1 < p
      BY <1>3, MemorySizes
    <3>2. {p, p + 1, p + 2, p + 3} \subseteq DOMAIN m /\ p + 2 + 1 = p + 3
      BY <1>3, MemorySizes
    <3>3. p \notin at .. at + n - 1 /\ p + 1 \notin at .. at + n - 1
          /\ p + 2 \notin at .. at + n - 1 /\ p + 3 \notin at .. at + n - 1
      BY <3>1
    <3> QED BY <1>1, <3>2, <3>3
  <2> QED BY <1>3, <2>1, MemorySizes DEF ReadMemory, Read16, z
<1> QED BY <1>2, <1>3

\* A list of bytes read at once is the number in memory.
NumberTo(f, m, at, n) ==
    f = [i \in 0 .. n |-> IF i = 0 THEN 0 ELSE f[i - 1] * 2^BYTE + m[at + 1 * (i - 1)]]

LEMMA NumberAtIs ==
    ASSUME NEW m, Cells(m), NEW at \in Int, at .. at + 3 \subseteq DOMAIN m
    PROVE  NumberAt(m, at, LONG) = ReadMemory(m, LONG, at)
<1> DEFINE B == 2^BYTE
           m0 == m[at]
           m1 == m[at + 1]
           m2 == m[at + 2]
           m3 == m[at + 3]
           n1 == m0
           n2 == n1 * B + m1
           n3 == n2 * B + m2
           n4 == n3 * B + m3
           g == [i \in 0 .. 4 |-> CASE i = 0 -> 0 [] i = 1 -> n1 [] i = 2 -> n2 [] i = 3 -> n3 [] i = 4 -> n4]
           f == CHOOSE h : h = [i \in 0 .. 4 |-> IF i = 0 THEN 0 ELSE h[i - 1] * B + m[at + 1 * (i - 1)]]
<1>1. B \in Nat \ {0} /\ m0 \in Int /\ m1 \in Int /\ m2 \in Int /\ m3 \in Int
  BY MemorySizes DEF Cells
<1>2. 0 * B = 0 /\ 0 .. 4 = {0, 1, 2, 3, 4} /\ 0 + m0 = m0
  BY <1>1
<1>3. at + 1 * (1 - 1) = at /\ at + 1 * (2 - 1) = at + 1 /\ at + 1 * (3 - 1) = at + 2 /\ at + 1 * (4 - 1) = at + 3
  OBVIOUS
<1>4. NumberTo(g, m, at, 4)
  <2> HIDE DEF n2, n3, n4, m0, m1, m2, m3, B
  <2> DEFINE z(i) == IF i = 0 THEN 0 ELSE g[i - 1] * B + m[at + 1 * (i - 1)]
  <2>1. g[0] = 0 /\ g[1] = n1 /\ g[2] = n2 /\ g[3] = n3 /\ g[4] = n4
    OBVIOUS
  <2>2. 1 - 1 = 0 /\ 2 - 1 = 1 /\ 3 - 1 = 2 /\ 4 - 1 = 3
    OBVIOUS
  <2> HIDE DEF g
  <2>3. z(0) = 0 /\ z(1) = n1 /\ z(2) = n2 /\ z(3) = n3 /\ z(4) = n4
    BY <2>1, <2>2, <1>2, <1>3 DEF n2, n3, n4, m0, m1, m2, m3
  <2>4. \A i \in 0 .. 4 : g[i] = z(i)
    BY <2>1, <2>3, <1>2
  <2> HIDE DEF z
  <2>5. g = [i \in 0 .. 4 |-> z(i)]
    <3>1. DOMAIN g = 0 .. 4 /\ g = [i \in 0 .. 4 |-> g[i]]
      BY DEF g
    <3> QED BY <3>1, <2>4
  <2> QED BY <2>5 DEF NumberTo, z, B
<1> HIDE DEF g
<1>5. NumberTo(f, m, at, 4)
  BY <1>4 DEF NumberTo
<1>6. NumberAt(m, at, LONG) = f[4]
  <2>1. Bytes(LONG) = 4
    BY MemorySizes
  <2> QED BY <2>1 DEF NumberAt, NumberOf
<1> HIDE DEF f
<1>7. f[0] = 0 /\ f[1] = n1 /\ f[2] = n2 /\ f[3] = n3 /\ f[4] = n4
  <2> HIDE DEF B
  <2>1. f[0] = 0
    BY <1>5, <1>2 DEF NumberTo
  <2>2. f[1] = f[1 - 1] * B + m[at + 1 * (1 - 1)] /\ f[2] = f[2 - 1] * B + m[at + 1 * (2 - 1)]
        /\ f[3] = f[3 - 1] * B + m[at + 1 * (3 - 1)] /\ f[4] = f[4 - 1] * B + m[at + 1 * (4 - 1)]
    BY <1>5, <1>2 DEF NumberTo, B
  <2>3. 1 - 1 = 0 /\ 2 - 1 = 1 /\ 3 - 1 = 2 /\ 4 - 1 = 3
    OBVIOUS
  <2> QED BY <2>1, <2>2, <2>3, <1>2, <1>3
<1>8. ReadMemory(m, LONG, at) = (m0 * B + m1) * 2^WORD + (m2 * B + m3)
  <2>1. at + 2 + 1 = at + 3
    OBVIOUS
  <2> QED BY <2>1, MemorySizes DEF ReadMemory, Read16
<1>9. n4 = (m0 * B + m1) * 2^WORD + (m2 * B + m3)
  <2>1. 2^WORD = B * B
    BY MemorySizes
  <2> HIDE DEF m0, m1, m2, m3, B
  <2>2. n2 * B * B = n2 * (B * B) /\ n2 \in Int
    BY <1>1, Z3
  <2>3. n4 = n2 * B * B + (m2 * B + m3)
    <3> HIDE DEF n2
    <3>1. (n2 * B + m2) * B = n2 * B * B + m2 * B
      BY <2>2, <1>1, Z3
    <3> DEFINE a1 == n2 * B * B
               a2 == m2 * B
    <3>2. a1 \in Int /\ a2 \in Int /\ n3 * B = a1 + a2
      BY <2>2, <1>1, <3>1, Z3
    <3> HIDE DEF a1, a2
    <3>3. n3 * B + m3 = a1 + (a2 + m3)
      BY <3>2, <1>1
    <3> QED BY <3>3 DEF a1, a2
  <2> QED BY <2>1, <2>2, <2>3
<1> QED BY <1>6, <1>7, <1>8, <1>9

-----------------------------------------------------------------------------
(* Instructions of subroutines                                             *)

FrameOps == {"bsr", "jmp", "link", "move", "tst", "bcc", "bra", "sub", "add", "unlk", "rts", "pea",
             "jsr", "rtd"}

LEMMA RegisterOps == Next => Here.op \notin FrameOps
<1>1. Add \/ Sub \/ Neg \/ Compare \/ AddSubQuick => Here.op \notin FrameOps
  BY DEF Add, Sub, Neg, Compare, AddSubQuick, ExecutesLong, ExecutesQuick, Executes, FrameOps
<1>2. Address \/ BinaryDecimal \/ Logic \/ Move => Here.op \notin FrameOps
  BY DEF Address, BinaryDecimal, Logic, Move, ExecutesLong, ExecutesDecimal, Executes, FrameOps
<1>3. ChangeBit \/ ChangeField \/ InsertField \/ ExtractField => Here.op \notin FrameOps
  BY DEF ChangeBit, ChangeField, InsertField, ExtractField, ExecutesCount, ExecutesField, Executes,
         FrameOps
<1>4. Shift \/ Rotate \/ Multiply => Here.op \notin FrameOps
  BY DEF Shift, Rotate, Multiply, ExecutesCount, ExecutesLong, Executes, FrameOps
<1>5. CompareAndSwap \/ Divide \/ MultiplyLong \/ DivideLong => Here.op \notin FrameOps
  BY DEF CompareAndSwap, Divide, MultiplyLong, DivideLong, FrameOps
<1>6. Bcc \/ Scc \/ DBcc => Here.op \notin FrameOps
  BY DEF Bcc, Scc, DBcc, FrameOps
<1> QED BY <1>1, <1>2, <1>3, <1>4, <1>5, <1>6 DEF Next

\* The next step is that of the instruction.
LEMMA FrameSteps ==
    ASSUME GuestNext, Here.op \in FrameOps
    PROVE  /\ Running /\ UNCHANGED <<routine, code, was>>
           /\ Here.op = "bsr" => bsr
           /\ Here.op = "jmp" => jmp_32
           /\ Here.op = "link" => link
           /\ Here.op = "move" => move
           /\ Here.op = "tst" => tst
           /\ Here.op = "bcc" => bcc
           /\ Here.op = "bra" => bra
           /\ Here.op = "sub" => sub
           /\ Here.op = "add" => add
           /\ Here.op = "unlk" => unlk
           /\ Here.op = "rts" => rts_32
           /\ Here.op = "pea" => pea_32
           /\ Here.op = "jsr" => jsr_32
           /\ Here.op = "rtd" => rtd_32
<1>1. MemoryStep
  BY RegisterOps DEF GuestNext
<1>2. Running /\ UNCHANGED <<routine, code, was>>
  BY ProgramsKept, <1>1
<1>3. and \/ or \/ eor \/ neg \/ negx \/ not \/ clr \/ addx \/ subx \/ cmp => Here.op \notin FrameOps
  BY DEF and, or, eor, neg, negx, not, clr, addx, subx, cmp, Op, FrameOps
<1>4. asl_16 \/ asr_16 \/ lsl_16 \/ lsr_16 \/ rol_16 \/ ror_16 \/ roxl_16 \/ roxr_16
      => Here.op \notin FrameOps
  BY DEF asl_16, asr_16, lsl_16, lsr_16, rol_16, ror_16, roxl_16, roxr_16, Op, FrameOps
<1>5. bset \/ bclr \/ bchg \/ btst \/ movea_16 \/ movea_32 \/ movem \/ movep \/ exg_32
      => Here.op \notin FrameOps
  BY DEF bset, bclr, bchg, btst, movea_16, movea_32, movem, movep, exg_32, Op, FrameOps
<1>6. mulu_16 \/ muls_16 \/ divu_16 \/ divs_16 \/ mull \/ divl => Here.op \notin FrameOps
  BY DEF mulu_16, muls_16, divu_16, divs_16, mull, divl, Op, FrameOps
<1>7. cas \/ cas2 \/ tas_8 \/ scc_8 \/ chk \/ chk2 \/ trap \/ trapv \/ lea_32 => Here.op \notin FrameOps
  BY DEF cas, cas2, tas_8, scc_8, chk, chk2, trap, trapv, lea_32, Op, FrameOps
<1>8. bftst_32 \/ bfset_32 \/ bfclr_32 \/ bfchg_32 \/ bfins_32 \/ bfextu_32 \/ bfexts_32 \/ bfffo_32
      => Here.op \notin FrameOps
  BY DEF bftst_32, bfset_32, bfclr_32, bfchg_32, bfins_32, bfextu_32, bfexts_32, bfffo_32, Op, FrameOps
<1>9. \/ add \/ sub \/ tst \/ move \/ bra \/ bcc \/ bsr \/ jmp_32 \/ jsr_32 \/ rts_32 \/ rtd_32
      \/ pea_32 \/ link \/ unlk
  BY <1>1, <1>3, <1>4, <1>5, <1>6, <1>7, <1>8 DEF MemoryStep
<1>10. /\ add => Here.op = "add"
       /\ sub => Here.op = "sub"
       /\ tst => Here.op = "tst"
       /\ move => Here.op = "move"
       /\ bra => Here.op = "bra"
       /\ bcc => Here.op = "bcc"
       /\ bsr => Here.op = "bsr"
  BY DEF add, sub, tst, move, bra, bcc, bsr, Op
<1>11. /\ jmp_32 => Here.op = "jmp"
       /\ jsr_32 => Here.op = "jsr"
       /\ rts_32 => Here.op = "rts"
       /\ rtd_32 => Here.op = "rtd"
       /\ pea_32 => Here.op = "pea"
       /\ link => Here.op = "link"
       /\ unlk => Here.op = "unlk"
  BY DEF jmp_32, jsr_32, rts_32, rtd_32, pea_32, link, unlk, Op
<1> QED BY <1>2, <1>9, <1>10, <1>11

\* Registers hold longs, and memory holds numbers.
Machine == d \in [REG_D -> Longs] /\ areg \in [REG_A -> Longs] /\ Cells(mem)

Core(R, m) == [r |-> R, m |-> m]

LEMMA CoreIs ==
    ASSUME Machine
    PROVE  /\ cpu = Core(AllRegisters, mem) /\ DOMAIN AllRegisters = REG_DA
           /\ AllRegisters[0] = d[0] /\ AllRegisters[1] = d[1] /\ AllRegisters[2] = d[2] /\ AllRegisters[3] = d[3]
           /\ AllRegisters[8] = areg[8] /\ AllRegisters[9] = areg[9] /\ AllRegisters[SP] = areg[SP]
<1>1. cpu = Core(AllRegisters, mem)
  BY DEF cpu, Core
<1>3. AllRegisters = [r \in REG_DA |-> IF r \in REG_D THEN d[r] ELSE areg[r]]
  BY DEF AllRegisters
<1>4. /\ 0 \in REG_D /\ 1 \in REG_D /\ 2 \in REG_D /\ 3 \in REG_D
      /\ 8 \notin REG_D /\ 9 \notin REG_D /\ SP \notin REG_D
      /\ 8 \in REG_A /\ 9 \in REG_A /\ SP \in REG_A
  BY DEF REG_D, REG_A, SP
<1> QED BY <1>1, <1>3, <1>4 DEF REG_DA

Set(R, i, v) == [R EXCEPT ![i] = v]

LEMMA CoreSet ==
    /\ \A R, m, i, v : SetLong(Core(R, m), i, v) = Core(Set(R, i, Mask(LONG, v)), m)
    /\ \A R, m, w, i, v :
           SetLow(Core(R, m), w, i, v) = Core(Set(R, i, R[i] - Mask(w, R[i]) + Mask(w, v)), m)
    /\ \A R, m, w, at, v : Write(Core(R, m), w, at, v) = Core(R, WriteMemory(m, w, at, v))
    /\ \A R, m, w, at : Read(Core(R, m), w, at) = ReadMemory(m, w, at)
    /\ \A R, m : Core(R, m).r = R /\ Core(R, m).m = m
<1>1. \A R, m, i, v : SetLong(Core(R, m), i, v) = Core(Set(R, i, Mask(LONG, v)), m)
  BY DEF SetLong, Core, Set
<1>2. \A R, m, w, i, v :
          SetLow(Core(R, m), w, i, v) = Core(Set(R, i, R[i] - Mask(w, R[i]) + Mask(w, v)), m)
  BY DEF SetLow, Core, Set
<1>3. \A R, m, w, at, v : Write(Core(R, m), w, at, v) = Core(R, WriteMemory(m, w, at, v))
  BY DEF Write, Core
<1>4. \A R, m, w, at : Read(Core(R, m), w, at) = ReadMemory(m, w, at)
  BY DEF Read, Core
<1>5. \A R, m : Core(R, m).r = R /\ Core(R, m).m = m
  BY DEF Core
<1> QED BY <1>1, <1>2, <1>3, <1>4, <1>5

LEMMA CoreBecomes ==
    ASSUME NEW R, NEW m, NEW f, Becomes(Core(R, m), f)
    PROVE  /\ d' = [r \in REG_D |-> R[r]] /\ areg' = [r \in REG_A |-> R[r]] /\ mem' = m /\ ccr' = f
  BY DEF Becomes, Core

\* Small numbers are what they are.
LEMMA SmallNumbers ==
    /\ \A v \in 0 .. 255 : Mask(LONG, v) = v /\ v \in Longs
    /\ \A v \in Longs : Mask(LONG, v) = v
    /\ \A v \in 0 .. 15 : Mask(WORD, v) = v /\ v \in Words
    /\ \A w \in {WORD, LONG}, v \in -8 .. 7 : Signed(w, Mask(w, v)) = v
    /\ \A w \in {WORD, LONG} : Signed(w, Minus(w, 2)) = -2 /\ Signed(w, Mask(w, Minus(w, 2))) = -2
                               /\ Signed(w, Mask(w, Minus(w, 0))) = 0
<1>1. 2^LONG \in Nat /\ 2^LONG >= 256 /\ 2^WORD \in Nat /\ 2^WORD >= 16
  BY MemorySizes, PowersAre
<1>2. /\ \A v \in 0 .. 255 : Mask(LONG, v) = v /\ v \in Longs
      /\ \A v \in Longs : Mask(LONG, v) = v
      /\ \A v \in 0 .. 15 : Mask(WORD, v) = v /\ v \in Words
  <2> DEFINE L == 2^LONG
             W == 2^WORD
  <2>1. L \in Nat /\ L >= 256 /\ W \in Nat /\ W >= 16 /\ Longs = 0 .. L - 1 /\ Words = 0 .. W - 1
    BY <1>1 DEF Longs, Words
  <2> HIDE DEF L, W
  <2>2. (\A v \in 0 .. L - 1 : v % L = v) /\ (\A v \in 0 .. W - 1 : v % W = v)
    BY <2>1
  <2>3. (\A v \in 0 .. L - 1 : Mask(LONG, v) = v) /\ (\A v \in 0 .. W - 1 : Mask(WORD, v) = v)
    BY <2>2 DEF Mask, L, W
  <2>4. ASSUME NEW v \in 0 .. 255 PROVE Mask(LONG, v) = v /\ v \in Longs
    <3>1. v \in 0 .. L - 1
      BY <2>1
    <3> QED BY <3>1, <2>1, <2>3
  <2>5. ASSUME NEW v \in 0 .. 15 PROVE Mask(WORD, v) = v /\ v \in Words
    <3>1. v \in 0 .. W - 1
      BY <2>1
    <3> QED BY <3>1, <2>1, <2>3
  <2> QED BY <2>1, <2>3, <2>4, <2>5
<1>3. ASSUME NEW w \in {WORD, LONG}, NEW v \in -8 .. 7 PROVE Signed(w, Mask(w, v)) = v /\ Signed(w, v) = v
  <2>1. HasSign(w) /\ 2^w >= 16
    BY <1>1, SizesAre
  <2>2. InRange(w, v)
    BY <2>1 DEF HasSign, InRange
  <2> QED BY <2>1, <2>2, SignedOfAny
<1>4. ASSUME NEW w \in {WORD, LONG}, NEW k \in {0, 2}
      PROVE  Signed(w, Mask(w, Minus(w, k))) = 0 - k /\ Signed(w, Minus(w, k)) = 0 - k
  <2> DEFINE M == 2^w
  <2>1. M \in Nat /\ M >= 16 /\ HasSign(w)
    BY <1>1, SizesAre
  <2>2. Mask(w, Minus(w, k)) = Mask(w, 0 - k)
    <3>1. (M - k) % M = (0 - k) % M
      <4> HIDE DEF M
      <4>1. CASE k = 0
        BY <2>1, <4>1
      <4>2. CASE k = 2
        BY <2>1, <4>2
      <4> QED BY <4>1, <4>2
    <3> QED BY <3>1 DEF Mask, Minus
  <2>3. 0 - k \in -8 .. 7 /\ 0 - k \in Int /\ Minus(w, k) \in Int
    BY <2>1 DEF Minus
  <2>4. Signed(w, Minus(w, k)) = Signed(w, Mask(w, Minus(w, k)))
    BY <2>1, <2>3, SignedOfAny
  <2> QED BY <2>2, <2>3, <2>4, <1>3
<1>5. \A w \in {WORD, LONG} : Signed(w, Minus(w, 2)) = -2 /\ Signed(w, Mask(w, Minus(w, 2))) = -2
                               /\ Signed(w, Mask(w, Minus(w, 0))) = 0
  <2>1. 0 - 0 = 0 /\ 0 - 2 = -2
    OBVIOUS
  <2> QED BY <1>4, <2>1
<1> QED BY <1>2, <1>3, <1>5

LEMMA PushIs ==
    ASSUME NEW R, NEW m, NEW q, Mask(LONG, R[SP] - 4) = q, Mask(LONG, q) = q, NEW v
    PROVE  Push(Core(R, m), v) = Core(Set(R, SP, q), WriteMemory(m, LONG, q, v))
<1>1. Core(R, m).r = R
  BY CoreSet
<1>2. Push(Core(R, m), v) = Write(SetLong(Core(R, m), SP, R[SP] - 4), LONG, q, v)
  BY <1>1 DEF Push
<1>3. SetLong(Core(R, m), SP, R[SP] - 4) = Core(Set(R, SP, q), m)
  BY CoreSet
<1> QED BY <1>2, <1>3, CoreSet

\* A call pushes the address of the next instruction.
LEMMA CallStep ==
    ASSUME Machine, areg[SP] \in 4 .. Stack, pc \in 1 .. 13, NEW to, Calls(cpu, to)
    PROVE  /\ pc' = to /\ d' = d /\ ccr' = ccr
           /\ areg' = [areg EXCEPT ![SP] = areg[SP] - 4]
           /\ mem' = WriteMemory(mem, LONG, areg[SP] - 4, pc + 1)
<1> DEFINE R == AllRegisters
           s == areg[SP]
           q == s - 4
           Q == Set(R, SP, q)
<1>1. cpu = Core(R, mem) /\ R[SP] = s /\ DOMAIN R = REG_DA /\ s \in Int
  BY CoreIs
<1>2. Mask(LONG, s - 4) = q /\ Mask(LONG, q) = q /\ q \in Int
  <2>1. q \in 0 .. 255
    BY DEF Stack
  <2> QED BY <2>1, SmallNumbers
<1>3. Push(cpu, pc + 1) = Core(Q, WriteMemory(mem, LONG, q, pc + 1))
  <2>1. Mask(LONG, R[SP] - 4) = q
    BY <1>1, <1>2
  <2> HIDE DEF R, q
  <2>2. Push(Core(R, mem), pc + 1) = Core(Set(R, SP, q), WriteMemory(mem, LONG, q, pc + 1))
    BY <1>2, <2>1, PushIs
  <2> QED BY <1>1, <2>2
<1> HIDE DEF Q
<1>4. Becomes(Core(Q, WriteMemory(mem, LONG, q, pc + 1)), ccr) /\ pc' = to
  BY <1>3 DEF Calls, Jumps, Goes
<1>5. /\ d' = [r \in REG_D |-> Q[r]] /\ areg' = [r \in REG_A |-> Q[r]]
      /\ mem' = WriteMemory(mem, LONG, q, pc + 1) /\ ccr' = ccr
  BY <1>4, CoreBecomes
<1>6. d' = d
  BY <1>1, <1>5, CoreIs DEF Q, Set, Machine, REG_D, SP, REG_DA
<1>7. areg' = [areg EXCEPT ![SP] = q]
  BY <1>1, <1>5, CoreIs DEF Q, Set, Machine, REG_A, SP, REG_DA
<1> QED BY <1>4, <1>5, <1>6, <1>7

\* Where an operand is.
LEMMA EAIs ==
    ASSUME NEW w, NEW R, NEW m, NEW x
    PROVE  LET c == Core(R, m)
           IN  /\ x.mode = "d" => EA(w, c, x) = Place(c, "register", x.r)
               /\ x.mode = "di" => EA(w, c, x) = Place(c, "memory", Mask(LONG, R[x.r] + Signed(WORD, x.disp)))
               /\ x.mode = "al" => EA(w, c, x) = Place(c, "memory", Mask(LONG, x.disp))
               /\ x.mode = "pd" =>
                      LET p == SetLong(c, x.r, R[x.r] - Step(w, x.r))
                      IN  EA(w, c, x) = Place(p, "memory", p.r[x.r])
               /\ x.mode = "ix" => EA(w, c, x) = Place(c, "memory", Mask(LONG, m68ki_get_ea_ix(c, x, R[x.r])))
<1> DEFINE c == Core(R, m)
<1>1. c.r = R
  BY DEF Core
<1> HIDE DEF c
<1>2. x.mode = "d" => EA(w, c, x) = Place(c, "register", x.r)
  BY DEF EA
<1>3. x.mode = "di" => EA(w, c, x) = Place(c, "memory", Mask(LONG, R[x.r] + Signed(WORD, x.disp)))
  BY <1>1 DEF EA
<1>4. x.mode = "al" => EA(w, c, x) = Place(c, "memory", Mask(LONG, x.disp))
  BY <1>1 DEF EA
<1>5. x.mode = "pd" => LET p == SetLong(c, x.r, R[x.r] - Step(w, x.r))
                       IN  EA(w, c, x) = Place(p, "memory", p.r[x.r])
  BY <1>1 DEF EA
<1>6. x.mode = "ix" => EA(w, c, x) = Place(c, "memory", Mask(LONG, m68ki_get_ea_ix(c, x, R[x.r])))
  BY <1>1 DEF EA
<1> QED BY <1>2, <1>3, <1>4, <1>5, <1>6 DEF c

\* What is read and written there.
LEMMA PlaceIs ==
    /\ \A w, R, m, at : Value(w, Place(Core(R, m), "register", at)) = Mask(w, R[at])
    /\ \A w, R, m, at : Value(w, Place(Core(R, m), "memory", at)) = ReadMemory(m, w, at)
    /\ \A w, R, m, at, v :
           Stored(w, Place(Core(R, m), "register", at), v) = Core(Set(R, at, R[at] - Mask(w, R[at]) + Mask(w, v)), m)
    /\ \A w, R, m, at, v : Stored(w, Place(Core(R, m), "memory", at), v) = Core(R, WriteMemory(m, w, at, v))
    /\ \A c, kind, at : Place(c, kind, at).at = at /\ Place(c, kind, at).cpu = c
<1>1. /\ \A c, kind, at : Place(c, kind, at).at = at /\ Place(c, kind, at).cpu = c /\ Place(c, kind, at).in = kind
  BY DEF Place
<1>2. ASSUME NEW w, NEW R, NEW m, NEW at
      PROVE  /\ Value(w, Place(Core(R, m), "register", at)) = Mask(w, R[at])
             /\ Value(w, Place(Core(R, m), "memory", at)) = ReadMemory(m, w, at)
  <2> DEFINE c == Core(R, m)
  <2>1. c.r = R /\ Read(c, w, at) = ReadMemory(m, w, at)
    BY CoreSet
  <2> HIDE DEF c
  <2>2. Value(w, Place(c, "register", at)) = Mask(w, R[at]) /\ Value(w, Place(c, "memory", at)) = ReadMemory(m, w, at)
    BY <2>1 DEF Value, Place
  <2> QED BY <2>2 DEF c
<1>3. ASSUME NEW w, NEW R, NEW m, NEW at, NEW v
      PROVE  /\ Stored(w, Place(Core(R, m), "register", at), v) =
                    Core(Set(R, at, R[at] - Mask(w, R[at]) + Mask(w, v)), m)
             /\ Stored(w, Place(Core(R, m), "memory", at), v) = Core(R, WriteMemory(m, w, at, v))
  <2> DEFINE c == Core(R, m)
  <2>1. /\ SetLow(c, w, at, v) = Core(Set(R, at, R[at] - Mask(w, R[at]) + Mask(w, v)), m)
        /\ Write(c, w, at, v) = Core(R, WriteMemory(m, w, at, v))
    BY CoreSet
  <2> HIDE DEF c
  <2>2. /\ Stored(w, Place(c, "register", at), v) = SetLow(c, w, at, v)
        /\ Stored(w, Place(c, "memory", at), v) = Write(c, w, at, v)
    BY DEF Stored, Place
  <2> QED BY <2>1, <2>2 DEF c
<1> QED BY <1>1, <1>2, <1>3

\* LINK: the frame pointer is pushed and points to where it is, behind which
\* there is room for local variables.
LEMMA LinkStep ==
    ASSUME Machine, link, Here.d = 8, NEW size \in {0, 2}, areg[SP] \in 4 + size .. Stack,
           Signed(Here.w, Here.disp) = 0 - size
    PROVE  /\ pc' = pc + 1 /\ d' = d
           /\ areg' = [areg EXCEPT ![8] = areg[SP] - 4, ![SP] = areg[SP] - 4 - size]
           /\ mem' = WriteMemory(mem, LONG, areg[SP] - 4, areg[8])
<1> DEFINE R == AllRegisters
           s == areg[SP]
           a == areg[8]
           q == s - 4
           z == q - size
           P == Set(R, SP, q)
           T == Set(P, 8, q)
           Q == Set(T, SP, z)
           m == WriteMemory(mem, LONG, q, a)
<1>1. cpu = Core(R, mem) /\ R[SP] = s /\ R[8] = a /\ DOMAIN R = REG_DA /\ s \in Int
  BY CoreIs
<1>2. Mask(LONG, s - 4) = q /\ Mask(LONG, q) = q /\ Mask(LONG, z) = z /\ q \in Int /\ z \in Int
  <2>1. q \in 0 .. 255 /\ z \in 0 .. 255 /\ s - 4 = q
    BY DEF Stack
  <2> HIDE DEF q, z, s
  <2> QED BY <2>1, SmallNumbers
<1>3. 8 # SP /\ 8 \in REG_DA /\ SP \in REG_DA
  BY DEF SP, REG_DA, REG_A
<1>4. Push(cpu, cpu.r[8]) = Core(P, m)
  <2>0. Mask(LONG, R[SP] - 4) = q
    BY <1>1, <1>2
  <2> HIDE DEF R, q, a
  <2>1. Push(Core(R, mem), a) = Core(P, m)
    BY <1>2, <2>0, PushIs
  <2>2. cpu.r[8] = a
    BY <1>1, CoreSet
  <2> QED BY <1>1, <2>1, <2>2
<1>5. P[SP] = q /\ T[SP] = q
  BY <1>1, <1>3 DEF Set
<1>6. Links /\ pc' = pc + 1
  BY <1>3 DEF link, link_16, link_32, Links, LinksA7, Leaves, Goes
<1>7. Leaves(Reserved(SetLong(Core(P, m), 8, q)), ccr)
  <2>1. Core(P, m).r[SP] = q
    BY <1>5, CoreSet
  <2> HIDE DEF P, m, q
  <2> QED BY <1>4, <1>6, <2>1 DEF Links
<1>8. Reserved(SetLong(Core(P, m), 8, q)) = Core(Q, m)
  <2>1. SetLong(Core(P, m), 8, q) = Core(T, m)
    <3> HIDE DEF P, m, q
    <3> QED BY <1>2, CoreSet
  <2>2. Core(T, m).r[SP] = q
    BY <1>5, CoreSet
  <2>3. Reserved(Core(T, m)) = SetLong(Core(T, m), SP, z)
    <3>1. q + (0 - size) = z
      BY <1>1
    <3> HIDE DEF T, m, q, z
    <3> QED BY <2>2, <3>1 DEF Reserved
  <2>4. SetLong(Core(T, m), SP, z) = Core(Q, m)
    <3> HIDE DEF T, m, q, z
    <3> QED BY <1>2, CoreSet
  <2> QED BY <2>1, <2>3, <2>4
<1> HIDE DEF m, Q
<1>9. Becomes(Core(Q, m), ccr)
  BY <1>7, <1>8 DEF Leaves
<1>10. d' = [r \in REG_D |-> Q[r]] /\ areg' = [r \in REG_A |-> Q[r]] /\ mem' = m
  BY <1>9, CoreBecomes
<1>11. d' = d
  BY <1>1, <1>10, CoreIs DEF Q, T, P, Set, Machine, REG_D, SP, REG_DA
<1>12. areg' = [areg EXCEPT ![8] = q, ![SP] = z]
  BY <1>1, <1>10, CoreIs DEF Q, T, P, Set, Machine, REG_A, SP, REG_DA
<1> QED BY <1>6, <1>10, <1>11, <1>12 DEF m

\* What registers become.
Then(registers, addresses, m, f) == d' = registers /\ areg' = addresses /\ mem' = m /\ ccr' = f

LEMMA RegistersBecome ==
    ASSUME Machine, NEW m, NEW f
    PROVE  LET R == AllRegisters
           IN  /\ Becomes(Core(R, m), f) => Then(d, areg, m, f)
               /\ \A z : Becomes(Core(Set(R, SP, z), m), f) => Then(d, [areg EXCEPT ![SP] = z], m, f)
               /\ \A a, z : Becomes(Core(Set(Set(R, 8, a), SP, z), m), f)
                             => Then(d, [areg EXCEPT ![8] = a, ![SP] = z], m, f)
               /\ \A i \in REG_D : \A v : Becomes(Core(Set(R, i, v), m), f) => Then([d EXCEPT ![i] = v], areg, m, f)
<1> DEFINE R == AllRegisters
<1>1. DOMAIN R = REG_DA /\ (\A r \in REG_D : R[r] = d[r]) /\ \A r \in REG_A : R[r] = areg[r]
  BY DEF AllRegisters, REG_DA, REG_D, REG_A, SP
<1>2. d = [r \in REG_D |-> d[r]] /\ areg = [r \in REG_A |-> areg[r]]
  BY DEF Machine
<1>3. /\ 8 \in REG_A /\ SP \in REG_A /\ 8 # SP /\ REG_DA = REG_D \cup REG_A
      /\ \A i \in REG_D : i # 8 /\ i # SP /\ i \notin REG_A
      /\ \A i \in REG_A : i \notin REG_D
  BY DEF REG_DA, REG_D, REG_A, SP
<1> HIDE DEF R
<1>4. ASSUME NEW Q, Becomes(Core(Q, m), f)
      PROVE  d' = [r \in REG_D |-> Q[r]] /\ areg' = [r \in REG_A |-> Q[r]] /\ mem' = m /\ ccr' = f
  BY <1>4, CoreBecomes
<1>5. Becomes(Core(R, m), f) => Then(d, areg, m, f)
  <2> SUFFICES ASSUME Becomes(Core(R, m), f) PROVE Then(d, areg, m, f)
    OBVIOUS
  <2>1. d' = [r \in REG_D |-> R[r]] /\ areg' = [r \in REG_A |-> R[r]] /\ mem' = m /\ ccr' = f
    BY <1>4
  <2> QED BY <2>1, <1>1, <1>2 DEF Then
<1>6. ASSUME NEW z, Becomes(Core(Set(R, SP, z), m), f) PROVE Then(d, [areg EXCEPT ![SP] = z], m, f)
  <2> DEFINE Q == Set(R, SP, z)
  <2>1. d' = [r \in REG_D |-> Q[r]] /\ areg' = [r \in REG_A |-> Q[r]] /\ mem' = m /\ ccr' = f
    BY <1>4, <1>6
  <2>2. (\A r \in REG_D : Q[r] = d[r]) /\ \A r \in REG_A : Q[r] = IF r = SP THEN z ELSE areg[r]
    BY <1>1, <1>3 DEF Set
  <2>3. d' = d
    BY <2>1, <2>2, <1>2
  <2>4. areg' = [areg EXCEPT ![SP] = z]
    BY <2>1, <2>2, <1>2
  <2> QED BY <2>1, <2>3, <2>4 DEF Then
<1>7. ASSUME NEW a, NEW z, Becomes(Core(Set(Set(R, 8, a), SP, z), m), f)
      PROVE  Then(d, [areg EXCEPT ![8] = a, ![SP] = z], m, f)
  <2> DEFINE Q == Set(Set(R, 8, a), SP, z)
  <2>1. d' = [r \in REG_D |-> Q[r]] /\ areg' = [r \in REG_A |-> Q[r]] /\ mem' = m /\ ccr' = f
    BY <1>4, <1>7
  <2>2. /\ \A r \in REG_D : Q[r] = d[r]
        /\ \A r \in REG_A : Q[r] = IF r = SP THEN z ELSE IF r = 8 THEN a ELSE areg[r]
    BY <1>1, <1>3 DEF Set
  <2>3. d' = d
    BY <2>1, <2>2, <1>2
  <2>4. areg' = [areg EXCEPT ![8] = a, ![SP] = z]
    BY <2>1, <2>2, <1>2
  <2> QED BY <2>1, <2>3, <2>4 DEF Then
<1>8. ASSUME NEW i \in REG_D, NEW v, Becomes(Core(Set(R, i, v), m), f)
      PROVE  Then([d EXCEPT ![i] = v], areg, m, f)
  <2> DEFINE Q == Set(R, i, v)
  <2>1. d' = [r \in REG_D |-> Q[r]] /\ areg' = [r \in REG_A |-> Q[r]] /\ mem' = m /\ ccr' = f
    BY <1>4, <1>8
  <2>2. (\A r \in REG_D : Q[r] = IF r = i THEN v ELSE d[r]) /\ \A r \in REG_A : Q[r] = areg[r]
    BY <1>1, <1>3 DEF Set
  <2>3. d' = [d EXCEPT ![i] = v]
    BY <2>1, <2>2, <1>2
  <2>4. areg' = areg
    BY <2>1, <2>2, <1>2
  <2> QED BY <2>1, <2>3, <2>4 DEF Then
<1> QED BY <1>5, <1>6, <1>7, <1>8 DEF R

\* UNLK: the stack is taken back to the frame, and the caller's frame to its pointer.
LEMMA UnlinkStep ==
    ASSUME Machine, areg[8] \in 0 .. Stack, unlk, Here.d = 8,
           NEW a \in Longs, ReadMemory(mem, LONG, areg[8]) = a
    PROVE  pc' = pc + 1 /\ Then(d, [areg EXCEPT ![8] = a, ![SP] = areg[8] + 4], mem, ccr)
<1> DEFINE R == AllRegisters
           s == areg[8]
           P == Set(R, SP, s)
<1>1. cpu = Core(R, mem) /\ R[8] = s /\ DOMAIN R = REG_DA /\ s \in Int
  BY CoreIs
<1>2. Mask(LONG, s) = s /\ Mask(LONG, s + 4) = s + 4 /\ Mask(LONG, a) = a
  <2>1. s \in 0 .. 255 /\ s + 4 \in 0 .. 255
    BY DEF Stack
  <2> QED BY <2>1, SmallNumbers
<1>3. 8 # SP /\ 8 \in REG_DA /\ SP \in REG_DA
  BY DEF SP, REG_DA, REG_A
<1>4. P[SP] = s
  BY <1>1, <1>3 DEF Set
<1> HIDE DEF R, s
<1>5. SetLong(cpu, SP, cpu.r[8]) = Core(P, mem)
  BY <1>1, <1>2, CoreSet
<1>6. Set(Set(P, SP, s + 4), 8, a) = Set(Set(R, 8, a), SP, s + 4)
  BY <1>1, <1>3 DEF Set
<1> HIDE DEF P
<1>7. Pull(Core(P, mem)) = Core(Set(P, SP, s + 4), mem) /\ Top(Core(P, mem)) = a
  BY <1>2, <1>4, CoreSet DEF Pull, Top, s
<1>8. SetLong(Pull(Core(P, mem)), 8, Top(Core(P, mem))) = Core(Set(Set(P, SP, s + 4), 8, a), mem)
  BY <1>2, <1>7, CoreSet
<1>9. Leaves(Core(Set(Set(R, 8, a), SP, s + 4), mem), ccr)
  BY <1>3, <1>5, <1>6, <1>8 DEF unlk, unlk_32, unlk_32_a7
<1> QED BY <1>9, RegistersBecome DEF Leaves, Goes, R, s

\* RTS and RTD: the address on the stack is where to go on.
LEMMA ReturnStep ==
    ASSUME Machine, areg[SP] \in 0 .. Stack, NEW extra \in {0, 4},
           IF extra = 0 THEN rts_32 ELSE rtd_32 /\ Here.disp = extra
    PROVE  /\ pc' = ReadMemory(mem, LONG, areg[SP])
           /\ Then(d, [areg EXCEPT ![SP] = areg[SP] + 4 + extra], mem, ccr)
<1> DEFINE R == AllRegisters
           s == areg[SP]
           q == s + 4
           z == q + extra
<1>1. cpu = Core(R, mem) /\ R[SP] = s /\ DOMAIN R = REG_DA /\ s \in Int
  BY CoreIs
<1>2. Mask(LONG, q) = q /\ Mask(LONG, z) = z
  <2>1. q \in 0 .. 255 /\ z \in 0 .. 255
    BY DEF Stack
  <2> QED BY <2>1, SmallNumbers
<1>3. SP \in REG_DA
  BY DEF SP, REG_DA, REG_A
<1>s. Signed(WORD, 4) = 4
  <2>1. Mask(WORD, 4) = 4 /\ 4 \in -8 .. 7
    BY SmallNumbers
  <2> QED BY <2>1, SmallNumbers
<1>4. Set(R, SP, q)[SP] = q /\ Set(Set(R, SP, q), SP, z) = Set(R, SP, z) /\ Set(R, SP, q) = Set(R, SP, s + 4)
  BY <1>1, <1>3 DEF Set
<1>5. Pull(cpu) = Core(Set(R, SP, q), mem) /\ Top(cpu) = ReadMemory(mem, LONG, s)
  <2> HIDE DEF R, s
  <2> QED BY <1>1, <1>2, CoreSet DEF Pull, Top
<1>6. CASE extra = 0
  <2>1. z = q
    BY <1>1, <1>6
  <2>2. Jumps(Core(Set(R, SP, z), mem), ReadMemory(mem, LONG, s))
    BY <1>5, <1>6, <2>1 DEF rts_32
  <2> QED BY <2>2, RegistersBecome DEF Jumps, Goes
<1>7. CASE extra = 4
  <2>1. SetLong(Core(Set(R, SP, q), mem), SP, q + 4) = Core(Set(R, SP, z), mem)
    <3>1. z = q + 4
      BY <1>7
    <3> HIDE DEF R, z, q
    <3>2. SetLong(Core(Set(R, SP, q), mem), SP, q + 4) = Core(Set(Set(R, SP, q), SP, z), mem)
      BY <1>2, <3>1, CoreSet
    <3> QED BY <3>2, <1>4
  <2>2. Core(Set(R, SP, q), mem).r[SP] = q
    BY <1>4, CoreSet
  <2> HIDE DEF R, s, q, z
  <2>3. Jumps(Core(Set(R, SP, z), mem), ReadMemory(mem, LONG, s))
    BY <1>5, <1>7, <1>s, <2>1, <2>2 DEF rtd_32
  <2> QED BY <2>3, RegistersBecome DEF Jumps, Goes, R, s, q, z
<1> QED BY <1>6, <1>7

\* PEA of an absolute address, and JMP and JSR to one.
LEMMA AbsolutePlace ==
    ASSUME Machine, NEW n \in 0 .. 15, Here.ea = At(n)
    PROVE  Source = Place(cpu, "memory", n)
<1>1. At(n).mode = "al" /\ At(n).disp = n /\ Mask(LONG, n) = n
  <2>1. n \in 0 .. 255
    OBVIOUS
  <2> QED BY <2>1, SmallNumbers DEF At
<1>2. EA(Here.w, Core(AllRegisters, mem), At(n)) = Place(Core(AllRegisters, mem), "memory", Mask(LONG, n))
  BY <1>1, EAIs
<1> QED BY <1>1, <1>2, CoreIs DEF Source

LEMMA JumpStep ==
    ASSUME Machine, NEW n \in 0 .. 15, jmp_32, Here.ea = At(n)
    PROVE  pc' = n /\ Then(d, areg, mem, ccr)
<1>1. Source.cpu = Core(AllRegisters, mem) /\ Source.at = n
  BY AbsolutePlace, CoreIs DEF Place
<1> QED BY <1>1, RegistersBecome DEF jmp_32, Jumps, Goes

LEMMA PushAddressStep ==
    ASSUME Machine, areg[SP] \in 4 .. Stack, NEW n \in 0 .. 15, pea_32, Here.ea = At(n)
    PROVE  /\ pc' = pc + 1
           /\ Then(d, [areg EXCEPT ![SP] = areg[SP] - 4], WriteMemory(mem, LONG, areg[SP] - 4, n), ccr)
<1> DEFINE R == AllRegisters
           s == areg[SP]
           q == s - 4
<1>1. Source.cpu = Core(R, mem) /\ Source.at = n /\ R[SP] = s /\ s \in Int
  BY AbsolutePlace, CoreIs DEF Place
<1>2. Mask(LONG, R[SP] - 4) = q /\ Mask(LONG, q) = q /\ q \in Int
  <2>1. q \in 0 .. 255
    BY DEF Stack
  <2> QED BY <1>1, <2>1, SmallNumbers
<1>3. Push(Core(R, mem), n) = Core(Set(R, SP, q), WriteMemory(mem, LONG, q, n))
  <2> HIDE DEF R, q
  <2> QED BY <1>2, PushIs
<1>4. Leaves(Core(Set(R, SP, q), WriteMemory(mem, LONG, q, n)), ccr)
  BY <1>1, <1>3 DEF pea_32
<1> HIDE DEF q
<1>5. pc' = pc + 1 /\ Then(d, [areg EXCEPT ![SP] = q], WriteMemory(mem, LONG, q, n), ccr)
  BY <1>4, RegistersBecome DEF Leaves, Goes
<1> QED BY <1>5 DEF q

\* What MOVE has moved.
LEMMA MoveIs ==
    ASSUME Machine, move, Here.w \in {WORD, LONG}
    PROVE  \E f : /\ Leaves(Stored(Here.w, Second(Source), MOVE(Here.w, ccr, Value(Here.w, Source), Value(Here.w, Second(Source))).res), f)
                  /\ f.z = (Mask(Here.w, Value(Here.w, Source)) = 0)
                  /\ MOVE(Here.w, ccr, Value(Here.w, Source), Value(Here.w, Second(Source))).res = Mask(Here.w, Value(Here.w, Source))
<1> DEFINE v == Value(Here.w, Source)
           e == Second(Source)
           a == MOVE(Here.w, ccr, v, Value(Here.w, e))
<1>1. MemoryToMemory(Source, MOVE)
  BY MemorySizes DEF move, Moves, move_8_d, move_8_ai, move_8_pi, move_8_pi7, move_8_pd, move_8_pd7,
         move_8_di, move_8_ix, move_8_aw, move_8_al, move_16_d, move_16_ai, move_16_pi, move_16_pd,
         move_16_di, move_16_ix, move_16_aw, move_16_al, move_32_d, move_32_ai, move_32_pi, move_32_pd,
         move_32_di, move_32_ix, move_32_aw, move_32_al
<1>2. Leaves(Stored(Here.w, e, a.res), a.ccr)
  BY <1>1 DEF MemoryToMemory, IntoOperand, LeavesOperand
<1>3. a.res = Mask(Here.w, v) /\ a.ccr.z = (Mask(Here.w, v) = 0)
  <2> HIDE DEF v, e
  <2> QED BY DEF MOVE, Logical, Arithmetic
<1> QED BY <1>2, <1>3

\* A data register is pushed.
LEMMA PushDataStep ==
    ASSUME Machine, areg[SP] \in 4 .. Stack, move, Here.w = LONG,
           Here.ea = Data(0), Here.to = [mode |-> "pd", r |-> SP]
    PROVE  /\ pc' = pc + 1 /\ d' = d /\ areg' = [areg EXCEPT ![SP] = areg[SP] - 4]
           /\ mem' = WriteMemory(mem, LONG, areg[SP] - 4, d[0])
<1> DEFINE R == AllRegisters
           s == areg[SP]
           q == s - 4
           v == d[0]
           Q == Set(R, SP, q)
<1>1. cpu = Core(R, mem) /\ R[0] = v /\ R[SP] = s /\ DOMAIN R = REG_DA /\ s \in Int
  BY CoreIs
<1>2. v \in Longs
  BY 0 \in REG_D DEF Machine, REG_D
<1>3. Mask(LONG, q) = q /\ Mask(LONG, v) = v
  <2>1. q \in 0 .. 255
    BY DEF Stack
  <2> QED BY <1>2, <2>1, SmallNumbers
<1>4. SP \in REG_DA /\ Q[SP] = q
  BY <1>1 DEF Set, SP, REG_DA, REG_A
<1>5. Data(0).mode = "d" /\ Data(0).r = 0
  BY DEF Data
<1> HIDE DEF R, s, v, q, Q
<1>6. Source = Place(Core(R, mem), "register", 0)
  BY <1>1, <1>5, EAIs DEF Source
<1>7. Value(LONG, Source) = v /\ Source.cpu = Core(R, mem)
  <2>1. Value(LONG, Place(Core(R, mem), "register", 0)) = Mask(LONG, R[0])
    BY PlaceIs
  <2>2. Place(Core(R, mem), "register", 0).cpu = Core(R, mem)
    BY PlaceIs
  <2> QED BY <1>1, <1>3, <1>6, <2>1, <2>2
<1>8. Second(Source) = Place(Core(Q, mem), "memory", q)
  <2> DEFINE x == [mode |-> "pd", r |-> SP]
  <2>1. x.mode = "pd" /\ x.r = SP /\ x = Here.to
    OBVIOUS
  <2> HIDE DEF x
  <2>2. Step(LONG, SP) = 4
    BY MemorySizes DEF Step
  <2>3. SetLong(Core(R, mem), SP, R[SP] - Step(LONG, SP)) = Core(Q, mem)
    <3>1. SetLong(Core(R, mem), SP, s - 4) = Core(Set(R, SP, Mask(LONG, s - 4)), mem)
      BY CoreSet
    <3> QED BY <1>1, <1>3, <2>2, <3>1 DEF q, Q
  <2>4. Core(Q, mem).r[SP] = q
    BY <1>4, CoreSet
  <2>5. EA(LONG, Core(R, mem), x) =
            Place(SetLong(Core(R, mem), SP, R[SP] - Step(LONG, SP)), "memory",
                  SetLong(Core(R, mem), SP, R[SP] - Step(LONG, SP)).r[SP])
    BY <2>1, EAIs
  <2> QED BY <1>7, <2>1, <2>3, <2>4, <2>5 DEF Second
<1>9. PICK f : Leaves(Stored(LONG, Second(Source), v), f)
  <2>1. Mask(LONG, Value(LONG, Source)) = v /\ Here.w \in {WORD, LONG}
    BY <1>3, <1>7
  <2> QED BY <2>1, MoveIs
<1>10. Leaves(Core(Q, WriteMemory(mem, LONG, q, v)), f)
  <2>1. Stored(LONG, Place(Core(Q, mem), "memory", q), v) = Core(Q, WriteMemory(mem, LONG, q, v))
    BY PlaceIs
  <2> QED BY <1>8, <1>9, <2>1
<1>11. pc' = pc + 1 /\ Then(d, [areg EXCEPT ![SP] = q], WriteMemory(mem, LONG, q, v), f)
  BY <1>10, RegistersBecome DEF Leaves, Goes, R, Q
<1> QED BY <1>11 DEF Then, s, v, q

\* ... or kept in the local variable.
LEMMA KeepStep ==
    ASSUME Machine, areg[8] \in 2 .. Stack, d[0] \in 0 .. 15, move, Here.w = WORD,
           Here.ea = Data(0), Here.to = Local
    PROVE  /\ pc' = pc + 1 /\ d' = d /\ areg' = areg
           /\ mem' = WriteMemory(mem, WORD, areg[8] - 2, d[0])
<1> DEFINE R == AllRegisters
           s == areg[8]
           q == s - 2
           v == d[0]
<1>1. cpu = Core(R, mem) /\ R[0] = v /\ R[8] = s /\ s \in Int
  BY CoreIs
<1>3. Mask(LONG, q) = q /\ Mask(WORD, v) = v
  <2>1. q \in 0 .. 255
    BY DEF Stack
  <2> QED BY <2>1, SmallNumbers
<1>5. Data(0).mode = "d" /\ Data(0).r = 0 /\ Local.mode = "di" /\ Local.r = 8 /\ Local.disp = Minus(WORD, 2)
  BY DEF Data, Local
<1>a. s + Signed(WORD, Minus(WORD, 2)) = q
  BY <1>1, SmallNumbers
<1> HIDE DEF R, s, v, q
<1>6. Source = Place(Core(R, mem), "register", 0)
  BY <1>1, <1>5, EAIs DEF Source
<1>7. Value(WORD, Source) = v /\ Source.cpu = Core(R, mem)
  <2>1. Value(WORD, Place(Core(R, mem), "register", 0)) = Mask(WORD, R[0])
    BY PlaceIs
  <2>2. Place(Core(R, mem), "register", 0).cpu = Core(R, mem)
    BY PlaceIs
  <2> QED BY <1>1, <1>3, <1>6, <2>1, <2>2
<1>8. Second(Source) = Place(Core(R, mem), "memory", q)
  <2>1. EA(WORD, Core(R, mem), Local) = Place(Core(R, mem), "memory", Mask(LONG, R[8] + Signed(WORD, Minus(WORD, 2))))
    BY <1>5, EAIs
  <2> QED BY <1>1, <1>3, <1>a, <1>7, <2>1 DEF Second
<1>9. PICK f : Leaves(Stored(WORD, Second(Source), v), f)
  <2>1. Mask(WORD, Value(WORD, Source)) = v /\ Here.w \in {WORD, LONG}
    BY <1>3, <1>7
  <2> QED BY <2>1, MoveIs
<1>10. Leaves(Core(R, WriteMemory(mem, WORD, q, v)), f)
  <2>1. Stored(WORD, Place(Core(R, mem), "memory", q), v) = Core(R, WriteMemory(mem, WORD, q, v))
    BY PlaceIs
  <2> QED BY <1>8, <1>9, <2>1
<1>11. pc' = pc + 1 /\ Then(d, areg, WriteMemory(mem, WORD, q, v), f)
  BY <1>10, RegistersBecome DEF Leaves, Goes, R
<1> QED BY <1>11 DEF Then, s, v, q

\* The argument is fetched from the caller's part of the stack.
LEMMA FetchStep ==
    ASSUME Machine, areg[8] \in 0 .. Stack, move, Here.w = LONG, Here.ea = Argument, Here.to = Data(0),
           NEW v \in Longs, ReadMemory(mem, LONG, areg[8] + 8) = v
    PROVE  /\ pc' = pc + 1 /\ d' = [d EXCEPT ![0] = v] /\ areg' = areg /\ mem' = mem
           /\ ccr'.z = (v = 0)
<1> DEFINE R == AllRegisters
           s == areg[8]
           q == s + 8
           u == d[0]
<1>1. cpu = Core(R, mem) /\ R[0] = u /\ R[8] = s /\ s \in Int
  BY CoreIs
<1>2. u \in Longs
  BY 0 \in REG_D DEF Machine, REG_D
<1>3. Mask(LONG, q) = q /\ Mask(LONG, v) = v /\ Mask(LONG, u) = u /\ u \in Int /\ v \in Int
  <2>1. q \in 0 .. 255
    BY DEF Stack
  <2>2. u \in Int /\ v \in Int
    BY <1>2, MemorySizes DEF Longs
  <2> QED BY <1>2, <2>1, <2>2, SmallNumbers
<1>5. /\ Data(0).mode = "d" /\ Data(0).r = 0 /\ Argument.mode = "ix" /\ Argument.r = 8
      /\ Argument.indirect = "none" /\ Argument.disp = 8 /\ Argument.noBase = FALSE /\ Argument.noIndex = TRUE
  BY DEF Data, Argument
<1>a. s + 8 + 0 = q
  BY <1>1
<1> HIDE DEF R, s, u, q
<1>6. Source = Place(Core(R, mem), "memory", q)
  <2>1. EA(LONG, Core(R, mem), Argument) = Place(Core(R, mem), "memory", Mask(LONG, m68ki_get_ea_ix(Core(R, mem), Argument, R[8])))
    BY <1>5, EAIs
  <2>2. m68ki_get_ea_ix(Core(R, mem), Argument, s) = Mask(LONG, FullExtension(Core(R, mem), Argument, s, 0))
    BY <1>5 DEF m68ki_get_ea_ix
  <2>3. FullExtension(Core(R, mem), Argument, s, 0) = q
    BY <1>5, <1>a DEF FullExtension
  <2> QED BY <1>1, <1>3, <2>1, <2>2, <2>3 DEF Source
<1>7. Value(LONG, Source) = v /\ Source.cpu = Core(R, mem)
  <2>1. Value(LONG, Place(Core(R, mem), "memory", q)) = ReadMemory(mem, LONG, q)
    BY PlaceIs
  <2>2. Place(Core(R, mem), "memory", q).cpu = Core(R, mem)
    BY PlaceIs
  <2> QED BY <1>6, <2>1, <2>2 DEF q, s
<1>8. Second(Source) = Place(Core(R, mem), "register", 0)
  BY <1>5, <1>7, EAIs DEF Second
<1>9. PICK f : Leaves(Stored(LONG, Second(Source), v), f) /\ f.z = (v = 0)
  <2>1. Mask(LONG, Value(LONG, Source)) = v /\ Here.w \in {WORD, LONG}
    BY <1>3, <1>7
  <2> QED BY <2>1, MoveIs
<1>10. Leaves(Core(Set(R, 0, v), mem), f)
  <2>1. Stored(LONG, Place(Core(R, mem), "register", 0), v) = Core(Set(R, 0, R[0] - Mask(LONG, R[0]) + Mask(LONG, v)), mem)
    BY PlaceIs
  <2>2. u - Mask(LONG, u) + Mask(LONG, v) = v
    BY <1>3
  <2> QED BY <1>1, <1>8, <1>9, <2>1, <2>2
<1>11. pc' = pc + 1 /\ Then([d EXCEPT ![0] = v], areg, mem, f)
  BY <1>10, RegistersBecome, 0 \in REG_D DEF Leaves, Goes, R, REG_D
<1> QED BY <1>9, <1>11 DEF Then

\* TST, SUBQ and ADD on small numbers.
LEMMA TestStep ==
    ASSUME Machine, d[0] \in 0 .. 15, tst, Here.w = WORD, Here.ea = Data(0)
    PROVE  /\ pc' = pc + 1 /\ d' = d /\ areg' = areg /\ mem' = mem
           /\ ccr'.z = (d[0] = 0)
<1> DEFINE R == AllRegisters
           v == d[0]
           a == TST(WORD, ccr, 0, v)
<1>1. cpu = Core(R, mem) /\ R[0] = v
  BY CoreIs
<1>2. Mask(WORD, v) = v
  BY SmallNumbers
<1>3. Data(0).mode = "d" /\ Data(0).r = 0
  BY DEF Data
<1>4. tst_16
  BY MemorySizes DEF tst, tst_8, tst_32, Size
<1> HIDE DEF R, v
<1>5. Source = Place(Core(R, mem), "register", 0)
  BY <1>1, <1>3, EAIs DEF Source
<1>6. Value(WORD, Source) = v /\ Source.cpu = Core(R, mem)
  BY <1>1, <1>2, <1>5, PlaceIs
<1>7. Leaves(Core(R, mem), a.ccr)
  BY <1>4, <1>6 DEF tst_16, Examined
<1>8. a.ccr.z = (v = 0)
  BY <1>2 DEF TST, Logical, Arithmetic
<1> HIDE DEF a
<1>9. pc' = pc + 1 /\ Then(d, areg, mem, a.ccr)
  BY <1>7, RegistersBecome DEF Leaves, Goes, R
<1> QED BY <1>8, <1>9 DEF Then, v

LEMMA StoredSmall ==
    ASSUME NEW R, NEW i, R[i] \in 0 .. 15, NEW w \in {WORD, LONG}, NEW n \in 0 .. 15, NEW m
    PROVE  SetLow(Core(R, m), w, i, Mask(w, n)) = Core(Set(R, i, n), m)
<1>1. Mask(w, n) = n /\ Mask(w, R[i]) = R[i] /\ n \in Int /\ R[i] \in Int
  <2>1. n \in 0 .. 255 /\ R[i] \in 0 .. 255
    OBVIOUS
  <2> QED BY <2>1, SmallNumbers
<1>2. R[i] - Mask(w, R[i]) + Mask(w, Mask(w, n)) = n
  BY <1>1
<1> QED BY <1>2, CoreSet

LEMMA CountStep ==
    ASSUME Machine, d[0] \in 1 .. 15, sub, Here.form = "quick", Here.q = 1, Here.w \in {WORD, LONG},
           Here.ea = Data(0)
    PROVE  pc' = pc + 1 /\ d' = [d EXCEPT ![0] = d[0] - 1] /\ areg' = areg /\ mem' = mem
<1> DEFINE R == AllRegisters
           v == d[0]
           n == v - 1
<1>1. cpu = Core(R, mem) /\ R[0] = v /\ v \in 0 .. 15 /\ n \in 0 .. 15
  BY CoreIs
<1>2. Mask(Here.w, v) = v
  <2>1. v \in 0 .. 255
    BY <1>1
  <2> QED BY <1>1, <2>1, SmallNumbers
<1>3. Data(0).mode = "d" /\ Data(0).r = 0 /\ Quick(1) = 1
  BY DEF Data, Quick
<1>4. IntoOperand(Source, 1, SUB) \/ IntoOperand(Source, 1, SUB_32)
  BY <1>3, MemorySizes
     DEF sub, sub_8_er, sub_16_er, sub_32_er, sub_8_re, sub_16_re, sub_32_re, subi_8, subi_16, subi_32,
         subq_8, subq_16, subq_32, suba_16, suba_32, Form, QuickOperand, QuickAddress
<1> HIDE DEF R, v, n
<1>5. Source = Place(Core(R, mem), "register", 0)
  BY <1>1, <1>3, EAIs DEF Source
<1>6. Value(Here.w, Source) = v
  BY <1>1, <1>2, <1>5, PlaceIs
<1>7. /\ SUB(Here.w, ccr, 1, v).res = Mask(Here.w, n)
      /\ SUB_32(Here.w, ccr, 1, v).res = Mask(Here.w, n)
  BY DEF SUB, SUB_32, Arithmetic, n
<1>8. PICK f : Leaves(Stored(Here.w, Source, Mask(Here.w, n)), f)
  BY <1>4, <1>6, <1>7 DEF IntoOperand, LeavesOperand
<1>9. Stored(Here.w, Source, Mask(Here.w, n)) = SetLow(Core(R, mem), Here.w, 0, Mask(Here.w, n))
  BY <1>5 DEF Stored, Place
<1>10. Leaves(Core(Set(R, 0, n), mem), f)
  BY <1>1, <1>8, <1>9, StoredSmall
<1>11. pc' = pc + 1 /\ Then([d EXCEPT ![0] = n], areg, mem, f)
  BY <1>10, RegistersBecome, 0 \in REG_D DEF Leaves, Goes, R, REG_D
<1> QED BY <1>11 DEF Then, n, v

LEMMA AddStep ==
    ASSUME Machine, d[1] \in 0 .. 15, add, Here.form = "er", Here.w \in {WORD, LONG}, Here.d = 1,
           NEW v \in 0 .. 15, d[1] + v \in 0 .. 15,
           \/ Here.ea = Data(0) /\ d[0] = v
           \/ /\ Here.ea = Local /\ areg[8] \in 2 .. Stack /\ Here.w = WORD
              /\ ReadMemory(mem, WORD, areg[8] - 2) = v
    PROVE  pc' = pc + 1 /\ d' = [d EXCEPT ![1] = d[1] + v] /\ areg' = areg /\ mem' = mem
<1> DEFINE R == AllRegisters
           u == d[1]
           n == u + v
           s == areg[8]
           q == s - 2
<1>1. cpu = Core(R, mem) /\ R[1] = u /\ u \in 0 .. 15 /\ n \in 0 .. 15 /\ R[0] = d[0] /\ R[8] = s
  BY CoreIs
<1>2. Mask(Here.w, v) = v /\ Mask(Here.w, u) = u
  <2>1. u \in 0 .. 255 /\ v \in 0 .. 255
    BY <1>1
  <2> QED BY <1>1, <2>1, SmallNumbers
<1>3. Data(0).mode = "d" /\ Data(0).r = 0 /\ Local.mode = "di" /\ Local.r = 8 /\ Local.disp = Minus(WORD, 2)
  BY DEF Data, Local
<1>4. IntoRegister(Source, ADD) \/ IntoRegister(Source, ADD_32)
  BY MemorySizes
     DEF add, add_8_er, add_16_er, add_32_er, add_8_re, add_16_re, add_32_re, addi_8, addi_16, addi_32,
         addq_8, addq_16, addq_32, adda_16, adda_32, Form
<1>5. s \in 2 .. Stack => s + Signed(WORD, Minus(WORD, 2)) = q /\ Mask(LONG, q) = q
  <2> SUFFICES ASSUME s \in 2 .. Stack
               PROVE  s + Signed(WORD, Minus(WORD, 2)) = q /\ Mask(LONG, q) = q
    OBVIOUS
  <2>1. q \in 0 .. 255 /\ s \in Int
    BY DEF Stack
  <2> QED BY <2>1, SmallNumbers
<1> HIDE DEF R, u, n, s, q
<1>6. Value(Here.w, Source) = v /\ Source.cpu = Core(R, mem)
  <2>1. CASE Here.ea = Data(0) /\ d[0] = v
    <3>1. Source = Place(Core(R, mem), "register", 0)
      BY <1>1, <1>3, <2>1, EAIs DEF Source
    <3> QED BY <1>1, <1>2, <2>1, <3>1, PlaceIs
  <2>2. CASE /\ Here.ea = Local /\ s \in 2 .. Stack /\ Here.w = WORD
             /\ ReadMemory(mem, WORD, q) = v
    <3>1. EA(WORD, Core(R, mem), Local) = Place(Core(R, mem), "memory", Mask(LONG, R[8] + Signed(WORD, Minus(WORD, 2))))
      BY <1>3, EAIs
    <3>2. Source = Place(Core(R, mem), "memory", q)
      BY <1>1, <1>5, <2>2, <3>1 DEF Source
    <3> QED BY <2>2, <3>2, PlaceIs
  <2> QED BY <2>1, <2>2 DEF s, q
<1>7. DX(Core(R, mem)) = u
  <2>1. Core(R, mem).r = R
    BY CoreSet
  <2> QED BY <1>1, <1>2, <2>1 DEF DX
<1>8. /\ ADD(Here.w, ccr, v, u).res = Mask(Here.w, n)
      /\ ADD_32(Here.w, ccr, v, u).res = Mask(Here.w, n)
  <2>1. v + u = n
    BY <1>1 DEF n
  <2> QED BY <2>1 DEF ADD, ADD_32, Arithmetic
<1>9. PICK f : Leaves(SetLow(Core(R, mem), Here.w, 1, Mask(Here.w, n)), f)
  BY <1>4, <1>6, <1>7, <1>8 DEF IntoRegister, LeavesLow
<1>10. Leaves(Core(Set(R, 1, n), mem), f)
  BY <1>1, <1>9, StoredSmall
<1>11. pc' = pc + 1 /\ Then([d EXCEPT ![1] = n], areg, mem, f)
  BY <1>10, RegistersBecome, 1 \in REG_D DEF Leaves, Goes, R, REG_D
<1> QED BY <1>11 DEF Then, n, u

\* Displacements lead where they are meant to.
LEMMA GotoIs ==
    ASSUME NEW op, NEW w \in {WORD, LONG}, NEW cc, NEW to \in 1 .. 12, pc \in 1 .. 12, to - pc - 1 \in -8 .. 7,
           Here = Goto(op, w, cc, pc, to)
    PROVE  Displaced(w) = to /\ Here.w = w /\ Here.cc = cc
<1> DEFINE v == to - pc - 1
<1>1. Here.disp = Mask(w, v) /\ Here.w = w /\ Here.cc = cc
  BY DEF Goto
<1>2. Signed(w, Mask(w, v)) = v
  BY SmallNumbers
<1>3. pc + 1 + v = to
  OBVIOUS
<1>4. Mask(LONG, to) = to
  <2>1. to \in 0 .. 255
    OBVIOUS
  <2> QED BY <2>1, SmallNumbers
<1> HIDE DEF v
<1> QED BY <1>1, <1>2, <1>3, <1>4 DEF Displaced

LEMMA BranchStep ==
    ASSUME Machine, NEW op, NEW w \in {WORD, LONG}, NEW cc, NEW to \in 1 .. 12, pc \in 1 .. 12, to - pc - 1 \in -8 .. 7,
           Here = Goto(op, w, cc, pc, to), bcc \/ (bra /\ cc = "T")
    PROVE  /\ pc' = (IF Cond(cc, ccr) THEN to ELSE pc + 1)
           /\ Then(d, areg, mem, ccr)
<1>1. Displaced(w) = to /\ Here.w = w /\ Here.cc = cc
  BY GotoIs
<1>2. cpu = Core(AllRegisters, mem)
  BY CoreIs
<1>3. bcc => Branches(w)
  BY <1>1 DEF bcc, bcc_16, bcc_32, Size
<1>4. bra => Jumps(cpu, to)
  BY <1>1 DEF bra, bra_16, bra_32, Size
<1>5. Jumps(cpu, IF Cond(cc, ccr) THEN to ELSE pc + 1)
  BY <1>1, <1>3, <1>4 DEF Branches, Cond
<1> QED BY <1>2, <1>5, RegistersBecome DEF Jumps, Goes

LEMMA SubroutineStep ==
    ASSUME Machine, areg[SP] \in 4 .. Stack, pc \in 1 .. 12,
           \/ /\ bsr /\ \E w \in {WORD, LONG} : Here = Goto("bsr", w, "T", pc, 3)
              /\ pc \in {1, 9}
           \/ jsr_32 /\ Here.ea = At(4)
    PROVE  /\ pc' = (IF Here.op = "bsr" THEN 3 ELSE 4) /\ d' = d
           /\ areg' = [areg EXCEPT ![SP] = areg[SP] - 4]
           /\ mem' = WriteMemory(mem, LONG, areg[SP] - 4, pc + 1)
<1>1. CASE bsr /\ (\E w \in {WORD, LONG} : Here = Goto("bsr", w, "T", pc, 3)) /\ pc \in {1, 9}
  <2>1. PICK w \in {WORD, LONG} : Here = Goto("bsr", w, "T", pc, 3)
    BY <1>1
  <2>2. Displaced(w) = 3 /\ Here.w = w
    <3>1. 3 \in 1 .. 12 /\ 3 - pc - 1 \in -8 .. 7
      BY <1>1
    <3> QED BY <2>1, <3>1, GotoIs
  <2>3. Calls(cpu, 3) /\ Here.op = "bsr"
    BY <1>1, <2>2 DEF bsr, bsr_16, bsr_32, Size, Op
  <2> QED BY <2>3, CallStep
<1>2. CASE jsr_32 /\ Here.ea = At(4)
  <2>1. Source = Place(cpu, "memory", 4)
    BY <1>2, AbsolutePlace
  <2>2. Calls(cpu, 4) /\ Here.op = "jsr"
    BY <1>2, <2>1, PlaceIs DEF jsr_32, Op
  <2> QED BY <2>2, CallStep
<1> QED BY <1>1, <1>2

-----------------------------------------------------------------------------
(* Frames on the stack                                                     *)

\* Of trial t: the frame pointer, and the stack pointer, with k frames; where the
\* subroutine that made frame k returns to; the sum of the numbers up to m.
Fp(t, k) == IF k = 0 THEN Elsewhere ELSE IF t.pushed THEN Stack - 12 * k ELSE Stack + 2 - 10 * k
Sp(t, k) == IF t.pushed THEN Stack - 12 * k ELSE Stack - 10 * k
Back(t, k) == IF t.pushed THEN IF k = 1 THEN 3 ELSE 11 ELSE IF k = 1 THEN 2 ELSE 10
SumTo(m) == (m * (m + 1)) \div 2

\* Each frame has the one below it and a return address; and its local variable.
Linked(t, m, k) ==
    \A i \in 1 .. k : /\ ReadMemory(m, LONG, Fp(t, i)) = Fp(t, i - 1)
                      /\ ReadMemory(m, LONG, Fp(t, i) + 4) = Back(t, i)
Kept(t, m, k) == \A i \in 1 .. k : ReadMemory(m, WORD, Fp(t, i) - 2) = t.n - i + 1

LEMMA SumsAre ==
    /\ SumTo(-1) = 0 /\ SumTo(0) = 0 /\ SumTo(1) = 1 /\ SumTo(2) = 3 /\ SumTo(3) = 6
    /\ \A m \in 0 .. 3 : SumTo(m) = SumTo(m - 1) + m /\ SumTo(m) \in 0 .. 6
    /\ \A n \in 0 .. 3 : \A m \in -1 .. n : SumTo(n) - SumTo(m) \in 0 .. 6 /\ SumTo(m) \in 0 .. 6
<1>1. SumTo(-1) = 0 /\ SumTo(0) = 0 /\ SumTo(1) = 1 /\ SumTo(2) = 3 /\ SumTo(3) = 6
  BY DEF SumTo
<1>2. /\ 0 .. 3 = {0, 1, 2, 3} /\ -1 .. 3 = {-1, 0, 1, 2, 3}
      /\ 0 - 1 = -1 /\ 1 - 1 = 0 /\ 2 - 1 = 1 /\ 3 - 1 = 2
  OBVIOUS
<1>3. \A m \in 0 .. 3 : SumTo(m) = SumTo(m - 1) + m /\ SumTo(m) \in 0 .. 6
  BY <1>1, <1>2
<1>4. ASSUME NEW n \in 0 .. 3, NEW m \in -1 .. n
      PROVE  SumTo(n) - SumTo(m) \in 0 .. 6 /\ SumTo(m) \in 0 .. 6
  <2>1. n \in {0, 1, 2, 3} /\ m \in {-1, 0, 1, 2, 3} /\ m <= n
    OBVIOUS
  <2> QED BY <1>1, <2>1
<1> QED BY <1>1, <1>3, <1>4

\* What a write of n bytes below k frames leaves alone.
LeftAlone(z, m, t, k, w, at, n, v) ==
    /\ Cells(z) /\ DOMAIN z = 0 .. Stack + 3 /\ z[Stack] = m[Stack]
    /\ ReadMemory(z, w, at) = v
    /\ \A p \in at + n .. Stack : ReadMemory(z, LONG, p) = ReadMemory(m, LONG, p)
    /\ Linked(t, m, k) => Linked(t, z, k)
    /\ ~t.pushed /\ Kept(t, m, k) => Kept(t, z, k)

LEMMA WriteBelow ==
    ASSUME NEW m, Cells(m), DOMAIN m = 0 .. Stack + 3, NEW t, t.pushed \in BOOLEAN, NEW k \in 0 .. 4,
           NEW at \in 0 .. Stack, NEW w \in {WORD, LONG}, NEW v \in 0 .. 2^w - 1,
           NEW n, n = IF w = WORD THEN 2 ELSE 4, at + n <= Sp(t, k)
    PROVE  LeftAlone(WriteMemory(m, w, at, v), m, t, k, w, at, n, v)
<1> DEFINE z == WriteMemory(m, w, at, v)
           last == IF w = WORD THEN 1 ELSE 3
<1>1. n = last + 1 /\ n \in {2, 4} /\ Stack = 48 /\ Sp(t, k) <= 48 /\ at + last < 48 /\ at \in Int
  BY MemorySizes DEF Stack, Sp
<1>2. Cells(z) /\ DOMAIN z = 0 .. Stack + 3 /\ ReadMemory(z, w, at) = v
  <2>1. at .. at + (IF w = WORD THEN 1 ELSE 3) \subseteq DOMAIN m
    BY <1>1
  <2>2. at \in Int
    BY <1>1
  <2>3. Cells(WriteMemory(m, w, at, v)) /\ DOMAIN WriteMemory(m, w, at, v) = DOMAIN m
        /\ ReadMemory(WriteMemory(m, w, at, v), w, at) = v
    BY <2>1, <2>2, ReadBack
  <2> QED BY <2>3
<1>3. z[Stack] = m[Stack]
  <2>1. \A i \in DOMAIN m : i \notin at .. at + n - 1 => z[i] = m[i]
    BY <1>1, WrittenIs
  <2>2. Stack \in DOMAIN m /\ Stack \notin at .. at + n - 1
    BY <1>1
  <2> HIDE DEF z
  <2> QED BY <2>1, <2>2
<1>4. ASSUME NEW u \in {WORD, LONG}, NEW p \in at + n .. Stack + (IF u = WORD THEN 2 ELSE 0)
      PROVE  ReadMemory(z, u, p) = ReadMemory(m, u, p)
  <2>1. p .. p + (IF u = WORD THEN 1 ELSE 3) \subseteq DOMAIN m
    BY <1>1
  <2>2. /\ p \in Int /\ at \in Int
        /\ p + (IF u = WORD THEN 1 ELSE 3) < at \/ at + (IF w = WORD THEN 1 ELSE 3) < p
    BY <1>1
  <2>3. \A y : ReadMemory(WriteMemory(m, w, at, y), u, p) = ReadMemory(m, u, p)
    <3> HIDE DEF z, last
    <3> QED BY ZenonT(60), <2>1, <2>2, ReadOther
  <2> QED BY <2>3
<1> HIDE DEF z, last
<1>5. \A p \in at + n .. Stack : ReadMemory(z, LONG, p) = ReadMemory(m, LONG, p)
  <2> SUFFICES ASSUME NEW p \in at + n .. Stack PROVE ReadMemory(z, LONG, p) = ReadMemory(m, LONG, p)
    OBVIOUS
  <2>1. p \in at + n .. Stack + (IF LONG = WORD THEN 2 ELSE 0)
    BY <1>1, MemorySizes
  <2> QED BY <1>4, <2>1
<1>6. ASSUME NEW i \in 1 .. k
      PROVE  /\ Fp(t, i) \in at + n .. Stack /\ Fp(t, i) + 4 \in at + n .. Stack
             /\ ~t.pushed => Fp(t, i) - 2 \in at + n .. Stack
  <2>1. at + n <= Sp(t, k)
    OBVIOUS
  <2>2. i \in Int /\ k \in Int /\ i >= 1 /\ i <= k
    OBVIOUS
  <2>3. CASE t.pushed
    BY <1>1, <2>1, <2>2, <2>3 DEF Fp, Sp
  <2>4. CASE ~t.pushed
    BY <1>1, <2>1, <2>2, <2>4 DEF Fp, Sp
  <2> QED BY <2>3, <2>4
<1>7. Linked(t, m, k) => Linked(t, z, k)
  BY <1>5, <1>6 DEF Linked
<1>8. ~t.pushed /\ Kept(t, m, k) => Kept(t, z, k)
  <2> SUFFICES ASSUME ~t.pushed, Kept(t, m, k), NEW i \in 1 .. k
               PROVE  ReadMemory(z, WORD, Fp(t, i) - 2) = t.n - i + 1
    BY DEF Kept
  <2>1. at + n <= Sp(t, k)
    OBVIOUS
  <2>2. Fp(t, i) - 2 \in at + n .. Stack + 2
    BY <1>1, <2>1 DEF Fp, Sp
  <2>3. ReadMemory(z, WORD, Fp(t, i) - 2) = ReadMemory(m, WORD, Fp(t, i) - 2)
    BY <1>4, <2>2
  <2> QED BY <2>3 DEF Kept
<1> QED BY <1>2, <1>3, <1>5, <1>7, <1>8 DEF z, LeftAlone

\* A frame is linked to those below it: LINK pushes the caller's frame pointer behind
\* the return address.
FrameMore(z, m, t, k) ==
    /\ Cells(z) /\ DOMAIN z = 0 .. Stack + 3 /\ z[Stack] = m[Stack]
    /\ Linked(t, z, k + 1)
    /\ t.pushed => ReadMemory(z, LONG, Fp(t, k + 1) + 8) = ReadMemory(m, LONG, Fp(t, k + 1) + 8)
    /\ ~t.pushed /\ Kept(t, m, k) => Kept(t, z, k)

LEMMA LinkedMore ==
    ASSUME NEW m, Cells(m), DOMAIN m = 0 .. Stack + 3, NEW t, t.pushed \in BOOLEAN, NEW k \in 0 .. 3,
           Linked(t, m, k),
           ReadMemory(m, LONG, Fp(t, k + 1) + 4) = Back(t, k + 1)
    PROVE  FrameMore(WriteMemory(m, LONG, Fp(t, k + 1), Fp(t, k)), m, t, k)
<1> DEFINE at == Fp(t, k + 1)
           v == Fp(t, k)
           z == WriteMemory(m, LONG, at, v)
<1>1. /\ Stack = 48 /\ at \in 0 .. 40 /\ at + 4 <= Sp(t, k) /\ v \in 0 .. 255
      /\ LONG # WORD /\ LONG \in {WORD, LONG}
      /\ t.pushed => at + 8 <= Stack
  BY MemorySizes DEF Stack, Elsewhere, Fp, Sp
<1>2. v \in 0 .. 2^LONG - 1 /\ at \in 0 .. Stack /\ k \in 0 .. 4 /\ 4 = IF LONG = WORD THEN 2 ELSE 4
  BY <1>1, MemorySizes
<1> HIDE DEF at, v
<1>3. LeftAlone(z, m, t, k, LONG, at, 4, v)
  BY <1>1, <1>2, WriteBelow
<1> HIDE DEF z
<1>4. /\ Cells(z) /\ DOMAIN z = 0 .. Stack + 3 /\ z[Stack] = m[Stack] /\ ReadMemory(z, LONG, at) = v
      /\ \A p \in at + 4 .. Stack : ReadMemory(z, LONG, p) = ReadMemory(m, LONG, p)
      /\ Linked(t, z, k) /\ (~t.pushed /\ Kept(t, m, k) => Kept(t, z, k))
  BY <1>3 DEF LeftAlone
<1>5. /\ ReadMemory(z, LONG, at + 4) = ReadMemory(m, LONG, at + 4)
      /\ t.pushed => ReadMemory(z, LONG, at + 8) = ReadMemory(m, LONG, at + 8)
  <2>1. at + 4 \in at + 4 .. Stack /\ (t.pushed => at + 8 \in at + 4 .. Stack)
    BY <1>1
  <2> QED BY <1>4, <2>1
<1>6. Linked(t, z, k + 1)
  <2> SUFFICES ASSUME NEW i \in 1 .. k + 1
               PROVE  /\ ReadMemory(z, LONG, Fp(t, i)) = Fp(t, i - 1)
                      /\ ReadMemory(z, LONG, Fp(t, i) + 4) = Back(t, i)
    BY DEF Linked
  <2>1. CASE i \in 1 .. k
    BY <1>4, <2>1 DEF Linked
  <2>2. CASE i = k + 1
    <3>1. i - 1 = k
      BY <2>2
    <3> QED BY <1>4, <1>5, <2>2, <3>1 DEF at, v
  <2>3. i \in 1 .. k \/ i = k + 1
    OBVIOUS
  <2> QED BY <2>1, <2>2, <2>3
<1> QED BY <1>4, <1>5, <1>6 DEF at, v, z, FrameMore

\* The local variable is kept beside its frame.
NumberMore(z, m, t, k) ==
    /\ Cells(z) /\ DOMAIN z = 0 .. Stack + 3 /\ z[Stack] = m[Stack]
    /\ Linked(t, z, k) /\ Kept(t, z, k)

LEMMA KeptMore ==
    ASSUME NEW m, Cells(m), DOMAIN m = 0 .. Stack + 3, NEW t, t.pushed \in BOOLEAN, ~t.pushed, NEW k \in 1 .. 4,
           Linked(t, m, k), Kept(t, m, k - 1), NEW v \in 0 .. 15, v = t.n - k + 1
    PROVE  NumberMore(WriteMemory(m, WORD, Fp(t, k) - 2, v), m, t, k)
<1> DEFINE at == Fp(t, k) - 2
           z == WriteMemory(m, WORD, at, v)
           j == k - 1
<1>1. /\ Stack = 48 /\ at \in 0 .. 40 /\ at + 2 <= Sp(t, j) /\ Fp(t, k) = at + 2 /\ Fp(t, k) + 4 = at + 6
      /\ j \in 0 .. 4 /\ k = j + 1 /\ t.pushed \in BOOLEAN /\ at + 6 <= 48
  BY DEF Stack, Fp, Sp
<1>2. v \in 0 .. 2^WORD - 1 /\ at \in 0 .. Stack /\ 2 = (IF WORD = WORD THEN 2 ELSE 4)
  <2>1. v \in Words
    BY SmallNumbers
  <2> QED BY <2>1, <1>1 DEF Words
<1>3. Linked(t, m, j)
  BY <1>1 DEF Linked
<1> HIDE DEF at, j
<1>w. WORD \in {WORD, LONG}
  OBVIOUS
<1>l. LeftAlone(z, m, t, j, WORD, at, 2, v)
  BY <1>1, <1>2, <1>w, WriteBelow
<1> HIDE DEF z
<1>4. /\ Cells(z) /\ DOMAIN z = 0 .. Stack + 3 /\ z[Stack] = m[Stack] /\ ReadMemory(z, WORD, at) = v
      /\ \A p \in at + 2 .. Stack : ReadMemory(z, LONG, p) = ReadMemory(m, LONG, p)
      /\ Linked(t, z, j) /\ Kept(t, z, j)
  <2>1. Kept(t, m, j)
    BY DEF j
  <2> QED BY <1>l, <1>3, <2>1 DEF LeftAlone
<1>5. ReadMemory(z, LONG, at + 2) = ReadMemory(m, LONG, at + 2) /\ ReadMemory(z, LONG, at + 6) = ReadMemory(m, LONG, at + 6)
  <2>1. at + 2 \in at + 2 .. Stack /\ at + 6 \in at + 2 .. Stack
    BY <1>1
  <2> QED BY <1>4, <2>1
<1>6. Linked(t, z, k)
  <2> SUFFICES ASSUME NEW i \in 1 .. k
               PROVE  /\ ReadMemory(z, LONG, Fp(t, i)) = Fp(t, i - 1)
                      /\ ReadMemory(z, LONG, Fp(t, i) + 4) = Back(t, i)
    BY DEF Linked
  <2>1. CASE i \in 1 .. j
    BY <1>3, <1>4, <2>1 DEF Linked
  <2>2. CASE i = k
    <3>1. ReadMemory(m, LONG, Fp(t, k)) = Fp(t, k - 1) /\ ReadMemory(m, LONG, Fp(t, k) + 4) = Back(t, k)
      BY <2>2 DEF Linked
    <3> QED BY <1>1, <1>5, <2>2, <3>1
  <2>3. i \in 1 .. j \/ i = k
    BY <1>1
  <2> QED BY <2>1, <2>2, <2>3
<1>7. Kept(t, z, k)
  <2> SUFFICES ASSUME NEW i \in 1 .. k PROVE ReadMemory(z, WORD, Fp(t, i) - 2) = t.n - i + 1
    BY DEF Kept
  <2>1. CASE i \in 1 .. j
    BY <1>4, <2>1 DEF Kept
  <2>2. CASE i = k
    BY <1>4, <2>2 DEF at
  <2>3. i \in 1 .. j \/ i = k
    BY <1>1
  <2> QED BY <2>1, <2>2, <2>3
<1> QED BY <1>4, <1>6, <1>7 DEF at, z, NumberMore

-----------------------------------------------------------------------------
(* Where a program of calls stands                                         *)

\* With k frames: registers, and memory with c above the stack.
Stands(t, k, D, A, m, c) ==
    /\ D \in [REG_D -> Longs] /\ A \in [REG_A -> Longs] /\ Cells(m)
    /\ DOMAIN m = 0 .. Stack + 3 /\ m[Stack] = c
    /\ D[2] = 0 /\ D[3] = 0 /\ A[9] = 24
    /\ A[8] = Fp(t, k) /\ Linked(t, m, k)

\* At instruction p of the program with local variables; z is the condition Z.
LocalAt(t, k, p, D, A, m, z) ==
    /\ A[SP] = IF p \in {3, 12} THEN Sp(t, k) - 4 ELSE Sp(t, k)
    /\ p \in {1, 2, 13} => k = 0
    /\ p = 1 => D[0] = t.n
    /\ p \in {2, 13} => D[0] = 0 /\ D[1] = SumTo(t.n)
    /\ p \in {3, 12} => ReadMemory(m, LONG, A[SP]) = Back(t, k + 1)
    /\ p \in {3, 8, 9, 12} => k <= t.n
    /\ p \in 4 .. 11 => k >= 1
    /\ p \in {3, 9} => D[0] = t.n - k
    /\ p \in 4 .. 8 => D[0] = t.n - k + 1
    /\ p = 6 => z = (D[0] = 0)
    /\ p = 7 => D[0] = 0
    /\ p \in {1} \cup 3 .. 9 => D[1] = 0
    /\ p = 4 => Kept(t, m, k - 1)
    /\ p \in {3} \cup 5 .. 12 => Kept(t, m, k)
    /\ p \in 10 .. 12 => D[0] = 0
    /\ p \in {10, 12} => D[1] = SumTo(t.n - k)
    /\ p = 11 => D[1] = SumTo(t.n - k + 1)

\* ... and of the one with arguments on the stack.
PushedAt(t, k, p, D, A, m, z) ==
    /\ A[SP] = IF p \in {4, 12} THEN Sp(t, k) - 8 ELSE IF p \in {2, 10} THEN Sp(t, k) - 4 ELSE Sp(t, k)
    /\ p \in {1, 2, 3, 13} => k = 0
    /\ p \in {1, 2} => D[1] = 0
    /\ p = 2 => ReadMemory(m, LONG, A[SP]) = t.n
    /\ p \in {3, 13} => D[0] = 0 /\ D[1] = SumTo(t.n)
    /\ p \in {4, 12} => ReadMemory(m, LONG, A[SP]) = Back(t, k + 1)
    /\ p \in {4, 12} \cup 7 .. 10 => k <= t.n
    /\ p = 4 => ReadMemory(m, LONG, A[SP] + 4) = t.n - k
    /\ p \in 5 .. 11 => k >= 1
    /\ p = 5 => ReadMemory(m, LONG, Fp(t, k) + 8) = t.n - k + 1
    /\ p \in 6 .. 8 => D[0] = t.n - k + 1
    /\ p \in {9, 10} => D[0] = t.n - k
    /\ p = 6 => z = (D[0] = 0)
    /\ p = 10 => ReadMemory(m, LONG, A[SP]) = t.n - k
    /\ p \in {4, 8, 9, 10} => D[1] = SumTo(t.n) - SumTo(t.n - k)
    /\ p \in 5 .. 7 => D[1] = SumTo(t.n) - SumTo(t.n - k + 1)
    /\ p \in {11, 12} => D[0] = 0 /\ D[1] = SumTo(t.n)

FrameAt(t, k, p, D, A, m, z, c) ==
    /\ p \in 1 .. 13 /\ k \in 0 .. t.n + 1 /\ Stands(t, k, D, A, m, c)
    /\ IF t.pushed THEN PushedAt(t, k, p, D, A, m, z) ELSE LocalAt(t, k, p, D, A, m, z)
Standing(k) == FrameAt(routine, k, pc, d, areg, mem, ccr.z, was.mem[Stack])
\* After the next step k frames are left.
Leads(k) == FrameAt(routine, k, pc', d', areg', mem', ccr'.z, was.mem[Stack])
FrameTrial ==
    routine \in Frames /\ code = IF routine.pushed THEN WithArgument(routine.w, routine.n) ELSE WithLocal(routine.w)

LEMMA LocalCode ==
    ASSUME FrameTrial, ~routine.pushed
    PROVE  /\ Len(code) = 12
           /\ code[1] = Goto("bsr", routine.w, "T", 1, 3)
           /\ code[2] = On("jmp", "", LONG, At(13), 0, 0)
           /\ code[3] = Frame(routine.w, 2)
           /\ code[4] = MoveTo(WORD, Data(0), Local)
           /\ code[5] = On("tst", "", WORD, Data(0), 0, 0)
           /\ code[6] = Goto("bcc", routine.w, "NE", 6, 8)
           /\ code[7] = Goto("bra", routine.w, "T", 7, 10)
           /\ code[8] = On("sub", "quick", WORD, Data(0), 0, 1)
           /\ code[9] = Goto("bsr", routine.w, "T", 9, 3)
           /\ code[10] = On("add", "er", WORD, Local, 1, 0)
           /\ code[11] = Simple("unlk", 8, 0)
           /\ code[12] = Simple("rts", 0, 0)
<1>1. code = WithLocal(routine.w)
  BY DEF FrameTrial
<1> QED BY <1>1 DEF WithLocal

LEMMA ArgumentCode ==
    ASSUME FrameTrial, routine.pushed
    PROVE  /\ Len(code) = 12
           /\ code[1] = On("pea", "", LONG, At(routine.n), 0, 0)
           /\ code[2] = On("jsr", "", LONG, At(4), 0, 0)
           /\ code[3] = On("jmp", "", LONG, At(13), 0, 0)
           /\ code[4] = Frame(routine.w, 0)
           /\ code[5] = MoveTo(LONG, Argument, Data(0))
           /\ code[6] = Goto("bcc", routine.w, "EQ", 6, 11)
           /\ code[7] = On("add", "er", LONG, Data(0), 1, 0)
           /\ code[8] = On("sub", "quick", LONG, Data(0), 0, 1)
           /\ code[9] = MoveTo(LONG, Data(0), [mode |-> "pd", r |-> SP])
           /\ code[10] = On("jsr", "", LONG, At(4), 0, 0)
           /\ code[11] = Simple("unlk", 8, 0)
           /\ code[12] = Simple("rtd", 0, 4)
<1>1. code = WithArgument(routine.w, routine.n)
  BY DEF FrameTrial
<1> QED BY <1>1 DEF WithArgument

LEMMA FramePlaces ==
    ASSUME FrameTrial, NEW k \in 0 .. routine.n + 1
    PROVE  /\ routine.n \in 0 .. 3 /\ routine.w \in {WORD, LONG} /\ routine.pushed \in BOOLEAN
           /\ k \in 0 .. 4 /\ routine.name = "frames" /\ Stack = 48 /\ Elsewhere = 200 /\ SP = 15
           /\ Sp(routine, k) = (IF routine.pushed THEN 48 - 12 * k ELSE 48 - 10 * k)
           /\ Fp(routine, k) = (IF k = 0 THEN 200 ELSE IF routine.pushed THEN 48 - 12 * k ELSE 50 - 10 * k)
           /\ Back(routine, k) = (IF routine.pushed THEN IF k = 1 THEN 3 ELSE 11 ELSE IF k = 1 THEN 2 ELSE 10)
<1>1. routine.n \in 0 .. 3 /\ routine.w \in {WORD, LONG} /\ routine.pushed \in BOOLEAN /\ routine.name = "frames"
  BY DEF FrameTrial, Frames
<1> QED BY <1>1 DEF Sp, Fp, Back, Stack, Elsewhere, SP

\* A step that moves nothing but the stack pointer, and what is below the frames.
LEMMA OnStack ==
    ASSUME NEW k, Stands(routine, k, d, areg, mem, was.mem[Stack]),
           d' = d \/ (d' \in [REG_D -> Longs] /\ d'[2] = 0 /\ d'[3] = 0),
           NEW s \in 0 .. 255, areg' = areg \/ areg' = [areg EXCEPT ![SP] = s],
           Cells(mem'), DOMAIN mem' = 0 .. Stack + 3, mem'[Stack] = mem[Stack], Linked(routine, mem', k)
    PROVE  /\ Stands(routine, k, d', areg', mem', was.mem[Stack])
           /\ areg' = [areg EXCEPT ![SP] = s] => areg'[SP] = s
<1>1. areg \in [REG_A -> Longs] /\ s \in Longs /\ SP \in REG_A /\ SP # 8 /\ SP # 9
  <2>1. s \in Longs
    BY SmallNumbers
  <2>2. areg \in [REG_A -> Longs]
    BY DEF Stands
  <2>3. SP \in REG_A /\ SP # 8 /\ SP # 9
    BY DEF REG_A, SP
  <2> QED BY <2>1, <2>2, <2>3
<1>2. areg' \in [REG_A -> Longs] /\ areg'[8] = areg[8] /\ areg'[9] = areg[9]
  BY <1>1 DEF REG_A
<1> QED BY <1>1, <1>2 DEF Stands

\* What a data register becomes.
LEMMA DataBecomes ==
    ASSUME d \in [REG_D -> Longs], d[2] = 0, d[3] = 0, NEW i \in {0, 1}, NEW v \in 0 .. 255, d' = [d EXCEPT ![i] = v]
    PROVE  d' \in [REG_D -> Longs] /\ d'[2] = 0 /\ d'[3] = 0 /\ d'[i] = v /\ d'[1 - i] = d[1 - i]
<1>1. v \in Longs /\ REG_D = {0, 1, 2, 3}
  BY SmallNumbers DEF REG_D
<1> QED BY <1>1

\* What is known before each step.
LEMMA BeforeStep ==
    ASSUME FrameTrial, GuestNext, NEW k, Standing(k)
    PROVE  /\ Machine /\ pc \in 1 .. 13 /\ k \in 0 .. routine.n + 1
           /\ DOMAIN mem = 0 .. Stack + 3 /\ mem[Stack] = was.mem[Stack] /\ d[2] = 0 /\ d[3] = 0
           /\ areg[8] = Fp(routine, k) /\ Linked(routine, mem, k) /\ Cells(mem) /\ d \in [REG_D -> Longs]
           /\ Stands(routine, k, d, areg, mem, was.mem[Stack])
           /\ IF routine.pushed THEN PushedAt(routine, k, pc, d, areg, mem, ccr.z)
                                ELSE LocalAt(routine, k, pc, d, areg, mem, ccr.z)
           /\ pc # 13
<1>1. Running
  BY ProgramsKept
<1>2. Len(code) = 12
  BY LocalCode, ArgumentCode
<1>3. pc # 13
  BY <1>1, <1>2 DEF Running, Ended
<1> QED BY <1>3 DEF Standing, FrameAt, Stands, Machine

\* A long is written below the frames; a frame is put there.
LEMMA WritesLong ==
    ASSUME Cells(mem), DOMAIN mem = 0 .. Stack + 3, routine.pushed \in BOOLEAN, NEW k \in 0 .. 4,
           NEW at \in 0 .. Stack, NEW v \in 0 .. 255, at + 4 <= Sp(routine, k)
    PROVE  LeftAlone(WriteMemory(mem, LONG, at, v), mem, routine, k, LONG, at, 4, v)
<1>1. v \in 0 .. 2^LONG - 1 /\ LONG \in {WORD, LONG} /\ 4 = IF LONG = WORD THEN 2 ELSE 4
  BY MemorySizes
<1> QED BY SMTT(40), <1>1, WriteBelow

LEMMA WritesFrame ==
    ASSUME Cells(mem), DOMAIN mem = 0 .. Stack + 3, routine.pushed \in BOOLEAN, NEW k \in 0 .. 3,
           Linked(routine, mem, k),
           ReadMemory(mem, LONG, Fp(routine, k + 1) + 4) = Back(routine, k + 1)
    PROVE  FrameMore(WriteMemory(mem, LONG, Fp(routine, k + 1), Fp(routine, k)), mem, routine, k)
  BY LinkedMore

-----------------------------------------------------------------------------
(* The program with local variables                                        *)

\* BSR at 1 and 9 pushes the address behind it.
LEMMA LocalCalls ==
    ASSUME FrameTrial, GuestNext, NEW k, Standing(k), ~routine.pushed, pc \in {1, 9}
    PROVE  Leads(k)
<1> DEFINE t == routine
           s == areg[SP] - 4
<1>1. /\ Machine /\ k \in 0 .. t.n + 1 /\ LocalAt(t, k, pc, d, areg, mem, ccr.z)
      /\ DOMAIN mem = 0 .. Stack + 3 /\ Linked(t, mem, k) /\ Cells(mem)
      /\ Stands(t, k, d, areg, mem, was.mem[Stack])
  BY BeforeStep
<1>2. /\ t.n \in 0 .. 3 /\ t.w \in {WORD, LONG} /\ t.pushed \in BOOLEAN /\ k \in 0 .. 4 /\ Stack = 48
      /\ Sp(t, k) = 48 - 10 * k
  BY <1>1, FramePlaces
<1>3. /\ areg[SP] = Sp(t, k) /\ k <= t.n /\ d[0] = t.n - k /\ d[1] = 0 /\ Kept(t, mem, k)
      /\ k + 1 \in 0 .. t.n + 1 /\ Back(t, k + 1) = pc + 1
  <2>1. areg[SP] = Sp(t, k) /\ k <= t.n /\ d[0] = t.n - k /\ d[1] = 0 /\ (pc = 1 => k = 0) /\ (pc = 9 => k >= 1)
        /\ (pc = 9 => Kept(t, mem, k))
    BY <1>1, <1>2 DEF LocalAt
  <2>2. Kept(t, mem, 0)
    BY DEF Kept
  <2>3. k + 1 \in 0 .. t.n + 1
    BY <1>2, <2>1
  <2>4. Back(t, k + 1) = IF k + 1 = 1 THEN 2 ELSE 10
    BY <2>3, FramePlaces
  <2> QED BY <1>2, <2>1, <2>2, <2>3, <2>4
<1>4. Here = Goto("bsr", t.w, "T", pc, 3)
  BY LocalCode DEF Here
<1>5. bsr /\ Here.op = "bsr"
  <2>1. Here.op = "bsr"
    BY <1>4 DEF Goto
  <2> QED BY <2>1, FrameSteps DEF FrameOps
<1>6. /\ pc' = 3 /\ d' = d /\ areg' = [areg EXCEPT ![SP] = s]
      /\ mem' = WriteMemory(mem, LONG, s, pc + 1)
  <2>1. areg[SP] \in 4 .. Stack /\ pc \in 1 .. 12
    BY <1>2, <1>3
  <2>2. \E w \in {WORD, LONG} : Here = Goto("bsr", w, "T", pc, 3)
    BY <1>2, <1>4
  <2> QED BY <1>1, <1>5, <2>1, <2>2, SubroutineStep
<1>7. /\ Cells(mem') /\ DOMAIN mem' = 0 .. Stack + 3 /\ mem'[Stack] = mem[Stack]
      /\ ReadMemory(mem', LONG, s) = pc + 1 /\ Linked(t, mem', k) /\ Kept(t, mem', k)
  <2>1. /\ s \in 0 .. Stack /\ s + 4 <= Sp(t, k) /\ pc + 1 \in 0 .. 255
    BY <1>2, <1>3
  <2> HIDE DEF s
  <2>2. LeftAlone(WriteMemory(mem, LONG, s, pc + 1), mem, t, k, LONG, s, 4, pc + 1)
    BY ZenonT(60), <1>1, <1>2, <2>1, WritesLong
  <2> QED BY <1>1, <1>2, <1>3, <1>6, <2>2 DEF LeftAlone
<1>8. s \in 0 .. 255 /\ s = Sp(t, k) - 4
  BY SMTT(40), <1>2, <1>3
<1> HIDE DEF s
<1>9. Stands(t, k, d', areg', mem', was.mem[Stack]) /\ areg'[SP] = s
  BY <1>1, <1>6, <1>7, <1>8, OnStack
<1>10. LocalAt(t, k, 3, d', areg', mem', ccr'.z)
  BY <1>2, <1>3, <1>6, <1>7, <1>8, <1>9 DEF LocalAt
<1> QED BY <1>1, <1>6, <1>9, <1>10 DEF Leads, FrameAt

\* LINK makes a frame more.
LEMMA LocalLinks ==
    ASSUME FrameTrial, GuestNext, NEW k, Standing(k), ~routine.pushed, pc = 3
    PROVE  Leads(k + 1)
<1> DEFINE t == routine
           a == areg[SP] - 4
           s == areg[SP] - 4 - 2
<1>1. /\ Machine /\ k \in 0 .. t.n + 1 /\ LocalAt(t, k, pc, d, areg, mem, ccr.z)
      /\ DOMAIN mem = 0 .. Stack + 3 /\ Linked(t, mem, k) /\ Cells(mem) /\ areg[8] = Fp(t, k)
      /\ Stands(t, k, d, areg, mem, was.mem[Stack])
  BY BeforeStep
<1>2. /\ areg[SP] = Sp(t, k) - 4 /\ k <= t.n /\ d[0] = t.n - k /\ d[1] = 0 /\ Kept(t, mem, k)
      /\ ReadMemory(mem, LONG, areg[SP]) = Back(t, k + 1)
  BY <1>1 DEF LocalAt
<1>3. /\ t.n \in 0 .. 3 /\ t.w \in {WORD, LONG} /\ t.pushed \in BOOLEAN /\ k \in 0 .. 3 /\ Stack = 48
      /\ k + 1 \in 0 .. t.n + 1 /\ Sp(t, k) = 48 - 10 * k /\ SP = 15
  <2>1. k \in 0 .. t.n + 1
    BY <1>1
  <2>2. /\ t.n \in 0 .. 3 /\ t.w \in {WORD, LONG} /\ t.pushed \in BOOLEAN /\ k \in 0 .. 4 /\ Stack = 48 /\ SP = 15
        /\ Sp(t, k) = (IF t.pushed THEN 48 - 12 * k ELSE 48 - 10 * k)
        /\ Fp(t, k) = (IF k = 0 THEN 200 ELSE IF t.pushed THEN 48 - 12 * k ELSE 50 - 10 * k)
    BY <2>1, FramePlaces
  <2>3. ~t.pushed
    OBVIOUS
  <2>4. k <= t.n
    BY <1>2
  <2> QED BY SMTT(40), <2>1, <2>2, <2>3, <2>4
<1>4. Sp(t, k + 1) = 48 - 10 * (k + 1) /\ Fp(t, k + 1) = 50 - 10 * (k + 1)
  BY <1>3, FramePlaces
<1>5. Here = Frame(t.w, 2) /\ link
  <2>1. Here = Frame(t.w, 2)
    BY LocalCode DEF Here
  <2>2. Here.op = "link"
    BY <2>1 DEF Frame
  <2> QED BY <2>1, <2>2, FrameSteps DEF FrameOps
<1>6. /\ pc' = 4 /\ d' = d /\ areg' = [areg EXCEPT ![8] = a, ![SP] = s]
      /\ mem' = WriteMemory(mem, LONG, a, areg[8])
  <2>1. areg[SP] \in 4 + 2 .. Stack /\ 2 \in {0, 2}
    BY <1>2, <1>3
  <2>2. Here.d = 8 /\ Here.w = t.w /\ Here.disp = Mask(t.w, Minus(t.w, 2))
    BY <1>5 DEF Frame, Mask
  <2>3. Signed(Here.w, Here.disp) = 0 - 2
    BY <1>3, <2>2, SmallNumbers
  <2> QED BY <1>1, <1>5, <2>1, <2>2, <2>3, LinkStep
<1>7. a = Fp(t, k + 1) /\ s = Sp(t, k + 1) /\ s \in 0 .. 255 /\ a \in 0 .. 255 /\ Fp(t, k + 1) + 4 = areg[SP]
  BY <1>2, <1>3, <1>4
<1> HIDE DEF a, s
<1>8. /\ Cells(mem') /\ DOMAIN mem' = 0 .. Stack + 3 /\ mem'[Stack] = mem[Stack]
      /\ Linked(t, mem', k + 1) /\ Kept(t, mem', k)
  <2>1. FrameMore(WriteMemory(mem, LONG, Fp(t, k + 1), Fp(t, k)), mem, t, k)
    BY <1>1, <1>2, <1>3, <1>7, WritesFrame
  <2> QED BY <1>1, <1>2, <1>6, <1>7, <2>1 DEF FrameMore
<1>9. areg' \in [REG_A -> Longs] /\ areg'[8] = a /\ areg'[SP] = s /\ areg'[9] = 24
  <2>1. a \in Longs /\ s \in Longs
    BY <1>7, SmallNumbers
  <2> QED BY <1>1, <1>3, <1>6, <2>1 DEF Stands, REG_A
<1>10. Stands(t, k + 1, d', areg', mem', was.mem[Stack])
  BY <1>1, <1>6, <1>7, <1>8, <1>9 DEF Stands
<1>11. LocalAt(t, k + 1, 4, d', areg', mem', ccr'.z)
  <2>1. t.n - (k + 1) + 1 = t.n - k /\ (k + 1) - 1 = k /\ k + 1 >= 1
    BY <1>3
  <2> QED BY <1>2, <1>6, <1>7, <1>8, <1>9, <2>1 DEF LocalAt
<1> QED BY <1>3, <1>6, <1>10, <1>11 DEF Leads, FrameAt

\* The number is kept in the local variable.
LEMMA LocalKeeps ==
    ASSUME FrameTrial, GuestNext, NEW k, Standing(k), ~routine.pushed, pc = 4
    PROVE  Leads(k)
<1> DEFINE t == routine
<1>1. /\ Machine /\ k \in 0 .. t.n + 1 /\ LocalAt(t, k, pc, d, areg, mem, ccr.z)
      /\ DOMAIN mem = 0 .. Stack + 3 /\ Linked(t, mem, k) /\ Cells(mem) /\ areg[8] = Fp(t, k)
      /\ Stands(t, k, d, areg, mem, was.mem[Stack])
  BY BeforeStep
<1>2. areg[SP] = Sp(t, k) /\ k >= 1 /\ d[0] = t.n - k + 1 /\ d[1] = 0 /\ Kept(t, mem, k - 1)
  BY <1>1 DEF LocalAt
<1>3. t.n \in 0 .. 3 /\ k \in 1 .. 4 /\ Stack = 48 /\ Fp(t, k) = 50 - 10 * k /\ d[0] \in 0 .. 15
  <2>1. t.n \in 0 .. 3 /\ k \in 1 .. 4 /\ k <= t.n + 1 /\ Stack = 48
    BY <1>1, <1>2, FramePlaces
  <2>2. Fp(t, k) = 50 - 10 * k
    BY <1>1, <1>2, FramePlaces
  <2> QED BY <1>2, <2>1, <2>2
<1>4. move /\ Here = MoveTo(WORD, Data(0), Local)
  <2>1. Here = MoveTo(WORD, Data(0), Local)
    BY LocalCode DEF Here
  <2>2. Here.op = "move"
    BY <2>1 DEF MoveTo
  <2> QED BY <2>1, <2>2, FrameSteps DEF FrameOps
<1>5. pc' = 5 /\ d' = d /\ areg' = areg /\ mem' = WriteMemory(mem, WORD, Fp(t, k) - 2, d[0])
  <2>1. Here.w = WORD /\ Here.ea = Data(0) /\ Here.to = Local
    BY <1>4 DEF MoveTo
  <2>2. areg[8] \in 2 .. Stack
    BY <1>1, <1>3
  <2> QED BY <1>1, <1>3, <1>4, <2>1, <2>2, KeepStep
<1>6. /\ Cells(mem') /\ DOMAIN mem' = 0 .. Stack + 3 /\ mem'[Stack] = mem[Stack]
      /\ Linked(t, mem', k) /\ Kept(t, mem', k)
  <2>1. d[0] \in 0 .. 15 /\ k \in 1 .. 4 /\ t.pushed \in BOOLEAN
    BY <1>1, <1>3, FramePlaces
  <2>2. NumberMore(WriteMemory(mem, WORD, Fp(t, k) - 2, d[0]), mem, t, k)
    BY <1>1, <1>2, <2>1, KeptMore
  <2> QED BY <1>5, <2>2 DEF NumberMore
<1>7. Stands(t, k, d', areg', mem', was.mem[Stack])
  BY <1>1, <1>5, <1>6 DEF Stands
<1>8. LocalAt(t, k, 5, d', areg', mem', ccr'.z)
  BY <1>2, <1>5, <1>6 DEF LocalAt
<1> QED BY <1>1, <1>5, <1>7, <1>8 DEF Leads, FrameAt

\* TST, and the branches on what it found.
LEMMA LocalTests ==
    ASSUME FrameTrial, GuestNext, NEW k, Standing(k), ~routine.pushed, pc \in {5, 6, 7}
    PROVE  Leads(k)
<1> DEFINE t == routine
<1>1. /\ Machine /\ k \in 0 .. t.n + 1 /\ LocalAt(t, k, pc, d, areg, mem, ccr.z)
      /\ Stands(t, k, d, areg, mem, was.mem[Stack])
  BY BeforeStep
<1>2. /\ areg[SP] = Sp(t, k) /\ k >= 1 /\ d[0] = t.n - k + 1 /\ d[1] = 0 /\ Kept(t, mem, k)
      /\ pc = 6 => ccr.z = (d[0] = 0)
      /\ pc = 7 => d[0] = 0
  BY <1>1 DEF LocalAt
<1>3. t.n \in 0 .. 3 /\ t.w \in {WORD, LONG} /\ k \in 1 .. 4 /\ k <= t.n + 1 /\ d[0] \in 0 .. 15
  BY <1>1, <1>2, FramePlaces
<1>4. CASE pc = 5
  <2>1. Here = On("tst", "", WORD, Data(0), 0, 0)
    BY <1>4, LocalCode DEF Here
  <2>2. Here.op = "tst" /\ Here.w = WORD /\ Here.ea = Data(0)
    BY <2>1 DEF On
  <2>3. tst
    BY <2>2, FrameSteps DEF FrameOps
  <2>4. pc' = 6 /\ d' = d /\ areg' = areg /\ mem' = mem /\ ccr'.z = (d[0] = 0)
    BY <1>1, <1>3, <1>4, <2>2, <2>3, TestStep
  <2>5. LocalAt(t, k, 6, d', areg', mem', ccr'.z)
    BY <1>2, <2>4 DEF LocalAt
  <2> QED BY <1>1, <2>4, <2>5 DEF Leads, FrameAt
<1>5. CASE pc = 6
  <2>1. Here = Goto("bcc", t.w, "NE", pc, 8)
    BY <1>5, LocalCode DEF Here
  <2>2. Here.op = "bcc"
    BY <2>1 DEF Goto
  <2>3. bcc
    BY <2>2, FrameSteps DEF FrameOps
  <2>4. pc' = (IF Cond("NE", ccr) THEN 8 ELSE 7) /\ d' = d /\ areg' = areg /\ mem' = mem
    <3>1. 8 \in 1 .. 12 /\ pc \in 1 .. 12 /\ 8 - pc - 1 \in -8 .. 7 /\ pc + 1 = 7
      BY <1>5
    <3> QED BY <1>1, <1>3, <2>1, <2>3, <3>1, BranchStep DEF Then
  <2>5. Cond("NE", ccr) = ~ccr.z
    BY DEF Cond
  <2>6. CASE d[0] = 0
    <3>1. pc' = 7
      BY <1>2, <1>5, <2>4, <2>5, <2>6
    <3>2. LocalAt(t, k, 7, d', areg', mem', ccr'.z)
      BY <1>2, <2>4, <2>6 DEF LocalAt
    <3> QED BY <1>1, <2>4, <3>1, <3>2 DEF Leads, FrameAt
  <2>7. CASE d[0] # 0
    <3>1. pc' = 8
      BY <1>2, <1>5, <2>4, <2>5, <2>7
    <3>2. k <= t.n
      BY <1>2, <1>3, <2>7
    <3>3. LocalAt(t, k, 8, d', areg', mem', ccr'.z)
      BY <1>2, <2>4, <3>2 DEF LocalAt
    <3> QED BY <1>1, <2>4, <3>1, <3>3 DEF Leads, FrameAt
  <2> QED BY <2>6, <2>7
<1>6. CASE pc = 7
  <2>1. Here = Goto("bra", t.w, "T", pc, 10)
    BY <1>6, LocalCode DEF Here
  <2>2. Here.op = "bra"
    BY <2>1 DEF Goto
  <2>3. bra
    BY <2>2, FrameSteps DEF FrameOps
  <2>4. pc' = (IF Cond("T", ccr) THEN 10 ELSE pc + 1) /\ d' = d /\ areg' = areg /\ mem' = mem
    <3>1. 10 \in 1 .. 12 /\ pc \in 1 .. 12 /\ 10 - pc - 1 \in -8 .. 7
      BY <1>6
    <3> QED BY <1>1, <1>3, <2>1, <2>3, <3>1, BranchStep DEF Then
  <2>5. pc' = 10
    BY <2>4 DEF Cond
  <2>6. t.n - k = -1 /\ SumTo(t.n - k) = 0
    <3>1. t.n - k = -1
      BY <1>2, <1>3, <1>6
    <3> QED BY <3>1, SumsAre
  <2>7. LocalAt(t, k, 10, d', areg', mem', ccr'.z)
    BY <1>2, <1>6, <2>4, <2>6 DEF LocalAt
  <2> QED BY <1>1, <2>4, <2>5, <2>7 DEF Leads, FrameAt
<1> QED BY <1>4, <1>5, <1>6

\* SUBQ before the call, ADD behind it.
LEMMA LocalCounts ==
    ASSUME FrameTrial, GuestNext, NEW k, Standing(k), ~routine.pushed, pc \in {8, 10}
    PROVE  Leads(k)
<1> DEFINE t == routine
<1>1. /\ Machine /\ k \in 0 .. t.n + 1 /\ LocalAt(t, k, pc, d, areg, mem, ccr.z)
      /\ Stands(t, k, d, areg, mem, was.mem[Stack]) /\ d[2] = 0 /\ d[3] = 0 /\ d \in [REG_D -> Longs]
      /\ areg[8] = Fp(t, k) /\ Cells(mem) /\ DOMAIN mem = 0 .. Stack + 3 /\ Linked(t, mem, k)
      /\ mem[Stack] = was.mem[Stack]
  BY BeforeStep
<1>2. areg[SP] = Sp(t, k) /\ k >= 1 /\ Kept(t, mem, k)
  BY <1>1 DEF LocalAt
<1>3. t.n \in 0 .. 3 /\ k \in 1 .. 4 /\ k <= t.n + 1 /\ Stack = 48 /\ Fp(t, k) = 50 - 10 * k
  <2>1. k \in 0 .. t.n + 1
    BY <1>1
  <2>2. /\ t.n \in 0 .. 3 /\ t.w \in {WORD, LONG} /\ t.pushed \in BOOLEAN /\ k \in 0 .. 4 /\ Stack = 48 /\ SP = 15
        /\ Sp(t, k) = (IF t.pushed THEN 48 - 12 * k ELSE 48 - 10 * k)
        /\ Fp(t, k) = (IF k = 0 THEN 200 ELSE IF t.pushed THEN 48 - 12 * k ELSE 50 - 10 * k)
    BY <2>1, FramePlaces
  <2>3. ~t.pushed
    OBVIOUS
  <2>4. k >= 1
    BY <1>2
  <2> QED BY SMTT(40), <2>1, <2>2, <2>3, <2>4
<1>4. CASE pc = 8
  <2>1. d[0] = t.n - k + 1 /\ k <= t.n /\ d[1] = 0
    BY <1>1, <1>4 DEF LocalAt
  <2>2. Here = On("sub", "quick", WORD, Data(0), 0, 1)
    BY <1>4, LocalCode DEF Here
  <2>3. Here.op = "sub" /\ Here.w \in {WORD, LONG} /\ Here.ea = Data(0) /\ Here.form = "quick" /\ Here.q = 1
    BY <2>2 DEF On
  <2>4. sub
    BY <2>3, FrameSteps DEF FrameOps
  <2>5. d[0] \in 1 .. 15 /\ d[0] - 1 = t.n - k /\ d[0] - 1 \in 0 .. 255
    BY <1>3, <2>1
  <2>6. pc' = 9 /\ d' = [d EXCEPT ![0] = d[0] - 1] /\ areg' = areg /\ mem' = mem
    BY SMTT(40), <1>1, <1>4, <2>3, <2>4, <2>5, CountStep
  <2>7. d' \in [REG_D -> Longs] /\ d'[2] = 0 /\ d'[3] = 0 /\ d'[0] = d[0] - 1 /\ d'[1] = d[1]
    <3>1. 0 \in {0, 1} /\ 1 - 0 = 1
      OBVIOUS
    <3> QED BY <1>1, <2>5, <2>6, <3>1, DataBecomes
  <2>8. Stands(t, k, d', areg', mem', was.mem[Stack])
    BY <1>1, <2>6, <2>7 DEF Stands
  <2>9. LocalAt(t, k, 9, d', areg', mem', ccr'.z)
    BY <1>2, <2>1, <2>5, <2>6, <2>7 DEF LocalAt
  <2> QED BY <1>1, <2>6, <2>8, <2>9 DEF Leads, FrameAt
<1>5. CASE pc = 10
  <2>1. d[0] = 0 /\ d[1] = SumTo(t.n - k)
    BY <1>1, <1>5 DEF LocalAt
  <2>2. Here = On("add", "er", WORD, Local, 1, 0)
    BY <1>5, LocalCode DEF Here
  <2>3. Here.op = "add" /\ Here.w = WORD /\ Here.ea = Local /\ Here.form = "er" /\ Here.d = 1
    BY <2>2 DEF On
  <2>4. add
    BY <2>3, FrameSteps DEF FrameOps
  <2> DEFINE v == t.n - k + 1
             u == SumTo(v)
  <2>5. ReadMemory(mem, WORD, areg[8] - 2) = v
    <3>1. k \in 1 .. k
      BY <1>3
    <3> QED BY <1>1, <1>2, <3>1 DEF Kept
  <2>6. /\ v \in 0 .. 3 /\ v - 1 = t.n - k
    BY <1>3
  <2>7. u = SumTo(t.n - k) + v /\ u \in 0 .. 6
    <3>1. SumTo(v) = SumTo(v - 1) + v /\ SumTo(v) \in 0 .. 6
      <4> HIDE DEF v
      <4> QED BY <2>6, SumsAre
    <3> QED BY <3>1, <2>6
  <2>8. SumTo(t.n - k) \in 0 .. 6
    <3>1. t.n - k \in -1 .. t.n
      BY <1>3
    <3> QED BY <1>3, <3>1, SumsAre
  <2> HIDE DEF v, u
  <2>9. pc' = 11 /\ d' = [d EXCEPT ![1] = u] /\ areg' = areg /\ mem' = mem
    <3>1. d[1] \in 0 .. 15 /\ v \in 0 .. 15 /\ d[1] + v \in 0 .. 15 /\ d[1] + v = u
      BY <2>1, <2>6, <2>7, <2>8
    <3>2. areg[8] \in 2 .. Stack /\ WORD \in {WORD, LONG}
      BY <1>1, <1>3
    <3>3. pc' = pc + 1 /\ d' = [d EXCEPT ![1] = d[1] + v] /\ areg' = areg /\ mem' = mem
      BY <1>1, <2>3, <2>4, <2>5, <3>1, <3>2, AddStep
    <3>4. pc' = 11
      BY SMTT(40), <1>5, <3>3
    <3> QED BY Zenon, <3>1, <3>3, <3>4
  <2>10. d' \in [REG_D -> Longs] /\ d'[2] = 0 /\ d'[3] = 0 /\ d'[1] = u /\ d'[0] = d[0]
    <3>1. 1 \in {0, 1} /\ 1 - 1 = 0 /\ u \in 0 .. 255
      BY <2>7
    <3> QED BY <1>1, <2>9, <3>1, DataBecomes
  <2>11. Stands(t, k, d', areg', mem', was.mem[Stack])
    BY <1>1, <2>9, <2>10 DEF Stands
  <2>12. LocalAt(t, k, 11, d', areg', mem', ccr'.z)
    BY <1>2, <2>1, <2>9, <2>10 DEF LocalAt, u, v
  <2> QED BY <1>1, <2>9, <2>11, <2>12 DEF Leads, FrameAt
<1> QED BY <1>4, <1>5

\* UNLK takes the youngest frame away.
LEMMA LocalUnlinks ==
    ASSUME FrameTrial, GuestNext, NEW k, Standing(k), ~routine.pushed, pc = 11
    PROVE  Leads(k - 1)
<1> DEFINE t == routine
           j == k - 1
           s == areg[8] + 4
<1>1. /\ Machine /\ k \in 0 .. t.n + 1 /\ LocalAt(t, k, pc, d, areg, mem, ccr.z)
      /\ Stands(t, k, d, areg, mem, was.mem[Stack])
      /\ areg[8] = Fp(t, k) /\ Linked(t, mem, k)
  BY BeforeStep
<1>2. areg[SP] = Sp(t, k) /\ k >= 1 /\ Kept(t, mem, k) /\ d[0] = 0 /\ d[1] = SumTo(t.n - k + 1)
  BY <1>1 DEF LocalAt
<1>3. /\ t.n \in 0 .. 3 /\ k \in 1 .. 4 /\ k <= t.n + 1 /\ Stack = 48 /\ Fp(t, k) = 50 - 10 * k /\ SP = 15
      /\ j \in 0 .. 3 /\ j \in 0 .. t.n + 1 /\ j <= t.n /\ j + 1 = k
  BY <1>1, <1>2, FramePlaces
<1>4. Sp(t, j) = 48 - 10 * j /\ Fp(t, j) \in 0 .. 255 /\ s = Sp(t, j) - 4 /\ s \in 0 .. 255
  <2>1. Sp(t, j) = 48 - 10 * j /\ Fp(t, j) = (IF j = 0 THEN 200 ELSE 50 - 10 * j)
    BY <1>3, FramePlaces
  <2>2. s = 54 - 10 * (j + 1)
    BY <1>1, <1>3
  <2> HIDE DEF s, j
  <2>3. Fp(t, j) \in 0 .. 255
    BY <1>3, <2>1
  <2> QED BY <1>3, <2>1, <2>2, <2>3
<1>5. ReadMemory(mem, LONG, areg[8]) = Fp(t, j) /\ ReadMemory(mem, LONG, s) = Back(t, k)
  <2>1. k \in 1 .. k
    BY <1>3
  <2> QED BY <1>1, <2>1 DEF Linked
<1>6. Here = Simple("unlk", 8, 0) /\ unlk
  <2>1. Here = Simple("unlk", 8, 0)
    BY LocalCode DEF Here
  <2>2. Here.op = "unlk"
    BY <2>1 DEF Simple
  <2> QED BY <2>1, <2>2, FrameSteps DEF FrameOps
<1>7. pc' = 12 /\ d' = d /\ areg' = [areg EXCEPT ![8] = Fp(t, j), ![SP] = s] /\ mem' = mem
  <2>1. areg[8] \in 0 .. Stack /\ Here.d = 8 /\ Fp(t, j) \in Longs
    <3>1. areg[8] \in 0 .. Stack
      BY <1>1, <1>3
    <3>2. Here.d = 8
      BY <1>6 DEF Simple
    <3> HIDE DEF j
    <3> QED BY <1>4, <3>1, <3>2, SmallNumbers
  <2> HIDE DEF j
  <2> QED BY <1>1, <1>5, <1>6, <2>1, UnlinkStep DEF Then
<1> HIDE DEF s, j
<1>8. areg' \in [REG_A -> Longs] /\ areg'[8] = Fp(t, j) /\ areg'[SP] = s /\ areg'[9] = 24
  <2>1. Fp(t, j) \in Longs /\ s \in Longs
    BY <1>4, SmallNumbers
  <2> QED BY <1>1, <1>3, <1>7, <2>1 DEF Stands, REG_A
<1>9. Linked(t, mem, j) /\ Kept(t, mem, j)
  <2>1. \A i \in 1 .. j : i \in 1 .. k
    BY <1>3
  <2> QED BY <1>1, <1>2, <2>1 DEF Linked, Kept
<1>10. Stands(t, j, d', areg', mem', was.mem[Stack])
  BY <1>1, <1>7, <1>8, <1>9 DEF Stands
<1>11. LocalAt(t, j, 12, d', areg', mem', ccr'.z)
  <2>1. t.n - k + 1 = t.n - j
    BY <1>3
  <2> QED BY <1>2, <1>3, <1>4, <1>5, <1>7, <1>8, <1>9, <2>1 DEF LocalAt
<1>12. Leads(j)
  BY <1>3, <1>7, <1>10, <1>11 DEF Leads, FrameAt
<1> QED BY <1>12 DEF j

\* RTS takes the address that the call pushed.
LEMMA LocalReturns ==
    ASSUME FrameTrial, GuestNext, NEW k, Standing(k), ~routine.pushed, pc = 12
    PROVE  Leads(k)
<1> DEFINE t == routine
           s == areg[SP] + 4 + 0
<1>1. /\ Machine /\ k \in 0 .. t.n + 1 /\ LocalAt(t, k, pc, d, areg, mem, ccr.z)
      /\ Stands(t, k, d, areg, mem, was.mem[Stack]) /\ Cells(mem) /\ DOMAIN mem = 0 .. Stack + 3
      /\ Linked(t, mem, k)
  BY BeforeStep
<1>2. /\ areg[SP] = Sp(t, k) - 4 /\ k <= t.n /\ Kept(t, mem, k) /\ d[0] = 0 /\ d[1] = SumTo(t.n - k)
      /\ ReadMemory(mem, LONG, areg[SP]) = Back(t, k + 1)
  BY <1>1 DEF LocalAt
<1>3. /\ t.n \in 0 .. 3 /\ k \in 0 .. 3 /\ k + 1 \in 0 .. t.n + 1 /\ Stack = 48 /\ SP = 15
      /\ Sp(t, k) = 48 - 10 * k
  <2>1. k \in 0 .. t.n + 1
    BY <1>1
  <2>2. /\ t.n \in 0 .. 3 /\ t.w \in {WORD, LONG} /\ t.pushed \in BOOLEAN /\ k \in 0 .. 4 /\ Stack = 48 /\ SP = 15
        /\ Sp(t, k) = (IF t.pushed THEN 48 - 12 * k ELSE 48 - 10 * k)
        /\ Fp(t, k) = (IF k = 0 THEN 200 ELSE IF t.pushed THEN 48 - 12 * k ELSE 50 - 10 * k)
    BY <2>1, FramePlaces
  <2>3. ~t.pushed
    OBVIOUS
  <2>4. k <= t.n
    BY <1>2
  <2> QED BY SMTT(40), <2>1, <2>2, <2>3, <2>4
<1>4. Back(t, k + 1) = IF k = 0 THEN 2 ELSE 10
  BY <1>3, FramePlaces
<1>5. s = Sp(t, k) /\ s \in 0 .. 255 /\ areg[SP] \in 0 .. Stack
  BY <1>2, <1>3
<1>6. rts_32
  <2>1. Here = Simple("rts", 0, 0)
    BY LocalCode DEF Here
  <2>2. Here.op = "rts"
    BY <2>1 DEF Simple
  <2> QED BY <2>2, FrameSteps DEF FrameOps
<1>7. pc' = Back(t, k + 1) /\ d' = d /\ areg' = [areg EXCEPT ![SP] = s] /\ mem' = mem
  BY SMTT(40), <1>1, <1>2, <1>5, <1>6, ReturnStep DEF Then
<1> HIDE DEF s
<1>8. Stands(t, k, d', areg', mem', was.mem[Stack]) /\ areg'[SP] = s
  BY <1>1, <1>5, <1>7, OnStack
<1>9. LocalAt(t, k, pc', d', areg', mem', ccr'.z)
  <2>1. CASE k = 0
    <3>1. t.n - k = t.n /\ pc' = 2
      BY <1>3, <1>4, <1>7, <2>1
    <3> QED BY <1>2, <1>5, <1>7, <1>8, <2>1, <3>1 DEF LocalAt
  <2>2. CASE k # 0
    <3>1. k >= 1 /\ pc' = 10
      BY <1>3, <1>4, <1>7, <2>2
    <3> QED BY <1>2, <1>5, <1>7, <1>8, <3>1 DEF LocalAt
  <2> QED BY <2>1, <2>2
<1>10. pc' \in 1 .. 13
  BY <1>4, <1>7
<1> QED BY <1>1, <1>8, <1>9, <1>10 DEF Leads, FrameAt

\* The program ends behind its last instruction.
LEMMA LocalEnds ==
    ASSUME FrameTrial, GuestNext, NEW k, Standing(k), ~routine.pushed, pc = 2
    PROVE  Leads(k)
<1> DEFINE t == routine
<1>1. /\ Machine /\ k \in 0 .. t.n + 1 /\ LocalAt(t, k, pc, d, areg, mem, ccr.z)
      /\ Stands(t, k, d, areg, mem, was.mem[Stack])
  BY BeforeStep
<1>2. areg[SP] = Sp(t, k) /\ k = 0 /\ d[0] = 0 /\ d[1] = SumTo(t.n)
  BY <1>1 DEF LocalAt
<1>3. jmp_32 /\ Here.ea = At(13)
  <2>1. Here = On("jmp", "", LONG, At(13), 0, 0)
    BY LocalCode DEF Here
  <2>2. Here.op = "jmp" /\ Here.ea = At(13)
    BY <2>1 DEF On
  <2> QED BY <2>2, FrameSteps DEF FrameOps
<1>4. pc' = 13 /\ d' = d /\ areg' = areg /\ mem' = mem
  <2>1. 13 \in 0 .. 15
    OBVIOUS
  <2> QED BY <1>1, <1>3, <2>1, JumpStep DEF Then
<1>5. LocalAt(t, k, 13, d', areg', mem', ccr'.z)
  BY <1>2, <1>4 DEF LocalAt
<1> QED BY <1>1, <1>4, <1>5 DEF Leads, FrameAt

LEMMA LocalSteps ==
    ASSUME FrameTrial, GuestNext, NEW k, Standing(k), ~routine.pushed
    PROVE  \E j \in 0 .. routine.n + 1 : Leads(j)
<1>1. pc \in 1 .. 13 /\ pc # 13
  BY BeforeStep
<1>2. Leads(k) \/ Leads(k + 1) \/ Leads(k - 1)
  BY <1>1, LocalCalls, LocalLinks, LocalKeeps, LocalTests, LocalCounts, LocalUnlinks, LocalReturns, LocalEnds
<1>3. \A j : Leads(j) => j \in 0 .. routine.n + 1
  BY DEF Leads, FrameAt
<1> QED BY <1>2, <1>3

-----------------------------------------------------------------------------
(* The program with arguments                                              *)

\* PEA pushes the first argument, MOVE the next ones.
LEMMA ArgumentPushed ==
    ASSUME FrameTrial, GuestNext, NEW k, Standing(k), routine.pushed, pc \in {1, 9}
    PROVE  Leads(k)
<1> DEFINE t == routine
           s == areg[SP] - 4
           v == t.n - k
<1>1. /\ Machine /\ k \in 0 .. t.n + 1 /\ PushedAt(t, k, pc, d, areg, mem, ccr.z)
      /\ DOMAIN mem = 0 .. Stack + 3 /\ Linked(t, mem, k) /\ Cells(mem)
      /\ Stands(t, k, d, areg, mem, was.mem[Stack])
  BY BeforeStep
<1>2. /\ t.n \in 0 .. 3 /\ t.pushed \in BOOLEAN /\ k \in 0 .. 4 /\ Stack = 48 /\ SP = 15
      /\ Sp(t, k) = 48 - 12 * k
  BY <1>1, FramePlaces
<1>3. /\ areg[SP] = Sp(t, k) /\ k <= t.n
      /\ pc = 1 => k = 0 /\ d[1] = 0
      /\ pc = 9 => k >= 1 /\ d[0] = t.n - k /\ d[1] = SumTo(t.n) - SumTo(t.n - k)
  BY <1>1, <1>2 DEF PushedAt
<1>4. v \in 0 .. 3 /\ s \in 0 .. 255 /\ s \in 0 .. Stack /\ s = Sp(t, k) - 4 /\ areg[SP] \in 4 .. Stack
  BY <1>2, <1>3
<1>5. /\ pc' = pc + 1 /\ areg' = [areg EXCEPT ![SP] = s] /\ mem' = WriteMemory(mem, LONG, s, v) /\ d' = d
  <2>1. CASE pc = 1
    <3>1. Here = On("pea", "", LONG, At(t.n), 0, 0)
      BY <2>1, ArgumentCode DEF Here
    <3>2. Here.op = "pea" /\ Here.ea = At(t.n)
      BY <3>1 DEF On
    <3>3. pea_32
      BY <3>2, FrameSteps DEF FrameOps
    <3>4. t.n \in 0 .. 15 /\ v = t.n
      BY <1>2, <1>3, <2>1
    <3> HIDE DEF v
    <3> QED BY <1>1, <1>4, <3>2, <3>3, <3>4, PushAddressStep DEF Then
  <2>2. CASE pc = 9
    <3>1. Here = MoveTo(LONG, Data(0), [mode |-> "pd", r |-> SP])
      BY <2>2, ArgumentCode DEF Here
    <3>2. Here.op = "move" /\ Here.w = LONG /\ Here.ea = Data(0) /\ Here.to = [mode |-> "pd", r |-> SP]
      BY <3>1 DEF MoveTo
    <3>3. move
      BY <3>2, FrameSteps DEF FrameOps
    <3> QED BY <1>1, <1>3, <1>4, <2>2, <3>2, <3>3, PushDataStep
  <2> QED BY <2>1, <2>2
<1> HIDE DEF s, v
<1>6. /\ Cells(mem') /\ DOMAIN mem' = 0 .. Stack + 3 /\ mem'[Stack] = mem[Stack]
      /\ ReadMemory(mem', LONG, s) = v /\ Linked(t, mem', k)
  <2>1. /\ s + 4 <= Sp(t, k) /\ v \in 0 .. 255
    BY <1>2, <1>4
  <2>2. LeftAlone(WriteMemory(mem, LONG, s, v), mem, t, k, LONG, s, 4, v)
    BY ZenonT(60), <1>1, <1>2, <1>4, <2>1, WritesLong
  <2> QED BY <1>1, <1>5, <2>2 DEF LeftAlone
<1>7. Stands(t, k, d', areg', mem', was.mem[Stack]) /\ areg'[SP] = s
  BY <1>1, <1>4, <1>5, <1>6, OnStack
<1>8. PushedAt(t, k, pc', d', areg', mem', ccr'.z)
  <2>1. CASE pc = 1
    <3>1. pc' = 2 /\ v = t.n
      BY <1>2, <1>3, <1>5, <2>1 DEF v
    <3> QED BY <1>3, <1>4, <1>5, <1>6, <1>7, <2>1, <3>1 DEF PushedAt
  <2>2. CASE pc = 9
    <3>1. pc' = 10
      BY <1>5, <2>2
    <3> QED BY <1>3, <1>4, <1>5, <1>6, <1>7, <2>2, <3>1 DEF PushedAt, v
  <2> QED BY <2>1, <2>2
<1>9. pc' \in 1 .. 13
  BY <1>5
<1> QED BY <1>1, <1>7, <1>8, <1>9 DEF Leads, FrameAt

\* JSR at 2 and 10 pushes the address behind it.
LEMMA ArgumentCalls ==
    ASSUME FrameTrial, GuestNext, NEW k, Standing(k), routine.pushed, pc \in {2, 10}
    PROVE  Leads(k)
<1> DEFINE t == routine
           s == areg[SP] - 4
<1>1. /\ Machine /\ k \in 0 .. t.n + 1 /\ PushedAt(t, k, pc, d, areg, mem, ccr.z)
      /\ DOMAIN mem = 0 .. Stack + 3 /\ Linked(t, mem, k) /\ Cells(mem)
      /\ Stands(t, k, d, areg, mem, was.mem[Stack])
  BY BeforeStep
<1>2. /\ t.n \in 0 .. 3 /\ t.pushed \in BOOLEAN /\ k \in 0 .. 4 /\ Stack = 48 /\ SP = 15
      /\ Sp(t, k) = 48 - 12 * k
  BY <1>1, FramePlaces
<1>3. /\ areg[SP] = Sp(t, k) - 4 /\ k <= t.n
      /\ d[1] = SumTo(t.n) - SumTo(t.n - k)
      /\ ReadMemory(mem, LONG, areg[SP]) = t.n - k
      /\ pc = 2 => k = 0
      /\ pc = 10 => k >= 1
  <2>1. CASE pc = 2
    <3>1. areg[SP] = Sp(t, k) - 4 /\ k = 0 /\ d[1] = 0 /\ ReadMemory(mem, LONG, areg[SP]) = t.n
      BY <1>1, <2>1 DEF PushedAt
    <3>2. k <= t.n /\ t.n - k = t.n
      BY <1>2, <3>1
    <3>3. SumTo(t.n) \in 0 .. 6
      BY <1>2, SumsAre
    <3> QED BY <2>1, <3>1, <3>2, <3>3
  <2>2. CASE pc = 10
    BY <1>1, <2>2 DEF PushedAt
  <2> QED BY <2>1, <2>2
<1>4. /\ k + 1 \in 0 .. t.n + 1 /\ Back(t, k + 1) = pc + 1 /\ areg[SP] \in 4 .. Stack
      /\ s = Sp(t, k) - 8 /\ s + 4 = areg[SP] /\ s \in 0 .. 255 /\ s \in 0 .. Stack
  <2>1. k + 1 \in 0 .. t.n + 1
    BY <1>2, <1>3
  <2>2. Back(t, k + 1) = IF k + 1 = 1 THEN 3 ELSE 11
    BY <2>1, FramePlaces
  <2> QED BY <1>2, <1>3, <2>1, <2>2
<1>5. jsr_32 /\ Here.ea = At(4) /\ Here.op = "jsr"
  <2>1. Here = On("jsr", "", LONG, At(4), 0, 0)
    BY ArgumentCode DEF Here
  <2>2. Here.op = "jsr" /\ Here.ea = At(4)
    BY <2>1 DEF On
  <2> QED BY <2>2, FrameSteps DEF FrameOps
<1>6. /\ pc' = 4 /\ d' = d /\ areg' = [areg EXCEPT ![SP] = s]
      /\ mem' = WriteMemory(mem, LONG, s, pc + 1)
  <2>1. pc \in 1 .. 12
    OBVIOUS
  <2> QED BY <1>1, <1>4, <1>5, <2>1, SubroutineStep
<1> HIDE DEF s
<1>7. /\ Cells(mem') /\ DOMAIN mem' = 0 .. Stack + 3 /\ mem'[Stack] = mem[Stack]
      /\ ReadMemory(mem', LONG, s) = pc + 1 /\ Linked(t, mem', k)
      /\ ReadMemory(mem', LONG, s + 4) = ReadMemory(mem, LONG, s + 4)
  <2>1. /\ s + 4 <= Sp(t, k) /\ pc + 1 \in 0 .. 255 /\ s + 4 \in s + 4 .. Stack
    BY <1>2, <1>3, <1>4
  <2>2. LeftAlone(WriteMemory(mem, LONG, s, pc + 1), mem, t, k, LONG, s, 4, pc + 1)
    BY ZenonT(60), <1>1, <1>2, <1>4, <2>1, WritesLong
  <2> QED BY <1>1, <1>6, <2>1, <2>2 DEF LeftAlone
<1>8. Stands(t, k, d', areg', mem', was.mem[Stack]) /\ areg'[SP] = s
  BY <1>1, <1>4, <1>6, <1>7, OnStack
<1>9. PushedAt(t, k, 4, d', areg', mem', ccr'.z)
  BY <1>3, <1>4, <1>6, <1>7, <1>8 DEF PushedAt
<1> QED BY <1>1, <1>6, <1>8, <1>9 DEF Leads, FrameAt

\* LINK makes a frame more.
LEMMA ArgumentLinks ==
    ASSUME FrameTrial, GuestNext, NEW k, Standing(k), routine.pushed, pc = 4
    PROVE  Leads(k + 1)
<1> DEFINE t == routine
           a == areg[SP] - 4
           s == areg[SP] - 4 - 0
<1>1. /\ Machine /\ k \in 0 .. t.n + 1 /\ PushedAt(t, k, pc, d, areg, mem, ccr.z)
      /\ DOMAIN mem = 0 .. Stack + 3 /\ Linked(t, mem, k) /\ Cells(mem) /\ areg[8] = Fp(t, k)
      /\ Stands(t, k, d, areg, mem, was.mem[Stack])
  BY BeforeStep
<1>2. /\ areg[SP] = Sp(t, k) - 8 /\ k <= t.n /\ d[1] = SumTo(t.n) - SumTo(t.n - k)
      /\ ReadMemory(mem, LONG, areg[SP]) = Back(t, k + 1)
      /\ ReadMemory(mem, LONG, areg[SP] + 4) = t.n - k
  BY <1>1 DEF PushedAt
<1>3. /\ t.n \in 0 .. 3 /\ t.w \in {WORD, LONG} /\ t.pushed \in BOOLEAN /\ k \in 0 .. 3 /\ Stack = 48
      /\ k + 1 \in 0 .. t.n + 1 /\ Sp(t, k) = 48 - 12 * k /\ SP = 15
  BY <1>1, <1>2, FramePlaces
<1>4. Sp(t, k + 1) = 48 - 12 * (k + 1) /\ Fp(t, k + 1) = 48 - 12 * (k + 1)
  BY <1>3, FramePlaces
<1>5. Here = Frame(t.w, 0) /\ link
  <2>1. Here = Frame(t.w, 0)
    BY ArgumentCode DEF Here
  <2>2. Here.op = "link"
    BY <2>1 DEF Frame
  <2> QED BY <2>1, <2>2, FrameSteps DEF FrameOps
<1>6. /\ pc' = 5 /\ d' = d /\ areg' = [areg EXCEPT ![8] = a, ![SP] = s]
      /\ mem' = WriteMemory(mem, LONG, a, areg[8])
  <2>1. areg[SP] \in 4 + 0 .. Stack /\ 0 \in {0, 2}
    BY <1>2, <1>3
  <2>2. Here.d = 8 /\ Here.w = t.w /\ Here.disp = Mask(t.w, Minus(t.w, 0))
    BY <1>5 DEF Frame, Mask
  <2>3. Signed(Here.w, Here.disp) = 0 - 0
    BY <1>3, <2>2, SmallNumbers
  <2> QED BY <1>1, <1>5, <2>1, <2>2, <2>3, LinkStep
<1>7. /\ a = Fp(t, k + 1) /\ s = Sp(t, k + 1) /\ s \in 0 .. 255 /\ a \in 0 .. 255 /\ Fp(t, k + 1) + 4 = areg[SP]
      /\ Fp(t, k + 1) + 8 = areg[SP] + 4
  BY <1>2, <1>3, <1>4
<1> HIDE DEF a, s
<1>8. /\ Cells(mem') /\ DOMAIN mem' = 0 .. Stack + 3 /\ mem'[Stack] = mem[Stack]
      /\ Linked(t, mem', k + 1) /\ ReadMemory(mem', LONG, Fp(t, k + 1) + 8) = t.n - k
  <2>1. FrameMore(WriteMemory(mem, LONG, Fp(t, k + 1), Fp(t, k)), mem, t, k)
    BY <1>1, <1>2, <1>3, <1>7, WritesFrame
  <2> QED BY <1>1, <1>2, <1>6, <1>7, <2>1 DEF FrameMore
<1>9. areg' \in [REG_A -> Longs] /\ areg'[8] = a /\ areg'[SP] = s /\ areg'[9] = 24
  <2>1. a \in Longs /\ s \in Longs
    BY <1>7, SmallNumbers
  <2> QED BY <1>1, <1>3, <1>6, <2>1 DEF Stands, REG_A
<1>10. Stands(t, k + 1, d', areg', mem', was.mem[Stack])
  BY <1>1, <1>6, <1>7, <1>8, <1>9 DEF Stands
<1>11. PushedAt(t, k + 1, 5, d', areg', mem', ccr'.z)
  <2>1. t.n - (k + 1) + 1 = t.n - k /\ k + 1 >= 1
    BY <1>3
  <2> QED BY <1>2, <1>6, <1>7, <1>8, <1>9, <2>1 DEF PushedAt
<1> QED BY <1>3, <1>6, <1>10, <1>11 DEF Leads, FrameAt

\* The argument is fetched and looked at.
LEMMA ArgumentFetched ==
    ASSUME FrameTrial, GuestNext, NEW k, Standing(k), routine.pushed, pc = 5
    PROVE  Leads(k)
<1> DEFINE t == routine
           v == t.n - k + 1
<1>1. /\ Machine /\ k \in 0 .. t.n + 1 /\ PushedAt(t, k, pc, d, areg, mem, ccr.z)
      /\ DOMAIN mem = 0 .. Stack + 3 /\ Linked(t, mem, k) /\ Cells(mem) /\ areg[8] = Fp(t, k)
      /\ Stands(t, k, d, areg, mem, was.mem[Stack]) /\ d[2] = 0 /\ d[3] = 0 /\ d \in [REG_D -> Longs]
  BY BeforeStep
<1>2. /\ areg[SP] = Sp(t, k) /\ k >= 1 /\ ReadMemory(mem, LONG, areg[8] + 8) = v
      /\ d[1] = SumTo(t.n) - SumTo(v)
  BY <1>1 DEF PushedAt
<1>3. t.n \in 0 .. 3 /\ k \in 1 .. 4 /\ k <= t.n + 1 /\ Stack = 48 /\ Fp(t, k) = 48 - 12 * k
  BY <1>1, <1>2, FramePlaces
<1>4. v \in 0 .. 255 /\ v \in Longs /\ areg[8] \in 0 .. Stack
  <2>1. v \in 0 .. 255 /\ areg[8] \in 0 .. Stack
    BY <1>1, <1>3
  <2> HIDE DEF v
  <2> QED BY <2>1, SmallNumbers
<1>5. move /\ Here.w = LONG /\ Here.ea = Argument /\ Here.to = Data(0)
  <2>1. Here = MoveTo(LONG, Argument, Data(0))
    BY ArgumentCode DEF Here
  <2>2. Here.op = "move" /\ Here.w = LONG /\ Here.ea = Argument /\ Here.to = Data(0)
    BY <2>1 DEF MoveTo
  <2> QED BY <2>2, FrameSteps DEF FrameOps
<1> HIDE DEF v
<1>6. pc' = 6 /\ d' = [d EXCEPT ![0] = v] /\ areg' = areg /\ mem' = mem /\ ccr'.z = (v = 0)
  BY SMTT(40), <1>1, <1>2, <1>4, <1>5, FetchStep
<1>7. d' \in [REG_D -> Longs] /\ d'[2] = 0 /\ d'[3] = 0 /\ d'[0] = v /\ d'[1] = d[1]
  <2>1. 0 \in {0, 1} /\ 1 - 0 = 1
    OBVIOUS
  <2> QED BY <1>1, <1>4, <1>6, <2>1, DataBecomes
<1>8. Stands(t, k, d', areg', mem', was.mem[Stack])
  BY <1>1, <1>6, <1>7 DEF Stands
<1>9. PushedAt(t, k, 6, d', areg', mem', ccr'.z)
  BY <1>2, <1>6, <1>7 DEF PushedAt, v
<1> QED BY <1>1, <1>6, <1>8, <1>9 DEF Leads, FrameAt

LEMMA ArgumentTested ==
    ASSUME FrameTrial, GuestNext, NEW k, Standing(k), routine.pushed, pc = 6
    PROVE  Leads(k)
<1> DEFINE t == routine
<1>1. /\ Machine /\ k \in 0 .. t.n + 1 /\ PushedAt(t, k, pc, d, areg, mem, ccr.z)
      /\ Stands(t, k, d, areg, mem, was.mem[Stack])
  BY BeforeStep
<1>2. /\ areg[SP] = Sp(t, k) /\ k >= 1 /\ d[0] = t.n - k + 1 /\ ccr.z = (d[0] = 0)
      /\ d[1] = SumTo(t.n) - SumTo(t.n - k + 1)
  BY <1>1 DEF PushedAt
<1>3. t.n \in 0 .. 3 /\ t.w \in {WORD, LONG} /\ k \in 1 .. 4 /\ k <= t.n + 1
  BY <1>1, <1>2, FramePlaces
<1>4. Here = Goto("bcc", t.w, "EQ", pc, 11)
  BY ArgumentCode DEF Here
<1>5. bcc
  <2>1. Here.op = "bcc"
    BY <1>4 DEF Goto
  <2> QED BY <2>1, FrameSteps DEF FrameOps
<1>6. pc' = (IF Cond("EQ", ccr) THEN 11 ELSE 7) /\ d' = d /\ areg' = areg /\ mem' = mem
  <2>1. 11 \in 1 .. 12 /\ pc \in 1 .. 12 /\ 11 - pc - 1 \in -8 .. 7 /\ pc + 1 = 7
    OBVIOUS
  <2> QED BY <1>1, <1>3, <1>4, <1>5, <2>1, BranchStep DEF Then
<1>7. Cond("EQ", ccr) = ccr.z
  BY DEF Cond
<1>8. CASE d[0] = 0
  <2>1. pc' = 11
    BY <1>2, <1>6, <1>7, <1>8
  <2>2. d[1] = SumTo(t.n)
    <3>1. t.n - k + 1 = 0 /\ SumTo(0) = 0 /\ SumTo(t.n) \in 0 .. 6
      BY <1>2, <1>3, <1>8, SumsAre
    <3> QED BY <1>2, <3>1
  <2>3. PushedAt(t, k, 11, d', areg', mem', ccr'.z)
    BY <1>2, <1>6, <1>8, <2>2 DEF PushedAt
  <2> QED BY <1>1, <1>6, <2>1, <2>3 DEF Leads, FrameAt
<1>9. CASE d[0] # 0
  <2>1. pc' = 7
    BY <1>2, <1>6, <1>7, <1>9
  <2>2. k <= t.n
    BY <1>2, <1>3, <1>9
  <2>3. PushedAt(t, k, 7, d', areg', mem', ccr'.z)
    BY <1>2, <1>6, <2>2 DEF PushedAt
  <2> QED BY <1>1, <1>6, <2>1, <2>3 DEF Leads, FrameAt
<1> QED BY <1>8, <1>9

\* ADD and SUBQ.
LEMMA ArgumentCounts ==
    ASSUME FrameTrial, GuestNext, NEW k, Standing(k), routine.pushed, pc \in {7, 8}
    PROVE  Leads(k)
<1> DEFINE t == routine
           v == t.n - k + 1
           u == SumTo(t.n) - SumTo(t.n - k)
           w == SumTo(t.n) - SumTo(v)
<1>1. /\ Machine /\ k \in 0 .. t.n + 1 /\ PushedAt(t, k, pc, d, areg, mem, ccr.z)
      /\ Stands(t, k, d, areg, mem, was.mem[Stack]) /\ d[2] = 0 /\ d[3] = 0 /\ d \in [REG_D -> Longs]
  BY BeforeStep
<1>2. /\ areg[SP] = Sp(t, k) /\ k >= 1 /\ k <= t.n /\ d[0] = v
      /\ pc = 7 => d[1] = w
      /\ pc = 8 => d[1] = u
  BY <1>1 DEF PushedAt
<1>3. t.n \in 0 .. 3 /\ k \in 1 .. 3 /\ v \in 1 .. 3 /\ v - 1 = t.n - k /\ v <= t.n
  BY <1>1, <1>2, FramePlaces
<1>4. u = w + v /\ u \in 0 .. 6 /\ w \in 0 .. 6
  <2>1. SumTo(v) = SumTo(v - 1) + v /\ SumTo(v - 1) \in 0 .. 6 /\ SumTo(v) \in 0 .. 6 /\ SumTo(t.n) \in 0 .. 6
    <3>1. v \in 0 .. 3 /\ v - 1 \in 0 .. 3
      BY <1>3
    <3> HIDE DEF v
    <3> QED BY <1>3, <3>1, SumsAre
  <2>2. SumTo(t.n) - SumTo(v) \in 0 .. 6 /\ SumTo(t.n) - SumTo(v - 1) \in 0 .. 6
    <3> HIDE DEF v
    <3>1. v \in -1 .. t.n /\ v - 1 \in -1 .. t.n
      BY <1>3
    <3> QED BY <1>3, <3>1, SumsAre
  <2> HIDE DEF v
  <2>3. SumTo(v - 1) = SumTo(t.n - k)
    BY <1>3
  <2> QED BY <1>3, <2>1, <2>2, <2>3
<1>5. CASE pc = 7
  <2>1. Here = On("add", "er", LONG, Data(0), 1, 0)
    BY <1>5, ArgumentCode DEF Here
  <2>2. Here.op = "add" /\ Here.w \in {WORD, LONG} /\ Here.ea = Data(0) /\ Here.form = "er" /\ Here.d = 1
    BY <2>1 DEF On
  <2>3. add
    BY <2>2, FrameSteps DEF FrameOps
  <2> HIDE DEF u, v, w
  <2>4. pc' = 8 /\ d' = [d EXCEPT ![1] = u] /\ areg' = areg /\ mem' = mem
    <3>1. d[1] \in 0 .. 15 /\ v \in 0 .. 15 /\ d[1] + v \in 0 .. 15 /\ d[1] + v = u
      BY <1>2, <1>3, <1>4, <1>5
    <3>2. pc' = pc + 1 /\ d' = [d EXCEPT ![1] = d[1] + v] /\ areg' = areg /\ mem' = mem
      BY <1>1, <1>2, <2>2, <2>3, <3>1, AddStep
    <3>3. pc' = 8
      BY SMTT(40), <1>5, <3>2
    <3> QED BY Zenon, <3>1, <3>2, <3>3
  <2>5. d' \in [REG_D -> Longs] /\ d'[2] = 0 /\ d'[3] = 0 /\ d'[1] = u /\ d'[0] = d[0]
    <3>1. 1 \in {0, 1} /\ 1 - 1 = 0 /\ u \in 0 .. 255
      BY <1>4
    <3> QED BY <1>1, <2>4, <3>1, DataBecomes
  <2>6. Stands(t, k, d', areg', mem', was.mem[Stack])
    BY <1>1, <2>4, <2>5 DEF Stands
  <2>7. PushedAt(t, k, 8, d', areg', mem', ccr'.z)
    BY <1>2, <2>4, <2>5 DEF PushedAt, u, v
  <2> QED BY <1>1, <2>4, <2>6, <2>7 DEF Leads, FrameAt
<1>6. CASE pc = 8
  <2>1. Here = On("sub", "quick", LONG, Data(0), 0, 1)
    BY <1>6, ArgumentCode DEF Here
  <2>2. Here.op = "sub" /\ Here.w \in {WORD, LONG} /\ Here.ea = Data(0) /\ Here.form = "quick" /\ Here.q = 1
    BY <2>1 DEF On
  <2>3. sub
    BY <2>2, FrameSteps DEF FrameOps
  <2>4. d[0] \in 1 .. 15 /\ d[0] - 1 = t.n - k /\ d[0] - 1 \in 0 .. 255
    BY <1>2, <1>3
  <2>5. pc' = 9 /\ d' = [d EXCEPT ![0] = d[0] - 1] /\ areg' = areg /\ mem' = mem
    BY <1>1, <1>6, <2>2, <2>3, <2>4, CountStep
  <2>6. d' \in [REG_D -> Longs] /\ d'[2] = 0 /\ d'[3] = 0 /\ d'[0] = d[0] - 1 /\ d'[1] = d[1]
    <3>1. 0 \in {0, 1} /\ 1 - 0 = 1
      OBVIOUS
    <3> DEFINE e == d[0] - 1
    <3>2. e \in 0 .. 255 /\ d' = [d EXCEPT ![0] = e]
      BY SMTT(40), <2>4, <2>5
    <3> HIDE DEF e, u, v, w
    <3>3. d' \in [REG_D -> Longs] /\ d'[2] = 0 /\ d'[3] = 0 /\ d'[0] = e /\ d'[1] = d[1]
      BY <1>1, <3>1, <3>2, DataBecomes
    <3> QED BY <3>3 DEF e
  <2>7. Stands(t, k, d', areg', mem', was.mem[Stack])
    BY <1>1, <2>5, <2>6 DEF Stands
  <2>8. PushedAt(t, k, 9, d', areg', mem', ccr'.z)
    BY <1>2, <1>6, <2>4, <2>5, <2>6 DEF PushedAt
  <2> QED BY <1>1, <2>5, <2>7, <2>8 DEF Leads, FrameAt
<1> QED BY <1>5, <1>6

\* UNLK takes the youngest frame away.
LEMMA ArgumentUnlinks ==
    ASSUME FrameTrial, GuestNext, NEW k, Standing(k), routine.pushed, pc = 11
    PROVE  Leads(k - 1)
<1> DEFINE t == routine
           j == k - 1
           s == areg[8] + 4
<1>1. /\ Machine /\ k \in 0 .. t.n + 1 /\ PushedAt(t, k, pc, d, areg, mem, ccr.z)
      /\ Stands(t, k, d, areg, mem, was.mem[Stack])
      /\ areg[8] = Fp(t, k) /\ Linked(t, mem, k)
  BY BeforeStep
<1>2. areg[SP] = Sp(t, k) /\ k >= 1 /\ d[0] = 0 /\ d[1] = SumTo(t.n)
  BY <1>1 DEF PushedAt
<1>3. /\ t.n \in 0 .. 3 /\ k \in 1 .. 4 /\ k <= t.n + 1 /\ Stack = 48 /\ Fp(t, k) = 48 - 12 * k /\ SP = 15
      /\ j \in 0 .. 3 /\ j \in 0 .. t.n + 1 /\ j <= t.n /\ j + 1 = k
  BY <1>1, <1>2, FramePlaces
<1>4. Sp(t, j) = 48 - 12 * j /\ Fp(t, j) \in 0 .. 255 /\ s = Sp(t, j) - 8 /\ s \in 0 .. 255
  <2>1. Sp(t, j) = 48 - 12 * j /\ Fp(t, j) = (IF j = 0 THEN 200 ELSE 48 - 12 * j)
    BY <1>3, FramePlaces
  <2>2. s = 52 - 12 * (j + 1)
    BY <1>1, <1>3
  <2> HIDE DEF s, j
  <2>3. Fp(t, j) \in 0 .. 255
    BY <1>3, <2>1
  <2> QED BY <1>3, <2>1, <2>2, <2>3
<1>5. ReadMemory(mem, LONG, areg[8]) = Fp(t, j) /\ ReadMemory(mem, LONG, s) = Back(t, k)
  <2>1. k \in 1 .. k
    BY <1>3
  <2> QED BY <1>1, <2>1 DEF Linked
<1>6. Here = Simple("unlk", 8, 0) /\ unlk
  <2>1. Here = Simple("unlk", 8, 0)
    BY ArgumentCode DEF Here
  <2>2. Here.op = "unlk"
    BY <2>1 DEF Simple
  <2> QED BY <2>1, <2>2, FrameSteps DEF FrameOps
<1>7. pc' = 12 /\ d' = d /\ areg' = [areg EXCEPT ![8] = Fp(t, j), ![SP] = s] /\ mem' = mem
  <2>1. areg[8] \in 0 .. Stack /\ Here.d = 8 /\ Fp(t, j) \in Longs
    <3>1. areg[8] \in 0 .. Stack
      BY <1>1, <1>3
    <3>2. Here.d = 8
      BY <1>6 DEF Simple
    <3> HIDE DEF j
    <3> QED BY <1>4, <3>1, <3>2, SmallNumbers
  <2> HIDE DEF j
  <2> QED BY <1>1, <1>5, <1>6, <2>1, UnlinkStep DEF Then
<1> HIDE DEF s, j
<1>8. areg' \in [REG_A -> Longs] /\ areg'[8] = Fp(t, j) /\ areg'[SP] = s /\ areg'[9] = 24
  <2>1. Fp(t, j) \in Longs /\ s \in Longs
    BY <1>4, SmallNumbers
  <2> QED BY <1>1, <1>3, <1>7, <2>1 DEF Stands, REG_A
<1>9. Linked(t, mem, j)
  <2>1. \A i \in 1 .. j : i \in 1 .. k
    BY <1>3
  <2> QED BY <1>1, <2>1 DEF Linked
<1>10. Stands(t, j, d', areg', mem', was.mem[Stack])
  BY <1>1, <1>7, <1>8, <1>9 DEF Stands
<1>11. PushedAt(t, j, 12, d', areg', mem', ccr'.z)
  BY <1>2, <1>3, <1>4, <1>5, <1>7, <1>8 DEF PushedAt
<1>12. Leads(j)
  BY <1>3, <1>7, <1>10, <1>11 DEF Leads, FrameAt
<1> QED BY <1>12 DEF j

\* RTD takes the address that the call pushed, and drops the argument.
LEMMA ArgumentReturns ==
    ASSUME FrameTrial, GuestNext, NEW k, Standing(k), routine.pushed, pc = 12
    PROVE  Leads(k)
<1> DEFINE t == routine
           s == areg[SP] + 4 + 4
<1>1. /\ Machine /\ k \in 0 .. t.n + 1 /\ PushedAt(t, k, pc, d, areg, mem, ccr.z)
      /\ Stands(t, k, d, areg, mem, was.mem[Stack]) /\ Cells(mem) /\ DOMAIN mem = 0 .. Stack + 3
      /\ Linked(t, mem, k)
  BY BeforeStep
<1>2. /\ areg[SP] = Sp(t, k) - 8 /\ k <= t.n /\ d[0] = 0 /\ d[1] = SumTo(t.n)
      /\ ReadMemory(mem, LONG, areg[SP]) = Back(t, k + 1)
  BY <1>1 DEF PushedAt
<1>3. /\ t.n \in 0 .. 3 /\ k \in 0 .. 3 /\ k + 1 \in 0 .. t.n + 1 /\ Stack = 48 /\ SP = 15
      /\ Sp(t, k) = 48 - 12 * k
  BY <1>1, <1>2, FramePlaces
<1>4. Back(t, k + 1) = IF k = 0 THEN 3 ELSE 11
  BY <1>3, FramePlaces
<1>5. s = Sp(t, k) /\ s \in 0 .. 255 /\ areg[SP] \in 0 .. Stack
  BY <1>2, <1>3
<1>6. rtd_32 /\ Here.disp = 4
  <2>1. Here = Simple("rtd", 0, 4)
    BY ArgumentCode DEF Here
  <2>2. Here.op = "rtd" /\ Here.disp = 4
    BY <2>1 DEF Simple
  <2> QED BY <2>2, FrameSteps DEF FrameOps
<1>7. pc' = Back(t, k + 1) /\ d' = d /\ areg' = [areg EXCEPT ![SP] = s] /\ mem' = mem
  <2>1. 4 \in {0, 4} /\ 4 # 0
    BY SMTT(40)
  <2> QED BY <1>1, <1>2, <1>5, <1>6, <2>1, ReturnStep DEF Then
<1> HIDE DEF s
<1>8. Stands(t, k, d', areg', mem', was.mem[Stack]) /\ areg'[SP] = s
  BY <1>1, <1>5, <1>7, OnStack
<1>9. PushedAt(t, k, pc', d', areg', mem', ccr'.z)
  <2>1. CASE k = 0
    <3>1. pc' = 3
      BY <1>4, <1>7, <2>1
    <3> QED BY <1>2, <1>5, <1>7, <1>8, <2>1, <3>1 DEF PushedAt
  <2>2. CASE k # 0
    <3>1. k >= 1 /\ pc' = 11
      BY <1>3, <1>4, <1>7, <2>2
    <3> QED BY <1>2, <1>5, <1>7, <1>8, <3>1 DEF PushedAt
  <2> QED BY <2>1, <2>2
<1>10. pc' \in 1 .. 13
  BY <1>4, <1>7
<1> QED BY <1>1, <1>8, <1>9, <1>10 DEF Leads, FrameAt

LEMMA ArgumentEnds ==
    ASSUME FrameTrial, GuestNext, NEW k, Standing(k), routine.pushed, pc = 3
    PROVE  Leads(k)
<1> DEFINE t == routine
<1>1. /\ Machine /\ k \in 0 .. t.n + 1 /\ PushedAt(t, k, pc, d, areg, mem, ccr.z)
      /\ Stands(t, k, d, areg, mem, was.mem[Stack])
  BY BeforeStep
<1>2. areg[SP] = Sp(t, k) /\ k = 0 /\ d[0] = 0 /\ d[1] = SumTo(t.n)
  BY <1>1 DEF PushedAt
<1>3. jmp_32 /\ Here.ea = At(13)
  <2>1. Here = On("jmp", "", LONG, At(13), 0, 0)
    BY ArgumentCode DEF Here
  <2>2. Here.op = "jmp" /\ Here.ea = At(13)
    BY <2>1 DEF On
  <2> QED BY <2>2, FrameSteps DEF FrameOps
<1>4. pc' = 13 /\ d' = d /\ areg' = areg /\ mem' = mem
  <2>1. 13 \in 0 .. 15
    OBVIOUS
  <2> QED BY <1>1, <1>3, <2>1, JumpStep DEF Then
<1>5. PushedAt(t, k, 13, d', areg', mem', ccr'.z)
  BY <1>2, <1>4 DEF PushedAt
<1> QED BY <1>1, <1>4, <1>5 DEF Leads, FrameAt

LEMMA ArgumentSteps ==
    ASSUME FrameTrial, GuestNext, NEW k, Standing(k), routine.pushed
    PROVE  \E j \in 0 .. routine.n + 1 : Leads(j)
<1>1. pc \in 1 .. 13 /\ pc # 13
  BY BeforeStep
<1>2. Leads(k) \/ Leads(k + 1) \/ Leads(k - 1)
  BY <1>1, ArgumentPushed, ArgumentCalls, ArgumentLinks, ArgumentFetched, ArgumentTested, ArgumentCounts,
     ArgumentUnlinks, ArgumentReturns, ArgumentEnds
<1>3. \A j : Leads(j) => j \in 0 .. routine.n + 1
  BY DEF Leads, FrameAt
<1> QED BY <1>2, <1>3

-----------------------------------------------------------------------------
(* A frame whose pointer is the stack pointer itself                       *)

OwnAt(p, D, A, m) ==
    /\ D \in [REG_D -> Longs] /\ A \in [REG_A -> Longs] /\ Cells(m) /\ DOMAIN m = 0 .. 31
    /\ \/ p = 1 /\ A = AtRest
       \/ /\ p \in {2, 3} /\ A = [AtRest EXCEPT ![SP] = 24]
          /\ ReadMemory(m, LONG, 24) = 24
OwnTrial ==
    /\ routine.name = "own frame" /\ routine.w \in {WORD, LONG} /\ was.areg = AtRest
    /\ code = <<[Frame(routine.w, 0) EXCEPT !.d = SP], Simple("unlk", SP, 0)>>
OwnInv == routine.name = "own frame" => OwnTrial /\ OwnAt(pc, d, areg, mem)

LEMMA RestIs ==
    /\ AtRest \in [REG_A -> Longs] /\ AtRest[8] = 16 /\ AtRest[9] = 24 /\ AtRest[SP] = 28 /\ SP = 15
    /\ [AtRest EXCEPT ![SP] = 24] \in [REG_A -> Longs] /\ [AtRest EXCEPT ![SP] = 24][SP] = 24
<1>1. 16 \in Longs /\ 24 \in Longs /\ 28 \in Longs
  <2>1. 16 \in 0 .. 255 /\ 24 \in 0 .. 255 /\ 28 \in 0 .. 255
    OBVIOUS
  <2> QED BY <2>1, SmallNumbers
<1>2. SP = 15 /\ REG_A = {8, 9, 15}
  BY DEF SP, REG_A
<1>3. AtRest = [r \in REG_A |-> CASE r = 8 -> 16 [] r = 9 -> 24 [] r = SP -> 28]
  BY DEF AtRest
<1>4. AtRest[8] = 16 /\ AtRest[9] = 24 /\ AtRest[15] = 28 /\ DOMAIN AtRest = REG_A
  <2>1. AtRest[8] = 16
    BY <1>2, <1>3
  <2>2. AtRest[9] = 24
    BY <1>2, <1>3
  <2>3. AtRest[15] = 28
    BY <1>2, <1>3
  <2> QED BY <1>3, <2>1, <2>2, <2>3
<1>5. AtRest \in [REG_A -> Longs]
  <2>1. \A r \in REG_A : AtRest[r] \in Longs
    BY <1>1, <1>2, <1>4
  <2> DEFINE F(r) == CASE r = 8 -> 16 [] r = 9 -> 24 [] r = SP -> 28
  <2>2. AtRest = [r \in REG_A |-> F(r)]
    BY <1>3
  <2> HIDE DEF F
  <2>3. AtRest = [r \in REG_A |-> AtRest[r]]
    BY <2>2
  <2> QED BY <2>1, <2>3
<1> QED BY <1>1, <1>2, <1>4, <1>5

LEMMA OwnLinks ==
    ASSUME OwnTrial, OwnAt(pc, d, areg, mem), GuestNext, pc = 1
    PROVE  pc' = 2 /\ OwnAt(2, d', areg', mem')
<1> DEFINE R == AllRegisters
           m == WriteMemory(mem, LONG, 24, 24)
           P == Set(R, SP, 24)
           Q == Set(P, SP, 24)
<1>1. Machine /\ areg = AtRest /\ areg[SP] = 28 /\ Cells(mem) /\ DOMAIN mem = 0 .. 31
  BY RestIs DEF OwnAt, Machine
<1>2. Here = [Frame(routine.w, 0) EXCEPT !.d = SP]
  BY DEF Here, OwnTrial
<1>3. Here.op = "link" /\ Here.d = SP /\ Here.w = routine.w /\ Here.disp = Mask(routine.w, Minus(routine.w, 0))
  BY <1>2 DEF Frame, Mask
<1>4. link
  BY <1>3, FrameSteps DEF FrameOps
<1>5. LinksA7 /\ pc' = 2
  BY <1>3, <1>4 DEF link, link_16, link_32, Links, LinksA7, Leaves, Goes
<1>6. cpu = Core(R, mem) /\ R[SP] = 28 /\ DOMAIN R = REG_DA
  BY <1>1, CoreIs
<1>7. Mask(LONG, 28 - 4) = 24 /\ Mask(LONG, 24) = 24 /\ 28 - 4 = 24
  <2>1. 28 - 4 = 24 /\ 24 \in 0 .. 255
    OBVIOUS
  <2> QED BY <2>1, SmallNumbers
<1>8. Signed(Here.w, Here.disp) = 0
  <2>1. routine.w \in {WORD, LONG}
    BY DEF OwnTrial
  <2>2. Signed(routine.w, Mask(routine.w, Minus(routine.w, 0))) = 0
    BY <2>1, SmallNumbers
  <2> QED BY <1>3, <2>2
<1>9. SP \in REG_DA /\ SP \in REG_A /\ SP \notin REG_D
  BY DEF SP, REG_DA, REG_A, REG_D
<1>10. P[SP] = 24 /\ Q[SP] = 24
  BY <1>6, <1>9 DEF Set
<1>11. Push(cpu, Mask(LONG, cpu.r[SP] - 4)) = Core(P, m)
  <2>1. cpu.r[SP] = 28
    BY <1>6, CoreSet
  <2>2. Mask(LONG, R[SP] - 4) = 24
    BY <1>6, <1>7
  <2> HIDE DEF R
  <2>3. Push(Core(R, mem), 24) = Core(P, m)
    BY <1>7, <2>2, PushIs
  <2> QED BY <1>6, <1>7, <2>1, <2>3
<1>12. Reserved(Core(P, m)) = Core(Q, m)
  <2>1. Core(P, m).r[SP] = 24
    BY <1>10, CoreSet
  <2> HIDE DEF P, m
  <2>2. Reserved(Core(P, m)) = SetLong(Core(P, m), SP, 24)
    <3>1. 24 + 0 = 24
      OBVIOUS
    <3> QED BY <1>8, <2>1, <3>1 DEF Reserved
  <2> QED BY <1>7, <2>2, CoreSet
<1>13. Becomes(Core(Q, m), ccr)
  BY <1>5, <1>11, <1>12 DEF LinksA7, Leaves
<1> HIDE DEF m
<1>14. d' = [r \in REG_D |-> Q[r]] /\ areg' = [r \in REG_A |-> Q[r]] /\ mem' = m
  <2> HIDE DEF Q
  <2> QED BY <1>13, CoreBecomes
<1>15. d' = d
  <2>1. \A r \in REG_D : Q[r] = R[r] /\ R[r] = d[r]
    BY <1>6, <1>9 DEF Set, AllRegisters, REG_DA
  <2> HIDE DEF Q, R
  <2> QED BY <1>1, <1>14, <2>1 DEF Machine
<1>16. areg' = [areg EXCEPT ![SP] = 24]
  <2>1. \A r \in REG_A : Q[r] = IF r = SP THEN 24 ELSE areg[r]
    <3>1. \A r \in REG_A : R[r] = areg[r] /\ r \in REG_DA
      BY DEF AllRegisters, REG_DA, REG_A, REG_D, SP
    <3> QED BY <1>6, <3>1 DEF Set
  <2> HIDE DEF Q, R
  <2> QED BY <1>1, <1>14, <2>1 DEF Machine
<1>17. Cells(mem') /\ DOMAIN mem' = 0 .. 31 /\ ReadMemory(mem', LONG, 24) = 24
  <2>1. LONG \in {WORD, LONG} /\ 24 \in Int /\ 24 \in 0 .. 2^LONG - 1 /\ LONG # WORD
    BY MemorySizes
  <2>2. 24 .. 24 + (IF LONG = WORD THEN 1 ELSE 3) \subseteq DOMAIN mem
    BY <1>1, <2>1
  <2>3. Cells(m) /\ DOMAIN m = DOMAIN mem /\ ReadMemory(m, LONG, 24) = 24
    BY <1>1, <2>1, <2>2, ReadBack DEF m
  <2> QED BY <1>1, <1>14, <2>3
<1> QED BY <1>1, <1>5, <1>15, <1>16, <1>17, RestIs DEF OwnAt, Machine

LEMMA OwnUnlinks ==
    ASSUME OwnTrial, OwnAt(pc, d, areg, mem), GuestNext, pc = 2
    PROVE  pc' = 3 /\ OwnAt(3, d', areg', mem')
<1>1. /\ Machine /\ areg = [AtRest EXCEPT ![SP] = 24] /\ areg[SP] = 24 /\ Cells(mem) /\ DOMAIN mem = 0 .. 31
      /\ ReadMemory(mem, LONG, 24) = 24
  BY RestIs DEF OwnAt, Machine
<1>2. Here = Simple("unlk", SP, 0)
  BY DEF Here, OwnTrial
<1>3. Here.op = "unlk" /\ Here.d = SP
  BY <1>2 DEF Simple
<1>4. unlk
  BY <1>3, FrameSteps DEF FrameOps
<1>5. Leaves(SetLong(cpu, SP, Top(cpu)), ccr) /\ pc' = 3
  BY <1>3, <1>4 DEF unlk, unlk_32, unlk_32_a7, Leaves, Goes
<1>6. cpu = Core(AllRegisters, mem) /\ AllRegisters[SP] = 24
  BY <1>1, CoreIs
<1>7. Top(cpu) = 24
  BY <1>1, <1>6, CoreSet DEF Top
<1>8. SetLong(cpu, SP, 24) = Core(Set(AllRegisters, SP, 24), mem)
  <2>1. 24 \in 0 .. 255
    OBVIOUS
  <2>2. Mask(LONG, 24) = 24
    BY <2>1, SmallNumbers
  <2> QED BY <1>6, <2>2, CoreSet
<1>9. Then(d, [areg EXCEPT ![SP] = 24], mem, ccr)
  <2>1. Becomes(Core(Set(AllRegisters, SP, 24), mem), ccr)
    BY <1>5, <1>7, <1>8 DEF Leaves
  <2>2. 24 \in Longs
    BY SmallNumbers
  <2> QED BY <1>1, <2>1, <2>2, RegistersBecome
<1>10. d' = d /\ mem' = mem /\ areg' = areg
  <2>1. d' = d /\ mem' = mem /\ areg' = [areg EXCEPT ![SP] = 24]
    BY <1>9 DEF Then
  <2>2. areg \in [REG_A -> Longs]
    BY <1>1 DEF Machine
  <2>3. [areg EXCEPT ![SP] = 24] = areg
    BY <1>1, <2>2
  <2> QED BY <2>1, <2>3
<1> QED BY <1>1, <1>5, <1>10, RestIs DEF OwnAt, Machine

-----------------------------------------------------------------------------
(* The chain of frames                                                     *)

Upwards(x) == IF x \in areg[SP] .. Stack - 4 THEN NumberAt(mem, x, LONG) ELSE x
ChainUp == CHOOSE up : up = [k \in Nat |-> IF k = 0 THEN areg[8]
                                           ELSE IF up[k - 1] \in areg[SP] .. Stack - 4
                                                THEN NumberAt(mem, up[k - 1], LONG)
                                           ELSE up[k - 1]]

\* From the youngest frame the chain leads to the ones below, and to the caller's
\* frame pointer, where it stays.
LEMMA ChainIs ==
    ASSUME FrameTrial, NEW k, Standing(k)
    PROVE  /\ areg[SP] <= Stack /\ k \in 0 .. routine.n + 1
           /\ ChainUp[k] = Elsewhere
           /\ \A i \in 1 .. k - 1 : ChainUp[i] > ChainUp[i - 1]
<1> DEFINE t == routine
           G(j) == IF j < k THEN Fp(t, k - j) ELSE Elsewhere
           g == [j \in Nat |-> G(j)]
<1>1. /\ k \in 0 .. t.n + 1 /\ Stands(t, k, d, areg, mem, was.mem[Stack])
      /\ IF t.pushed THEN PushedAt(t, k, pc, d, areg, mem, ccr.z) ELSE LocalAt(t, k, pc, d, areg, mem, ccr.z)
  BY DEF Standing, FrameAt
<1>2. areg[8] = Fp(t, k) /\ Linked(t, mem, k) /\ Cells(mem) /\ DOMAIN mem = 0 .. Stack + 3
  BY <1>1 DEF Stands
<1>3. /\ t.n \in 0 .. 3 /\ t.pushed \in BOOLEAN /\ k \in 0 .. 4 /\ Stack = 48 /\ Elsewhere = 200
      /\ Sp(t, k) = (IF t.pushed THEN 48 - 12 * k ELSE 48 - 10 * k)
  BY <1>1, FramePlaces
<1>4. areg[SP] \in {Sp(t, k), Sp(t, k) - 4, Sp(t, k) - 8}
  BY <1>1 DEF PushedAt, LocalAt
<1>5. areg[SP] \in Int /\ areg[SP] <= Sp(t, k) /\ Sp(t, k) \in Int /\ Sp(t, k) <= 48
  <2>1. Sp(t, k) \in Int /\ Sp(t, k) <= 48
    BY <1>3
  <2> QED BY <1>4, <2>1
<1>6. ASSUME NEW i \in 1 .. k PROVE Fp(t, i) \in areg[SP] .. Stack - 4 /\ Fp(t, i) \in 0 .. Stack - 4
  <2>1. i \in 0 .. t.n + 1 /\ i \in Int /\ i >= 1 /\ i <= k
    BY <1>1, <1>3
  <2>2. Fp(t, i) = IF t.pushed THEN 48 - 12 * i ELSE 50 - 10 * i
    BY <2>1, FramePlaces
  <2>3. CASE t.pushed
    <3>1. Fp(t, i) = 48 - 12 * i /\ Sp(t, k) = 48 - 12 * k
      BY <1>3, <2>2, <2>3
    <3> QED BY <1>3, <1>5, <2>1, <3>1
  <2>4. CASE ~t.pushed
    <3>1. Fp(t, i) = 50 - 10 * i /\ Sp(t, k) = 48 - 10 * k
      BY <1>3, <2>2, <2>4
    <3> QED BY <1>3, <1>5, <2>1, <3>1
  <2> QED BY <2>3, <2>4
<1>7. ASSUME NEW i \in 1 .. k PROVE NumberAt(mem, Fp(t, i), LONG) = Fp(t, i - 1)
  <2>1. Fp(t, i) \in Int /\ Fp(t, i) .. Fp(t, i) + 3 \subseteq DOMAIN mem
    <3>1. Fp(t, i) \in 0 .. Stack - 4
      BY <1>6
    <3> QED BY <1>2, <1>3, <3>1
  <2>2. ReadMemory(mem, LONG, Fp(t, i)) = Fp(t, i - 1)
    BY <1>2 DEF Linked
  <2> QED BY <1>2, <2>1, <2>2, NumberAtIs
<1>8. Fp(t, 0) = Elsewhere
  BY DEF Fp
<1>9. G(0) = areg[8]
  <2>1. CASE k = 0
    BY <1>2, <1>8, <2>1
  <2>2. CASE k # 0
    <3>1. 0 < k /\ k - 0 = k
      BY <1>3, <2>2
    <3> QED BY <1>2, <3>1
  <2> QED BY <2>1, <2>2
<1>10. ASSUME NEW j \in Nat PROVE G(j + 1) = Upwards(G(j))
  <2>1. CASE j < k
    <3> DEFINE i == k - j
    <3>1. i \in 1 .. k /\ i - 1 = k - (j + 1) /\ (j + 1 < k \/ i - 1 = 0)
      BY <1>3, <2>1
    <3> HIDE DEF i
    <3>2. Fp(t, i) \in areg[SP] .. Stack - 4 /\ NumberAt(mem, Fp(t, i), LONG) = Fp(t, i - 1)
      BY <1>6, <1>7, <3>1
    <3>3. G(j) = Fp(t, i)
      BY <2>1 DEF i
    <3>4. G(j + 1) = Fp(t, i - 1)
      <4>1. CASE j + 1 < k
        BY <3>1, <4>1
      <4>2. CASE ~(j + 1 < k)
        BY <1>8, <3>1, <4>2
      <4> QED BY <4>1, <4>2
    <3> HIDE DEF G
    <3> QED BY <3>2, <3>3, <3>4 DEF Upwards
  <2>2. CASE ~(j < k)
    <3>1. G(j) = Elsewhere /\ G(j + 1) = Elsewhere
      BY <1>3, <2>2
    <3>2. Elsewhere \notin areg[SP] .. Stack - 4
      BY <1>3, <1>5
    <3> HIDE DEF G
    <3> QED BY <3>1, <3>2 DEF Upwards
  <2> QED BY <2>1, <2>2
<1> HIDE DEF G
<1>11. \E up : up = [j \in Nat |-> IF j = 0 THEN areg[8]
                                   ELSE IF up[j - 1] \in areg[SP] .. Stack - 4
                                        THEN NumberAt(mem, up[j - 1], LONG)
                                   ELSE up[j - 1]]
  <2>1. ASSUME NEW j \in Nat PROVE G(j) = IF j = 0 THEN areg[8] ELSE Upwards(g[j - 1])
    <3>1. CASE j = 0
      BY <1>9, <3>1
    <3>2. CASE j # 0
      <4> DEFINE i == j - 1
      <4>1. i \in Nat /\ i + 1 = j
        BY <3>2
      <4> HIDE DEF i
      <4>2. g[i] = G(i) /\ G(j) = Upwards(G(i))
        BY <1>10, <4>1
      <4> QED BY <3>2, <4>2 DEF i
    <3> QED BY <3>1, <3>2
  <2>2. g = [j \in Nat |-> IF j = 0 THEN areg[8]
                           ELSE IF g[j - 1] \in areg[SP] .. Stack - 4
                                THEN NumberAt(mem, g[j - 1], LONG)
                           ELSE g[j - 1]]
    BY <2>1, Zenon DEF Upwards
  <2> HIDE DEF g
  <2> QED BY <2>2
<1> DEFINE h == ChainUp
<1>12. h = [j \in Nat |-> IF j = 0 THEN areg[8]
                          ELSE IF h[j - 1] \in areg[SP] .. Stack - 4
                               THEN NumberAt(mem, h[j - 1], LONG)
                          ELSE h[j - 1]]
  BY <1>11, Zenon DEF ChainUp
<1> HIDE DEF h
<1>13. h[0] = G(0) /\ \A j \in Nat : h[j] = G(j) => h[j + 1] = G(j + 1)
  <2>1. h[0] = G(0)
    BY <1>9, <1>12
  <2>2. ASSUME NEW j \in Nat, h[j] = G(j) PROVE h[j + 1] = G(j + 1)
    <3> DEFINE i == j + 1
    <3>1. i \in Nat /\ i # 0 /\ i - 1 = j
      OBVIOUS
    <3> HIDE DEF i
    <3>2. h[i] = Upwards(h[j])
      BY <1>12, <3>1 DEF Upwards
    <3> QED BY <1>10, <2>2, <3>2 DEF i
  <2> QED BY <2>1, <2>2
<1>14. \A j \in 0 .. k : h[j] = G(j)
  <2> DEFINE S == {j \in 0 .. k : h[j] = G(j)}
  <2>1. 0 \in S
    BY <1>3, <1>13
  <2>2. \A j \in 0 .. k - 1 : j \in S => j + 1 \in S
    BY <1>3, <1>13
  <2> HIDE DEF S
  <2>3. \A j \in 0 .. k : j \in S
    BY <1>3, <2>1, <2>2, InductionUpTo
  <2> QED BY <2>3 DEF S
<1>15. h[k] = Elsewhere
  <2>1. k \in 0 .. k /\ ~(k < k)
    BY <1>3
  <2> QED BY <1>14, <2>1 DEF G
<1>16. ASSUME NEW i \in 1 .. k - 1 PROVE h[i] > h[i - 1]
  <2> DEFINE a == k - i
  <2>1. a \in 1 .. k /\ a + 1 \in 1 .. k /\ i \in 0 .. k /\ i - 1 \in 0 .. k /\ i < k /\ i - 1 < k /\ k - (i - 1) = a + 1
        /\ a \in 0 .. t.n + 1 /\ a + 1 \in 0 .. t.n + 1 /\ a # 0 /\ a + 1 # 0 /\ a \in Int
    BY <1>1, <1>3
  <2>2. h[i] = Fp(t, a) /\ h[i - 1] = Fp(t, a + 1)
    BY <1>14, <2>1 DEF G
  <2> HIDE DEF a
  <2>3. /\ Fp(t, a) = IF t.pushed THEN 48 - 12 * a ELSE 50 - 10 * a
        /\ Fp(t, a + 1) = IF t.pushed THEN 48 - 12 * (a + 1) ELSE 50 - 10 * (a + 1)
    BY <2>1, FramePlaces
  <2>4. Fp(t, a) > Fp(t, a + 1)
    <3>1. CASE t.pushed
      BY <2>1, <2>3, <3>1
    <3>2. CASE ~t.pushed
      BY <2>1, <2>3, <3>2
    <3> QED BY <3>1, <3>2
  <2> QED BY <2>2, <2>4
<1> QED BY <1>1, <1>3, <1>5, <1>15, <1>16 DEF h

-----------------------------------------------------------------------------
(* Frames are unwound                                                      *)

\* The address registers of the caller.
Caller == [AtRest EXCEPT ![SP] = Stack, ![8] = Elsewhere]

FramesInv ==
    /\ routine.name = "frames" =>
           /\ FrameTrial /\ was.areg = Caller
           /\ \E k \in 0 .. routine.n + 1 : Standing(k)
    /\ OwnInv

LEMMA RamIs ==
    ASSUME NEW n \in Nat
    PROVE  Cells(Ram(n)) /\ DOMAIN Ram(n) = 0 .. n - 1
<1> DEFINE B == 2^BYTE
<1>1. B \in Nat \ {0}
  BY MemorySizes
<1> HIDE DEF B
<1>2. \A i \in 0 .. n - 1 : i \in Int /\ (i + 1) % B \in Int
  BY <1>1
<1>3. Ram(n) = [i \in 0 .. n - 1 |-> (i + 1) % B]
  BY DEF Ram, B
<1> QED BY <1>2, <1>3 DEF Cells

LEMMA CallersRegisters ==
    /\ Caller \in [REG_A -> Longs] /\ Caller[SP] = 48 /\ Caller[8] = 200 /\ Caller[9] = 24
    /\ Caller = [r \in REG_A |-> Caller[r]]
<1> DEFINE A == Caller
<1>1. Stack = 48 /\ Elsewhere = 200 /\ SP = 15 /\ REG_A = {8, 9, 15}
  BY DEF Stack, Elsewhere, SP, REG_A
<1>2. 48 \in Longs /\ 200 \in Longs
  <2>1. 48 \in 0 .. 255 /\ 200 \in 0 .. 255
    OBVIOUS
  <2> QED BY <2>1, SmallNumbers
<1>3. AtRest \in [REG_A -> Longs] /\ AtRest[9] = 24
  BY RestIs
<1>4. A = [AtRest EXCEPT ![15] = 48, ![8] = 200]
  BY <1>1 DEF Caller
<1> HIDE DEF A
<1>5. A \in [REG_A -> Longs] /\ A[15] = 48 /\ A[8] = 200 /\ A[9] = 24
  BY <1>1, <1>2, <1>3, <1>4
<1>6. A = [r \in REG_A |-> A[r]]
  BY <1>5
<1> QED BY <1>1, <1>5, <1>6 DEF A

LEMMA FourIs ==
    ASSUME NEW n \in 0 .. 3
    PROVE  /\ Four(n, 0, 0, 0) \in [REG_D -> Longs]
           /\ Four(n, 0, 0, 0)[0] = n /\ Four(n, 0, 0, 0)[1] = 0
           /\ Four(n, 0, 0, 0)[2] = 0 /\ Four(n, 0, 0, 0)[3] = 0
<1>1. 0 \in Longs /\ n \in Longs
  <2>1. 0 \in 0 .. 255 /\ n \in 0 .. 255
    OBVIOUS
  <2> QED BY <2>1, SmallNumbers
<1>2. REG_D = {0, 1, 2, 3}
  BY DEF REG_D
<1> DEFINE q == <<n, 0, 0, 0>>
<1>3. q[1] = n /\ q[2] = 0 /\ q[3] = 0 /\ q[4] = 0
  OBVIOUS
<1> HIDE DEF q
<1>4. Four(n, 0, 0, 0) = [r \in REG_D |-> q[r + 1]]
  BY DEF Four, q
<1> QED BY <1>1, <1>2, <1>3, <1>4

LEMMA MemoriesAre ==
    /\ Cells(Ram(Stack + 4)) /\ DOMAIN Ram(Stack + 4) = 0 .. Stack + 3
    /\ Cells(Ram(Pages)) /\ DOMAIN Ram(Pages) = 0 .. 31
    /\ Four(0, 0, 0, 0) \in [REG_D -> Longs]
<1>1. 52 \in Nat /\ 52 - 1 = 51 /\ 32 \in Nat /\ 32 - 1 = 31 /\ 0 \in 0 .. 3
  OBVIOUS
<1>2. Stack + 4 = 52 /\ Stack + 3 = 51 /\ Pages = 32
  BY DEF Stack, Pages
<1>3. Cells(Ram(52)) /\ DOMAIN Ram(52) = 0 .. 51 /\ Cells(Ram(32)) /\ DOMAIN Ram(32) = 0 .. 31
  <2>1. Cells(Ram(52)) /\ DOMAIN Ram(52) = 0 .. 52 - 1 /\ Cells(Ram(32)) /\ DOMAIN Ram(32) = 0 .. 32 - 1
    BY <1>1, RamIs
  <2> QED BY <1>1, <2>1
<1> QED BY <1>1, <1>2, <1>3, FourIs

LEMMA FramesCalled ==
    ASSUME NEW t \in Frames, Begins(t, Called(t))
    PROVE  FramesInv
<1>1. t.n \in 0 .. 3 /\ t.w \in {WORD, LONG} /\ t.pushed \in BOOLEAN /\ t.name = "frames"
  BY DEF Frames
<1> DEFINE n == IF t.pushed THEN 0 ELSE t.n
           A == Caller
<1>2. /\ routine = t /\ code = (IF t.pushed THEN WithArgument(t.w, t.n) ELSE WithLocal(t.w)) /\ pc = 1
      /\ d = Four(n, 0, 0, 0) /\ areg = A /\ mem = Ram(Stack + 4)
      /\ was.areg = A /\ was.mem = mem
  BY DEF Begins, Called, Guest, Caller
<1>3. FrameTrial
  BY <1>2 DEF FrameTrial
<1>4. n \in 0 .. 3 /\ Stack = 48 /\ Elsewhere = 200 /\ SP = 15 /\ 0 \in 0 .. t.n + 1
  BY <1>1 DEF Stack, Elsewhere, SP
<1>5. A \in [REG_A -> Longs] /\ A[SP] = 48 /\ A[8] = 200 /\ A[9] = 24
  BY <1>4, CallersRegisters
<1> HIDE DEF n, A
<1>6. /\ d \in [REG_D -> Longs] /\ d[0] = n /\ d[1] = 0 /\ d[2] = 0 /\ d[3] = 0
  BY <1>2, <1>4, FourIs
<1>7. Cells(mem) /\ DOMAIN mem = 0 .. Stack + 3
  BY <1>2, MemoriesAre
<1>8. Stands(t, 0, d, areg, mem, was.mem[Stack])
  BY <1>2, <1>4, <1>5, <1>6, <1>7 DEF Stands, Linked, Fp
<1>9. Sp(t, 0) = 48
  BY <1>4 DEF Sp
<1>10. IF t.pushed THEN PushedAt(t, 0, 1, d, areg, mem, ccr.z) ELSE LocalAt(t, 0, 1, d, areg, mem, ccr.z)
  <2>1. ASSUME t.pushed PROVE PushedAt(t, 0, 1, d, areg, mem, ccr.z)
    BY <1>2, <1>4, <1>5, <1>6, <1>9, <2>1 DEF PushedAt
  <2>2. ASSUME ~t.pushed PROVE LocalAt(t, 0, 1, d, areg, mem, ccr.z)
    <3>1. d[0] = t.n
      BY <1>6, <2>2 DEF n
    <3> QED BY <1>2, <1>4, <1>5, <1>6, <1>9, <3>1 DEF LocalAt
  <2> QED BY <2>1, <2>2
<1>11. Standing(0)
  <2>1. 1 \in 1 .. 13
    OBVIOUS
  <2> QED BY <1>2, <1>4, <1>8, <1>10, <2>1 DEF Standing, FrameAt
<1>12. OwnInv
  BY <1>1, <1>2 DEF OwnInv
<1> QED BY <1>2, <1>3, <1>4, <1>11, <1>12 DEF FramesInv, A

LEMMA OwnCalled ==
    ASSUME NEW w \in {WORD, LONG}, NEW t, t.name = "own frame", t.w = w, Begins(t, OwnFrame(w))
    PROVE  FramesInv
<1>1. /\ routine = t /\ pc = 1 /\ areg = AtRest /\ was.areg = AtRest
      /\ code = <<[Frame(w, 0) EXCEPT !.d = SP], Simple("unlk", SP, 0)>>
      /\ d = Four(0, 0, 0, 0) /\ mem = Ram(Pages)
  BY DEF Begins, OwnFrame, Guest
<1>2. routine.name = "own frame" /\ routine.w = w
  BY <1>1
<1>3. OwnTrial
  BY <1>1, <1>2 DEF OwnTrial
<1>4. d \in [REG_D -> Longs]
  BY <1>1, MemoriesAre
<1>5. Cells(mem) /\ DOMAIN mem = 0 .. 31
  BY <1>1, MemoriesAre
<1>6. OwnAt(pc, d, areg, mem)
  BY <1>1, <1>4, <1>5, RestIs DEF OwnAt
<1> QED BY <1>2, <1>3, <1>6 DEF FramesInv, OwnInv

\* Other trials have other names.
Frameless(k) == "name" \in DOMAIN k /\ k.name \notin {"frames", "own frame"}

LEMMA KindsFrameless ==
    /\ \A k \in Routines : Frameless(k)
    /\ \A k \in Kinds : Frameless(k)
    /\ \A k \in Products \cup Chains : Frameless(k)
    /\ \A k \in Transfers \cup Twice \cup Savings : Frameless(k)
    /\ \A k \in Peripheral \cup Blocks : Frameless(k)
    /\ \A k \in Deciding \cup Checking \cup Bounding : Frameless(k)
    /\ \A k \in Swapping \cup TwoSwapping : Frameless(k)
    /\ \A k \in Semaphores \cup Strings : Frameless(k)
    /\ \A k \in MemoryFields : Frameless(k)
<1>1. \A k \in Routines : Frameless(k)
  <2>1. \A n : n \notin {"frames", "own frame"} => Frameless(Named(n))
    BY DEF Named, Frameless
  <2>2. \A k \in {Named(n) : n \in {"pointer", "max", "cas", "loop", "mul32", "insert", "merge", "mask"}} :
            Frameless(k)
    BY <2>1
  <2>3. \A k \in Routines :
            k \in {Named(n) : n \in {"pointer", "max", "cas", "loop", "mul32", "insert", "merge", "mask"}}
            \/ Frameless(k)
    BY DEF Routines, Frameless
  <2> QED BY <2>2, <2>3
<1>2. \A k \in Kinds : Frameless(k)
  BY DEF Kinds, Frameless
<1>3. \A k \in Products \cup Chains : Frameless(k)
  BY DEF Products, Chains, Frameless
<1>4. \A k \in Transfers \cup Twice \cup Savings : Frameless(k)
  BY DEF Transfers, Twice, Savings, Frameless
<1>5. \A k \in Peripheral \cup Blocks : Frameless(k)
  BY DEF Peripheral, Blocks, Frameless
<1>6. \A k \in Deciding \cup Checking \cup Bounding : Frameless(k)
  BY DEF Deciding, Checking, Bounding, Frameless
<1>7. \A k \in Swapping \cup TwoSwapping : Frameless(k)
  BY DEF Swapping, TwoSwapping, Frameless
<1>8. \A k \in Semaphores \cup Strings : Frameless(k)
  BY DEF Semaphores, Strings, Frameless
<1>9. \A k \in MemoryFields : Frameless(k)
  BY DEF MemoryFields, Frameless
<1> QED BY <1>1, <1>2, <1>3, <1>4, <1>5, <1>6, <1>7, <1>8, <1>9

LEMMA TrialFrameless ==
    ASSUME NEW k, Frameless(k), NEW g, NEW operands, Begins(Trial(k, operands), g) \/ Begins(k, g)
    PROVE  FramesInv
<1>1. routine.name \notin {"frames", "own frame"}
  BY DEF Trial, Frameless, Begins
<1> QED BY <1>1 DEF FramesInv, OwnInv

LEMMA FramesBegin == GuestInit => FramesInv
<1>1. OnRegisters => FramesInv
  <2>1. OnRegisters => routine \in Routines
    BY DEF OnRegisters, Init
  <2>2. routine \in Routines => routine.name \notin {"frames", "own frame"}
    BY KindsFrameless DEF Frameless
  <2> QED BY <2>1, <2>2 DEF FramesInv, OwnInv
<1>2. OnOperands => FramesInv
  BY TrialFrameless, KindsFrameless DEF OnOperands
<1>3. OnBlocks => FramesInv
  <2>1. ASSUME NEW way, NEW g, Begins([name |-> "address", way |-> way], g)
        PROVE  FramesInv
    BY <2>1 DEF Begins, FramesInv, OwnInv
  <2> QED BY <2>1, TrialFrameless, KindsFrameless DEF OnBlocks
<1>4. OnFrames => FramesInv
  <2>1. ASSUME NEW w \in {WORD, LONG}, Begins([name |-> "own frame", w |-> w], OwnFrame(w))
        PROVE  FramesInv
    <3> DEFINE t == [name |-> "own frame", w |-> w]
    <3>1. t.name = "own frame" /\ t.w = w /\ Begins(t, OwnFrame(w))
      BY <2>1, Zenon
    <3> HIDE DEF t
    <3> QED BY <3>1, OwnCalled
  <2> QED BY <2>1, FramesCalled DEF OnFrames
<1>5. OnFields => FramesInv
  BY TrialFrameless, KindsFrameless DEF OnFields
<1>6. OnDecisions => FramesInv
  <2>1. ASSUME NEW a, NEW b, NEW g, Begins([name |-> "overflow", a |-> a, b |-> b], g)
        PROVE  FramesInv
    BY <2>1 DEF Begins, FramesInv, OwnInv
  <2> QED BY <2>1, TrialFrameless, KindsFrameless DEF OnDecisions
<1> QED BY <1>1, <1>2, <1>3, <1>4, <1>5, <1>6 DEF GuestInit

LEMMA FramesStep == FramesInv /\ [GuestNext]_<<vars, memoryVars>> => FramesInv'
<1> SUFFICES ASSUME FramesInv, [GuestNext]_<<vars, memoryVars>> PROVE FramesInv'
  OBVIOUS
<1>1. UNCHANGED <<routine, code, was>>
  BY ProgramsKept
<1>2. CASE UNCHANGED <<vars, memoryVars>>
  <2>1. UNCHANGED <<pc, d, areg, mem, ccr>>
    BY <1>2 DEF vars, memoryVars
  <2> QED BY <1>1, <2>1 DEF FramesInv, FrameTrial, Standing, OwnInv, OwnTrial
<1>3. CASE GuestNext
  <2>1. ASSUME routine.name = "frames"
        PROVE  /\ FrameTrial' /\ was'.areg = Caller
               /\ \E k \in 0 .. routine'.n + 1 : Standing(k)'
    <3>1. FrameTrial /\ was.areg = Caller
      BY <2>1 DEF FramesInv
    <3>2. PICK k \in 0 .. routine.n + 1 : Standing(k)
      BY <2>1 DEF FramesInv
    <3>3. \E j \in 0 .. routine.n + 1 : Leads(j)
      BY <1>3, <3>1, <3>2, LocalSteps, ArgumentSteps
    <3>4. \A j : Leads(j) => Standing(j)'
      BY <1>1 DEF Leads, Standing
    <3>5. FrameTrial'
      BY <1>1, <3>1 DEF FrameTrial
    <3> QED BY <1>1, <3>1, <3>3, <3>4, <3>5
  <2>2. ASSUME routine.name = "own frame"
        PROVE  OwnTrial' /\ OwnAt(pc, d, areg, mem)'
    <3>1. OwnTrial /\ OwnAt(pc, d, areg, mem)
      BY <2>2 DEF FramesInv, OwnInv
    <3>2. pc \in {1, 2, 3}
      BY <3>1 DEF OwnAt
    <3>3. pc # 3
      <4>1. Len(code) = 2
        BY <3>1 DEF OwnTrial
      <4> QED BY <1>3, <4>1, ProgramsKept DEF Running, Ended
    <3>4. OwnAt(pc', d', areg', mem')
      BY <1>3, <3>1, <3>2, <3>3, OwnLinks, OwnUnlinks
    <3>5. OwnTrial'
      BY <1>1, <3>1 DEF OwnTrial
    <3> QED BY <3>4, <3>5
  <2> QED BY <1>1, <2>1, <2>2 DEF FramesInv, OwnInv
<1> QED BY <1>2, <1>3

LEMMA FramesEnough == FramesInv => FramesUnwound
<1> SUFFICES ASSUME FramesInv PROVE FramesUnwound
  OBVIOUS
<1> DEFINE t == routine
<1>1. ASSUME t.name = "frames"
      PROVE  /\ areg[SP] <= Stack /\ mem[Stack] = was.mem[Stack]
             /\ \E k \in 0 .. t.n + 1 :
                    ChainUp[k] = was.areg[8] /\ \A i \in 1 .. k - 1 : ChainUp[i] > ChainUp[i - 1]
             /\ Ended => areg = was.areg /\ d = Four(0, (t.n * (t.n + 1)) \div 2, 0, 0)
  <2>1. FrameTrial /\ was.areg = Caller
    BY <1>1 DEF FramesInv
  <2>2. PICK k \in 0 .. routine.n + 1 : Standing(k)
    BY <1>1 DEF FramesInv
  <2>3. /\ areg[SP] <= Stack /\ k \in 0 .. t.n + 1 /\ ChainUp[k] = Elsewhere
        /\ \A i \in 1 .. k - 1 : ChainUp[i] > ChainUp[i - 1]
    BY <2>1, <2>2, ChainIs
  <2> DEFINE A == was.areg
  <2>4. REG_A = {8, 9, 15} /\ SP = 15 /\ Stack = 48 /\ Elsewhere = 200
    BY DEF REG_A, SP, Stack, Elsewhere
  <2>5. A[8] = Elsewhere /\ A[9] = 24 /\ A[15] = Stack /\ A = [r \in REG_A |-> A[r]]
    <3>1. A = Caller
      BY <2>1
    <3> HIDE DEF A
    <3> QED BY <2>4, <3>1, CallersRegisters
  <2>6. /\ Stands(t, k, d, areg, mem, was.mem[Stack])
        /\ IF t.pushed THEN PushedAt(t, k, pc, d, areg, mem, ccr.z) ELSE LocalAt(t, k, pc, d, areg, mem, ccr.z)
    BY <2>2 DEF Standing, FrameAt
  <2>7. mem[Stack] = was.mem[Stack]
    BY <2>6 DEF Stands
  <2>8. ASSUME Ended PROVE areg = was.areg /\ d = Four(0, (t.n * (t.n + 1)) \div 2, 0, 0)
    <3>1. pc = 13
      <4>1. Len(code) = 12
        BY <2>1, LocalCode, ArgumentCode
      <4> QED BY <2>8, <4>1 DEF Ended
    <3>2. k = 0 /\ d[0] = 0 /\ d[1] = SumTo(t.n) /\ areg[SP] = Sp(t, k)
      BY <2>6, <3>1 DEF PushedAt, LocalAt
    <3>3. Sp(t, 0) = Stack /\ Fp(t, 0) = Elsewhere
      BY DEF Sp, Fp, Stack
    <3>4. /\ areg[8] = Elsewhere /\ areg[9] = 24 /\ areg[15] = Stack /\ areg = [r \in REG_A |-> areg[r]]
          /\ d[2] = 0 /\ d[3] = 0 /\ d = [r \in REG_D |-> d[r]]
      BY <2>4, <2>6, <3>2, <3>3 DEF Stands
    <3>5. \A r \in REG_A : areg[r] = was.areg[r]
      BY <2>4, <2>5, <3>4
    <3>6. areg = was.areg
      BY <2>5, <3>4, <3>5
    <3> DEFINE s == (t.n * (t.n + 1)) \div 2
               q == <<0, s, 0, 0>>
    <3>7. d[1] = s
      BY <3>2 DEF SumTo
    <3> HIDE DEF s
    <3>8. \A r \in REG_D : d[r] = q[r + 1]
      <4>1. q[1] = 0 /\ q[2] = s /\ q[3] = 0 /\ q[4] = 0
        OBVIOUS
      <4> HIDE DEF q
      <4> QED BY <3>2, <3>4, <3>7, <4>1 DEF REG_D
    <3> HIDE DEF q
    <3>9. d = [r \in REG_D |-> q[r + 1]]
      BY <3>4, <3>8
    <3>10. Four(0, s, 0, 0) = [r \in REG_D |-> q[r + 1]]
      BY DEF Four, q
    <3> QED BY <3>6, <3>9, <3>10 DEF s
  <2> QED BY <2>3, <2>5, <2>7, <2>8
<1>2. ASSUME t.name = "own frame", Ended
      PROVE  areg = [was.areg EXCEPT ![SP] = @ - 4] /\ NumberAt(mem, areg[SP], LONG) = areg[SP]
  <2>1. OwnTrial /\ OwnAt(pc, d, areg, mem)
    BY <1>2 DEF FramesInv, OwnInv
  <2>2. Len(code) = 2 /\ was.areg = AtRest
    BY <2>1 DEF OwnTrial
  <2>3. pc = 3
    <3>1. pc = Len(code) + 1 /\ Len(code) = 2
      BY <1>2, <2>2 DEF Ended
    <3> QED BY <3>1
  <2>4. areg = [AtRest EXCEPT ![SP] = 24] /\ ReadMemory(mem, LONG, 24) = 24 /\ Cells(mem) /\ DOMAIN mem = 0 .. 31
    BY <2>1, <2>3 DEF OwnAt
  <2>5. AtRest[SP] - 4 = 24 /\ areg[SP] = 24
    BY <2>4, RestIs
  <2>6. NumberAt(mem, 24, LONG) = 24
    <3>1. 24 \in Int /\ 24 .. 24 + 3 \subseteq DOMAIN mem
      BY <2>4
    <3> QED BY <2>4, <3>1, NumberAtIs
  <2> QED BY <2>2, <2>4, <2>5, <2>6
<1> QED BY <1>1, <1>2 DEF FramesUnwound, ChainUp, Ends

\* At every instruction of a subroutine that has called itself up to three times, the
\* chain of frame pointers leads from the youngest frame upwards to the caller's and
\* memory above the stack is as it was; at the end registers and stack pointer are the caller's and the sum is
\* right.  LINK and UNLK with the stack pointer as frame pointer leave it on the
\* long that LINK has pushed (m68kopac.c:4439, m68kopdm.c:63, 4021, m68kopnz.c:2752, 8475).
THEOREM FramesUnwoundHolds == GuestSpec => []FramesUnwound
<1>1. GuestInit => FramesInv
  BY FramesBegin
<1>2. FramesInv /\ [GuestNext]_<<vars, memoryVars>> => FramesInv'
  BY FramesStep
<1>3. FramesInv => FramesUnwound
  BY FramesEnough
<1> QED BY <1>1, <1>2, <1>3, PTL DEF GuestSpec
=============================================================================
