------------------------------ MODULE M68kMoves ------------------------------
(***************************************************************************)
(* Moves of the 68k core: of data, of addresses and arithmetic with them,  *)
(* of lists of registers, and to the bytes of 8 bit devices.               *)
(***************************************************************************)
EXTENDS M68kMemory
LOCAL INSTANCE SequencesExt

-----------------------------------------------------------------------------
(* Moves: the source is read, with its stepping, before the destination is  *)
(* found.  Of the stack pointer, bytes have their own functions.            *)

Moves(w, mode) == Size(w) /\ Here.to.mode = mode /\ MemoryToMemory(Source, MOVE)
move_8_d == Moves(BYTE, "d")
move_8_ai == Moves(BYTE, "ai")
move_8_pi == Moves(BYTE, "pi") /\ Here.to.r # SP
move_8_pi7 == Moves(BYTE, "pi") /\ Here.to.r = SP
move_8_pd == Moves(BYTE, "pd") /\ Here.to.r # SP
move_8_pd7 == Moves(BYTE, "pd") /\ Here.to.r = SP
move_8_di == Moves(BYTE, "di")
move_8_ix == Moves(BYTE, "ix")
move_8_aw == Moves(BYTE, "aw")
move_8_al == Moves(BYTE, "al")
move_16_d == Moves(WORD, "d")
move_16_ai == Moves(WORD, "ai")
move_16_pi == Moves(WORD, "pi")
move_16_pd == Moves(WORD, "pd")
move_16_di == Moves(WORD, "di")
move_16_ix == Moves(WORD, "ix")
move_16_aw == Moves(WORD, "aw")
move_16_al == Moves(WORD, "al")
move_32_d == Moves(LONG, "d")
move_32_ai == Moves(LONG, "ai")
move_32_pi == Moves(LONG, "pi")
move_32_pd == Moves(LONG, "pd")
move_32_di == Moves(LONG, "di")
move_32_ix == Moves(LONG, "ix")
move_32_aw == Moves(LONG, "aw")
move_32_al == Moves(LONG, "al")

\* Address registers are written as a whole, words sign extended.
MovesAddress(e) == Leaves(SetLong(e.cpu, Here.d, Signed(Here.w, Value(Here.w, e))), ccr)
movea_16 == Op("movea") /\ Size(WORD) /\ MovesAddress(Source)
movea_32 == Op("movea") /\ Size(LONG) /\ MovesAddress(Source)

\* ADDA steps AY before it reads AX; SUBA may do either first, which matters
\* if both are the same register.
AddsAddress(e) ==
    Leaves(SetLong(e.cpu, Here.d, e.cpu.r[Here.d] + Signed(Here.w, Value(Here.w, e))), ccr)
SubtractsAddress(e) ==
    \E first \in {cpu, e.cpu} :
        Leaves(SetLong(e.cpu, Here.d, first.r[Here.d] - Signed(Here.w, Value(Here.w, e))), ccr)
adda_16 == Form("a", WORD) /\ AddsAddress(Source)
adda_32 == Form("a", LONG) /\ AddsAddress(Source)
suba_16 == Form("a", WORD) /\ SubtractsAddress(Source)
suba_32 == Form("a", LONG) /\ SubtractsAddress(Source)
ComparesAddress(e) == Leaves(e.cpu, CMPA(Here.w, LONG, ccr, Value(Here.w, e), e.cpu.r[Here.d]).ccr)
cmpa_16 == Form("a", WORD) /\ ComparesAddress(Source)
cmpa_32 == Form("a", LONG) /\ ComparesAddress(Source)

\* Registers of a list, in the order of REG_DA, are at ascending addresses.
Ascending(L) == SetToSortSeq(L, <)
InOrder == Ascending(Here.list)
SavedUp(c, at) ==
    FoldLeft(LAMBDA s, i : Write(s, Here.w, at + (i - 1) * Bytes(Here.w), Mask(Here.w, c.r[InOrder[i]])),
             c, [i \in 1 .. Len(InOrder) |-> i])
\* Mutant: it begins with the first register of the list.
SavedDownFirst(c, at) ==
    FoldLeft(LAMBDA s, i : Write(s, Here.w, at - i * Bytes(Here.w), Mask(Here.w, c.r[InOrder[i]])),
             c, [i \in 1 .. Len(InOrder) |-> i])
SavedDown(c, at) ==
    FoldLeft(LAMBDA s, i : Write(s, Here.w, at - i * Bytes(Here.w), Mask(Here.w, c.r[Reverse(InOrder)[i]])),
             c, [i \in 1 .. Len(InOrder) |-> i])
Restored(c, at) ==
    FoldLeft(LAMBDA s, i : SetLong(s, InOrder[i],
                                   Signed(Here.w, Read(c, Here.w, at + (i - 1) * Bytes(Here.w)))),
             c, [i \in 1 .. Len(InOrder) |-> i])
Stepped(c, at) == SetLong(c, Here.ea.r, at)
Span == Len(InOrder) * Bytes(Here.w)

SavesDown == LET at == cpu.r[Here.ea.r]
             IN  Here.ea.mode = "pd" /\ Leaves(Stepped(SavedDown(cpu, at), at - Span), ccr)
SavesUp == Here.ea.mode # "pd" /\ Leaves(SavedUp(Source.cpu, Source.at), ccr)
RestoresUp ==
    LET at == cpu.r[Here.ea.r]
    IN  \/ Here.ea.mode = "pi" /\ Leaves(Stepped(Restored(cpu, at), at + Span), ccr)
        \/ Here.ea.mode # "pi" /\ Leaves(Restored(Source.cpu, Source.at), ccr)
movem_16_re == Form("re", WORD) /\ (SavesDown \/ SavesUp)
movem_32_re == Form("re", LONG) /\ (SavesDown \/ SavesUp)
movem_16_er == Form("er", WORD) /\ RestoresUp
movem_32_er == Form("er", LONG) /\ RestoresUp

\* Every second byte, for 8 bit devices.
Alternate(w, at) == [k \in 0 .. Bytes(w) - 1 |-> at + 2 * (Bytes(w) - 1 - k)]
SavesBytes(e) ==
    LET Put(c, k) == Write(c, BYTE, Alternate(Here.w, e.at)[k], ByteOf(c.r[Here.d], k))
    IN  Leaves(FoldLeft(Put, cpu, [k \in 1 .. Bytes(Here.w) |-> Bytes(Here.w) - k]), ccr)
LoadsBytes(e) ==
    LET Take(v, k) == v * 2^BYTE + cpu.m[Alternate(Here.w, e.at)[k]]
        v == FoldLeft(Take, 0, [k \in 1 .. Bytes(Here.w) |-> Bytes(Here.w) - k])
    IN  Leaves(SetLow(cpu, Here.w, Here.d, v), ccr)
movep_16_re == Form("re", WORD) /\ SavesBytes(Source)
movep_32_re == Form("re", LONG) /\ SavesBytes(Source)
movep_16_er == Form("er", WORD) /\ LoadsBytes(Source)
movep_32_er == Form("er", LONG) /\ LoadsBytes(Source)

exg_32 ==
    /\ Op("exg")
    /\ LET c == SetLong(cpu, Here.d, cpu.r[Here.s])
       IN  Leaves(SetLong(c, Here.s, cpu.r[Here.d]), ccr)
=============================================================================
