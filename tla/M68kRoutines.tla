---------------------------- MODULE M68kRoutines ----------------------------
(***************************************************************************)
(* Guest routines of a few instructions, of the kind compilers make of     *)
(* arithmetic on numbers longer than a register, on decimals, on bit       *)
(* fields, and of comparisons and loops.  The 68k core executes them with  *)
(* the operators of module M68kAlu; the properties compare what they leave *)
(* with integer arithmetic.                                                *)
(*                                                                         *)
(* There are four data registers of LONG bits, of which most instructions  *)
(* use the lower WORD bits.                                                *)
(***************************************************************************)
EXTENDS M68kAlu, Sequences, TLC

CONSTANTS WORD, LONG,     \* bits of a word and of a long: 16 and 32
          Edge,           \* words and ...
          LongEdge        \* ... longs next to where a carry or a sign changes

ASSUME M68kAssumption ==
    /\ WORD \in Nat \ {0} /\ WORD % 2 = 0
    /\ LONG = 2 * WORD /\ LONG >= 8       \* a byte fits
    /\ Edge \subseteq 0 .. 2^WORD - 1
    /\ LongEdge \subseteq 0 .. 2^LONG - 1

\* What exponentiation is, as far as it is needed; the provers know no power of 2.
ASSUME PowersOfTwo ==
    2^0 = 1 /\ \A i \in 0 .. LONG : 2^(i + 1) = 2 * 2^i

VARIABLES routine,        \* what is executed
          code,           \* its instructions
          pc,             \* next instruction; Trapped: in an exception handler
          d,              \* D0 to D3
          ccr,            \* the condition codes
          was             \* registers and condition codes at the start

vars == <<routine, code, pc, d, ccr, was>>

REG_D == 0 .. 3
Trapped == 0
Words == 0 .. 2^WORD - 1
Longs == 0 .. 2^LONG - 1
Zero == {0}
Packed == {16 * t + u : t, u \in 0 .. 9}      \* bytes of two digits
Counts == 0 .. Smallest({63, 2^LONG - 1})
Places == 0 .. WORD                           \* offsets and widths of fields

Conditions == {"T", "F", "HI", "LS", "CC", "CS", "NE", "EQ", "VC", "VS", "PL", "MI",
               "GE", "LT", "GT", "LE"}
Compares == {"HI", "LS", "CC", "CS", "NE", "EQ", "GE", "LT", "GT", "LE"}
ShiftOps == {"ASL", "ASR", "LSL", "LSR", "ROL", "ROR", "ROXL", "ROXR"}
FieldOps == {"BFTST", "BFSET", "BFCLR", "BFCHG"}
BitOps == {"BTST", "BSET", "BCLR", "BCHG"}

\* An instruction of size w with source and destination register.
Ins(op, w, s, t) == [op |-> op, w |-> w, s |-> s, d |-> t]
Field(op, s, t) == Ins(op, WORD, s, t) @@ [o |-> 2, k |-> 3]     \* {D2:D3}
Branch(op, t, cc, to) == [op |-> op, w |-> WORD, s |-> 0, d |-> t, cc |-> cc, to |-> to]

Named(name) == [name |-> name]

Routines ==
    {Named(n) : n \in {"pointer", "max", "cas", "loop", "mul32", "insert", "merge", "mask"}}
    \cup [name : {"add", "sub", "neg"}, long : BOOLEAN]
    \cup [name : {"quick"}, op : {"ADDQ", "SUBQ"}, q : 0 .. 7]
    \cup [name : {"compare"}, op : {"CMP", "CMP_32", "CMPA"}, cc : Conditions]
    \cup [name : {"decimal"}, op : {"ABCD", "SBCD", "NBCD"}]
    \cup [name : {"shift"}, op : ShiftOps, w : {WORD, LONG}]
    \cup [name : {"field"}, op : FieldOps]
    \cup [name : {"bit"}, op : BitOps]
    \cup [name : {"product"}, op : {"MULU", "MULS"}]
    \cup [name : {"quotient"}, op : {"DIVU", "DIVS"}]
    \cup [name : {"longproduct"}, signed : BOOLEAN, quad : BOOLEAN]
    \cup [name : {"longquotient"}, signed : BOOLEAN, quad : BOOLEAN]

Code(r) ==
    LET W(op, s, t) == Ins(op, WORD, s, t)
        L(op, s, t) == Ins(op, LONG, s, t)
        Of(op, long) == IF r.long THEN long ELSE op
    IN  CASE r.name = "add" -> <<W(Of("ADD", "ADD_32"), 0, 2), W(Of("ADDX", "ADDX_32"), 1, 3)>>
          [] r.name = "sub" -> <<W(Of("SUB", "SUB_32"), 0, 2), W(Of("SUBX", "SUBX_32"), 1, 3)>>
          [] r.name = "neg" -> <<W(Of("NEG", "NEG_32"), 0, 2), W(Of("NEGX", "NEGX_32"), 0, 3)>>
          [] r.name = "quick" -> <<[op |-> r.op, w |-> WORD, s |-> 0, d |-> 2, q |-> r.q]>>
          [] r.name = "pointer" -> <<W("ADDA", 0, 1), W("SUBA", 2, 1)>>
          [] r.name = "compare" -> <<W(r.op, 0, 1), Branch("Scc", 2, r.cc, 0)>>
          [] r.name = "max" -> <<W("CMP", 0, 1), Branch("Bcc", 0, "GE", 4), W("MOVE", 0, 1),
                                 W("TST", 1, 1)>>
          [] r.name = "cas" -> <<W("CAS", 0, 2)>>
          [] r.name = "decimal" -> <<Ins(r.op, 8, 0, 1)>>
          [] r.name = "shift" -> <<Ins(r.op, r.w, 0, 1)>>
          [] r.name = "bit" -> <<W(r.op, 2, 1)>>
          [] r.name = "field" -> <<Field(r.op, 0, 1)>>
          [] r.name = "insert" -> <<Field("BFINS", 0, 1), Field("BFEXTU", 1, 0),
                                    Field("BFEXTS", 1, 0), Field("BFFFO", 1, 0)>>
          [] r.name = "merge" -> <<W("MOVE", 1, 3), W("EOR", 0, 1), W("AND", 2, 1), W("EOR", 3, 1)>>
          [] r.name = "mask" -> <<W("AND", 2, 0), W("NOT", 2, 2), W("AND", 2, 1), W("OR", 0, 1)>>
          [] r.name = "loop" -> <<L("CLR", 2, 2), L("ADD", 0, 2), Branch("DBcc", 1, "F", 2)>>
          [] r.name = "mul32" -> <<L("MOVE", 0, 2), L("SWAP", 2, 2), W("MULU", 1, 2),
                                   L("MOVE", 1, 3), L("SWAP", 3, 3), W("MULU", 0, 3),
                                   W("ADD", 3, 2), L("SWAP", 2, 2), W("CLR", 2, 2),
                                   W("MULU", 1, 0), L("ADD_32", 2, 0)>>
          [] r.name = "product" -> <<W(r.op, 0, 1)>>
          [] r.name = "quotient" -> <<W(r.op, 0, 1), W("EXT", 1, 1)>>
          [] r.name = "longproduct" -> <<W("MULL", 0, 1)>>
          [] r.name = "longquotient" -> <<W("DIVL", 0, 1)>>

\* The values of D0 to D3 a routine is started with.
Operands(r) ==
    CASE r.name \in {"add", "sub"} -> <<Edge, Edge, Edge, Edge>>
      [] r.name \in {"neg", "quick"} -> <<Zero, Zero, Words, Words>>
      [] r.name = "pointer" -> <<Words, LongEdge, Words, Zero>>
      [] r.name = "compare" -> <<IF r.op = "CMPA" THEN Words ELSE Edge,
                                 IF r.op = "CMPA" THEN LongEdge ELSE Words, LongEdge, Zero>>
      [] r.name \in {"cas", "merge", "mask"} -> <<Words, Words, Words, Zero>>
      [] r.name \in {"max", "loop", "longproduct"} -> <<Words, Words, Zero, Zero>>
      [] r.name = "decimal" -> <<Packed, Packed, Zero, Zero>>
      [] r.name = "shift" -> <<Counts, IF r.w = LONG THEN LongEdge ELSE Words, Zero, Zero>>
      [] r.name = "insert" -> <<Words, Words, Places, Places>>
      [] r.name \in {"bit", "field"} -> <<Zero, Words, Places, Places>>
      [] r.name = "mul32" -> <<LongEdge, LongEdge, Zero, Zero>>
      [] r.name = "product" -> <<Words, Words, Zero, Zero>>
      [] r.name = "quotient" -> <<Words, Longs, Zero, Zero>>
      [] r.name = "longquotient" -> <<Words, Words, Words, Zero>>

\* Only X and Z at the start can matter.
Init ==
    \E r \in Routines, x, z \in BOOLEAN :
        /\ r.name \in {"decimal", "shift"} \/ (~x /\ z)
        /\ \E a \in Operands(r)[1], b \in Operands(r)[2], c \in Operands(r)[3], e \in Operands(r)[4] :
               d = [i \in REG_D |-> <<a, b, c, e>>[i + 1]]
        /\ routine = r /\ code = Code(r) /\ pc = 1
        /\ ccr = [x |-> x, n |-> FALSE, z |-> z, v |-> FALSE, c |-> FALSE]
        /\ was = [d |-> d, ccr |-> ccr]

-----------------------------------------------------------------------------
Ended == pc = Len(code) + 1
Running == pc # Trapped /\ ~Ended
Here == code[pc]
Operand(w, r) == Mask(w, d[r])
\* MASK_OUT_BELOW: the bits above the operand stay.
Merged(w, r, a) == d[r] - Operand(w, r) + Mask(w, a)

Goes(to) == pc' = to /\ UNCHANGED <<routine, code, was>>

Stores(w, r, a) ==
    d' = [d EXCEPT ![r] = Merged(w, r, a.res)] /\ ccr' = a.ccr /\ Goes(pc + 1)

\* Instruction op of the form Alu(w, f, s, d).
Executes(op, Alu(_, _, _, _)) ==
    /\ Running /\ Here.op = op
    /\ Stores(Here.w, Here.d, Alu(Here.w, ccr, Operand(Here.w, Here.s), Operand(Here.w, Here.d)))

ExecutesDecimal(op, Alu(_, _, _)) ==
    Executes(op, LAMBDA w, f, s, t : Alu(f, s, t))
ExecutesField(op, Alu(_, _, _, _, _, _)) ==
    Executes(op, LAMBDA w, f, s, t : Alu(w, f, Operand(LONG, Here.o), Operand(LONG, Here.k), s, t))
ExecutesQuick(op, Alu(_, _, _, _)) ==
    Executes(op, LAMBDA w, f, s, t : Alu(w, f, Here.q, t))
\* Counts and bit numbers are taken from the whole register.
ExecutesCount(op, Alu(_, _, _, _)) ==
    Executes(op, LAMBDA w, f, s, t : Alu(w, f, d[Here.s], t))

\* Results and, for address registers and divisions, destinations that are long.
ExecutesLong(op, Alu(_, _, _, _)) ==
    /\ Running /\ Here.op = op
    /\ Stores(LONG, Here.d, Alu(WORD, ccr, Operand(WORD, Here.s), d[Here.d]))

Add == Executes("ADD", ADD) \/ Executes("ADD_32", ADD_32)
       \/ Executes("ADDX", ADDX) \/ Executes("ADDX_32", ADDX_32)
Sub == Executes("SUB", SUB) \/ Executes("SUB_32", SUB_32)
       \/ Executes("SUBX", SUBX) \/ Executes("SUBX_32", SUBX_32)
Neg == Executes("NEG", NEG) \/ Executes("NEG_32", NEG_32)
       \/ Executes("NEGX", NEGX) \/ Executes("NEGX_32", NEGX_32)
AddSubQuick == ExecutesQuick("ADDQ", ADDQ) \/ ExecutesQuick("SUBQ", SUBQ)
Address == \/ ExecutesLong("ADDA", LAMBDA w, f, s, t : ADDA(w, LONG, f, s, t))
           \/ ExecutesLong("SUBA", LAMBDA w, f, s, t : SUBA(w, LONG, f, s, t))
Compare == \/ Executes("CMP", CMP) \/ Executes("CMP_32", CMP_32) \/ Executes("TST", TST)
           \/ ExecutesLong("CMPA", LAMBDA w, f, s, t : CMPA(w, LONG, f, s, t))
BinaryDecimal == ExecutesDecimal("ABCD", ABCD) \/ ExecutesDecimal("SBCD", SBCD)
                 \/ ExecutesDecimal("NBCD", NBCD)
Logic == Executes("AND", AND) \/ Executes("OR", OR) \/ Executes("EOR", EOR) \/ Executes("NOT", NOT)
Move == \/ Executes("MOVE", MOVE) \/ Executes("CLR", CLR) \/ Executes("SWAP", SWAP)
        \/ ExecutesLong("EXT", LAMBDA w, f, s, t : EXT(w, LONG, f, Mask(w, t)))
ChangeBit == ExecutesCount("BTST", BTST) \/ ExecutesCount("BSET", BSET) \/ ExecutesCount("BCLR", BCLR)
             \/ ExecutesCount("BCHG", BCHG)
ChangeField == ExecutesField("BFTST", BFTST) \/ ExecutesField("BFSET", BFSET)
               \/ ExecutesField("BFCLR", BFCLR) \/ ExecutesField("BFCHG", BFCHG)
InsertField == ExecutesField("BFINS", BFINS)
ExtractField == ExecutesField("BFEXTU", BFEXTU) \/ ExecutesField("BFEXTS", BFEXTS)
                \/ ExecutesField("BFFFO", BFFFO)
Shift == ExecutesCount("ASL", ASL) \/ ExecutesCount("ASR", ASR)
         \/ ExecutesCount("LSL", LSL) \/ ExecutesCount("LSR", LSR)
Rotate == ExecutesCount("ROL", ROL) \/ ExecutesCount("ROR", ROR)
          \/ ExecutesCount("ROXL", ROXL) \/ ExecutesCount("ROXR", ROXR)
Multiply == \/ ExecutesLong("MULU", LAMBDA w, f, s, t : MULU(w, f, s, Mask(w, t)))
            \/ ExecutesLong("MULS", LAMBDA w, f, s, t : MULS(w, f, s, Mask(w, t)))

CompareAndSwap ==
    /\ Running /\ Here.op = "CAS"
    /\ LET a == CAS(WORD, ccr, Operand(WORD, 0), Operand(WORD, 1), Operand(WORD, 2))
       IN  d' = [d EXCEPT ![0] = Merged(WORD, 0, a.expected), ![2] = a.memory] /\ ccr' = a.ccr
    /\ Goes(pc + 1)

Divide ==
    /\ Running /\ Here.op \in {"DIVU", "DIVS", "DIVL"}
    /\ \/ Operand(WORD, Here.s) # 0 /\ (ExecutesLong("DIVU", DIVU) \/ ExecutesLong("DIVS", DIVS))
       \/ Operand(WORD, Here.s) = 0 /\ Goes(Trapped) /\ UNCHANGED <<d, ccr>>

\* Two registers of WORD bits: D1 the lower, D2 the upper one or the remainder.
MultiplyLong ==
    /\ Running /\ Here.op = "MULL"
    /\ LET p == MULL(WORD, ccr, d[0], d[1], routine.signed, routine.quad)
       IN  /\ d' = [d EXCEPT ![1] = p.lo, ![2] = IF routine.quad THEN p.hi ELSE @]
           /\ ccr' = p.ccr
    /\ Goes(pc + 1)

DivideLong ==
    /\ Running /\ Here.op = "DIVL" /\ d[0] # 0
    /\ LET a == IF routine.quad
                THEN DIVL(WORD, ccr, d[0], [lo |-> d[1], hi |-> d[2]], routine.signed)
                ELSE DIVL_32(WORD, ccr, d[0], d[1], routine.signed)
       IN  d' = [d EXCEPT ![1] = a.quotient, ![2] = a.remainder] /\ ccr' = a.ccr
    /\ Goes(pc + 1)

Bcc ==
    /\ Running /\ Here.op = "Bcc"
    /\ Goes(IF Cond(Here.cc, ccr) THEN Here.to ELSE pc + 1) /\ UNCHANGED <<d, ccr>>

Scc ==
    /\ Running /\ Here.op = "Scc"
    /\ Stores(8, Here.d, [res |-> IF Cond(Here.cc, ccr) THEN 255 ELSE 0, ccr |-> ccr])

\* Counts down unless the condition is true, and loops until the counter is -1.
DBcc ==
    /\ Running /\ Here.op = "DBcc"
    /\ LET left == Mask(WORD, d[Here.d] - 1)
       IN  IF Cond(Here.cc, ccr) THEN Goes(pc + 1) /\ UNCHANGED <<d, ccr>>
           ELSE /\ d' = [d EXCEPT ![Here.d] = Merged(WORD, Here.d, left)] /\ UNCHANGED ccr
                /\ Goes(IF left # 2^WORD - 1 THEN Here.to ELSE pc + 1)

Next ==
    \/ Add \/ Sub \/ Neg \/ AddSubQuick \/ Address \/ Compare \/ BinaryDecimal \/ Logic \/ Move
    \/ ChangeBit \/ ChangeField \/ InsertField \/ ExtractField \/ Shift \/ Rotate
    \/ Multiply \/ CompareAndSwap \/ Divide \/ MultiplyLong \/ DivideLong \/ Bcc \/ Scc \/ DBcc

Spec == Init /\ [][Next]_vars

-----------------------------------------------------------------------------
Ends(names) == Ended /\ routine.name \in names
Start(r) == was.d[r]
Pair(regs, hi, lo) == regs[hi] * 2^WORD + regs[lo]

\* r, of b bits, and the flags are those of a result that is u for unsigned and
\* g for signed operands.
IsResult(b, r, u, g) ==
    /\ r = u % 2^b
    /\ ccr.c = (u \notin 0 .. 2^b - 1) /\ ccr.x = ccr.c
    /\ ccr.v = (g \notin -(2^(b - 1)) .. 2^(b - 1) - 1)
    /\ ccr.z = (r = 0) /\ ccr.n = (r >= 2^(b - 1))

\* The decimal digits of the bytes a and b, added, subtracted or negated with X
\* as carry; Z stays only if all bytes were 0, so that bytes can be chained.
IsDecimalResult(op, a, b) ==
    LET value(n) == 10 * (n \div 16) + (n % 16)
        r == CASE op = "ABCD" -> value(b) + value(a) + AsOne(was.ccr.x)
               [] op = "SBCD" -> value(b) - value(a) - AsOne(was.ccr.x)
               [] op = "NBCD" -> 0 - value(b) - AsOne(was.ccr.x)
    IN  /\ d[1] \in Packed /\ value(d[1]) = r % 100
        /\ ccr.c = (r \notin 0 .. 99) /\ ccr.x = ccr.c
        /\ ccr.z = (was.ccr.z /\ r % 100 = 0)

\* ADD and ADDX, SUB and SUBX, NEG and NEGX on the halves of a number leave the
\* result and all flags of one instruction on the whole: X carries over, and Z
\* is that of both halves (m68kopac.c:2183, m68kopnz.c:727, 7336); the flags of
\* a single addition likewise, whatever formula its size has (m68kcpu.h:672), and
\* decimal digits in the same way (m68kopac.c:22, m68kopnz.c:10, 4115).
MultiPrecision ==
    LET a == Pair(was.d, 1, 0)
        b == Pair(was.d, 3, 2)
        r == Pair(d, 3, 2)
        g(n) == Signed(LONG, n)
        q == IF routine.q = 0 THEN 8 ELSE routine.q
        s(n) == Signed(WORD, n)
    IN  /\ Ends({"add"}) => IsResult(LONG, r, a + b, g(a) + g(b))
        /\ Ends({"sub"}) => IsResult(LONG, r, b - a, g(b) - g(a))
        /\ Ends({"neg"}) => IsResult(LONG, r, -b, -g(b))
        /\ Ends({"quick"}) =>
               IF routine.op = "ADDQ" THEN IsResult(WORD, d[2], Start(2) + q, s(Start(2)) + s(q))
                                      ELSE IsResult(WORD, d[2], Start(2) - q, s(Start(2)) - s(q))
        /\ Ends({"pointer"}) =>
               /\ d[1] = (Start(1) + s(Start(0)) - s(Start(2))) % 2^LONG
               /\ ccr = was.ccr
        /\ Ends({"decimal"}) => IsDecimalResult(routine.op, Start(0), Start(1))

\* What a condition says of the numbers u and t, of b bits, compared.
Holds(cc, b, u, t) ==
    CASE cc = "HI" -> u > t  [] cc = "LS" -> u <= t  [] cc = "CC" -> u >= t  [] cc = "CS" -> u < t
      [] cc = "EQ" -> u = t  [] cc = "NE" -> u # t
      [] cc = "GT" -> Signed(b, u) > Signed(b, t)   [] cc = "LE" -> Signed(b, u) <= Signed(b, t)
      [] cc = "GE" -> Signed(b, u) >= Signed(b, t)  [] cc = "LT" -> Signed(b, u) < Signed(b, t)

\* After a comparison every condition decides like the integers do, signed and
\* unsigned, for Bcc, Scc and DBcc alike (m68kcpu.h:722); CMPA compares the sign
\* extended word (m68kopac.c:11346), and CAS swaps just then (m68kopac.c:8686).
ConditionsCompare ==
    LET b == IF routine.op = "CMPA" THEN LONG ELSE WORD
        t == IF routine.op = "CMPA" THEN Signed(WORD, Start(0)) % 2^LONG ELSE Start(0)
    IN  /\ (routine.name = "compare" /\ pc > 1) =>
               \A cc \in Compares : Cond(cc, ccr) = Holds(cc, b, Start(1), t)
        /\ Ends({"compare"}) =>
               /\ d[1] = Start(1) /\ ccr.x = was.ccr.x
               /\ d[2] = (Start(2) - (Start(2) % 256)) + (IF Cond(routine.cc, ccr) THEN 255 ELSE 0)
        /\ Ends({"max"}) =>
               Signed(WORD, d[1]) = -Smallest({-Signed(WORD, Start(0)), -Signed(WORD, Start(1))})
        /\ Ends({"cas"}) =>
               /\ \A cc \in Compares : Cond(cc, ccr) = Holds(cc, WORD, Start(2), Start(0))
               /\ d = IF Start(0) = Start(2) THEN [was.d EXCEPT ![2] = Start(1)]
                                             ELSE [was.d EXCEPT ![0] = Start(2)]

\* a, shifted by one bit.
OneBit(op, w, a) ==
    LET left == op \in {"ASL", "LSL", "ROL", "ROXL"}
        out == IF left THEN Msb(w, a.r) ELSE Bit(a.r, 0)
        in == CASE op \in {"ASL", "LSL", "LSR"} -> FALSE
                [] op = "ASR" -> Msb(w, a.r)
                [] op \in {"ROL", "ROR"} -> out
                [] op \in {"ROXL", "ROXR"} -> a.x
        r == IF left THEN ((2 * a.r) % 2^w) + AsOne(in) ELSE (a.r \div 2) + AsOne(in) * 2^(w - 1)
    IN  [r |-> r, c |-> out, x |-> IF op \in {"ROL", "ROR"} THEN a.x ELSE out,
         v |-> a.v \/ (op = "ASL" /\ Msb(w, r) # Msb(w, a.r))]

\* A shift or rotation by n, with n up to 63 and beyond the size, is n of them by
\* one bit: C is the last bit moved, V of ASL remembers each change of the sign,
\* and by 0 bits X is kept (m68kopac.c:3411, 3771, m68kopdm.c:4472, m68kopnz.c:2799).
ShiftsRepeat ==
    Ends({"shift"}) =>
        LET op == routine.op
            start == [r |-> Start(1) % 2^routine.w, x |-> was.ccr.x, v |-> FALSE,
                      c |-> op \in {"ROXL", "ROXR"} /\ was.ccr.x]
            after[n \in 0 .. 63] == IF n = 0 THEN start ELSE OneBit(op, routine.w, after[n - 1])
            a == after[Start(0) % 64]
        IN  /\ d[1] % 2^routine.w = a.r
            /\ ccr = [x |-> a.x, n |-> Msb(routine.w, a.r), z |-> a.r = 0, v |-> a.v, c |-> a.c]

\* The quotient n / s, if it is one for b bits: the remainder is smaller than
\* the divisor and has the sign of the dividend.
IsQuotient(q, r, n, s) ==
    /\ n = s * q + r /\ Magnitude(r) < Magnitude(s) /\ (r = 0 \/ (r < 0) = (n < 0))

\* Divisions give quotient and remainder, or set V and leave their operands if
\* the quotient does not fit, or trap; multiplications give the product, put
\* together from halves, and V says whether it fits; so does a routine that adds
\* in a DBcc loop, n + 1 times, or multiplies longs with the word instruction
\* (m68kopdm.c:10, 386, 804, 1090, 11844, 12152).  Excepted are the dividend
\* -2^31 by -1, which DIVS answers with 0 (m68kopdm.c:394), and quotients -2^31,
\* which DIVL takes for an overflow.
ProductsAndQuotients ==
    LET sg(w, a, signed) == IF signed THEN Signed(w, a) ELSE a
        fits(w, a, signed) == IF signed THEN a \in -(2^(w - 1)) .. 2^(w - 1) - 1 ELSE a \in 0 .. 2^w - 1
        signedOp == routine.op \in {"MULS", "DIVS"}
        n == sg(LONG, Start(1), signedOp)
        s == sg(WORD, Start(0), signedOp)
        long(r) == IF routine.quad THEN Pair(r, 2, 1) ELSE r[1]
        size == IF routine.quad THEN LONG ELSE WORD
        ln == sg(size, long(was.d), routine.signed)
        ls == sg(WORD, Start(0), routine.signed)
    IN  /\ Ends({"product"}) =>
               d[1] = (s * sg(WORD, Start(1), signedOp)) % 2^LONG
        /\ (routine.name = "quotient" /\ pc = 2) =>
               IF fits(WORD, Quotient(n, s), signedOp)
               THEN ~ccr.v /\ IsQuotient(sg(WORD, d[1] % 2^WORD, signedOp),
                                         sg(WORD, d[1] \div 2^WORD, signedOp), n, s)
               ELSE \/ ccr.v /\ d = was.d
                    \/ signedOp /\ n = -(2^(LONG - 1)) /\ s = -1
        /\ (routine.name \in {"quotient", "longquotient"} /\ pc = Trapped) => Start(0) = 0 /\ d = was.d
        /\ Ends({"longproduct"}) =>
               LET p == ls * sg(WORD, Start(1), routine.signed)
               IN  /\ long(d) = p % 2^size
                   /\ ccr.v = (~routine.quad /\ ~fits(WORD, p, routine.signed))
                   /\ ccr.z = (p % 2^size = 0) /\ ccr.n = Bit(p, size - 1)
        /\ Ends({"longquotient"}) =>
               \/ /\ ~ccr.v
                  /\ IsQuotient(sg(WORD, d[1], routine.signed), sg(WORD, d[2], routine.signed), ln, ls)
               \/ ccr.v /\ d = was.d /\ ~fits(WORD, Quotient(ln, ls), routine.signed)
               \/ routine.signed /\ Quotient(ln, ls) \in {-(2^(WORD - 1)), 2^(WORD - 1)}
        /\ Ends({"loop"}) =>
               d[2] = (Start(0) * (Start(1) + 1)) % 2^LONG /\ d[1] = 2^WORD - 1
        /\ Ends({"mul32"}) => d[0] = (Start(0) * Start(1)) % 2^LONG

\* Bit field instructions change the bits of their field and no other, also
\* where it goes round the end of the register; what BFINS has put there BFEXTU,
\* BFEXTS and BFFFO find; merging under a mask with EOR does what AND and OR do
\* (m68kopac.c:5267, 5572, 5879, 6249, 6612, 7014, 7361, 4831, 5049, 8125).
FieldsKept ==
    LET k == IF Start(3) % WORD = 0 THEN WORD ELSE Start(3) % WORD
        Place(i) == WORD - 1 - ((Start(2) + i) % WORD)         \* of the field's i-th bit
        In(i) == \E j \in 0 .. k - 1 : Place(j) = i
        field == Start(0) % 2^k
        left == {i \in 0 .. k - 1 : Bit(field, k - 1 - i)}
        Changed(op, b) == CASE op \in {"BFTST", "BTST"} -> b  [] op \in {"BFSET", "BSET"} -> TRUE
                            [] op \in {"BFCLR", "BCLR"} -> FALSE [] op \in {"BFCHG", "BCHG"} -> ~b
    IN  /\ (routine.name = "insert" /\ pc > 1) =>
               /\ \A j \in 0 .. k - 1 : Bit(d[1], Place(j)) = Bit(field, k - 1 - j)
               /\ \A i \in 0 .. WORD - 1 : In(i) \/ Bit(d[1], i) = Bit(Start(1), i)
               /\ ccr.n = Bit(field, k - 1) /\ ccr.z = (field = 0)
        /\ (routine.name = "insert" /\ pc = 3) => d[0] = field
        /\ (routine.name = "insert" /\ pc = 4) => Signed(WORD, d[0]) = Signed(k, field)
        /\ Ends({"insert"}) => d[0] = (Start(2) % WORD) + Smallest(left \cup {k})
        /\ Ends({"field"}) =>
               /\ \A i \in 0 .. WORD - 1 :
                      Bit(d[1], i) = IF In(i) THEN Changed(routine.op, Bit(Start(1), i)) ELSE Bit(Start(1), i)
               /\ ccr.z = (\A i \in 0 .. WORD - 1 : In(i) => ~Bit(Start(1), i))
        /\ Ends({"bit"}) =>
               LET n == Start(2) % WORD
               IN  /\ \A i \in 0 .. WORD - 1 :
                          Bit(d[1], i) = IF i = n THEN Changed(routine.op, Bit(Start(1), i)) ELSE Bit(Start(1), i)
                   /\ ccr.z = ~Bit(Start(1), n)
        /\ Ends({"merge", "mask"}) =>
               \A i \in 0 .. WORD - 1 :
                   Bit(d[1], i) = IF Bit(Start(2), i) THEN Bit(Start(0), i) ELSE Bit(Start(1), i)
=============================================================================
