------------------------------ MODULE M68kAlu ------------------------------
(***************************************************************************)
(* The arithmetic of the 68k core: what its instructions make of their     *)
(* operands and of the condition codes.  In the code there is a function   *)
(* for each instruction, operand size and addressing mode; here there is   *)
(* an operator for each instruction, and the size is its first parameter,  *)
(* w bits.  Operands are the low w bits of a register, the result replaces *)
(* them.  Sizes of 8 and 16 bits take the carry from the bit above the     *)
(* result, which 32 bit arithmetic does not have; its formula is another,  *)
(* and so are the operators named _32.                                     *)
(*                                                                         *)
(* The code keeps each flag in a bit of some intermediate result, and Z as *)
(* a number that is 0 if the flag is set; here flags are BOOLEAN.          *)
(***************************************************************************)
EXTENDS Integers

Flags == [x : BOOLEAN, n : BOOLEAN, z : BOOLEAN, v : BOOLEAN, c : BOOLEAN]

Mask(w, a) == a % 2^w                    \* MASK_OUT_ABOVE
Bit(a, i) == (a \div 2^i) % 2 = 1
Msb(w, a) == Bit(a, w - 1)
Signed(w, a) == IF Msb(w, a) THEN Mask(w, a) - 2^w ELSE Mask(w, a)   \* MAKE_INT
AsOne(flag) == IF flag THEN 1 ELSE 0
Magnitude(a) == IF a < 0 THEN -a ELSE a
Smallest(S) == CHOOSE a \in S : \A b \in S : a <= b

CFLAG(w, r) == Bit(r, w)
CFLAG_ADD_32(w, s, d, r) == \/ Msb(w, s) /\ Msb(w, d)
                            \/ ~Msb(w, r) /\ (Msb(w, s) \/ Msb(w, d))
CFLAG_SUB_32(w, s, d, r) == \/ Msb(w, s) /\ Msb(w, r)
                            \/ ~Msb(w, d) /\ (Msb(w, s) \/ Msb(w, r))
VFLAG_ADD(w, s, d, r) == Msb(w, s) # Msb(w, r) /\ Msb(w, d) # Msb(w, r)
VFLAG_SUB(w, s, d, r) == Msb(w, s) # Msb(w, d) /\ Msb(w, r) # Msb(w, d)

\* A result r with overflow v and carry c.
Arithmetic(w, r, v, c) ==
    [res |-> Mask(w, r),
     ccr |-> [x |-> c, n |-> Msb(w, r), z |-> Mask(w, r) = 0, v |-> v, c |-> c]]

\* The instructions with X in their name only ever clear Z.
\* Mutant: they set it.
StickyNot(f, a) == a
Sticky(f, a) == [a EXCEPT !.ccr.z = f.z /\ @]

\* Those that move bits clear V and C, and leave X.
Logical(f, w, r) == [Arithmetic(w, r, FALSE, FALSE) EXCEPT !.ccr.x = f.x]

-----------------------------------------------------------------------------
(* Addition and subtraction of source s and destination d                  *)

ADD(w, f, s, d) == LET r == s + d IN Arithmetic(w, r, VFLAG_ADD(w, s, d, r), CFLAG(w, r))
ADD_32(w, f, s, d) ==
    LET r == s + d IN Arithmetic(w, r, VFLAG_ADD(w, s, d, r), CFLAG_ADD_32(w, s, d, r))
SUB(w, f, s, d) == LET r == d - s IN Arithmetic(w, r, VFLAG_SUB(w, s, d, r), CFLAG(w, r))
SUB_32(w, f, s, d) ==
    LET r == d - s IN Arithmetic(w, r, VFLAG_SUB(w, s, d, r), CFLAG_SUB_32(w, s, d, r))

ADDX(w, f, s, d) ==
    LET r == s + d + AsOne(f.x)
    IN  Sticky(f, Arithmetic(w, r, VFLAG_ADD(w, s, d, r), CFLAG(w, r)))
ADDX_32(w, f, s, d) ==
    LET r == s + d + AsOne(f.x)
    IN  Sticky(f, Arithmetic(w, r, VFLAG_ADD(w, s, d, r), CFLAG_ADD_32(w, s, d, r)))
SUBX(w, f, s, d) ==
    LET r == d - s - AsOne(f.x)
    IN  Sticky(f, Arithmetic(w, r, VFLAG_SUB(w, s, d, r), CFLAG(w, r)))
SUBX_32(w, f, s, d) ==
    LET r == d - s - AsOne(f.x)
    IN  Sticky(f, Arithmetic(w, r, VFLAG_SUB(w, s, d, r), CFLAG_SUB_32(w, s, d, r)))

NEG(w, f, s, d) == LET r == 0 - d IN Arithmetic(w, r, Msb(w, d) /\ Msb(w, r), CFLAG(w, r))
NEG_32(w, f, s, d) ==
    LET r == 0 - d IN Arithmetic(w, r, Msb(w, d) /\ Msb(w, r), CFLAG_SUB_32(w, d, 0, r))
NEGX(w, f, s, d) ==
    LET r == 0 - d - AsOne(f.x)
    IN  Sticky(f, Arithmetic(w, r, Msb(w, d) /\ Msb(w, r), CFLAG(w, r)))
NEGX_32(w, f, s, d) ==
    LET r == 0 - d - AsOne(f.x)
    IN  Sticky(f, Arithmetic(w, r, Msb(w, d) /\ Msb(w, r), CFLAG_SUB_32(w, d, 0, r)))

\* The three bits of the quick operand stand for 1 to 8.
Quick(q) == ((q - 1) % 8) + 1
ADDQ(w, f, q, d) == ADD(w, f, Quick(q), d)
SUBQ(w, f, q, d) == SUB(w, f, Quick(q), d)

\* Address registers are changed as a whole and leave the flags alone.
ADDA(w, l, f, s, d) == [res |-> Mask(l, d + Signed(w, s)), ccr |-> f]
SUBA(w, l, f, s, d) == [res |-> Mask(l, d - Signed(w, s)), ccr |-> f]

\* Comparisons subtract and keep d and X.
Comparison(f, d, a) == [res |-> d, ccr |-> [a.ccr EXCEPT !.x = f.x]]
CMP(w, f, s, d) == Comparison(f, d, SUB(w, f, s, d))
CMP_32(w, f, s, d) == Comparison(f, d, SUB_32(w, f, s, d))
\* Mutant: the word is not sign extended.
CMPAUnsigned(w, l, f, s, d) == Comparison(f, d, SUB_32(l, f, s, d))
CMPA(w, l, f, s, d) == Comparison(f, d, SUB_32(l, f, Mask(l, Signed(w, s)), d))
TST(w, f, s, d) == Logical(f, w, d)

\* Compare and swap: the operand in memory is replaced if it is the expected
\* one, and else becomes the expected one.
Swapped(cc, expected, update, memory) ==
    IF ~cc.z THEN [expected |-> memory, memory |-> memory, ccr |-> cc]
             ELSE [expected |-> expected, memory |-> update, ccr |-> cc]
CAS(w, f, expected, update, memory) ==
    Swapped(CMP(w, f, expected, memory).ccr, expected, update, memory)
CAS_32(w, f, expected, update, memory) ==
    Swapped(CMP_32(w, f, expected, memory).ccr, expected, update, memory)

Cond(cc, f) ==
    CASE cc = "T" -> TRUE           [] cc = "F" -> FALSE
      [] cc = "CS" -> f.c           [] cc = "CC" -> ~f.c
      [] cc = "EQ" -> f.z           [] cc = "NE" -> ~f.z
      [] cc = "VS" -> f.v           [] cc = "VC" -> ~f.v
      [] cc = "MI" -> f.n           [] cc = "PL" -> ~f.n
      [] cc = "LT" -> f.n # f.v     [] cc = "GE" -> f.n = f.v
      [] cc = "HI" -> ~f.c /\ ~f.z  [] cc = "LS" -> f.c \/ f.z
      [] cc = "GT" -> f.n = f.v /\ ~f.z
      [] cc = "LE" -> f.n # f.v \/ f.z

-----------------------------------------------------------------------------
(* Binary coded decimals: two digits in a byte                             *)

LowNibble(a) == a % 16
HighNibble(a) == Mask(8, a) - LowNibble(a)
Exceeds(r, n) == r < 0 \/ r > n          \* r > n for the unsigned r of the code

\* N and V are undefined on the chip; V is not modelled.
Decimal(f, r, carry) ==
    [res |-> Mask(8, r), ccr |-> [f EXCEPT !.x = carry, !.c = carry, !.z = @ /\ Mask(8, r) = 0]]

ABCD(f, s, d) ==
    LET low == LowNibble(s) + LowNibble(d) + AsOne(f.x)
        r == (IF low > 9 THEN low + 6 ELSE low) + HighNibble(s) + HighNibble(d)
    IN  Decimal(f, IF r > 153 THEN r - 160 ELSE r, r > 153)

SBCD(f, s, d) ==
    LET low == LowNibble(d) - LowNibble(s) - AsOne(f.x)
        r == (IF Exceeds(low, 9) THEN low - 6 ELSE low) + HighNibble(d) - HighNibble(s)
    IN  Decimal(f, IF Exceeds(r, 153) THEN r + 160 ELSE r, Exceeds(r, 153))

\* Z is not looked at if the operand and X are 0.
NBCD(f, s, d) ==
    LET r == Mask(8, 154 - d - AsOne(f.x))
    IN  IF r = 154 THEN [res |-> Mask(8, d), ccr |-> [f EXCEPT !.x = FALSE, !.c = FALSE]]
        ELSE Decimal(f, IF r % 16 = 10 THEN r - 10 + 16 ELSE r, TRUE)

-----------------------------------------------------------------------------
(* Bits.  The operators &, | and ^ of the code combine each of the w bits of *)
(* their operands.                                                         *)

Combined(w, Rule(_, _), a, b) ==
    LET low[i \in 0 .. w] ==             \* the i lowest bits of the result
            IF i = 0 THEN 0 ELSE low[i - 1] + AsOne(Rule(Bit(a, i - 1), Bit(b, i - 1))) * 2^(i - 1)
    IN  low[w]
Both(w, a, b) == Combined(w, LAMBDA p, q : p /\ q, a, b)
Either(w, a, b) == Combined(w, LAMBDA p, q : p \/ q, a, b)
OneOf(w, a, b) == Combined(w, LAMBDA p, q : p # q, a, b)

AND(w, f, s, d) == Logical(f, w, Both(w, s, d))
OR(w, f, s, d) == Logical(f, w, Either(w, s, d))
EOR(w, f, s, d) == Logical(f, w, OneOf(w, s, d))
NOT(w, f, s, d) == Logical(f, w, 2^w - 1 - d)
MOVE(w, f, s, d) == Logical(f, w, s)
CLR(w, f, s, d) == Logical(f, w, 0)
SWAP(w, f, s, d) == Logical(f, w, (d \div 2^(w \div 2)) + Mask(w \div 2, d) * 2^(w \div 2))
EXT(w, l, f, d) == Logical(f, l, Signed(w, d))

\* Bit n of d, counted modulo the size, is tested and then changed.
Tested(w, f, n, d) == [f EXCEPT !.z = ~Bit(d, n % w)]
BTST(w, f, n, d) == [res |-> d, ccr |-> Tested(w, f, n, d)]
BSET(w, f, n, d) == [res |-> Either(w, d, 2^(n % w)), ccr |-> Tested(w, f, n, d)]
BCHG(w, f, n, d) == [res |-> OneOf(w, d, 2^(n % w)), ccr |-> Tested(w, f, n, d)]
BCLR(w, f, n, d) == [res |-> d - Both(w, d, 2^(n % w)), ccr |-> Tested(w, f, n, d)]

RotateLeft(w, a, n) == Mask(w, a * 2^n) + (a \div 2^(w - n))
RotateRight(w, a, n) == (a \div 2^n) + Mask(w, a * 2^(w - n))

\* Bit fields: offset o from the most significant bit, width k, both modulo
\* the size; a field may go round the end of the register.
Width(w, k) == ((k - 1) % w) + 1
FieldMask(w, o, k) == RotateRight(w, 2^w - 2^(w - Width(w, k)), o % w)
FieldFlags(w, f, o, k, d) ==
    [f EXCEPT !.n = Bit(d, w - 1 - (o % w)), !.z = Both(w, d, FieldMask(w, o, k)) = 0,
              !.v = FALSE, !.c = FALSE]

BFTST(w, f, o, k, s, d) == [res |-> d, ccr |-> FieldFlags(w, f, o, k, d)]
BFSET(w, f, o, k, s, d) == [res |-> Either(w, d, FieldMask(w, o, k)), ccr |-> FieldFlags(w, f, o, k, d)]
BFCLR(w, f, o, k, s, d) ==
    [res |-> d - Both(w, d, FieldMask(w, o, k)), ccr |-> FieldFlags(w, f, o, k, d)]
BFCHG(w, f, o, k, s, d) == [res |-> OneOf(w, d, FieldMask(w, o, k)), ccr |-> FieldFlags(w, f, o, k, d)]

BFINS(w, f, o, k, s, d) ==
    LET insert == Mask(w, s * 2^(w - Width(w, k)))
    IN  [res |-> Either(w, d - Both(w, d, FieldMask(w, o, k)), RotateRight(w, insert, o % w)),
         ccr |-> Logical(f, w, insert).ccr]

\* The field at the top of the register, and its flags.
FieldOnTop(w, o, d) == RotateLeft(w, d, o % w)
Extracted(f, w, o, d, r) == [res |-> r, ccr |-> [f EXCEPT !.n = Msb(w, FieldOnTop(w, o, d)),
                                                  !.z = r = 0, !.v = FALSE, !.c = FALSE]]
BFEXTU(w, f, o, k, s, d) ==
    Extracted(f, w, o, s, FieldOnTop(w, o, s) \div 2^(w - Width(w, k)))
BFEXTS(w, f, o, k, s, d) ==
    Extracted(f, w, o, s, Mask(w, Signed(w, FieldOnTop(w, o, s)) \div 2^(w - Width(w, k))))
BFFFO(w, f, o, k, s, d) ==
    LET field == BFEXTU(w, f, o, k, s, d)
        Found == {i \in 0 .. Width(w, k) - 1 : Bit(field.res, Width(w, k) - 1 - i)}
    IN  [field EXCEPT !.res = (o % w) + Smallest(Found \cup {Width(w, k)})]

-----------------------------------------------------------------------------
(* Shifts and rotations by a count taken from a register, modulo 64        *)

Count(s) == s % 64
\* The flags of a shifted r, with the last bit moved out.
Shifted(w, r, v, c) == Arithmetic(w, r, v, c)
\* By 0 bits: X is kept and C cleared.
NotShifted(w, f, d) == Logical(f, w, d)

\* Mutant: V compares the sign before and after.
ASLSigns(w, f, s, d) ==
    LET n == Count(s)
    IN  CASE n = 0 -> NotShifted(w, f, d)
          [] n \in 1 .. w - 1 -> Shifted(w, d * 2^n, Msb(w, d) # Msb(w, d * 2^n), Bit(d, w - n))
          [] n >= w -> Shifted(w, 0, d # 0, n = w /\ Bit(d, 0))
ASL(w, f, s, d) ==
    LET n == Count(s)
        top == d \div 2^(w - 1 - n)      \* the bits that pass through the sign
    IN  CASE n = 0 -> NotShifted(w, f, d)
          [] n \in 1 .. w - 1 -> Shifted(w, d * 2^n, top \notin {0, 2^(n + 1) - 1}, Bit(d, w - n))
          [] n >= w -> Shifted(w, 0, d # 0, n = w /\ Bit(d, 0))

ASR(w, f, s, d) ==
    LET n == Count(s)
        filled == IF Msb(w, d) THEN 2^w - 2^(w - n) ELSE 0
    IN  CASE n = 0 -> NotShifted(w, f, d)
          [] n \in 1 .. w - 1 -> Shifted(w, (d \div 2^n) + filled, FALSE, Bit(d, n - 1))
          [] n >= w -> Shifted(w, IF Msb(w, d) THEN 2^w - 1 ELSE 0, FALSE, Msb(w, d))

LSL(w, f, s, d) ==
    LET n == Count(s)
    IN  CASE n = 0 -> NotShifted(w, f, d)
          [] n \in 1 .. w -> Shifted(w, d * 2^n, FALSE, Bit(d, w - n))
          [] n > w -> Shifted(w, 0, FALSE, FALSE)

LSR(w, f, s, d) ==
    LET n == Count(s)
    IN  CASE n = 0 -> NotShifted(w, f, d)
          [] n \in 1 .. w -> Shifted(w, d \div 2^n, FALSE, Bit(d, n - 1))
          [] n > w -> Shifted(w, 0, FALSE, FALSE)

\* Rotations move the low bits of the count; C is the last bit moved even if
\* the register has gone round completely.
ROL(w, f, s, d) ==
    LET n == Count(s) % w
        c == IF n = 0 THEN Bit(d, 0) ELSE Bit(d, w - n)
    IN  IF Count(s) = 0 THEN NotShifted(w, f, d)
        ELSE [NotShifted(w, f, RotateLeft(w, d, n)) EXCEPT !.ccr.c = c]

ROR(w, f, s, d) ==
    LET n == Count(s) % w
    IN  IF Count(s) = 0 THEN NotShifted(w, f, d)
        ELSE [NotShifted(w, f, RotateRight(w, d, n)) EXCEPT !.ccr.c = Bit(d, (n - 1) % w)]

\* X is one more bit on top of the register.
Extended(w, f, d) == d + AsOne(f.x) * 2^w
ROXL(w, f, s, d) ==
    LET r == RotateLeft(w + 1, Extended(w, f, d), Count(s) % (w + 1))
    IN  Shifted(w, r, FALSE, Bit(r, w))
ROXR(w, f, s, d) ==
    LET r == RotateRight(w + 1, Extended(w, f, d), Count(s) % (w + 1))
    IN  Shifted(w, r, FALSE, Bit(r, w))

-----------------------------------------------------------------------------
(* Multiplication and division.  Registers of 2 * w bits are the word forms'  *)
(* products and dividends; the long forms use two registers of w bits.        *)

MULU(w, f, s, d) == Logical(f, 2 * w, s * d)
MULS(w, f, s, d) == Logical(f, 2 * w, Signed(w, s) * Signed(w, d))

\* The product is put together from those of the halves.
Half(w, a) == <<Mask(w \div 2, a), a \div 2^(w \div 2)>>
\* Mutant: the carry of the middle products is forgotten.
ProductNoCarry(w, a, b) ==
    LET h == 2^(w \div 2)
        r(i, j) == Half(w, a)[i] * Half(w, b)[j]
        low(x) == Mask(w \div 2, x)
    IN  [lo |-> Mask(w, r(1, 1) + low(r(1, 2)) * h + low(r(2, 1)) * h),
         hi |-> Mask(w, r(2, 2) + (r(1, 2) \div h) + (r(2, 1) \div h))]
Product(w, a, b) ==
    LET h == 2^(w \div 2)
        r(i, j) == Half(w, a)[i] * Half(w, b)[j]
        low(x) == Mask(w \div 2, x)
    IN  [lo |-> Mask(w, r(1, 1) + low(r(1, 2)) * h + low(r(2, 1)) * h),
         hi |-> Mask(w, r(2, 2) + (r(1, 2) \div h) + (r(2, 1) \div h)
                        + (((r(1, 1) \div h) + low(r(1, 2)) + low(r(2, 1))) \div h))]

NegateTwo(w, p) == [lo |-> Mask(w, -p.lo), hi |-> Mask(w, -p.hi - AsOne(p.lo # 0))]
Absolute(w, a) == IF Msb(w, a) THEN Mask(w, -a) ELSE a

WithSign(w, negative, p) == IF negative THEN NegateTwo(w, p) ELSE p
SignedProduct(w, a, b) == WithSign(w, Msb(w, a) # Msb(w, b), Product(w, Absolute(w, a), Absolute(w, b)))

\* quad: the product has two registers, else the upper one only decides V.
ProductOf(w, f, p, signed, quad) ==
    LET fits == p.hi = IF signed /\ Msb(w, p.lo) THEN 2^w - 1 ELSE 0
    IN  [lo |-> p.lo, hi |-> p.hi,
         ccr |-> IF quad
                 THEN [x |-> f.x, n |-> Msb(w, p.hi), z |-> p.hi = 0 /\ p.lo = 0,
                       v |-> FALSE, c |-> FALSE]
                 ELSE [x |-> f.x, n |-> Msb(w, p.lo), z |-> p.lo = 0, v |-> ~fits, c |-> FALSE]]
MULL(w, f, s, d, signed, quad) ==
    ProductOf(w, f, IF signed THEN SignedProduct(w, s, d) ELSE Product(w, s, d), signed, quad)

\* Quotients are rounded towards zero, as in C.
Quotient(a, b) == LET q == Magnitude(a) \div Magnitude(b)
                  IN  IF (a < 0) # (b < 0) THEN -q ELSE q
Remainder(a, b) == a - b * Quotient(a, b)

\* A quotient that does not fit leaves the dividend d, of 2 * w bits.
Overflow(f, d) == [res |-> d, ccr |-> [f EXCEPT !.v = TRUE]]
Divided(w, f, q, r) ==
    [res |-> Mask(w, q) + Mask(w, r) * 2^w, ccr |-> Logical(f, w, q).ccr]

DIVU(w, f, s, d) ==
    IF d \div s < 2^w THEN Divided(w, f, d \div s, d % s) ELSE Overflow(f, d)

DIVS(w, f, s, d) ==
    LET a == Signed(2 * w, d)
        b == Signed(w, s)
        q == Quotient(a, b)
    IN  CASE a = -(2^(2 * w - 1)) /\ b = -1 ->
                 [res |-> 0, ccr |-> [x |-> f.x, n |-> FALSE, z |-> TRUE, v |-> FALSE, c |-> FALSE]]
          [] OTHER -> IF q = Signed(w, q) THEN Divided(w, f, q, Remainder(a, b)) ELSE Overflow(f, d)

\* One step of the long division: the next bit of the dividend is shifted into
\* the remainder, which may lose its top bit by that.
DivideStep(w, s, a, bit, overflow) ==
    LET r == Mask(w, 2 * a.r + bit)
    IN  IF r >= s \/ overflow THEN [q |-> 2 * a.q + 1, r |-> Mask(w, r - s)]
                              ELSE [q |-> 2 * a.q, r |-> r]
DividendBit(w, p, i) == AsOne(IF i <= w THEN Bit(p.hi, w - i) ELSE Bit(p.lo, 2 * w - i))
\* Two loops; the first one does not look at the lost bit.
LongDivide(w, s, p) ==
    LET steps[i \in 0 .. 2 * w] ==
            IF i = 0 THEN [q |-> 0, r |-> 0]
            ELSE DivideStep(w, s, steps[i - 1], DividendBit(w, p, i), i > w /\ Msb(w, steps[i - 1].r))
    IN  steps[2 * w]

DividedLong(w, f, q, r) ==
    [quotient |-> Mask(w, q), remainder |-> Mask(w, r), ccr |-> Logical(f, w, q).ccr]
OverflowLong(f, p) == [quotient |-> p.lo, remainder |-> p.hi, ccr |-> [f EXCEPT !.v = TRUE]]

\* a, with signs; a quotient -2^(w - 1) is taken for an overflow.
QuotientOf(w, f, p, a, signed, opposite, negative) ==
    IF signed /\ a.q > 2^(w - 1) - 1 THEN OverflowLong(f, p)
    ELSE DividedLong(w, f, IF opposite THEN -a.q ELSE a.q, IF negative THEN -a.r ELSE a.r)
DivideUnsigned(w, f, p, divisor, dividend, signed, opposite, negative) ==
    IF dividend.hi >= divisor THEN OverflowLong(f, p)
    ELSE QuotientOf(w, f, p, LongDivide(w, divisor, dividend), signed, opposite, negative)

\* The dividend p of two registers by s.
DIVL(w, f, s, p, signed) ==
    LET negative == signed /\ Msb(w, p.hi)
    IN  IF signed /\ p.hi = 0 /\ p.lo = 2^(w - 1) /\ s = 2^w - 1 THEN DividedLong(w, f, p.lo, 0)
        ELSE DivideUnsigned(w, f, p, IF signed THEN Absolute(w, s) ELSE s, WithSign(w, negative, p),
                            signed, negative # (signed /\ Msb(w, s)), negative)

\* The dividend d of one register by s; the remainder has another register.
DIVL_32(w, f, s, d, signed) ==
    IF signed THEN LET a == Signed(w, d)
                       b == Signed(w, s)
                   IN  IF a = -(2^(w - 1)) /\ b = -1 THEN DividedLong(w, f, d, 0)
                       ELSE DividedLong(w, f, Quotient(a, b), Remainder(a, b))
              ELSE DividedLong(w, f, d \div s, d % s)
=============================================================================
