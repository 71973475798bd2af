-------------------------- MODULE M68kRoutines_proofs --------------------------
(***************************************************************************)
(* More proofs about module M68kGuest, for words and longs of any width:   *)
(* products and quotients are those of the integers, also where the code   *)
(* puts them together from halves, bit by bit, or in a loop of the guest.  *)
(***************************************************************************)
EXTENDS M68kGuest_proofs

-----------------------------------------------------------------------------
(* Quotients                                                               *)

\* The quotient of two magnitudes, with the signs that belong to it.
LEMMA SignsOfQuotient ==
    ASSUME NEW n \in Int, NEW s \in Int \ {0}, NEW q \in Nat, NEW r \in Nat,
           Magnitude(n) = q * Magnitude(s) + r, r < Magnitude(s)
    PROVE  LET Q == IF (n < 0) # (s < 0) THEN -q ELSE q
               R == IF n < 0 THEN -r ELSE r
           IN  Quotient(n, s) = Q /\ Remainder(n, s) = R /\ IsQuotient(Q, R, n, s)
<1> DEFINE N == Magnitude(n)
           S == Magnitude(s)
           Q == IF (n < 0) # (s < 0) THEN -q ELSE q
           R == IF n < 0 THEN -r ELSE r
           p == q * S
<1>1. S \in Nat \ {0} /\ N \in Nat /\ (N = IF n < 0 THEN -n ELSE n) /\ (S = IF s < 0 THEN -s ELSE s)
  BY DEF Magnitude
<1>2. N \div S = q
  <2> HIDE DEF N, S
  <2>1. r \in 0 .. S - 1 /\ N = q * S + r /\ q \in Int /\ S \in Nat \ {0}
    BY <1>1 DEF N, S
  <2> HIDE DEF Magnitude
  <2> QED BY <2>1, DivisionIs
<1>3. Quotient(n, s) = Q
  BY <1>2 DEF Quotient
<1>4. s * Q = IF n < 0 THEN -p ELSE p
  <2>1. CASE s < 0
    <3>1. S = -s
      BY <1>1, <2>1
    <3>2. p = -(s * q) /\ s * (-q) = -(s * q)
      BY <3>1, Z3
    <3> HIDE DEF p, S
    <3>3. s * q \in Int
      BY Z3
    <3>4. (s < 0) = TRUE
      BY <2>1
    <3> QED BY <3>2, <3>3, <3>4
  <2>2. CASE ~(s < 0)
    <3>1. S = s
      BY <1>1, <2>2
    <3>2. p = s * q /\ s * (-q) = -(s * q)
      BY <3>1, Z3
    <3> HIDE DEF p, S
    <3>3. s * q \in Int
      BY Z3
    <3>4. (s < 0) = FALSE
      BY <2>2
    <3> QED BY <3>2, <3>3, <3>4
  <2> QED BY <2>1, <2>2
<1>5. p \in Int /\ N = p + r
  BY <1>1, Z3
<1>6. n = s * Q + R /\ n - s * Q = R
  <2> DEFINE t == s * Q
  <2>1. t = (IF n < 0 THEN -p ELSE p) /\ t \in Int
    BY <1>4, <1>5
  <2> HIDE DEF p, S, N, t
  <2>2. n = t + R /\ n - t = R
    BY <1>1, <1>5, <2>1
  <2> QED BY <2>2 DEF t
<1>7. Magnitude(R) < S /\ (R = 0 \/ (R < 0) = (n < 0))
  BY DEF Magnitude
<1> QED BY <1>3, <1>6, <1>7 DEF IsQuotient, Remainder

\* What C computes is a quotient and its rest.
LEMMA QuotientIs ==
    ASSUME NEW n \in Int, NEW s \in Int \ {0}
    PROVE  /\ Quotient(n, s) \in Int /\ Remainder(n, s) \in Int
           /\ IsQuotient(Quotient(n, s), Remainder(n, s), n, s)
           /\ Magnitude(Quotient(n, s)) = Magnitude(n) \div Magnitude(s)
           /\ Quotient(n, s) = IF (n < 0) # (s < 0) THEN -(Magnitude(n) \div Magnitude(s))
                                                    ELSE Magnitude(n) \div Magnitude(s)
<1> DEFINE N == Magnitude(n)
           S == Magnitude(s)
           q == N \div S
           r == N % S
<1>1. S \in Nat \ {0} /\ N \in Nat
  BY DEF Magnitude
<1>2. q \in Nat /\ r \in Nat /\ r < S /\ N = q * S + r
  <2> HIDE DEF N, S
  <2>1. q \in Int /\ r \in 0 .. S - 1 /\ N = q * S + r
    BY <1>1, DivisionOf
  <2>2. q >= 0
    BY <1>1, DivisionOf
  <2> HIDE DEF q, r
  <2> QED BY <1>1, <2>1, <2>2
<1> DEFINE Q == IF (n < 0) # (s < 0) THEN -q ELSE q
           R == IF n < 0 THEN -r ELSE r
<1>3. Quotient(n, s) = Q /\ Remainder(n, s) = R /\ IsQuotient(Q, R, n, s)
  <2> HIDE DEF q, r
  <2> QED BY <1>2, SignsOfQuotient
<1>4. Q \in Int /\ R \in Int /\ Magnitude(Q) = q
  <2> HIDE DEF q, r
  <2> QED BY <1>2 DEF Magnitude
<1> QED BY <1>3, <1>4

LEMMA NaturalDivision ==
    ASSUME NEW m \in Nat \ {0}, NEW n \in Nat
    PROVE  n \div m \in Nat /\ n % m \in 0 .. m - 1 /\ n = (n \div m) * m + (n % m)
<1> DEFINE q == n \div m
           r == n % m
<1>1. q \in Int /\ r \in 0 .. m - 1 /\ n = q * m + r
  BY DivisionOf
<1>2. q >= 0
  <2>1. n \in Int /\ n >= 0
    OBVIOUS
  <2> QED BY <2>1, DivisionOf
<1> HIDE DEF q, r
<1>3. q \in Nat
  BY <1>1, <1>2
<1> QED BY <1>1, <1>3 DEF q, r

\* Without signs it is that of the numbers.
LEMMA NaturalQuotient ==
    ASSUME NEW n \in Nat, NEW s \in Nat \ {0}
    PROVE  /\ Quotient(n, s) = n \div s /\ Remainder(n, s) = n % s
           /\ IsQuotient(n \div s, n % s, n, s)
<1> DEFINE q == n \div s
           r == n % s
<1>1. q \in Nat /\ r \in 0 .. s - 1 /\ n = q * s + r
  BY NaturalDivision
<1>2. Magnitude(n) = n /\ Magnitude(s) = s /\ ~(n < 0) /\ ~(s < 0)
  BY DEF Magnitude
<1> HIDE DEF q, r
<1>3. r \in Nat /\ r < s /\ n \in Int /\ s \in Int \ {0}
  BY <1>1
<1> DEFINE Q == IF (n < 0) # (s < 0) THEN -q ELSE q
           R == IF n < 0 THEN -r ELSE r
<1>4. Magnitude(n) = q * Magnitude(s) + r /\ r < Magnitude(s)
  BY <1>1, <1>2, <1>3
<1>5. Quotient(n, s) = Q /\ Remainder(n, s) = R /\ IsQuotient(Q, R, n, s)
  BY <1>1, <1>3, <1>4, SignsOfQuotient
<1>6. Q = q /\ R = r
  BY <1>2
<1> HIDE DEF Q, R
<1> QED BY <1>5, <1>6 DEF q, r

\* Instructions that move, and those that multiply and divide, clear V and C.
LEMMA LogicalIs ==
    ASSUME NEW f, NEW w, NEW r
    PROVE  /\ Logical(f, w, r).res = Mask(w, r)
           /\ Logical(f, w, r).ccr =
                  [x |-> f.x, n |-> Msb(w, r), z |-> Mask(w, r) = 0, v |-> FALSE, c |-> FALSE]
  BY DEF Logical, Arithmetic

\* A quotient and a rest in the two halves of a register.
LEMMA HalvesOf ==
    ASSUME NEW M \in Nat \ {0}, NEW q \in 0 .. M - 1, NEW r \in 0 .. M - 1, NEW n, n = q + r * M
    PROVE  n \in 0 .. M * M - 1 /\ n % M = q /\ n \div M = r
<1>1. r * M \in Int /\ n = r * M + q /\ n \in Int
  BY Z3
<1>2. n % M = q /\ n \div M = r
  BY <1>1, DivisionIs
<1>3. (r * M + q < M * M) <=> (r < M)
  BY SameSide
<1>4. (r * M + q < 0 * M) <=> (r < 0)
  BY SameSide
<1>5. M * M \in Int /\ 0 * M = 0
  BY Z3
<1> QED BY <1>1, <1>2, <1>3, <1>4, <1>5

LEMMA DividedHalves ==
    ASSUME NEW w, HasSign(w), 2^(2 * w) = 2^w * 2^w, NEW f, NEW q \in Int, NEW r \in Int
    PROVE  LET a == Divided(w, f, q, r)
           IN  /\ a.res \in Unsigned(2 * w) /\ ~a.ccr.v
               /\ a.res % 2^w = q % 2^w /\ a.res \div 2^w = r % 2^w
<1> DEFINE M == 2^w
           a == Divided(w, f, q, r)
<1>1. M \in Nat \ {0} /\ q % M \in 0 .. M - 1 /\ r % M \in 0 .. M - 1
  BY SignedOfAny DEF HasSign, Unsigned
<1>2. a.res = (q % M) + (r % M) * M /\ a.ccr = Logical(f, w, q).ccr
  BY DEF Divided, Mask
<1>3. ~a.ccr.v
  <2> HIDE DEF a
  <2>1. a.ccr = [x |-> f.x, n |-> Msb(w, q), z |-> Mask(w, q) = 0, v |-> FALSE, c |-> FALSE]
    BY <1>2, LogicalIs
  <2> QED BY <2>1
<1> DEFINE e == q % M
           g == r % M
<1> HIDE DEF a, M, e, g
<1>4. a.res \in 0 .. M * M - 1 /\ a.res % M = e /\ a.res \div M = g
  <2>1. e \in 0 .. M - 1 /\ g \in 0 .. M - 1 /\ a.res = e + g * M
    BY <1>1, <1>2 DEF e, g
  <2> QED BY <1>1, <2>1, HalvesOf
<1> QED BY <1>3, <1>4 DEF Unsigned, a, M, e, g

\* DIVU and DIVS: quotient and rest, or the dividend with V.
LEMMA DivuIs ==
    ASSUME NEW w, HasSign(w), 2^(2 * w) = 2^w * 2^w, NEW f,
           NEW s \in Unsigned(w) \ {0}, NEW n \in Unsigned(2 * w), f \in Flags
    PROVE  LET a == DIVU(w, f, s, n)
           IN  /\ a.res \in Unsigned(2 * w)
               /\ Quotient(n, s) \in Unsigned(w) =>
                      ~a.ccr.v /\ IsQuotient(a.res % 2^w, a.res \div 2^w, n, s)
               /\ Quotient(n, s) \notin Unsigned(w) => a.ccr.v /\ a.res = n
<1> DEFINE M == 2^w
           q == n \div s
           r == n % s
           a == DIVU(w, f, s, n)
<1>1. M \in Nat \ {0} /\ n \in 0 .. M * M - 1 /\ s \in 1 .. M - 1 /\ M * M \in Int
  <2>1. M \in Nat \ {0} /\ n \in 0 .. M * M - 1 /\ s \in 1 .. M - 1
    BY DEF Unsigned, HasSign
  <2> QED BY <2>1, Z3
<1>2. n \in Nat /\ s \in Nat \ {0}
  <2> HIDE DEF M
  <2> QED BY <1>1
<1>3. q \in Nat /\ r \in 0 .. s - 1
  BY <1>2, NaturalDivision
<1>4. Quotient(n, s) = q /\ Remainder(n, s) = r /\ IsQuotient(q, r, n, s)
  BY <1>2, NaturalQuotient
<1>5. CASE q < M
  <2>1. a = Divided(w, f, q, r)
    BY <1>5 DEF DIVU
  <2>2. q % M = q /\ r % M = r
    <3> HIDE DEF q, r, M
    <3>1. q \in Int /\ 0 <= q /\ r \in Int /\ 0 <= r /\ r < M
      BY <1>1, <1>3
    <3> QED BY <1>1, <1>5, <3>1, DividedAs
  <2> HIDE DEF q, r
  <2>3. q \in Unsigned(w)
    BY <1>1, <1>3, <1>5 DEF Unsigned
  <2>4. q \in Int /\ r \in Int
    BY <1>2, <1>3
  <2> HIDE DEF a
  <2>5. /\ a.res \in Unsigned(2 * w) /\ ~a.ccr.v
        /\ a.res % M = q % M /\ a.res \div M = r % M
    BY <2>1, <2>4, DividedHalves
  <2> QED BY <1>4, <2>2, <2>3, <2>5 DEF a
<1>6. CASE ~(q < M)
  <2>1. a = Overflow(f, n)
    BY <1>6 DEF DIVU
  <2>2. a.res = n /\ a.ccr.v = TRUE
    <3> HIDE DEF a
    <3> QED BY <2>1 DEF Overflow, Flags
  <2>3. q \notin Unsigned(w)
    <3> HIDE DEF q
    <3> QED BY <1>1, <1>6 DEF Unsigned
  <2> QED BY <1>4, <2>2, <2>3
<1> QED BY <1>5, <1>6

LEMMA MagnitudeOfNegative == \A k \in Nat \ {0} : Magnitude(-k) = k /\ -k < 0 /\ -k \in Int
  BY DEF Magnitude

\* A number whose sign and size fit a register is what the register stands for.
LEMMA RestFits ==
    ASSUME NEW w, HasSign(w), NEW r \in Int, NEW b \in Int, InRange(w, b),
           Magnitude(r) < Magnitude(b)
    PROVE  InRange(w, r)
<1> DEFINE H == 2^(w - 1)
<1>1. H \in Nat \ {0} /\ b \in -H .. H - 1
  BY DEF HasSign, InRange
<1>2. Magnitude(r) \in {r, -r} /\ Magnitude(r) >= 0 /\ Magnitude(b) \in {b, -b}
  BY DEF Magnitude
<1>3. Magnitude(r) >= r /\ Magnitude(r) >= -r
  BY DEF Magnitude
<1> DEFINE R == Magnitude(r)
           B == Magnitude(b)
<1>4. R \in Int /\ B \in {b, -b} /\ R >= r /\ R >= -r /\ R < B
  BY <1>2, <1>3
<1>5. r \in -H .. H - 1
  <2> HIDE DEF H, R, B
  <2> QED BY <1>1, <1>4
<1> QED BY <1>5 DEF InRange

LEMMA DivsIs ==
    ASSUME NEW w, HasSign(w), HasSign(2 * w), 2^(2 * w) = 2^w * 2^w, NEW f \in Flags,
           NEW s \in Unsigned(w) \ {0}, NEW t \in Unsigned(2 * w)
    PROVE  LET a == DIVS(w, f, s, t)
               n == Signed(2 * w, t)
               b == Signed(w, s)
           IN  /\ a.res \in Unsigned(2 * w)
               /\ InRange(w, Quotient(n, b)) =>
                      ~a.ccr.v /\ IsQuotient(Signed(w, a.res % 2^w), Signed(w, a.res \div 2^w), n, b)
               /\ ~InRange(w, Quotient(n, b)) =>
                      (a.ccr.v /\ a.res = t) \/ (n = -(2^(2 * w - 1)) /\ b = -1)
<1> DEFINE M == 2^w
           H == 2^(w - 1)
           L == 2^(2 * w - 1)
           n == Signed(2 * w, t)
           b == Signed(w, s)
           q == Quotient(n, b)
           r == Remainder(n, b)
           a == DIVS(w, f, s, t)
<1>1. H \in Nat \ {0} /\ M = 2 * H /\ M \in Nat \ {0} /\ L \in Nat \ {0} /\ 2 * L = M * M
  BY DEF HasSign
<1>2. L >= M
  <2> HIDE DEF M, H, L
  <2>1. M * M = 2 * (H * M) /\ H * M \in Nat
    BY <1>1, Z3
  <2>2. H * M >= M
    BY <1>1, Z3
  <2>3. L = H * M
    BY <1>1, <2>1
  <2> QED BY <2>2, <2>3
<1>3. n \in Int /\ n \in -L .. L - 1 /\ b \in Int \ {0} /\ b \in -H .. H - 1
  <2>1. b = IF s >= H THEN s - M ELSE s
    BY SignedIs
  <2>2. s \in 1 .. M - 1
    BY <1>1 DEF Unsigned
  <2>3. InRange(2 * w, n) /\ InRange(w, b)
    BY SignedIs
  <2>4. n \in -L .. L - 1 /\ b \in -H .. H - 1
    BY <2>3 DEF InRange
  <2> HIDE DEF M, H, L, n, b
  <2> QED BY <1>1, <2>1, <2>2, <2>4
<1>4. /\ q \in Int /\ r \in Int /\ IsQuotient(q, r, n, b)
      /\ q = IF (n < 0) # (b < 0) THEN -(Magnitude(n) \div Magnitude(b))
                                  ELSE Magnitude(n) \div Magnitude(b)
  <2> HIDE DEF n, b
  <2> QED BY <1>3, QuotientIs
<1>5. (q = Signed(w, q)) <=> InRange(w, q)
  <2> HIDE DEF q
  <2> QED BY <1>4, SignedOfAny
<1>6. InRange(w, r)
  <2>1. Magnitude(r) < Magnitude(b)
    BY <1>4 DEF IsQuotient
  <2>2. InRange(w, b)
    BY <1>3 DEF InRange
  <2> HIDE DEF r, b
  <2> QED BY <1>3, <1>4, <2>1, <2>2, RestFits
<1>7. CASE n = -L /\ b = -1
  <2>1. ~InRange(w, q)
    <3> HIDE DEF L, n, b
    <3>1. L \in Nat \ {0} /\ n = -L /\ b = -1
      BY <1>1, <1>7
    <3>2. Magnitude(n) = L /\ Magnitude(b) = 1 /\ n < 0 /\ b < 0
      BY <3>1, MagnitudeOfNegative
    <3>3. L \div 1 = L
      BY <1>1
    <3>4. (n < 0) = (b < 0)
      BY <3>2
    <3>5. q = L
      BY <1>4, <3>2, <3>3, <3>4
    <3> HIDE DEF q
    <3>6. ~(q \in -H .. H - 1)
      <4> HIDE DEF M, H
      <4> QED BY <1>1, <1>2, <3>5
    <3> QED BY <3>6 DEF InRange
  <2>2. a.res = 0
    BY <1>7 DEF DIVS
  <2>3. 0 \in Unsigned(2 * w)
    <3>1. L \in Nat \ {0} /\ 2^(2 * w) = 2 * L
      BY DEF HasSign
    <3> HIDE DEF L
    <3> QED BY <3>1 DEF Unsigned
  <2> QED BY <1>7, <2>1, <2>2, <2>3
<1>8. CASE ~(n = -L /\ b = -1) /\ InRange(w, q)
  <2>1. a = Divided(w, f, q, r)
    BY <1>5, <1>8 DEF DIVS
  <2> HIDE DEF a
  <2>2. /\ a.res \in Unsigned(2 * w) /\ ~a.ccr.v
        /\ a.res % M = q % M /\ a.res \div M = r % M
    <3> HIDE DEF q, r
    <3> QED BY <1>4, <2>1, DividedHalves
  <2>3. Signed(w, q % M) = q /\ Signed(w, r % M) = r
    <3> HIDE DEF q, r
    <3> QED BY <1>4, <1>6, <1>8, SignedOfAny
  <2> HIDE DEF q, r, n, b
  <2> QED BY <1>4, <1>8, <2>2, <2>3 DEF a, q, r, n, b
<1>9. CASE ~(n = -L /\ b = -1) /\ ~InRange(w, q)
  <2>1. a = Overflow(f, t)
    BY <1>5, <1>9 DEF DIVS
  <2> HIDE DEF a
  <2>2. a.res = t /\ a.ccr.v = TRUE
    BY <2>1 DEF Overflow, Flags
  <2> QED BY <1>9, <2>2 DEF a
<1> QED BY <1>7, <1>8, <1>9

-----------------------------------------------------------------------------
(* Products                                                                *)

\* A half of a register has w \div 2 bits.
HasHalves(w) == HasSign(w) /\ 2^(w \div 2) \in Nat \ {0} /\ 2^w = 2^(w \div 2) * 2^(w \div 2)

\* The product of two numbers, put together from those of their halves; what
\* carries from the lower half to the upper one is not lost.
LowOf(h, u, v, s, t) == ((v * t) + ((v * s) % h) * h + ((u * t) % h) * h) % (h * h)
HighOf(h, u, v, s, t) ==
    ((u * s) + ((v * s) \div h) + ((u * t) \div h))
    + ((((v * t) \div h) + ((v * s) % h) + ((u * t) % h)) \div h)

LEMMA ProductOfHalves ==
    ASSUME NEW h \in Nat \ {0},
           NEW u \in 0 .. h - 1, NEW v \in 0 .. h - 1, NEW s \in 0 .. h - 1, NEW t \in 0 .. h - 1
    PROVE  /\ HighOf(h, u, v, s, t) \in Int /\ LowOf(h, u, v, s, t) \in 0 .. h * h - 1
           /\ HighOf(h, u, v, s, t) * (h * h) + LowOf(h, u, v, s, t) = (u * h + v) * (s * h + t)
<1> DEFINE M == h * h
           c == ((v * t) \div h) + ((v * s) % h) + ((u * t) % h)
           lo == ((v * t) + ((v * s) % h) * h + ((u * t) % h) * h) % M
           hi == ((u * s) + ((v * s) \div h) + ((u * t) \div h)) + (c \div h)
           ab == (u * h + v) * (s * h + t)
<1> DEFINE r11 == v * t
           r12 == v * s
           r21 == u * t
           r22 == u * s
           p11 == r11 \div h
           p12 == r12 \div h
           p21 == r21 \div h
           l11 == r11 % h
           l12 == r12 % h
           l21 == r21 % h
           k == c \div h
           g == c % h
<1>0. M = h * h
  OBVIOUS
<1>1. r11 \in Int /\ r12 \in Int /\ r21 \in Int /\ r22 \in Int
  BY Z3
<1>2. ab = ((r22 * M + r12 * h) + r21 * h) + r11
  BY Z3
<1>3. M \in Nat \ {0} /\ M \in Int
  BY Z3
<1>4. c = p11 + l12 + l21 /\ lo = (r11 + l12 * h + l21 * h) % M /\ hi = (r22 + p12 + p21) + k
  OBVIOUS
<1> HIDE DEF r11, r12, r21, r22, c, lo, hi, ab, M
<1>5. p11 \in Int /\ l11 \in 0 .. h - 1 /\ r11 = p11 * h + l11
  BY <1>1, DivisionOf
<1>6. p12 \in Int /\ l12 \in 0 .. h - 1 /\ r12 = p12 * h + l12
  BY <1>1, DivisionOf
<1>7. p21 \in Int /\ l21 \in 0 .. h - 1 /\ r21 = p21 * h + l21
  BY <1>1, DivisionOf
<1> HIDE DEF p11, p12, p21, l11, l12, l21
<1>8. c \in Int
  BY <1>4, <1>5, <1>6, <1>7
<1>9. k \in Int /\ g \in 0 .. h - 1 /\ c = k * h + g
  BY <1>8, DivisionOf
<1> HIDE DEF k, g
<1>10. r11 + l12 * h + l21 * h = k * M + (g * h + l11)
  <2>1. r11 + l12 * h + l21 * h = (p11 + l12 + l21) * h + l11
    BY <1>5, <1>6, <1>7, Z3
  <2>2. r11 + l12 * h + l21 * h = c * h + l11
    BY <1>4, <2>1
  <2>3. c * h = k * M + g * h
    <3>1. k \in Int /\ g \in Int /\ c = k * h + g
      BY <1>9
    <3>2. (k * h + g) * h = k * (h * h) + g * h
      BY <3>1, Z3
    <3> QED BY <1>0, <3>1, <3>2
  <2>4. k * M \in Int /\ g * h \in Int /\ c * h \in Int /\ l11 \in Int
    BY <1>3, <1>5, <1>8, <1>9, Z3
  <2> DEFINE x == k * M
             y == g * h
             z == c * h
             e == r11 + l12 * h + l21 * h
  <2>5. x \in Int /\ y \in Int /\ z \in Int /\ e = z + l11 /\ z = x + y
    BY <2>2, <2>3, <2>4
  <2> HIDE DEF x, y, z, e
  <2>6. e = x + (y + l11)
    BY <2>4, <2>5
  <2> QED BY <2>6 DEF x, y, e
<1>11. g * h + l11 \in 0 .. M - 1
  <2> DEFINE n == l11 + g * h
  <2>1. n \in 0 .. h * h - 1
    BY <1>5, <1>9, HalvesOf DEF M
  <2>2. g * h + l11 = l11 + g * h
    BY <1>5, <1>9, Z3
  <2> QED BY <1>0, <2>1, <2>2
<1>12. lo = g * h + l11
  <2> DEFINE n == r11 + l12 * h + l21 * h
             y == g * h + l11
  <2>1. y \in 0 .. M - 1 /\ n = k * M + y
    BY <1>10, <1>11
  <2>2. k \in Int
    BY <1>9
  <2> HIDE DEF n, y
  <2>3. n % M = y
    BY <1>3, <2>1, <2>2, DivisionIs
  <2> QED BY <1>4, <2>3 DEF n, y
<1>13. hi \in Int
  BY <1>1, <1>4, <1>6, <1>7, <1>9
<1>14. hi * M = r22 * M + p12 * M + p21 * M + k * M
  <2>1. r22 \in Int /\ p12 \in Int /\ p21 \in Int /\ k \in Int
    BY <1>1, <1>6, <1>7, <1>9
  <2>2. ((r22 + p12 + p21) + k) * M = r22 * M + p12 * M + p21 * M + k * M
    BY <1>3, <2>1, Z3
  <2> QED BY <1>4, <2>2
<1>15. r12 * h = p12 * M + l12 * h /\ r21 * h = p21 * M + l21 * h
  BY <1>6, <1>7, <1>0, Z3
<1>16. hi * M + lo = ab
  <2> DEFINE x22 == r22 * M
             x12 == p12 * M
             x21 == p21 * M
             xk == k * M
             y12 == l12 * h
             y21 == l21 * h
             z12 == r12 * h
             z21 == r21 * h
             xh == hi * M
  <2>1. /\ x22 \in Int /\ x12 \in Int /\ x21 \in Int /\ xk \in Int /\ y12 \in Int /\ y21 \in Int
        /\ lo \in Int
    BY <1>1, <1>3, <1>5, <1>6, <1>7, <1>9, <1>12, Z3
  <2>2. /\ xh = x22 + x12 + x21 + xk /\ z12 = x12 + y12 /\ z21 = x21 + y21
        /\ ab = ((x22 + z12) + z21) + r11 /\ r11 + y12 + y21 = xk + lo
    BY <1>2, <1>10, <1>12, <1>14, <1>15
  <2> HIDE DEF x22, x12, x21, xk, y12, y21, z12, z21, xh
  <2>3. xh + lo = x22 + x12 + x21 + (xk + lo)
    BY <2>1, <2>2
  <2>4. ab = x22 + x12 + x21 + (r11 + y12 + y21)
    BY <1>1, <2>1, <2>2
  <2>5. xh + lo = ab
    BY <2>2, <2>3, <2>4
  <2> QED BY <2>5 DEF xh
<1>17. lo \in 0 .. M - 1
  BY <1>11, <1>12
<1> QED BY <1>13, <1>16, <1>17 DEF c, lo, hi, ab, M, LowOf, HighOf

\* A product of magnitudes has two registers.
LEMMA ProductBound ==
    ASSUME NEW m \in Nat, NEW a \in 0 .. m, NEW b \in 0 .. m
    PROVE  a * b \in 0 .. m * m
<1>1. a * b >= 0
  BY Z3
<1>2. a * b <= m * b
  <2>1. m * b - a * b = (m - a) * b /\ (m - a) * b >= 0
    BY Z3
  <2> QED BY <2>1
<1>3. m * b <= m * m
  <2>1. m * m - m * b = m * (m - b) /\ m * (m - b) >= 0
    BY Z3
  <2> QED BY <2>1
<1>4. a * b \in Int /\ m * b \in Int /\ m * m \in Int
  BY Z3
<1> QED BY <1>1, <1>2, <1>3, <1>4

LEMMA ProductIs ==
    ASSUME NEW w, HasHalves(w), NEW a \in Unsigned(w), NEW b \in Unsigned(w)
    PROVE  LET p == Product(w, a, b)
           IN  p.hi \in Unsigned(w) /\ p.lo \in Unsigned(w) /\ p.hi * 2^w + p.lo = a * b
<1> DEFINE h == 2^(w \div 2)
           M == 2^w
           u == a \div h
           v == a % h
           s == b \div h
           t == b % h
<1>1. h \in Nat \ {0} /\ M = h * h /\ M \in Nat \ {0} /\ a \in 0 .. M - 1 /\ b \in 0 .. M - 1
  BY DEF HasHalves, HasSign, Unsigned
<1>2. \A n \in 0 .. M - 1 : n \div h \in 0 .. h - 1 /\ n % h \in 0 .. h - 1 /\ n = (n \div h) * h + (n % h)
  <2> TAKE n \in 0 .. M - 1
  <2> HIDE DEF h, M
  <2> DEFINE q == n \div h
  <2>1. n \in Nat /\ n \in Int /\ h \in Nat \ {0}
    BY <1>1
  <2>2. q \in Nat /\ n % h \in 0 .. h - 1 /\ n = q * h + (n % h)
    BY <2>1, NaturalDivision
  <2>3. \A k \in Int : (n < k * h) <=> (q < k)
    BY <2>1, DivisionOf
  <2>4. n < h * h /\ h \in Int
    BY <1>1
  <2>5. q < h
    BY <2>3, <2>4
  <2> HIDE DEF q
  <2>6. q \in 0 .. h - 1
    BY <2>2, <2>4, <2>5
  <2> QED BY <2>2, <2>6 DEF q
<1>3. /\ u \in 0 .. h - 1 /\ v \in 0 .. h - 1 /\ a = u * h + v
      /\ s \in 0 .. h - 1 /\ t \in 0 .. h - 1 /\ b = s * h + t
  BY <1>1, <1>2
<1> DEFINE lo == LowOf(h, u, v, s, t)
           hi == HighOf(h, u, v, s, t)
           p == Product(w, a, b)
<1>4. p.lo = lo /\ p.hi = hi % M
  <2>1. p.hi = hi % M
    BY DEF Product, Half, Mask, HighOf
  <2>2. p.lo = lo
    BY <1>1 DEF Product, Half, Mask, LowOf
  <2> QED BY <2>1, <2>2
<1>5. hi \in Int /\ lo \in 0 .. M - 1 /\ hi * M + lo = a * b
  <2> HIDE DEF h, u, v, s, t
  <2>1. hi \in Int /\ lo \in 0 .. h * h - 1 /\ hi * (h * h) + lo = (u * h + v) * (s * h + t)
    <3>1. /\ h \in Nat \ {0} /\ u \in 0 .. h - 1 /\ v \in 0 .. h - 1
          /\ s \in 0 .. h - 1 /\ t \in 0 .. h - 1
      BY <1>1, <1>3
    <3> QED BY <3>1, ProductOfHalves
  <2> HIDE DEF lo, hi
  <2> QED BY <1>1, <1>3, <2>1
<1> HIDE DEF lo, hi, p
<1>6. hi \in 0 .. M - 1
  <2> HIDE DEF h, M
  <2>1. a * b \in 0 .. (M - 1) * (M - 1)
    BY <1>1, ProductBound
  <2>2. (M - 1) * (M - 1) = M * M - 2 * M + 1
    BY <1>1, Z3
  <2>3. hi * M + lo < M * M /\ ~(hi * M + lo < 0 * M)
    <3>1. M * M \in Int /\ 0 * M = 0 /\ a * b \in Int
      BY <1>1, Z3
    <3> QED BY <1>1, <1>5, <2>1, <2>2, <3>1
  <2>4. hi < M /\ ~(hi < 0)
    BY <1>1, <1>5, <2>3, SameSide
  <2> QED BY <1>1, <1>5, <2>4
<1>7. hi % M = hi
  <2> HIDE DEF M
  <2>1. hi \in Int /\ 0 <= hi /\ hi < M
    BY <1>1, <1>6
  <2> QED BY <1>1, <2>1, DividedAs
<1> QED BY <1>4, <1>5, <1>6, <1>7 DEF Unsigned, p

LEMMA AbsoluteIs ==
    ASSUME NEW w, HasSign(w), NEW a \in Unsigned(w)
    PROVE  /\ Absolute(w, a) = Magnitude(Signed(w, a)) /\ Absolute(w, a) \in 0 .. 2^(w - 1)
           /\ Absolute(w, a) \in Unsigned(w) /\ Signed(w, a) \in Int
           /\ Msb(w, a) <=> (Signed(w, a) < 0)
<1> DEFINE H == 2^(w - 1)
           M == 2^w
<1>1. H \in Nat \ {0} /\ M = 2 * H /\ a \in 0 .. M - 1
  BY DEF HasSign, Unsigned
<1>2. Msb(w, a) = (a >= H) /\ Signed(w, a) = IF a >= H THEN a - M ELSE a
  BY SignedIs
<1>3. CASE a >= H
  <2>1. Signed(w, a) = a - M /\ Msb(w, a)
    BY <1>2, <1>3
  <2>2. Mask(w, -a) = -a + M
    <3>1. -a \in -M .. 2 * M - 1 /\ -a < 0
      <4> HIDE DEF H, M
      <4> QED BY <1>1, <1>3
    <3> QED BY <3>1, MaskIs
  <2>3. Absolute(w, a) = -a + M
    BY <2>1, <2>2 DEF Absolute
  <2> HIDE DEF H, M
  <2>4. a - M < 0 /\ a - M \in Int /\ -(a - M) = -a + M /\ -a + M \in 0 .. H /\ -a + M \in 0 .. M - 1
    BY <1>1, <1>3
  <2>5. Magnitude(Signed(w, a)) = -a + M
    BY <2>1, <2>4 DEF Magnitude
  <2> QED BY <2>1, <2>3, <2>4, <2>5 DEF Unsigned, H, M
<1>4. CASE ~(a >= H)
  <2>1. Signed(w, a) = a /\ ~Msb(w, a)
    BY <1>2, <1>4
  <2>2. Absolute(w, a) = a
    BY <2>1 DEF Absolute
  <2>3. ~(a < 0) /\ a \in Int /\ a \in 0 .. H
    <3> HIDE DEF H, M
    <3> QED BY <1>1, <1>4
  <2>4. Magnitude(Signed(w, a)) = a
    BY <2>1, <2>3 DEF Magnitude
  <2> QED BY <1>1, <2>1, <2>2, <2>3, <2>4 DEF Unsigned
<1> QED BY <1>3, <1>4

\* The pair of registers p, negated.
LEMMA NegateTwoIs ==
    ASSUME NEW w, HasSign(w), NEW p, p.lo \in Unsigned(w), p.hi \in Unsigned(w)
    PROVE  LET n == NegateTwo(w, p)
           IN  /\ n.lo \in Unsigned(w) /\ n.hi \in Unsigned(w)
               /\ n.hi * 2^w + n.lo = (-(p.hi * 2^w + p.lo)) % (2^w * 2^w)
<1> DEFINE M == 2^w
           lo == p.lo
           hi == p.hi
           n == NegateTwo(w, p)
           c == AsOne(p.lo # 0)
<1>1. M \in Nat \ {0} /\ lo \in 0 .. M - 1 /\ hi \in 0 .. M - 1
  BY DEF HasSign, Unsigned
<1>2. n.lo = (-lo) % M /\ n.hi = (-hi - c) % M
  BY DEF NegateTwo, Mask
<1>3. c = IF lo = 0 THEN 0 ELSE 1
  BY DEF AsOne
<1> HIDE DEF M, lo, hi, n, c
<1> DEFINE l == IF lo = 0 THEN 0 ELSE M - lo
           h == -hi - c
<1>4. l \in 0 .. M - 1 /\ h \in Int
  BY <1>1, <1>3
<1>5. (-lo) % M = l
  <2>1. CASE lo = 0
    <3>1. -lo \in Int /\ 0 <= -lo /\ -lo <= 0 /\ -lo < M
      BY <1>1, <2>1
    <3>2. (-lo) % M = -lo
      BY <1>1, <3>1, DividedAs
    <3>3. -lo = 0
      BY <3>1
    <3> QED BY <2>1, <3>2, <3>3
  <2>2. CASE lo # 0
    <3>1. -lo \in Int /\ -M <= -lo /\ -lo < 0
      BY <1>1, <2>2
    <3>2. (-lo) % M = (-lo) + M
      BY <1>1, <3>1, DividedAs
    <3> QED BY <1>1, <2>2, <3>2
  <2> QED BY <2>1, <2>2
<1>6. -(hi * M + lo) = h * M + l
  <2>1. CASE lo = 0
    <3>1. h = -hi /\ l = 0
      BY <1>1, <1>3, <2>1
    <3>2. (-hi) * M = -(hi * M) /\ hi * M \in Int
      BY <1>1, Z3
    <3> QED BY <2>1, <3>1, <3>2
  <2>2. CASE lo # 0
    <3>1. h = -hi - 1 /\ l = M - lo
      BY <1>1, <1>3, <2>2
    <3>2. (-hi - 1) * M = -(hi * M) - M /\ hi * M \in Int
      BY <1>1, Z3
    <3> DEFINE x == hi * M
               y == h * M
    <3>3. x \in Int /\ y = -x - M
      BY <3>1, <3>2
    <3> HIDE DEF x, y
    <3>4. -(x + lo) = y + (M - lo)
      BY <1>1, <3>3
    <3> QED BY <3>1, <3>4 DEF x, y
  <2> QED BY <2>1, <2>2
<1>7. n.lo = l /\ n.hi = h % M
  BY <1>2, <1>5
<1>8. (h * M + l) % (M * M) = (h % M) * M + l
  <2> HIDE DEF h, l
  <2> QED BY <1>1, <1>4, UpperCut
<1>9. h % M \in 0 .. M - 1
  <2> HIDE DEF h
  <2> QED BY <1>1, <1>4, DivisionOf
<1>10. n.hi * M + n.lo = (-(hi * M + lo)) % (M * M)
  <2> HIDE DEF h, l
  <2> QED BY <1>6, <1>7, <1>8
<1>11. n.lo \in 0 .. M - 1 /\ n.hi \in 0 .. M - 1
  <2> HIDE DEF h, l
  <2> QED BY <1>4, <1>7, <1>9
<1> QED BY <1>10, <1>11 DEF Unsigned, n, M, hi, lo

\* A product of signed numbers, modulo what two registers hold.
LEMMA SignedProductIs ==
    ASSUME NEW w, HasHalves(w), NEW a \in Unsigned(w), NEW b \in Unsigned(w)
    PROVE  LET p == SignedProduct(w, a, b)
               A == Signed(w, a)
               B == Signed(w, b)
           IN  /\ p.hi \in Unsigned(w) /\ p.lo \in Unsigned(w)
               /\ p.hi * 2^w + p.lo = (A * B) % (2^w * 2^w)
               /\ A * B \in -(2^(w - 1) * 2^(w - 1)) .. 2^(w - 1) * 2^(w - 1)
<1> DEFINE M == 2^w
           H == 2^(w - 1)
           A == Signed(w, a)
           B == Signed(w, b)
           x == Absolute(w, a)
           y == Absolute(w, b)
           P == Product(w, x, y)
           p == SignedProduct(w, a, b)
<1>1. HasSign(w) /\ H \in Nat \ {0} /\ M = 2 * H /\ M \in Nat \ {0}
  BY DEF HasHalves, HasSign
<1>2. /\ x = Magnitude(A) /\ x \in 0 .. H /\ x \in Unsigned(w) /\ A \in Int
      /\ Msb(w, a) <=> (A < 0)
  BY <1>1, AbsoluteIs
<1>3. /\ y = Magnitude(B) /\ y \in 0 .. H /\ y \in Unsigned(w) /\ B \in Int
      /\ Msb(w, b) <=> (B < 0)
  BY <1>1, AbsoluteIs
<1>4. P.hi \in Unsigned(w) /\ P.lo \in Unsigned(w) /\ P.hi * M + P.lo = x * y
  <2> HIDE DEF x, y
  <2> QED BY <1>2, <1>3, ProductIs
<1> HIDE DEF A, B, x, y, P, H, M
<1>5. x * y \in 0 .. H * H
  BY <1>1, <1>2, <1>3, ProductBound
<1>6. (x = IF A < 0 THEN -A ELSE A) /\ (y = IF B < 0 THEN -B ELSE B)
  BY <1>2, <1>3 DEF Magnitude
<1>7. A * B = IF (A < 0) # (B < 0) THEN -(x * y) ELSE x * y
  <2>1. CASE A < 0 /\ B < 0
    <3>1. x = -A /\ y = -B
      BY <1>6, <2>1
    <3>2. A * B = (-A) * (-B)
      BY <1>2, <1>3, Z3
    <3> QED BY <2>1, <3>1, <3>2
  <2>2. CASE A < 0 /\ ~(B < 0)
    <3>1. x = -A /\ y = B
      BY <1>6, <2>2
    <3>2. A * B = -((-A) * B)
      BY <1>2, <1>3, Z3
    <3> QED BY <2>2, <3>1, <3>2
  <2>3. CASE ~(A < 0) /\ B < 0
    <3>1. x = A /\ y = -B
      BY <1>6, <2>3
    <3>2. A * B = -(A * (-B))
      BY <1>2, <1>3, Z3
    <3> QED BY <2>3, <3>1, <3>2
  <2>4. CASE ~(A < 0) /\ ~(B < 0)
    BY <1>6, <2>4
  <2> QED BY <2>1, <2>2, <2>3, <2>4
<1>8. p = WithSign(w, Msb(w, a) # Msb(w, b), P)
  BY DEF SignedProduct, P, x, y
<1> HIDE DEF p
<1> DEFINE t == x * y
           n == A * B
           S == H * H
<1>9. t \in Int /\ S \in Int /\ n \in Int /\ t \in 0 .. S
  BY <1>1, <1>2, <1>3, <1>5, Z3
<1>10. S < M * M /\ M * M \in Nat \ {0}
  <2>1. M * M = 4 * S
    BY <1>1, Z3
  <2>2. S >= 1
    BY <1>1, Z3
  <2> HIDE DEF S
  <2> QED BY <1>9, <2>1, <2>2
<1>11. p.hi \in Unsigned(w) /\ p.lo \in Unsigned(w) /\ p.hi * M + p.lo = n % (M * M)
  <2>1. CASE (A < 0) # (B < 0)
    <3>1. p = NegateTwo(w, P)
      BY <1>2, <1>3, <1>8, <2>1 DEF WithSign
    <3>2. p.lo \in Unsigned(w) /\ p.hi \in Unsigned(w) /\ p.hi * M + p.lo = (-(P.hi * M + P.lo)) % (M * M)
      BY <1>1, <1>4, <3>1, NegateTwoIs DEF M
    <3>3. n = -t /\ P.hi * M + P.lo = t
      BY <1>4, <1>7, <2>1
    <3> QED BY <3>2, <3>3
  <2>2. CASE ~((A < 0) # (B < 0))
    <3>0. ~(Msb(w, a) # Msb(w, b))
      BY <1>2, <1>3, <2>2 DEF Msb, Bit
    <3>1. p = P
      <4> HIDE DEF P
      <4> QED BY <1>8, <3>0 DEF WithSign
    <3>2. n = t
      BY <1>7, <2>2
    <3>3. t % (M * M) = t
      <4> DEFINE m == M * M
      <4>1. m \in Nat \ {0} /\ t \in Int /\ 0 <= t /\ t < m
        <5> HIDE DEF t, S
        <5> QED BY <1>9, <1>10
      <4> HIDE DEF m, t
      <4>2. t % m = t
        BY <4>1, DividedAs
      <4> QED BY <4>2 DEF m
    <3> QED BY <1>4, <3>1, <3>2, <3>3
  <2> QED BY <2>1, <2>2
<1>12. n \in -S .. S
  <2>1. n = t \/ n = -t
    BY <1>7
  <2> HIDE DEF n, t, S
  <2> QED BY <1>9, <2>1
<1> QED BY <1>11, <1>12 DEF p, A, B, M, H

\* A remainder of a square's division has the same remainder.
LEMMA RestOfRest ==
    ASSUME NEW m \in Nat \ {0}, NEW n \in Int, NEW hi \in Int, NEW lo \in 0 .. m - 1
    PROVE  hi * m + lo = n % (m * m) => n % m = lo
<1>1. ASSUME NEW q \in Int, n = q * m + lo PROVE n % m = lo
  BY <1>1, DivisionIs
<1>2. ASSUME hi * m + lo = n % (m * m) PROVE \E q \in Int : n = q * m + lo
  <2> DEFINE S == m * m
             k == n \div S
             e == n % S
             q == k * m + hi
  <2>1. S \in Nat \ {0} /\ S = m * m
    BY Z3
  <2>2. e = hi * m + lo
    BY <1>2
  <2> HIDE DEF S
  <2>3. k \in Int /\ n = k * S + e
    BY <2>1, DivisionOf
  <2> HIDE DEF k, e
  <2>4. k * S = (k * m) * m
    BY <2>1, <2>3, Z3
  <2>5. q * m = (k * m) * m + hi * m /\ q \in Int
    BY <2>3, Z3
  <2> DEFINE x == (k * m) * m
             y == hi * m
             z == q * m
  <2>6. x \in Int /\ y \in Int
    BY <2>3, Z3
  <2>7. e = y + lo /\ n = x + e /\ z = x + y
    BY <2>2, <2>3, <2>4, <2>5
  <2> HIDE DEF x, y, z
  <2>8. n = z + lo
    BY <2>6, <2>7
  <2> QED BY <2>5, <2>8 DEF z
<1> QED BY <1>1, <1>2

LEMMA WordHasHalves == HasHalves(WORD)
<1> DEFINE h == WORD \div 2
<1>1. h \in 0 .. LONG /\ 2^h \in Nat \ {0}
  <2>1. h \in 0 .. LONG
    BY M68kAssumption
  <2> HIDE DEF h
  <2> QED BY <2>1, PowersAre
<1>2. 2^WORD = 2^h * 2^h
  BY PowersAre
<1> QED BY <1>1, <1>2, SizesAre DEF HasHalves

Signing(signed, w, a) == IF signed THEN Signed(w, a) ELSE a
Fitting(signed, w, u) == IF signed THEN InRange(w, u) ELSE u \in Unsigned(w)

\* MULU.L and MULS.L: the product, in one register or two, and flags that say
\* whether it fits one.
LEMMA MullIs ==
    ASSUME NEW f, NEW a \in Unsigned(WORD), NEW b \in Unsigned(WORD),
           NEW signed \in BOOLEAN, NEW quad \in BOOLEAN
    PROVE  LET p == MULL(WORD, f, a, b, signed, quad)
               u == Signing(signed, WORD, a) * Signing(signed, WORD, b)
           IN  /\ p.hi \in Unsigned(WORD) /\ p.lo \in Unsigned(WORD)
               /\ p.hi * 2^WORD + p.lo = u % 2^LONG /\ p.lo = u % 2^WORD
               /\ p.ccr.v <=> (~quad /\ ~Fitting(signed, WORD, u))
               /\ p.ccr.z <=> (IF quad THEN u % 2^LONG ELSE u % 2^WORD) = 0
               /\ p.ccr.n <=> (IF quad THEN Msb(LONG, u) ELSE Msb(WORD, u))
<1> DEFINE M == 2^WORD
           H == 2^(WORD - 1)
           u == Signing(signed, WORD, a) * Signing(signed, WORD, b)
           P == IF signed THEN SignedProduct(WORD, a, b) ELSE Product(WORD, a, b)
           p == MULL(WORD, f, a, b, signed, quad)
<1>1. M \in Nat \ {0} /\ H \in Nat \ {0} /\ M = 2 * H /\ M * M = 2^LONG /\ H * M = 2^(LONG - 1)
  BY SizesAre DEF HasSign
<1>2. /\ P.hi \in Unsigned(WORD) /\ P.lo \in Unsigned(WORD) /\ u \in Int
      /\ P.hi * M + P.lo = u % (M * M)
      /\ signed => u \in -(H * M) .. H * M - 1
      /\ ~signed => P.hi * M + P.lo = u
  <2>1. CASE signed
    <3>1. P = SignedProduct(WORD, a, b) /\ u = Signed(WORD, a) * Signed(WORD, b)
      BY <2>1 DEF Signing
    <3> HIDE DEF P, u
    <3>2. /\ P.hi \in Unsigned(WORD) /\ P.lo \in Unsigned(WORD)
          /\ P.hi * M + P.lo = u % (M * M) /\ u \in -(H * H) .. H * H
      BY <3>1, WordHasHalves, SignedProductIs
    <3>3. H * M = 2 * (H * H) /\ H * H \in Nat \ {0}
      <4> HIDE DEF M, H
      <4> QED BY <1>1, Z3
    <3> DEFINE S == H * H
               T == H * M
    <3>4. u \in -T .. T - 1 /\ u \in Int
      <4>1. u \in -S .. S /\ T = 2 * S /\ S \in Nat \ {0}
        BY <3>2, <3>3
      <4> HIDE DEF S, T
      <4> QED BY <4>1
    <3> HIDE DEF M, H
    <3> QED BY <2>1, <3>2, <3>4
  <2>2. CASE ~signed
    <3>1. P = Product(WORD, a, b) /\ u = a * b
      BY <2>2 DEF Signing
    <3> HIDE DEF P, u
    <3>2. P.hi \in Unsigned(WORD) /\ P.lo \in Unsigned(WORD) /\ P.hi * M + P.lo = u
      BY <3>1, WordHasHalves, ProductIs
    <3>3. u \in Int /\ u % (M * M) = u
      <4>1. P.hi \in 0 .. M - 1 /\ P.lo \in 0 .. M - 1
        BY <3>2 DEF Unsigned
      <4> DEFINE n == P.lo + P.hi * M
                 S == M * M
      <4>2. n \in 0 .. S - 1
        <5> HIDE DEF M
        <5> QED BY <1>1, <4>1, HalvesOf
      <4>3. S \in Nat \ {0} /\ u = n
        <5>1. P.hi \in Int /\ P.lo \in Int /\ P.hi * M \in Int
          <6> HIDE DEF M
          <6> QED BY <1>1, <4>1, Z3
        <5>2. S \in Nat \ {0}
          <6> HIDE DEF M
          <6> QED BY <1>1, Z3
        <5> QED BY <3>2, <5>1, <5>2
      <4> HIDE DEF n, S
      <4>4. u \in Int /\ 0 <= u /\ u < S
        BY <4>2, <4>3
      <4>5. u % S = u
        BY <4>3, <4>4, DividedAs
      <4> QED BY <4>4, <4>5 DEF S
    <3> QED BY <2>2, <3>2, <3>3
  <2> QED BY <2>1, <2>2
<1> HIDE DEF P, u
<1>3. P.lo \in 0 .. M - 1 /\ P.hi \in 0 .. M - 1 /\ P.lo \in Int /\ P.hi \in Int
  BY <1>1, <1>2 DEF Unsigned
<1>4. u % M = P.lo
  <2> HIDE DEF M, H
  <2> QED BY <1>1, <1>2, <1>3, RestOfRest
<1>5. /\ p.hi = P.hi /\ p.lo = P.lo
      /\ p.ccr = IF quad THEN [x |-> f.x, n |-> Msb(WORD, P.hi), z |-> P.hi = 0 /\ P.lo = 0,
                               v |-> FALSE, c |-> FALSE]
                 ELSE [x |-> f.x, n |-> Msb(WORD, P.lo), z |-> P.lo = 0,
                       v |-> ~(P.hi = IF signed /\ Msb(WORD, P.lo) THEN M - 1 ELSE 0), c |-> FALSE]
  BY DEF MULL, ProductOf, P
<1> DEFINE n == P.hi * M + P.lo
<1>6. /\ (n >= H * M) = (P.hi >= H) /\ (n = 0) = (P.hi = 0 /\ P.lo = 0)
      /\ (n \in Unsigned(LONG)) = (P.hi \in Unsigned(WORD)) /\ n \in Int
  <2>1. P.hi \in Int /\ P.lo \in Unsigned(WORD)
    BY <1>2, <1>3
  <2> QED BY <1>1, <2>1, TwoWords
<1>7. /\ Msb(WORD, P.lo) = (P.lo >= H) /\ Msb(WORD, P.hi) = (P.hi >= H)
      /\ Signed(WORD, P.hi) = IF P.hi >= H THEN P.hi - M ELSE P.hi
  BY <1>2, SignedIs, SizesAre
<1>8. Msb(WORD, u) = (P.lo >= H) /\ Msb(LONG, u) = (n >= H * M)
  <2>1. Msb(WORD, u) = (u % M >= H) /\ Msb(LONG, u) = (u % 2^LONG >= 2^(LONG - 1))
    BY <1>2, SignedOfAny, SizesAre
  <2> QED BY <1>1, <1>2, <1>4, <2>1
<1>9. ~quad => ((P.hi = IF signed /\ Msb(WORD, P.lo) THEN M - 1 ELSE 0) <=> Fitting(signed, WORD, u))
  <2>1. CASE ~signed
    <3>1. u = n
      BY <1>2, <2>1
    <3>2. (n < 1 * M) <=> (P.hi < 1)
      <4> HIDE DEF M
      <4> QED BY <1>1, <1>3, SameSide
    <3>3. ~(n < 0)
      <4>1. n = u % (M * M) /\ M * M \in Nat \ {0}
        <5>1. M * M \in Nat \ {0}
          <6> HIDE DEF M
          <6> QED BY <1>1, Z3
        <5> QED BY <1>2, <5>1
      <4> DEFINE S == M * M
      <4> HIDE DEF n, S
      <4>2. u % S \in 0 .. S - 1
        BY <1>2, <4>1, DivisionOf DEF S
      <4> QED BY <4>1, <4>2 DEF S
    <3>4. (P.hi = 0) <=> (u \in Unsigned(WORD))
      <4>1. (u \in Unsigned(WORD)) <=> (u \in 0 .. M - 1)
        BY DEF Unsigned
      <4> HIDE DEF M, n
      <4> QED BY <1>1, <1>3, <1>6, <3>1, <3>2, <3>3, <4>1
    <3> QED BY <2>1, <3>4 DEF Fitting
  <2>2. CASE signed
    <3> DEFINE g == Signed(WORD, P.hi)
    <3>1. u = g * M + P.lo
      <4>1. InRange(LONG, u)
        BY <1>1, <1>2, <2>2 DEF InRange
      <4>2. Signed(LONG, u) = u /\ Signed(LONG, u) = Signed(LONG, Mask(LONG, u))
        BY <1>2, <4>1, SignedOfAny, SizesAre
      <4>3. Mask(LONG, u) = n
        BY <1>1, <1>2 DEF Mask
      <4>4. Signed(LONG, n) = g * M + P.lo
        BY <1>2, PairIs
      <4> QED BY <4>2, <4>3, <4>4
    <3>2. g \in Int /\ g = IF P.hi >= H THEN P.hi - M ELSE P.hi
      BY <1>1, <1>3, <1>7
    <3> HIDE DEF g, M, H
    <3>3. \A k \in Int : (g * M + P.lo < k * M) <=> (g < k)
      BY <1>1, <1>3, <3>2, SameSide
    <3>4. (g * M + P.lo < 1 * M) <=> (g < 1)
      BY <3>3
    <3>5. (g * M + P.lo < (-1) * M) <=> (g < -1)
      BY <3>3
    <3>6. (g * M + P.lo < 0 * M) <=> (g < 0)
      BY <3>3
    <3>7. g = 0 => u = P.lo
      BY <1>1, <1>3, <3>1
    <3>8. g = -1 => u = P.lo - M
      BY <1>1, <1>3, <3>1
    <3>9. ~(g = 0) /\ ~(g = -1) => ~(u \in -H .. H - 1)
      <4>1. 1 * M = M /\ (-1) * M = -M
        BY <1>1
      <4>2. ((u < M) <=> (g < 1)) /\ ((u < -M) <=> (g < -1))
        BY <3>1, <3>4, <3>5, <4>1
      <4> QED BY <1>1, <1>2, <3>2, <4>2
    <3>10. (g = 0 <=> P.hi = 0) /\ (g = -1 <=> P.hi = M - 1)
      BY <1>1, <1>3, <3>2
    <3>11. (P.hi = IF P.lo >= H THEN M - 1 ELSE 0) <=> (u \in -H .. H - 1)
      <4>1. CASE g = 0
        BY <1>1, <1>3, <3>7, <3>10, <4>1
      <4>2. CASE g = -1
        BY <1>1, <1>3, <3>8, <3>10, <4>2
      <4>3. CASE ~(g = 0) /\ ~(g = -1)
        BY <1>1, <1>3, <3>9, <3>10, <4>3
      <4> QED BY <4>1, <4>2, <4>3
    <3>12. Fitting(signed, WORD, u) <=> (u \in -H .. H - 1)
      BY <2>2 DEF Fitting, InRange, H
    <3>13. Msb(WORD, P.lo) <=> (P.lo >= H)
      BY <1>7
    <3>14. (P.hi = IF signed /\ Msb(WORD, P.lo) THEN M - 1 ELSE 0)
           <=> (P.hi = IF P.lo >= H THEN M - 1 ELSE 0)
      BY <2>2, <3>13
    <3> QED BY <3>11, <3>12, <3>14
  <2> QED BY <2>1, <2>2
<1>10. p.hi \in Unsigned(WORD) /\ p.lo \in Unsigned(WORD) /\ p.hi * M + p.lo = u % 2^LONG /\ p.lo = u % M
  <2> HIDE DEF p, M
  <2> QED BY <1>1, <1>2, <1>4, <1>5
<1>11. /\ p.ccr.v <=> (~quad /\ ~Fitting(signed, WORD, u))
       /\ p.ccr.z <=> (IF quad THEN u % 2^LONG ELSE u % M) = 0
       /\ p.ccr.n <=> (IF quad THEN Msb(LONG, u) ELSE Msb(WORD, u))
  <2> DEFINE F == Fitting(signed, WORD, u)
             e == IF signed /\ Msb(WORD, P.lo) THEN M - 1 ELSE 0
  <2>1. u % 2^LONG = n
    BY <1>1, <1>2
  <2>2. CASE quad
    <3>1. p.ccr.v = FALSE /\ p.ccr.z = (P.hi = 0 /\ P.lo = 0) /\ p.ccr.n = Msb(WORD, P.hi)
      BY <1>5, <2>2
    <3> HIDE DEF p, n, F
    <3>2. (n = 0) <=> (P.hi = 0 /\ P.lo = 0)
      BY <1>6 DEF n
    <3>3. Msb(LONG, u) <=> Msb(WORD, P.hi)
      BY <1>6, <1>7, <1>8 DEF n
    <3> QED BY <2>1, <2>2, <3>1, <3>2, <3>3
  <2>3. CASE ~quad
    <3>1. p.ccr.v = ~(P.hi = e) /\ p.ccr.z = (P.lo = 0) /\ p.ccr.n = Msb(WORD, P.lo)
      BY <1>5, <2>3
    <3>2. (P.hi = e) <=> F
      BY <1>9, <2>3
    <3>3. Msb(WORD, u) <=> Msb(WORD, P.lo)
      BY <1>7, <1>8
    <3>4. (p.ccr.v <=> ~F) /\ (p.ccr.z <=> P.lo = 0) /\ (p.ccr.n <=> Msb(WORD, u))
      <4> HIDE DEF p, F, e
      <4> QED BY <3>1, <3>2, <3>3
    <3> HIDE DEF p
    <3>5. (IF quad THEN u % 2^LONG ELSE u % M) = P.lo
      BY <1>4, <2>3
    <3>6. (IF quad THEN Msb(LONG, u) ELSE Msb(WORD, u)) <=> Msb(WORD, u)
      BY <2>3
    <3> QED BY <2>3, <3>4, <3>5, <3>6
  <2> QED BY <2>2, <2>3
<1> QED BY <1>10, <1>11 DEF p, u

-----------------------------------------------------------------------------
(* Long division, a bit at a time                                          *)

\* What is above a bit, and the bit.
LEMMA HalfQuotient ==
    ASSUME NEW e \in Nat \ {0}, NEW n \in Nat
    PROVE  /\ n \div e = 2 * (n \div (2 * e)) + ((n \div e) % 2) /\ (n \div e) % 2 \in {0, 1}
           /\ n \div e \in Nat /\ n \div (2 * e) \in Nat
<1> DEFINE q == n \div e
           c == n % e
           a == q \div 2
           b == q % 2
<1>1. q \in Nat /\ c \in 0 .. e - 1 /\ n = q * e + c
  BY NaturalDivision
<1> HIDE DEF q, c
<1>2. a \in Nat /\ b \in {0, 1} /\ q = 2 * a + b
  BY <1>1
<1> HIDE DEF a, b
<1>3. n = a * (2 * e) + (b * e + c)
  <2>1. (2 * a + b) * e = a * (2 * e) + b * e
    BY <1>2, Z3
  <2> DEFINE x == a * (2 * e)
             y == b * e
             z == q * e
  <2>2. x \in Int /\ y \in Int /\ z = x + y /\ n = z + c
    BY <1>1, <1>2, <2>1, Z3
  <2> HIDE DEF x, y, z
  <2>3. n = x + (y + c)
    BY <1>1, <2>2
  <2> QED BY <2>3 DEF x, y
<1>4. b * e + c \in 0 .. 2 * e - 1 /\ 2 * e \in Nat \ {0}
  <2>1. b * e = IF b = 0 THEN 0 ELSE e
    BY <1>2
  <2> QED BY <1>1, <2>1
<1>5. n \div (2 * e) = a
  <2> DEFINE m == 2 * e
             y == b * e + c
  <2>1. m \in Nat \ {0} /\ y \in 0 .. m - 1 /\ n = a * m + y /\ a \in Int
    BY <1>2, <1>3, <1>4
  <2> HIDE DEF m, y
  <2>2. n \div m = a
    BY <2>1, DivisionIs
  <2> QED BY <2>2 DEF m
<1> QED BY <1>1, <1>2, <1>5 DEF q, b

\* The steps of a long division are a function indeed.
StepAt(w, s, p, i, a) == DivideStep(w, s, a, DividendBit(w, p, i), i > w /\ Msb(w, a.r))
AreSteps(g, n, w, s, p) ==
    g = [i \in 0 .. n |-> IF i = 0 THEN [q |-> 0, r |-> 0] ELSE StepAt(w, s, p, i, g[i - 1])]

LEMMA StepsExist ==
    ASSUME NEW n \in Nat, NEW w, NEW s, NEW p
    PROVE  \E g : AreSteps(g, n, w, s, p)
<1> DEFINE S == {k \in 0 .. n : \E g : AreSteps(g, k, w, s, p)}
<1>1. 0 \in S
  <2> DEFINE g == [i \in 0 .. 0 |-> [q |-> 0, r |-> 0]]
  <2>1. AreSteps(g, 0, w, s, p)
    BY DEF AreSteps
  <2> HIDE DEF g
  <2> QED BY <2>1
<1>2. ASSUME NEW k \in 0 .. n - 1, k \in S PROVE k + 1 \in S
  <2>1. PICK g : AreSteps(g, k, w, s, p)
    BY <1>2
  <2> DEFINE v(i) == IF i <= k THEN g[i] ELSE StepAt(w, s, p, k + 1, g[k])
             h == [i \in 0 .. k + 1 |-> v(i)]
  <2>2. \A i \in 0 .. k + 1 : v(i) = IF i = 0 THEN [q |-> 0, r |-> 0] ELSE StepAt(w, s, p, i, h[i - 1])
    <3> TAKE i \in 0 .. k + 1
    <3>1. CASE i = 0
      BY <2>1, <3>1 DEF AreSteps
    <3>2. CASE i \in 1 .. k
      <4>1. h[i - 1] = g[i - 1]
        BY <3>2
      <4>2. g[i] = StepAt(w, s, p, i, g[i - 1])
        BY <2>1, <3>2 DEF AreSteps
      <4> QED BY <3>2, <4>1, <4>2
    <3>3. CASE i = k + 1
      <4>1. h[i - 1] = g[k] /\ i # 0 /\ ~(i <= k)
        BY <3>3
      <4> HIDE DEF h
      <4> QED BY <3>3, <4>1
    <3> QED BY <3>1, <3>2, <3>3
  <2>3. h = [i \in 0 .. k + 1 |-> IF i = 0 THEN [q |-> 0, r |-> 0] ELSE StepAt(w, s, p, i, h[i - 1])]
    BY <2>2
  <2>4. AreSteps(h, k + 1, w, s, p)
    BY <2>3 DEF AreSteps
  <2> HIDE DEF h
  <2> QED BY <2>4
<1> HIDE DEF S
<1>3. \A k \in 0 .. n : k \in S
  BY <1>1, <1>2, InductionUpTo
<1> QED BY <1>3 DEF S

LEMMA LongDivideSteps ==
    ASSUME NEW w, 2 * w \in Nat, NEW s, NEW p
    PROVE  \E g : AreSteps(g, 2 * w, w, s, p) /\ LongDivide(w, s, p) = g[2 * w]
<1>1. PICK g : AreSteps(g, 2 * w, w, s, p)
  BY StepsExist
<1> DEFINE f == CHOOSE h : h = [i \in 0 .. 2 * w |->
                  IF i = 0 THEN [q |-> 0, r |-> 0]
                  ELSE DivideStep(w, s, h[i - 1], DividendBit(w, p, i), i > w /\ Msb(w, h[i - 1].r))]
<1>2. AreSteps(f, 2 * w, w, s, p)
  BY <1>1 DEF AreSteps, StepAt
<1>3. LongDivide(w, s, p) = f[2 * w]
  BY DEF LongDivide
<1> QED BY <1>2, <1>3

StaysBelow(w, s, hi, e, a, bit) ==
    (a.q = 0 /\ a.r = hi \div (2 * e) /\ bit = (hi \div e) % 2) =>
        DivideStep(w, s, a, bit, FALSE) = [q |-> 0, r |-> hi \div e]

\* A bit of the upper half: the remainder stays below the divisor.
LEMMA UpperStep ==
    ASSUME NEW w, HasSign(w), NEW s \in Unsigned(w) \ {0}, NEW hi \in 0 .. s - 1,
           NEW e \in Nat \ {0}, NEW a, NEW bit
    PROVE  StaysBelow(w, s, hi, e, a, bit)
<1> DEFINE M == 2^w
           u == hi \div e
           v == hi \div (2 * e)
           x == u % 2
<1>1. M \in Nat \ {0} /\ s \in 1 .. M - 1 /\ hi \in Nat
  BY DEF HasSign, Unsigned
<1>2. u = 2 * v + x /\ x \in {0, 1} /\ u \in Nat /\ v \in Nat
  BY <1>1, HalfQuotient
<1>3. u < s
  <2>1. (hi < s * e) <=> (u < s)
    <3>1. hi \in Int /\ s \in Int
      BY <1>1
    <3>2. \A k \in Int : (hi < k * e) <=> (u < k)
      BY <3>1, DivisionOf
    <3> HIDE DEF u
    <3> QED BY <3>1, <3>2
  <2>2. s * e >= s
    BY <1>1, Z3
  <2>3. s * e \in Int
    BY <1>1, Z3
  <2> HIDE DEF u
  <2> QED BY <1>1, <2>1, <2>2, <2>3
<1> HIDE DEF u, v, x
<1>4. Mask(w, u) = u
  <2>1. u \in Int /\ 0 <= u /\ u < M
    BY <1>1, <1>2, <1>3
  <2>2. u % M = u
    <3> HIDE DEF M
    <3> QED BY <1>1, <2>1, DividedAs
  <2> QED BY <2>2 DEF Mask
<1>5. ASSUME a.q = 0, a.r = v, bit = x
      PROVE  DivideStep(w, s, a, bit, FALSE) = [q |-> 0, r |-> u]
  <2>1. 2 * a.r + bit = u /\ 2 * a.q = 0
    BY <1>2, <1>5
  <2>2. Mask(w, 2 * a.r + bit) = u
    BY <1>4, <2>1
  <2>3. ~(u >= s)
    BY <1>1, <1>2, <1>3
  <2> QED BY <2>1, <2>2, <2>3 DEF DivideStep
<1> QED BY <1>5 DEF u, v, x, StaysBelow

\* One of the lower half: quotient and remainder stay those of the bits so far,
\* also where the remainder loses its top bit.
LEMMA LowerStep ==
    ASSUME NEW w, HasSign(w), NEW s \in Unsigned(w) \ {0}, NEW a, a.q \in Nat, a.r \in 0 .. s - 1,
           NEW bit \in {0, 1}
    PROVE  LET b == DivideStep(w, s, a, bit, Msb(w, a.r))
           IN  b.q \in Nat /\ b.r \in 0 .. s - 1 /\ b.q * s + b.r = 2 * (a.q * s + a.r) + bit
<1> DEFINE M == 2^w
           H == 2^(w - 1)
           R == 2 * a.r + bit
           r == Mask(w, R)
           b == DivideStep(w, s, a, bit, Msb(w, a.r))
<1>1. M \in Nat \ {0} /\ s \in 1 .. M - 1 /\ H \in Nat /\ M = 2 * H
  BY DEF HasSign, Unsigned
<1>2. a.r \in Nat /\ a.r < s /\ R \in 0 .. 2 * s - 1 /\ (a.r >= H <=> R >= M)
  <2> HIDE DEF M, H
  <2> QED BY <1>1
<1>3. Msb(w, a.r) <=> R >= M
  <2>1. a.r \in Unsigned(w)
    BY <1>1, <1>2 DEF Unsigned
  <2>2. Msb(w, a.r) = (a.r >= H)
    BY <2>1, SignedIs
  <2> QED BY <1>2, <2>2
<1>4. r = IF R >= M THEN R - M ELSE R
  <2>1. R \in -M .. 2 * M - 1 /\ R \in Int
    <3> HIDE DEF M, R
    <3> QED BY <1>1, <1>2
  <2> HIDE DEF R
  <2>2. Mask(w, R) = IF R < 0 THEN R + M ELSE IF R >= M THEN R - M ELSE R
    BY <2>1, MaskIs
  <2> QED BY <1>1, <1>2, <2>2 DEF r
<1>5. (r >= s \/ R >= M) <=> R >= s
  <2> HIDE DEF M, R, r
  <2> QED BY <1>1, <1>2, <1>4
<1>6. CASE R >= s
  <2>1. r >= s \/ Msb(w, a.r)
    BY <1>3, <1>5, <1>6
  <2>2. b = [q |-> 2 * a.q + 1, r |-> Mask(w, r - s)]
    <3> HIDE DEF b
    <3> QED BY <2>1 DEF DivideStep, b
  <2>3. Mask(w, r - s) = R - s
    <3> DEFINE t == r - s
    <3>1. t \in -M .. 2 * M - 1 /\ (R >= M => t < 0 /\ t + M = R - s) /\ (R < M => 0 <= t /\ t < M /\ t = R - s)
      <4> HIDE DEF M, R, r
      <4> QED BY <1>1, <1>2, <1>4, <1>6
    <3> HIDE DEF t
    <3>2. Mask(w, t) = IF t < 0 THEN t + M ELSE IF t >= M THEN t - M ELSE t
      BY <3>1, MaskIs
    <3> HIDE DEF M, R, r
    <3>3. Mask(w, t) = R - s
      BY <1>1, <1>2, <3>1, <3>2
    <3> QED BY <3>3 DEF t
  <2> DEFINE x == a.q * s
  <2>4. (2 * a.q + 1) * s = 2 * x + s /\ x \in Int
    <3>1. a.q \in Int /\ s \in Int
      BY <1>1
    <3> QED BY <3>1, Z3
  <2> HIDE DEF b, r
  <2>5. b.q = 2 * a.q + 1 /\ b.r = R - s
    BY <2>2, <2>3
  <2>6. b.q * s = 2 * x + s
    BY <2>4, <2>5
  <2> DEFINE y == b.q * s
  <2> HIDE DEF x, y
  <2>7. y + b.r = 2 * (x + a.r) + bit
    BY <1>1, <1>2, <2>4, <2>5, <2>6 DEF y
  <2> QED BY <1>1, <1>2, <1>6, <2>5, <2>7 DEF x, y, b
<1>7. CASE ~(R >= s)
  <2>1. ~(r >= s \/ Msb(w, a.r))
    BY <1>3, <1>5, <1>7
  <2>2. b = [q |-> 2 * a.q, r |-> r]
    <3> HIDE DEF b
    <3> QED BY <2>1 DEF DivideStep, b
  <2> DEFINE x == a.q * s
  <2>4. (2 * a.q) * s = 2 * x /\ x \in Int
    <3>1. a.q \in Int /\ s \in Int
      BY <1>1
    <3> QED BY <3>1, Z3
  <2>5. b.q = 2 * a.q /\ b.r = R
    <3> HIDE DEF b, R, r
    <3>1. r = R
      BY <1>1, <1>2, <1>4, <1>7
    <3> QED BY <2>2, <3>1
  <2> HIDE DEF b, r
  <2>6. b.q * s = 2 * x
    BY <2>4, <2>5
  <2> DEFINE y == b.q * s
  <2> HIDE DEF x, y
  <2>7. y + b.r = 2 * (x + a.r) + bit
    BY <1>1, <1>2, <2>4, <2>5, <2>6 DEF y
  <2> QED BY <1>1, <1>2, <1>7, <2>5, <2>7 DEF x, y, b
<1> QED BY <1>6, <1>7

LEMMA BitIs ==
    ASSUME NEW n \in Nat, NEW i, 2^i \in Nat \ {0}
    PROVE  AsOne(Bit(n, i)) = (n \div 2^i) % 2 /\ (n \div 2^i) % 2 \in {0, 1}
<1> DEFINE q == n \div 2^i
<1>1. q \in Nat
  <2> DEFINE e == 2^i
  <2>1. e \in Nat \ {0}
    OBVIOUS
  <2> HIDE DEF e
  <2>2. n \div e \in Nat
    BY <2>1, NaturalDivision
  <2> QED BY <2>2 DEF e
<1>2. AsOne(Bit(n, i)) = IF q % 2 = 1 THEN 1 ELSE 0
  BY DEF AsOne, Bit
<1> HIDE DEF q
<1>3. q % 2 \in {0, 1}
  BY <1>1
<1> QED BY <1>2, <1>3 DEF q

LEMMA BelowDivided ==
    ASSUME NEW m \in Nat \ {0}, NEW n \in 0 .. m - 1
    PROVE  n \div m = 0 /\ n \div 1 = n
<1>1. n = 0 * m + n /\ n = n * 1 + 0
  BY Z3
<1>2. n \in Int /\ 0 \in 0 .. 1 - 1 /\ 1 \in Nat \ {0}
  OBVIOUS
<1>3. n \div m = 0
  BY <1>1, DivisionIs
<1>4. n \div 1 = n
  BY <1>1, <1>2, DivisionIs
<1> QED BY <1>3, <1>4

\* The long division of the code is division, if the upper half of the dividend
\* is below the divisor; the quotient has one register then.
LEMMA LongDivideIs ==
    ASSUME NEW w \in Nat \ {0}, Doubling(w), HasSign(w), NEW s \in Unsigned(w) \ {0},
           NEW p, p.hi \in 0 .. s - 1, p.lo \in Unsigned(w)
    PROVE  LET n == p.hi * 2^w + p.lo
               a == LongDivide(w, s, p)
           IN  n \in Nat /\ a.q = n \div s /\ a.r = n % s /\ a.q \in Unsigned(w)
<1> DEFINE M == 2^w
           hi == p.hi
           lo == p.lo
           n == hi * M + lo
<1>1. /\ M \in Nat \ {0} /\ s \in 1 .. M - 1 /\ hi \in Nat /\ lo \in 0 .. M - 1 /\ hi \in 0 .. M - 1
      /\ s \in Nat \ {0} /\ hi \in 0 .. s - 1 /\ lo \in Nat
  BY DEF HasSign, Unsigned
<1>2. PICK g : AreSteps(g, 2 * w, w, s, p) /\ LongDivide(w, s, p) = g[2 * w]
  <2>1. 2 * w \in Nat
    OBVIOUS
  <2> QED BY <2>1, LongDivideSteps
<1>3. g[0] = [q |-> 0, r |-> 0] /\ \A i \in 1 .. 2 * w : g[i] = StepAt(w, s, p, i, g[i - 1])
  BY <1>2 DEF AreSteps
<1>4. \A i \in 0 .. w : 2^i \in Nat \ {0}
  BY PowersArePositive
<1>5. 2^0 = 1 /\ \A i \in 0 .. w - 1 : 2^(i + 1) = 2 * 2^i
  BY DEF Doubling
<1> HIDE DEF M, hi, lo
<1> DEFINE S == {i \in 0 .. w : g[i] = [q |-> 0, r |-> hi \div 2^(w - i)]}
<1>6. 0 \in S
  <2>1. hi \div M = 0
    BY <1>1, BelowDivided
  <2> QED BY <1>3, <2>1 DEF M
<1>7. ASSUME NEW i \in 0 .. w - 1, i \in S PROVE i + 1 \in S
  <2> DEFINE k == w - (i + 1)
             e == 2^k
  <2>1. k \in 0 .. w - 1 /\ k \in 0 .. w /\ k + 1 = w - i /\ i + 1 \in 0 .. w /\ i + 1 \in 1 .. 2 * w
        /\ i + 1 <= w /\ ~(i + 1 > w) /\ (i + 1) - 1 = i
    OBVIOUS
  <2>2. e \in Nat \ {0} /\ 2^(w - i) = 2 * e
    <3> HIDE DEF k
    <3> QED BY <1>4, <1>5, <2>1
  <2>3. g[i].q = 0 /\ g[i].r = hi \div (2 * e)
    BY <1>7, <2>2
  <2>4. DividendBit(w, p, i + 1) = AsOne(Bit(hi, k))
    BY <2>1 DEF DividendBit, hi
  <2>5. AsOne(Bit(hi, k)) = (hi \div e) % 2
    <3> HIDE DEF k
    <3> QED BY <1>1, <2>2, BitIs
  <2>6. g[i + 1] = DivideStep(w, s, g[i], DividendBit(w, p, i + 1), i + 1 > w /\ Msb(w, g[i].r))
    BY <1>3, <2>1 DEF StepAt
  <2>7. (i + 1 > w /\ Msb(w, g[i].r)) = FALSE
    BY <2>1
  <2>8. g[i + 1] = DivideStep(w, s, g[i], DividendBit(w, p, i + 1), FALSE)
    BY <2>6, <2>7
  <2>9. g[i + 1] = [q |-> 0, r |-> hi \div e]
    <3> HIDE DEF e, k, S
    <3> DEFINE a == g[i]
               bit == DividendBit(w, p, i + 1)
    <3>1. a.q = 0
      BY <2>3
    <3>2. a.r = hi \div (2 * e) /\ bit = (hi \div e) % 2
      BY <2>3, <2>4, <2>5
    <3> HIDE DEF a, bit
    <3>3. hi \in 0 .. s - 1 /\ e \in Nat \ {0}
      BY <1>1, <2>2
    <3>4. StaysBelow(w, s, hi, e, a, bit)
      BY <3>3, UpperStep
    <3>5. DivideStep(w, s, a, bit, FALSE) = [q |-> 0, r |-> hi \div e]
      BY <3>1, <3>2, <3>4 DEF StaysBelow
    <3> QED BY <2>8, <3>5 DEF a, bit
  <2> QED BY <2>1, <2>9
<1>8. \A i \in 0 .. w : i \in S
  <2> HIDE DEF S
  <2> QED BY <1>6, <1>7, InductionUpTo
<1>9. g[w] = [q |-> 0, r |-> hi]
  <2>1. w \in S
    <3> HIDE DEF S
    <3> QED BY <1>8
  <2>3. g[w] = [q |-> 0, r |-> hi \div 2^(w - w)] /\ w - w = 0
    BY <2>1
  <2>2. hi \div 1 = hi
    BY <1>1, BelowDivided
  <2> QED BY <1>5, <2>2, <2>3
<1> HIDE DEF S
<1> DEFINE T == {j \in 0 .. w : /\ g[w + j].q \in Nat /\ g[w + j].r \in 0 .. s - 1
                                /\ g[w + j].q * s + g[w + j].r = hi * 2^j + (lo \div 2^(w - j))}
<1>10. 0 \in T
  <2>1. lo \div M = 0
    BY <1>1, BelowDivided
  <2>2. w + 0 = w /\ w - 0 = w /\ 0 \in 0 .. w
    OBVIOUS
  <2>3. 0 * s + hi = hi * 1 + 0
    BY <1>1
  <2>4. 2^0 = 1 /\ lo \div 2^(w - 0) = 0
    BY <1>5, <2>1, <2>2 DEF M
  <2>5. g[w + 0].q = 0 /\ g[w + 0].r = hi
    BY <1>9, <2>2
  <2> HIDE DEF T
  <2>6. g[w + 0].q \in Nat /\ g[w + 0].r \in 0 .. s - 1
    BY <1>1, <2>5
  <2>7. g[w + 0].q * s + g[w + 0].r = hi * 2^0 + (lo \div 2^(w - 0))
    BY <2>3, <2>4, <2>5
  <2> QED BY <2>2, <2>6, <2>7 DEF T
<1>11. ASSUME NEW j \in 0 .. w - 1, j \in T PROVE j + 1 \in T
  <2> DEFINE k == w - (j + 1)
             e == 2^k
             E == 2^j
             i == w + j
  <2>1. k \in 0 .. w - 1 /\ k \in 0 .. w /\ k + 1 = w - j /\ j + 1 \in 0 .. w /\ i + 1 \in 1 .. 2 * w
        /\ i + 1 > w /\ ~(i + 1 <= w) /\ (i + 1) - 1 = i /\ 2 * w - (i + 1) = k
        /\ w + (j + 1) = i + 1 /\ j \in 0 .. w
    OBVIOUS
  <2>2. e \in Nat \ {0} /\ 2^(w - j) = 2 * e /\ E \in Nat \ {0} /\ 2^(j + 1) = 2 * E
    <3> HIDE DEF k, i
    <3> QED BY <1>4, <1>5, <2>1
  <2> DEFINE a == g[i]
             bit == DividendBit(w, p, i + 1)
             b == g[i + 1]
             u == lo \div e
             v == lo \div (2 * e)
  <2>3. a.q \in Nat /\ a.r \in 0 .. s - 1 /\ a.q * s + a.r = hi * E + v
    BY <1>11, <2>2
  <2>4. bit = AsOne(Bit(lo, k))
    BY <2>1 DEF DividendBit, lo
  <2>5. bit = u % 2 /\ bit \in {0, 1}
    <3> HIDE DEF k, i, bit
    <3> QED BY <1>1, <2>2, <2>4, BitIs
  <2>6. b = DivideStep(w, s, a, bit, i + 1 > w /\ Msb(w, a.r))
    <3> HIDE DEF i
    <3> QED BY <1>3, <2>1 DEF StepAt
  <2>7. b = DivideStep(w, s, a, bit, Msb(w, a.r))
    <3>1. (i + 1 > w /\ Msb(w, a.r)) = Msb(w, a.r)
      <4> HIDE DEF i, a
      <4> QED BY <2>1 DEF Msb, Bit
    <3> QED BY <2>6, <3>1
  <2>8. u = 2 * v + (u % 2) /\ u \in Nat /\ v \in Nat
    <3> HIDE DEF k, e
    <3>1. e \in Nat \ {0}
      BY <2>2
    <3>2. lo \in Nat
      BY <1>1
    <3> QED BY <3>1, <3>2, HalfQuotient, Zenon
  <2>12. u = 2 * v + bit
    BY <2>5, <2>8
  <2> HIDE DEF k, e, E, i, a, b, bit, u, v
  <2>9. b.q \in Nat /\ b.r \in 0 .. s - 1 /\ b.q * s + b.r = 2 * (a.q * s + a.r) + bit
    BY <2>3, <2>5, <2>7, LowerStep
  <2>10. b.q * s + b.r = hi * (2 * E) + u
    <3> DEFINE x == hi * E
    <3>1. hi * (2 * E) = 2 * x /\ x \in Int
      BY <1>1, <2>2, Z3
    <3>2. b.q * s + b.r = 2 * (x + v) + bit
      BY <2>3, <2>9
    <3> HIDE DEF x
    <3>3. 2 * (x + v) + bit = 2 * x + u
      BY <2>5, <2>8, <2>12, <3>1
    <3> QED BY <3>1, <3>2, <3>3
  <2>11. b = g[w + (j + 1)] /\ w - (j + 1) = k /\ lo \div 2^k = u
    BY <2>1 DEF b, k, u, e
  <2> QED BY <2>1, <2>2, <2>9, <2>10, <2>11
<1>12. \A j \in 0 .. w : j \in T
  <2> HIDE DEF T
  <2> QED BY <1>10, <1>11, InductionUpTo
<1> DEFINE a == g[2 * w]
<1>13. a.q \in Nat /\ a.r \in 0 .. s - 1 /\ a.q * s + a.r = n
  <2>1. w \in T /\ w - w = 0 /\ w + w = 2 * w
    BY <1>12
  <2>2. lo \div 1 = lo
    BY <1>1, BelowDivided
  <2> QED BY <1>5, <2>1, <2>2 DEF M
<1> HIDE DEF T, a
<1>14. n \in Nat /\ n < s * M
  <2>1. hi * M \in Nat /\ n \in Int /\ n \in Nat
    BY <1>1, Z3
  <2>2. (hi * M + lo < s * M) <=> (hi < s)
    BY <1>1, SameSide
  <2> QED BY <1>1, <2>1, <2>2
<1>15. n \div s = a.q /\ n % s = a.r
  <2> HIDE DEF n
  <2> DEFINE x == a.q
             y == a.r
  <2>1. x \in Int /\ y \in 0 .. s - 1 /\ s \in Nat \ {0}
    BY <1>1, <1>13
  <2>2. n = x * s + y
    BY <1>13
  <2> HIDE DEF x, y
  <2>3. n \div s = x /\ n % s = y
    BY <2>1, <2>2, DivisionIs
  <2> QED BY <2>3 DEF x, y
<1>16. a.q < M
  <2> HIDE DEF n
  <2>1. n \in Int /\ M \in Int /\ s * M = M * s
    BY <1>1, <1>14
  <2>2. (n < M * s) <=> (n \div s < M)
    BY <1>1, <2>1, DivisionOf
  <2> QED BY <1>14, <1>15, <2>1, <2>2
<1>17. a.q \in Unsigned(w)
  BY <1>1, <1>13, <1>16 DEF Unsigned, M
<1>18. LongDivide(w, s, p) = a
  BY <1>2 DEF a
<1> QED BY <1>14, <1>15, <1>17, <1>18 DEF n, M, hi, lo

-----------------------------------------------------------------------------
(* Quotients of one or two registers                                       *)

\* What a pair of registers stands for.
Whole(w, p) == p.hi * 2^w + p.lo

\* The quotient a of n by b is right, or it does not fit and the registers p are
\* kept; but for one that only an overflow of the sign would tell from a right one.
IsLongQuotient(w, signed, a, n, b, p) ==
    \/ ~a.ccr.v /\ IsQuotient(Signing(signed, w, a.quotient), Signing(signed, w, a.remainder), n, b)
    \/ a.ccr.v /\ a.quotient = p.lo /\ a.remainder = p.hi /\ ~Fitting(signed, w, Quotient(n, b))
    \/ signed /\ Quotient(n, b) \in {-(2^(w - 1)), 2^(w - 1)}

LEMMA DividedLongIs ==
    ASSUME NEW w, NEW f, NEW q, NEW r
    PROVE  LET a == DividedLong(w, f, q, r)
           IN  a.quotient = Mask(w, q) /\ a.remainder = Mask(w, r) /\ ~a.ccr.v
<1>1. DividedLong(w, f, q, r) =
          [quotient |-> Mask(w, q), remainder |-> Mask(w, r), ccr |-> Logical(f, w, q).ccr]
  BY DEF DividedLong
<1>2. Logical(f, w, q).ccr =
          [x |-> f.x, n |-> Msb(w, q), z |-> Mask(w, q) = 0, v |-> FALSE, c |-> FALSE]
  BY LogicalIs
<1> DEFINE c == Logical(f, w, q).ccr
<1>3. ~c.v
  BY <1>2
<1> HIDE DEF c
<1> QED BY <1>1, <1>3 DEF c

LEMMA OverflowLongIs ==
    ASSUME NEW f \in Flags, NEW p
    PROVE  LET a == OverflowLong(f, p)
           IN  a.quotient = p.lo /\ a.remainder = p.hi /\ a.ccr.v
  BY DEF OverflowLong, Flags

\* A number that fits is what its register stands for.
LEMMA FittingIs ==
    ASSUME NEW w, HasSign(w), NEW signed \in BOOLEAN, NEW n \in Int, Fitting(signed, w, n)
    PROVE  Signing(signed, w, Mask(w, n)) = n
<1>1. CASE signed
  BY <1>1, SignedOfAny DEF Signing, Fitting
<1>2. CASE ~signed
  <2> DEFINE M == 2^w
  <2>1. M \in Nat \ {0} /\ n \in Int /\ 0 <= n /\ n < M
    BY <1>2 DEF Fitting, Unsigned, HasSign
  <2> HIDE DEF M
  <2>2. n % M = n
    BY <2>1, DividedAs
  <2> QED BY <1>2, <2>2 DEF Signing, Mask, M
<1> QED BY <1>1, <1>2

LEMMA RightQuotient ==
    ASSUME NEW w, HasSign(w), NEW signed \in BOOLEAN, NEW f, NEW p,
           NEW n \in Int, NEW b \in Int \ {0}, Fitting(signed, w, b), ~signed => n >= 0,
           Fitting(signed, w, Quotient(n, b))
    PROVE  IsLongQuotient(w, signed, DividedLong(w, f, Quotient(n, b), Remainder(n, b)), n, b, p)
<1> DEFINE q == Quotient(n, b)
           r == Remainder(n, b)
           a == DividedLong(w, f, q, r)
<1>1. q \in Int /\ r \in Int /\ IsQuotient(q, r, n, b)
  BY QuotientIs
<1>2. Magnitude(r) < Magnitude(b) /\ (r = 0 \/ (r < 0) = (n < 0))
  BY <1>1 DEF IsQuotient
<1> HIDE DEF q, r
<1>3. Fitting(signed, w, r)
  <2>1. CASE signed
    BY <1>1, <1>2, <2>1, RestFits DEF Fitting
  <2>2. CASE ~signed
    <3>1. b \in Int /\ 0 <= b /\ b < 2^w
      BY <2>2 DEF Fitting, Unsigned, HasSign
    <3>2. r >= 0
      BY <1>1, <1>2, <2>2
    <3>3. r < b
      BY <1>1, <1>2, <3>1, <3>2 DEF Magnitude
    <3> DEFINE M == 2^w
    <3>4. M \in Int
      BY DEF HasSign
    <3>5. r \in 0 .. M - 1
      <4>1. b < M
        BY <3>1
      <4> HIDE DEF M
      <4> QED BY <1>1, <3>1, <3>2, <3>3, <3>4, <4>1
    <3> QED BY <2>2, <3>5 DEF Fitting, Unsigned
  <2> QED BY <2>1, <2>2
<1>4. Signing(signed, w, Mask(w, q)) = q /\ Signing(signed, w, Mask(w, r)) = r
  BY <1>1, <1>3, FittingIs DEF q
<1>5. a.quotient = Mask(w, q) /\ a.remainder = Mask(w, r) /\ ~a.ccr.v
  BY DividedLongIs
<1> HIDE DEF a
<1> QED BY <1>1, <1>4, <1>5 DEF IsLongQuotient, a, q, r

\* The division of magnitudes, with the signs it is given.
LEMMA DivideUnsignedIs ==
    ASSUME NEW w \in Nat \ {0}, Doubling(w), HasSign(w), NEW f \in Flags, NEW signed \in BOOLEAN,
           NEW n \in Int, NEW b \in Int \ {0}, Fitting(signed, w, b), ~signed => n >= 0,
           NEW D, D.hi \in Unsigned(w), D.lo \in Unsigned(w), Whole(w, D) = Magnitude(n),
           Magnitude(b) \in Unsigned(w), NEW p, NEW opposite \in BOOLEAN, NEW negative \in BOOLEAN,
           opposite <=> ((n < 0) # (b < 0)), negative <=> n < 0
    PROVE  IsLongQuotient(w, signed,
               DivideUnsigned(w, f, p, Magnitude(b), D, signed, opposite, negative), n, b, p)
<1> DEFINE M == 2^w
           H == 2^(w - 1)
           N == Magnitude(n)
           S == Magnitude(b)
           q == N \div S
           r == N % S
           Q == Quotient(n, b)
           R == Remainder(n, b)
           a == DivideUnsigned(w, f, p, S, D, signed, opposite, negative)
<1>1. /\ M \in Nat \ {0} /\ H \in Nat \ {0} /\ M = 2 * H /\ N \in Nat /\ S \in Nat \ {0} /\ S \in 1 .. M - 1
      /\ D.hi \in 0 .. M - 1 /\ D.lo \in 0 .. M - 1
  <2>1. M \in Nat \ {0} /\ H \in Nat \ {0} /\ M = 2 * H /\ D.hi \in 0 .. M - 1 /\ D.lo \in 0 .. M - 1
        /\ S \in 0 .. M - 1
    BY DEF HasSign, Unsigned
  <2>2. N \in Nat /\ S \in Nat \ {0}
    BY DEF Magnitude
  <2> HIDE DEF M, S
  <2> QED BY <2>1, <2>2
<1>2. q \in Nat /\ r \in 0 .. S - 1 /\ N = q * S + r
  <2> HIDE DEF N, S
  <2> QED BY <1>1, NaturalDivision
<1>3. Q \in Int /\ Magnitude(Q) = q /\ Q = IF (n < 0) # (b < 0) THEN -q ELSE q
  BY QuotientIs
<1>4. R = IF n < 0 THEN -r ELSE r
  <2>1. r \in Nat /\ r < S
    BY <1>1, <1>2
  <2> HIDE DEF q, r
  <2> QED BY <1>2, <2>1, SignsOfQuotient
<1>5. (D.hi >= S) <=> (q >= M)
  <2>1. N = D.hi * M + D.lo
    BY DEF Whole
  <2> HIDE DEF N, S, M
  <2>2. D.hi \in Int /\ S \in Int /\ N \in Int /\ M \in Int
    BY <1>1
  <2>3. (D.hi * M + D.lo < S * M) <=> (D.hi < S)
    BY <1>1, <2>2, SameSide
  <2>4. \A k \in Int : (N < k * S) <=> (q < k)
    BY <1>1, <2>2, DivisionOf
  <2>5. S * M = M * S
    BY <2>2, Z3
  <2> DEFINE x == M * S
  <2> HIDE DEF q
  <2>6. (N < x) <=> (q < M)
    BY <2>2, <2>4
  <2>7. (N < x) <=> (D.hi < S)
    BY <2>1, <2>3, <2>5
  <2> HIDE DEF x
  <2> QED BY <1>1, <1>2, <2>2, <2>6, <2>7
<1> HIDE DEF N, S, q, r, Q, R, a, M, H
<1>6. Fitting(signed, w, Q) => q < M
  <2>1. Fitting(signed, w, Q) => Q \in -H .. M - 1
    BY <1>1, <1>3 DEF Fitting, InRange, Unsigned, H, M
  <2>2. Q = q \/ Q = -q
    BY <1>3
  <2> QED BY <1>1, <1>2, <2>1, <2>2
<1>7. CASE D.hi >= S
  <2>1. a = OverflowLong(f, p)
    BY <1>7 DEF DivideUnsigned, a
  <2>2. a.quotient = p.lo /\ a.remainder = p.hi /\ a.ccr.v
    BY <2>1, OverflowLongIs
  <2>3. ~Fitting(signed, w, Q)
    BY <1>1, <1>2, <1>5, <1>6, <1>7
  <2> QED BY <2>2, <2>3 DEF IsLongQuotient, a, S, Q
<1>8. CASE ~(D.hi >= S)
  <2> DEFINE A == LongDivide(w, S, D)
  <2>1. A.q = q /\ A.r = r
    <3>1. D.hi \in 0 .. S - 1 /\ S \in Unsigned(w) \ {0}
      BY <1>1, <1>8 DEF Unsigned, M
    <3>2. D.hi * 2^w + D.lo = N
      BY DEF Whole, N
    <3>3. A.q = (D.hi * 2^w + D.lo) \div S /\ A.r = (D.hi * 2^w + D.lo) % S
      BY <3>1, LongDivideIs
    <3> QED BY <3>2, <3>3 DEF q, r
  <2> HIDE DEF A
  <2>2. a = QuotientOf(w, f, p, A, signed, opposite, negative)
    BY <1>8 DEF DivideUnsigned, a, A
  <2>3. CASE signed /\ q > H - 1
    <3>1. a = OverflowLong(f, p)
      BY <2>1, <2>2, <2>3 DEF QuotientOf, H
    <3>2. a.quotient = p.lo /\ a.remainder = p.hi /\ a.ccr.v
      BY <3>1, OverflowLongIs
    <3>3. CASE q = H
      <4>1. Q \in {-H, H}
        BY <1>3, <3>3
      <4> QED BY <2>3, <4>1 DEF IsLongQuotient, a, S, Q, H
    <3>4. CASE q # H
      <4>1. q > H
        BY <1>1, <1>2, <2>3, <3>4
      <4>2. Q \notin -H .. H - 1
        <5>1. Q = q \/ Q = -q
          BY <1>3
        <5> QED BY <1>1, <1>2, <4>1, <5>1
      <4>3. ~Fitting(signed, w, Q)
        BY <2>3, <4>2 DEF Fitting, InRange, H
      <4> QED BY <3>2, <4>3 DEF IsLongQuotient, a, S, Q
    <3> QED BY <3>3, <3>4
  <2>4. CASE ~(signed /\ q > H - 1)
    <3>1. a = DividedLong(w, f, IF opposite THEN -q ELSE q, IF negative THEN -r ELSE r)
      BY <2>1, <2>2, <2>4 DEF QuotientOf, H
    <3>2. (IF opposite THEN -q ELSE q) = Q
      <4>1. CASE opposite
        BY <1>3, <4>1
      <4>2. CASE ~opposite
        BY <1>3, <4>2
      <4> QED BY <4>1, <4>2
    <3>3. (IF negative THEN -r ELSE r) = R
      <4>1. CASE negative
        BY <1>4, <4>1
      <4>2. CASE ~negative
        BY <1>4, <4>2
      <4> QED BY <4>1, <4>2
    <3>4. Fitting(signed, w, Q)
      <4>1. CASE signed
        <5>1. q <= H - 1
          BY <1>1, <1>2, <2>4, <4>1
        <5>2. Q = q \/ Q = -q
          BY <1>3
        <5>3. Q \in -H .. H - 1
          BY <1>1, <1>2, <5>1, <5>2
        <5> QED BY <4>1, <5>3 DEF Fitting, InRange, H
      <4>2. CASE ~signed
        <5>1. ~(b < 0) /\ ~(n < 0)
          BY <4>2 DEF Fitting, Unsigned, HasSign
        <5>2. Q = q
          BY <1>3, <5>1
        <5>3. q \in 0 .. M - 1
          BY <1>1, <1>2, <1>5, <1>8
        <5> QED BY <4>2, <5>2, <5>3 DEF Fitting, Unsigned, M
      <4> QED BY <4>1, <4>2
    <3>5. a = DividedLong(w, f, Q, R)
      BY <3>1, <3>2, <3>3
    <3>6. IsLongQuotient(w, signed, DividedLong(w, f, Q, R), n, b, p)
      BY <3>4, RightQuotient DEF Q, R
    <3> QED BY <3>5, <3>6 DEF a, S
  <2> QED BY <2>3, <2>4
<1> QED BY <1>7, <1>8

\* A divisor that is not 0, and the size of its number.
LEMMA DivisorIs ==
    ASSUME NEW w, HasSign(w), NEW signed \in BOOLEAN, NEW s \in Unsigned(w) \ {0}
    PROVE  LET b == Signing(signed, w, s)
           IN  /\ b \in Int \ {0} /\ Fitting(signed, w, b) /\ Magnitude(b) \in Unsigned(w)
               /\ Magnitude(b) = IF signed THEN Absolute(w, s) ELSE s
               /\ (signed /\ Msb(w, s)) <=> b < 0
<1> DEFINE b == Signing(signed, w, s)
<1>1. s \in Int /\ s # 0 /\ ~(s < 0) /\ 2^w \in Nat \ {0} /\ 2^(w - 1) \in Nat \ {0} /\ 2^w = 2 * 2^(w - 1)
      /\ s < 2^w
  BY DEF Unsigned, HasSign
<1>2. CASE signed
  <2>1. b = Signed(w, s)
    BY <1>2 DEF Signing
  <2>2. InRange(w, b) /\ b = IF s >= 2^(w - 1) THEN s - 2^w ELSE s
    BY <2>1, SignedIs
  <2>3. b # 0
    <3> DEFINE M == 2^w
    <3>1. b = s \/ b = s - M
      BY <2>2
    <3>2. M \in Int /\ s < M /\ s \in Int /\ s # 0
      BY <1>1
    <3> HIDE DEF M, b
    <3> QED BY <3>1, <3>2
  <2>4. /\ Absolute(w, s) = Magnitude(b) /\ Absolute(w, s) \in Unsigned(w) /\ b \in Int
        /\ Msb(w, s) <=> b < 0
    BY <2>1, AbsoluteIs
  <2> HIDE DEF b
  <2>5. Fitting(signed, w, b)
    BY <1>2, <2>2 DEF Fitting
  <2> QED BY <1>2, <2>3, <2>4, <2>5 DEF b
<1>3. CASE ~signed
  <2>1. b = s
    BY <1>3 DEF Signing
  <2>2. Magnitude(b) = s
    BY <1>1, <2>1 DEF Magnitude
  <2> HIDE DEF b
  <2>3. Fitting(signed, w, b)
    BY <1>3, <2>1 DEF Fitting
  <2>4. b \in Int \ {0} /\ ~(b < 0) /\ Magnitude(b) \in Unsigned(w) /\ Magnitude(b) = s
    BY <1>1, <2>1, <2>2
  <2> QED BY <1>3, <2>3, <2>4 DEF b
<1> QED BY <1>2, <1>3

\* DIVU.L and DIVS.L with a dividend of one register.
LEMMA DivideOneIs ==
    ASSUME NEW w, HasSign(w), NEW f \in Flags, NEW signed \in BOOLEAN,
           NEW s \in Unsigned(w) \ {0}, NEW t \in Unsigned(w), NEW p
    PROVE  IsLongQuotient(w, signed, DIVL_32(w, f, s, t, signed),
                          Signing(signed, w, t), Signing(signed, w, s), p)
<1> DEFINE M == 2^w
           H == 2^(w - 1)
           n == Signing(signed, w, t)
           b == Signing(signed, w, s)
           a == DIVL_32(w, f, s, t, signed)
           q == Magnitude(n) \div Magnitude(b)
           Q == Quotient(n, b)
           R == Remainder(n, b)
<1>1. M \in Nat \ {0} /\ H \in Nat \ {0} /\ M = 2 * H /\ t \in 0 .. M - 1 /\ s \in 1 .. M - 1
  BY DEF HasSign, Unsigned
<1>2. b \in Int \ {0} /\ Fitting(signed, w, b)
  <2> HIDE DEF b
  <2> QED BY DivisorIs DEF b
<1>3. n \in Int /\ (signed => n \in -H .. H - 1) /\ (~signed => n = t /\ n >= 0)
  <2>1. CASE signed
    <3>1. n = Signed(w, t) /\ InRange(w, Signed(w, t)) /\ Signed(w, t) \in Int
      BY <2>1, SignedIs DEF Signing, InRange
    <3> QED BY <2>1, <3>1 DEF InRange
  <2>2. CASE ~signed
    <3>1. n = t
      BY <2>2 DEF Signing
    <3> HIDE DEF n, M
    <3> QED BY <1>1, <2>2, <3>1
  <2> QED BY <2>1, <2>2
<1> HIDE DEF n, b
<1>4. Q \in Int /\ Magnitude(Q) = q /\ Q = IF (n < 0) # (b < 0) THEN -q ELSE q
  BY <1>2, <1>3, QuotientIs
<1>5. q \in Nat /\ q <= Magnitude(n) /\ (b # 1 /\ b # -1 => q < Magnitude(n) \/ n = 0)
  <2> DEFINE N == Magnitude(n)
             S == Magnitude(b)
  <2>1. N \in Nat /\ S \in Nat \ {0} /\ (n # 0 => N # 0) /\ (b # 1 /\ b # -1 => S # 1)
    BY <1>2, <1>3 DEF Magnitude
  <2> HIDE DEF N, S
  <2>2. q \in Nat /\ \A k \in Int : (N < k * S) <=> (q < k)
    <3>1. N \in Int
      BY <2>1
    <3>2. N \div S \in Nat
      BY <2>1, NaturalDivision
    <3>3. \A k \in Int : (N < k * S) <=> (N \div S < k)
      BY <2>1, <3>1, DivisionOf
    <3> QED BY <3>2, <3>3 DEF N, S
  <2>3. (N < (N + 1) * S) <=> (q < N + 1)
    BY <2>1, <2>2
  <2>4. (N < N * S) <=> (q < N)
    BY <2>1, <2>2
  <2>5. (N + 1) * S >= N + 1 /\ (N + 1) * S \in Int
    BY <2>1, Z3
  <2>6. S # 1 /\ N # 0 => N * S > N
    BY <2>1, Z3
  <2>7. N * S \in Int
    BY <2>1, Z3
  <2> HIDE DEF q
  <2> DEFINE x == (N + 1) * S
             y == N * S
  <2> HIDE DEF x, y
  <2>8. (N < x) <=> (q < N + 1)
    BY <2>3 DEF x
  <2>9. x >= N + 1 /\ x \in Int
    BY <2>5 DEF x
  <2>10. q <= N
    BY <2>1, <2>2, <2>8, <2>9
  <2>11. (S # 1 /\ N # 0) => q < N
    BY <2>1, <2>2, <2>4, <2>6
  <2> QED BY <2>1, <2>2, <2>10, <2>11 DEF N
<1> HIDE DEF q, Q, R, a, M, H
<1>6. CASE signed /\ Q \in {-H, H}
  BY <1>6 DEF IsLongQuotient, Q, H, n, b
<1>7. CASE ~(signed /\ Q \in {-H, H})
  <2>1. Fitting(signed, w, Q)
    <3>1. CASE signed
      <4>1. Magnitude(n) \in 0 .. H
        BY <1>1, <1>3, <3>1 DEF Magnitude
      <4>2. Q = q \/ Q = -q
        BY <1>4
      <4>3. q <= H
        BY <1>1, <1>5, <4>1
      <4>4. q # H
        BY <1>7, <3>1, <4>2
      <4>5. Q \in -H .. H - 1
        BY <1>1, <1>5, <4>2, <4>3, <4>4
      <4> QED BY <3>1, <4>5 DEF Fitting, InRange, H
    <3>2. CASE ~signed
      <4>1. ~(b < 0) /\ ~(n < 0) /\ Magnitude(n) = n
        BY <1>2, <1>3, <3>2 DEF Fitting, Unsigned, Magnitude, HasSign
      <4>2. Q = q
        BY <1>4, <4>1
      <4>3. q \in 0 .. M - 1
        BY <1>1, <1>3, <1>5, <3>2, <4>1
      <4> QED BY <3>2, <4>2, <4>3 DEF Fitting, Unsigned, M
    <3> QED BY <3>1, <3>2
  <2>2. IsLongQuotient(w, signed, DividedLong(w, f, Q, R), n, b, p)
    BY <1>2, <1>3, <2>1, RightQuotient DEF Q, R
  <2>3. a = DividedLong(w, f, Q, R)
    <3>1. CASE signed
      <4>1. n = Signed(w, t) /\ b = Signed(w, s)
        BY <3>1 DEF n, b, Signing
      <4>2. ~(n = -H /\ b = -1)
        <5> SUFFICES ASSUME n = -H, b = -1
                     PROVE  Q = H
          BY <1>7, <3>1
        <5>1. Magnitude(n) = H /\ Magnitude(b) = 1
          <6>1. H \in Nat \ {0} /\ 1 \in Nat \ {0}
            BY <1>1
          <6> QED BY <6>1, MagnitudeOfNegative
        <5>2. H \div 1 = H
          BY <1>1
        <5>3. q = H
          BY <5>1, <5>2 DEF q
        <5> QED BY <1>1, <1>4, <5>3
      <4>3. a = DividedLong(w, f, Quotient(n, b), Remainder(n, b))
        BY <3>1, <4>1, <4>2 DEF DIVL_32, a, H
      <4> QED BY <4>3 DEF Q, R
    <3>2. CASE ~signed
      <4>1. n = t /\ b = s
        BY <3>2 DEF n, b, Signing
      <4>2. Q = t \div s /\ R = t % s
        <5>1. t \in Nat /\ s \in Nat \ {0}
          BY <1>1
        <5> QED BY <4>1, <5>1, NaturalQuotient DEF Q, R
      <4>3. a = DividedLong(w, f, t \div s, t % s)
        BY <3>2 DEF DIVL_32, a
      <4> QED BY <4>2, <4>3
    <3> QED BY <3>1, <3>2
  <2> QED BY <2>2, <2>3 DEF a, n, b
<1> QED BY <1>6, <1>7 DEF a, n, b

\* DIVU.L and DIVS.L with a dividend of two registers.
LEMMA DivideTwoIs ==
    ASSUME NEW f \in Flags, NEW signed \in BOOLEAN, NEW s \in Unsigned(WORD) \ {0},
           NEW p, p.hi \in Unsigned(WORD), p.lo \in Unsigned(WORD)
    PROVE  IsLongQuotient(WORD, signed, DIVL(WORD, f, s, p, signed),
                          Signing(signed, LONG, Whole(WORD, p)), Signing(signed, WORD, s), p)
<1> DEFINE M == 2^WORD
           H == 2^(WORD - 1)
           u == Whole(WORD, p)
           n == Signing(signed, LONG, u)
           b == Signing(signed, WORD, s)
           a == DIVL(WORD, f, s, p, signed)
           hi == p.hi
           lo == p.lo
           negative == signed /\ Msb(WORD, p.hi)
           opposite == negative # (signed /\ Msb(WORD, s))
           D == WithSign(WORD, negative, p)
<1>1. /\ WORD \in Nat \ {0} /\ Doubling(WORD) /\ HasSign(WORD) /\ H \in Nat \ {0} /\ M = 2 * H
      /\ M \in Nat \ {0} /\ 2^LONG = M * M
      /\ hi \in 0 .. M - 1 /\ lo \in 0 .. M - 1
  <2>1. Doubling(WORD)
    <3>1. \A i \in 0 .. WORD - 1 : i \in 0 .. LONG
      BY M68kAssumption
    <3> QED BY <3>1, PowersOfTwo DEF Doubling
  <2> QED BY <2>1, M68kAssumption, SizesAre DEF HasSign, Unsigned
<1>2. /\ b \in Int \ {0} /\ Fitting(signed, WORD, b) /\ Magnitude(b) \in Unsigned(WORD)
      /\ Magnitude(b) = IF signed THEN Absolute(WORD, s) ELSE s
      /\ (signed /\ Msb(WORD, s)) <=> b < 0
  BY <1>1, DivisorIs
<1>3. u = hi * M + lo /\ u \in Nat
  <2>1. hi * M + lo \in Nat
    <3> HIDE DEF M, hi, lo
    <3> QED BY <1>1
  <2> QED BY <2>1 DEF Whole
<1>4. Msb(WORD, hi) <=> hi >= H
  BY SignedIs, <1>1
<1> DEFINE S == M * M
           x == hi * M
<1>5. S \in Nat \ {0} /\ x \in Nat /\ u = x + lo
  <2>1. M * M \in Nat \ {0} /\ hi * M \in Nat
    <3> HIDE DEF M, hi
    <3> QED BY <1>1
  <2> QED BY <1>3, <2>1
<1>6. n = IF signed /\ hi >= H THEN u - S ELSE u
  <2>1. CASE signed
    <3>1. n = Signed(LONG, hi * M + lo)
      BY <1>3, <2>1 DEF Signing
    <3>2. Signed(LONG, hi * M + lo) = Signed(WORD, hi) * M + lo
      BY PairIs
    <3>3. Signed(WORD, hi) = IF hi >= H THEN hi - M ELSE hi
      BY <1>1, SignedIs
    <3>4. (hi - M) * M = x - S
      <4>1. M \in Int /\ hi \in Int
        BY <1>1
      <4> HIDE DEF M, hi
      <4> QED BY <4>1, Z3
    <3> HIDE DEF M, H, hi, n, u
    <3>5. CASE hi >= H
      <4>1. n = (hi - M) * M + lo
        BY <3>1, <3>2, <3>3, <3>5
      <4> HIDE DEF x, S
      <4>2. n = (x - S) + lo
        BY <3>4, <4>1
      <4> QED BY <1>1, <1>5, <2>1, <3>5, <4>2
    <3>6. CASE ~(hi >= H)
      BY <1>3, <3>1, <3>2, <3>3, <3>6
    <3> QED BY <3>5, <3>6
  <2>2. CASE ~signed
    BY <2>2 DEF Signing
  <2> QED BY <2>1, <2>2
<1>7. u < S /\ (hi >= H => 0 < S - u /\ S - u < S) /\ (hi >= H => u > 0)
  <2> HIDE DEF M, H, hi, lo, u
  <2>1. (hi * M + lo < M * M) <=> (hi < M)
    BY <1>1, SameSide
  <2>2. hi >= H => hi * M >= M
    BY <1>1, Z3
  <2> HIDE DEF x, S
  <2>3. x + lo < S
    BY <1>1, <2>1 DEF x, S
  <2>4. hi >= H => x > 0
    BY <1>1, <2>2 DEF x
  <2> QED BY <1>1, <1>5, <2>3, <2>4
<1> HIDE DEF u, M, H, hi, lo, S, x
<1>8. n \in Int /\ (negative <=> n < 0) /\ (~signed => n >= 0) /\ negative \in BOOLEAN
  <2>1. negative <=> (signed /\ hi >= H)
    BY <1>4 DEF hi
  <2> HIDE DEF n, negative
  <2>2. negative <=> n < 0
    BY <1>3, <1>5, <1>6, <1>7, <2>1
  <2>3. n \in Int /\ (~signed => n >= 0)
    BY <1>3, <1>5, <1>6
  <2>4. negative \in BOOLEAN
    BY DEF negative, Msb, Bit
  <2> QED BY <2>2, <2>3, <2>4
<1>9. D.hi \in Unsigned(WORD) /\ D.lo \in Unsigned(WORD) /\ Whole(WORD, D) = Magnitude(n)
  <2>1. CASE negative
    <3>1. n = u - S /\ n < 0 /\ hi >= H
      <4> HIDE DEF n
      <4> QED BY <1>4, <1>6, <1>8, <2>1 DEF hi
    <3>2. D = NegateTwo(WORD, p)
      BY <2>1 DEF WithSign
    <3>3. /\ D.hi \in Unsigned(WORD) /\ D.lo \in Unsigned(WORD)
          /\ D.hi * 2^WORD + D.lo = (-(p.hi * 2^WORD + p.lo)) % (2^WORD * 2^WORD)
      BY <1>1, <3>2, NegateTwoIs
    <3>4. Whole(WORD, D) = (-u) % S
      BY <3>3 DEF Whole, u, S, M
    <3>5. (-u) % S = (-u) + S
      <4>1. -u \in Int /\ -S <= -u /\ -u < 0
        BY <1>3, <1>5, <1>7, <3>1
      <4> QED BY <1>5, <4>1, DividedAs
    <3>6. Magnitude(n) = -u + S
      <4> HIDE DEF n
      <4> QED BY <1>3, <1>5, <3>1 DEF Magnitude
    <3> QED BY <3>3, <3>4, <3>5, <3>6
  <2>2. CASE ~negative
    <3>1. D = p
      <4> HIDE DEF negative
      <4> QED BY <2>2 DEF WithSign
    <3>2. n = u /\ ~(n < 0)
      <4> HIDE DEF n, negative
      <4>1. ~(n < 0)
        BY <1>8, <2>2
      <4>2. n = u - S \/ n = u
        BY <1>6
      <4> QED BY <1>3, <1>5, <1>7, <4>1, <4>2
    <3>3. Magnitude(n) = u
      <4> HIDE DEF n
      <4> QED BY <3>2 DEF Magnitude
    <3> QED BY <3>1, <3>3 DEF u
  <2> QED BY <2>1, <2>2
<1>10. opposite \in BOOLEAN /\ (opposite <=> ((n < 0) # (b < 0)))
  <2>1. opposite \in BOOLEAN
    OBVIOUS
  <2>2. (signed /\ Msb(WORD, s)) \in BOOLEAN
    OBVIOUS
  <2>3. (negative = (n < 0)) /\ ((signed /\ Msb(WORD, s)) = (b < 0))
    BY <1>2, <1>8
  <2>4. opposite = ((n < 0) # (b < 0))
    BY <2>3
  <2> QED BY <2>1, <2>4
<1> HIDE DEF a, b, n, D, negative, opposite
<1>11. CASE signed /\ p.hi = 0 /\ p.lo = H /\ s = M - 1
  <2>1. Quotient(n, b) = -H
    <3>1. ~(hi >= H)
      BY <1>1, <1>11 DEF hi
    <3>2. x = 0
      BY <1>1, <1>11 DEF x, hi
    <3>3. n = H
      BY <1>1, <1>5, <1>6, <1>11, <3>1, <3>2 DEF lo
    <3>4. b = -1
      <4>1. s \in Unsigned(WORD) /\ s >= H
        BY <1>1, <1>11
      <4>2. b = s - M
        BY <1>1, <1>11, <4>1, SignedIs DEF b, Signing, M, H
      <4> QED BY <1>1, <1>11, <4>2
    <3>5. Magnitude(n) = H /\ Magnitude(b) = 1 /\ ~(n < 0) /\ b < 0
      <4>1. 1 \in Nat \ {0} /\ H \in Nat /\ ~(H < 0)
        BY <1>1
      <4>2. Magnitude(H) = H
        BY <4>1 DEF Magnitude
      <4>3. Magnitude(-1) = 1 /\ -1 < 0
        BY <4>1, MagnitudeOfNegative
      <4> QED BY <3>3, <3>4, <4>1, <4>2, <4>3
    <3>6. H \div 1 = H
      BY <1>1
    <3> QED BY <3>5, <3>6 DEF Quotient
  <2> QED BY <1>11, <2>1 DEF IsLongQuotient, n, b, H, u
<1>12. CASE ~(signed /\ p.hi = 0 /\ p.lo = H /\ s = M - 1)
  <2>1. a = DivideUnsigned(WORD, f, p, IF signed THEN Absolute(WORD, s) ELSE s, D, signed, opposite, negative)
    BY <1>12 DEF DIVL, a, D, opposite, negative, M, H
  <2>2. a = DivideUnsigned(WORD, f, p, Magnitude(b), D, signed, opposite, negative)
    BY <1>2, <2>1
  <2>3. IsLongQuotient(WORD, signed,
            DivideUnsigned(WORD, f, p, Magnitude(b), D, signed, opposite, negative), n, b, p)
    BY <1>1, <1>2, <1>8, <1>9, <1>10, DivideUnsignedIs
  <2> QED BY <2>2, <2>3 DEF a, n, b, u
<1> QED BY <1>11, <1>12

-----------------------------------------------------------------------------
(* What these instructions do to a routine                                 *)

\* What the instruction says is stored, and nothing else happens.
LEMMA CalculatedSteps ==
    ASSUME GuestNext, Here.op \in Calculated
    PROVE  /\ Running /\ UNCHANGED <<routine, code, was>>
           /\ Here.op \notin {"DBcc", "DIVU", "DIVS", "DIVL"} => pc' = pc + 1
           /\ LET w == Here.w
                  s == Operand(w, Here.s)
                  t == Operand(w, Here.d)
                  ws == Operand(WORD, Here.s)
                  long == d[Here.d]
                  n == d[Here.s]
              IN  /\ Here.op = "CLR" => Stores(w, Here.d, CLR(w, ccr, s, t))
                  /\ Here.op = "SWAP" => Stores(w, Here.d, SWAP(w, ccr, s, t))
                  /\ Here.op = "MULU" => Stores(LONG, Here.d, MULU(WORD, ccr, ws, Mask(WORD, long)))
                  /\ Here.op = "MULS" => Stores(LONG, Here.d, MULS(WORD, ccr, ws, Mask(WORD, long)))
                  /\ Here.op = "DIVU" /\ ws # 0 => Stores(LONG, Here.d, DIVU(WORD, ccr, ws, long))
                  /\ Here.op = "DIVS" /\ ws # 0 => Stores(LONG, Here.d, DIVS(WORD, ccr, ws, long))
                  /\ Here.op \in {"DIVU", "DIVS"} /\ ws = 0 => Goes(Trapped) /\ UNCHANGED <<d, ccr>>
                  /\ Here.op = "DIVL" =>
                         DivideLong \/ (ws = 0 /\ Goes(Trapped) /\ UNCHANGED <<d, ccr>>)
                  /\ Here.op = "MULL" => MultiplyLong
                  /\ Here.op = "DBcc" => DBcc
                  /\ Here.op = "ASL" => Stores(w, Here.d, ASL(w, ccr, n, t))
                  /\ Here.op = "ASR" => Stores(w, Here.d, ASR(w, ccr, n, t))
                  /\ Here.op = "LSL" => Stores(w, Here.d, LSL(w, ccr, n, t))
                  /\ Here.op = "LSR" => Stores(w, Here.d, LSR(w, ccr, n, t))
                  /\ Here.op = "ROL" => Stores(w, Here.d, ROL(w, ccr, n, t))
                  /\ Here.op = "ROR" => Stores(w, Here.d, ROR(w, ccr, n, t))
                  /\ Here.op = "ROXL" => Stores(w, Here.d, ROXL(w, ccr, n, t))
                  /\ Here.op = "ROXR" => Stores(w, Here.d, ROXR(w, ccr, n, t))
<1>1. FollowedStep => Here.op \in Followed
  BY DEF FollowedStep, Add, Sub, Neg, AddSubQuick, Address, BinaryDecimal, Compare,
         CompareAndSwap, Bcc, Scc, ExecutesQuick, ExecutesLong, ExecutesDecimal, Executes, Followed
<1>2. Here.op \notin Followed
  BY DEF Followed, Calculated
<1>3. Move => Executes("MOVE", MOVE) \/ OtherInstruction
  BY DEF Move, OtherInstruction
<1>4. Next => FollowedStep \/ OtherInstruction
  BY <1>3 DEF Next, FollowedStep, OtherInstruction
<1>5. OtherInstruction
  BY <1>1, <1>2, <1>4, MemorySteps DEF GuestNext, MemoryAside
<1>6. Running /\ UNCHANGED <<routine, code, was>>
  BY <1>5, RegisterSteps DEF Aside
<1>7. CASE Executes("CLR", CLR) \/ Executes("SWAP", SWAP)
  BY <1>6, <1>7 DEF Executes, Stores, Goes
<1>8. CASE ExecutesLong("EXT", LAMBDA w, f, s, t : EXT(w, LONG, f, Mask(w, t)))
  BY <1>6, <1>8 DEF ExecutesLong, Stores, Goes
<1>9. CASE Logic \/ ChangeBit \/ ChangeField \/ InsertField \/ ExtractField
  BY <1>9 DEF Logic, ChangeBit, ChangeField, InsertField, ExtractField, ExecutesField,
              ExecutesCount, Executes, Calculated
<1>10. CASE Shift
  BY <1>6, <1>10 DEF Shift, ExecutesCount, Executes, Stores, Goes
<1>11. CASE Rotate
  BY <1>6, <1>11 DEF Rotate, ExecutesCount, Executes, Stores, Goes
<1>12. CASE Multiply
  BY <1>6, <1>12 DEF Multiply, ExecutesLong, Stores, Goes
<1>13. CASE Divide
  BY <1>6, <1>13 DEF Divide, ExecutesLong
<1>14. CASE MultiplyLong
  <2>1. Here.op = "MULL" /\ pc' = pc + 1
    BY <1>14 DEF MultiplyLong, Goes
  <2> QED BY <1>6, <1>14, <2>1
<1>15. CASE DivideLong
  <2>1. Here.op = "DIVL"
    BY <1>15 DEF DivideLong
  <2> QED BY <1>6, <1>15, <2>1
<1>16. CASE DBcc
  <2>1. Here.op = "DBcc"
    BY <1>16 DEF DBcc
  <2> QED BY <1>6, <1>16, <2>1
<1> QED BY <1>5, <1>7, <1>8, <1>9, <1>10, <1>11, <1>12, <1>13, <1>14, <1>15, <1>16
        DEF OtherInstruction

\* The programs, and the numbers they begin with.
Programs ==
    /\ routine.name \in {"product", "quotient"} =>
           Len(code) = IF routine.name = "product" THEN 1 ELSE 2
    /\ routine.name \in {"product", "quotient"} => code[1] = Ins(routine.op, WORD, 0, 1)
    /\ routine.name = "quotient" => code[2] = Ins("EXT", WORD, 1, 1)
    /\ routine.name = "longproduct" => code = <<Ins("MULL", WORD, 0, 1)>>
    /\ routine.name = "longquotient" => code = <<Ins("DIVL", WORD, 0, 1)>>
    /\ routine.name = "loop" =>
           code = <<Ins("CLR", LONG, 2, 2), Ins("ADD", LONG, 0, 2), Branch("DBcc", 1, "F", 2)>>
    /\ routine.name = "mul32" =>
           code = <<Ins("MOVE", LONG, 0, 2), Ins("SWAP", LONG, 2, 2), Ins("MULU", WORD, 1, 2),
                    Ins("MOVE", LONG, 1, 3), Ins("SWAP", LONG, 3, 3), Ins("MULU", WORD, 0, 3),
                    Ins("ADD", WORD, 3, 2), Ins("SWAP", LONG, 2, 2), Ins("CLR", WORD, 2, 2),
                    Ins("MULU", WORD, 1, 0), Ins("ADD_32", LONG, 2, 0)>>

LEMMA ProgramsAre == (code = Code(routine) /\ routine.name \in Multiplying) => Programs
<1> SUFFICES ASSUME code = Code(routine), routine.name \in Multiplying PROVE Programs
  OBVIOUS
<1>1. CASE routine.name = "product"
  <2>1. code = <<Ins(routine.op, WORD, 0, 1)>>
    BY <1>1 DEF Code
  <2> QED BY <1>1, <2>1 DEF Programs
<1>2. CASE routine.name = "quotient"
  <2>1. code = <<Ins(routine.op, WORD, 0, 1), Ins("EXT", WORD, 1, 1)>>
    BY <1>2, SMTT(30) DEF Code
  <2> QED BY <1>2, <2>1 DEF Programs
<1>3. CASE routine.name \in {"longproduct", "longquotient"}
  BY <1>3 DEF Code, Programs
<1>4. CASE routine.name = "loop"
  BY <1>4 DEF Code, Programs
<1>5. CASE routine.name = "mul32"
  BY <1>5 DEF Code, Programs
<1> QED BY <1>1, <1>2, <1>3, <1>4, <1>5 DEF Multiplying

Started ==
    /\ code = Code(routine) /\ was.ccr \in Flags /\ was.d \in [REG_D -> Int]
    /\ routine.name \in Multiplying \ {"mul32"} => was.d[0] \in Words
    /\ routine.name \in {"product", "loop", "longproduct", "longquotient"} =>
           was.d[1] \in Words /\ was.d[2] \in Words
    /\ routine.name = "quotient" => was.d[1] \in Longs
    /\ routine.name = "mul32" => was.d[0] \in Longs /\ was.d[1] \in Longs
    /\ routine.name \in {"mul32", "loop"} => was.d[2] = 0 /\ was.d[3] = 0
    /\ routine.name = "product" => routine.op \in {"MULU", "MULS"}
    /\ routine.name = "quotient" => routine.op \in {"DIVU", "DIVS"}
    /\ routine.name \in {"longproduct", "longquotient"} => routine.signed \in BOOLEAN /\ routine.quad \in BOOLEAN

Fresh == pc = 1 /\ d = was.d /\ ccr = was.ccr

\* Initial states of these routines.
LEMMA ProductsBegin ==
    ASSUME OnRegisters, routine.name \in Multiplying
    PROVE  Started /\ Fresh
<1>1. PICK r \in Routines, x \in BOOLEAN, z \in BOOLEAN :
          /\ \E a \in Operands(r)[1], b \in Operands(r)[2],
                c \in Operands(r)[3], e \in Operands(r)[4] :
                 d = [i \in REG_D |-> <<a, b, c, e>>[i + 1]]
          /\ routine = r /\ code = Code(r) /\ pc = 1
          /\ ccr = [x |-> x, n |-> FALSE, z |-> z, v |-> FALSE, c |-> FALSE]
          /\ was = [d |-> d, ccr |-> ccr]
  BY DEF OnRegisters, Init
<1>2. PICK a \in Operands(r)[1], b \in Operands(r)[2],
           c \in Operands(r)[3], e \in Operands(r)[4] :
          d = [i \in REG_D |-> <<a, b, c, e>>[i + 1]]
  BY <1>1
<1>3. was.d = d /\ was.ccr = ccr /\ ccr \in Flags
  BY <1>1 DEF Flags
<1>4. d[0] = a /\ d[1] = b /\ d[2] = c /\ d[3] = e /\ DOMAIN d = REG_D /\ REG_D = {0, 1, 2, 3}
  BY <1>2 DEF REG_D
<1>5. Edge \subseteq Words /\ LongEdge \subseteq Longs /\ Zero \subseteq Words /\ Zero \subseteq Longs
  BY M68kAssumption, SizesAre DEF Words, Longs, Zero, HasSign
<1>6. Words \subseteq Int /\ Longs \subseteq Int
  BY SizesAre DEF Words, Longs, HasSign
<1>7. code = Code(routine) /\ (a \in Int /\ b \in Int /\ c \in Int /\ e \in Int => d \in [REG_D -> Int])
  BY <1>1, <1>2, <1>4
<1>8. CASE r.name \in {"product", "loop", "longproduct"}
  <2>1. Operands(r) = <<Words, Words, Zero, Zero>>
    BY <1>8 DEF Operands
  <2>2. a \in Words /\ b \in Words /\ c \in Words /\ e \in Words /\ c = 0 /\ e = 0
    BY <1>5, <2>1 DEF Zero
  <2>3. d \in [REG_D -> Int]
    BY <1>6, <1>7, <2>2
  <2>4. /\ r.name = "product" => r.op \in {"MULU", "MULS"}
        /\ r.name = "longproduct" => r.signed \in BOOLEAN /\ r.quad \in BOOLEAN
    BY <1>8 DEF Routines, Named
  <2> QED BY <1>1, <1>3, <1>4, <1>7, <1>8, <2>2, <2>3, <2>4 DEF Started, Multiplying, Fresh
<1>9. CASE r.name = "quotient"
  <2>1. Operands(r) = <<Words, Longs, Zero, Zero>>
    BY <1>9 DEF Operands
  <2>2. a \in Words /\ b \in Longs /\ c \in Words /\ e \in Words
    BY <1>5, <2>1
  <2>3. d \in [REG_D -> Int]
    BY <1>6, <1>7, <2>2
  <2>4. r.op \in {"DIVU", "DIVS"}
    BY <1>9 DEF Routines, Named
  <2> QED BY <1>1, <1>3, <1>4, <1>7, <1>9, <2>2, <2>3, <2>4 DEF Started, Multiplying, Fresh
<1>10. CASE r.name = "longquotient"
  <2>1. Operands(r) = <<Words, Words, Words, Zero>>
    BY <1>10 DEF Operands
  <2>2. a \in Words /\ b \in Words /\ c \in Words /\ e \in Words
    BY <1>5, <2>1
  <2>3. d \in [REG_D -> Int]
    BY <1>6, <1>7, <2>2
  <2>4. r.signed \in BOOLEAN /\ r.quad \in BOOLEAN
    BY <1>10 DEF Routines, Named
  <2> QED BY <1>1, <1>3, <1>4, <1>7, <1>10, <2>2, <2>3, <2>4 DEF Started, Multiplying, Fresh
<1>11. CASE r.name = "mul32"
  <2>1. Operands(r) = <<LongEdge, LongEdge, Zero, Zero>>
    BY <1>11 DEF Operands
  <2>2. a \in Longs /\ b \in Longs /\ c \in Words /\ e \in Words /\ c = 0 /\ e = 0
    BY <1>5, <2>1 DEF Zero
  <2>3. d \in [REG_D -> Int]
    BY <1>6, <1>7, <2>2
  <2> QED BY <1>1, <1>3, <1>4, <1>7, <1>11, <2>2, <2>3 DEF Started, Multiplying, Fresh
<1> QED BY <1>1, <1>8, <1>9, <1>10, <1>11 DEF Multiplying

\* What each routine leaves.
SignedOp == routine.op \in {"MULS", "DIVS"}
ProductClaim ==
    d[1] = (Signing(SignedOp, WORD, was.d[0]) * Signing(SignedOp, WORD, was.d[1])) % 2^LONG
QuotientClaim ==
    LET n == Signing(SignedOp, LONG, was.d[1])
        s == Signing(SignedOp, WORD, was.d[0])
    IN  IF Fitting(SignedOp, WORD, Quotient(n, s))
        THEN ~ccr.v /\ IsQuotient(Signing(SignedOp, WORD, d[1] % 2^WORD),
                                  Signing(SignedOp, WORD, d[1] \div 2^WORD), n, s)
        ELSE \/ ccr.v /\ d = was.d
             \/ SignedOp /\ n = -(2^(LONG - 1)) /\ s = -1
Long(r) == IF routine.quad THEN Pair(r, 2, 1) ELSE r[1]
LongSize == IF routine.quad THEN LONG ELSE WORD
LongProductClaim ==
    LET p == Signing(routine.signed, WORD, was.d[0]) * Signing(routine.signed, WORD, was.d[1])
    IN  /\ Long(d) = p % 2^LongSize
        /\ ccr.v = (~routine.quad /\ ~Fitting(routine.signed, WORD, p))
        /\ ccr.z = (p % 2^LongSize = 0) /\ ccr.n = Bit(p, LongSize - 1)
LongQuotientClaim ==
    LET n == Signing(routine.signed, LongSize, Long(was.d))
        s == Signing(routine.signed, WORD, was.d[0])
    IN  \/ /\ ~ccr.v
           /\ IsQuotient(Signing(routine.signed, WORD, d[1]), Signing(routine.signed, WORD, d[2]), n, s)
        \/ ccr.v /\ d = was.d /\ ~Fitting(routine.signed, WORD, Quotient(n, s))
        \/ routine.signed /\ Quotient(n, s) \in {-(2^(WORD - 1)), 2^(WORD - 1)}
LoopClaim == d[2] = (was.d[0] * (was.d[1] + 1)) % 2^LONG /\ d[1] = 2^WORD - 1
LongMultiplyClaim == d[0] = (was.d[0] * was.d[1]) % 2^LONG
TrapClaim == pc = Trapped /\ was.d[0] = 0 /\ d = was.d

LEMMA WordsAreLongs == \A n \in Words : n \in Longs
<1> DEFINE M == 2^WORD
<1>1. M \in Nat \ {0} /\ 2^LONG = M * M
  BY SizesAre DEF HasSign
<1> HIDE DEF M
<1>2. M * M \in Int /\ M * M >= M
  BY <1>1, Z3
<1> DEFINE S == M * M
<1> HIDE DEF S
<1>3. S \in Int /\ S >= M
  BY <1>2 DEF S
<1>4. \A n \in 0 .. M - 1 : n \in 0 .. S - 1
  BY <1>1, <1>3
<1> QED BY <1>1, <1>4 DEF Words, Longs, M, S

\* MULU and MULS.
LEMMA ProductStep ==
    ASSUME GuestNext, Started, Fresh, routine.name = "product"
    PROVE  pc' = 2 /\ ProductClaim'
<1>1. /\ d \in [REG_D -> Int] /\ d[0] \in Words /\ d[1] \in Words /\ d = was.d /\ pc = 1
      /\ routine.op \in {"MULU", "MULS"} /\ code = Code(routine)
  BY DEF Started, Fresh, Multiplying
<1>2. Here.op = routine.op /\ Here.s = 0 /\ Here.d = 1
  BY <1>1, ProgramsAre DEF Programs, Here, Ins, Multiplying
<1>3. Operand(WORD, 0) = d[0] /\ Mask(WORD, d[1]) = d[1]
  BY <1>1, SignedIs, SizesAre DEF Operand, Words, Unsigned
<1> DEFINE so == routine.op \in {"MULS", "DIVS"}
           u == Signing(so, WORD, d[0]) * Signing(so, WORD, d[1])
           a == Logical(ccr, 2 * WORD, u)
<1>4. Stores(LONG, 1, a) /\ pc' = 2 /\ UNCHANGED <<routine, code, was>>
  <2>1. /\ pc' = pc + 1 /\ UNCHANGED <<routine, code, was>>
        /\ routine.op = "MULU" => Stores(LONG, 1, MULU(WORD, ccr, d[0], d[1]))
        /\ routine.op = "MULS" => Stores(LONG, 1, MULS(WORD, ccr, d[0], d[1]))
    BY <1>1, <1>2, <1>3, CalculatedSteps DEF Calculated
  <2>2. CASE routine.op = "MULU"
    <3>1. ~so
      BY <2>2
    <3>2. u = d[0] * d[1]
      BY <3>1 DEF Signing
    <3>3. MULU(WORD, ccr, d[0], d[1]) = a
      BY <3>2 DEF MULU
    <3> HIDE DEF a
    <3> QED BY <1>1, <2>1, <2>2, <3>3
  <2>3. CASE routine.op = "MULS"
    <3>1. so
      BY <2>3
    <3>2. u = Signed(WORD, d[0]) * Signed(WORD, d[1])
      BY <3>1 DEF Signing
    <3>3. MULS(WORD, ccr, d[0], d[1]) = a
      BY <3>2 DEF MULS
    <3> HIDE DEF a
    <3> QED BY <1>1, <2>1, <2>3, <3>3
  <2> HIDE DEF a
  <2> QED BY <1>1, <2>1, <2>2, <2>3
<1>5. u \in Int
  <2> DEFINE x == Signing(so, WORD, d[0])
             y == Signing(so, WORD, d[1])
  <2>1. x \in Int /\ y \in Int
    BY <1>1, SignedIs, SizesAre DEF Signing, Words, Unsigned, InRange, HasSign
  <2> HIDE DEF x, y
  <2>2. x * y \in Int
    BY <2>1, Z3
  <2> QED BY <2>2 DEF x, y
<1> HIDE DEF u
<1>6. a.res = u % 2^LONG /\ a.res \in Longs
  <2>1. a.res = Mask(2 * WORD, u) /\ 2 * WORD = LONG
    BY LogicalIs, M68kAssumption, ZenonT(30)
  <2> HIDE DEF a
  <2>2. a.res = u % 2^LONG
    BY <2>1 DEF Mask
  <2> QED BY <1>5, <2>2, SignedOfAny, SizesAre DEF Longs, Unsigned
<1> HIDE DEF a
<1>7. d[1] \in Longs
  BY <1>1, WordsAreLongs
<1>8. d' = [d EXCEPT ![1] = a.res]
  BY <1>1, <1>4, <1>6, <1>7, LongStored, 1 \in REG_D DEF REG_D
<1>9. d'[1] = u % 2^LONG
  BY <1>1, <1>6, <1>8, 1 \in REG_D DEF REG_D
<1> QED BY <1>1, <1>4, <1>9 DEF ProductClaim, SignedOp, u

\* DIVU and DIVS; a divisor 0 traps.
LEMMA QuotientStep ==
    ASSUME GuestNext, Started, Fresh, routine.name = "quotient"
    PROVE  (pc' = 2 /\ QuotientClaim') \/ TrapClaim'
<1>1. /\ d \in [REG_D -> Int] /\ d[0] \in Words /\ d[1] \in Longs /\ d = was.d /\ pc = 1
      /\ routine.op \in {"DIVU", "DIVS"} /\ code = Code(routine) /\ ccr \in Flags
  BY DEF Started, Fresh, Multiplying
<1>2. Here.op = routine.op /\ Here.s = 0 /\ Here.d = 1
  BY <1>1, ProgramsAre DEF Programs, Here, Ins, Multiplying
<1>3. Operand(WORD, 0) = d[0]
  BY <1>1, SignedIs, SizesAre DEF Operand, Words, Unsigned
<1>4. /\ UNCHANGED <<routine, code, was>>
      /\ routine.op = "DIVU" /\ d[0] # 0 => Stores(LONG, 1, DIVU(WORD, ccr, d[0], d[1]))
      /\ routine.op = "DIVS" /\ d[0] # 0 => Stores(LONG, 1, DIVS(WORD, ccr, d[0], d[1]))
      /\ d[0] = 0 => Goes(Trapped) /\ UNCHANGED <<d, ccr>>
  BY <1>1, <1>2, <1>3, CalculatedSteps DEF Calculated
<1>5. CASE d[0] = 0
  BY <1>1, <1>4, <1>5 DEF TrapClaim, Goes
<1>6. CASE d[0] # 0
  <2>1. d[0] \in Unsigned(WORD) \ {0} /\ d[1] \in Unsigned(LONG) /\ LONG = 2 * WORD
    BY <1>1, <1>6, M68kAssumption DEF Words, Longs, Unsigned
  <2>2. HasSign(WORD) /\ HasSign(2 * WORD) /\ 2^(2 * WORD) = 2^WORD * 2^WORD
    BY <2>1, SizesAre
  <2> DEFINE n == Signing(SignedOp, LONG, d[1])
             s == Signing(SignedOp, WORD, d[0])
  <2>3. PICK a : /\ Stores(LONG, 1, a) /\ a.res \in Unsigned(LONG)
                 /\ Fitting(SignedOp, WORD, Quotient(n, s)) =>
                        ~a.ccr.v /\ IsQuotient(Signing(SignedOp, WORD, a.res % 2^WORD),
                                               Signing(SignedOp, WORD, a.res \div 2^WORD), n, s)
                 /\ ~Fitting(SignedOp, WORD, Quotient(n, s)) =>
                        (a.ccr.v /\ a.res = d[1]) \/ (SignedOp /\ n = -(2^(LONG - 1)) /\ s = -1)
    <3>1. CASE routine.op = "DIVU"
      <4>1. ~SignedOp
        BY <3>1 DEF SignedOp
      <4> DEFINE a == DIVU(WORD, ccr, d[0], d[1])
      <4>2. n = d[1] /\ s = d[0]
        BY <4>1 DEF Signing
      <4> HIDE DEF n, s
      <4>3. /\ a.res \in Unsigned(LONG)
            /\ Quotient(n, s) \in Unsigned(WORD) =>
                   ~a.ccr.v /\ IsQuotient(a.res % 2^WORD, a.res \div 2^WORD, n, s)
            /\ Quotient(n, s) \notin Unsigned(WORD) => a.ccr.v /\ a.res = n
        BY <1>1, <2>1, <2>2, <4>2, DivuIs
      <4>4. Stores(LONG, 1, a)
        BY <1>4, <1>6, <3>1
      <4> HIDE DEF a
      <4>5. (a.res % 2^WORD = Signing(SignedOp, WORD, a.res % 2^WORD))
            /\ (a.res \div 2^WORD = Signing(SignedOp, WORD, a.res \div 2^WORD))
        BY <4>1 DEF Signing
      <4>6. Fitting(SignedOp, WORD, Quotient(n, s)) <=> Quotient(n, s) \in Unsigned(WORD)
        BY <4>1 DEF Fitting
      <4> QED BY <4>2, <4>3, <4>4, <4>5, <4>6
    <3>2. CASE routine.op = "DIVS"
      <4>1. SignedOp
        BY <3>2 DEF SignedOp
      <4> DEFINE a == DIVS(WORD, ccr, d[0], d[1])
      <4>2. n = Signed(LONG, d[1]) /\ s = Signed(WORD, d[0])
        BY <4>1 DEF Signing
      <4> HIDE DEF n, s
      <4>3. /\ a.res \in Unsigned(LONG)
            /\ InRange(WORD, Quotient(n, s)) =>
                   ~a.ccr.v /\ IsQuotient(Signed(WORD, a.res % 2^WORD), Signed(WORD, a.res \div 2^WORD), n, s)
            /\ ~InRange(WORD, Quotient(n, s)) =>
                   (a.ccr.v /\ a.res = d[1]) \/ (n = -(2^(LONG - 1)) /\ s = -1)
        BY <1>1, <2>1, <2>2, <4>2, DivsIs
      <4>4. Stores(LONG, 1, a)
        BY <1>4, <1>6, <3>2
      <4> HIDE DEF a
      <4>5. (Signed(WORD, a.res % 2^WORD) = Signing(SignedOp, WORD, a.res % 2^WORD))
            /\ (Signed(WORD, a.res \div 2^WORD) = Signing(SignedOp, WORD, a.res \div 2^WORD))
        BY <4>1 DEF Signing
      <4>6. Fitting(SignedOp, WORD, Quotient(n, s)) <=> InRange(WORD, Quotient(n, s))
        BY <4>1 DEF Fitting
      <4> QED BY <4>1, <4>3, <4>4, <4>5, <4>6
    <3> QED BY <1>1, <3>1, <3>2
  <2>4. d' = [d EXCEPT ![1] = a.res] /\ ccr' = a.ccr /\ pc' = 2
    <3>1. pc' = 2
      BY <1>1, <2>3 DEF Stores, Goes
    <3>2. a.res \in Longs
      BY <2>3 DEF Longs, Unsigned
    <3> QED BY <1>1, <2>3, <3>1, <3>2, LongStored, 1 \in REG_D DEF REG_D
  <2>5. d'[1] = a.res /\ (a.res = d[1] => d' = d)
    BY <1>1, <2>4, 1 \in REG_D DEF REG_D
  <2>6. SignedOp' = SignedOp /\ was'.d[1] = d[1] /\ was'.d[0] = d[0] /\ was'.d = d
    BY <1>1, <1>4 DEF SignedOp
  <2> DEFINE F == Fitting(SignedOp, WORD, Quotient(n, s))
             G == IsQuotient(Signing(SignedOp, WORD, d'[1] % 2^WORD),
                             Signing(SignedOp, WORD, d'[1] \div 2^WORD), n, s)
             E == SignedOp /\ n = -(2^(LONG - 1)) /\ s = -1
  <2>7. IF F THEN ~ccr'.v /\ G ELSE (ccr'.v /\ d' = was'.d) \/ E
    <3>1. F => ~ccr'.v /\ G
      BY <2>3, <2>4, <2>5
    <3>2. ~F => (ccr'.v /\ d' = was'.d) \/ E
      BY <2>3, <2>4, <2>5, <2>6
    <3> HIDE DEF F, G, E
    <3> QED BY <3>1, <3>2
  <2>8. QuotientClaim'
    BY <2>6, <2>7 DEF QuotientClaim
  <2> QED BY <2>4, <2>8
<1> QED BY <1>5, <1>6

LEMMA MullFlags ==
    ASSUME NEW w, NEW f, NEW a, NEW b, NEW signed, NEW quad \in BOOLEAN
    PROVE  LET c == MULL(w, f, a, b, signed, quad).ccr
           IN  c.v \in BOOLEAN /\ c.z \in BOOLEAN /\ c.n \in BOOLEAN
<1> DEFINE p == IF signed THEN SignedProduct(w, a, b) ELSE Product(w, a, b)
           e == IF signed /\ Msb(w, p.lo) THEN 2^w - 1 ELSE 0
           c == MULL(w, f, a, b, signed, quad).ccr
<1>1. MULL(w, f, a, b, signed, quad) = ProductOf(w, f, p, signed, quad)
  BY DEF MULL
<1> HIDE DEF p
<1>2. c = IF quad THEN [x |-> f.x, n |-> Msb(w, p.hi), z |-> p.hi = 0 /\ p.lo = 0, v |-> FALSE, c |-> FALSE]
                  ELSE [x |-> f.x, n |-> Msb(w, p.lo), z |-> p.lo = 0, v |-> ~(p.hi = e), c |-> FALSE]
  BY <1>1 DEF ProductOf
<1> HIDE DEF c, e
<1>3. CASE quad
  <2>1. c.n = Msb(w, p.hi) /\ c.z = (p.hi = 0 /\ p.lo = 0) /\ c.v = FALSE
    BY <1>2, <1>3
  <2> QED BY <2>1 DEF Msb, Bit, c
<1>4. CASE ~quad
  <2>1. c.n = Msb(w, p.lo) /\ c.z = (p.lo = 0) /\ c.v = ~(p.hi = e)
    BY <1>2, <1>4
  <2> QED BY <2>1 DEF Msb, Bit, c
<1> QED BY <1>3, <1>4

\* MULU.L and MULS.L.
LEMMA LongProductStep ==
    ASSUME GuestNext, Started, Fresh, routine.name = "longproduct"
    PROVE  pc' = 2 /\ LongProductClaim'
<1>1. /\ d \in [REG_D -> Int] /\ d[0] \in Words /\ d[1] \in Words /\ d = was.d /\ pc = 1
      /\ routine.signed \in BOOLEAN /\ routine.quad \in BOOLEAN /\ code = Code(routine)
  BY DEF Started, Fresh, Multiplying
<1>2. Here.op = "MULL"
  BY <1>1, ProgramsAre DEF Programs, Here, Ins, Multiplying
<1>3. MultiplyLong /\ UNCHANGED <<routine, code, was>> /\ pc' = 2
  BY <1>1, <1>2, CalculatedSteps DEF Calculated
<1> DEFINE signed == routine.signed
           quad == routine.quad
           p == MULL(WORD, ccr, d[0], d[1], signed, quad)
           u == Signing(signed, WORD, d[0]) * Signing(signed, WORD, d[1])
           R == IF quad THEN u % 2^LONG ELSE u % 2^WORD
           V == ~quad /\ ~Fitting(signed, WORD, u)
           N == IF quad THEN Msb(LONG, u) ELSE Msb(WORD, u)
<1>4. d' = [d EXCEPT ![1] = p.lo, ![2] = IF quad THEN p.hi ELSE @] /\ ccr' = p.ccr
  BY <1>3 DEF MultiplyLong
<1>5. /\ p.hi * 2^WORD + p.lo = u % 2^LONG /\ p.lo = u % 2^WORD
      /\ (p.ccr.v <=> V) /\ (p.ccr.z <=> R = 0) /\ (p.ccr.n <=> N)
  <2>1. d[0] \in Unsigned(WORD) /\ d[1] \in Unsigned(WORD) /\ signed \in BOOLEAN /\ quad \in BOOLEAN
    BY <1>1 DEF Words, Unsigned
  <2> QED BY <2>1, MullIs
<1>6. p.ccr.v \in BOOLEAN /\ p.ccr.z \in BOOLEAN /\ p.ccr.n \in BOOLEAN
  BY <1>1, MullFlags
<1> HIDE DEF p, u
<1>7. V \in BOOLEAN /\ N \in BOOLEAN
  <2>1. Msb(LONG, u) \in BOOLEAN /\ Msb(WORD, u) \in BOOLEAN
    BY DEF Msb, Bit
  <2> QED BY <1>1, <2>1
<1>8. ccr'.v = V /\ ccr'.z = (R = 0) /\ ccr'.n = N
  <2> HIDE DEF R, V, N
  <2> QED BY <1>4, <1>5, <1>6, <1>7
<1>9. R = u % 2^LongSize /\ N = Bit(u, LongSize - 1)
  <2>1. CASE quad
    BY <2>1 DEF LongSize, Msb
  <2>2. CASE ~quad
    BY <2>2 DEF LongSize, Msb
  <2> QED BY <1>1, <2>1, <2>2
<1>10. Long(d)' = R
  <2>1. d'[1] = p.lo /\ (quad => d'[2] = p.hi)
    BY <1>1, <1>4, 1 \in REG_D, 2 \in REG_D DEF REG_D
  <2>2. CASE quad
    <3>1. Long(d)' = d'[2] * 2^WORD + d'[1]
      BY <1>3, <2>2 DEF Long, Pair
    <3> QED BY <1>5, <2>1, <2>2, <3>1
  <2>3. CASE ~quad
    <3>1. Long(d)' = d'[1]
      BY <1>3, <2>3 DEF Long
    <3> QED BY <1>5, <2>1, <2>3, <3>1
  <2> QED BY <2>2, <2>3
<1> HIDE DEF R, V, N
<1>11. /\ Long(d)' = u % 2^LongSize /\ ccr'.z = (u % 2^LongSize = 0) /\ ccr'.n = Bit(u, LongSize - 1)
       /\ ccr'.v = V
  BY <1>8, <1>9, <1>10
<1>12. routine' = routine /\ was'.d = d /\ LongSize' = LongSize
  BY <1>1, <1>3 DEF LongSize
<1> QED BY <1>3, <1>11, <1>12 DEF LongProductClaim, V, u

\* DIVU.L and DIVS.L.
LEMMA LongQuotientStep ==
    ASSUME GuestNext, Started, Fresh, routine.name = "longquotient"
    PROVE  (pc' = 2 /\ LongQuotientClaim') \/ TrapClaim'
<1>1. /\ d \in [REG_D -> Int] /\ d[0] \in Words /\ d[1] \in Words /\ d[2] \in Words /\ d = was.d /\ pc = 1
      /\ routine.signed \in BOOLEAN /\ routine.quad \in BOOLEAN /\ code = Code(routine) /\ ccr \in Flags
  BY DEF Started, Fresh, Multiplying
<1>2. Here.op = "DIVL" /\ Here.s = 0
  BY <1>1, ProgramsAre DEF Programs, Here, Ins, Multiplying
<1>3. Operand(WORD, 0) = d[0]
  BY <1>1, SignedIs, SizesAre DEF Operand, Words, Unsigned
<1>4. /\ UNCHANGED <<routine, code, was>>
      /\ DivideLong \/ (d[0] = 0 /\ Goes(Trapped) /\ UNCHANGED <<d, ccr>>)
  BY <1>2, <1>3, CalculatedSteps DEF Calculated
<1>5. CASE d[0] = 0 /\ Goes(Trapped) /\ UNCHANGED <<d, ccr>>
  BY <1>1, <1>4, <1>5 DEF TrapClaim, Goes
<1>6. CASE DivideLong
  <2> DEFINE signed == routine.signed
             p == [lo |-> d[1], hi |-> d[2]]
             a == IF routine.quad THEN DIVL(WORD, ccr, d[0], p, signed)
                                  ELSE DIVL_32(WORD, ccr, d[0], d[1], signed)
             n == Signing(signed, LongSize, Long(d))
             s == Signing(signed, WORD, d[0])
  <2>1. /\ d[0] # 0 /\ d' = [d EXCEPT ![1] = a.quotient, ![2] = a.remainder] /\ ccr' = a.ccr
        /\ pc' = 2
    BY <1>1, <1>6 DEF DivideLong, Goes
  <2>2. /\ d[0] \in Unsigned(WORD) \ {0} /\ d[1] \in Unsigned(WORD) /\ d[2] \in Unsigned(WORD)
        /\ signed \in BOOLEAN /\ HasSign(WORD) /\ p.hi \in Unsigned(WORD) /\ p.lo \in Unsigned(WORD)
    BY <1>1, <2>1, SizesAre DEF Words, Unsigned
  <2>3. p.hi = d[2] /\ p.lo = d[1]
    OBVIOUS
  <2> HIDE DEF p
  <2>4. IsLongQuotient(WORD, signed, a, n, s, p)
    <3>1. CASE routine.quad
      <4>1. IsLongQuotient(WORD, signed, DIVL(WORD, ccr, d[0], p, signed),
                           Signing(signed, LONG, Whole(WORD, p)), s, p)
        BY <1>1, <2>2, DivideTwoIs
      <4>2. Whole(WORD, p) = Long(d) /\ LongSize = LONG
        BY <2>3, <3>1 DEF Whole, Long, Pair, LongSize
      <4>3. a = DIVL(WORD, ccr, d[0], p, signed)
        BY <3>1
      <4> HIDE DEF a, s
      <4> QED BY <4>1, <4>2, <4>3
    <3>2. CASE ~routine.quad
      <4>1. IsLongQuotient(WORD, signed, DIVL_32(WORD, ccr, d[0], d[1], signed),
                           Signing(signed, WORD, d[1]), s, p)
        BY <1>1, <2>2, DivideOneIs
      <4>2. Long(d) = d[1] /\ LongSize = WORD
        BY <3>2 DEF Long, LongSize
      <4>3. a = DIVL_32(WORD, ccr, d[0], d[1], signed)
        BY <3>2
      <4> HIDE DEF a, s
      <4> QED BY <4>1, <4>2, <4>3
    <3> QED BY <3>1, <3>2
  <2> HIDE DEF a, n, s
  <2>5. d'[1] = a.quotient /\ d'[2] = a.remainder
    BY <1>1, <2>1, 1 \in REG_D, 2 \in REG_D DEF REG_D
  <2>6. (a.quotient = d[1] /\ a.remainder = d[2]) => d' = d
    <3> SUFFICES ASSUME a.quotient = d[1], a.remainder = d[2] PROVE d' = d
      OBVIOUS
    <3>1. d' = [d EXCEPT ![1] = d[1], ![2] = d[2]]
      BY <2>1
    <3> QED BY <1>1, <3>1
  <2>7. \/ ~ccr'.v /\ IsQuotient(Signing(signed, WORD, d'[1]), Signing(signed, WORD, d'[2]), n, s)
        \/ ccr'.v /\ d' = d /\ ~Fitting(signed, WORD, Quotient(n, s))
        \/ signed /\ Quotient(n, s) \in {-(2^(WORD - 1)), 2^(WORD - 1)}
    BY <2>1, <2>3, <2>4, <2>5, <2>6 DEF IsLongQuotient
  <2>8. routine' = routine /\ was'.d = d /\ LongSize' = LongSize
    BY <1>1, <1>4 DEF LongSize
  <2>9. Long(was.d)' = Long(d)
    BY <2>8 DEF Long, Pair
  <2>10. LongQuotientClaim'
    BY <2>7, <2>8, <2>9 DEF LongQuotientClaim, n, s
  <2> QED BY <2>1, <2>10
<1> QED BY <1>4, <1>5, <1>6

-----------------------------------------------------------------------------
(* A product by a DBcc loop                                                *)

\* The sum after k additions.
Summed(k) == (was.d[0] * k) % 2^LONG
LoopKeeps(k) ==
    /\ d \in [REG_D -> Int] /\ d[0] = was.d[0] /\ d[1] \in 0 .. was.d[1]
    /\ d[2] = Summed(k)
Adding == pc = 2 /\ LoopKeeps(was.d[1] - d[1])
Counting == pc = 3 /\ LoopKeeps(was.d[1] - d[1] + 1)

LEMMA SumIs ==
    ASSUME was.d[0] \in Int, NEW k \in Int
    PROVE  Summed(k) \in Longs /\ (was.d[0] + Summed(k)) % 2^LONG = Summed(k + 1)
<1> DEFINE L == 2^LONG
           s == was.d[0]
           x == s * k
           q == x \div L
           r == x % L
<1>1. L \in Nat \ {0}
  BY SizesAre DEF HasSign
<1>2. x \in Int /\ s * (k + 1) = s + x
  BY Z3
<1>3. q \in Int /\ r \in 0 .. L - 1 /\ x = q * L + r
  <2> HIDE DEF x, L
  <2> QED BY <1>1, <1>2, DivisionOf
<1>4. (s + x) % L = (s + r) % L
  <2> DEFINE p == (s + r) \div L
             e == (s + r) % L
             y == q * L
             z == p * L
  <2>1. s + r \in Int
    <3> HIDE DEF L, r, s
    <3> QED BY <1>3 DEF s
  <2>2. p \in Int /\ e \in 0 .. L - 1 /\ s + r = p * L + e
    <3> HIDE DEF L, r
    <3> QED BY <1>1, <2>1, DivisionOf
  <2> HIDE DEF L, p, e, r, x, q, s
  <2>3. (q + p) * L = y + z /\ y \in Int /\ z \in Int
    BY <1>1, <1>3, <2>2, Z3
  <2>4. x = y + r /\ s + r = z + e
    BY <1>3, <2>2
  <2> HIDE DEF y, z
  <2>5. s + x = (y + z) + e
    BY <1>2, <1>3, <2>2, <2>3, <2>4 DEF s
  <2>6. s + x = (q + p) * L + e /\ q + p \in Int
    BY <1>3, <2>2, <2>3, <2>5
  <2>7. (s + x) % L = e
    BY <1>1, <2>2, <2>6, DivisionIs
  <2> QED BY <2>7 DEF e
<1> QED BY <1>2, <1>3, <1>4 DEF Summed, Longs

LEMMA LoopStart ==
    ASSUME GuestNext, Started, Fresh, routine.name = "loop"
    PROVE  Adding'
<1>1. /\ d \in [REG_D -> Int] /\ d[0] \in Words /\ d[1] \in Words /\ d[2] = 0 /\ d = was.d /\ pc = 1
      /\ code = Code(routine)
  BY DEF Started, Fresh, Multiplying
<1>2. Here.op = "CLR" /\ Here.w = LONG /\ Here.d = 2
  BY <1>1, ProgramsAre DEF Programs, Here, Ins, Multiplying
<1> DEFINE a == CLR(LONG, ccr, Operand(LONG, Here.s), Operand(LONG, Here.d))
<1>3. Stores(LONG, 2, a) /\ UNCHANGED <<routine, code, was>> /\ pc' = 2
  BY <1>1, <1>2, CalculatedSteps DEF Calculated
<1>4. a.res = 0 /\ 0 \in Longs
  <2> DEFINE L == 2^LONG
  <2>1. L \in Nat \ {0}
    BY SizesAre DEF HasSign
  <2> HIDE DEF L
  <2>2. 0 \in 0 .. L - 1 /\ 0 % L = 0
    BY <2>1
  <2>3. a.res = Mask(LONG, 0)
    BY LogicalIs, ZenonT(30) DEF CLR
  <2> HIDE DEF a
  <2> QED BY <2>2, <2>3 DEF Mask, Longs, L
<1> HIDE DEF a
<1>5. d' = [d EXCEPT ![2] = 0]
  BY <1>1, <1>3, <1>4, LongStored, 2 \in REG_D DEF REG_D
<1>6. d' \in [REG_D -> Int] /\ d'[0] = d[0] /\ d'[1] = d[1] /\ d'[2] = 0
  BY <1>1, <1>5, 0 \in REG_D, 1 \in REG_D, 2 \in REG_D DEF REG_D
<1>7. d[0] \in Int /\ d[1] \in Int /\ d[1] \in 0 .. d[1]
  BY <1>1, SizesAre DEF Words, HasSign
<1>8. (d[0] * (d[1] - d[1])) % 2^LONG = 0
  <2> DEFINE L == 2^LONG
  <2>1. L \in Nat \ {0}
    BY SizesAre DEF HasSign
  <2>2. d[0] * (d[1] - d[1]) = 0
    BY <1>7, Z3
  <2> HIDE DEF L
  <2>3. 0 % L = 0
    BY <2>1
  <2> QED BY <2>2, <2>3 DEF L
<1> QED BY <1>1, <1>3, <1>6, <1>7, <1>8 DEF Adding, LoopKeeps, Summed

LEMMA LoopAdds ==
    ASSUME GuestNext, Started, Adding, routine.name = "loop"
    PROVE  Counting'
<1> DEFINE k == was.d[1] - d[1]
<1>1. /\ d \in [REG_D -> Int] /\ d[0] = was.d[0] /\ d[1] \in 0 .. was.d[1] /\ d[2] = Summed(k) /\ pc = 2
      /\ was.d[0] \in Words /\ was.d[1] \in Words /\ code = Code(routine)
  BY DEF Started, Adding, LoopKeeps, Multiplying
<1>2. Here.op = "ADD" /\ Here.w = LONG /\ Here.s = 0 /\ Here.d = 2
  BY <1>1, ProgramsAre DEF Programs, Here, Ins, Multiplying
<1>3. was.d[0] \in Int /\ was.d[1] \in Int /\ k \in Int
  BY <1>1, SizesAre DEF Words, HasSign
<1>4. d[2] \in Longs /\ (was.d[0] + d[2]) % 2^LONG = Summed(k + 1) /\ Summed(k + 1) \in Longs
  <2> HIDE DEF k
  <2>1. k + 1 \in Int
    BY <1>3
  <2> QED BY <1>1, <1>3, <2>1, SumIs
<1>5. d[0] \in Longs
  BY <1>1, WordsAreLongs
<1>6. Operand(LONG, 0) = d[0] /\ Operand(LONG, 2) = d[2]
  BY <1>4, <1>5, SignedIs, SizesAre DEF Operand, Longs, Unsigned
<1> DEFINE a == ADD(LONG, ccr, d[0], d[2])
<1>7. Stores(LONG, 2, a) /\ UNCHANGED <<routine, code, was>> /\ pc' = 3
  <2> HIDE DEF k
  <2> QED BY <1>1, <1>2, <1>6, FollowedSteps DEF Followed
<1>8. a.res = Summed(k + 1)
  <2>1. a.res = Mask(LONG, d[0] + d[2])
    BY DEF ADD, Arithmetic
  <2> HIDE DEF a, k
  <2> QED BY <1>1, <1>4, <2>1 DEF Mask
<1> HIDE DEF a, k
<1>9. d' = [d EXCEPT ![2] = Summed(k + 1)]
  BY <1>1, <1>4, <1>7, <1>8, LongStored, 2 \in REG_D DEF REG_D
<1>10. Summed(k + 1) \in Int
  BY <1>4, SizesAre DEF Longs, HasSign
<1>11. d' \in [REG_D -> Int] /\ d'[0] = d[0] /\ d'[1] = d[1] /\ d'[2] = Summed(k + 1)
  BY <1>1, <1>9, <1>10, 0 \in REG_D, 1 \in REG_D, 2 \in REG_D DEF REG_D
<1>12. was' = was /\ was'.d[1] - d'[1] + 1 = k + 1
  BY <1>3, <1>7, <1>11 DEF k
<1>13. Summed(k + 1) = (was.d[0] * (k + 1)) % 2^LONG
  BY DEF Summed
<1> QED BY <1>1, <1>7, <1>11, <1>12, <1>13 DEF Counting, LoopKeeps, Summed

LEMMA LoopCounts ==
    ASSUME GuestNext, Started, Counting, routine.name = "loop"
    PROVE  Adding' \/ (pc' = 4 /\ LoopClaim')
<1> DEFINE M == 2^WORD
           N == was.d[1]
           n == d[1]
           left == Mask(WORD, d[1] - 1)
<1>1. /\ d \in [REG_D -> Int] /\ d[0] = was.d[0] /\ n \in 0 .. N /\ d[2] = Summed(N - n + 1) /\ pc = 3
      /\ N \in Words /\ code = Code(routine)
  BY DEF Started, Counting, LoopKeeps, Multiplying
<1>2. Here.op = "DBcc" /\ Here.d = 1 /\ Here.cc = "F" /\ Here.to = 2
  BY <1>1, ProgramsAre DEF Programs, Here, Ins, Branch, Multiplying
<1>3. DBcc /\ UNCHANGED <<routine, code, was>>
  BY <1>2, CalculatedSteps DEF Calculated
<1>4. ~Cond("F", ccr)
  BY DEF Cond
<1>5. d' = [d EXCEPT ![1] = Merged(WORD, 1, left)] /\ pc' = IF left # M - 1 THEN 2 ELSE 4
  BY <1>1, <1>2, <1>3, <1>4 DEF DBcc, Goes
<1>6. M \in Nat \ {0} /\ N \in 0 .. M - 1 /\ n \in 0 .. M - 1
  BY <1>1, SizesAre DEF Words, HasSign
<1>7. left = IF n = 0 THEN M - 1 ELSE n - 1
  <2> DEFINE t == n - 1
  <2>1. t \in -M .. 2 * M - 1
    <3> HIDE DEF M, n
    <3> QED BY <1>6
  <2>2. HasSign(WORD) /\ t \in -(2^WORD) .. 2 * 2^WORD - 1
    BY <2>1, SizesAre DEF M
  <2>3. left = Mask(WORD, t)
    BY DEF left, t
  <2> HIDE DEF t, left
  <2>4. left = IF t < 0 THEN t + M ELSE IF t >= M THEN t - M ELSE t
    BY <2>2, <2>3, MaskIs DEF M
  <2> USE DEF t
  <2> HIDE DEF M, n, left
  <2> QED BY <1>6, <2>4
<1>8. Merged(WORD, 1, left) = left
  <2>1. left \in 0 .. M - 1 /\ left \in Int
    <3> HIDE DEF M, n, left
    <3> QED BY <1>6, <1>7
  <2> HIDE DEF left
  <2>2. Mask(WORD, left) = left /\ Mask(WORD, d[1]) = d[1]
    BY <1>6, <2>1, SignedIs, SizesAre DEF Unsigned
  <2> QED BY <1>6, <2>1, <2>2 DEF Merged, Operand
<1> HIDE DEF left
<1>9. left \in Int
  BY <1>6, <1>7
<1>10. d' \in [REG_D -> Int] /\ d'[0] = d[0] /\ d'[1] = left /\ d'[2] = d[2]
  BY <1>1, <1>5, <1>8, <1>9, 0 \in REG_D, 1 \in REG_D, 2 \in REG_D DEF REG_D
<1>12. CASE n = 0
  <2>1. left = M - 1 /\ pc' = 4
    BY <1>5, <1>7, <1>12
  <2>2. N - n + 1 = N + 1
    <3> HIDE DEF n, N
    <3> QED BY <1>6, <1>12
  <2>3. d'[2] = (was.d[0] * (N + 1)) % 2^LONG
    BY <1>1, <1>10, <2>2 DEF Summed
  <2> QED BY <1>3, <1>10, <2>1, <2>3 DEF LoopClaim
<1>13. CASE n # 0
  <2>1. left = n - 1 /\ left # M - 1 /\ pc' = 2
    <3>1. left = n - 1 /\ left # M - 1
      <4> HIDE DEF n, M
      <4> QED BY <1>6, <1>7, <1>13
    <3> QED BY <1>5, <3>1
  <2>2. N - left = N - n + 1 /\ left \in 0 .. N
    <3> HIDE DEF n, N, M
    <3> QED BY <1>1, <1>6, <1>13, <2>1
  <2>3. d'[2] = (was.d[0] * (N - left)) % 2^LONG
    BY <1>1, <1>10, <2>2 DEF Summed
  <2> QED BY <1>1, <1>3, <1>10, <2>1, <2>2, <2>3 DEF Adding, LoopKeeps, Summed
<1> QED BY <1>12, <1>13

-----------------------------------------------------------------------------
(* A product of longs by the instruction for words                         *)

Low(n) == n % 2^WORD
High(n) == n \div 2^WORD
\* The middle of the product, as far as it fits.
Crossed(a, b) == Low(Low(a) * High(b) + Low(b) * High(a))

LEMMA PartsAre ==
    ASSUME NEW n \in Longs
    PROVE  /\ n \in Int /\ Low(n) \in Words /\ High(n) \in Words
           /\ Low(n) \in Int /\ High(n) \in Int /\ n = High(n) * 2^WORD + Low(n)
<1> DEFINE M == 2^WORD
           q == n \div M
           r == n % M
<1>1. M \in Nat \ {0} /\ n \in 0 .. M * M - 1
  BY SizesAre DEF Longs, HasSign
<1> HIDE DEF M
<1>2. n \in Nat /\ n < M * M
  <2>1. M * M \in Nat
    BY <1>1, Z3
  <2> DEFINE S == M * M
  <2> HIDE DEF S
  <2>2. n \in 0 .. S - 1 /\ S \in Nat
    BY <1>1, <2>1 DEF S
  <2>3. n \in Nat /\ n < S
    BY <2>2
  <2> QED BY <2>3 DEF S
<1>3. /\ q \in Int /\ r \in 0 .. M - 1 /\ n = q * M + r /\ q >= 0
      /\ \A k \in Int : (n < k * M) <=> (q < k)
  <2>1. n \in Int /\ n >= 0
    BY <1>2
  <2> QED BY <1>1, <2>1, DivisionOf
<1>4. q < M /\ M \in Int
  BY <1>1, <1>2, <1>3
<1> HIDE DEF q, r
<1>5. q \in 0 .. M - 1 /\ q \in Int /\ r \in Int
  BY <1>1, <1>3, <1>4
<1> QED BY <1>2, <1>3, <1>5 DEF Words, Low, High, q, r, M

\* SWAP changes the halves.
LEMMA SwapIs ==
    ASSUME NEW f, NEW s, NEW n \in Longs
    PROVE  LET r == SWAP(LONG, f, s, n).res
           IN  r \in Longs /\ Low(r) = High(n) /\ High(r) = Low(n)
<1> DEFINE M == 2^WORD
           q == High(n)
           e == Low(n)
           v == q + e * M
           r == SWAP(LONG, f, s, n).res
<1>1. LONG \div 2 = WORD
  BY M68kAssumption
<1>2. r = Mask(LONG, v)
  <2>1. r = Mask(LONG, (n \div 2^(LONG \div 2)) + Mask(LONG \div 2, n) * 2^(LONG \div 2))
    BY LogicalIs, ZenonT(30) DEF SWAP
  <2> HIDE DEF r
  <2> QED BY <1>1, <2>1 DEF Mask, High, Low
<1> HIDE DEF r
<1>3. M \in Nat \ {0} /\ q \in 0 .. M - 1 /\ e \in 0 .. M - 1 /\ 2^LONG = M * M
  BY PartsAre, SizesAre DEF HasSign, Words
<1> HIDE DEF M, q, e
<1>4. v \in 0 .. M * M - 1 /\ v % M = q /\ v \div M = e
  BY <1>3, HalvesOf
<1> HIDE DEF v
<1>5. v \in Longs /\ v \in Unsigned(LONG)
  BY <1>3, <1>4 DEF Longs, Unsigned
<1>6. r = v
  BY <1>2, <1>5, SignedIs, SizesAre
<1> QED BY <1>4, <1>5, <1>6 DEF Low, High, M, q, e, r

\* A product of words fits into a long.
LEMMA WordProduct ==
    ASSUME NEW f, NEW a \in Words, NEW b \in Words
    PROVE  a * b \in Longs /\ MULU(WORD, f, a, b).res = a * b
<1> DEFINE M == 2^WORD
           p == a * b
<1>1. M \in Nat \ {0} /\ a \in 0 .. M - 1 /\ b \in 0 .. M - 1 /\ 2^LONG = M * M
  BY SizesAre DEF Words, HasSign
<1> HIDE DEF M
<1>2. p \in 0 .. M * M - 1
  <2> DEFINE m == M - 1
  <2>1. m \in Nat /\ a \in 0 .. m /\ b \in 0 .. m
    BY <1>1
  <2> HIDE DEF m
  <2>2. p \in 0 .. m * m
    BY <2>1, ProductBound
  <2> DEFINE e == m * m
             S == M * M
  <2>3. e \in Int /\ S \in Int /\ e = S - 2 * M + 1
    BY <1>1, Z3 DEF m
  <2> HIDE DEF e, S, p
  <2>4. p \in 0 .. S - 1
    BY <1>1, <2>2, <2>3 DEF e
  <2> QED BY <2>4 DEF S
<1> HIDE DEF p
<1>3. p \in Longs /\ p \in Unsigned(LONG)
  BY <1>1, <1>2 DEF Longs, Unsigned
<1>4. MULU(WORD, f, a, b).res = Mask(LONG, p)
  <2>1. 2 * WORD = LONG
    BY M68kAssumption
  <2> QED BY <2>1, LogicalIs, ZenonT(30) DEF MULU, p
<1>5. Mask(LONG, p) = p
  BY <1>3, SignedIs, SizesAre
<1> QED BY <1>3, <1>4, <1>5 DEF p

\* A word instruction leaves the upper half of its register.
LEMMA LowerStored ==
    ASSUME NEW a, NEW r \in REG_D, d \in [REG_D -> Int], d[r] \in Longs, a.res \in Words,
           Stores(WORD, r, a)
    PROVE  /\ d' = [d EXCEPT ![r] = High(d[r]) * 2^WORD + a.res]
           /\ LET n == High(d[r]) * 2^WORD + a.res
              IN  n \in Longs /\ n \in Int /\ Low(n) = a.res /\ High(n) = High(d[r])
<1> DEFINE M == 2^WORD
           q == High(d[r])
           e == Low(d[r])
           s == a.res
           n == q * M + s
<1>1. /\ d[r] \in Int /\ q \in 0 .. M - 1 /\ e \in 0 .. M - 1 /\ d[r] = q * M + e /\ s \in 0 .. M - 1
      /\ M \in Nat \ {0} /\ 2^LONG = M * M
  BY PartsAre, SizesAre DEF HasSign, Words
<1>2. Operand(WORD, r) = e /\ Mask(WORD, s) = s
  BY <1>1, SignedIs, SizesAre DEF Operand, Mask, Low, Unsigned
<1>3. Merged(WORD, r, a.res) = n
  <2>1. Merged(WORD, r, a.res) = d[r] - e + s
    BY <1>2 DEF Merged
  <2> HIDE DEF q, e, M, s
  <2> DEFINE x == q * M
  <2>2. x \in Int
    BY <1>1, Z3
  <2> HIDE DEF x
  <2>3. d[r] = x + e /\ n = x + s
    BY <1>1 DEF x
  <2> QED BY <1>1, <2>1, <2>2, <2>3
<1>4. n \in 0 .. M * M - 1 /\ n % M = s /\ n \div M = q /\ n \in Int
  <2> HIDE DEF q, e, M, s
  <2> DEFINE x == q * M
             v == s + q * M
  <2>1. v \in 0 .. M * M - 1 /\ v % M = s /\ v \div M = q
    BY <1>1, HalvesOf
  <2>2. n = v /\ n \in Int
    <3>1. x \in Int
      BY <1>1, Z3
    <3> HIDE DEF x
    <3>2. n = x + s /\ v = s + x
      BY DEF x
    <3> QED BY <1>1, <3>1, <3>2
  <2> QED BY <2>1, <2>2
<1> HIDE DEF n
<1>5. n \in Longs
  BY <1>1, <1>4 DEF Longs
<1>6. d' = [d EXCEPT ![r] = n]
  BY <1>3 DEF Stores
<1> QED BY <1>4, <1>5, <1>6 DEF n, Low, High

\* The rest of a sum is that of the sum of the rests.
LEMMA RestOfSum ==
    ASSUME NEW m \in Nat \ {0}, NEW u \in Int, NEW v \in Int
    PROVE  ((u % m) + (v % m)) % m = (u + v) % m
<1> DEFINE a == u % m
           b == v % m
<1>1. a \in Int /\ b \in Int
  BY DivisionOf
<1>2. (a - (-b)) % m = (u - (-b)) % m
  <2>1. -b \in Int
    BY <1>1
  <2> HIDE DEF b
  <2> QED BY <2>1, MaskTwice
<1>3. (b - (-u)) % m = (v - (-u)) % m
  <2>1. -u \in Int
    OBVIOUS
  <2> QED BY <2>1, MaskTwice
<1> HIDE DEF a, b
<1>4. a - (-b) = a + b /\ u - (-b) = b - (-u) /\ v - (-u) = u + v
  BY <1>1
<1>5. (a + b) % m = (u + v) % m
  BY <1>2, <1>3, <1>4
<1> QED BY <1>5 DEF a, b

\* The product of longs, cut to a long, from the products of the halves.
LEMMA WholeProduct ==
    ASSUME NEW a \in Longs, NEW b \in Longs
    PROVE  /\ Crossed(a, b) \in Words
           /\ (Crossed(a, b) * 2^WORD + Low(b) * Low(a)) % 2^LONG = (a * b) % 2^LONG
<1> DEFINE M == 2^WORD
           al == Low(a)
           ah == High(a)
           bl == Low(b)
           bh == High(b)
           t == al * bh + bl * ah
           c == t % M
           k == t \div M
           p == bl * al
           L == M * M
           n == c * M + p
           e == n % L
           j == n \div L
           g == ah * bh + k
<1>1. /\ M \in Nat \ {0} /\ 2^LONG = L /\ al \in Int /\ ah \in Int /\ bl \in Int /\ bh \in Int
      /\ a = ah * M + al /\ b = bh * M + bl /\ a \in Int /\ b \in Int
  BY PartsAre, SizesAre DEF HasSign
<1> HIDE DEF al, ah, bl, bh, M
<1>2. t \in Int /\ p \in Int /\ L \in Nat \ {0} /\ ah * bh \in Int /\ al * bh \in Int /\ bl * ah \in Int
  BY <1>1, Z3
<1>3. k \in Int /\ c \in 0 .. M - 1 /\ c \in Int /\ t = k * M + c
  <2> HIDE DEF t
  <2>1. k \in Int /\ c \in 0 .. M - 1 /\ t = k * M + c
    BY <1>1, <1>2, DivisionOf
  <2> QED BY <1>1, <2>1
<1>4. n \in Int
  <2> HIDE DEF c, p
  <2> QED BY <1>1, <1>2, <1>3, Z3
<1>5. j \in Int /\ e \in 0 .. L - 1 /\ n = j * L + e
  <2> HIDE DEF n, L
  <2> QED BY <1>2, <1>4, DivisionOf
<1> HIDE DEF k, c
<1>6. a * b = (ah * bh) * L + t * M + p
  <2> HIDE DEF ah, bh, al, bl
  <2>1. (ah * M + al) * (bh * M + bl) = (ah * bh) * (M * M) + (al * bh + bl * ah) * M + bl * al
    BY <1>1, Z3
  <2> QED BY <1>1, <2>1
<1>7. t * M = k * L + c * M
  <2> HIDE DEF t
  <2>1. (k * M + c) * M = k * (M * M) + c * M
    BY <1>1, <1>3, Z3
  <2> QED BY <1>3, <2>1
<1>8. a * b = (g + j) * L + e /\ g + j \in Int
  <2> DEFINE x == (ah * bh) * L
             y == k * L
             z == c * M
             w == j * L
  <2>1. x \in Int /\ y \in Int /\ z \in Int /\ w \in Int /\ (g + j) * L = x + y + w
    <3> DEFINE h == ah * bh
    <3>1. h \in Int
      BY <1>2
    <3> HIDE DEF h, L, j
    <3> QED BY <1>1, <1>2, <1>3, <1>5, <3>1, Z3 DEF x, y, z, w
  <2>2. g + j \in Int
    <3> HIDE DEF j
    <3> QED BY <1>2, <1>3, <1>5
  <2>3. a * b = x + t * M + p /\ t * M = y + z /\ z + p = w + e
    BY <1>5, <1>6, <1>7
  <2>4. e \in Int
    <3> HIDE DEF e, L
    <3> QED BY <1>2, <1>5
  <2> DEFINE ab == a * b
             tm == t * M
             gl == (g + j) * L
  <2> HIDE DEF x, y, z, w, t, p, e, L, j, g, ab, tm, gl
  <2>5. ab = x + tm + p /\ tm = y + z /\ z + p = w + e /\ gl = x + y + w
    BY <2>1, <2>3 DEF ab, tm, gl
  <2>6. ab = gl + e
    <3> USE DEF g
    <3>1. gl \in Int /\ x \in Int /\ y \in Int /\ z \in Int /\ w \in Int /\ e \in Int /\ p \in Int
      BY <1>2, <2>1, <2>4, <2>5
    <3> QED BY <2>5, <3>1
  <2> QED BY <2>2, <2>6 DEF ab, gl
<1>9. (a * b) % L = e
  <2> DEFINE q == g + j
             ab == a * b
  <2>1. q \in Int /\ ab = q * L + e
    BY <1>8
  <2> HIDE DEF q, ab, e, L
  <2>2. ab % L = e
    BY <1>2, <1>5, <2>1, DivisionIs
  <2> QED BY <2>2 DEF ab
<1>10. Crossed(a, b) = c
  BY DEF Crossed, Low, High, c, t, al, ah, bl, bh, M
<1> QED BY <1>1, <1>3, <1>9, <1>10 DEF Words, M, e, n, p, al, bl

\* The registers before each instruction after the first.
LongMultiplying ==
    LET a == was.d[0]
        b == was.d[1]
    IN  /\ pc \in 2 .. 11 /\ d \in [REG_D -> Int] /\ d[1] = b /\ d[2] \in Longs /\ d[3] \in Longs
        /\ d[0] = IF pc = 11 THEN Low(b) * Low(a) ELSE a
        /\ pc = 2 => d[2] = a
        /\ pc = 3 => Low(d[2]) = High(a)
        /\ pc \in 4 .. 7 => d[2] = Low(b) * High(a)
        /\ pc = 5 => d[3] = b
        /\ pc = 6 => Low(d[3]) = High(b)
        /\ pc = 7 => d[3] = Low(a) * High(b)
        /\ pc = 8 => Low(d[2]) = Crossed(a, b)
        /\ pc = 9 => High(d[2]) = Crossed(a, b)
        /\ pc \in 10 .. 11 => d[2] = Crossed(a, b) * 2^WORD

LEMMA LongChanged ==
    ASSUME NEW a, NEW r \in REG_D, NEW n \in Longs, d \in [REG_D -> Int], d[r] \in Longs,
           a.res = n, Stores(LONG, r, a)
    PROVE  d' \in [REG_D -> Int] /\ d'[r] = n /\ \A q \in REG_D \ {r} : d'[q] = d[q]
<1>1. d' = [d EXCEPT ![r] = n]
  BY LongStored
<1>2. n \in Int
  BY PartsAre
<1> QED BY <1>1, <1>2

LEMMA LongStart ==
    ASSUME GuestNext, Started, Fresh, routine.name = "mul32"
    PROVE  LongMultiplying'
<1>1. /\ d \in [REG_D -> Int] /\ d = was.d /\ pc = 1 /\ code = Code(routine)
      /\ d[0] \in Longs /\ d[1] \in Longs /\ d[2] = 0 /\ d[3] = 0
  BY DEF Started, Fresh, Multiplying
<1>2. Here.op = "MOVE" /\ Here.w = LONG /\ Here.s = 0 /\ Here.d = 2
  BY <1>1, ProgramsAre DEF Programs, Here, Ins, Multiplying
<1>3. 0 \in Longs
  <2> DEFINE L == 2^LONG
  <2>1. L \in Nat \ {0}
    BY SizesAre DEF HasSign
  <2> HIDE DEF L
  <2>2. 0 \in 0 .. L - 1
    BY <2>1
  <2> QED BY <2>2 DEF Longs, L
<1>4. Operand(LONG, 0) = d[0] /\ Mask(LONG, d[0]) = d[0]
  BY <1>1, SignedIs, SizesAre DEF Operand, Longs, Unsigned
<1> DEFINE a == MOVE(LONG, ccr, d[0], Operand(LONG, 2))
<1>5. Stores(LONG, 2, a) /\ UNCHANGED <<routine, code, was>> /\ pc' = 2
  BY <1>1, <1>2, <1>4, FollowedSteps DEF Followed
<1>6. a.res = d[0]
  <2>1. a.res = Mask(LONG, d[0])
    BY DEF MOVE, Logical, Arithmetic
  <2> HIDE DEF a
  <2> QED BY <1>4, <2>1
<1> HIDE DEF a
<1>7. d' \in [REG_D -> Int] /\ d'[2] = d[0] /\ \A q \in REG_D \ {2} : d'[q] = d[q]
  BY <1>1, <1>3, <1>5, <1>6, LongChanged, 2 \in REG_D DEF REG_D
<1>8. d'[0] = d[0] /\ d'[1] = d[1] /\ d'[3] = 0
  BY <1>1, <1>7 DEF REG_D
<1> QED BY <1>1, <1>3, <1>5, <1>7, <1>8 DEF LongMultiplying, Longs

\* What each instruction leaves in the register it writes.
LEMMA LongSteps ==
    ASSUME GuestNext, Started, LongMultiplying, routine.name = "mul32"
    PROVE  LongMultiplying' \/ (pc' = 12 /\ LongMultiplyClaim')
<1> DEFINE a == was.d[0]
           b == was.d[1]
           c == Crossed(a, b)
           M == 2^WORD
<1>1. /\ d \in [REG_D -> Int] /\ d[1] = b /\ d[2] \in Longs /\ d[3] \in Longs /\ a \in Longs /\ b \in Longs
      /\ pc \in 2 .. 11 /\ (pc # 11 => d[0] = a) /\ code = Code(routine)
  BY DEF Started, LongMultiplying, Multiplying
<1>2. Programs
  BY <1>1, ProgramsAre DEF Multiplying
<1>3. /\ 0 \in REG_D /\ 1 \in REG_D /\ 2 \in REG_D /\ 3 \in REG_D
      /\ \A n \in Longs : Mask(LONG, n) = n /\ Mask(WORD, n) = Low(n)
  BY SignedIs, SizesAre DEF REG_D, Longs, Unsigned, Mask, Low
<1>4. /\ Low(a) \in Words /\ High(a) \in Words /\ Low(b) \in Words /\ High(b) \in Words /\ c \in Words
      /\ Low(b) * High(a) \in Longs /\ Low(a) * High(b) \in Longs /\ Low(b) * Low(a) \in Longs
  BY <1>1, PartsAre, WordProduct, WholeProduct
\* SWAP in D2 or D3.
<1>5. ASSUME NEW r \in {2, 3}, Here.op = "SWAP", Here.w = LONG, Here.s = r, Here.d = r
      PROVE  /\ d' \in [REG_D -> Int] /\ d'[r] \in Longs /\ \A q \in REG_D \ {r} : d'[q] = d[q]
             /\ Low(d'[r]) = High(d[r]) /\ High(d'[r]) = Low(d[r])
             /\ pc' = pc + 1 /\ UNCHANGED <<routine, code, was>>
  <2> DEFINE m == SWAP(LONG, ccr, d[r], d[r])
  <2>1. d[r] \in Longs /\ r \in REG_D
    BY <1>1, <1>3
  <2>2. Stores(LONG, r, m) /\ pc' = pc + 1 /\ UNCHANGED <<routine, code, was>>
    <3>1. Operand(LONG, r) = d[r]
      BY <1>3, <2>1 DEF Operand
    <3> QED BY <1>5, <3>1, CalculatedSteps DEF Calculated
  <2>3. m.res \in Longs /\ Low(m.res) = High(d[r]) /\ High(m.res) = Low(d[r])
    BY <2>1, SwapIs
  <2> HIDE DEF m
  <2> DEFINE n == m.res
  <2>4. m.res = n /\ n \in Longs
    BY <2>3
  <2> HIDE DEF n
  <2>5. d' \in [REG_D -> Int] /\ d'[r] = n /\ \A q \in REG_D \ {r} : d'[q] = d[q]
    BY <1>1, <2>1, <2>2, <2>4, LongChanged
  <2> QED BY <2>2, <2>3, <2>4, <2>5
\* MULU from s to r.
<1>6. ASSUME NEW s \in REG_D, NEW r \in REG_D, d[s] \in Longs, d[r] \in Longs,
             Here.op = "MULU", Here.s = s, Here.d = r
      PROVE  /\ d' \in [REG_D -> Int] /\ d'[r] = Low(d[s]) * Low(d[r]) /\ d'[r] \in Longs
             /\ \A q \in REG_D \ {r} : d'[q] = d[q]
             /\ pc' = pc + 1 /\ UNCHANGED <<routine, code, was>>
  <2> DEFINE x == Low(d[s])
             y == Low(d[r])
             m == MULU(WORD, ccr, x, y)
             n == x * y
  <2>1. Stores(LONG, r, m) /\ pc' = pc + 1 /\ UNCHANGED <<routine, code, was>>
    <3>1. Operand(WORD, s) = x /\ Mask(WORD, d[r]) = y
      BY <1>3, <1>6 DEF Operand
    <3> QED BY <1>6, <3>1, CalculatedSteps DEF Calculated
  <2>2. x \in Words /\ y \in Words
    BY <1>6, PartsAre
  <2>3. n \in Longs /\ m.res = n
    BY <2>2, WordProduct
  <2> HIDE DEF m, n
  <2>4. d' \in [REG_D -> Int] /\ d'[r] = n /\ \A q \in REG_D \ {r} : d'[q] = d[q]
    BY <1>1, <1>6, <2>1, <2>3, LongChanged
  <2> QED BY <2>1, <2>3, <2>4 DEF n
<1> HIDE DEF c
<1>7. CASE pc = 2
  <2>1. Here.op = "SWAP" /\ Here.w = LONG /\ Here.s = 2 /\ Here.d = 2
    BY <1>2, <1>7 DEF Programs, Here, Ins
  <2>2. d[2] = a
    BY <1>7 DEF LongMultiplying
  <2>3. /\ d' \in [REG_D -> Int] /\ d'[2] \in Longs /\ d'[0] = a /\ d'[1] = b /\ d'[3] \in Longs
        /\ Low(d'[2]) = High(a) /\ pc' = 3 /\ UNCHANGED <<routine, code, was>>
    BY <1>1, <1>3, <1>5, <1>7, <2>1, <2>2
  <2> QED BY <2>3 DEF LongMultiplying, Low
<1>8. CASE pc = 3
  <2>1. Here.op = "MULU" /\ Here.s = 1 /\ Here.d = 2
    BY <1>2, <1>8 DEF Programs, Here, Ins
  <2>2. Low(d[2]) = High(a)
    BY <1>8 DEF LongMultiplying
  <2>3. /\ d' \in [REG_D -> Int] /\ d'[2] \in Longs /\ d'[0] = a /\ d'[1] = b /\ d'[3] \in Longs
        /\ d'[2] = Low(b) * High(a) /\ pc' = 4 /\ UNCHANGED <<routine, code, was>>
    BY <1>1, <1>3, <1>6, <1>8, <2>1, <2>2
  <2> QED BY <2>3 DEF LongMultiplying, Low, High
<1>9. CASE pc = 4
  <2>1. Here.op = "MOVE" /\ Here.w = LONG /\ Here.s = 1 /\ Here.d = 3
    BY <1>2, <1>9 DEF Programs, Here, Ins
  <2>2. d[2] = Low(b) * High(a)
    BY <1>9 DEF LongMultiplying
  <2> DEFINE m == MOVE(LONG, ccr, b, Operand(LONG, 3))
  <2>3. Stores(LONG, 3, m) /\ pc' = 5 /\ UNCHANGED <<routine, code, was>>
    <3>1. Operand(LONG, 1) = b
      BY <1>1, <1>3 DEF Operand
    <3> QED BY <1>9, <2>1, <3>1, FollowedSteps DEF Followed
  <2>4. m.res = b
    <3>1. m.res = Mask(LONG, b)
      BY DEF MOVE, Logical, Arithmetic
    <3> HIDE DEF m
    <3> QED BY <1>1, <1>3, <3>1
  <2> HIDE DEF m
  <2>5. d' \in [REG_D -> Int] /\ d'[3] = b /\ \A q \in REG_D \ {3} : d'[q] = d[q]
    BY <1>1, <1>3, <2>3, <2>4, LongChanged
  <2>6. d'[0] = a /\ d'[1] = b /\ d'[2] = d[2]
    BY <1>1, <1>3, <1>9, <2>5
  <2> QED BY <1>1, <2>2, <2>3, <2>5, <2>6 DEF LongMultiplying, Longs, Low, High
<1>10. CASE pc = 5
  <2>1. Here.op = "SWAP" /\ Here.w = LONG /\ Here.s = 3 /\ Here.d = 3
    BY <1>2, <1>10 DEF Programs, Here, Ins
  <2>2. d[2] = Low(b) * High(a) /\ d[3] = b
    BY <1>10 DEF LongMultiplying
  <2>3. /\ d' \in [REG_D -> Int] /\ d'[2] = d[2] /\ d'[0] = a /\ d'[1] = b /\ d'[3] \in Longs
        /\ Low(d'[3]) = High(b) /\ pc' = 6 /\ UNCHANGED <<routine, code, was>>
    BY <1>1, <1>3, <1>5, <1>10, <2>1, <2>2
  <2> QED BY <1>1, <2>2, <2>3 DEF LongMultiplying, Low, High, Longs
<1>11. CASE pc = 6
  <2>1. Here.op = "MULU" /\ Here.s = 0 /\ Here.d = 3
    BY <1>2, <1>11 DEF Programs, Here, Ins
  <2>2. Low(d[3]) = High(b) /\ d[2] = Low(b) * High(a)
    BY <1>11 DEF LongMultiplying
  <2>3. /\ d' \in [REG_D -> Int] /\ d'[2] = d[2] /\ d'[0] = a /\ d'[1] = b /\ d'[3] \in Longs
        /\ d'[3] = Low(a) * High(b) /\ pc' = 7 /\ UNCHANGED <<routine, code, was>>
    BY <1>1, <1>3, <1>6, <1>11, <2>1, <2>2
  <2> QED BY <1>1, <2>2, <2>3 DEF LongMultiplying, Low, High, Longs
\* The middle products are added as words.
<1>12. CASE pc = 7
  <2>1. Here.op = "ADD" /\ Here.w = WORD /\ Here.s = 3 /\ Here.d = 2
    BY <1>2, <1>12 DEF Programs, Here, Ins
  <2> DEFINE u == Low(a) * High(b)
             v == Low(b) * High(a)
             m == ADD(WORD, ccr, Low(u), Low(v))
  <2>2. d[2] = v /\ d[3] = u
    BY <1>12 DEF LongMultiplying
  <2>3. Stores(WORD, 2, m) /\ pc' = 8 /\ UNCHANGED <<routine, code, was>>
    <3>1. Operand(WORD, 3) = Low(u) /\ Operand(WORD, 2) = Low(v)
      BY <1>3, <1>4, <2>2 DEF Operand
    <3> QED BY <1>12, <2>1, <3>1, FollowedSteps DEF Followed
  <2>4. m.res = c
    <3>1. m.res = Low(Low(u) + Low(v))
      BY DEF ADD, Arithmetic, Mask, Low
    <3>2. M \in Nat \ {0} /\ u \in Int /\ v \in Int
      BY <1>4, PartsAre, SizesAre DEF HasSign
    <3> HIDE DEF u, v, m, M
    <3>3. ((u % M) + (v % M)) % M = (u + v) % M
      BY <3>2, RestOfSum
    <3> USE DEF u, v
    <3> QED BY <3>1, <3>3 DEF c, Crossed, Low, M
  <2> HIDE DEF m
  <2> DEFINE n == High(d[2]) * 2^WORD + m.res
  <2>5. d' = [d EXCEPT ![2] = n] /\ n \in Longs /\ n \in Int /\ Low(n) = c
    BY <1>1, <1>3, <1>4, <2>3, <2>4, LowerStored
  <2> HIDE DEF n
  <2>6. d' \in [REG_D -> Int] /\ d'[2] = n /\ d'[0] = a /\ d'[1] = b /\ d'[3] = d[3]
    BY <1>1, <1>3, <1>12, <2>5
  <2> QED BY <1>1, <2>3, <2>5, <2>6 DEF LongMultiplying, Low, Longs, c, Crossed, High
<1>13. CASE pc = 8
  <2>1. Here.op = "SWAP" /\ Here.w = LONG /\ Here.s = 2 /\ Here.d = 2
    BY <1>2, <1>13 DEF Programs, Here, Ins
  <2>2. Low(d[2]) = c
    BY <1>13 DEF LongMultiplying, c
  <2>3. /\ d' \in [REG_D -> Int] /\ d'[2] \in Longs /\ d'[0] = a /\ d'[1] = b /\ d'[3] \in Longs
        /\ High(d'[2]) = c /\ pc' = 9 /\ UNCHANGED <<routine, code, was>>
    BY <1>1, <1>3, <1>5, <1>13, <2>1, <2>2
  <2> QED BY <2>3 DEF LongMultiplying, High, Low, c, Crossed
<1>14. CASE pc = 9
  <2>1. Here.op = "CLR" /\ Here.w = WORD /\ Here.s = 2 /\ Here.d = 2
    BY <1>2, <1>14 DEF Programs, Here, Ins
  <2> DEFINE m == CLR(WORD, ccr, Operand(WORD, 2), Operand(WORD, 2))
  <2>2. High(d[2]) = c
    BY <1>14 DEF LongMultiplying, c
  <2>3. Stores(WORD, 2, m) /\ pc' = 10 /\ UNCHANGED <<routine, code, was>>
    BY <1>14, <2>1, CalculatedSteps DEF Calculated
  <2>4. m.res = 0 /\ 0 \in Words
    <3>1. m.res = Mask(WORD, 0)
      BY LogicalIs DEF CLR
    <3>2. M \in Nat \ {0} /\ Mask(WORD, 0) = 0 % M
      BY SizesAre DEF Mask, HasSign
    <3> HIDE DEF m, M
    <3>3. 0 % M = 0 /\ 0 \in 0 .. M - 1
      BY <3>2
    <3> QED BY <3>1, <3>2, <3>3 DEF Words, M
  <2> HIDE DEF m
  <2> DEFINE n == High(d[2]) * 2^WORD + m.res
  <2>5. d' = [d EXCEPT ![2] = n] /\ n \in Longs /\ n \in Int
    BY <1>1, <1>3, <2>3, <2>4, LowerStored
  <2>6. n = c * 2^WORD
    <3> DEFINE x == c * 2^WORD
    <3>1. c \in Int /\ M \in Int
      BY <1>4, SizesAre DEF Words, HasSign
    <3>2. x \in Int
      <4> HIDE DEF M
      <4>1. c * M \in Int
        BY <3>1, Z3
      <4> QED BY <4>1 DEF M
    <3>3. n = x + 0
      BY <2>2, <2>4
    <3> HIDE DEF x, n
    <3>4. n = x
      BY <3>2, <3>3
    <3> QED BY <3>4 DEF x
  <2> HIDE DEF n
  <2>7. d' \in [REG_D -> Int] /\ d'[2] = n /\ d'[0] = a /\ d'[1] = b /\ d'[3] = d[3]
    BY <1>1, <1>3, <1>14, <2>5
  <2> QED BY <1>1, <2>3, <2>5, <2>6, <2>7 DEF LongMultiplying, Longs, c, Crossed, Low, High
<1>15. CASE pc = 10
  <2>1. Here.op = "MULU" /\ Here.s = 1 /\ Here.d = 0
    BY <1>2, <1>15 DEF Programs, Here, Ins
  <2>2. d[2] = c * 2^WORD /\ d[0] = a
    BY <1>15 DEF LongMultiplying, c
  <2>3. /\ d' \in [REG_D -> Int] /\ d'[2] = d[2] /\ d'[1] = b /\ d'[3] = d[3]
        /\ d'[0] = Low(b) * Low(a) /\ pc' = 11 /\ UNCHANGED <<routine, code, was>>
    BY <1>1, <1>3, <1>6, <1>15, <2>1, <2>2
  <2> QED BY <1>1, <2>2, <2>3 DEF LongMultiplying, Low, High, Longs, c, Crossed
\* And to them the product of the lower halves.
<1>16. CASE pc = 11
  <2>1. Here.op = "ADD_32" /\ Here.w = LONG /\ Here.s = 2 /\ Here.d = 0
    BY <1>2, <1>16 DEF Programs, Here, Ins
  <2> DEFINE p == Low(b) * Low(a)
             h == c * 2^WORD
             m == ADD_32(LONG, ccr, h, p)
             n == (a * b) % 2^LONG
  <2>2. d[2] = h /\ d[0] = p
    BY <1>16 DEF LongMultiplying, c
  <2>3. Stores(LONG, 0, m) /\ pc' = 12 /\ UNCHANGED <<routine, code, was>>
    <3>1. Operand(LONG, 2) = h /\ Operand(LONG, 0) = p
      <4>1. h \in Longs /\ p \in Longs
        BY <1>1, <1>4, <2>2
      <4>2. Mask(LONG, h) = h /\ Mask(LONG, p) = p
        BY <1>3, <4>1
      <4> QED BY <2>2, <4>2 DEF Operand
    <3> QED BY <1>16, <2>1, <3>1, FollowedSteps DEF Followed
  <2>4. m.res = n
    <3>1. m.res = Mask(LONG, h + p)
      BY DEF ADD_32, Arithmetic
    <3> QED BY <1>1, <3>1, WholeProduct DEF Mask, c
  <2>5. n \in Longs
    <3> DEFINE L == 2^LONG
               ab == a * b
    <3>1. L \in Nat \ {0} /\ a \in Int /\ b \in Int
      BY <1>1, PartsAre, SizesAre DEF HasSign
    <3>2. ab \in Int
      BY <3>1, Z3
    <3> HIDE DEF L, ab
    <3>3. ab % L \in 0 .. L - 1
      BY <3>1, <3>2, DivisionOf
    <3> QED BY <3>3 DEF Longs, L, ab
  <2> HIDE DEF m, n
  <2>6. d'[0] = n
    <3>1. d[0] \in Longs
      BY <1>4, <2>2
    <3> QED BY <1>1, <1>3, <2>3, <2>4, <2>5, <3>1, LongChanged
  <2> QED BY <2>3, <2>6 DEF LongMultiplyClaim, n
<1> QED BY <1>1, <1>7, <1>8, <1>9, <1>10, <1>11, <1>12, <1>13, <1>14, <1>15, <1>16

-----------------------------------------------------------------------------
(* All of them                                                             *)

ProductInv ==
    routine.name \in Multiplying =>
        /\ Started
        /\ \/ Fresh
           \/ routine.name = "product" /\ pc = 2 /\ ProductClaim
           \/ routine.name = "quotient" /\ (pc = 3 \/ (pc = 2 /\ QuotientClaim) \/ TrapClaim)
           \/ routine.name = "longproduct" /\ pc = 2 /\ LongProductClaim
           \/ routine.name = "longquotient" /\ ((pc = 2 /\ LongQuotientClaim) \/ TrapClaim)
           \/ routine.name = "loop" /\ (Adding \/ Counting \/ (pc = 4 /\ LoopClaim))
           \/ routine.name = "mul32" /\ (LongMultiplying \/ (pc = 12 /\ LongMultiplyClaim))

LEMMA EndOf ==
    ASSUME Programs
    PROVE  /\ routine.name = "product" => Len(code) = 1
           /\ routine.name = "quotient" => Len(code) = 2
           /\ routine.name = "longproduct" => Len(code) = 1
           /\ routine.name = "longquotient" => Len(code) = 1
           /\ routine.name = "loop" => Len(code) = 3
           /\ routine.name = "mul32" => Len(code) = 11
  BY DEF Programs

LEMMA ProductsKept == ProductInv /\ UNCHANGED <<vars, memoryVars>> => ProductInv'
<1> SUFFICES ASSUME ProductInv, UNCHANGED <<vars, memoryVars>> PROVE ProductInv'
  OBVIOUS
<1>1. /\ routine' = routine /\ code' = code /\ pc' = pc /\ d' = d /\ ccr' = ccr /\ was' = was
  BY DEF vars
<1>2. (Started => Started') /\ (Fresh => Fresh')
  BY <1>1 DEF Started, Fresh
<1>3. (ProductClaim => ProductClaim') /\ (QuotientClaim => QuotientClaim')
  BY <1>1 DEF ProductClaim, QuotientClaim, SignedOp
<1>4. (LongProductClaim => LongProductClaim') /\ (LongQuotientClaim => LongQuotientClaim')
  BY <1>1 DEF LongProductClaim, LongQuotientClaim, Long, LongSize, Pair
<1>5. /\ (LoopClaim => LoopClaim') /\ (LongMultiplyClaim => LongMultiplyClaim')
      /\ (TrapClaim => TrapClaim')
  BY <1>1 DEF LoopClaim, LongMultiplyClaim, TrapClaim
<1>6. (Adding => Adding') /\ (Counting => Counting')
  BY <1>1 DEF Adding, Counting, LoopKeeps, Summed
<1>7. LongMultiplying => LongMultiplying'
  BY <1>1 DEF LongMultiplying, Low, High, Crossed, Longs
<1> QED BY <1>1, <1>2, <1>3, <1>4, <1>5, <1>6, <1>7 DEF ProductInv

LEMMA ProductsStep ==
    ASSUME ProductInv, GuestNext, routine.name \in Multiplying
    PROVE  ProductInv'
<1>1. /\ Running /\ Started /\ routine' = routine /\ code' = code /\ was' = was
  BY ProgramsKept DEF ProductInv
<1>2. Started'
  BY <1>1 DEF Started
<1>3. Programs
  BY <1>1, ProgramsAre DEF Started
<1>4. pc # Trapped /\ pc # Len(code) + 1
  BY <1>1 DEF Running, Ended
<1> DEFINE n == Len(code)
<1>5. CASE routine.name = "product"
  <2>1. n = 1
    BY <1>3, <1>5, EndOf
  <2> HIDE DEF n
  <2>2. n + 1 = 2
    BY <2>1
  <2>3. pc # 2
    BY <1>4, <2>2 DEF n
  <2>4. Fresh
    BY <1>5, <2>3 DEF ProductInv
  <2> QED BY <1>1, <1>2, <1>5, <2>4, ProductStep DEF ProductInv
<1>6. CASE routine.name = "quotient"
  <2>1. n = 2
    BY <1>3, <1>6, EndOf
  <2> HIDE DEF n
  <2>2. n + 1 = 3
    BY <2>1
  <2>3. pc # 3
    BY <1>4, <2>2 DEF n
  <2>4. Fresh \/ pc = 2
    BY <1>4, <1>6, <2>3 DEF ProductInv, TrapClaim
  <2>5. ASSUME pc = 2 PROVE pc' = 3
    <3>1. Here.op = "EXT"
      BY <1>3, <1>6, <2>5 DEF Programs, Here, Ins
    <3> QED BY <2>5, <3>1, CalculatedSteps DEF Calculated
  <2> QED BY <1>1, <1>2, <1>6, <2>4, <2>5, QuotientStep DEF ProductInv
<1>7. CASE routine.name = "longproduct"
  <2>1. n = 1
    BY <1>3, <1>7, EndOf
  <2> HIDE DEF n
  <2>2. n + 1 = 2
    BY <2>1
  <2>3. pc # 2
    BY <1>4, <2>2 DEF n
  <2>4. Fresh
    BY <1>7, <2>3 DEF ProductInv
  <2> QED BY <1>1, <1>2, <1>7, <2>4, LongProductStep DEF ProductInv
<1>8. CASE routine.name = "longquotient"
  <2>1. n = 1
    BY <1>3, <1>8, EndOf
  <2> HIDE DEF n
  <2>2. n + 1 = 2
    BY <2>1
  <2>3. pc # 2
    BY <1>4, <2>2 DEF n
  <2>4. Fresh
    BY <1>4, <1>8, <2>3 DEF ProductInv, TrapClaim
  <2> QED BY <1>1, <1>2, <1>8, <2>4, LongQuotientStep DEF ProductInv
<1>9. CASE routine.name = "loop"
  <2>1. n = 3
    BY <1>3, <1>9, EndOf
  <2> HIDE DEF n
  <2>2. n + 1 = 4
    BY <2>1
  <2>3. pc # 4
    BY <1>4, <2>2 DEF n
  <2>4. Fresh \/ Adding \/ Counting
    BY <1>9, <2>3 DEF ProductInv
  <2> QED BY <1>1, <1>2, <1>9, <2>4, LoopStart, LoopAdds, LoopCounts DEF ProductInv
<1>10. CASE routine.name = "mul32"
  <2>1. n = 11
    BY <1>3, <1>10, EndOf
  <2> HIDE DEF n
  <2>2. n + 1 = 12
    BY <2>1
  <2>3. pc # 12
    BY <1>4, <2>2 DEF n
  <2>4. Fresh \/ LongMultiplying
    BY <1>10, <2>3 DEF ProductInv
  <2> QED BY <1>1, <1>2, <1>10, <2>4, LongStart, LongSteps DEF ProductInv
<1> QED BY <1>5, <1>6, <1>7, <1>8, <1>9, <1>10 DEF Multiplying

LEMMA ProductsEnough == ProductInv => ProductsAndQuotients
<1> SUFFICES ASSUME ProductInv PROVE ProductsAndQuotients
  OBVIOUS
<1>1. CASE routine.name \notin Multiplying
  BY <1>1 DEF ProductsAndQuotients, Ends, Multiplying
<1>2. CASE routine.name \in Multiplying
  <2>1. Started /\ Programs
    BY <1>2, ProgramsAre DEF ProductInv, Started
  <2> DEFINE n == Len(code)
  <2>2. /\ routine.name = "product" => n + 1 = 2
        /\ routine.name = "longproduct" => n + 1 = 2
        /\ routine.name = "longquotient" => n + 1 = 2
        /\ routine.name = "loop" => n + 1 = 4
        /\ routine.name = "mul32" => n + 1 = 12
    <3>1. /\ routine.name = "product" => n = 1
          /\ routine.name = "longproduct" => n = 1
          /\ routine.name = "longquotient" => n = 1
          /\ routine.name = "loop" => n = 3
          /\ routine.name = "mul32" => n = 11
      BY <2>1, EndOf
    <3> HIDE DEF n
    <3> QED BY <3>1
  <2>3. Ended <=> pc = n + 1
    BY DEF Ended
  <2> HIDE DEF n
  <2>4. CASE routine.name = "product"
    <3>1. Ended => ProductClaim
      BY <2>2, <2>3, <2>4 DEF ProductInv, Fresh, Multiplying
    <3> QED BY <2>4, <3>1 DEF ProductsAndQuotients, Ends, Start, ProductClaim, SignedOp, Signing
  <2>5. CASE routine.name = "quotient"
    <3>1. (pc = 2 => QuotientClaim) /\ (pc = Trapped => TrapClaim)
      BY <2>5 DEF ProductInv, Fresh, Multiplying, Trapped, TrapClaim
    <3> QED BY <2>5, <3>1 DEF ProductsAndQuotients, Ends, Start, QuotientClaim, TrapClaim, SignedOp,
                              Signing, Fitting, InRange, Unsigned
  <2>6. CASE routine.name = "longproduct"
    <3>1. Ended => LongProductClaim
      BY <2>2, <2>3, <2>6 DEF ProductInv, Fresh, Multiplying
    <3> QED BY <2>6, <3>1 DEF ProductsAndQuotients, Ends, Start, LongProductClaim, Long, LongSize,
                              Signing, Fitting, InRange, Unsigned
  <2>7. CASE routine.name = "longquotient"
    <3>1. (Ended => LongQuotientClaim) /\ (pc = Trapped => TrapClaim)
      BY <2>2, <2>3, <2>7 DEF ProductInv, Fresh, Multiplying, Trapped, TrapClaim
    <3> QED BY <2>7, <3>1 DEF ProductsAndQuotients, Ends, Start, LongQuotientClaim, TrapClaim, Long,
                              LongSize, Signing, Fitting, InRange, Unsigned
  <2>8. CASE routine.name = "loop"
    <3>1. Ended => LoopClaim
      BY <2>2, <2>3, <2>8 DEF ProductInv, Fresh, Multiplying, Adding, Counting
    <3> QED BY <2>8, <3>1 DEF ProductsAndQuotients, Ends, Start, LoopClaim
  <2>9. CASE routine.name = "mul32"
    <3>1. Ended => LongMultiplyClaim
      BY <2>2, <2>3, <2>9 DEF ProductInv, Fresh, Multiplying, LongMultiplying
    <3> QED BY <2>9, <3>1 DEF ProductsAndQuotients, Ends, Start, LongMultiplyClaim
  <2> QED BY <1>2, <2>4, <2>5, <2>6, <2>7, <2>8, <2>9 DEF Multiplying
<1> QED BY <1>1, <1>2

\* However wide words and longs are: a multiplication leaves the product and says
\* whether it fits, also one put together from halves, one by a DBcc loop and one
\* of longs by the instruction for words; a division leaves quotient and
\* remainder, or says that they do not fit, or traps; but for the two quotients
\* of -2^31 that the code answers otherwise (m68kopdm.c:10, 386, 804, 1090, 11844,
\* 12152).
THEOREM ProductsAndQuotientsHolds == GuestSpec => []ProductsAndQuotients
<1>1. GuestInit => ProductInv
  BY OtherTrials, ProductsBegin DEF GuestInit, Proved, ProductInv
<1>2. ProductInv /\ [GuestNext]_<<vars, memoryVars>> => ProductInv'
  <2> SUFFICES ASSUME ProductInv, [GuestNext]_<<vars, memoryVars>> PROVE ProductInv'
    OBVIOUS
  <2>1. CASE routine.name \notin Multiplying
    <3>1. routine' = routine
      BY ProgramsKept
    <3> QED BY <2>1, <3>1 DEF ProductInv
  <2>2. CASE routine.name \in Multiplying
    BY <2>2, ProductsKept, ProductsStep
  <2> QED BY <2>1, <2>2
<1>3. ProductInv => ProductsAndQuotients
  BY ProductsEnough
<1> QED BY <1>1, <1>2, <1>3, PTL DEF GuestSpec

-----------------------------------------------------------------------------
(* Shifts and rotations by one bit more                                    *)

\* All that is used of a size here: the powers of 2 up to it.
Sized(w) == w \in Nat \ {0} /\ Doubling(w)

LEMMA SizedIs ==
    ASSUME NEW w, Sized(w)
    PROVE  /\ HasSign(w) /\ w \in Nat \ {0} /\ 2^0 = 1
           /\ \A i \in 0 .. w : 2^i \in Nat \ {0}
           /\ \A i \in 0 .. w - 1 : 2^(i + 1) = 2 * 2^i
           /\ \A k \in 0 .. w - 1 : 2^(w - 1) = 2^k * 2^(w - 1 - k)
<1>1. w \in Nat \ {0} /\ Doubling(w)
  BY DEF Sized
<1>2. /\ 2^0 = 1
      /\ \A i \in 0 .. w : 2^i \in Nat \ {0}
      /\ \A i \in 0 .. w - 1 : 2^(i + 1) = 2 * 2^i
  BY <1>1, PowersArePositive DEF Doubling
<1>3. HasSign(w)
  <2> DEFINE i == w - 1
  <2>1. i \in 0 .. w - 1 /\ i \in 0 .. w /\ i + 1 = w
    BY <1>1
  <2> HIDE DEF i
  <2>2. 2^i \in Nat \ {0} /\ 2^w = 2 * 2^i
    BY <1>2, <2>1
  <2> QED BY <2>2 DEF HasSign, i
<1>4. ASSUME NEW k \in 0 .. w - 1 PROVE 2^(w - 1) = 2^k * 2^(w - 1 - k)
  <2> DEFINE j == w - 1 - k
  <2>1. k \in 0 .. w /\ j \in 0 .. w /\ k + j <= w /\ k + j = w - 1
    BY <1>1
  <2> HIDE DEF j
  <2>2. 2^(k + j) = 2^k * 2^j
    BY <1>1, <2>1, PowersMultiply
  <2> QED BY <2>1, <2>2 DEF j
<1> QED BY <1>1, <1>2, <1>3, <1>4

\* A number whose bit at place w - 1 - k is b, moved up by k and by k + 1 bits;
\* t is what stays below, and h what goes round.
MovesUp(w, a, k, b, t, h) ==
    /\ Bit(a, w - 1 - k) <=> b = 1
    /\ Mask(w, a * 2^k) + h \in 0 .. 2^w - 1
    /\ Mask(w, a * 2^k) + h = b * 2^(w - 1) + (t + h) /\ t + h \in 0 .. 2^(w - 1) - 1
    /\ a \div 2^(w - k) = h
    /\ Mask(w, a * 2^(k + 1)) = 2 * t
    /\ a \div 2^(w - 1 - k) = 2 * h + b

LEMMA MovedUp ==
    ASSUME NEW w, Sized(w), NEW a \in Unsigned(w), NEW k \in 0 .. w - 1
    PROVE  \E b \in {0, 1}, t \in Nat, h \in Nat : MovesUp(w, a, k, b, t, h)
<1> DEFINE H == 2^(w - 1)
           M == 2^w
           P == 2^k
           E == 2^(w - 1 - k)
           u == a \div E
           s == a % E
           h == a \div (2 * E)
           b == u % 2
           t == s * P
<1>1. /\ H \in Nat \ {0} /\ M = 2 * H /\ P \in Nat \ {0} /\ E \in Nat \ {0} /\ H = P * E
      /\ 2^(w - k) = 2 * E /\ 2^(k + 1) = 2 * P /\ M \in Nat \ {0}
  <2>1. /\ w - 1 - k \in 0 .. w - 1 /\ w - 1 - k \in 0 .. w /\ k \in 0 .. w
        /\ w \in 0 .. w /\ (w - 1 - k) + 1 = w - k
    BY SizedIs
  <2> QED BY <2>1, SizedIs DEF HasSign
<1>2. a \in Nat /\ a < M
  BY <1>1 DEF Unsigned
<1> HIDE DEF M, H, P, E
<1>3. u \in Nat /\ s \in 0 .. E - 1 /\ a = u * E + s
  BY <1>1, <1>2, NaturalDivision
<1>4. u = 2 * h + b /\ b \in {0, 1} /\ h \in Nat
  BY <1>1, <1>2, HalfQuotient
<1>5. h < P
  <2>1. \A n \in Int : (a < n * (2 * E)) <=> (h < n)
    <3> DEFINE m == 2 * E
    <3>1. m \in Nat \ {0} /\ a \in Int
      BY <1>1, <1>2
    <3> HIDE DEF m
    <3>2. \A n \in Int : (a < n * m) <=> (a \div m < n)
      BY <3>1, DivisionOf
    <3> QED BY <3>2 DEF m
  <2>2. P * (2 * E) = M
    <3>1. P * (2 * E) = 2 * (P * E)
      BY <1>1, Z3
    <3> QED BY <1>1, <3>1
  <2> HIDE DEF h
  <2>3. P \in Int
    BY <1>1
  <2> QED BY <1>2, <2>1, <2>2, <2>3
<1> HIDE DEF u, s, h, b
<1>6. t \in Nat /\ t <= H - P
  <2>1. E - 1 - s \in Nat /\ s \in Nat
    BY <1>1, <1>3
  <2> DEFINE c == E - 1 - s
  <2> HIDE DEF c
  <2>2. c * P >= 0 /\ t \in Nat
    BY <1>1, <2>1, Z3 DEF c
  <2>3. c * P = P * E - P - s * P
    <3> USE DEF c
    <3>1. (E - 1 - s) * P = P * E - P - s * P
      BY <1>1, <2>1, Z3
    <3> QED BY <3>1
  <2> DEFINE y == c * P
  <2>4. y = H - P - t /\ y >= 0
    BY <1>1, <2>2, <2>3
  <2> HIDE DEF y, t
  <2> QED BY <1>1, <2>2, <2>4
<1>7. t + h \in 0 .. H - 1 /\ t \in 0 .. H - 1
  <2> HIDE DEF t
  <2> QED BY <1>1, <1>4, <1>5, <1>6
<1>8. a * P = h * M + (b * H + t) /\ a * (2 * P) = u * M + 2 * t /\ a * (2 * P) \in Int
  <2>1. ((2 * h + b) * E + s) * P = h * (2 * (P * E)) + (b * (P * E) + s * P)
    BY <1>1, <1>3, <1>4, Z3
  <2>2. (u * E + s) * (2 * P) = u * (2 * (P * E)) + 2 * (s * P)
    BY <1>1, <1>3, Z3
  <2>3. a * (2 * P) \in Int
    BY <1>1, <1>2, Z3
  <2> QED BY <1>1, <1>3, <1>4, <2>1, <2>2, <2>3
<1>9. b * H = (IF b = 1 THEN H ELSE 0)
  BY <1>1, <1>4
<1> HIDE DEF t
<1>10. Mask(w, a * P) = b * H + t
  <2> DEFINE r == b * H + t
             n == a * P
  <2>1. r \in 0 .. M - 1
    BY <1>1, <1>4, <1>7, <1>9
  <2>2. n = h * M + r /\ h \in Int
    BY <1>4, <1>8
  <2> HIDE DEF r, n
  <2>3. M \in Nat \ {0}
    BY <1>1
  <2>4. n % M = r
    BY <2>1, <2>2, <2>3, DivisionIs
  <2> QED BY <2>4 DEF Mask, M, r, n
<1>11. Mask(w, a * (2 * P)) = 2 * t
  <2> DEFINE r == 2 * t
             n == a * (2 * P)
  <2>1. r \in 0 .. M - 1
    BY <1>1, <1>7
  <2>2. n = u * M + r /\ u \in Int
    BY <1>3, <1>8
  <2> HIDE DEF r, n
  <2>3. M \in Nat \ {0}
    BY <1>1
  <2>4. n % M = r
    BY <2>1, <2>2, <2>3, DivisionIs
  <2> QED BY <2>4 DEF Mask, M, r, n
<1>12. Bit(a, w - 1 - k) <=> b = 1
  BY DEF Bit, b, u, E
<1>13. b * H + t + h \in 0 .. M - 1 /\ b * H + t + h = b * H + (t + h)
  BY <1>1, <1>4, <1>6, <1>7, <1>9
<1>14. a \div 2^(w - k) = h /\ a \div E = 2 * h + b
  BY <1>1, <1>4 DEF h, u
<1> QED BY <1>1, <1>4, <1>6, <1>7, <1>10, <1>11, <1>12, <1>13, <1>14 DEF MovesUp, M, H, P, E

\* One bit further up from b * 2^(w - 1) + y, or down from 2 * y + b.
LEMMA TopBit ==
    ASSUME NEW w, HasSign(w), NEW b \in {0, 1}, NEW y \in 0 .. 2^(w - 1) - 1
    PROVE  LET a == b * 2^(w - 1) + y
           IN  /\ a \in Unsigned(w) /\ (Msb(w, a) <=> b = 1) /\ AsOne(Msb(w, a)) = b
               /\ (2 * a) % 2^w = 2 * y
<1> DEFINE H == 2^(w - 1)
           M == 2^w
           a == b * H + y
           e == 2 * a
           z == 2 * y
<1>1. H \in Nat \ {0} /\ M = 2 * H /\ M \in Nat \ {0} /\ y \in 0 .. H - 1
  BY DEF HasSign
<1>2. a = (IF b = 1 THEN H ELSE 0) + y
  BY <1>1
<1> HIDE DEF H, M, a
<1>3. a \in 0 .. M - 1 /\ (a >= H <=> b = 1)
  BY <1>1, <1>2
<1>4. Msb(w, a) <=> b = 1
  BY <1>3, SignedIs DEF Unsigned, M, H
<1>5. AsOne(Msb(w, a)) = b
  <2>1. CASE b = 1
    BY <1>4, <2>1 DEF AsOne
  <2>2. CASE b = 0
    BY <1>4, <2>2 DEF AsOne
  <2> QED BY <2>1, <2>2
<1>6. e % M = z
  <2>1. e = b * M + z /\ z \in 0 .. M - 1 /\ b \in Int
    <3>1. e = (IF b = 1 THEN M ELSE 0) + z
      BY <1>1, <1>2
    <3>2. b * M = (IF b = 1 THEN M ELSE 0)
      BY <1>1
    <3> QED BY <1>1, <3>1, <3>2
  <2> HIDE DEF e, z
  <2>2. M \in Nat \ {0}
    BY <1>1
  <2> QED BY <2>1, <2>2, DivisionIs
<1> QED BY <1>3, <1>4, <1>5, <1>6 DEF Unsigned, M, H, a, e, z

LEMMA LowBit ==
    ASSUME NEW b \in {0, 1}, NEW y \in Nat, 2^0 = 1
    PROVE  LET a == 2 * y + b
           IN  a \div 2 = y /\ (Bit(a, 0) <=> b = 1) /\ AsOne(Bit(a, 0)) = b
<1> DEFINE a == 2 * y + b
<1>1. a \in Nat /\ a \div 2 = y /\ a % 2 = b /\ a \div 1 = a
  OBVIOUS
<1> HIDE DEF a
<1>2. Bit(a, 0) <=> b = 1
  BY <1>1 DEF Bit
<1>3. AsOne(Bit(a, 0)) = b
  <2>1. CASE b = 1
    BY <1>2, <2>1 DEF AsOne
  <2>2. CASE b = 0
    BY <1>2, <2>2 DEF AsOne
  <2> QED BY <2>1, <2>2
<1> QED BY <1>1, <1>2, <1>3 DEF a

\* Rotated by k and by k + 1 bits.
Rotates(w, a, k, b, y) ==
    /\ Bit(a, w - 1 - k) <=> b = 1
    /\ RotateLeft(w, a, k) = b * 2^(w - 1) + y /\ RotateLeft(w, a, k + 1) = 2 * y + b

LEMMA RotatedBy ==
    ASSUME NEW w, Sized(w), NEW a \in Unsigned(w), NEW k \in 0 .. w - 1
    PROVE  \E b \in {0, 1}, y \in 0 .. 2^(w - 1) - 1 : Rotates(w, a, k, b, y)
<1>1. PICK b \in {0, 1}, t \in Nat, h \in Nat : MovesUp(w, a, k, b, t, h)
  BY MovedUp
<1> DEFINE y == t + h
<1>2. /\ Bit(a, w - 1 - k) <=> b = 1
      /\ Mask(w, a * 2^k) + h = b * 2^(w - 1) + y /\ y \in 0 .. 2^(w - 1) - 1
      /\ a \div 2^(w - k) = h /\ Mask(w, a * 2^(k + 1)) = 2 * t
      /\ a \div 2^(w - 1 - k) = 2 * h + b
  BY <1>1 DEF MovesUp
<1>3. w - (k + 1) = w - 1 - k
  BY SizedIs
<1>4. RotateLeft(w, a, k) = b * 2^(w - 1) + y
  BY <1>2 DEF RotateLeft
<1>5. RotateLeft(w, a, k + 1) = 2 * t + (2 * h + b)
  BY <1>2, <1>3 DEF RotateLeft
<1>6. 2 * t + (2 * h + b) = 2 * y + b
  OBVIOUS
<1> HIDE DEF y
<1>7. Rotates(w, a, k, b, y)
  BY <1>2, <1>4, <1>5, <1>6 DEF Rotates
<1> QED BY <1>2, <1>7

\* All the way round, and to the right.
LEMMA RoundIs ==
    ASSUME NEW w, Sized(w), NEW a \in Unsigned(w)
    PROVE  /\ RotateLeft(w, a, 0) = a /\ RotateLeft(w, a, w) = a
           /\ \A k \in 0 .. w : RotateRight(w, a, k) = RotateLeft(w, a, w - k)
<1> DEFINE M == 2^w
           n == a * M
<1>1. M \in Nat \ {0} /\ a \in 0 .. M - 1 /\ w \in Nat /\ 2^0 = 1 /\ HasSign(w)
  BY SizedIs DEF HasSign, Unsigned
<1>2. Mask(w, a) = a
  BY <1>1, SignedIs
<1> HIDE DEF M
<1>3. a \in Int /\ a * 1 = a /\ a \div 1 = a /\ n = a * M + 0 /\ 0 \in 0 .. M - 1
  <2>1. a \in Int /\ M \in Int
    BY <1>1
  <2>2. a * M \in Int
    BY <2>1, Z3
  <2> QED BY <1>1, <2>1, <2>2
<1>4. n % M = 0
  <2> HIDE DEF n
  <2> QED BY <1>1, <1>3, DivisionIs
<1>5. a \div M = 0
  BY <1>1, BelowDivided
<1>6. RotateLeft(w, a, 0) = a
  <2>1. w - 0 = w
    BY <1>1
  <2> QED BY <1>1, <1>2, <1>3, <1>5, <2>1 DEF RotateLeft, M
<1>7. RotateLeft(w, a, w) = a
  <2>1. w - w = 0
    BY <1>1
  <2>2. Mask(w, a * 2^w) = 0
    BY <1>4 DEF Mask, n, M
  <2> QED BY <1>1, <1>3, <2>1, <2>2 DEF RotateLeft
<1>8. ASSUME NEW k \in 0 .. w PROVE RotateRight(w, a, k) = RotateLeft(w, a, w - k)
  <2> DEFINE u == a \div 2^k
             v == Mask(w, a * 2^(w - k))
  <2>1. w - (w - k) = k
    BY <1>1
  <2>2. u \in Int /\ v \in Int
    <3> DEFINE P == 2^k
               Q == 2^(w - k)
    <3>1. P \in Nat \ {0} /\ Q \in Nat \ {0}
      <4>1. w - k \in 0 .. w
        BY <1>1
      <4> QED BY <4>1, SizedIs
    <3> HIDE DEF P, Q
    <3>2. a \div P \in Int
      BY <1>3, <3>1, DivisionOf
    <3> DEFINE x == a * Q
    <3>3. x \in Int
      BY <1>3, <3>1, Z3
    <3> HIDE DEF x
    <3>4. x % M \in Int
      BY <1>1, <3>3, DivisionOf
    <3> QED BY <3>2, <3>4 DEF Mask, M, P, Q, x
  <2>3. RotateRight(w, a, k) = u + v /\ RotateLeft(w, a, w - k) = v + u
    BY <2>1 DEF RotateRight, RotateLeft
  <2> HIDE DEF u, v
  <2> QED BY <2>2, <2>3
<1> QED BY <1>6, <1>7, <1>8

\* What is done bit by bit, for each instruction.
LEMMA OneBits ==
    ASSUME NEW w, HasSign(w), NEW a, a.r \in Int, a.v \in BOOLEAN
    PROVE  LET top == Msb(w, a.r)
               low == Bit(a.r, 0)
               up == (2 * a.r) % 2^w
               H == 2^(w - 1)
           IN  /\ OneBit("LSL", w, a) = [r |-> up, c |-> top, x |-> top, v |-> a.v]
               /\ OneBit("ASL", w, a) = [r |-> up, c |-> top, x |-> top, v |-> a.v \/ Msb(w, up) # top]
               /\ OneBit("ROL", w, a) = [r |-> up + AsOne(top), c |-> top, x |-> a.x, v |-> a.v]
               /\ OneBit("ROXL", w, a) = [r |-> up + AsOne(a.x), c |-> top, x |-> top, v |-> a.v]
               /\ OneBit("LSR", w, a) = [r |-> a.r \div 2, c |-> low, x |-> low, v |-> a.v]
               /\ OneBit("ASR", w, a) = [r |-> (a.r \div 2) + AsOne(top) * H, c |-> low, x |-> low, v |-> a.v]
               /\ OneBit("ROR", w, a) = [r |-> (a.r \div 2) + AsOne(low) * H, c |-> low, x |-> a.x, v |-> a.v]
               /\ OneBit("ROXR", w, a) = [r |-> (a.r \div 2) + AsOne(a.x) * H, c |-> low, x |-> low, v |-> a.v]
<1> DEFINE H == 2^(w - 1)
           M == 2^w
           up == (2 * a.r) % M
           down == a.r \div 2
<1>1. H \in Int /\ M \in Nat \ {0} /\ AsOne(FALSE) = 0
  BY DEF HasSign, AsOne
<1>2. up \in Int /\ down \in Int
  <2> DEFINE n == 2 * a.r
  <2>1. n \in Int /\ down \in Int
    OBVIOUS
  <2> HIDE DEF n, M
  <2>2. n % M \in Int
    BY <1>1, <2>1, DivisionOf
  <2> QED BY <2>1, <2>2 DEF n
<1>3. up + AsOne(FALSE) = up /\ down + AsOne(FALSE) * H = down
  <2> HIDE DEF up, down, H
  <2>1. 0 * H = 0
    BY <1>1
  <2>2. AsOne(FALSE) * H = 0
    BY <1>1, <2>1
  <2>3. up + 0 = up /\ down + 0 = down
    BY <1>2
  <2> QED BY <1>1, <2>2, <2>3
<1> HIDE DEF H, up, down
<1>4. OneBit("LSL", w, a) = [r |-> up, c |-> Msb(w, a.r), x |-> Msb(w, a.r), v |-> a.v]
  BY <1>3 DEF OneBit, up, M
<1>5. OneBit("ASL", w, a) = [r |-> up, c |-> Msb(w, a.r), x |-> Msb(w, a.r),
                             v |-> a.v \/ Msb(w, up) # Msb(w, a.r)]
  BY <1>3 DEF OneBit, up, M
<1>6. OneBit("ROL", w, a) = [r |-> up + AsOne(Msb(w, a.r)), c |-> Msb(w, a.r), x |-> a.x, v |-> a.v]
  BY DEF OneBit, up, M
<1>7. OneBit("ROXL", w, a) = [r |-> up + AsOne(a.x), c |-> Msb(w, a.r), x |-> Msb(w, a.r), v |-> a.v]
  BY DEF OneBit, up, M
<1>8. OneBit("LSR", w, a) = [r |-> down, c |-> Bit(a.r, 0), x |-> Bit(a.r, 0), v |-> a.v]
  BY <1>3 DEF OneBit, down, H
<1>9. OneBit("ASR", w, a) = [r |-> down + AsOne(Msb(w, a.r)) * H, c |-> Bit(a.r, 0),
                             x |-> Bit(a.r, 0), v |-> a.v]
  BY DEF OneBit, down, H
<1>10. OneBit("ROR", w, a) = [r |-> down + AsOne(Bit(a.r, 0)) * H, c |-> Bit(a.r, 0), x |-> a.x, v |-> a.v]
  BY DEF OneBit, down, H
<1>11. OneBit("ROXR", w, a) = [r |-> down + AsOne(a.x) * H, c |-> Bit(a.r, 0), x |-> Bit(a.r, 0), v |-> a.v]
  BY DEF OneBit, down, H
<1> QED BY <1>4, <1>5, <1>6, <1>7, <1>8, <1>9, <1>10, <1>11 DEF up, down, H, M

\* The result and the flags of a shift, from what is kept bit by bit.
Result(w, s) ==
    [res |-> s.r, ccr |-> [x |-> s.x, n |-> Msb(w, s.r), z |-> s.r = 0, v |-> s.v, c |-> s.c]]

LEMMA ShiftedIs ==
    ASSUME NEW w, HasSign(w), NEW r \in Int
    PROVE  /\ r % 2^w \in Unsigned(w)
           /\ \A v, c : Shifted(w, r, v, c) = Result(w, [r |-> r % 2^w, x |-> c, v |-> v, c |-> c])
           /\ \A f : NotShifted(w, f, r) =
                         Result(w, [r |-> r % 2^w, x |-> f.x, v |-> FALSE, c |-> FALSE])
<1> DEFINE e == r % 2^w
<1>1. e \in Unsigned(w) /\ Mask(w, r) = e /\ Msb(w, r) = (e >= 2^(w - 1))
  BY SignedOfAny
<1>2. Msb(w, e) = (e >= 2^(w - 1))
  <2> HIDE DEF e
  <2> QED BY <1>1, SignedIs
<1> HIDE DEF e
<1>3. ASSUME NEW v, NEW c
      PROVE  Shifted(w, r, v, c) = Result(w, [r |-> e, x |-> c, v |-> v, c |-> c])
  BY <1>1, <1>2 DEF Shifted, Arithmetic, Result
<1>4. ASSUME NEW f
      PROVE  NotShifted(w, f, r) = Result(w, [r |-> e, x |-> f.x, v |-> FALSE, c |-> FALSE])
  <2>1. NotShifted(w, f, r) =
            [res |-> Mask(w, r),
             ccr |-> [x |-> f.x, n |-> Msb(w, r), z |-> Mask(w, r) = 0, v |-> FALSE, c |-> FALSE]]
    <3> DEFINE m == Mask(w, r)
               q == Msb(w, r)
               y == m = 0
               no == FALSE
               g == f.x
               A == [res |-> m, ccr |-> [x |-> no, n |-> q, z |-> y, v |-> no, c |-> no]]
    <3>1. NotShifted(w, f, r) = [A EXCEPT !.ccr.x = g]
      BY DEF NotShifted, Logical, Arithmetic
    <3> HIDE DEF m, q, y, no, g
    <3>2. [A EXCEPT !.ccr.x = g] =
              [res |-> m, ccr |-> [x |-> g, n |-> q, z |-> y, v |-> no, c |-> no]]
      OBVIOUS
    <3> QED BY <3>1, <3>2 DEF m, q, y, no, g
  <2> QED BY <1>1, <1>2, <2>1 DEF Result
<1> QED BY <1>1, <1>3, <1>4 DEF e

LEMMA CountIs == \A n \in 0 .. 63 : Count(n) = n
  BY DEF Count

\* a, moved up by n bits, and the last bit that has left.
Up(w, a, n) == IF n <= w THEN (a * 2^n) % 2^w ELSE 0
Out(w, a, n) == n \in 1 .. w /\ Bit(a, w - n)

LEMMA UpSteps ==
    ASSUME NEW w, Sized(w), NEW a \in Unsigned(w), NEW n \in Nat
    PROVE  /\ Up(w, a, n) \in Unsigned(w) /\ Up(w, a, 0) = a /\ ~Out(w, a, 0)
           /\ Up(w, a, n + 1) = (2 * Up(w, a, n)) % 2^w
           /\ Msb(w, Up(w, a, n)) = Out(w, a, n + 1)
           /\ n >= w => Up(w, a, n) = 0 /\ ~Msb(w, Up(w, a, n))
<1> DEFINE M == 2^w
           H == 2^(w - 1)
           u == Up(w, a, n)
<1>1. /\ w \in Nat \ {0} /\ HasSign(w) /\ M \in Nat \ {0} /\ H \in Nat \ {0} /\ M = 2 * H
      /\ a \in 0 .. M - 1 /\ 2^0 = 1 /\ Mask(w, a) = a
  BY SizedIs, SignedIs DEF HasSign, Unsigned
<1>2. Up(w, a, 0) = a /\ ~Out(w, a, 0)
  <2> HIDE DEF M
  <2>1. a * 1 = a /\ 0 <= w /\ 0 \notin 1 .. w
    BY <1>1
  <2> QED BY <1>1, <2>1 DEF Up, Out, Mask, M
<1>3. 0 \in Unsigned(w) /\ ~Msb(w, 0) /\ 0 % M = 0 /\ 2 * 0 = 0
  <2>1. 0 \in Unsigned(w)
    BY <1>1 DEF Unsigned
  <2>2. ~(0 >= H) /\ 0 % M = 0
    <3> HIDE DEF M, H
    <3> QED BY <1>1
  <2>3. ~Msb(w, 0)
    BY <1>1, <2>1, <2>2, SignedIs
  <2> QED BY <2>1, <2>2, <2>3
<1>4. CASE n < w
  <2>1. n \in 0 .. w - 1
    BY <1>1, <1>4
  <2>2. PICK b \in {0, 1}, t \in Nat, h \in Nat : MovesUp(w, a, n, b, t, h)
    BY <2>1, MovedUp
  <2>3. /\ Bit(a, w - 1 - n) <=> b = 1
        /\ Mask(w, a * 2^n) + h \in 0 .. M - 1
        /\ Mask(w, a * 2^n) + h = b * H + (t + h) /\ t + h \in 0 .. H - 1
        /\ Mask(w, a * 2^(n + 1)) = 2 * t
    BY <2>2 DEF MovesUp
  <2>4. u = Mask(w, a * 2^n) /\ Up(w, a, n + 1) = Mask(w, a * 2^(n + 1))
    BY <1>1, <1>4 DEF Up, Mask
  <2>5. u \in Int
    <3> DEFINE P == 2^n
               x == a * P
    <3>1. P \in Int
      BY <1>1, <2>1, SizedIs
    <3> HIDE DEF P, M
    <3>2. x \in Int
      BY <1>1, <3>1, Z3
    <3> HIDE DEF x
    <3>3. x % M \in Int
      BY <1>1, <3>2, DivisionOf
    <3> QED BY <2>4, <3>3 DEF Mask, M, P, x
  <2> HIDE DEF u, H, M
  <2>6. u = b * H + t /\ t \in 0 .. H - 1
    <3> DEFINE y == b * H
    <3>1. y \in Int
      BY <1>1
    <3> HIDE DEF y
    <3>2. u + h = y + (t + h)
      BY <2>3, <2>4 DEF y
    <3>3. u = y + t
      BY <2>5, <3>1, <3>2
    <3> QED BY <1>1, <2>3, <3>3 DEF y
  <2>7. /\ b * H + t \in Unsigned(w) /\ (Msb(w, b * H + t) <=> b = 1)
        /\ (2 * (b * H + t)) % M = 2 * t
    BY <1>1, <2>6, TopBit DEF H, M
  <2>8. Out(w, a, n + 1) <=> b = 1
    <3>1. n + 1 \in 1 .. w /\ w - (n + 1) = w - 1 - n
      BY <1>1, <2>1
    <3> QED BY <2>3, <3>1 DEF Out
  <2>9. Msb(w, u) = Out(w, a, n + 1)
    BY <2>6, <2>7, <2>8 DEF Msb, Bit, Out
  <2>10. ~(n >= w)
    BY <1>1, <1>4
  <2> QED BY <1>2, <2>3, <2>4, <2>6, <2>7, <2>9, <2>10 DEF u, M, H
<1>5. CASE n >= w
  <2>1. u = 0
    <3>1. CASE n = w
      <4> DEFINE x == a * M
      <4> HIDE DEF M
      <4>1. x = a * M + 0 /\ a \in Int /\ 0 \in 0 .. M - 1
        <5>1. x \in Int
          BY <1>1, Z3
        <5> QED BY <1>1, <5>1
      <4> HIDE DEF x
      <4>2. M \in Nat \ {0}
        BY <1>1
      <4>3. x % M = 0
        BY <4>1, <4>2, DivisionIs
      <4> QED BY <1>1, <3>1, <4>3 DEF Up, x, M
    <3>2. CASE n # w
      <4>1. ~(n <= w)
        BY <1>1, <1>5, <3>2
      <4> QED BY <4>1 DEF Up
    <3> QED BY <3>1, <3>2
  <2>2. Up(w, a, n + 1) = 0 /\ ~Out(w, a, n + 1)
    <3>1. ~(n + 1 <= w) /\ n + 1 \notin 1 .. w
      BY <1>1, <1>5
    <3> QED BY <3>1 DEF Up, Out
  <2> HIDE DEF u, M
  <2>3. Msb(w, u) = Out(w, a, n + 1)
    BY <1>3, <2>1, <2>2 DEF Msb, Bit, Out
  <2> QED BY <1>2, <1>3, <2>1, <2>2, <2>3 DEF u, M
<1> QED BY <1>1, <1>4, <1>5

\* By how many bits: none, some of the register's, or more.
LEMMA LSLIs ==
    ASSUME NEW w \in Nat, NEW f, NEW a, NEW n \in 0 .. 63
    PROVE  /\ n = 0 => LSL(w, f, n, a) = NotShifted(w, f, a)
           /\ n \in 1 .. w => LSL(w, f, n, a) = Shifted(w, a * 2^n, FALSE, Bit(a, w - n))
           /\ n > w => LSL(w, f, n, a) = Shifted(w, 0, FALSE, FALSE)
<1> DEFINE c == Count(n)
           r == LSL(w, f, n, a)
<1>1. c = n
  BY CountIs
<1> HIDE DEF c
<1>2. r = CASE c = 0 -> NotShifted(w, f, a)
            [] c \in 1 .. w -> Shifted(w, a * 2^c, FALSE, Bit(a, w - c))
            [] c > w -> Shifted(w, 0, FALSE, FALSE)
  BY DEF LSL, c
<1> HIDE DEF r
<1>3. n = 0 => r = NotShifted(w, f, a)
  <2>1. n = 0 => (c = 0 /\ ~(c \in 1 .. w) /\ ~(c > w))
    BY <1>1
  <2> QED BY <1>2, <2>1
<1>4. n \in 1 .. w => r = Shifted(w, a * 2^n, FALSE, Bit(a, w - n))
  <2>1. n \in 1 .. w => (c # 0 /\ c \in 1 .. w /\ ~(c > w))
    BY <1>1
  <2> QED BY <1>1, <1>2, <2>1
<1>5. n > w => r = Shifted(w, 0, FALSE, FALSE)
  <2>1. n > w => (c # 0 /\ ~(c \in 1 .. w) /\ c > w)
    BY <1>1
  <2> QED BY <1>2, <2>1
<1> QED BY <1>3, <1>4, <1>5 DEF r

\* What LSL and ASL keep bit by bit.
LSLAfter(w, f, a) ==
    [n \in 0 .. 63 |-> [r |-> Up(w, a, n), x |-> IF n = 0 THEN f.x ELSE Out(w, a, n),
                        v |-> FALSE, c |-> Out(w, a, n)]]

\* A shift by n bits is n shifts by one, beginning with s[0].
Repeats(op, w, f, a, s) ==
    /\ s[0] = [r |-> a, x |-> f.x, v |-> FALSE, c |-> op \in {"ROXL", "ROXR"} /\ f.x]
    /\ \A n \in 0 .. 62 : s[n + 1] = OneBit(op, w, s[n])

LEMMA LSLRepeats ==
    ASSUME NEW w, Sized(w), NEW f \in Flags, NEW a \in Unsigned(w)
    PROVE  /\ Repeats("LSL", w, f, a, LSLAfter(w, f, a))
           /\ \A n \in 0 .. 63 : LSL(w, f, n, a) = Result(w, LSLAfter(w, f, a)[n])
<1> DEFINE s == LSLAfter(w, f, a)
           S(n) == [r |-> Up(w, a, n), x |-> IF n = 0 THEN f.x ELSE Out(w, a, n),
                    v |-> FALSE, c |-> Out(w, a, n)]
<1>1. \A n \in 0 .. 63 : s[n] = S(n)
  BY DEF LSLAfter
<1> HIDE DEF s
<1>2. w \in Nat \ {0} /\ HasSign(w) /\ a \in Int /\ Mask(w, a) = a
  BY SizedIs, SignedIs DEF Unsigned, HasSign
<1>3. s[0] = [r |-> a, x |-> f.x, v |-> FALSE, c |-> "LSL" \in {"ROXL", "ROXR"} /\ f.x]
  <2>1. Up(w, a, 0) = a /\ Out(w, a, 0) = FALSE
    BY UpSteps, 0 \in Nat DEF Out
  <2> QED BY <1>1, <2>1, 0 \in 0 .. 63
<1>4. ASSUME NEW n \in 0 .. 62 PROVE s[n + 1] = OneBit("LSL", w, s[n])
  <2> DEFINE u == Up(w, a, n)
             o == Out(w, a, n + 1)
  <2>1. u \in Int /\ Up(w, a, n + 1) = (2 * u) % 2^w /\ Msb(w, u) = o
    <3>1. n \in Nat
      OBVIOUS
    <3>2. u \in Unsigned(w) /\ Up(w, a, n + 1) = (2 * u) % 2^w /\ Msb(w, u) = o
      BY <3>1, UpSteps
    <3> HIDE DEF u
    <3>3. u \in Int
      BY <1>2, <3>2 DEF Unsigned, HasSign
    <3> QED BY <3>2, <3>3
  <2>2. n + 1 \in 0 .. 63 /\ n \in 0 .. 63 /\ n + 1 # 0
    OBVIOUS
  <2>3. s[n].r = u /\ s[n].v = FALSE
    BY <1>1, <2>2
  <2>4. s[n + 1] = [r |-> (2 * u) % 2^w, x |-> o, v |-> FALSE, c |-> o]
    BY <1>1, <2>1, <2>2
  <2> HIDE DEF u, o
  <2>5. OneBit("LSL", w, s[n]) = [r |-> (2 * u) % 2^w, c |-> o, x |-> o, v |-> FALSE]
    <3> DEFINE g == s[n]
    <3>1. g.r = u /\ g.v = FALSE /\ g.r \in Int /\ g.v \in BOOLEAN
      BY <2>1, <2>3
    <3> HIDE DEF g
    <3>2. OneBit("LSL", w, g) = [r |-> (2 * g.r) % 2^w, c |-> Msb(w, g.r), x |-> Msb(w, g.r), v |-> g.v]
      BY <1>2, <3>1, OneBits
    <3> QED BY <2>1, <3>1, <3>2 DEF g
  <2> QED BY <2>4, <2>5
<1>5. ASSUME NEW n \in 0 .. 63 PROVE LSL(w, f, n, a) = Result(w, s[n])
  <2>1. Count(n) = n /\ s[n] = S(n)
    BY <1>1, CountIs
  <2>2. CASE n = 0
    <3>1. LSL(w, f, n, a) = NotShifted(w, f, a)
      BY <1>2, <2>2, LSLIs
    <3>2. NotShifted(w, f, a) = Result(w, [r |-> a % 2^w, x |-> f.x, v |-> FALSE, c |-> FALSE])
      BY <1>2, ShiftedIs
    <3>3. s[n] = [r |-> a % 2^w, x |-> f.x, v |-> FALSE, c |-> FALSE]
      BY <1>2, <1>3, <2>2 DEF Mask
    <3> QED BY <3>1, <3>2, <3>3
  <2>3. CASE n \in 1 .. w
    <3> DEFINE x == a * 2^n
               c == Bit(a, w - n)
    <3>1. LSL(w, f, n, a) = Shifted(w, x, FALSE, c) /\ n # 0
      <4>1. w \in Nat /\ n # 0
        BY <1>2, <2>3
      <4> QED BY <2>3, <4>1, LSLIs
    <3>2. x \in Int
      <4> DEFINE P == 2^n
      <4>1. P \in Int
        BY <1>2, <2>3, SizedIs
      <4> HIDE DEF P
      <4>2. a * P \in Int
        BY <1>2, <4>1, Z3
      <4> QED BY <4>2 DEF P
    <3>3. Up(w, a, n) = x % 2^w /\ Out(w, a, n) = c
      BY <1>2, <2>3 DEF Up, Out, Bit
    <3> HIDE DEF x, c
    <3>4. Shifted(w, x, FALSE, c) = Result(w, [r |-> x % 2^w, x |-> c, v |-> FALSE, c |-> c])
      BY <1>2, <3>2, ShiftedIs, ZenonT(60)
    <3>5. s[n] = [r |-> x % 2^w, x |-> c, v |-> FALSE, c |-> c]
      BY <2>1, <3>1, <3>3
    <3> QED BY <3>1, <3>4, <3>5
  <2>4. CASE n > w
    <3>1. n # 0 /\ n \notin 1 .. w /\ ~(n <= w)
      BY <1>2, <2>4
    <3>2. LSL(w, f, n, a) = Shifted(w, 0, FALSE, FALSE)
      BY <1>2, <2>4, LSLIs
    <3>3. Shifted(w, 0, FALSE, FALSE) = Result(w, [r |-> 0 % 2^w, x |-> FALSE, v |-> FALSE, c |-> FALSE])
      BY <1>2, ShiftedIs, 0 \in Int, ZenonT(30)
    <3>4. 0 % 2^w = 0
      <4>1. 0 \in Unsigned(w) /\ Mask(w, 0) = 0 % 2^w
        BY <1>2 DEF Unsigned, HasSign, Mask
      <4> QED BY <1>2, <4>1, SignedIs
    <3>5. s[n] = [r |-> 0, x |-> FALSE, v |-> FALSE, c |-> FALSE]
      <4>1. Up(w, a, n) = 0 /\ Out(w, a, n) = FALSE
        BY <3>1 DEF Up, Out
      <4> QED BY <2>1, <3>1, <4>1
    <3> QED BY <3>2, <3>3, <3>4, <3>5
  <2> QED BY <1>2, <2>2, <2>3, <2>4
<1> QED BY <1>3, <1>4, <1>5 DEF Repeats, s

Changes(w, a, n) == a \div 2^(w - 1 - n) \notin {0, 2^(n + 1) - 1}
ASLCases(w, f, n, a) ==
    /\ n = 0 => ASL(w, f, n, a) = NotShifted(w, f, a)
    /\ n \in 1 .. w - 1 => ASL(w, f, n, a) = Shifted(w, a * 2^n, Changes(w, a, n), Bit(a, w - n))
    /\ (n >= w /\ n # 0) => ASL(w, f, n, a) = Shifted(w, 0, a # 0, n = w /\ Bit(a, 0))

LEMMA ASLIs ==
    ASSUME NEW w \in Nat \ {0}, NEW f, NEW a, NEW n \in 0 .. 63
    PROVE  ASLCases(w, f, n, a)
<1> DEFINE c == Count(n)
           r == ASL(w, f, n, a)
           V(i) == Changes(w, a, i)
           C(i) == i = w /\ Bit(a, 0)
           D == a # 0
           B(i) == Bit(a, w - i)
           x(i) == a * 2^i
<1>1. c = n
  BY CountIs
<1> HIDE DEF c
<1>2. r = CASE c = 0 -> NotShifted(w, f, a)
            [] c \in 1 .. w - 1 -> Shifted(w, x(c), V(c), B(c))
            [] c >= w -> Shifted(w, 0, D, C(c))
  BY DEF ASL, Changes, c
<1> HIDE DEF r, V, C, D, B, x
<1>3. n = 0 => r = NotShifted(w, f, a)
  <2>1. n = 0 => (c = 0 /\ ~(c \in 1 .. w - 1) /\ ~(c >= w))
    BY <1>1
  <2> QED BY <1>2, <2>1
<1>4. n \in 1 .. w - 1 => r = Shifted(w, x(n), V(n), B(n))
  <2>1. n \in 1 .. w - 1 => (c # 0 /\ c \in 1 .. w - 1 /\ ~(c >= w))
    BY <1>1
  <2> QED BY <1>1, <1>2, <2>1
<1>5. (n >= w /\ n # 0) => r = Shifted(w, 0, D, C(n))
  <2>1. (n >= w /\ n # 0) => (c # 0 /\ ~(c \in 1 .. w - 1) /\ c >= w)
    BY <1>1
  <2> QED BY <1>1, <1>2, <2>1
<1> QED BY <1>3, <1>4, <1>5 DEF r, V, C, D, B, x, ASLCases

\* Whether not all bits that have been the sign are the same.
Signs(w, a, n) == IF n < w THEN a \div 2^(w - 1 - n) \notin {0, 2^(n + 1) - 1} ELSE a # 0

LEMMA SignsSteps ==
    ASSUME NEW w, Sized(w), NEW a \in Unsigned(w), NEW n \in Nat
    PROVE  /\ ~Signs(w, a, 0)
           /\ Signs(w, a, n + 1) = (Signs(w, a, n) \/ Msb(w, Up(w, a, n + 1)) # Msb(w, Up(w, a, n)))
<1> DEFINE H == 2^(w - 1)
           M == 2^w
           m == Msb(w, Up(w, a, n))
           k == Msb(w, Up(w, a, n + 1))
<1>1. w \in Nat \ {0} /\ H \in Nat \ {0} /\ M = 2 * H /\ a \in 0 .. M - 1 /\ a \in Int /\ 2^0 = 1
  BY SizedIs DEF HasSign, Unsigned
<1>2. m = Out(w, a, n + 1) /\ k = Out(w, a, n + 2) /\ (n >= w => ~m) /\ (n + 1 >= w => ~k)
      /\ m \in BOOLEAN /\ k \in BOOLEAN
  <2>1. m = Out(w, a, n + 1) /\ (n >= w => ~m)
    BY UpSteps
  <2>2. k = Out(w, a, (n + 1) + 1) /\ (n + 1 >= w => ~k)
    <3> DEFINE j == n + 1
    <3>1. j \in Nat
      OBVIOUS
    <3> HIDE DEF j
    <3>2. Msb(w, Up(w, a, j)) = Out(w, a, j + 1) /\ (j >= w => ~Msb(w, Up(w, a, j)))
      BY <3>1, UpSteps
    <3> QED BY <3>2 DEF j
  <2>3. (n + 1) + 1 = n + 2
    OBVIOUS
  <2>4. m \in BOOLEAN /\ k \in BOOLEAN
    BY DEF Msb, Bit
  <2> HIDE DEF m, k
  <2> QED BY <2>1, <2>2, <2>3, <2>4
<1> HIDE DEF m, k
<1>3. ~Signs(w, a, 0)
  <2> DEFINE q == a \div H
  <2>1. q \in {0, 1}
    <3> HIDE DEF H, M, q
    <3>1. (a < H => a \div H = 0) /\ (a >= H => a \div H = 1)
      <4>1. H \in Nat \ {0} /\ a \in Int /\ 0 <= a /\ a < 2 * H
        BY <1>1
      <4> QED BY <4>1, DividedAs
    <3> QED BY <1>1, <3>1 DEF q
  <2>2. 2^(0 + 1) = 2
    <3>1. 2^(0 + 1) = 2 * 2^0
      BY <1>1, SizedIs, 0 \in 0 .. w - 1
    <3> QED BY <1>1, <3>1
  <2>3. w - 1 - 0 = w - 1 /\ 0 < w
    BY <1>1
  <2> HIDE DEF q, M
  <2> QED BY <2>1, <2>2, <2>3 DEF Signs, q
<1>4. CASE n + 1 < w
  <2> DEFINE j == n + 1
             T == a \div 2^(w - 1 - n)
             U == a \div 2^(w - 1 - j)
             P == 2^n
             Q == 2^(n + 1)
             R == 2^(n + 2)
  <2>1. /\ j \in 0 .. w - 1 /\ j < w /\ n < w /\ w - j = w - 1 - n /\ n + 2 = j + 1
        /\ n \in 0 .. w /\ n \in 0 .. w - 1 /\ n + 1 \in 0 .. w - 1 /\ n + 1 \in 1 .. w /\ n + 2 \in 1 .. w
        /\ w - (n + 1) = w - 1 - n /\ w - (n + 2) = w - 1 - j
    BY <1>1, <1>4
  <2>2. P \in Nat \ {0} /\ Q = 2 * P /\ R = 2 * Q
    <3>1. P \in Nat \ {0} /\ 2^(n + 1) = 2 * 2^n /\ 2^((n + 1) + 1) = 2 * 2^(n + 1)
      BY <2>1, SizedIs
    <3>2. (n + 1) + 1 = n + 2
      OBVIOUS
    <3> QED BY <3>1, <3>2
  <2>3. PICK b \in {0, 1}, t \in Nat, h \in Nat : MovesUp(w, a, j, b, t, h)
    BY <2>1, MovedUp
  <2>4. T = h /\ U = 2 * h + b /\ (Bit(a, w - 1 - j) <=> b = 1)
    BY <2>1, <2>3 DEF MovesUp
  <2>5. k <=> b = 1
    BY <1>2, <2>1, <2>4 DEF Out
  <2>6. m <=> h % 2 = 1
    <3>1. m <=> Bit(a, w - 1 - n)
      BY <1>2, <2>1 DEF Out
    <3> QED BY <2>4, <3>1 DEF Bit
  <2>7. /\ Signs(w, a, n) = (T \notin {0, Q - 1})
        /\ Signs(w, a, n + 1) = (U \notin {0, R - 1})
    BY <2>1 DEF Signs
  <2> HIDE DEF T, U, P, Q, R, j
  <2>8. (2 * h + b \notin {0, 2 * (2 * P) - 1}) <=> (h \notin {0, 2 * P - 1} \/ ((b = 1) # (h % 2 = 1)))
    <3>1. CASE b = 0
      BY <2>2, <3>1
    <3>2. CASE b = 1
      BY <2>2, <3>2
    <3> QED BY <3>1, <3>2
  <2>9. (U \notin {0, R - 1}) <=> (T \notin {0, Q - 1} \/ k # m)
    BY <1>2, <2>2, <2>4, <2>5, <2>6, <2>8
  <2> QED BY <1>3, <2>7, <2>9 DEF m, k
<1>5. CASE n + 1 = w
  <2>1. n < w /\ ~(n + 1 < w) /\ w - 1 - n = 0 /\ w - (n + 1) = 0 /\ n + 1 \in 1 .. w /\ n + 1 >= w
    BY <1>1, <1>5
  <2>2. a \div 1 = a
    BY <1>1
  <2>3. Signs(w, a, n) = (a \notin {0, M - 1}) /\ Signs(w, a, n + 1) = (a # 0)
    BY <1>1, <1>5, <2>1, <2>2 DEF Signs
  <2>4. m <=> a % 2 = 1
    BY <1>1, <1>2, <2>1, <2>2 DEF Out, Bit
  <2> HIDE DEF M, H
  <2>5. (a # 0) <=> (a \notin {0, M - 1} \/ a % 2 = 1)
    BY <1>1
  <2>6. (a # 0) <=> (a \notin {0, M - 1} \/ k # m)
    BY <1>2, <2>1, <2>4, <2>5
  <2> QED BY <1>3, <2>3, <2>6 DEF m, k
<1>6. CASE n >= w
  <2>1. ~(n < w) /\ ~(n + 1 < w) /\ n + 1 >= w
    BY <1>1, <1>6
  <2>2. Signs(w, a, n) = (a # 0) /\ Signs(w, a, n + 1) = (a # 0)
    BY <2>1 DEF Signs
  <2>3. (a # 0) <=> (a # 0 \/ k # m)
    BY <1>2, <1>6, <2>1
  <2> QED BY <1>3, <2>2, <2>3 DEF m, k
<1> QED BY <1>1, <1>4, <1>5, <1>6

ASLAfter(w, f, a) ==
    [n \in 0 .. 63 |-> [r |-> Up(w, a, n), x |-> IF n = 0 THEN f.x ELSE Out(w, a, n),
                        v |-> Signs(w, a, n), c |-> Out(w, a, n)]]

LEMMA ASLRepeats ==
    ASSUME NEW w, Sized(w), NEW f \in Flags, NEW a \in Unsigned(w)
    PROVE  /\ Repeats("ASL", w, f, a, ASLAfter(w, f, a))
           /\ \A n \in 0 .. 63 : ASL(w, f, n, a) = Result(w, ASLAfter(w, f, a)[n])
<1> DEFINE s == ASLAfter(w, f, a)
           S(n) == [r |-> Up(w, a, n), x |-> IF n = 0 THEN f.x ELSE Out(w, a, n),
                    v |-> Signs(w, a, n), c |-> Out(w, a, n)]
<1>1. \A n \in 0 .. 63 : s[n] = S(n)
  BY DEF ASLAfter
<1> HIDE DEF s
<1>2. w \in Nat \ {0} /\ HasSign(w) /\ a \in Int /\ Mask(w, a) = a
  BY SizedIs, SignedIs DEF Unsigned, HasSign
<1>3. \A n \in 0 .. 63 : Signs(w, a, n) \in BOOLEAN /\ Out(w, a, n) \in BOOLEAN
  BY DEF Signs, Out, Bit
<1>4. s[0] = [r |-> a, x |-> f.x, v |-> FALSE, c |-> "ASL" \in {"ROXL", "ROXR"} /\ f.x]
  <2>1. Up(w, a, 0) = a /\ Out(w, a, 0) = FALSE /\ Signs(w, a, 0) = FALSE
    BY <1>3, UpSteps, SignsSteps, 0 \in Nat, 0 \in 0 .. 63
  <2> QED BY <1>1, <2>1, 0 \in 0 .. 63
<1>5. ASSUME NEW n \in 0 .. 62 PROVE s[n + 1] = OneBit("ASL", w, s[n])
  <2> DEFINE u == Up(w, a, n)
             t == Up(w, a, n + 1)
             o == Out(w, a, n + 1)
             v == Signs(w, a, n)
             e == Signs(w, a, n + 1)
  <2>1. u \in Int /\ t = (2 * u) % 2^w /\ Msb(w, u) = o /\ v \in BOOLEAN
        /\ e = (v \/ Msb(w, t) # o)
    <3>1. n \in Nat /\ n \in 0 .. 63
      OBVIOUS
    <3>2. u \in Unsigned(w) /\ t = (2 * u) % 2^w /\ Msb(w, u) = o
      BY <3>1, UpSteps
    <3>3. e = (v \/ Msb(w, t) # Msb(w, u))
      BY <3>1, SignsSteps
    <3>4. v \in BOOLEAN
      BY <1>3, <3>1
    <3> HIDE DEF u, t, o, v, e
    <3>5. u \in Int
      BY <1>2, <3>2 DEF Unsigned, HasSign
    <3> QED BY <3>2, <3>3, <3>4, <3>5
  <2>2. n + 1 \in 0 .. 63 /\ n \in 0 .. 63 /\ n + 1 # 0
    OBVIOUS
  <2>3. s[n].r = u /\ s[n].v = v
    BY <1>1, <2>2
  <2>4. s[n + 1] = [r |-> t, x |-> o, v |-> e, c |-> o]
    BY <1>1, <2>2
  <2> HIDE DEF u, o, t, v, e
  <2>5. OneBit("ASL", w, s[n]) = [r |-> t, c |-> o, x |-> o, v |-> v \/ Msb(w, t) # o]
    <3> DEFINE g == s[n]
    <3>1. g.r = u /\ g.v = v /\ g.r \in Int /\ g.v \in BOOLEAN
      BY <2>1, <2>3
    <3> HIDE DEF g
    <3>2. OneBit("ASL", w, g) = [r |-> (2 * g.r) % 2^w, c |-> Msb(w, g.r), x |-> Msb(w, g.r),
                                 v |-> g.v \/ Msb(w, (2 * g.r) % 2^w) # Msb(w, g.r)]
      BY <1>2, <3>1, OneBits
    <3> QED BY <2>1, <3>1, <3>2 DEF g
  <2> QED BY <2>1, <2>4, <2>5
<1>6. ASSUME NEW n \in 0 .. 63 PROVE ASL(w, f, n, a) = Result(w, s[n])
  <2>1. s[n] = S(n) /\ w \in Nat \ {0}
    BY <1>1, <1>2
  <2> HIDE DEF S
  <2>20. ASLCases(w, f, n, a)
    BY <2>1, ASLIs
  <2>2. CASE n = 0
    <3>1. ASL(w, f, n, a) = NotShifted(w, f, a)
      BY <2>2, <2>20 DEF ASLCases
    <3>2. NotShifted(w, f, a) = Result(w, [r |-> a % 2^w, x |-> f.x, v |-> FALSE, c |-> FALSE])
      BY <1>2, ShiftedIs
    <3>3. s[n] = [r |-> a % 2^w, x |-> f.x, v |-> FALSE, c |-> FALSE]
      BY <1>2, <1>4, <2>2 DEF Mask
    <3> QED BY <3>1, <3>2, <3>3
  <2>3. CASE n \in 1 .. w - 1
    <3> DEFINE x == a * 2^n
               v == Changes(w, a, n)
               c == Bit(a, w - n)
    <3>1. n # 0 /\ n \in 1 .. w /\ n <= w /\ n < w /\ n \in 0 .. w
      BY <1>2, <2>3
    <3>2. ASL(w, f, n, a) = Shifted(w, x, v, c)
      BY <2>3, <2>20 DEF ASLCases
    <3>3. x \in Int
      <4> DEFINE P == 2^n
      <4>1. P \in Int
        BY <3>1, SizedIs
      <4> HIDE DEF P
      <4>2. a * P \in Int
        BY <1>2, <4>1, Z3
      <4> QED BY <4>2 DEF P
    <3>4. Up(w, a, n) = x % 2^w /\ Out(w, a, n) = c /\ Signs(w, a, n) = v
      BY <3>1 DEF Up, Out, Bit, Signs, Changes
    <3> HIDE DEF x, c, v
    <3>5. Shifted(w, x, v, c) = Result(w, [r |-> x % 2^w, x |-> c, v |-> v, c |-> c])
      BY <1>2, <3>3, ShiftedIs
    <3>6. s[n] = [r |-> x % 2^w, x |-> c, v |-> v, c |-> c]
      BY <2>1, <3>1, <3>4 DEF S
    <3> QED BY <3>2, <3>5, <3>6
  <2>4. CASE n >= w
    <3> DEFINE v == a # 0
               c == n = w /\ Bit(a, 0)
    <3>1. n # 0 /\ ~(n < w) /\ n \in Nat
      BY <1>2, <2>4
    <3>2. ASL(w, f, n, a) = Shifted(w, 0, v, c)
      BY <2>4, <2>20, <3>1 DEF ASLCases
    <3>3. Up(w, a, n) = 0 /\ Signs(w, a, n) = v
      BY <2>4, <3>1, UpSteps DEF Signs
    <3>4. Out(w, a, n) = c
      <4>1. (n \in 1 .. w) <=> n = w
        BY <1>2, <2>4
      <4>2. w - w = 0
        BY <1>2
      <4> QED BY <4>1, <4>2 DEF Out, Bit
    <3> HIDE DEF v, c
    <3>5. Shifted(w, 0, v, c) = Result(w, [r |-> 0 % 2^w, x |-> c, v |-> v, c |-> c])
      BY <1>2, ShiftedIs, 0 \in Int
    <3>6. 0 % 2^w = 0
      <4>1. 0 \in Unsigned(w) /\ Mask(w, 0) = 0 % 2^w
        BY <1>2 DEF Unsigned, HasSign, Mask
      <4> QED BY <1>2, <4>1, SignedIs
    <3>7. s[n] = [r |-> 0, x |-> c, v |-> v, c |-> c]
      BY <2>1, <3>1, <3>3, <3>4 DEF S
    <3> QED BY <3>2, <3>5, <3>6, <3>7
  <2> QED BY <1>2, <2>2, <2>3, <2>4
<1> QED BY <1>4, <1>5, <1>6 DEF Repeats, s

\* a, moved down by n bits, and the last bit that has left.
Down(w, a, n) == IF n <= w THEN a \div 2^n ELSE 0
Gone(w, a, n) == n \in 1 .. w /\ Bit(a, n - 1)

LEMMA DownSteps ==
    ASSUME NEW w, Sized(w), NEW a \in Unsigned(w), NEW n \in Nat
    PROVE  /\ Down(w, a, n) \in Unsigned(w) /\ Down(w, a, 0) = a /\ ~Gone(w, a, 0)
           /\ Down(w, a, n + 1) = Down(w, a, n) \div 2
           /\ Bit(Down(w, a, n), 0) = Gone(w, a, n + 1)
           /\ n >= w => Down(w, a, n) = 0
<1> DEFINE M == 2^w
           u == Down(w, a, n)
<1>1. /\ w \in Nat \ {0} /\ M \in Nat \ {0} /\ a \in 0 .. M - 1 /\ a \in Nat /\ 2^0 = 1
      /\ a \div 1 = a /\ a \div M = 0
  <2>1. /\ w \in Nat \ {0} /\ M \in Nat \ {0} /\ a \in 0 .. M - 1 /\ a \in Nat /\ 2^0 = 1
    <3>1. w \in Nat \ {0} /\ M \in Nat \ {0} /\ 2^0 = 1
      BY SizedIs, w \in 0 .. w
    <3>2. a \in 0 .. M - 1
      BY DEF Unsigned
    <3> QED BY <3>1, <3>2
  <2> HIDE DEF M
  <2> QED BY <2>1, BelowDivided
<1>2. Down(w, a, 0) = a /\ ~Gone(w, a, 0)
  BY <1>1 DEF Down, Gone
<1>3. n >= w => u = 0
  <2>1. CASE n = w
    BY <1>1, <2>1 DEF Down
  <2>2. CASE n # w
    <3>1. n >= w => ~(n <= w)
      BY <1>1, <2>2
    <3> QED BY <3>1 DEF Down
  <2> QED BY <2>1, <2>2
<1>4. CASE n < w
  <2> DEFINE E == 2^n
             h == a \div (2 * E)
             b == (a \div E) % 2
  <2>1. n \in 0 .. w /\ n \in 0 .. w - 1 /\ n <= w /\ n + 1 <= w /\ n + 1 \in 1 .. w /\ (n + 1) - 1 = n
        /\ ~(n >= w)
    BY <1>1, <1>4
  <2>2. E \in Nat \ {0} /\ 2^(n + 1) = 2 * E
    BY <2>1, SizedIs
  <2>3. u = a \div E /\ Down(w, a, n + 1) = h /\ (Gone(w, a, n + 1) <=> b = 1)
    BY <2>1, <2>2 DEF Down, Gone, Bit
  <2> HIDE DEF E, M
  <2>4. a \div E = 2 * h + b /\ b \in {0, 1} /\ h \in Nat /\ a \div E \in Nat
    BY <1>1, <2>2, HalfQuotient
  <2>5. a \div E < M
    <3>1. a < M * E
      <4>1. E - 1 \in Nat /\ M \in Nat
        BY <1>1, <2>2
      <4> DEFINE e == E - 1
      <4>2. M * e >= 0 /\ M * E = M * e + M
        BY <2>2, <4>1, Z3
      <4> HIDE DEF e
      <4>3. M * e \in Int /\ M * E \in Int
        BY <2>2, <4>1, Z3 DEF e
      <4> DEFINE y == M * e
                 z == M * E
      <4> HIDE DEF y, z
      <4>4. z = y + M /\ y >= 0 /\ y \in Int
        BY <4>2, <4>3 DEF y, z
      <4>5. a < z
        BY <1>1, <4>4
      <4> QED BY <4>5 DEF z
    <3>2. \A k \in Int : (a < k * E) <=> (a \div E < k)
      <4>1. E \in Nat \ {0} /\ a \in Int
        BY <1>1, <2>2
      <4> QED BY <4>1, DivisionOf
    <3> QED BY <1>1, <3>1, <3>2
  <2> HIDE DEF u, h, b
  <2>6. u = 2 * h + b /\ u \in 0 .. M - 1
    <3> DEFINE q == a \div E
    <3>1. q = u /\ q \in Nat /\ q < M /\ q = 2 * h + b
      BY <2>3, <2>4, <2>5
    <3> HIDE DEF q
    <3> QED BY <1>1, <3>1
  <2>7. u \div 2 = h /\ (Bit(u, 0) <=> b = 1)
    <3>1. 2^0 = 1
      BY <1>1
    <3>2. (2 * h + b) \div 2 = h /\ (Bit(2 * h + b, 0) <=> b = 1)
      BY <2>4, <3>1, LowBit
    <3> QED BY <2>6, <3>2
  <2>8. Bit(u, 0) = Gone(w, a, n + 1)
    BY <2>3, <2>7 DEF Bit, Gone
  <2> QED BY <1>2, <1>3, <2>3, <2>6, <2>7, <2>8 DEF u, M, Unsigned
<1>5. CASE n >= w
  <2>1. u = 0 /\ Down(w, a, n + 1) = 0 /\ ~Gone(w, a, n + 1)
    <3>1. ~(n + 1 <= w) /\ n + 1 \notin 1 .. w
      BY <1>1, <1>5
    <3> QED BY <1>3, <1>5, <3>1 DEF Down, Gone
  <2>2. 0 \div 2 = 0 /\ ~Bit(0, 0) /\ 0 \in 0 .. M - 1
    <3>1. 0 \div 1 = 0 /\ 0 \div 2 = 0
      OBVIOUS
    <3> HIDE DEF M
    <3> QED BY <1>1, <3>1 DEF Bit
  <2> HIDE DEF u, M
  <2>3. Bit(u, 0) = Gone(w, a, n + 1)
    BY <2>1, <2>2 DEF Bit, Gone
  <2> QED BY <1>2, <1>3, <2>1, <2>2, <2>3 DEF u, M, Unsigned
<1> QED BY <1>1, <1>4, <1>5

LSRCases(w, f, n, a) ==
    /\ n = 0 => LSR(w, f, n, a) = NotShifted(w, f, a)
    /\ n \in 1 .. w => LSR(w, f, n, a) = Shifted(w, a \div 2^n, FALSE, Bit(a, n - 1))
    /\ n > w => LSR(w, f, n, a) = Shifted(w, 0, FALSE, FALSE)

LEMMA LSRIs ==
    ASSUME NEW w \in Nat, NEW f, NEW a, NEW n \in 0 .. 63
    PROVE  LSRCases(w, f, n, a)
<1> DEFINE c == Count(n)
           r == LSR(w, f, n, a)
           B(i) == Bit(a, i - 1)
           x(i) == a \div 2^i
<1>1. c = n
  BY CountIs
<1> HIDE DEF c
<1>2. r = CASE c = 0 -> NotShifted(w, f, a)
            [] c \in 1 .. w -> Shifted(w, x(c), FALSE, B(c))
            [] c > w -> Shifted(w, 0, FALSE, FALSE)
  BY DEF LSR, c
<1> HIDE DEF r, B, x
<1>3. n = 0 => r = NotShifted(w, f, a)
  <2>1. n = 0 => (c = 0 /\ ~(c \in 1 .. w) /\ ~(c > w))
    BY <1>1
  <2> QED BY <1>2, <2>1
<1>4. n \in 1 .. w => r = Shifted(w, x(n), FALSE, B(n))
  <2>1. n \in 1 .. w => (c # 0 /\ c \in 1 .. w /\ ~(c > w))
    BY <1>1
  <2> QED BY <1>1, <1>2, <2>1
<1>5. n > w => r = Shifted(w, 0, FALSE, FALSE)
  <2>1. n > w => (c # 0 /\ ~(c \in 1 .. w) /\ c > w)
    BY <1>1
  <2> QED BY <1>2, <2>1
<1> QED BY <1>3, <1>4, <1>5 DEF r, B, x, LSRCases

LSRAfter(w, f, a) ==
    [n \in 0 .. 63 |-> [r |-> Down(w, a, n), x |-> IF n = 0 THEN f.x ELSE Gone(w, a, n),
                        v |-> FALSE, c |-> Gone(w, a, n)]]

LEMMA LSRRepeats ==
    ASSUME NEW w, Sized(w), NEW f \in Flags, NEW a \in Unsigned(w)
    PROVE  /\ Repeats("LSR", w, f, a, LSRAfter(w, f, a))
           /\ \A n \in 0 .. 63 : LSR(w, f, n, a) = Result(w, LSRAfter(w, f, a)[n])
<1> DEFINE s == LSRAfter(w, f, a)
           S(n) == [r |-> Down(w, a, n), x |-> IF n = 0 THEN f.x ELSE Gone(w, a, n),
                    v |-> FALSE, c |-> Gone(w, a, n)]
<1>1. \A n \in 0 .. 63 : s[n] = S(n)
  BY DEF LSRAfter
<1> HIDE DEF s
<1>2. w \in Nat \ {0} /\ HasSign(w) /\ a \in Int /\ Mask(w, a) = a
  BY SizedIs, SignedIs DEF Unsigned, HasSign
<1>3. s[0] = [r |-> a, x |-> f.x, v |-> FALSE, c |-> "LSR" \in {"ROXL", "ROXR"} /\ f.x]
  <2>1. Down(w, a, 0) = a /\ Gone(w, a, 0) = FALSE
    BY DownSteps, 0 \in Nat DEF Gone
  <2> QED BY <1>1, <2>1, 0 \in 0 .. 63
<1>4. ASSUME NEW n \in 0 .. 62 PROVE s[n + 1] = OneBit("LSR", w, s[n])
  <2> DEFINE u == Down(w, a, n)
             o == Gone(w, a, n + 1)
             t == Down(w, a, n + 1)
  <2>1. u \in Int /\ t = u \div 2 /\ Bit(u, 0) = o
    <3>1. n \in Nat
      OBVIOUS
    <3>2. u \in Unsigned(w) /\ t = u \div 2 /\ Bit(u, 0) = o
      BY <3>1, DownSteps
    <3> HIDE DEF u, t, o
    <3>3. u \in Int
      BY <1>2, <3>2 DEF Unsigned, HasSign
    <3> QED BY <3>2, <3>3
  <2>2. n + 1 \in 0 .. 63 /\ n \in 0 .. 63 /\ n + 1 # 0
    OBVIOUS
  <2>3. s[n].r = u /\ s[n].v = FALSE
    BY <1>1, <2>2
  <2>4. s[n + 1] = [r |-> t, x |-> o, v |-> FALSE, c |-> o]
    BY <1>1, <2>2
  <2> HIDE DEF u, o, t
  <2>5. OneBit("LSR", w, s[n]) = [r |-> u \div 2, c |-> o, x |-> o, v |-> FALSE]
    <3> DEFINE g == s[n]
    <3>1. g.r = u /\ g.v = FALSE /\ g.r \in Int /\ g.v \in BOOLEAN
      BY <2>1, <2>3
    <3> HIDE DEF g
    <3>2. OneBit("LSR", w, g) = [r |-> g.r \div 2, c |-> Bit(g.r, 0), x |-> Bit(g.r, 0), v |-> g.v]
      BY <1>2, <3>1, OneBits
    <3> QED BY <2>1, <3>1, <3>2 DEF g
  <2> QED BY <2>1, <2>4, <2>5
<1>5. ASSUME NEW n \in 0 .. 63 PROVE LSR(w, f, n, a) = Result(w, s[n])
  <2>1. s[n] = S(n) /\ w \in Nat
    BY <1>1, <1>2
  <2> HIDE DEF S
  <2>2. LSRCases(w, f, n, a)
    BY <2>1, LSRIs
  <2>3. CASE n = 0
    <3>1. LSR(w, f, n, a) = NotShifted(w, f, a)
      BY <2>2, <2>3 DEF LSRCases
    <3>2. NotShifted(w, f, a) = Result(w, [r |-> a % 2^w, x |-> f.x, v |-> FALSE, c |-> FALSE])
      BY <1>2, ShiftedIs
    <3>3. s[n] = [r |-> a % 2^w, x |-> f.x, v |-> FALSE, c |-> FALSE]
      BY <1>2, <1>3, <2>3 DEF Mask
    <3> QED BY <3>1, <3>2, <3>3
  <2>4. CASE n \in 1 .. w
    <3> DEFINE x == a \div 2^n
               c == Bit(a, n - 1)
    <3>1. n # 0 /\ n <= w /\ n \in Nat
      BY <1>2, <2>4
    <3>2. LSR(w, f, n, a) = Shifted(w, x, FALSE, c)
      BY <2>2, <2>4 DEF LSRCases
    <3>3. Down(w, a, n) = x /\ Gone(w, a, n) = c
      BY <2>4, <3>1 DEF Down, Gone, Bit
    <3>4. Down(w, a, n) \in Unsigned(w)
      BY <3>1, DownSteps
    <3> HIDE DEF x, c
    <3>5. x \in Unsigned(w)
      BY <3>3, <3>4
    <3>6. x % 2^w = x /\ x \in Int
      BY <1>2, <3>5, SignedIs DEF Mask, Unsigned, HasSign
    <3>7. Shifted(w, x, FALSE, c) = Result(w, [r |-> x % 2^w, x |-> c, v |-> FALSE, c |-> c])
      BY <1>2, <3>6, ShiftedIs, ZenonT(60)
    <3>8. s[n] = [r |-> x, x |-> c, v |-> FALSE, c |-> c]
      BY <2>1, <3>1, <3>3 DEF S
    <3> QED BY <3>2, <3>6, <3>7, <3>8
  <2>5. CASE n > w
    <3>1. n # 0 /\ n \notin 1 .. w /\ ~(n <= w)
      BY <1>2, <2>5
    <3>2. LSR(w, f, n, a) = Shifted(w, 0, FALSE, FALSE)
      BY <2>2, <2>5 DEF LSRCases
    <3>3. Shifted(w, 0, FALSE, FALSE) = Result(w, [r |-> 0 % 2^w, x |-> FALSE, v |-> FALSE, c |-> FALSE])
      BY <1>2, ShiftedIs, 0 \in Int
    <3>4. 0 % 2^w = 0
      <4>1. 0 \in Unsigned(w) /\ Mask(w, 0) = 0 % 2^w
        BY <1>2 DEF Unsigned, HasSign, Mask
      <4> QED BY <1>2, <4>1, SignedIs
    <3>5. s[n] = [r |-> 0, x |-> FALSE, v |-> FALSE, c |-> FALSE]
      <4>1. Down(w, a, n) = 0 /\ Gone(w, a, n) = FALSE
        BY <3>1 DEF Down, Gone
      <4> QED BY <2>1, <3>1, <4>1 DEF S
    <3> QED BY <3>2, <3>3, <3>4, <3>5
  <2> QED BY <1>2, <2>3, <2>4, <2>5
<1> QED BY <1>3, <1>4, <1>5 DEF Repeats, s

\* a, moved down by n bits under copies of its sign, and the last bit that has left.
SignDown(w, a, n) ==
    IF n < w THEN (a \div 2^n) + (IF Msb(w, a) THEN 2^w - 2^(w - n) ELSE 0)
    ELSE IF Msb(w, a) THEN 2^w - 1 ELSE 0
SignGone(w, a, n) == n # 0 /\ (IF n < w THEN Bit(a, n - 1) ELSE Msb(w, a))

LEMMA SignDownIs ==
    ASSUME NEW w, Sized(w), NEW a \in Unsigned(w), NEW n \in 0 .. w
    PROVE  SignDown(w, a, n) = Down(w, a, n) + (IF Msb(w, a) THEN 2^w - 2^(w - n) ELSE 0)
<1> DEFINE M == 2^w
<1>1. w \in Nat \ {0} /\ n \in Nat /\ n <= w /\ M \in Nat /\ 2^0 = 1
  BY SizedIs, w \in 0 .. w
<1>2. CASE n < w
  BY <1>1, <1>2 DEF SignDown, Down
<1>3. CASE n = w
  <2>1. ~(n < w) /\ w - n = 0
    BY <1>1, <1>3
  <2>2. Down(w, a, n) = 0
    <3>1. n >= w
      BY <1>1, <1>3
    <3> QED BY <1>1, <3>1, DownSteps
  <2> HIDE DEF M
  <2>3. 0 + (M - 1) = M - 1 /\ 0 + 0 = 0
    BY <1>1
  <2> QED BY <1>1, <2>1, <2>2, <2>3 DEF SignDown, M
<1> QED BY <1>1, <1>2, <1>3

LEMMA SignDownSteps ==
    ASSUME NEW w, Sized(w), NEW a \in Unsigned(w), NEW n \in Nat
    PROVE  /\ SignDown(w, a, n) \in Unsigned(w) /\ SignDown(w, a, 0) = a
           /\ SignDown(w, a, n + 1) =
                  (SignDown(w, a, n) \div 2) + AsOne(Msb(w, SignDown(w, a, n))) * 2^(w - 1)
           /\ Bit(SignDown(w, a, n), 0) = SignGone(w, a, n + 1)
<1> DEFINE M == 2^w
           H == 2^(w - 1)
           s == Msb(w, a)
           u == SignDown(w, a, n)
           t == SignDown(w, a, n + 1)
<1>1. /\ w \in Nat \ {0} /\ HasSign(w) /\ H \in Nat \ {0} /\ M = 2 * H /\ M \in Nat \ {0}
      /\ a \in 0 .. M - 1 /\ a \in Nat /\ 2^0 = 1 /\ (s <=> a >= H) /\ s \in BOOLEAN
  <2>1. w \in Nat \ {0} /\ HasSign(w) /\ 2^0 = 1
    BY SizedIs
  <2>2. (s <=> a >= H) /\ s \in BOOLEAN
    BY <2>1, SignedIs DEF Msb, Bit
  <2>3. H \in Nat \ {0} /\ M = 2 * H /\ a \in 0 .. M - 1
    BY <2>1 DEF HasSign, Unsigned
  <2> HIDE DEF H, M, s
  <2>4. M \in Nat \ {0} /\ a \in Nat
    BY <2>3
  <2> QED BY <2>1, <2>2, <2>3, <2>4
<1>2. SignDown(w, a, 0) = a
  <2>1. 0 \in 0 .. w /\ w - 0 = w /\ Down(w, a, 0) = a
    BY <1>1, DownSteps, 0 \in Nat
  <2>2. SignDown(w, a, 0) = a + (IF s THEN M - M ELSE 0)
    BY <2>1, SignDownIs
  <2> HIDE DEF M, H, s
  <2> QED BY <1>1, <2>2
<1> HIDE DEF s
<1>3. CASE n < w
  <2> DEFINE E == 2^n
             G == 2^(w - 1 - n)
             D == Down(w, a, n)
             e == Down(w, a, n + 1)
             b == D % 2
  <2>1. /\ n \in 0 .. w /\ n \in 0 .. w - 1 /\ n <= w /\ n + 1 \in 0 .. w /\ n + 1 \in 1 .. w
        /\ (n + 1) - 1 = n /\ w - 1 - n \in 0 .. w - 1 /\ w - 1 - n \in 0 .. w
        /\ (w - 1 - n) + 1 = w - n /\ w - (n + 1) = w - 1 - n /\ n + 1 # 0
    BY <1>1, <1>3
  <2>2. E \in Nat \ {0} /\ G \in Nat \ {0} /\ 2^(w - n) = 2 * G /\ H = E * G /\ 2^(w - (n + 1)) = G
    BY <2>1, SizedIs
  <2>3. u = D + (IF s THEN M - 2 * G ELSE 0) /\ t = e + (IF s THEN M - G ELSE 0)
    <3>1. u = D + (IF s THEN M - 2 * G ELSE 0)
      BY <2>1, <2>2, SignDownIs DEF s
    <3>2. t = e + (IF s THEN M - G ELSE 0)
      <4> DEFINE j == n + 1
      <4>1. j \in 0 .. w /\ 2^(w - j) = G
        BY <2>1, <2>2
      <4> HIDE DEF j
      <4>2. SignDown(w, a, j) = Down(w, a, j) + (IF Msb(w, a) THEN 2^w - 2^(w - j) ELSE 0)
        BY <4>1, SignDownIs
      <4> QED BY <4>1, <4>2 DEF s, j
    <3> QED BY <3>1, <3>2
  <2>4. D \in Unsigned(w) /\ e = D \div 2 /\ Bit(D, 0) = Gone(w, a, n + 1) /\ D = a \div E
    BY <2>1, DownSteps DEF Down
  <2>5. Gone(w, a, n + 1) = SignGone(w, a, n + 1)
    <3>1. CASE n + 1 < w
      BY <2>1, <3>1 DEF Gone, SignGone, Bit
    <3>2. CASE n + 1 = w
      <4>1. n = w - 1 /\ ~(n + 1 < w)
        BY <1>1, <3>2
      <4> QED BY <2>1, <4>1 DEF Gone, SignGone, Bit, Msb
    <3> QED BY <1>1, <2>1, <3>1, <3>2
  <2> HIDE DEF E, G, M, H
  <2>6. (D < G <=> a < H) /\ D < 2 * G /\ D \in Nat /\ G <= H
    <3>1. E \in Nat \ {0} /\ a \in Int
      BY <1>1, <2>2
    <3>2. \A k \in Int : (a < k * E) <=> (a \div E < k)
      BY <3>1, DivisionOf
    <3>3. G * E = H /\ (2 * G) * E = M /\ G \in Int /\ 2 * G \in Int
      <4>1. G * E = E * G /\ (2 * G) * E = 2 * (E * G)
        BY <2>2, Z3
      <4> QED BY <1>1, <2>2, <4>1
    <3>4. (a < H <=> a \div E < G) /\ (a < M <=> a \div E < 2 * G)
      BY <3>2, <3>3
    <3>5. D \in Nat
      BY <1>1, <2>4 DEF Unsigned, M
    <3>6. G <= H
      <4> DEFINE f == E - 1
                 y == f * G
      <4>1. f \in Nat /\ G \in Nat
        BY <2>2
      <4>2. E * G = f * G + G
        BY <2>2, Z3
      <4> HIDE DEF f
      <4>3. y \in Nat
        BY <4>1, Z3
      <4> HIDE DEF y
      <4> QED BY <2>2, <4>1, <4>2, <4>3 DEF y
    <3> QED BY <1>1, <2>4, <3>4, <3>5, <3>6
  <2>7. D = 2 * e + b /\ b \in {0, 1} /\ e \in Nat
    <3> HIDE DEF D, e, b
    <3>1. D \in Nat /\ e = D \div 2 /\ b = D % 2
      BY <2>4, <2>6 DEF b
    <3> QED BY <3>1
  <2> HIDE DEF D, e, b, u, t
  <2> DEFINE c == IF s THEN H - G ELSE 0
             g == e + c
  <2>8. u = 2 * g + b /\ t = g + (IF s THEN H ELSE 0) /\ g \in Nat
    BY <1>1, <2>2, <2>3, <2>6, <2>7
  <2>9. u \in 0 .. M - 1 /\ (u >= H <=> s)
    <3>1. CASE s
      <4>1. u = D + M - 2 * G /\ a >= H /\ ~(a < H)
        BY <1>1, <2>2, <2>3, <2>6, <3>1
      <4>2. D >= G
        BY <1>1, <2>2, <2>6, <4>1
      <4> QED BY <1>1, <2>2, <2>6, <3>1, <4>1, <4>2
    <3>2. CASE ~s
      <4>1. u = D /\ a < H
        BY <1>1, <2>2, <2>3, <2>6, <3>2
      <4> QED BY <1>1, <2>2, <2>6, <3>2, <4>1
    <3> QED BY <3>1, <3>2
  <2> HIDE DEF g
  <2>10. u \div 2 = g /\ (Bit(u, 0) <=> b = 1)
    <3>1. 2^0 = 1
      BY <1>1
    <3>2. (2 * g + b) \div 2 = g /\ (Bit(2 * g + b, 0) <=> b = 1)
      BY <2>7, <2>8, <3>1, LowBit
    <3> QED BY <2>8, <3>2
  <2>11. Bit(D, 0) <=> b = 1
    <3>1. 2^0 = 1
      BY <1>1
    <3>2. Bit(2 * e + b, 0) <=> b = 1
      BY <2>7, <3>1, LowBit
    <3> QED BY <2>7, <3>2
  <2>12. Msb(w, u) = s
    <3>1. u \in Unsigned(w)
      BY <2>9 DEF Unsigned, M
    <3>2. Msb(w, u) = (u >= H)
      BY <1>1, <3>1, SignedIs DEF H
    <3>3. Msb(w, u) <=> s
      BY <2>9, <3>2
    <3> QED BY <1>1, <3>3 DEF Msb, Bit
  <2>13. AsOne(s) * H = (IF s THEN H ELSE 0)
    BY <1>1 DEF AsOne
  <2>14. t = (u \div 2) + AsOne(Msb(w, u)) * H
    BY <2>8, <2>10, <2>12, <2>13
  <2>15. Bit(u, 0) = SignGone(w, a, n + 1)
    BY <2>4, <2>5, <2>10, <2>11 DEF Bit, SignGone, Gone
  <2> QED BY <1>2, <2>9, <2>14, <2>15 DEF Unsigned, M, H, u, t
<1>4. CASE n >= w
  <2>1. /\ u = (IF s THEN M - 1 ELSE 0) /\ t = (IF s THEN M - 1 ELSE 0)
        /\ SignGone(w, a, n + 1) = s
    <3>1. ~(n < w) /\ ~(n + 1 < w) /\ n + 1 # 0
      BY <1>1, <1>4
    <3> QED BY <1>1, <3>1 DEF SignDown, SignGone, s
  <2> HIDE DEF u, t, M, H
  <2>2. u \in 0 .. M - 1 /\ (u >= H <=> s) /\ u \div 2 = (IF s THEN H - 1 ELSE 0)
    <3>1. CASE s
      BY <1>1, <2>1, <3>1
    <3>2. CASE ~s
      BY <1>1, <2>1, <3>2
    <3> QED BY <3>1, <3>2
  <2>3. Msb(w, u) = s
    <3>1. u \in Unsigned(w)
      BY <2>2 DEF Unsigned, M
    <3>2. Msb(w, u) = (u >= H)
      BY <1>1, <3>1, SignedIs DEF H
    <3>3. Msb(w, u) <=> s
      BY <2>2, <3>2
    <3> QED BY <1>1, <3>3 DEF Msb, Bit
  <2>4. Bit(u, 0) = s
    <3>1. u \div 1 = u /\ (u % 2 = 1 <=> s)
      <4>1. CASE s
        BY <1>1, <2>1, <4>1
      <4>2. CASE ~s
        BY <1>1, <2>1, <4>2
      <4> QED BY <4>1, <4>2
    <3>2. Bit(u, 0) <=> s
      BY <1>1, <3>1 DEF Bit
    <3> QED BY <1>1, <3>2 DEF Bit
  <2>5. AsOne(s) * H = (IF s THEN H ELSE 0)
    BY <1>1 DEF AsOne
  <2>6. t = (u \div 2) + AsOne(Msb(w, u)) * H
    <3>1. t = (u \div 2) + (IF s THEN H ELSE 0)
      BY <1>1, <2>1, <2>2
    <3> QED BY <2>3, <2>5, <3>1
  <2> QED BY <1>2, <2>1, <2>2, <2>4, <2>6 DEF Unsigned, M, H, u, t
<1> QED BY <1>1, <1>3, <1>4

Filled(w, a, n) == (a \div 2^n) + (IF Msb(w, a) THEN 2^w - 2^(w - n) ELSE 0)
ASRCases(w, f, n, a) ==
    /\ n = 0 => ASR(w, f, n, a) = NotShifted(w, f, a)
    /\ n \in 1 .. w - 1 => ASR(w, f, n, a) = Shifted(w, Filled(w, a, n), FALSE, Bit(a, n - 1))
    /\ (n >= w /\ n # 0) =>
           ASR(w, f, n, a) = Shifted(w, IF Msb(w, a) THEN 2^w - 1 ELSE 0, FALSE, Msb(w, a))

LEMMA ASRIs ==
    ASSUME NEW w \in Nat \ {0}, NEW f, NEW a, NEW n \in 0 .. 63
    PROVE  ASRCases(w, f, n, a)
<1> DEFINE c == Count(n)
           r == ASR(w, f, n, a)
           B(i) == Bit(a, i - 1)
           F(i) == Filled(w, a, i)
           D == IF Msb(w, a) THEN 2^w - 1 ELSE 0
           s == Msb(w, a)
<1>1. c = n
  BY CountIs
<1> HIDE DEF c
<1>2. r = CASE c = 0 -> NotShifted(w, f, a)
            [] c \in 1 .. w - 1 -> Shifted(w, F(c), FALSE, B(c))
            [] c >= w -> Shifted(w, D, FALSE, s)
  BY DEF ASR, Filled, c
<1> HIDE DEF r, B, F, D, s
<1>3. n = 0 => r = NotShifted(w, f, a)
  <2>1. n = 0 => (c = 0 /\ ~(c \in 1 .. w - 1) /\ ~(c >= w))
    BY <1>1
  <2> QED BY <1>2, <2>1
<1>4. n \in 1 .. w - 1 => r = Shifted(w, F(n), FALSE, B(n))
  <2>1. n \in 1 .. w - 1 => (c # 0 /\ c \in 1 .. w - 1 /\ ~(c >= w))
    BY <1>1
  <2> QED BY <1>1, <1>2, <2>1
<1>5. (n >= w /\ n # 0) => r = Shifted(w, D, FALSE, s)
  <2>1. (n >= w /\ n # 0) => (c # 0 /\ ~(c \in 1 .. w - 1) /\ c >= w)
    BY <1>1
  <2> QED BY <1>2, <2>1
<1> QED BY <1>3, <1>4, <1>5 DEF r, B, F, D, s, ASRCases

ASRAfter(w, f, a) ==
    [n \in 0 .. 63 |-> [r |-> SignDown(w, a, n), x |-> IF n = 0 THEN f.x ELSE SignGone(w, a, n),
                        v |-> FALSE, c |-> SignGone(w, a, n)]]

LEMMA ASRRepeats ==
    ASSUME NEW w, Sized(w), NEW f \in Flags, NEW a \in Unsigned(w)
    PROVE  /\ Repeats("ASR", w, f, a, ASRAfter(w, f, a))
           /\ \A n \in 0 .. 63 : ASR(w, f, n, a) = Result(w, ASRAfter(w, f, a)[n])
<1> DEFINE s == ASRAfter(w, f, a)
           S(n) == [r |-> SignDown(w, a, n), x |-> IF n = 0 THEN f.x ELSE SignGone(w, a, n),
                    v |-> FALSE, c |-> SignGone(w, a, n)]
<1>1. \A n \in 0 .. 63 : s[n] = S(n)
  BY DEF ASRAfter
<1> HIDE DEF s
<1>2. w \in Nat \ {0} /\ HasSign(w) /\ a \in Int /\ Mask(w, a) = a
  BY SizedIs, SignedIs DEF Unsigned, HasSign
<1>3. s[0] = [r |-> a, x |-> f.x, v |-> FALSE, c |-> "ASR" \in {"ROXL", "ROXR"} /\ f.x]
  <2>1. SignDown(w, a, 0) = a /\ SignGone(w, a, 0) = FALSE
    BY SignDownSteps, 0 \in Nat DEF SignGone
  <2> QED BY <1>1, <2>1, 0 \in 0 .. 63
<1>4. ASSUME NEW n \in 0 .. 62 PROVE s[n + 1] = OneBit("ASR", w, s[n])
  <2> DEFINE u == SignDown(w, a, n)
             o == SignGone(w, a, n + 1)
             t == SignDown(w, a, n + 1)
  <2>1. u \in Int /\ t = (u \div 2) + AsOne(Msb(w, u)) * 2^(w - 1) /\ Bit(u, 0) = o
    <3>1. n \in Nat
      OBVIOUS
    <3>2. /\ u \in Unsigned(w) /\ t = (u \div 2) + AsOne(Msb(w, u)) * 2^(w - 1)
          /\ Bit(u, 0) = o
      BY <3>1, SignDownSteps
    <3> HIDE DEF u, t, o
    <3>3. u \in Int
      BY <1>2, <3>2 DEF Unsigned, HasSign
    <3> QED BY <3>2, <3>3
  <2>2. n + 1 \in 0 .. 63 /\ n \in 0 .. 63 /\ n + 1 # 0
    OBVIOUS
  <2>3. s[n].r = u /\ s[n].v = FALSE
    BY <1>1, <2>2
  <2>4. s[n + 1] = [r |-> t, x |-> o, v |-> FALSE, c |-> o]
    BY <1>1, <2>2
  <2> HIDE DEF u, o, t
  <2>5. OneBit("ASR", w, s[n]) =
            [r |-> (u \div 2) + AsOne(Msb(w, u)) * 2^(w - 1), c |-> o, x |-> o, v |-> FALSE]
    <3> DEFINE g == s[n]
    <3>1. g.r = u /\ g.v = FALSE /\ g.r \in Int /\ g.v \in BOOLEAN
      BY <2>1, <2>3
    <3> HIDE DEF g
    <3>2. OneBit("ASR", w, g) = [r |-> (g.r \div 2) + AsOne(Msb(w, g.r)) * 2^(w - 1),
                                 c |-> Bit(g.r, 0), x |-> Bit(g.r, 0), v |-> g.v]
      BY <1>2, <3>1, OneBits
    <3> QED BY <2>1, <3>1, <3>2 DEF g
  <2> QED BY <2>1, <2>4, <2>5
<1>5. ASSUME NEW n \in 0 .. 63 PROVE ASR(w, f, n, a) = Result(w, s[n])
  <2>1. s[n] = S(n) /\ w \in Nat \ {0}
    BY <1>1, <1>2
  <2> HIDE DEF S
  <2>2. ASRCases(w, f, n, a)
    BY <2>1, ASRIs
  <2>3. CASE n = 0
    <3>1. ASR(w, f, n, a) = NotShifted(w, f, a)
      BY <2>2, <2>3 DEF ASRCases
    <3>2. NotShifted(w, f, a) = Result(w, [r |-> a % 2^w, x |-> f.x, v |-> FALSE, c |-> FALSE])
      BY <1>2, ShiftedIs
    <3>3. s[n] = [r |-> a % 2^w, x |-> f.x, v |-> FALSE, c |-> FALSE]
      BY <1>2, <1>3, <2>3 DEF Mask
    <3> QED BY <3>1, <3>2, <3>3
  <2>4. CASE n # 0
    <3> DEFINE x == SignDown(w, a, n)
               c == SignGone(w, a, n)
    <3>1. ASR(w, f, n, a) = Shifted(w, x, FALSE, c)
      <4>1. CASE n < w
        <5>1. n \in 1 .. w - 1
          BY <1>2, <2>4, <4>1
        <5>2. x = Filled(w, a, n) /\ c = Bit(a, n - 1)
          BY <2>4, <4>1 DEF SignDown, Filled, SignGone, Bit
        <5> QED BY <2>2, <5>1, <5>2 DEF ASRCases
      <4>2. CASE n >= w
        <5>1. ~(n < w)
          BY <1>2, <4>2
        <5>2. x = (IF Msb(w, a) THEN 2^w - 1 ELSE 0) /\ c = Msb(w, a)
          BY <2>4, <5>1 DEF SignDown, SignGone, Msb, Bit
        <5> QED BY <2>2, <2>4, <4>2, <5>2 DEF ASRCases
      <4>3. n < w \/ n >= w
        BY <1>2
      <4> QED BY <4>1, <4>2, <4>3
    <3>2. x \in Unsigned(w)
      <4>1. n \in Nat
        OBVIOUS
      <4> QED BY <4>1, SignDownSteps
    <3>3. s[n] = [r |-> x, x |-> c, v |-> FALSE, c |-> c]
      BY <2>1, <2>4 DEF S
    <3> HIDE DEF x, c
    <3>4. x % 2^w = x /\ x \in Int
      BY <1>2, <3>2, SignedIs DEF Mask, Unsigned, HasSign
    <3>5. Shifted(w, x, FALSE, c) = Result(w, [r |-> x % 2^w, x |-> c, v |-> FALSE, c |-> c])
      BY <1>2, <3>4, ShiftedIs
    <3> QED BY <3>1, <3>3, <3>4, <3>5
  <2> QED BY <2>3, <2>4
<1> QED BY <1>3, <1>4, <1>5 DEF Repeats, s

\* The rotation by n bits, n counted modulo the size, and the last bit moved.
Turned(w, a, n) == RotateLeft(w, a, n % w)
TurnedOut(w, a, n) == n # 0 /\ (IF n % w = 0 THEN Bit(a, 0) ELSE Bit(a, w - (n % w)))

\* n modulo w counts up, and begins again.
LEMMA NextTurn ==
    ASSUME NEW w \in Nat \ {0}, NEW n \in Nat
    PROVE  /\ n % w \in 0 .. w - 1 /\ 0 % w = 0
           /\ (n + 1) % w = IF n % w = w - 1 THEN 0 ELSE (n % w) + 1
<1> DEFINE q == n \div w
           k == n % w
           m == n + 1
           l == IF k = w - 1 THEN 0 ELSE k + 1
<1>1. k \in 0 .. w - 1 /\ q \in Int /\ n = q * w + k
  <2>1. n \in Int
    OBVIOUS
  <2> QED BY <2>1, DivisionOf
<1>2. 0 % w = 0
  <2>1. 0 = 0 * w + 0 /\ 0 \in 0 .. w - 1 /\ 0 \in Int
    OBVIOUS
  <2> QED BY <2>1, DivisionIs
<1> HIDE DEF q, k
<1>3. m % w = l
  <2>1. l \in 0 .. w - 1
    BY <1>1
  <2>2. m = (IF k = w - 1 THEN q + 1 ELSE q) * w + l
    <3>1. CASE k = w - 1
      <4>1. (q + 1) * w = q * w + w
        BY <1>1, Z3
      <4> DEFINE y == q * w
      <4>2. y \in Int
        BY <1>1, Z3
      <4> HIDE DEF y
      <4>3. (q + 1) * w = y + w /\ n = y + k
        BY <1>1, <4>1 DEF y
      <4>4. y + w = y + k + 1
        BY <3>1, <4>2
      <4> DEFINE z == (q + 1) * w
      <4>5. z = m /\ m \in Int
        BY <4>3, <4>4
      <4> QED BY <3>1, <4>5
    <3>2. CASE k # w - 1
      <4> DEFINE y == q * w
      <4>1. y \in Int
        BY <1>1, Z3
      <4>2. n = y + k
        BY <1>1
      <4> HIDE DEF y
      <4>3. m = y + l
        BY <1>1, <3>2, <4>1, <4>2
      <4> QED BY <3>2, <4>3 DEF y
    <3> QED BY <3>1, <3>2
  <2> DEFINE p == IF k = w - 1 THEN q + 1 ELSE q
  <2>3. p \in Int /\ m = p * w + l
    BY <1>1, <2>2
  <2> HIDE DEF p, l, m
  <2> QED BY <2>1, <2>3, DivisionIs
<1> QED BY <1>1, <1>2, <1>3 DEF k

\* What moves round in one step: the highest bit of what is there.
LEMMA TurnedSteps ==
    ASSUME NEW w, Sized(w), NEW a \in Unsigned(w), NEW n \in Nat
    PROVE  /\ Turned(w, a, n) \in Unsigned(w) /\ Turned(w, a, 0) = a
           /\ LET u == Turned(w, a, n)
                  t == Turned(w, a, n + 1)
              IN  /\ t = ((2 * u) % 2^w) + AsOne(Msb(w, u)) /\ Bit(t, 0) = Msb(w, u)
                  /\ Msb(w, u) = TurnedOut(w, a, n + 1) /\ Msb(w, u) = Bit(a, w - 1 - (n % w))
                  /\ u = (t \div 2) + AsOne(Bit(t, 0)) * 2^(w - 1)
<1> DEFINE H == 2^(w - 1)
           M == 2^w
           k == n % w
           u == Turned(w, a, n)
           t == Turned(w, a, n + 1)
<1>1. w \in Nat \ {0} /\ HasSign(w) /\ H \in Nat \ {0} /\ M = 2 * H /\ 2^0 = 1 /\ a \in 0 .. M - 1
  BY SizedIs DEF HasSign, Unsigned
<1>2. k \in 0 .. w - 1 /\ 0 % w = 0 /\ (n + 1) % w = IF k = w - 1 THEN 0 ELSE k + 1
  BY <1>1, NextTurn
<1>3. Turned(w, a, 0) = a
  BY <1>2, RoundIs DEF Turned
<1>4. u = RotateLeft(w, a, k)
  BY DEF Turned
<1> HIDE DEF k
<1>5. t = RotateLeft(w, a, k + 1) /\ TurnedOut(w, a, n + 1) = Bit(a, w - 1 - k)
  <2>1. n + 1 # 0
    OBVIOUS
  <2>2. CASE k = w - 1
    <3>1. (n + 1) % w = 0 /\ k + 1 = w /\ w - 1 - k = 0
      BY <1>1, <1>2, <2>2
    <3>2. t = RotateLeft(w, a, 0)
      BY <3>1 DEF Turned
    <3>3. RotateLeft(w, a, 0) = RotateLeft(w, a, w)
      BY RoundIs
    <3> QED BY <2>1, <3>1, <3>2, <3>3 DEF TurnedOut, Bit
  <2>3. CASE k # w - 1
    <3>1. (n + 1) % w = k + 1 /\ k + 1 # 0 /\ w - (k + 1) = w - 1 - k
      BY <1>1, <1>2, <2>3
    <3> QED BY <2>1, <3>1 DEF Turned, TurnedOut, Bit
  <2> QED BY <2>2, <2>3
<1>6. PICK b \in {0, 1}, y \in 0 .. 2^(w - 1) - 1 : Rotates(w, a, k, b, y)
  BY <1>2, RotatedBy
<1> HIDE DEF u, t
<1>7. (Bit(a, w - 1 - k) <=> b = 1) /\ u = b * H + y /\ t = 2 * y + b
  BY <1>4, <1>5, <1>6 DEF Rotates
<1>8. /\ b * H + y \in Unsigned(w) /\ (Msb(w, b * H + y) <=> b = 1)
      /\ AsOne(Msb(w, b * H + y)) = b /\ (2 * (b * H + y)) % M = 2 * y
  BY <1>1, <1>6, TopBit, ZenonT(30) DEF H, M
<1>9. (2 * y + b) \div 2 = y /\ (Bit(2 * y + b, 0) <=> b = 1) /\ AsOne(Bit(2 * y + b, 0)) = b
  <2>1. y \in Nat /\ 2^0 = 1
    BY <1>1, <1>6
  <2> QED BY <2>1, LowBit
<1>10. u \in Unsigned(w) /\ (Msb(w, u) <=> b = 1) /\ AsOne(Msb(w, u)) = b /\ (2 * u) % M = 2 * y
  BY <1>7, <1>8
<1>11. t \div 2 = y /\ (Bit(t, 0) <=> b = 1) /\ AsOne(Bit(t, 0)) = b
  BY <1>7, <1>9
<1>12. t = ((2 * u) % M) + AsOne(Msb(w, u))
  BY <1>7, <1>10
<1>13. u = (t \div 2) + AsOne(Bit(t, 0)) * H
  <2>1. b * H + y = y + b * H
    BY <1>1, <1>6
  <2> QED BY <1>7, <1>11, <2>1
<1>14. Bit(t, 0) = Msb(w, u) /\ Msb(w, u) = Bit(a, w - 1 - k)
  BY <1>7, <1>10, <1>11 DEF Bit, Msb
<1> QED BY <1>3, <1>5, <1>10, <1>12, <1>13, <1>14 DEF u, t, H, M, k

\* The flags of a rotation: C is set by it, and X kept.
Rotated(w, f, r, c) == [NotShifted(w, f, r) EXCEPT !.ccr.c = c]

LEMMA RotatedIs ==
    ASSUME NEW w, HasSign(w), NEW r \in Unsigned(w), NEW f, NEW c
    PROVE  /\ NotShifted(w, f, r) = Result(w, [r |-> r, x |-> f.x, v |-> FALSE, c |-> FALSE])
           /\ Rotated(w, f, r, c) = Result(w, [r |-> r, x |-> f.x, v |-> FALSE, c |-> c])
<1>1. r % 2^w = r /\ r \in Int
  BY SignedIs DEF Mask, Unsigned, HasSign
<1>2. NotShifted(w, f, r) = Result(w, [r |-> r, x |-> f.x, v |-> FALSE, c |-> FALSE])
  BY <1>1, ShiftedIs
<1> DEFINE q == Msb(w, r)
           e == r = 0
           no == FALSE
           g == f.x
           A == [res |-> r, ccr |-> [x |-> g, n |-> q, z |-> e, v |-> no, c |-> no]]
<1>3. Result(w, [r |-> r, x |-> g, v |-> no, c |-> no]) = A
  BY DEF Result
<1>4. Result(w, [r |-> r, x |-> g, v |-> no, c |-> c]) =
          [res |-> r, ccr |-> [x |-> g, n |-> q, z |-> e, v |-> no, c |-> c]]
  BY DEF Result
<1>5. NotShifted(w, f, r) = A
  BY <1>2, <1>3
<1> HIDE DEF q, e, no, g
<1>6. [A EXCEPT !.ccr.c = c] = [res |-> r, ccr |-> [x |-> g, n |-> q, z |-> e, v |-> no, c |-> c]]
  OBVIOUS
<1>7. Rotated(w, f, r, c) = Result(w, [r |-> r, x |-> g, v |-> no, c |-> c])
  BY <1>4, <1>5, <1>6 DEF Rotated
<1> QED BY <1>2, <1>7 DEF no, g

ROLCases(w, f, n, a) ==
    /\ n = 0 => ROL(w, f, n, a) = NotShifted(w, f, a)
    /\ n # 0 => ROL(w, f, n, a) = Rotated(w, f, Turned(w, a, n), TurnedOut(w, a, n))

LEMMA ROLIs ==
    ASSUME NEW w, NEW f, NEW a, NEW n \in 0 .. 63
    PROVE  ROLCases(w, f, n, a)
<1> DEFINE k == n % w
           c == IF k = 0 THEN Bit(a, 0) ELSE Bit(a, w - k)
<1>1. Count(n) = n
  BY CountIs
<1>2. ROL(w, f, n, a) = IF n = 0 THEN NotShifted(w, f, a)
                        ELSE Rotated(w, f, RotateLeft(w, a, k), c)
  BY <1>1 DEF ROL, Rotated
<1>3. n # 0 => TurnedOut(w, a, n) = c
  BY DEF TurnedOut, Bit
<1>4. Turned(w, a, n) = RotateLeft(w, a, k)
  BY DEF Turned
<1> HIDE DEF c, k
<1> QED BY <1>2, <1>3, <1>4 DEF ROLCases

ROLAfter(w, f, a) ==
    [n \in 0 .. 63 |-> [r |-> Turned(w, a, n), x |-> f.x, v |-> FALSE, c |-> TurnedOut(w, a, n)]]

LEMMA ROLRepeats ==
    ASSUME NEW w, Sized(w), NEW f \in Flags, NEW a \in Unsigned(w)
    PROVE  /\ Repeats("ROL", w, f, a, ROLAfter(w, f, a))
           /\ \A n \in 0 .. 63 : ROL(w, f, n, a) = Result(w, ROLAfter(w, f, a)[n])
<1> DEFINE s == ROLAfter(w, f, a)
           S(n) == [r |-> Turned(w, a, n), x |-> f.x, v |-> FALSE, c |-> TurnedOut(w, a, n)]
<1>1. \A n \in 0 .. 63 : s[n] = S(n)
  BY DEF ROLAfter
<1> HIDE DEF s
<1>2. HasSign(w) /\ Turned(w, a, 0) = a /\ TurnedOut(w, a, 0) = FALSE
  BY SizedIs, TurnedSteps, 0 \in Nat DEF TurnedOut
<1>3. s[0] = [r |-> a, x |-> f.x, v |-> FALSE, c |-> "ROL" \in {"ROXL", "ROXR"} /\ f.x]
  BY <1>1, <1>2, 0 \in 0 .. 63
<1>4. ASSUME NEW n \in 0 .. 62 PROVE s[n + 1] = OneBit("ROL", w, s[n])
  <2> DEFINE u == Turned(w, a, n)
             o == TurnedOut(w, a, n + 1)
             t == Turned(w, a, n + 1)
  <2>1. u \in Int /\ t = ((2 * u) % 2^w) + AsOne(Msb(w, u)) /\ Msb(w, u) = o
    <3>1. n \in Nat
      OBVIOUS
    <3>2. /\ u \in Unsigned(w) /\ t = ((2 * u) % 2^w) + AsOne(Msb(w, u)) /\ Msb(w, u) = o
      BY <3>1, TurnedSteps
    <3> HIDE DEF u, t, o
    <3>3. u \in Int
      BY <1>2, <3>2 DEF Unsigned, HasSign
    <3> QED BY <3>2, <3>3
  <2>2. n + 1 \in 0 .. 63 /\ n \in 0 .. 63
    OBVIOUS
  <2>3. s[n].r = u /\ s[n].v = FALSE /\ s[n].x = f.x
    BY <1>1, <2>2
  <2>4. s[n + 1] = [r |-> t, x |-> f.x, v |-> FALSE, c |-> o]
    BY <1>1, <2>2
  <2> HIDE DEF u, o, t
  <2>5. OneBit("ROL", w, s[n]) =
            [r |-> ((2 * u) % 2^w) + AsOne(Msb(w, u)), c |-> o, x |-> f.x, v |-> FALSE]
    <3> DEFINE g == s[n]
    <3>1. g.r = u /\ g.v = FALSE /\ g.r \in Int /\ g.v \in BOOLEAN /\ g.x = f.x
      BY <2>1, <2>3
    <3> HIDE DEF g
    <3>2. OneBit("ROL", w, g) = [r |-> ((2 * g.r) % 2^w) + AsOne(Msb(w, g.r)), c |-> Msb(w, g.r),
                                 x |-> g.x, v |-> g.v]
      BY <1>2, <3>1, OneBits
    <3> QED BY <2>1, <3>1, <3>2 DEF g
  <2> QED BY <2>1, <2>4, <2>5
<1>5. ASSUME NEW n \in 0 .. 63 PROVE ROL(w, f, n, a) = Result(w, s[n])
  <2>1. s[n] = S(n) /\ ROLCases(w, f, n, a)
    BY <1>1, ROLIs
  <2>2. CASE n = 0
    <3>1. ROL(w, f, n, a) = NotShifted(w, f, a)
      BY <2>1, <2>2 DEF ROLCases
    <3>2. NotShifted(w, f, a) = Result(w, [r |-> a, x |-> f.x, v |-> FALSE, c |-> FALSE])
      BY <1>2, RotatedIs
    <3> QED BY <1>3, <2>2, <3>1, <3>2
  <2>3. CASE n # 0
    <3> DEFINE u == Turned(w, a, n)
               c == TurnedOut(w, a, n)
    <3>1. u \in Unsigned(w)
      <4>1. n \in Nat
        OBVIOUS
      <4> QED BY <4>1, TurnedSteps
    <3>2. s[n] = [r |-> u, x |-> f.x, v |-> FALSE, c |-> c]
      BY <2>1
    <3>3. ROL(w, f, n, a) = Rotated(w, f, u, c)
      BY <2>1, <2>3 DEF ROLCases
    <3> HIDE DEF u, c
    <3>4. Rotated(w, f, u, c) = Result(w, [r |-> u, x |-> f.x, v |-> FALSE, c |-> c])
      BY <1>2, <3>1, RotatedIs
    <3> QED BY <3>2, <3>3, <3>4
  <2> QED BY <2>2, <2>3
<1> QED BY <1>3, <1>4, <1>5 DEF Repeats, s

\* The same to the right.
TurnedBack(w, a, n) == RotateRight(w, a, n % w)
TurnedBackOut(w, a, n) == n # 0 /\ Bit(a, ((n % w) - 1) % w)

LEMMA TurnedBackSteps ==
    ASSUME NEW w, Sized(w), NEW a \in Unsigned(w), NEW n \in Nat
    PROVE  /\ TurnedBack(w, a, n) \in Unsigned(w) /\ TurnedBack(w, a, 0) = a
           /\ LET u == TurnedBack(w, a, n)
              IN  /\ TurnedBack(w, a, n + 1) = (u \div 2) + AsOne(Bit(u, 0)) * 2^(w - 1)
                  /\ Bit(u, 0) = TurnedBackOut(w, a, n + 1)
<1> DEFINE k == n % w
           j == w - 1 - k
           u == TurnedBack(w, a, n)
           t == TurnedBack(w, a, n + 1)
           m == (n + 1) % w
<1>1. w \in Nat \ {0} /\ k \in 0 .. w - 1 /\ 0 % w = 0 /\ m = IF k = w - 1 THEN 0 ELSE k + 1
  BY SizedIs, NextTurn
<1>2. /\ RotateLeft(w, a, 0) = a /\ RotateLeft(w, a, w) = a
      /\ \A i \in 0 .. w : RotateRight(w, a, i) = RotateLeft(w, a, w - i)
  BY RoundIs
<1>3. RotateRight(w, a, 0) = a /\ RotateRight(w, a, w) = a
  <2>1. 0 \in 0 .. w /\ w \in 0 .. w /\ w - 0 = w /\ w - w = 0
    BY <1>1
  <2> QED BY <1>2, <2>1
<1>4. TurnedBack(w, a, 0) = a
  BY <1>1, <1>3 DEF TurnedBack
<1>5. u = RotateRight(w, a, k) /\ t = RotateRight(w, a, m)
  BY DEF TurnedBack
<1> HIDE DEF k, m
<1>6. u = Turned(w, a, j + 1) /\ t = Turned(w, a, j) /\ j % w = j /\ j \in Nat /\ w - 1 - j = k
  <2>1. j \in Nat /\ j \in 0 .. w - 1 /\ j + 1 = w - k /\ w - (k + 1) = j /\ w - 1 - j = k
        /\ k \in 0 .. w /\ k + 1 \in 0 .. w
    BY <1>1
  <2>2. j % w = j
    <3>1. j = 0 * w + j /\ 0 \in Int
      BY <1>1, <2>1
    <3> HIDE DEF j
    <3> QED BY <1>1, <2>1, <3>1, DivisionIs
  <2>3. (j + 1) % w = IF k = 0 THEN 0 ELSE w - k
    <3>1. (j + 1) % w = IF j % w = w - 1 THEN 0 ELSE (j % w) + 1
      BY <1>1, <2>1, NextTurn
    <3>2. (j = w - 1) <=> k = 0
      BY <1>1
    <3> QED BY <2>1, <2>2, <3>1, <3>2
  <2>4. Turned(w, a, j) = RotateLeft(w, a, j)
    BY <2>2 DEF Turned
  <2>5. t = RotateRight(w, a, k + 1)
    <3>1. CASE k = w - 1
      <4>1. k + 1 = w /\ m = 0
        BY <1>1, <3>1
      <4> QED BY <1>3, <1>5, <4>1
    <3>2. CASE k # w - 1
      <4>1. m = k + 1
        BY <1>1, <3>2
      <4> QED BY <1>5, <4>1
    <3> QED BY <3>1, <3>2
  <2>6. t = Turned(w, a, j)
    BY <1>2, <2>1, <2>4, <2>5
  <2>7. u = Turned(w, a, j + 1)
    <3>1. Turned(w, a, j + 1) = RotateLeft(w, a, IF k = 0 THEN 0 ELSE w - k)
      BY <2>3 DEF Turned
    <3>2. CASE k = 0
      BY <1>2, <1>3, <1>5, <3>1, <3>2
    <3>3. CASE k # 0
      BY <1>2, <1>5, <2>1, <3>1, <3>3
    <3> QED BY <3>2, <3>3
  <2> QED BY <2>1, <2>2, <2>6, <2>7
<1>7. Bit(a, k) = TurnedBackOut(w, a, n + 1)
  <2>1. n + 1 # 0
    OBVIOUS
  <2>2. (m - 1) % w = k
    <3> DEFINE p == m - 1
               q == IF k = w - 1 THEN -1 ELSE 0
    <3>1. p = q * w + k /\ q \in Int
      <4>1. CASE k = w - 1
        <5>1. (-1) * w = -w
          BY <1>1
        <5> QED BY <1>1, <4>1, <5>1
      <4>2. CASE k # w - 1
        BY <1>1, <4>2
      <4> QED BY <4>1, <4>2
    <3> HIDE DEF p, q
    <3>2. p % w = k
      BY <1>1, <3>1, DivisionIs
    <3> QED BY <3>2 DEF p
  <2> QED BY <2>1, <2>2 DEF TurnedBackOut, Bit, m
<1> HIDE DEF u, t, j
<1>8. u \in Unsigned(w)
  <2>1. j + 1 \in Nat
    BY <1>6
  <2> QED BY <1>6, <2>1, TurnedSteps
<1>9. /\ Bit(u, 0) = Bit(a, w - 1 - (j % w)) /\ t = (u \div 2) + AsOne(Bit(u, 0)) * 2^(w - 1)
  BY <1>6, TurnedSteps
<1>10. Bit(u, 0) = TurnedBackOut(w, a, n + 1)
  BY <1>6, <1>7, <1>9
<1> QED BY <1>4, <1>8, <1>9, <1>10 DEF u, t

RORCases(w, f, n, a) ==
    /\ n = 0 => ROR(w, f, n, a) = NotShifted(w, f, a)
    /\ n # 0 => ROR(w, f, n, a) = Rotated(w, f, TurnedBack(w, a, n), TurnedBackOut(w, a, n))

LEMMA RORIs ==
    ASSUME NEW w, NEW f, NEW a, NEW n \in 0 .. 63
    PROVE  RORCases(w, f, n, a)
<1> DEFINE k == n % w
           c == Bit(a, (k - 1) % w)
<1>1. Count(n) = n
  BY CountIs
<1>2. ROR(w, f, n, a) = IF n = 0 THEN NotShifted(w, f, a)
                        ELSE Rotated(w, f, RotateRight(w, a, k), c)
  BY <1>1 DEF ROR, Rotated
<1>3. n # 0 => TurnedBackOut(w, a, n) = c
  BY DEF TurnedBackOut, Bit
<1>4. TurnedBack(w, a, n) = RotateRight(w, a, k)
  BY DEF TurnedBack
<1> HIDE DEF c, k
<1> QED BY <1>2, <1>3, <1>4 DEF RORCases

RORAfter(w, f, a) ==
    [n \in 0 .. 63 |-> [r |-> TurnedBack(w, a, n), x |-> f.x, v |-> FALSE, c |-> TurnedBackOut(w, a, n)]]

LEMMA RORRepeats ==
    ASSUME NEW w, Sized(w), NEW f \in Flags, NEW a \in Unsigned(w)
    PROVE  /\ Repeats("ROR", w, f, a, RORAfter(w, f, a))
           /\ \A n \in 0 .. 63 : ROR(w, f, n, a) = Result(w, RORAfter(w, f, a)[n])
<1> DEFINE s == RORAfter(w, f, a)
           S(n) == [r |-> TurnedBack(w, a, n), x |-> f.x, v |-> FALSE, c |-> TurnedBackOut(w, a, n)]
<1>1. \A n \in 0 .. 63 : s[n] = S(n)
  BY DEF RORAfter
<1> HIDE DEF s
<1>2. HasSign(w) /\ TurnedBack(w, a, 0) = a /\ TurnedBackOut(w, a, 0) = FALSE
  BY SizedIs, TurnedBackSteps, 0 \in Nat DEF TurnedBackOut
<1>3. s[0] = [r |-> a, x |-> f.x, v |-> FALSE, c |-> "ROR" \in {"ROXL", "ROXR"} /\ f.x]
  BY <1>1, <1>2, 0 \in 0 .. 63
<1>4. ASSUME NEW n \in 0 .. 62 PROVE s[n + 1] = OneBit("ROR", w, s[n])
  <2> DEFINE u == TurnedBack(w, a, n)
             o == TurnedBackOut(w, a, n + 1)
             t == TurnedBack(w, a, n + 1)
  <2>1. u \in Int /\ t = (u \div 2) + AsOne(Bit(u, 0)) * 2^(w - 1) /\ Bit(u, 0) = o
    <3>1. n \in Nat
      OBVIOUS
    <3>2. /\ u \in Unsigned(w) /\ t = (u \div 2) + AsOne(Bit(u, 0)) * 2^(w - 1)
          /\ Bit(u, 0) = o
      BY <3>1, TurnedBackSteps
    <3> HIDE DEF u, t, o
    <3>3. u \in Int
      BY <1>2, <3>2 DEF Unsigned, HasSign
    <3> QED BY <3>2, <3>3
  <2>2. n + 1 \in 0 .. 63 /\ n \in 0 .. 63
    OBVIOUS
  <2>3. s[n].r = u /\ s[n].v = FALSE /\ s[n].x = f.x
    BY <1>1, <2>2
  <2>4. s[n + 1] = [r |-> t, x |-> f.x, v |-> FALSE, c |-> o]
    BY <1>1, <2>2
  <2> HIDE DEF u, o, t
  <2>5. OneBit("ROR", w, s[n]) =
            [r |-> (u \div 2) + AsOne(Bit(u, 0)) * 2^(w - 1), c |-> o, x |-> f.x, v |-> FALSE]
    <3> DEFINE g == s[n]
    <3>1. g.r = u /\ g.v = FALSE /\ g.r \in Int /\ g.v \in BOOLEAN /\ g.x = f.x
      BY <2>1, <2>3
    <3> HIDE DEF g
    <3>2. OneBit("ROR", w, g) = [r |-> (g.r \div 2) + AsOne(Bit(g.r, 0)) * 2^(w - 1), c |-> Bit(g.r, 0),
                                 x |-> g.x, v |-> g.v]
      BY <1>2, <3>1, OneBits
    <3> QED BY <2>1, <3>1, <3>2 DEF g
  <2> QED BY <2>1, <2>4, <2>5
<1>5. ASSUME NEW n \in 0 .. 63 PROVE ROR(w, f, n, a) = Result(w, s[n])
  <2>1. s[n] = S(n) /\ RORCases(w, f, n, a)
    BY <1>1, RORIs
  <2>2. CASE n = 0
    <3>1. ROR(w, f, n, a) = NotShifted(w, f, a)
      BY <2>1, <2>2 DEF RORCases
    <3>2. NotShifted(w, f, a) = Result(w, [r |-> a, x |-> f.x, v |-> FALSE, c |-> FALSE])
      BY <1>2, RotatedIs
    <3> QED BY <1>3, <2>2, <3>1, <3>2
  <2>3. CASE n # 0
    <3> DEFINE u == TurnedBack(w, a, n)
               c == TurnedBackOut(w, a, n)
    <3>1. u \in Unsigned(w)
      <4>1. n \in Nat
        OBVIOUS
      <4> QED BY <4>1, TurnedBackSteps
    <3>2. s[n] = [r |-> u, x |-> f.x, v |-> FALSE, c |-> c]
      BY <2>1
    <3>3. ROR(w, f, n, a) = Rotated(w, f, u, c)
      BY <2>1, <2>3 DEF RORCases
    <3> HIDE DEF u, c
    <3>4. Rotated(w, f, u, c) = Result(w, [r |-> u, x |-> f.x, v |-> FALSE, c |-> c])
      BY <1>2, <3>1, RotatedIs
    <3> QED BY <3>2, <3>3, <3>4
  <2> QED BY <2>2, <2>3
<1> QED BY <1>3, <1>4, <1>5 DEF Repeats, s

\* X above a register: a number of one bit more, b on top of y.
LEMMA OnTop ==
    ASSUME NEW w, Sized(w), Sized(w + 1), NEW b \in {0, 1}, NEW y \in 0 .. 2^w - 1
    PROVE  LET u == b * 2^w + y
           IN  /\ u \in Unsigned(w + 1) /\ u % 2^w = y /\ (Bit(u, w) <=> b = 1) /\ AsOne(Bit(u, w)) = b
               /\ (2 * u) % 2^(w + 1) = 2 * y
<1> DEFINE M == 2^w
           u == b * M + y
<1>1. M \in Nat \ {0} /\ w \in Nat /\ (w + 1) - 1 = w /\ HasSign(w + 1) /\ y \in 0 .. M - 1
  <2>1. w \in Nat \ {0} /\ HasSign(w) /\ HasSign(w + 1)
    BY SizedIs
  <2>2. M \in Nat \ {0}
    BY <2>1 DEF HasSign
  <2> QED BY <2>1, <2>2
<1>2. /\ u \in Unsigned(w + 1) /\ (Msb(w + 1, u) <=> b = 1) /\ AsOne(Msb(w + 1, u)) = b
      /\ (2 * u) % 2^(w + 1) = 2 * y
  <2> DEFINE W == w + 1
  <2>1. W - 1 = w /\ HasSign(W)
    BY <1>1
  <2> HIDE DEF W
  <2>2. y \in 0 .. 2^(W - 1) - 1
    BY <2>1
  <2>3. LET a == b * 2^(W - 1) + y
        IN  /\ a \in Unsigned(W) /\ (Msb(W, a) <=> b = 1) /\ AsOne(Msb(W, a)) = b
            /\ (2 * a) % 2^W = 2 * y
    BY <2>1, <2>2, TopBit
  <2> QED BY <2>1, <2>3 DEF W
<1>3. u % M = y
  <2>1. u = b * M + y /\ b \in Int /\ M \in Nat \ {0} /\ y \in 0 .. M - 1
    BY <1>1
  <2> HIDE DEF u, M
  <2> QED BY <2>1, DivisionIs
<1>4. Msb(w + 1, u) = Bit(u, w)
  BY <1>1 DEF Msb
<1> QED BY <1>2, <1>3, <1>4

\* A number below 2 * h has a highest bit, one below 2 * e a lowest.
LEMMA HighAndLow ==
    ASSUME NEW h \in Nat \ {0}, NEW y \in 0 .. 2 * h - 1
    PROVE  /\ \E o \in {0, 1}, z \in 0 .. h - 1 : y = o * h + z
           /\ \E o \in {0, 1}, z \in 0 .. h - 1 : y = 2 * z + o
<1>1. \E o \in {0, 1}, z \in 0 .. h - 1 : y = o * h + z
  <2>1. CASE y < h
    <3>1. y = 0 * h + y /\ y \in 0 .. h - 1
      BY <2>1
    <3> QED BY <3>1
  <2>2. CASE y >= h
    <3> DEFINE z == y - h
    <3>1. y = 1 * h + z /\ z \in 0 .. h - 1
      BY <2>2
    <3> QED BY <3>1
  <2> QED BY <2>1, <2>2
<1>2. \E o \in {0, 1}, z \in 0 .. h - 1 : y = 2 * z + o
  <2> DEFINE z == y \div 2
             o == y % 2
  <2>1. y = 2 * z + o /\ o \in {0, 1} /\ z \in 0 .. h - 1
    OBVIOUS
  <2> QED BY <2>1
<1> QED BY <1>1, <1>2

\* The register and X after n bits, from the number of w + 1 bits.
Together(w, u) == [r |-> u % 2^w, x |-> Bit(u, w), v |-> FALSE, c |-> Bit(u, w)]

LEMMA ExtendedIs ==
    ASSUME NEW w, Sized(w), Sized(w + 1), NEW f \in Flags, NEW a \in Unsigned(w)
    PROVE  /\ Extended(w, f, a) \in Unsigned(w + 1)
           /\ Together(w, Extended(w, f, a)) = [r |-> a, x |-> f.x, v |-> FALSE, c |-> f.x]
<1> DEFINE b == AsOne(f.x)
           M == 2^w
           u == b * M + a
<1>1. b \in {0, 1} /\ (f.x <=> b = 1) /\ f.x \in BOOLEAN
  BY DEF AsOne, Flags
<1>2. a \in 0 .. M - 1 /\ M \in Nat
  BY SizedIs, HasSign(w) DEF Unsigned, HasSign
<1> HIDE DEF b
<1>3. u \in Unsigned(w + 1) /\ u % M = a /\ (Bit(u, w) <=> b = 1)
  BY <1>1, <1>2, OnTop
<1>4. Extended(w, f, a) = u
  <2>1. Extended(w, f, a) = a + b * M
    BY DEF Extended, b
  <2>2. b * M \in Int
    BY <1>1, <1>2
  <2> QED BY <1>2, <2>1, <2>2
<1>5. Bit(u, w) = f.x
  BY <1>1, <1>3 DEF Bit
<1> HIDE DEF u, M
<1>6. Together(w, u) = [r |-> a, x |-> f.x, v |-> FALSE, c |-> f.x]
  BY <1>3, <1>5 DEF Together, M
<1> QED BY <1>3, <1>4, <1>6

LEMMA ROXLStep ==
    ASSUME NEW w, Sized(w), Sized(w + 1), NEW e \in Unsigned(w + 1), NEW n \in Nat
    PROVE  Together(w, Turned(w + 1, e, n + 1)) = OneBit("ROXL", w, Together(w, Turned(w + 1, e, n)))
<1> DEFINE M == 2^w
           H == 2^(w - 1)
           u == Turned(w + 1, e, n)
           t == Turned(w + 1, e, n + 1)
           g == Together(w, u)
<1>1. H \in Nat \ {0} /\ M = 2 * H /\ M \in Nat \ {0} /\ w \in Nat /\ HasSign(w) /\ 2^(w + 1) = 2 * M
      /\ (w + 1) - 1 = w
  <2>1. w \in Nat \ {0} /\ HasSign(w) /\ HasSign(w + 1)
    BY SizedIs
  <2>2. (w + 1) - 1 = w
    BY <2>1
  <2> QED BY <2>1, <2>2 DEF HasSign
<1>2. u \in Unsigned(w + 1) /\ t = ((2 * u) % 2^(w + 1)) + AsOne(Msb(w + 1, u))
  <2> DEFINE v == w + 1
  <2>1. Sized(v) /\ e \in Unsigned(v) /\ u = Turned(v, e, n) /\ t = Turned(v, e, n + 1)
    OBVIOUS
  <2> HIDE DEF v, u, t
  <2>2. u \in Unsigned(v) /\ t = ((2 * u) % 2^v) + AsOne(Msb(v, u))
    BY <2>1, TurnedSteps
  <2> QED BY <2>2 DEF v
<1>3. Msb(w + 1, u) = Bit(u, w)
  BY <1>1 DEF Msb
<1> HIDE DEF u, t, M, H
<1>4. u \in 0 .. 2 * M - 1
  BY <1>1, <1>2 DEF Unsigned
<1>5. PICK b \in {0, 1}, y \in 0 .. M - 1 : u = b * M + y
  BY <1>1, <1>4, HighAndLow
<1>6. PICK o \in {0, 1}, z \in 0 .. H - 1 : y = o * H + z
  <2>1. y \in 0 .. 2 * H - 1
    BY <1>1, <1>5
  <2> QED BY <1>1, <2>1, HighAndLow
<1>7. u % M = y /\ (Bit(u, w) <=> b = 1) /\ AsOne(Bit(u, w)) = b /\ (2 * u) % 2^(w + 1) = 2 * y
  BY <1>5, OnTop, ZenonT(60) DEF M
<1>8. (Msb(w, y) <=> o = 1) /\ (2 * y) % M = 2 * z
  <2>1. (Msb(w, o * H + z) <=> o = 1) /\ (2 * (o * H + z)) % M = 2 * z
    BY <1>1, TopBit DEF M, H
  <2> QED BY <1>6, <2>1
<1> DEFINE k == 2 * z + b
<1>9. t = o * M + k /\ k \in 0 .. M - 1
  <2>1. t = 2 * y + b
    BY <1>2, <1>3, <1>7
  <2>2. 2 * y = o * M + 2 * z
    BY <1>1, <1>6
  <2>3. k \in 0 .. M - 1
    BY <1>1
  <2> DEFINE q == o * M
  <2>4. q \in Int /\ y \in Int /\ 2 * y = q + 2 * z
    BY <1>1, <1>5, <2>2
  <2> HIDE DEF q
  <2>5. t = q + k
    BY <2>1, <2>4
  <2> QED BY <2>3, <2>5 DEF q
<1>10. t % M = k /\ (Bit(t, w) <=> o = 1)
  <2> HIDE DEF k
  <2>1. (o * M + k) % M = k /\ (Bit(o * M + k, w) <=> o = 1)
    BY <1>9, OnTop DEF M
  <2> QED BY <1>9, <2>1
<1>11. g.r = y /\ g.x = Bit(u, w) /\ g.v = FALSE /\ g.v \in BOOLEAN /\ g.r \in Int
  BY <1>5, <1>7 DEF Together, M
<1>12. Msb(w, y) = Bit(t, w)
  BY <1>8, <1>10 DEF Msb, Bit
<1> HIDE DEF g
<1>13. OneBit("ROXL", w, g) = [r |-> ((2 * g.r) % 2^w) + AsOne(g.x), c |-> Msb(w, g.r),
                               x |-> Msb(w, g.r), v |-> g.v]
  BY <1>1, <1>11, OneBits
<1>14. ((2 * g.r) % 2^w) + AsOne(g.x) = t % M
  BY <1>7, <1>8, <1>10, <1>11 DEF M
<1>15. Together(w, t) = [r |-> t % M, x |-> Bit(t, w), v |-> FALSE, c |-> Bit(t, w)]
  BY DEF Together, M
<1>16. Together(w, t) = OneBit("ROXL", w, g)
  BY <1>11, <1>12, <1>13, <1>14, <1>15
<1> QED BY <1>16 DEF g, u, t

LEMMA ROXRStep ==
    ASSUME NEW w, Sized(w), Sized(w + 1), NEW e \in Unsigned(w + 1), NEW n \in Nat
    PROVE  Together(w, TurnedBack(w + 1, e, n + 1)) = OneBit("ROXR", w, Together(w, TurnedBack(w + 1, e, n)))
<1> DEFINE M == 2^w
           H == 2^(w - 1)
           u == TurnedBack(w + 1, e, n)
           t == TurnedBack(w + 1, e, n + 1)
           g == Together(w, u)
<1>1. H \in Nat \ {0} /\ M = 2 * H /\ M \in Nat \ {0} /\ w \in Nat /\ HasSign(w) /\ 2^(w + 1) = 2 * M
      /\ (w + 1) - 1 = w /\ 2^0 = 1
  <2>1. w \in Nat \ {0} /\ HasSign(w) /\ HasSign(w + 1) /\ 2^0 = 1
    BY SizedIs
  <2>2. (w + 1) - 1 = w
    BY <2>1
  <2> QED BY <2>1, <2>2 DEF HasSign
<1>2. u \in Unsigned(w + 1) /\ t = (u \div 2) + AsOne(Bit(u, 0)) * M
  <2> DEFINE v == w + 1
  <2>1. Sized(v) /\ e \in Unsigned(v) /\ u = TurnedBack(v, e, n) /\ t = TurnedBack(v, e, n + 1)
    OBVIOUS
  <2>2. v - 1 = w
    BY <1>1
  <2> HIDE DEF v, u, t
  <2>3. u \in Unsigned(v) /\ t = (u \div 2) + AsOne(Bit(u, 0)) * 2^(v - 1)
    BY <2>1, TurnedBackSteps
  <2> QED BY <2>2, <2>3 DEF v, M
<1> HIDE DEF u, t, M, H
<1>3. u \in 0 .. 2 * M - 1
  BY <1>1, <1>2 DEF Unsigned
<1>4. PICK b \in {0, 1}, y \in 0 .. M - 1 : u = b * M + y
  BY <1>1, <1>3, HighAndLow
<1>5. PICK o \in {0, 1}, z \in 0 .. H - 1 : y = 2 * z + o
  <2>1. y \in 0 .. 2 * H - 1
    BY <1>1, <1>4
  <2> QED BY <1>1, <2>1, HighAndLow
<1>6. u % M = y /\ (Bit(u, w) <=> b = 1) /\ AsOne(Bit(u, w)) = b
  BY <1>4, OnTop, ZenonT(30) DEF M
<1>7. y \div 2 = z /\ (Bit(y, 0) <=> o = 1)
  <2>1. (2 * z + o) \div 2 = z /\ (Bit(2 * z + o, 0) <=> o = 1)
    BY <1>1, LowBit
  <2> QED BY <1>5, <2>1
<1> DEFINE k == b * H + z
<1>8. k \in 0 .. M - 1 /\ u = 2 * k + o
  BY <1>1, <1>4, <1>5
<1> HIDE DEF k
<1>9. u \div 2 = k /\ AsOne(Bit(u, 0)) = o
  <2>1. (2 * k + o) \div 2 = k /\ AsOne(Bit(2 * k + o, 0)) = o
    <3>1. k \in Nat /\ 2^0 = 1
      BY <1>1, <1>8
    <3> QED BY <3>1, LowBit
  <2> QED BY <1>8, <2>1
<1>10. t = o * M + k
  <2>1. o * M \in Int /\ t = k + o * M
    BY <1>1, <1>2, <1>9
  <2> QED BY <1>8, <2>1
<1>11. t % M = k /\ (Bit(t, w) <=> o = 1)
  <2>1. (o * M + k) % M = k /\ (Bit(o * M + k, w) <=> o = 1)
    BY <1>8, OnTop DEF M
  <2> QED BY <1>10, <2>1
<1>12. g.r = y /\ g.x = Bit(u, w) /\ g.v = FALSE /\ g.v \in BOOLEAN /\ g.r \in Int
  BY <1>4, <1>6 DEF Together, M
<1>13. Bit(y, 0) = Bit(t, w)
  BY <1>7, <1>11 DEF Bit
<1> HIDE DEF g
<1>14. OneBit("ROXR", w, g) = [r |-> (g.r \div 2) + AsOne(g.x) * 2^(w - 1), c |-> Bit(g.r, 0),
                               x |-> Bit(g.r, 0), v |-> g.v]
  BY <1>1, <1>12, OneBits
<1>15. (g.r \div 2) + AsOne(g.x) * 2^(w - 1) = t % M
  <2>1. z + b * H = k
    BY <1>1 DEF k
  <2> QED BY <1>6, <1>7, <1>11, <1>12, <2>1 DEF H
<1>16. Together(w, t) = [r |-> t % M, x |-> Bit(t, w), v |-> FALSE, c |-> Bit(t, w)]
  BY DEF Together, M
<1>17. Together(w, t) = OneBit("ROXR", w, g)
  BY <1>12, <1>13, <1>14, <1>15, <1>16
<1> QED BY <1>17 DEF g, u, t

ROXLAfter(w, f, a) == [n \in 0 .. 63 |-> Together(w, Turned(w + 1, Extended(w, f, a), n))]
ROXRAfter(w, f, a) == [n \in 0 .. 63 |-> Together(w, TurnedBack(w + 1, Extended(w, f, a), n))]

LEMMA ShiftedTogether ==
    ASSUME NEW w, HasSign(w), NEW u \in Int
    PROVE  Shifted(w, u, FALSE, Bit(u, w)) = Result(w, Together(w, u))
<1> DEFINE c == Bit(u, w)
<1> HIDE DEF c
<1>1. Shifted(w, u, FALSE, c) = Result(w, [r |-> u % 2^w, x |-> c, v |-> FALSE, c |-> c])
  BY ShiftedIs
<1> QED BY <1>1 DEF Together, c

LEMMA ROXLRepeats ==
    ASSUME NEW w, Sized(w), Sized(w + 1), NEW f \in Flags, NEW a \in Unsigned(w)
    PROVE  /\ Repeats("ROXL", w, f, a, ROXLAfter(w, f, a))
           /\ \A n \in 0 .. 63 : ROXL(w, f, n, a) = Result(w, ROXLAfter(w, f, a)[n])
<1> DEFINE s == ROXLAfter(w, f, a)
           e == Extended(w, f, a)
           R(n) == Turned(w + 1, e, n)
<1>1. e \in Unsigned(w + 1) /\ Together(w, e) = [r |-> a, x |-> f.x, v |-> FALSE, c |-> f.x]
  BY ExtendedIs
<1>2. \A n \in 0 .. 63 : s[n] = Together(w, R(n))
  BY DEF ROXLAfter
<1> HIDE DEF s, e
<1>3. HasSign(w) /\ 2^(w + 1) \in Int /\ R(0) = e
  BY <1>1, SizedIs, TurnedSteps, 0 \in Nat DEF HasSign
<1>4. s[0] = [r |-> a, x |-> f.x, v |-> FALSE, c |-> "ROXL" \in {"ROXL", "ROXR"} /\ f.x]
  <2>1. f.x \in BOOLEAN /\ ("ROXL" \in {"ROXL", "ROXR"} /\ f.x) = f.x
    BY DEF Flags
  <2> QED BY <1>1, <1>2, <1>3, <2>1, 0 \in 0 .. 63
<1>5. ASSUME NEW n \in 0 .. 62 PROVE s[n + 1] = OneBit("ROXL", w, s[n])
  <2>1. n \in Nat /\ n \in 0 .. 63 /\ n + 1 \in 0 .. 63
    OBVIOUS
  <2>2. Together(w, R(n + 1)) = OneBit("ROXL", w, Together(w, R(n)))
    BY <1>1, <2>1, ROXLStep
  <2> QED BY <1>2, <2>1, <2>2
<1>6. ASSUME NEW n \in 0 .. 63 PROVE ROXL(w, f, n, a) = Result(w, s[n])
  <2>1. ROXL(w, f, n, a) = Shifted(w, R(n), FALSE, Bit(R(n), w))
    BY CountIs DEF ROXL, Turned, e
  <2> DEFINE u == R(n)
  <2>2. u \in Int
    <3>1. n \in Nat
      OBVIOUS
    <3>2. u \in Unsigned(w + 1)
      BY <1>1, <3>1, TurnedSteps
    <3> HIDE DEF u
    <3> QED BY <1>3, <3>2 DEF Unsigned
  <2> HIDE DEF u
  <2>3. Shifted(w, u, FALSE, Bit(u, w)) = Result(w, Together(w, u))
    BY <1>3, <2>2, ShiftedTogether
  <2> QED BY <1>2, <2>1, <2>3 DEF u
<1> QED BY <1>4, <1>5, <1>6 DEF Repeats, s

LEMMA ROXRRepeats ==
    ASSUME NEW w, Sized(w), Sized(w + 1), NEW f \in Flags, NEW a \in Unsigned(w)
    PROVE  /\ Repeats("ROXR", w, f, a, ROXRAfter(w, f, a))
           /\ \A n \in 0 .. 63 : ROXR(w, f, n, a) = Result(w, ROXRAfter(w, f, a)[n])
<1> DEFINE s == ROXRAfter(w, f, a)
           e == Extended(w, f, a)
           R(n) == TurnedBack(w + 1, e, n)
<1>1. e \in Unsigned(w + 1) /\ Together(w, e) = [r |-> a, x |-> f.x, v |-> FALSE, c |-> f.x]
  BY ExtendedIs
<1>2. \A n \in 0 .. 63 : s[n] = Together(w, R(n))
  BY DEF ROXRAfter
<1> HIDE DEF s, e
<1>3. HasSign(w) /\ 2^(w + 1) \in Int /\ R(0) = e
  BY <1>1, SizedIs, TurnedBackSteps, 0 \in Nat DEF HasSign
<1>4. s[0] = [r |-> a, x |-> f.x, v |-> FALSE, c |-> "ROXR" \in {"ROXL", "ROXR"} /\ f.x]
  <2>1. f.x \in BOOLEAN /\ ("ROXR" \in {"ROXL", "ROXR"} /\ f.x) = f.x
    BY DEF Flags
  <2> QED BY <1>1, <1>2, <1>3, <2>1, 0 \in 0 .. 63
<1>5. ASSUME NEW n \in 0 .. 62 PROVE s[n + 1] = OneBit("ROXR", w, s[n])
  <2>1. n \in Nat /\ n \in 0 .. 63 /\ n + 1 \in 0 .. 63
    OBVIOUS
  <2>2. Together(w, R(n + 1)) = OneBit("ROXR", w, Together(w, R(n)))
    BY <1>1, <2>1, ROXRStep
  <2> QED BY <1>2, <2>1, <2>2
<1>6. ASSUME NEW n \in 0 .. 63 PROVE ROXR(w, f, n, a) = Result(w, s[n])
  <2>1. ROXR(w, f, n, a) = Shifted(w, R(n), FALSE, Bit(R(n), w))
    BY CountIs DEF ROXR, TurnedBack, e
  <2> DEFINE u == R(n)
  <2>2. u \in Int
    <3>1. n \in Nat
      OBVIOUS
    <3>2. u \in Unsigned(w + 1)
      BY <1>1, <3>1, TurnedBackSteps
    <3> HIDE DEF u
    <3> QED BY <1>3, <3>2 DEF Unsigned
  <2> HIDE DEF u
  <2>3. Shifted(w, u, FALSE, Bit(u, w)) = Result(w, Together(w, u))
    BY <1>3, <2>2, ShiftedTogether
  <2> QED BY <1>2, <2>1, <2>3 DEF u
<1> QED BY <1>4, <1>5, <1>6 DEF Repeats, s

-----------------------------------------------------------------------------
(* Every shift and rotation is as many of them by one bit                   *)

BitStart(op, f, a) == [r |-> a, x |-> f.x, v |-> FALSE, c |-> op \in {"ROXL", "ROXR"} /\ f.x]
After(op, w, start) ==
    CHOOSE h : h = [n \in 0 .. 63 |-> IF n = 0 THEN start ELSE OneBit(op, w, h[n - 1])]

LEMMA AfterIs ==
    ASSUME NEW op, NEW w, NEW f, NEW a, NEW s, Repeats(op, w, f, a, s)
    PROVE  \A n \in 0 .. 63 : After(op, w, BitStart(op, f, a))[n] = s[n]
<1> DEFINE start == BitStart(op, f, a)
           h == After(op, w, start)
           g == [n \in 0 .. 63 |-> s[n]]
<1>1. s[0] = start /\ \A n \in 0 .. 62 : s[n + 1] = OneBit(op, w, s[n])
  BY DEF Repeats, BitStart
<1> HIDE DEF start
<1>2. \E k : k = [n \in 0 .. 63 |-> IF n = 0 THEN start ELSE OneBit(op, w, k[n - 1])]
  <2>1. ASSUME NEW n \in 0 .. 63 PROVE s[n] = IF n = 0 THEN start ELSE OneBit(op, w, g[n - 1])
    <3>1. CASE n = 0
      BY <1>1, <3>1
    <3>2. CASE n # 0
      <4> DEFINE i == n - 1
      <4>1. i \in 0 .. 62 /\ i \in 0 .. 63 /\ i + 1 = n
        BY <3>2
      <4> HIDE DEF i
      <4>2. g[i] = s[i] /\ s[n] = OneBit(op, w, s[i])
        BY <1>1, <4>1
      <4> QED BY <3>2, <4>2 DEF i
    <3> QED BY <3>1, <3>2
  <2>2. g = [n \in 0 .. 63 |-> IF n = 0 THEN start ELSE OneBit(op, w, g[n - 1])]
    BY <2>1, SMTT(30)
  <2> HIDE DEF g
  <2> QED BY <2>2
<1>3. h = [n \in 0 .. 63 |-> IF n = 0 THEN start ELSE OneBit(op, w, h[n - 1])]
  BY <1>2 DEF After
<1> HIDE DEF h
<1>4. h[0] = start /\ \A n \in 0 .. 62 : h[n + 1] = OneBit(op, w, h[n])
  <2>1. h[0] = start
    BY <1>3
  <2>2. ASSUME NEW n \in 0 .. 62 PROVE h[n + 1] = OneBit(op, w, h[n])
    <3> DEFINE i == n + 1
    <3>1. i \in 0 .. 63 /\ i # 0 /\ i - 1 = n
      OBVIOUS
    <3> HIDE DEF i
    <3>2. h[i] = OneBit(op, w, h[i - 1])
      BY <1>3, <3>1
    <3> QED BY <3>1, <3>2 DEF i
  <2> QED BY <2>1, <2>2
<1> DEFINE S == {n \in 0 .. 63 : h[n] = s[n]}
<1>5. 0 \in S
  BY <1>1, <1>4
<1>6. ASSUME NEW n \in 0 .. 62, n \in S PROVE n + 1 \in S
  <2>1. n + 1 \in 0 .. 63 /\ h[n] = s[n]
    BY <1>6
  <2> QED BY <1>1, <1>4, <2>1
<1> HIDE DEF S
<1>7. \A n \in 0 .. 63 : n \in S
  <2>1. \A n \in 0 .. 63 - 1 : n \in S => n + 1 \in S
    BY <1>6
  <2> QED BY <1>5, <2>1, InductionUpTo, 63 \in Nat
<1> QED BY <1>7 DEF S, h, start

\* What is kept bit by bit stays in the register.
LEMMA StaysInSize ==
    ASSUME NEW w, Sized(w), Sized(w + 1), NEW f \in Flags, NEW a \in Unsigned(w), NEW n \in 0 .. 63
    PROVE  /\ LSLAfter(w, f, a)[n].r \in Unsigned(w) /\ ASLAfter(w, f, a)[n].r \in Unsigned(w)
           /\ LSRAfter(w, f, a)[n].r \in Unsigned(w) /\ ASRAfter(w, f, a)[n].r \in Unsigned(w)
           /\ ROLAfter(w, f, a)[n].r \in Unsigned(w) /\ RORAfter(w, f, a)[n].r \in Unsigned(w)
           /\ ROXLAfter(w, f, a)[n].r \in Unsigned(w) /\ ROXRAfter(w, f, a)[n].r \in Unsigned(w)
<1>1. n \in Nat /\ HasSign(w) /\ 2^(w + 1) \in Int
  BY SizedIs DEF HasSign
<1>2. LSLAfter(w, f, a)[n].r \in Unsigned(w) /\ ASLAfter(w, f, a)[n].r \in Unsigned(w)
  <2>1. Up(w, a, n) \in Unsigned(w)
    BY <1>1, UpSteps
  <2> QED BY <2>1 DEF LSLAfter, ASLAfter
<1>3. LSRAfter(w, f, a)[n].r \in Unsigned(w) /\ ASRAfter(w, f, a)[n].r \in Unsigned(w)
  <2>1. Down(w, a, n) \in Unsigned(w) /\ SignDown(w, a, n) \in Unsigned(w)
    BY <1>1, DownSteps, SignDownSteps
  <2> QED BY <2>1 DEF LSRAfter, ASRAfter
<1>4. ROLAfter(w, f, a)[n].r \in Unsigned(w) /\ RORAfter(w, f, a)[n].r \in Unsigned(w)
  <2>1. Turned(w, a, n) \in Unsigned(w) /\ TurnedBack(w, a, n) \in Unsigned(w)
    BY <1>1, TurnedSteps, TurnedBackSteps
  <2> QED BY <2>1 DEF ROLAfter, RORAfter
<1>5. ROXLAfter(w, f, a)[n].r \in Unsigned(w) /\ ROXRAfter(w, f, a)[n].r \in Unsigned(w)
  <2> DEFINE e == Extended(w, f, a)
             u == Turned(w + 1, e, n)
             t == TurnedBack(w + 1, e, n)
  <2>1. e \in Unsigned(w + 1)
    BY ExtendedIs
  <2> HIDE DEF e
  <2>2. u \in Unsigned(w + 1) /\ t \in Unsigned(w + 1)
    BY <1>1, <2>1, TurnedSteps, TurnedBackSteps
  <2> HIDE DEF u, t
  <2>3. u \in Int /\ t \in Int
    BY <1>1, <2>2 DEF Unsigned
  <2>4. u % 2^w \in Unsigned(w) /\ t % 2^w \in Unsigned(w)
    BY <1>1, <2>3, SignedOfAny
  <2>5. ROXLAfter(w, f, a)[n] = Together(w, u) /\ ROXRAfter(w, f, a)[n] = Together(w, t)
    BY DEF ROXLAfter, ROXRAfter, u, t, e
  <2> QED BY <2>4, <2>5 DEF Together
<1> QED BY <1>2, <1>3, <1>4, <1>5

\* The result of each instruction, from what is kept bit by bit.
Repeated(op, w, f, n, a, r) ==
    LET b == After(op, w, BitStart(op, f, a))[n] IN r = Result(w, b) /\ b.r \in Unsigned(w)

LEMMA RepeatedBits ==
    ASSUME NEW w, Sized(w), Sized(w + 1), NEW f \in Flags, NEW a \in Unsigned(w), NEW n \in 0 .. 63
    PROVE  /\ Repeated("LSL", w, f, n, a, LSL(w, f, n, a)) /\ Repeated("LSR", w, f, n, a, LSR(w, f, n, a))
           /\ Repeated("ASL", w, f, n, a, ASL(w, f, n, a)) /\ Repeated("ASR", w, f, n, a, ASR(w, f, n, a))
           /\ Repeated("ROL", w, f, n, a, ROL(w, f, n, a)) /\ Repeated("ROR", w, f, n, a, ROR(w, f, n, a))
           /\ Repeated("ROXL", w, f, n, a, ROXL(w, f, n, a))
           /\ Repeated("ROXR", w, f, n, a, ROXR(w, f, n, a))
<1>1. ASSUME NEW op, NEW s, NEW r, Repeats(op, w, f, a, s), r = Result(w, s[n]), s[n].r \in Unsigned(w)
      PROVE  Repeated(op, w, f, n, a, r)
  <2>1. After(op, w, BitStart(op, f, a))[n] = s[n]
    BY <1>1, AfterIs
  <2> QED BY <1>1, <2>1 DEF Repeated
<1>2. Repeated("LSL", w, f, n, a, LSL(w, f, n, a)) /\ Repeated("LSR", w, f, n, a, LSR(w, f, n, a))
  <2>1. Repeats("LSL", w, f, a, LSLAfter(w, f, a)) /\ LSL(w, f, n, a) = Result(w, LSLAfter(w, f, a)[n])
    BY LSLRepeats
  <2>2. Repeats("LSR", w, f, a, LSRAfter(w, f, a)) /\ LSR(w, f, n, a) = Result(w, LSRAfter(w, f, a)[n])
    BY LSRRepeats
  <2> QED BY <1>1, <2>1, <2>2, StaysInSize
<1>3. Repeated("ASL", w, f, n, a, ASL(w, f, n, a)) /\ Repeated("ASR", w, f, n, a, ASR(w, f, n, a))
  <2>1. Repeats("ASL", w, f, a, ASLAfter(w, f, a)) /\ ASL(w, f, n, a) = Result(w, ASLAfter(w, f, a)[n])
    BY ASLRepeats
  <2>2. Repeats("ASR", w, f, a, ASRAfter(w, f, a)) /\ ASR(w, f, n, a) = Result(w, ASRAfter(w, f, a)[n])
    BY ASRRepeats
  <2> QED BY <1>1, <2>1, <2>2, StaysInSize
<1>4. Repeated("ROL", w, f, n, a, ROL(w, f, n, a)) /\ Repeated("ROR", w, f, n, a, ROR(w, f, n, a))
  <2>1. Repeats("ROL", w, f, a, ROLAfter(w, f, a)) /\ ROL(w, f, n, a) = Result(w, ROLAfter(w, f, a)[n])
    BY ROLRepeats
  <2>2. Repeats("ROR", w, f, a, RORAfter(w, f, a)) /\ ROR(w, f, n, a) = Result(w, RORAfter(w, f, a)[n])
    BY RORRepeats
  <2> QED BY <1>1, <2>1, <2>2, StaysInSize
<1>5. Repeated("ROXL", w, f, n, a, ROXL(w, f, n, a))
  <2>1. Repeats("ROXL", w, f, a, ROXLAfter(w, f, a)) /\ ROXL(w, f, n, a) = Result(w, ROXLAfter(w, f, a)[n])
    BY ROXLRepeats
  <2> QED BY <1>1, <2>1, StaysInSize
<1>6. Repeated("ROXR", w, f, n, a, ROXR(w, f, n, a))
  <2>1. Repeats("ROXR", w, f, a, ROXRAfter(w, f, a)) /\ ROXR(w, f, n, a) = Result(w, ROXRAfter(w, f, a)[n])
    BY ROXRRepeats
  <2> QED BY <1>1, <2>1, StaysInSize
<1> QED BY <1>2, <1>3, <1>4, <1>5, <1>6

\* What a shift leaves, and what holds before.
ShiftClaim ==
    LET w == routine.w
        b == After(routine.op, w, BitStart(routine.op, was.ccr, was.d[1] % 2^w))[was.d[0] % 64]
    IN  d[1] % 2^w = b.r /\ ccr = [x |-> b.x, n |-> Msb(w, b.r), z |-> b.r = 0, v |-> b.v, c |-> b.c]
Shifting ==
    /\ code = Code(routine) /\ was.ccr \in Flags /\ was.d \in [REG_D -> Int]
    /\ routine.op \in ShiftOps /\ routine.w \in {WORD, LONG}
    /\ was.d[0] \in 0 .. 63 /\ was.d[1] \in Unsigned(routine.w)
ShiftInv == routine.name = "shift" => Shifting /\ (Fresh \/ (pc = 2 /\ ShiftClaim))

LEMMA CountsAre == Counts \subseteq 0 .. 63
<1> DEFINE e == 2^LONG - 1
           m == Smallest({63, e})
<1>1. e \in Int
  BY SizesAre DEF HasSign
<1> HIDE DEF e
<1>2. m \in Int /\ m <= 63
  <2>1. CASE e <= 63
    <3>1. m = e
      BY <1>1, <2>1, SmallestIs, 63 \in Int
    <3> QED BY <1>1, <2>1, <3>1
  <2>2. CASE 63 <= e
    <3>1. m = 63
      BY <1>1, <2>2, SmallestIs, 63 \in Int
    <3> QED BY <3>1
  <2> QED BY <1>1, <2>1, <2>2
<1>3. Counts = 0 .. m
  BY DEF Counts, e
<1> HIDE DEF m
<1> QED BY <1>2, <1>3

LEMMA BothSized == \A w \in {WORD, LONG} : Sized(w) /\ Sized(w + 1)
<1>1. /\ WORD \in Nat \ {0} /\ LONG \in Nat \ {0} /\ WORD <= LONG
      /\ 2^0 = 1 /\ \A i \in 0 .. (LONG + 1) - 1 : 2^(i + 1) = 2 * 2^i
  BY PowersAre, M68kAssumption DEF Doubling
<1>2. ASSUME NEW w \in {WORD, LONG} PROVE Sized(w) /\ Sized(w + 1)
  <2>1. /\ w \in Nat \ {0} /\ w + 1 \in Nat \ {0} /\ \A i \in 0 .. w - 1 : i \in 0 .. (LONG + 1) - 1
        /\ \A i \in 0 .. (w + 1) - 1 : i \in 0 .. (LONG + 1) - 1
    BY <1>1
  <2> QED BY <1>1, <2>1 DEF Sized, Doubling
<1> QED BY <1>2

LEMMA ShiftsBegin ==
    ASSUME OnRegisters, routine.name = "shift"
    PROVE  Shifting /\ Fresh
<1>1. PICK r \in Routines, x \in BOOLEAN, z \in BOOLEAN :
          /\ \E a \in Operands(r)[1], b \in Operands(r)[2],
                c \in Operands(r)[3], e \in Operands(r)[4] :
                 d = [i \in REG_D |-> <<a, b, c, e>>[i + 1]]
          /\ routine = r /\ code = Code(r) /\ pc = 1
          /\ ccr = [x |-> x, n |-> FALSE, z |-> z, v |-> FALSE, c |-> FALSE]
          /\ was = [d |-> d, ccr |-> ccr]
  BY DEF OnRegisters, Init
<1>2. PICK a \in Operands(r)[1], b \in Operands(r)[2],
           c \in Operands(r)[3], e \in Operands(r)[4] :
          d = [i \in REG_D |-> <<a, b, c, e>>[i + 1]]
  BY <1>1
<1>3. was.d = d /\ was.ccr = ccr /\ ccr \in Flags
  BY <1>1 DEF Flags
<1>4. d[0] = a /\ d[1] = b /\ d[2] = c /\ d[3] = e /\ DOMAIN d = REG_D /\ REG_D = {0, 1, 2, 3}
  BY <1>2 DEF REG_D
<1>5. r.op \in ShiftOps /\ r.w \in {WORD, LONG}
  BY <1>1 DEF Routines, Named
<1>6. Operands(r) = <<Counts, IF r.w = LONG THEN LongEdge ELSE Words, Zero, Zero>>
  BY <1>1 DEF Operands
<1>7. LongEdge \subseteq Longs /\ Words = Unsigned(WORD) /\ Longs = Unsigned(LONG)
      /\ Unsigned(WORD) \subseteq Int /\ Unsigned(LONG) \subseteq Int
  BY M68kAssumption, SizesAre DEF Words, Longs, Unsigned, HasSign
<1>8. a \in 0 .. 63 /\ c = 0 /\ e = 0
  <2>1. a \in Counts
    BY <1>2, <1>6
  <2>2. c \in Zero /\ e \in Zero
    BY <1>2, <1>6
  <2> QED BY <2>1, <2>2, CountsAre DEF Zero
<1>9. b \in Unsigned(r.w) /\ b \in Int
  <2>1. b \in (IF r.w = LONG THEN LongEdge ELSE Words)
    BY <1>2, <1>6
  <2> QED BY <1>5, <1>7, <2>1
<1>10. d \in [REG_D -> Int]
  BY <1>2, <1>4, <1>8, <1>9
<1> QED BY <1>1, <1>3, <1>4, <1>5, <1>8, <1>9, <1>10 DEF Shifting, Fresh

LEMMA ShiftStep ==
    ASSUME GuestNext, routine.name = "shift", Shifting, Fresh
    PROVE  Shifting' /\ pc' = 2 /\ ShiftClaim'
<1> DEFINE op == routine.op
           w == routine.w
           M == 2^w
           n == d[0]
           a == d[1]
           s == After(op, w, BitStart(op, ccr, a))[n]
<1>1. /\ d \in [REG_D -> Int] /\ ccr \in Flags /\ n \in 0 .. 63 /\ a \in Unsigned(w)
      /\ op \in ShiftOps /\ w \in {WORD, LONG} /\ d = was.d /\ ccr = was.ccr /\ pc = 1
      /\ code = Code(routine)
  BY DEF Shifting, Fresh
<1>2. code = <<Ins(op, w, 0, 1)>>
  BY <1>1 DEF Code
<1>3. Here.op = op /\ Here.w = w /\ Here.s = 0 /\ Here.d = 1
  BY <1>1, <1>2 DEF Here, Ins
<1>4. Sized(w) /\ Sized(w + 1) /\ HasSign(w)
  BY <1>1, BothSized, SizedIs
<1>5. Operand(w, 1) = a /\ a % M = a /\ M \in Nat \ {0} /\ a \in Int
  <2>1. Mask(w, a) = a
    BY <1>1, <1>4, SignedIs
  <2>2. M \in Nat \ {0} /\ a \in Int
    BY <1>1, <1>4 DEF HasSign, Unsigned
  <2> QED BY <2>1, <2>2 DEF Operand, Mask
<1>6. PICK r : Stores(w, 1, r) /\ Repeated(op, w, ccr, n, a, r)
  <2>1. /\ op = "ASL" => Stores(w, 1, ASL(w, ccr, n, a))
        /\ op = "ASR" => Stores(w, 1, ASR(w, ccr, n, a))
        /\ op = "LSL" => Stores(w, 1, LSL(w, ccr, n, a))
        /\ op = "LSR" => Stores(w, 1, LSR(w, ccr, n, a))
        /\ op = "ROL" => Stores(w, 1, ROL(w, ccr, n, a))
        /\ op = "ROR" => Stores(w, 1, ROR(w, ccr, n, a))
        /\ op = "ROXL" => Stores(w, 1, ROXL(w, ccr, n, a))
        /\ op = "ROXR" => Stores(w, 1, ROXR(w, ccr, n, a))
    <3>1. Here.op \in Calculated
      BY <1>1, <1>3 DEF Calculated, ShiftOps
    <3> QED BY <1>3, <1>5, <3>1, CalculatedSteps
  <2>2. /\ Repeated("LSL", w, ccr, n, a, LSL(w, ccr, n, a)) /\ Repeated("LSR", w, ccr, n, a, LSR(w, ccr, n, a))
        /\ Repeated("ASL", w, ccr, n, a, ASL(w, ccr, n, a)) /\ Repeated("ASR", w, ccr, n, a, ASR(w, ccr, n, a))
        /\ Repeated("ROL", w, ccr, n, a, ROL(w, ccr, n, a)) /\ Repeated("ROR", w, ccr, n, a, ROR(w, ccr, n, a))
        /\ Repeated("ROXL", w, ccr, n, a, ROXL(w, ccr, n, a))
        /\ Repeated("ROXR", w, ccr, n, a, ROXR(w, ccr, n, a))
    BY <1>1, <1>4, RepeatedBits
  <2> HIDE DEF op, w, n, a
  <2> QED BY <1>1, <2>1, <2>2 DEF ShiftOps
<1>7. r = Result(w, s) /\ s.r \in Unsigned(w)
  BY <1>6 DEF Repeated
<1>8. pc' = 2 /\ routine' = routine /\ code' = code /\ was' = was
  BY <1>1, <1>6 DEF Stores, Goes
<1>9. Shifting'
  BY <1>8, Shifting DEF Shifting
<1>10. ccr' = r.ccr /\ d'[1] = Merged(w, 1, r.res)
  BY <1>1, <1>6 DEF Stores, REG_D
<1> DEFINE u == s.r
<1>11. r.res = u /\ ccr' = [x |-> s.x, n |-> Msb(w, u), z |-> u = 0, v |-> s.v, c |-> s.c]
  BY <1>7, <1>10 DEF Result
<1>12. d'[1] = u /\ u % M = u
  <2>1. u \in 0 .. M - 1 /\ Mask(w, u) = u
    BY <1>4, <1>7, SignedIs DEF Unsigned
  <2>2. Merged(w, 1, r.res) = a - a + u
    BY <1>5, <1>11, <2>1 DEF Merged
  <2>3. u % M = u
    BY <2>1 DEF Mask
  <2> HIDE DEF u, a, M
  <2> QED BY <1>5, <1>10, <2>1, <2>2, <2>3
<1>13. n % 64 = n
  BY <1>1
<1>14. was'.d = d /\ was'.ccr = ccr /\ routine'.op = op /\ routine'.w = w
  BY <1>1, <1>8
<1>15. ShiftClaim'
  <2>1. After(routine'.op, routine'.w, BitStart(routine'.op, was'.ccr, was'.d[1] % 2^routine'.w))[was'.d[0] % 64] = s
    BY <1>5, <1>13, <1>14
  <2> HIDE DEF s, u
  <2>2. d'[1] % 2^routine'.w = u
    BY <1>12, <1>14
  <2> QED BY <1>11, <1>14, <2>1, <2>2 DEF ShiftClaim, u
<1> QED BY <1>8, <1>9, <1>15

\* However wide words and longs are: a shift or rotation by n bits is n of them by
\* one bit, with n up to 63 and beyond the size; C is the last bit moved, V of ASL
\* remembers each change of the sign, and by 0 bits X is kept (m68kopac.c:3411,
\* 3771, m68kopdm.c:4472, m68kopnz.c:2799).
THEOREM ShiftsRepeatHolds == GuestSpec => []ShiftsRepeat
<1>1. GuestInit => ShiftInv
  BY OtherTrials, ShiftsBegin DEF GuestInit, Proved, ShiftInv
<1>2. ShiftInv /\ [GuestNext]_<<vars, memoryVars>> => ShiftInv'
  <2> SUFFICES ASSUME ShiftInv, [GuestNext]_<<vars, memoryVars>> PROVE ShiftInv'
    OBVIOUS
  <2>1. routine' = routine /\ code' = code /\ was' = was
    BY ProgramsKept
  <2>2. CASE routine.name # "shift"
    BY <2>1, <2>2 DEF ShiftInv
  <2>3. CASE routine.name = "shift" /\ UNCHANGED <<vars, memoryVars>>
    <3>1. pc' = pc /\ d' = d /\ ccr' = ccr
      BY <2>3, SMTT(30) DEF vars
    <3>2. Shifting' /\ (Fresh => Fresh') /\ (ShiftClaim => ShiftClaim')
      BY <2>1, <2>3, <3>1 DEF ShiftInv, Shifting, Fresh, ShiftClaim
    <3> QED BY <2>3, <3>1, <3>2 DEF ShiftInv
  <2>4. CASE routine.name = "shift" /\ GuestNext
    <3>1. Len(code) = 1
      <4>1. code = <<Ins(routine.op, routine.w, 0, 1)>>
        BY <2>4 DEF ShiftInv, Shifting, Code
      <4> QED BY <4>1
    <3>2. pc # Len(code) + 1
      BY <2>4, ProgramsKept DEF Running, Ended
    <3> DEFINE n == Len(code)
    <3>3. pc # n + 1 /\ n = 1
      BY <3>1, <3>2
    <3> HIDE DEF n
    <3>4. pc # 2
      BY <3>3, SMTT(30)
    <3> QED BY <2>4, <3>4, ShiftStep DEF ShiftInv
  <2> QED BY <2>2, <2>3, <2>4
<1>3. ShiftInv => ShiftsRepeat
  <2> SUFFICES ASSUME ShiftInv, Ended, routine.name = "shift" PROVE ShiftsRepeat
    BY DEF ShiftsRepeat, Ends
  <2>1. code = <<Ins(routine.op, routine.w, 0, 1)>>
    BY DEF ShiftInv, Shifting, Code
  <2> DEFINE n == Len(code)
  <2>2. n = 1 /\ pc = n + 1
    BY <2>1 DEF Ended
  <2> HIDE DEF n
  <2>3. ShiftClaim
    BY <2>2 DEF ShiftInv, Fresh
  <2> QED BY <2>3, ZenonT(60) DEF ShiftsRepeat, ShiftClaim, After, BitStart, Start
<1> QED BY <1>1, <1>2, <1>3, PTL DEF GuestSpec
=============================================================================
