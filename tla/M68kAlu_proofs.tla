---------------------------- MODULE M68kAlu_proofs ----------------------------
(***************************************************************************)
(* Proofs about module M68kAlu: the flags that additions, subtractions,    *)
(* negations and comparisons leave say of their result what they should,   *)
(* for operands of any number of bits.                                     *)
(***************************************************************************)
EXTENDS M68kAlu, TLAPS, WellFoundedInduction

-----------------------------------------------------------------------------
(* Induction.  The library's theorem has an operator as parameter, which no *)
(* prover takes; here the predicate is the set of the numbers it is true of. *)

\* A set of natural numbers has a least element.
LEMMA LeastIs ==
    ASSUME NEW T \in SUBSET Nat, T # {}
    PROVE  \E x \in T : \A y \in T : x <= y
<1>1. \A a, b \in Nat : <<a, b>> \in OpToRel(<, Nat) <=> a < b
  BY DEF OpToRel
<1>2. PICK x \in T : \A y \in T : ~(<<y, x>> \in OpToRel(<, Nat))
  BY NatLessThanWellFounded, WFMin
<1>3. \A y \in T : ~(y < x)
  BY <1>1, <1>2
<1> QED BY <1>3

LEMMA InductionUpTo ==
    ASSUME NEW n \in Nat, NEW S, 0 \in S, \A i \in 0 .. n - 1 : i \in S => i + 1 \in S
    PROVE  \A i \in 0 .. n : i \in S
<1> DEFINE T == {i \in 0 .. n : i \notin S}
<1> SUFFICES ASSUME T # {} PROVE FALSE
  OBVIOUS
<1>1. PICK x \in T : \A y \in T : x <= y
  <2>1. T \in SUBSET Nat /\ T # {}
    OBVIOUS
  <2> HIDE DEF T
  <2> QED BY <2>1, LeastIs
<1>2. x \in 0 .. n /\ x # 0 /\ x - 1 \notin T
  BY <1>1
<1>3. x - 1 \in 0 .. n - 1 /\ x - 1 \in S
  BY <1>2
<1> QED BY <1>1, <1>2, <1>3

\* What exponentiation is, as far as 2^n.
Doubling(n) == 2^0 = 1 /\ \A i \in 0 .. n - 1 : 2^(i + 1) = 2 * 2^i

LEMMA PowersArePositive ==
    ASSUME NEW n \in Nat, Doubling(n)
    PROVE  \A i \in 0 .. n : 2^i \in Nat \ {0}
<1> DEFINE S == {i \in 0 .. n : 2^i \in Nat \ {0}}
<1>1. 0 \in S /\ \A i \in 0 .. n - 1 : i \in S => i + 1 \in S
  BY DEF Doubling
<1> HIDE DEF S
<1>2. \A i \in 0 .. n : i \in S
  BY <1>1, InductionUpTo
<1> QED BY <1>2 DEF S

LEMMA PowersMultiply ==
    ASSUME NEW n \in Nat, Doubling(n), NEW i \in 0 .. n, NEW j \in 0 .. n, i + j <= n
    PROVE  2^(i + j) = 2^i * 2^j
<1> DEFINE S == {k \in 0 .. n - i : 2^(i + k) = 2^i * 2^k}
<1>1. 0 \in S
  BY PowersArePositive DEF Doubling
<1>2. ASSUME NEW k \in 0 .. (n - i) - 1, k \in S PROVE k + 1 \in S
  <2>1. 2^(i + k + 1) = 2 * 2^(i + k) /\ 2^(k + 1) = 2 * 2^k /\ 2^(i + k) = 2^i * 2^k
    BY <1>2 DEF Doubling
  <2> DEFINE a == 2^i
             b == 2^k
  <2>2. a \in Nat /\ b \in Nat
    BY PowersArePositive
  <2> HIDE DEF a, b
  <2>3. 2 * (a * b) = a * (2 * b)
    BY <2>2, Z3
  <2>4. 2^(i + (k + 1)) = 2^(i + k + 1)
    OBVIOUS
  <2> QED BY <2>1, <2>3, <2>4 DEF a, b
<1> HIDE DEF S
<1>3. \A k \in 0 .. n - i : k \in S
  BY <1>1, <1>2, InductionUpTo, n - i \in Nat
<1> QED BY <1>3 DEF S

-----------------------------------------------------------------------------
(* Numbers of w bits                                                       *)

\* All that is used of a size: there is a sign bit, worth half of 2^w.
HasSign(w) == 2^(w - 1) \in Nat \ {0} /\ 2^w = 2 * 2^(w - 1)
Unsigned(w) == 0 .. 2^w - 1
InRange(w, g) == g \in -(2^(w - 1)) .. 2^(w - 1) - 1

\* The quotient and the rest of a are known from the multiple of h below it.
LEMMA DividedAs ==
    ASSUME NEW h \in Nat \ {0}, NEW a \in Int
    PROVE  /\ (0 <= a /\ a < h) => (a \div h = 0 /\ a % h = a)
           /\ (h <= a /\ a < 2 * h) => (a \div h = 1 /\ a % h = a - h)
           /\ (2 * h <= a /\ a < 3 * h) => (a \div h = 2 /\ a % h = a - 2 * h)
           /\ (3 * h <= a /\ a < 4 * h) => (a \div h = 3 /\ a % h = a - 3 * h)
           /\ (-h <= a /\ a < 0) => (a \div h = -1 /\ a % h = a + h)
           /\ (-(2 * h) <= a /\ a < -h) => (a \div h = -2 /\ a % h = a + 2 * h)
  BY Z3

\* Cutting a number once more, or later, makes no difference.
LEMMA MaskTwice ==
    ASSUME NEW m \in Nat \ {0}, NEW a \in Int, NEW c \in Int
    PROVE  /\ a % m \in 0 .. m - 1 /\ (a % m) % m = a % m
           /\ ((a % m) - c) % m = (a - c) % m
<1> DEFINE e == a % m
           q == a \div m
           f == (e - c) % m
           p == (e - c) \div m
<1>1. e \in 0 .. m - 1 /\ q \in Int /\ a = q * m + e
  BY Z3
<1> HIDE DEF e, q
<1>2. e % m = e
  BY <1>1, DividedAs
<1>3. f \in 0 .. m - 1 /\ p \in Int /\ e - c = p * m + f
  BY <1>1, Z3
<1> HIDE DEF f, p
<1>4. a - c = (q + p) * m + f
  BY <1>1, <1>3, Z3
<1>5. (a - c) % m = f
  <2> DEFINE n == a - c
             k == q + p
  <2>1. n \in Int /\ k \in Int /\ n = k * m + f
    BY <1>1, <1>3, <1>4
  <2> HIDE DEF n, k
  <2>2. n % m = f
    BY <1>3, <2>1, Z3
  <2> QED BY <2>2 DEF n
<1> QED BY <1>1, <1>2, <1>5 DEF e, f

\* hi * m + lo is on the same side of a multiple of m as hi * m.
LEMMA SameSide ==
    ASSUME NEW m \in Nat \ {0}, NEW hi \in Int, NEW lo \in 0 .. m - 1, NEW k \in Int
    PROVE  (hi * m + lo < k * m) <=> (hi < k)
<1>1. k * m - hi * m = (k - hi) * m
  BY Z3
<1>2. ASSUME hi < k PROVE (k - hi) * m >= m
  <2> DEFINE e == k - hi
  <2>1. e \in Nat /\ e >= 1 BY <1>2
  <2> HIDE DEF e
  <2>2. e * m >= m BY <2>1, Z3
  <2> QED BY <2>2 DEF e
<1>3. ASSUME ~(hi < k) PROVE (k - hi) * m <= 0
  <2> DEFINE e == hi - k
  <2>1. e \in Nat BY <1>3
  <2>2. (k - hi) * m = -(e * m) BY Z3
  <2> HIDE DEF e
  <2>3. e * m >= 0 BY <2>1, Z3
  <2> QED BY <2>1, <2>2, <2>3
<1> QED BY <1>1, <1>2, <1>3

\* The upper words of numbers of two are cut like a word.
LEMMA UpperCut ==
    ASSUME NEW m \in Nat \ {0}, NEW hi \in Int, NEW lo \in 0 .. m - 1
    PROVE  (hi * m + lo) % (m * m) = (hi % m) * m + lo
<1> DEFINE e == hi % m
      q == hi \div m
<1>1. e \in 0 .. m - 1 /\ q \in Int /\ hi = q * m + e
   BY Z3
<1> HIDE DEF e, q
<1>2. hi * m + lo = q * (m * m) + (e * m + lo)
  BY <1>1, Z3
<1>3. e * m + lo \in 0 .. m * m - 1
  <2>1. e * m + lo < m * m BY <1>1, SameSide
  <2>2. e * m >= 0 BY <1>1, Z3
  <2> QED BY <1>1, <2>1, <2>2
<1>4. (hi * m + lo) % (m * m) = e * m + lo
  <2> DEFINE a == hi * m + lo
             b == e * m + lo
             n == m * m
  <2>1. a \in Int /\ b \in 0 .. n - 1 /\ n \in Nat \ {0} /\ a = q * n + b BY <1>1, <1>2, <1>3
  <2> HIDE DEF a, b, n
  <2>2. a % n = b BY <1>1, <2>1, Z3
  <2> QED BY <2>2 DEF a, b, n
<1> QED BY <1>4 DEF e

\* What is left of a result that is at most once out of range.
LEMMA MaskIs ==
    ASSUME NEW w, HasSign(w), NEW r \in -(2^w) .. 2 * 2^w - 1
    PROVE  /\ Mask(w, r) = IF r < 0 THEN r + 2^w ELSE IF r >= 2^w THEN r - 2^w ELSE r
           /\ Mask(w, r) \in Unsigned(w)
           /\ CFLAG(w, r) = (r \notin Unsigned(w))
<1> DEFINE M == 2^w
           q == r \div M
<1>1. M \in Nat \ {0} /\ r \in Int /\ -M <= r /\ r < 2 * M
  BY DEF HasSign
<1>2. Mask(w, r) = r % M /\ CFLAG(w, r) = (q % 2 = 1) /\ Unsigned(w) = 0 .. M - 1
  BY DEF Mask, CFLAG, Bit, Unsigned
<1> HIDE DEF M
<1>3. CASE r < 0
  <2>1. q = -1 /\ r % M = r + M
    BY <1>1, <1>3, DividedAs
  <2>2. q % 2 = 1 /\ r \notin 0 .. M - 1
    BY <1>1, <1>3, <2>1
  <2> QED BY <1>1, <1>2, <1>3, <2>1, <2>2 DEF M
<1>4. CASE r >= 0 /\ r < M
  <2>1. q = 0 /\ r % M = r
    BY <1>1, <1>4, DividedAs
  <2>2. ~(q % 2 = 1) /\ r \in 0 .. M - 1
    BY <1>1, <1>4, <2>1
  <2> QED BY <1>1, <1>2, <1>4, <2>1, <2>2, SMTT(30) DEF M
<1>5. CASE r >= M
  <2>1. q = 1 /\ r % M = r - M
    BY <1>1, <1>5, DividedAs
  <2>2. q % 2 = 1 /\ r \notin 0 .. M - 1
    BY <1>1, <1>5, <2>1
  <2> QED BY <1>1, <1>2, <1>5, <2>1, <2>2 DEF M
<1> QED BY <1>1, <1>3, <1>4, <1>5

\* The sign bit of a result and that of the number it is cut to.
LEMMA MsbIs ==
    ASSUME NEW w, HasSign(w), NEW r \in -(2^w) .. 2 * 2^w - 1
    PROVE  Msb(w, r) = (Mask(w, r) >= 2^(w - 1))
<1> DEFINE H == 2^(w - 1)
           q == r \div H
<1>1. H \in Nat \ {0} /\ 2^w = 2 * H
  BY DEF HasSign
<1>2. Mask(w, r) = IF r < 0 THEN r + 2 * H ELSE IF r >= 2 * H THEN r - 2 * H ELSE r
  BY <1>1, MaskIs
<1>3. r \in Int /\ -(2 * H) <= r /\ r < 4 * H
  BY <1>1
<1>4. Msb(w, r) = (q % 2 = 1)
  BY DEF Msb, Bit
<1> HIDE DEF H
<1>5. ASSUME r < -H PROVE Msb(w, r) = (Mask(w, r) >= H)
  <2>1. q = -2
    BY <1>1, <1>3, <1>5, DividedAs
  <2>2. ~(q % 2 = 1)
    BY <2>1
  <2>3. ~(Mask(w, r) >= H)
    BY <1>1, <1>2, <1>3, <1>5
  <2> QED BY <1>4, <2>2, <2>3
<1>6. ASSUME -H <= r /\ r < 0 PROVE Msb(w, r) = (Mask(w, r) >= H)
  <2>1. q = -1
    BY <1>1, <1>3, <1>6, DividedAs
  <2>2. (q % 2 = 1)
    BY <2>1
  <2>3. Mask(w, r) >= H
    BY <1>1, <1>2, <1>3, <1>6
  <2> QED BY <1>4, <2>2, <2>3
<1>7. ASSUME 0 <= r /\ r < H PROVE Msb(w, r) = (Mask(w, r) >= H)
  <2>1. q = 0
    BY <1>1, <1>3, <1>7, DividedAs
  <2>2. ~(q % 2 = 1)
    BY <2>1
  <2>3. ~(Mask(w, r) >= H)
    BY <1>1, <1>2, <1>3, <1>7
  <2> QED BY <1>4, <2>2, <2>3
<1>8. ASSUME H <= r /\ r < 2 * H PROVE Msb(w, r) = (Mask(w, r) >= H)
  <2>1. q = 1
    BY <1>1, <1>3, <1>8, DividedAs
  <2>2. (q % 2 = 1)
    BY <2>1
  <2>3. Mask(w, r) >= H
    BY <1>1, <1>2, <1>3, <1>8
  <2> QED BY <1>4, <2>2, <2>3
<1>9. ASSUME 2 * H <= r /\ r < 3 * H PROVE Msb(w, r) = (Mask(w, r) >= H)
  <2>1. q = 2
    BY <1>1, <1>3, <1>9, DividedAs
  <2>2. ~(q % 2 = 1)
    BY <2>1
  <2>3. ~(Mask(w, r) >= H)
    BY <1>1, <1>2, <1>3, <1>9
  <2> QED BY <1>4, <2>2, <2>3
<1>10. ASSUME 3 * H <= r PROVE Msb(w, r) = (Mask(w, r) >= H)
  <2>1. q = 3
    BY <1>1, <1>3, <1>10, DividedAs
  <2>2. (q % 2 = 1)
    BY <2>1
  <2>3. Mask(w, r) >= H
    BY <1>1, <1>2, <1>3, <1>10
  <2> QED BY <1>4, <2>2, <2>3
<1>11. Msb(w, r) = (Mask(w, r) >= H)
  BY <1>1, <1>3, <1>5, <1>6, <1>7, <1>8, <1>9, <1>10
<1> QED BY <1>11 DEF H

\* The number that w bits with a sign stand for.
LEMMA SignedIs ==
    ASSUME NEW w, HasSign(w), NEW a \in Unsigned(w)
    PROVE  /\ Mask(w, a) = a /\ Msb(w, a) = (a >= 2^(w - 1))
           /\ Signed(w, a) = IF a >= 2^(w - 1) THEN a - 2^w ELSE a
           /\ InRange(w, Signed(w, a))
<1>1. a \in -(2^w) .. 2 * 2^w - 1
  BY DEF HasSign, Unsigned
<1>2. Mask(w, a) = a /\ Msb(w, a) = (a >= 2^(w - 1))
  BY <1>1, MaskIs, MsbIs DEF HasSign, Unsigned
<1>3. Signed(w, a) = IF a >= 2^(w - 1) THEN a - 2^w ELSE a
  BY <1>2 DEF Signed
<1> QED BY <1>2, <1>3 DEF HasSign, Unsigned, InRange

-----------------------------------------------------------------------------
(* Carry and overflow.  Whatever formula a size uses for them, C says that  *)
(* the unsigned result is out of range, V that the signed one is.           *)

LEMMA Carries ==
    ASSUME NEW w, HasSign(w), NEW s \in Unsigned(w), NEW t \in Unsigned(w), NEW x \in {0, 1},
           NEW r, r = s + t + x
    PROVE  /\ r \in -(2^w) .. 2 * 2^w - 1
           /\ CFLAG(w, r) = (r \notin Unsigned(w)) /\ CFLAG_ADD_32(w, s, t, r) = (r \notin Unsigned(w))
           /\ VFLAG_ADD(w, s, t, r) = ~InRange(w, Signed(w, s) + Signed(w, t) + x)
<1> DEFINE H == 2^(w - 1)
           M == 2^w
<1>1. H \in Nat \ {0} /\ M = 2 * H
  BY DEF HasSign
<1>2. s \in 0 .. M - 1 /\ t \in 0 .. M - 1 /\ r \in -M .. 2 * M - 1
  BY <1>1 DEF Unsigned
<1>3. Mask(w, r) = IF r < 0 THEN r + M ELSE IF r >= M THEN r - M ELSE r
  BY <1>2, MaskIs
<1>4. CFLAG(w, r) = (r \notin Unsigned(w))
  BY <1>2, MaskIs
<1>5. Msb(w, r) = (Mask(w, r) >= H)
  BY <1>2, MsbIs
<1>6. /\ Msb(w, s) = (s >= H) /\ Signed(w, s) = IF s >= H THEN s - M ELSE s
      /\ Msb(w, t) = (t >= H) /\ Signed(w, t) = IF t >= H THEN t - M ELSE t
  BY SignedIs
<1>7. (r \notin Unsigned(w)) = (r \notin 0 .. M - 1)
  BY DEF Unsigned
<1>8. InRange(w, Signed(w, s) + Signed(w, t) + x) = (Signed(w, s) + Signed(w, t) + x \in -H .. H - 1)
  BY DEF InRange
<1> HIDE DEF H, M
<1> DEFINE m == Mask(w, r)
<1>9. CFLAG_ADD_32(w, s, t, r) = (r \notin 0 .. M - 1)
  <2>1. CFLAG_ADD_32(w, s, t, r) = ((s >= H /\ t >= H) \/ (~(m >= H) /\ (s >= H \/ t >= H)))
    BY <1>5, <1>6 DEF CFLAG_ADD_32
  <2> HIDE DEF m
  <2>2. ((s >= H /\ t >= H) \/ (~(m >= H) /\ (s >= H \/ t >= H))) <=> (r \notin 0 .. M - 1)
    BY <1>1, <1>2, <1>3 DEF m
  <2> QED BY <2>1, <2>2
<1>10. VFLAG_ADD(w, s, t, r) = ~(Signed(w, s) + Signed(w, t) + x \in -H .. H - 1)
  BY <1>1, <1>2, <1>3, <1>5, <1>6 DEF VFLAG_ADD
<1> QED BY <1>2, <1>4, <1>7, <1>8, <1>9, <1>10 DEF M

LEMMA Borrows ==
    ASSUME NEW w, HasSign(w), NEW s \in Unsigned(w), NEW t \in Unsigned(w), NEW x \in {0, 1},
           NEW r, r = t - s - x
    PROVE  /\ r \in -(2^w) .. 2 * 2^w - 1
           /\ CFLAG(w, r) = (r \notin Unsigned(w)) /\ CFLAG_SUB_32(w, s, t, r) = (r \notin Unsigned(w))
           /\ VFLAG_SUB(w, s, t, r) = ~InRange(w, Signed(w, t) - Signed(w, s) - x)
           /\ t = 0 => (Msb(w, s) /\ Msb(w, r)) = ~InRange(w, 0 - Signed(w, s) - x)
<1> DEFINE H == 2^(w - 1)
           M == 2^w
<1>1. H \in Nat \ {0} /\ M = 2 * H
  BY DEF HasSign
<1>2. s \in 0 .. M - 1 /\ t \in 0 .. M - 1 /\ r \in -M .. 2 * M - 1
  BY <1>1 DEF Unsigned
<1>3. Mask(w, r) = IF r < 0 THEN r + M ELSE IF r >= M THEN r - M ELSE r
  BY <1>2, MaskIs
<1>4. CFLAG(w, r) = (r \notin Unsigned(w))
  BY <1>2, MaskIs
<1>5. Msb(w, r) = (Mask(w, r) >= H)
  BY <1>2, MsbIs
<1>6. /\ Msb(w, s) = (s >= H) /\ Signed(w, s) = IF s >= H THEN s - M ELSE s
      /\ Msb(w, t) = (t >= H) /\ Signed(w, t) = IF t >= H THEN t - M ELSE t
  BY SignedIs
<1>7. (r \notin Unsigned(w)) = (r \notin 0 .. M - 1)
  BY DEF Unsigned
<1>8. /\ InRange(w, Signed(w, t) - Signed(w, s) - x) = (Signed(w, t) - Signed(w, s) - x \in -H .. H - 1)
      /\ InRange(w, 0 - Signed(w, s) - x) = (0 - Signed(w, s) - x \in -H .. H - 1)
  BY DEF InRange
<1> HIDE DEF H, M
<1> DEFINE m == Mask(w, r)
<1>9. CFLAG_SUB_32(w, s, t, r) = (r \notin 0 .. M - 1)
  <2>1. CFLAG_SUB_32(w, s, t, r) = ((s >= H /\ m >= H) \/ (~(t >= H) /\ (s >= H \/ m >= H)))
    BY <1>5, <1>6 DEF CFLAG_SUB_32
  <2> HIDE DEF m
  <2>2. ((s >= H /\ m >= H) \/ (~(t >= H) /\ (s >= H \/ m >= H))) <=> (r \notin 0 .. M - 1)
    BY <1>1, <1>2, <1>3 DEF m
  <2> QED BY <2>1, <2>2
<1>10. VFLAG_SUB(w, s, t, r) = ~(Signed(w, t) - Signed(w, s) - x \in -H .. H - 1)
  BY <1>1, <1>2, <1>3, <1>5, <1>6 DEF VFLAG_SUB
<1>11. ASSUME t = 0 PROVE (Msb(w, s) /\ Msb(w, r)) = ~(0 - Signed(w, s) - x \in -H .. H - 1)
  <2> DEFINE g == Signed(w, s)
  <2>1. (Msb(w, s) /\ Msb(w, r)) = (s >= H /\ m >= H)
    BY <1>5, <1>6
  <2>2. g = IF s >= H THEN s - M ELSE s
    BY <1>6
  <2> HIDE DEF m, g
  <2>3. (s >= H /\ m >= H) <=> ~(0 - g - x \in -H .. H - 1)
    BY <1>1, <1>2, <1>3, <1>11, <2>2 DEF m
  <2> QED BY <2>1, <2>3 DEF g
<1> QED BY <1>2, <1>4, <1>7, <1>8, <1>9, <1>10, <1>11 DEF M

\* a is what an instruction makes of operands whose unsigned result is u and whose
\* signed one is g; Z is that of the result, or is cleared only.
Correct(w, a, u, g) ==
    /\ a.res \in Unsigned(w) /\ a.res = u % 2^w
    /\ a.ccr \in Flags
    /\ a.ccr.c = (u \notin Unsigned(w)) /\ a.ccr.x = (u \notin Unsigned(w))
    /\ a.ccr.v = ~InRange(w, g) /\ a.ccr.n = (a.res >= 2^(w - 1))
ZeroNew(a) == a.ccr.z = (a.res = 0)
ZeroKept(f, a) == a.ccr.z = (f.z /\ a.res = 0)

\* Flags that are right make a correct result, with Z set or only cleared.
LEMMA ArithmeticIs ==
    ASSUME NEW w, HasSign(w), NEW r \in -(2^w) .. 2 * 2^w - 1, NEW g, NEW v, NEW c, NEW f \in Flags,
           c = (r \notin Unsigned(w)), v = ~InRange(w, g)
    PROVE  LET a == Arithmetic(w, r, v, c)
           IN  /\ Correct(w, a, r, g) /\ ZeroNew(a)
               /\ Correct(w, Sticky(f, a), r, g) /\ ZeroKept(f, Sticky(f, a))
<1> DEFINE a == Arithmetic(w, r, v, c)
<1>1. Mask(w, r) \in Unsigned(w) /\ Mask(w, r) = r % 2^w
  BY MaskIs DEF Mask
<1>2. Msb(w, r) = (Mask(w, r) >= 2^(w - 1))
  BY MsbIs
<1>3. Correct(w, a, r, g) /\ ZeroNew(a)
  BY <1>1, <1>2 DEF Correct, ZeroNew, Arithmetic, Flags
<1>4. /\ Sticky(f, a).res = a.res /\ Sticky(f, a).ccr = [a.ccr EXCEPT !.z = f.z /\ @]
  BY DEF Sticky, Arithmetic
<1>5. Correct(w, Sticky(f, a), r, g) /\ ZeroKept(f, Sticky(f, a))
  BY <1>3, <1>4 DEF Correct, ZeroNew, ZeroKept, Flags
<1> QED BY <1>3, <1>5

\* Each instruction, with either formula for its carry, is correct.
LEMMA Additions ==
    ASSUME NEW w, HasSign(w), NEW f \in Flags, NEW s \in Unsigned(w), NEW t \in Unsigned(w)
    PROVE  LET g == Signed(w, s) + Signed(w, t)
               x == AsOne(f.x)
           IN  /\ \A a \in {ADD(w, f, s, t), ADD_32(w, f, s, t)} :
                      Correct(w, a, s + t, g) /\ ZeroNew(a)
               /\ \A a \in {ADDX(w, f, s, t), ADDX_32(w, f, s, t)} :
                      Correct(w, a, s + t + x, g + x) /\ ZeroKept(f, a)
<1> DEFINE g == Signed(w, s) + Signed(w, t)
           x == AsOne(f.x)
           r == s + t
           rx == s + t + x
<1>1. x \in {0, 1} /\ s \in Int /\ t \in Int /\ g \in Int
  BY SignedIs DEF AsOne, Unsigned, InRange, HasSign
<1>2. /\ r \in -(2^w) .. 2 * 2^w - 1
      /\ CFLAG(w, r) = (r \notin Unsigned(w)) /\ CFLAG_ADD_32(w, s, t, r) = (r \notin Unsigned(w))
      /\ VFLAG_ADD(w, s, t, r) = ~InRange(w, g)
  <2>1. r = s + t + 0 /\ g = g + 0
    BY <1>1
  <2> QED BY <2>1, Carries
<1>3. /\ rx \in -(2^w) .. 2 * 2^w - 1
      /\ CFLAG(w, rx) = (rx \notin Unsigned(w)) /\ CFLAG_ADD_32(w, s, t, rx) = (rx \notin Unsigned(w))
      /\ VFLAG_ADD(w, s, t, rx) = ~InRange(w, g + x)
  BY <1>1, Carries
<1> HIDE DEF g, x
<1>4. Correct(w, ADD(w, f, s, t), r, g) /\ ZeroNew(ADD(w, f, s, t))
  BY <1>2, ArithmeticIs DEF ADD
<1>5. Correct(w, ADD_32(w, f, s, t), r, g) /\ ZeroNew(ADD_32(w, f, s, t))
  BY <1>2, ArithmeticIs DEF ADD_32
<1>6. Correct(w, ADDX(w, f, s, t), rx, g + x) /\ ZeroKept(f, ADDX(w, f, s, t))
  BY <1>3, ArithmeticIs DEF ADDX, x
<1>7. Correct(w, ADDX_32(w, f, s, t), rx, g + x) /\ ZeroKept(f, ADDX_32(w, f, s, t))
  BY <1>3, ArithmeticIs DEF ADDX_32, x
<1> QED BY <1>4, <1>5, <1>6, <1>7 DEF g, x

LEMMA Subtractions ==
    ASSUME NEW w, HasSign(w), NEW f \in Flags, NEW s \in Unsigned(w), NEW t \in Unsigned(w)
    PROVE  LET g == Signed(w, t) - Signed(w, s)
               x == AsOne(f.x)
           IN  /\ \A a \in {SUB(w, f, s, t), SUB_32(w, f, s, t)} :
                      Correct(w, a, t - s, g) /\ ZeroNew(a)
               /\ \A a \in {SUBX(w, f, s, t), SUBX_32(w, f, s, t)} :
                      Correct(w, a, t - s - x, g - x) /\ ZeroKept(f, a)
<1> DEFINE g == Signed(w, t) - Signed(w, s)
           x == AsOne(f.x)
           r == t - s
           rx == t - s - x
<1>1. x \in {0, 1} /\ s \in Int /\ t \in Int /\ g \in Int
  BY SignedIs DEF AsOne, Unsigned, InRange, HasSign
<1>2. /\ r \in -(2^w) .. 2 * 2^w - 1
      /\ CFLAG(w, r) = (r \notin Unsigned(w)) /\ CFLAG_SUB_32(w, s, t, r) = (r \notin Unsigned(w))
      /\ VFLAG_SUB(w, s, t, r) = ~InRange(w, g)
  <2>1. r = t - s - 0 /\ g = g - 0
    BY <1>1
  <2> QED BY <2>1, Borrows
<1>3. /\ rx \in -(2^w) .. 2 * 2^w - 1
      /\ CFLAG(w, rx) = (rx \notin Unsigned(w)) /\ CFLAG_SUB_32(w, s, t, rx) = (rx \notin Unsigned(w))
      /\ VFLAG_SUB(w, s, t, rx) = ~InRange(w, g - x)
  BY <1>1, Borrows
<1> HIDE DEF g, x
<1>4. Correct(w, SUB(w, f, s, t), r, g) /\ ZeroNew(SUB(w, f, s, t))
  BY <1>2, ArithmeticIs DEF SUB
<1>5. Correct(w, SUB_32(w, f, s, t), r, g) /\ ZeroNew(SUB_32(w, f, s, t))
  BY <1>2, ArithmeticIs DEF SUB_32
<1>6. Correct(w, SUBX(w, f, s, t), rx, g - x) /\ ZeroKept(f, SUBX(w, f, s, t))
  BY <1>3, ArithmeticIs DEF SUBX, x
<1>7. Correct(w, SUBX_32(w, f, s, t), rx, g - x) /\ ZeroKept(f, SUBX_32(w, f, s, t))
  BY <1>3, ArithmeticIs DEF SUBX_32, x
<1> QED BY <1>4, <1>5, <1>6, <1>7 DEF g, x

LEMMA Negations ==
    ASSUME NEW w, HasSign(w), NEW f \in Flags, NEW s, NEW t \in Unsigned(w)
    PROVE  LET x == AsOne(f.x)
           IN  /\ \A a \in {NEG(w, f, s, t), NEG_32(w, f, s, t)} :
                      Correct(w, a, 0 - t, 0 - Signed(w, t)) /\ ZeroNew(a)
               /\ \A a \in {NEGX(w, f, s, t), NEGX_32(w, f, s, t)} :
                      Correct(w, a, 0 - t - x, 0 - Signed(w, t) - x) /\ ZeroKept(f, a)
<1> DEFINE g == 0 - Signed(w, t)
           x == AsOne(f.x)
           r == 0 - t
           rx == 0 - t - x
<1>1. x \in {0, 1} /\ t \in Int /\ g \in Int /\ 0 \in Unsigned(w)
  BY SignedIs DEF AsOne, Unsigned, InRange, HasSign
<1>2. /\ r \in -(2^w) .. 2 * 2^w - 1
      /\ CFLAG(w, r) = (r \notin Unsigned(w)) /\ CFLAG_SUB_32(w, t, 0, r) = (r \notin Unsigned(w))
      /\ (Msb(w, t) /\ Msb(w, r)) = ~InRange(w, g)
  <2>1. r = 0 - t - 0 /\ g = g - 0
    BY <1>1
  <2> QED BY <1>1, <2>1, Borrows
<1>3. /\ rx \in -(2^w) .. 2 * 2^w - 1
      /\ CFLAG(w, rx) = (rx \notin Unsigned(w)) /\ CFLAG_SUB_32(w, t, 0, rx) = (rx \notin Unsigned(w))
      /\ (Msb(w, t) /\ Msb(w, rx)) = ~InRange(w, g - x)
  BY <1>1, Borrows
<1> HIDE DEF g, x
<1>4. Correct(w, NEG(w, f, s, t), r, g) /\ ZeroNew(NEG(w, f, s, t))
  BY <1>2, ArithmeticIs DEF NEG
<1>5. Correct(w, NEG_32(w, f, s, t), r, g) /\ ZeroNew(NEG_32(w, f, s, t))
  BY <1>2, ArithmeticIs DEF NEG_32
<1>6. Correct(w, NEGX(w, f, s, t), rx, g - x) /\ ZeroKept(f, NEGX(w, f, s, t))
  BY <1>3, ArithmeticIs DEF NEGX, x
<1>7. Correct(w, NEGX_32(w, f, s, t), rx, g - x) /\ ZeroKept(f, NEGX_32(w, f, s, t))
  BY <1>3, ArithmeticIs DEF NEGX_32, x
<1> QED BY <1>4, <1>5, <1>6, <1>7 DEF g, x

\* The carry is what the result lacks.
LEMMA CarryIs ==
    ASSUME NEW w, HasSign(w), NEW a, NEW u \in -(2^w) .. 2 * 2^w - 1, NEW g, Correct(w, a, u, g)
    PROVE  /\ u >= 0 => u = a.res + AsOne(a.ccr.x) * 2^w
           /\ u < 2^w => u = a.res - AsOne(a.ccr.x) * 2^w
<1> DEFINE M == 2^w
           e == AsOne(a.ccr.x)
<1>1. a.res = IF u < 0 THEN u + M ELSE IF u >= M THEN u - M ELSE u
  BY MaskIs DEF Correct, Mask
<1>2. e = IF u \in 0 .. M - 1 THEN 0 ELSE 1
  BY DEF Correct, Unsigned, AsOne
<1>3. M \in Nat /\ u \in Int
  BY DEF HasSign
<1> HIDE DEF M, e
<1>4. /\ u >= 0 => u = a.res + e * M
      /\ u < M => u = a.res - e * M
  BY <1>1, <1>2, <1>3
<1> QED BY <1>4 DEF M, e

-----------------------------------------------------------------------------
(* Comparisons                                                             *)

\* C is the unsigned order of the operands of a subtraction, Z their equality,
\* and N and V together are the signed order.
LEMMA OrderIs ==
    ASSUME NEW w, HasSign(w), NEW s \in Unsigned(w), NEW t \in Unsigned(w), NEW a,
           Correct(w, a, t - s, Signed(w, t) - Signed(w, s)), ZeroNew(a)
    PROVE  /\ a.ccr.c = (t < s) /\ a.ccr.z = (t = s)
           /\ (a.ccr.n # a.ccr.v) = (Signed(w, t) < Signed(w, s))
<1> DEFINE H == 2^(w - 1)
           M == 2^w
           St == Signed(w, t)
           Ss == Signed(w, s)
<1>1. H \in Nat \ {0} /\ M = 2 * H /\ s \in 0 .. M - 1 /\ t \in 0 .. M - 1
  BY DEF HasSign, Unsigned
<1>2. St = IF t >= H THEN t - M ELSE t
  BY SignedIs
<1>3. Ss = IF s >= H THEN s - M ELSE s
  BY SignedIs
<1>4. a.res = IF t - s < 0 THEN (t - s) + M ELSE t - s
  <2>1. t - s \in -M .. 2 * M - 1 /\ t - s < M
    BY <1>1
  <2> QED BY <1>1, <2>1, MaskIs DEF Correct, Mask
<1>5. /\ a.ccr.c = (t - s \notin 0 .. M - 1) /\ a.ccr.v = ~(St - Ss \in -H .. H - 1)
      /\ a.ccr.n = (a.res >= H) /\ a.ccr.z = (a.res = 0)
  BY DEF Correct, ZeroNew, Unsigned, InRange
<1> HIDE DEF H, M, St, Ss
<1>6. (t - s \notin 0 .. M - 1) = (t < s) /\ (a.res = 0) = (t = s)
  BY <1>1, <1>4
<1>7. ((a.res >= H) # ~(St - Ss \in -H .. H - 1)) = (St < Ss)
  BY <1>1, <1>2, <1>3, <1>4
<1> QED BY <1>5, <1>6, <1>7 DEF St, Ss

-----------------------------------------------------------------------------
(* Quotients, and the bits of any number                                   *)

\* There is one quotient and one rest.
LEMMA DivisionIs ==
    ASSUME NEW m \in Nat \ {0}, NEW q \in Int, NEW r \in 0 .. m - 1, NEW n, n = q * m + r
    PROVE  n \div m = q /\ n % m = r
<1> DEFINE p == n \div m
           e == n % m
<1>1. n \in Int
  BY Z3
<1>2. p \in Int /\ e \in 0 .. m - 1 /\ n = p * m + e
  BY <1>1, Z3
<1> HIDE DEF p, e
<1>3. (q * m + r < (p + 1) * m) <=> (q < p + 1)
  BY <1>2, SameSide
<1>4. (p * m + e < (q + 1) * m) <=> (p < q + 1)
  BY <1>2, SameSide
<1>5. (p + 1) * m = p * m + m /\ (q + 1) * m = q * m + m
  BY <1>2, Z3
<1> DEFINE pm == p * m
           qm == q * m
<1>6. pm \in Int /\ qm \in Int /\ pm + e = qm + r
  BY <1>2, Z3
<1>7. qm + r < pm + m /\ pm + e < qm + m
  <2> HIDE DEF pm, qm
  <2> QED BY <1>2, <1>6
<1>8. q < p + 1 /\ p < q + 1
  BY <1>3, <1>4, <1>5, <1>7
<1>9. p = q
  BY <1>2, <1>8
<1>10. e = r
  BY <1>2, <1>6, <1>9
<1> QED BY <1>9, <1>10 DEF p, e

LEMMA DivisionOf ==
    ASSUME NEW m \in Nat \ {0}, NEW n \in Int
    PROVE  /\ n \div m \in Int /\ n % m \in 0 .. m - 1 /\ n = (n \div m) * m + (n % m)
           /\ n >= 0 => n \div m >= 0
           /\ \A k \in Int : (n < k * m) <=> (n \div m < k)
<1>1. n \div m \in Int /\ n % m \in 0 .. m - 1 /\ n = (n \div m) * m + (n % m)
  BY Z3
<1>2. \A k \in Int : (n < k * m) <=> (n \div m < k)
  <2> DEFINE q == n \div m
             e == n % m
  <2>1. q \in Int /\ e \in 0 .. m - 1 /\ n = q * m + e
    BY <1>1
  <2> HIDE DEF q, e
  <2>2. \A k \in Int : (n < k * m) <=> (q < k)
    BY <2>1, SameSide
  <2> QED BY <2>2 DEF q
<1>3. 0 * m = 0
  OBVIOUS
<1> QED BY <1>1, <1>2, <1>3

\* The sign bit of any number, and the value it gives.
LEMMA SignedOfAny ==
    ASSUME NEW w, HasSign(w), NEW n \in Int
    PROVE  /\ Mask(w, n) = n % 2^w /\ n % 2^w \in Unsigned(w)
           /\ Msb(w, n) = (n % 2^w >= 2^(w - 1))
           /\ Signed(w, n) = Signed(w, Mask(w, n)) /\ InRange(w, Signed(w, n))
           /\ InRange(w, n) => Signed(w, n) = n
<1> DEFINE H == 2^(w - 1)
           M == 2^w
           e == n % M
           p == n \div M
<1>1. H \in Nat \ {0} /\ M = 2 * H /\ M \in Nat \ {0}
  BY DEF HasSign
<1>2. p \in Int /\ e \in 0 .. M - 1 /\ n = p * M + e
  <2> HIDE DEF M
  <2> QED BY <1>1, DivisionOf
<1>3. n % M \in Unsigned(w) /\ Mask(w, n) = n % M
  BY <1>2 DEF Unsigned, Mask
<1>4. Msb(w, n) = (e >= H)
  <2> DEFINE k == IF e >= H THEN 1 ELSE 0
  <2> HIDE DEF H, M, e, p
  <2>1. k \in {0, 1} /\ (e - k * H) \in 0 .. H - 1 /\ k * H \in Int
    BY <1>1, <1>2
  <2>2. n = (2 * p + k) * H + (e - k * H)
    <3>1. p * (2 * H) = (2 * p) * H
      BY <1>1, <1>2, Z3
    <3>2. (2 * p + k) * H = (2 * p) * H + k * H
      BY <1>1, <1>2, <2>1, Z3
    <3> DEFINE x == (2 * p) * H
               y == k * H
    <3>3. x \in Int /\ y \in Int /\ e \in Int
      BY <1>1, <1>2, <2>1
    <3>4. n = x + e /\ (2 * p + k) * H = x + y
      BY <1>1, <1>2, <3>1, <3>2
    <3> HIDE DEF x, y, k
    <3>5. n = (x + y) + (e - y)
      BY <3>3, <3>4
    <3> QED BY <3>4, <3>5 DEF y
  <2>3. n \div H = 2 * p + k
    <3> HIDE DEF k
    <3>1. 2 * p + k \in Int
      BY <1>2, <2>1
    <3> QED BY <1>1, <2>1, <2>2, <3>1, DivisionIs
  <2>4. (2 * p + k) % 2 = k
    BY <1>2, <2>1
  <2>5. Msb(w, n) = (k = 1)
    BY <2>3, <2>4 DEF Msb, Bit, H
  <2> QED BY <2>5
<1>5. Mask(w, Mask(w, n)) = Mask(w, n) /\ Msb(w, Mask(w, n)) = (e >= H)
  BY <1>3, SignedIs
<1>6. Signed(w, n) = Signed(w, Mask(w, n)) /\ Signed(w, n) = IF e >= H THEN e - M ELSE e
  BY <1>3, <1>4, <1>5 DEF Signed
<1>7. InRange(w, Signed(w, n))
  BY <1>3, <1>6, SignedIs
<1>8. InRange(w, n) => Signed(w, n) = n
  <2> SUFFICES ASSUME n \in -H .. H - 1
               PROVE  Signed(w, n) = n
    BY DEF InRange
  <2>1. e = IF n < 0 THEN n + M ELSE n
    <3> HIDE DEF M, H
    <3>1. /\ (0 <= n /\ n < M) => n % M = n
          /\ (-M <= n /\ n < 0) => n % M = n + M
      BY <1>1, DividedAs
    <3>2. n \in Int /\ -H <= n /\ n < H
      BY <1>1
    <3>3. (0 <= n /\ n < M) \/ (-M <= n /\ n < 0)
      BY <1>1, <3>2
    <3> QED BY <3>1, <3>2, <3>3
  <2> HIDE DEF M, H, e
  <2> QED BY <1>1, <1>6, <2>1
<1> QED BY <1>3, <1>4, <1>6, <1>7, <1>8
=============================================================================
