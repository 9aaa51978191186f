--------------------------- MODULE ArithmeticProofs ---------------------------
(***************************************************************************)
(* The multiplications and divisions are exact on words of every width:    *)
(* proofs for every Half, where TLC tries all pairs of short words.        *)
(***************************************************************************)
EXTENDS Arithmetic, TLAPS

-----------------------------------------------------------------------------
(* Division with remainder *)

\* Quotient and remainder of the division by a positive number make up the dividend.
LEMMA DivMod ==
    ASSUME NEW w \in Nat \ {0}, NEW p \in Int
    PROVE  /\ p \div w \in Int /\ p % w \in Int /\ 0 <= p % w /\ p % w < w
           /\ p = w * (p \div w) + (p % w)
OBVIOUS

\* A multiple of a positive number is zero or at least that number away from it.
LEMMA Multiple ==
    ASSUME NEW w \in Nat \ {0}, NEW k \in Int
    PROVE  /\ k >= 1 => w * k >= w
           /\ k <= -1 => w * k <= -w
OBVIOUS

\* They are the only ones that do.
LEMMA DivModUnique ==
    ASSUME NEW w \in Nat \ {0}, NEW q \in Int, NEW r \in Int, 0 <= r, r < w
    PROVE  (w * q + r) \div w = q /\ (w * q + r) % w = r
<1> DEFINE p == w * q + r
<1>1. p \in Int
  OBVIOUS
<1> HIDE DEF p
<1>2. /\ p \div w \in Int /\ p % w \in Int /\ 0 <= p % w /\ p % w < w
      /\ p = w * (p \div w) + (p % w)
  BY <1>1, DivMod
<1> DEFINE k == q - (p \div w)
<1>3. k \in Int
  BY <1>2
<1>4. w * k = (p % w) - r
  BY <1>2 DEF p
<1> HIDE DEF k
<1>5. k = 0
  <2>1. (k >= 1 => w * k >= w) /\ (k <= -1 => w * k <= -w)
    BY <1>3, Multiple
  <2> DEFINE e == w * k
             m == p % w
  <2>2. e \in Int /\ m \in Int /\ e = m - r /\ 0 <= m /\ m < w
    BY <1>2, <1>3, <1>4
  <2>3. (k >= 1 => e >= w) /\ (k <= -1 => e <= -w)
    BY <2>1
  <2> HIDE DEF e, m
  <2>4. QED
    BY <1>3, <2>2, <2>3
<1>6. p \div w = q
  BY <1>2, <1>5 DEF k
<1>7. p % w = r
  BY <1>2, <1>4, <1>5
<1>8. QED
  BY <1>6, <1>7 DEF p

\* Multiples of the modulus do not change a remainder and add to the quotient.
LEMMA ShiftMod ==
    ASSUME NEW w \in Nat \ {0}, NEW p \in Int, NEW k \in Int
    PROVE  (p + w * k) % w = p % w /\ (p + w * k) \div w = (p \div w) + k
<1>1. /\ p \div w \in Int /\ p % w \in Int /\ 0 <= p % w /\ p % w < w
      /\ p = w * (p \div w) + (p % w)
  BY DivMod
<1> DEFINE d == p \div w
           m == p % w
<1>2. p + w * k = w * (d + k) + m
  <2>1. d \in Int /\ m \in Int /\ p = w * d + m
    BY <1>1
  <2> HIDE DEF d, m
  <2>2. w * (d + k) = w * d + w * k
    BY <2>1
  <2>3. w * d \in Int /\ w * k \in Int
    BY <2>1
  <2>4. QED
    BY <2>1, <2>2, <2>3
<1>3. d + k \in Int
  BY <1>1
<1>4. m \in Int /\ 0 <= m /\ m < w
  BY <1>1
<1> HIDE DEF d, m
<1>5. (w * (d + k) + m) \div w = d + k /\ (w * (d + k) + m) % w = m
  BY <1>3, <1>4, DivModUnique
<1>6. QED
  BY <1>2, <1>5 DEF d, m

-----------------------------------------------------------------------------
(* Words as signed and unsigned numbers *)

\* The sizes.
LEMMA Sizes == WordMod \in Nat \ {0} /\ Half \in Nat \ {0} /\ WordMod = Half + Half
BY HalfIsPositive DEF WordMod

\* A word and its signed reading differ by a multiple of the word size.
LEMMA SignedForm ==
    ASSUME NEW a \in Word
    PROVE  /\ a \in Nat /\ a < WordMod
           /\ Signed(a) \in Int /\ -Half <= Signed(a) /\ Signed(a) < Half
           /\ \E k \in {0, 1} : Signed(a) = a - WordMod * k
           /\ (Signed(a) < 0) = (a >= Half)
<1>1. a \in Nat /\ a < WordMod /\ WordMod \in Nat /\ Half \in Nat /\ WordMod = Half + Half
  BY Sizes DEF Word
<1>2. CASE a >= Half
  <2>1. Signed(a) = a - WordMod
    BY <1>2 DEF Signed
  <2>2. Signed(a) = a - WordMod * 1
    BY <1>1, <2>1
  <2>3. QED
    BY <1>1, <1>2, <2>1, <2>2
<1>3. CASE ~ (a >= Half)
  <2>1. Signed(a) = a
    BY <1>3 DEF Signed
  <2>2. Signed(a) = a - WordMod * 0
    BY <1>1, <2>1
  <2>3. QED
    BY <1>1, <1>3, <2>1, <2>2
<1>4. QED
  BY <1>2, <1>3

\* A number as a word, and back if it is an int32_t.
LEMMA UnsignedForm ==
    ASSUME NEW n \in Int
    PROVE  /\ Unsigned(n) \in Word /\ Unsigned(n) \in Int
           /\ \E k \in Int : Unsigned(n) = n + WordMod * k
           /\ -Half <= n /\ n < Half => Signed(Unsigned(n)) = n
           /\ n \in Word => Unsigned(n) = n
<1>1. WordMod \in Nat \ {0} /\ Half \in Nat \ {0} /\ WordMod = Half + Half
  BY Sizes
<1> DEFINE d == n \div WordMod
           m == n % WordMod
<1>2. d \in Int /\ m \in Int /\ 0 <= m /\ m < WordMod /\ n = WordMod * d + m
  BY <1>1, DivMod
<1>3. Unsigned(n) = m
  BY DEF Unsigned
<1> HIDE DEF d, m
<1>4. m \in Word
  BY <1>1, <1>2 DEF Word
<1>5. m = n + WordMod * (0 - d) /\ 0 - d \in Int
  <2>1. WordMod * (0 - d) = 0 - WordMod * d
    BY <1>1, <1>2
  <2>2. QED
    BY <1>1, <1>2, <2>1
<1>6. 0 <= n /\ n < WordMod => m = n
  BY <1>1, <1>3 DEF Unsigned
<1>7. ASSUME -Half <= n, n < Half PROVE Signed(m) = n
  <2>1. CASE n >= 0
    BY <1>1, <1>6, <1>7, <2>1 DEF Signed
  <2>2. CASE n < 0
    <3>1. \A u \in Int : -WordMod <= u /\ u < 0 => u % WordMod = u + WordMod
      BY <1>1
    <3>2. m = n + WordMod
      BY <1>1, <1>7, <2>2, <3>1 DEF m
    <3>3. QED
      BY <1>1, <1>7, <2>2, <3>2 DEF Signed
  <2>3. QED
    BY <2>1, <2>2
<1>8. \E k \in Int : Unsigned(n) = n + WordMod * k
  BY <1>3, <1>5, Zenon
<1>9. n \in Word => Unsigned(n) = n
  BY <1>1, <1>3, <1>6 DEF Word
<1>10. QED
  BY <1>2, <1>3, <1>4, <1>7, <1>8, <1>9

\* Numbers that differ by a multiple of the word size are the same word.
LEMMA SameWord ==
    ASSUME NEW n \in Int, NEW k \in Int
    PROVE  Unsigned(n + WordMod * k) = Unsigned(n)
BY Sizes, ShiftMod DEF Unsigned

-----------------------------------------------------------------------------
(* Multiplication *)

\* The high word of a product that fits in two signed words.
LEMMA HighWord ==
    ASSUME NEW p \in Int, -(Half * WordMod) <= p, p < Half * WordMod
    PROVE  Signed(Unsigned(p \div WordMod)) * WordMod + (p % WordMod) = p
<1>1. WordMod \in Nat \ {0} /\ Half \in Nat \ {0} /\ WordMod = Half + Half
  BY Sizes
<1> DEFINE d == p \div WordMod
           m == p % WordMod
<1>2. d \in Int /\ m \in Int /\ 0 <= m /\ m < WordMod /\ p = WordMod * d + m
  BY <1>1, DivMod
<1> HIDE DEF d, m
<1>3. d < Half
  <2> SUFFICES ASSUME d >= Half PROVE FALSE
    BY <1>1, <1>2
  <2>1. WordMod * d >= WordMod * Half
    BY <1>1, <1>2
  <2>2. WordMod * Half = Half * WordMod /\ WordMod * d \in Int /\ WordMod * Half \in Int
    BY <1>1, <1>2
  <2>3. QED
    BY <1>1, <1>2, <2>1, <2>2
<1>4. -Half <= d
  <2> SUFFICES ASSUME d <= -Half - 1 PROVE FALSE
    BY <1>1, <1>2
  <2>1. WordMod * d <= WordMod * (-Half - 1)
    BY <1>1, <1>2
  <2>2. /\ WordMod * (-Half - 1) = -(Half * WordMod) - WordMod
        /\ WordMod * d \in Int /\ Half * WordMod \in Int
    BY <1>1, <1>2
  <2>3. QED
    BY <1>1, <1>2, <2>1, <2>2
<1>5. Signed(Unsigned(d)) = d
  BY <1>2, <1>3, <1>4, UnsignedForm
<1>6. QED
  BY <1>1, <1>2, <1>5 DEF d, m

\* The products of signed and mixed readings are the product of the words, up to
\* multiples of the word size, and fit in two signed words.
LEMMA SignedProducts ==
    ASSUME NEW a \in Word, NEW b \in Word
    PROVE  /\ Signed(a) * Signed(b) \in Int /\ Signed(a) * b \in Int /\ a * b \in Int
           /\ Unsigned(Signed(a) * Signed(b)) = Unsigned(a * b)
           /\ Unsigned(Signed(a) * b) = Unsigned(a * b)
           /\ -(Half * WordMod) <= Signed(a) * Signed(b) /\ Signed(a) * Signed(b) < Half * WordMod
           /\ -(Half * WordMod) <= Signed(a) * b /\ Signed(a) * b < Half * WordMod
<1>1. WordMod \in Nat \ {0} /\ Half \in Nat \ {0} /\ WordMod = Half + Half
  BY Sizes
<1> DEFINE s == Signed(a)
           t == Signed(b)
<1>2. /\ a \in Nat /\ a < WordMod /\ b \in Nat /\ b < WordMod
      /\ s \in Int /\ -Half <= s /\ s < Half /\ t \in Int /\ -Half <= t /\ t < Half
  BY SignedForm
<1>3. PICK j \in {0, 1} : s = a - WordMod * j
  BY SignedForm
<1>4. PICK k \in {0, 1} : t = b - WordMod * k
  BY SignedForm
<1> HIDE DEF s, t
<1>5. j \in Int /\ k \in Int
  OBVIOUS
<1> DEFINE u == WordMod * j * k - a * k - b * j
           v == 0 - b * j
<1>6. u \in Int /\ v \in Int
  BY <1>1, <1>2, <1>5
<1>7. s * t = a * b + WordMod * u
  BY <1>1, <1>2, <1>3, <1>4
<1>8. s * b = a * b + WordMod * v
  BY <1>1, <1>2, <1>3
<1> HIDE DEF u, v
<1>9. s * t \in Int /\ s * b \in Int /\ a * b \in Int
  BY <1>2
<1>10. Unsigned(s * t) = Unsigned(a * b) /\ Unsigned(s * b) = Unsigned(a * b)
  BY <1>6, <1>7, <1>8, <1>9, SameWord
<1>11. -(Half * WordMod) <= s * t /\ s * t < Half * WordMod
  <2>1. \A f \in -Half .. Half, g \in -Half .. Half : -(Half * Half) <= f * g /\ f * g <= Half * Half
    BY <1>1
  <2>2. -(Half * Half) <= s * t /\ s * t <= Half * Half
    BY <1>1, <1>2, <2>1
  <2>3. Half * Half < Half * WordMod /\ Half * Half \in Int /\ Half * WordMod \in Int
    BY <1>1
  <2>4. QED
    BY <1>9, <2>2, <2>3
<1>12. -(Half * WordMod) <= s * b /\ s * b < Half * WordMod
  <2>1. \A f \in -Half .. Half - 1, g \in 0 .. WordMod - 1 :
            -(Half * WordMod) <= f * g /\ f * g < Half * WordMod
    BY <1>1
  <2>2. QED
    BY <1>1, <1>2, <2>1
<1>13. QED
  BY <1>9, <1>10, <1>11, <1>12 DEF s, t

\* The unsigned product.
LEMMA UnsignedProduct ==
    ASSUME NEW a \in Word, NEW b \in Word
    PROVE  MULHU(a, b) * WordMod + MUL(a, b) = a * b
<1> DEFINE p == a * b
<1>1. WordMod \in Nat \ {0} /\ p \in Int
  BY Sizes, SignedProducts
<1> HIDE DEF p
<1>2. p \div WordMod \in Int /\ p % WordMod \in Int /\ p = WordMod * (p \div WordMod) + (p % WordMod)
  BY <1>1, DivMod
<1>3. (p \div WordMod) * WordMod = WordMod * (p \div WordMod)
  BY <1>1, <1>2
<1>4. QED
  BY <1>2, <1>3 DEF MULHU, MUL, Unsigned, p

\* The signed product, from 64-bit arithmetic.
LEMMA SignedProduct ==
    ASSUME NEW a \in Word, NEW b \in Word
    PROVE  Signed(MULH(a, b)) * WordMod + MUL(a, b) = Signed(a) * Signed(b)
<1> DEFINE p == Signed(a) * Signed(b)
<1>1. /\ p \in Int /\ Unsigned(p) = Unsigned(a * b)
      /\ -(Half * WordMod) <= p /\ p < Half * WordMod
  BY SignedProducts
<1>2. MULH(a, b) = Unsigned(p \div WordMod) /\ MUL(a, b) = p % WordMod
  BY <1>1 DEF MULH, MUL, Unsigned
<1> HIDE DEF p
<1>3. Signed(Unsigned(p \div WordMod)) * WordMod + (p % WordMod) = p
  BY <1>1, HighWord
<1>4. QED
  BY <1>2, <1>3 DEF p

\* The mixed product, though the code computes it from an operand converted to uint64_t:
\* what the conversion adds is a multiple of 2^64.
LEMMA MixedProduct ==
    ASSUME NEW a \in Word, NEW b \in Word
    PROVE  Signed(MULHSU(a, b)) * WordMod + MUL(a, b) = Signed(a) * b
<1> DEFINE wide == WordMod * WordMod
           s == Signed(a)
           p == s * b
           c == s % wide
           m == (c * b) % wide
<1>1. /\ p \in Int /\ Unsigned(p) = Unsigned(a * b)
      /\ -(Half * WordMod) <= p /\ p < Half * WordMod
  BY SignedProducts
<1>2. WordMod \in Nat \ {0} /\ wide \in Nat \ {0} /\ s \in Int /\ b \in Nat
  BY Sizes, SignedForm
<1>3. MULHSU(a, b) = Unsigned(m \div WordMod) /\ MUL(a, b) = p % WordMod
  BY <1>1 DEF MULHSU, MUL, Unsigned
<1> HIDE DEF s, wide
<1>4. c \in Int /\ s = wide * (s \div wide) + c /\ s \div wide \in Int
  BY <1>2, DivMod
<1> HIDE DEF c
<1>5. c * b = p + wide * (0 - (s \div wide) * b) /\ 0 - (s \div wide) * b \in Int
  BY <1>2, <1>4
<1> HIDE DEF p
<1>6. m = p % wide
  BY <1>1, <1>2, <1>5, ShiftMod
<1> DEFINE q == p \div wide
<1>7. q \in Int /\ m \in Int /\ p = wide * q + m
  BY <1>1, <1>2, <1>6, DivMod
<1> HIDE DEF q, m
<1>8. p = m + WordMod * (WordMod * q) /\ WordMod * q \in Int
  BY <1>2, <1>7 DEF wide
<1>9. p \div WordMod = (m \div WordMod) + WordMod * q
  BY <1>2, <1>7, <1>8, ShiftMod
<1>10. Unsigned(p \div WordMod) = Unsigned(m \div WordMod)
  <2>1. m \div WordMod \in Int
    BY <1>2, <1>7, DivMod
  <2>2. QED
    BY <1>7, <1>9, <2>1, SameWord
<1>11. Signed(Unsigned(p \div WordMod)) * WordMod + (p % WordMod) = p
  BY <1>1, HighWord
<1>12. QED
  BY <1>3, <1>10, <1>11 DEF p, s

-----------------------------------------------------------------------------
(* Division *)

\* Truncated division: the remainder is smaller than the divisor, with the dividend's sign.
LEMMA Truncated ==
    ASSUME NEW a \in Int, NEW b \in Int, b # 0
    PROVE  LET q == Quotient(a, b)
               r == Remainder(a, b)
           IN  /\ q \in Int /\ r \in Int /\ a = b * q + r
               /\ Abs(r) < Abs(b) /\ (r # 0 => (r < 0) = (a < 0))
<1> DEFINE n == Abs(a)
           d == Abs(b)
           e == n \div d
           f == n % d
           q == Quotient(a, b)
           r == Remainder(a, b)
<1>1. n \in Nat /\ d \in Nat \ {0}
  BY DEF Abs
<1>2. e \in Int /\ f \in Int /\ 0 <= f /\ f < d /\ n = d * e + f
  <2> HIDE DEF n, d
  <2>1. QED
    BY <1>1, DivMod
<1>3. q = IF (a < 0) = (b < 0) THEN e ELSE -e
  BY DEF Quotient
<1>4. r = a - b * q
  BY DEF Remainder
<1>5. n = (IF a < 0 THEN -a ELSE a) /\ d = (IF b < 0 THEN -b ELSE b)
  BY DEF Abs
<1> HIDE DEF n, d, e, f, q, r
<1>6. q \in Int /\ b * q \in Int /\ r \in Int /\ a = b * q + r
  BY <1>2, <1>3, <1>4
<1>7. r = IF a < 0 THEN -f ELSE f
  <2>1. d * e \in Int
    BY <1>1, <1>2
  <2>2. CASE a < 0 /\ b < 0
    <3>1. b * q = -(d * e)
      BY <1>1, <1>2, <1>3, <1>5, <2>2
    <3>2. QED
      BY <1>2, <1>4, <1>5, <2>1, <2>2, <3>1
  <2>3. CASE a < 0 /\ ~ b < 0
    <3>1. b * q = -(d * e)
      BY <1>1, <1>2, <1>3, <1>5, <2>3
    <3>2. QED
      BY <1>2, <1>4, <1>5, <2>1, <2>3, <3>1
  <2>4. CASE ~ a < 0 /\ b < 0
    <3>1. b * q = d * e
      BY <1>1, <1>2, <1>3, <1>5, <2>4
    <3>2. QED
      BY <1>2, <1>4, <1>5, <2>1, <2>4, <3>1
  <2>5. CASE ~ a < 0 /\ ~ b < 0
    <3>1. b * q = d * e
      BY <1>1, <1>2, <1>3, <1>5, <2>5
    <3>2. QED
      BY <1>2, <1>4, <1>5, <2>1, <2>5, <3>1
  <2>6. QED
    BY <2>2, <2>3, <2>4, <2>5
<1>8. Abs(r) < d /\ (r # 0 => (r < 0) = (a < 0))
  BY <1>1, <1>2, <1>7 DEF Abs
<1>9. QED
  BY <1>6, <1>8 DEF q, r, d

\* Unsigned division.
LEMMA UnsignedDivision ==
    ASSUME NEW a \in Word, NEW b \in Word
    PROVE  /\ Unsigned(DIVU(a, b) * b + REMU(a, b)) = a
           /\ b # 0 => REMU(a, b) < b
<1>1. /\ WordMod \in Nat \ {0} /\ a \in Nat /\ b \in Nat /\ Unsigned(a) = a
  BY Sizes, SignedForm, UnsignedForm
<1>2. CASE b = 0
  <2>1. DIVU(a, b) * b + REMU(a, b) = a
    BY <1>1, <1>2 DEF DIVU, REMU
  <2>2. QED
    BY <1>1, <1>2, <2>1
<1>3. CASE b # 0
  <2>1. DIVU(a, b) = a \div b /\ REMU(a, b) = a % b
    BY <1>3 DEF DIVU, REMU
  <2>2. /\ a \div b \in Int /\ a % b \in Int /\ a % b < b
        /\ a = b * (a \div b) + (a % b)
    BY <1>1, <1>3, DivMod
  <2>3. b * (a \div b) = (a \div b) * b
    BY <1>1, <2>2
  <2>4. QED
    BY <1>1, <2>1, <2>2, <2>3
<1>4. QED
  BY <1>2, <1>3

\* Signed division: where the code tests for zero and for the overflow is where the
\* quotient is no number or no int32_t, and nowhere else.
LEMMA SignedDivision ==
    ASSUME Engine = "interpreter", NEW a \in Word, NEW b \in Word
    PROVE  /\ Unsigned(DIV(a, b) * b + REM(a, b)) = a
           /\ b # 0 => Abs(Signed(REM(a, b))) < Abs(Signed(b))
           /\ REM(a, b) # 0 => (Signed(REM(a, b)) < 0) = (Signed(a) < 0)
<1>1. /\ WordMod \in Nat \ {0} /\ Half \in Nat \ {0} /\ WordMod = Half + Half
      /\ a \in Nat /\ b \in Nat /\ a < WordMod /\ b < WordMod /\ Unsigned(a) = a
  BY Sizes, SignedForm, UnsignedForm
<1>2. CASE b = 0
  <2>1. REM(a, b) = a /\ DIV(a, b) = Unsigned(-1)
    BY <1>2 DEF REM, DIV
  <2>2. Unsigned(-1) \in Int
    BY UnsignedForm
  <2>3. DIV(a, b) * b + REM(a, b) = a
    BY <1>1, <1>2, <2>1, <2>2
  <2>4. QED
    BY <1>1, <1>2, <2>1, <2>3
<1>3. CASE Overflows(a, b)
  <2>1. a = Half /\ b = WordMod - 1 /\ b # 0
    BY <1>1, <1>3 DEF Overflows
  <2>2. DIV(a, b) = Half /\ REM(a, b) = 0
    BY <1>3, <2>1 DEF DIV, REM, RemOverflow
  <2>3. DIV(a, b) * b + REM(a, b) = a + WordMod * (Half - 1)
    BY <1>1, <2>1, <2>2
  <2>4. Unsigned(DIV(a, b) * b + REM(a, b)) = a
    <3> DEFINE c == Half - 1
    <3>1. a \in Int /\ c \in Int
      BY <1>1
    <3>2. DIV(a, b) * b + REM(a, b) = a + WordMod * c
      BY <2>3
    <3> HIDE DEF c
    <3>3. Unsigned(a + WordMod * c) = Unsigned(a)
      BY <3>1, SameWord
    <3>4. QED
      BY <1>1, <3>2, <3>3, Zenon
  <2>5. Signed(0) = 0 /\ Signed(b) = -1
    BY <1>1, <2>1 DEF Signed
  <2>6. Abs(Signed(REM(a, b))) < Abs(Signed(b))
    BY <2>2, <2>5 DEF Abs
  <2>7. QED
    BY <2>2, <2>4, <2>6
<1>4. CASE b # 0 /\ ~ Overflows(a, b)
  <2> DEFINE s == Signed(a)
             t == Signed(b)
             q == Quotient(s, t)
             r == Remainder(s, t)
  <2>1. s \in Int /\ t \in Int /\ -Half <= t /\ t < Half
    BY SignedForm
  <2>2. PICK i \in {0, 1} : s = a - WordMod * i
    BY SignedForm
  <2>3. PICK k \in {0, 1} : t = b - WordMod * k
    BY SignedForm
  <2>4. t # 0
    BY <1>1, <1>4 DEF Signed
  <2>5. DIV(a, b) = Unsigned(q) /\ REM(a, b) = Unsigned(r)
    BY <1>4 DEF DIV, REM
  <2> HIDE DEF s, t
  <2>6. /\ q \in Int /\ r \in Int /\ s = t * q + r
        /\ Abs(r) < Abs(t) /\ (r # 0 => (r < 0) = (s < 0))
    BY <2>1, <2>4, Truncated
  <2> HIDE DEF q, r
  <2>7. PICK g \in Int : Unsigned(q) = q + WordMod * g
    BY <2>6, UnsignedForm
  <2>8. PICK h \in Int : Unsigned(r) = r + WordMod * h
    BY <2>6, UnsignedForm
  <2>9. Unsigned(r) \in Int /\ (r = 0 => Unsigned(r) = 0)
    BY <1>1, <2>6, UnsignedForm DEF Word
  <2>10. Unsigned(DIV(a, b) * b + REM(a, b)) = a
    <3> DEFINE c == q * k + g * t + WordMod * g * k + h - i
    <3>1. i \in Int /\ k \in Int /\ c \in Int
      BY <1>1, <2>1, <2>6
    <3>2. b = t + WordMod * k
      BY <1>1, <2>1, <2>3, <3>1
    <3>3. (q + WordMod * g) * (t + WordMod * k) + (r + WordMod * h) = (t * q + r) + WordMod * (c + i)
      BY <1>1, <2>1, <2>6, <3>1
    <3>4. (t * q + r) + WordMod * (c + i) = a + WordMod * c
      BY <1>1, <2>2, <2>6, <3>1
    <3>5. DIV(a, b) * b + REM(a, b) = a + WordMod * c
      BY <2>5, <2>7, <2>8, <3>2, <3>3, <3>4
    <3> HIDE DEF c
    <3>6. Unsigned(a + WordMod * c) = Unsigned(a)
      <4>1. a \in Int
        BY <1>1
      <4>2. QED
        BY <3>1, <4>1, SameWord
    <3>7. QED
      BY <1>1, <3>5, <3>6, Zenon
  <2>11. Signed(Unsigned(r)) = r
    <3>1. -Half <= r /\ r < Half
      BY <1>1, <2>1, <2>6 DEF Abs
    <3>2. QED
      BY <2>6, <3>1, UnsignedForm
  <2>12. QED
    BY <2>5, <2>6, <2>9, <2>10, <2>11 DEF s, t
<1>5. QED
  BY <1>2, <1>3, <1>4

-----------------------------------------------------------------------------
\* The results are those of the instructions that have run.
IInv ==
    /\ x \in Word /\ y \in Word
    /\ \/ rd = <<>>
       \/ rd = [op \in Products |-> Value(op)]
       \/ rd = [op \in Ops |-> Value(op)]

\* Every behaviour keeps it.
LEMMA Invariant == Spec => []IInv
<1>1. Init => IInv
  BY DEF Init, IInv
<1>2. IInv /\ [Next]_vars => IInv'
  <2> SUFFICES ASSUME IInv, [Next]_vars PROVE IInv'
    OBVIOUS
  <2>1. x' = x /\ y' = y
    BY DEF Next, Multiply, Divide, vars
  <2>2. \A op : Value(op)' = Value(op)
    BY <2>1 DEF Value
  <2>3. CASE Multiply
    BY <2>1, <2>2, <2>3 DEF Multiply, IInv
  <2>4. CASE Divide
    BY <2>1, <2>2, <2>4 DEF Divide, IInv
  <2>5. CASE UNCHANGED vars
    BY <2>1, <2>2, <2>5 DEF vars, IInv
  <2>6. QED
    BY <2>3, <2>4, <2>5 DEF Next
<1>3. QED
  BY <1>1, <1>2, PTL DEF Spec

\* MUL, MULH, MULHSU and MULHU lose nothing, on words of every width and in both engines:
\* high and low word are the exact product in all three readings of the operands.
THEOREM ProductsAreExact == Spec => []ProductExact
<1>1. IInv => ProductExact
  <2> SUFFICES ASSUME IInv, DOMAIN rd = Products
               PROVE  /\ rd["MULHU"] * WordMod + rd["MUL"] = x * y
                      /\ Signed(rd["MULH"]) * WordMod + rd["MUL"] = Signed(x) * Signed(y)
                      /\ Signed(rd["MULHSU"]) * WordMod + rd["MUL"] = Signed(x) * y
    BY DEF ProductExact
  <2>1. "DIV" \in Ops /\ "DIV" \notin Products /\ "MUL" \in Products
    BY DEF Ops, Products
  <2>2. rd = [op \in Products |-> Value(op)]
    BY <2>1 DEF IInv
  <2>3. /\ rd["MUL"] = MUL(x, y) /\ rd["MULHU"] = MULHU(x, y)
        /\ rd["MULH"] = MULH(x, y) /\ rd["MULHSU"] = MULHSU(x, y)
    BY <2>2 DEF Value, Products
  <2>4. QED
    BY <2>3, UnsignedProduct, SignedProduct, MixedProduct DEF IInv
<1>2. QED
  BY <1>1, Invariant, PTL

\* The interpreters divide as the specification of RV32M asks, on words of every width:
\* dividends, divisors, zero and the one overflow.  (In translated code the overflowing
\* REM is wrong, which the run ArithmeticTranslated shows.)
THEOREM DivisionsAreExact == Engine = "interpreter" => (Spec => []DivisionExact)
<1>1. ASSUME Engine = "interpreter" PROVE Spec => []DivisionExact
  <2>1. IInv => DivisionExact
    <3> SUFFICES ASSUME IInv, DOMAIN rd = Ops
                 PROVE  /\ Unsigned(rd["DIV"] * y + rd["REM"]) = x
                        /\ Unsigned(rd["DIVU"] * y + rd["REMU"]) = x
                        /\ y # 0 => Abs(Signed(rd["REM"])) < Abs(Signed(y)) /\ rd["REMU"] < y
                        /\ rd["REM"] # 0 => (Signed(rd["REM"]) < 0) = (Signed(x) < 0)
      BY DEF DivisionExact
    <3>1. "DIV" \in Ops /\ "DIV" \notin Products
      BY DEF Ops, Products
    <3>2. rd = [op \in Ops |-> Value(op)]
      BY <3>1 DEF IInv
    <3>3. /\ rd["DIV"] = DIV(x, y) /\ rd["DIVU"] = DIVU(x, y)
          /\ rd["REM"] = REM(x, y) /\ rd["REMU"] = REMU(x, y)
      BY <3>2 DEF Value, Ops
    <3>4. QED
      BY <1>1, <3>3, UnsignedDivision, SignedDivision DEF IInv
  <2>2. QED
    BY <2>1, Invariant, PTL
<1>2. QED
  BY <1>1

=============================================================================
