----------------------------- MODULE Arithmetic -----------------------------
(***************************************************************************)
(* The RV32M instructions as C++ computes them: by the interpreters and by *)
(* the code InstructionEmitter writes.  A word has 2 * Half values; in the *)
(* code Half is 2^31.                                                      *)
(***************************************************************************)
EXTENDS Integers

CONSTANTS
    Half,     \* the first word that is negative as int32_t (2^31)
    Engine    \* who computes: "interpreter" or "translated"

WordMod == 2 * Half
Word == 0 .. WordMod - 1

ASSUME HalfIsPositive == Half \in Nat \ {0}
ASSUME EngineIsKnown == Engine \in {"interpreter", "translated"}

\* static_cast<int32_t> and the conversion back to uint32_t.
Signed(x) == IF x >= Half THEN x - WordMod ELSE x
Unsigned(n) == n % WordMod

Abs(n) == IF n < 0 THEN -n ELSE n

\* C++ division of signed integers truncates towards zero; % has the sign of a.
Quotient(a, b) ==
    IF (a < 0) = (b < 0) THEN Abs(a) \div Abs(b) ELSE -(Abs(a) \div Abs(b))
Remainder(a, b) == a - b * Quotient(a, b)

\* The one case whose quotient is no int32_t.
Overflows(x, y) == x = Half /\ y = WordMod - 1

MUL(x, y) == Unsigned(x * y)

\* int64_t times int64_t, >> 32
MULH(x, y) == Unsigned((Signed(x) * Signed(y)) \div WordMod)

\* Mutant: the first operand is not sign-extended.
MULHSUUnsigned(x, y) == (x * y) \div WordMod

\* int64_t times uint64_t: the first operand is converted to uint64_t.
MULHSU(x, y) ==
    LET wide == WordMod * WordMod
    IN  Unsigned((((Signed(x) % wide) * y) % wide) \div WordMod)

MULHU(x, y) == (x * y) \div WordMod

DIV(x, y) ==
    IF y = 0 THEN Unsigned(-1)
    ELSE IF Overflows(x, y) THEN Half
    ELSE Unsigned(Quotient(Signed(x), Signed(y)))

DIVU(x, y) == IF y = 0 THEN WordMod - 1 ELSE x \div y

\* The value of an overflowing REM.
RemOverflow == IF Engine = "interpreter" THEN 0 ELSE Half

\* Mutant: the remainder of a division by zero is zero.
REMByZero(x, y) ==
    IF y = 0 THEN 0
    ELSE IF Overflows(x, y) THEN RemOverflow
    ELSE Unsigned(Remainder(Signed(x), Signed(y)))

REM(x, y) ==
    IF y = 0 THEN x
    ELSE IF Overflows(x, y) THEN RemOverflow
    ELSE Unsigned(Remainder(Signed(x), Signed(y)))

REMU(x, y) == IF y = 0 THEN x ELSE x % y

-----------------------------------------------------------------------------
VARIABLES
    x, y,   \* the source registers
    rd      \* the result of each instruction run so far

vars == <<x, y, rd>>

Ops == {"MUL", "MULH", "MULHSU", "MULHU", "DIV", "DIVU", "REM", "REMU"}
Products == {"MUL", "MULH", "MULHSU", "MULHU"}

Value(op) ==
    CASE op = "MUL"    -> MUL(x, y)
      [] op = "MULH"   -> MULH(x, y)
      [] op = "MULHSU" -> MULHSU(x, y)
      [] op = "MULHU"  -> MULHU(x, y)
      [] op = "DIV"    -> DIV(x, y)
      [] op = "DIVU"   -> DIVU(x, y)
      [] op = "REM"    -> REM(x, y)
      [] op = "REMU"   -> REMU(x, y)

Init ==
    /\ x \in Word /\ y \in Word
    /\ rd = <<>>

\* A program runs the four multiplications, then the divisions.
Multiply ==
    /\ rd = <<>>
    /\ rd' = [op \in Products |-> Value(op)]
    /\ UNCHANGED <<x, y>>

Divide ==
    /\ DOMAIN rd = Products
    /\ rd' = [op \in Ops |-> Value(op)]
    /\ UNCHANGED <<x, y>>

Next == Multiply \/ Divide

Spec == Init /\ [][Next]_vars
-----------------------------------------------------------------------------
\* High and low word make up the exact product, for the three readings of the
\* operands: nothing is lost in the 64-bit arithmetic of the code.
ProductExact ==
    DOMAIN rd = Products =>
        /\ rd["MULHU"] * WordMod + rd["MUL"] = x * y
        /\ Signed(rd["MULH"]) * WordMod + rd["MUL"] = Signed(x) * Signed(y)
        /\ Signed(rd["MULHSU"]) * WordMod + rd["MUL"] = Signed(x) * y

\* Quotient and remainder fit together, modulo the word size, for every dividend
\* and divisor (zero and the overflowing one included), and the remainder is
\* smaller than the divisor and has the sign of the dividend.
DivisionExact ==
    DOMAIN rd = Ops =>
        /\ Unsigned(rd["DIV"] * y + rd["REM"]) = x
        /\ Unsigned(rd["DIVU"] * y + rd["REMU"]) = x
        /\ y # 0 => Abs(Signed(rd["REM"])) < Abs(Signed(y)) /\ rd["REMU"] < y
        /\ rd["REM"] # 0 => (Signed(rd["REM"]) < 0) = (Signed(x) < 0)
=============================================================================
