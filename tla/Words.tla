------------------------------- MODULE Words --------------------------------
(***************************************************************************)
(* Two's complement words of Width bits and the arithmetic the RISC-V      *)
(* instruction set asks for on them: the reference for the core's ALU and  *)
(* divider.  The core has Width = 32.                                      *)
(***************************************************************************)
EXTENDS Integers

CONSTANT Width

\* The law of powers is stated because no prover here knows it.
ASSUME WordAssumption ==
    /\ Width \in Nat \ {0}
    /\ \A n \in 0..(Width - 1) : 2^n \in Nat \ {0} /\ 2^(n + 1) = 2 * 2^n

Word     == 0..(2^Width - 1)
AllOnes  == 2^Width - 1
SignBit  == 2^(Width - 1)

Wrap(x)     == x % 2^Width
Negative(w) == w >= SignBit
Neg(w)      == Wrap(2^Width - w)
Signed(w)   == IF Negative(w) THEN w - 2^Width ELSE w

Magnitude(x) == IF x < 0 THEN -x ELSE x

\* Division that truncates towards zero, and its remainder, on integers.
Quotient(x, y) ==
    LET q == Magnitude(x) \div Magnitude(y) IN IF (x < 0) = (y < 0) THEN q ELSE -q
Remainder(x, y) == x - y * Quotient(x, y)

\* DIV and REM never trap: dividing by zero gives -1 and the dividend, and
\* the overflowing division wraps.
DIV(a, b)  == IF b = 0 THEN AllOnes ELSE Wrap(Quotient(Signed(a), Signed(b)))
REM(a, b)  == IF b = 0 THEN a ELSE Wrap(Remainder(Signed(a), Signed(b)))
DIVU(a, b) == IF b = 0 THEN AllOnes ELSE a \div b
REMU(a, b) == IF b = 0 THEN a ELSE a % b

SLT(a, b)  == IF Signed(a) < Signed(b) THEN 1 ELSE 0
SLTU(a, b) == IF a < b THEN 1 ELSE 0

=============================================================================
