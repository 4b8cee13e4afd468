------------------------------ MODULE Divider -------------------------------
(***************************************************************************)
(* The data path of iterative_divider_32c.vhd, clocked beside the control  *)
(* of module Interlock: the operands' magnitudes and signs are latched at  *)
(* the start, one quotient bit is produced per CALCULATE cycle by shifting *)
(* and subtracting, and the signs are put back in FINISH.                  *)
(***************************************************************************)
EXTENDS Words

VARIABLES divState, count, corner,   \* control, clocked by Interlock
          divider                    \* the data registers, a record

Corner(isSigned, op1, op2) ==
    op2 = 0 \/ (isSigned /\ op1 = SignBit /\ op2 = AllOnes)

Reset == divider = [q |-> 0, r |-> 0, d |-> 0, signQ |-> FALSE, signR |-> FALSE,
                    byZero |-> FALSE, quotient |-> 0, remainder |-> 0]

Abs(isSigned, w) == IF isSigned /\ Negative(w) THEN Neg(w) ELSE w

\* Mutant: the sign of the divisor does not count.
LatchDividendSign(isSigned, op1, op2) ==
    divider' = [divider EXCEPT
        !.q = Abs(isSigned, op1), !.r = 0, !.d = Abs(isSigned, op2),
        !.signQ = isSigned /\ Negative(op1),
        !.signR = isSigned /\ Negative(op1),
        !.byZero = op2 = 0]

Latch(isSigned, op1, op2) ==
    divider' = [divider EXCEPT
        !.q = Abs(isSigned, op1), !.r = 0, !.d = Abs(isSigned, op2),
        !.signQ = isSigned /\ Negative(op1) # Negative(op2),
        !.signR = isSigned /\ Negative(op1),
        !.byZero = op2 = 0]

\* The dividend of a division by zero is read again here, a cycle after the
\* start.
SetCorner(op1) ==
    divider' = IF ~corner THEN divider
               ELSE IF divider.byZero
                    THEN [divider EXCEPT !.quotient = AllOnes, !.remainder = op1]
                    ELSE [divider EXCEPT !.quotient = SignBit, !.remainder = 0]

\* Mutant: the divisor is not subtracted from a remainder equal to it.
ShiftSubtractStrictly ==
    LET top     == IF Negative(divider.q) THEN 1 ELSE 0
        shifted == Wrap(2 * divider.r + top)
        fits    == shifted > divider.d
    IN  divider' = [divider EXCEPT
            !.r = IF fits THEN shifted - divider.d ELSE shifted,
            !.q = Wrap(2 * divider.q + (IF fits THEN 1 ELSE 0))]

ShiftSubtract ==
    LET top     == IF Negative(divider.q) THEN 1 ELSE 0
        shifted == Wrap(2 * divider.r + top)
        fits    == shifted >= divider.d
    IN  divider' = [divider EXCEPT
            !.r = IF fits THEN shifted - divider.d ELSE shifted,
            !.q = Wrap(2 * divider.q + (IF fits THEN 1 ELSE 0))]

\* Mutant: the remainder takes the sign of the quotient.
PutOneSign ==
    divider' = IF corner THEN divider
               ELSE [divider EXCEPT
                        !.quotient  = IF divider.signQ THEN Neg(divider.q) ELSE divider.q,
                        !.remainder = IF divider.signQ THEN Neg(divider.r) ELSE divider.r]

PutSigns ==
    divider' = IF corner THEN divider
               ELSE [divider EXCEPT
                        !.quotient  = IF divider.signQ THEN Neg(divider.q) ELSE divider.q,
                        !.remainder = IF divider.signR THEN Neg(divider.r) ELSE divider.r]

Clock(start, isSigned, op1, op2) ==
    \/ divState = "IDLE" /\ ~start /\ UNCHANGED divider
    \/ divState = "IDLE" /\ start /\ Latch(isSigned, op1, op2)
    \/ divState = "PREPARE" /\ SetCorner(op1)
    \/ divState = "CALCULATE" /\ ShiftSubtract
    \/ divState = "FINISH" /\ PutSigns

=============================================================================
