---------------------------- MODULE DividerUnit -----------------------------
(***************************************************************************)
(* The divider as EX uses it: control (Interlock) and data path (Divider)  *)
(* clocked together, with the divisions that EX holds while they last.     *)
(* The operands a, b are presented in the cycle of the start.  After it    *)
(* kept says whether EX still presents them: an operand forwarded from WB  *)
(* is gone one cycle later, and the value read in ID is presented instead. *)
(***************************************************************************)
EXTENDS Words

VARIABLES divState, count, busy, done, corner, divider,
          op, a, b, kept   \* the division in EX

IL == INSTANCE Interlock WITH stateMEM <- "IDLE"
DV == INSTANCE Divider

vars == <<divState, count, busy, done, corner, divider, op, a, b, kept>>

DivOps   == {"div", "divu", "rem", "remu"}
Extremes == {0, 1, SignBit - 1, SignBit, AllOnes}

IsSigned == op \in {"div", "rem"}

Init ==
    /\ divState = "IDLE" /\ count = 0
    /\ busy = FALSE /\ done = FALSE /\ corner = FALSE
    /\ DV!Reset
    /\ op \in DivOps /\ a \in Word /\ b \in Word /\ kept \in BOOLEAN

\* One edge with op1 and op2 at the inputs of the divider.
Clock(op1, op2) ==
    /\ IL!ClockDivider(IL!DividerStart(TRUE), DV!Corner(IsSigned, op1, op2))
    /\ DV!Clock(IL!DividerStart(TRUE), IsSigned, op1, op2)

\* EX keeps the division until it is done.
Work ==
    /\ ~done
    /\ \E op1, op2 \in Extremes \cup {a, b} :
          /\ divState = "IDLE" \/ kept => op1 = a /\ op2 = b
          /\ Clock(op1, op2)
    /\ UNCHANGED <<op, a, b, kept>>

\* The next instruction in EX is another division.
Take ==
    /\ done
    /\ Clock(a, b)
    /\ op' \in DivOps /\ a' \in Extremes /\ b' \in Extremes /\ kept' \in BOOLEAN

Next == Work \/ Take

Spec == Init /\ [][Next]_vars

-----------------------------------------------------------------------------
(***************************************************************************)
(* When the divider signals done its quotient is the one DIV or DIVU is    *)
(* defined to give, for all operands, dividing by zero and the overflow    *)
(* included, and whatever its inputs were after the start                  *)
(* (iterative_divider_32c.vhd).                                            *)
(***************************************************************************)
QuotientIsRight ==
    done => /\ op = "div"  => divider.quotient = DIV(a, b)
            /\ op = "divu" => divider.quotient = DIVU(a, b)

(***************************************************************************)
(* And the remainder the one of REM or REMU, where the divisor is not zero *)
(* or the dividend stays at the input.                                     *)
(***************************************************************************)
RemainderIsRight ==
    done /\ (kept \/ b # 0) => /\ op = "rem"  => divider.remainder = REM(a, b)
                               /\ op = "remu" => divider.remainder = REMU(a, b)

=============================================================================
