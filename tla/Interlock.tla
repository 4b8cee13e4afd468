----------------------------- MODULE Interlock ------------------------------
(***************************************************************************)
(* What stalls the core: Cond_delay, which holds a load in MEM for the     *)
(* extra cycle of the data BRAM, the control of the iterative divider      *)
(* (states, counter and handshake of iterative_divider_32c.vhd) with the   *)
(* start / busy equations around it in ALU_RV32.vhd, and the enables that  *)
(* DataPath.vhd derives from them.                                         *)
(*                                                                         *)
(* Clock(memRead, divOp, isCorner) is one rising edge of clk: memRead says *)
(* that a load is in MEM, divOp that ALUOp in EX is one of DIV, DIVU, REM, *)
(* REMU, isCorner that its operands divide by zero or overflow.            *)
(***************************************************************************)
EXTENDS Naturals

CONSTANT Width   \* bits of a register: the divider's iterations (32)

VARIABLES stateMEM,   \* Cond_delay.stateMEM
          divState,   \* iterative_divider_32c.state
          count,      \* iterative_divider_32c.count
          busy, done, \* iterative_divider_32c.busy and .done
          corner      \* div_by_zero or overflow, latched at the start

ilVars == <<stateMEM, divState, count, busy, done, corner>>

Reset ==
    /\ stateMEM = "IDLE"
    /\ divState = "IDLE"
    /\ count = 0
    /\ busy = FALSE /\ done = FALSE
    /\ corner = FALSE

\* stall_CD
StallCD(memRead) == stateMEM = "IDLE" /\ memRead

\* divider_start, and the divider_busy that stalls the pipeline
DividerStart(divOp) == divOp /\ ~busy /\ ~done
\* Mutant: the stall ignores the end of the division.
DivBusyForGood(divOp) == divOp
DivBusy(divOp)      == divOp /\ ~done

\* The enables of IF/ID and BRD, of ID/EX and EX/MEM, and of MEM/WB; noOp is
\* noOpSelector of the hazard detection unit.
BrdIfIdEnable(noOp, memRead, divOp) == ~noOp /\ ~DivBusy(divOp) /\ ~StallCD(memRead)
IdExEnable(memRead, divOp)          == ~DivBusy(divOp) /\ ~StallCD(memRead)
MemWbEnable(memRead)                == ~StallCD(memRead)

-----------------------------------------------------------------------------
ClockCondDelay(memRead) ==
    stateMEM' = IF stateMEM = "IDLE" /\ memRead THEN "BUSY" ELSE "IDLE"

Idle(start) ==
    /\ divState = "IDLE" /\ ~start
    /\ done' = FALSE
    /\ UNCHANGED <<divState, count, busy, corner>>

\* Mutants: one iteration too many; no PREPARE cycle.
AcceptOneMore(start, isCorner) ==
    /\ divState = "IDLE" /\ start
    /\ busy' = TRUE /\ done' = FALSE
    /\ corner' = isCorner
    /\ count' = Width + 1
    /\ divState' = "PREPARE"

AcceptUnprepared(start, isCorner) ==
    /\ divState = "IDLE" /\ start
    /\ busy' = TRUE /\ done' = FALSE
    /\ corner' = isCorner
    /\ count' = Width
    /\ divState' = IF isCorner THEN "FINISH" ELSE "CALCULATE"

Accept(start, isCorner) ==
    /\ divState = "IDLE" /\ start
    /\ busy' = TRUE /\ done' = FALSE
    /\ corner' = isCorner
    /\ count' = Width
    /\ divState' = "PREPARE"

Prepare ==
    /\ divState = "PREPARE"
    /\ divState' = IF corner THEN "FINISH" ELSE "CALCULATE"
    /\ done' = FALSE
    /\ UNCHANGED <<count, busy, corner>>

Calculate ==
    /\ divState = "CALCULATE"
    /\ IF count = 1 THEN divState' = "FINISH" /\ count' = count
                    ELSE divState' = "CALCULATE" /\ count' = count - 1
    /\ done' = FALSE
    /\ UNCHANGED <<busy, corner>>

\* Mutant: the division ends without a pulse.
FinishSilently ==
    /\ divState = "FINISH"
    /\ busy' = FALSE /\ done' = FALSE
    /\ divState' = "IDLE"
    /\ UNCHANGED <<count, corner>>

Finish ==
    /\ divState = "FINISH"
    /\ busy' = FALSE /\ done' = TRUE
    /\ divState' = "IDLE"
    /\ UNCHANGED <<count, corner>>

ClockDivider(start, isCorner) ==
    \/ Idle(start)
    \/ Accept(start, isCorner)
    \/ Prepare
    \/ Calculate
    \/ Finish

Clock(memRead, divOp, isCorner) ==
    /\ ClockCondDelay(memRead)
    /\ ClockDivider(DividerStart(divOp), isCorner)

=============================================================================
