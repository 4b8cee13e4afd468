------------------------------ MODULE FrontEnd ------------------------------
(***************************************************************************)
(* The instruction-fetch front end of the RV32IM core: the program counter *)
(* (PC.vhd), the instruction BRAM with its one-cycle read latency, the     *)
(* BRD register that delays the PC by that cycle (BR.vhd), the backup      *)
(* instruction register with its selector (instr_control.vhd, Mux10), the  *)
(* NOP mask after a stalled redirect (Mux11), the post-jump flush pulse    *)
(* (rst_after_jump.vhd) and the IF/ID register (if_id.vhd).                *)
(*                                                                         *)
(* Clock(en, fp, target) is one rising edge of clk.  Its inputs are what   *)
(* the rest of the core drives combinationally in that cycle:              *)
(*    en      BRDIFID_enable_i = '1'                                       *)
(*    fp      falsePredict = '1', i.e. no redirect (the signal is          *)
(*            active low)                                                  *)
(*    target  the redirect address selected by PCSrc                       *)
(* Addresses count instruction words and wrap after LastAddr.              *)
(***************************************************************************)
EXTENDS Naturals

CONSTANTS LastAddr,  \* the last instruction address
          ZeroWord,  \* the all-zero instruction word a flush writes
          Nop        \* x"00000013", the word Mux11 inserts

VARIABLES imem,       \* contents of the instruction memory, never written
          pc,         \* PCOut
          imemOut,    \* output of the instruction BRAM
          brd,        \* PC_BRD_IfId / PC4_BRD_IfId
          sel,        \* instr_control.state
          selLast,    \* instr_control.last_input
          prevInstr,  \* prev_instruction_IfId_IN
          raj,        \* rst_after_jump.state
          rajLast,    \* rst_after_jump.last_input
          fpPrev, fpPrevPrev, enPrev,   \* the registers of process prevReg
          ifid        \* the IF/ID register

feVars == <<imem, pc, imemOut, brd, sel, selLast, prevInstr, raj, rajLast,
            fpPrev, fpPrevPrev, enPrev, ifid>>

Addr == 0..LastAddr

Plus4(a) == IF a = LastAddr THEN 0 ELSE a + 1

\* A register whose PC and PC+4 are both zero holds no instruction address.
IsBubble(r) == r.pc = 0 /\ r.pc4 = 0

EmptyBrd  == [pc |-> 0, pc4 |-> 0]
EmptyIfId == [instr |-> ZeroWord, pc |-> 0, pc4 |-> 0]

-----------------------------------------------------------------------------
\* The registers once reset has been held low for a few clock edges: the
\* BRAM has read address 0 meanwhile.
Reset ==
    /\ pc = 0
    /\ imemOut = imem[0]
    /\ brd = EmptyBrd
    /\ sel = "IDLE" /\ selLast = FALSE
    /\ prevInstr = ZeroWord
    /\ raj = "IDLE" /\ rajLast = FALSE
    /\ fpPrev = TRUE /\ fpPrevPrev = TRUE /\ enPrev = TRUE
    /\ ifid = EmptyIfId

ClockPC(en, fp, target) ==
    pc' = IF ~fp THEN target ELSE IF en THEN Plus4(pc) ELSE pc

\* The BRAM has no enable: it reads the address of the PC on every edge.
ClockImem == imemOut' = imem[pc] /\ imem' = imem

\* Mutant: a redirect does not flush the delayed PC.
ClockBrdUnflushed(en, fp) ==
    brd' = IF ~en THEN brd ELSE [pc |-> pc, pc4 |-> Plus4(pc)]

ClockBrd(en, fp) ==
    brd' = IF ~en THEN brd
           ELSE IF ~fp THEN EmptyBrd ELSE [pc |-> pc, pc4 |-> Plus4(pc)]

ClockInstrControl(en) ==
    /\ selLast' = en
    /\ sel' = IF sel = "IDLE"
              THEN IF ~en /\ selLast THEN "PULSE_LOW" ELSE "IDLE"
              ELSE IF en /\ ~selLast THEN "IDLE" ELSE "PULSE_LOW"

\* Mutant: the backup register follows the BRAM during a stall.
ClockBackupAlways(fp) == prevInstr' = IF ~fp THEN ZeroWord ELSE imemOut

ClockBackup(fp) ==
    prevInstr' = IF ~fp THEN ZeroWord
                 ELSE IF sel = "IDLE" THEN imemOut ELSE prevInstr

ClockRstAfterJump(fp) ==
    /\ rajLast' = fp
    /\ raj' = IF raj = "IDLE" /\ ~fp /\ rajLast THEN "PULSE_LOW" ELSE "IDLE"

ClockPrevReg(en, fp) ==
    fpPrev' = fp /\ fpPrevPrev' = fpPrev /\ enPrev' = en

Mux10 == IF sel = "IDLE" THEN imemOut ELSE prevInstr

\* Mutant: no mask.
Mux11Open(fp) == Mux10

\* The mask for the duplicate that a redirect during a MEM stall leaves.
Mux11(fp) ==
    IF ~fpPrevPrev /\ ~fpPrev /\ fp /\ enPrev /\ IsBubble(brd) THEN Nop ELSE Mux10

ClockIfId(en, fp) ==
    ifid' = IF ~en THEN ifid
            ELSE IF ~fp \/ raj = "PULSE_LOW" THEN EmptyIfId
            ELSE [instr |-> Mux11(fp), pc |-> brd.pc, pc4 |-> brd.pc4]

Clock(en, fp, target) ==
    /\ ClockPC(en, fp, target)
    /\ ClockImem
    /\ ClockBrd(en, fp)
    /\ ClockInstrControl(en)
    /\ ClockBackup(fp)
    /\ ClockRstAfterJump(fp)
    /\ ClockPrevReg(en, fp)
    /\ ClockIfId(en, fp)

=============================================================================
