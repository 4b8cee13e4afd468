------------------------------ MODULE Pipeline ------------------------------
(***************************************************************************)
(* The core with its data path (DataPath.vhd and the units it connects):   *)
(* decoder, register file, forwarding, hazard detection, ALU, divider,     *)
(* branch control, data BRAM and the pipeline registers, clocked together  *)
(* with the front end and the stall logic.  One step is one clock edge.    *)
(*                                                                         *)
(* The core is deterministic: a behaviour is one program run from reset.   *)
(* Words have Width bits, addresses count words.  An instruction carries   *)
(* the register fields that the hazard and forwarding units read, also     *)
(* where they are part of an immediate.                                    *)
(***************************************************************************)
EXTENDS Words

CONSTANTS LastAddr, Reg, MemSize,
          Programs,   \* the contents of the instruction memory to run
          InitRegs,   \* the register file after reset: it is not cleared
          InitMem     \* the contents of the data memory after reset

ZeroWord == [op |-> "zero", rd |-> 0, rs1 |-> 0, rs2 |-> 0, imm |-> 0]
Nop      == [op |-> "addi", rd |-> 0, rs1 |-> 0, rs2 |-> 0, imm |-> 0]

VARIABLES imem, pc, imemOut, brd, sel, selLast, prevInstr, raj, rajLast,
          fpPrev, fpPrevPrev, enPrev, ifid,
          stateMEM, divState, count, busy, done, corner,
          divider,
          regs,      \* Reg_File.registers
          idex,      \* the ID/EX register
          exmem,     \* the EX/MEM register
          memwb,     \* the MEM/WB register
          dmem,      \* contents of the data memory
          dmemOut,   \* output of the data BRAM
          pending    \* history: EX (MEM) holds an instruction of the program
                     \* that has not taken effect yet

FE == INSTANCE FrontEnd
IL == INSTANCE Interlock
DV == INSTANCE Divider

vars == <<imem, pc, imemOut, brd, sel, selLast, prevInstr, raj, rajLast, fpPrev,
          fpPrevPrev, enPrev, ifid, stateMEM, divState, count, busy, done,
          corner, divider, regs, idex, exmem, memwb, dmem, dmemOut, pending>>

-----------------------------------------------------------------------------
(* Control.vhd: the control signals of each instruction.                   *)

NoControl == [branch |-> "none", memRead |-> FALSE, toReg |-> "alu", aluOp |-> "AND",
              memWrite |-> FALSE, aluSrc1 |-> "reg", aluSrc2 |-> "imm",
              writeReg |-> FALSE]

RTypeALU == [add |-> "ADD", sub |-> "SUB", slt |-> "SLT", mul |-> "MUL",
             div |-> "DIV", divu |-> "DIVU", rem |-> "REM", remu |-> "REMU"]
ITypeALU == [addi |-> "ADD", slti |-> "SLT"]
Branches == {"beq", "bne", "blt", "bge", "bltu", "bgeu"}

DecodeR(op) == [NoControl EXCEPT !.aluSrc2 = "reg", !.aluOp = RTypeALU[op], !.writeReg = TRUE]
DecodeI(op) == [NoControl EXCEPT !.aluOp = ITypeALU[op], !.writeReg = TRUE]
DecodeLoad  == [NoControl EXCEPT !.toReg = "mem", !.aluOp = "ADD", !.writeReg = TRUE,
                                 !.memRead = TRUE]
DecodeAUIPC == [NoControl EXCEPT !.aluSrc1 = "pc", !.aluOp = "ADD", !.writeReg = TRUE]
DecodeLUI   == [NoControl EXCEPT !.aluOp = "FWD2", !.writeReg = TRUE]
DecodeStore == [NoControl EXCEPT !.memWrite = TRUE, !.aluOp = "ADD"]
DecodeBranch(op) == [NoControl EXCEPT !.branch = op, !.aluSrc2 = "reg", !.aluOp = "SUB"]
DecodeJALR  == [NoControl EXCEPT !.branch = "jalr", !.toReg = "pc", !.aluOp = "ADD",
                                 !.writeReg = TRUE]
DecodeJAL   == [NoControl EXCEPT !.branch = "jal", !.toReg = "pc4", !.aluSrc2 = "reg",
                                 !.writeReg = TRUE]

Control(op) ==
    CASE op \in DOMAIN RTypeALU -> DecodeR(op)
      [] op \in DOMAIN ITypeALU -> DecodeI(op)
      [] op = "lw"              -> DecodeLoad
      [] op = "auipc"           -> DecodeAUIPC
      [] op = "lui"             -> DecodeLUI
      [] op = "sw"              -> DecodeStore
      [] op \in Branches        -> DecodeBranch(op)
      [] op = "jalr"            -> DecodeJALR
      [] op = "jal"             -> DecodeJAL
      [] OTHER                  -> NoControl

Ops == DOMAIN RTypeALU \cup DOMAIN ITypeALU \cup Branches
           \cup {"lw", "sw", "lui", "auipc", "jal", "jalr"}

\* What an instruction word can be.  The immediate of a branch or JAL is a
\* signed distance, any other a word.  The field rs2 of an addi is part of
\* the immediate: only Nop adds zero to x0 for x0.
Instruction ==
    {i \in [op : Ops, rd : Reg, rs1 : Reg, rs2 : Reg, imm : Int] :
         /\ i.op \in Branches \cup {"jal"} \/ i.imm \in Word
         /\ i.op = "addi" /\ i.rd = 0 /\ i.rs1 = 0 /\ i.imm = 0 => i = Nop}

ASSUME CoreAssumption ==
    /\ LastAddr \in Nat \ {0} /\ LastAddr \in Word
    /\ Width % 2 = 0   \* see PipeControl
    /\ MemSize \in Nat \ {0} /\ 0 \in Reg
    /\ Programs \subseteq [0..LastAddr -> Instruction]
    /\ InitRegs \subseteq [Reg -> Word] /\ \A r \in InitRegs : r[0] = 0
    /\ InitMem \subseteq [0..(MemSize - 1) -> Word]

-----------------------------------------------------------------------------
(* The combinational signals of one cycle.                                 *)

MemRead == exmem.memRead

\* Mux_ToRegFile: what WB writes, also the forwarded value.
DataForReg ==
    CASE memwb.toReg = "alu" -> memwb.result
      [] memwb.toReg = "mem" -> memwb.dataOut
      [] memwb.toReg = "pc"  -> memwb.pc
      [] memwb.toReg = "pc4" -> memwb.pc4

\* Mutant: x0 can be written.
RegsWithX0Written == IF memwb.writeReg THEN [regs EXCEPT ![memwb.rd] = DataForReg] ELSE regs

\* The register file, written on the falling edge: ID reads it after WB.
RegsAfterWB ==
    IF memwb.writeReg /\ memwb.rd # 0 THEN [regs EXCEPT ![memwb.rd] = DataForReg]
    ELSE regs

ReadReg(r) == IF r = 0 THEN 0 ELSE RegsAfterWB[r]

\* Mutant: whatever WB writes is forwarded to a store in MEM.
ForwardAnyToMem == memwb.writeReg /\ exmem.memWrite

\* Forwarding_Unit.vhd
ForwardFromMem(rs) == exmem.writeReg /\ exmem.rd # 0 /\ exmem.rd = rs
ForwardFromWB(rs)  == memwb.writeReg /\ memwb.rd # 0 /\ memwb.rd = rs /\ ~ForwardFromMem(rs)
ForwardWBToMem     == memwb.writeReg /\ memwb.rd = exmem.rs2 /\ exmem.memWrite

\* Mux5 and Mux6, then Mux8 and Mux0: the operands of the ALU.
Forwarded(rs, data) ==
    IF ForwardFromMem(rs) THEN exmem.result
    ELSE IF ForwardFromWB(rs) THEN DataForReg ELSE data

Op1 == IF idex.aluSrc1 = "pc" THEN idex.pc ELSE Forwarded(idex.rs1, idex.data1)
Op2 == IF idex.aluSrc2 = "imm" THEN idex.imm ELSE Forwarded(idex.rs2, idex.data2)

\* Mux1 in EX and Mux7 in MEM: the data of a store.
StoreDataEX == IF ForwardFromWB(idex.rs2) THEN DataForReg ELSE idex.data2
DataToStore == IF ForwardWBToMem THEN DataForReg ELSE exmem.dataIn

Bit(w, i) == (w \div 2^i) % 2
And(a, b) ==
    LET low[n \in 0..Width] ==   \* of the n low bits
            IF n = 0 THEN 0 ELSE low[n - 1] + 2^(n - 1) * Bit(a, n - 1) * Bit(b, n - 1)
    IN  low[Width]

DivOp    == idex.aluOp \in {"DIV", "DIVU", "REM", "REMU"}
IsSigned == idex.aluOp \in {"DIV", "REM"}

\* ALU_RV32.vhd
ALUResult ==
    CASE idex.aluOp = "ADD"  -> Wrap(Op1 + Op2)
      [] idex.aluOp = "SUB"  -> Wrap(Op1 - Op2)
      [] idex.aluOp = "SLT"  -> SLT(Op1, Op2)
      [] idex.aluOp = "FWD2" -> Op2
      [] idex.aluOp = "MUL"  -> Wrap(Op1 * Op2)
      [] idex.aluOp \in {"DIV", "DIVU"} -> divider.quotient
      [] idex.aluOp \in {"REM", "REMU"} -> divider.remainder
      [] idex.aluOp = "AND"  -> And(Op1, Op2)

\* Branch_Control.vhd, from the flags of the subtraction: its borrow and the
\* sign and zero of its result.
BranchTaken ==
    CASE idex.branch = "beq"  -> ALUResult = 0
      [] idex.branch = "bne"  -> ALUResult # 0
      [] idex.branch = "blt"  -> Negative(ALUResult)
      [] idex.branch = "bge"  -> ~Negative(ALUResult)
      [] idex.branch = "bltu" -> Op1 < Op2
      [] idex.branch = "bgeu" -> Op1 >= Op2
      [] idex.branch \in {"jal", "jalr"} -> TRUE
      [] idex.branch = "none" -> FALSE

FalsePredict == ~BranchTaken

\* Mux3 for a redirect: PCSrc "10" for JALR, "01" otherwise.
Target == IF idex.branch = "jalr" THEN ALUResult % (LastAddr + 1) ELSE idex.newAddress

\* Hazard_Detection_Unit.vhd
NoOp ==
    LET i == ifid.instr
    IN  /\ idex.memRead /\ idex.rd # 0
        /\ idex.rd = i.rs1 \/ idex.rd = i.rs2
        /\ ~Control(i.op).memWrite

NewAddress == (ifid.pc + ifid.instr.imm) % (LastAddr + 1)
DmemAddress == exmem.result % MemSize

\* Mutant: the wait of a load does not hold IF/ID.
IfEnableInLoadStall == IL!BrdIfIdEnable(NoOp, FALSE, DivOp)

IfEnable == IL!BrdIfIdEnable(NoOp, MemRead, DivOp)
ExEnable == IL!IdExEnable(MemRead, DivOp)
WbEnable == IL!MemWbEnable(MemRead)

-----------------------------------------------------------------------------
(* The pipeline registers.                                                 *)

IdExOf(c, i, p, p4, addr, d1, d2) ==
    [branch |-> c.branch, memRead |-> c.memRead, toReg |-> c.toReg,
     aluOp |-> c.aluOp, memWrite |-> c.memWrite, aluSrc1 |-> c.aluSrc1,
     aluSrc2 |-> c.aluSrc2, writeReg |-> c.writeReg, pc |-> p, pc4 |-> p4,
     newAddress |-> addr, imm |-> Wrap(i.imm), data1 |-> d1, data2 |-> d2,
     rd |-> i.rd, rs1 |-> i.rs1, rs2 |-> i.rs2]

\* A flush clears every field; a no-op only the control signals (Mux4).
EmptyIdEx == IdExOf([NoControl EXCEPT !.aluSrc1 = "pc"], ZeroWord, 0, 0, 0, 0, 0)
EmptyExMem == [result |-> 0, dataIn |-> 0, pc |-> 0, pc4 |-> 0, rd |-> 0, rs2 |-> 0,
               memWrite |-> FALSE, memRead |-> FALSE, toReg |-> "alu", writeReg |-> FALSE]
EmptyMemWb == [dataOut |-> 0, result |-> 0, pc |-> 0, pc4 |-> 0, rd |-> 0,
               toReg |-> "alu", writeReg |-> FALSE]

\* Mutant: a redirect does not flush ID/EX.
ClockIdExUnflushed ==
    LET i == ifid.instr
        c == IF NoOp THEN [NoControl EXCEPT !.aluSrc1 = "pc"] ELSE Control(i.op)
    IN  idex' = IF ~ExEnable THEN idex
                ELSE IdExOf(c, i, ifid.pc, ifid.pc4, NewAddress, ReadReg(i.rs1), ReadReg(i.rs2))

ClockIdEx ==
    LET i == ifid.instr
        c == IF NoOp THEN [NoControl EXCEPT !.aluSrc1 = "pc"] ELSE Control(i.op)
    IN  idex' = IF ~ExEnable THEN idex
                ELSE IF ~FalsePredict THEN EmptyIdEx
                ELSE IdExOf(c, i, ifid.pc, ifid.pc4, NewAddress, ReadReg(i.rs1), ReadReg(i.rs2))

ClockExMem ==
    exmem' = IF ~ExEnable THEN exmem
             ELSE [result |-> ALUResult, dataIn |-> StoreDataEX, pc |-> idex.pc,
                   pc4 |-> idex.pc4, rd |-> idex.rd, rs2 |-> idex.rs2,
                   memWrite |-> idex.memWrite, memRead |-> idex.memRead,
                   toReg |-> idex.toReg, writeReg |-> idex.writeReg]

ClockMemWb ==
    memwb' = IF ~WbEnable THEN memwb
             ELSE [dataOut |-> dmemOut, result |-> exmem.result, pc |-> exmem.pc,
                   pc4 |-> exmem.pc4, rd |-> exmem.rd, toReg |-> exmem.toReg,
                   writeReg |-> exmem.writeReg]

\* The data BRAM reads its address on every edge and writes it when a store
\* is in MEM.
ClockDmem ==
    /\ dmemOut' = dmem[DmemAddress]
    /\ dmem' = IF exmem.memWrite THEN [dmem EXCEPT ![DmemAddress] = DataToStore] ELSE dmem

\* An instruction takes effect in MEM, on the first edge that MEM/WB takes it.
ClockPending ==
    pending' = [ex  |-> IF ~ExEnable THEN pending.ex
                        ELSE FalsePredict /\ ~NoOp /\ ~FE!IsBubble(ifid),
                mem |-> IF ExEnable THEN pending.ex ELSE pending.mem /\ ~WbEnable]

Init ==
    /\ imem \in Programs
    /\ regs \in InitRegs
    /\ dmem \in InitMem
    /\ FE!Reset /\ IL!Reset /\ DV!Reset
    /\ idex = EmptyIdEx /\ exmem = EmptyExMem /\ memwb = EmptyMemWb
    /\ dmemOut = dmem[0]
    /\ pending = [ex |-> FALSE, mem |-> FALSE]

\* One clock edge of the core.
Next ==
    /\ FE!Clock(IfEnable, FalsePredict, Target)
    /\ IL!Clock(MemRead, DivOp, DV!Corner(IsSigned, Op1, Op2))
    /\ DV!Clock(IL!DividerStart(DivOp), IsSigned, Op1, Op2)
    /\ regs' = RegsAfterWB
    /\ ClockIdEx
    /\ ClockExMem
    /\ ClockMemWb
    /\ ClockDmem
    /\ ClockPending

Spec     == Init /\ [][Next]_vars
FairSpec == Spec /\ WF_vars(Next)

-----------------------------------------------------------------------------
(* The abstract machine and the control model that the core implements.    *)

\* The address of the instruction the front end delivers next.
NextFetched == IF ~FE!IsBubble(ifid) THEN ifid.pc
               ELSE IF ~FE!IsBubble(brd) THEN brd.pc ELSE pc

\* The oldest instruction that has not taken effect.
ArchPC == IF pending.mem THEN exmem.pc
          ELSE IF pending.ex THEN idex.pc ELSE NextFetched

ISA == INSTANCE RV32ISA WITH pc <- ArchPC, regs <- RegsAfterWB

\* What control depends on in an instruction word, and in the instruction
\* that ID/EX holds decoded.
KindOf(i) ==
    CASE i = ZeroWord -> "zero"
      [] i = Nop      -> "nop"
      [] i.op = "lw"  -> "load"
      [] i.op = "sw"  -> "store"
      [] i.op \in {"div", "divu", "rem", "remu"} -> "div"
      [] i.op \in Branches \cup {"jal", "jalr"}  -> "branch"
      [] OTHER        -> "alu"

IsNop(r) == r.writeReg /\ r.aluOp = "ADD" /\ r.aluSrc1 = "reg" /\ r.toReg = "alu"
            /\ r.aluSrc2 = "imm" /\ r.rd = 0 /\ r.rs1 = 0 /\ r.imm = 0

KindDecoded(r) ==
    CASE r.memRead  -> "load"
      [] r.memWrite -> "store"
      [] r.aluOp \in {"DIV", "DIVU", "REM", "REMU"} -> "div"
      [] r.branch # "none" -> "branch"
      [] IsNop(r)   -> "nop"
      [] r.writeReg /\ r.toReg = "alu" /\ ~IsNop(r)
             /\ r.aluOp \notin {"DIV", "DIVU", "REM", "REMU"} -> "alu"
      [] ~r.memWrite /\ ~r.writeReg /\ r.branch = "none" -> "zero"

CTL == INSTANCE PipeControl WITH
    imem      <- [a \in 0..LastAddr |-> KindOf(imem[a])],
    imemOut   <- KindOf(imemOut),
    prevInstr <- KindOf(prevInstr),
    ifid      <- [ifid EXCEPT !.instr = KindOf(ifid.instr)],
    ex        <- [kind |-> KindDecoded(idex), redirect |-> BranchTaken,
                  target |-> IF BranchTaken THEN Target ELSE 0],
    memRead   <- exmem.memRead,
    expected  <- NextFetched

(***************************************************************************)
(* The registers of the core hold words, addresses and known signals.      *)
(***************************************************************************)
TypeOK ==
    /\ pc \in 0..LastAddr
    /\ regs \in [Reg -> Word] /\ regs[0] = 0
    /\ dmem \in [0..(MemSize - 1) -> Word] /\ dmemOut \in Word
    /\ {idex.data1, idex.data2, idex.imm} \subseteq Word
    /\ {idex.rd, idex.rs1, idex.rs2, exmem.rd, exmem.rs2, memwb.rd} \subseteq Reg
    /\ {idex.pc, idex.pc4, idex.newAddress, exmem.pc, exmem.pc4, memwb.pc, memwb.pc4}
           \subseteq 0..LastAddr
    /\ {exmem.result, exmem.dataIn, memwb.result, memwb.dataOut} \subseteq Word
    /\ {divider.q, divider.r, divider.d, divider.quotient, divider.remainder} \subseteq Word

(***************************************************************************)
(* No instruction in EX takes the result of a load that is still in MEM:   *)
(* forwarding would give it the address of the load (the hazard detection  *)
(* unit inserts a no-op so that it cannot happen).                         *)
(***************************************************************************)
LoadUseSeparated ==
    MemRead => /\ idex.aluSrc1 = "reg" => ~ForwardFromMem(idex.rs1)
               /\ idex.aluSrc2 = "reg" => ~ForwardFromMem(idex.rs2)

(***************************************************************************)
(* A store that a division in EX holds in MEM writes the memory again on   *)
(* every edge; once it has taken effect this must change nothing, although *)
(* the instruction in WB that its data was forwarded from moves on.        *)
(***************************************************************************)
HeldStoreIsIdempotent == [][exmem.memWrite /\ ~pending.mem => dmem' = dmem]_vars

-----------------------------------------------------------------------------
(* Sequences of instructions that the core executes differently from the   *)
(* instruction set.                                                        *)

Writes(i)  == Control(i.op).writeReg
Divides    == {"div", "divu", "rem", "remu"}
Behind(a)  == FE!Plus4(a)

\* The no-op after a load is left out before every store.
StoreToLoadedAddress(p) == \E a \in 0..LastAddr :
    p[a].op = "lw" /\ p[a].rd # 0 /\ p[Behind(a)].op = "sw" /\ p[Behind(a)].rs1 = p[a].rd

\* Forwarding to a store forgets that x0 is zero.
StoreOfDiscardedWrite(p) == \E a \in 0..LastAddr :
    Writes(p[a]) /\ p[a].rd = 0 /\ p[Behind(a)].op = "sw" /\ p[Behind(a)].rs2 = 0

\* A store held by a division loses the data forwarded from WB.
StoreBeforeDivide(p) == \E a \in 0..LastAddr :
    LET s == Behind(a)
    IN  Writes(p[a]) /\ p[s].op = "sw" /\ p[s].rs2 = p[a].rd /\ p[Behind(s)].op \in Divides

\* The remainder by zero is read from the operand when forwarding from WB
\* is over.
ForwardedRemainder(p) == \E a \in 0..LastAddr :
    /\ Writes(p[a]) /\ p[a].rd # 0
    /\ \E r \in {Behind(Behind(a))} \cup (IF p[a].op = "lw" THEN {Behind(a)} ELSE {}) :
           p[r].op \in {"rem", "remu"} /\ p[r].rs1 = p[a].rd

\* JALR links its own address.
LinkedJALR(p) == \E a \in 0..LastAddr : p[a].op = "jalr" /\ p[a].rd # 0

\* The first instruction enters the pipeline twice.
RepeatableStart(p) ==
    /\ p[0].op = "addi" /\ p[0].rs1 = 0
    /\ \A r \in InitRegs : r[p[0].rd] = p[0].imm

Supported(p) ==
    /\ ~StoreToLoadedAddress(p) /\ ~StoreOfDiscardedWrite(p)
    /\ ~StoreBeforeDivide(p) /\ ~ForwardedRemainder(p)
    /\ ~LinkedJALR(p) /\ RepeatableStart(p)

-----------------------------------------------------------------------------
\* All branches and jumps of a program go forward, none past its end.
LoopFree(p) == \A a \in 0..(LastAddr - 1) :
    /\ p[a].op # "jalr"
    /\ p[a].op \in Branches \cup {"jal"} => p[a].imm > 0 /\ a + p[a].imm <= LastAddr

(***************************************************************************)
(* A program without loops reaches its last instruction: no combination of *)
(* stalls, no-ops, flushes and divisions holds an instruction for ever.    *)
(***************************************************************************)
ReachesLast == LoopFree(imem) => <>[](ArchPC = LastAddr)

(***************************************************************************)
(* Run on the pipeline, a program has the effect that the instruction set  *)
(* gives it: every step of the core is a step of the abstract machine or   *)
(* leaves its state unchanged.                                             *)
(***************************************************************************)
ImplementsISA == ISA!Spec

(***************************************************************************)
(* The core with its data path is an instance of the control model: what   *)
(* is checked and proved of PipeControl holds of it.                       *)
(***************************************************************************)
ImplementsControl == CTL!Spec

=============================================================================
