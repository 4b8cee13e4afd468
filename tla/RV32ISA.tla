------------------------------ MODULE RV32ISA -------------------------------
(***************************************************************************)
(* What a program is promised: the RV32IM instruction set executed one     *)
(* instruction at a time, with no pipeline.  The state is the one a        *)
(* programmer sees: the next instruction's address, the registers and the  *)
(* data memory.  An instruction is a record [op, rd, rs1, rs2, imm].  The  *)
(* program counter counts instruction words and wraps after LastAddr, data *)
(* addresses count words and wrap at MemSize; the immediate of a branch or *)
(* JAL is a signed distance in instructions, every other one is a word.    *)
(***************************************************************************)
EXTENDS Words

CONSTANTS LastAddr, Reg, MemSize

VARIABLES imem, pc, regs, dmem

isaVars == <<imem, pc, regs, dmem>>

Addr == 0..LastAddr

RegOps    == {"add", "sub", "slt", "mul", "div", "divu", "rem", "remu"}
ImmOps    == {"addi", "slti", "lui", "auipc"}
BranchOps == {"beq", "bne", "blt", "bge", "bltu", "bgeu"}
JumpOps   == {"jal", "jalr"}
Ops       == RegOps \cup ImmOps \cup BranchOps \cup JumpOps \cup {"lw", "sw"}

InstrAt(a) == imem[a]
PCPlus(x)  == (pc + x) % (LastAddr + 1)

\* The result of an instruction that computes, from its source registers.
Value(i, a, b) ==
    CASE i.op = "add"   -> Wrap(a + b)
      [] i.op = "addi"  -> Wrap(a + i.imm)
      [] i.op = "sub"   -> Wrap(a - b)
      [] i.op = "slt"   -> SLT(a, b)
      [] i.op = "slti"  -> SLT(a, i.imm)
      [] i.op = "mul"   -> Wrap(a * b)
      [] i.op = "div"   -> DIV(a, b)
      [] i.op = "divu"  -> DIVU(a, b)
      [] i.op = "rem"   -> REM(a, b)
      [] i.op = "remu"  -> REMU(a, b)
      [] i.op = "lui"   -> i.imm
      [] i.op = "auipc" -> Wrap(pc + i.imm)

Taken(i, a, b) ==
    CASE i.op = "beq"  -> a = b
      [] i.op = "bne"  -> a # b
      [] i.op = "blt"  -> Signed(a) < Signed(b)
      [] i.op = "bge"  -> Signed(a) >= Signed(b)
      [] i.op = "bltu" -> a < b
      [] i.op = "bgeu" -> a >= b

\* x0 is zero whatever is written to it.
WriteReg(rd, v) == regs' = [regs EXCEPT ![rd] = IF rd = 0 THEN 0 ELSE v]

-----------------------------------------------------------------------------
Compute(i) ==
    /\ i.op \in RegOps \cup ImmOps
    /\ WriteReg(i.rd, Value(i, regs[i.rs1], regs[i.rs2]))
    /\ pc' = PCPlus(1)
    /\ UNCHANGED dmem

Load(i) ==
    /\ i.op = "lw"
    /\ WriteReg(i.rd, dmem[Wrap(regs[i.rs1] + i.imm) % MemSize])
    /\ pc' = PCPlus(1)
    /\ UNCHANGED dmem

Store(i) ==
    /\ i.op = "sw"
    /\ dmem' = [dmem EXCEPT ![Wrap(regs[i.rs1] + i.imm) % MemSize] = regs[i.rs2]]
    /\ pc' = PCPlus(1)
    /\ UNCHANGED regs

Branch(i) ==
    /\ i.op \in BranchOps
    /\ pc' = PCPlus(IF Taken(i, regs[i.rs1], regs[i.rs2]) THEN i.imm ELSE 1)
    /\ UNCHANGED <<regs, dmem>>

\* Both jumps leave the address of the next instruction in rd.
Jump(i) ==
    /\ i.op \in JumpOps
    /\ pc' = IF i.op = "jal" THEN PCPlus(i.imm)
             ELSE Wrap(regs[i.rs1] + i.imm) % (LastAddr + 1)
    /\ WriteReg(i.rd, PCPlus(1))
    /\ UNCHANGED dmem

Step(i) == Compute(i) \/ Load(i) \/ Store(i) \/ Branch(i) \/ Jump(i)

Init ==
    /\ pc = 0
    /\ regs \in [Reg -> Word] /\ regs[0] = 0
    /\ dmem \in [0..(MemSize - 1) -> Word]

Next == Step(InstrAt(pc)) /\ UNCHANGED imem

Spec     == Init /\ [][Next]_isaVars
FairSpec == Spec /\ WF_isaVars(Next)

=============================================================================
