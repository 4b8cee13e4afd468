----------------------------- MODULE MCPipeline -----------------------------
(***************************************************************************)
(* Programs to run on the core: every sequence over a small alphabet of    *)
(* instructions, between a first instruction that the start code makes     *)
(* harmless to repeat and a final jump to itself.                          *)
(***************************************************************************)
EXTENDS Pipeline

Instr(op, rd, rs1, rs2, imm) ==
    [op |-> op, rd |-> rd, rs1 |-> rs1, rs2 |-> rs2, imm |-> imm]
Arith(op, rd, rs1, rs2)   == Instr(op, rd, rs1, rs2, 0)
\* The rs2 field of an I-type or U-type instruction is part of its immediate.
Imm(op, rd, rs1, imm)     == Instr(op, rd, rs1, imm % 4, imm)
Store(rs2, rs1, imm)      == Instr("sw", imm % 4, rs1, rs2, imm)
Branch(op, rs1, rs2, off) == Instr(op, off % 4, rs1, rs2, off)
Jal(rd, off)              == Instr("jal", rd, 0, off % 4, off)

First == Imm("addi", 1, 0, 0)
Halt  == Jal(0, 0)

SequencesOver(A) ==
    {[a \in 0..LastAddr |-> CASE a = 0 -> First
                              [] a = LastAddr -> Halt
                              [] OTHER -> body[a]] : body \in [1..(LastAddr - 1) -> A]}

ProgramsOver(A) == {p \in SequencesOver(A) : Supported(p)}

Straight == {Imm("addi", 1, 1, 1), Arith("add", 2, 1, 2), Arith("mul", 3, 2, 1),
             Imm("lw", 2, 1, 0), Imm("lw", 3, 2, 1), Imm("lw", 0, 2, 0),
             Store(1, 2, 0), Store(2, 3, 1)}
HazardPrograms == ProgramsOver(Straight)

\* BLT and BGE compare with x0 a register that never holds SignBit: their
\* differences do not overflow.
Branching == {Imm("addi", 1, 1, 1), Arith("sub", 2, 1, 2), Imm("lw", 2, 1, 0),
              Imm("auipc", 3, 0, 2), Branch("beq", 1, 2, 2), Branch("bne", 2, 3, -1),
              Branch("bltu", 2, 3, 3), Branch("blt", 0, 3, 2), Branch("bge", 3, 0, 2),
              Jal(2, 2), Imm("jalr", 0, 2, 1)}
BranchPrograms == ProgramsOver(Branching)

Dividing == {Imm("addi", 1, 1, 1), Arith("add", 2, 1, 2), Imm("lw", 2, 1, 0), Store(2, 1, 0),
             Arith("div", 3, 2, 1), Arith("rem", 2, 3, 2), Arith("divu", 1, 3, 2),
             Arith("remu", 3, 1, 1), Branch("bgeu", 1, 2, 2), Jal(2, 2)}
DividePrograms == ProgramsOver(Dividing)

CorePrograms == HazardPrograms \cup BranchPrograms \cup DividePrograms

\* One program for each of the sequences that are excluded above, and for
\* the link register of JALR: the smallest that shows what the core does.
Only(body) == {[a \in 0..LastAddr |-> IF a = 0 THEN First
                                      ELSE IF a \in DOMAIN body THEN body[a] ELSE Halt]}

StoreToLoadedAddressProgram == Only(<<Imm("lw", 2, 1, 0), Store(1, 2, 0)>>)
StoreOfDiscardedWriteProgram == Only(<<Imm("addi", 0, 2, 1), Store(0, 1, 0)>>)
StoreBeforeDivideProgram ==
    Only(<<Imm("lw", 2, 1, 1), Store(2, 1, 0), Arith("div", 3, 2, 1)>>)
ForwardedRemainderProgram ==
    Only(<<Imm("addi", 2, 2, 1), Imm("addi", 1, 1, 0), Arith("rem", 3, 2, 1)>>)
LinkProgram == Only(<<Imm("jalr", 2, 1, 2)>>)

MCReg  == 0..3
MCRegs == {[r \in MCReg |-> CASE r = 0 -> 0 [] r = 1 -> 0 [] r = 2 -> 6 [] r = 3 -> 13]}
MCMem  == {[a \in 0..(MemSize - 1) |-> 3 * a + 1]}

=============================================================================
