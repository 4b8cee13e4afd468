--------------------------- MODULE PipelineProofs ---------------------------
(***************************************************************************)
(* Proofs about the core with its data path: its types, that its control   *)
(* is that of PipeControl, and that it implements the instruction set for  *)
(* every program without the sequences that Pipeline names.                *)
(***************************************************************************)
EXTENDS Pipeline, WellFoundedInduction, TLAPS

-----------------------------------------------------------------------------
(* Words.                                                                  *)

LEMMA Sizes ==
    /\ 2^Width \in Nat /\ 2^Width >= 2 /\ AllOnes \in Word /\ SignBit \in Word
    /\ 0 \in Word /\ 1 \in Word
    /\ \A x \in Int : Wrap(x) \in Word
    /\ Word \subseteq Int
<1>1. Width - 1 \in 0..(Width - 1) /\ Width - 1 + 1 = Width
    BY WordAssumption
<1>2. 2^(Width - 1) \in Nat \ {0} /\ 2^(Width - 1 + 1) = 2 * 2^(Width - 1)
    BY <1>1, WordAssumption
<1>3. PICK w : w = 2^(Width - 1)
    OBVIOUS
<1>4. PICK v : v = 2^Width
    OBVIOUS
<1>5. w \in Nat \ {0} /\ v = 2 * w
    BY <1>1, <1>2, <1>3, <1>4
<1>6. /\ Word = 0..(v - 1) /\ AllOnes = v - 1 /\ SignBit = w /\ \A x : Wrap(x) = x % v
    BY <1>3, <1>4 DEF Word, AllOnes, SignBit, Wrap
<1>7. \A x \in Int : x % v \in 0..(v - 1)
    BY <1>5
<1>8. v \in Nat /\ v >= 2 /\ Word \subseteq Int
    BY <1>5, <1>6
<1>9. v - 1 \in 0..(v - 1) /\ w \in 0..(v - 1) /\ 0 \in 0..(v - 1) /\ 1 \in 0..(v - 1)
    BY <1>5
<1> QED BY <1>4, <1>6, <1>7, <1>8, <1>9

LEMMA WordsWrap == \A x \in Word : Wrap(x) = x
<1>1. PICK v : v = 2^Width
    OBVIOUS
<1>2. v \in Nat /\ v >= 2 /\ Word = 0..(v - 1) /\ \A x : Wrap(x) = x % v
    BY <1>1, Sizes DEF Word, Wrap
<1> QED BY <1>2

(* The least element of a set of numbers.                                  *)
LEMMA Least ==
    ASSUME NEW T, T \subseteq Nat, T # {}
    PROVE  \E n \in T : \A m \in T : n <= m
<1>1. PICK n \in T : \A m \in T : ~(<<m, n>> \in OpToRel(<, Nat))
    BY WFMin, NatLessThanWellFounded
<1>2. ASSUME NEW m \in T PROVE n <= m
  <2>1. m \in Nat /\ n \in Nat
      OBVIOUS
  <2>2. ASSUME m < n PROVE <<m, n>> \in OpToRel(<, Nat)
      BY <2>1, <2>2, Zenon DEF OpToRel
  <2>3. ~(m < n)
      BY <1>1, <2>2, Zenon
  <2> QED BY <2>1, <2>3
<1> QED BY <1>2

(* The bitwise conjunction of two words is one.                            *)
LEMMA AndIsWord ==
    ASSUME NEW a \in Word, NEW b \in Word
    PROVE  And(a, b) \in Word
<1> DEFINE Added(n) == 2^(n - 1) * Bit(a, n - 1) * Bit(b, n - 1)
<1> DEFINE Low(f, N) == f = [n \in 0..N |-> IF n = 0 THEN 0 ELSE f[n - 1] + Added(n)]
<1>0. Width \in Nat \ {0}
    BY WordAssumption
<1>1. \E f : Low(f, Width)
  <2> DEFINE Missing == {n \in 0..Width : ~\E f : Low(f, n)}
  <2> SUFFICES ASSUME Missing # {} PROVE FALSE
      BY <1>0, SMTT(30)
  <2>1. PICK n \in Missing : \A m \in Missing : n <= m
    <3>1. Missing \subseteq Nat
        BY <1>0
    <3> HIDE DEF Missing
    <3> QED BY <3>1, Least
  <2>2. n # 0
    <3>1. Low([k \in 0..0 |-> 0], 0)
        OBVIOUS
    <3> QED BY <3>1
  <2>3. n - 1 \in 0..Width /\ ~(n <= n - 1)
      BY <1>0, <2>2
  <2>4. PICK f : Low(f, n - 1)
      BY <2>1, <2>3
  <2> DEFINE g == [k \in 0..n |-> IF k = n THEN f[n - 1] + Added(n) ELSE f[k]]
  <2>5. Low(g, n)
    <3>1. \A k \in 0..n : k # 0 => g[k - 1] = f[k - 1]
        BY <2>2, <1>0
    <3>2. \A k \in 0..n : g[k] = IF k = 0 THEN 0 ELSE f[k - 1] + Added(k)
        BY <2>2, <2>4, <1>0
    <3> QED BY <3>1, <3>2
  <2> QED BY <2>5
<1>2. PICK f : Low(f, Width) /\ And(a, b) = f[Width]
    BY <1>1 DEF And
<1>3. \A n \in 0..Width : f[n] \in 0..(2^n - 1)
  <2> DEFINE Large == {n \in 0..Width : f[n] \notin 0..(2^n - 1)}
  <2> SUFFICES ASSUME Large # {} PROVE FALSE
      OBVIOUS
  <2>1. PICK n \in Large : \A m \in Large : n <= m
    <3>1. Large \subseteq Nat
        BY <1>0
    <3> HIDE DEF Large
    <3> QED BY <3>1, Least
  <2>2. f[0] \in 0..(2^0 - 1)
    <3>1. PICK p : p = 2^0
        OBVIOUS
    <3>2. 0 \in 0..(Width - 1) /\ 0 \in 0..Width
        BY <1>0
    <3>3. p \in Nat \ {0}
        BY <3>1, <3>2, WordAssumption
    <3>4. f[0] = 0
        BY <1>2, <3>2
    <3>5. 0 \in 0..(p - 1)
        BY <3>3
    <3> QED BY <3>1, <3>4, <3>5
  <2>3. n # 0
      BY <2>1, <2>2
  <2>4. n - 1 \in 0..(Width - 1) /\ n - 1 + 1 = n /\ ~(n <= n - 1) /\ n \in 0..Width
      BY <1>0, <2>3
  <2>5. PICK x : x = 2^(n - 1)
      OBVIOUS
  <2>6. x \in Nat \ {0} /\ 2^n = 2 * x
      BY <2>4, <2>5, WordAssumption
  <2>7. f[n - 1] \in 0..(x - 1)
    <3>1. n - 1 \notin Large
        BY <2>1, <2>4
    <3>2. n - 1 \in 0..Width
        BY <1>0, <2>4
    <3>3. f[n - 1] \in 0..(2^(n - 1) - 1)
        BY <3>1, <3>2
    <3> QED BY <2>5, <3>3
  <2>8. Bit(a, n - 1) \in {0, 1} /\ Bit(b, n - 1) \in {0, 1}
    <3>1. a \in Nat /\ b \in Nat
        BY Sizes DEF Word
    <3>2. \A c \in Nat : (c \div x) % 2 \in {0, 1}
        BY <2>6
    <3> QED BY <2>5, <3>1, <3>2 DEF Bit
  <2>9. Added(n) \in {0, x}
    <3>1. PICK c, d : c = Bit(a, n - 1) /\ d = Bit(b, n - 1)
        OBVIOUS
    <3>2. c \in {0, 1} /\ d \in {0, 1}
        BY <2>8, <3>1
    <3>3. x * c * d \in {0, x}
        BY <2>6, <3>2
    <3> QED BY <2>5, <3>1, <3>3
  <2>10. f[n] = f[n - 1] + Added(n)
      BY <1>2, <2>3, <2>4
  <2>11. f[n] \in 0..(2 * x - 1)
    <3> HIDE DEF Added
    <3>1. PICK y, z : y = f[n - 1] /\ z = Added(n)
        OBVIOUS
    <3>2. y \in 0..(x - 1) /\ z \in {0, x}
        BY <2>7, <2>9, <3>1
    <3>3. y + z \in 0..(2 * x - 1)
        BY <2>6, <3>2
    <3> QED BY <2>10, <3>1, <3>3
  <2> QED BY <2>6, <2>11
<1> QED BY <1>0, <1>2, <1>3 DEF Word

-----------------------------------------------------------------------------
(* What the registers hold: words, addresses, and the control signals that *)
(* the decoder makes of one operation or Mux4 of none.                     *)

Addr == 0..LastAddr

Fetchable == Instruction \cup {ZeroWord}

Controls == {Control(op) : op \in Ops \cup {"zero"}} \cup {[NoControl EXCEPT !.aluSrc1 = "pc"]}

Signals(r) == [branch |-> r.branch, memRead |-> r.memRead, toReg |-> r.toReg,
               aluOp |-> r.aluOp, memWrite |-> r.memWrite, aluSrc1 |-> r.aluSrc1,
               aluSrc2 |-> r.aluSrc2, writeReg |-> r.writeReg]

Sources == {"alu", "mem", "pc", "pc4"}
ALUOps  == {"ADD", "SUB", "SLT", "FWD2", "MUL", "DIV", "DIVU", "REM", "REMU", "AND"}

Dividers == [q : Word, r : Word, d : Word, signQ : BOOLEAN, signR : BOOLEAN,
             byZero : BOOLEAN, quotient : Word, remainder : Word]

InIdEx == [branch : Branches \cup {"none", "jal", "jalr"}, memRead : BOOLEAN,
           toReg : Sources, aluOp : ALUOps, memWrite : BOOLEAN,
           aluSrc1 : {"reg", "pc"}, aluSrc2 : {"reg", "imm"}, writeReg : BOOLEAN,
           pc : Addr, pc4 : Addr, newAddress : Addr, imm : Word, data1 : Word,
           data2 : Word, rd : Reg, rs1 : Reg, rs2 : Reg]

InExMem == [result : Word, dataIn : Word, pc : Addr, pc4 : Addr, rd : Reg, rs2 : Reg,
            memWrite : BOOLEAN, memRead : BOOLEAN, toReg : Sources, writeReg : BOOLEAN]

InMemWb == [dataOut : Word, result : Word, pc : Addr, pc4 : Addr, rd : Reg,
            toReg : Sources, writeReg : BOOLEAN]

Types ==
    /\ imem \in [Addr -> Instruction] /\ pc \in Addr
    /\ imemOut \in Instruction /\ prevInstr \in Fetchable
    /\ brd \in [pc : Addr, pc4 : Addr]
    /\ ifid \in [instr : Fetchable, pc : Addr, pc4 : Addr]
    /\ divider \in Dividers
    /\ regs \in [Reg -> Word] /\ regs[0] = 0
    /\ dmem \in [0..(MemSize - 1) -> Word] /\ dmemOut \in Word
    /\ idex \in InIdEx /\ Signals(idex) \in Controls
    /\ exmem \in InExMem
    /\ memwb \in InMemWb

\* Types is what TypeOK says, and more.
LEMMA TypesAreOK == Types => TypeOK
<1> SUFFICES ASSUME Types PROVE TypeOK
    OBVIOUS
<1> USE DEF Types, Addr
<1>1. {idex.data1, idex.data2, idex.imm} \subseteq Word
    BY DEF InIdEx
<1>2. {idex.rd, idex.rs1, idex.rs2, exmem.rd, exmem.rs2, memwb.rd} \subseteq Reg
    BY DEF InIdEx, InExMem, InMemWb
<1>3. {idex.pc, idex.pc4, idex.newAddress, exmem.pc, exmem.pc4, memwb.pc, memwb.pc4} \subseteq Addr
    BY DEF InIdEx, InExMem, InMemWb
<1>4. {exmem.result, exmem.dataIn, memwb.result, memwb.dataOut} \subseteq Word
    BY DEF InExMem, InMemWb
<1>5. {divider.q, divider.r, divider.d, divider.quotient, divider.remainder} \subseteq Word
    BY DEF Dividers
<1> QED BY <1>1, <1>2, <1>3, <1>4, <1>5 DEF TypeOK

-----------------------------------------------------------------------------
(* The decoder.                                                            *)

\* The formats.
LEMMA Decoded ==
    /\ \A op \in DOMAIN RTypeALU : Control(op) = DecodeR(op)
    /\ \A op \in DOMAIN ITypeALU : Control(op) = DecodeI(op)
    /\ Control("lw") = DecodeLoad /\ Control("sw") = DecodeStore
    /\ Control("auipc") = DecodeAUIPC /\ Control("lui") = DecodeLUI
    /\ \A op \in Branches : Control(op) = DecodeBranch(op)
    /\ Control("jalr") = DecodeJALR /\ Control("jal") = DecodeJAL
    /\ Control("zero") = NoControl
<1>1. /\ DOMAIN RTypeALU = {"add", "sub", "slt", "mul", "div", "divu", "rem", "remu"}
      /\ DOMAIN ITypeALU = {"addi", "slti"}
    BY DEF RTypeALU, ITypeALU
<1>2. ASSUME NEW op \in DOMAIN RTypeALU
      PROVE  op \notin DOMAIN ITypeALU /\ op \notin Branches
             /\ op \notin {"lw", "sw", "auipc", "lui", "jalr", "jal"}
    BY <1>1, <1>2 DEF Branches
<1>3. ASSUME NEW op \in DOMAIN ITypeALU
      PROVE  op \notin DOMAIN RTypeALU /\ op \notin Branches
             /\ op \notin {"lw", "sw", "auipc", "lui", "jalr", "jal"}
    BY <1>1, <1>3 DEF Branches
<1>4. ASSUME NEW op \in Branches
      PROVE  op \notin DOMAIN RTypeALU /\ op \notin DOMAIN ITypeALU
             /\ op \notin {"lw", "sw", "auipc", "lui", "jalr", "jal"}
    BY <1>1, <1>4 DEF Branches
<1>5. ASSUME NEW op \in {"lw", "sw", "auipc", "lui", "jalr", "jal", "zero"}
      PROVE  op \notin DOMAIN RTypeALU /\ op \notin DOMAIN ITypeALU /\ op \notin Branches
    BY <1>1, <1>5 DEF Branches
<1>6. /\ \A op \in DOMAIN RTypeALU : Control(op) = DecodeR(op)
      /\ \A op \in DOMAIN ITypeALU : Control(op) = DecodeI(op)
      /\ \A op \in Branches : Control(op) = DecodeBranch(op)
    BY <1>2, <1>3, <1>4, Zenon DEF Control
<1> QED BY <1>5, <1>6 DEF Control

ControlType == [branch : Branches \cup {"none", "jal", "jalr"}, memRead : BOOLEAN,
                toReg : Sources, aluOp : ALUOps, memWrite : BOOLEAN,
                aluSrc1 : {"reg", "pc"}, aluSrc2 : {"reg", "imm"}, writeReg : BOOLEAN]

LEMMA ControlsHaveTypes == Controls \subseteq ControlType
<1> USE DEF NoControl, ControlType, Sources, ALUOps
<1>1. [NoControl EXCEPT !.aluSrc1 = "pc"] \in ControlType
    OBVIOUS
<1>2. \A op \in DOMAIN RTypeALU : RTypeALU[op] \in ALUOps
    BY DEF RTypeALU
<1>3. \A op \in DOMAIN ITypeALU : ITypeALU[op] \in ALUOps
    BY DEF ITypeALU
<1>4. \A op \in DOMAIN RTypeALU : DecodeR(op) \in ControlType
    BY <1>2 DEF DecodeR
<1>5. \A op \in DOMAIN ITypeALU : DecodeI(op) \in ControlType
    BY <1>3 DEF DecodeI
<1>6. /\ DecodeLoad \in ControlType /\ DecodeStore \in ControlType
      /\ DecodeAUIPC \in ControlType /\ DecodeLUI \in ControlType
      /\ DecodeJALR \in ControlType /\ DecodeJAL \in ControlType /\ NoControl \in ControlType
  <2>1. DecodeLoad \in ControlType /\ DecodeStore \in ControlType
      BY DEF DecodeLoad, DecodeStore
  <2>2. DecodeAUIPC \in ControlType /\ DecodeLUI \in ControlType
      BY DEF DecodeAUIPC, DecodeLUI
  <2>3. DecodeJALR \in ControlType /\ DecodeJAL \in ControlType /\ NoControl \in ControlType
      BY DEF DecodeJALR, DecodeJAL
  <2> QED BY <2>1, <2>2, <2>3
<1>7. \A op \in Branches : DecodeBranch(op) \in ControlType
    BY DEF DecodeBranch
<1>8. ASSUME NEW op \in Ops \cup {"zero"} PROVE Control(op) \in ControlType
  <2>1. CASE op \in DOMAIN RTypeALU \/ op \in DOMAIN ITypeALU \/ op \in Branches
      BY <1>4, <1>5, <1>7, <2>1, Decoded, Zenon
  <2>2. CASE op \in {"lw", "sw", "lui", "auipc", "jal", "jalr", "zero"}
    <3>1. Control(op) \in {DecodeLoad, DecodeStore, DecodeLUI, DecodeAUIPC, DecodeJAL, DecodeJALR,
                           NoControl}
        BY <2>2, Decoded
    <3> QED BY <1>6, <3>1, Zenon
  <2> QED BY <2>1, <2>2 DEF Ops
<1> QED BY <1>1, <1>8 DEF Controls

\* What EX may rely on: a division or a memory access is no branch, and a
\* branch compares by a subtraction.
LEMMA ControlsAgree ==
    ASSUME NEW c \in Controls
    PROVE  /\ c.memRead \/ c.memWrite => c.aluOp = "ADD" /\ c.branch = "none"
           /\ ~(c.memRead /\ c.memWrite)
           /\ c.branch # "none" => c.aluOp \in {"ADD", "SUB", "AND"}
           /\ c.aluOp \in {"DIV", "DIVU", "REM", "REMU"}
                  => c.branch = "none" /\ c.writeReg /\ c.toReg = "alu"
           /\ c.branch # "none" => ~(c.writeReg /\ c.toReg = "alu")
           /\ c.memRead => c.writeReg /\ c.toReg = "mem"
           /\ c.memWrite => ~c.writeReg
           /\ c.branch = "none" /\ ~c.memRead => c.toReg = "alu"
           /\ c.branch = "jalr" => c.aluOp = "ADD"
<1> USE DEF NoControl
<1>1. CASE c = [NoControl EXCEPT !.aluSrc1 = "pc"]
    BY <1>1
<1>2. CASE \E op \in DOMAIN RTypeALU : c = DecodeR(op)
    BY <1>2 DEF DecodeR
<1>3. CASE \E op \in DOMAIN ITypeALU : c = DecodeI(op)
    BY <1>3 DEF DecodeI, ITypeALU
<1>4. CASE c = DecodeLoad \/ c = DecodeStore
    BY <1>4 DEF DecodeLoad, DecodeStore
<1>6. CASE c = DecodeAUIPC \/ c = DecodeLUI
    BY <1>6 DEF DecodeAUIPC, DecodeLUI
<1>7. CASE c = DecodeJALR
    BY <1>7 DEF DecodeJALR
<1>9. CASE c = DecodeJAL
    BY <1>9 DEF DecodeJAL
<1>10. CASE c = NoControl
    BY <1>10
<1>5. CASE \E op \in Branches : c = DecodeBranch(op)
    BY <1>5 DEF DecodeBranch, Branches
<1>8. \/ c = [NoControl EXCEPT !.aluSrc1 = "pc"]
      \/ \E op \in DOMAIN RTypeALU : c = DecodeR(op)
      \/ \E op \in DOMAIN ITypeALU : c = DecodeI(op)
      \/ \E op \in Branches : c = DecodeBranch(op)
      \/ c \in {DecodeLoad, DecodeStore, DecodeAUIPC, DecodeLUI, DecodeJALR, DecodeJAL, NoControl}
  <2>1. CASE c = [NoControl EXCEPT !.aluSrc1 = "pc"]
      BY <2>1
  <2>2. CASE c \in {Control(op) : op \in Ops \cup {"zero"}}
    <3>1. PICK op \in Ops \cup {"zero"} : c = Control(op)
        BY <2>2
    <3>2. CASE op \in DOMAIN RTypeALU \/ op \in DOMAIN ITypeALU \/ op \in Branches
        BY <3>1, <3>2, Decoded, Zenon
    <3>3. CASE op \in {"lw", "sw", "lui", "auipc", "jal", "jalr", "zero"}
        BY <3>1, <3>3, Decoded, Zenon
    <3> QED BY <3>2, <3>3 DEF Ops
  <2> QED BY <2>1, <2>2 DEF Controls
<1> QED BY <1>1, <1>2, <1>3, <1>4, <1>5, <1>6, <1>7, <1>8, <1>9, <1>10, Zenon

-----------------------------------------------------------------------------
(* The combinational signals are words and addresses.                      *)

LEMMA AddressesAreWords == Addr \subseteq Word /\ 0 \in Addr
<1>1. PICK v : v = 2^Width
    OBVIOUS
<1>2. v \in Nat /\ LastAddr \in 0..(v - 1) /\ LastAddr \in Nat
    BY <1>1, Sizes, CoreAssumption DEF Word
<1>3. 0..LastAddr \subseteq 0..(v - 1)
    BY <1>2
<1> QED BY <1>1, <1>2, <1>3 DEF Addr, Word

LEMMA AddressWraps == \A x \in Int : x % (LastAddr + 1) \in Addr
BY CoreAssumption DEF Addr

LEMMA WrittenIsWord == ASSUME memwb \in InMemWb PROVE DataForReg \in Word
<1>1. {memwb.result, memwb.dataOut, memwb.pc, memwb.pc4} \subseteq Word /\ memwb.toReg \in Sources
    BY AddressesAreWords DEF InMemWb
<1> QED BY <1>1, Zenon DEF DataForReg, Sources

LEMMA OperandsAreWords ==
    ASSUME Types
    PROVE  Op1 \in Word /\ Op2 \in Word /\ StoreDataEX \in Word /\ DataToStore \in Word
<1>1. {idex.pc, idex.imm, idex.data1, idex.data2, exmem.result, exmem.dataIn} \subseteq Word
    BY AddressesAreWords DEF Types, InIdEx, InExMem
<1>2. DataForReg \in Word
    BY WrittenIsWord DEF Types
<1> QED BY <1>1, <1>2 DEF Op1, Op2, Forwarded, StoreDataEX, DataToStore

LEMMA ResultIsWord == ASSUME Types PROVE ALUResult \in Word
<1>1. Op1 \in Int /\ Op2 \in Int /\ Op1 \in Word /\ Op2 \in Word
    BY OperandsAreWords, Sizes
<1>2. PICK a, b : a = Op1 /\ b = Op2
    OBVIOUS
<1>3. a \in Int /\ b \in Int
    BY <1>1, <1>2
<1>4. a + b \in Int /\ a - b \in Int /\ a * b \in Int
    BY <1>3
<1>5. /\ Wrap(Op1 + Op2) \in Word /\ Wrap(Op1 - Op2) \in Word /\ Wrap(Op1 * Op2) \in Word
      /\ SLT(Op1, Op2) \in Word
    BY <1>2, <1>4, Sizes DEF SLT
<1>6. And(Op1, Op2) \in Word
    BY <1>1, AndIsWord
<1>7. divider.quotient \in Word /\ divider.remainder \in Word
    BY DEF Types, Dividers
<1>8. idex.aluOp \in ALUOps
    BY DEF Types, InIdEx
<1>9. CASE idex.aluOp \in {"ADD", "SUB", "SLT"}
    BY <1>5, <1>9, Zenon DEF ALUResult
<1>10. CASE idex.aluOp \in {"FWD2", "MUL", "AND"}
    BY <1>1, <1>5, <1>6, <1>10, Zenon DEF ALUResult
<1>11. CASE idex.aluOp \in {"DIV", "DIVU", "REM", "REMU"}
    BY <1>7, <1>11, Zenon DEF ALUResult
<1> QED BY <1>8, <1>9, <1>10, <1>11 DEF ALUOps

LEMMA TargetIsAddress == ASSUME Types PROVE Target \in Addr
BY ResultIsWord, Sizes, AddressWraps DEF Target, Types, InIdEx

LEMMA ReadIsWord ==
    ASSUME Types, NEW r \in Reg
    PROVE  ReadReg(r) \in Word
BY WrittenIsWord, Sizes DEF ReadReg, RegsAfterWB, Types, InMemWb

LEMMA DecodedInId ==
    ASSUME Types
    PROVE  /\ ifid.instr.rd \in Reg /\ ifid.instr.rs1 \in Reg /\ ifid.instr.rs2 \in Reg
           /\ ifid.instr.imm \in Int /\ ifid.instr.op \in Ops \cup {"zero"}
           /\ ifid.pc \in Addr /\ ifid.pc4 \in Addr /\ NewAddress \in Addr
<1>1. ifid.instr \in Fetchable /\ ifid.pc \in Addr /\ ifid.pc4 \in Addr
    BY DEF Types
<1>2. /\ ifid.instr.rd \in Reg /\ ifid.instr.rs1 \in Reg /\ ifid.instr.rs2 \in Reg
      /\ ifid.instr.imm \in Int /\ ifid.instr.op \in Ops \cup {"zero"}
  <2>1. CASE ifid.instr \in Instruction
    <3>1. ifid.instr \in [op : Ops, rd : Reg, rs1 : Reg, rs2 : Reg, imm : Int]
        BY <2>1 DEF Instruction
    <3> QED BY <3>1
  <2>2. CASE ifid.instr = ZeroWord
    <3>1. /\ ifid.instr.op = "zero" /\ ifid.instr.rd = 0 /\ ifid.instr.rs1 = 0
          /\ ifid.instr.rs2 = 0 /\ ifid.instr.imm = 0
        BY <2>2 DEF ZeroWord
    <3> QED BY <3>1, CoreAssumption
  <2> QED BY <1>1, <2>1, <2>2 DEF Fetchable
<1>3. NewAddress \in Addr
  <2>1. PICK x, y : x = ifid.pc /\ y = ifid.instr.imm
      OBVIOUS
  <2>2. x \in Int /\ y \in Int
      BY <1>1, <1>2, <2>1, AddressesAreWords, Sizes
  <2>3. x + y \in Int
      BY <2>2
  <2> QED BY <2>1, <2>3, AddressWraps DEF NewAddress
<1> QED BY <1>1, <1>2, <1>3

-----------------------------------------------------------------------------
(* Types is inductive.                                                     *)

LEMMA InitTypes == Init => Types
<1> SUFFICES ASSUME Init PROVE Types
    OBVIOUS
<1> USE DEF Init
<1>1. imem \in [Addr -> Instruction] /\ 0 \in Addr
    BY AddressesAreWords, CoreAssumption DEF Addr
<1>2. /\ pc \in Addr /\ imemOut \in Instruction /\ prevInstr \in Fetchable
      /\ brd \in [pc : Addr, pc4 : Addr]
      /\ ifid \in [instr : Fetchable, pc : Addr, pc4 : Addr]
    BY <1>1 DEF FE!Reset, FE!EmptyBrd, FE!EmptyIfId, Fetchable
<1>3. divider \in Dividers
    BY Sizes DEF DV!Reset, Dividers
<1>4. /\ regs \in [Reg -> Word] /\ regs[0] = 0
      /\ dmem \in [0..(MemSize - 1) -> Word]
    BY CoreAssumption
<1>5. dmemOut \in Word
    BY <1>4, CoreAssumption
<1>6. [NoControl EXCEPT !.aluSrc1 = "pc"] \in Controls
    BY DEF Controls
<1>7. idex \in InIdEx /\ Signals(idex) \in Controls
  <2>1. PICK c : c = [NoControl EXCEPT !.aluSrc1 = "pc"]
      OBVIOUS
  <2>2. c \in ControlType /\ c \in Controls
      BY <1>6, <2>1, ControlsHaveTypes
  <2>3. idex = IdExOf(c, ZeroWord, 0, 0, 0, 0, 0)
      BY <2>1 DEF EmptyIdEx
  <2>4. Wrap(ZeroWord.imm) \in Word /\ 0 \in Reg
      BY Sizes, CoreAssumption DEF ZeroWord
  <2>5. idex \in InIdEx
      BY <1>1, <2>2, <2>3, <2>4, Sizes DEF IdExOf, InIdEx, ControlType, ZeroWord
  <2>6. Signals(idex) = c
      BY <2>2, <2>3 DEF IdExOf, Signals, ControlType
  <2> QED BY <2>2, <2>5, <2>6
<1>8. exmem \in InExMem /\ memwb \in InMemWb
    BY <1>1, Sizes, CoreAssumption DEF EmptyExMem, EmptyMemWb, InExMem, InMemWb, Sources
<1> QED BY <1>1, <1>2, <1>3, <1>4, <1>5, <1>7, <1>8 DEF Types

LEMMA FetchTypes ==
    ASSUME Types, Next
    PROVE  /\ imem' \in [Addr -> Instruction] /\ pc' \in Addr
           /\ imemOut' \in Instruction /\ prevInstr' \in Fetchable
           /\ brd' \in [pc : Addr, pc4 : Addr]
           /\ ifid' \in [instr : Fetchable, pc : Addr, pc4 : Addr]
<1> USE DEF Types
<1>1. PICK en, fp : FE!Clock(en, fp, Target)
    BY DEF Next
<1>2. 0 \in Addr /\ \A a \in Addr : FE!Plus4(a) \in Addr
    BY CoreAssumption DEF Addr, FE!Plus4
<1>3. pc' \in Addr /\ brd' \in [pc : Addr, pc4 : Addr]
    BY <1>1, <1>2, TargetIsAddress DEF FE!Clock, FE!ClockPC, FE!ClockBrd, FE!EmptyBrd
<1>4. imem' \in [Addr -> Instruction] /\ imemOut' \in Instruction /\ prevInstr' \in Fetchable
    BY <1>1 DEF FE!Clock, FE!ClockImem, FE!ClockBackup, Fetchable
<1>5. Nop \in Instruction
    BY CoreAssumption DEF Instruction, Nop, Ops, ITypeALU
<1>6. FE!Mux11(fp) \in Fetchable
    BY <1>5 DEF FE!Mux11, FE!Mux10, Fetchable
<1>7. ifid' \in [instr : Fetchable, pc : Addr, pc4 : Addr]
    BY <1>1, <1>2, <1>6 DEF FE!Clock, FE!ClockIfId, FE!EmptyIfId, Fetchable
<1> QED BY <1>3, <1>4, <1>7

\* The words of the divider are those of the core.
LEMMA SameWords ==
    /\ DV!AllOnes = AllOnes /\ DV!SignBit = SignBit
    /\ \A w : DV!Wrap(w) = Wrap(w) /\ (DV!Negative(w) <=> Negative(w)) /\ DV!Neg(w) = Neg(w)
BY DEF DV!AllOnes, DV!SignBit, DV!Wrap, DV!Negative, DV!Neg, AllOnes, SignBit, Wrap, Negative, Neg

LEMMA DividerTypes ==
    ASSUME Types, Next
    PROVE  divider' \in Dividers
<1>1. PICK start : DV!Clock(start, IsSigned, Op1, Op2)
    BY DEF Next
<1>2. Op1 \in Word /\ Op2 \in Word /\ divider \in Dividers
    BY OperandsAreWords DEF Types
<1>3. ASSUME NEW w \in Word, NEW s
      PROVE  DV!Abs(s, w) \in Word /\ Neg(w) \in Word
  <2>1. PICK v : v = 2^Width
      OBVIOUS
  <2>2. w \in Int /\ v \in Int
      BY <2>1, Sizes
  <2>3. v - w \in Int
      BY <2>2
  <2>4. Neg(w) = Wrap(v - w)
      BY <2>1 DEF Neg
  <2>5. Neg(w) \in Word
      BY <2>3, <2>4, Sizes
  <2> QED BY <2>5, SameWords, Zenon DEF DV!Abs
<1>4. IsSigned \in BOOLEAN /\ \A w, x : Negative(w) \in BOOLEAN /\ (Negative(w) # Negative(x)) \in BOOLEAN
    BY DEF IsSigned, Negative
<1>5. CASE DV!Latch(IsSigned, Op1, Op2)
    BY <1>2, <1>3, <1>4, <1>5, Sizes, SameWords DEF DV!Latch, Dividers
<1>6. CASE DV!SetCorner(Op1)
  <2>1. [divider EXCEPT !.quotient = AllOnes, !.remainder = Op1] \in Dividers
      BY <1>2, Sizes DEF Dividers
  <2>2. [divider EXCEPT !.quotient = SignBit, !.remainder = 0] \in Dividers
      BY <1>2, Sizes DEF Dividers
  <2> QED BY <1>2, <1>6, <2>1, <2>2, SameWords DEF DV!SetCorner
<1>7. CASE DV!ShiftSubtract
  <2>1. divider.r \in Int /\ divider.q \in Int /\ divider.d \in Word /\ divider.d \in Nat
      BY <1>2, Sizes DEF Dividers, Word
  <2> DEFINE top     == IF Negative(divider.q) THEN 1 ELSE 0
             shifted == Wrap(2 * divider.r + top)
             fits    == shifted >= divider.d
  <2>2. shifted \in Word
    <3>1. 2 * divider.r + top \in Int
        BY <2>1
    <3> QED BY <3>1, Sizes
  <2>3. Wrap(2 * divider.q + (IF fits THEN 1 ELSE 0)) \in Word
    <3>1. 2 * divider.q + (IF fits THEN 1 ELSE 0) \in Int
        BY <2>1
    <3> QED BY <3>1, Sizes
  <2>4. fits => shifted - divider.d \in Word
    <3>1. PICK x, y, v : x = shifted /\ y = divider.d /\ v = 2^Width
        OBVIOUS
    <3>2. x \in 0..(v - 1) /\ y \in Nat /\ v \in Nat
        BY <2>1, <2>2, <3>1, Sizes DEF Word
    <3>3. x >= y => x - y \in 0..(v - 1)
        BY <3>2
    <3> QED BY <3>1, <3>3 DEF Word
  <2>5. divider' = [divider EXCEPT !.r = IF fits THEN shifted - divider.d ELSE shifted,
                                   !.q = Wrap(2 * divider.q + (IF fits THEN 1 ELSE 0))]
    <3>1. 2 * divider.r + (IF DV!Negative(divider.q) THEN 1 ELSE 0) = 2 * divider.r + top
        BY SameWords
    <3> HIDE DEF top
    <3> QED BY <1>7, <3>1, SameWords DEF DV!ShiftSubtract
  <2> HIDE DEF top, shifted, fits
  <2> QED BY <1>2, <2>2, <2>3, <2>4, <2>5 DEF Dividers
<1>8. CASE DV!PutSigns
  <2>1. /\ Neg(divider.q) \in Word /\ Neg(divider.r) \in Word
        /\ divider.q \in Word /\ divider.r \in Word
      BY <1>2, <1>3 DEF Dividers
  <2>2. PICK x \in Word, y \in Word :
            divider' = IF corner THEN divider
                       ELSE [divider EXCEPT !.quotient = x, !.remainder = y]
      BY <1>8, <2>1, SameWords DEF DV!PutSigns
  <2>3. [divider EXCEPT !.quotient = x, !.remainder = y] \in Dividers
      BY <1>2 DEF Dividers
  <2> QED BY <1>2, <2>2, <2>3
<1> QED BY <1>1, <1>2, <1>5, <1>6, <1>7, <1>8 DEF DV!Clock

LEMMA IdExTypes ==
    ASSUME Types, Next
    PROVE  idex' \in InIdEx /\ Signals(idex') \in Controls
<1> DEFINE empty == [NoControl EXCEPT !.aluSrc1 = "pc"]
<1>1. empty \in Controls /\ \A op \in Ops \cup {"zero"} : Control(op) \in Controls
    BY DEF Controls
<1>2. ASSUME NEW c \in Controls, NEW i, NEW p \in Addr, NEW p4 \in Addr, NEW addr \in Addr,
             NEW d1 \in Word, NEW d2 \in Word, i.imm \in Int,
             i.rd \in Reg, i.rs1 \in Reg, i.rs2 \in Reg
      PROVE  /\ IdExOf(c, i, p, p4, addr, d1, d2) \in InIdEx
             /\ Signals(IdExOf(c, i, p, p4, addr, d1, d2)) \in Controls
  <2>1. c \in ControlType /\ Wrap(i.imm) \in Word
      BY <1>2, ControlsHaveTypes, Sizes
  <2>2. Signals(IdExOf(c, i, p, p4, addr, d1, d2)) = c
      BY <2>1 DEF IdExOf, Signals, ControlType
  <2>3. IdExOf(c, i, p, p4, addr, d1, d2) \in InIdEx
      BY <1>2, <2>1 DEF IdExOf, InIdEx, ControlType
  <2> QED BY <2>2, <2>3
<1>3. EmptyIdEx \in InIdEx /\ Signals(EmptyIdEx) \in Controls
  <2>1. /\ ZeroWord.imm \in Int /\ ZeroWord.rd \in Reg
        /\ ZeroWord.rs1 \in Reg /\ ZeroWord.rs2 \in Reg
      BY CoreAssumption DEF ZeroWord
  <2>2. 0 \in Addr /\ 0 \in Word
      BY AddressesAreWords
  <2> HIDE DEF empty
  <2>3. EmptyIdEx = IdExOf(empty, ZeroWord, 0, 0, 0, 0, 0)
      BY DEF EmptyIdEx, empty
  <2> QED BY <1>1, <1>2, <2>1, <2>2, <2>3
<1>4. PICK c \in Controls :
          idex' = IF ~ExEnable THEN idex
                  ELSE IF ~FalsePredict THEN EmptyIdEx
                  ELSE IdExOf(c, ifid.instr, ifid.pc, ifid.pc4, NewAddress,
                              ReadReg(ifid.instr.rs1), ReadReg(ifid.instr.rs2))
  <2>1. (IF NoOp THEN empty ELSE Control(ifid.instr.op)) \in Controls
      BY <1>1, DecodedInId
  <2> QED BY <2>1 DEF Next, ClockIdEx
<1>5. idex \in InIdEx /\ Signals(idex) \in Controls
    BY DEF Types
<1>6. ReadReg(ifid.instr.rs1) \in Word /\ ReadReg(ifid.instr.rs2) \in Word
    BY ReadIsWord, DecodedInId
<1>7. LET i == IdExOf(c, ifid.instr, ifid.pc, ifid.pc4, NewAddress,
                      ReadReg(ifid.instr.rs1), ReadReg(ifid.instr.rs2))
      IN  i \in InIdEx /\ Signals(i) \in Controls
    BY <1>2, <1>6, DecodedInId
<1> QED BY <1>3, <1>4, <1>5, <1>7

LEMMA LaterTypes ==
    ASSUME Types, Next
    PROVE  /\ exmem' \in InExMem /\ memwb' \in InMemWb
           /\ regs' \in [Reg -> Word] /\ regs'[0] = 0
           /\ dmem' \in [0..(MemSize - 1) -> Word] /\ dmemOut' \in Word
<1> USE DEF Types
<1>1. exmem' \in InExMem
    BY ResultIsWord, OperandsAreWords DEF Next, ClockExMem, InIdEx, InExMem
<1>2. memwb' \in InMemWb
    BY DEF Next, ClockMemWb, InExMem, InMemWb
<1>3. regs' \in [Reg -> Word] /\ regs'[0] = 0
  <2>1. regs' = RegsAfterWB /\ DataForReg \in Word
      BY WrittenIsWord DEF Next
  <2> QED BY <2>1, CoreAssumption DEF RegsAfterWB, InMemWb
<1>4. DmemAddress \in 0..(MemSize - 1)
  <2>1. exmem.result \in Int /\ MemSize \in Nat \ {0}
      BY Sizes, CoreAssumption DEF InExMem
  <2> QED BY <2>1 DEF DmemAddress
<1>5. dmem' \in [0..(MemSize - 1) -> Word] /\ dmemOut' \in Word
    BY <1>4, OperandsAreWords DEF Next, ClockDmem
<1> QED BY <1>1, <1>2, <1>3, <1>5

LEMMA TypesStep == Types /\ [Next]_vars => Types'
<1> SUFFICES ASSUME Types, [Next]_vars PROVE Types'
    OBVIOUS
<1>1. CASE Next
    BY <1>1, FetchTypes, DividerTypes, IdExTypes, LaterTypes DEF Types, Signals
<1>2. CASE UNCHANGED vars
    BY <1>2 DEF vars, Types, Signals
<1> QED BY <1>1, <1>2

(***************************************************************************)
(* Every register of the core keeps its type, and ID/EX holds the control  *)
(* signals of one operation.                                               *)
(***************************************************************************)
THEOREM TypesInvariance == Spec => []Types
BY InitTypes, TypesStep, PTL DEF Spec

(***************************************************************************)
(* The registers of the core hold words, addresses and known signals,      *)
(* whatever the program and the width of the words.                        *)
(***************************************************************************)
THEOREM TypeCorrect == Spec => []TypeOK
BY TypesInvariance, TypesAreOK, PTL

-----------------------------------------------------------------------------
(* An instruction has the same kind as a word and decoded in ID/EX.        *)

Divisions == {"DIV", "DIVU", "REM", "REMU"}

LEMMA KindOfNothing ==
    ASSUME NEW r, Signals(r) = [NoControl EXCEPT !.aluSrc1 = "pc"] \/ Signals(r) = NoControl
    PROVE  KindDecoded(r) = "zero"
<1>1. /\ r.memRead = FALSE /\ r.memWrite = FALSE /\ r.aluOp = "AND"
      /\ r.branch = "none" /\ r.writeReg = FALSE
    BY DEF Signals, NoControl
<1> QED BY <1>1, Zenon DEF KindDecoded, IsNop

Computes(r) ==
    /\ r.memRead = FALSE /\ r.memWrite = FALSE
    /\ r.branch = "none" /\ r.writeReg = TRUE /\ r.toReg = "alu"

\* Register and immediate operations that are no divisions.
LEMMA SignalsOfRegister ==
    ASSUME NEW op \in DOMAIN RTypeALU, NEW r, Signals(r) = Control(op)
    PROVE  Computes(r) /\ r.aluOp = RTypeALU[op] /\ r.aluSrc2 = "reg"
<1>1. Signals(r) = DecodeR(op)
    BY Decoded
<1> QED BY <1>1 DEF Signals, DecodeR, NoControl, Computes

LEMMA SignalsOfImmediate ==
    ASSUME NEW op \in DOMAIN ITypeALU, NEW r, Signals(r) = Control(op)
    PROVE  Computes(r) /\ r.aluOp = ITypeALU[op] /\ r.aluSrc1 = "reg" /\ r.aluSrc2 = "imm"
<1>1. Signals(r) = DecodeI(op)
    BY Decoded
<1> QED BY <1>1 DEF Signals, DecodeI, NoControl, Computes

LEMMA SignalsOfUpper ==
    ASSUME NEW op \in {"lui", "auipc"}, NEW r, Signals(r) = Control(op)
    PROVE  /\ Computes(r) /\ r.aluOp \in {"FWD2", "ADD"}
           /\ r.aluSrc1 = "pc" \/ r.aluOp = "FWD2"
<1>1. CASE op = "lui"
  <2>1. Signals(r) = DecodeLUI
      BY <1>1, Decoded
  <2> QED BY <2>1 DEF Signals, DecodeLUI, NoControl, Computes
<1>2. CASE op = "auipc"
  <2>1. Signals(r) = DecodeAUIPC
      BY <1>2, Decoded
  <2> QED BY <2>1 DEF Signals, DecodeAUIPC, NoControl, Computes
<1> QED BY <1>1, <1>2

LEMMA KindOfAlu ==
    ASSUME NEW r, Computes(r), r.aluOp \notin Divisions, ~IsNop(r)
    PROVE  KindDecoded(r) = "alu"
BY Zenon DEF Computes, KindDecoded, Divisions

\* The signals that tell the kind.
Decodes(r, i) ==
    Signals(r) = Control(i.op) /\ r.rd = i.rd /\ r.rs1 = i.rs1 /\ r.imm = Wrap(i.imm)

LEMMA Operations ==
    /\ DOMAIN RTypeALU = {"add", "sub", "slt", "mul", "div", "divu", "rem", "remu"}
    /\ DOMAIN ITypeALU = {"addi", "slti"}
    /\ {RTypeALU[op] : op \in {"add", "sub", "slt", "mul"}} \subseteq ALUOps \ Divisions
    /\ {RTypeALU[op] : op \in {"div", "divu", "rem", "remu"}} \subseteq Divisions
    /\ ITypeALU["addi"] = "ADD" /\ ITypeALU["slti"] = "SLT"
BY DEF RTypeALU, ITypeALU, ALUOps, Divisions

LEMMA KindOfDecoded ==
    ASSUME NEW i \in Fetchable, NEW r, Decodes(r, i)
    PROVE  KindDecoded(r) = KindOf(i)
<1> DEFINE alu == {"add", "sub", "slt", "mul", "addi", "slti", "lui", "auipc"}
<1>1. CASE i = ZeroWord
  <2>1. Signals(r) = NoControl
      BY <1>1, Decoded DEF Decodes, ZeroWord
  <2>2. KindOf(i) = "zero"
    <3>1. i # Nop /\ i.op = "zero"
        BY <1>1 DEF ZeroWord, Nop
    <3>2. i.op \notin {"lw", "sw", "div", "divu", "rem", "remu"}
          /\ i.op \notin Branches \cup {"jal", "jalr"}
        BY <3>1 DEF Branches
    <3> QED BY <1>1, <3>1, <3>2, Zenon DEF KindOf
  <2> QED BY <2>1, <2>2, KindOfNothing
<1>2. ASSUME i \in Instruction PROVE i # ZeroWord /\ i.op \in Ops
    BY <1>2 DEF Instruction, ZeroWord, Ops, RTypeALU, ITypeALU, Branches
<1>3. ASSUME i \in Instruction, i.op \in alu, i # Nop PROVE KindOf(i) = "alu"
  <2>1. i.op \notin {"lw", "sw", "div", "divu", "rem", "remu"}
        /\ i.op \notin Branches \cup {"jal", "jalr"}
      BY <1>3 DEF Branches
  <2> QED BY <1>2, <1>3, <2>1, Zenon DEF KindOf
<1>4. CASE i \in Instruction /\ i.op \in {"add", "sub", "slt", "mul"}
  <2>1. Computes(r) /\ r.aluOp \notin Divisions /\ r.aluSrc2 = "reg"
      BY <1>4, SignalsOfRegister, Operations DEF Decodes
  <2>2. KindDecoded(r) = "alu"
      BY <2>1, KindOfAlu DEF IsNop
  <2>3. i # Nop
      BY <1>4 DEF Nop
  <2> QED BY <1>3, <1>4, <2>2, <2>3
<1>5. CASE i \in Instruction /\ i.op \in {"div", "divu", "rem", "remu"}
  <2>1. Computes(r) /\ r.aluOp \in Divisions
      BY <1>5, SignalsOfRegister, Operations DEF Decodes
  <2>2. KindDecoded(r) = "div"
    <3>1. r.aluOp # "ADD"
        BY <2>1 DEF Divisions
    <3> QED BY <2>1, <3>1, Zenon DEF KindDecoded, IsNop, Divisions, Computes
  <2>3. i # Nop /\ i.op \notin Branches \cup {"jal", "jalr"} /\ i.op # "lw" /\ i.op # "sw"
      BY <1>5 DEF Nop, Branches
  <2>4. KindOf(i) = "div"
      BY <1>2, <1>5, <2>3, Zenon DEF KindOf
  <2> QED BY <2>2, <2>4
<1>6. CASE i \in Instruction /\ i.op \in {"lui", "auipc"}
  <2>1. /\ Computes(r) /\ r.aluOp \in {"FWD2", "ADD"}
        /\ r.aluSrc1 = "pc" \/ r.aluOp = "FWD2"
      BY <1>6, SignalsOfUpper DEF Decodes
  <2>2. r.aluOp \notin Divisions /\ ~IsNop(r)
      BY <2>1 DEF Divisions, IsNop
  <2>3. i # Nop
      BY <1>6 DEF Nop
  <2> QED BY <1>3, <1>6, <2>1, <2>2, <2>3, KindOfAlu
<1>7. CASE i \in Instruction /\ i.op = "slti"
  <2>1. Computes(r) /\ r.aluOp = "SLT"
      BY <1>7, SignalsOfImmediate, Operations DEF Decodes
  <2>2. r.aluOp \notin Divisions /\ ~IsNop(r)
      BY <2>1 DEF Divisions, IsNop
  <2>3. i # Nop
      BY <1>7 DEF Nop
  <2> QED BY <1>3, <1>7, <2>1, <2>2, <2>3, KindOfAlu
<1>8. CASE i \in Instruction /\ i.op = "addi"
  <2>1. Computes(r) /\ r.aluOp = "ADD" /\ r.aluSrc1 = "reg" /\ r.aluSrc2 = "imm"
      BY <1>8, SignalsOfImmediate, Operations DEF Decodes
  <2>2. r.aluOp \notin Divisions
      BY <2>1 DEF Divisions
  <2>3. IsNop(r) <=> i.rd = 0 /\ i.rs1 = 0 /\ Wrap(i.imm) = 0
      BY <2>1 DEF IsNop, Decodes, Computes
  <2>4. CASE i = Nop
    <3>1. IsNop(r)
      <4>1. 0 % 2^Width = 0
        <5>1. PICK v : v = 2^Width
            OBVIOUS
        <5>2. v \in Nat /\ v >= 2
            BY <5>1, Sizes
        <5>3. 0 % v = 0
            BY <5>2
        <5> QED BY <5>1, <5>3
      <4> QED BY <2>3, <2>4, <4>1 DEF Nop, Wrap
    <3>2. KindDecoded(r) = "nop"
        BY <2>1, <2>2, <3>1, Zenon DEF KindDecoded, Computes, Divisions
    <3>3. i # ZeroWord /\ i.op \notin {"lw", "sw", "div", "divu", "rem", "remu"}
          /\ i.op \notin Branches \cup {"jal", "jalr"}
        BY <1>2, <1>8 DEF Branches
    <3>4. KindOf(i) = "nop"
        BY <2>4, <3>3, Zenon DEF KindOf
    <3> QED BY <3>2, <3>4
  <2>5. CASE i # Nop
    <3>1. ~IsNop(r)
      <4>1. i.imm \in Word
          BY <1>8 DEF Instruction, Branches
      <4>2. Wrap(i.imm) = i.imm
          BY <4>1, WordsWrap
      <4> QED BY <1>8, <2>3, <2>5, <4>2 DEF Instruction
    <3> QED BY <1>3, <1>8, <2>1, <2>2, <2>5, <3>1, KindOfAlu
  <2> QED BY <2>4, <2>5
<1>9. CASE i \in Instruction /\ i.op \in {"lw", "sw"}
  <2>1. /\ r.memRead = (i.op = "lw") /\ r.memWrite = (i.op = "sw") /\ r.aluOp = "ADD"
        /\ r.branch = "none" /\ r.writeReg = (i.op = "lw") /\ (i.op = "lw" => r.toReg = "mem")
    <3>1. CASE i.op = "lw"
      <4>1. Signals(r) = DecodeLoad
          BY <3>1, Decoded DEF Decodes
      <4> QED BY <3>1, <4>1 DEF Signals, DecodeLoad, NoControl
    <3>2. CASE i.op = "sw"
      <4>1. Signals(r) = DecodeStore
          BY <3>2, Decoded DEF Decodes
      <4> QED BY <3>2, <4>1 DEF Signals, DecodeStore, NoControl
    <3> QED BY <1>9, <3>1, <3>2
  <2>2. i # Nop /\ i.op \notin Branches \cup {"jal", "jalr"}
        /\ i.op \notin {"div", "divu", "rem", "remu"}
      BY <1>9 DEF Nop, Branches
  <2>3. KindOf(i) = IF i.op = "lw" THEN "load" ELSE "store"
      BY <1>2, <1>9, <2>2, Zenon DEF KindOf
  <2>4. ~IsNop(r) /\ r.aluOp \notin Divisions
      BY <2>1 DEF IsNop, Divisions
  <2>5. KindDecoded(r) = IF i.op = "lw" THEN "load" ELSE "store"
    <3>1. CASE i.op = "lw"
      <4>1. r.memRead /\ ~r.memWrite /\ r.writeReg /\ r.toReg # "alu"
          BY <2>1, <3>1
      <4>2. KindDecoded(r) = "load"
          BY <2>1, <2>4, <4>1, Zenon DEF KindDecoded, Divisions
      <4> QED BY <3>1, <4>2
    <3>2. CASE i.op = "sw"
        BY <2>1, <2>4, <3>2, Zenon DEF KindDecoded, Divisions
    <3> QED BY <1>9, <3>1, <3>2
  <2> QED BY <2>3, <2>5
<1>10. CASE i \in Instruction /\ i.op \in Branches \cup {"jal", "jalr"}
  <2>1. /\ r.memRead = FALSE /\ r.memWrite = FALSE /\ r.branch = i.op
        /\ r.aluOp \in {"SUB", "ADD", "AND"} /\ (r.toReg # "alu" \/ r.writeReg = FALSE)
    <3>1. CASE i.op \in Branches
      <4>1. Signals(r) = DecodeBranch(i.op)
          BY <3>1, Decoded DEF Decodes
      <4> QED BY <4>1 DEF Signals, DecodeBranch, NoControl
    <3>2. CASE i.op = "jalr"
      <4>1. Signals(r) = DecodeJALR
          BY <3>2, Decoded DEF Decodes
      <4> QED BY <3>2, <4>1 DEF Signals, DecodeJALR, NoControl
    <3>3. CASE i.op = "jal"
      <4>1. Signals(r) = DecodeJAL
          BY <3>3, Decoded DEF Decodes
      <4> QED BY <3>3, <4>1 DEF Signals, DecodeJAL, NoControl
    <3> QED BY <1>10, <3>1, <3>2, <3>3
  <2>2. i # Nop /\ i.op # "none"
        /\ i.op \notin {"lw", "sw", "div", "divu", "rem", "remu"}
      BY <1>10 DEF Nop, Branches
  <2>3. KindOf(i) = "branch"
      BY <1>2, <1>10, <2>2, Zenon DEF KindOf
  <2>4. ~IsNop(r) /\ r.aluOp \notin Divisions
      BY <2>1 DEF IsNop, Divisions
  <2>5. KindDecoded(r) = "branch"
      BY <2>1, <2>2, <2>4, Zenon DEF KindDecoded, Divisions
  <2> QED BY <2>3, <2>5
<1>11. i \in Instruction =>
           \/ i.op \in {"add", "sub", "slt", "mul"} \/ i.op \in {"div", "divu", "rem", "remu"}
           \/ i.op \in {"lui", "auipc"} \/ i.op = "slti" \/ i.op = "addi"
           \/ i.op \in {"lw", "sw"} \/ i.op \in Branches \cup {"jal", "jalr"}
    BY <1>2, Operations DEF Ops
<1> QED BY <1>1, <1>4, <1>5, <1>6, <1>7, <1>8, <1>9, <1>10, <1>11 DEF Fetchable

\* The kind in EX tells what its signals are.
LEMMA KindInEx ==
    ASSUME NEW r, Signals(r) \in Controls
    PROVE  /\ KindDecoded(r) = "load" <=> r.memRead
           /\ KindDecoded(r) = "div" <=> r.aluOp \in Divisions
           /\ KindDecoded(r) = "branch" <=> r.branch # "none"
<1>1. /\ r.memRead \/ r.memWrite => r.aluOp \notin Divisions /\ r.branch = "none"
      /\ ~(r.memRead /\ r.memWrite)
      /\ r.aluOp \in Divisions => r.branch = "none" /\ r.aluOp # "ADD" /\ r.writeReg
      /\ r.branch # "none" => ~(r.writeReg /\ r.toReg = "alu")
      /\ r.memRead => r.writeReg /\ r.toReg # "alu"
      /\ r.memWrite => ~r.writeReg
      /\ r.branch = "none" /\ ~r.memRead => r.toReg = "alu"
    BY ControlsAgree DEF Signals, Divisions
<1>2. CASE r.memRead
  <2>1. KindDecoded(r) = "load"
      BY <1>1, <1>2, Zenon DEF KindDecoded, IsNop, Divisions
  <2> QED BY <1>1, <1>2, <2>1
<1>3. CASE r.memWrite
  <2>1. KindDecoded(r) = "store"
      BY <1>1, <1>3, Zenon DEF KindDecoded, IsNop, Divisions
  <2> QED BY <1>1, <1>3, <2>1
<1>4. CASE r.aluOp \in Divisions
  <2>1. KindDecoded(r) = "div"
      BY <1>1, <1>4, Zenon DEF KindDecoded, IsNop, Divisions
  <2> QED BY <1>1, <1>4, <2>1
<1>5. CASE r.branch # "none"
  <2>1. KindDecoded(r) = "branch"
      BY <1>1, <1>5, Zenon DEF KindDecoded, IsNop, Divisions
  <2> QED BY <1>1, <1>5, <2>1
<1>6. CASE ~r.memRead /\ ~r.memWrite /\ r.aluOp \notin Divisions /\ r.branch = "none"
  <2>1. KindDecoded(r) \in {"nop", "alu", "zero"}
    <3>1. CASE IsNop(r)
        BY <1>1, <1>6, <3>1, Zenon DEF KindDecoded, IsNop, Divisions
    <3>2. CASE ~IsNop(r) /\ r.writeReg
        BY <1>1, <1>6, <3>2, Zenon DEF KindDecoded, Divisions
    <3>3. CASE ~IsNop(r) /\ ~r.writeReg
        BY <1>1, <1>6, <3>3, Zenon DEF KindDecoded, Divisions
    <3> QED BY <3>1, <3>2, <3>3
  <2> QED BY <1>6, <2>1
<1> QED BY <1>2, <1>3, <1>4, <1>5, <1>6

LEMMA KindFetched ==
    ASSUME NEW i \in Fetchable
    PROVE  /\ KindOf(i) \in CTL!Kind
           /\ i \in Instruction => KindOf(i) \in CTL!Program
           /\ KindOf(i) = "store" <=> Control(i.op).memWrite
           /\ KindOf(ZeroWord) = "zero" /\ KindOf(Nop) = "nop"
<1>1. Nop # ZeroWord
    BY DEF Nop, ZeroWord
<1>2. /\ ZeroWord.op \notin {"lw", "sw", "div", "divu", "rem", "remu"} \cup Branches \cup {"jal", "jalr"}
      /\ Nop.op \notin {"lw", "sw", "div", "divu", "rem", "remu"} \cup Branches \cup {"jal", "jalr"}
    BY DEF Nop, ZeroWord, Branches
<1>3. KindOf(ZeroWord) = "zero" /\ KindOf(Nop) = "nop"
    BY <1>1, <1>2, Zenon DEF KindOf
<1>4. CASE i = ZeroWord
  <2>1. ~Control(i.op).memWrite
      BY <1>4, Decoded DEF ZeroWord, NoControl
  <2>2. i \notin Instruction
      BY <1>4 DEF Instruction, ZeroWord, Ops, RTypeALU, ITypeALU, Branches
  <2> QED BY <1>3, <1>4, <2>1, <2>2 DEF CTL!Kind
<1>5. CASE i = Nop
  <2>1. ~Control(i.op).memWrite
    <3>1. i.op = "addi" /\ "addi" \in DOMAIN ITypeALU
        BY <1>5, Operations DEF Nop
    <3> QED BY <3>1, Decoded DEF NoControl, DecodeI
  <2> QED BY <1>3, <1>5, <2>1 DEF CTL!Kind, CTL!Program
<1>6. CASE i # ZeroWord /\ i # Nop
  <2>1. i \in Instruction /\ i.op \in Ops
      BY <1>6 DEF Fetchable, Instruction
  <2>2. CASE i.op = "sw"
    <3>1. i.op \notin Branches \cup {"jal", "jalr"}
        BY <2>2 DEF Branches
    <3>2. KindOf(i) = "store"
        BY <1>6, <2>2, <3>1, Zenon DEF KindOf
    <3>3. Control(i.op).memWrite
        BY <2>2, Decoded DEF DecodeStore, NoControl
    <3> QED BY <1>3, <3>2, <3>3 DEF CTL!Kind, CTL!Program
  <2>3. CASE i.op # "sw"
    <3>1. KindOf(i) \in {"load", "div", "branch", "alu"}
      <4>1. CASE i.op = "lw"
        <5>1. i.op \notin Branches \cup {"jal", "jalr"}
            BY <4>1 DEF Branches
        <5> QED BY <1>6, <4>1, <5>1, Zenon DEF KindOf
      <4>2. CASE i.op \in {"div", "divu", "rem", "remu"}
        <5>1. i.op \notin Branches \cup {"jal", "jalr"}
            BY <4>2 DEF Branches
        <5> QED BY <1>6, <2>3, <4>2, <5>1, Zenon DEF KindOf
      <4>3. CASE i.op \in Branches \cup {"jal", "jalr"}
        <5>1. i.op \notin {"div", "divu", "rem", "remu"} /\ i.op # "lw"
            BY <4>3 DEF Branches
        <5> QED BY <1>6, <2>3, <4>3, <5>1, Zenon DEF KindOf
      <4>4. CASE i.op # "lw" /\ i.op \notin {"div", "divu", "rem", "remu"}
                 /\ i.op \notin Branches \cup {"jal", "jalr"}
          BY <1>6, <2>3, <4>4, Zenon DEF KindOf
      <4> QED BY <4>1, <4>2, <4>3, <4>4
    <3>2. ~Control(i.op).memWrite
      <4>1. CASE i.op \in DOMAIN RTypeALU
          BY <4>1, Decoded DEF DecodeR, NoControl
      <4>2. CASE i.op \in DOMAIN ITypeALU
          BY <4>2, Decoded DEF DecodeI, NoControl
      <4>3. CASE i.op \in Branches
          BY <4>3, Decoded DEF DecodeBranch, NoControl
      <4>4. CASE i.op = "lw"
          BY <4>4, Decoded DEF DecodeLoad, NoControl
      <4>5. CASE i.op = "lui" \/ i.op = "auipc"
          BY <4>5, Decoded DEF DecodeLUI, DecodeAUIPC, NoControl
      <4>6. CASE i.op = "jal" \/ i.op = "jalr"
          BY <4>6, Decoded DEF DecodeJAL, DecodeJALR, NoControl
      <4> QED BY <2>1, <2>3, <4>1, <4>2, <4>3, <4>4, <4>5, <4>6 DEF Ops
    <3> QED BY <1>3, <3>1, <3>2 DEF CTL!Kind, CTL!Program
  <2> QED BY <2>2, <2>3
<1> QED BY <1>4, <1>5, <1>6

-----------------------------------------------------------------------------
(* The core and the control model: the mapped registers, and the signals   *)
(* of both.                                                                *)

Dependent == idex.rd # 0 /\ (idex.rd = ifid.instr.rs1 \/ idex.rd = ifid.instr.rs2)
AtCorner  == DV!Corner(IsSigned, Op1, Op2)

LEMMA SameSignals ==
    ASSUME Types
    PROVE  /\ CTL!DivOp = DivOp /\ CTL!NoOp(Dependent) = NoOp
           /\ CTL!IL!BrdIfIdEnable(CTL!NoOp(Dependent), exmem.memRead, CTL!DivOp) = IfEnable
           /\ CTL!IL!IdExEnable(exmem.memRead, CTL!DivOp) = ExEnable
<1>1. CTL!DivOp = DivOp
    BY KindInEx DEF Types, CTL!DivOp, DivOp, Divisions
<1>2. CTL!NoOp(Dependent) = NoOp
  <2>1. (KindDecoded(idex) = "load") = idex.memRead
      BY KindInEx DEF Types, InIdEx
  <2>2. (KindOf(ifid.instr) # "store") = (~Control(ifid.instr.op).memWrite)
      BY KindFetched DEF Types
  <2>3. [ifid EXCEPT !.instr = KindOf(ifid.instr)].instr = KindOf(ifid.instr)
      BY DEF Types
  <2> QED BY <2>1, <2>2, <2>3 DEF CTL!NoOp, NoOp, Dependent
<1>3. CTL!IL!BrdIfIdEnable(CTL!NoOp(Dependent), exmem.memRead, CTL!DivOp) = IfEnable
    BY <1>1, <1>2 DEF IfEnable, MemRead, IL!BrdIfIdEnable, CTL!IL!BrdIfIdEnable,
       IL!DivBusy, CTL!IL!DivBusy, IL!StallCD, CTL!IL!StallCD
<1>4. CTL!IL!IdExEnable(exmem.memRead, CTL!DivOp) = ExEnable
    BY <1>1 DEF ExEnable, MemRead, IL!IdExEnable, CTL!IL!IdExEnable,
       IL!DivBusy, CTL!IL!DivBusy, IL!StallCD, CTL!IL!StallCD
<1> QED BY <1>1, <1>2, <1>3, <1>4

LEMMA SameStall ==
    ASSUME Types, Next
    PROVE  CTL!IL!Clock(exmem.memRead, CTL!DivOp, AtCorner)
<1>1. IL!Clock(MemRead, DivOp, AtCorner)
    BY DEF Next, AtCorner
<1>2. CTL!DivOp = DivOp
    BY SameSignals
<1>3. IL!ClockDivider(IL!DividerStart(DivOp), AtCorner)
          => CTL!IL!ClockDivider(CTL!IL!DividerStart(CTL!DivOp), AtCorner)
    BY <1>2 DEF IL!ClockDivider, CTL!IL!ClockDivider, IL!DividerStart, CTL!IL!DividerStart,
       IL!Idle, CTL!IL!Idle, IL!Accept, CTL!IL!Accept, IL!Prepare, CTL!IL!Prepare,
       IL!Calculate, CTL!IL!Calculate, IL!Finish, CTL!IL!Finish
<1> QED BY <1>1, <1>3 DEF IL!Clock, CTL!IL!Clock, MemRead, IL!ClockCondDelay, CTL!IL!ClockCondDelay

LEMMA SameFrontEnd ==
    ASSUME Types, NEW en \in BOOLEAN, NEW fp \in BOOLEAN, NEW target, NEW target2,
           FE!Clock(en, fp, target), fp \/ target = target2
    PROVE  CTL!FE!Clock(en, fp, target2)
<1>1. KindOf(ZeroWord) = "zero" /\ KindOf(Nop) = "nop"
    BY KindFetched DEF Fetchable
<1>2. CTL!FE!ClockPC(en, fp, target2)
    BY DEF FE!Clock, FE!ClockPC, CTL!FE!ClockPC, FE!Plus4, CTL!FE!Plus4
<1>3. CTL!FE!ClockImem
  <2>1. imem' = imem /\ imemOut' = imem[pc] /\ pc \in 0..LastAddr
      BY DEF FE!Clock, FE!ClockImem, Types, Addr
  <2> QED BY <2>1 DEF CTL!FE!ClockImem, KindOf
<1>4. CTL!FE!ClockBrd(en, fp)
    BY DEF FE!Clock, FE!ClockBrd, CTL!FE!ClockBrd, FE!Plus4, CTL!FE!Plus4, FE!EmptyBrd, CTL!FE!EmptyBrd
<1>5. CTL!FE!ClockInstrControl(en)
    BY DEF FE!Clock, FE!ClockInstrControl, CTL!FE!ClockInstrControl
<1>6. CTL!FE!ClockBackup(fp)
    BY <1>1 DEF FE!Clock, FE!ClockBackup, CTL!FE!ClockBackup, KindOf
<1>7. CTL!FE!ClockRstAfterJump(fp) /\ CTL!FE!ClockPrevReg(en, fp)
    BY DEF FE!Clock, FE!ClockRstAfterJump, CTL!FE!ClockRstAfterJump, FE!ClockPrevReg,
       CTL!FE!ClockPrevReg
<1>8. CTL!FE!ClockIfId(en, fp)
    BY <1>1 DEF FE!Clock, FE!ClockIfId, CTL!FE!ClockIfId, FE!Mux11, CTL!FE!Mux11, FE!Mux10,
       CTL!FE!Mux10, FE!EmptyIfId, CTL!FE!EmptyIfId, FE!IsBubble, CTL!FE!IsBubble
<1> QED BY <1>2, <1>3, <1>4, <1>5, <1>6, <1>7, <1>8 DEF CTL!FE!Clock

\* Only a branch redirects, and to an address.
BranchesRedirect ==
    /\ BranchTaken \in BOOLEAN /\ Target \in Addr
    /\ BranchTaken => idex.branch # "none"

LEMMA Redirects == Types => BranchesRedirect
<1> SUFFICES ASSUME Types PROVE BranchesRedirect
    OBVIOUS
<1> USE DEF BranchesRedirect
<1>0. (ALUResult >= SignBit) \in BOOLEAN /\ (Op1 < Op2) \in BOOLEAN /\ (Op1 >= Op2) \in BOOLEAN
    OBVIOUS
<1>1. idex.branch \in Branches \cup {"none", "jal", "jalr"}
    BY DEF Types, InIdEx
<1>2. CASE idex.branch = "none"
  <2>1. BranchTaken = FALSE
      BY <1>2, Zenon DEF BranchTaken
  <2> QED BY <2>1, TargetIsAddress
<1>3. CASE idex.branch \in {"jal", "jalr"}
  <2>1. BranchTaken = TRUE
      BY <1>3, Zenon DEF BranchTaken
  <2> QED BY <1>3, <2>1, TargetIsAddress
<1>4. CASE idex.branch \in Branches
  <2>1. BranchTaken \in BOOLEAN
    <3>1. CASE idex.branch \in {"beq", "bne"}
        BY <3>1, Zenon DEF BranchTaken
    <3>2. CASE idex.branch \in {"blt", "bge"}
        BY <1>0, <3>2, Zenon DEF BranchTaken, Negative
    <3>3. CASE idex.branch \in {"bltu", "bgeu"}
        BY <1>0, <3>3, Zenon DEF BranchTaken
    <3> QED BY <1>4, <3>1, <3>2, <3>3 DEF Branches
  <2> QED BY <1>4, <2>1, TargetIsAddress DEF Branches
<1> QED BY <1>1, <1>2, <1>3, <1>4

LEMMA RedirectsNext == Types' => BranchesRedirect'
BY Redirects, PTL

\* While ID/EX holds, its branch decides the same again: a division is no
\* branch, and the wait of a load holds what the operands come from.
LEMMA DecisionHolds ==
    ASSUME Types, Types', Next, ~ExEnable
    PROVE  /\ idex' = idex
           /\ BranchTaken' = BranchTaken /\ (BranchTaken => Target' = Target)
<1>1. idex' = idex /\ exmem' = exmem
    BY DEF Next, ClockIdEx, ClockExMem
<1>2. CASE idex.branch = "none"
  <2>1. BranchTaken = FALSE
      BY <1>2, Zenon DEF BranchTaken
  <2>2. BranchTaken' = FALSE
    <3>1. idex'.branch = "none"
        BY <1>1, <1>2
    <3> QED BY <3>1, Zenon DEF BranchTaken
  <2> QED BY <1>1, <2>1, <2>2
<1>3. CASE idex.branch # "none"
  <2>1. idex.aluOp \in {"ADD", "SUB", "AND"}
      BY <1>3, ControlsAgree DEF Types, Signals
  <2>2. ~WbEnable
      BY <2>1 DEF WbEnable, ExEnable, IL!MemWbEnable, IL!IdExEnable, IL!DivBusy, DivOp
  <2>3. memwb' = memwb
      BY <2>2 DEF Next, ClockMemWb
  <2>4. Op1' = Op1 /\ Op2' = Op2
      BY <1>1, <2>3 DEF Op1, Op2, Forwarded, ForwardFromMem, ForwardFromWB, DataForReg
  <2>5. ALUResult' = ALUResult
    <3>1. CASE idex.aluOp = "ADD"
      <4>1. ALUResult = Wrap(Op1 + Op2)
          BY <3>1, Zenon DEF ALUResult
      <4>2. idex'.aluOp = "ADD"
          BY <1>1, <3>1
      <4>3. ALUResult' = Wrap(Op1' + Op2')
          BY <4>2, Zenon DEF ALUResult, Wrap
      <4> QED BY <2>4, <4>1, <4>3
    <3>2. CASE idex.aluOp = "SUB"
      <4>1. ALUResult = Wrap(Op1 - Op2)
          BY <3>2, Zenon DEF ALUResult
      <4>2. idex'.aluOp = "SUB"
          BY <1>1, <3>2
      <4>3. ALUResult' = Wrap(Op1' - Op2')
          BY <4>2, Zenon DEF ALUResult, Wrap
      <4> QED BY <2>4, <4>1, <4>3
    <3>3. CASE idex.aluOp = "AND"
      <4>1. ALUResult = And(Op1, Op2)
          BY <3>3, Zenon DEF ALUResult
      <4>2. idex'.aluOp = "AND"
          BY <1>1, <3>3
      <4>3. ALUResult' = And(Op1', Op2')
          BY <4>2, Zenon DEF ALUResult
      <4> QED BY <2>4, <4>1, <4>3
    <3> QED BY <2>1, <3>1, <3>2, <3>3
  <2>6. BranchTaken' = BranchTaken
      BY <1>1, <2>4, <2>5 DEF BranchTaken, Negative, SignBit
  <2>7. Target' = Target
      BY <1>1, <2>5 DEF Target
  <2> QED BY <1>1, <2>6, <2>7
<1> QED BY <1>2, <1>3

InCtlEx == [kind |-> KindDecoded(idex), redirect |-> BranchTaken,
            target |-> IF BranchTaken THEN Target ELSE 0]

\* An instruction that does nothing is a bubble.
LEMMA NothingIsBubble ==
    ASSUME Types', Signals(idex)' = [NoControl EXCEPT !.aluSrc1 = "pc"]
    PROVE  InCtlEx' = CTL!Bubble
<1>1. KindDecoded(idex)' = "zero"
    BY KindOfNothing
<1>2. idex'.branch = "none"
    BY DEF Signals, NoControl
<1>3. BranchTaken' = FALSE
    BY <1>2, Zenon DEF BranchTaken
<1> QED BY <1>1, <1>3 DEF InCtlEx, CTL!Bubble, CTL!Falls

\* ID/EX takes the control signals as they are.
LEMMA HoldsSignals ==
    ASSUME NEW c \in Controls, NEW i, NEW p, NEW p4, NEW addr, NEW d1, NEW d2
    PROVE  Signals(IdExOf(c, i, p, p4, addr, d1, d2)) = c
BY ControlsHaveTypes DEF IdExOf, Signals, ControlType

LEMMA SameIdEx ==
    ASSUME Types, Types', Next
    PROVE  CTL!ClockIdEx(Dependent)
<1> DEFINE i == ifid.instr
<1>0. [NoControl EXCEPT !.aluSrc1 = "pc"] \in Controls
    BY DEF Controls
<1>1. /\ CTL!IL!IdExEnable(exmem.memRead, CTL!DivOp) = ExEnable
      /\ CTL!Issue(Dependent) = (ExEnable /\ ~BranchTaken /\ ~NoOp)
    BY SameSignals DEF CTL!Issue
<1>2. CASE ~ExEnable
  <2>1. InCtlEx' = InCtlEx
    <3>1. /\ idex' = idex /\ BranchTaken' = BranchTaken
          /\ BranchTaken => Target' = Target
        BY <1>2, DecisionHolds
    <3>2. KindDecoded(idex)' = KindDecoded(idex)
        BY <3>1 DEF KindDecoded, IsNop
    <3> QED BY <3>1, <3>2 DEF InCtlEx
  <2> QED BY <1>1, <1>2, <2>1 DEF CTL!ClockIdEx, InCtlEx
<1>3. CASE ExEnable /\ (BranchTaken \/ NoOp)
  <2>1. Signals(idex)' = [NoControl EXCEPT !.aluSrc1 = "pc"]
    <3>1. CASE BranchTaken
      <4>1. idex' = EmptyIdEx
          BY <1>3, <3>1 DEF Next, ClockIdEx, FalsePredict
      <4> QED BY <1>0, <4>1, HoldsSignals DEF EmptyIdEx
    <3>2. CASE NoOp /\ ~BranchTaken
      <4>1. idex' = IdExOf([NoControl EXCEPT !.aluSrc1 = "pc"], i, ifid.pc, ifid.pc4, NewAddress,
                           ReadReg(i.rs1), ReadReg(i.rs2))
          BY <1>3, <3>2 DEF Next, ClockIdEx, FalsePredict
      <4> QED BY <1>0, <4>1, HoldsSignals
    <3> QED BY <1>3, <3>1, <3>2
  <2>2. InCtlEx' = CTL!Bubble
      BY <2>1, NothingIsBubble
  <2> QED BY <1>1, <1>3, <2>2 DEF CTL!ClockIdEx, InCtlEx
<1>4. CASE ExEnable /\ ~BranchTaken /\ ~NoOp
  <2>1. i \in Fetchable
      BY DEF Types
  <2>2. Decodes(idex', i)
    <3>1. i.op \in Ops \cup {"zero"}
        BY DecodedInId
    <3>2. Control(i.op) \in Controls
        BY <3>1 DEF Controls
    <3>3. idex' = IdExOf(Control(i.op), i, ifid.pc, ifid.pc4, NewAddress,
                         ReadReg(i.rs1), ReadReg(i.rs2))
        BY <1>4 DEF Next, ClockIdEx, FalsePredict
    <3>4. Signals(idex') = Control(i.op)
        BY <3>2, <3>3, HoldsSignals
    <3> QED BY <3>3, <3>4 DEF Decodes, IdExOf
  <2>3. KindDecoded(idex') = KindOf(i)
      BY <2>1, <2>2, KindOfDecoded
  <2>4. KindDecoded(idex') = "branch" <=> idex'.branch # "none"
    <3>1. Signals(idex') \in Controls
        BY DEF Types, Signals
    <3> QED BY <3>1, KindInEx
  <2>5. BranchesRedirect'
      BY RedirectsNext
  <2>6. InCtlEx' \in CTL!InEx(KindOf(i))
    <3>1. CASE BranchTaken'
      <4>1. KindOf(i) = "branch" /\ Target' \in CTL!Addr
          BY <2>3, <2>4, <2>5, <3>1 DEF BranchesRedirect, CTL!Addr, Addr
      <4>2. InCtlEx' = CTL!Jumps(Target')
          BY <2>3, <2>5, <3>1, <4>1 DEF InCtlEx, CTL!Jumps, KindDecoded, IsNop, BranchesRedirect
      <4> QED BY <4>1, <4>2 DEF CTL!InEx
    <3>2. CASE ~BranchTaken'
      <4>1. InCtlEx' = CTL!Falls(KindOf(i))
          BY <2>3, <2>5, <3>2 DEF InCtlEx, CTL!Falls, KindDecoded, IsNop, BranchesRedirect
      <4> QED BY <4>1 DEF CTL!InEx
    <3> QED BY <3>1, <3>2
  <2>7. [ifid EXCEPT !.instr = KindOf(ifid.instr)].instr = KindOf(i)
      BY DEF Types
  <2> QED BY <1>1, <1>4, <2>6, <2>7 DEF CTL!ClockIdEx, InCtlEx
<1>5. BranchTaken \in BOOLEAN
    BY Redirects DEF BranchesRedirect
<1> QED BY <1>2, <1>3, <1>4, <1>5

LEMMA SameExMem ==
    ASSUME Types, Next
    PROVE  CTL!ClockExMem
<1>1. (KindDecoded(idex) = "load") = idex.memRead
    BY KindInEx DEF Types, InIdEx
<1>2. exmem'.memRead = IF ExEnable THEN idex.memRead ELSE exmem.memRead
    BY DEF Next, ClockExMem
<1> QED BY <1>1, <1>2, SameSignals DEF CTL!ClockExMem

-----------------------------------------------------------------------------
(* The history variable of the control model is the address of the next    *)
(* instruction in the front end: that it moves as the model says rests on  *)
(* the inductive invariant of the model.                                   *)

CP == INSTANCE PipeControlProofs WITH
    imem      <- [a \in 0..LastAddr |-> KindOf(imem[a])],
    imemOut   <- KindOf(imemOut),
    prevInstr <- KindOf(prevInstr),
    ifid      <- [ifid EXCEPT !.instr = KindOf(ifid.instr)],
    ex        <- [kind |-> KindDecoded(idex), redirect |-> BranchTaken,
                  target |-> IF BranchTaken THEN Target ELSE 0],
    memRead   <- exmem.memRead,
    expected  <- NextFetched

\* The situations of the front end, as far as the next address depends on
\* them: instructions follow each other, everything is empty, or a redirect
\* that met the wait of a load goes on.
LEMMA Situations ==
    ASSUME Types, CP!Inv
    PROVE  \/ /\ ~FE!IsBubble(brd) /\ raj = "IDLE"
              /\ ~FE!IsBubble(ifid) => brd.pc = FE!Plus4(ifid.pc)
           \/ ~BranchTaken /\ FE!IsBubble(brd) /\ FE!IsBubble(ifid)
           \/ BranchTaken /\ ExEnable
<1>0. CP!FetchInv
    BY DEF CP!Inv
<1>1. CASE CP!Boot
    BY <1>1 DEF CP!Boot, CP!FE!Reset, CP!FE!EmptyBrd, CP!FE!EmptyIfId, CP!Bubble, CP!Falls,
       FE!IsBubble, Types
<1>2. CASE CP!Steady
  <2>1. ~FE!IsBubble(brd)
      BY <1>2, CoreAssumption DEF CP!Steady, FE!IsBubble, CP!FE!Plus4, Types, Addr
  <2>2. ~FE!IsBubble(ifid) => brd.pc = FE!Plus4(ifid.pc)
      BY <1>2 DEF CP!Steady, CP!InOrder, CP!FE!IsBubble, CP!FE!Plus4, FE!IsBubble, FE!Plus4, Types
  <2> QED BY <1>2, <2>1, <2>2 DEF CP!Steady
<1>3. CASE CP!AfterRedirect \/ CP!AfterStalledRedirect
    BY <1>3 DEF CP!AfterRedirect, CP!AfterStalledRedirect, CP!Flushed, CP!Bubble, CP!Falls,
       CP!FE!EmptyBrd, CP!FE!EmptyIfId, FE!IsBubble, Types
<1>4. CASE CP!StalledRedirect
  <2>1. BranchTaken /\ exmem.memRead /\ stateMEM = "BUSY"
      BY <1>4 DEF CP!StalledRedirect
  <2>2. idex.branch # "none"
      BY <2>1, Redirects DEF BranchesRedirect
  <2>3. ~DivOp
      BY <2>2, ControlsAgree DEF Types, Signals, DivOp
  <2> QED BY <2>1, <2>3 DEF ExEnable, IL!IdExEnable, IL!DivBusy, IL!StallCD
<1> QED BY <1>0, <1>1, <1>2, <1>3, <1>4 DEF CP!FetchInv

LEMMA SameExpected ==
    ASSUME Types, CP!Inv, Next
    PROVE  CTL!ClockExpected(Dependent)
<1>1. FE!Clock(IfEnable, ~BranchTaken, Target)
    BY DEF Next, FalsePredict
<1>2. IfEnable = (ExEnable /\ ~NoOp) /\ (BranchTaken => ~NoOp)
  <2>1. BranchTaken => ~idex.memRead
      BY Redirects, ControlsAgree DEF BranchesRedirect, Types, Signals
  <2> QED BY <2>1 DEF IfEnable, ExEnable, IL!BrdIfIdEnable, IL!IdExEnable, NoOp
<1> DEFINE next == IF ExEnable /\ BranchTaken THEN Target
                   ELSE IF ExEnable /\ ~BranchTaken /\ ~NoOp /\ ~FE!IsBubble(ifid)
                   THEN FE!Plus4(NextFetched) ELSE NextFetched
<1>3. NextFetched' = next
  <2>1. CASE ExEnable /\ BranchTaken
    <3>1. FE!Clock(TRUE, FALSE, Target)
        BY <1>1, <1>2, <2>1
    <3> QED BY <2>1, <3>1 DEF FE!Clock, FE!ClockPC, FE!ClockBrd, FE!ClockIfId, FE!EmptyBrd,
               FE!EmptyIfId, FE!IsBubble, NextFetched
  <2>2. CASE IfEnable /\ ~BranchTaken
    <3>1. /\ FE!Clock(TRUE, TRUE, Target)
          /\ next = IF ~FE!IsBubble(ifid) THEN FE!Plus4(NextFetched) ELSE NextFetched
        BY <1>1, <1>2, <2>2
    <3>2. /\ brd' = [pc |-> pc, pc4 |-> FE!Plus4(pc)]
          /\ \/ raj = "PULSE_LOW" /\ FE!IsBubble(ifid')
             \/ ifid'.pc = brd.pc /\ ifid'.pc4 = brd.pc4
        BY <3>1 DEF FE!Clock, FE!ClockBrd, FE!ClockIfId, FE!EmptyIfId, FE!IsBubble
    <3>3. ~FE!IsBubble(brd') /\ pc \in Addr
        BY <3>2, CoreAssumption DEF FE!IsBubble, FE!Plus4, Types, Addr
    <3>4. CASE /\ ~FE!IsBubble(brd) /\ raj = "IDLE"
               /\ ~FE!IsBubble(ifid) => brd.pc = FE!Plus4(ifid.pc)
        BY <3>1, <3>2, <3>4 DEF NextFetched, FE!IsBubble
    <3>5. CASE FE!IsBubble(brd) /\ FE!IsBubble(ifid)
        BY <3>1, <3>2, <3>3, <3>5 DEF NextFetched, FE!IsBubble
    <3> QED BY <2>2, <3>4, <3>5, Situations
  <2>3. CASE ~IfEnable /\ ~BranchTaken
    <3>1. next = NextFetched /\ FE!Clock(FALSE, TRUE, Target)
        BY <1>1, <1>2, <2>3
    <3>2. ifid' = ifid /\ brd' = brd /\ pc' = pc
        BY <3>1 DEF FE!Clock, FE!ClockPC, FE!ClockBrd, FE!ClockIfId
    <3> QED BY <3>1, <3>2 DEF NextFetched, FE!IsBubble
  <2>4. CASE ~ExEnable /\ BranchTaken
    <3>1. next = NextFetched /\ FE!Clock(FALSE, FALSE, Target)
        BY <1>1, <1>2, <2>4
    <3>2. ifid' = ifid /\ brd' = brd
        BY <3>1 DEF FE!Clock, FE!ClockBrd, FE!ClockIfId
    <3>3. ~FE!IsBubble(brd)
        BY <2>4, Situations
    <3> QED BY <3>1, <3>2, <3>3 DEF NextFetched, FE!IsBubble
  <2> QED BY <1>2, <2>1, <2>2, <2>3, <2>4
<1>4. /\ CTL!IL!IdExEnable(exmem.memRead, CTL!DivOp) = ExEnable
      /\ CTL!Issue(Dependent) = (ExEnable /\ ~BranchTaken /\ ~NoOp)
    BY SameSignals DEF CTL!Issue
<1>5. CTL!FE!IsBubble([ifid EXCEPT !.instr = KindOf(ifid.instr)]) = FE!IsBubble(ifid)
    BY DEF Types, CTL!FE!IsBubble, FE!IsBubble
<1>6. CTL!FE!Plus4(NextFetched) = FE!Plus4(NextFetched)
    BY DEF CTL!FE!Plus4, FE!Plus4
<1> HIDE DEF next
<1> QED BY <1>3, <1>4, <1>5, <1>6 DEF CTL!ClockExpected, next

-----------------------------------------------------------------------------
(* Steps of the core are steps of the control model.                       *)

LEMMA ControlStep ==
    ASSUME Types, Types', CP!Inv, Next
    PROVE  CTL!Clock(Dependent, AtCorner)
<1>1. CTL!FE!Clock(IfEnable, FalsePredict, IF BranchTaken THEN Target ELSE 0)
  <2>1. FE!Clock(IfEnable, FalsePredict, Target)
      BY DEF Next
  <2>2. IfEnable \in BOOLEAN
      BY DEF IfEnable, IL!BrdIfIdEnable
  <2>3. FalsePredict \in BOOLEAN
      BY DEF FalsePredict
  <2>4. FalsePredict \/ Target = IF BranchTaken THEN Target ELSE 0
      BY DEF FalsePredict
  <2> QED BY <2>1, <2>2, <2>3, <2>4, SameFrontEnd
<1>2. /\ CTL!IL!Clock(exmem.memRead, CTL!DivOp, AtCorner)
      /\ CTL!ClockIdEx(Dependent) /\ CTL!ClockExMem /\ CTL!ClockExpected(Dependent)
    BY SameStall, SameIdEx, SameExMem, SameExpected
<1>3. CTL!IL!BrdIfIdEnable(CTL!NoOp(Dependent), exmem.memRead, CTL!DivOp) = IfEnable
    BY SameSignals
<1> QED BY <1>1, <1>2, <1>3 DEF CTL!Clock, FalsePredict

LEMMA ControlNext ==
    ASSUME Types, Types', CP!Inv, Next
    PROVE  CTL!Next
<1>1. Dependent \in BOOLEAN /\ AtCorner \in BOOLEAN
    BY DEF Dependent, AtCorner, DV!Corner
<1> QED BY <1>1, ControlStep DEF CTL!Next

LEMMA ControlInit ==
    ASSUME Init, Types
    PROVE  CTL!Init
<1> DEFINE kinds == [a \in 0..LastAddr |-> KindOf(imem[a])]
<1>1. kinds \in [CTL!Addr -> CTL!Program]
    BY KindFetched DEF Types, Fetchable, CTL!Addr, Addr
<1>2. KindOf(ZeroWord) = "zero" /\ 0 \in 0..LastAddr
    BY KindFetched, CoreAssumption DEF Fetchable
<1>3. CTL!FE!Reset
  <2>1. FE!Reset
      BY DEF Init
  <2>2. [ifid EXCEPT !.instr = KindOf(ifid.instr)] = [instr |-> "zero", pc |-> 0, pc4 |-> 0]
      BY <1>2, <2>1 DEF FE!Reset, FE!EmptyIfId
  <2>3. KindOf(imemOut) = kinds[0] /\ KindOf(prevInstr) = "zero"
      BY <1>2, <2>1 DEF FE!Reset
  <2> QED BY <2>1, <2>2, <2>3 DEF FE!Reset, CTL!FE!Reset, FE!EmptyBrd, CTL!FE!EmptyBrd, CTL!FE!EmptyIfId
<1>4. CTL!IL!Reset
    BY DEF Init, IL!Reset, CTL!IL!Reset
<1>5. InCtlEx = CTL!Bubble
  <2>1. Signals(idex) = [NoControl EXCEPT !.aluSrc1 = "pc"]
    <3>1. [NoControl EXCEPT !.aluSrc1 = "pc"] \in Controls
        BY DEF Controls
    <3> QED BY <3>1, HoldsSignals DEF Init, EmptyIdEx
  <2>2. KindDecoded(idex) = "zero"
      BY <2>1, KindOfNothing
  <2>3. idex.branch = "none"
      BY <2>1 DEF Signals, NoControl
  <2>4. BranchTaken = FALSE
      BY <2>3, Zenon DEF BranchTaken
  <2> QED BY <2>2, <2>4 DEF InCtlEx, CTL!Bubble, CTL!Falls
<1>6. exmem.memRead = FALSE
    BY DEF Init, EmptyExMem
<1>7. NextFetched = 0
    BY DEF Init, FE!Reset, FE!EmptyBrd, FE!EmptyIfId, FE!IsBubble, NextFetched
<1> QED BY <1>1, <1>3, <1>4, <1>5, <1>6, <1>7 DEF CTL!Init, InCtlEx

\* The two instances of the control model say the same.
LEMMA SameInit == CTL!Init => CP!Init
BY DEF CTL!Init, CP!Init, CTL!Addr, CP!Addr, CTL!Program, CP!Program, CTL!FE!Reset, CP!FE!Reset,
   CTL!IL!Reset, CP!IL!Reset, CTL!Bubble, CP!Bubble, CTL!Falls, CP!Falls, CTL!FE!EmptyBrd,
   CP!FE!EmptyBrd, CTL!FE!EmptyIfId, CP!FE!EmptyIfId

LEMMA SameNext == CTL!Next => CP!Next
<1> SUFFICES ASSUME NEW dep \in BOOLEAN, NEW isCorner \in BOOLEAN, CTL!Clock(dep, isCorner)
             PROVE  CP!Clock(dep, isCorner)
    BY DEF CTL!Next, CP!Next
<1>1. /\ CTL!DivOp = CP!DivOp /\ CTL!NoOp(dep) = CP!NoOp(dep)
      /\ CTL!Issue(dep) = CP!Issue(dep)
      /\ CTL!IL!IdExEnable(exmem.memRead, CTL!DivOp) = CP!IL!IdExEnable(exmem.memRead, CP!DivOp)
      /\ CTL!IL!BrdIfIdEnable(CTL!NoOp(dep), exmem.memRead, CTL!DivOp)
             = CP!IL!BrdIfIdEnable(CP!NoOp(dep), exmem.memRead, CP!DivOp)
    BY DEF CTL!DivOp, CP!DivOp, CTL!NoOp, CP!NoOp, CTL!Issue, CP!Issue, CTL!IL!IdExEnable,
       CP!IL!IdExEnable, CTL!IL!BrdIfIdEnable, CP!IL!BrdIfIdEnable, CTL!IL!DivBusy, CP!IL!DivBusy,
       CTL!IL!StallCD, CP!IL!StallCD
<1>2. ASSUME NEW en, NEW fp, NEW target, CTL!FE!Clock(en, fp, target)
      PROVE  CP!FE!Clock(en, fp, target)
  <2>1. CP!FE!ClockPC(en, fp, target)
      BY <1>2 DEF CTL!FE!Clock, CTL!FE!ClockPC, CP!FE!ClockPC, CTL!FE!Plus4, CP!FE!Plus4
  <2>2. CP!FE!ClockImem
      BY <1>2 DEF CTL!FE!Clock, CTL!FE!ClockImem, CP!FE!ClockImem
  <2>3. CP!FE!ClockBrd(en, fp)
      BY <1>2 DEF CTL!FE!Clock, CTL!FE!ClockBrd, CP!FE!ClockBrd, CTL!FE!Plus4, CP!FE!Plus4,
         CTL!FE!EmptyBrd, CP!FE!EmptyBrd
  <2>4. CP!FE!ClockInstrControl(en)
      BY <1>2 DEF CTL!FE!Clock, CTL!FE!ClockInstrControl, CP!FE!ClockInstrControl
  <2>5. CP!FE!ClockBackup(fp)
      BY <1>2 DEF CTL!FE!Clock, CTL!FE!ClockBackup, CP!FE!ClockBackup
  <2>6. CP!FE!ClockRstAfterJump(fp) /\ CP!FE!ClockPrevReg(en, fp)
      BY <1>2 DEF CTL!FE!Clock, CTL!FE!ClockRstAfterJump, CP!FE!ClockRstAfterJump,
         CTL!FE!ClockPrevReg, CP!FE!ClockPrevReg
  <2>7. CP!FE!ClockIfId(en, fp)
      BY <1>2 DEF CTL!FE!Clock, CTL!FE!ClockIfId, CP!FE!ClockIfId, CTL!FE!EmptyIfId,
         CP!FE!EmptyIfId, CTL!FE!Mux11, CP!FE!Mux11, CTL!FE!Mux10, CP!FE!Mux10,
         CTL!FE!IsBubble, CP!FE!IsBubble
  <2> QED BY <2>1, <2>2, <2>3, <2>4, <2>5, <2>6, <2>7 DEF CP!FE!Clock
<1>3. CTL!IL!Clock(exmem.memRead, CTL!DivOp, isCorner)
          => CP!IL!Clock(exmem.memRead, CP!DivOp, isCorner)
  <2>1. CTL!IL!ClockCondDelay(exmem.memRead) => CP!IL!ClockCondDelay(exmem.memRead)
      BY DEF CTL!IL!ClockCondDelay, CP!IL!ClockCondDelay
  <2>2. CTL!IL!DividerStart(CTL!DivOp) = CP!IL!DividerStart(CP!DivOp)
      BY <1>1 DEF CTL!IL!DividerStart, CP!IL!DividerStart
  <2>3. ASSUME NEW start PROVE CTL!IL!ClockDivider(start, isCorner) => CP!IL!ClockDivider(start, isCorner)
      BY DEF CTL!IL!ClockDivider, CP!IL!ClockDivider, CTL!IL!Idle, CP!IL!Idle, CTL!IL!Accept,
         CP!IL!Accept, CTL!IL!Prepare, CP!IL!Prepare, CTL!IL!Calculate, CP!IL!Calculate,
         CTL!IL!Finish, CP!IL!Finish
  <2> QED BY <2>1, <2>2, <2>3 DEF CTL!IL!Clock, CP!IL!Clock
<1>4. CP!ClockIdEx(dep)
    BY <1>1 DEF CTL!Clock, CTL!ClockIdEx, CP!ClockIdEx, CTL!InEx, CP!InEx, CTL!Falls, CP!Falls,
       CTL!Jumps, CP!Jumps, CTL!Bubble, CP!Bubble, CTL!Addr, CP!Addr
<1>5. CP!ClockExMem
    BY <1>1 DEF CTL!Clock, CTL!ClockExMem, CP!ClockExMem
<1>6. CP!ClockExpected(dep)
    BY <1>1 DEF CTL!Clock, CTL!ClockExpected, CP!ClockExpected, CTL!FE!IsBubble, CP!FE!IsBubble,
       CTL!FE!Plus4, CP!FE!Plus4
<1> QED BY <1>1, <1>2, <1>3, <1>4, <1>5, <1>6 DEF CTL!Clock, CP!Clock

\* Nothing that the mapping reads changes when no register does.
LEMMA SameStutter == UNCHANGED vars => UNCHANGED CTL!vars /\ UNCHANGED CP!vars
<1> SUFFICES ASSUME UNCHANGED vars PROVE UNCHANGED CTL!vars /\ UNCHANGED CP!vars
    OBVIOUS
<1>1. InCtlEx' = InCtlEx
  <2>1. KindDecoded(idex)' = KindDecoded(idex)
      BY DEF vars, KindDecoded, IsNop
  <2>2. Op1' = Op1 /\ Op2' = Op2
      BY DEF vars, Op1, Op2, Forwarded, ForwardFromMem, ForwardFromWB, DataForReg
  <2>3. ALUResult' = ALUResult
      BY <2>2 DEF vars, ALUResult, Wrap, SLT, And, Bit, Negative, SignBit
  <2>4. BranchTaken' = BranchTaken
      BY <2>2, <2>3 DEF vars, BranchTaken, Negative, SignBit
  <2>5. Target' = Target
      BY <2>3 DEF vars, Target
  <2> QED BY <2>1, <2>4, <2>5 DEF InCtlEx
<1>2. NextFetched' = NextFetched
    BY DEF vars, NextFetched, FE!IsBubble
<1>3. /\ [a \in 0..LastAddr |-> KindOf(imem[a])]' = [a \in 0..LastAddr |-> KindOf(imem[a])]
      /\ KindOf(imemOut)' = KindOf(imemOut) /\ KindOf(prevInstr)' = KindOf(prevInstr)
      /\ [ifid EXCEPT !.instr = KindOf(ifid.instr)]' = [ifid EXCEPT !.instr = KindOf(ifid.instr)]
    BY DEF vars, KindOf
<1> QED BY <1>1, <1>2, <1>3 DEF vars, CTL!vars, CP!vars, InCtlEx

LEMMA ModelInvariance == Spec => [](Types /\ CP!Inv)
<1>1. Init => Types /\ CP!Inv
  <2>1. LastAddr \in Nat \ {0} /\ Width \in Nat \ {0} /\ Width % 2 = 0
      BY CoreAssumption, WordAssumption
  <2>2. CP!Init => CP!Inv
      BY <2>1, CP!InitInv
  <2> QED BY <2>2, InitTypes, ControlInit, SameInit
<1>2. Types /\ CP!Inv /\ [Next]_vars => (Types /\ CP!Inv)'
  <2> SUFFICES ASSUME Types, CP!Inv, [Next]_vars PROVE Types' /\ CP!Inv'
      OBVIOUS
  <2>1. LastAddr \in Nat \ {0} /\ Width \in Nat \ {0} /\ Width % 2 = 0
      BY CoreAssumption, WordAssumption
  <2>2. Types'
      BY TypesStep
  <2>3. CP!Next \/ UNCHANGED CP!vars
      BY <2>2, ControlNext, SameNext, SameStutter
  <2>4. CP!Inv'
      BY <2>1, <2>3, CP!InvStep
  <2> QED BY <2>2, <2>4
<1> QED BY <1>1, <1>2, PTL DEF Spec

(***************************************************************************)
(* The core with its data path implements the control model: for every     *)
(* program and every width of the words, each clock edge of the core is an *)
(* edge of the model, whatever the instructions compute.                   *)
(***************************************************************************)
THEOREM ControlImplemented == Spec => ImplementsControl
<1>1. Init => CTL!Init
    BY InitTypes, ControlInit
<1>2. (Types /\ CP!Inv) /\ (Types /\ CP!Inv)' /\ [Next]_vars => [CTL!Next]_(CTL!vars)
    BY ControlNext, SameStutter
<1> QED BY <1>1, <1>2, ModelInvariance, PTL DEF Spec, ImplementsControl, CTL!Spec

-----------------------------------------------------------------------------
(* The registers and the memory once the instruction in MEM has taken      *)
(* effect.                                                                 *)

MemValue ==
    CASE exmem.toReg = "alu" -> exmem.result
      [] exmem.toReg = "mem" -> dmem[DmemAddress]
      [] exmem.toReg = "pc"  -> exmem.pc
      [] exmem.toReg = "pc4" -> exmem.pc4

RegsAfterMem ==
    IF exmem.writeReg /\ exmem.rd # 0 THEN [RegsAfterWB EXCEPT ![exmem.rd] = MemValue]
    ELSE RegsAfterWB

DmemAfterMem ==
    IF exmem.memWrite THEN [dmem EXCEPT ![DmemAddress] = DataToStore] ELSE dmem

\* What EX computes for an instruction, and where execution goes on.
ResultOf(i, p, a, b) ==
    CASE i.op = "add"   -> Wrap(a + b)
      [] i.op = "sub"   -> Wrap(a - b)
      [] i.op = "slt"   -> SLT(a, b)
      [] i.op = "mul"   -> Wrap(a * b)
      [] i.op = "div"   -> DIV(a, b)
      [] i.op = "divu"  -> DIVU(a, b)
      [] i.op = "rem"   -> REM(a, b)
      [] i.op = "remu"  -> REMU(a, b)
      [] i.op \in {"addi", "lw", "sw"} -> Wrap(a + i.imm)
      [] i.op = "slti"  -> SLT(a, i.imm)
      [] i.op = "lui"   -> i.imm
      [] i.op = "auipc" -> Wrap(p + i.imm)

Computed == Ops \ (Branches \cup {"jal", "jalr"})

Ahead(p, d) == (p + d) % (LastAddr + 1)

NextOf(i, p, a, b) ==
    IF i.op \in Branches THEN Ahead(p, IF ISA!Taken(i, a, b) THEN i.imm ELSE 1)
    ELSE IF i.op = "jal" THEN Ahead(p, i.imm)
    ELSE IF i.op = "jalr" THEN Wrap(a + i.imm) % (LastAddr + 1)
    ELSE Ahead(p, 1)

-----------------------------------------------------------------------------
(* The inductive invariant.  It holds beside Types and the invariant of    *)
(* the control model.                                                      *)

\* No instruction of the program has got as far as ID/EX.
Untouched ==
    /\ ~idex.writeReg /\ ~exmem.writeReg /\ ~memwb.writeReg
    /\ regs[imem[0].rd] = imem[0].imm

FetchedWords ==
    /\ Supported(imem)
    /\ ~FE!IsBubble(ifid) => ifid.instr = imem[ifid.pc] /\ ifid.pc4 = Behind(ifid.pc)
    /\ FE!IsBubble(ifid) => \/ ifid.instr \in {ZeroWord, Nop}
                            \/ ifid.instr = imem[0] /\ Untouched
    /\ CP!Steady => IF sel = "IDLE" THEN imemOut = imem[brd.pc] ELSE prevInstr = imem[brd.pc]
    /\ CP!Boot => imemOut = imem[0] /\ Untouched

\* An instruction of the program in EX.
InEx(i, p) ==
    \E d1, d2 \in Word : idex = IdExOf(Control(i.op), i, p, Behind(p), Ahead(p, i.imm), d1, d2)

RealEx ==
    pending.ex => /\ InEx(imem[idex.pc], idex.pc)
                  /\ ~FE!IsBubble(ifid)
                  /\ NextFetched = Behind(idex.pc)

\* Anything else in EX and MEM writes what is there already.
InertEx ==
    ~pending.ex =>
        /\ idex.branch = "none" /\ ~idex.memRead /\ ~idex.memWrite /\ ~DivOp
        /\ idex.aluSrc1 = "reg" => idex.rs1 = 0
        /\ idex.aluSrc2 = "imm"
        /\ idex.writeReg =>
              /\ FE!IsBubble(idex)
              /\ idex.aluOp = "ADD" /\ idex.toReg = "alu"
              /\ idex.aluSrc1 = "reg" /\ idex.data1 = 0
              /\ RegsAfterMem[idex.rd] = idex.imm
              /\ idex.rd # 0 => ~exmem.writeReg

InertMem ==
    exmem.writeReg /\ FE!IsBubble(exmem) =>
        /\ exmem.toReg = "alu" /\ exmem.result = RegsAfterWB[exmem.rd]
        /\ exmem.rd # 0 /\ memwb.writeReg => FE!IsBubble(memwb)

\* What was read in ID is the register's value, or is forwarded from WB.
UpToDate(r, data) ==
    \/ data = RegsAfterWB[r]
    \/ memwb.writeReg /\ ~FE!IsBubble(memwb) /\ memwb.rd = r /\ r # 0

Operands ==
    pending.ex /\ (DivOp => divState = "IDLE" /\ ~done) =>
        UpToDate(idex.rs1, idex.data1) /\ UpToDate(idex.rs2, idex.data2)

DividendKept ==
    idex.aluOp \in {"REM", "REMU"} =>
        ForwardFromMem(idex.rs1) \/ idex.data1 = RegsAfterWB[idex.rs1]

\* The divider works on the operands that the instruction in EX has.
DP == INSTANCE DividerProofs WITH
    op   <- imem[idex.pc].op,
    a    <- RegsAfterMem[idex.rs1],
    b    <- RegsAfterMem[idex.rs2],
    kept <- idex.aluOp \in {"REM", "REMU"}

DivisionHeld == DivOp => DP!Inv

\* A load or a jump in MEM is not what EX needs.
NotYetKnown ==
    pending.ex =>
        /\ exmem.toReg \in {"alu", "mem"}
        /\ exmem.memRead => /\ idex.aluSrc1 = "reg" => ~ForwardFromMem(idex.rs1)
                            /\ idex.aluSrc2 = "reg" => ~ForwardFromMem(idex.rs2)

\* MEM holds an instruction of the program, executed in the state of the
\* instruction set.
MemSignals ==
    /\ exmem.memRead <=> exmem.toReg = "mem"
    /\ exmem.memRead => exmem.writeReg
    /\ exmem.memWrite => ~exmem.writeReg
    /\ exmem.writeReg /\ ~FE!IsBubble(exmem) =>
          LET i == imem[exmem.pc]
          IN  exmem.rd = i.rd /\ Writes(i) /\ exmem.memRead = Control(i.op).memRead

RealMem ==
    pending.mem =>
        LET i == imem[exmem.pc]
            a == RegsAfterWB[i.rs1]
            b == RegsAfterWB[i.rs2]
        IN  /\ exmem.rd = i.rd /\ exmem.pc4 = Behind(exmem.pc)
            /\ exmem.writeReg = Control(i.op).writeReg
            /\ exmem.memWrite = Control(i.op).memWrite
            /\ exmem.toReg = Control(i.op).toReg
            /\ i.op \in Computed => exmem.result = ResultOf(i, exmem.pc, a, b)
            /\ i.op = "sw" => DataToStore = b
            /\ (IF pending.ex THEN idex.pc ELSE NextFetched) = NextOf(i, exmem.pc, a, b)

\* Anything else in MEM changes nothing any more.
DoneMem == ~pending.mem => RegsAfterMem = RegsAfterWB /\ DmemAfterMem = dmem

\* A store that a division holds has its data in EX/MEM.
StoreData == exmem.memWrite /\ DivOp => DataToStore = exmem.dataIn

LoadData == stateMEM = "BUSY" => dmemOut = dmem[DmemAddress]

\* Who follows whom.
Adjacent ==
    exmem.writeReg /\ ~FE!IsBubble(exmem) =>
        /\ pending.ex => idex.pc = Behind(exmem.pc)
        /\ ~pending.ex => FE!IsBubble(ifid) \/ (exmem.memRead /\ ifid.pc = Behind(exmem.pc))

\* The differences that BLT and BGE look at do not overflow.
ComparesFit ==
    pending.ex /\ idex.branch \in {"blt", "bge"} =>
        Signed(Op1) - Signed(Op2) \in (-SignBit)..(SignBit - 1)

\* How instructions flow through EX and MEM, and the invariant as a whole.
Flow ==
    /\ Types /\ CP!Inv /\ pending \in [ex : BOOLEAN, mem : BOOLEAN]
    /\ FetchedWords /\ RealEx /\ InertEx /\ InertMem /\ Operands /\ DividendKept
    /\ DivisionHeld /\ NotYetKnown /\ MemSignals /\ DoneMem
    /\ StoreData /\ LoadData /\ Adjacent

Core == Flow /\ RealMem

-----------------------------------------------------------------------------
(* The combinational signals.                                              *)

LEMMA RegistersHold ==
    ASSUME Types
    PROVE  /\ RegsAfterWB \in [Reg -> Word] /\ RegsAfterWB[0] = 0
           /\ MemValue \in Word /\ DmemAddress \in 0..(MemSize - 1)
           /\ RegsAfterMem \in [Reg -> Word] /\ RegsAfterMem[0] = 0
           /\ 0 \in Reg
<1>1. 0 \in Reg /\ regs \in [Reg -> Word] /\ regs[0] = 0 /\ memwb.rd \in Reg /\ exmem.rd \in Reg
    BY CoreAssumption DEF Types, InMemWb, InExMem
<1>2. DataForReg \in Word
    BY WrittenIsWord DEF Types
<1>3. RegsAfterWB \in [Reg -> Word] /\ RegsAfterWB[0] = 0
    BY <1>1, <1>2 DEF RegsAfterWB
<1>4. DmemAddress \in 0..(MemSize - 1)
  <2>1. exmem.result \in Int /\ MemSize \in Nat \ {0}
      BY Sizes, CoreAssumption DEF Types, InExMem
  <2> QED BY <2>1 DEF DmemAddress
<1>5. MemValue \in Word
  <2>1. {exmem.result, exmem.pc, exmem.pc4, dmem[DmemAddress]} \subseteq Word
        /\ exmem.toReg \in {"alu", "mem", "pc", "pc4"}
      BY <1>4, AddressesAreWords DEF Types, InExMem, Sources
  <2> QED BY <2>1, Zenon DEF MemValue
<1>6. RegsAfterMem \in [Reg -> Word] /\ RegsAfterMem[0] = 0
    BY <1>1, <1>3, <1>5 DEF RegsAfterMem
<1> QED BY <1>1, <1>3, <1>4, <1>5, <1>6

LEMMA RegistersStay ==
    Types' => /\ RegsAfterWB' \in [Reg -> Word] /\ RegsAfterWB'[0] = 0
              /\ RegsAfterMem' \in [Reg -> Word] /\ RegsAfterMem'[0] = 0
<1> DEFINE P == /\ RegsAfterWB \in [Reg -> Word] /\ RegsAfterWB[0] = 0
               /\ RegsAfterMem \in [Reg -> Word] /\ RegsAfterMem[0] = 0
<1>1. Types => P
    BY RegistersHold
<1> HIDE DEF P
<1>2. Types' => P'
    BY <1>1, PTL
<1> QED BY <1>2 DEF P

\* A load waits; a division runs and MEM/WB goes on; everything moves.
LEMMA Edges ==
    ASSUME Types, CP!Inv
    PROVE  /\ stateMEM \in {"IDLE", "BUSY"} /\ divState \in {"IDLE", "PREPARE", "CALCULATE", "FINISH"}
           /\ busy \in BOOLEAN /\ done \in BOOLEAN /\ corner \in BOOLEAN /\ count \in Nat
           /\ busy <=> divState # "IDLE"
           /\ done => divState = "IDLE"
           /\ divState # "IDLE" \/ done => DivOp
           /\ done => ExEnable
           /\ \/ ~ExEnable /\ ~WbEnable /\ exmem.memRead /\ stateMEM = "IDLE"
              \/ ~ExEnable /\ WbEnable /\ DivOp /\ ~done
              \/ ExEnable /\ WbEnable /\ (DivOp => done)
           /\ WbEnable /\ exmem.memRead => stateMEM = "BUSY"
<1>1. /\ stateMEM \in {"IDLE", "BUSY"} /\ divState \in {"IDLE", "PREPARE", "CALCULATE", "FINISH"}
      /\ busy \in BOOLEAN /\ done \in BOOLEAN /\ corner \in BOOLEAN /\ count \in 0..Width
    BY DEF CP!Inv, CP!TypeOK
<1>2. count \in Nat
    BY <1>1, WordAssumption
<1>3. CP!DivOp = DivOp
    BY SameSignals DEF CP!DivOp, CTL!DivOp
<1>4. /\ busy <=> divState # "IDLE"
      /\ done => divState = "IDLE"
      /\ divState # "IDLE" \/ done => DivOp
    BY <1>3 DEF CP!Inv, CP!StallInv
<1>5. done => ExEnable
  <2>1. CP!TypeOK /\ CP!StallInv
      BY DEF CP!Inv
  <2>2. LastAddr \in Nat \ {0} /\ Width \in Nat \ {0} /\ Width % 2 = 0
      BY CoreAssumption, WordAssumption
  <2>3. CP!DoneIsTaken
      BY <2>1, <2>2, CP!PulseIsTaken
  <2>4. done => CP!IL!IdExEnable(exmem.memRead, CP!DivOp)
      BY <2>3 DEF CP!DoneIsTaken
  <2> QED BY <1>3, <2>4 DEF ExEnable, MemRead, IL!IdExEnable, CP!IL!IdExEnable, IL!DivBusy,
             CP!IL!DivBusy, IL!StallCD, CP!IL!StallCD
<1>6. /\ \/ ~ExEnable /\ ~WbEnable /\ exmem.memRead /\ stateMEM = "IDLE"
         \/ ~ExEnable /\ WbEnable /\ DivOp /\ ~done
         \/ ExEnable /\ WbEnable /\ (DivOp => done)
      /\ WbEnable /\ exmem.memRead => stateMEM = "BUSY"
    BY <1>1 DEF ExEnable, WbEnable, MemRead, IL!IdExEnable, IL!MemWbEnable, IL!DivBusy, IL!StallCD
<1> QED BY <1>1, <1>2, <1>4, <1>5, <1>6

-----------------------------------------------------------------------------
(* What an edge does to the registers and the memory.                      *)

\* MEM/WB takes the instruction in MEM: WB will write what MEM had.
LEMMA TakesEffect ==
    ASSUME Types, CP!Inv, MemSignals, LoadData, Next, WbEnable
    PROVE  /\ RegsAfterWB' = RegsAfterMem /\ dmem' = DmemAfterMem
           /\ memwb'.writeReg = exmem.writeReg /\ memwb'.rd = exmem.rd
           /\ FE!IsBubble(memwb') = FE!IsBubble(exmem)
           /\ memwb'.writeReg => DataForReg' = MemValue
<1>1. memwb' = [dataOut |-> dmemOut, result |-> exmem.result, pc |-> exmem.pc,
                pc4 |-> exmem.pc4, rd |-> exmem.rd, toReg |-> exmem.toReg,
                writeReg |-> exmem.writeReg]
    BY DEF Next, ClockMemWb
<1>2. regs' = RegsAfterWB /\ dmem' = DmemAfterMem
    BY DEF Next, ClockDmem, DmemAfterMem
<1>3. exmem.toReg = "mem" => dmemOut = dmem[DmemAddress]
  <2>1. exmem.toReg = "mem" => exmem.memRead
      BY DEF MemSignals
  <2>2. exmem.memRead => stateMEM = "BUSY"
      BY Edges
  <2> QED BY <2>1, <2>2 DEF LoadData
<1>4. DataForReg' = MemValue
  <2>1. /\ memwb'.toReg = exmem.toReg /\ memwb'.result = exmem.result /\ memwb'.pc = exmem.pc
        /\ memwb'.pc4 = exmem.pc4 /\ memwb'.dataOut = dmemOut
      BY <1>1
  <2>2. exmem.toReg \in {"alu", "mem", "pc", "pc4"}
      BY DEF Types, InExMem, Sources
  <2>3. CASE exmem.toReg = "alu"
      BY <2>1, <2>3, Zenon DEF DataForReg, MemValue
  <2>4. CASE exmem.toReg = "mem"
      BY <1>3, <2>1, <2>4, Zenon DEF DataForReg, MemValue
  <2>5. CASE exmem.toReg = "pc"
      BY <2>1, <2>5, Zenon DEF DataForReg, MemValue
  <2>6. CASE exmem.toReg = "pc4"
      BY <2>1, <2>6, Zenon DEF DataForReg, MemValue
  <2> QED BY <2>2, <2>3, <2>4, <2>5, <2>6
<1>5. RegsAfterWB' = RegsAfterMem
    BY <1>1, <1>2, <1>4 DEF RegsAfterWB, RegsAfterMem
<1> QED BY <1>1, <1>2, <1>4, <1>5 DEF FE!IsBubble

\* While a load waits nothing changes but the register file, which has what
\* WB writes.
LEMMA LoadWaits ==
    ASSUME Types, pending \in [ex : BOOLEAN, mem : BOOLEAN], MemSignals, Next, ~WbEnable
    PROVE  /\ idex' = idex /\ exmem' = exmem /\ memwb' = memwb /\ dmem' = dmem
           /\ RegsAfterWB' = RegsAfterWB /\ RegsAfterMem' = RegsAfterMem
           /\ dmemOut' = dmem[DmemAddress] /\ DataToStore' = DataToStore
           /\ pending' = pending /\ exmem.memRead /\ ~exmem.memWrite
<1>1. ~ExEnable /\ exmem.memRead
    BY DEF ExEnable, WbEnable, MemRead, IL!IdExEnable, IL!MemWbEnable, IL!StallCD
<1>2. ~exmem.memWrite
    BY <1>1 DEF MemSignals
<1>3. /\ idex' = idex /\ exmem' = exmem /\ memwb' = memwb /\ dmem' = dmem
      /\ dmemOut' = dmem[DmemAddress] /\ regs' = RegsAfterWB
    BY <1>1, <1>2 DEF Next, ClockIdEx, ClockExMem, ClockMemWb, ClockDmem
<1>4. pending' = pending
  <2>1. pending' = [ex |-> pending.ex, mem |-> pending.mem]
      BY <1>1 DEF Next, ClockPending
  <2> QED BY <2>1
<1>5. DataForReg' = DataForReg
    BY <1>3 DEF DataForReg
<1>6. RegsAfterWB' = RegsAfterWB
    BY <1>3, <1>5 DEF RegsAfterWB, Types
<1>7. RegsAfterMem' = RegsAfterMem
    BY <1>3, <1>6 DEF RegsAfterMem, MemValue, DmemAddress
<1> QED BY <1>1, <1>2, <1>3, <1>4, <1>5, <1>6, <1>7 DEF DataToStore, ForwardWBToMem

-----------------------------------------------------------------------------
(* Operands: what EX and MEM get is what the registers hold once the older *)
(* instructions have taken effect.                                         *)

LEMMA OperandFound ==
    ASSUME Types, NEW r \in Reg, NEW data, ForwardFromMem(r) \/ UpToDate(r, data),
           ForwardFromMem(r) => exmem.toReg = "alu"
    PROVE  Forwarded(r, data) = RegsAfterMem[r]
<1>1. RegsAfterWB \in [Reg -> Word] /\ exmem.rd \in Reg /\ regs \in [Reg -> Word] /\ memwb.rd \in Reg
    BY RegistersHold DEF Types, InExMem, InMemWb
<1>2. CASE ForwardFromMem(r)
  <2>1. MemValue = exmem.result
      BY <1>2, Zenon DEF MemValue
  <2> QED BY <1>1, <1>2, <2>1 DEF Forwarded, ForwardFromMem, RegsAfterMem
<1>3. CASE ~ForwardFromMem(r)
  <2>1. RegsAfterMem[r] = RegsAfterWB[r]
      BY <1>1, <1>3 DEF RegsAfterMem, ForwardFromMem
  <2>2. ForwardFromWB(r) => DataForReg = RegsAfterWB[r]
      BY <1>1 DEF ForwardFromWB, RegsAfterWB
  <2>3. ~ForwardFromWB(r) => data = RegsAfterWB[r]
      BY <1>3 DEF ForwardFromWB, UpToDate
  <2> QED BY <1>3, <2>1, <2>2, <2>3 DEF Forwarded
<1> QED BY <1>2, <1>3

\* What a bubble writes in MEM is there already.
LEMMA InertWrite ==
    ASSUME Types, InertMem, exmem.writeReg, FE!IsBubble(exmem)
    PROVE  MemValue = RegsAfterWB[exmem.rd] /\ RegsAfterMem = RegsAfterWB
<1>1. RegsAfterWB \in [Reg -> Word] /\ exmem.rd \in Reg
    BY RegistersHold DEF Types, InExMem
<1>2. MemValue = RegsAfterWB[exmem.rd]
  <2>1. exmem.toReg = "alu" /\ exmem.result = RegsAfterWB[exmem.rd]
      BY DEF InertMem
  <2> QED BY <2>1, Zenon DEF MemValue
<1> QED BY <1>1, <1>2 DEF RegsAfterMem

\* EX does not forward the data of a store from MEM: it leaves that to MEM.
LEMMA StoreDataFound ==
    ASSUME Types, InertMem, UpToDate(idex.rs2, idex.data2),
           ForwardFromMem(idex.rs2) => FE!IsBubble(exmem)
    PROVE  StoreDataEX = RegsAfterMem[idex.rs2]
<1>1. /\ RegsAfterWB \in [Reg -> Word] /\ exmem.rd \in Reg /\ regs \in [Reg -> Word]
      /\ memwb.rd \in Reg /\ idex.rs2 \in Reg
    BY RegistersHold DEF Types, InExMem, InMemWb, InIdEx
<1>2. CASE ForwardFromMem(idex.rs2)
  <2>1. RegsAfterMem = RegsAfterWB
      BY <1>2, InertWrite DEF ForwardFromMem
  <2>2. ~ForwardFromWB(idex.rs2)
      BY <1>2 DEF ForwardFromWB
  <2>3. memwb.writeReg => FE!IsBubble(memwb)
      BY <1>2 DEF InertMem, ForwardFromMem
  <2> QED BY <2>1, <2>2, <2>3 DEF StoreDataEX, UpToDate
<1>3. CASE ~ForwardFromMem(idex.rs2)
  <2>1. RegsAfterMem[idex.rs2] = RegsAfterWB[idex.rs2]
      BY <1>1, <1>3 DEF RegsAfterMem, ForwardFromMem
  <2>2. ForwardFromWB(idex.rs2) => DataForReg = RegsAfterWB[idex.rs2]
      BY <1>1 DEF ForwardFromWB, RegsAfterWB
  <2>3. ~ForwardFromWB(idex.rs2) => idex.data2 = RegsAfterWB[idex.rs2]
      BY <1>3 DEF ForwardFromWB, UpToDate
  <2> QED BY <2>1, <2>2, <2>3 DEF StoreDataEX
<1> QED BY <1>2, <1>3

-----------------------------------------------------------------------------
(* Arithmetic.                                                             *)

LEMMA BehindIsAhead ==
    ASSUME NEW p \in Addr
    PROVE  Behind(p) = Ahead(p, 1) /\ Behind(p) \in Addr /\ ~(p = 0 /\ Behind(p) = 0)
<1>1. p \in Nat /\ LastAddr \in Nat \ {0} /\ p <= LastAddr
    BY CoreAssumption DEF Addr
<1>2. (p + 1) % (LastAddr + 1) = IF p = LastAddr THEN 0 ELSE p + 1
    BY <1>1
<1> QED BY <1>1, <1>2 DEF Behind, FE!Plus4, Ahead, Addr

\* Two words are equal when their difference is zero, and unless their signed
\* difference overflows its sign compares them.
LEMMA Differences ==
    ASSUME NEW a \in Word, NEW b \in Word
    PROVE  /\ Wrap(a - b) = 0 <=> a = b
           /\ Signed(a) - Signed(b) \in (-SignBit)..(SignBit - 1)
                => (Negative(Wrap(a - b)) <=> Signed(a) < Signed(b))
<1>1. PICK v, h : v = 2^Width /\ h = SignBit
    OBVIOUS
<1>2. v \in Nat /\ h \in Nat \ {0} /\ v = 2 * h
  <2>1. Width - 1 \in 0..(Width - 1) /\ Width - 1 + 1 = Width
      BY WordAssumption
  <2>2. SignBit \in Nat \ {0} /\ 2^Width = 2 * SignBit
      BY <2>1, WordAssumption DEF SignBit
  <2> QED BY <1>1, <2>2
<1>3. a \in 0..(v - 1) /\ b \in 0..(v - 1)
    BY <1>1 DEF Word
<1>4. PICK x, y : x = Signed(a) /\ y = Signed(b)
    OBVIOUS
<1>5. x = (IF a >= h THEN a - v ELSE a) /\ y = (IF b >= h THEN b - v ELSE b)
    BY <1>1, <1>4 DEF Signed, Negative
<1>6. (a - b) % v = IF a >= b THEN a - b ELSE a - b + v
  <2>1. CASE a >= b
    <3>1. a - b \in 0..(v - 1)
        BY <1>2, <1>3, <2>1
    <3> QED BY <1>2, <2>1, <3>1
  <2>2. CASE ~(a >= b)
    <3>1. a - b + v \in 0..(v - 1)
        BY <1>2, <1>3, <2>2
    <3>2. PICK c : c = b - a
        OBVIOUS
    <3>3. c \in 1..(v - 1) /\ a - b = -c /\ a - b + v = v - c
        BY <1>2, <1>3, <2>2, <3>2
    <3>4. (-c) % v = v - c
        BY <1>2, <3>3
    <3> QED BY <2>2, <3>3, <3>4
  <2> QED BY <2>1, <2>2
<1>7. (a - b) % v = 0 <=> a = b
    BY <1>2, <1>3, <1>6
<1>8. x - y \in (-h)..(h - 1) => ((a - b) % v >= h <=> x < y)
    BY <1>2, <1>3, <1>5, <1>6
<1> QED BY <1>1, <1>4, <1>7, <1>8 DEF Wrap, Negative

\* The words of the instruction set are those of the core.
LEMMA SameWordsInISA ==
    /\ \A x : ISA!Wrap(x) = Wrap(x) /\ ISA!Signed(x) = Signed(x)
    /\ \A x, y : /\ ISA!SLT(x, y) = SLT(x, y) /\ ISA!DIV(x, y) = DIV(x, y)
                 /\ ISA!DIVU(x, y) = DIVU(x, y) /\ ISA!REM(x, y) = REM(x, y)
                 /\ ISA!REMU(x, y) = REMU(x, y)
    /\ ISA!Word = Word
<1>1. \A x : ISA!Wrap(x) = Wrap(x)
    BY DEF ISA!Wrap, Wrap
<1>2. \A x : ISA!Signed(x) = Signed(x)
    BY DEF ISA!Signed, ISA!Negative, ISA!SignBit, Signed, Negative, SignBit
<1>3. \A x : ISA!Magnitude(x) = Magnitude(x)
    BY DEF ISA!Magnitude, Magnitude
<1>4. \A x, y : ISA!Quotient(x, y) = Quotient(x, y)
    BY <1>3 DEF ISA!Quotient, Quotient
<1>5. \A x, y : ISA!Remainder(x, y) = Remainder(x, y)
    BY <1>4 DEF ISA!Remainder, Remainder
<1>6. ISA!AllOnes = AllOnes /\ ISA!Word = Word
    BY DEF ISA!AllOnes, AllOnes, ISA!Word, Word
<1>7. \A x, y : ISA!SLT(x, y) = SLT(x, y)
    BY <1>2 DEF ISA!SLT, SLT
<1>8. \A x, y : ISA!DIV(x, y) = DIV(x, y)
    BY <1>1, <1>2, <1>4, <1>6 DEF ISA!DIV, DIV
<1>9. \A x, y : ISA!REM(x, y) = REM(x, y)
    BY <1>1, <1>2, <1>5 DEF ISA!REM, REM
<1>10. \A x, y : ISA!DIVU(x, y) = DIVU(x, y) /\ ISA!REMU(x, y) = REMU(x, y)
    BY <1>6 DEF ISA!DIVU, DIVU, ISA!REMU, REMU
<1> QED BY <1>1, <1>2, <1>6, <1>7, <1>8, <1>9, <1>10

-----------------------------------------------------------------------------
(* What the decoder's signals make EX compute.                             *)

LEMMA SignalsOf ==
    ASSUME NEW r, NEW op, Signals(r) = Control(op)
    PROVE  /\ op \in DOMAIN RTypeALU =>
                  Computes(r) /\ r.aluOp = RTypeALU[op] /\ r.aluSrc1 = "reg" /\ r.aluSrc2 = "reg"
           /\ op \in DOMAIN ITypeALU =>
                  Computes(r) /\ r.aluOp = ITypeALU[op] /\ r.aluSrc1 = "reg" /\ r.aluSrc2 = "imm"
           /\ op \in {"lw", "sw", "jalr"} =>
                  r.aluOp = "ADD" /\ r.aluSrc1 = "reg" /\ r.aluSrc2 = "imm"
           /\ op = "lw" => r.memRead = TRUE /\ r.memWrite = FALSE /\ r.writeReg = TRUE /\ r.toReg = "mem"
                           /\ r.branch = "none"
           /\ op = "sw" => r.memWrite = TRUE /\ r.memRead = FALSE /\ r.writeReg = FALSE
                           /\ r.branch = "none"
           /\ op = "lui"   => Computes(r) /\ r.aluOp = "FWD2" /\ r.aluSrc2 = "imm"
           /\ op = "auipc" => Computes(r) /\ r.aluOp = "ADD" /\ r.aluSrc1 = "pc" /\ r.aluSrc2 = "imm"
           /\ op \in Branches =>
                  /\ r.branch = op /\ r.aluOp = "SUB" /\ r.aluSrc1 = "reg" /\ r.aluSrc2 = "reg"
                  /\ r.writeReg = FALSE /\ r.memWrite = FALSE /\ r.memRead = FALSE /\ r.toReg = "alu"
           /\ op \in {"jal", "jalr"} =>
                  /\ r.branch = op /\ r.writeReg = TRUE /\ r.memWrite = FALSE /\ r.memRead = FALSE
                  /\ r.toReg = IF op = "jal" THEN "pc4" ELSE "pc"
           /\ op = "zero" => r.writeReg = FALSE /\ r.memWrite = FALSE /\ r.memRead = FALSE
                             /\ r.branch = "none" /\ r.aluOp = "AND"
<1> USE DEF Signals, NoControl, Computes
<1>1. CASE op \in DOMAIN RTypeALU
  <2>1. Signals(r) = DecodeR(op)
      BY <1>1, Decoded
  <2>2. op \notin DOMAIN ITypeALU /\ op \notin Branches
        /\ op \notin {"lw", "sw", "jalr", "lui", "auipc", "jal", "zero"}
      BY <1>1 DEF RTypeALU, ITypeALU, Branches
  <2> QED BY <1>1, <2>1, <2>2 DEF DecodeR
<1>2. CASE op \in DOMAIN ITypeALU
  <2>1. Signals(r) = DecodeI(op)
      BY <1>2, Decoded
  <2>2. op \notin DOMAIN RTypeALU /\ op \notin Branches
        /\ op \notin {"lw", "sw", "jalr", "lui", "auipc", "jal", "zero"}
      BY <1>2 DEF RTypeALU, ITypeALU, Branches
  <2> QED BY <1>2, <2>1, <2>2 DEF DecodeI
<1>3. CASE op \in Branches
  <2>1. Signals(r) = DecodeBranch(op)
      BY <1>3, Decoded
  <2>2. op \notin DOMAIN RTypeALU /\ op \notin DOMAIN ITypeALU
        /\ op \notin {"lw", "sw", "jalr", "lui", "auipc", "jal", "zero"}
      BY <1>3 DEF RTypeALU, ITypeALU, Branches
  <2> QED BY <1>3, <2>1, <2>2 DEF DecodeBranch
<1>4. ASSUME op \in {"lw", "sw", "jalr", "lui", "auipc", "jal", "zero"}
      PROVE  op \notin DOMAIN RTypeALU /\ op \notin DOMAIN ITypeALU /\ op \notin Branches
    BY <1>4 DEF RTypeALU, ITypeALU, Branches
<1>5. CASE op = "lw"
  <2>1. Signals(r) = DecodeLoad
      BY <1>5, Decoded
  <2> QED BY <1>4, <1>5, <2>1 DEF DecodeLoad
<1>6. CASE op = "sw"
  <2>1. Signals(r) = DecodeStore
      BY <1>6, Decoded
  <2> QED BY <1>4, <1>6, <2>1 DEF DecodeStore
<1>7. CASE op = "jalr"
  <2>1. Signals(r) = DecodeJALR
      BY <1>7, Decoded
  <2> QED BY <1>4, <1>7, <2>1 DEF DecodeJALR
<1>8. CASE op = "jal"
  <2>1. Signals(r) = DecodeJAL
      BY <1>8, Decoded
  <2> QED BY <1>4, <1>8, <2>1 DEF DecodeJAL
<1>9. CASE op = "lui"
  <2>1. Signals(r) = DecodeLUI
      BY <1>9, Decoded
  <2> QED BY <1>4, <1>9, <2>1 DEF DecodeLUI
<1>10. CASE op = "auipc"
  <2>1. Signals(r) = DecodeAUIPC
      BY <1>10, Decoded
  <2> QED BY <1>4, <1>10, <2>1 DEF DecodeAUIPC
<1>11. CASE op = "zero"
    BY <1>4, <1>11, Decoded
<1>12. CASE /\ op \notin DOMAIN RTypeALU /\ op \notin DOMAIN ITypeALU /\ op \notin Branches
            /\ op \notin {"lw", "sw", "jalr", "lui", "auipc", "jal", "zero"}
    BY <1>12
<1> QED BY <1>1, <1>2, <1>3, <1>5, <1>6, <1>7, <1>8, <1>9, <1>10, <1>11, <1>12

\* The fields of an instruction in EX.
LEMMA FieldsInEx ==
    ASSUME NEW i, NEW p, i.op \in Ops \cup {"zero"}, InEx(i, p)
    PROVE  /\ Signals(idex) = Control(i.op) /\ idex.pc = p /\ idex.pc4 = Behind(p)
           /\ idex.newAddress = Ahead(p, i.imm) /\ idex.imm = Wrap(i.imm)
           /\ idex.rd = i.rd /\ idex.rs1 = i.rs1 /\ idex.rs2 = i.rs2
<1>1. PICK d1, d2 \in Word : idex = IdExOf(Control(i.op), i, p, Behind(p), Ahead(p, i.imm), d1, d2)
    BY DEF InEx
<1>2. Control(i.op) \in Controls
    BY DEF Controls
<1>3. Signals(idex) = Control(i.op)
    BY <1>1, <1>2, HoldsSignals
<1> QED BY <1>1, <1>3 DEF IdExOf

LEMMA ImmediatesAreWords ==
    ASSUME NEW i \in Instruction
    PROVE  /\ i.op \in Ops /\ i.imm \in Int /\ i.rd \in Reg /\ i.rs1 \in Reg /\ i.rs2 \in Reg
           /\ i.op \notin Branches \cup {"jal"} => i.imm \in Word /\ Wrap(i.imm) = i.imm
BY WordsWrap DEF Instruction

Results(a, b) ==
    /\ idex.aluOp = "DIV"  => divider.quotient = DIV(a, b)
    /\ idex.aluOp = "DIVU" => divider.quotient = DIVU(a, b)
    /\ idex.aluOp = "REM"  => divider.remainder = REM(a, b)
    /\ idex.aluOp = "REMU" => divider.remainder = REMU(a, b)

LEMMA Executes ==
    ASSUME NEW i \in Instruction, Signals(idex) = Control(i.op), idex.imm = Wrap(i.imm),
           NEW a, NEW b, Results(a, b),
           idex.aluSrc1 = "reg" => Op1 = a, idex.aluSrc2 = "reg" => Op2 = b
    PROVE  /\ i.op \in Computed => ALUResult = ResultOf(i, idex.pc, a, b)
           /\ i.op \in Branches => ALUResult = Wrap(a - b)
           /\ i.op = "jalr" => ALUResult = Wrap(a + i.imm)
<1>1. i.op \notin Branches \cup {"jal"} => idex.imm = i.imm
    BY ImmediatesAreWords
<1>2. /\ idex.aluSrc1 = "pc"  => Op1 = idex.pc
      /\ idex.aluSrc2 = "imm" => Op2 = idex.imm
    BY DEF Op1, Op2
<1> DEFINE op == i.op
<1>3. ASSUME op \notin Branches
      PROVE  /\ op \in DOMAIN RTypeALU => Op1 = a /\ Op2 = b
             /\ op \in DOMAIN ITypeALU \cup {"lw", "sw", "jalr"} => Op1 = a /\ Op2 = i.imm
             /\ op \in {"lui", "auipc"} => Op2 = i.imm
             /\ op = "auipc" => Op1 = idex.pc
  <2>1. op \in DOMAIN ITypeALU \cup {"lw", "sw", "jalr", "lui", "auipc"} => op # "jal"
      BY DEF ITypeALU
  <2>2. op \in DOMAIN ITypeALU \cup {"lw", "sw", "jalr", "lui", "auipc"} => idex.imm = i.imm
      BY <1>1, <1>3, <2>1
  <2>3. op \in DOMAIN RTypeALU => Op1 = a /\ Op2 = b
      BY SignalsOf
  <2>4. op \in DOMAIN ITypeALU \cup {"lw", "sw", "jalr"} => idex.aluSrc1 = "reg" /\ idex.aluSrc2 = "imm"
      BY SignalsOf
  <2>5. op \in {"lui", "auipc"} => idex.aluSrc2 = "imm"
      BY SignalsOf, ZenonT(30)
  <2>6. op = "auipc" => idex.aluSrc1 = "pc"
      BY SignalsOf
  <2> HIDE DEF op
  <2> QED BY <1>2, <2>2, <2>3, <2>4, <2>5, <2>6
<1>4. op \in Computed => op \notin Branches /\ op \in Ops
    BY DEF Computed
<1>5. CASE op \in {"add", "sub", "slt", "mul"}
  <2>1. op \in DOMAIN RTypeALU /\ op \notin Branches
      BY <1>5 DEF RTypeALU, Branches
  <2>2. Op1 = a /\ Op2 = b /\ idex.aluOp = RTypeALU[op]
      BY <1>3, <2>1, SignalsOf
  <2>3. op # "jalr"
      BY <1>5
  <2>4. ALUResult = ResultOf(i, idex.pc, a, b)
    <3>1. CASE op = "add"
      <4>1. idex.aluOp = "ADD"
          BY <2>2, <3>1 DEF RTypeALU
      <4>2. ALUResult = Wrap(Op1 + Op2)
          BY <4>1, Zenon DEF ALUResult
      <4> QED BY <2>2, <3>1, <4>2, Zenon DEF ResultOf
    <3>2. CASE op = "sub"
      <4>1. idex.aluOp = "SUB"
          BY <2>2, <3>2 DEF RTypeALU
      <4>2. ALUResult = Wrap(Op1 - Op2)
          BY <4>1, Zenon DEF ALUResult
      <4> QED BY <2>2, <3>2, <4>2, Zenon DEF ResultOf
    <3>3. CASE op = "slt"
      <4>1. idex.aluOp = "SLT"
          BY <2>2, <3>3 DEF RTypeALU
      <4>2. ALUResult = SLT(Op1, Op2)
          BY <4>1, Zenon DEF ALUResult
      <4> QED BY <2>2, <3>3, <4>2, Zenon DEF ResultOf
    <3>4. CASE op = "mul"
      <4>1. idex.aluOp = "MUL"
          BY <2>2, <3>4 DEF RTypeALU
      <4>2. ALUResult = Wrap(Op1 * Op2)
          BY <4>1, Zenon DEF ALUResult
      <4> QED BY <2>2, <3>4, <4>2, Zenon DEF ResultOf
    <3> QED BY <1>5, <3>1, <3>2, <3>3, <3>4
  <2> QED BY <2>1, <2>3, <2>4
<1>6. CASE op \in {"div", "divu", "rem", "remu"}
  <2>1. op \in DOMAIN RTypeALU /\ op \notin Branches /\ op # "jalr"
      BY <1>6 DEF RTypeALU, Branches
  <2>2. idex.aluOp = RTypeALU[op]
      BY <2>1, SignalsOf
  <2>3. ALUResult = ResultOf(i, idex.pc, a, b)
    <3>1. CASE op = "div"
      <4>1. idex.aluOp = "DIV"
          BY <2>2, <3>1 DEF RTypeALU
      <4>2. ALUResult = divider.quotient
          BY <4>1, Zenon DEF ALUResult
      <4>3. ResultOf(i, idex.pc, a, b) = DIV(a, b)
          BY <3>1, Zenon DEF ResultOf
      <4> QED BY <4>1, <4>2, <4>3 DEF Results
    <3>2. CASE op = "divu"
      <4>1. idex.aluOp = "DIVU"
          BY <2>2, <3>2 DEF RTypeALU
      <4>2. ALUResult = divider.quotient
          BY <4>1, Zenon DEF ALUResult
      <4>3. ResultOf(i, idex.pc, a, b) = DIVU(a, b)
          BY <3>2, Zenon DEF ResultOf
      <4> QED BY <4>1, <4>2, <4>3 DEF Results
    <3>3. CASE op = "rem"
      <4>1. idex.aluOp = "REM"
          BY <2>2, <3>3 DEF RTypeALU
      <4>2. ALUResult = divider.remainder
          BY <4>1, Zenon DEF ALUResult
      <4>3. ResultOf(i, idex.pc, a, b) = REM(a, b)
          BY <3>3, Zenon DEF ResultOf
      <4> QED BY <4>1, <4>2, <4>3 DEF Results
    <3>4. CASE op = "remu"
      <4>1. idex.aluOp = "REMU"
          BY <2>2, <3>4 DEF RTypeALU
      <4>2. ALUResult = divider.remainder
          BY <4>1, Zenon DEF ALUResult
      <4>3. ResultOf(i, idex.pc, a, b) = REMU(a, b)
          BY <3>4, Zenon DEF ResultOf
      <4> QED BY <4>1, <4>2, <4>3 DEF Results
    <3> QED BY <1>6, <3>1, <3>2, <3>3, <3>4
  <2> QED BY <2>1, <2>3
<1>7. CASE op \in {"addi", "lw", "sw", "jalr"}
  <2>1. op \in DOMAIN ITypeALU \cup {"lw", "sw", "jalr"} /\ op \notin Branches
      BY <1>7 DEF ITypeALU, Branches
  <2>2. Op1 = a /\ Op2 = i.imm
      BY <1>3, <2>1
  <2>3. idex.aluOp = "ADD"
    <3>1. op = "addi" => op \in DOMAIN ITypeALU /\ ITypeALU[op] = "ADD"
        BY DEF ITypeALU
    <3> QED BY <1>7, <3>1, SignalsOf
  <2>4. ALUResult = Wrap(Op1 + Op2)
      BY <2>3, Zenon DEF ALUResult
  <2>5. op # "jalr" => ResultOf(i, idex.pc, a, b) = Wrap(a + i.imm)
    <3>1. CASE op \in {"addi", "lw", "sw"}
        BY <3>1, Zenon DEF ResultOf
    <3> QED BY <1>7, <3>1
  <2>6. op = "jalr" => op \notin Computed
      BY DEF Computed
  <2>7. ALUResult = Wrap(a + i.imm)
      BY <2>2, <2>4, Zenon
  <2> QED BY <2>1, <2>5, <2>6, <2>7
<1>8. CASE op = "slti"
  <2>1. op \in DOMAIN ITypeALU /\ op \notin Branches /\ ITypeALU[op] = "SLT"
      BY <1>8 DEF ITypeALU, Branches
  <2>2. Op1 = a /\ Op2 = i.imm /\ idex.aluOp = "SLT"
      BY <1>3, <2>1, SignalsOf
  <2>3. ALUResult = SLT(Op1, Op2)
      BY <2>2, Zenon DEF ALUResult
  <2>4. ResultOf(i, idex.pc, a, b) = SLT(a, i.imm)
      BY <1>8, Zenon DEF ResultOf
  <2> QED BY <1>8, <2>1, <2>2, <2>3, <2>4
<1>9. CASE op = "lui"
  <2>1. op \notin Branches
      BY <1>9 DEF Branches
  <2>2. Op2 = i.imm /\ idex.aluOp = "FWD2"
      BY <1>3, <1>9, <2>1, SignalsOf, ZenonT(30)
  <2>3. ALUResult = Op2
      BY <2>2, Zenon DEF ALUResult
  <2>4. ResultOf(i, idex.pc, a, b) = i.imm
      BY <1>9, Zenon DEF ResultOf
  <2> QED BY <1>9, <2>1, <2>2, <2>3, <2>4
<1>10. CASE op = "auipc"
  <2>1. op \notin Branches
      BY <1>10 DEF Branches
  <2>2. Op1 = idex.pc /\ Op2 = i.imm /\ idex.aluOp = "ADD"
      BY <1>3, <1>10, <2>1, SignalsOf, ZenonT(30)
  <2>3. ALUResult = Wrap(Op1 + Op2)
      BY <2>2, Zenon DEF ALUResult
  <2>4. ResultOf(i, idex.pc, a, b) = Wrap(idex.pc + i.imm)
      BY <1>10, Zenon DEF ResultOf
  <2>5. ALUResult = Wrap(idex.pc + i.imm)
      BY <2>2, <2>3, Zenon
  <2> QED BY <1>10, <2>1, <2>4, <2>5
<1>11. CASE op \in Branches
  <2>1. op \notin Computed /\ op # "jalr"
      BY <1>11 DEF Computed, Branches
  <2>2. idex.aluOp = "SUB" /\ Op1 = a /\ Op2 = b
      BY <1>11, SignalsOf
  <2>3. ALUResult = Wrap(Op1 - Op2)
      BY <2>2, Zenon DEF ALUResult
  <2>4. ALUResult = Wrap(a - b)
      BY <2>2, <2>3, Zenon
  <2> QED BY <2>1, <2>4
<1>12. CASE op = "jal"
    BY <1>12 DEF Computed, Branches
<1>13. op \in Ops
    BY ImmediatesAreWords
<1>14. \/ op \in {"add", "sub", "slt", "mul"} \/ op \in {"div", "divu", "rem", "remu"}
       \/ op \in {"addi", "lw", "sw", "jalr"} \/ op \in {"slti"} \/ op \in {"lui"}
       \/ op \in {"auipc"} \/ op \in Branches \/ op \in {"jal"}
    BY <1>13, Operations DEF Ops
<1> QED BY <1>5, <1>6, <1>7, <1>8, <1>9, <1>10, <1>11, <1>12, <1>14

LEMMA Decides ==
    ASSUME NEW i \in Instruction, Signals(idex) = Control(i.op),
           NEW a \in Word, NEW b \in Word,
           i.op \in Branches => ALUResult = Wrap(a - b) /\ Op1 = a /\ Op2 = b,
           i.op \in {"blt", "bge"} => Signed(a) - Signed(b) \in (-SignBit)..(SignBit - 1)
    PROVE  /\ i.op \in Branches => BranchTaken = ISA!Taken(i, a, b)
           /\ i.op \in {"jal", "jalr"} => BranchTaken = TRUE
           /\ i.op \notin Branches \cup {"jal", "jalr"} => BranchTaken = FALSE
<1>1. CASE i.op \in {"beq", "bne"}
  <2>1. i.op \in Branches /\ i.op \notin {"jal", "jalr"}
      BY <1>1 DEF Branches
  <2>2. idex.branch = i.op
      BY <2>1, SignalsOf
  <2>3. ALUResult = 0 <=> a = b
      BY <2>1, Differences
  <2>4. CASE i.op = "beq"
    <3>1. BranchTaken = (ALUResult = 0)
        BY <2>2, <2>4, Zenon DEF BranchTaken
    <3>2. ISA!Taken(i, a, b) = (a = b)
        BY <2>4, Zenon DEF ISA!Taken
    <3> QED BY <2>1, <2>3, <3>1, <3>2
  <2>5. CASE i.op = "bne"
    <3>1. BranchTaken = (ALUResult # 0)
        BY <2>2, <2>5, Zenon DEF BranchTaken
    <3>2. ISA!Taken(i, a, b) = (a # b)
        BY <2>5, Zenon DEF ISA!Taken
    <3> QED BY <2>1, <2>3, <3>1, <3>2
  <2> QED BY <1>1, <2>4, <2>5
<1>2. CASE i.op \in {"blt", "bge"}
  <2>1. i.op \in Branches /\ i.op \notin {"jal", "jalr"}
      BY <1>2 DEF Branches
  <2>2. idex.branch = i.op
      BY <2>1, SignalsOf
  <2>3. Negative(ALUResult) <=> Signed(a) < Signed(b)
      BY <1>2, <2>1, Differences
  <2>4. CASE i.op = "blt"
    <3>1. BranchTaken = Negative(ALUResult)
        BY <2>2, <2>4, Zenon DEF BranchTaken
    <3>2. ISA!Taken(i, a, b) = (ISA!Signed(a) < ISA!Signed(b))
        BY <2>4, Zenon DEF ISA!Taken
    <3>3. ISA!Taken(i, a, b) = (Signed(a) < Signed(b))
        BY <3>2, SameWordsInISA, Zenon
    <3>4. Negative(ALUResult) = (Signed(a) < Signed(b))
        BY <2>3 DEF Negative
    <3>5. BranchTaken = ISA!Taken(i, a, b)
        BY <3>1, <3>3, <3>4, Zenon
    <3> QED BY <2>1, <3>5
  <2>5. CASE i.op = "bge"
    <3>1. BranchTaken = ~Negative(ALUResult)
        BY <2>2, <2>5, Zenon DEF BranchTaken
    <3>2. ISA!Taken(i, a, b) = (ISA!Signed(a) >= ISA!Signed(b))
        BY <2>5, Zenon DEF ISA!Taken
    <3>3. ISA!Taken(i, a, b) = (Signed(a) >= Signed(b))
        BY <3>2, SameWordsInISA, Zenon
    <3>4. Signed(a) \in Int /\ Signed(b) \in Int
      <4>1. a \in Int /\ b \in Int /\ 2^Width \in Int
          BY Sizes
      <4> QED BY <4>1 DEF Signed
    <3>5. (Signed(a) >= Signed(b)) = (~(Signed(a) < Signed(b)))
        BY <3>4
    <3> QED BY <2>1, <2>3, <3>1, <3>3, <3>5, Zenon
  <2> QED BY <1>2, <2>4, <2>5
<1>3. CASE i.op \in {"bltu", "bgeu"}
  <2>1. i.op \in Branches /\ i.op \notin {"jal", "jalr"}
      BY <1>3 DEF Branches
  <2>2. idex.branch = i.op /\ Op1 = a /\ Op2 = b
      BY <2>1, SignalsOf
  <2>3. CASE i.op = "bltu"
    <3>1. BranchTaken = (Op1 < Op2)
        BY <2>2, <2>3, Zenon DEF BranchTaken
    <3>2. ISA!Taken(i, a, b) = (a < b)
        BY <2>3, Zenon DEF ISA!Taken
    <3> QED BY <2>1, <2>2, <3>1, <3>2, Zenon
  <2>4. CASE i.op = "bgeu"
    <3>1. BranchTaken = (Op1 >= Op2)
        BY <2>2, <2>4, Zenon DEF BranchTaken
    <3>2. ISA!Taken(i, a, b) = (a >= b)
        BY <2>4, Zenon DEF ISA!Taken
    <3> QED BY <2>1, <2>2, <3>1, <3>2, Zenon
  <2> QED BY <1>3, <2>3, <2>4
<1>4. CASE i.op \in {"jal", "jalr"}
  <2>1. idex.branch = i.op /\ i.op \notin Branches
      BY <1>4, SignalsOf DEF Branches
  <2>2. BranchTaken = TRUE
      BY <1>4, <2>1, Zenon DEF BranchTaken
  <2> QED BY <1>4, <2>1, <2>2
<1>5. CASE i.op \notin Branches \cup {"jal", "jalr"}
  <2>1. \/ i.op \in DOMAIN RTypeALU \/ i.op \in DOMAIN ITypeALU
        \/ i.op \in {"lw", "sw", "lui", "auipc"}
      BY <1>5, ImmediatesAreWords DEF Ops
  <2>2. idex.branch = "none"
      BY <2>1, SignalsOf DEF Computes
  <2>3. BranchTaken = FALSE
      BY <2>2, Zenon DEF BranchTaken
  <2> QED BY <1>5, <2>3
<1> QED BY <1>1, <1>2, <1>3, <1>4, <1>5 DEF Branches

LEMMA BranchInEx ==
    ASSUME NEW op, Signals(idex) = Control(op)
    PROVE  op \in Branches \cup {"jal", "jalr"} => idex.branch = op
BY SignalsOf

LEMMA RTypeInEx ==
    ASSUME NEW op, Signals(idex) = Control(op)
    PROVE  op \in DOMAIN RTypeALU => idex.aluOp = RTypeALU[op]
BY SignalsOf

\* Where execution goes on after the instruction in EX.
LEMMA GoesOn ==
    ASSUME NEW i \in Instruction, NEW p \in Addr, InEx(i, p), NEW a, NEW b,
           i.op \in Branches => BranchTaken = ISA!Taken(i, a, b),
           i.op \in {"jal", "jalr"} => BranchTaken = TRUE,
           i.op \notin Branches \cup {"jal", "jalr"} => BranchTaken = FALSE,
           i.op = "jalr" => ALUResult = Wrap(a + i.imm)
    PROVE  NextOf(i, p, a, b) = IF BranchTaken THEN Target ELSE Behind(p)
<1>1. i.op \in Ops
    BY ImmediatesAreWords
<1>2. /\ Signals(idex) = Control(i.op) /\ idex.newAddress = Ahead(p, i.imm)
    BY <1>1, FieldsInEx
<1>3. Behind(p) = Ahead(p, 1)
    BY BehindIsAhead
<1>4. CASE i.op \in Branches
  <2>1. idex.branch = i.op
      BY <1>2, <1>4, BranchInEx
  <2>2. i.op # "jalr"
      BY <1>4 DEF Branches
  <2> QED BY <1>2, <1>3, <1>4, <2>1, <2>2 DEF NextOf, Target
<1>5. CASE i.op = "jal"
  <2>1. idex.branch = "jal" /\ i.op \notin Branches
      BY <1>2, <1>5, BranchInEx DEF Branches
  <2> QED BY <1>2, <1>5, <2>1 DEF NextOf, Target
<1>6. CASE i.op = "jalr"
  <2>1. idex.branch = "jalr" /\ i.op \notin Branches
      BY <1>2, <1>6, BranchInEx DEF Branches
  <2> QED BY <1>6, <2>1 DEF NextOf, Target
<1>7. CASE i.op \notin Branches \cup {"jal", "jalr"}
    BY <1>3, <1>7 DEF NextOf
<1> QED BY <1>4, <1>5, <1>6, <1>7

-----------------------------------------------------------------------------
(* The instruction of the program in EX.                                   *)

LEMMA Fetched ==
    ASSUME Types, pending.ex, RealEx
    PROVE  LET i == imem[idex.pc]
           IN  /\ i \in Instruction /\ idex.pc \in Addr /\ i.op \in Ops /\ i.imm \in Int
               /\ i.rs1 \in Reg /\ i.rs2 \in Reg /\ i.rd \in Reg
               /\ InEx(i, idex.pc)
               /\ Signals(idex) = Control(i.op) /\ idex.pc4 = Behind(idex.pc)
               /\ idex.newAddress = Ahead(idex.pc, i.imm) /\ idex.imm = Wrap(i.imm)
               /\ idex.rd = i.rd /\ idex.rs1 = i.rs1 /\ idex.rs2 = i.rs2
<1>1. idex.pc \in Addr /\ imem \in [Addr -> Instruction]
    BY DEF Types, InIdEx
<1>2. PICK i \in Instruction : i = imem[idex.pc]
    BY <1>1
<1>3. i.op \in Ops /\ i.imm \in Int /\ i.rs1 \in Reg /\ i.rs2 \in Reg /\ i.rd \in Reg
    BY ImmediatesAreWords
<1>4. InEx(i, idex.pc)
    BY <1>2 DEF RealEx
<1>5. PICK p \in Addr : p = idex.pc
    BY <1>1
<1>6. InEx(i, p)
    BY <1>4, <1>5
<1>7. /\ Signals(idex) = Control(i.op) /\ idex.pc4 = Behind(p)
      /\ idex.newAddress = Ahead(p, i.imm) /\ idex.imm = Wrap(i.imm)
      /\ idex.rd = i.rd /\ idex.rs1 = i.rs1 /\ idex.rs2 = i.rs2
    BY <1>3, <1>6, FieldsInEx
<1> QED BY <1>1, <1>2, <1>3, <1>4, <1>5, <1>7

LEMMA DivisionsDecoded ==
    ASSUME NEW op \in Ops, Signals(idex) = Control(op)
    PROVE  /\ idex.aluOp = "DIV" <=> op = "div"
           /\ idex.aluOp = "DIVU" <=> op = "divu"
           /\ idex.aluOp = "REM" <=> op = "rem"
           /\ idex.aluOp = "REMU" <=> op = "remu"
           /\ DivOp <=> op \in Divides
           /\ DivOp => idex.aluSrc1 = "reg" /\ idex.aluSrc2 = "reg"
<1>1. CASE op \in DOMAIN RTypeALU
  <2>1. idex.aluOp = RTypeALU[op] /\ idex.aluSrc1 = "reg" /\ idex.aluSrc2 = "reg"
      BY <1>1, SignalsOf
  <2>2. op \in {"add", "sub", "slt", "mul", "div", "divu", "rem", "remu"}
      BY <1>1, Operations
  <2> QED BY <2>1, <2>2 DEF RTypeALU, DivOp, Divides
<1>2. CASE op \in DOMAIN ITypeALU
  <2>1. idex.aluOp = ITypeALU[op]
      BY <1>2, SignalsOf
  <2> QED BY <1>2, <2>1, Operations DEF ITypeALU, DivOp, Divides
<1>3. CASE op \in Branches \cup {"lw", "sw", "lui", "auipc", "jalr"}
  <2>1. idex.aluOp \in {"SUB", "ADD", "FWD2"}
      BY <1>3, SignalsOf DEF Computes
  <2>2. op \notin Divides
      BY <1>3 DEF Branches, Divides
  <2> QED BY <2>1, <2>2 DEF DivOp, Divides
<1>4. CASE op = "jal"
  <2>1. Signals(idex) = DecodeJAL
      BY <1>4, Decoded
  <2>2. idex.aluOp = "AND"
      BY <2>1 DEF Signals, DecodeJAL, NoControl
  <2> QED BY <1>4, <2>2 DEF DivOp, Divides
<1> QED BY <1>1, <1>2, <1>3, <1>4 DEF Ops

\* The same of any decoded instruction.
LEMMA RemaindersDecoded ==
    ASSUME NEW op \in Ops, NEW r, Signals(r) = Control(op)
    PROVE  /\ r.aluOp \in {"REM", "REMU"} => op \in {"rem", "remu"}
           /\ r.aluOp \in Divisions => op \in Divides
<1>1. CASE op \in DOMAIN RTypeALU
  <2>1. r.aluOp = RTypeALU[op]
      BY <1>1, SignalsOf
  <2>2. op \in {"add", "sub", "slt", "mul", "div", "divu", "rem", "remu"}
      BY <1>1, Operations
  <2> QED BY <2>1, <2>2 DEF RTypeALU, Divides, Divisions
<1>2. CASE op \in DOMAIN ITypeALU
  <2>1. r.aluOp = ITypeALU[op]
      BY <1>2, SignalsOf
  <2> QED BY <1>2, <2>1, Operations DEF ITypeALU, Divisions
<1>3. CASE op \in Branches \cup {"lw", "sw", "lui", "auipc", "jalr"}
  <2>1. r.aluOp \in {"SUB", "ADD", "FWD2"}
      BY <1>3, SignalsOf DEF Computes
  <2> QED BY <2>1 DEF Divisions
<1>4. CASE op = "jal"
  <2>1. Signals(r) = DecodeJAL
      BY <1>4, Decoded
  <2>2. r.aluOp = "AND"
      BY <2>1 DEF Signals, DecodeJAL, NoControl
  <2> QED BY <2>2 DEF Divisions
<1> QED BY <1>1, <1>2, <1>3, <1>4 DEF Ops

\* A load or a jump in MEM is not forwarded to EX.
LEMMA OperandsAreRight ==
    ASSUME Types, pending.ex, Operands, NotYetKnown, MemSignals,
           DivOp => divState = "IDLE" /\ ~done
    PROVE  /\ idex.aluSrc1 = "reg" => Op1 = RegsAfterMem[idex.rs1]
           /\ idex.aluSrc2 = "reg" => Op2 = RegsAfterMem[idex.rs2]
<1>1. idex.rs1 \in Reg /\ idex.rs2 \in Reg
    BY DEF Types, InIdEx
<1>2. UpToDate(idex.rs1, idex.data1) /\ UpToDate(idex.rs2, idex.data2)
    BY DEF Operands
<1>3. ASSUME idex.aluSrc1 = "reg" PROVE Op1 = RegsAfterMem[idex.rs1]
  <2>1. ForwardFromMem(idex.rs1) => exmem.toReg = "alu"
      BY <1>3 DEF NotYetKnown, MemSignals
  <2>2. Op1 = Forwarded(idex.rs1, idex.data1)
      BY <1>3 DEF Op1
  <2>3. PICK r, d : r = idex.rs1 /\ d = idex.data1
      OBVIOUS
  <2>4. Forwarded(r, d) = RegsAfterMem[r]
    <3>1. r \in Reg /\ (ForwardFromMem(r) \/ UpToDate(r, d)) /\ (ForwardFromMem(r) => exmem.toReg = "alu")
        BY <1>1, <1>2, <2>1, <2>3
    <3> QED BY <3>1, OperandFound
  <2> QED BY <2>2, <2>3, <2>4
<1>4. ASSUME idex.aluSrc2 = "reg" PROVE Op2 = RegsAfterMem[idex.rs2]
  <2>1. ForwardFromMem(idex.rs2) => exmem.toReg = "alu"
      BY <1>4 DEF NotYetKnown, MemSignals
  <2>2. Op2 = Forwarded(idex.rs2, idex.data2)
      BY <1>4 DEF Op2
  <2>3. PICK r, d : r = idex.rs2 /\ d = idex.data2
      OBVIOUS
  <2>4. Forwarded(r, d) = RegsAfterMem[r]
    <3>1. r \in Reg /\ (ForwardFromMem(r) \/ UpToDate(r, d)) /\ (ForwardFromMem(r) => exmem.toReg = "alu")
        BY <1>1, <1>2, <2>1, <2>3
    <3> QED BY <3>1, OperandFound
  <2> QED BY <2>2, <2>3, <2>4
<1> QED BY <1>3, <1>4

\* The dividend of REM and REMU stays at the input of the divider.
LEMMA DividendIsRight ==
    ASSUME Types, pending.ex, DividendKept, NotYetKnown, MemSignals,
           idex.aluOp \in {"REM", "REMU"}, idex.aluSrc1 = "reg"
    PROVE  Op1 = RegsAfterMem[idex.rs1]
<1>1. idex.rs1 \in Reg
    BY DEF Types, InIdEx
<1>2. ForwardFromMem(idex.rs1) \/ UpToDate(idex.rs1, idex.data1)
    BY DEF DividendKept, UpToDate
<1>3. ForwardFromMem(idex.rs1) => exmem.toReg = "alu"
    BY DEF NotYetKnown, MemSignals
<1>4. Op1 = Forwarded(idex.rs1, idex.data1)
    BY DEF Op1
<1> QED BY <1>1, <1>2, <1>3, <1>4, OperandFound

\* When EX is enabled with a division in it, the divider has its result.
LEMMA DivisionIsRight ==
    ASSUME Types, RealEx, pending.ex, DivisionHeld, DivOp, done
    PROVE  Results(RegsAfterMem[idex.rs1], RegsAfterMem[idex.rs2])
<1> DEFINE op == imem[idex.pc].op
           a  == RegsAfterMem[idex.rs1]
           b  == RegsAfterMem[idex.rs2]
<1>1. op \in Ops /\ Signals(idex) = Control(op)
    BY Fetched
<1>2. DP!Right
    BY DEF DivisionHeld, DP!Inv
<1>3. /\ divider.quotient = DP!QuotientOf
      /\ idex.aluOp \in {"REM", "REMU"} => divider.remainder = DP!RemainderOf
    BY <1>2 DEF DP!Right
<1>4. /\ DP!QuotientOf = IF op \in {"div", "rem"} THEN DP!DIV(a, b) ELSE DP!DIVU(a, b)
      /\ DP!RemainderOf = IF op \in {"div", "rem"} THEN DP!REM(a, b) ELSE DP!REMU(a, b)
    BY DEF DP!QuotientOf, DP!RemainderOf, DP!IsSigned
<1>5. /\ DP!DIV(a, b) = DIV(a, b) /\ DP!DIVU(a, b) = DIVU(a, b)
      /\ DP!REM(a, b) = REM(a, b) /\ DP!REMU(a, b) = REMU(a, b)
  <2>1. \A x : DP!Wrap(x) = Wrap(x)
      BY DEF DP!Wrap, Wrap
  <2>2. \A x : DP!Signed(x) = Signed(x)
      BY DEF DP!Signed, DP!Negative, DP!SignBit, Signed, Negative, SignBit
  <2>3. \A x : DP!Magnitude(x) = Magnitude(x)
      BY DEF DP!Magnitude, Magnitude
  <2>4. \A x, y : DP!Quotient(x, y) = Quotient(x, y)
      BY <2>3 DEF DP!Quotient, Quotient
  <2>5. \A x, y : DP!Remainder(x, y) = Remainder(x, y)
      BY <2>4 DEF DP!Remainder, Remainder
  <2>6. DP!AllOnes = AllOnes
      BY DEF DP!AllOnes, AllOnes
  <2> HIDE DEF a, b
  <2>7. DP!DIV(a, b) = DIV(a, b) /\ DP!DIVU(a, b) = DIVU(a, b)
      BY <2>1, <2>2, <2>4, <2>6 DEF DP!DIV, DIV, DP!DIVU, DIVU
  <2>8. DP!REM(a, b) = REM(a, b) /\ DP!REMU(a, b) = REMU(a, b)
      BY <2>1, <2>2, <2>5 DEF DP!REM, REM, DP!REMU, REMU
  <2> QED BY <2>7, <2>8
<1>6. /\ idex.aluOp = "DIV" <=> op = "div"
      /\ idex.aluOp = "DIVU" <=> op = "divu"
      /\ idex.aluOp = "REM" <=> op = "rem"
      /\ idex.aluOp = "REMU" <=> op = "remu"
    BY <1>1, DivisionsDecoded
<1> HIDE DEF op, a, b
<1>7. Results(a, b)
    BY <1>3, <1>4, <1>5, <1>6 DEF Results
<1> QED BY <1>7 DEF a, b

\* So EX computes what the instruction set says, and redirects the fetch to
\* where it says.
LEMMA ExIsRight ==
    ASSUME Flow, ComparesFit, pending.ex, ExEnable,
           NEW i \in Instruction, i = imem[idex.pc],
           NEW a \in Word, a = RegsAfterMem[i.rs1], NEW b \in Word, b = RegsAfterMem[i.rs2]
    PROVE  /\ i.op \in Computed => ALUResult = ResultOf(i, idex.pc, a, b)
           /\ NextOf(i, idex.pc, a, b) = IF BranchTaken THEN Target ELSE Behind(idex.pc)
<1> USE DEF Flow
<1>1. /\ Signals(idex) = Control(i.op) /\ idex.imm = Wrap(i.imm) /\ i.op \in Ops
      /\ idex.rs1 = i.rs1 /\ idex.rs2 = i.rs2 /\ idex.pc \in Addr /\ InEx(i, idex.pc)
    BY Fetched
<1>2. DivOp => done
    BY Edges
<1>3. Results(a, b)
  <2>1. CASE DivOp
      BY <1>1, <1>2, <2>1, DivisionIsRight
  <2>2. CASE ~DivOp
      BY <2>2 DEF Results, DivOp
  <2> QED BY <2>1, <2>2
<1>4. ~DivOp => /\ idex.aluSrc1 = "reg" => Op1 = a
                /\ idex.aluSrc2 = "reg" => Op2 = b
    BY <1>1, OperandsAreRight
<1>5. /\ i.op \in Computed => ALUResult = ResultOf(i, idex.pc, a, b)
      /\ i.op \in Branches => ALUResult = Wrap(a - b) /\ Op1 = a /\ Op2 = b
      /\ i.op = "jalr" => ALUResult = Wrap(a + i.imm)
  <2>1. CASE DivOp
    <3>1. i.op \in Divides
        BY <1>1, <2>1, DivisionsDecoded
    <3>2. i.op \notin Branches /\ i.op # "jalr"
        BY <3>1 DEF Branches, Divides
    <3>3. ALUResult = ResultOf(i, idex.pc, a, b)
      <4>1. idex.aluOp = RTypeALU[i.op] /\ i.op \in {"div", "divu", "rem", "remu"}
        <5>1. i.op \in DOMAIN RTypeALU
            BY <3>1, Operations DEF Divides
        <5> QED BY <1>1, <3>1, <5>1, RTypeInEx DEF Divides
      <4>2. CASE i.op \in {"div", "divu"}
        <5>1. idex.aluOp = IF i.op = "div" THEN "DIV" ELSE "DIVU"
            BY <4>1, <4>2 DEF RTypeALU
        <5>2. ALUResult = divider.quotient
            BY <5>1, Zenon DEF ALUResult
        <5>3. ResultOf(i, idex.pc, a, b) = IF i.op = "div" THEN DIV(a, b) ELSE DIVU(a, b)
            BY <4>2, Zenon DEF ResultOf
        <5> QED BY <1>3, <4>2, <5>1, <5>2, <5>3 DEF Results
      <4>3. CASE i.op \in {"rem", "remu"}
        <5>1. idex.aluOp = IF i.op = "rem" THEN "REM" ELSE "REMU"
            BY <4>1, <4>3 DEF RTypeALU
        <5>2. ALUResult = divider.remainder
            BY <5>1, Zenon DEF ALUResult
        <5>3. ResultOf(i, idex.pc, a, b) = IF i.op = "rem" THEN REM(a, b) ELSE REMU(a, b)
            BY <4>3, Zenon DEF ResultOf
        <5> QED BY <1>3, <4>3, <5>1, <5>2, <5>3 DEF Results
      <4> QED BY <4>1, <4>2, <4>3
    <3> QED BY <3>2, <3>3
  <2>2. CASE ~DivOp
    <3>1. /\ idex.aluSrc1 = "reg" => Op1 = a
          /\ idex.aluSrc2 = "reg" => Op2 = b
        BY <1>4, <2>2
    <3>2. /\ i.op \in Computed => ALUResult = ResultOf(i, idex.pc, a, b)
          /\ i.op \in Branches => ALUResult = Wrap(a - b)
          /\ i.op = "jalr" => ALUResult = Wrap(a + i.imm)
        BY <1>1, <1>3, <3>1, Executes
    <3>3. i.op \in Branches => idex.aluSrc1 = "reg" /\ idex.aluSrc2 = "reg"
        BY <1>1, SignalsOf
    <3> QED BY <3>1, <3>2, <3>3
  <2> QED BY <2>1, <2>2
<1>6. i.op \in {"blt", "bge"} => Signed(a) - Signed(b) \in (-SignBit)..(SignBit - 1)
  <2>1. i.op \in {"blt", "bge"} => i.op \in Branches
      BY DEF Branches
  <2>2. i.op \in Branches => idex.branch = i.op
      BY <1>1, BranchInEx
  <2> QED BY <1>5, <2>1, <2>2 DEF ComparesFit
<1>7. /\ i.op \in Branches => BranchTaken = ISA!Taken(i, a, b)
      /\ i.op \in {"jal", "jalr"} => BranchTaken = TRUE
      /\ i.op \notin Branches \cup {"jal", "jalr"} => BranchTaken = FALSE
    BY <1>1, <1>5, <1>6, Decides
<1>8. PICK p \in Addr : p = idex.pc
    BY <1>1
<1>9. NextOf(i, p, a, b) = IF BranchTaken THEN Target ELSE Behind(p)
  <2>1. InEx(i, p)
      BY <1>1, <1>8
  <2>2. i.op = "jalr" => ALUResult = Wrap(a + i.imm)
      BY <1>5
  <2> HIDE DEF Flow
  <2> QED BY <1>7, <2>1, <2>2, GoesOn, ZenonT(30)
<1> QED BY <1>5, <1>8, <1>9

-----------------------------------------------------------------------------
(* Edges of the pipeline registers.                                        *)

\* Front end and execution go on together: only a no-op stops the former
\* alone.
LEMMA Enables ==
    ASSUME Types
    PROVE  /\ IfEnable = (ExEnable /\ ~NoOp)
           /\ NoOp => idex.memRead /\ ~BranchTaken
           /\ BranchTaken \in BOOLEAN /\ FalsePredict = ~BranchTaken
<1>1. BranchTaken => ~idex.memRead
    BY Redirects, ControlsAgree DEF BranchesRedirect, Types, Signals
<1> QED BY <1>1, Redirects DEF BranchesRedirect, IfEnable, ExEnable, IL!BrdIfIdEnable,
           IL!IdExEnable, NoOp, FalsePredict

\* The address of the next instruction: of the target, of the instruction
\* behind one that is issued, or still the same.
LEMMA NextMoves ==
    ASSUME Types, CP!Inv, Next
    PROVE  NextFetched' = IF ExEnable /\ BranchTaken THEN Target
                          ELSE IF ExEnable /\ ~BranchTaken /\ ~NoOp /\ ~FE!IsBubble(ifid)
                          THEN Behind(NextFetched) ELSE NextFetched
<1>1. CTL!ClockExpected(Dependent)
    BY SameExpected
<1>2. /\ CTL!IL!IdExEnable(exmem.memRead, CTL!DivOp) = ExEnable
      /\ CTL!Issue(Dependent) = (ExEnable /\ ~BranchTaken /\ ~NoOp)
    BY SameSignals DEF CTL!Issue
<1>3. CTL!FE!IsBubble([ifid EXCEPT !.instr = KindOf(ifid.instr)]) = FE!IsBubble(ifid)
    BY DEF Types, CTL!FE!IsBubble, FE!IsBubble
<1>4. CTL!FE!Plus4(NextFetched) = Behind(NextFetched)
    BY DEF CTL!FE!Plus4, FE!Plus4, Behind
<1> QED BY <1>1, <1>2, <1>3, <1>4 DEF CTL!ClockExpected

\* The instructions behind MEM and EX move on, or EX holds.
LEMMA Moves ==
    ASSUME Types, Next, ExEnable
    PROVE  /\ WbEnable
           /\ exmem' = [result |-> ALUResult, dataIn |-> StoreDataEX, pc |-> idex.pc,
                        pc4 |-> idex.pc4, rd |-> idex.rd, rs2 |-> idex.rs2,
                        memWrite |-> idex.memWrite, memRead |-> idex.memRead,
                        toReg |-> idex.toReg, writeReg |-> idex.writeReg]
           /\ FE!IsBubble(exmem') = FE!IsBubble(idex)
           /\ pending'.mem = pending.ex
           /\ pending'.ex = (~BranchTaken /\ ~NoOp /\ ~FE!IsBubble(ifid))
           /\ imem' = imem
<1>1. WbEnable
    BY DEF ExEnable, WbEnable, IL!IdExEnable, IL!MemWbEnable
<1>2. exmem' = [result |-> ALUResult, dataIn |-> StoreDataEX, pc |-> idex.pc,
                pc4 |-> idex.pc4, rd |-> idex.rd, rs2 |-> idex.rs2,
                memWrite |-> idex.memWrite, memRead |-> idex.memRead,
                toReg |-> idex.toReg, writeReg |-> idex.writeReg]
    BY DEF Next, ClockExMem
<1>3. pending' = [ex |-> FalsePredict /\ ~NoOp /\ ~FE!IsBubble(ifid), mem |-> pending.ex]
    BY DEF Next, ClockPending
<1>4. imem' = imem
    BY DEF Next, FE!Clock, FE!ClockImem
<1> QED BY <1>1, <1>2, <1>3, <1>4 DEF FalsePredict, FE!IsBubble

LEMMA Holds ==
    ASSUME Types, pending \in [ex : BOOLEAN, mem : BOOLEAN], Next, ~ExEnable
    PROVE  /\ idex' = idex /\ exmem' = exmem /\ imem' = imem /\ ifid' = ifid
           /\ pending'.ex = pending.ex /\ pending'.mem = (pending.mem /\ ~WbEnable)
<1>1. idex' = idex /\ exmem' = exmem
    BY DEF Next, ClockIdEx, ClockExMem
<1>2. pending' = [ex |-> pending.ex, mem |-> pending.mem /\ ~WbEnable]
    BY DEF Next, ClockPending
<1>3. ifid' = ifid /\ imem' = imem
  <2>1. ~IfEnable
      BY Enables
  <2> QED BY <2>1 DEF Next, FE!Clock, FE!ClockIfId, FE!ClockImem
<1> QED BY <1>1, <1>2, <1>3

\* What ID/EX takes.
LEMMA Issues ==
    ASSUME Types, Next, ExEnable
    PROVE  /\ BranchTaken => Signals(idex)' = [NoControl EXCEPT !.aluSrc1 = "pc"]
           /\ ~BranchTaken /\ NoOp => Signals(idex)' = [NoControl EXCEPT !.aluSrc1 = "pc"]
           /\ ~BranchTaken /\ ~NoOp =>
                 /\ idex' = IdExOf(Control(ifid.instr.op), ifid.instr, ifid.pc, ifid.pc4, NewAddress,
                                   ReadReg(ifid.instr.rs1), ReadReg(ifid.instr.rs2))
                 /\ Signals(idex)' = Control(ifid.instr.op)
<1> DEFINE i == ifid.instr
<1>1. [NoControl EXCEPT !.aluSrc1 = "pc"] \in Controls
    BY DEF Controls
<1>2. Control(i.op) \in Controls
    BY DecodedInId DEF Controls
<1>3. CASE BranchTaken
  <2>1. idex' = EmptyIdEx
      BY <1>3 DEF Next, ClockIdEx, FalsePredict
  <2> QED BY <1>1, <1>3, <2>1, HoldsSignals DEF EmptyIdEx
<1>4. CASE ~BranchTaken /\ NoOp
  <2>1. idex' = IdExOf([NoControl EXCEPT !.aluSrc1 = "pc"], i, ifid.pc, ifid.pc4, NewAddress,
                       ReadReg(i.rs1), ReadReg(i.rs2))
      BY <1>4 DEF Next, ClockIdEx, FalsePredict
  <2> QED BY <1>1, <1>4, <2>1, HoldsSignals
<1>5. CASE ~BranchTaken /\ ~NoOp
  <2>1. idex' = IdExOf(Control(i.op), i, ifid.pc, ifid.pc4, NewAddress,
                       ReadReg(i.rs1), ReadReg(i.rs2))
      BY <1>5 DEF Next, ClockIdEx, FalsePredict
  <2> QED BY <1>2, <1>5, <2>1, HoldsSignals
<1> QED BY <1>3, <1>4, <1>5

\* What is common to all control signals.
LEMMA SignalsAgree ==
    ASSUME NEW r, Signals(r) \in Controls
    PROVE  /\ r.memRead \in BOOLEAN /\ r.memWrite \in BOOLEAN /\ r.writeReg \in BOOLEAN
           /\ r.memRead <=> r.toReg = "mem"
           /\ r.memRead => r.writeReg /\ ~r.memWrite
           /\ r.memWrite => ~r.writeReg
           /\ r.toReg \in {"pc", "pc4"} => r.branch \in {"jal", "jalr"}
           /\ r.memRead \/ r.memWrite => r.aluOp = "ADD"
<1>1. Signals(r) \in ControlType
    BY ControlsHaveTypes
<1>2. r.memRead \in BOOLEAN /\ r.memWrite \in BOOLEAN /\ r.writeReg \in BOOLEAN
    BY <1>1 DEF ControlType, Signals
<1>3. /\ r.memRead => r.writeReg /\ r.toReg # "alu"
      /\ r.memWrite => ~r.writeReg
      /\ ~(r.memRead /\ r.memWrite)
      /\ r.memRead \/ r.memWrite => r.aluOp = "ADD" /\ r.branch = "none"
      /\ r.branch = "none" /\ ~r.memRead => r.toReg = "alu"
    BY ControlsAgree DEF Signals
<1>4. \/ \E op \in Ops \cup {"zero"} : Signals(r) = Control(op)
      \/ Signals(r) = [NoControl EXCEPT !.aluSrc1 = "pc"]
    BY DEF Controls
<1>5. CASE Signals(r) = [NoControl EXCEPT !.aluSrc1 = "pc"]
  <2>1. r.toReg = "alu" /\ r.memRead = FALSE
      BY <1>5 DEF Signals, NoControl
  <2> QED BY <1>2, <1>3, <2>1
<1>6. ASSUME NEW op \in Ops \cup {"zero"}, Signals(r) = Control(op)
      PROVE  /\ r.memRead <=> r.toReg = "mem"
             /\ r.toReg \in {"pc", "pc4"} => r.branch \in {"jal", "jalr"}
  <2>1. CASE op \in DOMAIN RTypeALU \cup DOMAIN ITypeALU \cup {"lui", "auipc"}
    <3>1. r.toReg = "alu" /\ r.memRead = FALSE
        BY <1>6, <2>1, SignalsOf DEF Computes
    <3> QED BY <3>1
  <2>2. CASE op \in Branches
    <3>1. r.toReg = "alu" /\ r.memRead = FALSE
        BY <1>6, <2>2, SignalsOf
    <3> QED BY <3>1
  <2>3. CASE op \in {"sw", "zero"}
    <3>1. r.branch = "none" /\ r.memRead = FALSE
        BY <1>6, <2>3, SignalsOf
    <3> QED BY <1>3, <3>1
  <2>4. CASE op = "lw"
    <3>1. r.toReg = "mem" /\ r.memRead = TRUE
        BY <1>6, <2>4, SignalsOf
    <3> QED BY <3>1
  <2>5. CASE op \in {"jal", "jalr"}
    <3>1. r.branch = op /\ r.memRead = FALSE /\ r.toReg \in {"pc", "pc4"}
        BY <1>6, <2>5, SignalsOf
    <3> QED BY <2>5, <3>1
  <2> QED BY <2>1, <2>2, <2>3, <2>4, <2>5 DEF Ops
<1> QED BY <1>2, <1>3, <1>4, <1>5, <1>6

\* The operations that read and write the memory.
LEMMA MemoryOps ==
    ASSUME NEW op \in Ops
    PROVE  /\ Control(op).memRead <=> op = "lw"
           /\ Control(op).memWrite <=> op = "sw"
<1>1. CASE op \in DOMAIN RTypeALU
  <2>1. Control(op) = DecodeR(op) /\ op \notin {"lw", "sw"}
      BY <1>1, Decoded, Operations
  <2> QED BY <2>1 DEF DecodeR, NoControl
<1>2. CASE op \in DOMAIN ITypeALU
  <2>1. Control(op) = DecodeI(op) /\ op \notin {"lw", "sw"}
      BY <1>2, Decoded, Operations
  <2> QED BY <2>1 DEF DecodeI, NoControl
<1>3. CASE op \in Branches
  <2>1. Control(op) = DecodeBranch(op) /\ op \notin {"lw", "sw"}
      BY <1>3, Decoded DEF Branches
  <2> QED BY <2>1 DEF DecodeBranch, NoControl
<1>4. CASE op \in {"lw", "sw"}
  <2>1. Control("lw") = DecodeLoad /\ Control("sw") = DecodeStore
      BY Decoded
  <2> QED BY <1>4, <2>1 DEF DecodeLoad, DecodeStore, NoControl
<1>5. CASE op \in {"lui", "auipc"}
  <2>1. Control("lui") = DecodeLUI /\ Control("auipc") = DecodeAUIPC
      BY Decoded
  <2> QED BY <1>5, <2>1 DEF DecodeLUI, DecodeAUIPC, NoControl
<1>6. CASE op \in {"jal", "jalr"}
  <2>1. Control("jal") = DecodeJAL /\ Control("jalr") = DecodeJALR
      BY Decoded
  <2> QED BY <1>6, <2>1 DEF DecodeJAL, DecodeJALR, NoControl
<1> QED BY <1>1, <1>2, <1>3, <1>4, <1>5, <1>6 DEF Ops

-----------------------------------------------------------------------------
(* The words that the front end delivers.                                  *)

LEMMA NothingHeld ==
    ASSUME Types, CP!Inv, CP!Boot \/ CP!AfterRedirect \/ CP!AfterStalledRedirect
    PROVE  BranchTaken = FALSE /\ ExEnable /\ ~NoOp /\ IfEnable
<1>1. InCtlEx = CP!Bubble /\ exmem.memRead = FALSE
    BY DEF CP!Boot, CP!AfterRedirect, CP!AfterStalledRedirect, CP!Flushed, InCtlEx, Types, InExMem
<1>2. KindDecoded(idex) = "zero" /\ BranchTaken = FALSE
    BY <1>1, Enables DEF InCtlEx, CP!Bubble, CP!Falls
<1>3. ~idex.memRead /\ ~DivOp
    BY <1>2, KindInEx DEF Types, DivOp, Divisions
<1> QED BY <1>1, <1>2, <1>3, Enables DEF ExEnable, IL!IdExEnable, IL!DivBusy, IL!StallCD, MemRead, NoOp

\* While nothing of the program has got to ID/EX, a stalled front end leaves
\* it so.
LEMMA StaysUntouched ==
    ASSUME Types, Next, Untouched, ~IfEnable
    PROVE  Untouched'
<1>1. idex.memRead => idex.writeReg
    BY SignalsAgree DEF Types
<1>2. ~ExEnable
    BY <1>1, Enables DEF Untouched
<1>3. idex' = idex /\ exmem' = exmem /\ imem' = imem
    BY <1>2 DEF Next, ClockIdEx, ClockExMem, FE!Clock, FE!ClockImem
<1>4. memwb'.writeReg = FALSE
  <2>1. memwb.writeReg = FALSE /\ exmem.writeReg = FALSE
      BY DEF Untouched, Types, InMemWb, InExMem
  <2> QED BY <2>1 DEF Next, ClockMemWb
<1>5. regs' = regs
    BY DEF Next, Untouched, RegsAfterWB
<1> QED BY <1>3, <1>4, <1>5 DEF Untouched

LEMMA ZeroOnly == ASSUME NEW i \in Fetchable, KindOf(i) = "zero" PROVE i = ZeroWord
BY KindFetched DEF Fetchable, CTL!Program

LEMMA WordsStep ==
    ASSUME Types, Types', CP!Inv, CP!Inv', FetchedWords, Next
    PROVE  FetchedWords'
<1>0. FE!Clock(IfEnable, FalsePredict, Target)
    BY DEF Next
<1>1. imem' = imem /\ imemOut' = imem[pc]
    BY <1>0 DEF FE!Clock, FE!ClockImem
<1>2. FalsePredict = ~BranchTaken /\ BranchTaken \in BOOLEAN /\ IfEnable \in BOOLEAN
    BY Enables DEF IfEnable, IL!BrdIfIdEnable
<1>3. rajLast' = FalsePredict /\ fpPrev' = FalsePredict
    BY <1>0 DEF FE!Clock, FE!ClockRstAfterJump, FE!ClockPrevReg
<1>4. ~CP!Boot'
    BY <1>3 DEF CP!Boot, CP!FE!Reset
<1>5. CP!Steady' => FalsePredict
    BY <1>3 DEF CP!Steady
<1>6. Supported(imem)'
    BY <1>1 DEF FetchedWords
<1>7. sel \in {"IDLE", "PULSE_LOW"} /\ selLast \in BOOLEAN
    BY DEF CP!Inv, CP!TypeOK
<1> DEFINE Word1 == ~FE!IsBubble(ifid') => ifid'.instr = imem[ifid'.pc] /\ ifid'.pc4 = Behind(ifid'.pc)
           Word2 == FE!IsBubble(ifid') => \/ ifid'.instr \in {ZeroWord, Nop}
                                          \/ ifid'.instr = imem[0] /\ Untouched'
           Word3 == FalsePredict => IF sel' = "IDLE" THEN imemOut' = imem[brd'.pc]
                                    ELSE prevInstr' = imem[brd'.pc]
<1>8. ASSUME ifid' = FE!EmptyIfId PROVE Word1 /\ Word2
    BY <1>8 DEF FE!EmptyIfId, FE!IsBubble
<1>9. ASSUME ~IfEnable PROVE Word1 /\ Word2
  <2>1. ifid' = ifid
      BY <1>0, <1>9 DEF FE!Clock, FE!ClockIfId
  <2>2. Untouched => Untouched'
      BY <1>9, StaysUntouched
  <2> QED BY <2>1, <2>2 DEF FetchedWords
<1>10. ASSUME FalsePredict, IfEnable, sel = "IDLE" \/ ~selLast PROVE Word3
  <2>1. brd'.pc = pc
      BY <1>0, <1>10 DEF FE!Clock, FE!ClockBrd
  <2>2. sel' = "IDLE"
      BY <1>0, <1>7, <1>10 DEF FE!Clock, FE!ClockInstrControl
  <2> QED BY <1>1, <2>1, <2>2
<1>11. CASE CP!Boot
  <2>1. /\ pc = 0 /\ brd = FE!EmptyBrd /\ sel = "IDLE" /\ raj = "IDLE" /\ fpPrevPrev = TRUE
        /\ KindOf(ifid.instr) = "zero"
    <3>1. [ifid EXCEPT !.instr = KindOf(ifid.instr)].instr = KindOf(ifid.instr)
        BY DEF Types
    <3> QED BY <1>11, <3>1 DEF CP!Boot, CP!FE!Reset, CP!FE!EmptyBrd, FE!EmptyBrd, CP!FE!EmptyIfId
  <2>2. imemOut = imem[0] /\ Untouched
      BY <1>11 DEF FetchedWords
  <2>3. FalsePredict /\ IfEnable /\ ExEnable /\ ~NoOp /\ ~BranchTaken
      BY <1>2, <1>11, NothingHeld
  <2>4. ifid' = [instr |-> imem[0], pc |-> 0, pc4 |-> 0]
      BY <1>0, <2>1, <2>2, <2>3 DEF FE!Clock, FE!ClockIfId, FE!Mux11, FE!Mux10, FE!EmptyBrd
  <2>5. Untouched'
    <3>1. ifid.instr = ZeroWord
        BY <2>1, ZeroOnly DEF Types
    <3>2. Signals(idex)' = NoControl
        BY <2>3, <3>1, Issues, Decoded DEF ZeroWord
    <3>3. idex'.writeReg = FALSE
        BY <3>2 DEF Signals, NoControl
    <3>4. exmem'.writeReg = idex.writeReg /\ WbEnable
        BY <2>3, Moves
    <3>5. memwb'.writeReg = exmem.writeReg
        BY <3>4 DEF Next, ClockMemWb
    <3>6. regs' = regs
        BY <2>2 DEF Next, Untouched, RegsAfterWB
    <3> QED BY <1>1, <2>2, <3>3, <3>4, <3>5, <3>6 DEF Untouched
  <2>6. Word1 /\ Word2
      BY <2>4, <2>5 DEF FE!IsBubble
  <2>7. Word3
      BY <1>10, <2>1, <2>3
  <2> QED BY <1>1, <1>4, <1>5, <1>6, <2>6, <2>7 DEF FetchedWords
<1>12. CASE CP!Steady
  <2>1. /\ brd.pc4 = Behind(brd.pc) /\ raj = "IDLE" /\ fpPrev
        /\ (sel = "IDLE" /\ selLast) \/ (sel = "PULSE_LOW" /\ ~selLast)
    <3>1. brd.pc4 = CP!FE!Plus4(brd.pc)
        BY <1>12 DEF CP!Steady
    <3>2. CP!FE!Plus4(brd.pc) = Behind(brd.pc)
        BY DEF CP!FE!Plus4, Behind, FE!Plus4
    <3>3. /\ raj = "IDLE" /\ fpPrev
          /\ (sel = "IDLE" /\ selLast) \/ (sel = "PULSE_LOW" /\ ~selLast)
        BY <1>12 DEF CP!Steady
    <3> QED BY <3>1, <3>2, <3>3
  <2>2. FE!Mux10 = imem[brd.pc]
      BY <1>12 DEF FetchedWords, FE!Mux10
  <2>3. ~FE!IsBubble(brd) /\ brd.pc \in Addr
      BY <2>1, BehindIsAhead DEF FE!IsBubble, Types
  <2>4. CASE IfEnable /\ FalsePredict
    <3>1. ifid' = [instr |-> imem[brd.pc], pc |-> brd.pc, pc4 |-> brd.pc4]
        BY <1>0, <2>1, <2>2, <2>4 DEF FE!Clock, FE!ClockIfId, FE!Mux11
    <3>2. Word1 /\ Word2
        BY <2>1, <2>3, <3>1 DEF FE!IsBubble
    <3>3. Word3
        BY <1>10, <2>1, <2>4
    <3> QED BY <1>1, <1>4, <1>5, <1>6, <3>2, <3>3 DEF FetchedWords
  <2>5. CASE IfEnable /\ ~FalsePredict
    <3>1. ifid' = FE!EmptyIfId
        BY <1>0, <2>5 DEF FE!Clock, FE!ClockIfId
    <3> QED BY <1>1, <1>4, <1>5, <1>6, <1>8, <2>5, <3>1 DEF FetchedWords
  <2>6. CASE ~IfEnable
    <3>1. Word3
      <4> SUFFICES ASSUME FalsePredict
                   PROVE  IF sel' = "IDLE" THEN imemOut' = imem[brd'.pc] ELSE prevInstr' = imem[brd'.pc]
          OBVIOUS
      <4>1. brd' = brd /\ sel' = "PULSE_LOW" /\ prevInstr' = FE!Mux10
          BY <1>0, <2>1, <2>6 DEF FE!Clock, FE!ClockBrd, FE!ClockInstrControl, FE!ClockBackup, FE!Mux10
      <4> QED BY <2>2, <4>1
    <3> QED BY <1>1, <1>4, <1>5, <1>6, <1>9, <2>6, <3>1 DEF FetchedWords
  <2> QED BY <2>4, <2>5, <2>6
<1>13. CASE CP!AfterRedirect
  <2>1. FalsePredict /\ IfEnable
      BY <1>2, <1>13, NothingHeld
  <2>2. sel = "IDLE" /\ raj = "PULSE_LOW"
      BY <1>13 DEF CP!AfterRedirect, CP!Flushed
  <2>3. ifid' = FE!EmptyIfId
      BY <1>0, <2>1, <2>2 DEF FE!Clock, FE!ClockIfId
  <2>4. Word3
      BY <1>10, <2>1, <2>2
  <2> QED BY <1>1, <1>4, <1>5, <1>6, <1>8, <2>3, <2>4 DEF FetchedWords
<1>14. CASE CP!StalledRedirect
  <2>1. BranchTaken = TRUE
      BY <1>2, <1>14 DEF CP!StalledRedirect
  <2>2. ~FalsePredict
      BY <1>2, <2>1
  <2>3. CASE IfEnable
    <3>1. ifid' = FE!EmptyIfId
        BY <1>0, <2>2, <2>3 DEF FE!Clock, FE!ClockIfId
    <3> QED BY <1>1, <1>4, <1>5, <1>6, <1>8, <2>2, <3>1 DEF FetchedWords
  <2>4. CASE ~IfEnable
      BY <1>1, <1>4, <1>5, <1>6, <1>9, <2>2, <2>4 DEF FetchedWords
  <2> QED BY <2>3, <2>4
<1>15. CASE CP!AfterStalledRedirect
  <2>1. FalsePredict /\ IfEnable
      BY <1>2, <1>15, NothingHeld
  <2>2. /\ sel = "IDLE" /\ raj = "IDLE" /\ brd = FE!EmptyBrd
        /\ ~fpPrevPrev /\ ~fpPrev /\ enPrev
      BY <1>15 DEF CP!AfterStalledRedirect, CP!Flushed, CP!FE!EmptyBrd, FE!EmptyBrd
  <2>3. ifid' = [instr |-> Nop, pc |-> 0, pc4 |-> 0]
      BY <1>0, <2>1, <2>2 DEF FE!Clock, FE!ClockIfId, FE!Mux11, FE!EmptyBrd, FE!IsBubble
  <2>4. Word1 /\ Word2
      BY <2>3 DEF FE!IsBubble
  <2>5. Word3
      BY <1>10, <2>1, <2>2
  <2> QED BY <1>1, <1>4, <1>5, <1>6, <2>4, <2>5 DEF FetchedWords
<1> QED BY <1>11, <1>12, <1>13, <1>14, <1>15 DEF CP!Inv, CP!FetchInv

-----------------------------------------------------------------------------
(* While EX holds.                                                         *)

\* The memory and the registers do not change any more while a division
\* holds an instruction in MEM.
LEMMA DivisionWaits ==
    ASSUME Types, CP!Inv, pending \in [ex : BOOLEAN, mem : BOOLEAN], MemSignals, LoadData, StoreData,
           Next, ~ExEnable, WbEnable
    PROVE  /\ DivOp /\ ~done
           /\ RegsAfterWB' = RegsAfterMem /\ RegsAfterMem' = RegsAfterMem
           /\ exmem.memWrite => DataToStore' = DataToStore /\ DataToStore' = exmem.dataIn
           /\ DmemAfterMem' = dmem'
<1>1. DivOp /\ ~done
    BY Edges
<1>2. /\ RegsAfterWB' = RegsAfterMem /\ dmem' = DmemAfterMem
      /\ memwb'.writeReg = exmem.writeReg
    BY TakesEffect
<1>3. exmem' = exmem
    BY Holds
<1>4. RegsAfterWB \in [Reg -> Word] /\ exmem.rd \in Reg
    BY RegistersHold DEF Types, InExMem
<1>5. RegsAfterMem' = RegsAfterMem
  <2>1. CASE exmem.writeReg /\ exmem.rd # 0
    <3>1. dmem' = dmem
        BY <1>2, <2>1 DEF MemSignals, DmemAfterMem
    <3>2. MemValue' = MemValue
        BY <1>3, <3>1 DEF MemValue, DmemAddress
    <3>3. RegsAfterMem' = [RegsAfterWB' EXCEPT ![exmem.rd] = MemValue]
        BY <1>3, <2>1, <3>2 DEF RegsAfterMem
    <3>4. RegsAfterMem = [RegsAfterWB EXCEPT ![exmem.rd] = MemValue]
        BY <2>1 DEF RegsAfterMem
    <3> QED BY <1>2, <1>4, <3>3, <3>4
  <2>2. CASE ~(exmem.writeReg /\ exmem.rd # 0)
      BY <1>2, <1>3, <2>2 DEF RegsAfterMem
  <2> QED BY <2>1, <2>2
<1>6. exmem.memWrite => DataToStore' = DataToStore /\ DataToStore' = exmem.dataIn
  <2>1. exmem.memWrite => DataToStore = exmem.dataIn
      BY <1>1 DEF StoreData
  <2>2. exmem.memWrite => ~memwb'.writeReg
      BY <1>2 DEF MemSignals
  <2>3. exmem.memWrite => DataToStore' = exmem.dataIn
      BY <1>3, <2>2 DEF DataToStore, ForwardWBToMem
  <2> QED BY <2>1, <2>3
<1>7. DmemAfterMem' = dmem'
  <2>1. DmemAddress' = DmemAddress /\ DmemAddress \in 0..(MemSize - 1)
      BY <1>3, RegistersHold DEF DmemAddress
  <2>2. CASE exmem.memWrite
    <3>1. DmemAfterMem' = [dmem' EXCEPT ![DmemAddress] = DataToStore]
        BY <1>3, <1>6, <2>1, <2>2 DEF DmemAfterMem
    <3>2. dmem' = [dmem EXCEPT ![DmemAddress] = DataToStore]
        BY <1>2, <2>2 DEF DmemAfterMem
    <3>3. dmem \in [0..(MemSize - 1) -> Word]
        BY DEF Types
    <3> QED BY <2>1, <3>1, <3>2, <3>3
  <2>3. CASE ~exmem.memWrite
      BY <1>3, <2>3 DEF DmemAfterMem
  <2> QED BY <2>2, <2>3
<1> QED BY <1>1, <1>2, <1>5, <1>6, <1>7

\* A division that EX holds has been started or goes on.
LEMMA DivisionGoesOn ==
    ASSUME Types, CP!Inv, Next, ~ExEnable, DivOp
    PROVE  ~(divState' = "IDLE" /\ ~done')
<1>1. /\ divState \in {"IDLE", "PREPARE", "CALCULATE", "FINISH"} /\ ~done
      /\ busy <=> divState # "IDLE"
    BY Edges
<1>2. IL!ClockDivider(IL!DividerStart(DivOp), AtCorner)
    BY DEF Next, IL!Clock, AtCorner
<1>3. IL!DividerStart(DivOp) <=> divState = "IDLE"
    BY <1>1 DEF IL!DividerStart
<1>4. CASE divState = "IDLE"
  <2>1. divState' = "PREPARE"
      BY <1>2, <1>3, <1>4 DEF IL!ClockDivider, IL!Idle, IL!Accept, IL!Prepare, IL!Calculate, IL!Finish
  <2> QED BY <2>1
<1>5. CASE divState = "PREPARE"
  <2>1. divState' \in {"FINISH", "CALCULATE"}
      BY <1>2, <1>5 DEF IL!ClockDivider, IL!Idle, IL!Accept, IL!Prepare, IL!Calculate, IL!Finish
  <2> QED BY <2>1
<1>6. CASE divState = "CALCULATE"
  <2>1. divState' \in {"FINISH", "CALCULATE"}
      BY <1>2, <1>6 DEF IL!ClockDivider, IL!Idle, IL!Accept, IL!Prepare, IL!Calculate, IL!Finish
  <2> QED BY <2>1
<1>7. CASE divState = "FINISH"
  <2>1. done' = TRUE
      BY <1>2, <1>7 DEF IL!ClockDivider, IL!Idle, IL!Accept, IL!Prepare, IL!Calculate, IL!Finish
  <2> QED BY <2>1
<1> QED BY <1>1, <1>4, <1>5, <1>6, <1>7

-----------------------------------------------------------------------------
(* The invariant holds after an edge: EX.                                  *)

LEMMA RealExStep ==
    ASSUME Types, CP!Inv, pending \in [ex : BOOLEAN, mem : BOOLEAN], FetchedWords, RealEx, Next
    PROVE  RealEx'
<1> SUFFICES ASSUME pending'.ex
             PROVE  /\ InEx(imem[idex.pc], idex.pc)'
                    /\ ~FE!IsBubble(ifid')
                    /\ NextFetched' = Behind(idex'.pc)
    BY DEF RealEx
<1>1. CASE ~ExEnable
  <2>1. idex' = idex /\ imem' = imem /\ ifid' = ifid /\ pending.ex
      BY <1>1, Holds
  <2>2. NextFetched' = NextFetched
      BY <1>1, NextMoves
  <2>3. InEx(imem[idex.pc], idex.pc)
      BY <2>1 DEF RealEx
  <2>4. InEx(imem[idex.pc], idex.pc)'
      BY <2>1, <2>3 DEF InEx
  <2> QED BY <2>1, <2>2, <2>4 DEF RealEx
<1>2. CASE ExEnable
  <2>1. ~BranchTaken /\ ~NoOp /\ ~FE!IsBubble(ifid) /\ imem' = imem
      BY <1>2, Moves
  <2> DEFINE i == ifid.instr
  <2>2. /\ idex' = IdExOf(Control(i.op), i, ifid.pc, ifid.pc4, NewAddress,
                          ReadReg(i.rs1), ReadReg(i.rs2))
      BY <1>2, <2>1, Issues
  <2>3. i = imem[ifid.pc] /\ ifid.pc4 = Behind(ifid.pc)
      BY <2>1 DEF FetchedWords
  <2>4. NewAddress = Ahead(ifid.pc, i.imm)
      BY DEF NewAddress, Ahead
  <2>5. ReadReg(i.rs1) \in Word /\ ReadReg(i.rs2) \in Word
      BY DecodedInId, ReadIsWord
  <2>6. idex'.pc = ifid.pc
      BY <2>2 DEF IdExOf
  <2>7. InEx(imem[idex.pc], idex.pc)'
    <3>1. \E d1, d2 \in Word : idex' = IdExOf(Control(i.op), i, ifid.pc, Behind(ifid.pc),
                                              Ahead(ifid.pc, i.imm), d1, d2)
        BY <2>2, <2>3, <2>4, <2>5
    <3>2. imem'[idex'.pc] = i
        BY <2>1, <2>3, <2>6
    <3> QED BY <2>6, <3>1, <3>2 DEF InEx
  <2>8. NextFetched' = Behind(idex'.pc)
    <3>1. NextFetched' = Behind(NextFetched)
        BY <1>2, <2>1, NextMoves
    <3>2. NextFetched = ifid.pc
        BY <2>1 DEF NextFetched
    <3> QED BY <2>6, <3>1, <3>2
  <2>9. ~FE!IsBubble(ifid')
    <3>1. ~FE!IsBubble(brd) /\ raj = "IDLE"
        BY <2>1, Situations
    <3>2. FE!Clock(TRUE, TRUE, Target)
        BY <1>2, <2>1, Enables DEF Next
    <3>3. ifid'.pc = brd.pc /\ ifid'.pc4 = brd.pc4
        BY <3>1, <3>2 DEF FE!Clock, FE!ClockIfId
    <3> QED BY <3>1, <3>3 DEF FE!IsBubble
  <2> QED BY <2>7, <2>8, <2>9
<1> QED BY <1>1, <1>2

\* An instruction word that is not of the program at its address.
LEMMA InertInId ==
    ASSUME Types, FetchedWords, FE!IsBubble(ifid)
    PROVE  \/ ifid.instr = ZeroWord
           \/ /\ ifid.instr \in Instruction /\ ifid.instr.op = "addi" /\ ifid.instr.rs1 = 0
              /\ \/ ifid.instr.rd = 0 /\ ifid.instr.imm = 0
                 \/ Untouched /\ regs[ifid.instr.rd] = ifid.instr.imm
<1>1. imem \in [Addr -> Instruction] /\ 0 \in Addr
    BY AddressesAreWords DEF Types
<1>2. CASE ifid.instr = ZeroWord
    BY <1>2
<1>3. CASE ifid.instr = Nop
  <2>1. ifid.instr \in Instruction
      BY <1>3 DEF Types, Fetchable, Nop, ZeroWord
  <2> QED BY <1>3, <2>1 DEF Nop
<1>4. CASE ifid.instr = imem[0] /\ Untouched
  <2>1. imem[0].op = "addi" /\ imem[0].rs1 = 0
      BY DEF FetchedWords, Supported, RepeatableStart
  <2> QED BY <1>1, <1>4, <2>1 DEF Untouched
<1> QED BY <1>2, <1>3, <1>4 DEF FetchedWords

LEMMA InertExStep ==
    ASSUME Types, Types', CP!Inv, pending \in [ex : BOOLEAN, mem : BOOLEAN], FetchedWords, InertEx,
           MemSignals, LoadData, Next
    PROVE  InertEx'
<1> SUFFICES ASSUME ~pending'.ex
             PROVE  /\ idex'.branch = "none" /\ ~idex'.memRead /\ ~idex'.memWrite /\ ~DivOp'
                    /\ idex'.aluSrc1 = "reg" => idex'.rs1 = 0
                    /\ idex'.aluSrc2 = "imm"
                    /\ idex'.writeReg =>
                          /\ FE!IsBubble(idex')
                          /\ idex'.aluOp = "ADD" /\ idex'.toReg = "alu"
                          /\ idex'.aluSrc1 = "reg" /\ idex'.data1 = 0
                          /\ RegsAfterMem'[idex'.rd] = idex'.imm
                          /\ idex'.rd # 0 => ~exmem'.writeReg
    BY DEF InertEx
<1>1. CASE ~ExEnable
  <2>1. idex' = idex /\ exmem' = exmem /\ ~pending.ex
      BY <1>1, Holds
  <2>2. ~DivOp /\ DivOp' = DivOp
      BY <2>1 DEF InertEx, DivOp
  <2>3. ~WbEnable
      BY <1>1, <2>2, Edges
  <2>4. RegsAfterMem' = RegsAfterMem
      BY <2>3, LoadWaits
  <2> QED BY <2>1, <2>2, <2>4 DEF InertEx
<1>2. ASSUME Signals(idex)' = [NoControl EXCEPT !.aluSrc1 = "pc"] \/ Signals(idex)' = NoControl
      PROVE  /\ idex'.branch = "none" /\ ~idex'.memRead /\ ~idex'.memWrite /\ ~DivOp' /\ ~idex'.writeReg
             /\ idex'.aluSrc2 = "imm"
             /\ Signals(idex)' = NoControl \/ idex'.aluSrc1 = "pc"
  <2>1. /\ idex'.branch = "none" /\ idex'.memRead = FALSE /\ idex'.memWrite = FALSE
        /\ idex'.aluOp = "AND" /\ idex'.writeReg = FALSE /\ idex'.aluSrc2 = "imm"
        /\ Signals(idex)' = NoControl \/ idex'.aluSrc1 = "pc"
      BY <1>2 DEF Signals, NoControl
  <2> QED BY <2>1 DEF DivOp
<1>3. CASE ExEnable /\ (BranchTaken \/ NoOp)
  <2>1. Signals(idex)' = [NoControl EXCEPT !.aluSrc1 = "pc"]
      BY <1>3, Issues
  <2>2. idex'.aluSrc1 = "pc"
      BY <2>1 DEF Signals, NoControl
  <2> QED BY <1>2, <2>1, <2>2
<1>4. CASE ExEnable /\ ~BranchTaken /\ ~NoOp
  <2> DEFINE i == ifid.instr
  <2>1. FE!IsBubble(ifid)
      BY <1>4, Moves
  <2>2. /\ idex' = IdExOf(Control(i.op), i, ifid.pc, ifid.pc4, NewAddress,
                          ReadReg(i.rs1), ReadReg(i.rs2))
        /\ Signals(idex)' = Control(i.op)
      BY <1>4, Issues
  <2>3. CASE i = ZeroWord
    <3>1. Signals(idex)' = NoControl
        BY <2>2, <2>3, Decoded DEF ZeroWord
    <3>2. idex'.rs1 = 0
        BY <2>2, <2>3 DEF IdExOf, ZeroWord
    <3> QED BY <1>2, <3>1, <3>2
  <2>4. CASE /\ i \in Instruction /\ i.op = "addi" /\ i.rs1 = 0
             /\ \/ i.rd = 0 /\ i.imm = 0
                \/ Untouched /\ regs[i.rd] = i.imm
    <3>1. Signals(idex)' = DecodeI("addi")
        BY <2>2, <2>4, Operations, Decoded
    <3>2. /\ idex'.branch = "none" /\ idex'.memRead = FALSE /\ idex'.memWrite = FALSE
          /\ idex'.aluOp = "ADD" /\ idex'.toReg = "alu" /\ idex'.aluSrc1 = "reg"
          /\ idex'.aluSrc2 = "imm"
        BY <3>1, Operations DEF Signals, DecodeI, NoControl
    <3>3. FE!IsBubble(idex')
        BY <2>1, <2>2 DEF IdExOf, FE!IsBubble
    <3>4. idex'.rs1 = 0 /\ idex'.data1 = 0 /\ idex'.rd = i.rd /\ idex'.imm = Wrap(i.imm)
        BY <2>2, <2>4 DEF IdExOf, ReadReg
    <3>5. i.imm \in Word /\ Wrap(i.imm) = i.imm
      <4>1. i.op \notin Branches \cup {"jal"}
          BY <2>4 DEF Branches
      <4> QED BY <2>4, <4>1, ImmediatesAreWords
    <3>6. exmem'.writeReg = idex.writeReg /\ WbEnable
        BY <1>4, Moves
    <3>7. RegsAfterMem'[i.rd] = i.imm /\ (i.rd # 0 => ~exmem'.writeReg)
      <4>1. CASE i.rd = 0 /\ i.imm = 0
        <5>1. RegsAfterWB \in [Reg -> Word] /\ RegsAfterWB[0] = 0 /\ MemValue \in Word
            BY RegistersHold
        <5>2. RegsAfterWB' = RegsAfterMem /\ RegsAfterMem[0] = 0
            BY <3>6, TakesEffect, RegistersHold
        <5>3. RegsAfterMem'[0] = 0
            BY <5>2, RegistersHold, CoreAssumption DEF RegsAfterMem, Types, InExMem
        <5> QED BY <4>1, <5>3
      <4>2. CASE Untouched /\ regs[i.rd] = i.imm
        <5>1. RegsAfterWB' = RegsAfterMem
            BY <3>6, TakesEffect
        <5>2. RegsAfterMem = regs
            BY <4>2 DEF Untouched, RegsAfterMem, RegsAfterWB
        <5>3. ~exmem'.writeReg
            BY <3>6, <4>2 DEF Untouched
        <5>4. RegsAfterMem' = regs
            BY <5>1, <5>2, <5>3 DEF RegsAfterMem
        <5> QED BY <4>2, <5>3, <5>4
      <4> QED BY <2>4, <4>1, <4>2
    <3>8. ~DivOp'
        BY <3>2 DEF DivOp
    <3> QED BY <3>2, <3>3, <3>4, <3>5, <3>7, <3>8
  <2> QED BY <2>1, <2>3, <2>4, InertInId
<1> QED BY <1>1, <1>3, <1>4

-----------------------------------------------------------------------------
(* MEM.                                                                    *)

\* What is not an instruction of the program writes what is there.
LEMMA InertMemStep ==
    ASSUME Types, CP!Inv, pending \in [ex : BOOLEAN, mem : BOOLEAN], RealEx, InertEx,
           InertMem, MemSignals, LoadData, StoreData, Next
    PROVE  InertMem'
<1> SUFFICES ASSUME exmem'.writeReg, FE!IsBubble(exmem')
             PROVE  /\ exmem'.toReg = "alu" /\ exmem'.result = RegsAfterWB'[exmem'.rd]
                    /\ exmem'.rd # 0 /\ memwb'.writeReg => FE!IsBubble(memwb')
    BY DEF InertMem
<1>1. CASE ~WbEnable
    BY <1>1, LoadWaits DEF InertMem
<1>2. CASE WbEnable /\ ~ExEnable
  <2>1. exmem' = exmem
      BY <1>2, Holds
  <2>2. RegsAfterWB' = RegsAfterMem /\ FE!IsBubble(memwb') = FE!IsBubble(exmem)
      BY <1>2, TakesEffect
  <2>3. RegsAfterMem = RegsAfterWB
      BY <2>1, InertWrite
  <2> QED BY <2>1, <2>2, <2>3 DEF InertMem
<1>3. CASE ExEnable
  <2>1. /\ exmem'.writeReg = idex.writeReg /\ exmem'.toReg = idex.toReg /\ exmem'.rd = idex.rd
        /\ exmem'.result = ALUResult /\ FE!IsBubble(exmem') = FE!IsBubble(idex) /\ WbEnable
    <3>1. FE!IsBubble(exmem') = FE!IsBubble(idex)
        BY <1>3, Moves
    <3>2. WbEnable /\ exmem' = [result |-> ALUResult, dataIn |-> StoreDataEX, pc |-> idex.pc,
                                pc4 |-> idex.pc4, rd |-> idex.rd, rs2 |-> idex.rs2,
                                memWrite |-> idex.memWrite, memRead |-> idex.memRead,
                                toReg |-> idex.toReg, writeReg |-> idex.writeReg]
        BY <1>3, Moves
    <3> QED BY <3>1, <3>2
  <2>2. ~pending.ex
    <3>1. pending.ex => idex.pc4 = Behind(idex.pc) /\ idex.pc \in Addr
        BY Fetched
    <3> QED BY <2>1, <3>1, BehindIsAhead DEF FE!IsBubble
  <2>3. /\ idex.aluOp = "ADD" /\ idex.toReg = "alu"
        /\ idex.aluSrc1 = "reg" /\ idex.rs1 = 0 /\ idex.data1 = 0
        /\ idex.aluSrc2 = "imm" /\ RegsAfterMem[idex.rd] = idex.imm
        /\ idex.rd # 0 => ~exmem.writeReg
      BY <2>1, <2>2 DEF InertEx
  <2>4. Op1 = 0 /\ Op2 = idex.imm
      BY <2>3 DEF Op1, Op2, Forwarded, ForwardFromMem, ForwardFromWB
  <2>5. ALUResult = Wrap(Op1 + Op2)
      BY <2>3, Zenon DEF ALUResult
  <2>6. PICK x : x = idex.imm
      OBVIOUS
  <2>7. x \in Word /\ x \in Int
      BY <2>6, Sizes DEF Types, InIdEx
  <2>8. ALUResult = idex.imm
    <3>1. 0 + x = x
        BY <2>7
    <3> QED BY <2>4, <2>5, <2>6, <2>7, <3>1, WordsWrap
  <2>9. RegsAfterWB' = RegsAfterMem /\ memwb'.writeReg = exmem.writeReg
      BY <2>1, TakesEffect
  <2> QED BY <2>1, <2>3, <2>8, <2>9
<1> QED BY <1>1, <1>2, <1>3

LEMMA MemSignalsStep ==
    ASSUME Types, pending \in [ex : BOOLEAN, mem : BOOLEAN], RealEx, InertEx, MemSignals, Next
    PROVE  MemSignals'
<1>1. CASE ~ExEnable
    BY <1>1, Holds DEF MemSignals, FE!IsBubble
<1>2. CASE ExEnable
  <2>1. /\ exmem'.writeReg = idex.writeReg /\ exmem'.toReg = idex.toReg /\ exmem'.rd = idex.rd
        /\ exmem'.memRead = idex.memRead /\ exmem'.memWrite = idex.memWrite /\ exmem'.pc = idex.pc
        /\ FE!IsBubble(exmem') = FE!IsBubble(idex) /\ imem' = imem
    <3>1. FE!IsBubble(exmem') = FE!IsBubble(idex) /\ imem' = imem
        BY <1>2, Moves
    <3>2. exmem' = [result |-> ALUResult, dataIn |-> StoreDataEX, pc |-> idex.pc,
                    pc4 |-> idex.pc4, rd |-> idex.rd, rs2 |-> idex.rs2,
                    memWrite |-> idex.memWrite, memRead |-> idex.memRead,
                    toReg |-> idex.toReg, writeReg |-> idex.writeReg]
        BY <1>2, Moves
    <3> QED BY <3>1, <3>2
  <2>2. /\ idex.memRead <=> idex.toReg = "mem"
        /\ idex.memRead => idex.writeReg /\ ~idex.memWrite
        /\ idex.memWrite => ~idex.writeReg
      BY SignalsAgree DEF Types
  <2>3. ASSUME idex.writeReg, ~FE!IsBubble(idex)
        PROVE  /\ idex.rd = imem[idex.pc].rd /\ Writes(imem[idex.pc])
               /\ idex.memRead = Control(imem[idex.pc].op).memRead
    <3>1. pending.ex
        BY <2>3 DEF InertEx
    <3>2. Signals(idex) = Control(imem[idex.pc].op) /\ idex.rd = imem[idex.pc].rd
        BY <3>1, Fetched
    <3> QED BY <2>3, <3>2 DEF Signals, Writes
  <2> QED BY <2>1, <2>2, <2>3 DEF MemSignals
<1> QED BY <1>1, <1>2

LEMMA LoadDataStep ==
    ASSUME Types, pending \in [ex : BOOLEAN, mem : BOOLEAN], MemSignals, Next
    PROVE  LoadData'
<1> SUFFICES ASSUME stateMEM' = "BUSY" PROVE dmemOut' = dmem'[DmemAddress']
    BY DEF LoadData
<1>1. ~WbEnable
    BY DEF Next, IL!Clock, IL!ClockCondDelay, WbEnable, IL!MemWbEnable, IL!StallCD
<1>2. dmemOut' = dmem[DmemAddress] /\ dmem' = dmem /\ exmem' = exmem
    BY <1>1, LoadWaits
<1> QED BY <1>2 DEF DmemAddress

-----------------------------------------------------------------------------
(* Who follows whom.                                                       *)

LEMMA Following ==
    ASSUME Types, FetchedWords, RealEx, pending.ex
    PROVE  /\ ~FE!IsBubble(ifid) /\ ifid.pc = Behind(idex.pc)
           /\ ifid.instr = imem[Behind(idex.pc)] /\ idex.pc \in 0..LastAddr
<1>1. ~FE!IsBubble(ifid) /\ NextFetched = Behind(idex.pc)
    BY DEF RealEx
<1>2. NextFetched = ifid.pc
    BY <1>1 DEF NextFetched
<1> QED BY <1>1, <1>2 DEF FetchedWords, Types, InIdEx, Addr

LEMMA AdjacentStep ==
    ASSUME Types, pending \in [ex : BOOLEAN, mem : BOOLEAN], FetchedWords, RealEx, InertEx,
           Adjacent, Next
    PROVE  Adjacent'
<1> SUFFICES ASSUME exmem'.writeReg, ~FE!IsBubble(exmem')
             PROVE  /\ pending'.ex => idex'.pc = Behind(exmem'.pc)
                    /\ ~pending'.ex => \/ FE!IsBubble(ifid')
                                       \/ exmem'.memRead /\ ifid'.pc = Behind(exmem'.pc)
    BY DEF Adjacent
<1>1. CASE ~ExEnable
    BY <1>1, Holds DEF Adjacent
<1>2. CASE ExEnable
  <2>1. /\ FE!IsBubble(exmem') = FE!IsBubble(idex)
        /\ pending'.ex = (~BranchTaken /\ ~NoOp /\ ~FE!IsBubble(ifid))
      BY <1>2, Moves
  <2>2. exmem'.pc = idex.pc /\ exmem'.writeReg = idex.writeReg /\ exmem'.memRead = idex.memRead
    <3>1. exmem' = [result |-> ALUResult, dataIn |-> StoreDataEX, pc |-> idex.pc,
                    pc4 |-> idex.pc4, rd |-> idex.rd, rs2 |-> idex.rs2,
                    memWrite |-> idex.memWrite, memRead |-> idex.memRead,
                    toReg |-> idex.toReg, writeReg |-> idex.writeReg]
        BY <1>2, Moves
    <3> QED BY <3>1
  <2>3. pending.ex
      BY <2>1, <2>2 DEF InertEx
  <2>4. ~FE!IsBubble(ifid) /\ ifid.pc = Behind(idex.pc)
      BY <2>3, Following
  <2>5. CASE BranchTaken
    <3>1. FE!Clock(TRUE, FALSE, Target)
        BY <1>2, <2>5, Enables DEF Next
    <3>2. FE!IsBubble(ifid')
        BY <3>1 DEF FE!Clock, FE!ClockIfId, FE!EmptyIfId, FE!IsBubble
    <3> QED BY <2>1, <2>5, <3>2
  <2>6. CASE ~BranchTaken /\ NoOp
    <3>1. ~IfEnable /\ idex.memRead
        BY <2>6, Enables
    <3>2. ifid' = ifid
        BY <3>1 DEF Next, FE!Clock, FE!ClockIfId
    <3> QED BY <2>1, <2>2, <2>4, <2>6, <3>1, <3>2
  <2>7. CASE ~BranchTaken /\ ~NoOp
    <3>1. idex'.pc = ifid.pc
        BY <1>2, <2>7, Issues DEF IdExOf
    <3> QED BY <2>1, <2>2, <2>4, <2>7, <3>1
  <2> QED BY <2>5, <2>6, <2>7
<1> QED BY <1>1, <1>2

\* The no-op keeps an instruction away from the load before it, and a jump is
\* followed by the flush.
LEMMA NotYetKnownStep ==
    ASSUME Types, Types', pending \in [ex : BOOLEAN, mem : BOOLEAN], FetchedWords, RealEx, InertEx,
           NotYetKnown, Next
    PROVE  NotYetKnown'
<1> SUFFICES ASSUME pending'.ex
             PROVE  /\ exmem'.toReg \in {"alu", "mem"}
                    /\ exmem'.memRead => /\ idex'.aluSrc1 = "reg" => ~ForwardFromMem(idex.rs1)'
                                         /\ idex'.aluSrc2 = "reg" => ~ForwardFromMem(idex.rs2)'
    BY DEF NotYetKnown
<1>1. CASE ~ExEnable
    BY <1>1, Holds DEF NotYetKnown, ForwardFromMem
<1>2. CASE ExEnable
  <2> DEFINE i == ifid.instr
  <2>1. ~BranchTaken /\ ~NoOp /\ ~FE!IsBubble(ifid)
      BY <1>2, Moves
  <2>2. /\ exmem'.toReg = idex.toReg /\ exmem'.memRead = idex.memRead
        /\ exmem'.rd = idex.rd /\ exmem'.writeReg = idex.writeReg
    <3>1. exmem' = [result |-> ALUResult, dataIn |-> StoreDataEX, pc |-> idex.pc,
                    pc4 |-> idex.pc4, rd |-> idex.rd, rs2 |-> idex.rs2,
                    memWrite |-> idex.memWrite, memRead |-> idex.memRead,
                    toReg |-> idex.toReg, writeReg |-> idex.writeReg]
        BY <1>2, Moves
    <3> QED BY <3>1
  <2>3. idex.toReg \in {"alu", "mem"}
    <3>1. idex.toReg \in Sources /\ (idex.toReg \in {"pc", "pc4"} => idex.branch \in {"jal", "jalr"})
        BY SignalsAgree DEF Types, InIdEx
    <3>2. idex.branch \in {"jal", "jalr"} => BranchTaken = TRUE
        BY Zenon DEF BranchTaken
    <3> QED BY <2>1, <3>1, <3>2 DEF Sources
  <2>4. ASSUME idex.memRead
        PROVE  /\ idex'.aluSrc1 = "reg" => ~ForwardFromMem(idex.rs1)'
               /\ idex'.aluSrc2 = "reg" => ~ForwardFromMem(idex.rs2)'
    <3>1. pending.ex
        BY <2>4 DEF InertEx
    <3>2. /\ i = imem[Behind(idex.pc)] /\ idex.pc \in 0..LastAddr
        BY <3>1, Following
    <3>3. /\ imem[idex.pc].op \in Ops /\ Signals(idex) = Control(imem[idex.pc].op)
          /\ idex.rd = imem[idex.pc].rd
        BY <3>1, Fetched
    <3>4. imem[idex.pc].op = "lw"
        BY <2>4, <3>3, MemoryOps DEF Signals
    <3>5. /\ idex'.rs1 = i.rs1 /\ idex'.rs2 = i.rs2 /\ Signals(idex)' = Control(i.op)
        BY <1>2, <2>1, Issues DEF IdExOf
    <3>6. i \in Instruction /\ i.op \in Ops
      <4>1. Behind(idex.pc) \in Addr
          BY <3>2, BehindIsAhead DEF Addr
      <4>2. i \in Instruction
          BY <3>2, <4>1 DEF Types
      <4> QED BY <4>2, ImmediatesAreWords
    <3>7. CASE Control(i.op).memWrite
      <4>1. i.op = "sw"
          BY <3>6, <3>7, MemoryOps
      <4>2. idex.rd # 0 => i.rs1 # idex.rd
          BY <3>2, <3>3, <3>4, <4>1 DEF FetchedWords, Supported, StoreToLoadedAddress
      <4>3. ~ForwardFromMem(idex.rs1)'
          BY <2>2, <3>5, <4>2 DEF ForwardFromMem
      <4>4. idex'.aluSrc2 = "imm"
        <5>1. Signals(idex)' = DecodeStore
            BY <3>5, <4>1, Decoded
        <5> QED BY <5>1 DEF Signals, DecodeStore, NoControl
      <4> QED BY <4>3, <4>4
    <3>8. CASE ~Control(i.op).memWrite
      <4>1. ~(idex.rd # 0 /\ (idex.rd = i.rs1 \/ idex.rd = i.rs2))
          BY <2>1, <2>4, <3>8 DEF NoOp
      <4> QED BY <2>2, <3>5, <4>1 DEF ForwardFromMem
    <3> QED BY <3>7, <3>8
  <2> QED BY <2>2, <2>3, <2>4
<1> QED BY <1>1, <1>2

\* ID reads what WB writes in the same cycle, and the instruction in MEM is in
\* WB when EX needs its value.
LEMMA OperandsStep ==
    ASSUME Types, Types', CP!Inv, pending \in [ex : BOOLEAN, mem : BOOLEAN], InertMem, MemSignals,
           LoadData, Operands, Next
    PROVE  Operands'
<1> SUFFICES ASSUME pending'.ex, DivOp' => divState' = "IDLE" /\ ~done'
             PROVE  UpToDate(idex.rs1, idex.data1)' /\ UpToDate(idex.rs2, idex.data2)'
    BY DEF Operands
<1>1. CASE ~ExEnable
  <2>1. idex' = idex /\ pending.ex
      BY <1>1, Holds
  <2>2. ~DivOp
      BY <1>1, <2>1, DivisionGoesOn DEF DivOp
  <2>3. ~WbEnable
      BY <1>1, <2>2, Edges
  <2>4. memwb' = memwb /\ RegsAfterWB' = RegsAfterWB
      BY <2>3, LoadWaits
  <2>5. UpToDate(idex.rs1, idex.data1) /\ UpToDate(idex.rs2, idex.data2)
      BY <2>1, <2>2 DEF Operands
  <2> QED BY <2>1, <2>4, <2>5 DEF UpToDate
<1>2. CASE ExEnable
  <2> DEFINE i == ifid.instr
  <2>1. ~BranchTaken /\ ~NoOp /\ WbEnable
      BY <1>2, Moves
  <2>2. /\ idex'.rs1 = i.rs1 /\ idex'.rs2 = i.rs2
        /\ idex'.data1 = ReadReg(i.rs1) /\ idex'.data2 = ReadReg(i.rs2)
      BY <1>2, <2>1, Issues DEF IdExOf
  <2>3. /\ RegsAfterWB' = RegsAfterMem /\ memwb'.writeReg = exmem.writeReg /\ memwb'.rd = exmem.rd
        /\ FE!IsBubble(memwb') = FE!IsBubble(exmem)
      BY <2>1, TakesEffect
  <2>4. ASSUME NEW r \in Reg
        PROVE  \/ ReadReg(r) = RegsAfterMem[r]
               \/ exmem.writeReg /\ ~FE!IsBubble(exmem) /\ exmem.rd = r /\ r # 0
    <3>1. RegsAfterWB \in [Reg -> Word] /\ RegsAfterWB[0] = 0 /\ exmem.rd \in Reg
        BY RegistersHold DEF Types, InExMem
    <3>2. ReadReg(r) = RegsAfterWB[r]
        BY <3>1 DEF ReadReg
    <3>3. CASE exmem.writeReg /\ exmem.rd # 0 /\ exmem.rd = r
      <4>1. CASE FE!IsBubble(exmem)
          BY <3>2, <3>3, <4>1, InertWrite
      <4> QED BY <3>3, <4>1
    <3>4. CASE ~(exmem.writeReg /\ exmem.rd # 0 /\ exmem.rd = r)
        BY <3>1, <3>2, <3>4 DEF RegsAfterMem
    <3> QED BY <3>3, <3>4
  <2>5. i.rs1 \in Reg /\ i.rs2 \in Reg
      BY DecodedInId
  <2>6. UpToDate(idex.rs1, idex.data1)'
      BY <2>2, <2>3, <2>4, <2>5 DEF UpToDate
  <2>7. UpToDate(idex.rs2, idex.data2)'
      BY <2>2, <2>3, <2>4, <2>5 DEF UpToDate
  <2> QED BY <2>6, <2>7
<1> QED BY <1>1, <1>2

\* The dividend of a remainder was read in ID, or is in EX/MEM to stay.
LEMMA DividendStep ==
    ASSUME Types, Types', CP!Inv, pending \in [ex : BOOLEAN, mem : BOOLEAN], FetchedWords, RealEx,
           MemSignals, LoadData, StoreData, DividendKept, Adjacent, InertEx', Operands', Next
    PROVE  DividendKept'
<1> SUFFICES ASSUME idex'.aluOp \in {"REM", "REMU"}
             PROVE  ForwardFromMem(idex.rs1)' \/ idex'.data1 = RegsAfterWB'[idex'.rs1]
    BY DEF DividendKept
<1>1. CASE ~WbEnable
    BY <1>1, LoadWaits DEF DividendKept, ForwardFromMem
<1>2. CASE WbEnable /\ ~ExEnable
  <2>1. idex' = idex /\ exmem' = exmem
      BY <1>2, Holds
  <2>2. RegsAfterWB' = RegsAfterMem
      BY <1>2, TakesEffect
  <2>3. ForwardFromMem(idex.rs1)' = ForwardFromMem(idex.rs1)
      BY <2>1 DEF ForwardFromMem
  <2>4. ~ForwardFromMem(idex.rs1) => RegsAfterMem[idex.rs1] = RegsAfterWB[idex.rs1]
    <3>1. RegsAfterWB \in [Reg -> Word] /\ exmem.rd \in Reg /\ idex.rs1 \in Reg
        BY RegistersHold DEF Types, InExMem, InIdEx
    <3> QED BY <3>1 DEF RegsAfterMem, ForwardFromMem
  <2> QED BY <2>1, <2>2, <2>3, <2>4 DEF DividendKept
<1>3. CASE ExEnable
  <2> DEFINE i == ifid.instr
  <2>1. DivOp'
      BY DEF DivOp
  <2>2. pending'.ex
      BY <2>1 DEF InertEx
  <2>3. ~BranchTaken /\ ~NoOp /\ ~FE!IsBubble(ifid) /\ WbEnable
      BY <1>3, <2>2, Moves
  <2>4. idex'.rs1 = i.rs1 /\ Signals(idex)' = Control(i.op)
      BY <1>3, <2>3, Issues DEF IdExOf
  <2>5. /\ memwb'.writeReg = exmem.writeReg /\ memwb'.rd = exmem.rd
        /\ FE!IsBubble(memwb') = FE!IsBubble(exmem)
      BY <2>3, TakesEffect
  <2>6. divState' = "IDLE" /\ ~done'
    <3>1. divState = "IDLE" /\ (DivOp => done)
        BY <1>3, Edges DEF ExEnable, IL!IdExEnable, IL!DivBusy
    <3>2. IL!ClockDivider(FALSE, AtCorner)
        BY <3>1 DEF Next, IL!Clock, AtCorner, IL!DividerStart
    <3> QED BY <3>1, <3>2 DEF IL!ClockDivider, IL!Idle, IL!Accept, IL!Prepare, IL!Calculate, IL!Finish
  <2>7. UpToDate(idex.rs1, idex.data1)'
      BY <2>2, <2>6 DEF Operands
  <2>8. ~(exmem.writeReg /\ ~FE!IsBubble(exmem) /\ exmem.rd = i.rs1 /\ i.rs1 # 0)
    <3> SUFFICES ASSUME exmem.writeReg, ~FE!IsBubble(exmem), exmem.rd = i.rs1, i.rs1 # 0
                 PROVE  FALSE
        OBVIOUS
    <3> DEFINE a == exmem.pc
    <3>1. a \in 0..LastAddr /\ imem[a] \in Instruction
        BY DEF Types, InExMem, Addr
    <3>2. Writes(imem[a]) /\ imem[a].rd = i.rs1 /\ exmem.memRead = Control(imem[a].op).memRead
        BY DEF MemSignals
    <3>3. ~ForwardedRemainder(imem)
        BY DEF FetchedWords, Supported
    <3>4. i = imem[ifid.pc] /\ i.op \in {"rem", "remu"}
      <4>1. i = imem[ifid.pc]
          BY <2>3 DEF FetchedWords
      <4>2. i \in Instruction
          BY <4>1 DEF Types
      <4>3. i.op \in Ops
          BY <4>2, ImmediatesAreWords
      <4>4. Signals(idex') = Control(i.op) /\ idex'.aluOp \in {"REM", "REMU"}
          BY <2>4 DEF Signals
      <4> QED BY <4>1, <4>3, <4>4, RemaindersDecoded
    <3>5. CASE pending.ex
      <4>1. idex.pc = Behind(a)
          BY <3>5 DEF Adjacent
      <4>2. ifid.pc = Behind(Behind(a))
          BY <3>5, <4>1, Following
      <4> QED BY <3>1, <3>2, <3>3, <3>4, <4>2 DEF ForwardedRemainder
    <3>6. CASE ~pending.ex
      <4>1. exmem.memRead /\ ifid.pc = Behind(a)
          BY <2>3, <3>6 DEF Adjacent
      <4>2. imem[a].op = "lw"
          BY <3>1, <3>2, <4>1, MemoryOps, ImmediatesAreWords
      <4> QED BY <3>1, <3>2, <3>3, <3>4, <4>1, <4>2 DEF ForwardedRemainder
    <3> QED BY <3>5, <3>6
  <2> QED BY <2>4, <2>5, <2>7, <2>8 DEF UpToDate
<1> QED BY <1>1, <1>2, <1>3

-----------------------------------------------------------------------------
(* Stores.                                                                 *)

\* What forwarding to the store in EX gives it, when it comes to MEM.
LEMMA StoreMoves ==
    ASSUME Types, Types', CP!Inv, InertMem, MemSignals, LoadData, Next, ExEnable,
           idex.memWrite, UpToDate(idex.rs2, idex.data2)
    PROVE  /\ exmem.writeReg /\ exmem.rd = idex.rs2 =>
                 DataToStore' = MemValue /\ (FE!IsBubble(exmem) => exmem'.dataIn = MemValue)
           /\ ~(exmem.writeReg /\ exmem.rd = idex.rs2) =>
                 DataToStore' = RegsAfterMem[idex.rs2] /\ DataToStore' = exmem'.dataIn
<1>1. exmem'.memWrite /\ exmem'.rs2 = idex.rs2 /\ exmem'.dataIn = StoreDataEX /\ WbEnable
  <2>1. WbEnable /\ exmem' = [result |-> ALUResult, dataIn |-> StoreDataEX, pc |-> idex.pc,
                              pc4 |-> idex.pc4, rd |-> idex.rd, rs2 |-> idex.rs2,
                              memWrite |-> idex.memWrite, memRead |-> idex.memRead,
                              toReg |-> idex.toReg, writeReg |-> idex.writeReg]
      BY Moves
  <2> QED BY <2>1
<1>2. /\ memwb'.writeReg = exmem.writeReg /\ memwb'.rd = exmem.rd
      /\ memwb'.writeReg => DataForReg' = MemValue
    BY <1>1, TakesEffect
<1>3. CASE exmem.writeReg /\ exmem.rd = idex.rs2
  <2>1. DataToStore' = MemValue
      BY <1>1, <1>2, <1>3 DEF DataToStore, ForwardWBToMem
  <2>2. FE!IsBubble(exmem) => exmem'.dataIn = MemValue
    <3> SUFFICES ASSUME FE!IsBubble(exmem) PROVE StoreDataEX = MemValue
        BY <1>1
    <3>1. StoreDataEX = RegsAfterMem[idex.rs2]
        BY StoreDataFound
    <3>2. MemValue = RegsAfterWB[exmem.rd] /\ RegsAfterMem = RegsAfterWB
        BY <1>3, InertWrite
    <3> QED BY <1>3, <3>1, <3>2
  <2> QED BY <1>3, <2>1, <2>2
<1>4. CASE ~(exmem.writeReg /\ exmem.rd = idex.rs2)
  <2>1. DataToStore' = exmem'.dataIn
      BY <1>1, <1>2, <1>4 DEF DataToStore, ForwardWBToMem
  <2>2. ~ForwardFromMem(idex.rs2)
      BY <1>4 DEF ForwardFromMem
  <2>3. StoreDataEX = RegsAfterMem[idex.rs2]
      BY <2>2, StoreDataFound
  <2> QED BY <1>1, <1>4, <2>1, <2>3
<1> QED BY <1>3, <1>4

\* The store in EX is of the program.
LEMMA StoreInEx ==
    ASSUME Types, RealEx, InertEx, Operands, idex.memWrite
    PROVE  /\ pending.ex /\ imem[idex.pc].op = "sw" /\ ~DivOp
           /\ idex.rs2 = imem[idex.pc].rs2 /\ idex.pc \in 0..LastAddr
           /\ UpToDate(idex.rs2, idex.data2)
<1>1. pending.ex
    BY DEF InertEx
<1>2. /\ imem[idex.pc].op \in Ops /\ Signals(idex) = Control(imem[idex.pc].op)
      /\ idex.rs2 = imem[idex.pc].rs2 /\ idex.pc \in Addr
    BY <1>1, Fetched
<1>3. imem[idex.pc].op = "sw"
    BY <1>2, MemoryOps DEF Signals
<1>4. ~DivOp
    BY SignalsAgree DEF Types, DivOp
<1> QED BY <1>1, <1>2, <1>3, <1>4 DEF Operands, Addr

LEMMA StoreDataStep ==
    ASSUME Types, Types', CP!Inv, pending \in [ex : BOOLEAN, mem : BOOLEAN], FetchedWords, RealEx,
           InertEx, InertEx', InertMem, MemSignals, LoadData, StoreData, Operands, Adjacent, Next
    PROVE  StoreData'
<1> SUFFICES ASSUME exmem'.memWrite, DivOp' PROVE DataToStore' = exmem'.dataIn
    BY DEF StoreData
<1>1. CASE ~WbEnable
    BY <1>1, LoadWaits
<1>2. CASE WbEnable /\ ~ExEnable
    BY <1>2, DivisionWaits, Holds
<1>3. CASE ExEnable
  <2>1. idex.memWrite
    <3>1. exmem' = [result |-> ALUResult, dataIn |-> StoreDataEX, pc |-> idex.pc,
                    pc4 |-> idex.pc4, rd |-> idex.rd, rs2 |-> idex.rs2,
                    memWrite |-> idex.memWrite, memRead |-> idex.memRead,
                    toReg |-> idex.toReg, writeReg |-> idex.writeReg]
        BY <1>3, Moves
    <3> QED BY <3>1
  <2>2. /\ pending.ex /\ imem[idex.pc].op = "sw"
        /\ idex.rs2 = imem[idex.pc].rs2 /\ idex.pc \in 0..LastAddr
        /\ UpToDate(idex.rs2, idex.data2)
      BY <2>1, StoreInEx
  <2>3. CASE exmem.writeReg /\ exmem.rd = idex.rs2 /\ ~FE!IsBubble(exmem)
    <3> DEFINE a == exmem.pc
    <3>1. a \in 0..LastAddr /\ Writes(imem[a]) /\ imem[a].rd = idex.rs2 /\ idex.pc = Behind(a)
        BY <2>2, <2>3 DEF MemSignals, Adjacent, Types, InExMem, Addr
    <3>2. imem[Behind(idex.pc)].op \in Divides
      <4>1. pending'.ex
          BY DEF InertEx
      <4>2. ~BranchTaken /\ ~NoOp
          BY <1>3, <4>1, Moves
      <4>3. Signals(idex') = Control(ifid.instr.op) /\ idex'.aluOp \in Divisions
          BY <1>3, <4>2, Issues DEF DivOp, Divisions, Signals
      <4>4. ifid.instr = imem[Behind(idex.pc)] /\ Behind(idex.pc) \in Addr
          BY <2>2, Following, BehindIsAhead DEF Addr
      <4>5. ifid.instr.op \in Ops
          BY <4>4, ImmediatesAreWords DEF Types
      <4> QED BY <4>3, <4>4, <4>5, RemaindersDecoded
    <3>3. ~StoreBeforeDivide(imem)
        BY DEF FetchedWords, Supported
    <3> QED BY <2>2, <3>1, <3>2, <3>3 DEF StoreBeforeDivide
  <2>4. CASE exmem.writeReg /\ exmem.rd = idex.rs2 /\ FE!IsBubble(exmem)
    <3>1. DataToStore' = MemValue /\ exmem'.dataIn = MemValue
        BY <1>3, <2>1, <2>2, <2>4, StoreMoves
    <3> QED BY <3>1
  <2>5. CASE ~(exmem.writeReg /\ exmem.rd = idex.rs2)
      BY <1>3, <2>1, <2>2, <2>5, StoreMoves
  <2> QED BY <2>3, <2>4, <2>5
<1> QED BY <1>1, <1>2, <1>3

\* An instruction that has taken effect, and what is not of the program, changes
\* nothing any more.
LEMMA DoneMemStep ==
    ASSUME Types, Types', CP!Inv, pending \in [ex : BOOLEAN, mem : BOOLEAN], InertEx, InertMem',
           MemSignals, LoadData, StoreData, DoneMem, Next
    PROVE  DoneMem'
<1> SUFFICES ASSUME ~pending'.mem
             PROVE  RegsAfterMem' = RegsAfterWB' /\ DmemAfterMem' = dmem'
    BY DEF DoneMem
<1>1. CASE ~WbEnable
  <2>1. /\ pending' = pending /\ exmem' = exmem /\ ~exmem.memWrite
        /\ RegsAfterMem' = RegsAfterMem /\ RegsAfterWB' = RegsAfterWB
      BY <1>1, LoadWaits
  <2> QED BY <2>1 DEF DoneMem, DmemAfterMem
<1>2. CASE WbEnable /\ ~ExEnable
    BY <1>2, DivisionWaits
<1>3. CASE ExEnable
  <2>1. pending'.mem = pending.ex /\ FE!IsBubble(exmem') = FE!IsBubble(idex)
      BY <1>3, Moves
  <2>2. exmem'.writeReg = idex.writeReg /\ exmem'.memWrite = idex.memWrite
    <3>1. exmem' = [result |-> ALUResult, dataIn |-> StoreDataEX, pc |-> idex.pc,
                    pc4 |-> idex.pc4, rd |-> idex.rd, rs2 |-> idex.rs2,
                    memWrite |-> idex.memWrite, memRead |-> idex.memRead,
                    toReg |-> idex.toReg, writeReg |-> idex.writeReg]
        BY <1>3, Moves
    <3> QED BY <3>1
  <2>3. ~exmem'.memWrite /\ (exmem'.writeReg => FE!IsBubble(exmem'))
      BY <2>1, <2>2 DEF InertEx
  <2>4. CASE exmem'.writeReg
    <3>1. exmem'.toReg = "alu" /\ exmem'.result = RegsAfterWB'[exmem'.rd]
        BY <2>3, <2>4 DEF InertMem
    <3>2. MemValue' = RegsAfterWB'[exmem'.rd]
        BY <3>1, Zenon DEF MemValue
    <3>3. RegsAfterWB' \in [Reg -> Word] /\ exmem'.rd \in Reg
        BY RegistersStay DEF Types, InExMem
    <3> QED BY <2>3, <3>2, <3>3 DEF RegsAfterMem, DmemAfterMem
  <2>5. CASE ~exmem'.writeReg
      BY <2>3, <2>5 DEF RegsAfterMem, DmemAfterMem
  <2> QED BY <2>4, <2>5
<1> QED BY <1>1, <1>2, <1>3

-----------------------------------------------------------------------------
(* The instruction of the program in MEM.                                  *)

\* Where execution goes on once EX has moved.
LEMMA Onward ==
    ASSUME Types, CP!Inv, Next, ExEnable
    PROVE  (IF pending'.ex THEN idex'.pc ELSE NextFetched')
                = IF BranchTaken THEN Target ELSE NextFetched
<1>1. pending'.ex = (~BranchTaken /\ ~NoOp /\ ~FE!IsBubble(ifid))
    BY Moves
<1>2. NextFetched' = IF BranchTaken THEN Target
                     ELSE IF ~NoOp /\ ~FE!IsBubble(ifid) THEN Behind(NextFetched) ELSE NextFetched
    BY NextMoves
<1>3. CASE pending'.ex
  <2>1. idex'.pc = ifid.pc
    <3>1. ~BranchTaken /\ ~NoOp
        BY <1>1, <1>3
    <3>2. idex' = IdExOf(Control(ifid.instr.op), ifid.instr, ifid.pc, ifid.pc4, NewAddress,
                         ReadReg(ifid.instr.rs1), ReadReg(ifid.instr.rs2))
        BY <3>1, Issues
    <3> QED BY <3>2 DEF IdExOf
  <2>2. NextFetched = ifid.pc
      BY <1>1, <1>3 DEF NextFetched
  <2> QED BY <1>1, <1>3, <2>1, <2>2
<1>4. CASE ~pending'.ex
    BY <1>1, <1>2, <1>4
<1> QED BY <1>3, <1>4

\* A store gets what its source register holds.
LEMMA StoresSource ==
    ASSUME Types, Types', CP!Inv, FetchedWords, RealEx, InertEx, InertMem, MemSignals, LoadData,
           Operands, Adjacent, Next, ExEnable, idex.memWrite
    PROVE  DataToStore' = RegsAfterMem[idex.rs2]
<1>1. /\ pending.ex /\ imem[idex.pc].op = "sw" /\ idex.rs2 = imem[idex.pc].rs2
      /\ UpToDate(idex.rs2, idex.data2)
    BY StoreInEx
<1>2. RegsAfterWB \in [Reg -> Word] /\ exmem.rd \in Reg
    BY RegistersHold DEF Types, InExMem
<1>3. CASE exmem.writeReg /\ exmem.rd = idex.rs2 /\ exmem.rd # 0
  <2>1. DataToStore' = MemValue
      BY <1>1, <1>3, StoreMoves
  <2>2. RegsAfterMem[exmem.rd] = MemValue
      BY <1>2, <1>3 DEF RegsAfterMem
  <2> QED BY <1>3, <2>1, <2>2
<1>4. CASE exmem.writeReg /\ exmem.rd = idex.rs2 /\ FE!IsBubble(exmem)
  <2>1. DataToStore' = MemValue
      BY <1>1, <1>4, StoreMoves
  <2>2. MemValue = RegsAfterWB[exmem.rd] /\ RegsAfterMem = RegsAfterWB
      BY <1>4, InertWrite
  <2> QED BY <1>4, <2>1, <2>2
<1>5. CASE exmem.writeReg /\ exmem.rd = idex.rs2 /\ exmem.rd = 0 /\ ~FE!IsBubble(exmem)
  <2> DEFINE a == exmem.pc
  <2>1. a \in 0..LastAddr /\ Writes(imem[a]) /\ imem[a].rd = 0 /\ idex.pc = Behind(a)
      BY <1>1, <1>5 DEF MemSignals, Adjacent, Types, InExMem, Addr
  <2>2. ~StoreOfDiscardedWrite(imem)
      BY DEF FetchedWords, Supported
  <2> QED BY <1>1, <1>5, <2>1, <2>2 DEF StoreOfDiscardedWrite
<1>6. CASE ~(exmem.writeReg /\ exmem.rd = idex.rs2)
    BY <1>1, <1>6, StoreMoves
<1> QED BY <1>3, <1>4, <1>5, <1>6

\* From EX an instruction comes to MEM with the result that the instruction set
\* gives it, when the one before it takes effect.
LEMMA ComesToMem ==
    ASSUME Flow, ComparesFit, Types', Next, ExEnable, pending.ex,
           NEW i \in Instruction, i = imem[idex.pc],
           NEW a \in Word, a = RegsAfterMem[i.rs1], NEW b \in Word, b = RegsAfterMem[i.rs2]
    PROVE  /\ exmem'.pc = idex.pc /\ exmem'.rd = i.rd /\ exmem'.pc4 = Behind(idex.pc)
           /\ exmem'.writeReg = Control(i.op).writeReg
           /\ exmem'.memWrite = Control(i.op).memWrite
           /\ exmem'.toReg = Control(i.op).toReg
           /\ i.op \in Computed => exmem'.result = ResultOf(i, idex.pc, a, b)
           /\ i.op = "sw" => DataToStore' = b
           /\ (IF pending'.ex THEN idex'.pc ELSE NextFetched') = NextOf(i, idex.pc, a, b)
<1>1. /\ Types /\ CP!Inv /\ FetchedWords /\ RealEx /\ InertEx /\ InertMem /\ MemSignals
      /\ LoadData /\ Operands /\ Adjacent
    BY DEF Flow
<1>2. /\ exmem'.pc = idex.pc /\ exmem'.rd = idex.rd /\ exmem'.pc4 = idex.pc4
      /\ exmem'.writeReg = idex.writeReg /\ exmem'.memWrite = idex.memWrite
      /\ exmem'.toReg = idex.toReg /\ exmem'.result = ALUResult
  <2>1. exmem' = [result |-> ALUResult, dataIn |-> StoreDataEX, pc |-> idex.pc,
                  pc4 |-> idex.pc4, rd |-> idex.rd, rs2 |-> idex.rs2,
                  memWrite |-> idex.memWrite, memRead |-> idex.memRead,
                  toReg |-> idex.toReg, writeReg |-> idex.writeReg]
      BY <1>1, Moves
  <2> QED BY <2>1
<1>3. /\ Signals(idex) = Control(i.op) /\ idex.rd = i.rd /\ idex.pc4 = Behind(idex.pc)
      /\ idex.rs2 = i.rs2 /\ i.op \in Ops
    BY <1>1, Fetched
<1>4. /\ idex.writeReg = Control(i.op).writeReg /\ idex.memWrite = Control(i.op).memWrite
      /\ idex.toReg = Control(i.op).toReg
    BY <1>3 DEF Signals
<1>5. /\ i.op \in Computed => ALUResult = ResultOf(i, idex.pc, a, b)
      /\ NextOf(i, idex.pc, a, b) = IF BranchTaken THEN Target ELSE Behind(idex.pc)
    BY ExIsRight
<1>6. i.op = "sw" => DataToStore' = b
  <2>1. i.op = "sw" => idex.memWrite
      BY <1>3, <1>4, MemoryOps
  <2> QED BY <1>1, <1>3, <2>1, StoresSource
<1>7. (IF pending'.ex THEN idex'.pc ELSE NextFetched') = NextOf(i, idex.pc, a, b)
  <2>1. NextFetched = Behind(idex.pc)
      BY <1>1 DEF RealEx
  <2> QED BY <1>1, <1>5, <2>1, Onward
<1> QED BY <1>2, <1>3, <1>4, <1>5, <1>6, <1>7

LEMMA RealMemStep ==
    ASSUME Flow, RealMem, ComparesFit, Types', Next
    PROVE  RealMem'
<1>1. /\ Types /\ CP!Inv /\ MemSignals /\ LoadData /\ RealMem /\ RealEx
      /\ pending \in [ex : BOOLEAN, mem : BOOLEAN]
    BY DEF Flow
<1> SUFFICES ASSUME pending'.mem PROVE RealMem'
    BY DEF RealMem
<1>2. CASE ~WbEnable
  <2>1. /\ pending' = pending /\ exmem' = exmem /\ idex' = idex
        /\ RegsAfterWB' = RegsAfterWB /\ DataToStore' = DataToStore
      BY <1>1, <1>2, LoadWaits
  <2>2. ~ExEnable
      BY <1>1, <1>2, Moves
  <2>3. imem' = imem
      BY <1>1, <2>2, Holds
  <2>4. NextFetched' = NextFetched
      BY <1>1, <2>2, NextMoves
  <2> QED BY <1>1, <2>1, <2>3, <2>4 DEF RealMem
<1>3. CASE WbEnable /\ ~ExEnable
  <2>1. ~pending'.mem
      BY <1>1, <1>3, Holds
  <2> QED BY <2>1
<1>4. CASE ExEnable
  <2>1. pending.ex /\ imem' = imem /\ WbEnable
      BY <1>1, <1>4, Moves
  <2>2. PICK i \in Instruction : i = imem[idex.pc]
      BY <1>1, <2>1, Fetched
  <2>3. i.rs1 \in Reg /\ i.rs2 \in Reg
      BY ImmediatesAreWords
  <2>4. PICK a \in Word : a = RegsAfterMem[i.rs1]
      BY <1>1, <2>3, RegistersHold
  <2>5. PICK b \in Word : b = RegsAfterMem[i.rs2]
      BY <1>1, <2>3, RegistersHold
  <2>6. RegsAfterWB' = RegsAfterMem
      BY <1>1, <2>1, TakesEffect
  <2>7. /\ exmem'.pc = idex.pc /\ exmem'.rd = i.rd /\ exmem'.pc4 = Behind(idex.pc)
        /\ exmem'.writeReg = Control(i.op).writeReg
        /\ exmem'.memWrite = Control(i.op).memWrite
        /\ exmem'.toReg = Control(i.op).toReg
        /\ i.op \in Computed => exmem'.result = ResultOf(i, idex.pc, a, b)
        /\ i.op = "sw" => DataToStore' = b
        /\ (IF pending'.ex THEN idex'.pc ELSE NextFetched') = NextOf(i, idex.pc, a, b)
      BY <1>4, <2>1, <2>2, <2>4, <2>5, ComesToMem
  <2>8. imem'[exmem'.pc] = i
      BY <2>1, <2>2, <2>7
  <2>9. RegsAfterWB'[i.rs1] = a /\ RegsAfterWB'[i.rs2] = b
      BY <2>4, <2>5, <2>6
  <2> HIDE DEF Flow
  <2> QED BY <2>7, <2>8, <2>9 DEF RealMem
<1> QED BY <1>2, <1>3, <1>4

-----------------------------------------------------------------------------
(* The divider.                                                            *)

\* The divider of the core is the one that is proved right, with the operands
\* that EX presents.
LEMMA SameDivider ==
    ASSUME Types, pending.ex, RealEx, DivOp, Next
    PROVE  DP!Clock(Op1, Op2)
<1>1. IsSigned = DP!IsSigned
  <2>1. imem[idex.pc].op \in Ops /\ Signals(idex) = Control(imem[idex.pc].op)
      BY Fetched
  <2>2. /\ idex.aluOp = "DIV" <=> imem[idex.pc].op = "div"
        /\ idex.aluOp = "REM" <=> imem[idex.pc].op = "rem"
      BY <2>1, DivisionsDecoded
  <2> QED BY <2>2 DEF IsSigned, DP!IsSigned
<1>3. IL!DividerStart(DivOp) = DP!IL!DividerStart(TRUE)
    BY DEF IL!DividerStart, DP!IL!DividerStart
<1>4. DV!Corner(IsSigned, Op1, Op2) = DP!DV!Corner(DP!IsSigned, Op1, Op2)
    BY <1>1 DEF DV!Corner, DP!DV!Corner, DV!SignBit, DP!DV!SignBit, DV!AllOnes, DP!DV!AllOnes
<1>5. DP!IL!ClockDivider(DP!IL!DividerStart(TRUE), DP!DV!Corner(DP!IsSigned, Op1, Op2))
  <2>1. IL!ClockDivider(IL!DividerStart(DivOp), DV!Corner(IsSigned, Op1, Op2))
      BY DEF Next, IL!Clock
  <2> QED BY <1>3, <1>4, <2>1 DEF IL!ClockDivider, IL!Idle, IL!Accept, IL!Prepare, IL!Calculate, IL!Finish,
          DP!IL!ClockDivider, DP!IL!Idle, DP!IL!Accept, DP!IL!Prepare, DP!IL!Calculate, DP!IL!Finish
<1>6. DP!DV!Clock(DP!IL!DividerStart(TRUE), DP!IsSigned, Op1, Op2)
  <2>1. DV!Clock(DP!IL!DividerStart(TRUE), DP!IsSigned, Op1, Op2)
      BY <1>1, <1>3 DEF Next
  <2>2. /\ \A s, w : DV!Abs(s, w) = DP!DV!Abs(s, w)
        /\ \A w : DV!Negative(w) = DP!DV!Negative(w) /\ DV!Wrap(w) = DP!DV!Wrap(w)
                  /\ DV!Neg(w) = DP!DV!Neg(w)
        /\ DV!SignBit = DP!DV!SignBit /\ DV!AllOnes = DP!DV!AllOnes
      BY DEF DV!Abs, DP!DV!Abs, DV!Negative, DP!DV!Negative, DV!Wrap, DP!DV!Wrap, DV!Neg, DP!DV!Neg,
             DV!SignBit, DP!DV!SignBit, DV!AllOnes, DP!DV!AllOnes
  <2>3. \A s, x, y : DV!Latch(s, x, y) = DP!DV!Latch(s, x, y)
      BY <2>2 DEF DV!Latch, DP!DV!Latch
  <2>4. \A x : DV!SetCorner(x) = DP!DV!SetCorner(x)
      BY <2>2 DEF DV!SetCorner, DP!DV!SetCorner
  <2>5. DV!ShiftSubtract = DP!DV!ShiftSubtract
      BY <2>2 DEF DV!ShiftSubtract, DP!DV!ShiftSubtract
  <2>6. DV!PutSigns = DP!DV!PutSigns
      BY <2>2 DEF DV!PutSigns, DP!DV!PutSigns
  <2> QED BY <2>1, <2>3, <2>4, <2>5, <2>6, Zenon DEF DV!Clock, DP!DV!Clock
<1> QED BY <1>5, <1>6 DEF DP!Clock

\* A division that comes to EX finds the divider idle.
LEMMA DivisionComes ==
    ASSUME Types, Types', CP!Inv, CP!Inv', pending \in [ex : BOOLEAN, mem : BOOLEAN], FetchedWords,
           InertEx', Next, ExEnable, DivOp'
    PROVE  DP!Inv'
<1>1. divState' = "IDLE" /\ ~done'
  <2>1. divState = "IDLE" /\ (DivOp => done)
      BY Edges DEF ExEnable, IL!IdExEnable, IL!DivBusy
  <2>2. IL!ClockDivider(FALSE, AtCorner)
      BY <2>1 DEF Next, IL!Clock, AtCorner, IL!DividerStart
  <2> QED BY <2>1, <2>2 DEF IL!ClockDivider, IL!Idle, IL!Accept, IL!Prepare, IL!Calculate, IL!Finish
<1>2. imem'[idex'.pc].op \in {"div", "divu", "rem", "remu"}
  <2>1. pending'.ex
      BY DEF InertEx
  <2>2. ~BranchTaken /\ ~NoOp /\ ~FE!IsBubble(ifid)
      BY <2>1, Moves
  <2>3. idex'.pc = ifid.pc /\ Signals(idex') = Control(ifid.instr.op)
      BY <2>2, Issues DEF IdExOf, Signals
  <2>4. ifid.instr = imem[ifid.pc] /\ imem' = imem
      BY <2>2, Moves DEF FetchedWords
  <2>5. ifid.instr \in Instruction
      BY <2>4 DEF Types
  <2>6. ifid.instr.op \in Ops
      BY <2>5, ImmediatesAreWords
  <2>7. ifid.instr.op \in Divides
    <3>1. idex'.aluOp \in Divisions
        BY DEF DivOp, Divisions
    <3> QED BY <2>3, <2>6, <3>1, RemaindersDecoded
  <2> QED BY <2>3, <2>4, <2>7 DEF Divides
<1>3. /\ count' \in Nat /\ busy' \in BOOLEAN /\ done' \in BOOLEAN /\ corner' \in BOOLEAN
      /\ busy' <=> divState' # "IDLE"
  <2>1. count' \in 0..Width /\ busy' \in BOOLEAN /\ done' \in BOOLEAN /\ corner' \in BOOLEAN
      BY DEF CP!Inv, CP!TypeOK
  <2> QED BY <2>1, WordAssumption DEF CP!Inv, CP!StallInv
<1>4. DP!TypeOK'
  <2>1. RegsAfterMem'[idex'.rs1] \in Word /\ RegsAfterMem'[idex'.rs2] \in Word
    <3>1. idex'.rs1 \in Reg /\ idex'.rs2 \in Reg
        BY DEF Types, InIdEx
    <3> QED BY <3>1, RegistersStay
  <2>2. divider' \in DP!Registers
    <3>1. DP!Registers = Dividers
        BY DEF DP!Registers, Dividers, DP!Word, Word
    <3> QED BY <3>1 DEF Types
  <2>3. DP!Word = Word
      BY DEF DP!Word, Word
  <2>4. (idex'.aluOp \in {"REM", "REMU"}) \in BOOLEAN
      OBVIOUS
  <2> QED BY <1>1, <1>2, <1>3, <2>1, <2>2, <2>3, <2>4 DEF DP!TypeOK, DP!DivOps
<1> QED BY <1>1, <1>3, <1>4 DEF DP!Inv, DP!Control, DP!Latched, DP!Calculated, DP!Right

LEMMA DivisionHeldStep ==
    ASSUME Flow, Types', CP!Inv', InertEx', Next
    PROVE  DivisionHeld'
<1> USE DEF Flow
<1> SUFFICES ASSUME DivOp' PROVE DP!Inv'
    BY DEF DivisionHeld
<1>1. CASE ExEnable
    BY <1>1, DivisionComes
<1>2. CASE ~ExEnable
  <2>1. idex' = idex /\ imem' = imem
      BY <1>2, Holds
  <2>2. DivOp /\ ~done
      BY <1>2, <2>1, Edges DEF DivOp
  <2>3. pending.ex
      BY <2>2 DEF InertEx
  <2>4. RegsAfterMem' = RegsAfterMem
      BY <1>2, LoadWaits, DivisionWaits
  <2>5. Op1 \in DP!Word /\ Op2 \in DP!Word
      BY OperandsAreWords DEF DP!Word, Word
  <2>6. DP!Clock(Op1, Op2)
      BY <2>2, <2>3, SameDivider
  <2>7. idex.aluSrc1 = "reg" /\ idex.aluSrc2 = "reg"
    <3>1. imem[idex.pc].op \in Ops /\ Signals(idex) = Control(imem[idex.pc].op)
        BY <2>3, Fetched
    <3> QED BY <2>2, <3>1, DivisionsDecoded
  <2>8. divState = "IDLE" => Op1 = RegsAfterMem[idex.rs1] /\ Op2 = RegsAfterMem[idex.rs2]
      BY <2>2, <2>3, <2>7, OperandsAreRight
  <2>9. idex.aluOp \in {"REM", "REMU"} => Op1 = RegsAfterMem[idex.rs1]
      BY <2>3, <2>7, DividendIsRight
  <2>10. DP!Inv
      BY <2>2 DEF DivisionHeld
  <2>11. /\ imem'[idex'.pc].op = imem[idex.pc].op
         /\ RegsAfterMem'[idex'.rs1] = RegsAfterMem[idex.rs1]
         /\ RegsAfterMem'[idex'.rs2] = RegsAfterMem[idex.rs2]
         /\ (idex'.aluOp \in {"REM", "REMU"}) = (idex.aluOp \in {"REM", "REMU"})
      BY <2>1, <2>4
  <2> HIDE DEF Flow
  <2> QED BY <2>2, <2>5, <2>6, <2>8, <2>9, <2>10, <2>11, WordAssumption, DP!CycleStep
<1> QED BY <1>1, <1>2

-----------------------------------------------------------------------------
(* The invariant.                                                          *)

LEMMA InitCore == ASSUME Init, Supported(imem) PROVE Core
<1>1. Types /\ CP!Inv
  <2>1. LastAddr \in Nat \ {0} /\ Width \in Nat \ {0} /\ Width % 2 = 0
      BY CoreAssumption, WordAssumption
  <2>2. CP!Init => CP!Inv
      BY <2>1, CP!InitInv
  <2> QED BY <2>2, InitTypes, ControlInit, SameInit
<1>2. pending = [ex |-> FALSE, mem |-> FALSE]
    BY DEF Init
<1>3. /\ exmem.writeReg = FALSE /\ exmem.memWrite = FALSE /\ exmem.memRead = FALSE
      /\ exmem.toReg = "alu" /\ memwb.writeReg = FALSE
    BY DEF Init, EmptyExMem, EmptyMemWb
<1>4. /\ idex.branch = "none" /\ idex.memRead = FALSE /\ idex.memWrite = FALSE
      /\ idex.writeReg = FALSE /\ idex.aluOp = "AND"
      /\ idex.aluSrc1 = "pc" /\ idex.aluSrc2 = "imm"
    BY DEF Init, EmptyIdEx, IdExOf, NoControl
<1>5. ~DivOp
    BY <1>4 DEF DivOp
<1>6. Untouched
  <2>1. imem \in Programs /\ regs \in InitRegs
      BY DEF Init
  <2>2. regs[imem[0].rd] = imem[0].imm
      BY <2>1 DEF Supported, RepeatableStart
  <2> QED BY <1>3, <1>4, <2>2 DEF Untouched
<1>7. FetchedWords
  <2>1. ifid = FE!EmptyIfId /\ imemOut = imem[0] /\ brd.pc = 0 /\ sel = "IDLE"
      BY DEF Init, FE!Reset, FE!EmptyBrd
  <2>2. FE!IsBubble(ifid) /\ ifid.instr = ZeroWord
      BY <2>1 DEF FE!EmptyIfId, FE!IsBubble
  <2> QED BY <1>6, <2>1, <2>2 DEF FetchedWords
<1>8. RealEx /\ InertEx /\ InertMem /\ Operands /\ DividendKept /\ DivisionHeld /\ NotYetKnown
    BY <1>2, <1>3, <1>4, <1>5 DEF RealEx, InertEx, InertMem, Operands, DividendKept, DivisionHeld, NotYetKnown
<1>9. MemSignals /\ RealMem /\ StoreData /\ Adjacent
    BY <1>2, <1>3 DEF MemSignals, RealMem, StoreData, Adjacent
<1>10. DoneMem
    BY <1>3 DEF DoneMem, RegsAfterMem, DmemAfterMem
<1>11. LoadData
  <2>1. stateMEM = "IDLE"
      BY DEF Init, IL!Reset
  <2> QED BY <2>1 DEF LoadData
<1> QED BY <1>1, <1>2, <1>6, <1>7, <1>8, <1>9, <1>10, <1>11 DEF Core, Flow

LEMMA EdgeKeepsFlow == ASSUME Flow, Next PROVE Flow'
<1>1. /\ Types /\ CP!Inv /\ pending \in [ex : BOOLEAN, mem : BOOLEAN]
      /\ FetchedWords /\ RealEx /\ InertEx /\ InertMem /\ Operands /\ DividendKept
      /\ DivisionHeld /\ NotYetKnown /\ MemSignals /\ DoneMem
      /\ StoreData /\ LoadData /\ Adjacent
    BY DEF Flow
<1>2. Types'
    BY <1>1, TypesStep
<1>3. CP!Inv'
  <2>1. LastAddr \in Nat \ {0} /\ Width \in Nat \ {0} /\ Width % 2 = 0
      BY CoreAssumption, WordAssumption
  <2>2. CP!Next \/ UNCHANGED CP!vars
      BY <1>1, <1>2, ControlNext, SameNext, SameStutter
  <2> QED BY <1>1, <2>1, <2>2, CP!InvStep
<1>4. pending' \in [ex : BOOLEAN, mem : BOOLEAN]
  <2>1. pending' = [ex  |-> IF ~ExEnable THEN pending.ex
                            ELSE FalsePredict /\ ~NoOp /\ ~FE!IsBubble(ifid),
                    mem |-> IF ExEnable THEN pending.ex ELSE pending.mem /\ ~WbEnable]
      BY DEF Next, ClockPending
  <2>2. pending.ex \in BOOLEAN
      BY <1>1
  <2>3. (FalsePredict /\ ~NoOp /\ ~FE!IsBubble(ifid)) \in BOOLEAN /\ (pending.mem /\ ~WbEnable) \in BOOLEAN
      OBVIOUS
  <2> QED BY <2>1, <2>2, <2>3
<1>5. FetchedWords'
    BY <1>1, <1>2, <1>3, WordsStep
<1>6. RealEx'
    BY <1>1, RealExStep
<1>7. InertEx'
    BY <1>1, <1>2, InertExStep
<1>8. InertMem'
    BY <1>1, InertMemStep
<1>9. Operands'
    BY <1>1, <1>2, OperandsStep
<1>10. DividendKept'
    BY <1>1, <1>2, <1>7, <1>9, DividendStep
<1>11. DivisionHeld'
    BY <1>2, <1>3, <1>7, DivisionHeldStep
<1>12. NotYetKnown'
    BY <1>1, <1>2, NotYetKnownStep
<1>13. MemSignals' /\ LoadData'
    BY <1>1, MemSignalsStep, LoadDataStep
<1>14. DoneMem'
    BY <1>1, <1>2, <1>8, DoneMemStep
<1>15. StoreData'
    BY <1>1, <1>2, <1>7, StoreDataStep
<1>16. Adjacent'
    BY <1>1, AdjacentStep
<1> QED BY <1>2, <1>3, <1>4, <1>5, <1>6, <1>7, <1>8, <1>9, <1>10, <1>11, <1>12, <1>13, <1>14,
           <1>15, <1>16 DEF Flow

LEMMA StutterKeepsFlow == ASSUME Flow, UNCHANGED vars PROVE Flow' /\ (RealMem => RealMem')
<1>1. /\ Types /\ CP!Inv /\ pending \in [ex : BOOLEAN, mem : BOOLEAN]
      /\ FetchedWords /\ RealEx /\ InertEx /\ InertMem /\ Operands /\ DividendKept
      /\ DivisionHeld /\ NotYetKnown /\ MemSignals /\ DoneMem
      /\ StoreData /\ LoadData /\ Adjacent
    BY DEF Flow
<1>2. /\ imem' = imem /\ imemOut' = imemOut /\ brd' = brd /\ sel' = sel /\ prevInstr' = prevInstr
      /\ ifid' = ifid /\ stateMEM' = stateMEM /\ divState' = divState /\ done' = done /\ pc' = pc
      /\ count' = count /\ busy' = busy /\ corner' = corner /\ divider' = divider
      /\ regs' = regs /\ idex' = idex /\ exmem' = exmem /\ memwb' = memwb /\ dmem' = dmem
      /\ dmemOut' = dmemOut /\ pending' = pending
    BY DEF vars
<1>3. Types' /\ CP!Inv'
  <2>1. LastAddr \in Nat \ {0} /\ Width \in Nat \ {0} /\ Width % 2 = 0
      BY CoreAssumption, WordAssumption
  <2> QED BY <1>1, <2>1, TypesStep, SameStutter, CP!InvStep
<1>4. /\ DataForReg' = DataForReg /\ RegsAfterWB' = RegsAfterWB
      /\ RegsAfterMem' = RegsAfterMem /\ DmemAfterMem' = DmemAfterMem /\ DataToStore' = DataToStore
  <2>1. DataForReg' = DataForReg
      BY <1>2 DEF DataForReg
  <2>2. RegsAfterWB' = RegsAfterWB
      BY <1>2, <2>1 DEF RegsAfterWB
  <2>3. RegsAfterMem' = RegsAfterMem
      BY <1>2, <2>2 DEF RegsAfterMem, MemValue, DmemAddress
  <2>4. DataToStore' = DataToStore
      BY <1>2, <2>1 DEF DataToStore, ForwardWBToMem
  <2>5. DmemAfterMem' = DmemAfterMem
      BY <1>2, <2>4 DEF DmemAfterMem, DmemAddress
  <2> QED BY <2>1, <2>2, <2>3, <2>4, <2>5
<1>5. NextFetched' = NextFetched
    BY <1>2 DEF NextFetched, FE!IsBubble
<1>6. Untouched' = Untouched
    BY <1>2 DEF Untouched
<1>7. FetchedWords'
  <2>1. (CP!Boot => imemOut = imem[0] /\ Untouched) /\ (CP!Boot' => CP!Boot)
        /\ (CP!Steady' => CP!Steady)
    <3>1. UNCHANGED CP!vars
        BY SameStutter
    <3> QED BY <1>1, <3>1 DEF FetchedWords, CP!vars, CP!Boot, CP!Steady, CP!FE!Reset, CP!InOrder,
               CP!Bubble, CP!Falls, CP!FE!IsBubble, CP!FE!Plus4, CP!FE!EmptyBrd, CP!FE!EmptyIfId
  <2>2. Supported(imem)'
      BY <1>1, <1>2 DEF FetchedWords
  <2> QED BY <1>1, <1>2, <1>6, <2>1, <2>2 DEF FetchedWords, FE!IsBubble
<1>8. RealEx' /\ InertEx' /\ InertMem'
    BY <1>1, <1>2, <1>4, <1>5 DEF RealEx, InEx, InertEx, InertMem, DivOp, FE!IsBubble
<1>9. Operands' /\ DividendKept' /\ NotYetKnown'
    BY <1>1, <1>2, <1>4 DEF Operands, UpToDate, DividendKept, NotYetKnown, DivOp, ForwardFromMem, FE!IsBubble
<1>10. DivisionHeld'
  <2>1. UNCHANGED DP!vars
      BY <1>2, <1>4 DEF DP!vars
  <2>2. DivOp' = DivOp
      BY <1>2 DEF DivOp
  <2> QED BY <1>1, <2>1, <2>2, WordAssumption, DP!StutterKeeps DEF DivisionHeld
<1>11. MemSignals' /\ DoneMem' /\ StoreData' /\ LoadData' /\ Adjacent'
    BY <1>1, <1>2, <1>4 DEF MemSignals, DoneMem, StoreData, LoadData, Adjacent, DivOp, DmemAddress,
       FE!IsBubble
<1>12. RealMem => RealMem'
    BY <1>1, <1>2, <1>4, <1>5 DEF RealMem
<1> QED BY <1>1, <1>2, <1>3, <1>7, <1>8, <1>9, <1>10, <1>11, <1>12 DEF Flow

LEMMA FlowStep == Flow /\ [Next]_vars => Flow'
BY EdgeKeepsFlow, StutterKeepsFlow

LEMMA CoreStep == Core /\ ComparesFit /\ [Next]_vars => Core'
<1> SUFFICES ASSUME Core, ComparesFit, [Next]_vars PROVE Core'
    OBVIOUS
<1>1. CASE Next
  <2>1. Flow'
      BY <1>1, EdgeKeepsFlow DEF Core
  <2>2. Flow /\ RealMem /\ Types'
      BY <2>1 DEF Core, Flow
  <2> QED BY <1>1, <2>1, <2>2, RealMemStep DEF Core
<1>2. CASE UNCHANGED vars
    BY <1>2, StutterKeepsFlow DEF Core
<1> QED BY <1>1, <1>2

-----------------------------------------------------------------------------
(* The instruction set.                                                    *)

\* What the instructions leave in MEM.
LEMMA Effects ==
    ASSUME NEW op \in Ops
    PROVE  /\ op \in ISA!RegOps \cup ISA!ImmOps =>
                 /\ Control(op).writeReg = TRUE /\ Control(op).memWrite = FALSE
                 /\ Control(op).toReg = "alu" /\ op \in Computed
           /\ op = "lw" =>
                 /\ Control(op).writeReg = TRUE /\ Control(op).memWrite = FALSE
                 /\ Control(op).toReg = "mem" /\ op \in Computed
           /\ op = "sw" =>
                 Control(op).writeReg = FALSE /\ Control(op).memWrite = TRUE /\ op \in Computed
           /\ op \in Branches => Control(op).writeReg = FALSE /\ Control(op).memWrite = FALSE
           /\ op \in {"jal", "jalr"} =>
                 /\ Control(op).writeReg = TRUE /\ Control(op).memWrite = FALSE
                 /\ Control(op).toReg = IF op = "jal" THEN "pc4" ELSE "pc"
<1> USE DEF NoControl
<1>1. CASE op \in DOMAIN RTypeALU
  <2>1. Control(op) = DecodeR(op)
      BY <1>1, Decoded
  <2>2. op \in {"add", "sub", "slt", "mul", "div", "divu", "rem", "remu"}
      BY <1>1, Operations
  <2> QED BY <2>1, <2>2 DEF DecodeR, Computed, Branches
<1>2. CASE op \in DOMAIN ITypeALU
  <2>1. Control(op) = DecodeI(op)
      BY <1>2, Decoded
  <2>2. op \in {"addi", "slti"}
      BY <1>2, Operations
  <2> QED BY <2>1, <2>2 DEF DecodeI, Computed, Branches
<1>3. CASE op \in Branches
  <2>1. Control(op) = DecodeBranch(op)
      BY <1>3, Decoded
  <2>2. op \notin ISA!RegOps \cup ISA!ImmOps \cup {"lw", "sw", "jal", "jalr"}
      BY <1>3 DEF Branches, ISA!RegOps, ISA!ImmOps
  <2> QED BY <2>1, <2>2 DEF DecodeBranch
<1>4. CASE op \in {"lw", "sw"}
  <2>1. Control("lw") = DecodeLoad /\ Control("sw") = DecodeStore
      BY Decoded
  <2>2. op \notin ISA!RegOps \cup ISA!ImmOps \cup Branches
      BY <1>4 DEF Branches, ISA!RegOps, ISA!ImmOps
  <2> QED BY <1>4, <2>1, <2>2, ZenonT(30) DEF DecodeLoad, DecodeStore, Computed
<1>5. CASE op \in {"lui", "auipc"}
  <2>1. Control("lui") = DecodeLUI /\ Control("auipc") = DecodeAUIPC
      BY Decoded
  <2> QED BY <1>5, <2>1, ZenonT(30) DEF DecodeLUI, DecodeAUIPC, Computed, Branches
<1>6. CASE op \in {"jal", "jalr"}
  <2>1. Control("jal") = DecodeJAL /\ Control("jalr") = DecodeJALR
      BY Decoded
  <2>2. op \notin ISA!RegOps \cup ISA!ImmOps \cup Branches
      BY <1>6 DEF Branches, ISA!RegOps, ISA!ImmOps
  <2>3. CASE op = "jal"
      BY <2>1, <2>2, <2>3 DEF DecodeJAL
  <2>4. CASE op = "jalr"
      BY <2>1, <2>2, <2>4 DEF DecodeJALR
  <2> QED BY <1>6, <2>3, <2>4
<1> QED BY <1>1, <1>2, <1>3, <1>4, <1>5, <1>6 DEF Ops

LEMMA SameValue ==
    ASSUME NEW i, i.op \in ISA!RegOps \cup ISA!ImmOps, NEW a, NEW b
    PROVE  ISA!Value(i, a, b) = ResultOf(i, ArchPC, a, b)
<1>1. /\ \A x : ISA!Wrap(x) = Wrap(x)
      /\ ISA!SLT(a, b) = SLT(a, b) /\ ISA!SLT(a, i.imm) = SLT(a, i.imm)
      /\ ISA!DIV(a, b) = DIV(a, b) /\ ISA!DIVU(a, b) = DIVU(a, b)
      /\ ISA!REM(a, b) = REM(a, b) /\ ISA!REMU(a, b) = REMU(a, b)
    BY SameWordsInISA
<1>2. CASE i.op = "add"
    BY <1>1, <1>2, Zenon DEF ISA!Value, ResultOf
<1>3. CASE i.op = "sub"
    BY <1>1, <1>3, Zenon DEF ISA!Value, ResultOf
<1>4. CASE i.op = "slt"
    BY <1>1, <1>4, Zenon DEF ISA!Value, ResultOf
<1>5. CASE i.op = "mul"
    BY <1>1, <1>5, Zenon DEF ISA!Value, ResultOf
<1>6. CASE i.op = "div"
    BY <1>1, <1>6, Zenon DEF ISA!Value, ResultOf
<1>7. CASE i.op = "divu"
    BY <1>1, <1>7, Zenon DEF ISA!Value, ResultOf
<1>8. CASE i.op = "rem"
    BY <1>1, <1>8, Zenon DEF ISA!Value, ResultOf
<1>9. CASE i.op = "remu"
    BY <1>1, <1>9, Zenon DEF ISA!Value, ResultOf
<1>10. CASE i.op = "addi"
    BY <1>1, <1>10, Zenon DEF ISA!Value, ResultOf
<1>11. CASE i.op = "slti"
    BY <1>1, <1>11, Zenon DEF ISA!Value, ResultOf
<1>12. CASE i.op = "lui"
    BY <1>1, <1>12, Zenon DEF ISA!Value, ResultOf
<1>13. CASE i.op = "auipc"
    BY <1>1, <1>13, Zenon DEF ISA!Value, ResultOf
<1> QED BY <1>2, <1>3, <1>4, <1>5, <1>6, <1>7, <1>8, <1>9, <1>10, <1>11, <1>12, <1>13
        DEF ISA!RegOps, ISA!ImmOps

\* The oldest instruction that has not taken effect, when MEM/WB moves.
LEMMA ArchPCMoves ==
    ASSUME Flow, Next, WbEnable
    PROVE  ArchPC' = IF pending.ex THEN idex.pc ELSE NextFetched
<1> USE DEF Flow
<1>1. CASE ~ExEnable
  <2>1. ~pending'.mem /\ pending'.ex = pending.ex /\ idex' = idex
      BY <1>1, Holds
  <2>2. NextFetched' = NextFetched
      BY <1>1, NextMoves
  <2> QED BY <2>1, <2>2 DEF ArchPC
<1>2. CASE ExEnable /\ pending.ex
  <2>1. pending'.mem
      BY <1>2, Moves
  <2>2. exmem'.pc = idex.pc
    <3>1. exmem' = [result |-> ALUResult, dataIn |-> StoreDataEX, pc |-> idex.pc,
                    pc4 |-> idex.pc4, rd |-> idex.rd, rs2 |-> idex.rs2,
                    memWrite |-> idex.memWrite, memRead |-> idex.memRead,
                    toReg |-> idex.toReg, writeReg |-> idex.writeReg]
        BY <1>2, Moves
    <3> QED BY <3>1
  <2> QED BY <1>2, <2>1, <2>2 DEF ArchPC
<1>3. CASE ExEnable /\ ~pending.ex
  <2>1. ~pending'.mem
      BY <1>3, Moves
  <2>2. BranchTaken = FALSE
    <3>1. idex.branch = "none"
        BY <1>3 DEF InertEx
    <3> QED BY <3>1, Zenon DEF BranchTaken
  <2>3. (IF pending'.ex THEN idex'.pc ELSE NextFetched') = NextFetched
      BY <1>3, <2>2, Onward
  <2> QED BY <1>3, <2>1, <2>3 DEF ArchPC
<1> QED BY <1>1, <1>2, <1>3

\* The instruction in MEM takes effect: a step of the instruction set.
LEMMA TakesEffectInISA ==
    ASSUME Core, Next, pending.mem, WbEnable
    PROVE  ISA!Next
<1>1. Flow /\ Types /\ CP!Inv /\ RealMem /\ MemSignals /\ LoadData /\ FetchedWords
    BY DEF Core, Flow
<1>2. /\ RegsAfterWB' = RegsAfterMem /\ dmem' = DmemAfterMem
      /\ ArchPC = exmem.pc /\ ArchPC' = IF pending.ex THEN idex.pc ELSE NextFetched
    BY <1>1, TakesEffect, ArchPCMoves DEF ArchPC
<1>3. PICK p \in Addr, i \in Instruction : p = exmem.pc /\ i = imem[p]
    BY <1>1 DEF Types, InExMem
<1>4. i.op \in Ops /\ i.rd \in Reg /\ i.rs1 \in Reg /\ i.rs2 \in Reg
    BY ImmediatesAreWords
<1>5. RegsAfterWB \in [Reg -> Word] /\ RegsAfterWB[0] = 0 /\ 0 \in Reg
    BY <1>1, RegistersHold
<1>6. PICK a, b : a = RegsAfterWB[i.rs1] /\ b = RegsAfterWB[i.rs2]
    OBVIOUS
<1>7. /\ exmem.rd = i.rd /\ exmem.pc4 = Behind(p)
      /\ exmem.writeReg = Control(i.op).writeReg
      /\ exmem.memWrite = Control(i.op).memWrite
      /\ exmem.toReg = Control(i.op).toReg
      /\ i.op \in Computed => exmem.result = ResultOf(i, p, a, b)
      /\ i.op = "sw" => DataToStore = b
      /\ ArchPC' = NextOf(i, p, a, b)
    BY <1>1, <1>2, <1>3, <1>6 DEF RealMem
<1>8. imem' = imem
    BY DEF Next, FE!Clock, FE!ClockImem
<1>9. exmem.writeReg = FALSE => RegsAfterWB' = RegsAfterWB
    BY <1>2 DEF RegsAfterMem
<1>10. exmem.memWrite = FALSE => dmem' = dmem
    BY <1>2 DEF DmemAfterMem
<1>11. ASSUME NEW v, exmem.writeReg = TRUE, i.rd # 0 => MemValue = v PROVE ISA!WriteReg(i.rd, v)
  <2>1. CASE i.rd = 0
    <3>1. RegsAfterWB' = RegsAfterWB
        BY <1>2, <1>7, <2>1 DEF RegsAfterMem
    <3>2. [RegsAfterWB EXCEPT ![0] = 0] = RegsAfterWB
        BY <1>5
    <3> QED BY <2>1, <3>1, <3>2 DEF ISA!WriteReg
  <2>2. CASE i.rd # 0
    <3>1. RegsAfterWB' = [RegsAfterWB EXCEPT ![i.rd] = v]
        BY <1>2, <1>7, <1>11, <2>2 DEF RegsAfterMem
    <3> QED BY <2>2, <3>1 DEF ISA!WriteReg
  <2> QED BY <2>1, <2>2
<1>12. \A x : ISA!PCPlus(x) = Ahead(p, x)
    BY <1>2, <1>3 DEF ISA!PCPlus, Ahead
<1>13. i.op \notin Branches \cup {"jal", "jalr"} => ArchPC' = ISA!PCPlus(1)
    BY <1>7, <1>12 DEF NextOf
<1>14. \A x : ISA!Wrap(x) = Wrap(x)
    BY SameWordsInISA
<1>15. ISA!Step(i)
  <2>1. CASE i.op \in ISA!RegOps \cup ISA!ImmOps
    <3>1. /\ exmem.writeReg = TRUE /\ exmem.memWrite = FALSE /\ exmem.toReg = "alu"
          /\ exmem.result = ResultOf(i, p, a, b)
        BY <1>4, <1>7, <2>1, Effects
    <3>2. MemValue = exmem.result
        BY <3>1, Zenon DEF MemValue
    <3>3. ISA!Value(i, a, b) = ResultOf(i, p, a, b)
        BY <1>2, <1>3, <2>1, SameValue
    <3>4. ISA!WriteReg(i.rd, ISA!Value(i, a, b))
        BY <1>11, <3>1, <3>2, <3>3
    <3>5. i.op \notin Branches \cup {"jal", "jalr"}
        BY <2>1 DEF ISA!RegOps, ISA!ImmOps, Branches
    <3>6. ISA!Compute(i)
        BY <1>6, <1>10, <1>13, <2>1, <3>1, <3>4, <3>5 DEF ISA!Compute
    <3> QED BY <3>6 DEF ISA!Step
  <2>2. CASE i.op = "lw"
    <3>1. /\ exmem.writeReg = TRUE /\ exmem.memWrite = FALSE /\ exmem.toReg = "mem"
          /\ exmem.result = ResultOf(i, p, a, b)
        BY <1>4, <1>7, <2>2, Effects
    <3>2. ResultOf(i, p, a, b) = Wrap(a + i.imm)
        BY <2>2, Zenon DEF ResultOf
    <3>3. MemValue = dmem[ISA!Wrap(a + i.imm) % MemSize]
      <4>1. MemValue = dmem[DmemAddress]
          BY <3>1, Zenon DEF MemValue
      <4> QED BY <1>14, <3>1, <3>2, <4>1 DEF DmemAddress
    <3>4. ISA!WriteReg(i.rd, dmem[ISA!Wrap(a + i.imm) % MemSize])
        BY <1>11, <3>1, <3>3
    <3>5. i.op \notin Branches \cup {"jal", "jalr"}
        BY <2>2 DEF Branches
    <3>6. ISA!Load(i)
        BY <1>6, <1>10, <1>13, <2>2, <3>1, <3>4, <3>5 DEF ISA!Load
    <3> QED BY <3>6 DEF ISA!Step
  <2>3. CASE i.op = "sw"
    <3>1. /\ exmem.writeReg = FALSE /\ exmem.memWrite = TRUE /\ DataToStore = b
          /\ exmem.result = ResultOf(i, p, a, b)
        BY <1>4, <1>7, <2>3, Effects
    <3>2. ResultOf(i, p, a, b) = Wrap(a + i.imm)
        BY <2>3, Zenon DEF ResultOf
    <3>3. dmem' = [dmem EXCEPT ![ISA!Wrap(a + i.imm) % MemSize] = b]
        BY <1>2, <1>14, <3>1, <3>2 DEF DmemAfterMem, DmemAddress
    <3>4. i.op \notin Branches \cup {"jal", "jalr"}
        BY <2>3 DEF Branches
    <3>5. ISA!Store(i)
        BY <1>6, <1>9, <1>13, <2>3, <3>1, <3>3, <3>4 DEF ISA!Store
    <3> QED BY <3>5 DEF ISA!Step
  <2>4. CASE i.op \in Branches
    <3>1. exmem.writeReg = FALSE /\ exmem.memWrite = FALSE
        BY <1>4, <1>7, <2>4, Effects
    <3>2. ArchPC' = ISA!PCPlus(IF ISA!Taken(i, a, b) THEN i.imm ELSE 1)
        BY <1>7, <1>12, <2>4 DEF NextOf
    <3>3. ISA!BranchOps = Branches
        BY DEF ISA!BranchOps, Branches
    <3>4. ISA!Branch(i)
        BY <1>6, <1>9, <1>10, <2>4, <3>1, <3>2, <3>3 DEF ISA!Branch
    <3> QED BY <3>4 DEF ISA!Step
  <2>5. CASE i.op \in {"jal", "jalr"}
    <3>1. /\ exmem.writeReg = TRUE /\ exmem.memWrite = FALSE
          /\ exmem.toReg = IF i.op = "jal" THEN "pc4" ELSE "pc"
        BY <1>4, <1>7, <2>5, Effects
    <3>2. i.op \notin Branches
        BY <2>5 DEF Branches
    <3>3. ArchPC' = IF i.op = "jal" THEN ISA!PCPlus(i.imm)
                    ELSE ISA!Wrap(a + i.imm) % (LastAddr + 1)
        BY <1>7, <1>12, <1>14, <2>5, <3>2 DEF NextOf
    <3>4. i.rd # 0 => MemValue = ISA!PCPlus(1)
      <4>1. i.op = "jalr" => i.rd = 0
          BY <1>1, <1>3 DEF FetchedWords, Supported, LinkedJALR, Addr
      <4>2. CASE i.op = "jal"
        <5>1. MemValue = exmem.pc4
            BY <3>1, <4>2, Zenon DEF MemValue
        <5> QED BY <1>7, <1>12, <5>1, BehindIsAhead
      <4> QED BY <2>5, <4>1, <4>2
    <3>5. ISA!WriteReg(i.rd, ISA!PCPlus(1))
        BY <1>11, <3>1, <3>4
    <3>6. ISA!Jump(i)
        BY <1>6, <1>10, <2>5, <3>1, <3>3, <3>5 DEF ISA!Jump, ISA!JumpOps
    <3> QED BY <3>6 DEF ISA!Step
  <2> QED BY <1>4, <2>1, <2>2, <2>3, <2>4, <2>5, Operations DEF Ops, ISA!RegOps, ISA!ImmOps
<1> QED BY <1>2, <1>3, <1>8, <1>15 DEF ISA!Next, ISA!InstrAt

\* Every other edge of the core leaves the programmer's state as it is.
LEMMA StepInISA == ASSUME Core, Next PROVE ISA!Next \/ UNCHANGED ISA!isaVars
<1>1. Flow /\ Types /\ CP!Inv /\ MemSignals /\ LoadData /\ DoneMem
      /\ pending \in [ex : BOOLEAN, mem : BOOLEAN]
    BY DEF Core, Flow
<1>2. imem' = imem
    BY DEF Next, FE!Clock, FE!ClockImem
<1>3. CASE ~WbEnable
  <2>1. /\ pending' = pending /\ exmem' = exmem /\ idex' = idex
        /\ RegsAfterWB' = RegsAfterWB /\ dmem' = dmem
      BY <1>1, <1>3, LoadWaits
  <2>2. ~ExEnable
      BY <1>1, <1>3, Moves
  <2>3. NextFetched' = NextFetched
      BY <1>1, <2>2, NextMoves
  <2> QED BY <1>2, <2>1, <2>3 DEF ISA!isaVars, ArchPC
<1>4. CASE WbEnable /\ ~pending.mem
  <2>1. RegsAfterWB' = RegsAfterWB /\ dmem' = dmem
      BY <1>1, <1>4, TakesEffect DEF DoneMem
  <2>2. ArchPC' = ArchPC
      BY <1>1, <1>4, ArchPCMoves DEF ArchPC
  <2> QED BY <1>2, <2>1, <2>2 DEF ISA!isaVars
<1>5. CASE WbEnable /\ pending.mem
    BY <1>5, TakesEffectInISA
<1> QED BY <1>3, <1>4, <1>5

LEMMA StutterInISA == UNCHANGED vars => UNCHANGED ISA!isaVars
<1> SUFFICES ASSUME UNCHANGED vars PROVE UNCHANGED ISA!isaVars
    OBVIOUS
<1>1. RegsAfterWB' = RegsAfterWB
    BY DEF vars, RegsAfterWB, DataForReg
<1>2. ArchPC' = ArchPC
    BY DEF vars, ArchPC, NextFetched, FE!IsBubble
<1> QED BY <1>1, <1>2 DEF vars, ISA!isaVars

LEMMA InitInISA == ASSUME Init PROVE ISA!Init
<1>1. Types
    BY InitTypes
<1>2. ArchPC = 0
  <2>1. NextFetched = 0
      BY DEF Init, FE!Reset, FE!EmptyBrd, FE!EmptyIfId, FE!IsBubble, NextFetched
  <2> QED BY <2>1 DEF Init, ArchPC
<1>3. ISA!Word = Word
    BY SameWordsInISA
<1> QED BY <1>1, <1>2, <1>3, RegistersHold DEF ISA!Init, Types

-----------------------------------------------------------------------------
(***************************************************************************)
(* The inductive invariant holds along every run of a program without the  *)
(* sequences that the core does not support and without a comparison whose *)
(* difference overflows.                                                   *)
(***************************************************************************)
THEOREM CoreInvariance == Spec /\ Supported(imem) /\ []ComparesFit => []Core
BY InitCore, CoreStep, PTL DEF Spec

(***************************************************************************)
(* Run on the pipeline, such a program has the effect that the instruction *)
(* set gives it, whatever the program, its data and the width of the       *)
(* words: forwarding, no-ops, stalls, flushes and the divider cannot be    *)
(* told from executing one instruction after the other.                    *)
(***************************************************************************)
THEOREM ISAImplemented == Spec /\ Supported(imem) /\ []ComparesFit => ImplementsISA
<1>1. Init => ISA!Init
    BY InitInISA
<1>2. Core /\ [Next]_vars => [ISA!Next]_(ISA!isaVars)
    BY StepInISA, StutterInISA
<1> QED BY <1>1, <1>2, CoreInvariance, PTL DEF Spec, ImplementsISA, ISA!Spec

\* The flow through EX and MEM needs no bound on comparisons.
LEMMA FlowInvariance == Spec /\ Supported(imem) => []Flow
<1>1. Init /\ Supported(imem) => Flow
    BY InitCore DEF Core
<1> QED BY <1>1, FlowStep, PTL DEF Spec

(***************************************************************************)
(* A store that a division holds in MEM writes again what is there, for    *)
(* every supported program.                                                *)
(***************************************************************************)
THEOREM HeldStoresAreIdempotent == Spec /\ Supported(imem) => HeldStoreIsIdempotent
<1>1. Flow /\ [Next]_vars => (exmem.memWrite /\ ~pending.mem => dmem' = dmem) \/ UNCHANGED vars
    BY DEF Flow, DoneMem, DmemAfterMem, Next, ClockDmem
<1> QED BY <1>1, FlowInvariance, PTL DEF Spec, HeldStoreIsIdempotent

(***************************************************************************)
(* No instruction in EX takes the result of a load that is still in MEM,   *)
(* in any supported program.                                               *)
(***************************************************************************)
THEOREM LoadsAreSeparated == Spec /\ Supported(imem) => []LoadUseSeparated
<1>1. ASSUME Flow PROVE LoadUseSeparated
  <2>1. CASE pending.ex
      BY <1>1, <2>1 DEF Flow, NotYetKnown, LoadUseSeparated, MemRead
  <2>2. CASE ~pending.ex
      BY <1>1, <2>2 DEF Flow, InertEx, LoadUseSeparated, ForwardFromMem
  <2> QED BY <2>1, <2>2
<1> QED BY <1>1, FlowInvariance, PTL

=============================================================================
