---------------------------- MODULE PipeControl -----------------------------
(***************************************************************************)
(* The control of the five-stage pipeline (DataPath.vhd): the front end    *)
(* and the stall logic clocked together, with the instructions reduced to  *)
(* what control depends on.  An instruction is one of                      *)
(*    "zero"   the all-zero word a flush or a no-op writes                 *)
(*    "nop"    addi x0,x0,0, the word Mux11 inserts                        *)
(*    "alu", "load", "store", "div", "branch" (any branch or jump)         *)
(* The data path is replaced by choices: whether an instruction in ID      *)
(* depends on a load in EX, whether a division is a corner case, whether   *)
(* and where to a branch that enters EX redirects the fetch.  Pipeline.tla *)
(* has the data path and implements this module.                           *)
(***************************************************************************)
EXTENDS Naturals

CONSTANTS LastAddr, Width

ASSUME LastAddrAssumption == LastAddr \in Nat \ {0}
\* An odd number of divider iterations would lose the done pulse, see
\* DoneIsTaken; the core has 32.
ASSUME WidthAssumption    == Width \in Nat \ {0} /\ Width % 2 = 0

VARIABLES imem, pc, imemOut, brd, sel, selLast, prevInstr, raj, rajLast,
          fpPrev, fpPrevPrev, enPrev, ifid,
          stateMEM, divState, count, busy, done, corner,
          ex,        \* ID/EX: kind of the instruction, redirect and target
          memRead,   \* EX/MEM: a load is in MEM
          expected   \* history: address of the next instruction EX must get

FE == INSTANCE FrontEnd WITH ZeroWord <- "zero", Nop <- "nop"
IL == INSTANCE Interlock

vars == <<imem, pc, imemOut, brd, sel, selLast, prevInstr, raj, rajLast, fpPrev,
          fpPrevPrev, enPrev, ifid, stateMEM, divState, count, busy, done,
          corner, ex, memRead, expected>>

Addr    == 0..LastAddr
Program == {"nop", "alu", "load", "store", "div", "branch"}
Kind    == Program \cup {"zero"}

Falls(kind)   == [kind |-> kind, redirect |-> FALSE, target |-> 0]
Jumps(target) == [kind |-> "branch", redirect |-> TRUE, target |-> target]

Bubble == Falls("zero")

\* What may enter EX: only a branch can redirect the fetch.
InEx(kind) == {Falls(kind)} \cup (IF kind = "branch" THEN {Jumps(t) : t \in Addr} ELSE {})

-----------------------------------------------------------------------------
Init ==
    /\ imem \in [Addr -> Program]
    /\ FE!Reset
    /\ IL!Reset
    /\ ex = Bubble
    /\ memRead = FALSE
    /\ expected = 0

DivOp == ex.kind = "div"

\* noOpSelector of the hazard detection unit: dep says that rd of the load in
\* EX is a source register of the instruction in ID.
NoOp(dep) == ex.kind = "load" /\ dep /\ ifid.instr # "store"

\* EX takes over the instruction in ID.
Issue(dep) == /\ IL!IdExEnable(memRead, DivOp)
              /\ ~ex.redirect
              /\ ~NoOp(dep)

ClockIdEx(dep) ==
    IF ~IL!IdExEnable(memRead, DivOp) THEN ex' = ex
    ELSE IF Issue(dep) THEN ex' \in InEx(ifid.instr) ELSE ex' = Bubble

ClockExMem ==
    memRead' = IF IL!IdExEnable(memRead, DivOp) THEN ex.kind = "load" ELSE memRead

ClockExpected(dep) ==
    expected' = IF IL!IdExEnable(memRead, DivOp) /\ ex.redirect THEN ex.target
                ELSE IF Issue(dep) /\ ~FE!IsBubble(ifid) THEN FE!Plus4(expected)
                ELSE expected

\* One clock edge of the whole core.
Clock(dep, isCorner) ==
    /\ FE!Clock(IL!BrdIfIdEnable(NoOp(dep), memRead, DivOp), ~ex.redirect, ex.target)
    /\ IL!Clock(memRead, DivOp, isCorner)
    /\ ClockIdEx(dep)
    /\ ClockExMem
    /\ ClockExpected(dep)

Next == \E dep, isCorner \in BOOLEAN : Clock(dep, isCorner)

Spec     == Init /\ [][Next]_vars
FairSpec == Spec /\ WF_vars(Next)

-----------------------------------------------------------------------------
TypeOK ==
    /\ imem \in [Addr -> Program]
    /\ pc \in Addr
    /\ imemOut \in Program /\ prevInstr \in Kind
    /\ brd \in [pc : Addr, pc4 : Addr]
    /\ sel \in {"IDLE", "PULSE_LOW"} /\ raj \in {"IDLE", "PULSE_LOW"}
    /\ selLast \in BOOLEAN /\ rajLast \in BOOLEAN
    /\ fpPrev \in BOOLEAN /\ fpPrevPrev \in BOOLEAN /\ enPrev \in BOOLEAN
    /\ ifid \in [instr : Kind, pc : Addr, pc4 : Addr]
    /\ stateMEM \in {"IDLE", "BUSY"}
    /\ divState \in {"IDLE", "PREPARE", "CALCULATE", "FINISH"}
    /\ count \in 0..Width
    /\ busy \in BOOLEAN /\ done \in BOOLEAN /\ corner \in BOOLEAN
    /\ ex \in [kind : Kind, redirect : BOOLEAN, target : Addr]
    /\ memRead \in BOOLEAN
    /\ expected \in Addr

(***************************************************************************)
(* The instruction in IF/ID is the one execution needs next: its PC is     *)
(* exactly the address after the last issued instruction, or the target of *)
(* the last taken branch, its word is the one stored there, and its PC+4   *)
(* matches.  So under every overlap of load stalls, load-use no-ops,       *)
(* divisions and redirects no instruction is lost, repeated, fetched from  *)
(* the wrong path or paired with another's PC (BR.vhd, instr_control.vhd,  *)
(* Mux10 and Mux11 exist to guarantee it).                                 *)
(***************************************************************************)
InOrderIssue ==
    ~FE!IsBubble(ifid) => /\ ifid.pc = expected
                          /\ ifid.pc4 = FE!Plus4(expected)
                          /\ ifid.instr = imem[expected]

\* Right after reset and only then these two registers differ.
JustReset == rajLast # fpPrev

(***************************************************************************)
(* What enters IF/ID without an address does nothing when executed: a      *)
(* zero word or the NOP of Mux11.  The one exception is the first edge     *)
(* after reset, which lets the first instruction through a second time;    *)
(* this is the duplicate Mux11 must mask after a redirect that overlaps a  *)
(* load stall.                                                             *)
(***************************************************************************)
BubblesAreInert ==
    [][FE!IsBubble(ifid)' /\ ifid' # ifid
         => ifid'.instr \in {"zero", "nop"} \/ JustReset]_vars

(***************************************************************************)
(* The divider's one-cycle done pulse never falls into the stall cycle of  *)
(* a load waiting in MEM.  ID/EX and EX/MEM are then enabled, the quotient *)
(* is taken over and the division leaves EX; if the pulse were missed the  *)
(* divider would be started again on the same instruction, for ever.       *)
(***************************************************************************)
DoneIsTaken == done => DivOp /\ IL!IdExEnable(memRead, DivOp)

(***************************************************************************)
(* The stream of instructions never stops: whatever the program and the    *)
(* overlap of its stalls, another instruction is issued or a branch taken. *)
(***************************************************************************)
StreamNeverStops == []<><<expected' # expected>>_vars

=============================================================================
