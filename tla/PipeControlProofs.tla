------------------------- MODULE PipeControlProofs --------------------------
(***************************************************************************)
(* Proofs that the pipeline's control is type correct, never misses the    *)
(* divider's done pulse, issues instructions in program order and fills    *)
(* IF/ID with nothing but inert bubbles, for every program, every size of  *)
(* the instruction memory and every even width of the divider.             *)
(***************************************************************************)
EXTENDS PipeControl, TLAPS

-----------------------------------------------------------------------------
(* The inductive invariant of the stall logic: while a load waits in MEM   *)
(* for a division in EX, Cond_delay alternates and the divider counts, so  *)
(* the state of the one fixes the phase of the other.                      *)

Phase ==
    /\ divState = "IDLE" /\ ~done => stateMEM = "IDLE"
    /\ divState = "PREPARE"       => stateMEM = "BUSY"
    /\ divState = "CALCULATE"     => (stateMEM = "IDLE" <=> count % 2 = 0)
    /\ divState = "FINISH"        => stateMEM = "IDLE"
    /\ done                       => stateMEM = "BUSY"

StallInv ==
    /\ busy <=> divState # "IDLE"
    /\ done => divState = "IDLE"
    /\ divState # "IDLE" \/ done => DivOp
    /\ divState = "PREPARE" => count = Width
    /\ divState = "CALCULATE" => count \in 1..Width
    /\ memRead /\ DivOp => Phase
    /\ stateMEM = "BUSY" => memRead

-----------------------------------------------------------------------------
(* The inductive invariant of the front end: the five situations it can be *)
(* in.                                                                     *)

InOrder ==
    /\ ifid.pc = expected
    /\ ifid.pc4 = FE!Plus4(expected)
    /\ ifid.instr = imem[expected]

\* The state that reset leaves.
Boot == FE!Reset /\ ex = Bubble /\ ~memRead /\ expected = 0

\* BRD is one address behind the PC, and the word of that address is at the
\* output of the BRAM, or kept in the backup register since a stall began.
Steady ==
    /\ brd.pc4 = FE!Plus4(brd.pc) /\ pc = brd.pc4
    /\ raj = "IDLE" /\ rajLast /\ fpPrev
    /\ \/ sel = "IDLE" /\ selLast /\ imemOut = imem[brd.pc]
       \/ sel = "PULSE_LOW" /\ ~selLast /\ prevInstr = imem[brd.pc]
    /\ \/ InOrder /\ brd.pc = ifid.pc4
       \/ FE!IsBubble(ifid) /\ brd.pc = expected

\* Nothing is left in the front end or in EX after a redirect.
Flushed ==
    /\ ex = Bubble /\ ~memRead
    /\ pc = expected
    /\ brd = FE!EmptyBrd /\ ifid = FE!EmptyIfId
    /\ sel = "IDLE" /\ selLast
    /\ ~rajLast /\ ~fpPrev

\* One edge after a redirect that did not meet a load stall.
AfterRedirect == Flushed /\ raj = "PULSE_LOW"

\* The second cycle of a redirect that met a load stall.
StalledRedirect ==
    /\ ex.redirect /\ memRead /\ stateMEM = "BUSY"
    /\ pc = ex.target
    /\ raj = "PULSE_LOW" /\ ~rajLast /\ ~fpPrev
    /\ sel = "PULSE_LOW" /\ ~selLast
    /\ InOrder \/ FE!IsBubble(ifid)

\* One edge after it: the flush pulse is over and the BRAM has already read
\* the target once, the word that Mux11 masks.
AfterStalledRedirect ==
    Flushed /\ raj = "IDLE" /\ ~fpPrevPrev /\ enPrev /\ imemOut = imem[pc]

FetchInv ==
    /\ ex \in InEx(ex.kind)
    /\ Boot \/ Steady \/ AfterRedirect \/ StalledRedirect \/ AfterStalledRedirect

Inv == TypeOK /\ StallInv /\ FetchInv

-----------------------------------------------------------------------------
(* Addresses, and an edge that clocks nothing.                             *)

\* The address after an address is one, and no instruction's pair of PC and
\* PC+4 looks like a bubble: two addresses are enough for that.
LEMMA NextAddress ==
    ASSUME NEW a \in Addr
    PROVE  FE!Plus4(a) \in Addr /\ ~(a = 0 /\ FE!Plus4(a) = 0)
BY LastAddrAssumption DEF Addr, FE!Plus4

\* The invariant holds in the state after reset.
LEMMA InitInv == Init => Inv
<1> SUFFICES ASSUME Init PROVE Inv
    OBVIOUS
<1> USE DEF Init, FE!Reset, IL!Reset
<1>1. TypeOK
  <2>1. 0 \in Addr /\ 0 \in 0..Width
      BY LastAddrAssumption, WidthAssumption DEF Addr
  <2>2. imemOut \in Program
      BY <2>1
  <2>3. "zero" \in Kind
      BY DEF Kind
  <2> QED
      BY <2>1, <2>2, <2>3 DEF TypeOK, Bubble, Falls, FE!EmptyBrd, FE!EmptyIfId
<1>2. StallInv
    BY DEF StallInv, DivOp, Bubble, Falls
<1>3. FetchInv
    BY DEF FetchInv, Boot, InEx, Bubble, Falls
<1> QED BY <1>1, <1>2, <1>3 DEF Inv

-----------------------------------------------------------------------------
(* The stall logic.                                                        *)

\* Whether the pulse comes while MEM/WB stalls is decided by the phase.
LEMMA PulseIsTaken == ASSUME TypeOK, StallInv PROVE DoneIsTaken
BY DEF TypeOK, StallInv, Phase, DoneIsTaken, IL!IdExEnable, IL!DivBusy, IL!StallCD

\* While the division stays in EX the divider and Cond_delay move in step.
LEMMA StallStep ==
    ASSUME Inv, NEW dep \in BOOLEAN, NEW isCorner \in BOOLEAN, Clock(dep, isCorner)
    PROVE  StallInv'
<1> DEFINE enabled == IL!IdExEnable(memRead, DivOp)
<1> USE DEF Inv
<1>1. IL!ClockDivider(IL!DividerStart(DivOp), isCorner) /\ IL!ClockCondDelay(memRead)
    BY DEF Clock, IL!Clock
<1>2. CASE ~enabled
  \* EX and MEM hold their instructions.
  <2>1. ex' = ex /\ memRead' = memRead /\ DivOp' = DivOp
      BY <1>2 DEF Clock, ClockIdEx, ClockExMem, DivOp
  <2>2. ~done
      BY <1>2, PulseIsTaken DEF DoneIsTaken
  <2>3. stateMEM' = "BUSY" => memRead'
      BY <1>1, <2>1 DEF IL!ClockCondDelay, TypeOK
  <2>4. CASE IL!Idle(IL!DividerStart(DivOp))
    <3>1. ~DivOp
        BY <2>4, <2>2 DEF IL!Idle, IL!DividerStart, StallInv
    <3> QED
        BY <2>1, <2>3, <2>4, <3>1 DEF IL!Idle, StallInv
  <2>5. CASE IL!Accept(IL!DividerStart(DivOp), isCorner)
      BY <1>1, <2>1, <2>2, <2>3, <2>5 DEF IL!Accept, IL!DividerStart, IL!ClockCondDelay, StallInv, Phase
  <2>6. CASE IL!Prepare
      BY <1>1, <2>1, <2>2, <2>3, <2>6, WidthAssumption
      DEF IL!Prepare, IL!ClockCondDelay, StallInv, Phase, TypeOK
  <2>7. CASE IL!Calculate
      BY <1>1, <2>1, <2>2, <2>3, <2>7, WidthAssumption
      DEF IL!Calculate, IL!ClockCondDelay, StallInv, Phase, TypeOK
  <2>8. CASE IL!Finish
      BY <1>1, <2>1, <2>2, <2>3, <2>8 DEF IL!Finish, IL!ClockCondDelay, StallInv, Phase, TypeOK
  <2> QED
      BY <1>1, <2>4, <2>5, <2>6, <2>7, <2>8 DEF IL!ClockDivider
<1>3. CASE enabled
  \* The divider is idle or its pulse is taken, and Cond_delay returns to
  \* its idle state, where the next division must find it.
  <2>1. divState = "IDLE" /\ ~IL!DividerStart(DivOp)
      BY <1>3 DEF IL!IdExEnable, IL!DivBusy, IL!DividerStart, StallInv
  <2>2. divState' = "IDLE" /\ ~done' /\ ~busy'
      BY <1>1, <2>1
      DEF IL!ClockDivider, IL!Idle, IL!Accept, IL!Prepare, IL!Calculate, IL!Finish, StallInv
  <2>3. stateMEM' = "IDLE"
      BY <1>1, <1>3 DEF IL!IdExEnable, IL!StallCD, IL!ClockCondDelay
  <2> QED
      BY <2>2, <2>3 DEF StallInv, Phase
<1> QED
    BY <1>2, <1>3

-----------------------------------------------------------------------------
(* The front end.                                                          *)

\* What an edge may put into IF/ID.
Inert == FE!IsBubble(ifid') /\ ifid' # ifid
             => ifid'.instr \in {"zero", "nop"} \/ JustReset

\* The enable of the front end, as DataPath.vhd derives it from the stalls.
Enable(dep) == IL!BrdIfIdEnable(NoOp(dep), memRead, DivOp)

\* A bubble in EX stalls nothing, so every register moves on.
LEMMA BubbleMoves ==
    ASSUME ex = Bubble, ~memRead, NEW dep \in BOOLEAN
    PROVE  Enable(dep) /\ IL!IdExEnable(memRead, DivOp) /\ Issue(dep) /\ ~ex.redirect
BY DEF Enable, IL!BrdIfIdEnable, IL!IdExEnable, IL!DivBusy, IL!StallCD, NoOp, Issue, DivOp,
       Bubble, Falls

\* EX holds a kind of instruction and only a branch with a redirect.
LEMMA ExStep ==
    ASSUME Inv, NEW dep \in BOOLEAN, NEW isCorner \in BOOLEAN, Clock(dep, isCorner)
    PROVE  ex' \in InEx(ex'.kind)
<1>1. \A kind : \A e \in InEx(kind) : e.kind = kind
    BY DEF InEx, Falls, Jumps
<1>2. Bubble \in InEx("zero")
    BY DEF InEx, Bubble
<1> QED
    BY <1>1, <1>2 DEF Clock, ClockIdEx, Inv, FetchInv

\* After reset the first instruction is delivered once without an address.
LEMMA BootStep ==
    ASSUME Inv, Boot, NEW dep \in BOOLEAN, NEW isCorner \in BOOLEAN, Clock(dep, isCorner)
    PROVE  Steady' /\ Inert
<1>1. Enable(dep) /\ Issue(dep) /\ ~ex.redirect
    BY BubbleMoves DEF Boot
<1>2. expected' = 0
    BY <1>1 DEF Boot, Clock, ClockExpected, FE!Reset, FE!IsBubble, FE!EmptyIfId
<1>3. FE!Clock(TRUE, TRUE, ex.target)
    BY <1>1 DEF Clock, Enable
<1> QED
    BY <1>2, <1>3 DEF Boot, Steady, Inert, JustReset, FE!Reset, FE!Clock, FE!ClockPC,
       FE!ClockImem, FE!ClockBrd, FE!ClockInstrControl, FE!ClockBackup, FE!ClockRstAfterJump,
       FE!ClockPrevReg, FE!ClockIfId, FE!Mux11, FE!Mux10, FE!IsBubble, FE!EmptyBrd, FE!EmptyIfId

\* A redirect finds no division and no load in EX: only a load in MEM can
\* hold it.
LEMMA RedirectStall ==
    ASSUME Inv, ex.redirect, NEW dep \in BOOLEAN
    PROVE  /\ ex.kind = "branch"
           /\ Enable(dep) <=> IL!IdExEnable(memRead, DivOp)
           /\ IL!IdExEnable(memRead, DivOp) <=> ~(stateMEM = "IDLE" /\ memRead)
<1>1. ex.kind = "branch"
    BY DEF Inv, FetchInv, InEx, Falls, Jumps
<1> QED
    BY <1>1 DEF Enable, IL!BrdIfIdEnable, IL!IdExEnable, IL!DivBusy, IL!StallCD, NoOp, DivOp

\* One edge of a redirect that nothing holds empties the pipeline up to EX.
LEMMA FreeRedirect ==
    ASSUME Inv, ex.redirect, NEW dep \in BOOLEAN, NEW isCorner \in BOOLEAN, Clock(dep, isCorner),
           IL!IdExEnable(memRead, DivOp)
    PROVE  /\ ex' = Bubble /\ ~memRead'
           /\ pc' = expected'
           /\ brd' = FE!EmptyBrd /\ ifid' = FE!EmptyIfId
           /\ ~rajLast' /\ ~fpPrev'
           /\ FE!Clock(TRUE, FALSE, ex.target)
<1>1. ex.kind = "branch" /\ Enable(dep)
    BY RedirectStall
<1>2. ex' = Bubble /\ ~memRead' /\ expected' = ex.target
    BY <1>1 DEF Clock, ClockIdEx, ClockExMem, ClockExpected, Issue
<1>3. FE!Clock(TRUE, FALSE, ex.target)
    BY <1>1 DEF Clock, Enable
<1> QED
    BY <1>2, <1>3 DEF FE!Clock, FE!ClockPC, FE!ClockBrd, FE!ClockRstAfterJump, FE!ClockPrevReg,
       FE!ClockIfId

\* An empty IF/ID is inert.
LEMMA EmptyIsInert == ifid' = FE!EmptyIfId => Inert
BY DEF Inert, FE!EmptyIfId

\* In program order the next word enters IF/ID, or everything holds, or a
\* redirect empties the front end.
LEMMA SteadyStep ==
    ASSUME Inv, Steady, NEW dep \in BOOLEAN, NEW isCorner \in BOOLEAN, Clock(dep, isCorner)
    PROVE  (Steady \/ AfterRedirect \/ StalledRedirect)' /\ Inert
<1> USE DEF Inv
<1>1. CASE ex.redirect /\ IL!IdExEnable(memRead, DivOp)
  <2>1. raj' = "PULSE_LOW" /\ sel' = "IDLE" /\ selLast'
      BY <1>1, FreeRedirect DEF Steady, FE!Clock, FE!ClockRstAfterJump, FE!ClockInstrControl
  <2> QED
      BY <1>1, <2>1, FreeRedirect, EmptyIsInert DEF AfterRedirect, Flushed
<1>2. CASE ex.redirect /\ ~IL!IdExEnable(memRead, DivOp)
  <2>1. stateMEM = "IDLE" /\ memRead /\ ~Enable(dep)
      BY <1>2, RedirectStall
  <2>2. FE!Clock(FALSE, FALSE, ex.target)
    <3>1. Enable(dep) = FALSE /\ (~ex.redirect) = FALSE
        BY <1>2, <2>1 DEF Enable, IL!BrdIfIdEnable
    <3> QED
        BY <3>1 DEF Clock, Enable
  <2>3. ex' = ex /\ memRead' /\ expected' = expected /\ stateMEM' = "BUSY"
      BY <1>2, <2>1 DEF Clock, ClockIdEx, ClockExMem, ClockExpected, Issue, IL!Clock,
         IL!ClockCondDelay
  <2>4. ifid' = ifid /\ imem' = imem
      BY <2>2 DEF FE!Clock, FE!ClockIfId, FE!ClockImem
  <2>5. (InOrder \/ FE!IsBubble(ifid))'
      BY <2>3, <2>4 DEF Steady, InOrder
  <2> QED
      BY <1>2, <2>2, <2>3, <2>4, <2>5 DEF Steady, StalledRedirect, Inert, FE!Clock, FE!ClockPC,
         FE!ClockRstAfterJump, FE!ClockInstrControl, FE!ClockPrevReg
<1>3. CASE ~ex.redirect /\ Enable(dep)
  <2>1. FE!Clock(TRUE, TRUE, ex.target)
      BY <1>3 DEF Clock, Enable
  <2>2. expected' = IF FE!IsBubble(ifid) THEN expected ELSE FE!Plus4(expected)
      BY <1>3 DEF Clock, ClockExpected, Issue, Enable, IL!BrdIfIdEnable, IL!IdExEnable
  <2>3. expected' = brd.pc
      BY <2>2, NextAddress DEF Steady, InOrder, FE!IsBubble, TypeOK
  <2>4. ~FE!IsBubble(brd)
      BY NextAddress DEF Steady, FE!IsBubble, TypeOK
  <2>5. ifid' = [instr |-> imem[brd.pc], pc |-> brd.pc, pc4 |-> brd.pc4]
      BY <2>1, <2>4 DEF Steady, FE!Clock, FE!ClockIfId, FE!Mux11, FE!Mux10
  <2>6. InOrder' /\ brd'.pc = ifid'.pc4 /\ Inert
      BY <2>1, <2>3, <2>4, <2>5 DEF Steady, InOrder, Inert, FE!IsBubble, FE!Clock, FE!ClockBrd,
         FE!ClockImem
  <2>7. brd' = [pc |-> pc, pc4 |-> FE!Plus4(pc)] /\ pc' = FE!Plus4(pc) /\ imemOut' = imem'[pc]
      BY <2>1 DEF FE!Clock, FE!ClockPC, FE!ClockBrd, FE!ClockImem
  <2>8. raj' = "IDLE" /\ rajLast' /\ fpPrev' /\ sel' = "IDLE" /\ selLast'
      BY <2>1 DEF Steady, FE!Clock, FE!ClockInstrControl, FE!ClockRstAfterJump, FE!ClockPrevReg
  <2> QED
      BY <2>6, <2>7, <2>8 DEF Steady
<1>4. CASE ~ex.redirect /\ ~Enable(dep)
  <2>1. FE!Clock(FALSE, TRUE, ex.target)
    <3>1. Enable(dep) = FALSE /\ (~ex.redirect) = TRUE
        BY <1>4 DEF Enable, IL!BrdIfIdEnable
    <3> QED
        BY <3>1 DEF Clock, Enable
  <2>2. expected' = expected
      BY <1>4 DEF Clock, ClockExpected, Issue, Enable, IL!BrdIfIdEnable, IL!IdExEnable
  <2>3. ifid' = ifid /\ imem' = imem /\ brd' = brd /\ pc' = pc
      BY <2>1 DEF FE!Clock, FE!ClockIfId, FE!ClockImem, FE!ClockBrd, FE!ClockPC
  <2> QED
      BY <2>1, <2>2, <2>3 DEF Steady, InOrder, Inert, FE!Clock, FE!ClockBackup,
         FE!ClockInstrControl, FE!ClockRstAfterJump, FE!ClockPrevReg
<1> QED
    BY <1>1, <1>2, <1>3, <1>4

\* The flush pulse keeps the word of the wrong path out of IF/ID.
LEMMA AfterRedirectStep ==
    ASSUME Inv, AfterRedirect, NEW dep \in BOOLEAN, NEW isCorner \in BOOLEAN,
           Clock(dep, isCorner)
    PROVE  Steady' /\ Inert
<1>1. Enable(dep) /\ ~ex.redirect
    BY BubbleMoves DEF AfterRedirect, Flushed
<1>2. FE!Clock(TRUE, TRUE, ex.target)
    BY <1>1 DEF Clock, Enable
<1>3. expected' = expected
    BY <1>1 DEF Clock, ClockExpected, AfterRedirect, Flushed, FE!IsBubble, FE!EmptyIfId
<1>4. ifid' = FE!EmptyIfId
    BY <1>2 DEF AfterRedirect, FE!Clock, FE!ClockIfId
<1>5. brd' = [pc |-> pc, pc4 |-> FE!Plus4(pc)] /\ pc' = FE!Plus4(pc) /\ imemOut' = imem'[pc]
    BY <1>2 DEF FE!Clock, FE!ClockPC, FE!ClockBrd, FE!ClockImem
<1>6. raj' = "IDLE" /\ rajLast' /\ fpPrev' /\ sel' = "IDLE" /\ selLast'
    BY <1>2 DEF AfterRedirect, Flushed, FE!Clock, FE!ClockInstrControl, FE!ClockRstAfterJump,
       FE!ClockPrevReg
<1> QED
    BY <1>3, <1>4, <1>5, <1>6, EmptyIsInert
    DEF AfterRedirect, Flushed, Steady, FE!IsBubble, FE!EmptyIfId

\* The stall is over and the redirect leaves EX; the PC has had its target
\* for a cycle.
LEMMA StalledRedirectStep ==
    ASSUME Inv, StalledRedirect, NEW dep \in BOOLEAN, NEW isCorner \in BOOLEAN,
           Clock(dep, isCorner)
    PROVE  AfterStalledRedirect' /\ Inert
<1>1. ex.redirect /\ IL!IdExEnable(memRead, DivOp)
    BY RedirectStall DEF StalledRedirect
<1>2. FE!Clock(TRUE, FALSE, ex.target) /\ pc' = ex.target
    BY <1>1, FreeRedirect DEF FE!Clock, FE!ClockPC
<1>3. imemOut' = imem'[pc'] /\ raj' = "IDLE" /\ ~fpPrevPrev' /\ enPrev' /\ sel' = "IDLE" /\ selLast'
    BY <1>2 DEF StalledRedirect, FE!Clock, FE!ClockImem, FE!ClockRstAfterJump,
       FE!ClockPrevReg, FE!ClockInstrControl
<1> QED
    BY <1>1, <1>3, FreeRedirect, EmptyIsInert DEF AfterStalledRedirect, Flushed

\* The word of the target is read a second time, and Mux11 masks the first.
LEMMA AfterStalledRedirectStep ==
    ASSUME Inv, AfterStalledRedirect, NEW dep \in BOOLEAN, NEW isCorner \in BOOLEAN,
           Clock(dep, isCorner)
    PROVE  Steady' /\ Inert
<1>1. Enable(dep) /\ ~ex.redirect
    BY BubbleMoves DEF AfterStalledRedirect, Flushed
<1>2. FE!Clock(TRUE, TRUE, ex.target)
    BY <1>1 DEF Clock, Enable
<1>3. expected' = expected
    BY <1>1 DEF Clock, ClockExpected, AfterStalledRedirect, Flushed, FE!IsBubble, FE!EmptyIfId
<1>4. ifid' = [instr |-> "nop", pc |-> 0, pc4 |-> 0]
    BY <1>2 DEF AfterStalledRedirect, Flushed, FE!Clock, FE!ClockIfId, FE!Mux11, FE!IsBubble,
       FE!EmptyBrd
<1>5. brd' = [pc |-> pc, pc4 |-> FE!Plus4(pc)] /\ pc' = FE!Plus4(pc) /\ imemOut' = imem'[pc]
    BY <1>2 DEF FE!Clock, FE!ClockPC, FE!ClockBrd, FE!ClockImem
<1>6. raj' = "IDLE" /\ rajLast' /\ fpPrev' /\ sel' = "IDLE" /\ selLast'
    BY <1>2 DEF AfterStalledRedirect, Flushed, FE!Clock, FE!ClockInstrControl,
       FE!ClockRstAfterJump, FE!ClockPrevReg
<1> QED
    BY <1>3, <1>4, <1>5, <1>6 DEF AfterStalledRedirect, Flushed, Steady, Inert, FE!IsBubble

\* Every edge leads from one of the five situations to another.
LEMMA FetchStep ==
    ASSUME Inv, NEW dep \in BOOLEAN, NEW isCorner \in BOOLEAN, Clock(dep, isCorner)
    PROVE  FetchInv' /\ Inert
BY ExStep, BootStep, SteadyStep, AfterRedirectStep, StalledRedirectStep,
   AfterStalledRedirectStep DEF Inv, FetchInv

-----------------------------------------------------------------------------
(* Types, and the theorems.                                                *)

\* The registers of the front end keep their types.
LEMMA FrontEndTypes ==
    ASSUME Inv, NEW dep \in BOOLEAN, NEW isCorner \in BOOLEAN, Clock(dep, isCorner)
    PROVE  /\ imem' \in [Addr -> Program]
           /\ pc' \in Addr
           /\ imemOut' \in Program /\ prevInstr' \in Kind
           /\ brd' \in [pc : Addr, pc4 : Addr]
           /\ sel' \in {"IDLE", "PULSE_LOW"} /\ raj' \in {"IDLE", "PULSE_LOW"}
           /\ selLast' \in BOOLEAN /\ rajLast' \in BOOLEAN
           /\ fpPrev' \in BOOLEAN /\ fpPrevPrev' \in BOOLEAN /\ enPrev' \in BOOLEAN
           /\ ifid' \in [instr : Kind, pc : Addr, pc4 : Addr]
<1> USE DEF Inv, TypeOK
<1>1. PICK en \in BOOLEAN, fp \in BOOLEAN : FE!Clock(en, fp, ex.target)
    BY DEF Clock, IL!BrdIfIdEnable
<1>2. 0 \in Addr /\ "zero" \in Kind /\ "nop" \in Kind /\ Program \subseteq Kind
    BY LastAddrAssumption DEF Addr, Kind, Program
<1>3. pc' \in Addr /\ brd' \in [pc : Addr, pc4 : Addr]
    BY <1>1, <1>2, NextAddress DEF FE!Clock, FE!ClockPC, FE!ClockBrd, FE!EmptyBrd
<1>4. imem' \in [Addr -> Program] /\ imemOut' \in Program /\ prevInstr' \in Kind
    BY <1>1, <1>2 DEF FE!Clock, FE!ClockImem, FE!ClockBackup
<1>5. ifid' \in [instr : Kind, pc : Addr, pc4 : Addr]
    BY <1>1, <1>2 DEF FE!Clock, FE!ClockIfId, FE!Mux11, FE!Mux10, FE!EmptyIfId
<1>6. /\ sel' \in {"IDLE", "PULSE_LOW"} /\ raj' \in {"IDLE", "PULSE_LOW"}
      /\ selLast' \in BOOLEAN /\ rajLast' \in BOOLEAN
      /\ fpPrev' \in BOOLEAN /\ fpPrevPrev' \in BOOLEAN /\ enPrev' \in BOOLEAN
    BY <1>1 DEF FE!Clock, FE!ClockInstrControl, FE!ClockRstAfterJump, FE!ClockPrevReg
<1> QED
    BY <1>3, <1>4, <1>5, <1>6

\* Every register keeps its type.
LEMMA TypeStep ==
    ASSUME Inv, NEW dep \in BOOLEAN, NEW isCorner \in BOOLEAN, Clock(dep, isCorner)
    PROVE  TypeOK'
<1> USE DEF Inv
<1>1. stateMEM' \in {"IDLE", "BUSY"}
    BY DEF Clock, IL!Clock, IL!ClockCondDelay
<1>2. /\ divState' \in {"IDLE", "PREPARE", "CALCULATE", "FINISH"}
      /\ count' \in 0..Width
      /\ busy' \in BOOLEAN /\ done' \in BOOLEAN /\ corner' \in BOOLEAN
  <2>1. IL!ClockDivider(IL!DividerStart(DivOp), isCorner)
      BY DEF Clock, IL!Clock
  <2>2. CASE IL!Idle(IL!DividerStart(DivOp))
      BY <2>2 DEF IL!Idle, TypeOK
  <2>3. CASE IL!Accept(IL!DividerStart(DivOp), isCorner)
    <3>1. divState' = "PREPARE" /\ busy' = TRUE /\ done' = FALSE /\ corner' = isCorner /\ count' = Width
        BY <2>3 DEF IL!Accept
    <3>2. Width \in 0..Width
        BY WidthAssumption
    <3> QED
        BY <3>1, <3>2
  <2>4. CASE IL!Prepare
      BY <2>4 DEF IL!Prepare, TypeOK
  <2>5. CASE IL!Calculate
    <3>1. count \in 1..Width
        BY <2>5 DEF IL!Calculate, StallInv
    <3>2. count' \in 0..Width
        BY <2>5, <3>1, WidthAssumption DEF IL!Calculate
    <3> QED
        BY <2>5, <3>2 DEF IL!Calculate, TypeOK
  <2>6. CASE IL!Finish
      BY <2>6 DEF IL!Finish, TypeOK
  <2> QED
      BY <2>1, <2>2, <2>3, <2>4, <2>5, <2>6 DEF IL!ClockDivider
<1>3. \A kind \in Kind : InEx(kind) \subseteq [kind : Kind, redirect : BOOLEAN, target : Addr]
  <2> TAKE kind \in Kind
  <2>1. 0 \in Addr /\ "branch" \in Kind
      BY LastAddrAssumption DEF Addr, Kind, Program
  <2>2. Falls(kind) \in [kind : Kind, redirect : BOOLEAN, target : Addr]
      BY <2>1 DEF Falls
  <2>3. \A t \in Addr : Jumps(t) \in [kind : Kind, redirect : BOOLEAN, target : Addr]
      BY <2>1 DEF Jumps
  <2> QED
      BY <2>2, <2>3 DEF InEx
<1>4. Bubble \in InEx("zero") /\ "zero" \in Kind
    BY DEF InEx, Bubble, Kind
<1>5. ex' \in [kind : Kind, redirect : BOOLEAN, target : Addr]
    BY <1>3, <1>4 DEF TypeOK, Clock, ClockIdEx
<1>6. memRead' \in BOOLEAN
    BY DEF TypeOK, Clock, ClockExMem
<1>7. expected' \in Addr
    BY NextAddress DEF TypeOK, Clock, ClockExpected
<1> QED
    BY <1>1, <1>2, <1>5, <1>6, <1>7, FrontEndTypes DEF TypeOK

(***************************************************************************)
(* The invariant is inductive.                                             *)
(***************************************************************************)
LEMMA InvStep == Inv /\ [Next]_vars => Inv'
<1> SUFFICES ASSUME Inv, [Next]_vars PROVE Inv'
    OBVIOUS
<1>1. CASE Next
    BY <1>1, TypeStep, StallStep, FetchStep DEF Next, Inv
<1>2. CASE UNCHANGED vars
    BY <1>2 DEF vars, Inv, TypeOK, StallInv, Phase, DivOp, FetchInv, Boot, FE!Reset, Steady,
       InOrder, Flushed, AfterRedirect, StalledRedirect, AfterStalledRedirect, FE!IsBubble
<1> QED
    BY <1>1, <1>2

(***************************************************************************)
(* In every state the front end is in one of its five situations, and the  *)
(* phase of Cond_delay agrees with the divider's count.                    *)
(***************************************************************************)
THEOREM Invariance == Spec => []Inv
BY InitInv, InvStep, PTL DEF Spec

(***************************************************************************)
(* The registers of the control keep their types for every program.        *)
(***************************************************************************)
THEOREM TypeCorrect == Spec => []TypeOK
<1>1. Inv => TypeOK
    BY DEF Inv
<1> QED
    BY <1>1, Invariance, PTL

(***************************************************************************)
(* The divider's done pulse is never missed, whatever load waits in MEM    *)
(* when the division starts, if the divider's width is even.               *)
(***************************************************************************)
THEOREM DivisionEnds == Spec => []DoneIsTaken
<1>1. Inv => DoneIsTaken
    BY PulseIsTaken DEF Inv
<1> QED
    BY <1>1, Invariance, PTL

(***************************************************************************)
(* IF/ID holds the next instruction in program order or no instruction:    *)
(* none is lost, repeated, or paired with another's address.               *)
(***************************************************************************)
THEOREM ProgramOrder == Spec => []InOrderIssue
<1>1. Inv => InOrderIssue
  <2>1. ASSUME Flushed PROVE FE!IsBubble(ifid)
      BY <2>1 DEF Flushed, FE!IsBubble, FE!EmptyIfId
  <2>2. ASSUME Boot PROVE FE!IsBubble(ifid)
      BY <2>2 DEF Boot, FE!Reset, FE!IsBubble, FE!EmptyIfId
  <2> QED
      BY <2>1, <2>2 DEF Inv, FetchInv, Steady, StalledRedirect, AfterRedirect,
         AfterStalledRedirect, InOrder, InOrderIssue
<1> QED
    BY <1>1, Invariance, PTL

(***************************************************************************)
(* What enters IF/ID without an address is a zero word or the NOP of       *)
(* Mux11, except on the first edge after reset.                            *)
(***************************************************************************)
THEOREM InertBubbles == Spec => BubblesAreInert
<1>1. Inv /\ [Next]_vars => [FE!IsBubble(ifid)' /\ ifid' # ifid
                                => ifid'.instr \in {"zero", "nop"} \/ JustReset]_vars
    BY FetchStep DEF Next, Inert, FE!IsBubble
<1> QED
    BY <1>1, Invariance, PTL DEF Spec, BubblesAreInert

=============================================================================
