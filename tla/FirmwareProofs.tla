--------------------------- MODULE FirmwareProofs ----------------------------
(***************************************************************************)
(* Proofs about three parts of the firmware that stand by themselves: the  *)
(* driver of the UART against the registers of the peripheral (Console), the*)
(* sampling of vectors of fixed weight (FixedWeight), and the hash functions*)
(* with the seed expander (Hashing).                                       *)
(***************************************************************************)
EXTENDS Console, FixedWeight, Hashing,
        SequenceTheorems, FiniteSetTheorems, WellFoundedInduction, TLAPS

(***************************************************************************)
(* Console: bytes put are sent in order and once, no byte is returned      *)
(* twice and none is missed while polling, for every length of a frame,    *)
(* every time that an access is held and every length of the loops, as far *)
(* as a loop is shorter than a frame (ConsoleAssumption).                  *)
(***************************************************************************)

-----------------------------------------------------------------------------
(* Where the instruction in MEM belongs to, and how far a loop has come.   *)

ConsoleTypeOK ==
    /\ sending \in Idle..(TxTicks - 1) /\ receiving \in Idle..RxTicks
    /\ txBusy \in BOOLEAN /\ txEna \in BOOLEAN
    /\ rxValid \in BOOLEAN /\ rxBusyPrev \in BOOLEAN
    /\ call \in {"putc", "getc", "none"}
    /\ mem \in {"status", "tx", "rxdata", "other"}
    /\ held \in 1..MaxHold /\ stray \in BOOLEAN /\ others \in 0..MaxOther
    /\ loaded \in [busy : BOOLEAN, valid : BOOLEAN]
    /\ puts \in Nat /\ sent \in Seq(Nat) /\ got \in Seq(Nat)
    /\ arrived \in Nat /\ rxData \in Nat /\ rxDataReg \in Nat /\ latched \in Nat

InCall ==
    /\ mem \in {"tx", "rxdata"} => call = "none"
    /\ mem = "status" => call # "none"
    /\ call # "none" => ~stray
    /\ call # "none" /\ mem = "other" => others # 0

-----------------------------------------------------------------------------
(* The transmitter: the cycle of the store, the cycle of tx_ena, the frame *)
(* and the time after it.  While the store is still held its later writes  *)
(* find the transmitter busy, but for the first of them, which repeats     *)
(* tx_ena in the cycle in which the byte is taken over.                    *)

Stored ==
    /\ mem = "tx" /\ held = 1
    /\ ~txEna /\ ~txBusy /\ sending = Idle
    /\ puts # 0 /\ sent = UpTo(puts - 1)

TxEnabled ==
    /\ IF mem = "tx" THEN held = 2 ELSE held = 1
    /\ mem = "other" => call = "none"
    /\ txEna /\ ~txBusy /\ sending = Idle /\ txData = puts
    /\ puts # 0 /\ sent = UpTo(puts - 1)

InFrame ==
    /\ sending # Idle /\ txBusy
    /\ mem = "tx" => sending <= held - 3
    /\ txEna => sending = 0 /\ (IF mem = "tx" THEN held = 3 ELSE mem = "other" => call = "none")
    /\ sent = UpTo(puts)

TxQuiet ==
    /\ mem # "tx" /\ ~txEna /\ sending = Idle
    /\ sent = UpTo(puts)

(* A putc that has seen the transmitter not busy may rely on it.           *)
PutInv ==
    /\ Stored \/ TxEnabled \/ InFrame \/ TxQuiet
    /\ call = "putc" /\ mem = "other" /\ ~loaded.busy => TxQuiet /\ ~txBusy

-----------------------------------------------------------------------------
(* The receiver: the register has the newest byte, but for the cycle after *)
(* the frame, and a byte is flagged valid only as long as none as new has  *)
(* been returned.                                                          *)

Pending == rxBusyPrev /\ receiving = Idle

Newest == IF got = <<>> THEN 0 ELSE got[Len(got)]

GetInv ==
    /\ rxData = arrived
    /\ rxDataReg = IF Pending THEN arrived - 1 ELSE arrived
    /\ Newest <= rxDataReg
    /\ \/ rxValid
       \/ call = "getc" /\ mem = "other" /\ loaded.valid
       \/ mem = "rxdata"
       => Newest < rxDataReg

(* During a getc one more byte may be latched.  It is seen by the next     *)
(* poll, and the frame after it has not come further since then than the   *)
(* instructions.                                                           *)
PollProgress ==
    IF mem = "status" THEN MaxOther + held - 1
    ELSE IF mem = "rxdata" THEN 2 * MaxOther + MaxHold + held - 1
    ELSE IF loaded.valid THEN MaxOther + MaxHold + others - 1
    ELSE others - 1

PollInv ==
    call = "getc" \/ mem = "rxdata" =>
        /\ rxDataReg \in {latched, latched + 1}
        /\ rxDataReg # latched => /\ receiving <= PollProgress /\ ~Pending
                                  /\ call = "getc" => rxValid

ConsoleInv == ConsoleTypeOK /\ InCall /\ PutInv /\ GetInv /\ BytesAreNotRepeated /\ PollInv

-----------------------------------------------------------------------------
(* Sequences of bytes.                                                     *)

LEMMA UpToIsSeq ==
    ASSUME NEW n \in Nat
    PROVE  UpTo(n) \in Seq(Nat) /\ Len(UpTo(n)) = n
BY DEF UpTo

(* The next byte extends them.                                             *)
LEMMA UpToExtends ==
    ASSUME NEW n \in Nat
    PROVE  Append(UpTo(n), n + 1) = UpTo(n + 1)
<1>1. UpTo(n) \in Seq(Nat) /\ UpTo(n + 1) \in Seq(Nat) /\ Append(UpTo(n), n + 1) \in Seq(Nat)
    BY UpToIsSeq
<1>2. Len(Append(UpTo(n), n + 1)) = n + 1 /\ Len(UpTo(n + 1)) = n + 1
    BY UpToIsSeq
<1>3. ASSUME NEW i \in 1..(n + 1)
      PROVE  Append(UpTo(n), n + 1)[i] = UpTo(n + 1)[i]
    BY UpToIsSeq DEF UpTo
<1> QED BY <1>1, <1>2, <1>3, SeqEqual

(* What the access of the instruction in MEM does at the registers.        *)
LEMMA AccessOfMem ==
    ASSUME ConsoleTypeOK
    PROVE  /\ Writes(Access, "uart", TXDATA) <=> mem = "tx"
           /\ mem = "tx" => Access.wdata = IF held = 1 THEN puts ELSE Stale
           /\ Reads(Access, "uart", RXDATA) <=> mem = "rxdata" \/ (mem = "other" /\ stray)
<1>1. Len(Devices) = 6 /\ Devices[1] = "uart"
    BY DEF Devices
<1>2. /\ Selected(UartReg(TXDATA)) = "uart" /\ Selected(UartReg(STATUS)) = "uart"
      /\ Selected(UartReg(RXDATA)) = "uart" /\ Selected(Elsewhere) = "bram"
    BY <1>1 DEF Selected, UartReg, Elsewhere, Address
<1> QED BY <1>2 DEF ConsoleTypeOK, Access, Writes, Reads, Write, Read, UartReg, Elsewhere, Address,
                    TXDATA, STATUS, RXDATA

(* The edge as the transmitter and its register see it.                    *)
TxMoves ==
    /\ txEna' = (mem = "tx" /\ ~txBusy)
    /\ txData' = IF mem = "tx" /\ ~txBusy THEN (IF held = 1 THEN puts ELSE Stale) ELSE txData
    /\ sending = Idle /\ txEna =>
           sending' = 0 /\ txBusy' = TRUE /\ sent' = Append(sent, txData)
    /\ sending = Idle /\ ~txEna => sending' = Idle /\ txBusy' = FALSE /\ sent' = sent
    /\ sending # Idle =>
           /\ sending' = sending \/ sending' = IF sending + 1 = TxTicks THEN Idle ELSE sending + 1
           /\ txBusy' = txBusy /\ sent' = sent

LEMMA TxEdge == ASSUME ConsoleTypeOK, ClockDevices PROVE TxMoves
<1>1. TxControl(Access) /\ (Accept(txEna) \/ NothingToSend(txEna) \/ Transmit)
    BY DEF ClockDevices, ClockPeripheral, Clock
<1>2. sent' = IF sending = Idle /\ txEna THEN Append(sent, txData) ELSE sent
    BY DEF ClockDevices
<1>3. txEna' = (mem = "tx" /\ ~txBusy)
    BY <1>1, AccessOfMem DEF TxControl
<1>4. txData' = IF mem = "tx" /\ ~txBusy THEN (IF held = 1 THEN puts ELSE Stale) ELSE txData
    BY <1>1, AccessOfMem DEF TxControl
<1> QED BY <1>1, <1>2, <1>3, <1>4 DEF TxMoves, Accept, NothingToSend, Transmit

(* And as the receiver sees it.                                            *)
FrameGoesOn ==
    \/ receiving = Idle /\ receiving' \in {Idle, 0}
    \/ receiving # Idle /\ receiving' = receiving
    \/ receiving # Idle /\ receiving < RxTicks /\ receiving' = receiving + 1

RxMoves ==
    /\ rxBusyPrev' = (receiving # Idle)
    /\ rxDataReg' = IF Pending THEN rxData ELSE rxDataReg
    /\ rxValid' = (mem # "rxdata" /\ ~(mem = "other" /\ stray) /\ (Pending \/ rxValid))
    /\ \/ FrameGoesOn /\ rxData' = rxData /\ arrived' = arrived
       \/ /\ receiving = RxTicks /\ receiving' = Idle
          /\ rxData' = arrived + 1 /\ arrived' = arrived + 1

LEMMA RxEdge == ASSUME ConsoleTypeOK, ClockDevices PROVE RxMoves
<1>1. RxLatch(Access) /\ (Listen \/ Receive({arrived + 1}))
    BY DEF ClockDevices, ClockPeripheral, Clock
<1>2. arrived' = IF receiving # Idle /\ receiving' = Idle THEN arrived + 1 ELSE arrived
    BY DEF ClockDevices, rxBusy
<1>3. /\ rxBusyPrev' = (receiving # Idle)
      /\ rxDataReg' = IF Pending THEN rxData ELSE rxDataReg
    BY <1>1 DEF RxLatch, Pending, rxBusy
<1>4. rxValid' = (mem # "rxdata" /\ ~(mem = "other" /\ stray) /\ (Pending \/ rxValid))
    BY <1>1, AccessOfMem DEF RxLatch, Pending, rxBusy
<1>5. \/ FrameGoesOn /\ rxData' = rxData /\ arrived' = arrived
      \/ /\ receiving = RxTicks /\ receiving' = Idle
         /\ rxData' = arrived + 1 /\ arrived' = arrived + 1
  <2>1. CASE Listen
      BY <1>2, <2>1 DEF Listen, FrameGoesOn
  <2>2. CASE Receive({arrived + 1})
    <3>1. receiving \in Idle..RxTicks /\ RxTicks \in Nat
        BY ConsoleAssumption DEF ConsoleTypeOK
    <3>2. CASE receiving = RxTicks
        BY <1>2, <2>2, <3>1, <3>2 DEF Receive, Idle, FrameGoesOn
    <3>3. CASE receiving # RxTicks
        BY <1>2, <2>2, <3>1, <3>3 DEF Receive, Idle, FrameGoesOn
    <3> QED BY <3>2, <3>3
  <2> QED BY <1>1, <2>1, <2>2
<1> QED BY <1>3, <1>4, <1>5 DEF RxMoves

-----------------------------------------------------------------------------
(* The state after reset.                                                  *)
LEMMA ConsoleStarts == ConsoleInit => ConsoleInv
<1> SUFFICES ASSUME ConsoleInit PROVE ConsoleInv
    OBVIOUS
<1> USE DEF ConsoleInit, ResetPeripheral, Reset, NoData, Idle
<1>1. <<>> \in Seq(Nat) /\ UpTo(0) = <<>> /\ Len(<<>>) = 0
    BY UpToIsSeq
<1>2. ConsoleTypeOK
  <2>1. /\ 0 - 1 \in Idle..(TxTicks - 1) /\ 0 - 1 \in Idle..RxTicks
        /\ 1 \in 1..MaxHold /\ 0 \in 0..MaxOther
      BY ConsoleAssumption
  <2>2. [busy |-> FALSE, valid |-> FALSE] \in [busy : BOOLEAN, valid : BOOLEAN]
      OBVIOUS
  <2>3. /\ sending \in Idle..(TxTicks - 1) /\ receiving \in Idle..RxTicks
        /\ held \in 1..MaxHold /\ others \in 0..MaxOther
        /\ puts \in Nat /\ arrived \in Nat /\ rxData \in Nat /\ rxDataReg \in Nat /\ latched \in Nat
      BY <2>1
  <2>4. /\ txBusy \in BOOLEAN /\ txEna \in BOOLEAN /\ rxValid \in BOOLEAN /\ rxBusyPrev \in BOOLEAN
        /\ stray \in BOOLEAN
        /\ call \in {"putc", "getc", "none"} /\ mem \in {"status", "tx", "rxdata", "other"}
        /\ loaded \in [busy : BOOLEAN, valid : BOOLEAN]
        /\ sent \in Seq(Nat) /\ got \in Seq(Nat)
      BY <1>1, <2>2
  <2> QED BY <2>3, <2>4 DEF ConsoleTypeOK
<1>3. InCall
    BY DEF InCall
<1>4. PutInv
    BY <1>1 DEF PutInv, TxQuiet
<1>5. GetInv /\ BytesAreNotRepeated /\ PollInv
    BY <1>1 DEF GetInv, Pending, Newest, BytesAreNotRepeated, PollInv
<1> QED BY <1>2, <1>3, <1>4, <1>5 DEF ConsoleInv

-----------------------------------------------------------------------------
(* One edge, with any instruction.                                         *)

LEMMA ConsoleTypeStep ==
    ASSUME ConsoleInv, ClockDevices, Instructions
    PROVE  ConsoleTypeOK'
<1>1. ConsoleTypeOK /\ TxMoves /\ RxMoves
    BY TxEdge, RxEdge DEF ConsoleInv
<1>2. TxTicks \in Nat /\ RxTicks \in Nat /\ MaxHold \in Nat /\ MaxOther \in Nat /\ 2 < TxTicks
      /\ 1 <= MaxHold
    BY ConsoleAssumption
<1>3. sending' \in Idle..(TxTicks - 1)
    BY <1>1, <1>2 DEF ConsoleTypeOK, TxMoves, Idle
<1>4. receiving' \in Idle..RxTicks
    BY <1>1, <1>2 DEF ConsoleTypeOK, RxMoves, FrameGoesOn, Idle
<1>5. arrived' \in Nat /\ rxData' \in Nat /\ rxDataReg' \in Nat
    BY <1>1 DEF ConsoleTypeOK, RxMoves
<1>6. txBusy' \in BOOLEAN /\ txEna' \in BOOLEAN /\ rxValid' \in BOOLEAN /\ rxBusyPrev' \in BOOLEAN
    BY <1>1, Zenon DEF ConsoleTypeOK, TxMoves, RxMoves
<1>7. sent' \in Seq(Nat)
  <2>1. sending = Idle /\ txEna => txData \in Nat
      BY <1>1 DEF ConsoleInv, ConsoleTypeOK, PutInv, Stored, TxEnabled, InFrame, TxQuiet
  <2>2. sent' = sent \/ (sending = Idle /\ txEna /\ sent' = Append(sent, txData))
      BY <1>1 DEF TxMoves
  <2>3. sent \in Seq(Nat)
      BY <1>1 DEF ConsoleTypeOK
  <2> QED BY <2>1, <2>2, <2>3
<1>8. /\ call' \in {"putc", "getc", "none"}
      /\ mem' \in {"status", "tx", "rxdata", "other"}
      /\ puts' \in Nat /\ latched' \in Nat
    BY <1>1, <1>5, SMTT(30) DEF ConsoleTypeOK, Instructions, Hold, Work, CallPutc, CallGetc, Evaluate, PollAgain,
                      StoreTx, ReadRx, Enter
<1>9. stray' \in BOOLEAN
    BY <1>1, Zenon DEF ConsoleTypeOK, Instructions, Hold, Work, CallPutc, CallGetc, Evaluate, PollAgain,
                       StoreTx, ReadRx
<1>10. held' \in 1..MaxHold /\ others' \in 0..MaxOther
    BY <1>1, <1>2 DEF ConsoleTypeOK, Instructions, Hold, Work, CallPutc, CallGetc, Evaluate, PollAgain,
                      StoreTx, ReadRx, Enter
<1>11. loaded' \in [busy : BOOLEAN, valid : BOOLEAN]
  <2>1. loaded' = loaded \/ loaded' = [busy |-> txBusy, valid |-> rxValid]
      BY DEF Instructions, Hold, Work, CallPutc, CallGetc, Evaluate, PollAgain, StoreTx, ReadRx, Enter
  <2> QED BY <1>1, <2>1 DEF ConsoleTypeOK
<1>12. got' \in Seq(Nat)
  <2>1. got' = got \/ got' = Append(got, rxDataReg)
      BY DEF Instructions, Hold, Work, CallPutc, CallGetc, Evaluate, PollAgain, StoreTx, ReadRx, Enter
  <2>2. got \in Seq(Nat) /\ rxDataReg \in Nat
      BY <1>1 DEF ConsoleTypeOK
  <2> QED BY <2>1, <2>2
<1> QED BY <1>3, <1>4, <1>5, <1>6, <1>7, <1>8, <1>9, <1>10, <1>11, <1>12 DEF ConsoleTypeOK

LEMMA CallStep ==
    ASSUME ConsoleInv, ClockDevices, Instructions
    PROVE  InCall'
BY DEF ConsoleInv, ConsoleTypeOK, InCall, Instructions, Hold, Work, CallPutc, CallGetc, Evaluate, PollAgain,
       StoreTx, ReadRx, Enter

(* The transmitter: from each of its situations, whatever the instruction  *)
(* in MEM does.                                                            *)
LEMMA PutStep ==
    ASSUME ConsoleInv, ClockDevices, Instructions
    PROVE  PutInv'
<1>1. ConsoleTypeOK /\ TxMoves /\ InCall /\ PutInv
    BY TxEdge DEF ConsoleInv
<1>2. TxTicks \in Nat /\ MaxHold \in Nat /\ 2 <= MaxHold /\ MaxHold < TxTicks
    BY ConsoleAssumption
<1>3. /\ puts' = IF mem # "tx" /\ mem' = "tx" THEN puts + 1 ELSE puts
      /\ mem' = "tx" => \/ mem = "tx" /\ held' = held + 1
                        \/ mem = "other" /\ call = "putc" /\ ~loaded.busy /\ held' = 1
      /\ (mem' = mem /\ held' = held + 1) \/ held' = 1
    BY <1>1 DEF InCall, Instructions, Hold, Work, CallPutc, CallGetc, Evaluate, PollAgain,
                StoreTx, ReadRx, Enter
(* What a putc sees when it leaves its loop.                               *)
<1>4. call' = "putc" /\ mem' = "other" /\ ~loaded'.busy =>
         \/ mem = "other" /\ call = "putc" /\ ~loaded.busy
         \/ mem = "status" /\ held % 2 = 0 /\ ~txBusy
    BY <1>1 DEF ConsoleTypeOK, InCall, Instructions, Hold, Work, CallPutc, CallGetc, Evaluate, PollAgain,
                StoreTx, ReadRx, Enter, MayLeave
<1>5. mem # "status" /\ call = "none" /\ mem' = "other" => call' = "none"
    BY DEF Instructions, Hold, Work, CallPutc, CallGetc, Evaluate, PollAgain,
           StoreTx, ReadRx, Enter
<1>6. CASE Stored
  <2>1. txEna' = TRUE /\ txBusy' = FALSE /\ sending' = Idle /\ txData' = puts /\ sent' = sent
      BY <1>1, <1>6 DEF TxMoves, Stored
  <2>2. puts' = puts /\ (IF mem' = "tx" THEN held' = 2 ELSE held' = 1)
      BY <1>3, <1>6 DEF Stored
  <2>3. mem' = "other" => call' = "none"
      BY <1>1, <1>5, <1>6 DEF InCall, Stored
  <2> QED BY <1>6, <2>1, <2>2, <2>3 DEF Stored, TxEnabled, PutInv
<1>7. CASE TxEnabled
  <2>1. sent' = UpTo(puts)
    <3>1. PICK n \in Nat : n = puts - 1 /\ puts = n + 1
        BY <1>1, <1>7 DEF ConsoleTypeOK, TxEnabled
    <3>2. sent' = Append(UpTo(n), n + 1)
        BY <1>1, <1>7, <3>1 DEF TxMoves, TxEnabled
    <3> QED BY <3>1, <3>2, UpToExtends
  <2>2. sending' = 0 /\ txBusy' = TRUE /\ txEna' = (mem = "tx")
      BY <1>1, <1>7 DEF TxMoves, TxEnabled
  <2>3. puts' = puts /\ (mem' = "tx" => mem = "tx" /\ held' = 3) /\ (mem' # "tx" => held' = 1 \/ mem # "tx")
      BY <1>3, <1>7 DEF TxEnabled
  <2>4. mem = "tx" /\ mem' = "other" => call' = "none"
      BY <1>1, <1>5 DEF InCall
  <2>6. ~(call' = "putc" /\ mem' = "other" /\ ~loaded'.busy)
      BY <1>4, <1>7 DEF TxEnabled
  <2>5. sending' <= held' - 3 \/ mem' # "tx"
      BY <2>2, <2>3
  <2>7. txEna' => IF mem' = "tx" THEN held' = 3 ELSE mem' = "other" => call' = "none"
      BY <2>2, <2>3, <2>4
  <2>8. InFrame'
      BY <2>1, <2>2, <2>3, <2>5, <2>7 DEF InFrame, Idle
  <2> QED BY <2>6, <2>8 DEF PutInv
<1>8. CASE InFrame
  <2>1. txEna' = FALSE /\ sent' = UpTo(puts) /\ txBusy'
      BY <1>1, <1>8 DEF TxMoves, InFrame
  <2>2. mem' = "tx" => mem = "tx" /\ held' = held + 1
      BY <1>1, <1>3, <1>8 DEF PutInv, InFrame, TxQuiet
  <2>3. ~(call' = "putc" /\ mem' = "other" /\ ~loaded'.busy)
      BY <1>1, <1>4, <1>8 DEF PutInv, InFrame, TxQuiet
  <2>4. mem = "tx" => sending + 1 # TxTicks
      BY <1>1, <1>2, <1>8 DEF InFrame, ConsoleTypeOK, Idle
  <2>5. puts' = puts
      BY <1>3, <2>2
  <2>6. CASE sending' = Idle
      BY <1>1, <1>8, <2>1, <2>2, <2>3, <2>4, <2>5, <2>6 DEF InFrame, TxQuiet, PutInv, TxMoves, ConsoleTypeOK, Idle
  <2>7. CASE sending' # Idle
    <3>1. mem' = "tx" => sending' <= held' - 3
        BY <1>1, <1>8, <2>2, <2>7 DEF InFrame, TxMoves, ConsoleTypeOK, Idle
    <3> QED BY <2>1, <2>3, <2>5, <2>7, <3>1 DEF InFrame, PutInv
  <2> QED BY <2>6, <2>7
<1>9. CASE TxQuiet
    BY <1>1, <1>3, <1>9 DEF ConsoleTypeOK, TxMoves, Stored, TxQuiet, PutInv
<1> QED BY <1>1, <1>6, <1>7, <1>8, <1>9 DEF PutInv

(* The receiver and what getc returns.                                     *)
LEMMA GetStep ==
    ASSUME ConsoleInv, ClockDevices, Instructions
    PROVE  GetInv' /\ BytesAreNotRepeated'
<1>1. ConsoleTypeOK /\ RxMoves /\ InCall /\ GetInv /\ BytesAreNotRepeated
    BY RxEdge DEF ConsoleInv
<1>2. RxTicks \in Nat
    BY ConsoleAssumption
<1>3. rxData' = arrived'
    BY <1>1 DEF RxMoves, GetInv
<1>4. rxDataReg' = (IF Pending THEN rxDataReg + 1 ELSE rxDataReg) /\ rxDataReg' \in Nat
    BY <1>1 DEF RxMoves, GetInv, ConsoleTypeOK
<1>5. rxDataReg' = IF Pending' THEN arrived' - 1 ELSE arrived'
  <2>1. CASE receiving = RxTicks /\ receiving' = Idle /\ arrived' = arrived + 1
    <3>1. receiving # Idle
        BY <1>2, <2>1 DEF Idle
    <3>2. Pending' /\ ~Pending
        BY <1>1, <2>1, <3>1 DEF RxMoves, Pending
    <3> QED BY <1>1, <1>4, <2>1, <3>2 DEF GetInv, ConsoleTypeOK
  <2>2. CASE FrameGoesOn /\ arrived' = arrived
    <3>1. receiving' = Idle => receiving = Idle
        BY <1>1, <2>2 DEF FrameGoesOn, Idle, ConsoleTypeOK
    <3>2. ~Pending'
        BY <1>1, <3>1 DEF RxMoves, Pending
    <3> QED BY <1>1, <1>4, <2>2, <3>2 DEF GetInv, ConsoleTypeOK
  <2> QED BY <1>1, <2>1, <2>2 DEF RxMoves
(* Only a load that leaves MEM adds to got.                                *)
<1>6. \/ got' = got /\ (mem' = "rxdata" => mem = "rxdata" \/ (mem = "other" /\ call = "getc" /\ loaded.valid))
      \/ got' = Append(got, rxDataReg) /\ mem = "rxdata" /\ mem' # "rxdata"
    BY <1>1 DEF InCall, Instructions, Hold, Work, CallPutc, CallGetc, Evaluate, PollAgain,
                StoreTx, ReadRx, Enter
<1>7. call' = "getc" /\ mem' = "other" /\ loaded'.valid =>
         \/ mem = "other" /\ call = "getc" /\ loaded.valid
         \/ mem = "status" /\ rxValid
    BY <1>1 DEF ConsoleTypeOK, InCall, Instructions, Hold, Work, CallPutc, CallGetc, Evaluate, PollAgain,
                StoreTx, ReadRx, Enter
<1>8. CASE got' = got /\ (mem' = "rxdata" => mem = "rxdata" \/ (mem = "other" /\ call = "getc" /\ loaded.valid))
  <2>1. Newest' = Newest /\ Newest <= rxDataReg' /\ (Pending => Newest < rxDataReg')
      BY <1>1, <1>4, <1>8 DEF GetInv, Newest, ConsoleTypeOK
  <2>2. rxValid' => Newest < rxDataReg'
      BY <1>1, <1>4, <2>1 DEF RxMoves, GetInv, ConsoleTypeOK
  <2>3. \/ call' = "getc" /\ mem' = "other" /\ loaded'.valid
        \/ mem' = "rxdata"
        => Newest < rxDataReg'
      BY <1>1, <1>4, <1>7, <1>8, <2>1 DEF GetInv, ConsoleTypeOK
  <2>4. BytesAreNotRepeated'
      BY <1>1, <1>8 DEF BytesAreNotRepeated
  <2> QED BY <1>3, <1>5, <2>1, <2>2, <2>3, <2>4 DEF GetInv
<1>9. CASE got' = Append(got, rxDataReg) /\ mem = "rxdata" /\ mem' # "rxdata"
  <2>1. Len(got') = Len(got) + 1 /\ got'[Len(got')] = rxDataReg /\ got' # <<>>
      BY <1>1, <1>9, SMTT(30) DEF ConsoleTypeOK
  <2>2. \A i \in 1..Len(got) : got'[i] = got[i]
      BY <1>1, <1>9 DEF ConsoleTypeOK
  <2>3. Newest' = rxDataReg
      BY <2>1 DEF Newest
  <2>4. Newest < rxDataReg
      BY <1>1, <1>9 DEF GetInv
  <2>5. \A i \in 1..Len(got) : got[i] <= Newest
      BY <1>1, SMTT(30) DEF BytesAreNotRepeated, Newest, ConsoleTypeOK
  <2>6. BytesAreNotRepeated'
    <3>1. Len(got) \in Nat /\ rxDataReg \in Nat /\ \A i \in 1..Len(got) : got[i] \in Nat
        BY <1>1 DEF ConsoleTypeOK
    <3>2. Newest \in Nat
        BY <3>1 DEF Newest
    <3>3. SUFFICES ASSUME NEW i \in 1..Len(got'), NEW j \in 1..Len(got')
                   PROVE  0 < got'[i] /\ (i < j => got'[i] < got'[j])
        BY DEF BytesAreNotRepeated
    <3>4. CASE i = Len(got')
        BY <2>1, <2>4, <3>1, <3>2, <3>4
    <3>5. CASE i # Len(got') /\ j = Len(got')
      <4>1. i \in 1..Len(got) /\ got'[i] = got[i] /\ got'[j] = rxDataReg
          BY <2>1, <2>2, <3>1, <3>5
      <4>2. 0 < got[i] /\ got[i] <= Newest
          BY <1>1, <2>5, <4>1 DEF BytesAreNotRepeated
      <4> QED BY <2>4, <3>1, <3>2, <4>1, <4>2
    <3>6. CASE i # Len(got') /\ j # Len(got')
        BY <1>1, <2>1, <2>2, <3>1, <3>6 DEF BytesAreNotRepeated
    <3> QED BY <3>4, <3>5, <3>6
  <2>7. ~rxValid' /\ ~(call' = "getc" /\ mem' = "other" /\ loaded'.valid)
      BY <1>1, <1>7, <1>9 DEF RxMoves
  <2> QED BY <1>1, <1>3, <1>4, <1>5, <1>9, <2>3, <2>6, <2>7 DEF GetInv, ConsoleTypeOK
<1> QED BY <1>6, <1>8, <1>9

(* While getc polls.  The cycle in which a second byte of a call might be  *)
(* latched comes after the call.                                           *)
LEMMA PollStep ==
    ASSUME ConsoleInv, ClockDevices, Instructions
    PROVE  PollInv'
<1>1. ConsoleTypeOK /\ RxMoves /\ InCall /\ GetInv /\ PollInv
    BY RxEdge DEF ConsoleInv
<1>2. /\ RxTicks \in Nat /\ MaxHold \in Nat /\ MaxOther \in Nat /\ 2 <= MaxHold /\ 1 <= MaxOther
      /\ 2 * (MaxHold + MaxOther) < RxTicks
    BY ConsoleAssumption
<1>3. rxDataReg' = (IF Pending THEN rxDataReg + 1 ELSE rxDataReg) /\ rxDataReg' \in Nat
    BY <1>1 DEF RxMoves, GetInv, ConsoleTypeOK
(* A call begins with nothing latched since.                               *)
<1>4. CASE call = "none" /\ call' = "getc"
  <2>1. latched' = rxDataReg'
      BY <1>4 DEF Instructions, Hold, Work, CallPutc, CallGetc, Evaluate, PollAgain, StoreTx, ReadRx
  <2> QED BY <1>3, <2>1 DEF PollInv
<1>5. CASE (call' = "getc" \/ mem' = "rxdata") /\ ~(call = "none" /\ call' = "getc")
  <2>1. (call = "getc" \/ mem = "rxdata") /\ latched' = latched
      BY <1>1, <1>5 DEF InCall, ConsoleTypeOK, Instructions, Hold, Work, CallPutc, CallGetc, Evaluate, PollAgain,
                        StoreTx, ReadRx, Enter
  <2>2. call' = "getc" => call = "getc" /\ mem # "rxdata" /\ ~stray
      BY <1>1, <1>5, <2>1 DEF InCall, ConsoleTypeOK, Instructions, Hold, Work, CallPutc, CallGetc, Evaluate,
                        PollAgain, StoreTx, ReadRx, Enter
  <2>3. PollProgress' \in Nat
    <3>1. mem' # "tx" /\ (mem' = "other" => others' # 0)
        BY <1>1, <1>5, CallStep DEF InCall
    <3>2. PICK h \in 1..MaxHold, o \in 0..MaxOther : h = held' /\ o = others'
        BY ConsoleTypeStep DEF ConsoleTypeOK
    <3>3. /\ MaxOther + h - 1 \in Nat /\ 2 * MaxOther + MaxHold + h - 1 \in Nat
          /\ o # 0 => o - 1 \in Nat /\ MaxOther + MaxHold + o - 1 \in Nat
        BY <1>2
    <3>4. CASE mem' = "status" \/ mem' = "rxdata"
        BY <3>2, <3>3, <3>4 DEF PollProgress
    <3>5. CASE mem' = "other"
        BY <3>1, <3>2, <3>3, <3>5 DEF PollProgress
    <3> QED BY <1>1, <1>5, <3>1, <3>4, <3>5, ConsoleTypeStep DEF ConsoleTypeOK
  <2>4. receiving' \in Int /\ receiving' <= receiving + 1 /\ (receiving = Idle => receiving' <= 0)
    <3>1. receiving' \in Idle..RxTicks
        BY ConsoleTypeStep DEF ConsoleTypeOK
    <3> QED BY <1>1, <1>2, <3>1 DEF ConsoleTypeOK, RxMoves, FrameGoesOn, Idle
  <2>5. latched \in Nat /\ rxDataReg \in {latched, latched + 1}
      BY <1>1, <2>1 DEF ConsoleTypeOK, PollInv
  <2>6. call' = "getc" => rxValid' = (Pending \/ rxValid)
      BY <1>1, <2>2 DEF RxMoves
  <2>7. CASE rxDataReg = latched /\ Pending
    <3>1. rxDataReg' = latched + 1 /\ receiving' <= 0 /\ ~Pending'
        BY <1>1, <1>3, <2>4, <2>7 DEF Pending, RxMoves
    <3>2. receiving' <= PollProgress' /\ rxDataReg' \in {latched, latched + 1}
        BY <2>3, <2>4, <3>1
    <3>3. call' = "getc" => rxValid'
        BY <2>6, <2>7
    <3> QED BY <2>1, <3>1, <3>2, <3>3 DEF PollInv
  <2>8. CASE rxDataReg = latched /\ ~Pending
      BY <1>3, <2>1, <2>5, <2>8 DEF PollInv
  <2>9. CASE rxDataReg # latched
    <3>1. receiving <= PollProgress /\ ~Pending /\ rxDataReg' = latched + 1
        BY <1>1, <1>3, <2>1, <2>5, <2>9 DEF PollInv
    <3>2. call = "getc" => rxValid
        BY <1>1, <2>9 DEF PollInv
    <3>3. held \in 1..MaxHold /\ others \in 0..MaxOther /\ mem # "tx"
        BY <1>1, <2>1 DEF ConsoleTypeOK, InCall
    <3>4. PollProgress < RxTicks /\ PollProgress \in Int
        BY <1>2, <3>3 DEF PollProgress
    <3>5. receiving # Idle => receiving' # Idle
        BY <1>1, <1>2, <3>1, <3>4 DEF ConsoleTypeOK, RxMoves, FrameGoesOn, Idle
    <3>6. ~Pending'
        BY <1>1, <3>5 DEF RxMoves, Pending
    <3>7. PollProgress + 1 <= PollProgress'
      <4>1. CASE Hold
        <5>1. mem' = mem /\ mem \in {"status", "rxdata"} /\ held' = held + 1
            BY <1>1, <3>3, <4>1 DEF Hold, ConsoleTypeOK
        <5> QED BY <1>2, <3>3, <5>1 DEF PollProgress
      <4>2. CASE mem = "status" /\ mem' = "other" /\ loaded'.valid
        <5>1. PICK o \in Nat : o = others' /\ 1 <= o
            BY <1>2, <1>5, <4>2, CallStep, ConsoleTypeStep DEF InCall, ConsoleTypeOK
        <5>2. PollProgress' = MaxOther + MaxHold + o - 1
            BY <4>2, <5>1 DEF PollProgress
        <5>3. PollProgress = MaxOther + held - 1
            BY <4>2 DEF PollProgress
        <5>4. held \in Int /\ held <= MaxHold /\ MaxHold \in Int /\ MaxOther \in Int /\ o \in Int /\ 1 <= o
            BY <1>2, <3>3, <5>1
        <5>5. MaxOther + held - 1 + 1 <= MaxOther + MaxHold + o - 1
            BY <5>4
        <5> QED BY <5>2, <5>3, <5>5
      <4>3. CASE mem = "other" /\ mem' = "other" /\ others' = others + 1 /\ loaded' = loaded
          BY <1>2, <3>3, <4>3 DEF PollProgress
      <4>4. CASE mem = "other" /\ mem' = "status" /\ ~loaded.valid /\ held' = 1
          BY <1>2, <3>3, <4>4 DEF PollProgress
      <4>5. CASE mem = "other" /\ mem' = "rxdata" /\ loaded.valid /\ held' = 1
          BY <1>2, <3>3, <4>5 DEF PollProgress
      <4>6. \/ Hold
            \/ mem = "status" /\ mem' = "other" /\ loaded'.valid
            \/ mem = "other" /\ mem' = "other" /\ others' = others + 1 /\ loaded' = loaded
            \/ mem = "other" /\ mem' = "status" /\ ~loaded.valid /\ held' = 1
            \/ mem = "other" /\ mem' = "rxdata" /\ loaded.valid /\ held' = 1
          BY <1>1, <1>5, <2>1, <3>2, <3>3 DEF InCall, ConsoleTypeOK, Instructions, Work, CallPutc, CallGetc,
             Evaluate, PollAgain, StoreTx, ReadRx, Enter
      <4> QED BY <4>1, <4>2, <4>3, <4>4, <4>5, <4>6
    <3>8. receiving' <= PollProgress' /\ rxDataReg' \in {latched, latched + 1}
        BY <1>1, <2>3, <2>4, <3>1, <3>4, <3>7 DEF ConsoleTypeOK, Idle
    <3>9. call' = "getc" => rxValid'
        BY <2>2, <2>6, <3>2
    <3> QED BY <2>1, <3>6, <3>8, <3>9 DEF PollInv
  <2> QED BY <2>5, <2>7, <2>8, <2>9
<1> QED BY <1>4, <1>5 DEF PollInv

-----------------------------------------------------------------------------
(***************************************************************************)
(* The inductive invariant: where the transmitter is between a store and   *)
(* the end of the frame, what the valid flag stands for, and how far the   *)
(* next frame can have come while getc polls.                              *)
(***************************************************************************)
THEOREM ConsoleInvariance == ConsoleSpec => []ConsoleInv
<1>1. ConsoleInv /\ [ConsoleNext]_consoleVars => ConsoleInv'
  <2> SUFFICES ASSUME ConsoleInv, [ConsoleNext]_consoleVars PROVE ConsoleInv'
      OBVIOUS
  <2>1. CASE ConsoleNext
    <3>1. ClockDevices /\ Instructions
        BY <2>1 DEF ConsoleNext
    <3> QED BY <3>1, ConsoleTypeStep, CallStep, PutStep, GetStep, PollStep DEF ConsoleInv
  <2>2. CASE UNCHANGED consoleVars
    <3>1. /\ ConsoleTypeOK' /\ InCall' /\ PutInv'
        BY <2>2 DEF ConsoleInv, consoleVars, cpuVars, peripheralVars, byteVars, ConsoleTypeOK, InCall, PutInv, Stored,
                    TxEnabled, InFrame, TxQuiet
    <3>2. GetInv' /\ BytesAreNotRepeated' /\ PollInv'
        BY <2>2 DEF ConsoleInv, consoleVars, cpuVars, peripheralVars, byteVars, GetInv, BytesAreNotRepeated, PollInv,
                    Pending, Newest, PollProgress
    <3> QED BY <3>1, <3>2 DEF ConsoleInv
  <2> QED BY <2>1, <2>2
<1> QED BY ConsoleStarts, <1>1, PTL DEF ConsoleSpec

(***************************************************************************)
(* The bytes put are sent in their order, each of them once (uart_putc,    *)
(* tx_control).                                                            *)
(***************************************************************************)
THEOREM PutsAreSent == ConsoleSpec => []PutBytesAreSent
<1>1. ConsoleInv => PutBytesAreSent
  <2>1. Stored \/ TxEnabled => InFlight /\ sent = UpTo(puts - 1)
      BY DEF Stored, TxEnabled, InFlight
  <2>2. ConsoleInv /\ (InFrame \/ TxQuiet) => ~InFlight /\ sent = UpTo(puts)
    <3>1. ConsoleInv => sending \in Idle..(TxTicks - 1) /\ held \in 1..MaxHold
        BY DEF ConsoleInv, ConsoleTypeOK
    <3> QED BY <3>1, ConsoleAssumption DEF InFrame, TxQuiet, InFlight, Idle
  <2> QED BY <2>1, <2>2 DEF ConsoleInv, PutInv, PutBytesAreSent
<1> QED BY <1>1, ConsoleInvariance, PTL

(***************************************************************************)
(* No byte is returned twice, and later ones come later (uart_getc,        *)
(* rx_latch).                                                              *)
(***************************************************************************)
THEOREM GetsAreDistinct == ConsoleSpec => []BytesAreNotRepeated
<1>1. ConsoleInv => BytesAreNotRepeated
    BY DEF ConsoleInv
<1> QED BY <1>1, ConsoleInvariance, PTL

(***************************************************************************)
(* getc returns the byte that was there when it was called, or the next    *)
(* one, and not a later one (uart_getc, rx_latch).                         *)
(***************************************************************************)
THEOREM NoneMissed == ConsoleSpec => NoneMissedWhilePolling
<1>1. ConsoleInv /\ [ConsoleNext]_consoleVars => [got' # got => got'[Len(got')] <= latched + 1]_consoleVars
  <2> SUFFICES ASSUME ConsoleInv, ConsoleNext, got' # got PROVE got'[Len(got')] <= latched + 1
      BY DEF consoleVars
  <2>1. got' = Append(got, rxDataReg) /\ mem = "rxdata"
      BY DEF ConsoleNext, Instructions, Hold, Work, CallPutc, CallGetc, Evaluate, PollAgain, StoreTx,
             ReadRx, Enter
  <2>2. got \in Seq(Nat) /\ rxDataReg \in Nat /\ latched \in Nat
      BY DEF ConsoleInv, ConsoleTypeOK
  <2>3. got'[Len(got')] = rxDataReg
      BY <2>1, <2>2
  <2> QED BY <2>1, <2>2, <2>3 DEF ConsoleInv, PollInv
<1> QED BY <1>1, ConsoleInvariance, PTL DEF ConsoleSpec, NoneMissedWhilePolling

-----------------------------------------------------------------------------
(***************************************************************************)
(* FixedWeight: the reduction of a drawn number is exact, and the vector   *)
(* has the weight asked for, for every length, every weight and every      *)
(* number drawn.                                                           *)
(***************************************************************************)

(* The quotient and the remainder of a natural number by a positive one.     *)
LEMMA Quotient ==
    ASSUME NEW a \in Nat, NEW n \in Nat \ {0}
    PROVE  /\ a \div n \in Nat
           /\ n * (a \div n) <= a
           /\ a < n * (a \div n) + n
BY SMT

(* A product is monotone in one of its factors.                             *)
LEMMA ProductMonotone ==
    ASSUME NEW a \in Int, NEW b \in Int, NEW c \in Nat, a <= b
    PROVE  a * c <= b * c
BY SMT

(* A common positive factor may be dropped from a comparison.               *)
LEMMA ProductStrict ==
    ASSUME NEW a \in Int, NEW b \in Int, NEW c \in Nat \ {0}, a * c < b * c
    PROVE  a < b
BY SMT

(* Numbers that need no wrapping, and those that wrap once.                 *)
LEMMA Remainder ==
    ASSUME NEW D \in Nat \ {0}, NEW k \in Int
    PROVE  /\ k \in 0 .. D - 1 => k % D = k
           /\ k \in -D .. -1 => k % D = k + D
BY SMT

(* The multiplication with the inverse is wrong by less than twice n.        *)
LEMMA QuotientIsClose ==
    ASSUME NEW n \in Nat \ {0}, NEW D \in Nat, 2 * n <= D, NEW a \in 0 .. D - 1
    PROVE  a - ((a * (D \div n)) \div D) * n \in 0 .. 2 * n - 1
<1> DEFINE mul == D \div n
           q == (a * mul) \div D
<1>1. mul \in Nat /\ n * mul <= D /\ D < n * mul + n
  BY Quotient
<1>2. a * mul \in Nat /\ D \in Nat \ {0} /\ a \in Nat
  BY <1>1, SMT
<1>3. q \in Nat /\ D * q <= a * mul /\ a * mul < D * q + D
  BY <1>2, Quotient
<1> HIDE DEF mul, q
<1>4. q * n <= a
  <2>1. (D * q) * n <= (a * mul) * n
    BY <1>2, <1>3, ProductMonotone
  <2>2. (n * mul) * a <= D * a
    BY <1>1, <1>2, ProductMonotone
  <2>3. (a * mul) * n = (n * mul) * a /\ (D * q) * n = (q * n) * D
    BY <1>1, <1>2, <1>3, SMT
  <2>4. (q * n) * D <= a * D
    BY <2>1, <2>2, <2>3, <1>1, <1>2, <1>3, SMT
  <2> QED
    BY <2>4, <1>2, <1>3, SMT
<1>5. a < q * n + 2 * n
  <2>1. (a * mul + 1) * n <= (D * q + D) * n
    BY <1>1, <1>2, <1>3, ProductMonotone
  <2>2. D * a <= (n * mul + n) * a
    BY <1>1, <1>2, ProductMonotone
  <2>3. (a * mul + 1) * n = (a * mul) * n + n /\ (n * mul + n) * a = (a * mul) * n + n * a
    BY <1>1, <1>2, SMT
  <2>4. (D * q + D) * n = (q * n + n) * D
    BY <1>2, <1>3, SMT
  <2>5. a * n <= D * n
    BY <1>2, ProductMonotone
  <2>6. a * D < (q * n + n) * D + n * D
    <3>1. (a * mul) * n \in Nat /\ n * a = a * n /\ D * n = n * D /\ D * a = a * D
      BY <1>1, <1>2, SMT
    <3>2. (q * n + n) * D \in Nat /\ a * n \in Nat /\ D * n \in Nat /\ D * a \in Nat
      BY <1>2, <1>3, SMT
    <3> QED
      BY <2>1, <2>2, <2>3, <2>4, <2>5, <3>1, <3>2
  <2>7. (q * n + n) * D + n * D = (q * n + 2 * n) * D
    BY <1>2, <1>3, SMT
  <2> QED
    BY <2>6, <2>7, <1>2, <1>3, ProductStrict
<1> QED
  BY <1>2, <1>3, <1>4, <1>5 DEF mul, q

(* reduce of vector.c gives a position below PARAM_N - i for any number     *)
(* drawn, so that i plus it is a position of the vector and not below i.    *)
THEOREM ReduceInRange ==
    ASSUME NEW i \in 0 .. PARAM_N - 1, NEW a \in 0 .. DRAWS - 1
    PROVE  reduce(a, i) \in 0 .. PARAM_N - i - 1
<1> DEFINE n == PARAM_N - i
           r == a - ((a * (DRAWS \div n)) \div DRAWS) * n
<1>1. n \in Nat \ {0} /\ DRAWS \in Nat \ {0} /\ 2 * n <= DRAWS
  BY SizesAssumption
<1>2. r \in 0 .. 2 * n - 1
  BY <1>1, QuotientIsClose
<1>3. reduce(a, i) = cond_sub(r, n)
  BY DEF reduce, m_val
<1> HIDE DEF n, r
<1>4. /\ DRAWS \div 2 \in Nat
      /\ 2 * (DRAWS \div 2) <= DRAWS
      /\ DRAWS < 2 * (DRAWS \div 2) + 2
  BY <1>1, Quotient
<1>5. CASE r < n
  <2>1. r - n \in -DRAWS .. -1
    BY <1>1, <1>2, <1>5
  <2>2. (r - n) % DRAWS = r - n + DRAWS
    BY <1>1, <2>1, Remainder
  <2>3. r - n + DRAWS >= DRAWS \div 2
    BY <1>1, <1>2, <1>4
  <2>4. cond_sub(r, n) = (r + DRAWS) % DRAWS
    <3>1. r - n + DRAWS + n = r + DRAWS
      BY <1>1, <1>2
    <3> QED
      BY <2>2, <2>3, <3>1 DEF cond_sub
  <2>5. (r + DRAWS) % DRAWS = r
    BY <1>1, <1>2, <1>5, SMT
  <2> QED
    BY <1>1, <1>2, <1>3, <1>5, <2>4, <2>5 DEF n
<1>6. CASE r >= n
  <2>1. r - n \in 0 .. DRAWS - 1
    BY <1>1, <1>2, <1>6
  <2>2. (r - n) % DRAWS = r - n
    BY <1>1, <2>1, Remainder
  <2>3. r - n < DRAWS \div 2
    BY <1>1, <1>2, <1>4
  <2>4. cond_sub(r, n) = r - n
    <3>1. ~(r - n >= DRAWS \div 2)
      BY <1>1, <1>2, <1>4, <2>3
    <3> QED
      BY <2>2, <3>1 DEF cond_sub
  <2> QED
    BY <1>1, <1>2, <1>3, <1>6, <2>4 DEF n
<1> QED
  BY <1>1, <1>2, <1>5, <1>6

-----------------------------------------------------------------------------
(* Before the first call there is nothing drawn: the invariant holds.       *)
LEMMA InitEstablishes == SamplerInit => SupportInv
BY SizesAssumption DEF SamplerInit, SupportInv, Positions, Distinct

(* Drawing: each position is its index plus a remainder below PARAM_N - i.   *)
LEMMA DrawPreserves ==
    ASSUME SupportInv, NEW w \in Weights, NEW a \in [0 .. w - 1 -> 0 .. DRAWS - 1], Draw(w, a)
    PROVE  SupportInv'
<1>1. w \in 1 .. PARAM_N /\ PARAM_N \in Nat
  BY SizesAssumption
<1>2. \A i \in 0 .. w - 1 : support'[i] = i + reduce(a[i], i)
  BY DEF Draw
<1>3. \A i \in 0 .. w - 1 : support'[i] \in i .. PARAM_N - 1
  <2> SUFFICES ASSUME NEW i \in 0 .. w - 1
               PROVE  support'[i] \in i .. PARAM_N - 1
    OBVIOUS
  <2>1. i \in 0 .. PARAM_N - 1 /\ a[i] \in 0 .. DRAWS - 1
    BY <1>1
  <2>2. reduce(a[i], i) \in 0 .. PARAM_N - i - 1
    BY <2>1, ReduceInRange
  <2> QED
    BY <1>1, <1>2, <2>2
<1>4. weight' = w /\ at' = w - 1
  BY DEF Draw
<1>5. Positions'
  <2>1. support' = [i \in 0 .. w - 1 |-> support'[i]]
    BY <1>2 DEF Draw
  <2>2. \A i \in 0 .. w - 1 : support'[i] \in 0 .. PARAM_N - 1
    BY <1>1, <1>3
  <2>3. support' \in [0 .. w - 1 -> 0 .. PARAM_N - 1]
    BY <2>1, <2>2, Zenon
  <2> QED
    BY <1>4, <2>3 DEF Positions
<1>6. (\A i \in 0 .. weight - 1 : support[i] >= i)'
  BY <1>1, <1>3, <1>4
<1>7. Distinct'
  BY <1>1, <1>4 DEF Distinct
<1> QED
  BY <1>1, <1>4, <1>5, <1>6, <1>7 DEF SupportInv

(* Settling an index keeps the positions behind it distinct: those are not   *)
(* below their indices, so none of them is the smaller index put in.         *)
LEMMA SettlePreserves ==
    ASSUME SupportInv, Settle
    PROVE  SupportInv'
<1> DEFINE i0 == at - 1
<1>1. /\ PARAM_N \in Nat
      /\ weight \in 0 .. PARAM_N
      /\ at \in 1 .. weight - 1
      /\ i0 \in 0 .. weight - 1
      /\ weight' = weight /\ at' = i0
  BY SizesAssumption DEF SupportInv, Settle
<1>2. support \in [0 .. weight - 1 -> 0 .. PARAM_N - 1]
  BY DEF SupportInv, Positions
<1>3. \A i \in 0 .. weight - 1 : support[i] >= i
  BY DEF SupportInv
<1>4. support' = [support EXCEPT ![i0] = IF Repeated(i0) THEN i0 ELSE support[i0]]
  BY DEF Settle
<1> HIDE DEF i0
<1>5. \A i \in 0 .. weight - 1 : i # i0 => support'[i] = support[i]
  BY <1>2, <1>4
<1>6. support'[i0] = IF Repeated(i0) THEN i0 ELSE support[i0]
  BY <1>1, <1>2, <1>4
<1>7. Positions'
  <2>1. support' \in [0 .. weight - 1 -> 0 .. PARAM_N - 1]
    BY <1>1, <1>2, <1>4
  <2> QED
    BY <1>1, <2>1 DEF Positions
<1>8. (\A i \in 0 .. weight - 1 : support[i] >= i)'
  BY <1>1, <1>2, <1>3, <1>5, <1>6
<1>9. Distinct'
  <2> SUFFICES ASSUME NEW i \in 0 .. weight - 1, NEW j \in 0 .. weight - 1,
                      i0 <= i, i < j
               PROVE  support'[i] # support'[j]
    BY <1>1 DEF Distinct
  <2>1. support'[j] = support[j] /\ support[j] >= j
    BY <1>1, <1>3, <1>5
  <2>2. CASE i # i0
    <3>1. at <= i
      BY <1>1, <2>2 DEF i0
    <3>2. support[i] # support[j]
      BY <1>1, <3>1 DEF SupportInv, Distinct
    <3> QED
      BY <1>5, <2>1, <2>2, <3>2
  <2>3. CASE i = i0 /\ Repeated(i0)
    <3>1. support'[i] = i0
      BY <1>6, <2>3
    <3> QED
      BY <1>1, <1>2, <2>1, <2>3, <3>1
  <2>4. CASE i = i0 /\ ~Repeated(i0)
    <3>1. support'[i] = support[i0]
      BY <1>6, <2>4
    <3>2. j \in i0 + 1 .. weight - 1
      BY <1>1, <2>4
    <3>3. support[j] # support[i0]
      BY <2>4, <3>2 DEF Repeated
    <3> QED
      BY <2>1, <3>1, <3>3
  <2> QED
    BY <2>2, <2>3, <2>4
<1> QED
  BY <1>1, <1>7, <1>8, <1>9 DEF SupportInv

(* Collecting: index 0 is settled, the bits are the positions.               *)
LEMMA CollectPreserves ==
    ASSUME SupportInv, Collect
    PROVE  SupportInv'
<1>1. /\ weight \in 0 .. PARAM_N /\ PARAM_N \in Nat
      /\ at = 0 /\ at' = -1
      /\ weight' = weight /\ support' = support
      /\ v' = {support[i] : i \in 0 .. weight - 1}
  BY SizesAssumption DEF SupportInv, Collect
<1>2. Positions' /\ (\A i \in 0 .. weight - 1 : support[i] >= i)'
  BY <1>1 DEF SupportInv, Positions
<1>3. Distinct'
  BY <1>1 DEF SupportInv, Distinct
<1> QED
  BY <1>1, <1>2, <1>3 DEF SupportInv

(* The positions stay in range and distinct from the last index down to the *)
(* one settled last, through every step of the sampler.                     *)
THEOREM SamplerInvariance == SamplerSpec => []SupportInv
<1>1. SupportInv /\ [SamplerNext]_samplerVars => SupportInv'
  <2> SUFFICES ASSUME SupportInv, [SamplerNext]_samplerVars
               PROVE  SupportInv'
    OBVIOUS
  <2>1. ASSUME NEW w \in Weights, NEW a \in [0 .. w - 1 -> 0 .. DRAWS - 1], Draw(w, a)
        PROVE  SupportInv'
    BY <2>1, DrawPreserves
  <2>2. CASE Settle
    BY <2>2, SettlePreserves
  <2>3. CASE Collect
    BY <2>3, CollectPreserves
  <2>4. CASE UNCHANGED samplerVars
    BY <2>4 DEF SupportInv, Positions, Distinct, samplerVars
  <2> QED
    BY <2>1, <2>2, <2>3, <2>4 DEF SamplerNext
<1> QED
  BY <1>1, InitEstablishes, PTL DEF SamplerSpec

(* Distinct positions are as many bits as there are indices.                *)
LEMMA DistinctPositionsCount ==
    ASSUME SupportInv, at = -1
    PROVE  WeightIsExact
<1> DEFINE I == 0 .. weight - 1
<1>1. weight \in Nat /\ support \in [I -> 0 .. PARAM_N - 1] /\ v = {support[i] : i \in I}
  BY SizesAssumption DEF SupportInv, Positions
<1>2. v \subseteq 0 .. PARAM_N - 1
  BY <1>1
<1>3. IsFiniteSet(I) /\ Cardinality(I) = weight
  <2>1. PICK top \in Int : top = weight - 1 /\ weight = top + 1 /\ top >= -1
    BY <1>1
  <2>2. IsFiniteSet(0..top) /\ Cardinality(0..top) = top + 1
    BY <2>1, FS_Interval
  <2> QED
    BY <2>1, <2>2
<1>4. \A i, j \in I : support[i] = support[j] => i = j
  <2> SUFFICES ASSUME NEW i \in I, NEW j \in I, support[i] = support[j], i # j
               PROVE  FALSE
    OBVIOUS
  <2>1. CASE i < j
    BY <1>1, <2>1 DEF SupportInv, Distinct
  <2>2. CASE j < i
    BY <1>1, <2>2 DEF SupportInv, Distinct
  <2> QED
    BY <1>1, <2>1, <2>2
<1>5. support \in Bijection(I, v)
  <2>1. support \in [I -> v]
    BY <1>1
  <2>2. \A t \in v : \E i \in I : support[i] = t
    BY <1>1
  <2> QED
    BY <1>4, <2>1, <2>2 DEF Bijection, Injection, Surjection, IsInjective
<1>6. Cardinality(v) = weight
  BY <1>3, <1>5, FS_Bijection DEF ExistsBijection
<1> QED
  BY <1>2, <1>6 DEF WeightIsExact

(* vect_set_random_fixed_weight: whatever the seed expander delivers, a      *)
(* vector of exactly the weight asked for and within its length.            *)
THEOREM ExactWeight == SamplerSpec => []WeightIsExact
<1>1. SupportInv => WeightIsExact
  BY DistinctPositionsCount DEF WeightIsExact
<1> QED
  BY <1>1, SamplerInvariance, PTL

-----------------------------------------------------------------------------
(***************************************************************************)
(* Hashing: whatever the message and however it and the output are cut, the*)
(* functions of fips202.c and the seed expander give the bytes of the sponge*)
(* of FIPS 202, for lanes of every width and every permutation; and a round*)
(* of the unrolled permutation is one of FIPS 202.                         *)
(***************************************************************************)

Byte == 0..255

States == [1..StateBytes -> Byte]

(* What the theorems ask of the parameters: the permutation maps states to *)
(* states, and what is hashed are bytes.                                   *)
BytesOnly ==
    /\ \A s \in States : Permute(s) \in States
    /\ \A k \in Nat : Text(k) \in Byte

-----------------------------------------------------------------------------
(* Induction and recursion over the natural numbers.                       *)

(* A set of natural numbers has a least element.                           *)
LEMMA Least ==
    ASSUME NEW T, T \subseteq Nat, T # {}
    PROVE  \E n \in T : \A k \in T : n <= k
<1>1. PICK n \in T : \A k \in T : ~(<<k, n>> \in OpToRel(<, Nat))
    BY WFMin, NatLessThanWellFounded
<1>2. ASSUME NEW k \in T PROVE n <= k
    <2>1. k \in Nat /\ n \in Nat
        OBVIOUS
    <2>2. ASSUME k < n PROVE <<k, n>> \in OpToRel(<, Nat)
        BY <2>1, <2>2, Zenon DEF OpToRel
    <2>3. ~(k < n)
        BY <1>1, <2>2, Zenon
    <2> QED
        BY <2>1, <2>3
<1> QED
    BY <1>2

(* A set that has 0 and, up to N, the successor of what it has, has 0..N.  *)
LEMMA Climb ==
    ASSUME NEW N \in Nat, NEW T, 0 \in T, \A k \in 0 .. N - 1 : k \in T => k + 1 \in T
    PROVE  \A k \in 0..N : k \in T
<1> DEFINE Missing == {k \in 0..N : k \notin T}
<1> SUFFICES ASSUME Missing # {} PROVE FALSE
    OBVIOUS
<1>1. PICK n \in Missing : \A k \in Missing : n <= k
    <2>1. Missing \subseteq Nat
        OBVIOUS
    <2> HIDE DEF Missing
    <2> QED
        BY <2>1, Least
<1>2. n \in 1..N /\ n - 1 \in 0 .. N - 1 /\ ~(n <= n - 1)
    OBVIOUS
<1>3. n - 1 \in T
    BY <1>1, <1>2
<1> QED
    BY <1>2, <1>3

(* Functions that start alike and go on alike are the same up to N.        *)
LEMMA Alike ==
    ASSUME NEW N \in Nat, NEW h, NEW g, h[0] = g[0],
           \A k \in 0 .. N - 1 : h[k] = g[k] => h[k + 1] = g[k + 1]
    PROVE  \A k \in 0..N : h[k] = g[k]
<1> DEFINE T == {k \in 0..N : h[k] = g[k]}
<1>1. 0 \in T
    OBVIOUS
<1>2. ASSUME NEW k \in 0 .. N - 1, k \in T PROVE k + 1 \in T
    <2>1. k + 1 \in 0..N
        OBVIOUS
    <2> QED
        BY <1>2, <2>1
<1> HIDE DEF T
<1>3. \A k \in 0..N : k \in T
    BY <1>1, <1>2, Climb
<1> QED
    BY <1>3 DEF T

(* A function on the natural numbers is defined by where it starts and how *)
(* it goes on.                                                             *)
Climbs(g, S, step, z) ==
    g \in [Nat -> S] /\ g[0] = z /\ \A k \in Nat : g[k + 1] = step[<<k, g[k]>>]

Ladder(S, step, z) == CHOOSE g : Climbs(g, S, step, z)

(* The iteration exists: such a function from the natural numbers is       *)
(* built from its finite beginnings.                                       *)
LEMMA LadderIs ==
    ASSUME NEW S, NEW z \in S, NEW step \in [Nat \X S -> S]
    PROVE  Climbs(Ladder(S, step, z), S, step, z)
<1> DEFINE Part(h, n) ==
        h \in [0..n -> S] /\ h[0] = z /\ \A k \in 0 .. n - 1 : h[k + 1] = step[<<k, h[k]>>]
<1>1. ASSUME NEW n \in Nat PROVE \E h : Part(h, n)
    <2> DEFINE T == {k \in 0..n : \E h : Part(h, k)}
    <2>1. 0 \in T
        <3> DEFINE h == [k \in 0..0 |-> z]
        <3>1. h \in [0..0 -> S] /\ h[0] = z /\ 0 .. 0 - 1 = {}
            OBVIOUS
        <3> HIDE DEF h
        <3>2. Part(h, 0)
            BY <3>1
        <3> HIDE DEF Part
        <3> QED
            BY <3>2
    <2>2. ASSUME NEW k \in 0 .. n - 1, k \in T PROVE k + 1 \in T
        <3>1. PICK h : Part(h, k)
            BY <2>2
        <3> DEFINE g == [i \in 0 .. k + 1 |-> IF i = k + 1 THEN step[<<k, h[k]>>] ELSE h[i]]
        <3>2. step[<<k, h[k]>>] \in S /\ \A i \in 0..k : h[i] \in S
            BY <3>1
        <3>3. g \in [0 .. k + 1 -> S]
            BY <3>2
        <3>4. g[0] = z
            BY <3>1
        <3>5. ASSUME NEW i \in 0 .. (k + 1) - 1 PROVE g[i + 1] = step[<<i, g[i]>>]
            <4>1. g[i] = h[i]
                OBVIOUS
            <4>2. CASE i = k
                <5>1. g[k + 1] = step[<<k, h[k]>>]
                    OBVIOUS
                <5> QED
                    BY <4>1, <4>2, <5>1
            <4>3. CASE i # k
                <5>1. i \in 0 .. k - 1 /\ g[i + 1] = h[i + 1]
                    BY <4>3
                <5> QED
                    BY <4>1, <5>1, <3>1
            <4> QED
                BY <4>2, <4>3
        <3>6. Part(g, k + 1)
            BY <3>3, <3>4, <3>5
        <3>7. k + 1 \in 0..n
            OBVIOUS
        <3> HIDE DEF g, Part
        <3> QED
            BY <3>6, <3>7
    <2> HIDE DEF T
    <2>3. n \in T
        BY <2>1, <2>2, Climb
    <2> QED
        BY <2>3 DEF T
<1>2. ASSUME NEW n \in Nat, NEW i \in 0..n, NEW h, NEW g, Part(h, n), Part(g, i)
      PROVE  h[i] = g[i]
    <2> DEFINE T == {k \in 0..i : h[k] = g[k]}
    <2>1. 0 \in T
        BY <1>2
    <2>2. ASSUME NEW k \in 0 .. i - 1, k \in T PROVE k + 1 \in T
        <3>1. k \in 0 .. n - 1 /\ k + 1 \in 0..i
            OBVIOUS
        <3>2. h[k] = g[k]
            BY <2>2
        <3> QED
            BY <1>2, <3>1, <3>2
    <2> HIDE DEF T
    <2>3. i \in T
        BY <2>1, <2>2, Climb
    <2> QED
        BY <2>3 DEF T
<1> HIDE DEF Part
<1> DEFINE part(n) == CHOOSE h : Part(h, n)
           g == [n \in Nat |-> part(n)[n]]
<1>3. ASSUME NEW n \in Nat PROVE Part(part(n), n)
    BY <1>1
<1> HIDE DEF part
<1>4. ASSUME NEW n \in Nat PROVE part(n)[n] \in S
    BY <1>3 DEF Part
<1>5. g[0] = z
    BY <1>3 DEF Part
<1>6. ASSUME NEW k \in Nat PROVE g[k + 1] = step[<<k, g[k]>>]
    <2>1. part(k + 1)[k] = part(k)[k]
        BY <1>2, <1>3
    <2>2. part(k + 1)[k + 1] = step[<<k, part(k + 1)[k]>>]
        <3>1. k + 1 \in Nat /\ k \in 0 .. (k + 1) - 1
            OBVIOUS
        <3> QED
            BY <1>3, <3>1 DEF Part
    <2> QED
        BY <2>1, <2>2
<1>7. g \in [Nat -> S]
    BY <1>4
<1> HIDE DEF g
<1>8. Climbs(g, S, step, z)
    BY <1>5, <1>6, <1>7 DEF Climbs
<1> QED
    BY <1>8 DEF Ladder

(* A function that is defined by recursion on 0..N has the values of the   *)
(* ladder, if its steps are steps of the ladder.                           *)
LEMMA LadderUpTo ==
    ASSUME NEW S, NEW z \in S, NEW step \in [Nat \X S -> S], NEW N \in Nat,
           NEW h, h[0] = z, \A k \in 0 .. N - 1 : h[k] \in S => h[k + 1] = step[<<k, h[k]>>]
    PROVE  \A k \in 0..N : h[k] = Ladder(S, step, z)[k]
<1>1. PICK g : g = Ladder(S, step, z) /\ Climbs(g, S, step, z)
    BY LadderIs
<1> DEFINE T == {k \in 0..N : h[k] = g[k]}
<1>2. 0 \in T
    BY <1>1 DEF Climbs
<1>3. ASSUME NEW k \in 0 .. N - 1, k \in T PROVE k + 1 \in T
    <2>1. k + 1 \in 0..N /\ k \in Nat /\ h[k] = g[k]
        BY <1>3
    <2>2. g[k] \in S /\ g[k + 1] = step[<<k, g[k]>>]
        BY <1>1, <2>1 DEF Climbs
    <2> QED
        BY <2>1, <2>2
<1> HIDE DEF T
<1>4. \A k \in 0..N : k \in T
    BY <1>2, <1>3, Climb
<1> QED
    BY <1>1, <1>4 DEF T

-----------------------------------------------------------------------------
(* The exclusive or of bytes.                                              *)

(* The exclusive or of two nibbles, bit by bit.                            *)
LEMMA NibblesAre ==
    ASSUME NEW a \in 0..15, NEW b \in 0..15
    PROVE  XorOfNibbles[a][b] = ((a + b) % 2) + 2 * ((a \div 2 + b \div 2) % 2)
                                    + 4 * ((a \div 4 + b \div 4) % 2)
                                    + 8 * ((a \div 8 + b \div 8) % 2)
<1>1. a \div 1 = a /\ b \div 1 = b
    OBVIOUS
<1> QED
    BY <1>1 DEF XorOfNibbles

(* Nibbles stay nibbles, 0 changes nothing, and with 8 the highest bit flips. *)
LEMMA XorNibbles ==
    ASSUME NEW a \in 0..15
    PROVE  /\ \A b \in 0..15 : XorOfNibbles[a][b] \in 0..15
           /\ XorOfNibbles[a][0] = a
           /\ XorOfNibbles[a][8] = IF a < 8 THEN a + 8 ELSE a - 8
<1>1. ASSUME NEW b \in 0..15 PROVE XorOfNibbles[a][b] \in 0..15
    <2>1. PICK p, q, s, t : /\ p = (a + b) % 2 /\ q = (a \div 2 + b \div 2) % 2
                            /\ s = (a \div 4 + b \div 4) % 2 /\ t = (a \div 8 + b \div 8) % 2
        OBVIOUS
    <2>2. p \in 0..1 /\ q \in 0..1 /\ s \in 0..1 /\ t \in 0..1
        BY <2>1
    <2> QED
        BY <2>1, <2>2, NibblesAre
<1>2. XorOfNibbles[a][0] = a
    BY NibblesAre, 0 \in 0..15
<1>3. XorOfNibbles[a][8] = IF a < 8 THEN a + 8 ELSE a - 8
    BY NibblesAre, 8 \in 0..15
<1> QED
    BY <1>1, <1>2, <1>3

(* The nibbles of a byte.                                                  *)
Nibbles(a, h, l) == h \in 0..15 /\ l \in 0..15 /\ a = 16 * h + l

(* Every byte has two nibbles.                                             *)
LEMMA NibblesOf ==
    ASSUME NEW a \in Byte
    PROVE  \E h, l : Nibbles(a, h, l)
<1>1. PICK h, l : h = a \div 16 /\ l = a % 16
    OBVIOUS
<1>2. h \in 0..15 /\ l \in 0..15 /\ a = 16 * h + l
    BY <1>1 DEF Byte
<1> QED
    BY <1>2 DEF Nibbles

(* The exclusive or of bytes, nibble by nibble.                            *)
LEMMA XorIsOfNibbles ==
    ASSUME NEW a, NEW b, NEW h, NEW l, NEW e, NEW d, Nibbles(a, h, l), Nibbles(b, e, d)
    PROVE  Nibbles(a ++ b, XorOfNibbles[h][e], XorOfNibbles[l][d])
<1>1. /\ h \in 0..15 /\ l \in 0..15 /\ a = 16 * h + l
      /\ e \in 0..15 /\ d \in 0..15 /\ b = 16 * e + d
    BY DEF Nibbles
<1>2. a \div 16 = h /\ a % 16 = l /\ b \div 16 = e /\ b % 16 = d
    BY <1>1
<1>3. XorOfNibbles[h][e] \in 0..15 /\ XorOfNibbles[l][d] \in 0..15
    BY <1>1, XorNibbles
<1>4. a ++ b = 16 * XorOfNibbles[h][e] + XorOfNibbles[l][d]
    BY <1>2, Zenon DEF ++
<1> QED
    BY <1>3, <1>4 DEF Nibbles

(* The exclusive or of bytes is a byte, and 0 changes nothing.             *)
LEMMA XorBytes ==
    ASSUME NEW a \in Byte
    PROVE  /\ \A b \in Byte : a ++ b \in Byte
           /\ a ++ 0 = a
<1>1. PICK h, l : Nibbles(a, h, l)
    BY NibblesOf
<1>2. ASSUME NEW b \in Byte PROVE a ++ b \in Byte
    <2>1. PICK e, d : Nibbles(b, e, d)
        BY NibblesOf
    <2>2. PICK x, y : Nibbles(a ++ b, x, y)
        BY <1>1, <2>1, XorIsOfNibbles
    <2> QED
        BY <2>2 DEF Byte, Nibbles
<1>3. a ++ 0 = a
    <2>1. Nibbles(0, 0, 0)
        BY DEF Nibbles
    <2>2. Nibbles(a ++ 0, XorOfNibbles[h][0], XorOfNibbles[l][0])
        BY <1>1, <2>1, XorIsOfNibbles
    <2>3. XorOfNibbles[h][0] = h /\ XorOfNibbles[l][0] = l
        BY <1>1, XorNibbles DEF Nibbles
    <2> QED
        BY <1>1, <2>2, <2>3 DEF Nibbles
<1> QED
    BY <1>2, <1>3

(* The bytes of a padding, separate or together: the domain byte of SHAKE or *)
(* of SHA3 and the last bit of the block.                                  *)
LEMMA XorPadding ==
    ASSUME NEW a \in Byte, NEW p \in {31, 6}
    PROVE  /\ (a ++ p) ++ 128 = a ++ (p ++ 128)
           /\ p ++ 128 = p + 128 /\ 0 ++ 128 = 128 /\ p ++ 0 = p /\ 0 ++ 0 = 0
           /\ p \in Byte /\ 0 \in Byte /\ 128 \in Byte /\ p + 128 \in Byte
<1>1. PICK h, l : Nibbles(a, h, l)
    BY NibblesOf
<1>2. PICK e \in {0, 1}, d \in {6, 15} : p = 16 * e + d
    <2>1. 31 = 16 * 1 + 15 /\ 6 = 16 * 0 + 6
        OBVIOUS
    <2> QED
        BY <2>1
<1>3. /\ Nibbles(128, 8, 0) /\ Nibbles(p, e, d) /\ Nibbles(0, 0, 0)
      /\ h \in 0..15 /\ l \in 0..15 /\ e \in 0..15 /\ d \in 0..15 /\ e + 8 \in 0..15
      /\ 0 \in 0..15 /\ 8 \in 0..15
    BY <1>1, <1>2 DEF Nibbles
<1>4. \A c \in 0..15 : XorOfNibbles[c][0] = c
    BY XorNibbles
<1>5. Nibbles(p ++ 128, XorOfNibbles[e][8], d)
    <2>1. Nibbles(p ++ 128, XorOfNibbles[e][8], XorOfNibbles[d][0])
        BY <1>3, XorIsOfNibbles
    <2> QED
        BY <1>3, <1>4, <2>1
<1>6. XorOfNibbles[e][8] = e + 8
    <2>1. e < 8
        OBVIOUS
    <2> QED
        BY <1>3, <2>1, XorNibbles
<1>7. Nibbles(p ++ 128, e + 8, d)
    BY <1>5, <1>6
<1>8. Nibbles(a ++ (p ++ 128), XorOfNibbles[h][e + 8], XorOfNibbles[l][d])
    BY <1>1, <1>7, XorIsOfNibbles
<1>9. PICK x, y :
          x = XorOfNibbles[h][e] /\ y = XorOfNibbles[l][d] /\ Nibbles(a ++ p, x, y)
    BY <1>1, <1>3, XorIsOfNibbles
<1>10. Nibbles((a ++ p) ++ 128, XorOfNibbles[x][8], y) /\ x \in 0..15
    <2>1. x \in 0..15 /\ y \in 0..15
        BY <1>9 DEF Nibbles
    <2>2. Nibbles((a ++ p) ++ 128, XorOfNibbles[x][8], XorOfNibbles[y][0])
        BY <1>3, <1>9, XorIsOfNibbles
    <2> QED
        BY <1>4, <2>1, <2>2
<1>11. XorOfNibbles[x][8] = XorOfNibbles[h][e + 8]
    <2>1. CASE e = 0
        <3>1. x = h
            BY <1>3, <1>4, <1>9, <2>1
        <3> QED
            BY <2>1, <3>1
    <2>2. CASE e = 1
        <3>1. x = ((h + 1) % 2) + 2 * ((h \div 2) % 2) + 4 * ((h \div 4) % 2) + 8 * (h \div 8)
            <4>1. /\ 1 \div 2 = 0 /\ 1 \div 4 = 0 /\ 1 \div 8 = 0 /\ 1 \in 0..15
                  /\ (h \div 8) % 2 = h \div 8
                BY <1>3
            <4>2. XorOfNibbles[h][1] = ((h + 1) % 2) + 2 * ((h \div 2 + 1 \div 2) % 2)
                      + 4 * ((h \div 4 + 1 \div 4) % 2) + 8 * ((h \div 8 + 1 \div 8) % 2)
                BY <1>3, <4>1, NibblesAre
            <4> QED
                BY <1>3, <1>9, <2>2, <4>1, <4>2
        <3>2. XorOfNibbles[h][9] = ((h + 1) % 2) + 2 * ((h \div 2) % 2) + 4 * ((h \div 4) % 2)
                                       + 8 * (1 - h \div 8)
            <4>1. /\ 9 \div 2 = 4 /\ 9 \div 4 = 2 /\ 9 \div 8 = 1 /\ 9 \in 0..15
                  /\ (h + 9) % 2 = (h + 1) % 2 /\ (h \div 2 + 4) % 2 = (h \div 2) % 2
                  /\ (h \div 4 + 2) % 2 = (h \div 4) % 2 /\ (h \div 8 + 1) % 2 = 1 - h \div 8
                BY <1>3
            <4>2. XorOfNibbles[h][9] = ((h + 9) % 2) + 2 * ((h \div 2 + 9 \div 2) % 2)
                      + 4 * ((h \div 4 + 9 \div 4) % 2) + 8 * ((h \div 8 + 9 \div 8) % 2)
                BY <1>3, <4>1, NibblesAre
            <4> QED
                BY <4>1, <4>2
        <3>3. PICK u \in 0..7, t \in 0..1 :
                  /\ u = ((h + 1) % 2) + 2 * ((h \div 2) % 2) + 4 * ((h \div 4) % 2)
                  /\ t = h \div 8
            BY <1>3
        <3>4. x = u + 8 * t /\ XorOfNibbles[h][9] = u + 8 * (1 - t)
            BY <3>1, <3>2, <3>3
        <3>5. XorOfNibbles[x][8] = IF x < 8 THEN x + 8 ELSE x - 8
            BY <1>10, XorNibbles
        <3>6. XorOfNibbles[x][8] = u + 8 * (1 - t)
            BY <3>4, <3>5
        <3> QED
            BY <2>2, <3>4, <3>6
    <2> QED
        BY <2>1, <2>2
<1>12. (a ++ p) ++ 128 = a ++ (p ++ 128)
    BY <1>8, <1>9, <1>10, <1>11 DEF Nibbles
<1>13. p ++ 128 = p + 128
    BY <1>2, <1>7 DEF Nibbles
<1>14. p \in Byte /\ 0 \in Byte /\ 128 \in Byte /\ p + 128 \in Byte
    BY DEF Byte
<1>15. 0 ++ 128 = 128
    <2>1. Nibbles(0 ++ 128, XorOfNibbles[0][8], XorOfNibbles[0][0])
        BY <1>3, XorIsOfNibbles
    <2>2. XorOfNibbles[0][8] = 8
        BY <1>3, XorNibbles
    <2> QED
        BY <1>3, <1>4, <2>1, <2>2 DEF Nibbles
<1> QED
    BY <1>12, <1>13, <1>14, <1>15, XorBytes

-----------------------------------------------------------------------------
(* States and blocks.                                                      *)

(* The rates that a state has room for.                                    *)
Rates == 1..StateBytes

(* A state and its blocks have at least a byte.                            *)
LEMMA StateSize == StateBytes \in Nat \ {0} /\ Rates \subseteq Nat \ {0}
<1>1. StateBytes \in Nat \ {0}
    BY LaneAssumption DEF StateBytes
<1> QED
    BY <1>1 DEF Rates

(* p bytes are b blocks.                                                   *)
Times(r, b, p) == p = r * b

(* A length in whole blocks and a rest.                                    *)
LEMMA BlocksOf ==
    ASSUME NEW a \in Nat, NEW r \in Rates
    PROVE  \E b \in Nat, n \in 0 .. r - 1 : \E p \in Nat :
               a \div r = b /\ a % r = n /\ Times(r, b, p) /\ a = p + n
<1>0. r \in Nat \ {0}
    BY StateSize
<1>1. PICK b \in Nat : b = a \div r
    BY <1>0
<1>2. PICK n \in 0 .. r - 1 : n = a % r
    BY <1>0
<1>3. a % r = a - r * (a \div r)
    BY <1>0
<1>4. PICK p \in Nat : p = r * b
    BY <1>0
<1>5. r * (a \div r) = p
    BY <1>1, <1>4
<1>6. n = a - p
    BY <1>2, <1>3, <1>5
<1>7. a = p + n
    BY <1>6
<1> QED
    BY <1>1, <1>2, <1>4, <1>7 DEF Times

(* Some blocks and others.                                                 *)
LEMMA MoreBlocks ==
    ASSUME NEW b \in Nat, NEW k \in Nat, NEW r \in Rates
    PROVE  \E p \in Nat, q \in Nat :
               /\ Times(r, b, p) /\ Times(r, k, q) /\ Times(r, b + k, p + q) /\ Times(r, k + 1, q + r)
               /\ k = 0 => q = 0
               /\ k # 0 => q >= r
<1>0. r \in Nat \ {0}
    BY StateSize
<1>1. PICK p \in Nat, q \in Nat : p = r * b /\ q = r * k
    BY <1>0
<1>2. r * (b + k) = p + q /\ r * (k + 1) = q + r
    BY <1>0, <1>1
<1>3. k # 0 => q >= r
    <2>1. k # 0 => r * k = r * (k - 1) + r /\ r * (k - 1) \in Nat
        BY <1>0
    <2> QED
        BY <1>0, <1>1, <2>1
<1>4. k = 0 => q = 0
    BY <1>0, <1>1
<1> QED
    BY <1>1, <1>2, <1>3, <1>4 DEF Times

(* No blocks have no bytes, and some have at least one block's.            *)
LEMMA SomeBlocks ==
    ASSUME NEW r \in Rates, NEW k \in Nat, NEW q, Times(r, k, q)
    PROVE  q \in Nat /\ (k = 0 => q = 0) /\ (k # 0 => q >= r)
<1>0. r \in Nat \ {0}
    BY StateSize
<1>1. PICK d \in Nat : d = r * k
    BY <1>0
<1>2. q = d
    BY <1>1 DEF Times
<1>3. k # 0 => d >= r
    <2>1. k # 0 => r * k = r * (k - 1) + r /\ r * (k - 1) \in Nat
        BY <1>0
    <2> QED
        BY <1>0, <1>1, <2>1
<1>4. k = 0 => d = 0
    BY <1>0, <1>1
<1> QED
    BY <1>1, <1>2, <1>3, <1>4

(* Fewer blocks have fewer bytes, and what is left decides how many there are. *)
LEMMA FewerBlocks ==
    ASSUME NEW r \in Rates, NEW b \in Nat, NEW k \in Nat, b <= k,
           NEW p, NEW q, Times(r, b, p), Times(r, k, q)
    PROVE  p <= q
<1>1. r * b <= r * k
    BY StateSize
<1> QED
    BY <1>1 DEF Times

(* The whole blocks and the rest of a length, from what they add up to.    *)
LEMMA CountBlocks ==
    ASSUME NEW a \in Nat, NEW r \in Rates, NEW b \in Nat, NEW p \in Nat, NEW n \in 0 .. r - 1,
           Times(r, b, p), a = p + n
    PROVE  a \div r = b /\ a % r = n
<1>0. r \in Nat \ {0}
    BY StateSize
<1>1. PICK k \in Nat, e \in 0 .. r - 1, q \in Nat :
          a \div r = k /\ a % r = e /\ Times(r, k, q) /\ a = q + e
    BY BlocksOf
<1>2. CASE b < k
    <2>1. PICK d \in Nat : Times(r, b + 1, d) /\ d = p + r
        <3>1. r * (b + 1) = r * b + r /\ p + r \in Nat
            BY <1>0
        <3> QED
            BY <3>1 DEF Times
    <2>2. d <= q
        <3>1. b + 1 \in Nat /\ b + 1 <= k
            BY <1>2
        <3> QED
            BY <1>1, <2>1, <3>1, FewerBlocks
    <2> QED
        BY <1>0, <1>1, <2>1, <2>2
<1>3. CASE k < b
    <2>1. PICK d \in Nat : Times(r, k + 1, d) /\ d = q + r
        <3>1. r * (k + 1) = r * k + r /\ q + r \in Nat
            BY <1>0
        <3> QED
            BY <1>1, <3>1 DEF Times
    <2>2. d <= p
        <3>1. k + 1 \in Nat /\ k + 1 <= b
            BY <1>3
        <3> QED
            BY <2>1, <3>1, FewerBlocks
    <2> QED
        BY <1>0, <1>1, <2>1, <2>2
<1>4. CASE k = b
    <2>1. q = p
        BY <1>1, <1>4 DEF Times
    <2> QED
        BY <1>1, <1>4, <2>1
<1> QED
    BY <1>2, <1>3, <1>4

(* A message with zeros behind its end, and its blocks, the first being 0. *)
ByteAt(w, i) == IF i \in 1..Len(w) THEN w[i] ELSE 0

Block(w, r, k) == [i \in 1..r |-> ByteAt(w, r * k + i)]

(* What XorInto does to each byte.                                         *)
Mixed(s, start, x, i) == IF i - start \in 1..Len(x) THEN s[i] ++ x[i - start] ELSE s[i]

(* XorInto gives a state, with the bytes of x mixed in where they belong.  *)
LEMMA XorIntoIs ==
    ASSUME NEW s \in States, NEW start \in Nat, NEW x \in Seq(Byte)
    PROVE  /\ XorInto(s, start, x) \in States
           /\ \A i \in 1..StateBytes : XorInto(s, start, x)[i] = Mixed(s, start, x, i)
<1> DEFINE g == [i \in 1..StateBytes |-> Mixed(s, start, x, i)]
<1>1. StateBytes \in Nat
    BY StateSize
<1>2. \A i \in 1..Len(x) : x[i] \in Byte
    OBVIOUS
<1>3. ASSUME NEW i \in 1..StateBytes PROVE Mixed(s, start, x, i) \in Byte
    <2>1. s[i] \in Byte
        BY DEF States
    <2> QED
        BY <2>1, <1>2, XorBytes DEF Mixed
<1>4. g \in States
    BY <1>3 DEF States
<1>5. g \in Seq(Byte)
    BY <1>1, <1>3
<1>6. DOMAIN s = 1..StateBytes /\ DOMAIN x = 1..Len(x)
    BY DEF States
<1>7. XorInto(s, start, x) = << >> \o g
    BY <1>6 DEF XorInto, Mixed
<1> HIDE DEF g
<1>8. XorInto(s, start, x) = g
    BY <1>5, <1>7, ConcatEmptySeq
<1> QED
    BY <1>4, <1>8 DEF g

(* States are the same if their bytes are.                                 *)
LEMMA SameState ==
    ASSUME NEW s \in States, NEW t \in States, \A i \in 1..StateBytes : s[i] = t[i]
    PROVE  s = t
<1>1. s = [i \in 1..StateBytes |-> s[i]] /\ t = [i \in 1..StateBytes |-> t[i]]
    BY DEF States
<1>2. [i \in 1..StateBytes |-> s[i]] = [i \in 1..StateBytes |-> t[i]]
    OBVIOUS
<1> QED
    BY <1>1, <1>2, Zenon

(* keccak_init clears every byte.                                          *)
LEMMA ZeroIs == Zero \in States /\ \A i \in 1..StateBytes : Zero[i] = 0
<1>1. 0 \in Byte
    BY DEF Byte
<1> QED
    BY <1>1 DEF Zero, States

(* What is read of a message, or behind its end, are bytes.                *)
LEMMA ByteAtIs ==
    ASSUME NEW w \in Seq(Byte), NEW i
    PROVE  ByteAt(w, i) \in Byte
<1>1. 0 \in Byte
    BY DEF Byte
<1> QED
    BY <1>1 DEF ByteAt

(* A block of a message has as many bytes as the rate.                     *)
LEMMA BlockIs ==
    ASSUME NEW w \in Seq(Byte), NEW r \in Rates, NEW k \in Nat
    PROVE  /\ Block(w, r, k) \in Seq(Byte) /\ Len(Block(w, r, k)) = r
           /\ \A i \in 1..r : Block(w, r, k)[i] = ByteAt(w, r * k + i) /\ ByteAt(w, r * k + i) \in Byte
<1>1. ASSUME NEW i \in 1..r PROVE ByteAt(w, r * k + i) \in Byte
    BY ByteAtIs
<1>2. r \in Nat
    BY StateSize
<1> QED
    BY <1>1, <1>2 DEF Block

(* The same, without a product.                                            *)
LEMMA BlockAt ==
    ASSUME NEW w \in Seq(Byte), NEW r \in Rates, NEW k \in Nat, NEW p, Times(r, k, p)
    PROVE  \A i \in 1..r : Block(w, r, k)[i] = ByteAt(w, p + i)
BY BlockIs DEF Times

(* The states before each block of a message, and the permutations of a    *)
(* state again and again.                                                  *)
AbsorbStep(w, r) == [c \in Nat \X States |-> Permute(XorInto(c[2], 0, Block(w, r, c[1])))]

Sponged(w, r) == Ladder(States, AbsorbStep(w, r), Zero)

PermuteStep == [c \in Nat \X States |-> Permute(c[2])]

Permuted(s) == Ladder(States, PermuteStep, s)

(* A block as the permutation receives it.                                 *)
Filled(w, r, k) == XorInto(Sponged(w, r)[k], 0, Block(w, r, k))

(* A step of absorbing takes a state to a state.                           *)
LEMMA AbsorbStepIs ==
    ASSUME BytesOnly, NEW w \in Seq(Byte), NEW r \in Rates
    PROVE  AbsorbStep(w, r) \in [Nat \X States -> States]
<1>1. ASSUME NEW k \in Nat, NEW s \in States PROVE Permute(XorInto(s, 0, Block(w, r, k))) \in States
    BY BlockIs, XorIntoIs DEF BytesOnly
<1> QED
    BY <1>1 DEF AbsorbStep

(* The states after each block: the first is zero, and each next one is    *)
(* the permutation of the one before with a block mixed in.                *)
LEMMA SpongedIs ==
    ASSUME BytesOnly, NEW w \in Seq(Byte), NEW r \in Rates
    PROVE  /\ Sponged(w, r)[0] = Zero
           /\ \A k \in Nat : /\ Sponged(w, r)[k] \in States /\ Filled(w, r, k) \in States
                             /\ Sponged(w, r)[k + 1] = Permute(Filled(w, r, k))
<1>1. Climbs(Sponged(w, r), States, AbsorbStep(w, r), Zero)
    BY AbsorbStepIs, ZeroIs, LadderIs DEF Sponged
<1>2. ASSUME NEW k \in Nat
      PROVE  /\ Sponged(w, r)[k] \in States /\ Filled(w, r, k) \in States
             /\ Sponged(w, r)[k + 1] = Permute(Filled(w, r, k))
    <2>1. Sponged(w, r)[k] \in States
        BY <1>1 DEF Climbs
    <2>2. Filled(w, r, k) \in States
        BY <2>1, BlockIs, XorIntoIs DEF Filled
    <2>3. AbsorbStep(w, r)[<<k, Sponged(w, r)[k]>>] = Permute(Filled(w, r, k))
        BY <2>1 DEF AbsorbStep, Filled
    <2> QED
        BY <1>1, <2>1, <2>2, <2>3 DEF Climbs
<1> QED
    BY <1>1, <1>2 DEF Climbs

(* What the permutation receives, byte by byte.                            *)
LEMMA FilledIs ==
    ASSUME BytesOnly, NEW w \in Seq(Byte), NEW r \in Rates, NEW k \in Nat, NEW p, Times(r, k, p),
           NEW i \in 1..StateBytes
    PROVE  Filled(w, r, k)[i] = IF i \in 1..r THEN Sponged(w, r)[k][i] ++ ByteAt(w, p + i)
                                ELSE Sponged(w, r)[k][i]
<1>1. /\ Block(w, r, k) \in Seq(Byte) /\ Len(Block(w, r, k)) = r
      /\ \A t \in 1..r : Block(w, r, k)[t] = ByteAt(w, p + t)
    BY BlockIs, BlockAt
<1>2. PICK S \in States : S = Sponged(w, r)[k]
    BY SpongedIs
<1>3. Filled(w, r, k)[i] = Mixed(S, 0, Block(w, r, k), i)
    BY <1>1, <1>2, XorIntoIs DEF Filled
<1>4. i - 0 = i
    OBVIOUS
<1> QED
    BY <1>1, <1>2, <1>3, <1>4, Zenon DEF Mixed

(* The states of the squeezing phase, each the permutation of the one      *)
(* before.                                                                 *)
LEMMA PermutedIs ==
    ASSUME BytesOnly, NEW s \in States
    PROVE  /\ Permuted(s)[0] = s
           /\ \A k \in Nat : Permuted(s)[k] \in States /\ Permuted(s)[k + 1] = Permute(Permuted(s)[k])
<1>1. PermuteStep \in [Nat \X States -> States]
    BY DEF PermuteStep, BytesOnly
<1>2. Climbs(Permuted(s), States, PermuteStep, s)
    BY <1>1, LadderIs DEF Permuted
<1>3. ASSUME NEW k \in Nat
      PROVE  Permuted(s)[k] \in States /\ Permuted(s)[k + 1] = Permute(Permuted(s)[k])
    <2>1. Permuted(s)[k] \in States
        BY <1>2 DEF Climbs
    <2>2. PermuteStep[<<k, Permuted(s)[k]>>] = Permute(Permuted(s)[k])
        BY <2>1 DEF PermuteStep
    <2> QED
        BY <1>2, <2>1, <2>2 DEF Climbs
<1> QED
    BY <1>2, <1>3 DEF Climbs

(* Messages that begin alike fill the same states.                         *)
LEMMA SpongedAlike ==
    ASSUME BytesOnly, NEW w \in Seq(Byte), NEW u \in Seq(Byte), NEW r \in Rates, NEW N \in Nat,
           NEW p, Times(r, N, p), \A i \in 1..p : ByteAt(w, i) = ByteAt(u, i)
    PROVE  \A k \in 0..N : Sponged(w, r)[k] = Sponged(u, r)[k]
<1>1. Sponged(w, r)[0] = Sponged(u, r)[0]
    BY SpongedIs
<1>2. ASSUME NEW k \in 0 .. N - 1, Sponged(w, r)[k] = Sponged(u, r)[k]
      PROVE  Sponged(w, r)[k + 1] = Sponged(u, r)[k + 1]
    <2>1. k \in Nat /\ r \in Nat
        BY StateSize
    <2>2. ASSUME NEW i \in 1..r PROVE r * k + i \in 1..p
        <3>1. r * (k + 1) <= r * N
            BY <2>1
        <3>2. r * (k + 1) = r * k + r /\ r * k \in Nat
            BY <2>1
        <3> QED
            BY <2>1, <3>1, <3>2 DEF Times
    <2>3. Block(w, r, k) = Block(u, r, k)
        BY <2>2 DEF Block
    <2>4. Filled(w, r, k) = Filled(u, r, k)
        BY <1>2, <2>3 DEF Filled
    <2> QED
        BY <2>1, <2>4, SpongedIs
<1> QED
    BY <1>1, <1>2, Alike

(* Permutations go on where others have stopped.                           *)
LEMMA PermutedOn ==
    ASSUME BytesOnly, NEW s \in States, NEW a \in Nat, NEW N \in Nat
    PROVE  \A k \in 0..N : Permuted(Permuted(s)[a])[k] = Permuted(s)[a + k]
<1>1. PICK t \in States : t = Permuted(s)[a]
    BY PermutedIs
<1> DEFINE T == {k \in 0..N : Permuted(t)[k] = Permuted(s)[a + k]}
<1>2. 0 \in T
    BY <1>1, PermutedIs
<1>3. ASSUME NEW k \in 0 .. N - 1, k \in T PROVE k + 1 \in T
    <2>1. k \in Nat /\ a + k \in Nat /\ k + 1 \in 0..N /\ a + (k + 1) = (a + k) + 1
        OBVIOUS
    <2> QED
        BY <1>3, <2>1, PermutedIs
<1> HIDE DEF T
<1>4. \A k \in 0..N : k \in T
    BY <1>2, <1>3, Climb
<1> QED
    BY <1>1, <1>4 DEF T

-----------------------------------------------------------------------------
(* Absorbing.                                                              *)

(* The context when w has been absorbed: the block begun is in the state.  *)
InSponge(c, r, w) == c = [s |-> Filled(w, r, Len(w) \div r), n |-> Len(w) % r]

(* Two messages, one behind the other.                                     *)
Follows(u, w, x) == u = w \o x

(* The bytes of two messages, one behind the other.                        *)
LEMMA ByteOfBoth ==
    ASSUME NEW w \in Seq(Byte), NEW x \in Seq(Byte), NEW u, Follows(u, w, x)
    PROVE  /\ u \in Seq(Byte) /\ Len(u) = Len(w) + Len(x)
           /\ \A i \in 1..Len(w) : ByteAt(u, i) = ByteAt(w, i)
           /\ \A i \in Nat : i > Len(w) /\ i <= Len(u) => ByteAt(u, i) = x[i - Len(w)]
<1>1. /\ w \o x \in Seq(Byte) /\ Len(w \o x) = Len(w) + Len(x)
      /\ \A i \in 1 .. Len(w) + Len(x) :
            (w \o x)[i] = IF i <= Len(w) THEN w[i] ELSE x[i - Len(w)]
    BY ConcatProperties
<1>2. /\ u \in Seq(Byte) /\ Len(u) = Len(w) + Len(x)
      /\ \A i \in 1 .. Len(w) + Len(x) : u[i] = IF i <= Len(w) THEN w[i] ELSE x[i - Len(w)]
    BY <1>1 DEF Follows
<1>3. ASSUME NEW i \in 1..Len(w) PROVE ByteAt(u, i) = ByteAt(w, i)
    <2>1. i \in 1 .. Len(w) + Len(x) /\ i <= Len(w)
        OBVIOUS
    <2> QED
        BY <1>2, <2>1 DEF ByteAt
<1>4. ASSUME NEW i \in Nat, i > Len(w), i <= Len(u) PROVE ByteAt(u, i) = x[i - Len(w)]
    <2>1. i \in 1 .. Len(w) + Len(x) /\ i \in 1..Len(u) /\ ~(i <= Len(w))
        BY <1>2, <1>4
    <2> QED
        BY <1>2, <2>1 DEF ByteAt
<1> QED
    BY <1>2, <1>3, <1>4

(* The state before the first block of a call, and before the others.      *)
Before(s, k, first, next) == s = IF k = 0 THEN first ELSE next

(* How much of a message is in the block begun, where                      *)
(* the bytes for a block go and where they are read from.                  *)
Begun(w, p, n) == Len(w) = p + n

ReadsOn(k, q, n, start, gone) ==
    /\ k = 0 => start = n /\ gone = 0
    /\ k # 0 => start = 0 /\ gone = q - n

Cut(y, x, gone, end) == y = SubSeq(x, gone + 1, end)

(* w is in the sponge, b blocks and n bytes of it; a call reads x for u = w \o x, *)
(* and comes with k blocks to block c, in the state s, with the bytes y for it. *)
Joins(w, x, u, r, b, k, c, p, q, d, n, start, gone, end, s, y) ==
    /\ Follows(u, w, x) /\ Begun(w, p, n) /\ ReadsOn(k, q, n, start, gone)
    /\ Times(r, b, p) /\ Times(r, k, q) /\ Times(r, c, d)
    /\ Before(s, k, Filled(w, r, b), Sponged(u, r)[c]) /\ Cut(y, x, gone, end)

(* The bytes a call reads for one block complete it, as far as they go.    *)
LEMMA Completed ==
    ASSUME BytesOnly, NEW w \in Seq(Byte), NEW x \in Seq(Byte), NEW u,
           NEW r \in Rates, NEW b \in Nat, NEW k \in Nat, NEW c \in Nat, c = b + k,
           NEW p \in Nat, NEW q \in Nat, NEW d \in Nat, d = p + q, NEW n \in 0 .. r - 1,
           k = 0 => q = 0, k # 0 => q >= r,
           NEW start \in Nat, NEW gone \in Nat, NEW end \in Nat,
           gone <= end, end <= Len(x), end <= q + r - n, end = q + r - n \/ end = Len(x),
           NEW s, NEW y, Joins(w, x, u, r, b, k, c, p, q, d, n, start, gone, end, s, y)
    PROVE  XorInto(s, start, y) = Filled(u, r, c)
<1>0. /\ Len(w) = p + n
      /\ k = 0 => start = n /\ gone = 0
      /\ k # 0 => start = 0 /\ gone = q - n
      /\ Follows(u, w, x) /\ Times(r, b, p) /\ Times(r, c, d)
      /\ Before(s, k, Filled(w, r, b), Sponged(u, r)[c]) /\ Cut(y, x, gone, end)
    BY DEF ReadsOn, Begun, Joins
<1> USE <1>0
<1>1. PICK l \in Nat, j \in Nat : l = Len(w) /\ j = Len(x) /\ l = p + n /\ r \in Nat \ {0}
    <2>1. Len(w) \in Nat /\ Len(x) \in Nat
        OBVIOUS
    <2>2. r \in Nat \ {0}
        BY StateSize
    <2> QED
        BY <2>1, <2>2
<1>2. u \in Seq(Byte) /\ Len(u) = l + j
    BY <1>1, ByteOfBoth
<1>3. /\ \A i \in 1..l : ByteAt(u, i) = ByteAt(w, i)
      /\ \A i \in 1..j : ByteAt(u, l + i) = x[i]
      /\ \A i \in Nat : i > l + j => ByteAt(u, i) = 0
      /\ \A i \in Nat : i > l => ByteAt(w, i) = 0
    <2>1. /\ \A i \in 1..Len(w) : ByteAt(u, i) = ByteAt(w, i)
          /\ \A i \in Nat : i > Len(w) /\ i <= Len(u) => ByteAt(u, i) = x[i - Len(w)]
        BY ByteOfBoth
    <2>2. \A i \in Nat : (i > l + j => i \notin 1 .. l + j) /\ (i > l => i \notin 1..l)
        OBVIOUS
    <2>3. /\ \A i \in Nat : i > l + j => ByteAt(u, i) = 0
          /\ \A i \in Nat : i > l => ByteAt(w, i) = 0
        BY <1>1, <1>2, <2>2 DEF ByteAt
    <2>4. ASSUME NEW i \in 1..j PROVE ByteAt(u, l + i) = x[i]
        <3>1. l + i \in Nat /\ l + i > Len(w) /\ l + i <= Len(u) /\ (l + i) - Len(w) = i
            BY <1>1, <1>2
        <3> QED
            BY <2>1, <3>1
    <2> QED
        BY <1>1, <2>1, <2>3, <2>4
<1>4. PICK S \in States : S = Sponged(u, r)[c] /\ (k = 0 => S = Sponged(w, r)[b])
    <2>1. \A i \in 1..p : ByteAt(w, i) = ByteAt(u, i)
        BY <1>1, <1>3
    <2>2. Sponged(w, r)[b] = Sponged(u, r)[b]
        <3>1. b \in 0..b
            OBVIOUS
        <3> QED
            BY <1>2, <2>1, <3>1, SpongedAlike, SMTT(60)
    <2>3. Sponged(u, r)[c] \in States
        BY <1>2, SpongedIs
    <2>4. k = 0 => c = b
        OBVIOUS
    <2> QED
        BY <2>2, <2>3, <2>4
<1>5. /\ y \in Seq(Byte) /\ Len(y) = end - gone
      /\ \A i \in 1 .. end - gone : y[i] = x[gone + i]
    <2>1. \A i \in gone + 1 .. end : x[i] \in Byte
        BY <1>1
    <2>2. /\ SubSeq(x, gone + 1, end) \in Seq(Byte)
          /\ Len(SubSeq(x, gone + 1, end)) =
                IF gone + 1 <= end THEN end - (gone + 1) + 1 ELSE 0
          /\ \A i \in 1 .. end - (gone + 1) + 1 :
                SubSeq(x, gone + 1, end)[i] = x[gone + 1 + i - 1]
        BY <2>1, SubSeqProperties
    <2>3. /\ end - (gone + 1) + 1 = end - gone
          /\ (IF gone + 1 <= end THEN end - (gone + 1) + 1 ELSE 0) = end - gone
        OBVIOUS
    <2>4. ASSUME NEW i \in 1 .. end - gone PROVE SubSeq(x, gone + 1, end)[i] = x[gone + i]
        <3>1. gone + 1 + i - 1 = gone + i
            OBVIOUS
        <3> QED
            BY <2>2, <2>3, <3>1
    <2> QED
        BY <2>2, <2>3, <2>4 DEF Cut
<1>6. /\ s \in States
      /\ k # 0 => s = S
      /\ k = 0 => \A i \in 1..StateBytes :
                s[i] = IF i \in 1..r THEN S[i] ++ ByteAt(w, p + i) ELSE S[i]
    <2>1. CASE k # 0
        BY <1>4, <2>1 DEF Before
    <2>2. CASE k = 0
        <3>0. s = Filled(w, r, b)
            BY <2>2 DEF Before
        <3>1. Filled(w, r, b) \in States
            BY SpongedIs
        <3>2. \A i \in 1..StateBytes :
                  Filled(w, r, b)[i] = IF i \in 1..r THEN S[i] ++ ByteAt(w, p + i) ELSE S[i]
            BY <1>4, <2>2, FilledIs
        <3> QED
            BY <2>2, <3>0, <3>1, <3>2
    <2> QED
        BY <2>1, <2>2
<1>7. PICK t \in States :
          t = Filled(u, r, c) /\
          \A i \in 1..StateBytes :
              t[i] = IF i \in 1..r THEN S[i] ++ ByteAt(u, d + i) ELSE S[i]
    <2>2. Filled(u, r, c) \in States
        BY <1>2, SpongedIs
    <2>3. \A i \in 1..StateBytes :
              Filled(u, r, c)[i] = IF i \in 1..r THEN S[i] ++ ByteAt(u, d + i) ELSE S[i]
        <3>1. \A i \in 1..StateBytes :
                  Filled(u, r, c)[i] = IF i \in 1..r THEN Sponged(u, r)[c][i] ++ ByteAt(u, d + i)
                                       ELSE Sponged(u, r)[c][i]
            BY <1>2, FilledIs, SMTT(60)
        <3> QED
            BY <1>4, <3>1, Zenon
    <2> QED
        BY <2>2, <2>3
<1>9. ASSUME NEW i \in 1..StateBytes PROVE Mixed(s, start, y, i) = t[i]
    <2>1. S[i] \in Byte /\ S[i] ++ 0 = S[i]
        BY XorBytes DEF States
    <2>2. CASE i - start \in 1..Len(y)
        <3>1. PICK a \in 1 .. end - gone : a = i - start /\ y[a] = x[gone + a]
            BY <1>5, <2>2
        <3>2. gone + a \in 1..j /\ l + (gone + a) = d + i /\ i \in 1..r
            <4>1. CASE k = 0
                <5>1. start = n /\ gone = 0 /\ q = 0
                    BY <4>1
                <5> QED
                    BY <1>1, <3>1, <5>1
            <4>2. CASE k # 0
                <5>1. start = 0 /\ gone = q - n /\ q >= r
                    BY <4>2
                <5> QED
                    BY <1>1, <3>1, <5>1
            <4> QED
                BY <4>1, <4>2
        <3>3. ByteAt(u, d + i) = x[gone + a]
            BY <1>3, <3>2
        <3>4. s[i] = S[i]
            <4>1. CASE k # 0
                BY <1>6, <4>1
            <4>2. CASE k = 0
                <5>1. p + i > l /\ p + i \in Nat
                    BY <1>1, <3>1, <4>2
                <5>2. ByteAt(w, p + i) = 0
                    BY <1>3, <5>1
                <5> QED
                    BY <1>6, <2>1, <3>2, <4>2, <5>2
            <4> QED
                BY <4>1, <4>2
        <3>5. Mixed(s, start, y, i) = s[i] ++ x[gone + a]
            BY <2>2, <3>1 DEF Mixed
        <3>6. t[i] = S[i] ++ x[gone + a]
            BY <1>7, <3>2, <3>3
        <3> QED
            BY <3>4, <3>5, <3>6
    <2>3. CASE i - start \notin 1..Len(y)
        <3>1. Mixed(s, start, y, i) = s[i]
            BY <2>3 DEF Mixed
        <3>2. CASE i \notin 1..r
            BY <1>6, <1>7, <3>1, <3>2
        <3>3. CASE i \in 1..r /\ ~(k = 0 /\ i <= n)
            <4>1. i > start + (end - gone)
                <5>1. i - start > end - gone \/ i - start <= 0
                    BY <1>5, <2>3
                <5>2. i > start
                    BY <3>3
                <5> QED
                    BY <5>1, <5>2
            <4>2. end = j /\ d + i > l + j /\ d + i \in Nat
                BY <1>1, <3>3, <4>1
            <4>3. ByteAt(u, d + i) = 0
                BY <1>3, <4>2
            <4>4. s[i] = S[i]
                <5>1. CASE k # 0
                    BY <1>6, <5>1
                <5>2. CASE k = 0
                    <6>1. p + i > l /\ p + i \in Nat
                        BY <1>1, <3>3, <5>2
                    <6>2. ByteAt(w, p + i) = 0
                        BY <1>3, <6>1
                    <6> QED
                        BY <1>6, <2>1, <3>3, <5>2, <6>2
                <5> QED
                    BY <5>1, <5>2
            <4> QED
                BY <1>7, <2>1, <3>1, <3>3, <4>3, <4>4
        <3>4. CASE i \in 1..r /\ k = 0 /\ i <= n
            <4>1. p + i \in 1..l /\ d + i = p + i
                BY <1>1, <3>4
            <4>2. ByteAt(u, p + i) = ByteAt(w, p + i)
                BY <1>3, <4>1
            <4> QED
                BY <1>6, <1>7, <3>1, <3>4, <4>1, <4>2
        <3> QED
            BY <3>2, <3>3, <3>4
    <2> QED
        BY <2>2, <2>3
<1>10. /\ XorInto(s, start, y) \in States
       /\ \A i \in 1..StateBytes : XorInto(s, start, y)[i] = t[i]
    <2>1. XorInto(s, start, y) \in States
        BY <1>5, <1>6, XorIntoIs
    <2>2. \A i \in 1..StateBytes : XorInto(s, start, y)[i] = Mixed(s, start, y, i)
        BY <1>5, <1>6, XorIntoIs
    <2> QED
        BY <1>9, <2>1, <2>2
<1>11. XorInto(s, start, y) = t
    BY <1>10, SameState
<1> QED
    BY <1>2, <1>5, <1>6, <1>7, <1>11

(* keccak_inc_absorb goes on with the message from wherever it is.         *)
LEMMA AbsorbIs ==
    ASSUME BytesOnly, NEW w \in Seq(Byte), NEW x \in Seq(Byte), NEW r \in Rates,
           NEW c, InSponge(c, r, w)
    PROVE  InSponge(keccak_inc_absorb(c, r, x), r, w \o x)
<1>1. PICK u : Follows(u, w, x)
    BY DEF Follows
<1>2. PICK j \in Nat : j = Len(x)
    OBVIOUS
<1>3. PICK b \in Nat, n \in 0 .. r - 1, p \in Nat :
          Len(w) \div r = b /\ Len(w) % r = n /\ Times(r, b, p) /\ Len(w) = p + n
    BY BlocksOf
<1>4. r \in Nat \ {0} /\ n \in Nat /\ n + j \in Nat
    BY StateSize
<1>5. PICK K \in Nat, e \in 0 .. r - 1, g \in Nat :
          (n + j) \div r = K /\ (n + j) % r = e /\ Times(r, K, g) /\ n + j = g + e
    BY <1>4, BlocksOf
<1>6. u \in Seq(Byte) /\ Len(u) = p + n + j
    <2>1. u \in Seq(Byte) /\ Len(u) = Len(w) + Len(x)
        BY <1>1, ByteOfBoth
    <2> QED
        BY <1>2, <1>3, <2>1
<1>7. Len(u) \div r = b + K /\ Len(u) % r = e
    <2>1. PICK d \in Nat : d = p + g /\ Times(r, b + K, d)
        <3>1. r * (b + K) = r * b + r * K
            BY <1>4
        <3>2. p + g \in Nat
            OBVIOUS
        <3> QED
            BY <1>3, <1>5, <3>1, <3>2 DEF Times
    <2>2. Len(u) = d + e /\ Len(u) \in Nat /\ b + K \in Nat
        BY <1>3, <1>4, <1>5, <1>6, <2>1
    <2> QED
        BY <2>1, <2>2, CountBlocks
<1> DEFINE start(k) == IF k = 0 THEN n ELSE 0
           gone(k) == IF k = 0 THEN 0 ELSE r * k - n
           state(k) == IF k = 0 THEN Filled(w, r, b) ELSE Sponged(u, r)[b + k]
           read(k, end) == XorInto(state(k), start(k), SubSeq(x, gone(k) + 1, end))
           Rec(h) == h = [k \in 0..K |->
                              IF k = 0 THEN Filled(w, r, b)
                              ELSE Permute(XorInto(h[k - 1], start(k - 1),
                                                   SubSeq(x, gone(k - 1) + 1, gone(k))))]
<1>8. ASSUME NEW k \in 0..K
      PROVE  /\ k < K => read(k, gone(k + 1)) = Filled(u, r, b + k)
             /\ k = K => read(k, Len(x)) = Filled(u, r, b + k)
             /\ k = K => start(k) + Len(x) - gone(k) = e
    <2>1. k \in Nat /\ b + k \in Nat /\ k + 1 \in Nat /\ k + 1 # 0
        OBVIOUS
    <2>2. PICK P \in Nat, q \in Nat :
              /\ Times(r, b, P) /\ Times(r, k, q) /\ Times(r, b + k, P + q) /\ Times(r, k + 1, q + r)
              /\ (k = 0 => q = 0) /\ (k # 0 => q >= r)
        BY <2>1, MoreBlocks
    <2>3. P = p
        BY <1>3, <2>2 DEF Times
    <2>4. PICK d \in Nat, a \in Nat : d = b + k /\ a = p + q /\ Times(r, d, a)
        BY <2>1, <2>2, <2>3
    <2>5. start(k) \in Nat /\ (k = 0 => start(k) = n) /\ (k # 0 => start(k) = 0)
        BY <1>4
    <2>6. /\ gone(k) \in Nat /\ (k = 0 => gone(k) = 0) /\ (k # 0 => gone(k) = q - n)
          /\ gone(k + 1) = q + r - n
        <3>1. k # 0 => gone(k) = q - n
            BY <2>2 DEF Times
        <3>2. gone(k + 1) = q + r - n
            <4>1. r * (k + 1) = q + r
                BY <2>2 DEF Times
            <4>2. gone(k + 1) = r * (k + 1) - n
                BY <2>1
            <4> QED
                BY <1>4, <4>1, <4>2
        <3> HIDE DEF gone
        <3>3. k = 0 => gone(k) = 0
            BY DEF gone
        <3> QED
            BY <1>4, <2>2, <3>1, <3>2, <3>3
    <2> HIDE DEF start, gone
    <2>7. ASSUME NEW end \in Nat, gone(k) <= end, end <= j, end <= q + r - n,
                 end = q + r - n \/ end = j
          PROVE  read(k, end) = Filled(u, r, b + k)
        <3>1. state(k) = IF k = 0 THEN Filled(w, r, b) ELSE Sponged(u, r)[d]
            BY <2>4
        <3> HIDE DEF state
        <3>2. XorInto(IF k = 0 THEN Filled(w, r, b) ELSE Sponged(u, r)[d], start(k),
                      SubSeq(x, gone(k) + 1, end)) = Filled(u, r, d)
            <4>1. PICK first \in Nat, since \in Nat : first = start(k) /\ since = gone(k)
                BY <2>5, <2>6
            <4>2. ReadsOn(k, q, n, first, since) /\ Begun(w, p, n)
                BY <1>3, <2>5, <2>6, <4>1 DEF ReadsOn, Begun
            <4>3. PICK s, y : /\ Before(s, k, Filled(w, r, b), Sponged(u, r)[d])
                              /\ Cut(y, x, since, end)
                BY DEF Before, Cut
            <4>4. XorInto(s, first, y) = Filled(u, r, d)
                <5>1. Times(r, b, p) /\ Times(r, d, a) /\ d = b + k /\ a = p + q /\ a \in Nat
                    BY <1>3, <2>4
                <5>2. end <= Len(x) /\ (end = q + r - n \/ end = Len(x)) /\ since <= end
                    BY <1>2, <2>7, <4>1
                <5>3. /\ Follows(u, w, x) /\ k \in Nat /\ d \in Nat /\ q \in Nat /\ Times(r, k, q)
                      /\ (k = 0 => q = 0) /\ (k # 0 => q >= r) /\ end <= q + r - n
                    BY <1>1, <2>1, <2>2, <2>7
                <5>4. Joins(w, x, u, r, b, k, d, p, q, a, n, first, since, end, s, y)
                    BY <4>2, <4>3, <5>1, <5>3 DEF Joins
                <5> QED
                    BY <5>1, <5>2, <5>3, <5>4, Completed
            <4> QED
                BY <4>1, <4>3, <4>4 DEF Before, Cut
        <3> QED
            BY <2>4, <3>1, <3>2
    <2> HIDE DEF read
    <2>8. CASE k < K
        <3>1. q + r <= g
            BY <1>5, <2>1, <2>2, <2>8, FewerBlocks
        <3>2. gone(k + 1) \in Nat /\ gone(k) <= gone(k + 1) /\ gone(k + 1) <= j
            BY <1>4, <1>5, <2>2, <2>6, <3>1
        <3>3. read(k, gone(k + 1)) = Filled(u, r, b + k)
            BY <2>6, <2>7, <3>2
        <3> QED
            BY <2>8, <3>3
    <2>9. CASE k = K
        <3>1. q = g
            BY <1>5, <2>2, <2>9 DEF Times
        <3>2. gone(k) <= j /\ j <= q + r - n /\ start(k) + j - gone(k) = e
            <4>1. CASE k = 0
                <5>1. gone(k) = 0 /\ start(k) = n /\ g = 0
                    BY <2>2, <2>5, <2>6, <3>1, <4>1
                <5>2. 0 <= j /\ j <= q + r - n /\ n + j - 0 = e
                    BY <1>4, <1>5, <2>2, <3>1, <4>1
                <5> QED
                    BY <5>1, <5>2
            <4>2. CASE k # 0
                <5>1. gone(k) = q - n /\ start(k) = 0
                    BY <2>5, <2>6, <4>2
                <5>2. q - n <= j /\ j <= q + r - n /\ 0 + j - (q - n) = e
                    BY <1>4, <1>5, <2>2, <3>1, <4>2
                <5> QED
                    BY <5>1, <5>2
            <4> QED
                BY <4>1, <4>2
        <3>3. read(k, j) = Filled(u, r, b + k)
            BY <2>7, <3>2
        <3> QED
            BY <1>2, <2>9, <3>2, <3>3
    <2> QED
        BY <2>8, <2>9
<1>9. c.n = n /\ c.s = Filled(w, r, b)
    BY <1>3 DEF InSponge
<1>10. PICK h : /\ Rec(h)
                /\ keccak_inc_absorb(c, r, x) =
                      [s |-> XorInto(h[K], start(K), SubSeq(x, gone(K) + 1, Len(x))),
                       n |-> start(K) + Len(x) - gone(K)]
    <2> DEFINE h == [k \in 0..K |-> state(k)]
    <2>1. Rec(h)
        <3> SUFFICES ASSUME NEW k \in 0..K, k # 0
                     PROVE  h[k] = Permute(XorInto(h[k - 1], start(k - 1),
                                                   SubSeq(x, gone(k - 1) + 1, gone(k))))
            OBVIOUS
        <3>1. k - 1 \in 0..K /\ k - 1 < K /\ (k - 1) + 1 = k /\ b + (k - 1) \in Nat
              /\ (b + (k - 1)) + 1 = b + k
            OBVIOUS
        <3>2. h[k - 1] = state(k - 1) /\ h[k] = Sponged(u, r)[b + k]
            BY <3>1
        <3> HIDE DEF h, state, start, gone
        <3>3. read(k - 1, gone(k)) = Filled(u, r, b + (k - 1))
            BY <1>8, <3>1
        <3>4. Sponged(u, r)[b + k] = Permute(Filled(u, r, b + (k - 1)))
            BY <1>6, <3>1, SpongedIs
        <3> QED
            BY <3>2, <3>3, <3>4
    <2>2. \E g0 : Rec(g0)
        BY <2>1
    <2>3. (c.n + Len(x)) \div r = K
        BY <1>2, <1>5, <1>9
    <2> HIDE DEF h
    <2> QED
        BY <1>9, <2>2, <2>3 DEF keccak_inc_absorb, absorb_blocks
<1>11. h[K] = state(K)
    <2> DEFINE T == {k \in 0..K : h[k] = state(k)}
    <2>1. 0 \in T
        BY <1>10
    <2>2. ASSUME NEW k \in 0 .. K - 1, k \in T PROVE k + 1 \in T
        <3>1. k \in 0..K /\ k < K /\ k + 1 \in 0..K /\ k + 1 # 0 /\ (k + 1) - 1 = k /\ b + k \in Nat
              /\ b + (k + 1) = (b + k) + 1
            OBVIOUS
        <3>2. h[k + 1] = Permute(XorInto(h[k], start(k), SubSeq(x, gone(k) + 1, gone(k + 1))))
            <4> HIDE DEF start, gone, state
            <4> QED
                BY <1>10, <3>1
        <3>3. h[k] = state(k)
            BY <2>2, <3>1
        <3>4. state(k + 1) = Sponged(u, r)[b + (k + 1)]
            BY <3>1
        <3> HIDE DEF start, gone, state
        <3>5. read(k, gone(k + 1)) = Filled(u, r, b + k)
            BY <1>8, <3>1
        <3>6. Sponged(u, r)[b + (k + 1)] = Permute(Filled(u, r, b + k))
            BY <1>6, <3>1, SpongedIs
        <3> QED
            BY <3>1, <3>2, <3>3, <3>4, <3>5, <3>6
    <2> HIDE DEF T
    <2>3. \A k \in 0..K : k \in T
        BY <2>1, <2>2, Climb
    <2> QED
        BY <2>3 DEF T
<1> HIDE DEF state, start, gone, Rec
<1>12. read(K, Len(x)) = Filled(u, r, b + K) /\ start(K) + Len(x) - gone(K) = e
    BY <1>8
<1>13. keccak_inc_absorb(c, r, x) = [s |-> Filled(u, r, b + K), n |-> e]
    BY <1>10, <1>11, <1>12
<1> QED
    BY <1>1, <1>7, <1>13 DEF InSponge, Follows
(* The bytes of whole blocks are those of the blocks.                      *)
LEMMA WholeBlock ==
    ASSUME NEW w \in Seq(Byte), NEW r \in Rates, NEW k \in Nat, NEW p \in Nat, Times(r, k, p),
           p + r <= Len(w)
    PROVE  SubSeq(w, p + 1, p + r) = Block(w, r, k)
<1>0. r \in Nat /\ Len(w) \in Nat
    BY StateSize
<1>1. /\ Block(w, r, k) \in Seq(Byte) /\ Len(Block(w, r, k)) = r
      /\ \A i \in 1..r : Block(w, r, k)[i] = ByteAt(w, p + i)
    BY BlockIs, BlockAt
<1>2. PICK y \in Seq(Byte) :
          /\ y = SubSeq(w, p + 1, p + r) /\ Len(y) = r
          /\ \A i \in 1..r : y[i] = w[p + i]
    <2>1. \A i \in p + 1 .. p + r : w[i] \in Byte
        BY <1>0
    <2>2. /\ SubSeq(w, p + 1, p + r) \in Seq(Byte)
          /\ Len(SubSeq(w, p + 1, p + r)) =
                IF p + 1 <= p + r THEN (p + r) - (p + 1) + 1 ELSE 0
          /\ \A i \in 1 .. (p + r) - (p + 1) + 1 :
                SubSeq(w, p + 1, p + r)[i] = w[(p + 1) + i - 1]
        BY <1>0, <2>1, SubSeqProperties
    <2>3. /\ (p + r) - (p + 1) + 1 = r
          /\ (IF p + 1 <= p + r THEN (p + r) - (p + 1) + 1 ELSE 0) = r
        BY <1>0
    <2>4. ASSUME NEW i \in 1..r PROVE SubSeq(w, p + 1, p + r)[i] = w[p + i]
        <3>1. (p + 1) + i - 1 = p + i
            BY <1>0
        <3> QED
            BY <2>2, <2>3, <3>1
    <2> QED
        BY <2>2, <2>3, <2>4
<1>3. ASSUME NEW i \in 1..r PROVE y[i] = Block(w, r, k)[i]
    <2>1. p + i \in 1..Len(w)
        BY <1>0
    <2> QED
        BY <1>1, <1>2, <2>1 DEF ByteAt
<1>4. PICK z \in Seq(Byte) : z = Block(w, r, k) /\ Len(z) = r /\ \A i \in 1..r : y[i] = z[i]
    BY <1>1, <1>3
<1>5. y = z
    BY <1>0, <1>2, <1>4, SeqEqual
<1> QED
    BY <1>2, <1>4, <1>5

(* The recursive definitions of keccak_absorb and of Stream.               *)
Absorbed(w, r, N) ==
    LET absorbed[k \in 0..N] ==
            IF k = 0 THEN Zero
            ELSE Permute(XorInto(absorbed[k - 1], 0, SubSeq(w, r * (k - 1) + 1, r * k)))
    IN  absorbed[N]

(* They compute the states of the absorbing phase.                         *)
LEMMA AbsorbedIs ==
    ASSUME BytesOnly, NEW w \in Seq(Byte), NEW r \in Rates, NEW N \in Nat,
           NEW P \in Nat, Times(r, N, P), P <= Len(w)
    PROVE  Absorbed(w, r, N) = Sponged(w, r)[N]
<1> DEFINE Rec(h) ==
        h = [k \in 0..N |-> IF k = 0 THEN Zero
                            ELSE Permute(XorInto(h[k - 1], 0, SubSeq(w, r * (k - 1) + 1, r * k)))]
<1>1. ASSUME NEW k \in 1..N
      PROVE  Sponged(w, r)[k] =
                 Permute(XorInto(Sponged(w, r)[k - 1], 0, SubSeq(w, r * (k - 1) + 1, r * k)))
    <2>1. PICK b \in Nat : b = k - 1 /\ b + 1 = k
        OBVIOUS
    <2>2. PICK p \in Nat, q \in Nat : /\ Times(r, b, q) /\ Times(r, b + 1, q + r)
        BY MoreBlocks
    <2>3. r * (k - 1) = q /\ r * k = q + r
        BY <2>1, <2>2 DEF Times
    <2>4. q + r <= P
        <3>1. b + 1 \in Nat /\ b + 1 <= N
            BY <2>1
        <3> QED
            BY <2>2, <3>1, FewerBlocks
    <2>5. SubSeq(w, q + 1, q + r) = Block(w, r, b)
        <3>1. q + r <= Len(w)
            BY <2>4, StateSize
        <3> QED
            BY <2>2, <3>1, WholeBlock
    <2>6. Sponged(w, r)[b + 1] = Permute(XorInto(Sponged(w, r)[b], 0, Block(w, r, b)))
        BY SpongedIs DEF Filled
    <2> QED
        BY <2>1, <2>3, <2>5, <2>6
<1>2. Sponged(w, r)[0] = Zero
    BY SpongedIs
<1>3. \E h : Rec(h)
    <2> DEFINE h == [k \in 0..N |-> Sponged(w, r)[k]]
    <2>1. ASSUME NEW k \in 0..N, k # 0
          PROVE  h[k] = Permute(XorInto(h[k - 1], 0, SubSeq(w, r * (k - 1) + 1, r * k)))
        <3>1. k \in 1..N /\ k - 1 \in 0..N
            BY <2>1
        <3>2. h[k] = Sponged(w, r)[k] /\ h[k - 1] = Sponged(w, r)[k - 1]
            BY <3>1
        <3> HIDE DEF h
        <3> QED
            BY <1>1, <3>1, <3>2
    <2>2. ASSUME NEW k \in 0..N, k = 0 PROVE h[k] = Zero
        BY <1>2, <2>2
    <2>3. h = [k \in 0..N |-> h[k]]
        OBVIOUS
    <2> HIDE DEF h
    <2>4. Rec(h)
        BY <2>1, <2>2, <2>3
    <2> HIDE DEF Rec
    <2> QED
        BY <2>4
<1>4. PICK h : Rec(h) /\ Absorbed(w, r, N) = h[N]
    BY <1>3 DEF Absorbed
<1>5. ASSUME NEW k \in 1..N
      PROVE  h[k] = Permute(XorInto(h[k - 1], 0, SubSeq(w, r * (k - 1) + 1, r * k)))
    <2>1. k \in 0..N /\ k # 0
        OBVIOUS
    <2> QED
        BY <1>4, <2>1
<1>6. h[0] = Zero
    BY <1>4
<1> HIDE DEF Rec
<1> DEFINE T == {k \in 0..N : h[k] = Sponged(w, r)[k]}
<1>7. 0 \in T
    BY <1>2, <1>6
<1>8. ASSUME NEW k \in 0 .. N - 1, k \in T PROVE k + 1 \in T
    <2>1. k + 1 \in 1..N /\ k + 1 \in 0..N /\ (k + 1) - 1 = k
        OBVIOUS
    <2>2. h[k] = Sponged(w, r)[k]
        BY <1>8
    <2>3. h[k + 1] = Sponged(w, r)[k + 1]
        BY <1>1, <1>5, <2>1, <2>2
    <2> QED
        BY <2>1, <2>3
<1> HIDE DEF T
<1>9. \A k \in 0..N : k \in T
    BY <1>7, <1>8, Climb
<1>10. N \in 0..N
    OBVIOUS
<1> QED
    BY <1>4, <1>9, <1>10 DEF T

-----------------------------------------------------------------------------
(* Padding.                                                                *)

(* The state that has absorbed w, with the padding.                        *)
Final(w, r, p) == XorInto(XorInto(Filled(w, r, Len(w) \div r), Len(w) % r, <<p>>), r - 1, <<128>>)

(* What the padding does to each byte of a state with n bytes of a block.  *)
Topped(s, n, r, p, i) ==
    LET last == IF i = n + 1 THEN s[i] ++ p ELSE s[i] IN IF i = r THEN last ++ 128 ELSE last

(* keccak_inc_finalize mixes in the domain byte and the last bit.          *)
LEMMA ToppedIs ==
    ASSUME NEW s \in States, NEW r \in Rates, NEW n \in 0 .. r - 1, NEW p, p \in {31, 6}
    PROVE  /\ XorInto(XorInto(s, n, <<p>>), r - 1, <<128>>) \in States
           /\ \A i \in 1..StateBytes :
                  XorInto(XorInto(s, n, <<p>>), r - 1, <<128>>)[i] = Topped(s, n, r, p, i)
<1>1. r \in Nat \ {0} /\ r - 1 \in Nat /\ n \in Nat /\ p \in Byte /\ 128 \in Byte
    BY StateSize DEF Byte
<1>2. PICK x \in Seq(Byte), y \in Seq(Byte) :
          x = <<p>> /\ y = <<128>> /\ Len(x) = 1 /\ Len(y) = 1 /\ x[1] = p /\ y[1] = 128
    <2>1. <<p>> \in Seq(Byte) /\ Len(<<p>>) = 1 /\ <<p>>[1] = p
        BY <1>1
    <2>2. <<128>> \in Seq(Byte) /\ Len(<<128>>) = 1 /\ <<128>>[1] = 128
        BY <1>1
    <2> QED
        BY <2>1, <2>2
<1>3. PICK t \in States : t = XorInto(s, n, x) /\ \A i \in 1..StateBytes : t[i] = Mixed(s, n, x, i)
    BY <1>1, XorIntoIs
<1>4. PICK z \in States :
          z = XorInto(t, r - 1, y) /\ \A i \in 1..StateBytes : z[i] = Mixed(t, r - 1, y, i)
    BY <1>1, XorIntoIs
<1>5. ASSUME NEW i \in 1..StateBytes PROVE z[i] = Topped(s, n, r, p, i)
    <2>0. i \in Nat /\ StateBytes \in Nat
        BY StateSize
    <2>1. t[i] = IF i = n + 1 THEN s[i] ++ p ELSE s[i]
        <3>1. i - n \in 1..1 <=> i = n + 1
            BY <1>1, <2>0
        <3>2. i = n + 1 => i - n = 1
            BY <1>1, <2>0
        <3>3. t[i] = IF i - n \in 1..1 THEN s[i] ++ x[i - n] ELSE s[i]
            BY <1>2, <1>3 DEF Mixed
        <3> QED
            BY <1>2, <3>1, <3>2, <3>3, Zenon
    <2>2. z[i] = IF i = r THEN t[i] ++ 128 ELSE t[i]
        <3>1. i - (r - 1) \in 1..1 <=> i = r
            BY <1>1, <2>0
        <3>2. i = r => i - (r - 1) = 1
            BY <1>1, <2>0
        <3>3. z[i] = IF i - (r - 1) \in 1..1 THEN t[i] ++ y[i - (r - 1)] ELSE t[i]
            BY <1>2, <1>4 DEF Mixed
        <3> QED
            BY <1>2, <3>1, <3>2, <3>3, Zenon
    <2> QED
        BY <2>1, <2>2, Zenon DEF Topped
<1> QED
    BY <1>2, <1>3, <1>4, <1>5

(* A padded state is a state.                                              *)
LEMMA FinalIs ==
    ASSUME BytesOnly, NEW w \in Seq(Byte), NEW r \in Rates, NEW p, p \in {31, 6}
    PROVE  Final(w, r, p) \in States
<1>1. PICK b \in Nat, n \in 0 .. r - 1 : Len(w) \div r = b /\ Len(w) % r = n
    BY BlocksOf
<1>2. PICK s \in States : s = Filled(w, r, b)
    BY SpongedIs
<1>3. XorInto(XorInto(s, n, <<p>>), r - 1, <<128>>) \in States
    BY ToppedIs
<1> QED
    BY <1>1, <1>2, <1>3 DEF Final

(* keccak_inc_finalize pads what has been absorbed.                        *)
LEMMA FinalizeIs ==
    ASSUME BytesOnly, NEW w \in Seq(Byte), NEW r \in Rates, NEW p, NEW c, InSponge(c, r, w)
    PROVE  keccak_inc_finalize(c, r, p) = [s |-> Final(w, r, p), n |-> 0]
BY DEF InSponge, keccak_inc_finalize, Final

(* A padded last block, of n bytes of a message: into the state S it brings *)
(* what the bytes and then the padding bring.                              *)
PadByte(w, q, n, r, p, i) ==
    IF i <= n THEN ByteAt(w, q + i)
    ELSE (IF i = n + 1 THEN p ELSE 0) ++ (IF i = r THEN 128 ELSE 0)

IsPadded(y, w, b, q, n, r, p) ==
    /\ y \in Seq(Byte) /\ Len(y) = r /\ Len(w) = q + n /\ Times(r, b, q)
    /\ \A i \in 1..r : y[i] = PadByte(w, q, n, r, p, i)

(* A padded block mixed in at once brings the state that                   *)
(* keccak_inc_finalize brings in place.                                    *)
LEMMA PaddedBlock ==
    ASSUME BytesOnly, NEW w \in Seq(Byte), NEW r \in Rates, NEW p, p \in {31, 6},
           NEW b \in Nat, NEW n \in 0 .. r - 1, NEW q \in Nat, NEW y, IsPadded(y, w, b, q, n, r, p)
    PROVE  XorInto(Sponged(w, r)[b], 0, y) = Final(w, r, p)
<1>0. r \in Nat \ {0} /\ StateBytes \in Nat
    BY StateSize
<1>a. /\ y \in Seq(Byte) /\ Len(y) = r /\ Len(w) = q + n /\ Times(r, b, q)
      /\ \A i \in 1..r : y[i] = PadByte(w, q, n, r, p, i)
    BY DEF IsPadded
<1>1. Len(w) \div r = b /\ Len(w) % r = n /\ Len(w) = q + n
    BY <1>a, CountBlocks
<1>2. PICK S \in States, B \in States :
          /\ S = Sponged(w, r)[b] /\ B = Filled(w, r, b)
          /\ \A i \in 1..StateBytes : B[i] = IF i \in 1..r THEN S[i] ++ ByteAt(w, q + i) ELSE S[i]
    <2>1. Sponged(w, r)[b] \in States /\ Filled(w, r, b) \in States
        BY SpongedIs
    <2>2. \A i \in 1..StateBytes :
              Filled(w, r, b)[i] = IF i \in 1..r THEN Sponged(w, r)[b][i] ++ ByteAt(w, q + i)
                                   ELSE Sponged(w, r)[b][i]
        BY <1>a, FilledIs
    <2> QED
        BY <2>1, <2>2
<1>3. PICK F \in States : F = Final(w, r, p) /\ \A i \in 1..StateBytes : F[i] = Topped(B, n, r, p, i)
    <2>1. Final(w, r, p) = XorInto(XorInto(B, n, <<p>>), r - 1, <<128>>)
        BY <1>1, <1>2 DEF Final
    <2>2. /\ XorInto(XorInto(B, n, <<p>>), r - 1, <<128>>) \in States
          /\ \A i \in 1..StateBytes :
                 XorInto(XorInto(B, n, <<p>>), r - 1, <<128>>)[i] = Topped(B, n, r, p, i)
        BY ToppedIs
    <2> QED
        BY <2>1, <2>2
<1>4. PICK z \in States : z = XorInto(S, 0, y) /\ \A i \in 1..StateBytes : z[i] = Mixed(S, 0, y, i)
    BY <1>a, XorIntoIs
<1>5. ASSUME NEW i \in 1..StateBytes PROVE z[i] = F[i]
    <2>0. i \in Nat /\ i - 0 = i /\ S[i] \in Byte /\ S[i] ++ 0 = S[i]
        BY <1>0, XorBytes DEF States
    <2>1. z[i] = IF i \in 1..r THEN S[i] ++ PadByte(w, q, n, r, p, i) ELSE S[i]
        <3>1. z[i] = IF i \in 1..r THEN S[i] ++ y[i] ELSE S[i]
            BY <1>a, <1>4, <2>0, Zenon DEF Mixed
        <3> QED
            BY <1>a, <3>1
    <2>2. CASE i \notin 1..r
        <3>1. i # n + 1 /\ i # r
            BY <1>0, <2>0, <2>2
        <3>2. F[i] = S[i]
            BY <1>2, <1>3, <2>2, <3>1 DEF Topped
        <3> QED
            BY <2>1, <2>2, <3>2
    <2>3. CASE i \in 1..n
        <3>1. i \in 1..r /\ i # n + 1 /\ i # r /\ i <= n
            BY <1>0, <2>3
        <3>2. F[i] = S[i] ++ ByteAt(w, q + i)
            BY <1>2, <1>3, <3>1 DEF Topped
        <3> QED
            BY <2>1, <3>1, <3>2 DEF PadByte
    <2>4. CASE i \in n + 1 .. r
        <3>1. i \in 1..r /\ ~(i <= n) /\ q + i \notin 1 .. q + n
            BY <1>0, <2>4
        <3>2. B[i] = S[i]
            BY <1>1, <1>2, <2>0, <3>1 DEF ByteAt
        <3>3. PICK val \in Byte : val = S[i]
            BY <2>0
        <3>4. /\ (val ++ p) ++ 128 = val ++ (p ++ 128) /\ 0 ++ 128 = 128 /\ p ++ 0 = p /\ 0 ++ 0 = 0
              /\ val ++ 0 = val
            BY <2>0, <3>3, XorPadding
        <3>5. z[i] = val ++ ((IF i = n + 1 THEN p ELSE 0) ++ (IF i = r THEN 128 ELSE 0))
            BY <2>1, <3>1, <3>3, Zenon DEF PadByte
        <3>6. F[i] = LET last == IF i = n + 1 THEN val ++ p ELSE val IN IF i = r THEN last ++ 128 ELSE last
            BY <1>3, <3>2, <3>3, Zenon DEF Topped
        <3>7. CASE i = n + 1 /\ i = r
            BY <3>4, <3>5, <3>6, <3>7, Zenon
        <3>8. CASE i = n + 1 /\ i # r
            BY <3>4, <3>5, <3>6, <3>8, Zenon
        <3>9. CASE i # n + 1 /\ i = r
            BY <3>4, <3>5, <3>6, <3>9, Zenon
        <3>10. CASE i # n + 1 /\ i # r
            BY <3>4, <3>5, <3>6, <3>10, Zenon
        <3> QED
            BY <3>7, <3>8, <3>9, <3>10
    <2> QED
        BY <1>0, <2>0, <2>2, <2>3, <2>4
<1> QED
    BY <1>2, <1>3, <1>4, <1>5, SameState

(* A byte of the padding: its bits are the sum of those of p and of 128.   *)
PadSum(n, r, p, i) == (IF i = n + 1 THEN p ELSE 0) + (IF i = r THEN 128 ELSE 0)

(* The padding never carries: where both its bytes meet they have no bit   *)
(* in common.                                                              *)
LEMMA PadByteIs ==
    ASSUME NEW w \in Seq(Byte), NEW r \in Rates, NEW p, p \in {31, 6}, NEW n \in 0 .. r - 1,
           NEW q \in Nat, NEW i \in 1..r
    PROVE  /\ PadByte(w, q, n, r, p, i) \in Byte
           /\ i > n => PadByte(w, q, n, r, p, i) = PadSum(n, r, p, i)
<1>0. r \in Nat \ {0}
    BY StateSize
<1>1. /\ p ++ 128 = p + 128 /\ 0 ++ 128 = 128 /\ p ++ 0 = p /\ 0 ++ 0 = 0
      /\ p \in Byte /\ 0 \in Byte /\ 128 \in Byte /\ p + 128 \in Byte
    <2>1. PICK a \in Byte : a = 0
        BY DEF Byte
    <2>2. /\ (a ++ p) ++ 128 = a ++ (p ++ 128)
          /\ p ++ 128 = p + 128 /\ 0 ++ 128 = 128 /\ p ++ 0 = p /\ 0 ++ 0 = 0
          /\ p \in Byte /\ 0 \in Byte /\ 128 \in Byte /\ p + 128 \in Byte
        BY XorPadding
    <2> QED
        BY <2>2
<1>2. CASE i <= n
    <2>1. PadByte(w, q, n, r, p, i) = ByteAt(w, q + i)
        BY <1>2 DEF PadByte
    <2>2. ByteAt(w, q + i) \in Byte
        BY ByteAtIs
    <2> QED
        BY <1>0, <1>2, <2>1, <2>2
<1>3. CASE ~(i <= n)
    <2>1. PadByte(w, q, n, r, p, i) = (IF i = n + 1 THEN p ELSE 0) ++ (IF i = r THEN 128 ELSE 0)
        BY <1>3, Zenon DEF PadByte
    <2>2. CASE i = n + 1 /\ i = r
        <3>1. PadByte(w, q, n, r, p, i) = p ++ 128
            BY <2>1, <2>2, Zenon
        <3> QED
            BY <1>1, <2>2, <3>1 DEF PadSum
    <2>3. CASE i = n + 1 /\ i # r
        <3>1. PadByte(w, q, n, r, p, i) = p ++ 0
            BY <2>1, <2>3, Zenon
        <3> QED
            BY <1>1, <2>3, <3>1 DEF PadSum
    <2>4. CASE i # n + 1 /\ i = r
        <3>1. PadByte(w, q, n, r, p, i) = 0 ++ 128
            BY <2>1, <2>4, Zenon
        <3> QED
            BY <1>1, <2>4, <3>1 DEF PadSum
    <2>5. CASE i # n + 1 /\ i # r
        <3>1. PadByte(w, q, n, r, p, i) = 0 ++ 0
            BY <2>1, <2>5, Zenon
        <3> QED
            BY <1>1, <2>5, <3>1 DEF PadSum
    <2> QED
        BY <2>2, <2>3, <2>4, <2>5
<1> QED
    BY <1>2, <1>3

(* keccak_absorb reads whole blocks and pads what is left.                 *)
LEMMA OneShotAbsorbs ==
    ASSUME BytesOnly, NEW w \in Seq(Byte), NEW r \in Rates, NEW p, p \in {31, 6}
    PROVE  keccak_absorb(r, w, p) = Final(w, r, p)
<1>0. r \in Nat \ {0}
    BY StateSize
<1>1. PICK b \in Nat, n \in 0 .. r - 1, q \in Nat :
          Len(w) \div r = b /\ Len(w) % r = n /\ Times(r, b, q) /\ Len(w) = q + n
    BY BlocksOf
<1>2. r * b = q
    BY <1>1 DEF Times
<1>3. PICK rest : /\ rest = SubSeq(w, q + 1, Len(w)) /\ Len(rest) = n
                  /\ \A i \in 1..n : rest[i] = w[q + i] /\ w[q + i] \in Byte /\ q + i \in 1..Len(w)
    <2>1. \A i \in 1..n : q + i \in 1..Len(w) /\ w[q + i] \in Byte
        BY <1>1
    <2>2. Len(SubSeq(w, q + 1, Len(w))) = n
        BY <1>1
    <2>3. ASSUME NEW i \in 1..n PROVE SubSeq(w, q + 1, Len(w))[i] = w[q + i]
        BY <1>1
    <2>4. PICK rest : rest = SubSeq(w, q + 1, Len(w))
        OBVIOUS
    <2> QED
        BY <2>1, <2>2, <2>3, <2>4, Zenon
<1> DEFINE t == [i \in 1..r |-> IF i <= Len(rest) THEN rest[i] ELSE IF i = Len(rest) + 1 THEN p ELSE 0]
           y == [t EXCEPT ![r] = IF @ >= 128 THEN @ ELSE @ + 128]
<1>4. keccak_absorb(r, w, p) = XorInto(Absorbed(w, r, b), 0, y)
    BY <1>1, <1>2, <1>3 DEF keccak_absorb, Absorbed
<1>5. Absorbed(w, r, b) = Sponged(w, r)[b]
    <2>1. q <= Len(w)
        BY <1>1
    <2> QED
        BY <1>1, <2>1, AbsorbedIs
<1>6. ASSUME NEW i \in 1..r PROVE y[i] = PadByte(w, q, n, r, p, i)
    <2>1. i \in Nat /\ r \in 1..r
        BY <1>0
    <2>2. CASE i <= n
        <3>1. i # r /\ i \in 1..n
            BY <1>0, <2>1, <2>2
        <3>2. y[i] = w[q + i]
            BY <1>3, <2>2, <3>1
        <3>3. PadByte(w, q, n, r, p, i) = w[q + i]
            BY <1>3, <2>2, <3>1 DEF PadByte, ByteAt
        <3> QED
            BY <3>2, <3>3
    <2>3. CASE ~(i <= n)
        <3>1. t[i] = IF i = n + 1 THEN p ELSE 0
            BY <1>3, <2>3
        <3>2. p < 128 /\ 0 < 128
            OBVIOUS
        <3>3. y[i] = IF i = r THEN (IF t[i] >= 128 THEN t[i] ELSE t[i] + 128) ELSE t[i]
            BY <2>1
        <3> HIDE DEF y, t
        <3>4. i > n
            BY <1>0, <2>1, <2>3
        <3>5. PadByte(w, q, n, r, p, i) = PadSum(n, r, p, i)
            BY <3>4, PadByteIs
        <3> QED
            BY <3>1, <3>2, <3>3, <3>5 DEF PadSum
    <2> QED
        BY <2>2, <2>3
<1>7. DOMAIN y = 1..r
    OBVIOUS
<1>8. y = [i \in 1..r |-> y[i]]
    OBVIOUS
<1> HIDE DEF y
<1>9. y \in Seq(Byte) /\ Len(y) = r
    <2>1. ASSUME NEW i \in 1..r PROVE y[i] \in Byte
        <3>1. PadByte(w, q, n, r, p, i) \in Byte
            BY PadByteIs
        <3> QED
            BY <1>6, <3>1
    <2> QED
        BY <1>0, <1>8, <2>1
<1>10. XorInto(Sponged(w, r)[b], 0, y) = Final(w, r, p)
    <2>1. IsPadded(y, w, b, q, n, r, p)
        BY <1>1, <1>6, <1>9 DEF IsPadded
    <2> QED
        BY <2>1, PaddedBlock
<1> QED
    BY <1>4, <1>5, <1>10

(* The padded message of the construction.                                 *)
Padded(w, r, p) ==
    LET padding == r - (Len(w) % r)
    IN  [i \in 1 .. Len(w) + padding |->
            IF i <= Len(w) THEN w[i]
            ELSE (IF i = Len(w) + 1 THEN p ELSE 0) ++ (IF i = Len(w) + padding THEN 128 ELSE 0)]

(* When the construction has absorbed it, the state is the permutation of the *)
(* one that has absorbed the message, with the padding.                    *)
LEMMA PaddedIs ==
    ASSUME BytesOnly, NEW w \in Seq(Byte), NEW r \in Rates, NEW p, p \in {31, 6}
    PROVE  Absorbed(Padded(w, r, p), r, Len(Padded(w, r, p)) \div r) = Permute(Final(w, r, p))
<1>0. r \in Nat \ {0}
    BY StateSize
<1>1. PICK b \in Nat, n \in 0 .. r - 1, q \in Nat :
          Len(w) \div r = b /\ Len(w) % r = n /\ Times(r, b, q) /\ Len(w) = q + n
    BY BlocksOf
<1>2. PICK l \in Nat : l = q + r /\ Times(r, b + 1, l)
    <2>1. r * (b + 1) = r * b + r
        BY <1>0
    <2> QED
        BY <1>0, <1>1, <2>1 DEF Times
<1>3. Padded(w, r, p) = [i \in 1..l |->
          IF i <= q + n THEN w[i]
          ELSE (IF i = q + n + 1 THEN p ELSE 0) ++ (IF i = q + r THEN 128 ELSE 0)]
    <2>1. Len(w) + (r - (Len(w) % r)) = l /\ l = q + r
        BY <1>0, <1>1, <1>2
    <2> QED
        BY <1>1, <2>1, Zenon DEF Padded
<1>4. ASSUME NEW i \in 1..r
      PROVE  Padded(w, r, p)[q + i] = PadByte(w, q, n, r, p, i)
    <2>1. /\ q + i \in 1..l /\ (q + i <= q + n <=> i <= n)
          /\ (q + i = q + n + 1 <=> i = n + 1) /\ (q + i = q + r <=> i = r)
        BY <1>0, <1>2
    <2>2. PICK a \in 1..l : a = q + i
        BY <2>1
    <2>3. Padded(w, r, p)[a] =
              IF i <= n THEN w[a] ELSE (IF i = n + 1 THEN p ELSE 0) ++ (IF i = r THEN 128 ELSE 0)
        <3>1. Padded(w, r, p)[a] =
                  IF a <= q + n THEN w[a]
                  ELSE (IF a = q + n + 1 THEN p ELSE 0) ++ (IF a = q + r THEN 128 ELSE 0)
            BY <1>3
        <3> QED
            BY <2>1, <2>2, <3>1, Zenon
    <2>4. i <= n => ByteAt(w, a) = w[a]
        <3>1. i <= n => a \in 1..Len(w)
            BY <1>1, <2>2
        <3> QED
            BY <3>1 DEF ByteAt
    <2> QED
        BY <2>2, <2>3, <2>4, Zenon DEF PadByte
<1>5. ASSUME NEW i \in 1..q PROVE Padded(w, r, p)[i] = ByteAt(w, i)
    <2>1. i \in 1..l /\ i <= q + n /\ i \in 1..Len(w)
        BY <1>0, <1>1, <1>2
    <2>2. Padded(w, r, p)[i] = w[i]
        BY <1>3, <2>1
    <2> QED
        BY <2>1, <2>2 DEF ByteAt
<1>6. Padded(w, r, p) \in Seq(Byte) /\ Len(Padded(w, r, p)) = l
    <2>1. ASSUME NEW i \in 1..l PROVE Padded(w, r, p)[i] \in Byte
        <3>1. CASE i \in 1..q
            BY <1>5, <3>1, ByteAtIs
        <3>2. CASE i \notin 1..q
            <4>1. PICK a \in 1..r : i = q + a
                <5>1. i - q \in 1..r /\ i = q + (i - q)
                    BY <1>0, <1>2, <3>2
                <5> QED
                    BY <5>1
            <4>2. PadByte(w, q, n, r, p, a) \in Byte
                BY PadByteIs
            <4> QED
                BY <1>4, <4>1, <4>2
        <3> QED
            BY <3>1, <3>2
    <2>2. Padded(w, r, p) = [i \in 1..l |-> Padded(w, r, p)[i]]
        BY <1>3
    <2> QED
        BY <2>1, <2>2
<1>7. PICK u \in Seq(Byte) :
          /\ u = Padded(w, r, p) /\ Len(u) = l
          /\ \A i \in 1..q : ByteAt(u, i) = ByteAt(w, i)
          /\ \A i \in 1..r : ByteAt(u, q + i) = PadByte(w, q, n, r, p, i)
    <2>1. \A i \in 1..q : i \in 1..l
        BY <1>0, <1>2
    <2>2. \A i \in 1..r : q + i \in 1..l
        BY <1>0, <1>2
    <2> QED
        BY <1>4, <1>5, <1>6, <2>1, <2>2 DEF ByteAt
<1>8. Sponged(u, r)[b] = Sponged(w, r)[b]
    <2>1. \A k \in 0..b : Sponged(u, r)[k] = Sponged(w, r)[k]
        BY <1>1, <1>7, SpongedAlike
    <2> QED
        BY <2>1
<1>9. PICK y \in Seq(Byte) :
          /\ y = Block(u, r, b) /\ Len(y) = r
          /\ \A i \in 1..r : y[i] = PadByte(w, q, n, r, p, i)
    <2>1. Block(u, r, b) \in Seq(Byte) /\ Len(Block(u, r, b)) = r
        BY BlockIs
    <2>2. \A i \in 1..r : Block(u, r, b)[i] = ByteAt(u, q + i)
        BY <1>1, BlockAt
    <2> QED
        BY <1>7, <2>1, <2>2
<1>10. XorInto(Sponged(w, r)[b], 0, y) = Final(w, r, p)
    <2>1. IsPadded(y, w, b, q, n, r, p)
        BY <1>1, <1>9 DEF IsPadded
    <2> QED
        BY <2>1, PaddedBlock
<1>11. Sponged(u, r)[b + 1] = Permute(Final(w, r, p))
    <2>1. Sponged(u, r)[b + 1] = Permute(Filled(u, r, b))
        BY SpongedIs
    <2>2. Filled(u, r, b) = XorInto(Sponged(w, r)[b], 0, y)
        BY <1>8, <1>9 DEF Filled
    <2> QED
        BY <1>10, <2>1, <2>2
<1>12. Len(u) \div r = b + 1
    <2>1. l \in Nat /\ b + 1 \in Nat /\ 0 \in 0 .. r - 1 /\ l = l + 0
        BY <1>0
    <2> QED
        BY <1>2, <1>7, <2>1, CountBlocks
<1>13. Absorbed(u, r, b + 1) = Sponged(u, r)[b + 1]
    <2>1. b + 1 \in Nat /\ l <= Len(u)
        BY <1>7
    <2> QED
        BY <1>2, <2>1, AbsorbedIs
<1> QED
    BY <1>7, <1>11, <1>12, <1>13

-----------------------------------------------------------------------------
(* Squeezing.                                                              *)

(* The bytes that the permutations of a state bring, r of each.            *)
Tape(s, r, i) == Permuted(s)[((i - 1) \div r) + 1][((i - 1) % r) + 1]

(* The n bytes that follow the first L.                                    *)
Span(s, r, L, n) == [i \in 1..n |-> Tape(s, r, L + i)]

(* The bytes of a part of a sequence.                                      *)
LEMMA PartIs ==
    ASSUME NEW x \in Seq(Byte), NEW a \in Nat, NEW b \in Nat, a <= b, b <= Len(x)
    PROVE  /\ SubSeq(x, a + 1, b) \in Seq(Byte) /\ Len(SubSeq(x, a + 1, b)) = b - a
           /\ \A i \in 1 .. b - a : SubSeq(x, a + 1, b)[i] = x[a + i] /\ x[a + i] \in Byte
<1>0. Len(x) \in Nat
    OBVIOUS
<1>1. \A i \in a + 1 .. b : x[i] \in Byte
    BY <1>0
<1>2. /\ SubSeq(x, a + 1, b) \in Seq(Byte)
      /\ Len(SubSeq(x, a + 1, b)) = IF a + 1 <= b THEN b - (a + 1) + 1 ELSE 0
      /\ \A i \in 1 .. b - (a + 1) + 1 : SubSeq(x, a + 1, b)[i] = x[(a + 1) + i - 1]
    BY <1>1, SubSeqProperties
<1>3. b - (a + 1) + 1 = b - a /\ (IF a + 1 <= b THEN b - (a + 1) + 1 ELSE 0) = b - a
    OBVIOUS
<1>4. ASSUME NEW i \in 1 .. b - a PROVE SubSeq(x, a + 1, b)[i] = x[a + i] /\ x[a + i] \in Byte
    <2>1. (a + 1) + i - 1 = a + i /\ a + i \in a + 1 .. b
        OBVIOUS
    <2> QED
        BY <1>1, <1>2, <1>3, <2>1
<1> QED
    BY <1>2, <1>3, <1>4

(* A byte of the tape by its block and its place there.                    *)
LEMMA TapeAt ==
    ASSUME NEW s, NEW r \in Rates, NEW k \in Nat, NEW q \in Nat, Times(r, k, q),
           NEW i \in 1..r, NEW a, a = q + i
    PROVE  Tape(s, r, a) = Permuted(s)[k + 1][i]
<1>0. r \in Nat \ {0}
    BY StateSize
<1>1. PICK e \in 0 .. r - 1 : e = i - 1 /\ e + 1 = i
    BY <1>0
<1>2. a - 1 = q + e /\ a - 1 \in Nat
    BY <1>0, <1>1
<1>3. (a - 1) \div r = k /\ (a - 1) % r = e
    BY <1>2, CountBlocks
<1> QED
    BY <1>1, <1>3 DEF Tape

(* Where a byte of the tape is.                                            *)
LEMMA TapeIn ==
    ASSUME NEW r \in Rates, NEW a \in Nat, a # 0
    PROVE  \E k \in Nat, q \in Nat, i \in 1..r : Times(r, k, q) /\ a = q + i
<1>0. r \in Nat \ {0}
    BY StateSize
<1>1. PICK k \in Nat, e \in 0 .. r - 1, q \in Nat : Times(r, k, q) /\ a - 1 = q + e
    <2>1. a - 1 \in Nat
        OBVIOUS
    <2> QED
        BY <2>1, BlocksOf
<1>2. e + 1 \in 1..r /\ a = q + (e + 1)
    BY <1>0, <1>1
<1> QED
    BY <1>1, <1>2

(* The tape, by blocks.                                                    *)
LEMMA TapeIs ==
    ASSUME BytesOnly, NEW s \in States, NEW r \in Rates, NEW a \in Nat, a # 0
    PROVE  Tape(s, r, a) \in Byte
<1>0. r \in Nat \ {0} /\ StateBytes \in Nat /\ r <= StateBytes
    BY StateSize DEF Rates
<1>1. PICK k \in Nat, q \in Nat, i \in 1..r : Times(r, k, q) /\ a = q + i
    BY TapeIn
<1>2. Tape(s, r, a) = Permuted(s)[k + 1][i]
    BY <1>1, TapeAt
<1>3. Permuted(s)[k + 1] \in States /\ i \in 1..StateBytes
    BY <1>0, PermutedIs
<1> QED
    BY <1>2, <1>3 DEF States

(* A part of the tape is a sequence of bytes.                              *)
LEMMA SpanIs ==
    ASSUME BytesOnly, NEW s \in States, NEW r \in Rates, NEW L \in Nat, NEW n \in Nat
    PROVE  /\ Span(s, r, L, n) \in Seq(Byte) /\ Len(Span(s, r, L, n)) = n
           /\ \A i \in 1..n : Span(s, r, L, n)[i] = Tape(s, r, L + i)
<1>1. ASSUME NEW i \in 1..n PROVE Tape(s, r, L + i) \in Byte
    <2>1. L + i \in Nat /\ L + i # 0
        OBVIOUS
    <2> QED
        BY <2>1, TapeIs
<1> QED
    BY <1>1 DEF Span

(* A sequence of the bytes of the tape.                                    *)
IsSpan(y, s, r, L, n) ==
    y \in Seq(Byte) /\ Len(y) = n /\ \A i \in 1..n : y[i] = Tape(s, r, L + i)

(* No other sequence has those bytes.                                      *)
LEMMA SpanOnly ==
    ASSUME BytesOnly, NEW s \in States, NEW r \in Rates, NEW L \in Nat, NEW n \in Nat,
           NEW y, IsSpan(y, s, r, L, n)
    PROVE  y = Span(s, r, L, n)
<1>1. PICK z \in Seq(Byte) :
          z = Span(s, r, L, n) /\ Len(z) = n /\ \A i \in 1..n : z[i] = Tape(s, r, L + i)
    BY SpanIs
<1>2. y \in Seq(Byte) /\ Len(y) = n /\ \A i \in 1..n : y[i] = z[i]
    BY <1>1 DEF IsSpan
<1>3. y = z
    BY <1>1, <1>2, SeqEqual
<1> QED
    BY <1>1, <1>3

(* Parts of what is on the tape, one behind the other.                     *)
LEMMA SpanOn ==
    ASSUME BytesOnly, NEW s \in States, NEW r \in Rates, NEW a \in Nat, NEW n \in Nat,
           NEW b \in Nat, NEW k \in Nat, b = a + n, NEW l \in Nat, l = n + k
    PROVE  Span(s, r, a, n) \o Span(s, r, b, k) = Span(s, r, a, l)
<1>1. PICK x \in Seq(Byte) :
          x = Span(s, r, a, n) /\ Len(x) = n /\ \A i \in 1..n : x[i] = Tape(s, r, a + i)
    BY SpanIs
<1>2. PICK y \in Seq(Byte) :
          y = Span(s, r, b, k) /\ Len(y) = k /\ \A i \in 1..k : y[i] = Tape(s, r, b + i)
    BY SpanIs
<1>3. x \o y \in Seq(Byte) /\ Len(x \o y) = l
      /\ \A i \in 1..l : (x \o y)[i] = IF i <= n THEN x[i] ELSE y[i - n]
    <2>1. /\ x \o y \in Seq(Byte) /\ Len(x \o y) = Len(x) + Len(y)
          /\ \A i \in 1 .. Len(x) + Len(y) :
                (x \o y)[i] = IF i <= Len(x) THEN x[i] ELSE y[i - Len(x)]
        BY ConcatProperties
    <2> QED
        BY <1>1, <1>2, <2>1
<1>4. ASSUME NEW i \in 1..l PROVE (x \o y)[i] = Tape(s, r, a + i)
    <2>1. CASE i <= n
        BY <1>1, <1>3, <2>1
    <2>2. CASE ~(i <= n)
        <3>1. i - n \in 1..k /\ b + (i - n) = a + i
            BY <2>2
        <3> QED
            BY <1>2, <1>3, <2>2, <3>1
    <2> QED
        BY <2>1, <2>2
<1>5. IsSpan(x \o y, s, r, a, l)
    BY <1>3, <1>4 DEF IsSpan
<1> QED
    BY <1>1, <1>2, <1>5, SpanOnly

(* A part of what is on the tape: bytes from .. b of n.                    *)
IsWithin(L, n, from, b, d, k) ==
    from \in 1 .. b + 1 /\ b \in 0..n /\ d = L + from - 1 /\ k = b + 1 - from

(* A part of a part of the tape is a part of the tape.                     *)
LEMMA SpanPart ==
    ASSUME BytesOnly, NEW s \in States, NEW r \in Rates, NEW L \in Nat, NEW n \in Nat,
           NEW from, NEW b, NEW d, NEW k, IsWithin(L, n, from, b, d, k)
    PROVE  SubSeq(Span(s, r, L, n), from, b) = Span(s, r, d, k)
<1>a. PICK a \in Nat : /\ from = a + 1 /\ a <= b /\ b <= n /\ d = L + a /\ k = b - a
                      /\ b \in Nat /\ d \in Nat /\ k \in Nat
    <2>1. from \in 1 .. b + 1 /\ b \in 0..n /\ d = L + from - 1 /\ k = b + 1 - from
        BY DEF IsWithin
    <2>2. PICK a \in Nat : a = from - 1
        BY <2>1
    <2> QED
        BY <2>1, <2>2
<1>1. PICK x \in Seq(Byte) :
          x = Span(s, r, L, n) /\ Len(x) = n /\ \A i \in 1..n : x[i] = Tape(s, r, L + i)
    BY SpanIs
<1>2. PICK y : y = SubSeq(x, a + 1, b) /\ y \in Seq(Byte) /\ Len(y) = k
               /\ \A i \in 1..k : y[i] = x[a + i]
    <2>1. b <= Len(x) /\ b \in Nat /\ a <= b
        BY <1>a, <1>1
    <2>2. /\ SubSeq(x, a + 1, b) \in Seq(Byte) /\ Len(SubSeq(x, a + 1, b)) = b - a
          /\ \A i \in 1 .. b - a : SubSeq(x, a + 1, b)[i] = x[a + i]
        BY <2>1, PartIs
    <2> QED
        BY <1>a, <2>2
<1>3. ASSUME NEW i \in 1..k PROVE y[i] = Tape(s, r, d + i)
    <2>1. a + i \in 1..n /\ L + (a + i) = d + i
        BY <1>a
    <2> QED
        BY <1>1, <1>2, <2>1
<1>4. IsSpan(y, s, r, d, k)
    BY <1>2, <1>3 DEF IsSpan
<1> QED
    BY <1>a, <1>1, <1>2, <1>4, SpanOnly

(* Bytes from .. b of block j are the n bytes that follow the first d.     *)
IsPart(r, j, from, b, d, n) ==
    \E k \in Nat, q \in Nat :
        /\ Times(r, k, q) /\ j = k + 1 /\ from \in 1 .. b + 1 /\ b \in 0..r
        /\ d = q + from - 1 /\ n = b + 1 - from

(* A part of one block of the output is a part of the tape.                *)
LEMMA SpanOfBlock ==
    ASSUME BytesOnly, NEW s \in States, NEW r \in Rates, NEW j, NEW from, NEW b, NEW d, NEW n,
           IsPart(r, j, from, b, d, n)
    PROVE  SubSeq(Permuted(s)[j], from, b) = Span(s, r, d, n)
<1>c. PICK k \in Nat, q \in Nat :
          /\ Times(r, k, q) /\ j = k + 1 /\ from \in 1 .. b + 1 /\ b \in 0..r
          /\ d = q + from - 1 /\ n = b + 1 - from
    BY DEF IsPart
<1>b. b \in Nat /\ d \in Nat /\ n \in Nat
    BY <1>c, StateSize
<1>a. PICK a \in Nat : from = a + 1 /\ a <= b /\ d = q + a /\ n = b - a
    <2>1. PICK a \in Nat : a = from - 1
        BY <1>b, <1>c
    <2> QED
        BY <1>b, <1>c, <2>1
<1>0. r \in Nat \ {0} /\ StateBytes \in Nat /\ r <= StateBytes
    BY StateSize DEF Rates
<1>1. PICK x \in Seq(Byte) : x = Permuted(s)[j] /\ x = Permuted(s)[k + 1] /\ Len(x) = StateBytes
    <2>1. PICK x \in States : x = Permuted(s)[k + 1]
        BY PermutedIs
    <2>2. x \in Seq(Byte) /\ Len(x) = StateBytes
        BY <1>0 DEF States
    <2> QED
        BY <1>c, <2>1, <2>2
<1>2. PICK y : y = SubSeq(x, a + 1, b) /\ y \in Seq(Byte) /\ Len(y) = n
               /\ \A i \in 1..n : y[i] = x[a + i]
    <2>1. b <= Len(x) /\ b \in Nat
        BY <1>0, <1>1, <1>b, <1>c
    <2>2. /\ SubSeq(x, a + 1, b) \in Seq(Byte) /\ Len(SubSeq(x, a + 1, b)) = b - a
          /\ \A i \in 1 .. b - a : SubSeq(x, a + 1, b)[i] = x[a + i]
        BY <1>a, <2>1, PartIs, SMTT(30)
    <2> QED
        BY <1>a, <2>2
<1>3. ASSUME NEW i \in 1..n PROVE y[i] = Tape(s, r, d + i)
    <2>1. PICK c \in 1..r, e \in Nat : c = a + i /\ e = d + i /\ e = q + c
        BY <1>0, <1>a, <1>b, <1>c
    <2>2. Tape(s, r, e) = x[c]
        BY <1>1, <1>c, <2>1, TapeAt
    <2> QED
        BY <1>2, <2>1, <2>2
<1>4. IsSpan(y, s, r, d, n)
    BY <1>b, <1>2, <1>3 DEF IsSpan
<1> QED
    BY <1>a, <1>b, <1>1, <1>2, <1>4, SpanOnly

(* The tape of a state that is on the tape.                                *)
LEMMA SpanLater ==
    ASSUME BytesOnly, NEW s \in States, NEW r \in Rates, NEW k \in Nat, NEW q \in Nat, Times(r, k, q),
           NEW n \in Nat
    PROVE  Span(Permuted(s)[k], r, 0, n) = Span(s, r, q, n)
<1>0. r \in Nat \ {0}
    BY StateSize
<1>1. PICK z \in States : z = Permuted(s)[k]
    BY PermutedIs
<1>2. ASSUME NEW i \in 1..n PROVE Tape(z, r, 0 + i) = Tape(s, r, q + i)
    <2>1. PICK b \in Nat, p \in Nat, e \in 1..r : Times(r, b, p) /\ i = p + e
        <3>1. i \in Nat /\ i # 0
            OBVIOUS
        <3> QED
            BY <3>1, TapeIn
    <2>2. PICK l \in Nat, c \in Nat : l = q + p /\ c = k + b /\ Times(r, c, l)
        <3>1. r * (k + b) = r * k + r * b
            BY <1>0
        <3> QED
            BY <2>1, <3>1 DEF Times
    <2>3. Tape(z, r, i) = Permuted(z)[b + 1][e]
        BY <2>1, TapeAt
    <2>4. PICK d \in Nat : d = q + i /\ d = l + e
        BY <2>1, <2>2
    <2>5. Tape(s, r, d) = Permuted(s)[c + 1][e]
        BY <2>2, <2>4, TapeAt
    <2>6. Permuted(z)[b + 1] = Permuted(s)[c + 1]
        <3>1. b + 1 \in 0 .. b + 1 /\ b + 1 \in Nat /\ k + (b + 1) = c + 1
            BY <2>2
        <3>2. \A j \in 0 .. b + 1 : Permuted(Permuted(s)[k])[j] = Permuted(s)[k + j]
            BY <3>1, PermutedOn
        <3> QED
            BY <1>1, <3>1, <3>2
    <2> QED
        BY <2>3, <2>4, <2>5, <2>6
<1> QED
    BY <1>1, <1>2 DEF Span

(* keccak_squeezeblocks gives the blocks of the tape.                      *)
LEMMA BlocksSqueezed ==
    ASSUME BytesOnly, NEW s \in States, NEW r \in Rates, NEW N \in Nat, NEW P \in Nat, Times(r, N, P)
    PROVE  keccak_squeezeblocks(N, s, r) = <<Span(s, r, 0, P), Permuted(s)[N]>>
<1>0. r \in Nat \ {0}
    BY StateSize
<1> DEFINE value(k) == <<Span(s, r, 0, r * k), Permuted(s)[k]>>
           step(val) == <<val[1] \o SubSeq(Permute(val[2]), 1, r), Permute(val[2])>>
           Rec(h) == h = [k \in 0..N |-> IF k = 0 THEN <<<< >>, s>>
                                         ELSE LET before == h[k - 1]
                                                  after == Permute(before[2])
                                              IN  <<before[1] \o SubSeq(after, 1, r), after>>]
<1>1. value(0) = <<<< >>, s>>
    <2>1. Span(s, r, 0, 0) = << >>
        <3>1. Span(s, r, 0, 0) \in Seq(Byte) /\ Len(Span(s, r, 0, 0)) = 0
            BY SpanIs, 0 \in Nat
        <3> QED
            BY <3>1
    <2>2. r * 0 = 0
        BY <1>0
    <2>3. Permuted(s)[0] = s
        BY PermutedIs
    <2> QED
        BY <2>1, <2>2, <2>3
<1>2. ASSUME NEW k \in Nat PROVE value(k + 1) = step(value(k))
    <2>1. PICK q \in Nat : q = r * k /\ Times(r, k, q) /\ r * (k + 1) = q + r
        BY <1>0 DEF Times
    <2>2. Permuted(s)[k + 1] = Permute(Permuted(s)[k])
        BY PermutedIs
    <2>3. SubSeq(Permuted(s)[k + 1], 1, r) = Span(s, r, q, r)
        <3>1. IsPart(r, k + 1, 1, r, q, r)
            <4>1. /\ k + 1 = k + 1 /\ 1 \in 1 .. r + 1 /\ r \in 0..r
                  /\ q = q + 1 - 1 /\ r = r + 1 - 1
                BY <1>0
            <4> QED
                BY <2>1, <4>1 DEF IsPart
        <3> QED
            BY <3>1, SpanOfBlock
    <2>4. Span(s, r, 0, q) \o Span(s, r, q, r) = Span(s, r, 0, q + r)
        <3>1. 0 \in Nat /\ q = 0 + q /\ q + r \in Nat /\ r \in Nat
            BY <1>0
        <3> QED
            BY <3>1, SpanOn
    <2>5. value(k) = <<Span(s, r, 0, q), Permuted(s)[k]>>
          /\ value(k + 1) = <<Span(s, r, 0, q + r), Permuted(s)[k + 1]>>
        BY <2>1
    <2> HIDE DEF value
    <2>6. value(k)[1] = Span(s, r, 0, q) /\ value(k)[2] = Permuted(s)[k]
        BY <2>5
    <2> QED
        BY <2>2, <2>3, <2>4, <2>5, <2>6
<1> HIDE DEF value
<1>3. \E h : Rec(h)
    <2> DEFINE h == [k \in 0..N |-> value(k)]
    <2>1. ASSUME NEW k \in 0..N, k # 0 PROVE h[k] = step(h[k - 1])
        <3>1. k - 1 \in Nat /\ k - 1 \in 0..N /\ (k - 1) + 1 = k
            BY <2>1
        <3>2. h[k] = value(k) /\ h[k - 1] = value(k - 1)
            BY <3>1
        <3> HIDE DEF h, step
        <3>3. value((k - 1) + 1) = step(value(k - 1))
            BY <1>2, <3>1
        <3> QED
            BY <3>1, <3>2, <3>3
    <2>2. ASSUME NEW k \in 0..N, k = 0 PROVE h[k] = <<<< >>, s>>
        BY <1>1, <2>2
    <2>3. h = [k \in 0..N |-> h[k]]
        OBVIOUS
    <2> HIDE DEF h
    <2>4. Rec(h)
        BY <2>1, <2>2, <2>3
    <2> HIDE DEF Rec
    <2> QED
        BY <2>4
<1>4. PICK h : Rec(h) /\ keccak_squeezeblocks(N, s, r) = h[N]
    BY <1>3 DEF keccak_squeezeblocks
<1>5. ASSUME NEW k \in 1..N PROVE h[k] = step(h[k - 1])
    <2>1. k \in 0..N /\ k # 0
        OBVIOUS
    <2> QED
        BY <1>4, <2>1
<1>6. h[0] = <<<< >>, s>>
    BY <1>4
<1> HIDE DEF Rec, step
<1> DEFINE T == {k \in 0..N : h[k] = value(k)}
<1>7. 0 \in T
    BY <1>1, <1>6
<1>8. ASSUME NEW k \in 0 .. N - 1, k \in T PROVE k + 1 \in T
    <2>1. k + 1 \in 1..N /\ k + 1 \in 0..N /\ (k + 1) - 1 = k /\ k \in Nat
        OBVIOUS
    <2>2. h[k] = value(k)
        BY <1>8
    <2>3. h[k + 1] = value(k + 1)
        BY <1>2, <1>5, <2>1, <2>2
    <2> QED
        BY <2>1, <2>3
<1> HIDE DEF T
<1>9. \A k \in 0..N : k \in T
    BY <1>7, <1>8, Climb
<1>10. N \in 0..N
    OBVIOUS
<1>11. h[N] = value(N)
    BY <1>9, <1>10 DEF T
<1> QED
    BY <1>4, <1>11 DEF value, Times

(* The recursive definition of the squeezing in Stream.                    *)
Squeezings(z, N) == LET squeezed[k \in 0..N] == IF k = 0 THEN z ELSE Permute(squeezed[k - 1])
                    IN  squeezed

(* They are the states of the squeezing phase.                             *)
LEMMA SqueezingsAre ==
    ASSUME BytesOnly, NEW s \in States, NEW N \in Nat
    PROVE  \A k \in 0..N : Squeezings(Permute(s), N)[k] = Permuted(s)[k + 1]
<1> DEFINE Rec(h) == h = [k \in 0..N |-> IF k = 0 THEN Permute(s) ELSE Permute(h[k - 1])]
<1>1. Permuted(s)[0 + 1] = Permute(s)
    BY PermutedIs
<1>2. ASSUME NEW k \in 1..N PROVE Permuted(s)[k + 1] = Permute(Permuted(s)[(k - 1) + 1])
    <2>1. k \in Nat /\ (k - 1) + 1 = k
        OBVIOUS
    <2> QED
        BY <2>1, PermutedIs
<1>3. \E h : Rec(h)
    <2> DEFINE h == [k \in 0..N |-> Permuted(s)[k + 1]]
    <2>1. ASSUME NEW k \in 0..N, k # 0 PROVE h[k] = Permute(h[k - 1])
        <3>1. k \in 1..N /\ k - 1 \in 0..N
            BY <2>1
        <3>2. h[k] = Permuted(s)[k + 1] /\ h[k - 1] = Permuted(s)[(k - 1) + 1]
            BY <3>1
        <3> HIDE DEF h
        <3> QED
            BY <1>2, <3>1, <3>2
    <2>2. ASSUME NEW k \in 0..N, k = 0 PROVE h[k] = Permute(s)
        BY <1>1, <2>2
    <2>3. h = [k \in 0..N |-> h[k]]
        OBVIOUS
    <2> HIDE DEF h
    <2>4. Rec(h)
        BY <2>1, <2>2, <2>3
    <2> HIDE DEF Rec
    <2> QED
        BY <2>4
<1>4. PICK h : Rec(h) /\ Squeezings(Permute(s), N) = h
    BY <1>3 DEF Squeezings
<1>5. ASSUME NEW k \in 1..N PROVE h[k] = Permute(h[k - 1])
    <2>1. k \in 0..N /\ k # 0
        OBVIOUS
    <2> QED
        BY <1>4, <2>1
<1>6. h[0] = Permute(s)
    BY <1>4
<1> HIDE DEF Rec
<1> DEFINE T == {k \in 0..N : h[k] = Permuted(s)[k + 1]}
<1>7. 0 \in T
    BY <1>1, <1>6
<1>8. ASSUME NEW k \in 0 .. N - 1, k \in T PROVE k + 1 \in T
    <2>1. k + 1 \in 1..N /\ k + 1 \in 0..N /\ (k + 1) - 1 = k
        OBVIOUS
    <2>2. h[k] = Permuted(s)[k + 1]
        BY <1>8
    <2>3. h[k + 1] = Permute(h[k])
        BY <1>5, <2>1
    <2>4. Permuted(s)[(k + 1) + 1] = Permute(Permuted(s)[k + 1])
        BY <1>2, <2>1
    <2> QED
        BY <2>1, <2>2, <2>3, <2>4
<1> HIDE DEF T
<1>9. \A k \in 0..N : k \in T
    BY <1>7, <1>8, Climb
<1> QED
    BY <1>4, <1>9 DEF T

(* What the construction gives is on the tape of the padded state.         *)
LEMMA StreamIs ==
    ASSUME BytesOnly, NEW fn, fn.rate \in Rates, fn.p \in {31, 6}, NEW w \in Seq(Byte), NEW n \in Nat
    PROVE  Stream(fn, w, n) = Span(Final(w, fn.rate, fn.p), fn.rate, 0, n)
<1>r. PICK r \in Rates : r = fn.rate
    OBVIOUS
<1>1. PICK p : r = fn.rate /\ p = fn.p /\ p \in {31, 6}
    BY <1>r
<1>2. r \in Nat \ {0}
    BY StateSize
<1>3. PICK F \in States : F = Final(w, r, p)
    BY <1>1, FinalIs
<1>4. PICK N \in Nat : N = n \div r
    BY <1>2
<1>5. PICK g : g = Squeezings(Permute(F), N)
    OBVIOUS
<1>6. \A k \in 0..N : g[k] = Permuted(F)[k + 1]
    BY <1>5, SqueezingsAre
<1> DEFINE blocks == << >> \o [k \in 1 .. N + 1 |-> g[k - 1]]
<1>7. Stream(fn, w, n) = [i \in 1..n |-> blocks[((i - 1) \div r) + 1][((i - 1) % r) + 1]]
    <2>1. Absorbed(Padded(w, r, p), r, Len(Padded(w, r, p)) \div r) = Permute(F)
        BY <1>1, <1>3, PaddedIs
    <2>2. g = Squeezings(Absorbed(Padded(w, r, p), r, Len(Padded(w, r, p)) \div r), n \div r)
        BY <1>4, <1>5, <2>1
    <2>3. Stream(fn, w, n) =
              LET R == fn.rate
                  all == Padded(w, R, fn.p)
                  it == << >> \o [k \in 1 .. (n \div R) + 1 |->
                            Squeezings(Absorbed(all, R, Len(all) \div R), n \div R)[k - 1]]
              IN  [i \in 1..n |-> it[((i - 1) \div R) + 1][((i - 1) % R) + 1]]
        BY DEF Stream, Squeezings, Absorbed, Padded
    <2> QED
        BY <1>1, <1>4, <2>2, <2>3
<1>8. ASSUME NEW k \in 0..N PROVE blocks[k + 1] = Permuted(F)[k + 1]
    <2>1. \A j \in 1 .. N + 1 : g[j - 1] \in States
        <3> SUFFICES ASSUME NEW j \in 1 .. N + 1 PROVE g[j - 1] \in States
            OBVIOUS
        <3>1. j - 1 \in 0..N /\ (j - 1) + 1 = j /\ j \in Nat
            OBVIOUS
        <3>2. g[j - 1] = Permuted(F)[j]
            BY <1>6, <3>1
        <3> QED
            BY <3>1, <3>2, PermutedIs
    <2>2. [j \in 1 .. N + 1 |-> g[j - 1]] \in Seq(States)
        BY <2>1
    <2>3. blocks = [j \in 1 .. N + 1 |-> g[j - 1]]
        BY <2>2, ConcatEmptySeq
    <2>4. k + 1 \in 1 .. N + 1 /\ (k + 1) - 1 = k
        OBVIOUS
    <2> HIDE DEF blocks
    <2> QED
        BY <1>6, <2>3, <2>4
<1>9. ASSUME NEW i \in 1..n
      PROVE  blocks[((i - 1) \div r) + 1][((i - 1) % r) + 1] = Tape(F, r, 0 + i)
    <2>1. PICK k \in Nat, e \in 0 .. r - 1, q \in Nat :
              (i - 1) \div r = k /\ (i - 1) % r = e /\ Times(r, k, q) /\ i - 1 = q + e
        <3>1. i - 1 \in Nat
            OBVIOUS
        <3> QED
            BY <3>1, BlocksOf
    <2>2. k \in 0..N
        <3>1. PICK d \in 0 .. r - 1, c \in Nat : Times(r, N, c) /\ n = c + d
            BY <1>4, BlocksOf
        <3>2. CASE k >= N + 1
            <4>1. PICK t \in Nat : t = c + r /\ Times(r, N + 1, t)
                <5>1. r * (N + 1) = r * N + r
                    BY <1>2
                <5> QED
                    BY <1>2, <3>1, <5>1 DEF Times
            <4>2. t <= q
                BY <2>1, <3>2, <4>1, FewerBlocks
            <4> QED
                BY <1>2, <2>1, <3>1, <4>1, <4>2
        <3> QED
            BY <3>2
    <2>3. 0 + i = i
        OBVIOUS
    <2> HIDE DEF blocks
    <2> QED
        BY <1>8, <2>1, <2>2, <2>3 DEF Tape
<1> HIDE DEF blocks
<1>10. Stream(fn, w, n) = [i \in 1..n |-> Tape(F, r, 0 + i)]
    BY <1>7, <1>9
<1> QED
    BY <1>1, <1>3, <1>10 DEF Span

(* Nothing of the tape.                                                    *)
LEMMA SpanEmpty ==
    ASSUME NEW s, NEW r, NEW L
    PROVE  Span(s, r, L, 0) = << >>
BY DEF Span

(* How many blocks there are for n bytes.                                  *)
LEMMA BlocksFor ==
    ASSUME NEW r \in Rates, NEW n \in Nat
    PROVE  \E N \in Nat, P \in Nat :
               /\ (n + r - 1) \div r = N /\ Times(r, N, P)
               /\ P >= n /\ P <= n + r - 1 /\ (N = 0 <=> n = 0)
<1>0. r \in Nat \ {0}
    BY StateSize
<1>1. PICK a \in Nat : a = n + r - 1
    BY <1>0
<1>2. PICK N \in Nat, e \in 0 .. r - 1, P \in Nat : a \div r = N /\ Times(r, N, P) /\ a = P + e
    BY BlocksOf
<1>3. (N = 0 => P = 0) /\ (N # 0 => P >= r)
    BY <1>2, SomeBlocks
<1>4. P >= n /\ P <= n + r - 1 /\ (N = 0 <=> n = 0)
    BY <1>0, <1>1, <1>2, <1>3
<1> QED
    BY <1>1, <1>2, <1>4

(* The context when L bytes have been squeezed: the state is the one that  *)
(* gave the last of them, of which n are left.                             *)
InStream(c, r, F, L) ==
    \E k \in Nat, n \in 0 .. r - 1, q \in Nat :
        c = [s |-> Permuted(F)[k], n |-> n] /\ Times(r, k, q) /\ q = L + n

(* keccak_inc_squeeze goes on with the tape from wherever it is.           *)
LEMMA SqueezeIs ==
    ASSUME BytesOnly, NEW F \in States, NEW r \in Rates, NEW L \in Nat, NEW l \in Nat,
           NEW c, InStream(c, r, F, L)
    PROVE  /\ keccak_inc_squeeze(l, c, r)[1] = Span(F, r, L, l)
           /\ InStream(keccak_inc_squeeze(l, c, r)[2], r, F, L + l)
<1>0. r \in Nat \ {0}
    BY StateSize
<1>1. PICK k \in Nat, n \in 0 .. r - 1, q \in Nat :
          c = [s |-> Permuted(F)[k], n |-> n] /\ Times(r, k, q) /\ q = L + n
    BY DEF InStream
<1>2. PICK S \in States : S = Permuted(F)[k]
    BY PermutedIs
<1>3. PICK kept \in Nat : kept = IF l < n THEN l ELSE n
    BY <1>0
<1>4. PICK needed \in Nat : needed = l - kept
    BY <1>0, <1>3
<1>5. PICK N \in Nat, P \in Nat :
          /\ (needed + r - 1) \div r = N /\ Times(r, N, P)
          /\ P >= needed /\ P <= needed + r - 1 /\ (N = 0 <=> needed = 0)
    BY BlocksFor
<1>6. r * N = P
    BY <1>5 DEF Times
<1>7. keccak_squeezeblocks(N, S, r) = <<Span(S, r, 0, P), Permuted(S)[N]>>
    BY <1>5, BlocksSqueezed
<1>8. PICK x, y, left :
          /\ x = SubSeq(S, r - n + 1, r - n + kept) /\ y = SubSeq(Span(S, r, 0, P), 1, needed)
          /\ left = IF N = 0 THEN n - kept ELSE P - needed
          /\ keccak_inc_squeeze(l, c, r) = <<x \o y, [s |-> Permuted(S)[N], n |-> left]>>
    <2>1. c.s = S /\ c.n = n
        BY <1>1, <1>2
    <2>2. keccak_inc_squeeze(l, c, r) =
              <<SubSeq(S, r - n + 1, r - n + kept)
                    \o SubSeq(keccak_squeezeblocks(N, S, r)[1], 1, needed),
                [s |-> keccak_squeezeblocks(N, S, r)[2],
                 n |-> IF N = 0 THEN n - kept ELSE r * N - needed]>>
        BY <1>3, <1>4, <1>5, <2>1 DEF keccak_inc_squeeze
    <2>3. /\ keccak_squeezeblocks(N, S, r)[1] = Span(S, r, 0, P)
          /\ keccak_squeezeblocks(N, S, r)[2] = Permuted(S)[N]
        BY <1>7
    <2> QED
        BY <1>6, <2>2, <2>3
<1>9. x = Span(F, r, L, kept)
    <2>1. CASE n = 0
        <3>1. kept = 0 /\ r - n + 1 = r + 1 /\ r - n + kept = r
            BY <1>0, <1>3, <2>1
        <3>2. S \in Seq(Byte)
            BY StateSize DEF States
        <3>3. SubSeq(S, r + 1, r) = << >>
            BY <1>0, <3>2
        <3> QED
            BY <1>8, <3>1, <3>3, SpanEmpty
    <2>2. CASE n # 0
        <3>1. PICK b \in Nat, p \in Nat : Times(r, b, p) /\ k = b + 1 /\ q = p + r
            <4>1. k # 0
                <5>1. k = 0 => q = 0
                    BY <1>1, SomeBlocks
                <5> QED
                    BY <1>0, <1>1, <2>2, <5>1
            <4>2. PICK b \in Nat : k = b + 1
                <5>1. k - 1 \in Nat /\ k = (k - 1) + 1
                    BY <4>1
                <5> QED
                    BY <5>1
            <4>3. PICK a \in Nat, p \in Nat : Times(r, b, p) /\ Times(r, b + 1, p + r)
                BY MoreBlocks
            <4>4. q = p + r
                BY <1>1, <4>2, <4>3 DEF Times
            <4> QED
                BY <4>2, <4>3, <4>4
        <3>2. IsPart(r, k, r - n + 1, r - n + kept, L, kept)
            <4>1. /\ r - n + 1 \in 1 .. r - n + kept + 1 /\ r - n + kept \in 0..r
                  /\ L = p + (r - n + 1) - 1 /\ kept = (r - n + kept) + 1 - (r - n + 1)
                BY <1>0, <1>1, <1>3, <2>2, <3>1
            <4> QED
                BY <3>1, <4>1 DEF IsPart
        <3>3. SubSeq(Permuted(F)[k], r - n + 1, r - n + kept) = Span(F, r, L, kept)
            BY <3>2, SpanOfBlock
        <3> QED
            BY <1>2, <1>8, <3>3
    <2> QED
        BY <2>1, <2>2
<1>10. y = Span(F, r, L + kept, needed)
    <2>1. SubSeq(Span(S, r, 0, P), 1, needed) = Span(S, r, 0, needed)
        <3>1. IsWithin(0, P, 1, needed, 0, needed)
            BY <1>5 DEF IsWithin
        <3> QED
            BY <3>1, SpanPart
    <2>3. Span(S, r, 0, needed) = Span(F, r, q, needed)
        BY <1>1, <1>2, SpanLater
    <2>4. CASE needed = 0
        BY <1>8, <2>1, <2>4, SpanEmpty
    <2>5. CASE needed # 0
        <3>1. L + kept = q
            BY <1>0, <1>1, <1>3, <1>4, <2>5
        <3> QED
            BY <1>8, <2>1, <2>3, <3>1
    <2> QED
        BY <2>4, <2>5
<1>11. Span(F, r, L, kept) \o Span(F, r, L + kept, needed) = Span(F, r, L, l)
    <2>1. L + kept \in Nat /\ l = kept + needed
        BY <1>4
    <2> QED
        BY <2>1, SpanOn
<1>12. InStream([s |-> Permuted(S)[N], n |-> left], r, F, L + l)
    <2>1. Permuted(S)[N] = Permuted(F)[k + N]
        <3>1. N \in 0..N
            OBVIOUS
        <3> QED
            BY <1>2, <3>1, PermutedOn
    <2>2. Times(r, k + N, q + P)
        <3>1. r * (k + N) = r * k + r * N
            BY <1>0
        <3> QED
            BY <1>1, <1>5, <3>1 DEF Times
    <2>3. left \in 0 .. r - 1 /\ q + P = (L + l) + left
        <3>1. CASE N = 0
            <4>1. needed = 0 /\ P = 0
                BY <1>0, <1>5, <1>6, <3>1
            <4> QED
                BY <1>0, <1>1, <1>3, <1>4, <1>8, <3>1, <4>1
        <3>2. CASE N # 0
            BY <1>0, <1>1, <1>3, <1>4, <1>5, <1>8, <3>2
        <3> QED
            BY <3>1, <3>2
    <2>4. k + N \in Nat /\ q + P \in Nat
        OBVIOUS
    <2> QED
        BY <2>1, <2>2, <2>3, <2>4 DEF InStream
<1>13. /\ keccak_inc_squeeze(l, c, r)[1] = x \o y
       /\ keccak_inc_squeeze(l, c, r)[2] = [s |-> Permuted(S)[N], n |-> left]
    <2>1. PICK a, d : a = x \o y /\ d = [s |-> Permuted(S)[N], n |-> left]
        OBVIOUS
    <2>2. keccak_inc_squeeze(l, c, r) = <<a, d>>
        BY <1>8, <2>1, Zenon
    <2> QED
        BY <2>1, <2>2
<1> QED
    BY <1>9, <1>10, <1>11, <1>12, <1>13

-----------------------------------------------------------------------------
(* The functions of the program.                                           *)

(* The parameters of a function that the sponge can work with.             *)
Fits(fn) == fn.rate \in Rates /\ fn.p \in {31, 6} /\ fn.digest \in 0..fn.rate

(* Every function of fips202.c fits: its rate lies within a state, its     *)
(* domain byte is one of two, and its digest fits in one block.            *)
LEMMA FunctionsFit ==
    /\ \A j \in DOMAIN Functions : Fits(Functions[j])
    /\ Fits(shake256) /\ shake256.digest = 0 /\ LaneBytes \in Rates
<1>1. /\ LaneBytes \in Nat \ {0} /\ LaneBytes \in Rates
      /\ 21 * LaneBytes \in Rates /\ 17 * LaneBytes \in Rates /\ 13 * LaneBytes \in Rates
      /\ 9 * LaneBytes \in Rates
      /\ 0 \in 0 .. 21 * LaneBytes /\ 0 \in 0 .. 17 * LaneBytes
      /\ 4 * LaneBytes \in 0 .. 17 * LaneBytes /\ 6 * LaneBytes \in 0 .. 13 * LaneBytes
      /\ 8 * LaneBytes \in 0 .. 9 * LaneBytes
    BY LaneAssumption DEF Rates, StateBytes
<1>2. Fits(shake128) /\ Fits(shake256) /\ Fits(sha3_256) /\ Fits(sha3_384) /\ Fits(sha3_512)
    BY <1>1 DEF Fits, shake128, shake256, sha3_256, sha3_384, sha3_512
<1>3. shake256.digest = 0
    BY DEF shake256
<1>4. ASSUME NEW j \in DOMAIN Functions PROVE Fits(Functions[j])
    BY <1>2 DEF Functions
<1> QED
    BY <1>1, <1>2, <1>3, <1>4

(* One block.                                                              *)
LEMMA OneBlock ==
    ASSUME BytesOnly, NEW s \in States, NEW r \in Rates, NEW n \in 0..r
    PROVE  SubSeq(keccak_squeezeblocks(1, s, r)[1], 1, n) = Span(s, r, 0, n)
<1>0. r \in Nat \ {0}
    BY StateSize
<1>1. Times(r, 1, r) /\ 1 \in Nat /\ r \in Nat
    BY <1>0 DEF Times
<1>2. keccak_squeezeblocks(1, s, r) = <<Span(s, r, 0, r), Permuted(s)[1]>>
    BY <1>1, BlocksSqueezed
<1>3. keccak_squeezeblocks(1, s, r)[1] = Span(s, r, 0, r)
    BY <1>2
<1>4. IsWithin(0, r, 1, n, 0, n)
    BY <1>0 DEF IsWithin
<1>5. SubSeq(Span(s, r, 0, r), 1, n) = Span(s, r, 0, n)
    BY <1>1, <1>4, SpanPart
<1> QED
    BY <1>3, <1>5

(* shake128 and shake256, a last block squeezed for what is left over.     *)
LEMMA ShakeIs ==
    ASSUME BytesOnly, NEW fn, Fits(fn), NEW w \in Seq(Byte), NEW l \in Nat
    PROVE  shake(fn, l, w) = Span(Final(w, fn.rate, fn.p), fn.rate, 0, l)
<1>r. PICK r \in Rates : r = fn.rate
    BY DEF Fits
<1>1. PICK p : r = fn.rate /\ p = fn.p /\ p \in {31, 6}
    BY <1>r DEF Fits
<1>0. r \in Nat \ {0}
    BY StateSize
<1>2. PICK F \in States : F = Final(w, r, p) /\ keccak_absorb(r, w, p) = F
    BY <1>1, FinalIs, OneShotAbsorbs
<1>3. PICK N \in Nat, e \in 0 .. r - 1, P \in Nat :
          l \div r = N /\ l % r = e /\ Times(r, N, P) /\ l = P + e
    BY BlocksOf
<1>4. keccak_squeezeblocks(N, F, r) = <<Span(F, r, 0, P), Permuted(F)[N]>>
    BY <1>3, BlocksSqueezed
<1>5. PICK S \in States : S = Permuted(F)[N]
    BY PermutedIs
<1>6. shake(fn, l, w) = IF e = 0 THEN Span(F, r, 0, P)
                        ELSE Span(F, r, 0, P) \o SubSeq(keccak_squeezeblocks(1, S, r)[1], 1, e)
    <2>1. /\ keccak_squeezeblocks(N, F, r)[1] = Span(F, r, 0, P)
          /\ keccak_squeezeblocks(N, F, r)[2] = S
        BY <1>4, <1>5
    <2> QED
        BY <1>1, <1>2, <1>3, <2>1 DEF shake
<1>7. CASE e = 0
    <2>1. P = l
        BY <1>3, <1>7
    <2> QED
        BY <1>1, <1>2, <1>6, <1>7, <2>1
<1>8. CASE e # 0
    <2>1. SubSeq(keccak_squeezeblocks(1, S, r)[1], 1, e) = Span(S, r, 0, e)
        <3>1. e \in 0..r
            BY <1>0
        <3> QED
            BY <3>1, OneBlock
    <2>2. Span(S, r, 0, e) = Span(F, r, P, e)
        <3>1. e \in Nat
            BY <1>0
        <3> QED
            BY <1>3, <1>5, <3>1, SpanLater
    <2>3. Span(F, r, 0, P) \o Span(F, r, P, e) = Span(F, r, 0, l)
        <3>1. 0 \in Nat /\ e \in Nat /\ P = 0 + P /\ l = P + e
            BY <1>0, <1>3
        <3> QED
            BY <3>1, SpanOn
    <2> QED
        BY <1>1, <1>2, <1>6, <1>8, <2>1, <2>2, <2>3
<1> QED
    BY <1>7, <1>8

(* sha3_256, sha3_384, sha3_512.                                           *)
LEMMA Sha3Is ==
    ASSUME BytesOnly, NEW fn, Fits(fn), NEW w \in Seq(Byte)
    PROVE  sha3(fn, w) = Span(Final(w, fn.rate, fn.p), fn.rate, 0, fn.digest)
<1>r. PICK r \in Rates : r = fn.rate
    BY DEF Fits
<1>l. PICK l \in 0..r : l = fn.digest
    BY <1>r DEF Fits
<1>1. PICK p : r = fn.rate /\ p = fn.p /\ l = fn.digest /\ p \in {31, 6}
    BY <1>r, <1>l DEF Fits
<1>2. PICK F \in States : F = Final(w, r, p) /\ keccak_absorb(r, w, p) = F
    BY <1>1, FinalIs, OneShotAbsorbs
<1>3. SubSeq(keccak_squeezeblocks(1, F, r)[1], 1, l) = Span(F, r, 0, l)
    BY OneBlock
<1> QED
    BY <1>1, <1>2, <1>3 DEF sha3

(* sha3_256_inc_finalize and its like.                                     *)
LEMMA DigestIs ==
    ASSUME BytesOnly, NEW fn, Fits(fn), NEW w \in Seq(Byte), NEW c, InSponge(c, fn.rate, w)
    PROVE  sha3_inc_finalize(fn, c) = Span(Final(w, fn.rate, fn.p), fn.rate, 0, fn.digest)
<1>r. PICK r \in Rates : r = fn.rate
    BY DEF Fits
<1>l. PICK l \in 0..r : l = fn.digest
    BY <1>r DEF Fits
<1>1. PICK p : r = fn.rate /\ p = fn.p /\ l = fn.digest /\ p \in {31, 6}
    BY <1>r, <1>l DEF Fits
<1>2. PICK F \in States : F = Final(w, r, p)
    BY <1>1, FinalIs
<1>3. keccak_inc_finalize(c, r, p) = [s |-> F, n |-> 0]
    BY <1>1, <1>2, FinalizeIs
<1>4. keccak_inc_finalize(c, r, p).s = F
    BY <1>3
<1>5. SubSeq(keccak_squeezeblocks(1, F, r)[1], 1, l) = Span(F, r, 0, l)
    BY OneBlock
<1> QED
    BY <1>1, <1>2, <1>4, <1>5 DEF sha3_inc_finalize

(* keccak_inc_init has absorbed nothing.                                   *)
LEMMA InitIs ==
    ASSUME BytesOnly, NEW r \in Rates
    PROVE  InSponge(keccak_inc_init, r, << >>)
<1>0. r \in Nat \ {0}
    BY StateSize
<1>w. PICK w \in Seq(Byte) : w = << >>
    BY EmptySeq
<1>1. PICK b \in Nat : w = << >> /\ Len(w) = 0 /\ b = 0
    BY <1>w
<1>2. Len(w) \div r = b /\ Len(w) % r = 0
    <2>1. 0 \in 0 .. r - 1 /\ 0 \in Nat /\ Len(w) = 0 + 0 /\ Times(r, b, 0) /\ Len(w) \in Nat
        BY <1>0, <1>1 DEF Times
    <2> QED
        BY <2>1, CountBlocks
<1>3. PICK S \in States : S = Filled(w, r, b)
    BY SpongedIs
<1>4. ASSUME NEW i \in 1..StateBytes PROVE S[i] = Zero[i]
    <2>1. Sponged(w, r)[b] = Zero
        BY <1>1, SpongedIs
    <2>2. Times(r, b, 0)
        BY <1>0, <1>1 DEF Times
    <2>3. S[i] = IF i \in 1..r THEN Zero[i] ++ ByteAt(w, 0 + i) ELSE Zero[i]
        BY <1>3, <2>1, <2>2, FilledIs
    <2>4. ByteAt(w, 0 + i) = 0
        BY <1>1 DEF ByteAt
    <2>5. Zero[i] = 0 /\ 0 ++ 0 = 0
        <3>1. 0 \in Byte
            BY DEF Byte
        <3> QED
            BY <3>1, XorBytes, ZeroIs
    <2> QED
        BY <2>3, <2>4, <2>5
<1>5. S = Zero
    BY <1>4, ZeroIs, SameState
<1> QED
    BY <1>1, <1>2, <1>3, <1>5 DEF InSponge, keccak_inc_init

(* A context that has been padded begins the tape.                         *)
LEMMA TapeBegins ==
    ASSUME BytesOnly, NEW w \in Seq(Byte), NEW r \in Rates, NEW p, p \in {31, 6},
           NEW c, InSponge(c, r, w)
    PROVE  InStream(keccak_inc_finalize(c, r, p), r, Final(w, r, p), 0)
<1>0. r \in Nat \ {0}
    BY StateSize
<1>1. PICK F \in States : F = Final(w, r, p)
    BY FinalIs
<1>2. keccak_inc_finalize(c, r, p) = [s |-> F, n |-> 0]
    BY <1>1, FinalizeIs
<1>3. Permuted(F)[0] = F
    BY PermutedIs
<1>4. Times(r, 0, 0) /\ 0 \in Nat /\ 0 \in 0 .. r - 1 /\ 0 = 0 + 0
    BY <1>0 DEF Times
<1>5. [s |-> F, n |-> 0] = [s |-> Permuted(F)[0], n |-> 0]
    BY <1>3
<1>6. InStream([s |-> F, n |-> 0], r, F, 0)
    BY <1>4, <1>5, Zenon DEF InStream
<1> QED
    BY <1>1, <1>2, <1>6

-----------------------------------------------------------------------------
(* The seed expander.                                                      *)

(* Whole words: as many bytes as there are, or those of one more word.     *)
LEMMA WordsAre ==
    ASSUME NEW n \in Nat, NEW b \in Nat, NEW e \in 0 .. LaneBytes - 1, NEW P \in Nat,
           Times(LaneBytes, b, P), n = P + e
    PROVE  /\ WordsFor(n) \in Nat
           /\ e = 0 => WordsFor(n) = n
           /\ e # 0 => WordsFor(n) = P + LaneBytes
<1>0. LaneBytes \in Nat \ {0} /\ LaneBytes \in Rates
    BY LaneAssumption, FunctionsFit
<1>1. PICK a \in Nat : a = n + LaneBytes - 1
    BY <1>0
<1>2. CASE e = 0
    <2>1. a = P + (LaneBytes - 1) /\ LaneBytes - 1 \in 0 .. LaneBytes - 1
        BY <1>0, <1>1, <1>2
    <2>2. a \div LaneBytes = b
        BY <1>0, <2>1, CountBlocks
    <2>3. WordsFor(n) = b * LaneBytes
        BY <1>1, <2>2 DEF WordsFor
    <2>4. b * LaneBytes = n
        BY <1>0, <1>2 DEF Times
    <2> QED
        BY <1>2, <2>3, <2>4
<1>3. CASE e # 0
    <2>1. PICK d \in Nat, Q \in Nat : d = b + 1 /\ Q = P + LaneBytes
        BY <1>0
    <2>2. Times(LaneBytes, d, Q)
        BY <1>0, <2>1 DEF Times
    <2>3. a = Q + (e - 1) /\ e - 1 \in 0 .. LaneBytes - 1
        BY <1>0, <1>1, <1>3, <2>1
    <2>4. a \div LaneBytes = d
        BY <1>0, <2>2, <2>3, CountBlocks
    <2>5. WordsFor(n) = d * LaneBytes
        BY <1>1, <2>4 DEF WordsFor
    <2>6. d * LaneBytes = Q
        BY <1>0, <2>2 DEF Times
    <2> QED
        BY <1>3, <2>1, <2>5, <2>6
<1> QED
    BY <1>2, <1>3

(* The expander goes on with the tape, and leaves it at the end of a word. *)
LEMMA ExpanderIs ==
    ASSUME BytesOnly, NEW F \in States, NEW L \in Nat, NEW n \in Nat,
           NEW c, InStream(c, shake256.rate, F, L)
    PROVE  /\ seedexpander(c, n)[1] = Span(F, shake256.rate, L, n)
           /\ InStream(seedexpander(c, n)[2], shake256.rate, F, L + WordsFor(n))
<1>0. LaneBytes \in Nat \ {0} /\ LaneBytes \in Rates
    BY LaneAssumption, FunctionsFit
<1>r. PICK r \in Rates : r = shake256.rate
    BY FunctionsFit DEF Fits
<1>1. PICK b \in Nat, e \in 0 .. LaneBytes - 1, P \in Nat :
          n \div LaneBytes = b /\ n % LaneBytes = e /\ Times(LaneBytes, b, P) /\ n = P + e
    BY <1>0, BlocksOf
<1>2. n - e = P
    BY <1>0, <1>1
<1>w. PICK whole : whole = keccak_inc_squeeze(P, c, r)
    OBVIOUS
<1>t. PICK tmp : tmp = keccak_inc_squeeze(LaneBytes, whole[2], r)
    OBVIOUS
<1>3. whole[1] = Span(F, r, L, P) /\ InStream(whole[2], r, F, L + P)
    BY <1>r, <1>w, SqueezeIs
<1>4. PICK M \in Nat : M = L + P
    OBVIOUS
<1>5. tmp[1] = Span(F, r, M, LaneBytes) /\ InStream(tmp[2], r, F, M + LaneBytes)
    <2>1. InStream(whole[2], r, F, M)
        BY <1>3, <1>4
    <2>2. LaneBytes \in Nat
        BY LaneAssumption
    <2> QED
        BY <1>0, <1>t, <2>1, <2>2, SqueezeIs
<1>6. seedexpander(c, n) = IF e = 0 THEN whole
                           ELSE <<whole[1] \o SubSeq(tmp[1], 1, e), tmp[2]>>
    BY <1>1, <1>2, <1>r, <1>w, <1>t DEF seedexpander
<1>7. CASE e = 0
    <2>1. P = n /\ WordsFor(n) = n
        BY <1>1, <1>7, WordsAre
    <2> QED
        BY <1>3, <1>6, <1>7, <1>r, <2>1
<1>8. CASE e # 0
    <2>1. WordsFor(n) = P + LaneBytes
        BY <1>1, <1>8, WordsAre
    <2>2. L + (P + LaneBytes) = M + LaneBytes
        BY <1>0, <1>4
    <2>3. e \in Nat /\ IsWithin(M, LaneBytes, 1, e, M, e)
        BY <1>0 DEF IsWithin
    <2>4. SubSeq(tmp[1], 1, e) = Span(F, r, M, e)
        <3>1. PICK l \in Nat : l = LaneBytes
            BY <1>0
        <3>2. IsWithin(M, l, 1, e, M, e)
            BY <2>3, <3>1
        <3>3. SubSeq(Span(F, r, M, l), 1, e) = Span(F, r, M, e)
            BY <3>2, SpanPart
        <3> QED
            BY <1>5, <3>1, <3>3
    <2>5. Span(F, r, L, P) \o Span(F, r, M, e) = Span(F, r, L, n)
        BY <1>1, <1>4, <2>3, SpanOn
    <2>6. PICK x, y : x = whole[1] \o SubSeq(tmp[1], 1, e) /\ y = tmp[2]
        OBVIOUS
    <2>7. seedexpander(c, n) = <<x, y>>
        BY <1>6, <1>8, <2>6
    <2>8. seedexpander(c, n)[1] = x /\ seedexpander(c, n)[2] = y
        BY <2>7
    <2>9. x = Span(F, r, L, n)
        BY <1>3, <2>4, <2>5, <2>6
    <2>10. InStream(y, r, F, L + WordsFor(n))
        BY <1>5, <2>1, <2>2, <2>6
    <2> QED
        BY <1>r, <2>8, <2>9, <2>10
<1> QED
    BY <1>7, <1>8

(* A message and a domain byte, which init absorbs after it.               *)
LEMMA DomainIs ==
    ASSUME BytesOnly, NEW r \in Rates, NEW w \in Seq(Byte), NEW d \in Byte
    PROVE  /\ w \o <<d>> \in Seq(Byte)
           /\ InSponge(keccak_inc_absorb(keccak_inc_absorb(keccak_inc_init, r, w), r, <<d>>),
                       r, w \o <<d>>)
<1>1. PICK z \in Seq(Byte) : z = << >>
    BY EmptySeq
<1>2. z \o w = w
    BY <1>1
<1>3. InSponge(keccak_inc_init, r, z)
    BY <1>1, InitIs
<1>4. InSponge(keccak_inc_absorb(keccak_inc_init, r, w), r, w)
    BY <1>2, <1>3, AbsorbIs
<1>5. PICK y \in Seq(Byte) : y = <<d>>
    <2>1. <<d>> \in Seq(Byte)
        OBVIOUS
    <2> QED
        BY <2>1
<1>6. InSponge(keccak_inc_absorb(keccak_inc_absorb(keccak_inc_init, r, w), r, y), r, w \o y)
    BY <1>4, AbsorbIs
<1>7. w \o y \in Seq(Byte)
    OBVIOUS
<1> QED
    BY <1>5, <1>6, <1>7

(* seedexpander_init leaves the context at the beginning of the tape.      *)
LEMMA ExpanderBegins ==
    ASSUME BytesOnly, NEW w \in Seq(Byte)
    PROVE  /\ w \o <<SEEDEXPANDER_DOMAIN>> \in Seq(Byte)
           /\ InStream(seedexpander_init(w), shake256.rate,
                       Final(w \o <<SEEDEXPANDER_DOMAIN>>, shake256.rate, shake256.p), 0)
<1>r. PICK r \in Rates : r = shake256.rate
    BY FunctionsFit DEF Fits
<1>p. PICK p : p = shake256.p /\ p \in {31, 6}
    BY FunctionsFit DEF Fits
<1>1. PICK d \in Byte : d = SEEDEXPANDER_DOMAIN
    BY DEF SEEDEXPANDER_DOMAIN, Byte
<1>2. PICK c : c = keccak_inc_absorb(keccak_inc_absorb(keccak_inc_init, r, w), r, <<d>>)
    OBVIOUS
<1>3. PICK y \in Seq(Byte) : y = w \o <<d>> /\ InSponge(c, r, y)
    BY <1>2, DomainIs
<1>4. InStream(keccak_inc_finalize(c, r, p), r, Final(y, r, p), 0)
    BY <1>p, <1>3, TapeBegins
<1>5. seedexpander_init(w) = keccak_inc_finalize(c, r, p)
    BY <1>r, <1>p, <1>1, <1>2 DEF seedexpander_init
<1> QED
    BY <1>r, <1>p, <1>1, <1>3, <1>4, <1>5

(* shake256_512_ds gives the first words of the tape.                      *)
LEMMA DomainHashIs ==
    ASSUME BytesOnly, NEW w \in Seq(Byte), NEW d \in Byte
    PROVE  /\ w \o <<d>> \in Seq(Byte)
           /\ 8 * LaneBytes \in Nat
           /\ shake256_512_ds(w, d) = Span(Final(w \o <<d>>, shake256.rate, shake256.p),
                                           shake256.rate, 0, 8 * LaneBytes)
<1>r. PICK r \in Rates : r = shake256.rate
    BY FunctionsFit DEF Fits
<1>p. PICK p : p = shake256.p /\ p \in {31, 6}
    BY FunctionsFit DEF Fits
<1>0. PICK l \in Nat : l = 8 * LaneBytes
    BY LaneAssumption
<1>2. PICK c : c = keccak_inc_absorb(keccak_inc_absorb(keccak_inc_init, r, w), r, <<d>>)
    OBVIOUS
<1>3. PICK y \in Seq(Byte) : y = w \o <<d>> /\ InSponge(c, r, y)
    BY <1>2, DomainIs
<1>4. PICK F \in States : F = Final(y, r, p)
    BY <1>p, FinalIs
<1>5. PICK g : g = keccak_inc_finalize(c, r, p) /\ InStream(g, r, F, 0)
    BY <1>p, <1>3, <1>4, TapeBegins
<1>6. keccak_inc_squeeze(l, g, r)[1] = Span(F, r, 0, l)
    <2>1. PICK z \in Nat : z = 0
        OBVIOUS
    <2>2. InStream(g, r, F, z)
        BY <1>5, <2>1
    <2>3. keccak_inc_squeeze(l, g, r)[1] = Span(F, r, z, l)
        BY <2>2, SqueezeIs
    <2> QED
        BY <2>1, <2>3
<1>7. shake256_512_ds(w, d) = keccak_inc_squeeze(l, g, r)[1]
    BY <1>r, <1>p, <1>0, <1>2, <1>5 DEF shake256_512_ds
<1> QED
    BY <1>r, <1>p, <1>0, <1>3, <1>4, <1>6, <1>7

-----------------------------------------------------------------------------
(* The inductive invariant.                                                *)

(* The state that the whole message leaves, padded.                        *)
Whole == Final(m, f.rate, f.p)

(* How far in the stream the context is.                                   *)
Taken == IF job # "expander" THEN Len(out)
         ELSE IF piece = None THEN 0 ELSE piece.from + WordsFor(Len(piece.bytes))

(* While it absorbs, the context is where the message read so far has brought *)
(* it; from then on what has been given is the beginning of the stream, and *)
(* the context is where that ends.                                         *)
Given ==
    /\ m \in Seq(Byte)
    /\ phase = "absorbing" => InSponge(ctx, f.rate, m)
    /\ phase \in {"idle", "absorbing"} => out = << >>
    /\ phase = "squeezing" => f.digest = 0 /\ InStream(ctx, f.rate, Whole, Taken)
    /\ phase \in {"squeezing", "done"} =>
           Len(out) \in Nat /\ out = Span(Whole, f.rate, 0, Len(out))
    /\ phase = "done" /\ f.digest # 0 => Len(out) = f.digest

(* The last piece is a part of the stream.                                 *)
PieceOfStream ==
    /\ job = "expander" /\ phase = "squeezing"
    /\ piece.from \in Nat /\ piece.bytes \in Seq(Byte)
    /\ piece.bytes = Span(Whole, f.rate, piece.from, Len(piece.bytes))

HashingInv ==
    /\ job \in DOMAIN Functions \cup {"permute"}
    /\ phase \in {"idle", "absorbing", "squeezing", "done"}
    /\ job = "permute" => phase = "idle" /\ piece = None
    /\ job # "permute" => Given
    /\ piece # None => PieceOfStream

(* What is hashed are bytes.                                               *)
LEMMA BytesAre ==
    ASSUME BytesOnly, NEW k \in Nat, NEW n \in Nat
    PROVE  Bytes(k, n) \in Seq(Byte)
<1>1. ASSUME NEW i \in 1..n PROVE Text(k + i) \in Byte
    <2>1. k + i \in Nat
        OBVIOUS
    <2> QED
        BY <2>1 DEF BytesOnly
<1>2. [i \in 1..n |-> Text(k + i)] \in [1..n -> Byte]
    BY <1>1
<1>3. [1..n -> Byte] \subseteq Seq(Byte)
    OBVIOUS
<1> QED
    BY <1>2, <1>3 DEF Bytes

(* The function of the job, and the lengths that come with it.             *)
LEMMA JobFits ==
    ASSUME job \in DOMAIN Functions
    PROVE  Fits(f) /\ job # "permute" /\ Pieces \subseteq Nat
<1>1. Fits(f)
    BY FunctionsFit DEF f
<1>2. job # "permute"
    BY DEF Functions
<1>3. Pieces \subseteq Nat
    BY <1>2, HashingAssumption DEF Pieces, f
<1> QED
    BY <1>1, <1>2, <1>3

(* The invariant holds at first.                                           *)
LEMMA HashingStarts ==
    ASSUME BytesOnly, Init
    PROVE  HashingInv
<1>1. /\ job \in DOMAIN Functions \cup {"permute"}
      /\ m = << >> /\ out = << >> /\ piece = None /\ ctx = keccak_inc_init
      /\ phase \in {"idle", "absorbing"} /\ (job = "permute" => phase = "idle")
    BY DEF Init
<1>2. CASE job # "permute"
    <2>1. PICK r \in Rates : r = f.rate
        BY <1>1, <1>2, JobFits DEF Fits
    <2>2. InSponge(keccak_inc_init, r, << >>)
        BY InitIs
    <2>3. << >> \in Seq(Byte)
        BY EmptySeq
    <2>4. Given
        BY <1>1, <2>1, <2>2, <2>3 DEF Given
    <2> QED
        BY <1>1, <1>2, <2>4 DEF HashingInv
<1>3. CASE job = "permute"
    BY <1>1, <1>3 DEF HashingInv
<1> QED
    BY <1>2, <1>3

(* The job of a behaviour is the same all along, and with it the function. *)
LEMMA SameJob ==
    ASSUME [Next]_vars
    PROVE  job' = job /\ f' = f
<1>1. job' = job
    BY DEF Next, vars, FirstHalf, SecondHalf, Absorb, Finalize, Digest, Squeeze, HashInDomain,
           ExpanderInit, Expand
<1> QED
    BY <1>1 DEF f

(* Only the permutation steps when the permutation is the job.             *)
LEMMA PermuteOnly ==
    ASSUME HashingInv, [Next]_vars, job = "permute"
    PROVE  HashingInv'
<1>1. phase = "idle" /\ piece = None /\ Pieces = {}
    BY DEF HashingInv, Pieces
<1>2. job' = job /\ phase' = phase /\ piece' = piece
    BY <1>1 DEF Next, vars, FirstHalf, SecondHalf, Finalize, Digest
<1> QED
    BY <1>1, <1>2 DEF HashingInv

(* Whatever a hash is given, the context is where the bytes so far bring it. *)
LEMMA AbsorbKeeps ==
    ASSUME BytesOnly, HashingInv, job \in DOMAIN Functions, job' = job, f' = f,
           NEW n \in Pieces, Absorb(n)
    PROVE  HashingInv'
<1>1. PICK r \in Rates : r = f.rate
    BY JobFits DEF Fits
<1>2. /\ phase = "absorbing" /\ phase' = "absorbing" /\ out' = out /\ piece' = piece
      /\ ctx' = keccak_inc_absorb(ctx, r, Bytes(Len(m), n)) /\ m' = m \o Bytes(Len(m), n)
    BY <1>1 DEF Absorb
<1>3. m \in Seq(Byte) /\ InSponge(ctx, r, m) /\ out = << >> /\ piece = None
    BY <1>1, <1>2, JobFits DEF HashingInv, Given, PieceOfStream
<1>4. n \in Nat /\ Len(m) \in Nat
    BY <1>3, JobFits
<1>5. PICK x \in Seq(Byte) : x = Bytes(Len(m), n)
    BY <1>4, BytesAre
<1>6. InSponge(ctx', r, m') /\ m' \in Seq(Byte)
    BY <1>2, <1>3, <1>5, AbsorbIs
<1>7. Given'
    BY <1>1, <1>2, <1>3, <1>6 DEF Given
<1> QED
    BY <1>2, <1>3, <1>7, JobFits DEF HashingInv

(* From finalize on the context is at the beginning of the stream.         *)
LEMMA FinalizeKeeps ==
    ASSUME BytesOnly, HashingInv, job \in DOMAIN Functions, job' = job, f' = f, Finalize
    PROVE  HashingInv'
<1>1. PICK r \in Rates : r = f.rate
    BY JobFits DEF Fits
<1>p. PICK p : p = f.p /\ p \in {31, 6}
    BY JobFits DEF Fits
<1>2. /\ phase = "absorbing" /\ phase' = "squeezing" /\ f.digest = 0
      /\ out' = out /\ piece' = piece /\ m' = m /\ ctx' = keccak_inc_finalize(ctx, r, p)
    BY <1>1, <1>p DEF Finalize
<1>3. m \in Seq(Byte) /\ InSponge(ctx, r, m) /\ out = << >> /\ piece = None
    BY <1>1, <1>2, JobFits DEF HashingInv, Given, PieceOfStream
<1>4. InStream(ctx', r, Final(m, r, p), 0)
    BY <1>2, <1>3, <1>p, TapeBegins
<1>5. Whole' = Final(m, r, p)
    BY <1>1, <1>p, <1>2 DEF Whole
<1>6. Taken' = 0 /\ Len(out') = 0 /\ out' = Span(Whole', r, 0, 0)
    BY <1>2, <1>3, SpanEmpty DEF Taken
<1>7. Given'
    <2>1. InStream(ctx', f'.rate, Whole', Taken')
        BY <1>1, <1>4, <1>5, <1>6
    <2>2. Len(out') \in Nat /\ out' = Span(Whole', f'.rate, 0, Len(out'))
        BY <1>1, <1>6
    <2> QED
        BY <1>2, <1>3, <2>1, <2>2 DEF Given
<1> QED
    BY <1>2, <1>3, <1>7, JobFits DEF HashingInv

(* The digest is the beginning of the stream.                              *)
LEMMA DigestKeeps ==
    ASSUME BytesOnly, HashingInv, job \in DOMAIN Functions, job' = job, f' = f, Digest
    PROVE  HashingInv'
<1>1. Fits(f) /\ f.digest \in Nat /\ f.rate \in Rates /\ f.p \in {31, 6} /\ f.rate \in Nat
    <2>1. Fits(f)
        BY JobFits
    <2>2. PICK r \in Rates : r = f.rate /\ f.digest \in 0..r
        BY <2>1 DEF Fits
    <2>3. r \in Nat
        BY StateSize
    <2> QED
        BY <2>1, <2>2, <2>3 DEF Fits
<1>2. /\ phase = "absorbing" /\ phase' = "done" /\ f.digest # 0
      /\ out' = sha3_inc_finalize(f, ctx) /\ piece' = piece /\ m' = m
    BY DEF Digest
<1>3. m \in Seq(Byte) /\ InSponge(ctx, f.rate, m) /\ piece = None
    BY <1>2, JobFits DEF HashingInv, Given, PieceOfStream
<1>4. PICK W \in States : W = Final(m, f.rate, f.p) /\ out' = Span(W, f.rate, 0, f.digest)
    BY <1>1, <1>2, <1>3, DigestIs, FinalIs
<1>5. Whole' = W
    BY <1>2, <1>4 DEF Whole
<1>6. Len(out') = f.digest
    <2>1. PICK z \in Nat : z = 0
        OBVIOUS
    <2> QED
        BY <1>1, <1>4, <2>1, SpanIs
<1>7. Given'
    <2>2. Len(out') \in Nat /\ out' = Span(Whole', f'.rate, 0, Len(out'))
        BY <1>1, <1>4, <1>5, <1>6
    <2> QED
        BY <1>2, <1>3, <1>6, <2>2 DEF Given
<1> QED
    BY <1>2, <1>3, <1>7, JobFits DEF HashingInv

(* What is squeezed goes on where the output stops.                        *)
LEMMA SqueezeKeeps ==
    ASSUME BytesOnly, HashingInv, job \in DOMAIN Functions, job' = job, f' = f,
           NEW n \in Pieces, Squeeze(n)
    PROVE  HashingInv'
<1>1. PICK r \in Rates : r = f.rate
    BY JobFits DEF Fits
<1>p. PICK p : p = f.p /\ p \in {31, 6}
    BY JobFits DEF Fits
<1>2. /\ phase = "squeezing" /\ phase' = "squeezing" /\ job # "expander"
      /\ out' = out \o keccak_inc_squeeze(n, ctx, r)[1] /\ piece' = piece /\ m' = m
      /\ ctx' = keccak_inc_squeeze(n, ctx, r)[2]
    BY <1>1 DEF Squeeze
<1>3. m \in Seq(Byte) /\ f.digest = 0 /\ piece = None /\ n \in Nat
    BY <1>2, JobFits DEF HashingInv, Given, PieceOfStream
<1>4. PICK W \in States : W = Final(m, r, p)
    BY <1>3, <1>p, FinalIs
<1>5. Whole = W /\ Whole' = W
    BY <1>1, <1>p, <1>2, <1>4 DEF Whole
<1>6. PICK L \in Nat : L = Len(out) /\ out = Span(W, r, 0, L) /\ InStream(ctx, r, W, L)
    BY <1>1, <1>2, <1>5, JobFits DEF HashingInv, Given, Taken
<1>7. keccak_inc_squeeze(n, ctx, r)[1] = Span(W, r, L, n) /\ InStream(ctx', r, W, L + n)
    BY <1>2, <1>3, <1>6, SqueezeIs
<1>8. PICK l \in Nat : l = L + n
    BY <1>3
<1>9. PICK z \in Nat : z = 0 /\ L = z + L
    OBVIOUS
<1>10. out' = Span(W, r, z, l)
    BY <1>2, <1>3, <1>6, <1>7, <1>8, <1>9, SpanOn
<1>11. Len(out') = l
    BY <1>9, <1>10, <1>8, SpanIs
<1>12. Given'
    <2>1. Len(out') \in Nat /\ out' = Span(Whole', f'.rate, 0, Len(out'))
        BY <1>1, <1>5, <1>8, <1>9, <1>10, <1>11
    <2>2. Taken' = l
        BY <1>2, <1>11 DEF Taken
    <2>3. InStream(ctx', f'.rate, Whole', Taken')
        BY <1>1, <1>5, <1>7, <1>8, <2>2
    <2> QED
        BY <1>2, <1>3, <2>1, <2>3 DEF Given
<1> QED
    BY <1>2, <1>3, <1>12, JobFits DEF HashingInv

(* The hash in a domain is given at once.                                  *)
LEMMA DomainKeeps ==
    ASSUME BytesOnly, HashingInv, job \in DOMAIN Functions, job' = job, f' = f,
           NEW n \in Pieces, NEW d \in {G_FCT_DOMAIN, K_FCT_DOMAIN}, HashInDomain(n, d)
    PROVE  HashingInv'
<1>1. /\ job = "ds" /\ phase = "idle" /\ phase' = "done" /\ m' = Bytes(0, n) \o <<d>>
      /\ out' = shake256_512_ds(Bytes(0, n), d) /\ piece' = piece
    BY DEF HashInDomain
<1>2. piece = None
    BY <1>1, JobFits DEF HashingInv, PieceOfStream
<1>3. f = shake256 /\ f.digest = 0
    BY <1>1, FunctionsFit DEF f, Functions
<1>4. d \in Byte /\ n \in Nat
    BY JobFits DEF G_FCT_DOMAIN, K_FCT_DOMAIN, Byte
<1>5. PICK w \in Seq(Byte) : w = Bytes(0, n)
    BY <1>4, BytesAre
<1>6. PICK y \in Seq(Byte) : y = w \o <<d>> /\ y = m'
    BY <1>1, <1>4, <1>5, DomainHashIs
<1>7. PICK l \in Nat : l = 8 * LaneBytes
    BY LaneAssumption
<1>8. PICK r \in Rates : r = f.rate
    BY JobFits DEF Fits
<1>p. PICK p : p = f.p /\ p \in {31, 6}
    BY JobFits DEF Fits
<1>9. PICK W \in States : W = Final(y, r, p)
    BY <1>p, FinalIs
<1>10. Whole' = W
    BY <1>6, <1>8, <1>p, <1>9 DEF Whole
<1>z. PICK z \in Nat : z = 0
    OBVIOUS
<1>11. out' = Span(W, r, z, l)
    BY <1>1, <1>3, <1>4, <1>5, <1>6, <1>7, <1>8, <1>p, <1>9, <1>z, DomainHashIs
<1>12. Len(out') = l
    BY <1>11, SpanIs
<1>13. Given'
    BY <1>1, <1>3, <1>6, <1>8, <1>10, <1>11, <1>12, <1>z DEF Given
<1> QED
    BY <1>1, <1>2, <1>13, JobFits DEF HashingInv

(* The expander begins at the beginning of its stream.                     *)
LEMMA ExpanderInitKeeps ==
    ASSUME BytesOnly, HashingInv, job \in DOMAIN Functions, job' = job, f' = f,
           NEW n \in Pieces, ExpanderInit(n)
    PROVE  HashingInv'
<1>1. /\ job = "expander" /\ phase = "idle" /\ phase' = "squeezing"
      /\ m' = Bytes(0, n) \o <<SEEDEXPANDER_DOMAIN>> /\ ctx' = seedexpander_init(Bytes(0, n))
      /\ out' = out /\ piece' = piece
    BY DEF ExpanderInit
<1>2. piece = None /\ out = << >>
    BY <1>1, JobFits DEF HashingInv, Given, PieceOfStream
<1>3. f = shake256 /\ f.digest = 0
    BY <1>1, FunctionsFit DEF f, Functions
<1>4. n \in Nat
    BY JobFits
<1>5. PICK w \in Seq(Byte) : w = Bytes(0, n)
    BY <1>4, BytesAre
<1>6. PICK r \in Rates : r = f.rate
    BY JobFits DEF Fits
<1>7. m' \in Seq(Byte) /\ InStream(ctx', r, Final(m', r, f.p), 0)
    BY <1>1, <1>3, <1>5, <1>6, ExpanderBegins
<1>8. Whole' = Final(m', r, f.p)
    BY <1>6 DEF Whole
<1>9. Taken' = 0 /\ Len(out') = 0 /\ out' = Span(Whole', r, 0, 0)
    BY <1>1, <1>2, SpanEmpty DEF Taken
<1>10. Given'
    <2>1. InStream(ctx', f'.rate, Whole', Taken')
        BY <1>6, <1>7, <1>8, <1>9
    <2>2. Len(out') \in Nat /\ out' = Span(Whole', f'.rate, 0, Len(out'))
        BY <1>6, <1>9
    <2> QED
        BY <1>1, <1>2, <1>3, <1>7, <2>1, <2>2 DEF Given
<1> QED
    BY <1>1, <1>2, <1>10, JobFits DEF HashingInv

(* The expander goes on from the word in which it stopped.                 *)
LEMMA ExpandKeeps ==
    ASSUME BytesOnly, HashingInv, job \in DOMAIN Functions, job' = job, f' = f,
           NEW n \in Pieces, Expand(n)
    PROVE  HashingInv'
<1>1. PICK r \in Rates : r = f.rate /\ r = shake256.rate
    BY JobFits DEF Fits, Expand, f, Functions
<1>p. PICK p : p = f.p /\ p \in {31, 6}
    BY JobFits DEF Fits
<1>2. /\ job = "expander" /\ phase = "squeezing" /\ phase' = "squeezing"
      /\ piece' = [from |-> Taken, bytes |-> seedexpander(ctx, n)[1]]
      /\ ctx' = seedexpander(ctx, n)[2] /\ out' = out /\ m' = m
    BY DEF Expand, Taken
<1>3. m \in Seq(Byte) /\ f.digest = 0 /\ n \in Nat
    BY <1>2, JobFits DEF HashingInv, Given
<1>4. PICK W \in States : W = Final(m, r, p)
    BY <1>3, <1>p, FinalIs
<1>5. Whole = W /\ Whole' = W
    BY <1>1, <1>p, <1>2, <1>4 DEF Whole
<1>6. PICK L \in Nat : L = Taken
    <2>1. CASE piece = None
        BY <1>2, <2>1 DEF Taken
    <2>2. CASE piece # None
        <3>1. PICK k \in Nat : k = Len(piece.bytes)
            BY <2>2 DEF HashingInv, PieceOfStream
        <3>2. WordsFor(k) \in Nat
            <4>1. LaneBytes \in Rates
                BY FunctionsFit
            <4> QED
                BY <4>1, BlocksOf, WordsAre
        <3>3. piece.from \in Nat
            BY <2>2 DEF HashingInv, PieceOfStream
        <3> QED
            BY <1>2, <2>2, <3>1, <3>2, <3>3 DEF Taken
    <2> QED
        BY <2>1, <2>2
<1>7. /\ InStream(ctx, r, W, L) /\ Len(out) \in Nat /\ out = Span(W, r, 0, Len(out))
    BY <1>1, <1>2, <1>5, <1>6, JobFits DEF HashingInv, Given
<1>8. seedexpander(ctx, n)[1] = Span(W, r, L, n) /\ InStream(ctx', r, W, L + WordsFor(n))
    BY <1>1, <1>2, <1>3, <1>7, ExpanderIs
<1>9. PICK x \in Seq(Byte) : x = Span(W, r, L, n) /\ Len(x) = n
    BY <1>3, SpanIs
<1>10. piece' = [from |-> L, bytes |-> x]
    BY <1>2, <1>6, <1>8, <1>9
<1>11. piece' # None
    BY <1>9, <1>10, HashingAssumption DEF Byte
<1>12. PieceOfStream'
    BY <1>1, <1>2, <1>5, <1>9, <1>10 DEF PieceOfStream
<1>13. Taken' = L + WordsFor(n)
    BY <1>2, <1>9, <1>10, <1>11 DEF Taken
<1>14. Given'
    <2>1. InStream(ctx', f'.rate, Whole', Taken')
        BY <1>1, <1>5, <1>8, <1>13
    <2>2. Len(out') \in Nat /\ out' = Span(Whole', f'.rate, 0, Len(out'))
        BY <1>1, <1>2, <1>5, <1>7
    <2> QED
        BY <1>2, <1>3, <2>1, <2>2 DEF Given
<1> QED
    BY <1>2, <1>12, <1>14, JobFits DEF HashingInv

(* A step that changes nothing that the invariant speaks of.               *)
LEMMA StutterKeeps ==
    ASSUME HashingInv, UNCHANGED vars
    PROVE  HashingInv'
<1>1. job' = job /\ phase' = phase /\ m' = m /\ ctx' = ctx /\ out' = out /\ piece' = piece
    BY DEF vars
<1>2. f' = f
    BY <1>1 DEF f
<1>3. Given' = Given /\ PieceOfStream' = PieceOfStream
    BY <1>1, <1>2 DEF Given, PieceOfStream, Whole, Taken
<1> QED
    BY <1>1, <1>3 DEF HashingInv

(* Every step keeps the invariant.                                         *)
LEMMA HashingSteps ==
    ASSUME BytesOnly, HashingInv, [Next]_vars
    PROVE  HashingInv'
<1>1. CASE job = "permute"
    BY <1>1, PermuteOnly
<1>2. CASE job # "permute"
    <2>1. job \in DOMAIN Functions
        BY <1>2 DEF HashingInv
    <2>2. job' = job /\ f' = f
        BY SameJob
    <2>3. CASE UNCHANGED vars
        BY <2>3, StutterKeeps
    <2>4. CASE \E n \in Pieces : Absorb(n)
        BY <2>1, <2>2, <2>4, AbsorbKeeps
    <2>5. CASE Finalize
        BY <2>1, <2>2, <2>5, FinalizeKeeps
    <2>6. CASE Digest
        BY <2>1, <2>2, <2>6, DigestKeeps
    <2>7. CASE \E n \in Pieces : Squeeze(n)
        BY <2>1, <2>2, <2>7, SqueezeKeeps
    <2>8. CASE \E n \in Pieces, d \in {G_FCT_DOMAIN, K_FCT_DOMAIN} : HashInDomain(n, d)
        BY <2>1, <2>2, <2>8, DomainKeeps
    <2>9. CASE \E n \in Pieces : ExpanderInit(n)
        BY <2>1, <2>2, <2>9, ExpanderInitKeeps
    <2>10. CASE \E n \in Pieces : Expand(n)
        BY <2>1, <2>2, <2>10, ExpandKeeps
    <2>11. ~FirstHalf /\ ~SecondHalf
        BY <1>2 DEF FirstHalf, SecondHalf
    <2> QED
        BY <2>3, <2>4, <2>5, <2>6, <2>7, <2>8, <2>9, <2>10, <2>11 DEF Next
<1> QED
    BY <1>1, <1>2

(* The invariant holds in every behaviour.                                 *)
LEMMA HashingInvariance ==
    ASSUME BytesOnly
    PROVE  Spec => []HashingInv
<1>1. Init => HashingInv
    BY HashingStarts
<1>2. HashingInv /\ [Next]_vars => HashingInv'
    BY HashingSteps
<1> QED
    BY <1>1, <1>2, PTL DEF Spec

-----------------------------------------------------------------------------
(* What the runs check.                                                    *)

(* What the output is in a state of the invariant.                         *)
LEMMA GivenIs ==
    ASSUME BytesOnly, HashingInv, phase \in {"squeezing", "done"}
    PROVE  /\ job \in DOMAIN Functions /\ Fits(f) /\ m \in Seq(Byte) /\ Len(out) \in Nat
           /\ out = Span(Final(m, f.rate, f.p), f.rate, 0, Len(out))
           /\ f.digest # 0 => Len(out) = f.digest
<1>1. job \in DOMAIN Functions
    BY DEF HashingInv
<1>2. Given /\ job # "permute" /\ Fits(f)
    BY <1>1, JobFits DEF HashingInv
<1> QED
    BY <1>1, <1>2 DEF Given, Whole

(***************************************************************************)
(* OutputIsSponge: however a message and an output are cut, for messages   *)
(* of any length, any number of calls, any width of the lanes and any      *)
(* permutation of the state, the incremental functions of fips202.c, the   *)
(* digests and the hash in a domain give the bytes of the sponge.          *)
(***************************************************************************)
THEOREM OutputsAreSponges == BytesOnly => (Spec => []OutputIsSponge)
<1> SUFFICES ASSUME BytesOnly PROVE Spec => []OutputIsSponge
    OBVIOUS
<1>1. HashingInv => OutputIsSponge
    <2> SUFFICES ASSUME HashingInv, phase \in {"squeezing", "done"}
                 PROVE  out = Stream(f, m, Len(out))
        BY DEF OutputIsSponge
    <2>1. Stream(f, m, Len(out)) = Span(Final(m, f.rate, f.p), f.rate, 0, Len(out))
        BY GivenIs, StreamIs DEF Fits
    <2> QED
        BY <2>1, GivenIs
<1> QED
    BY <1>1, HashingInvariance, PTL

(***************************************************************************)
(* OneShotAgrees: shake128, shake256 and sha3_256 to sha3_512 in one call  *)
(* give what any sequence of incremental calls gives.                      *)
(***************************************************************************)
THEOREM OneShotsAgree == BytesOnly => (Spec => []OneShotAgrees)
<1> SUFFICES ASSUME BytesOnly PROVE Spec => []OneShotAgrees
    OBVIOUS
<1>1. HashingInv => OneShotAgrees
    <2> SUFFICES ASSUME HashingInv, phase \in {"squeezing", "done"}
                 PROVE  out = IF f.digest = 0 THEN shake(f, Len(out), m) ELSE sha3(f, m)
        BY DEF OneShotAgrees
    <2>1. shake(f, Len(out), m) = Span(Final(m, f.rate, f.p), f.rate, 0, Len(out))
        BY GivenIs, ShakeIs
    <2>2. sha3(f, m) = Span(Final(m, f.rate, f.p), f.rate, 0, f.digest)
        BY GivenIs, Sha3Is
    <2> QED
        BY <2>1, <2>2, GivenIs
<1> QED
    BY <1>1, HashingInvariance, PTL

(***************************************************************************)
(* ExpanderCutsAtWords: whatever has been asked of the seed expander       *)
(* before, it gives the bytes of one stream of SHAKE256, each piece from   *)
(* the beginning of the word behind the piece before it.                   *)
(***************************************************************************)
THEOREM ExpandersCutAtWords == BytesOnly => (Spec => []ExpanderCutsAtWords)
<1> SUFFICES ASSUME BytesOnly PROVE Spec => []ExpanderCutsAtWords
    OBVIOUS
<1>1. HashingInv => ExpanderCutsAtWords
    <2> SUFFICES ASSUME HashingInv, piece # None
                 PROVE  piece.bytes =
                            LET end == piece.from + Len(piece.bytes)
                            IN  SubSeq(Stream(shake256, m, end), piece.from + 1, end)
        BY DEF ExpanderCutsAtWords
    <2>1. PICK a \in Nat, k \in Nat : a = piece.from /\ k = Len(piece.bytes)
        BY DEF HashingInv, PieceOfStream
    <2>2. PICK b \in Nat : b = a + k
        OBVIOUS
    <2>3. job = "expander" /\ phase = "squeezing" /\ piece.bytes = Span(Whole, f.rate, a, k)
        BY <2>1 DEF HashingInv, PieceOfStream
    <2>4. f = shake256
        BY <2>3 DEF f, Functions
    <2>5. Fits(f) /\ m \in Seq(Byte)
        BY <2>3, GivenIs
    <2>6. PICK r \in Rates : r = f.rate
        BY <2>5 DEF Fits
    <2>7. PICK W \in States : W = Whole
        BY <2>5, FinalIs DEF Fits, Whole
    <2>8. Stream(f, m, b) = Span(W, r, 0, b)
        BY <2>5, <2>6, <2>7, StreamIs DEF Fits, Whole
    <2>9. SubSeq(Span(W, r, 0, b), a + 1, b) = Span(W, r, a, k)
        <3>1. PICK z \in Nat, from \in Nat : z = 0 /\ from = a + 1
            OBVIOUS
        <3>2. IsWithin(z, b, from, b, a, k)
            BY <2>2, <3>1 DEF IsWithin
        <3>3. SubSeq(Span(W, r, z, b), from, b) = Span(W, r, a, k)
            BY <3>2, SpanPart
        <3> QED
            BY <3>1, <3>3
    <2> QED
        BY <2>1, <2>2, <2>3, <2>4, <2>6, <2>7, <2>8, <2>9
<1> QED
    BY <1>1, HashingInvariance, PTL

-----------------------------------------------------------------------------
(* The permutation.                                                        *)

(* The bits of a lane.                                                     *)
Bits == 0..63

LaneStates == [Lanes -> SUBSET Bits]

(* Lanes stay lanes.                                                       *)
LEMMA XorOfLanes ==
    ASSUME NEW a \in SUBSET Bits, NEW b \in SUBSET Bits
    PROVE  a (+) b \in SUBSET Bits
BY DEF (+), SymDiff

(* A rotated lane is a lane.                                               *)
LEMMA RotatedLane ==
    ASSUME NEW a \in SUBSET Bits, NEW k \in Nat
    PROVE  ROL(a, k) \in SUBSET Bits
<1>1. ASSUME NEW b \in a PROVE (b + k) % 64 \in Bits
    BY DEF Bits
<1> QED
    BY <1>1 DEF ROL

(* A sequence of five written as a function of its places.                 *)
LEMMA FiveIs ==
    ASSUME NEW T, NEW h \in [1..5 -> T]
    PROVE  << >> \o h = h
<1>1. h \in Seq(T)
    <2>1. PICK n \in Nat : n = 5
        OBVIOUS
    <2>2. h \in [1..n -> T]
        BY <2>1
    <2> QED
        BY <2>2
<1> QED
    BY <1>1, ConcatEmptySeq

(* The parity of column x.                                                 *)
Column(s, x) == s[x] (+) s[x + 5] (+) s[x + 10] (+) s[x + 15] (+) s[x + 20]

(* The parity of a column is a lane.                                       *)
LEMMA ColumnIs ==
    ASSUME NEW s \in LaneStates, NEW x \in 0..4
    PROVE  Column(s, x) \in SUBSET Bits
<1>1. /\ s[x] \in SUBSET Bits /\ s[x + 5] \in SUBSET Bits /\ s[x + 10] \in SUBSET Bits
      /\ s[x + 15] \in SUBSET Bits /\ s[x + 20] \in SUBSET Bits
    BY DEF LaneStates, Lanes
<1>2. s[x] (+) s[x + 5] \in SUBSET Bits
    BY <1>1, XorOfLanes
<1>3. s[x] (+) s[x + 5] (+) s[x + 10] \in SUBSET Bits
    BY <1>1, <1>2, XorOfLanes
<1>4. s[x] (+) s[x + 5] (+) s[x + 10] (+) s[x + 15] \in SUBSET Bits
    BY <1>1, <1>3, XorOfLanes
<1> QED
    BY <1>1, <1>4, XorOfLanes DEF Column

(* prepareTheta computes the parities of the columns.                      *)
LEMMA PrepareIs ==
    ASSUME NEW s \in LaneStates
    PROVE  \A x \in 0..4 : prepareTheta(s)[x + 1] = Column(s, x)
<1> DEFINE h == [x \in 1..5 |-> s[x - 1] (+) s[x + 4] (+) s[x + 9] (+) s[x + 14] (+) s[x + 19]]
<1>1. ASSUME NEW x \in 0..4 PROVE h[x + 1] = Column(s, x)
    <2>1. /\ x + 1 \in 1..5 /\ (x + 1) - 1 = x /\ (x + 1) + 4 = x + 5 /\ (x + 1) + 9 = x + 10
          /\ (x + 1) + 14 = x + 15 /\ (x + 1) + 19 = x + 20
        OBVIOUS
    <2> QED
        BY <2>1 DEF Column
<1>2. ASSUME NEW x \in 1..5 PROVE h[x] \in SUBSET Bits
    <2>1. x - 1 \in 0..4 /\ (x - 1) + 1 = x
        OBVIOUS
    <2> HIDE DEF h
    <2>2. h[x] = Column(s, x - 1)
        BY <1>1, <2>1
    <2> QED
        BY <2>1, <2>2, ColumnIs
<1>3. h \in [1..5 -> SUBSET Bits]
    BY <1>2
<1>4. prepareTheta(s) = << >> \o h
    BY DEF prepareTheta
<1> HIDE DEF h
<1>5. prepareTheta(s) = h
    BY <1>3, <1>4, FiveIs
<1> QED
    BY <1>1, <1>5

(* Lane <<x, y>> behind the step theta.                                    *)
Stirred(s, x, y) ==
    s[x + 5 * y] (+) (Column(s, (x + 4) % 5) (+) ROL(Column(s, (x + 1) % 5), 1))

(* What theta leaves are lanes.                                            *)
LEMMA StirredIs ==
    ASSUME NEW s \in LaneStates, NEW x \in 0..4, NEW y \in 0..4
    PROVE  Stirred(s, x, y) \in SUBSET Bits
<1>1. s[x + 5 * y] \in SUBSET Bits
    BY DEF LaneStates, Lanes
<1>2. (x + 4) % 5 \in 0..4 /\ (x + 1) % 5 \in 0..4 /\ 1 \in Nat
    OBVIOUS
<1>3. /\ Column(s, (x + 4) % 5) \in SUBSET Bits
      /\ ROL(Column(s, (x + 1) % 5), 1) \in SUBSET Bits
    BY <1>2, ColumnIs, RotatedLane
<1> QED
    BY <1>1, <1>3, XorOfLanes DEF Stirred

(* The step theta of FIPS 202 is what the program computes with D.         *)
LEMMA ThetaIs ==
    ASSUME NEW s \in LaneStates, NEW x \in 0..4, NEW y \in 0..4
    PROVE  Theta(Grid(s))[<<x, y>>] = Stirred(s, x, y)
<1> DEFINE G == Grid(s)
           C == [z \in 0..4 |-> G[<<z, 0>>] (+) G[<<z, 1>>] (+) G[<<z, 2>>] (+) G[<<z, 3>>] (+) G[<<z, 4>>]]
<1>1. ASSUME NEW z \in 0..4, NEW u \in 0..4 PROVE G[<<z, u>>] = s[z + 5 * u]
    BY DEF Grid, Coordinates
<1>2. ASSUME NEW z \in 0..4 PROVE C[z] = Column(s, z)
    <2>1. /\ G[<<z, 0>>] = s[z + 5 * 0] /\ G[<<z, 1>>] = s[z + 5 * 1] /\ G[<<z, 2>>] = s[z + 5 * 2]
          /\ G[<<z, 3>>] = s[z + 5 * 3] /\ G[<<z, 4>>] = s[z + 5 * 4]
        BY <1>1
    <2>2. /\ z + 5 * 0 = z /\ z + 5 * 1 = z + 5 /\ z + 5 * 2 = z + 10 /\ z + 5 * 3 = z + 15
          /\ z + 5 * 4 = z + 20
        OBVIOUS
    <2> HIDE DEF G
    <2> QED
        BY <2>1, <2>2 DEF Column
<1>3. Theta(G)[<<x, y>>] = G[<<x, y>>] (+) (C[(x + 4) % 5] (+) ROL(C[(x + 1) % 5], 1))
    <2>1. <<x, y>> \in Coordinates /\ <<x, y>>[1] = x /\ <<x, y>>[2] = y
        BY DEF Coordinates
    <2> HIDE DEF G
    <2> QED
        BY <2>1 DEF Theta
<1>4. (x + 4) % 5 \in 0..4 /\ (x + 1) % 5 \in 0..4
    OBVIOUS
<1> HIDE DEF G, C
<1> QED
    BY <1>1, <1>2, <1>3, <1>4 DEF Stirred, G

(* Where a lane comes from and how far it is rotated.                      *)
LEMMA SourceIs ==
    ASSUME NEW x \in 0..4, NEW y \in 0..4
    PROVE  LET k == 5 * y + x + 1
               u == (x + 3 * y) % 5
           IN  /\ u \in 0..4 /\ Source[k] = u + 5 * x /\ Source[k] % 5 = u
               /\ k \in 1..25 /\ Rotation[k] \in Nat
<1>2. CASE x = 0
    BY <1>2 DEF Source, Rotation
<1>3. CASE x = 1
    BY <1>3 DEF Source, Rotation
<1>4. CASE x = 2
    BY <1>4 DEF Source, Rotation
<1>5. CASE x = 3
    BY <1>5 DEF Source, Rotation
<1>6. CASE x = 4
    BY <1>6 DEF Source, Rotation
<1> QED
    BY <1>2, <1>3, <1>4, <1>5, <1>6

(* The lanes of the rows that chi takes: BCa .. BCu of group y.            *)
Turned(s, x, y) ==
    ROL(Stirred(s, (x + 3 * y) % 5, x), Rotation[5 * y + x + 1])

(* What rho and pi leave are lanes.                                        *)
LEMMA TurnedIs ==
    ASSUME NEW s \in LaneStates, NEW x \in 0..4, NEW y \in 0..4
    PROVE  Turned(s, x, y) \in SUBSET Bits
BY SourceIs, StirredIs, RotatedLane DEF Turned

(* Lane <<x, y>> behind the step chi.                                      *)
Chosen(s, x, y) ==
    Turned(s, x, y) (+) (Turned(s, (x + 2) % 5, y) \ Turned(s, (x + 1) % 5, y))

(* The lanes before the rounds' constant, in the order of FIPS 202.        *)
LEMMA StepsAre ==
    ASSUME TablesAgree, NEW s \in LaneStates, NEW x \in 0..4, NEW y \in 0..4
    PROVE  Chi(Pi(Rho(Theta(Grid(s)))))[<<x, y>>] = Chosen(s, x, y)
<1> DEFINE G == Theta(Grid(s))
           P == Pi(Rho(G))
<1>1. ASSUME NEW z \in 0..4, NEW u \in 0..4 PROVE P[<<z, u>>] = Turned(s, z, u)
    <2>1. PICK val \in 0..4 : val = (z + 3 * u) % 5
        OBVIOUS
    <2>2. <<z, u>> \in Coordinates /\ <<val, z>> \in Coordinates
        BY DEF Coordinates
    <2>3. G[<<val, z>>] = Stirred(s, val, z)
        BY ThetaIs
    <2>4. Rotation[5 * u + z + 1] = RhoOffset[<<val, z>>]
        BY <2>1 DEF TablesAgree
    <2> HIDE DEF G
    <2>5. Rho(G)[<<val, z>>] = ROL(G[<<val, z>>], RhoOffset[<<val, z>>])
        BY <2>2 DEF Rho
    <2>6. P[<<z, u>>] = Rho(G)[<<val, z>>]
        BY <2>1, <2>2 DEF Pi
    <2> QED
        BY <2>1, <2>3, <2>4, <2>5, <2>6 DEF Turned
<1> HIDE DEF P
<1>2. <<x, y>> \in Coordinates /\ <<x, y>>[1] = x /\ <<x, y>>[2] = y
    BY DEF Coordinates
<1>3. Chi(P)[<<x, y>>] =
          P[<<x, y>>] (+) (((0..63) \ P[<<(x + 1) % 5, y>>]) \cap P[<<(x + 2) % 5, y>>])
    BY <1>2 DEF Chi
<1>4. (x + 1) % 5 \in 0..4 /\ (x + 2) % 5 \in 0..4
    OBVIOUS
<1>5. PICK b, c : /\ b = Turned(s, (x + 1) % 5, y) /\ c = Turned(s, (x + 2) % 5, y)
                  /\ c \in SUBSET Bits
    BY <1>4, TurnedIs
<1>6. ((0..63) \ b) \cap c = c \ b
    BY <1>5 DEF Bits
<1>7. /\ P[<<x, y>>] = Turned(s, x, y) /\ P[<<(x + 1) % 5, y>>] = b
      /\ P[<<(x + 2) % 5, y>>] = c
    BY <1>1, <1>4, <1>5
<1>8. Chi(P)[<<x, y>>] = Turned(s, x, y) (+) (c \ b)
    BY <1>3, <1>6, <1>7
<1> QED
    BY <1>5, <1>8 DEF Chosen, P, G

(* The groups of lanes that the program computes.                          *)
LEMMA GroupsAre ==
    ASSUME NEW s \in LaneStates, NEW constant, NEW k \in Lanes
    PROVE  thetaRhoPiChiIota(s, prepareTheta(s), constant)[k] =
               IF k = 0 THEN Chosen(s, 0, 0) (+) constant ELSE Chosen(s, k % 5, k \div 5)
<1> DEFINE BC == prepareTheta(s)
           d == [x \in 1..5 |-> BC[((x + 3) % 5) + 1] (+) ROL(BC[(x % 5) + 1], 1)]
           D == << >> \o d
           row(y) == [x \in 1..5 |->
                          ROL(s[Source[5 * (y - 1) + x]] (+) D[(Source[5 * (y - 1) + x] % 5) + 1],
                              Rotation[5 * (y - 1) + x])]
           rows == [y \in 1..5 |-> << >> \o row(y)]
           group == << >> \o rows
<1>1. thetaRhoPiChiIota(s, BC, constant) =
          [l \in Lanes |-> IF l = 0 THEN chi(group[1], 0) (+) constant
                           ELSE chi(group[(l \div 5) + 1], l % 5)]
    BY Zenon DEF thetaRhoPiChiIota
<1>2. ASSUME NEW u \in 0..4
      PROVE  d[u + 1] = Column(s, (u + 4) % 5) (+) ROL(Column(s, (u + 1) % 5), 1)
    <2>1. /\ u + 1 \in 1..5 /\ ((u + 1) + 3) % 5 = (u + 4) % 5 /\ (u + 4) % 5 \in 0..4
          /\ (u + 1) % 5 \in 0..4
        OBVIOUS
    <2>2. BC[((u + 4) % 5) + 1] = Column(s, (u + 4) % 5) /\ BC[((u + 1) % 5) + 1] = Column(s, (u + 1) % 5)
        BY <2>1, PrepareIs
    <2> HIDE DEF BC
    <2> QED
        BY <2>1, <2>2
<1>3. ASSUME NEW x \in 1..5 PROVE d[x] \in SUBSET Bits
    <2>1. PICK u \in 0..4 : x = u + 1
        <3>1. x - 1 \in 0..4 /\ x = (x - 1) + 1
            OBVIOUS
        <3> QED
            BY <3>1
    <2>2. (u + 4) % 5 \in 0..4 /\ (u + 1) % 5 \in 0..4 /\ 1 \in Nat
        OBVIOUS
    <2>3. /\ Column(s, (u + 4) % 5) \in SUBSET Bits
          /\ ROL(Column(s, (u + 1) % 5), 1) \in SUBSET Bits
        BY <2>2, ColumnIs, RotatedLane
    <2> HIDE DEF d
    <2> QED
        BY <1>2, <2>1, <2>3, XorOfLanes
<1>4. d \in [1..5 -> SUBSET Bits]
    BY <1>3
<1> HIDE DEF d
<1>5. D = d
    BY <1>4, FiveIs
<1> HIDE DEF D
<1>6. ASSUME NEW x \in 0..4, NEW y \in 0..4 PROVE row(y + 1)[x + 1] = Turned(s, x, y)
    <2>1. PICK k1 : k1 = 5 * y + x + 1
        OBVIOUS
    <2>2. PICK u : u = (x + 3 * y) % 5
        OBVIOUS
    <2>3. u \in 0..4 /\ Source[k1] = u + 5 * x /\ Source[k1] % 5 = u
        BY <2>1, <2>2, SourceIs
    <2>4. 5 * ((y + 1) - 1) + (x + 1) = k1 /\ x + 1 \in 1..5
        BY <2>1
    <2>5. row(y + 1)[x + 1] = ROL(s[Source[k1]] (+) D[(Source[k1] % 5) + 1], Rotation[k1])
        BY <2>4
    <2>6. D[u + 1] = Column(s, (u + 4) % 5) (+) ROL(Column(s, (u + 1) % 5), 1)
        BY <1>2, <1>5, <2>3
    <2> QED
        BY <2>1, <2>2, <2>3, <2>5, <2>6 DEF Turned, Stirred
<1>7. ASSUME NEW y \in 0..4 PROVE row(y + 1) \in [1..5 -> SUBSET Bits]
    <2>1. ASSUME NEW x \in 1..5 PROVE row(y + 1)[x] \in SUBSET Bits
        <3>1. PICK u \in 0..4 : x = u + 1
            <4>1. x - 1 \in 0..4 /\ x = (x - 1) + 1
                OBVIOUS
            <4> QED
                BY <4>1
        <3> HIDE DEF row
        <3> QED
            BY <1>6, <3>1, TurnedIs
    <2> QED
        BY <2>1
<1> HIDE DEF row
<1>8. ASSUME NEW y \in 0..4 PROVE rows[y + 1] = row(y + 1)
    <2>1. y + 1 \in 1..5
        OBVIOUS
    <2>2. << >> \o row(y + 1) = row(y + 1)
        BY <1>7, FiveIs
    <2> QED
        BY <2>1, <2>2
<1>9. rows \in [1..5 -> [1..5 -> SUBSET Bits]]
    <2>1. ASSUME NEW y \in 1..5 PROVE rows[y] \in [1..5 -> SUBSET Bits]
        <3>1. PICK u \in 0..4 : y = u + 1
            <4>1. y - 1 \in 0..4 /\ y = (y - 1) + 1
                OBVIOUS
            <4> QED
                BY <4>1
        <3> HIDE DEF rows
        <3> QED
            BY <1>7, <1>8, <3>1
    <2> QED
        BY <2>1
<1> HIDE DEF rows
<1>10. group = rows
    BY <1>9, FiveIs
<1> HIDE DEF group
<1>11. ASSUME NEW x \in 0..4, NEW y \in 0..4 PROVE chi(group[y + 1], x) = Chosen(s, x, y)
    <2>1. (x + 1) % 5 \in 0..4 /\ (x + 2) % 5 \in 0..4
        OBVIOUS
    <2>2. PICK b : b = group[y + 1] /\ b = row(y + 1)
        BY <1>8, <1>10
    <2>3. /\ b[x + 1] = Turned(s, x, y) /\ b[((x + 2) % 5) + 1] = Turned(s, (x + 2) % 5, y)
          /\ b[((x + 1) % 5) + 1] = Turned(s, (x + 1) % 5, y)
        BY <1>6, <2>1, <2>2
    <2> QED
        BY <2>2, <2>3 DEF chi, Chosen
<1>12. k % 5 \in 0..4 /\ k \div 5 \in 0..4
    BY DEF Lanes
<1>13. chi(group[(k \div 5) + 1], k % 5) = Chosen(s, k % 5, k \div 5)
    BY <1>11, <1>12
<1>14. chi(group[1], 0) = Chosen(s, 0, 0)
    <2>1. PICK z \in 0..4 : z = 0 /\ z + 1 = 1
        OBVIOUS
    <2>2. chi(group[z + 1], z) = Chosen(s, z, z)
        BY <1>11
    <2> QED
        BY <2>1, <2>2
<1> HIDE DEF BC
<1> QED
    BY <1>1, <1>13, <1>14 DEF BC

(* A round of the program is a round of FIPS 202.                          *)
LEMMA RoundIs ==
    ASSUME TablesAgree, NEW s \in LaneStates, NEW i \in 0 .. NROUNDS - 1, NEW t,
           t = thetaRhoPiChiIota(s, prepareTheta(s), KeccakF_RoundConstants[i + 1])
    PROVE  t \in LaneStates /\ Grid(t) = Rnd(Grid(s), i)
<1>1. PICK rc : rc = KeccakF_RoundConstants[i + 1] /\ rc = RoundConstant(i)
    BY DEF TablesAgree
<1>2. rc \in SUBSET Bits
    BY <1>1 DEF KeccakF_RoundConstants, NROUNDS, Bits
<1>3. ASSUME NEW x \in 0..4, NEW y \in 0..4 PROVE Chosen(s, x, y) \in SUBSET Bits
    <2>1. (x + 1) % 5 \in 0..4 /\ (x + 2) % 5 \in 0..4
        OBVIOUS
    <2>2. /\ Turned(s, x, y) \in SUBSET Bits
          /\ Turned(s, (x + 2) % 5, y) \ Turned(s, (x + 1) % 5, y) \in SUBSET Bits
        BY <2>1, TurnedIs
    <2> QED
        BY <2>2, XorOfLanes DEF Chosen
<1>4. ASSUME NEW k \in Lanes
      PROVE  t[k] = IF k = 0 THEN Chosen(s, 0, 0) (+) rc ELSE Chosen(s, k % 5, k \div 5)
    BY <1>1, GroupsAre
<1>5. t \in LaneStates
    <2>1. ASSUME NEW k \in Lanes PROVE t[k] \in SUBSET Bits
        <3>1. k % 5 \in 0..4 /\ k \div 5 \in 0..4 /\ 0 \in 0..4
            BY DEF Lanes
        <3>2. Chosen(s, 0, 0) (+) rc \in SUBSET Bits
            BY <1>2, <1>3, <3>1, XorOfLanes
        <3> QED
            BY <1>3, <1>4, <3>1, <3>2
    <2>2. t = [k \in Lanes |-> t[k]]
        BY DEF thetaRhoPiChiIota
    <2> QED
        BY <2>1, <2>2 DEF LaneStates
<1>6. ASSUME NEW c \in Coordinates PROVE Grid(t)[c] = Rnd(Grid(s), i)[c]
    <2>1. PICK x \in 0..4, y \in 0..4 : c = <<x, y>>
        BY DEF Coordinates
    <2>2. PICK H : H = Chi(Pi(Rho(Theta(Grid(s))))) /\ DOMAIN H = Coordinates
        <3>1. DOMAIN Chi(Pi(Rho(Theta(Grid(s))))) = Coordinates
            BY DEF Chi
        <3> QED
            BY <3>1
    <2>3. H[c] = Chosen(s, x, y)
        BY <2>1, <2>2, StepsAre
    <2>4. Rnd(Grid(s), i)[c] = IF c = <<0, 0>> THEN H[c] (+) rc ELSE H[c]
        BY <1>1, <2>2 DEF Rnd, Iota
    <2>5. Grid(t)[c] = t[x + 5 * y]
        BY <2>1 DEF Grid
    <2>6. x + 5 * y \in Lanes /\ (x + 5 * y) % 5 = x /\ (x + 5 * y) \div 5 = y
        BY DEF Lanes
    <2>7. t[x + 5 * y] = IF x + 5 * y = 0 THEN Chosen(s, 0, 0) (+) rc ELSE Chosen(s, x, y)
        BY <1>4, <2>6
    <2>8. x + 5 * y = 0 <=> (x = 0 /\ y = 0)
        OBVIOUS
    <2>9. c = <<0, 0>> <=> (x = 0 /\ y = 0)
        BY <2>1
    <2> QED
        BY <2>3, <2>4, <2>5, <2>7, <2>8, <2>9
<1>7. Grid(t) = [c \in Coordinates |-> Grid(t)[c]]
    BY DEF Grid
<1>8. Rnd(Grid(s), i) = [c \in Coordinates |-> Rnd(Grid(s), i)[c]]
    BY DEF Rnd, Iota, Chi
<1> QED
    BY <1>5, <1>6, <1>7, <1>8

(* Lanes stay lanes, and there are no more rounds than NROUNDS.            *)
PermutationInv ==
    job = "permute" => /\ A \in LaneStates /\ round \in 0..NROUNDS
                       /\ round % 2 = 1 => E \in LaneStates

(* The first half of the loop's body.                                      *)
LEMMA FirstHalfIs ==
    ASSUME TablesAgree, PermutationInv, FirstHalf
    PROVE  PermutationInv' /\ round % 2 = 0 /\ Grid(E') = Rnd(Grid(A), round)
<1>1. job = "permute" /\ job' = job /\ A \in LaneStates /\ A' = A
    BY DEF PermutationInv, FirstHalf
<1>2. /\ round \in 0 .. NROUNDS - 1 /\ round % 2 = 0 /\ round' = round + 1
      /\ round' \in 0..NROUNDS
    BY <1>1 DEF PermutationInv, FirstHalf, NROUNDS
<1>3. E' = thetaRhoPiChiIota(A, prepareTheta(A), KeccakF_RoundConstants[round + 1])
    BY DEF FirstHalf
<1>4. E' \in LaneStates /\ Grid(E') = Rnd(Grid(A), round)
    BY <1>1, <1>2, <1>3, RoundIs
<1> QED
    BY <1>1, <1>2, <1>4 DEF PermutationInv

(* The second half of the loop's body.                                     *)
LEMMA SecondHalfIs ==
    ASSUME TablesAgree, PermutationInv, SecondHalf
    PROVE  PermutationInv' /\ round % 2 = 1 /\ Grid(A') = Rnd(Grid(E), round)
<1>1. job = "permute" /\ job' = job /\ E \in LaneStates
    BY DEF PermutationInv, SecondHalf
<1>2. /\ round \in 0 .. NROUNDS - 1 /\ round % 2 = 1 /\ round' = round + 1
      /\ round' \in 0..NROUNDS /\ round' % 2 # 1
    BY <1>1 DEF PermutationInv, SecondHalf, NROUNDS
<1>3. A' = thetaRhoPiChiIota(E, prepareTheta(E), KeccakF_RoundConstants[round + 1])
    BY DEF SecondHalf
<1>4. A' \in LaneStates /\ Grid(A') = Rnd(Grid(E), round)
    BY <1>1, <1>2, <1>3, RoundIs
<1> QED
    BY <1>1, <1>2, <1>4 DEF PermutationInv

(* No other step touches the permutation.                                  *)
LEMMA OtherSteps ==
    ASSUME [Next]_vars, ~FirstHalf, ~SecondHalf
    PROVE  job' = job /\ A' = A /\ E' = E /\ round' = round
BY DEF Next, vars, permutation, Absorb, Finalize, Digest, Squeeze, HashInDomain, ExpanderInit, Expand

(* Lanes stay lanes in every behaviour.                                    *)
LEMMA PermutationInvariance ==
    ASSUME TablesAgree
    PROVE  Spec => []PermutationInv
<1>1. Init => PermutationInv
    <2> SUFFICES ASSUME Init, job = "permute" PROVE A \in LaneStates /\ round = 0
        BY DEF PermutationInv, NROUNDS
    <2> QED
        BY HashingAssumption DEF Init, LaneStates, Bits
<1>2. PermutationInv /\ [Next]_vars => PermutationInv'
    <2> SUFFICES ASSUME PermutationInv, [Next]_vars PROVE PermutationInv'
        OBVIOUS
    <2>1. CASE FirstHalf
        BY <2>1, FirstHalfIs
    <2>2. CASE SecondHalf
        BY <2>2, SecondHalfIs
    <2>3. CASE ~FirstHalf /\ ~SecondHalf
        BY <2>3, OtherSteps DEF PermutationInv
    <2> QED
        BY <2>1, <2>2, <2>3
<1> QED
    BY <1>1, <1>2, PTL DEF Spec

(***************************************************************************)
(* RoundsFollowFIPS202: from any state of 25 lanes, every half of the      *)
(* unrolled loop of KeccakF1600_StatePermute is the round of FIPS 202 that *)
(* is its turn, the lanes being taken in place, complemented and rotated   *)
(* in the order that the program has instead of step by step.              *)
(***************************************************************************)
THEOREM EveryRoundFollows == TablesAgree => (Spec => RoundsFollowFIPS202)
<1> SUFFICES ASSUME TablesAgree PROVE Spec => RoundsFollowFIPS202
    OBVIOUS
<1>1. PermutationInv /\ [Next]_vars =>
          [round' # round =>
              IF round % 2 = 0 THEN Grid(E') = Rnd(Grid(A), round)
              ELSE Grid(A') = Rnd(Grid(E), round)]_vars
    <2> SUFFICES ASSUME PermutationInv, [Next]_vars, round' # round
                 PROVE  IF round % 2 = 0 THEN Grid(E') = Rnd(Grid(A), round)
                        ELSE Grid(A') = Rnd(Grid(E), round)
        OBVIOUS
    <2>1. FirstHalf \/ SecondHalf
        BY OtherSteps
    <2>2. CASE FirstHalf
        BY <2>2, FirstHalfIs
    <2>3. CASE SecondHalf
        BY <2>3, SecondHalfIs
    <2> QED
        BY <2>1, <2>2, <2>3
<1> QED
    BY <1>1, PermutationInvariance, PTL DEF Spec, RoundsFollowFIPS202
=============================================================================
