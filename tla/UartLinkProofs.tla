--------------------------- MODULE UartLinkProofs ---------------------------
(***************************************************************************)
(* Proof that uart.vhd keeps the protocol of ByteUart, which the registers *)
(* around it and the console rely on, for every width of the data, every   *)
(* rate of the pulses and every clock of the host.  Which hosts are        *)
(* understood depends on those numbers: the samples are bounded in time,   *)
(* for any divider whose pulses do not add up to the baud period, and with *)
(* the numbers of the core this gives the hosts whose frames are heard,    *)
(* and that a host that keeps the baud rate is not one of them.            *)
(***************************************************************************)
EXTENDS UartLink, SequenceTheorems, FiniteSetTheorems, TLAPS

-----------------------------------------------------------------------------
(* The inductive invariant: how far a frame has come in either direction,  *)
(* what the line and the receiver's buffer hold, and that tx_ena is a      *)
(* pulse that only the device gives.                                       *)

Receiver ==
    /\ rxState \in {"idle", "receive"}
    /\ rxBusy = (rxState = "receive")
    /\ rxState = "receive" => osCount \in 0..(OsRate - 1) /\ rxCount \in 0..(DWidth + 1)
    /\ rxBuffer \in Seq({0, 1}) /\ Len(rxBuffer) = DWidth + 2

Transmitter ==
    /\ txState \in {"idle", "transmit"}
    /\ txState = "transmit" => txCount \in 0..(DWidth + 3)

Host ==
    /\ talker \in {"host", "device"}
    /\ hostPeriod \in Nat \ {0} /\ byte \in Bits(DWidth)
    /\ time \in Int
    /\ txEna \in BOOLEAN
    /\ txEna => talker = "device" /\ time = 1

Inv == Receiver /\ Transmitter /\ Host

-----------------------------------------------------------------------------
(* Bits.                                                                   *)

LEMMA ParityIsBit ==
    ASSUME NEW n \in Nat, NEW bits \in Bits(n)
    PROVE  EvenParity(bits) \in {0, 1}
<1> DEFINE ones == {i \in DOMAIN bits : bits[i] = 1}
<1>1. IsFiniteSet(1..n)
    BY FS_Interval
<1>2. ones \subseteq 1..n
    BY DEF Bits
<1>3. Cardinality(ones) \in Nat
    BY <1>1, <1>2, FS_Subset, FS_CardinalityType
<1> HIDE DEF ones
<1>4. Cardinality(ones) % 2 \in {0, 1}
    BY <1>3
<1> QED BY <1>4 DEF EvenParity, ones

LEMMA ShiftedBuffer ==
    ASSUME NEW buffer \in Seq({0, 1}), Len(buffer) = DWidth + 2, NEW bit \in {0, 1}
    PROVE  Shifted(buffer, bit) \in Seq({0, 1}) /\ Len(Shifted(buffer, bit)) = DWidth + 2
BY LinkAssumption, HeadTailProperties DEF Shifted

(* The data bits of a buffer are data.                                     *)
LEMMA BufferHoldsData ==
    ASSUME NEW buffer \in Seq({0, 1}), Len(buffer) = DWidth + 2
    PROVE  SubSeq(buffer, 2, DWidth + 1) \in Bits(DWidth)
<1>1. DWidth \in Nat
    BY LinkAssumption
<1>2. \A i \in 2..(DWidth + 1) : buffer[i] \in {0, 1}
    BY <1>1
<1>3. SubSeq(buffer, 2, DWidth + 1) \in Seq({0, 1})
    BY <1>1, <1>2, SubSeqProperties
<1>4. Len(SubSeq(buffer, 2, DWidth + 1)) = DWidth
    BY <1>1, <1>2, SubSeqProperties
<1> QED BY <1>3, <1>4, LenProperties DEF Bits

(* What is on the line is a bit.                                           *)
LEMMA LineIsBit == ASSUME Host PROVE rx \in {0, 1}
<1>1. CASE ~(talker = "host" /\ time >= 0 /\ ~Over)
    BY <1>1 DEF rx
<1>2. CASE talker = "host" /\ time >= 0 /\ ~Over
  <2>1. DWidth \in Nat
      BY LinkAssumption
  <2>2. BitAt(time) \in 1..(DWidth + 3)
    <3>1. (100 * time) \div hostPeriod \in Nat
        BY <1>2 DEF Host
    <3> QED BY <1>2, <2>1, <3>1 DEF Over, BitAt
  <2>3. byte \in Seq({0, 1}) /\ Len(byte) = DWidth
      BY <2>1 DEF Host, Bits
  <2>4. <<EvenParity(byte), 1>> \in Seq({0, 1}) /\ Len(<<EvenParity(byte), 1>>) = 2
      BY <2>1, ParityIsBit DEF Host
  <2>5. FrameBits(byte) \in Seq({0, 1}) /\ Len(FrameBits(byte)) = DWidth + 3
      BY <2>1, <2>3, <2>4, ConcatProperties DEF FrameBits
  <2> QED BY <1>2, <2>2, <2>5, ElementOfSeq DEF rx
<1> QED BY <1>1, <1>2

-----------------------------------------------------------------------------
(* The state after reset.                                                  *)
LEMMA InitInv == Init => Inv
<1> SUFFICES ASSUME Init PROVE Inv
    OBVIOUS
<1>1. Receiver
  <2>1. DWidth + 2 \in Nat
      BY LinkAssumption
  <2>2. Repeated(0, DWidth + 2) \in Seq({0, 1}) /\ Len(Repeated(0, DWidth + 2)) = DWidth + 2
      BY <2>1 DEF Repeated
  <2> QED BY <2>2 DEF Init, Reset, Receiver
<1>2. Transmitter
    BY DEF Init, Reset, Transmitter
<1>3. Host
  <2>1. time \in Int /\ hostPeriod \in Nat \ {0}
      BY LinkAssumption DEF Init
  <2>2. byte \in Bits(DWidth)
      BY LinkAssumption DEF Init
  <2> QED BY <2>1, <2>2 DEF Init, Host
<1> QED BY <1>1, <1>2, <1>3 DEF Inv

-----------------------------------------------------------------------------
(* One edge of uart.vhd is one of ByteUart.  The state of a frame that     *)
(* arrives is its number of samples since the centre of the start bit.     *)

ticks == rxCount * OsRate + osCount
LastTick == (DWidth + 2) * OsRate - 1

LEMMA TicksInFrame ==
    ASSUME NEW bits \in 0..(DWidth + 1), NEW samplesOfBit \in 0..(OsRate - 1)
    PROVE  /\ bits * OsRate + samplesOfBit \in Nat
           /\ samplesOfBit # OsRate - 1 \/ bits # DWidth + 1 =>
                  bits * OsRate + samplesOfBit < LastTick
           /\ bits = DWidth + 1 /\ samplesOfBit = OsRate - 1 =>
                  bits * OsRate + samplesOfBit = LastTick
           /\ (bits + 1) * OsRate = bits * OsRate + (OsRate - 1) + 1
<1>1. DWidth \in Nat /\ OsRate \in Nat \ {0}
    BY LinkAssumption
<1>2. bits * OsRate \in Nat /\ (bits + 1) * OsRate = bits * OsRate + OsRate
    BY <1>1
<1>3. bits * OsRate <= (DWidth + 1) * OsRate
    BY <1>1
<1>4. bits # DWidth + 1 => (bits + 1) * OsRate <= (DWidth + 1) * OsRate
    BY <1>1
<1>5. (DWidth + 2) * OsRate = (DWidth + 1) * OsRate + OsRate
    BY <1>1
<1>6. (DWidth + 1) * OsRate \in Nat
    BY <1>1
<1> QED BY <1>1, <1>2, <1>3, <1>4, <1>5, <1>6 DEF LastTick

(* A sample of a frame counts, and the last of a frame is the stop bit's.  *)
LEMMA TicksCount ==
    ASSUME Receiver, rxState = "receive"
    PROVE  /\ ticks \in Nat
           /\ BetweenCentres => ticks < LastTick /\ ticks' = ticks + 1
           /\ \A bit : BitCentre(bit) => ticks < LastTick /\ ticks' = ticks + 1
           /\ \A bit : StopCentre(bit) => ticks = LastTick
<1>1. DWidth \in Nat /\ OsRate \in Nat \ {0}
    BY LinkAssumption
<1>2. osCount \in 0..(OsRate - 1) /\ rxCount \in 0..(DWidth + 1)
    BY DEF Receiver
<1>3. PICK n \in 0..(DWidth + 1), k \in 0..(OsRate - 1) : n = rxCount /\ k = osCount
    BY <1>2
<1>4. ticks = n * OsRate + k
    BY <1>3 DEF ticks
<1>5. ASSUME BetweenCentres PROVE ticks < LastTick /\ ticks' = ticks + 1
  <2>1. k < OsRate - 1 /\ ticks' = n * OsRate + (k + 1)
      BY <1>3, <1>5 DEF BetweenCentres, ticks
  <2>2. n * OsRate \in Int
      BY <1>1
  <2> QED BY <1>1, <1>4, <2>1, <2>2, TicksInFrame
<1>6. ASSUME NEW bit, BitCentre(bit) PROVE ticks < LastTick /\ ticks' = ticks + 1
  <2>1. k = OsRate - 1 /\ n < DWidth + 1
      BY <1>1, <1>3, <1>6 DEF BitCentre
  <2>2. ticks' = (n + 1) * OsRate + 0
      BY <1>3, <1>6 DEF BitCentre, ticks
  <2>3. (n + 1) * OsRate + 0 = (n + 1) * OsRate /\ n * OsRate \in Int
      BY <1>1
  <2> QED BY <1>1, <1>4, <2>1, <2>2, <2>3, TicksInFrame
<1>7. ASSUME NEW bit, StopCentre(bit) PROVE ticks = LastTick
  <2>1. k = OsRate - 1 /\ n = DWidth + 1
      BY <1>1, <1>3, <1>7 DEF StopCentre
  <2> QED BY <1>4, <2>1, TicksInFrame
<1> QED BY <1>4, <1>5, <1>6, <1>7, TicksInFrame

(* One edge of the receiver.                                               *)
LEMMA ReceiverKeeps ==
    ASSUME Receiver, NEW bit \in {0, 1}, ClockReceiver(bit)
    PROVE  Receiver'
<1>1. DWidth \in Nat /\ OsRate \in Nat \ {0}
    BY LinkAssumption
<1>2. rxBuffer \in Seq({0, 1}) /\ Len(rxBuffer) = DWidth + 2
    BY DEF Receiver
<1>3. rxBuffer' \in Seq({0, 1}) /\ Len(rxBuffer') = DWidth + 2
  <2>1. rxBuffer' = rxBuffer \/ rxBuffer' = Shifted(rxBuffer, bit)
      BY DEF ClockReceiver, LineIdle, StartBit, StartCentre, BetweenCentres, BitCentre, StopCentre
  <2> QED BY <1>2, <2>1, ShiftedBuffer
<1>4. rxState' \in {"idle", "receive"} /\ rxBusy' = (rxState' = "receive")
    BY DEF Receiver, ClockReceiver, LineIdle, StartBit, StartCentre, BetweenCentres, BitCentre, StopCentre
<1>5. rxState' = "receive" => osCount' \in 0..(OsRate - 1) /\ rxCount' \in 0..(DWidth + 1)
    BY <1>1 DEF Receiver, ClockReceiver, LineIdle, StartBit, StartCentre, BetweenCentres, BitCentre, StopCentre
<1> QED BY <1>3, <1>4, <1>5 DEF Receiver

(* What the frame that arrives is in ByteUart, now and after the edge.     *)
Now == IF rxBusy THEN ticks ELSE -1

LEMMA ReceiverStep ==
    ASSUME Receiver, NEW bit \in {0, 1}, ClockReceiver(bit)
    PROVE  BU!Listen \/ BU!Receive(Bits(DWidth))
<1>1. Receiver /\ Receiver'
    BY ReceiverKeeps
<1>2. rxState = "idle" => Now = -1
    BY DEF Receiver, Now
<1>3. rxState = "receive" => Now = ticks /\ ticks \in Nat
    BY TicksCount DEF Receiver, Now
<1>4. rxState' = "idle" => Now' = -1
    BY <1>1 DEF Receiver, Now
<1>5. rxState' = "receive" => Now' = ticks'
    BY <1>1 DEF Receiver, Now
<1>6. BU!Listen <=> Now = -1 /\ Now' \in {-1, 0} /\ rxData' = rxData
    BY DEF BU!Listen, BU!Idle, Now, ticks
<1>7. BU!Receive(Bits(DWidth)) <=>
         /\ Now # -1
         /\ IF Now = LastTick
            THEN \/ Now' = Now /\ rxData' = rxData
                 \/ Now' = -1 /\ rxData' \in Bits(DWidth)
            ELSE Now' \in {Now, Now + 1} /\ rxData' = rxData
    BY DEF BU!Receive, BU!Idle, Now, ticks, LastTick
<1>8. CASE UNCHANGED <<rxState, rxCount, osCount, rxBuffer, rxBusy, rxError, rxData>>
  <2>1. Now' = Now /\ rxData' = rxData
      BY <1>8 DEF Now, ticks
  <2> QED BY <1>2, <1>3, <1>6, <1>7, <2>1 DEF Receiver
<1>9. CASE LineIdle(bit) \/ StartBit(bit)
    BY <1>2, <1>4, <1>6, <1>9 DEF LineIdle, StartBit
<1>10. CASE StartCentre(bit)
  <2>1. ticks' = 0
    <3>1. ticks' = 0 * OsRate + 0
        BY <1>10 DEF StartCentre, ticks
    <3> QED BY <3>1, LinkAssumption
  <2> QED BY <1>2, <1>5, <1>6, <1>10, <2>1 DEF StartCentre
<1>11. CASE BetweenCentres \/ BitCentre(bit)
  <2>1. rxState = "receive" /\ rxState' = "receive" /\ rxData' = rxData
      BY <1>11 DEF BetweenCentres, BitCentre
  <2>2. ticks < LastTick /\ ticks' = ticks + 1
      BY <1>11, <2>1, TicksCount
  <2> QED BY <1>3, <1>5, <1>7, <2>1, <2>2
<1>12. CASE StopCentre(bit)
  <2>1. rxState = "receive" /\ rxState' = "idle" /\ rxData' \in Bits(DWidth)
      BY <1>12, BufferHoldsData DEF StopCentre, Receiver
  <2>2. ticks = LastTick
      BY <1>12, <2>1, TicksCount
  <2> QED BY <1>3, <1>4, <1>7, <2>1, <2>2
<1> QED BY <1>8, <1>9, <1>10, <1>11, <1>12 DEF ClockReceiver

LEMMA TransmitterStep ==
    ASSUME Transmitter, NEW data, ClockTransmitter(txEna, data)
    PROVE  Transmitter' /\ (BU!Accept(txEna) \/ BU!NothingToSend(txEna) \/ BU!Transmit)
<1>1. DWidth \in Nat
    BY LinkAssumption
<1>2. CASE NothingToSend(txEna)
    BY <1>1, <1>2 DEF Transmitter, NothingToSend, BU!NothingToSend, BU!Idle
<1>3. CASE Load(txEna, data)
    BY <1>1, <1>3 DEF Transmitter, Load, BU!Accept, BU!Idle
<1>4. CASE Transmit
    BY <1>1, <1>4 DEF Transmitter, Transmit, BU!Transmit, BU!Idle
<1> QED BY <1>2, <1>3, <1>4 DEF ClockTransmitter

(* Whoever talks, the line carries bits and tx_ena is a pulse.              *)
LEMMA HostStep ==
    ASSUME Inv, Next
    PROVE  /\ Host'
           /\ \E bit \in {0, 1} : ClockReceiver(bit)
           /\ \E data : ClockTransmitter(txEna, data)
<1>1. Host
    BY DEF Inv
<1>2. CASE HostTalks
  <2>1. txEna = FALSE
      BY <1>1, <1>2 DEF Host, HostTalks
  <2>2. ClockReceiver(rx) /\ ClockTransmitter(txEna, txData)
      BY <1>2, <2>1 DEF HostTalks, Clock
  <2>3. /\ time' \in Int /\ txEna' = txEna
        /\ UNCHANGED <<talker, hostPeriod, byte>>
      BY <1>1, <1>2 DEF Host, HostTalks
  <2>4. Host'
      BY <1>1, <2>1, <2>3 DEF Host
  <2> QED BY <1>1, <2>2, <2>4, LineIsBit
<1>3. CASE DeviceTalks
  <2>1. ClockReceiver(1) /\ ClockTransmitter(txEna, txData)
      BY <1>3 DEF DeviceTalks, Clock
  <2>2. /\ time' \in Int /\ txEna' \in BOOLEAN /\ (txEna' => time' = 1)
        /\ talker = "device"
        /\ UNCHANGED <<talker, hostPeriod, byte>>
    <3>1. time' \in Int
        BY <1>1, <1>3 DEF Host, DeviceTalks
    <3>2. /\ talker = "device"
          /\ UNCHANGED <<talker, hostPeriod, byte>>
        BY <1>3 DEF DeviceTalks
    <3>3. txEna' = txEna \/ txEna' = TRUE \/ txEna' = FALSE
        BY <1>3 DEF DeviceTalks
    <3>4. txEna' => time' = 1
      <4>1. txEna => ~(time < 0) /\ time # 0 /\ time # 2
          BY <1>1 DEF Host
      <4>2. \/ time < 0 /\ txEna' = txEna
            \/ time = 0 /\ txEna' = txEna
            \/ time' = 1
            \/ txEna' = FALSE
            \/ time = 2 /\ txEna' = txEna
          BY <1>3 DEF DeviceTalks
      <4> QED BY <4>1, <4>2, Zenon
    <3> QED BY <1>1, <3>1, <3>2, <3>3, <3>4 DEF Host
  <2>3. Host'
      BY <1>1, <2>2 DEF Host
  <2> QED BY <2>1, <2>3
<1>4. CASE Begin
  <2>1. txEna = FALSE
      BY <1>1, <1>4 DEF Host, Begin, Over
  <2>2. ClockReceiver(1) /\ ClockTransmitter(txEna, txData)
      BY <1>4, <2>1 DEF Begin, Clock
  <2>3. /\ time' \in Int /\ byte' \in Bits(DWidth) /\ txEna' = txEna
        /\ UNCHANGED <<talker, hostPeriod>>
      BY <1>4, LinkAssumption DEF Begin
  <2>4. Host'
      BY <1>1, <2>1, <2>3 DEF Host
  <2> QED BY <2>2, <2>4
<1> QED BY <1>2, <1>3, <1>4 DEF Next

-----------------------------------------------------------------------------
(***************************************************************************)
(* How far frames have come, and that tx_ena is a pulse.                   *)
(***************************************************************************)
THEOREM Invariance == Spec => []Inv
<1>1. Inv /\ [Next]_vars => Inv'
  <2>1. Inv /\ Next => Inv'
    <3> SUFFICES ASSUME Inv, Next PROVE Inv'
        OBVIOUS
    <3>1. PICK bit \in {0, 1} : ClockReceiver(bit)
        BY HostStep
    <3>2. PICK data : ClockTransmitter(txEna, data)
        BY HostStep
    <3> QED BY <3>1, <3>2, HostStep, ReceiverKeeps, TransmitterStep DEF Inv
  <2>2. Inv /\ UNCHANGED vars => Inv'
      BY DEF Inv, Receiver, Transmitter, Host, vars, uartVars, hostVars
  <2> QED BY <2>1, <2>2
<1> QED BY InitInv, <1>1, PTL DEF Spec

(***************************************************************************)
(* uart.vhd keeps the protocol of its ports that the registers rely on:    *)
(* busy follows tx_ena in one cycle and lasts a frame, and a frame is      *)
(* received once.                                                          *)
(***************************************************************************)
THEOREM Refinement == Spec => ImplementsByteUart
<1>1. Init => BU!Reset
    BY DEF Init, Reset, BU!Reset, BU!Idle
<1>2. Inv /\ [Next]_vars => [BU!Clock(txEna, Bits(DWidth))]_BU!byteVars
  <2>1. ASSUME Inv, Next PROVE BU!Clock(txEna, Bits(DWidth))
    <3>1. PICK bit \in {0, 1} : ClockReceiver(bit)
        BY <2>1, HostStep
    <3>2. PICK data : ClockTransmitter(txEna, data)
        BY <2>1, HostStep
    <3> QED BY <2>1, <3>1, <3>2, ReceiverStep, TransmitterStep DEF Inv, BU!Clock
  <2>2. UNCHANGED vars => UNCHANGED BU!byteVars
      BY DEF vars, uartVars, BU!byteVars
  <2> QED BY <2>1, <2>2
<1> QED BY <1>1, <1>2, Invariance, PTL DEF Spec, ImplementsByteUart

-----------------------------------------------------------------------------
(* Every frame is heard: the timing.  The sampling pulses make a grid in   *)
(* the baud period, which begins anew with each: PulsesPerPeriod of them   *)
(* OsPeriod cycles apart, and a longer pause.                              *)

(* How many of them the receiver has seen in the present period.           *)
Nth == (countBaud + 1 - countOs) \div OsPeriod
Taken == IF osPulse THEN Nth - 1 ELSE Nth

Grid ==
    /\ countBaud \in 0..(BaudPeriod - 1) /\ countOs \in 0..(OsPeriod - 1)
    /\ osPulse \in BOOLEAN
    /\ \E e \in {0, 1}, n \in 0..PulsesPerPeriod :
          /\ countBaud + 1 - e = n * OsPeriod + countOs
          /\ osPulse <=> countOs = 0 /\ n # 0

(* It is d cycles or more that no pulse was taken.                         *)
NoneSince(d) ==
    \/ d <= countBaud - Taken * OsPeriod
    \/ Taken = 0 /\ d <= countBaud + Pause

-----------------------------------------------------------------------------
(* A frame from the host.                                                  *)

Quiet == rxState = "idle" /\ heard = <<>>
Once == heard = <<Frame(byte, FALSE)>>

(* Cycles since the j-th pulse of the c-th period before the present one,  *)
(* and how many pulses were taken since.                                   *)
Since(c, j) == c * BaudPeriod + countBaud - (j * OsPeriod - 1)
TakenSince(c, j) == c * PulsesPerPeriod + Taken - j

Waiting == time < 0 /\ Quiet /\ osCount = 0

NoSampleYet == time >= 0 /\ Quiet /\ osCount = 0 /\ NoneSince(time)

InStartBit ==
    /\ time >= 0 /\ Quiet /\ osCount \in 1..(OsRate \div 2)
    /\ \E c \in Nat, j \in 1..PulsesPerPeriod :
          /\ osCount = TakenSince(c, j) + 1
          /\ time - Since(c, j) \in (-1)..(IF j = 1 THEN OsPeriod + Pause ELSE OsPeriod)

Received(n) == \A i \in 1..(n + 1) : rxBuffer[DWidth + 1 - n + i] = FrameBits(byte)[i]

Receiving ==
    /\ time >= 0 /\ rxState = "receive" /\ heard = <<>>
    /\ HeardByDevice(hostPeriod) => Received(rxCount)
    /\ \E c \in Nat, j \in 1..PulsesPerPeriod :
          /\ ticks = TakenSince(c, j)
          /\ time - Since(c, j) \in Earliest..(Latest - 1)

Finished ==
    /\ time >= 0 /\ rxState = "idle" /\ Once
    /\ 100 * time >= LastBit * hostPeriod
    /\ osCount = 0 \/ NoneSince(time - (LatestSample(LastBit) + 1))

(* The parity bit was taken for the stop bit.                              *)
Reports == [data : Bits(DWidth), error : BOOLEAN]

Misread ==
    /\ time >= 0 /\ heard \in Seq(Reports) /\ heard # <<>>
    /\ EvenParity(byte) = 0 => heard[1].error

Ended ==
    \/ HeardByDevice(hostPeriod) /\ Finished
    \/ StopBitMissed(hostPeriod) /\ Misread

FromHost == Grid /\ hostPeriod \in HostPeriods
            /\ (Waiting \/ NoSampleYet \/ InStartBit \/ Receiving \/ Ended)

-----------------------------------------------------------------------------
(* A frame from the device.                                                *)

(* The bits that the transmitter puts out, with a one before and ones      *)
(* behind them.                                                            *)
OnLine(k) == IF k \in 1..(DWidth + 3) THEN FrameBits(byte)[k] ELSE 1

(* Cycles since the start bit was put out, if it was.                      *)
Within == IF countBaud = 0 THEN BaudPeriod - 1 ELSE countBaud - 1
Elapsed == (txCount - 1) * BaudPeriod + Within

Deaf == listenTime = -1 /\ samples = <<>>
LineHigh == txState = "idle" /\ txBuffer[1] = 1 /\ tx = 1

Idle ==
    /\ time <= 1 /\ LineHigh /\ Deaf /\ heard = <<>>
    /\ (txEna <=> time = 1) /\ (txEna => txData = byte)

Centre(k) == ((2 * k + 1) * hostPeriod) \div 200

Sending ==
    /\ time = 2 /\ txState = "transmit" /\ txEna = FALSE /\ txBusy
    /\ txCount \in 0..(DWidth + 3) /\ (baudPulse <=> countBaud = 0)
    /\ txBuffer \in Seq({0, 1}) /\ Len(txBuffer) = DWidth + 3
    /\ \A i \in 1..(DWidth + 3) : txBuffer[i] = OnLine(txCount - 1 + i)
    /\ tx = OnLine(IF Within = 0 THEN txCount - 1 ELSE txCount)

Listening ==
    \/ Elapsed <= 1 /\ Deaf /\ heard = <<>>
    \/ /\ Elapsed >= 2 /\ listenTime = Elapsed - 2 /\ heard = <<>>
       /\ \E k \in 0..LastBit : /\ samples = [i \in 1..k |-> FrameBits(byte)[i]]
                                /\ listenTime <= Centre(k)
    \/ Elapsed > LastBit * BaudPeriod /\ Deaf /\ Once

Sent == time = 2 /\ LineHigh /\ Deaf /\ Once /\ txEna = FALSE

FromDevice ==
    /\ countBaud \in 0..(BaudPeriod - 1) /\ hostPeriod \in HostPeriods
    /\ Idle \/ (Sending /\ Listening) \/ Sent

(* Where a frame that is misread leaves the receiver is not said, so of    *)
(* such hosts only the first frame is followed.                            *)
Followed ==
    HeardByDevice(hostPeriod) \/ (StopBitMissed(hostPeriod) /\ left = Frames - 1)

Timing ==
    /\ left \in Int /\ left <= Frames - 1
    /\ IF talker = "host" THEN Followed => FromHost
                          ELSE HeardByHost(hostPeriod) => FromDevice

-----------------------------------------------------------------------------
(* Arithmetic.                                                             *)

LEMMA TimingSizes ==
    ASSUME DividerFits
    PROVE  /\ DWidth \in Nat /\ OsRate \in Nat /\ OsRate >= 2
           /\ OsPeriod \in Nat /\ OsPeriod >= 2 /\ BaudPeriod \in Nat /\ BaudPeriod >= 5
           /\ PulsesPerPeriod \in Nat /\ PulsesPerPeriod >= 2
           /\ PulsesPerPeriod * OsPeriod \in Nat /\ Pause \in 1..(OsPeriod - 1)
           /\ BaudPeriod = PulsesPerPeriod * OsPeriod + Pause
           /\ OsRate \div 2 \in 1..(PulsesPerPeriod - 1)
           /\ ToCentre \in Nat /\ OsPeriod <= ToCentre /\ Earliest \in Nat
           /\ Latest \in Nat /\ Silence \in Nat /\ LastBit \in Nat /\ LastBit >= 2
<1>1. /\ DWidth \in Nat /\ OsRate \in Nat /\ OsRate >= 2
      /\ OsPeriod \in Nat \ {0} /\ BaudPeriod \in Nat
    BY LinkAssumption DEF DividerFits
<1>2. PICK k \in Nat, r \in 0..(OsPeriod - 1) :
          k = BaudPeriod \div OsPeriod /\ r = BaudPeriod % OsPeriod
    BY <1>1
<1>3. BaudPeriod = k * OsPeriod + r /\ k * OsPeriod \in Nat
    BY <1>1, <1>2
<1>4. PICK h \in Nat : h = OsRate \div 2 /\ h >= 1
    BY <1>1
<1>5. r >= 1 /\ OsPeriod >= 2 /\ h < k
    BY <1>1, <1>2, <1>4 DEF DividerFits
<1>6. k * OsPeriod >= 4
  <2>1. 2 * OsPeriod <= k * OsPeriod
      BY <1>1, <1>4, <1>5
  <2> QED BY <1>1, <1>3, <1>5, <2>1
<1>7. h * OsPeriod \in Nat /\ 1 * OsPeriod <= h * OsPeriod
    BY <1>1, <1>4
<1>8. ToCentre \in Nat /\ OsPeriod <= ToCentre
    BY <1>1, <1>4, <1>7 DEF ToCentre
<1> QED BY <1>1, <1>2, <1>3, <1>4, <1>5, <1>6, <1>8
    DEF Earliest, Latest, Silence, LastBit, PulsesPerPeriod, Pause

LEMMA Quotient ==
    ASSUME NEW a \in Int, NEW b \in Nat \ {0}, NEW q \in Int, q * b <= a, a < (q + 1) * b
    PROVE  a \div b = q
<1>1. PICK p \in Int : p = a \div b
    OBVIOUS
<1>2. p * b <= a /\ a < (p + 1) * b
    BY <1>1
<1>3. ASSUME p < q PROVE FALSE
  <2>1. (p + 1) * b <= q * b /\ (p + 1) * b \in Int /\ q * b \in Int
      BY <1>3
  <2> QED BY <1>2, <2>1
<1>4. ASSUME q < p PROVE FALSE
  <2>1. (q + 1) * b <= p * b /\ (q + 1) * b \in Int /\ p * b \in Int
      BY <1>4
  <2> QED BY <1>2, <2>1
<1> QED BY <1>1, <1>3, <1>4

LEMMA TimesMonotone ==
    ASSUME NEW a \in Int, NEW b \in Int, NEW k \in Nat, a <= b
    PROVE  a * k <= b * k /\ k * a <= k * b /\ a * k \in Int /\ b * k \in Int
OBVIOUS

-----------------------------------------------------------------------------
(* The grid of the sampling pulses.                                        *)

LEMMA GridCount ==
    ASSUME DividerFits, NEW e \in {0, 1}, NEW n \in 0..PulsesPerPeriod,
           countBaud \in Int, countOs \in Int, countBaud + 1 - e = n * OsPeriod + countOs
    PROVE  Nth = n
<1>1. OsPeriod \in Nat \ {0} /\ OsPeriod >= 2
    BY TimingSizes
<1>2. n * OsPeriod \in Int /\ (n + 1) * OsPeriod = n * OsPeriod + OsPeriod
    BY <1>1
<1>3. n * OsPeriod <= countBaud + 1 - countOs /\ countBaud + 1 - countOs < (n + 1) * OsPeriod
    BY <1>1, <1>2
<1> QED BY <1>1, <1>2, <1>3, Quotient DEF Nth

LEMMA InGrid ==
    ASSUME DividerFits, Grid
    PROVE  /\ countBaud \in 0..(BaudPeriod - 1) /\ osPulse \in BOOLEAN
           /\ Taken \in 0..PulsesPerPeriod
           /\ osPulse => Taken < PulsesPerPeriod /\ countBaud - ((Taken + 1) * OsPeriod - 1) \in {0, 1}
           /\ Taken * OsPeriod <= countBaud /\ countBaud <= (Taken + 1) * OsPeriod
           /\ countBaud = BaudPeriod - 1 => Taken + (IF osPulse THEN 1 ELSE 0) = PulsesPerPeriod
<1>1. PICK e \in {0, 1}, n \in 0..PulsesPerPeriod :
          /\ countBaud + 1 - e = n * OsPeriod + countOs
          /\ osPulse <=> countOs = 0 /\ n # 0
    BY DEF Grid
<1>2. countBaud \in 0..(BaudPeriod - 1) /\ countOs \in 0..(OsPeriod - 1) /\ osPulse \in BOOLEAN
    BY <1>1 DEF Grid
<1>3. Nth = n
    BY <1>1, <1>2, TimingSizes, GridCount
<1>4. /\ OsPeriod \in Nat /\ OsPeriod >= 2 /\ PulsesPerPeriod \in Nat /\ BaudPeriod \in Nat
      /\ BaudPeriod = PulsesPerPeriod * OsPeriod + Pause /\ Pause \in 1..(OsPeriod - 1)
    BY TimingSizes
<1>5. /\ n * OsPeriod \in Nat /\ (n + 1) * OsPeriod = n * OsPeriod + OsPeriod
      /\ (n - 1) * OsPeriod = n * OsPeriod - OsPeriod /\ n - 1 + 1 = n
    BY <1>4
<1>6. countBaud = BaudPeriod - 1 => n = PulsesPerPeriod
  <2> SUFFICES ASSUME countBaud = BaudPeriod - 1, n # PulsesPerPeriod PROVE FALSE
      OBVIOUS
  <2>1. (n + 1) * OsPeriod <= PulsesPerPeriod * OsPeriod
      BY <1>4, TimesMonotone
  <2> QED BY <1>1, <1>2, <1>4, <1>5, <2>1
<1>7. CASE osPulse
  <2>1. Taken = n - 1 /\ n # 0 /\ countOs = 0
      BY <1>1, <1>3, <1>7 DEF Taken
  <2> QED BY <1>1, <1>2, <1>4, <1>5, <1>6, <1>7, <2>1
<1>8. CASE ~osPulse
  <2>1. Taken = n /\ (countOs # 0 \/ n = 0)
      BY <1>1, <1>3, <1>8 DEF Taken
  <2>2. n = 0 => n * OsPeriod = 0
      BY <1>4
  <2> QED BY <1>1, <1>2, <1>4, <1>5, <1>6, <1>8, <2>1, <2>2
<1> QED BY <1>2, <1>7, <1>8

LEMMA GridStep ==
    ASSUME DividerFits, Grid, ClockDivider
    PROVE  /\ Grid'
           /\ countBaud' = (IF countBaud = BaudPeriod - 1 THEN 0 ELSE countBaud + 1)
           /\ Taken' = (IF countBaud = BaudPeriod - 1 THEN 0
                        ELSE Taken + (IF osPulse THEN 1 ELSE 0))
<1>1. PICK e \in {0, 1}, n \in 0..PulsesPerPeriod :
          /\ countBaud + 1 - e = n * OsPeriod + countOs
          /\ osPulse <=> countOs = 0 /\ n # 0
    BY DEF Grid
<1>2. countBaud \in 0..(BaudPeriod - 1) /\ countOs \in 0..(OsPeriod - 1) /\ osPulse \in BOOLEAN
    BY <1>1 DEF Grid
<1>3. Nth = n
    BY <1>1, <1>2, TimingSizes, GridCount
<1>4. /\ OsPeriod \in Nat /\ OsPeriod >= 2 /\ PulsesPerPeriod \in Nat \ {0} /\ BaudPeriod \in Nat
      /\ PulsesPerPeriod * OsPeriod \in Nat
      /\ BaudPeriod = PulsesPerPeriod * OsPeriod + Pause /\ Pause \in 1..(OsPeriod - 1)
    BY TimingSizes
<1>5. n * OsPeriod \in Nat /\ (n + 1) * OsPeriod = n * OsPeriod + OsPeriod
    BY <1>4
<1>6. countBaud' = (IF countBaud = BaudPeriod - 1 THEN 0 ELSE countBaud + 1)
    BY <1>2, <1>4 DEF ClockDivider
<1>7. n = PulsesPerPeriod => countBaud = BaudPeriod - 1 \/ countOs < OsPeriod - 1
    BY <1>1, <1>2, <1>4, <1>5
<1>8. CASE countBaud = BaudPeriod - 1
  <2>1. countBaud' = 0 /\ countOs' = 1 /\ ~osPulse'
    <3>1. countBaud >= BaudPeriod - 1 /\ ~(0 >= OsPeriod - 1)
        BY <1>4, <1>8
    <3>2. osPulse' = (0 >= OsPeriod - 1)
        BY <3>1 DEF ClockDivider
    <3>3. countBaud' = 0 /\ countOs' = 0 + 1
        BY <3>1 DEF ClockDivider
    <3>4. ~osPulse'
        BY <3>1, <3>2, Zenon
    <3>5. 0 + 1 = 1
        OBVIOUS
    <3> QED BY <3>3, <3>4, <3>5
  <2>2. 0 + 1 - 0 = 0 * OsPeriod + 1 /\ 0 \in 0..PulsesPerPeriod
      BY <1>4
  <2>3. Grid'
    <3>1. countBaud' + 1 - 0 = 0 * OsPeriod + countOs' /\ (osPulse' <=> countOs' = 0 /\ 0 # 0)
        BY <2>1, <2>2
    <3>2. osPulse' \in BOOLEAN
        BY DEF ClockDivider
    <3> QED BY <1>4, <2>1, <2>2, <3>1, <3>2 DEF Grid
  <2>4. Nth' = 0
    <3>1. 0 = (0 + 1 - 1) \div OsPeriod
        BY <1>4
    <3> QED BY <2>1, <3>1 DEF Nth
  <2> QED BY <1>8, <2>1, <2>3, <2>4, <1>6 DEF Taken
<1>9. CASE countBaud # BaudPeriod - 1 /\ countOs < OsPeriod - 1
  <2>1. countBaud' = countBaud + 1 /\ countOs' = countOs + 1 /\ ~osPulse'
    <3>1. ~(countBaud >= BaudPeriod - 1) /\ ~(countOs >= OsPeriod - 1)
        BY <1>2, <1>4, <1>9
    <3>2. osPulse' = (countOs >= OsPeriod - 1)
        BY <3>1 DEF ClockDivider
    <3> QED BY <3>1, <3>2 DEF ClockDivider
  <2>2. countBaud' + 1 - e = n * OsPeriod + countOs' /\ countOs' # 0
      BY <1>1, <1>2, <1>5, <2>1
  <2>3. Grid'
    <3>1. osPulse' \in BOOLEAN /\ (osPulse' <=> countOs' = 0 /\ n # 0)
        BY <2>1, <2>2 DEF ClockDivider
    <3>2. countBaud' \in 0..(BaudPeriod - 1) /\ countOs' \in 0..(OsPeriod - 1)
        BY <1>2, <1>4, <1>9, <2>1
    <3> QED BY <2>2, <3>1, <3>2 DEF Grid
  <2>4. Nth' = n
    <3>1. /\ n * OsPeriod <= countBaud' + 1 - countOs'
          /\ countBaud' + 1 - countOs' < (n + 1) * OsPeriod
        BY <1>2, <1>4, <1>5, <2>1, <2>2
    <3>2. countBaud' + 1 - countOs' \in Int
        BY <1>2, <2>1
    <3> QED BY <1>4, <3>1, <3>2, Quotient DEF Nth
  <2> QED BY <1>1, <1>3, <1>6, <1>9, <2>1, <2>3, <2>4 DEF Taken
<1>10. CASE countBaud # BaudPeriod - 1 /\ countOs = OsPeriod - 1
  <2>1. countBaud' = countBaud + 1 /\ countOs' = 0 /\ osPulse' = TRUE
    <3>1. ~(countBaud >= BaudPeriod - 1) /\ countOs >= OsPeriod - 1
        BY <1>2, <1>4, <1>10
    <3>2. osPulse' = (countOs >= OsPeriod - 1)
        BY <3>1 DEF ClockDivider
    <3> QED BY <3>1, <3>2 DEF ClockDivider
  <2>2. countBaud' + 1 - e = (n + 1) * OsPeriod + countOs' /\ n + 1 \in 0..PulsesPerPeriod
      BY <1>1, <1>2, <1>4, <1>5, <1>7, <1>10, <2>1
  <2>3. Grid'
    <3>1. osPulse' \in BOOLEAN /\ (osPulse' <=> countOs' = 0 /\ n + 1 # 0)
        BY <2>1, <2>2
    <3>2. countBaud' \in 0..(BaudPeriod - 1) /\ countOs' \in 0..(OsPeriod - 1)
        BY <1>2, <1>4, <1>10, <2>1
    <3> QED BY <2>2, <3>1, <3>2 DEF Grid
  <2>4. Nth' = n + 1
    <3>1. (n + 1) * OsPeriod \in Int /\ (n + 1 + 1) * OsPeriod = (n + 1) * OsPeriod + OsPeriod
        BY <1>4
    <3>2. /\ (n + 1) * OsPeriod <= countBaud' + 1 - countOs'
          /\ countBaud' + 1 - countOs' < (n + 1 + 1) * OsPeriod
        BY <1>2, <1>4, <2>1, <2>2, <3>1
    <3>3. countBaud' + 1 - countOs' \in Int
        BY <1>2, <2>1
    <3> QED BY <1>4, <3>2, <3>3, Quotient DEF Nth
  <2>5. Taken' = n /\ ~(countOs = 0)
      BY <1>4, <1>10, <2>1, <2>4 DEF Taken
  <2> QED BY <1>1, <1>3, <1>6, <1>10, <2>1, <2>3, <2>5 DEF Taken
<1> QED BY <1>2, <1>4, <1>8, <1>9, <1>10

(* Where a cycle is, seen from an earlier pulse.                           *)
LEMMA SinceStep ==
    ASSUME DividerFits, Grid, ClockDivider, NEW c \in Nat, NEW j \in 1..PulsesPerPeriod
    PROVE  \E e \in Nat :
               /\ Since(e, j)' = Since(c, j) + 1 /\ Since(c, j) \in Int
               /\ TakenSince(e, j)' = TakenSince(c, j) + (IF osPulse THEN 1 ELSE 0)
               /\ TakenSince(c, j) \in Int
<1>1. OsPeriod \in Nat /\ PulsesPerPeriod \in Nat /\ BaudPeriod \in Nat
    BY TimingSizes
<1>2. PICK t \in 0..PulsesPerPeriod : t = Taken
    BY InGrid
<1>3. /\ j * OsPeriod \in Nat /\ c * BaudPeriod \in Nat /\ c * PulsesPerPeriod \in Nat
      /\ (c + 1) * BaudPeriod = c * BaudPeriod + BaudPeriod
      /\ (c + 1) * PulsesPerPeriod = c * PulsesPerPeriod + PulsesPerPeriod
    BY <1>1
<1>4. /\ countBaud \in 0..(BaudPeriod - 1)
      /\ countBaud = BaudPeriod - 1 => t + (IF osPulse THEN 1 ELSE 0) = PulsesPerPeriod
    BY <1>1, <1>2, InGrid
<1>5. Since(c, j) \in Int /\ TakenSince(c, j) \in Int
    BY <1>1, <1>2, <1>3, <1>4 DEF Since, TakenSince
<1>6. CASE countBaud = BaudPeriod - 1
  <2>1. countBaud' = 0 /\ Taken' = 0
      BY <1>6, GridStep
  <2>2. Since(c + 1, j)' = Since(c, j) + 1
      BY <1>1, <1>3, <1>6, <2>1 DEF Since
  <2>3. TakenSince(c + 1, j)' = TakenSince(c, j) + (IF osPulse THEN 1 ELSE 0)
    <3>1. TakenSince(c + 1, j)' = c * PulsesPerPeriod + PulsesPerPeriod + 0 - j
        BY <1>3, <2>1 DEF TakenSince, PulsesPerPeriod
    <3>2. TakenSince(c, j) = c * PulsesPerPeriod + t - j
        BY <1>2 DEF TakenSince
    <3> QED BY <1>1, <1>3, <1>4, <1>6, <3>1, <3>2
  <2>4. c + 1 \in Nat
      OBVIOUS
  <2> QED BY <1>5, <2>2, <2>3, <2>4
<1>7. CASE countBaud # BaudPeriod - 1
  <2>1. countBaud' = countBaud + 1 /\ Taken' = t + (IF osPulse THEN 1 ELSE 0)
      BY <1>1, <1>2, <1>7, GridStep
  <2>2. Since(c, j)' = Since(c, j) + 1
      BY <1>1, <1>3, <1>4, <2>1 DEF Since
  <2>3. TakenSince(c, j)' = TakenSince(c, j) + (IF osPulse THEN 1 ELSE 0)
    <3>1. TakenSince(c, j)' = c * PulsesPerPeriod + (t + (IF osPulse THEN 1 ELSE 0)) - j
        BY <2>1 DEF TakenSince, PulsesPerPeriod
    <3>2. TakenSince(c, j) = c * PulsesPerPeriod + t - j
        BY <1>2 DEF TakenSince
    <3> QED BY <1>1, <1>2, <1>3, <3>1, <3>2
  <2> QED BY <1>5, <2>2, <2>3
<1> QED BY <1>6, <1>7

(* A pulse that is being taken.                                            *)
LEMMA SinceThis ==
    ASSUME DividerFits, Grid, ClockDivider, osPulse
    PROVE  \E c \in Nat, j \in 1..PulsesPerPeriod :
               /\ j = Taken + 1
               /\ Since(c, j)' \in {1, 2} /\ TakenSince(c, j)' = 0
<1>1. OsPeriod \in Nat /\ PulsesPerPeriod \in Nat /\ BaudPeriod \in Nat
    BY TimingSizes
<1>2. PICK t \in 0..PulsesPerPeriod : t = Taken /\ t < PulsesPerPeriod
    BY InGrid
<1>3. PICK j \in 1..PulsesPerPeriod : j = t + 1
    BY <1>1, <1>2
<1>4. countBaud \in 0..(BaudPeriod - 1) /\ countBaud - (j * OsPeriod - 1) \in {0, 1}
      /\ j * OsPeriod \in Nat
    BY <1>1, <1>2, <1>3, InGrid
<1>5. 0 * BaudPeriod = 0 /\ 0 * PulsesPerPeriod = 0
    BY <1>1
<1>6. Since(0, j) \in {0, 1} /\ TakenSince(0, j) = -1
    BY <1>1, <1>2, <1>3, <1>4, <1>5 DEF Since, TakenSince
<1>7. PICK e \in Nat : Since(e, j)' = Since(0, j) + 1 /\ TakenSince(e, j)' = TakenSince(0, j) + 1
    BY SinceStep
<1>8. Since(e, j)' \in {1, 2} /\ TakenSince(e, j)' = 0
    BY <1>6, <1>7
<1> QED BY <1>2, <1>3, <1>8

(* A cycle in which the next pulse would be the m-th, and one in which it  *)
(* is: of the periods between as many ended as have that many pulses.      *)
LEMMA SinceBound ==
    ASSUME DividerFits, Grid, NEW c \in Nat, NEW j \in 1..PulsesPerPeriod, NEW m \in Nat,
           m = TakenSince(c, j) + 1
    PROVE  /\ m * OsPeriod \in Nat /\ c * Pause \in Nat
           /\ Since(c, j) \in Int /\ Since(c, j) <= m * OsPeriod + c * Pause + 1
           /\ osPulse => Since(c, j) - m * OsPeriod - c * Pause \in {0, 1}
           /\ c <= (m + PulsesPerPeriod - 1) \div PulsesPerPeriod
           /\ osPulse => m \div PulsesPerPeriod <= c
           /\ osPulse /\ j = 1 => c = m \div PulsesPerPeriod
<1>1. /\ OsPeriod \in Nat /\ PulsesPerPeriod \in Nat \ {0} /\ BaudPeriod \in Nat /\ Pause \in Nat
      /\ BaudPeriod = PulsesPerPeriod * OsPeriod + Pause /\ PulsesPerPeriod * OsPeriod \in Nat
    BY TimingSizes
<1>2. PICK t \in 0..PulsesPerPeriod : t = Taken
    BY InGrid
<1>3. PICK k \in Nat \ {0} : k = PulsesPerPeriod
    BY <1>1
<1>4. /\ countBaud \in 0..(BaudPeriod - 1) /\ countBaud <= (t + 1) * OsPeriod
      /\ osPulse => t < k /\ countBaud - ((t + 1) * OsPeriod - 1) \in {0, 1}
    BY <1>2, <1>3, InGrid
<1>5. c * k \in Nat /\ m = c * k + (t + 1) - j
    BY <1>2, <1>3 DEF TakenSince
<1>6. /\ m * OsPeriod \in Nat /\ c * Pause \in Nat /\ j * OsPeriod \in Nat
      /\ (t + 1) * OsPeriod \in Nat /\ (c * k) * OsPeriod \in Nat
      /\ c * BaudPeriod = (c * k) * OsPeriod + c * Pause
      /\ m * OsPeriod = (c * k) * OsPeriod + (t + 1) * OsPeriod - j * OsPeriod
  <2>1. m * OsPeriod \in Nat /\ c * Pause \in Nat /\ j * OsPeriod \in Nat
        /\ (t + 1) * OsPeriod \in Nat /\ (c * k) * OsPeriod \in Nat
      BY <1>1, <1>2, <1>5
  <2>2. c * (k * OsPeriod + Pause) = (c * k) * OsPeriod + c * Pause
      BY <1>1
  <2>3. (c * k + (t + 1) - j) * OsPeriod = (c * k) * OsPeriod + (t + 1) * OsPeriod - j * OsPeriod
      BY <1>1, <1>2, <1>5
  <2> QED BY <1>1, <1>3, <1>5, <2>1, <2>2, <2>3
<1>7. Since(c, j) = c * BaudPeriod + countBaud - (j * OsPeriod - 1)
    BY DEF Since
<1>8. PICK v \in Int : /\ v = m * OsPeriod + c * Pause - (t + 1) * OsPeriod
                       /\ Since(c, j) = v + countBaud + 1
  <2>1. PICK v \in Int : v = c * BaudPeriod - j * OsPeriod
      BY <1>1, <1>6
  <2>2. v = m * OsPeriod + c * Pause - (t + 1) * OsPeriod
      BY <1>6, <2>1
  <2>3. Since(c, j) = v + countBaud + 1
      BY <1>1, <1>4, <1>6, <1>7, <2>1
  <2> QED BY <2>2, <2>3
<1>9. /\ Since(c, j) \in Int /\ Since(c, j) <= m * OsPeriod + c * Pause + 1
      /\ osPulse => Since(c, j) - m * OsPeriod - c * Pause \in {0, 1}
    BY <1>4, <1>6, <1>8
<1>10. c <= (m + k - 1) \div k
  <2>1. c * k <= m + k - 1
      BY <1>2, <1>3, <1>5
  <2>2. PICK q \in Int : q = (m + k - 1) \div k
      BY <1>3
  <2>3. m + k - 1 < (q + 1) * k
      BY <1>3, <2>2
  <2>4. ASSUME q + 1 <= c PROVE FALSE
    <3>1. (q + 1) * k <= c * k /\ (q + 1) * k \in Int
        BY <1>3, <2>2, <2>4, TimesMonotone
    <3> QED BY <1>5, <2>1, <2>3, <3>1
  <2> QED BY <2>2, <2>4
<1>11. ASSUME osPulse PROVE m \div k <= c /\ (j = 1 => c = m \div k)
  <2>1. m < (c + 1) * k /\ (c + 1) * k = c * k + k
      BY <1>2, <1>3, <1>4, <1>5, <1>11
  <2>2. PICK q \in Int : q = m \div k
      BY <1>3
  <2>3. q * k <= m /\ m < (q + 1) * k
      BY <1>3, <2>2
  <2>4. ASSUME c + 1 <= q PROVE FALSE
    <3>1. (c + 1) * k <= q * k /\ (c + 1) * k \in Int /\ q * k \in Int
        BY <1>3, <2>2, <2>4, TimesMonotone
    <3> QED BY <2>1, <2>3, <3>1
  <2>5. j = 1 => c * k <= m
      BY <1>2, <1>5
  <2>6. j = 1 => m \div k = c
      BY <1>3, <1>5, <2>1, <2>5, Quotient
  <2> QED BY <2>2, <2>4, <2>6
<1> QED BY <1>3, <1>6, <1>9, <1>10, <1>11

(* Cycles without a pulse.                                                 *)
LEMMA NoneSinceStep ==
    ASSUME DividerFits, Grid, ClockDivider, NEW d \in Int
    PROVE  /\ d <= 0 => NoneSince(d) /\ NoneSince(d)'
           /\ ~osPulse /\ NoneSince(d) => NoneSince(d + 1)'
<1>1. OsPeriod \in Nat /\ PulsesPerPeriod \in Nat \ {0} /\ BaudPeriod \in Nat /\ Pause \in Nat /\ Pause >= 1
    BY TimingSizes
<1>2. PICK t \in 0..PulsesPerPeriod : t = Taken
    BY InGrid
<1>3. t * OsPeriod \in Nat /\ (t + 1) * OsPeriod = t * OsPeriod + OsPeriod /\ 0 * OsPeriod = 0
    BY <1>1
<1>4. /\ countBaud \in 0..(BaudPeriod - 1)
      /\ t * OsPeriod <= countBaud /\ countBaud <= (t + 1) * OsPeriod
    BY <1>2, InGrid
<1>5. Grid'
    BY GridStep
<1>6. d <= 0 => NoneSince(d)
    BY <1>1, <1>2, <1>3, <1>4 DEF NoneSince
<1>7. d <= 0 => NoneSince(d)'
  <2> SUFFICES ASSUME d <= 0 PROVE d <= countBaud' - Taken' * OsPeriod
      BY DEF NoneSince
  <2>1. CASE countBaud = BaudPeriod - 1
      BY <1>3, <2>1, GridStep
  <2>2. CASE countBaud # BaudPeriod - 1 /\ ~osPulse
    <3>1. countBaud' = countBaud + 1 /\ Taken' = t
        BY <1>1, <1>2, <2>2, GridStep
    <3> QED BY <1>1, <1>3, <1>4, <3>1
  <2>3. CASE countBaud # BaudPeriod - 1 /\ osPulse
    <3>1. countBaud' = countBaud + 1 /\ Taken' = t + 1
        BY <1>1, <1>2, <2>3, GridStep
    <3>2. countBaud - ((t + 1) * OsPeriod - 1) \in {0, 1}
        BY <1>2, <2>3, InGrid
    <3> QED BY <1>1, <1>3, <1>4, <3>1, <3>2
  <2> QED BY <2>1, <2>2, <2>3
<1>8. ASSUME ~osPulse, NoneSince(d) PROVE NoneSince(d + 1)'
  <2>1. CASE countBaud = BaudPeriod - 1
    <3>1. countBaud' = 0 /\ Taken' = 0 /\ t = PulsesPerPeriod /\ t # 0
        BY <1>1, <1>2, <1>8, <2>1, GridStep, InGrid
    <3>2. d <= BaudPeriod - 1 - PulsesPerPeriod * OsPeriod
        BY <1>2, <1>8, <2>1, <3>1 DEF NoneSince
    <3> QED BY <1>1, <3>1, <3>2, TimingSizes DEF NoneSince, Pause
  <2>2. CASE countBaud # BaudPeriod - 1
    <3>1. countBaud' = countBaud + 1 /\ Taken' = t
        BY <1>1, <1>2, <1>8, <2>2, GridStep
    <3> QED BY <1>1, <1>2, <1>3, <1>4, <1>8, <3>1 DEF NoneSince
  <2> QED BY <2>1, <2>2
<1> QED BY <1>6, <1>7, <1>8

LEMMA NoneSinceBound ==
    ASSUME DividerFits, Grid, NEW d \in Int, NoneSince(d)
    PROVE  d < Silence
<1>1. OsPeriod \in Nat /\ Pause \in Nat
    BY TimingSizes
<1>2. PICK t \in 0..PulsesPerPeriod : t = Taken
    BY InGrid
<1>3. t * OsPeriod \in Nat /\ (t + 1) * OsPeriod = t * OsPeriod + OsPeriod /\ 0 * OsPeriod = 0
    BY <1>1
<1>4. countBaud \in Int /\ t * OsPeriod <= countBaud /\ countBaud <= (t + 1) * OsPeriod
    BY <1>2, InGrid
<1> QED BY <1>1, <1>2, <1>3, <1>4 DEF NoneSince, Silence

-----------------------------------------------------------------------------
(* The bits of a frame.                                                    *)

LEMMA BitsOfFrame ==
    ASSUME NEW data \in Bits(DWidth)
    PROVE  /\ FrameBits(data) \in Seq({0, 1}) /\ Len(FrameBits(data)) = DWidth + 3
           /\ FrameBits(data)[1] = 0 /\ FrameBits(data)[DWidth + 3] = 1
           /\ FrameBits(data)[DWidth + 2] = EvenParity(data)
           /\ \A i \in 1..DWidth : FrameBits(data)[i + 1] = data[i]
<1>1. DWidth \in Nat
    BY LinkAssumption
<1>2. data \in Seq({0, 1}) /\ Len(data) = DWidth
    BY <1>1 DEF Bits
<1>3. EvenParity(data) \in {0, 1}
    BY <1>1, ParityIsBit
<1> DEFINE end == <<EvenParity(data), 1>>
           start == <<0>> \o data
<1>4. end \in Seq({0, 1}) /\ Len(end) = 2 /\ end[1] = EvenParity(data) /\ end[2] = 1
    BY <1>3
<1>5. start \in Seq({0, 1}) /\ Len(start) = DWidth + 1
    BY <1>1, <1>2, ConcatProperties
<1>6. start[1] = 0 /\ \A i \in 1..DWidth : start[i + 1] = data[i]
    BY <1>1, <1>2, ConcatProperties
<1>7. FrameBits(data) = start \o end
    BY <1>2, <1>4 DEF FrameBits
<1> HIDE DEF start, end
<1>8. /\ FrameBits(data) \in Seq({0, 1}) /\ Len(FrameBits(data)) = DWidth + 3
      /\ \A i \in 1..(DWidth + 3) :
             FrameBits(data)[i] = IF i <= DWidth + 1 THEN start[i] ELSE end[i - (DWidth + 1)]
  <2>1. /\ start \o end \in Seq({0, 1}) /\ Len(start \o end) = Len(start) + Len(end)
        /\ \A i \in 1..(Len(start) + Len(end)) :
               (start \o end)[i] = IF i <= Len(start) THEN start[i] ELSE end[i - Len(start)]
      BY <1>4, <1>5, ConcatProperties, Zenon
  <2>2. Len(start) + Len(end) = DWidth + 3
      BY <1>1, <1>4, <1>5
  <2> QED BY <1>5, <1>7, <2>1, <2>2
<1> QED BY <1>1, <1>4, <1>6, <1>8

(* The parity bit makes the number of ones even.                           *)
LEMMA EvenWithParity ==
    ASSUME NEW data \in Bits(DWidth), NEW word \in Seq({0, 1}), Len(word) = DWidth + 1,
           \A i \in 1..DWidth : word[i] = data[i], word[DWidth + 1] = EvenParity(data)
    PROVE  EvenParity(word) = 0
<1>1. DWidth \in Nat
    BY LinkAssumption
<1> DEFINE ones == {i \in DOMAIN data : data[i] = 1}
           all == {i \in DOMAIN word : word[i] = 1}
<1>2. DOMAIN data = 1..DWidth /\ DOMAIN word = 1..(DWidth + 1)
    BY <1>1 DEF Bits
<1>3. IsFiniteSet(ones) /\ Cardinality(ones) \in Nat /\ DWidth + 1 \notin ones
  <2>1. ones \subseteq 1..DWidth /\ IsFiniteSet(1..DWidth)
      BY <1>1, <1>2, FS_Interval
  <2> QED BY <1>1, <2>1, FS_Subset, FS_CardinalityType
<1>4. EvenParity(data) = Cardinality(ones) % 2 /\ EvenParity(word) = Cardinality(all) % 2
    BY DEF EvenParity
<1>5. CASE EvenParity(data) = 0
  <2>1. all = ones
      BY <1>1, <1>2, <1>5
  <2> QED BY <1>4, <1>5, <2>1
<1>6. CASE EvenParity(data) = 1
  <2>1. all = ones \cup {DWidth + 1}
      BY <1>1, <1>2, <1>6
  <2>2. Cardinality(all) = Cardinality(ones) + 1
    <3> HIDE DEF ones, all
    <3> QED BY <1>3, <2>1, FS_AddElement
  <2> HIDE DEF ones, all
  <2> QED BY <1>3, <1>4, <1>6, <2>2
<1> QED BY <1>1, <1>5, <1>6, ParityIsBit

(* A buffer that holds a frame without its stop bit gives data and no      *)
(* error.                                                                  *)
LEMMA FrameIsRead ==
    ASSUME NEW data \in Bits(DWidth), NEW buffer \in Seq({0, 1}), Len(buffer) = DWidth + 2,
           \A i \in 1..(DWidth + 2) : buffer[i] = FrameBits(data)[i]
    PROVE  /\ buffer[1] = 0 /\ EvenParity(Tail(buffer)) = 0
           /\ SubSeq(buffer, 2, DWidth + 1) = data
<1>1. DWidth \in Nat
    BY LinkAssumption
<1>2. /\ Tail(buffer) \in Seq({0, 1}) /\ Len(Tail(buffer)) = DWidth + 1
      /\ \A i \in 1..(DWidth + 1) : Tail(buffer)[i] = buffer[i + 1]
    BY <1>1, HeadTailProperties
<1>3. EvenParity(Tail(buffer)) = 0
  <2>1. \A i \in 1..DWidth : Tail(buffer)[i] = data[i]
      BY <1>1, <1>2, BitsOfFrame
  <2>2. Tail(buffer)[DWidth + 1] = EvenParity(data)
      BY <1>1, <1>2, BitsOfFrame
  <2> QED BY <1>2, <2>1, <2>2, EvenWithParity
<1>4. SubSeq(buffer, 2, DWidth + 1) = data
  <2>1. \A i \in 2..(DWidth + 1) : buffer[i] \in {0, 1}
      BY <1>1
  <2>2. SubSeq(buffer, 2, DWidth + 1) \in Bits(DWidth)
      BY BufferHoldsData
  <2>3. \A i \in 1..DWidth : SubSeq(buffer, 2, DWidth + 1)[i] = buffer[i + 1]
      BY <1>1, <2>1
  <2>4. \A i \in 1..DWidth : SubSeq(buffer, 2, DWidth + 1)[i] = data[i]
      BY <1>1, <2>3, BitsOfFrame
  <2>5. PICK read : read = SubSeq(buffer, 2, DWidth + 1)
      OBVIOUS
  <2>6. read \in [1..DWidth -> {0, 1}] /\ data \in [1..DWidth -> {0, 1}]
      BY <2>2, <2>5 DEF Bits
  <2>7. \A i \in 1..DWidth : read[i] = data[i]
      BY <2>4, <2>5
  <2>8. read = [i \in 1..DWidth |-> read[i]] /\ data = [i \in 1..DWidth |-> data[i]]
      BY <2>6
  <2>9. [i \in 1..DWidth |-> read[i]] = [i \in 1..DWidth |-> data[i]]
      BY <2>7
  <2> QED BY <2>5, <2>8, <2>9
<1> QED BY <1>1, <1>3, <1>4, BitsOfFrame

-----------------------------------------------------------------------------
(* The tolerance.                                                          *)

(* How early and how late the m-th pulse after the centre of the start bit *)
(* is, when it is within the samples for bit n.                            *)
LEMMA SampleTimes ==
    ASSUME DividerFits, NEW n \in Nat
    PROVE  /\ n * OsRate \in Nat /\ EarliestSample(n) \in Nat /\ LatestSample(n) \in Nat
           /\ Latest <= LatestSample(n)
           /\ n = 0 => LatestSample(n) = Latest
           /\ n >= 1 => Latest + OsPeriod + Pause <= LatestSample(n)
<1>1. /\ OsPeriod \in Nat /\ PulsesPerPeriod \in Nat \ {0} /\ Pause \in Nat /\ OsRate \in Nat \ {0}
      /\ Earliest \in Nat /\ Latest \in Nat
    BY TimingSizes
<1>2. PICK k \in Nat \ {0}, w \in Nat : k = PulsesPerPeriod /\ w = n * OsRate
    BY <1>1
<1>3. PICK a \in Nat, b \in Nat : a = w \div k /\ b = (w + k - 1) \div k
    BY <1>2
<1>4. w * OsPeriod \in Nat /\ a * Pause \in Nat /\ b * Pause \in Nat
    BY <1>1
<1>5. EarliestSample(n) = Earliest + w * OsPeriod + a * Pause
    BY <1>2, <1>3 DEF EarliestSample
<1>6. LatestSample(n) = Latest + w * OsPeriod + b * Pause
    BY <1>2, <1>3 DEF LatestSample
<1>7. n = 0 => w = 0 /\ b = 0 /\ w * OsPeriod = 0 /\ b * Pause = 0
    BY <1>1, <1>2, <1>3
<1>8. n >= 1 => OsPeriod <= w * OsPeriod /\ Pause <= b * Pause
  <2> SUFFICES ASSUME n >= 1 PROVE OsPeriod <= w * OsPeriod /\ Pause <= b * Pause
      OBVIOUS
  <2>1. 1 * OsRate <= n * OsRate
      BY <1>1, TimesMonotone
  <2>2. w >= 1
      BY <1>1, <1>2, <2>1
  <2>3. b >= 1
      BY <1>2, <1>3, <2>2
  <2>4. 1 * OsPeriod <= w * OsPeriod /\ 1 * Pause <= b * Pause
      BY <1>1, <2>2, <2>3, TimesMonotone
  <2> QED BY <1>1, <2>4
<1> QED BY <1>1, <1>2, <1>4, <1>5, <1>6, <1>7, <1>8

LEMMA SampleBounds ==
    ASSUME DividerFits, NEW m \in Nat, NEW c \in Nat, NEW n \in Nat
    PROVE  /\ m <= n * OsRate /\ c <= (m + PulsesPerPeriod - 1) \div PulsesPerPeriod =>
                  Latest + m * OsPeriod + c * Pause <= LatestSample(n)
           /\ m = n * OsRate /\ m \div PulsesPerPeriod <= c =>
                  EarliestSample(n) <= Earliest + m * OsPeriod + c * Pause
<1>1. /\ OsPeriod \in Nat /\ PulsesPerPeriod \in Nat \ {0} /\ Pause \in Nat
      /\ Earliest \in Nat /\ Latest \in Nat /\ n * OsRate \in Nat
    BY TimingSizes, SampleTimes
<1>2. PICK k \in Nat \ {0}, w \in Nat : k = PulsesPerPeriod /\ w = n * OsRate
    BY <1>1
<1>3. ASSUME m <= w, c <= (m + k - 1) \div k
      PROVE  Latest + m * OsPeriod + c * Pause <= LatestSample(n)
  <2>1. PICK b \in Nat : b = (w + k - 1) \div k
      BY <1>2
  <2>2. PICK a \in Nat : a = (m + k - 1) \div k
      BY <1>2
  <2>3. a <= b
    <3> SUFFICES ASSUME b + 1 <= a PROVE FALSE
        BY <2>1, <2>2
    <3>1. w + k - 1 < (b + 1) * k /\ a * k <= m + k - 1
        BY <1>2, <2>1, <2>2
    <3>2. (b + 1) * k <= a * k /\ a * k \in Int /\ (b + 1) * k \in Int
        BY <1>2, TimesMonotone
    <3> QED BY <1>2, <1>3, <3>1, <3>2
  <2>4. m * OsPeriod <= w * OsPeriod /\ m * OsPeriod \in Int /\ w * OsPeriod \in Int
      BY <1>1, <1>3, TimesMonotone
  <2>5. c * Pause <= b * Pause /\ c * Pause \in Int /\ b * Pause \in Int
    <3>1. c <= b
        BY <1>3, <2>1, <2>2, <2>3
    <3> QED BY <1>1, <3>1, TimesMonotone
  <2>6. LatestSample(n) = Latest + w * OsPeriod + b * Pause
      BY <1>2, <2>1 DEF LatestSample
  <2> QED BY <1>1, <2>4, <2>5, <2>6
<1>4. ASSUME m = w, m \div k <= c
      PROVE  EarliestSample(n) <= Earliest + m * OsPeriod + c * Pause
  <2>1. PICK a \in Nat : a = m \div k
      BY <1>2
  <2>2. a * Pause <= c * Pause /\ a * Pause \in Int /\ c * Pause \in Int
      BY <1>1, <1>4, <2>1, TimesMonotone
  <2>3. EarliestSample(n) = Earliest + m * OsPeriod + a * Pause
      BY <1>2, <1>4, <2>1 DEF EarliestSample
  <2>4. m * OsPeriod \in Int
      BY <1>1
  <2> QED BY <1>1, <2>2, <2>3, <2>4
<1> QED BY <1>2, <1>3, <1>4

(* A sample is not later than it may be, so the stop bit is not taken both *)
(* from the stop bit and from the parity bit.                              *)
LEMMA EarlierFirst ==
    ASSUME DividerFits, NEW n \in Nat
    PROVE  EarliestSample(n) <= LatestSample(n)
<1>1. /\ OsPeriod \in Nat /\ PulsesPerPeriod \in Nat \ {0} /\ Pause \in Nat /\ OsRate \in Nat
      /\ ToCentre \in Nat /\ n * OsRate \in Nat
    BY TimingSizes
<1>2. PICK w \in Nat, c \in Nat : w = n * OsRate /\ c = w \div PulsesPerPeriod
    BY <1>1
<1>3. c <= (w + PulsesPerPeriod - 1) \div PulsesPerPeriod
  <2>1. PICK k \in Nat \ {0} : k = PulsesPerPeriod /\ c = w \div k
      BY <1>1, <1>2
  <2>2. PICK b \in Nat : b = (w + k - 1) \div k
      BY <2>1
  <2>3. c * k <= w
      BY <2>1
  <2>5. w + k - 1 < (b + 1) * k
      BY <2>1, <2>2
  <2>4. ASSUME b + 1 <= c PROVE FALSE
    <3>1. (b + 1) * k <= c * k /\ (b + 1) * k \in Int /\ c * k \in Int
        BY <2>1, <2>4, TimesMonotone
    <3> QED BY <2>1, <2>3, <2>5, <3>1
  <2> QED BY <2>1, <2>2, <2>4
<1>4. Latest + w * OsPeriod + c * Pause <= LatestSample(n)
  <2>1. w <= n * OsRate
      BY <1>1, <1>2
  <2> QED BY <1>3, <2>1, SampleBounds
<1>5. EarliestSample(n) = Earliest + w * OsPeriod + c * Pause
    BY <1>2 DEF EarliestSample
<1>6. w * OsPeriod \in Nat /\ c * Pause \in Nat /\ LatestSample(n) \in Nat
    BY <1>1, SampleTimes
<1> QED BY <1>1, <1>4, <1>5, <1>6 DEF Earliest, Latest

LEMMA HeardOrMissed ==
    ASSUME DividerFits, NEW p \in Nat \ {0}, HeardByDevice(p)
    PROVE  ~StopBitMissed(p)
<1>1. LastBit \in Nat /\ EarliestSample(LastBit) \in Nat /\ LatestSample(LastBit) \in Nat
    BY TimingSizes, SampleTimes
<1>2. EarliestSample(LastBit) <= LatestSample(LastBit)
    BY <1>1, EarlierFirst
<1>3. LastBit * p \in Nat /\ (LastBit - 1 + 1) * p = LastBit * p
    BY <1>1
<1>4. SampleIn(LastBit, LastBit, p)
    BY <1>1 DEF HeardByDevice
<1> QED BY <1>1, <1>2, <1>3, <1>4 DEF StopBitMissed, SampleIn

(* Of every host that is followed the start bit is found, and the last     *)
(* sample is taken before the frame is over.                               *)
LEMMA StartIsFound ==
    ASSUME DividerFits, NEW p \in Nat \ {0}, HeardByDevice(p) \/ StopBitMissed(p)
    PROVE  100 * Latest < p /\ 100 * LatestSample(LastBit) < (LastBit + 1) * p
<1>1. LastBit \in Nat /\ LastBit >= 2 /\ Latest \in Nat
    BY TimingSizes
<1>2. LatestSample(0) = Latest /\ LatestSample(LastBit) \in Nat
    BY <1>1, SampleTimes
<1>3. SampleIn(0, 0, p)
    BY <1>1 DEF HeardByDevice, StopBitMissed
<1>4. 100 * Latest < (0 + 1) * p
    BY <1>2, <1>3 DEF SampleIn
<1>5. CASE HeardByDevice(p)
  <2>1. SampleIn(LastBit, LastBit, p)
      BY <1>1, <1>5 DEF HeardByDevice
  <2> QED BY <1>4, <2>1 DEF SampleIn
<1>6. CASE StopBitMissed(p)
  <2>1. 100 * LatestSample(LastBit) < (LastBit - 1 + 1) * p
      BY <1>6 DEF StopBitMissed, SampleIn
  <2>2. (LastBit - 1 + 1) * p = LastBit * p /\ (LastBit + 1) * p = LastBit * p + p
        /\ LastBit * p \in Nat
      BY <1>1
  <2> QED BY <1>2, <1>4, <2>1, <2>2
<1> QED BY <1>5, <1>6

(* What depends on the constants and the host's clock alone.               *)
LEMMA SameTimes ==
    /\ Earliest' = Earliest /\ Latest' = Latest /\ Pause' = Pause /\ LastBit' = LastBit
    /\ PulsesPerPeriod' = PulsesPerPeriod /\ LatestSample(LastBit)' = LatestSample(LastBit)
BY DEF Earliest, Latest, Pause, LastBit, PulsesPerPeriod, LatestSample, ToCentre

LEMMA SameHost ==
    ASSUME hostPeriod' = hostPeriod
    PROVE  /\ HeardByDevice(hostPeriod)' = HeardByDevice(hostPeriod)
           /\ StopBitMissed(hostPeriod)' = StopBitMissed(hostPeriod)
           /\ HeardByHost(hostPeriod)' = HeardByHost(hostPeriod)
BY DEF HeardByDevice, StopBitMissed, HeardByHost, SampleIn, EarliestSample, LatestSample,
       Earliest, Latest, Pause, Silence, LastBit, PulsesPerPeriod, ToCentre

-----------------------------------------------------------------------------
(* A frame from the host: the line.                                        *)

LEMMA BitOnLine ==
    ASSUME Host, talker = "host", time >= 0, ~Over,
           NEW n \in 0..LastBit, (100 * time) \div hostPeriod = n
    PROVE  rx = FrameBits(byte)[n + 1]
BY DEF rx, BitAt

LEMMA NotOverBefore ==
    ASSUME Host, talker = "host", time >= 0, 100 * time < (LastBit + 1) * hostPeriod
    PROVE  ~Over
<1>1. LastBit \in Nat /\ DWidth \in Nat /\ LastBit = DWidth + 2
    BY LinkAssumption DEF LastBit
<1>2. PICK p \in Nat \ {0}, t \in Nat : p = hostPeriod /\ t = time
    BY DEF Host
<1>3. PICK q \in Nat : q = (100 * t) \div p
    BY <1>2
<1>4. q * p <= 100 * t
    BY <1>2, <1>3
<1>5. q <= LastBit
  <2> SUFFICES ASSUME LastBit + 1 <= q PROVE FALSE
      BY <1>1, <1>3
  <2>1. (LastBit + 1) * p <= q * p /\ (LastBit + 1) * p \in Int /\ q * p \in Int
      BY <1>1, <1>2, <1>3, TimesMonotone
  <2> QED BY <1>2, <1>4, <2>1
<1> QED BY <1>1, <1>2, <1>3, <1>5 DEF Over, BitAt

LEMMA AfterStop ==
    ASSUME Host, talker = "host", time >= 0, ~Over, 100 * time >= LastBit * hostPeriod
    PROVE  rx = 1
<1>1. LastBit \in Nat /\ DWidth \in Nat /\ LastBit = DWidth + 2
    BY LinkAssumption DEF LastBit
<1>2. PICK p \in Nat \ {0}, t \in Nat : p = hostPeriod /\ t = time
    BY DEF Host
<1>3. PICK q \in Nat : q = (100 * t) \div p
    BY <1>2
<1>4. 100 * t < (q + 1) * p
    BY <1>2, <1>3
<1>5. q >= LastBit
  <2> SUFFICES ASSUME q + 1 <= LastBit PROVE FALSE
      BY <1>1, <1>3
  <2>1. (q + 1) * p <= LastBit * p /\ LastBit * p \in Int /\ (q + 1) * p \in Int
      BY <1>1, <1>2, <1>3, TimesMonotone
  <2> QED BY <1>2, <1>4, <2>1
<1>6. q = LastBit
    BY <1>1, <1>2, <1>3, <1>5 DEF Over, BitAt
<1>7. rx = FrameBits(byte)[LastBit + 1]
    BY <1>1, <1>2, <1>3, <1>6, BitOnLine
<1>8. byte \in Bits(DWidth)
    BY DEF Host
<1> QED BY <1>1, <1>7, <1>8, BitsOfFrame

(* The samples of a frame.                                                 *)
LEMMA TicksBound ==
    ASSUME Receiver, rxState = "receive"
    PROVE  /\ ticks \in Nat /\ ticks + 1 <= LastBit * OsRate
           /\ osCount = OsRate - 1 => ticks + 1 = (rxCount + 1) * OsRate
<1>1. PICK n \in 0..(DWidth + 1), k \in 0..(OsRate - 1) : n = rxCount /\ k = osCount
    BY DEF Receiver
<1>2. DWidth \in Nat /\ OsRate \in Nat \ {0} /\ LastBit = DWidth + 2
    BY LinkAssumption DEF LastBit
<1>3. ticks = n * OsRate + k /\ n * OsRate \in Nat /\ LastBit * OsRate \in Nat
    BY <1>1, <1>2 DEF ticks
<1>4. ticks <= LastTick /\ LastTick = LastBit * OsRate - 1
    BY <1>1, <1>2, <1>3, TicksInFrame DEF LastTick
<1> QED BY <1>1, <1>2, <1>3, <1>4, TicksInFrame

(* Before a frame is received it is not over.                              *)
LEMMA NotOverYet ==
    ASSUME DividerFits, Inv, Grid, talker = "host",
           HeardByDevice(hostPeriod) \/ StopBitMissed(hostPeriod),
           Waiting \/ NoSampleYet \/ InStartBit \/ Receiving
    PROVE  ~Over
<1>1. PICK p \in Nat \ {0} :
          p = hostPeriod /\ 100 * LatestSample(LastBit) < (LastBit + 1) * p
    BY StartIsFound DEF Inv, Host
<1>2. PICK t \in Int : t = time
    BY DEF Inv, Host
<1>3. /\ OsPeriod \in Nat /\ Pause \in Nat /\ LastBit \in Nat /\ LastBit >= 2 /\ Latest \in Nat
      /\ OsRate \in Nat \ {0} /\ PulsesPerPeriod \in Nat \ {0} /\ DWidth \in Nat
      /\ ToCentre \in Nat /\ Latest = ToCentre + OsPeriod + Pause + 2
      /\ (LastBit + 1) * p \in Nat
    BY TimingSizes DEF Latest
<1>4. /\ LatestSample(LastBit) \in Nat /\ LastBit * OsRate \in Nat
      /\ Latest + OsPeriod + Pause <= LatestSample(LastBit)
    BY <1>3, SampleTimes
<1>5. t >= 0 /\ t <= LatestSample(LastBit) => ~Over
  <2> SUFFICES ASSUME t >= 0, t <= LatestSample(LastBit) PROVE ~Over
      OBVIOUS
  <2>1. 100 * time < (LastBit + 1) * hostPeriod
      BY <1>1, <1>2, <1>3, <1>4
  <2> QED BY <1>2, <2>1, NotOverBefore DEF Inv
<1>6. CASE Waiting
    BY <1>2, <1>6 DEF Waiting, Over
<1>7. CASE NoSampleYet
  <2>1. NoneSince(t) => t < Silence
      BY NoneSinceBound
  <2>2. t < OsPeriod + Pause + 1 /\ t >= 0
      BY <1>2, <1>7, <2>1 DEF NoSampleYet, Silence
  <2> QED BY <1>3, <1>4, <1>5, <2>2
<1>8. CASE InStartBit
  <2>1. PICK c \in Nat, j \in 1..PulsesPerPeriod :
            /\ osCount = TakenSince(c, j) + 1
            /\ time - Since(c, j) \in (-1)..(IF j = 1 THEN OsPeriod + Pause ELSE OsPeriod)
      BY <1>8 DEF InStartBit
  <2>2. PICK m \in Nat : m = osCount /\ m >= 1 /\ m <= OsRate \div 2
      BY <1>8 DEF InStartBit
  <2>3. /\ Since(c, j) \in Int /\ Since(c, j) <= m * OsPeriod + c * Pause + 1
        /\ c <= (m + PulsesPerPeriod - 1) \div PulsesPerPeriod
        /\ m * OsPeriod \in Nat /\ c * Pause \in Nat
      BY <2>1, <2>2, SinceBound
  <2>4. m <= LastBit * OsRate
    <3>1. 1 * OsRate <= LastBit * OsRate /\ m <= OsRate
        BY <1>3, <2>2, TimesMonotone
    <3> QED BY <1>3, <1>4, <2>2, <3>1
  <2>5. Latest + m * OsPeriod + c * Pause <= LatestSample(LastBit)
      BY <1>3, <2>3, <2>4, SampleBounds
  <2>6. t - Since(c, j) <= OsPeriod + Pause
      BY <1>2, <1>3, <2>1, <2>3
  <2> QED BY <1>2, <1>3, <1>4, <1>5, <1>8, <2>3, <2>5, <2>6 DEF InStartBit
<1>9. CASE Receiving
  <2>1. PICK c \in Nat, j \in 1..PulsesPerPeriod :
            ticks = TakenSince(c, j) /\ time - Since(c, j) \in Earliest..(Latest - 1)
      BY <1>9 DEF Receiving
  <2>2. PICK m \in Nat : m = ticks + 1 /\ m <= LastBit * OsRate
      BY <1>9, TicksBound DEF Inv, Receiving
  <2>3. /\ Since(c, j) \in Int /\ Since(c, j) <= m * OsPeriod + c * Pause + 1
        /\ c <= (m + PulsesPerPeriod - 1) \div PulsesPerPeriod
        /\ m * OsPeriod \in Nat /\ c * Pause \in Nat
      BY <2>1, <2>2, SinceBound
  <2>4. Latest + m * OsPeriod + c * Pause <= LatestSample(LastBit)
      BY <1>3, <2>2, <2>3, SampleBounds
  <2>5. t - Since(c, j) <= Latest - 1
      BY <1>2, <1>3, <2>1, <2>3, TimingSizes
  <2> QED BY <1>2, <1>3, <1>4, <1>5, <1>9, <2>3, <2>4, <2>5 DEF Receiving
<1> QED BY <1>6, <1>7, <1>8, <1>9

-----------------------------------------------------------------------------
(* A frame from the host: one edge.                                        *)

Edge(bit) ==
    /\ DividerFits /\ Inv /\ FromHost
    /\ HeardByDevice(hostPeriod) \/ StopBitMissed(hostPeriod)
    /\ HostTalks /\ ClockDivider /\ ClockReceiver(bit) /\ bit = rx

LEMMA EdgeFacts ==
    ASSUME NEW bit, Edge(bit)
    PROVE  /\ DividerFits /\ Grid /\ ClockDivider /\ Grid'
           /\ Receiver /\ Host /\ talker = "host" /\ ~Over
           /\ time \in Int /\ time' = time + 1
           /\ byte \in Bits(DWidth) /\ byte' = byte
           /\ hostPeriod \in Nat \ {0} /\ hostPeriod' = hostPeriod
           /\ hostPeriod \in HostPeriods
           /\ HeardByDevice(hostPeriod) \/ StopBitMissed(hostPeriod)
           /\ 100 * Latest < hostPeriod
           /\ (rxState = "idle" \/ rxState' = "receive" => heard' = heard)
           /\ rx = bit
<1>1. DividerFits /\ Grid /\ ClockDivider /\ Receiver /\ Host /\ hostPeriod \in HostPeriods
      /\ HostTalks /\ rx = bit /\ (HeardByDevice(hostPeriod) \/ StopBitMissed(hostPeriod))
    BY DEF Edge, FromHost, Inv
<1>2. Grid'
    BY <1>1, GridStep
<1>3. bit \in {0, 1} /\ ClockReceiver(bit)
    BY <1>1, LineIsBit DEF Edge
<1>4. rxBusy = (rxState = "receive") /\ rxBusy' = (rxState' = "receive")
    BY <1>1, <1>3, ReceiverKeeps DEF Receiver
<1>5. heard' = IF rxBusy /\ ~rxBusy' THEN Append(heard, Frame(rxData', rxError')) ELSE heard
    BY <1>1 DEF HostTalks
<1>6. hostPeriod \in Nat \ {0} /\ 100 * Latest < hostPeriod
    BY <1>1, StartIsFound DEF Host
<1> QED BY <1>1, <1>2, <1>4, <1>5, <1>6 DEF HostTalks, Host

(* However the frame that was misread goes on, it stays the first heard.   *)
LEMMA MisreadEdge ==
    ASSUME NEW bit, Edge(bit), Misread
    PROVE  Misread'
<1>1. heard' = IF rxBusy /\ ~rxBusy' THEN Append(heard, Frame(rxData', rxError')) ELSE heard
    BY DEF Edge, HostTalks
<1>2. time' >= 0 /\ byte' = byte
    BY EdgeFacts DEF Misread
<1>3. EvenParity(byte)' = EvenParity(byte)
    BY <1>2 DEF EvenParity
<1>4. CASE heard' = heard
    BY <1>2, <1>3, <1>4 DEF Misread, Reports, Bits
<1>5. CASE heard' # heard
  <2>1. rxBusy /\ ~rxBusy' /\ rxBusy = (rxState = "receive")
      BY <1>1, <1>5, EdgeFacts DEF Receiver
  <2>2. StopCentre(bit)
      BY <2>1
      DEF Edge, ClockReceiver, LineIdle, StartBit, StartCentre, BetweenCentres, BitCentre
  <2>3. Frame(rxData', rxError') \in Reports
    <3>1. rxData' \in Bits(DWidth)
        BY <2>2, EdgeFacts, BufferHoldsData DEF StopCentre, Receiver
    <3>2. rxError' \in BOOLEAN
        BY <2>2 DEF StopCentre
    <3> QED BY <3>1, <3>2 DEF Frame, Reports
  <2>4. PICK f \in Reports : heard' = Append(heard, f)
      BY <1>1, <2>1, <2>3
  <2>5. heard \in Seq(Reports) /\ heard # <<>>
      BY DEF Misread
  <2>6. heard' \in Seq(Reports) /\ heard' # <<>> /\ heard'[1] = heard[1]
      BY <2>4, <2>5
  <2>7. Reports' = Reports
      BY DEF Reports, Bits
  <2> QED BY <1>2, <1>3, <2>6, <2>7 DEF Misread
<1> QED BY <1>4, <1>5

(* Between the pulses nothing happens.                                     *)
LEMMA QuietEdge ==
    ASSUME NEW bit, Edge(bit), ~osPulse
    PROVE  FromHost'
<1>1. UNCHANGED <<rxState, rxCount, osCount, rxBuffer, rxBusy, rxError, rxData>>
    BY DEF Edge, ClockReceiver
<1>2. heard' = heard
    BY <1>1, EdgeFacts DEF Receiver
<1>3. Grid /\ ClockDivider /\ DividerFits /\ time \in Int /\ time' = time + 1
      /\ byte' = byte /\ hostPeriod' = hostPeriod
    BY EdgeFacts
<1>4. ASSUME Waiting PROVE Waiting' \/ NoSampleYet'
  <2>1. time' <= 0 /\ NoneSince(time)'
    <3>1. PICK t \in Int : t = time + 1
        BY <1>3
    <3>2. time' = t /\ t <= 0
        BY <1>3, <1>4, <3>1 DEF Waiting
    <3>3. NoneSince(t)'
        BY <1>3, <3>2, NoneSinceStep
    <3> QED BY <3>2, <3>3 DEF NoneSince
  <2> QED BY <1>1, <1>2, <1>3, <1>4, <2>1 DEF Waiting, NoSampleYet, Quiet
<1>5. ASSUME NoSampleYet PROVE NoSampleYet'
  <2>1. NoneSince(time)'
    <3>1. PICK t \in Int : t = time
        BY <1>3
    <3>2. NoneSince(t + 1)'
        BY <1>3, <1>5, <3>1, NoneSinceStep DEF NoSampleYet
    <3> QED BY <1>3, <3>1, <3>2 DEF NoneSince
  <2> QED BY <1>1, <1>2, <1>3, <1>5, <2>1 DEF NoSampleYet, Quiet
<1>6. ASSUME InStartBit PROVE InStartBit'
  <2>1. PICK c \in Nat, j \in 1..PulsesPerPeriod :
            /\ osCount = TakenSince(c, j) + 1
            /\ time - Since(c, j) \in (-1)..(IF j = 1 THEN OsPeriod + Pause ELSE OsPeriod)
      BY <1>6 DEF InStartBit
  <2>2. PICK e \in Nat : /\ Since(e, j)' = Since(c, j) + 1 /\ Since(c, j) \in Int
                         /\ TakenSince(e, j)' = TakenSince(c, j) + 0
                         /\ TakenSince(c, j) \in Int
      BY <1>3, SinceStep
  <2>3. time' - Since(e, j)' = time - Since(c, j)
      BY <1>3, <2>2
  <2>4. osCount' = TakenSince(e, j)' + 1
      BY <1>1, <2>1, <2>2
  <2> QED BY <1>1, <1>2, <1>3, <1>6, <2>1, <2>3, <2>4, SameTimes DEF InStartBit, Quiet
<1>7. ASSUME Receiving PROVE Receiving'
  <2>1. PICK c \in Nat, j \in 1..PulsesPerPeriod :
            ticks = TakenSince(c, j) /\ time - Since(c, j) \in Earliest..(Latest - 1)
      BY <1>7 DEF Receiving
  <2>2. PICK e \in Nat : /\ Since(e, j)' = Since(c, j) + 1 /\ Since(c, j) \in Int
                         /\ TakenSince(e, j)' = TakenSince(c, j) + 0
                         /\ TakenSince(c, j) \in Int
      BY <1>3, SinceStep
  <2>3. time' - Since(e, j)' = time - Since(c, j)
      BY <1>3, <2>2
  <2>4. ticks' = TakenSince(e, j)'
      BY <1>1, <2>1, <2>2 DEF ticks
  <2>5. HeardByDevice(hostPeriod)' => Received(rxCount)'
      BY <1>1, <1>3, <1>7, SameHost DEF Receiving, Received, FrameBits, EvenParity
  <2> QED BY <1>1, <1>2, <1>3, <1>7, <2>1, <2>3, <2>4, <2>5, SameTimes DEF Receiving
<1>8. ASSUME Finished PROVE Finished'
  <2>1. PICK l \in Nat : l = LatestSample(LastBit) + 1
      BY <1>3, TimingSizes, SampleTimes
  <2>2. PICK d \in Int : d = time - l
      BY <1>3
  <2>3. osCount' = 0 \/ NoneSince(time - (LatestSample(LastBit) + 1))'
    <3>1. osCount = 0 \/ NoneSince(d)
        BY <1>8, <2>1, <2>2 DEF Finished
    <3>2. NoneSince(d) => NoneSince(d + 1)'
        BY <1>3, NoneSinceStep
    <3>3. time' - l = d + 1
        BY <1>3, <2>1, <2>2
    <3> QED BY <1>1, <2>1, <3>1, <3>2, <3>3, SameTimes DEF NoneSince
  <2>4. (100 * time >= LastBit * hostPeriod)'
    <3>1. LastBit \in Nat
        BY <1>3, TimingSizes
    <3>2. LastBit * hostPeriod \in Int
        BY <3>1, EdgeFacts
    <3>3. 100 * time' >= LastBit * hostPeriod
        BY <1>3, <1>8, <3>2 DEF Finished
    <3> QED BY <1>3, <3>3 DEF LastBit
  <2>5. Once'
      BY <1>2, <1>3, <1>8 DEF Finished, Once
  <2> QED BY <1>1, <1>3, <1>8, <2>3, <2>4, <2>5 DEF Finished
<1>9. Ended => Ended'
    BY <1>3, <1>8, SameHost, MisreadEdge DEF Ended
<1> QED BY <1>3, <1>4, <1>5, <1>6, <1>7, <1>9, EdgeFacts DEF Edge, FromHost

LEMMA ShiftedBits ==
    ASSUME NEW n \in Nat, NEW buffer \in Seq({0, 1}), Len(buffer) = n + 1, NEW bit \in {0, 1}
    PROVE  /\ Shifted(buffer, bit) \in Seq({0, 1}) /\ Len(Shifted(buffer, bit)) = n + 1
           /\ \A k \in 1..n : Shifted(buffer, bit)[k] = buffer[k + 1]
           /\ Shifted(buffer, bit)[n + 1] = bit
<1>1. /\ Tail(buffer) \in Seq({0, 1}) /\ Len(Tail(buffer)) = n
      /\ \A k \in 1..n : Tail(buffer)[k] = buffer[k + 1]
    BY HeadTailProperties
<1> QED BY <1>1 DEF Shifted

(* The start bit is on the line until its centre is sampled.               *)
LEMMA StartOnLine ==
    ASSUME NEW bit, Edge(bit), time \in 0..Latest
    PROVE  bit = 0
<1>1. PICK p \in Nat \ {0} : p = hostPeriod /\ 100 * Latest < p
    BY EdgeFacts
<1>2. Latest \in Nat /\ LastBit \in Nat
    BY EdgeFacts, TimingSizes
<1>3. PICK t \in Int : t = time
    BY EdgeFacts
<1>4. 0 * p <= 100 * t /\ 100 * t < (0 + 1) * p /\ 100 * t \in Int
    BY <1>1, <1>2, <1>3
<1>5. (100 * t) \div p = 0
    BY <1>4, Quotient
<1>6. rx = FrameBits(byte)[0 + 1]
    BY <1>1, <1>2, <1>3, <1>5, EdgeFacts, BitOnLine
<1>7. FrameBits(byte)[0 + 1] = 0
    BY EdgeFacts, BitsOfFrame
<1> QED BY <1>6, <1>7, EdgeFacts

LEMMA WaitingPulse ==
    ASSUME NEW bit, Edge(bit), osPulse, Waiting
    PROVE  Waiting' \/ NoSampleYet'
<1>1. rx = 1 /\ rxState = "idle"
    BY EdgeFacts DEF Waiting, Quiet, rx
<1>2. LineIdle(bit)
    BY <1>1, EdgeFacts DEF Edge, ClockReceiver, StartBit, StartCentre, BetweenCentres, BitCentre, StopCentre
<1>3. rxState' = "idle" /\ osCount' = 0 /\ heard' = <<>>
    BY <1>1, <1>2, EdgeFacts DEF LineIdle, Waiting, Quiet
<1>4. PICK t \in Int : t = time + 1
    BY EdgeFacts
<1>5. time' = t /\ t <= 0
    BY <1>4, EdgeFacts DEF Waiting
<1>6. NoneSince(t)'
    BY <1>5, EdgeFacts, NoneSinceStep
<1> QED BY <1>3, <1>5, <1>6 DEF Waiting, NoSampleYet, Quiet, NoneSince

LEMMA NoSampleYetPulse ==
    ASSUME NEW bit, Edge(bit), osPulse, NoSampleYet
    PROVE  InStartBit'
<1>1. /\ OsPeriod \in Nat /\ Pause \in Nat /\ Silence = OsPeriod + Pause + 1 /\ OsRate \in Nat
      /\ OsRate \div 2 \in 1..(PulsesPerPeriod - 1) /\ Latest = ToCentre + OsPeriod + Pause + 2
      /\ ToCentre \in Nat /\ PulsesPerPeriod \in Nat
    BY EdgeFacts, TimingSizes DEF Silence, Latest
<1>2. PICK t \in Int : t = time
    BY EdgeFacts
<1>3. NoneSince(t) /\ t < Silence /\ 0 <= t
    BY <1>2, EdgeFacts, NoneSinceBound DEF NoSampleYet
<1>4. bit = 0
    BY <1>1, <1>2, <1>3, StartOnLine
<1>5. StartBit(bit)
    BY <1>1, <1>4, EdgeFacts
    DEF Edge, ClockReceiver, LineIdle, StartCentre, BetweenCentres, BitCentre, StopCentre,
        NoSampleYet, Quiet
<1>6. rxState' = "idle" /\ osCount' = 1 /\ heard' = <<>>
    BY <1>5, EdgeFacts DEF StartBit, NoSampleYet, Quiet
<1>7. PICK c \in Nat, j \in 1..PulsesPerPeriod :
          j = Taken + 1 /\ Since(c, j)' \in {1, 2} /\ TakenSince(c, j)' = 0
    BY EdgeFacts, SinceThis
<1>8. t <= (IF j = 1 THEN OsPeriod + Pause ELSE OsPeriod)
  <2>1. PICK k \in 0..PulsesPerPeriod : k = Taken
      BY EdgeFacts, InGrid
  <2>2. k * OsPeriod \in Nat /\ (k + 1) * OsPeriod = k * OsPeriod + OsPeriod
        /\ (k = 0 => k * OsPeriod = 0)
      BY <1>1
  <2>3. countBaud \in Int /\ countBaud <= (k + 1) * OsPeriod
      BY <2>1, EdgeFacts, InGrid
  <2> QED BY <1>1, <1>3, <1>7, <2>1, <2>2, <2>3 DEF NoneSince
<1>9. time' - Since(c, j)' \in (-1)..(IF j = 1 THEN OsPeriod + Pause ELSE OsPeriod)
    BY <1>1, <1>2, <1>3, <1>7, <1>8, EdgeFacts
<1>10. time' >= 0
    BY <1>2, <1>3, EdgeFacts
<1>11. osCount' \in 1..(OsRate \div 2) /\ osCount' = TakenSince(c, j)' + 1
    BY <1>1, <1>6, <1>7
<1> QED BY <1>6, <1>9, <1>10, <1>11, SameTimes DEF InStartBit, Quiet

LEMMA InStartBitPulse ==
    ASSUME NEW bit, Edge(bit), osPulse, InStartBit
    PROVE  InStartBit' \/ Receiving'
<1>1. /\ OsPeriod \in Nat /\ Pause \in Nat /\ OsRate \in Nat /\ PulsesPerPeriod \in Nat \ {0}
      /\ Latest = ToCentre + OsPeriod + Pause + 2 /\ Earliest = ToCentre - 2
      /\ ToCentre \in Nat
    BY EdgeFacts, TimingSizes DEF Latest, Earliest
<1>2. PICK h \in 1..(PulsesPerPeriod - 1) : h = OsRate \div 2
    BY EdgeFacts, TimingSizes
<1>3. PICK c \in Nat, j \in 1..PulsesPerPeriod :
          /\ osCount = TakenSince(c, j) + 1
          /\ time - Since(c, j) \in (-1)..(IF j = 1 THEN OsPeriod + Pause ELSE OsPeriod)
    BY DEF InStartBit
<1>4. PICK m \in 1..h : m = osCount
    BY <1>2 DEF InStartBit
<1>5. m * OsPeriod \in Nat /\ m * OsPeriod <= ToCentre /\ (m = h => m * OsPeriod = ToCentre)
  <2>1. m * OsPeriod <= h * OsPeriod /\ m * OsPeriod \in Nat
      BY <1>1, <1>4, TimesMonotone
  <2> QED BY <1>2, <2>1 DEF ToCentre
<1>6. PICK t \in Int, s \in Int : t = time /\ s = Since(c, j)
    BY <1>3, <1>4, EdgeFacts, SinceBound
<1>7. c * Pause \in Nat /\ c * Pause <= Pause /\ (j = 1 => c * Pause = 0)
  <2>1. /\ c <= (m + PulsesPerPeriod - 1) \div PulsesPerPeriod
        /\ j = 1 => c = m \div PulsesPerPeriod
      BY <1>3, <1>4, EdgeFacts, SinceBound
  <2>2. (m + PulsesPerPeriod - 1) \div PulsesPerPeriod = 1 /\ m \div PulsesPerPeriod = 0
    <3>1. PICK k \in Nat \ {0} : k = PulsesPerPeriod /\ m < k
        BY <1>1, <1>2, <1>4
    <3>2. 1 * k <= m + k - 1 /\ m + k - 1 < (1 + 1) * k /\ 0 * k <= m /\ m < (0 + 1) * k
        BY <1>4, <3>1
    <3>3. (m + k - 1) \div k = 1 /\ m \div k = 0
        BY <1>4, <3>1, <3>2, Quotient
    <3> QED BY <3>1, <3>3
  <2>3. c \in {0, 1} /\ (j = 1 => c = 0)
      BY <2>1, <2>2
  <2>4. 0 * Pause = 0 /\ 1 * Pause = Pause
      BY <1>1
  <2> QED BY <1>1, <2>3, <2>4
<1>8. s - m * OsPeriod - c * Pause \in {0, 1}
    BY <1>3, <1>4, <1>6, EdgeFacts, SinceBound
<1>9. t - s >= -1 /\ t - s <= (IF j = 1 THEN OsPeriod + Pause ELSE OsPeriod)
    BY <1>1, <1>3, <1>6
<1>10. t <= Latest - 1 /\ t >= m * OsPeriod - 1
    BY <1>1, <1>5, <1>7, <1>8, <1>9
<1>11. t >= 0
    BY <1>6 DEF InStartBit
<1>12. bit = 0
    BY <1>1, <1>6, <1>10, <1>11, StartOnLine
<1>13. rxState = "idle" /\ heard = <<>> /\ byte' = byte /\ time' = t + 1 /\ time' >= 0
    BY <1>6, <1>11, EdgeFacts DEF InStartBit, Quiet
<1>14. StartBit(bit) \/ StartCentre(bit)
    BY <1>12, <1>13
    DEF Edge, ClockReceiver, LineIdle, StartCentre, BetweenCentres, BitCentre, StopCentre
<1>15. ASSUME m < h PROVE InStartBit'
  <2>1. StartBit(bit)
      BY <1>2, <1>4, <1>14, <1>15 DEF StartCentre
  <2>2. rxState' = "idle" /\ osCount' = m + 1 /\ heard' = <<>>
      BY <1>4, <1>13, <2>1, EdgeFacts DEF StartBit
  <2>3. PICK e \in Nat : /\ Since(e, j)' = Since(c, j) + 1
                         /\ TakenSince(e, j)' = TakenSince(c, j) + 1
                         /\ TakenSince(c, j) \in Int
      BY EdgeFacts, SinceStep
  <2>4. time' - Since(e, j)' \in (-1)..(IF j = 1 THEN OsPeriod + Pause ELSE OsPeriod)
      BY <1>1, <1>6, <1>9, <1>13, <2>3
  <2>5. osCount' \in 1..(OsRate \div 2) /\ osCount' = TakenSince(e, j)' + 1
      BY <1>2, <1>3, <1>4, <1>15, <2>2, <2>3
  <2> QED BY <1>13, <2>2, <2>4, <2>5, SameTimes DEF InStartBit, Quiet
<1>16. ASSUME m = h PROVE Receiving'
  <2>1. StartCentre(bit)
      BY <1>2, <1>4, <1>14, <1>16 DEF StartBit
  <2>2. rxState' = "receive" /\ osCount' = 0 /\ rxCount' = 0 /\ rxBuffer' = Shifted(rxBuffer, bit)
      BY <2>1 DEF StartCentre
  <2>3. heard' = <<>>
      BY <1>13, <2>2, EdgeFacts
  <2>4. Received(rxCount)'
    <3>1. DWidth \in Nat /\ DWidth + 1 - 0 + 1 = DWidth + 2
        BY LinkAssumption
    <3>2. rxBuffer'[DWidth + 2] = FrameBits(byte)[1]
      <4>1. DWidth + 1 \in Nat /\ DWidth + 1 + 1 = DWidth + 2
          BY <3>1
      <4>2. rxBuffer'[DWidth + 2] = bit
          BY <1>12, <2>2, <4>1, EdgeFacts, ShiftedBits DEF Receiver
      <4> QED BY <1>12, <4>2, EdgeFacts, BitsOfFrame
    <3>3. \A i \in 1..(0 + 1) : rxBuffer'[DWidth + 1 - 0 + i] = FrameBits(byte)[i]
        BY <3>1, <3>2
    <3> QED BY <1>13, <2>2, <3>3 DEF Received, FrameBits, EvenParity
  <2>5. PICK e \in Nat, i \in 1..PulsesPerPeriod :
            Since(e, i)' \in {1, 2} /\ TakenSince(e, i)' = 0
      BY EdgeFacts, SinceThis
  <2>6. time' - Since(e, i)' \in Earliest..(Latest - 1)
      BY <1>1, <1>5, <1>10, <1>13, <1>16, <2>5
  <2>7. ticks' = 0
    <3>1. 0 * OsRate + 0 = 0
        BY <1>1
    <3> QED BY <2>2, <3>1 DEF ticks
  <2> QED BY <1>13, <2>2, <2>3, <2>4, <2>5, <2>6, <2>7, SameTimes DEF Receiving
<1> QED BY <1>2, <1>4, <1>15, <1>16

(* A sample is of bit k if it is taken then at the earliest and the latest. *)
LEMMA BitIsSampled ==
    ASSUME NEW bit, Edge(bit), NEW n \in 0..LastBit, NEW k \in 0..LastBit,
           NEW t \in Int, t = time, t >= 0,
           EarliestSample(n) <= t, t <= LatestSample(n), SampleIn(n, k, hostPeriod)
    PROVE  bit = FrameBits(byte)[k + 1]
<1>1. PICK p \in Nat \ {0} : p = hostPeriod
    BY EdgeFacts
<1>2. /\ LastBit \in Nat /\ k * p \in Int /\ (k + 1) * p \in Int
      /\ EarliestSample(n) \in Nat /\ LatestSample(n) \in Nat
    BY <1>1, EdgeFacts, TimingSizes, SampleTimes
<1>3. k * p <= 100 * t /\ 100 * t < (k + 1) * p
    BY <1>1, <1>2 DEF SampleIn
<1>4. (100 * t) \div p = k
    BY <1>2, <1>3, Quotient
<1> QED BY <1>1, <1>4, EdgeFacts, BitOnLine

(* The frame is put together after the sample for its stop bit.            *)
LEMMA FrameHeard ==
    ASSUME NEW bit, Edge(bit), StopCentre(bit), heard = <<>>
    PROVE  /\ rxState' = "idle"
           /\ heard' = <<Frame(SubSeq(rxBuffer, 2, DWidth + 1), rxError')>>
           /\ rxError' = (rxBuffer[1] = 1 \/ EvenParity(Tail(rxBuffer)) = 1 \/ bit = 0)
<1>1. /\ rxState = "receive" /\ rxState' = "idle" /\ ~rxBusy'
      /\ rxData' = SubSeq(rxBuffer, 2, DWidth + 1)
      /\ rxError' = (rxBuffer[1] = 1 \/ EvenParity(Tail(rxBuffer)) = 1 \/ bit = 0)
    BY DEF StopCentre
<1>2. rxBusy
    BY <1>1, EdgeFacts DEF Receiver
<1>3. heard' = Append(heard, Frame(rxData', rxError'))
    BY <1>1, <1>2 DEF Edge, HostTalks
<1>4. \A f : Append(<<>>, f) = <<f>>
    OBVIOUS
<1> QED BY <1>1, <1>3, <1>4

(* A sample, and the last one.                                             *)
LEMMA CentrePulse ==
    ASSUME NEW bit, Edge(bit), Receiving, BitCentre(bit), HeardByDevice(hostPeriod),
           NEW t \in Int, t = time,
           EarliestSample(rxCount + 1) <= t, t <= LatestSample(rxCount + 1)
    PROVE  Received(rxCount)'
<1>1. DWidth \in Nat /\ LastBit = DWidth + 2
    BY LinkAssumption DEF LastBit
<1>2. PICK n \in 0..DWidth : n = rxCount
    BY <1>1, EdgeFacts DEF Receiving, Receiver, BitCentre
<1>3. n + 1 \in 0..LastBit /\ SampleIn(n + 1, n + 1, hostPeriod) /\ t >= 0
    BY <1>1, <1>2 DEF HeardByDevice, Receiving
<1>4. bit = FrameBits(byte)[n + 1 + 1]
    BY <1>2, <1>3, BitIsSampled
<1>5. /\ rxBuffer \in Seq({0, 1}) /\ Len(rxBuffer) = DWidth + 2 /\ bit \in {0, 1}
      /\ byte' = byte
    BY EdgeFacts, LineIsBit DEF Receiver
<1>6. /\ \A k \in 1..(DWidth + 1) : Shifted(rxBuffer, bit)[k] = rxBuffer[k + 1]
      /\ Shifted(rxBuffer, bit)[DWidth + 2] = bit
  <2>1. DWidth + 1 \in Nat /\ DWidth + 1 + 1 = DWidth + 2
      BY <1>1
  <2> QED BY <1>5, <2>1, ShiftedBits
<1>7. rxCount' = n + 1 /\ rxBuffer' = Shifted(rxBuffer, bit)
    BY <1>2 DEF BitCentre
<1>8. \A i \in 1..(n + 1) : rxBuffer[DWidth + 1 - n + i] = FrameBits(byte)[i]
    BY <1>2 DEF Receiving, Received
<1>9. ASSUME NEW i \in 1..(n + 1 + 1)
      PROVE  rxBuffer'[DWidth + 1 - (n + 1) + i] = FrameBits(byte)[i]
  <2>1. CASE i = n + 1 + 1
    <3>1. DWidth + 1 - (n + 1) + i = DWidth + 2
        BY <1>1, <2>1
    <3> QED BY <1>4, <1>6, <1>7, <2>1, <3>1
  <2>2. CASE i # n + 1 + 1
    <3>1. i \in 1..(n + 1)
        BY <2>2
    <3>2. PICK k \in 1..(DWidth + 1) : k = DWidth + 1 - (n + 1) + i
        BY <1>1, <1>2, <3>1
    <3>3. DWidth + 1 - n + i = k + 1
        BY <1>1, <3>1, <3>2
    <3>4. Shifted(rxBuffer, bit)[k] = rxBuffer[k + 1]
        BY <1>6
    <3> QED BY <1>7, <1>8, <3>1, <3>2, <3>3, <3>4
  <2> QED BY <2>1, <2>2
<1> QED BY <1>5, <1>7, <1>9 DEF Received, FrameBits, EvenParity

LEMMA StopPulse ==
    ASSUME NEW bit, Edge(bit), Receiving, StopCentre(bit),
           NEW t \in Int, t = time,
           EarliestSample(LastBit) <= t, t <= LatestSample(LastBit)
    PROVE  Ended'
<1>1. /\ DWidth \in Nat /\ LastBit = DWidth + 2 /\ LastBit \in Nat
      /\ EarliestSample(LastBit) \in Nat /\ LatestSample(LastBit) \in Nat
    BY LinkAssumption, EdgeFacts, SampleTimes DEF LastBit
<1>2. PICK p \in Nat \ {0} : p = hostPeriod /\ hostPeriod' = hostPeriod
    BY EdgeFacts
<1>3. t >= 0 /\ time' = t + 1 /\ byte' = byte /\ byte \in Bits(DWidth) /\ heard = <<>>
      /\ rxBuffer \in Seq({0, 1}) /\ Len(rxBuffer) = DWidth + 2 /\ bit \in {0, 1}
    BY EdgeFacts, LineIsBit DEF Receiving, Receiver
<1>4. /\ rxState' = "idle"
      /\ heard' = <<Frame(SubSeq(rxBuffer, 2, DWidth + 1), rxError')>>
      /\ rxError' = (rxBuffer[1] = 1 \/ EvenParity(Tail(rxBuffer)) = 1 \/ bit = 0)
    BY <1>3, FrameHeard
<1>5. ASSUME HeardByDevice(hostPeriod) PROVE Finished'
  <2>1. LastBit \in 0..LastBit /\ SampleIn(LastBit, LastBit, p)
      BY <1>1, <1>2, <1>5 DEF HeardByDevice
  <2>2. bit = FrameBits(byte)[LastBit + 1]
      BY <1>2, <1>3, <2>1, BitIsSampled
  <2>3. bit = 1
      BY <1>1, <1>3, <2>2, BitsOfFrame
  <2>4. \A i \in 1..(DWidth + 2) : rxBuffer[i] = FrameBits(byte)[i]
    <3>1. rxCount = DWidth + 1
        BY <1>1, EdgeFacts DEF StopCentre, Receiving, Receiver
    <3>2. ASSUME NEW i \in 1..(DWidth + 2) PROVE rxBuffer[i] = FrameBits(byte)[i]
      <4>1. i \in 1..(DWidth + 1 + 1) /\ DWidth + 1 - (DWidth + 1) + i = i
          BY <1>1
      <4>2. rxBuffer[DWidth + 1 - (DWidth + 1) + i] = FrameBits(byte)[i]
          BY <1>5, <3>1, <4>1 DEF Receiving, Received
      <4> QED BY <4>1, <4>2
    <3> QED BY <3>2
  <2>5. rxBuffer[1] = 0 /\ EvenParity(Tail(rxBuffer)) = 0 /\ SubSeq(rxBuffer, 2, DWidth + 1) = byte
      BY <1>3, <2>4, FrameIsRead
  <2>6. rxError' = FALSE
    <3>1. ~(rxBuffer[1] = 1) /\ ~(EvenParity(Tail(rxBuffer)) = 1) /\ ~(bit = 0)
        BY <2>3, <2>5
    <3> QED BY <1>4, <3>1, Zenon
  <2>7. Once'
      BY <1>3, <1>4, <2>5, <2>6 DEF Once, Frame
  <2>8. (100 * time >= LastBit * hostPeriod)'
    <3>1. LastBit * p \in Nat /\ LastBit * p <= 100 * EarliestSample(LastBit)
        BY <1>1, <2>1 DEF SampleIn
    <3>2. 100 * time' >= LastBit * hostPeriod
        BY <1>1, <1>2, <1>3, <3>1
    <3> QED BY <1>2, <3>2 DEF LastBit
  <2>9. NoneSince(time - (LatestSample(LastBit) + 1))'
    <3>1. PICK d \in Int : d = time' - (LatestSample(LastBit) + 1) /\ d <= 0
        BY <1>1, <1>3
    <3>2. NoneSince(d)'
        BY <3>1, EdgeFacts, NoneSinceStep
    <3> QED BY <3>1, <3>2, SameTimes DEF NoneSince
  <2> QED BY <1>3, <1>4, <2>7, <2>8, <2>9 DEF Finished
<1>6. ASSUME StopBitMissed(hostPeriod) PROVE Misread'
  <2>1. LastBit - 1 \in 0..LastBit /\ LastBit \in 0..LastBit /\ SampleIn(LastBit, LastBit - 1, p)
      BY <1>1, <1>2, <1>6 DEF StopBitMissed
  <2>2. bit = FrameBits(byte)[LastBit - 1 + 1]
      BY <1>2, <1>3, <2>1, BitIsSampled
  <2>3. bit = EvenParity(byte)
      BY <1>1, <1>3, <2>2, BitsOfFrame
  <2>4. EvenParity(byte) = 0 => rxError' = TRUE
      BY <1>4, <2>3
  <2>5. PICK f \in Reports : f.error = rxError' /\ heard' = <<f>>
    <3>1. SubSeq(rxBuffer, 2, DWidth + 1) \in Bits(DWidth)
        BY <1>3, BufferHoldsData
    <3>2. rxError' \in BOOLEAN
        BY <1>4
    <3> QED BY <1>4, <3>1, <3>2 DEF Frame, Reports
  <2>6. heard' \in Seq(Reports) /\ heard' # <<>> /\ heard'[1] = f
      BY <2>5
  <2>7. Reports' = Reports /\ EvenParity(byte)' = EvenParity(byte)
      BY <1>3 DEF Reports, Bits, EvenParity
  <2> QED BY <1>3, <2>4, <2>5, <2>6, <2>7 DEF Misread
<1>7. HeardByDevice(hostPeriod) \/ StopBitMissed(hostPeriod)
    BY EdgeFacts
<1>8. /\ HeardByDevice(hostPeriod)' = HeardByDevice(hostPeriod)
      /\ StopBitMissed(hostPeriod)' = StopBitMissed(hostPeriod)
    BY <1>2, SameHost
<1> QED BY <1>5, <1>6, <1>7, <1>8 DEF Ended

LEMMA ReceivingPulse ==
    ASSUME NEW bit, Edge(bit), osPulse, Receiving
    PROVE  Receiving' \/ Ended'
<1>1. /\ OsRate \in Nat \ {0} /\ OsPeriod \in Nat /\ Pause \in Nat
      /\ PulsesPerPeriod \in Nat \ {0} /\ Earliest \in Nat /\ Latest \in Nat
      /\ LastBit \in Nat /\ LastBit = DWidth + 2 /\ DWidth \in Nat
    BY EdgeFacts, TimingSizes DEF LastBit
<1>2. PICK c \in Nat, j \in 1..PulsesPerPeriod :
          ticks = TakenSince(c, j) /\ time - Since(c, j) \in Earliest..(Latest - 1)
    BY DEF Receiving
<1>3. PICK m \in Nat : m = ticks + 1 /\ (osCount = OsRate - 1 => m = (rxCount + 1) * OsRate)
    BY EdgeFacts, TicksBound DEF Receiving
<1>4. PICK e \in Nat : /\ Since(e, j)' = Since(c, j) + 1
                       /\ TakenSince(e, j)' = TakenSince(c, j) + 1
    BY EdgeFacts, SinceStep
<1>5. PICK t \in Int, s \in Int : t = time /\ s = Since(c, j)
    BY <1>2, <1>3, EdgeFacts, SinceBound
<1>6. rxState = "receive" /\ heard = <<>> /\ byte' = byte /\ time' = t + 1 /\ t >= 0 /\ time' >= 0
      /\ hostPeriod' = hostPeriod
    BY <1>5, EdgeFacts DEF Receiving
<1>7. time' - Since(e, j)' \in Earliest..(Latest - 1)
    BY <1>1, <1>2, <1>4, <1>5, <1>6
<1>8. BetweenCentres \/ BitCentre(bit) \/ StopCentre(bit)
    BY <1>6 DEF Edge, ClockReceiver, LineIdle, StartBit, StartCentre
<1>9. ASSUME BitCentre(bit) \/ StopCentre(bit), NEW n \in Nat, n = rxCount + 1
      PROVE  EarliestSample(n) <= t /\ t <= LatestSample(n)
  <2>1. m = n * OsRate
    <3>1. osCount \in 0..(OsRate - 1)
        BY <1>6, EdgeFacts DEF Receiver
    <3>2. osCount = OsRate - 1
        BY <1>1, <1>9, <3>1 DEF BitCentre, StopCentre
    <3> QED BY <1>3, <1>9, <3>2
  <2>2. /\ m * OsPeriod \in Nat /\ c * Pause \in Nat
        /\ s - m * OsPeriod - c * Pause \in {0, 1}
        /\ c <= (m + PulsesPerPeriod - 1) \div PulsesPerPeriod
        /\ m \div PulsesPerPeriod <= c
      BY <1>2, <1>3, <1>5, EdgeFacts, SinceBound
  <2>3. /\ Latest + m * OsPeriod + c * Pause <= LatestSample(n)
        /\ EarliestSample(n) <= Earliest + m * OsPeriod + c * Pause
    <3>1. n * OsRate \in Nat /\ m <= n * OsRate
        BY <1>1, <2>1
    <3> QED BY <2>1, <2>2, <3>1, EdgeFacts, SampleBounds
  <2>4. EarliestSample(n) \in Nat /\ LatestSample(n) \in Nat
      BY EdgeFacts, SampleTimes
  <2>5. t - s \in Earliest..(Latest - 1)
      BY <1>2, <1>5
  <2> QED BY <1>1, <2>2, <2>3, <2>4, <2>5
<1>10. ASSUME BetweenCentres \/ BitCentre(bit), HeardByDevice(hostPeriod) => Received(rxCount)'
       PROVE  Receiving'
  <2>1. ticks' = ticks + 1
      BY <1>6, <1>10, EdgeFacts, TicksCount
  <2>2. rxState' = "receive" /\ heard' = <<>>
      BY <1>6, <1>10, EdgeFacts DEF BetweenCentres, BitCentre
  <2>3. ticks' = TakenSince(e, j)'
      BY <1>2, <1>4, <2>1
  <2>4. HeardByDevice(hostPeriod)' => Received(rxCount)'
      BY <1>6, <1>10, SameHost
  <2> QED BY <1>6, <1>7, <2>2, <2>3, <2>4, SameTimes DEF Receiving
<1>11. ASSUME BetweenCentres PROVE Receiving'
  <2>1. Received(rxCount) => Received(rxCount)'
      BY <1>6, <1>11 DEF BetweenCentres, Received, FrameBits, EvenParity
  <2> QED BY <1>10, <1>11, <2>1 DEF Receiving
<1>12. ASSUME BitCentre(bit) PROVE Receiving'
  <2>1. PICK n \in Nat : n = rxCount + 1
      BY <1>6, EdgeFacts DEF Receiver
  <2>2. EarliestSample(rxCount + 1) <= t /\ t <= LatestSample(rxCount + 1)
      BY <1>9, <1>12, <2>1
  <2>3. HeardByDevice(hostPeriod) => Received(rxCount)'
      BY <1>5, <1>12, <2>2, CentrePulse
  <2> QED BY <1>10, <1>12, <2>3
<1>13. ASSUME StopCentre(bit) PROVE Ended'
  <2>1. rxCount + 1 = LastBit
      BY <1>1, <1>6, <1>13, EdgeFacts DEF Receiver, StopCentre
  <2>2. EarliestSample(LastBit) <= t /\ t <= LatestSample(LastBit)
      BY <1>1, <1>9, <1>13, <2>1
  <2> QED BY <1>5, <1>13, <2>2, StopPulse
<1> QED BY <1>8, <1>11, <1>12, <1>13

LEMMA FinishedPulse ==
    ASSUME NEW bit, Edge(bit), osPulse, Finished
    PROVE  Finished'
<1>1. rxState = "idle" /\ time >= 0 /\ 100 * time >= LastBit * hostPeriod
    BY DEF Finished
<1>2. bit = 1
    BY <1>1, EdgeFacts, AfterStop
<1>3. LineIdle(bit)
    BY <1>1, <1>2 DEF Edge, ClockReceiver, StartBit, StartCentre, BetweenCentres, BitCentre, StopCentre
<1>4. rxState' = "idle" /\ osCount' = 0 /\ Once'
    BY <1>1, <1>3, EdgeFacts DEF LineIdle, Finished, Once
<1>5. 100 * time' >= LastBit * hostPeriod /\ time' >= 0
  <2>1. LastBit * hostPeriod \in Int
      BY EdgeFacts, TimingSizes
  <2> QED BY <1>1, <2>1, EdgeFacts
<1> QED BY <1>4, <1>5, EdgeFacts DEF Finished, LastBit

LEMMA HostEdge ==
    ASSUME NEW bit, Edge(bit)
    PROVE  FromHost'
<1>1. CASE ~osPulse
    BY <1>1, QuietEdge
<1>2. CASE osPulse
  <2>1. Waiting \/ NoSampleYet \/ InStartBit \/ Receiving \/ Ended
      BY DEF Edge, FromHost
  <2>2. Ended => Ended'
      BY <1>2, EdgeFacts, SameHost, FinishedPulse, MisreadEdge DEF Ended
  <2>3. (Waiting \/ NoSampleYet \/ InStartBit \/ Receiving \/ Ended)'
      BY <1>2, <2>1, <2>2, WaitingPulse, NoSampleYetPulse, InStartBitPulse, ReceivingPulse
  <2> QED BY <2>3, EdgeFacts DEF FromHost
<1> QED BY <1>1, <1>2

(* Of a host that is understood the receiver is idle when the next frame   *)
(* begins.                                                                 *)
LEMMA HostBegins ==
    ASSUME DividerFits, Inv, FromHost, HeardByDevice(hostPeriod), talker = "host", Begin
    PROVE  FromHost'
<1>1. Over /\ time' \in {-g : g \in Gaps} /\ heard' = <<>> /\ hostPeriod' = hostPeriod
      /\ ClockDivider /\ ClockReceiver(1)
    BY DEF Begin, Clock
<1>2. Grid /\ hostPeriod \in HostPeriods /\ Grid'
    BY <1>1, GridStep DEF FromHost
<1>3. PICK p \in Nat \ {0} : p = hostPeriod /\ HeardByDevice(p)
    BY DEF Inv, Host
<1>4. /\ LastBit \in Nat /\ LastBit >= 2 /\ Silence \in Nat /\ LatestSample(LastBit) \in Nat
      /\ LastBit = DWidth + 2 /\ DWidth \in Nat
    BY TimingSizes, SampleTimes DEF LastBit
<1>5. Finished
  <2>1. Ended
      BY <1>1, <1>2, NotOverYet DEF FromHost
  <2>2. ~StopBitMissed(p)
      BY <1>3, HeardOrMissed
  <2> QED BY <1>3, <2>1, <2>2 DEF Ended
<1>6. PICK t \in Nat : t = time
    BY <1>5 DEF Inv, Host, Finished
<1>7. osCount = 0
  <2> SUFFICES ASSUME NoneSince(time - (LatestSample(LastBit) + 1)) PROVE FALSE
      BY <1>5 DEF Finished
  <2>1. PICK d \in Int : d = t - (LatestSample(LastBit) + 1)
      BY <1>4
  <2>2. d < Silence
      BY <1>2, <1>6, <2>1, NoneSinceBound
  <2>3. (100 * t) \div p >= LastBit + 1
      BY <1>1, <1>3, <1>4, <1>6 DEF Over, BitAt
  <2>4. (LastBit + 1) * p <= 100 * t /\ (LastBit + 1) * p \in Int
    <3>1. PICK q \in Nat : q = (100 * t) \div p
        BY <1>3, <1>6
    <3>2. q * p <= 100 * t
        BY <1>3, <1>6, <3>1
    <3>3. (LastBit + 1) * p <= q * p /\ (LastBit + 1) * p \in Int /\ q * p \in Int
        BY <1>3, <1>4, <2>3, <3>1, TimesMonotone
    <3> QED BY <1>6, <3>2, <3>3
  <2>5. 100 * (LatestSample(LastBit) + Silence) < (LastBit + 1) * p
      BY <1>3 DEF HeardByDevice
  <2> QED BY <1>4, <1>6, <2>1, <2>2, <2>4, <2>5
<1>8. osCount' = 0 /\ rxState' = "idle"
    BY <1>1, <1>5, <1>7
    DEF Finished, ClockReceiver, LineIdle, StartBit, StartCentre, BetweenCentres, BitCentre, StopCentre
<1>9. PICK g \in Nat : time' = -g
    BY <1>1, LinkAssumption
<1>10. NoneSince(-g)'
    BY <1>1, <1>2, <1>9, NoneSinceStep
<1>11. NoneSince(time)'
    BY <1>9, <1>10 DEF NoneSince
<1>12. time' < 0 \/ time' >= 0
    BY <1>9
<1> QED BY <1>1, <1>2, <1>8, <1>11, <1>12 DEF FromHost, Waiting, NoSampleYet, Quiet

-----------------------------------------------------------------------------
(* A frame from the device.                                                *)

(* What holds of the centres of the first and the last bit holds of those  *)
(* between.                                                                *)
LEMMA CentreInBit ==
    ASSUME DividerFits, hostPeriod \in Nat \ {0}, HeardByHost(hostPeriod), NEW k \in 0..LastBit
    PROVE  /\ Centre(k) \in Nat /\ k * BaudPeriod \in Nat /\ (k + 1) * BaudPeriod \in Nat
           /\ k * BaudPeriod <= Centre(k) /\ Centre(k) < (k + 1) * BaudPeriod - 2
           /\ Centre(k) + 1 <= Centre(k + 1)
<1>1. LastBit \in Nat /\ LastBit >= 2 /\ BaudPeriod \in Nat /\ BaudPeriod >= 5
    BY TimingSizes
<1>2. PICK p \in Nat \ {0}, l \in Nat, b \in Nat : p = hostPeriod /\ l = LastBit /\ b = BaudPeriod
    BY <1>1
<1>3. /\ k * b \in Nat /\ (k + 1) * b = k * b + b /\ l * b \in Nat /\ (l + 1) * b = l * b + b
      /\ k * p \in Nat /\ (2 * k + 1) * p = 2 * (k * p) + p
      /\ (2 * (k + 1) + 1) * p = 2 * (k * p) + p + 2 * p
      /\ l * p \in Nat /\ (2 * l + 1) * p = 2 * (l * p) + p
      /\ 200 * l * b = 200 * (l * b)
      /\ k * (p - 100 * b) = k * p - 100 * (k * b) /\ k * (100 * b - p) = 100 * (k * b) - k * p
      /\ l * (p - 100 * b) = l * p - 100 * (l * b) /\ l * (100 * b - p) = 100 * (l * b) - l * p
    BY <1>1, <1>2
<1>4. /\ 200 * (l * b) <= 2 * (l * p) + p
      /\ 2 * (l * p) + p < 200 * (l * b + b - 2)
    BY <1>2, <1>3 DEF HeardByHost
<1>5. p + 400 < 200 * b
  <2> SUFFICES ASSUME p >= 200 * b - 400 PROVE FALSE
      BY <1>2
  <2>1. l * (200 * b - 400) <= l * p /\ l * (200 * b - 400) = 200 * (l * b) - 400 * l
      BY <1>2, TimesMonotone
  <2>2. 5 * l <= l * b
      BY <1>1, <1>2
  <2> QED BY <1>1, <1>2, <1>3, <1>4, <2>1, <2>2
<1>6. 200 * (k * b) <= 2 * (k * p) + p
  <2>1. CASE 100 * b <= p
    <3>1. 0 <= k * (p - 100 * b)
        BY <1>2, <2>1
    <3> QED BY <1>2, <1>3, <3>1
  <2>2. CASE p <= 100 * b
    <3>1. k * (100 * b - p) <= l * (100 * b - p)
        BY <1>2, <2>2, TimesMonotone
    <3> QED BY <1>2, <1>3, <1>4, <3>1
  <2> QED BY <1>2, <2>1, <2>2
<1>7. 2 * (k * p) + p < 200 * (k * b + b - 2)
  <2>1. CASE 100 * b <= p
    <3>1. k * (p - 100 * b) <= l * (p - 100 * b)
        BY <1>2, <2>1, TimesMonotone
    <3> QED BY <1>2, <1>3, <1>4, <3>1
  <2>2. CASE p <= 100 * b
    <3>1. 0 <= k * (100 * b - p)
        BY <1>2, <2>2
    <3> QED BY <1>2, <1>3, <1>5, <3>1
  <2> QED BY <1>2, <2>1, <2>2
<1>8. PICK c \in Nat : c = (2 * (k * p) + p) \div 200
    BY <1>2, <1>3
<1>9. 200 * c <= 2 * (k * p) + p /\ 2 * (k * p) + p < 200 * (c + 1)
    BY <1>2, <1>3, <1>8
<1>10. PICK d \in Nat : d = (2 * (k * p) + p + 2 * p) \div 200
    BY <1>2, <1>3
<1>11. 2 * (k * p) + p + 2 * p < 200 * (d + 1)
    BY <1>2, <1>3, <1>10
<1>12. p >= 100
  <2> SUFFICES ASSUME p <= 100 PROVE FALSE
      BY <1>2
  <2>1. l * p <= l * 100 /\ 5 * l <= l * b
      BY <1>1, <1>2
  <2> QED BY <1>1, <1>2, <1>3, <1>4, <2>1
<1>13. Centre(k) = c /\ Centre(k + 1) = d
    BY <1>2, <1>3, <1>8, <1>10 DEF Centre
<1> QED BY <1>2, <1>3, <1>6, <1>7, <1>9, <1>11, <1>12, <1>13

(* The time of the transmitter.                                            *)
LEMMA ElapsedStep ==
    ASSUME DividerFits, countBaud \in 0..(BaudPeriod - 1), ClockDivider,
           baudPulse <=> countBaud = 0, txCount \in Nat,
           txCount' = IF baudPulse THEN txCount + 1 ELSE txCount
    PROVE  /\ countBaud' \in 0..(BaudPeriod - 1) /\ (baudPulse' <=> countBaud' = 0)
           /\ Within \in 0..(BaudPeriod - 1)
           /\ (Within' = 0 <=> baudPulse)
           /\ (txCount - 1) * BaudPeriod \in Int
           /\ Elapsed \in Int /\ Elapsed' = Elapsed + 1
<1>1. BaudPeriod \in Nat /\ BaudPeriod >= 5
    BY TimingSizes
<1>2. countBaud' = IF countBaud >= BaudPeriod - 1 THEN 0 ELSE countBaud + 1
    BY DEF ClockDivider
<1>3. baudPulse' <=> countBaud >= BaudPeriod - 1
    BY DEF ClockDivider
<1>4. countBaud' \in 0..(BaudPeriod - 1) /\ (baudPulse' <=> countBaud' = 0)
    BY <1>1, <1>2, <1>3
<1>5. Within \in 0..(BaudPeriod - 1) /\ (Within' = 0 <=> countBaud = 0)
      /\ Within' = IF countBaud = 0 THEN 0 ELSE Within + 1
    BY <1>1, <1>2, <1>4 DEF Within
<1>6. PICK m \in Nat : m = txCount
    OBVIOUS
<1>7. (m - 1) * BaudPeriod \in Int /\ (m + 1 - 1) * BaudPeriod = (m - 1) * BaudPeriod + BaudPeriod
    BY <1>1
<1>8. CASE countBaud = 0
  <2>1. txCount' = m + 1 /\ Within' = 0 /\ Within = BaudPeriod - 1
      BY <1>5, <1>6, <1>8 DEF Within
  <2> QED BY <1>1, <1>4, <1>5, <1>6, <1>7, <1>8, <2>1 DEF Elapsed
<1>9. CASE countBaud # 0
  <2>1. txCount' = m /\ Within' = Within + 1
      BY <1>5, <1>6, <1>9
  <2> QED BY <1>1, <1>4, <1>5, <1>6, <1>7, <1>9, <2>1 DEF Elapsed
<1> QED BY <1>8, <1>9

DeviceEdge == DividerFits /\ HeardByHost(hostPeriod) /\ Inv /\ FromDevice /\ DeviceTalks

LEMMA DeviceFacts ==
    ASSUME DeviceEdge
    PROVE  /\ DividerFits /\ DWidth \in Nat /\ BaudPeriod \in Nat /\ BaudPeriod >= 5
           /\ countBaud \in 0..(BaudPeriod - 1) /\ countBaud' \in 0..(BaudPeriod - 1)
           /\ ClockDivider /\ ClockTransmitter(txEna, txData) /\ HostListens
           /\ hostPeriod \in HostPeriods /\ hostPeriod' = hostPeriod
           /\ hostPeriod \in Nat \ {0} /\ HeardByHost(hostPeriod)
           /\ byte \in Bits(DWidth) /\ byte' = byte /\ time \in Int /\ ~(time = 2 /\ ~txBusy)
<1>1. /\ DividerFits /\ HeardByHost(hostPeriod)
      /\ countBaud \in 0..(BaudPeriod - 1) /\ hostPeriod \in HostPeriods
      /\ Host /\ talker = "device" /\ ~Over /\ hostPeriod' = hostPeriod /\ byte' = byte
      /\ ClockDivider /\ ClockTransmitter(txEna, txData) /\ HostListens
    BY DEF DeviceEdge, Inv, FromDevice, DeviceTalks, Clock
<1>2. BaudPeriod \in Nat /\ BaudPeriod >= 5 /\ DWidth \in Nat
    BY <1>1, TimingSizes
<1>3. countBaud' \in 0..(BaudPeriod - 1)
    BY <1>1, <1>2 DEF ClockDivider
<1> QED BY <1>1, <1>2, <1>3 DEF Host, Over

(* The line is high but for the bits of the frame.                         *)
LEMMA BitsOnLine ==
    ASSUME byte \in Bits(DWidth)
    PROVE  /\ \A k \in Int : OnLine(k) \in {0, 1}
           /\ \A k \in Int : k <= 0 \/ k >= DWidth + 3 => OnLine(k) = 1
           /\ OnLine(1) = 0
           /\ \A k \in 1..(DWidth + 3) : OnLine(k) = FrameBits(byte)[k]
<1>1. DWidth \in Nat
    BY LinkAssumption
<1>2. /\ FrameBits(byte) \in Seq({0, 1}) /\ Len(FrameBits(byte)) = DWidth + 3
      /\ FrameBits(byte)[1] = 0 /\ FrameBits(byte)[DWidth + 3] = 1
    BY BitsOfFrame
<1>3. \A k \in 1..(DWidth + 3) : FrameBits(byte)[k] \in {0, 1}
    BY <1>1, <1>2
<1> HIDE DEF FrameBits
<1> QED BY <1>1, <1>2, <1>3 DEF OnLine

(* The host hears nothing while the line is high.                          *)
LEMMA DeafEdge ==
    ASSUME HostListens, Deaf, tx = 1
    PROVE  Deaf' /\ heard' = heard
BY DEF HostListens, Deaf

(* The buffer that a frame is sent from.                                   *)
LEMMA LoadedBits ==
    ASSUME byte \in Bits(DWidth), NEW buffer,
           buffer = <<1, 0>> \o byte \o <<EvenParity(byte)>>
    PROVE  /\ buffer \in Seq({0, 1}) /\ Len(buffer) = DWidth + 3
           /\ \A i \in 1..(DWidth + 3) : buffer[i] = OnLine(0 - 1 + i)
<1>1. DWidth \in Nat /\ byte \in Seq({0, 1}) /\ Len(byte) = DWidth
    BY LinkAssumption DEF Bits
<1>2. EvenParity(byte) \in {0, 1}
    BY <1>1, ParityIsBit
<1> DEFINE start == <<1, 0>> \o byte
           end == <<EvenParity(byte)>>
<1>3. /\ start \in Seq({0, 1}) /\ Len(start) = DWidth + 2 /\ start[1] = 1 /\ start[2] = 0
      /\ \A i \in 1..DWidth : start[i + 2] = byte[i]
    BY <1>1, ConcatProperties
<1>4. end \in Seq({0, 1}) /\ Len(end) = 1 /\ end[1] = EvenParity(byte)
    BY <1>2
<1>5. buffer = start \o end
    OBVIOUS
<1> HIDE DEF start, end
<1>6. /\ buffer \in Seq({0, 1}) /\ Len(buffer) = DWidth + 3
      /\ \A i \in 1..(DWidth + 2) : buffer[i] = start[i]
      /\ buffer[DWidth + 3] = EvenParity(byte)
  <2>1. /\ start \o end \in Seq({0, 1}) /\ Len(start \o end) = Len(start) + Len(end)
        /\ \A i \in 1..(Len(start) + Len(end)) :
               (start \o end)[i] = IF i <= Len(start) THEN start[i] ELSE end[i - Len(start)]
      BY <1>3, <1>4, ConcatProperties, Zenon
  <2>2. Len(start) + Len(end) = DWidth + 3
      BY <1>1, <1>3, <1>4
  <2>3. \A i \in 1..(DWidth + 3) :
            buffer[i] = IF i <= DWidth + 2 THEN start[i] ELSE end[i - (DWidth + 2)]
      BY <1>3, <1>5, <2>1, <2>2
  <2>4. \A i \in 1..(DWidth + 2) : buffer[i] = start[i]
      BY <1>1, <2>3
  <2>5. DWidth + 3 \in 1..(DWidth + 3) /\ ~(DWidth + 3 <= DWidth + 2)
        /\ DWidth + 3 - (DWidth + 2) = 1
      BY <1>1
  <2>6. buffer[DWidth + 3] = end[1]
    <3>1. PICK k \in 1..(DWidth + 3), one \in {1} : k = DWidth + 3 /\ k - (DWidth + 2) = one
        BY <1>1
    <3>2. ~(k <= DWidth + 2)
        BY <2>5, <3>1
    <3>3. buffer[k] = end[k - (DWidth + 2)]
        BY <2>3, <3>2
    <3> QED BY <3>1, <3>3, Zenon
  <2>7. buffer \in Seq({0, 1}) /\ Len(buffer) = DWidth + 3
      BY <1>5, <2>1, <2>2
  <2> QED BY <1>4, <2>4, <2>6, <2>7
<1>7. ASSUME NEW i \in 1..(DWidth + 3) PROVE buffer[i] = OnLine(0 - 1 + i)
  <2>1. CASE i = 1
    <3>1. OnLine(0) = 1
        BY <1>1, BitsOnLine
    <3> QED BY <1>1, <1>3, <1>6, <2>1, <3>1
  <2>2. CASE i = 2
    <3>1. OnLine(1) = 0
        BY <1>1, BitsOnLine
    <3> QED BY <1>1, <1>3, <1>6, <2>2, <3>1
  <2>3. CASE i = DWidth + 3
    <3>1. OnLine(DWidth + 2) = EvenParity(byte)
        BY <1>1, BitsOnLine, BitsOfFrame
    <3>2. 0 - 1 + i = DWidth + 2
        BY <1>1, <2>3
    <3> QED BY <1>6, <2>3, <3>1, <3>2
  <2>4. CASE i \in 3..(DWidth + 2)
    <3>1. PICK n \in 1..DWidth : n = i - 2
        BY <1>1, <2>4
    <3>2. buffer[i] = start[n + 2] /\ start[n + 2] = byte[n]
        BY <1>1, <1>3, <1>6, <2>4, <3>1
    <3>3. OnLine(n + 1) = byte[n]
      <4>1. n + 1 \in 1..(DWidth + 3)
          BY <1>1
      <4>2. OnLine(n + 1) = FrameBits(byte)[n + 1]
          BY <4>1, BitsOnLine
      <4> QED BY <4>2, BitsOfFrame
    <3>4. 0 - 1 + i = n + 1
        BY <1>1, <3>1
    <3> QED BY <3>2, <3>3, <3>4
  <2> QED BY <1>1, <2>1, <2>2, <2>3, <2>4
<1> QED BY <1>6, <1>7

LEMMA SendingFacts ==
    ASSUME DeviceEdge, Sending
    PROVE  /\ Transmit /\ tx' = txBuffer[1] /\ time' = 2 /\ txEna' = FALSE /\ txBusy' = txBusy
           /\ txCount \in 0..(DWidth + 3)
           /\ txCount' = IF baudPulse THEN txCount + 1 ELSE txCount
           /\ baudPulse' <=> countBaud' = 0
           /\ Within \in 0..(BaudPeriod - 1) /\ (Within' = 0 <=> baudPulse)
           /\ (txCount - 1) * BaudPeriod \in Int
           /\ Elapsed \in Int /\ Elapsed' = Elapsed + 1
<1>1. Transmit /\ tx' = txBuffer[1]
    BY DeviceFacts DEF Sending, ClockTransmitter, NothingToSend, Load
<1>2. txCount' = IF baudPulse THEN txCount + 1 ELSE txCount
    BY <1>1 DEF Transmit
<1>3. time' = 2 /\ txEna' = FALSE
    BY DEF DeviceEdge, DeviceTalks, Sending
<1>4. txCount \in 0..(DWidth + 3) /\ txCount \in Nat /\ (baudPulse <=> countBaud = 0)
    BY DeviceFacts DEF Sending
<1>5. DividerFits /\ countBaud \in 0..(BaudPeriod - 1) /\ ClockDivider
    BY DeviceFacts
<1>6. txBusy' = txBusy
    BY <1>1 DEF Transmit
<1> QED BY <1>1, <1>2, <1>3, <1>4, <1>5, <1>6, ElapsedStep

(* The bits are on the line one after the other, each for a whole period.  *)
LEMMA LineAt ==
    ASSUME DeviceEdge, Sending
    PROVE  /\ Elapsed <= 0 => tx = 1
           /\ \A k \in 0..LastBit : k * BaudPeriod < Elapsed /\ Elapsed <= (k + 1) * BaudPeriod
                                       => tx = FrameBits(byte)[k + 1]
           /\ Elapsed < (LastBit + 1) * BaudPeriod
           /\ Elapsed > LastBit * BaudPeriod => tx = 1
<1>1. DWidth \in Nat /\ BaudPeriod \in Nat /\ BaudPeriod >= 5 /\ LastBit = DWidth + 2
      /\ byte \in Bits(DWidth)
    BY DeviceFacts DEF LastBit
<1>2. PICK m \in 0..(DWidth + 3), w \in 0..(BaudPeriod - 1) : m = txCount /\ w = Within
    BY SendingFacts
<1>3. /\ (m - 1) * BaudPeriod \in Int /\ Elapsed = (m - 1) * BaudPeriod + w
      /\ m * BaudPeriod = (m - 1) * BaudPeriod + BaudPeriod
    BY <1>1, <1>2 DEF Elapsed
<1>4. tx = OnLine(IF w = 0 THEN m - 1 ELSE m)
    BY <1>2 DEF Sending
<1>5. ASSUME Elapsed <= 0 PROVE tx = 1
  <2>1. ASSUME m >= 1 PROVE m = 1 /\ w = 0
    <3>1. ASSUME m >= 2 PROVE FALSE
      <4>1. 1 * BaudPeriod <= (m - 1) * BaudPeriod
          BY <1>1, <1>2, <3>1, TimesMonotone
      <4> QED BY <1>1, <1>2, <1>3, <1>5, <4>1
    <3>2. (1 - 1) * BaudPeriod = 0
        BY <1>1
    <3> QED BY <1>1, <1>2, <1>3, <1>5, <2>1, <3>1, <3>2
  <2>2. PICK k \in Int : k = (IF w = 0 THEN m - 1 ELSE m) /\ k <= 0
      BY <1>2, <2>1
  <2> QED BY <1>1, <1>4, <2>2, BitsOnLine
<1>6. ASSUME NEW k \in 0..LastBit, k * BaudPeriod < Elapsed, Elapsed <= (k + 1) * BaudPeriod
      PROVE  tx = FrameBits(byte)[k + 1]
  <2>1. k * BaudPeriod \in Int /\ (k + 1) * BaudPeriod = k * BaudPeriod + BaudPeriod
      BY <1>1
  <2>2. m > k
    <3> SUFFICES ASSUME m <= k PROVE FALSE
        BY <1>1, <1>2
    <3>1. m * BaudPeriod <= k * BaudPeriod
        BY <1>1, <1>2, TimesMonotone
    <3> QED BY <1>1, <1>2, <1>3, <1>6, <2>1, <3>1
  <2>3. m <= (IF w = 0 THEN k + 2 ELSE k + 1)
    <3>1. CASE w = 0
      <4> SUFFICES ASSUME k + 2 <= m - 1 PROVE FALSE
          BY <1>1, <1>2, <3>1
      <4>1. (k + 2) * BaudPeriod <= (m - 1) * BaudPeriod
          BY <1>1, <1>2, TimesMonotone
      <4>2. (k + 2) * BaudPeriod = k * BaudPeriod + 2 * BaudPeriod
          BY <1>1
      <4> QED BY <1>1, <1>2, <1>3, <1>6, <2>1, <4>1, <4>2
    <3>2. CASE w # 0
      <4> SUFFICES ASSUME k + 1 <= m - 1 PROVE FALSE
          BY <1>1, <1>2, <3>2
      <4>1. (k + 1) * BaudPeriod <= (m - 1) * BaudPeriod
          BY <1>1, <1>2, TimesMonotone
      <4> QED BY <1>1, <1>2, <1>3, <1>6, <2>1, <3>2, <4>1
    <3> QED BY <3>1, <3>2
  <2>4. w = 0 => m # k + 1
      BY <1>1, <1>2, <1>3, <1>6, <2>1
  <2>5. (IF w = 0 THEN m - 1 ELSE m) = k + 1
      BY <1>1, <1>2, <2>2, <2>3, <2>4
  <2>6. k + 1 \in 1..(DWidth + 3)
      BY <1>1
  <2>7. OnLine(k + 1) = FrameBits(byte)[k + 1]
      BY <1>1, <2>6, BitsOnLine
  <2> QED BY <1>4, <2>5, <2>7
<1>7. Elapsed < (LastBit + 1) * BaudPeriod
  <2>1. (m - 1) * BaudPeriod <= LastBit * BaudPeriod
      BY <1>1, <1>2, TimesMonotone
  <2>2. (LastBit + 1) * BaudPeriod = LastBit * BaudPeriod + BaudPeriod /\ LastBit * BaudPeriod \in Int
      BY <1>1
  <2> QED BY <1>1, <1>2, <1>3, <2>1, <2>2
<1>8. ASSUME Elapsed > LastBit * BaudPeriod PROVE tx = 1
  <2>1. LastBit \in 0..LastBit /\ (LastBit + 1) * BaudPeriod \in Int /\ Elapsed \in Int
        /\ LastBit * BaudPeriod \in Int
      BY <1>1, <1>3, <1>2
  <2>2. tx = FrameBits(byte)[LastBit + 1]
      BY <1>6, <1>7, <1>8, <2>1
  <2>3. LastBit + 1 = DWidth + 3
      BY <1>1
  <2> QED BY <1>1, <2>2, <2>3, BitsOfFrame
<1> QED BY <1>5, <1>6, <1>7, <1>8

(* The host's samples.                                                     *)
LEMMA PrefixGrows ==
    ASSUME NEW bits \in Seq({0, 1}), NEW k \in Nat, k + 1 <= Len(bits)
    PROVE  /\ Len([i \in 1..k |-> bits[i]]) = k
           /\ Append([i \in 1..k |-> bits[i]], bits[k + 1]) = [i \in 1..(k + 1) |-> bits[i]]
           /\ (k + 1 = Len(bits) => [i \in 1..(k + 1) |-> bits[i]] = bits)
<1> DEFINE prefix == [i \in 1..k |-> bits[i]]
           longer == [i \in 1..(k + 1) |-> bits[i]]
<1>1. \A i \in 1..(k + 1) : bits[i] \in {0, 1}
    OBVIOUS
<1>2. prefix \in Seq({0, 1}) /\ Len(prefix) = k
    BY <1>1
<1>3. longer \in Seq({0, 1}) /\ Len(longer) = k + 1
    BY <1>1
<1>4. /\ Append(prefix, bits[k + 1]) \in Seq({0, 1}) /\ Len(Append(prefix, bits[k + 1])) = k + 1
      /\ \A i \in 1..k : Append(prefix, bits[k + 1])[i] = prefix[i]
      /\ Append(prefix, bits[k + 1])[k + 1] = bits[k + 1]
    BY <1>1, <1>2, AppendProperties
<1>5. \A i \in 1..(k + 1) : Append(prefix, bits[k + 1])[i] = longer[i]
    BY <1>4
<1>6. Append(prefix, bits[k + 1]) = longer
  <2> HIDE DEF prefix, longer
  <2> QED BY <1>3, <1>4, <1>5, SeqEqual
<1>7. k + 1 = Len(bits) => longer = bits
  <2>1. \A i \in 1..(k + 1) : longer[i] = bits[i]
      OBVIOUS
  <2> HIDE DEF longer
  <2> QED BY <1>3, <2>1, SeqEqual
<1> QED BY <1>2, <1>6, <1>7

LEMMA DataOfFrame ==
    ASSUME NEW data \in Bits(DWidth)
    PROVE  SubSeq(FrameBits(data), 2, DWidth + 1) = data
<1>1. DWidth \in Nat
    BY LinkAssumption
<1>2. PICK bits \in Seq({0, 1}) : bits = FrameBits(data) /\ Len(bits) = DWidth + 3
    BY BitsOfFrame
<1>3. data \in Seq({0, 1}) /\ Len(data) = DWidth
    BY <1>1 DEF Bits
<1>4. \A i \in 2..(DWidth + 1) : bits[i] \in {0, 1}
    BY <1>1, <1>2
<1>5. PICK read : read = SubSeq(bits, 2, DWidth + 1)
    OBVIOUS
<1>6. read \in Seq({0, 1}) /\ Len(read) = DWidth
    BY <1>1, <1>2, <1>4, <1>5
<1>7. \A i \in 1..DWidth : read[i] = bits[i + 1]
    BY <1>1, <1>2, <1>5
<1>8. \A i \in 1..DWidth : read[i] = data[i]
    BY <1>2, <1>7, BitsOfFrame
<1>9. read = data
    BY <1>3, <1>6, <1>8, SeqEqual
<1> QED BY <1>2, <1>5, <1>9

LEMMA ListeningEdge ==
    ASSUME DeviceEdge, Sending, Listening
    PROVE  Listening'
<1>1. /\ Elapsed \in Int /\ Elapsed' = Elapsed + 1 /\ LastBit \in Nat /\ BaudPeriod \in Nat
      /\ BaudPeriod >= 5 /\ LastBit * BaudPeriod \in Nat
      /\ LastBit = DWidth + 2 /\ DWidth \in Nat
    BY DeviceFacts, SendingFacts DEF LastBit
<1>2. PICK e \in Int : e = Elapsed
    BY <1>1
<1>3. Elapsed' = e + 1
    BY <1>1, <1>2
<1>4. PICK bits \in Seq({0, 1}) : bits = FrameBits(byte) /\ Len(bits) = LastBit + 1
    BY <1>1, DeviceFacts, BitsOfFrame
<1>5. byte' = byte /\ hostPeriod' = hostPeriod
    BY DeviceFacts
<1>6. FrameBits(byte)' = bits
    BY <1>4, <1>5 DEF FrameBits, EvenParity
<1>7. CASE e <= 0 /\ Deaf /\ heard = <<>>
  <2>1. Deaf' /\ heard' = heard
      BY <1>2, <1>7, DeviceFacts, LineAt, DeafEdge
  <2> QED BY <1>3, <1>7, <2>1 DEF Listening
<1>8. CASE e = 1 /\ Deaf /\ heard = <<>>
  <2>1. 0 \in 0..LastBit /\ 0 * BaudPeriod = 0 /\ (0 + 1) * BaudPeriod = BaudPeriod
      BY <1>1
  <2>2. tx = FrameBits(byte)[0 + 1]
      BY <1>1, <1>2, <1>8, <2>1, LineAt
  <2>3. tx = 0
      BY <2>2, DeviceFacts, BitsOfFrame
  <2>4. listenTime' = 0 /\ samples' = <<>> /\ heard' = <<>>
      BY <1>8, <2>3, DeviceFacts DEF HostListens, Deaf
  <2>5. [i \in 1..0 |-> bits[i]] = <<>>
      OBVIOUS
  <2>6. Centre(0) \in Nat /\ Centre(0)' = Centre(0)
      BY <1>5, <2>1, DeviceFacts, CentreInBit DEF Centre
  <2>7. Elapsed' >= 2 /\ listenTime' = Elapsed' - 2
      BY <1>3, <1>8, <2>4
  <2>8. listenTime' <= Centre(0)'
      BY <2>4, <2>6
  <2> QED BY <1>6, <2>1, <2>4, <2>5, <2>7, <2>8 DEF Listening, LastBit
<1>9. ASSUME e >= 2, listenTime = e - 2, heard = <<>>,
             NEW k \in 0..LastBit, samples = [i \in 1..k |-> bits[i]], listenTime <= Centre(k)
      PROVE  Listening'
  <2>1. /\ Centre(k) \in Nat /\ k * BaudPeriod \in Nat /\ (k + 1) * BaudPeriod \in Nat
        /\ k * BaudPeriod <= Centre(k) /\ Centre(k) < (k + 1) * BaudPeriod - 2
        /\ Centre(k) + 1 <= Centre(k + 1)
      BY DeviceFacts, CentreInBit
  <2>2. /\ Len(samples) = k /\ Append(samples, bits[k + 1]) = [i \in 1..(k + 1) |-> bits[i]]
        /\ (k + 1 = Len(bits) => [i \in 1..(k + 1) |-> bits[i]] = bits)
      BY <1>1, <1>4, <1>9, PrefixGrows, SMTT(30)
  <2>3. ~(listenTime < 0)
      BY <1>9
  <2>4. ((2 * Len(samples) + 1) * hostPeriod) \div 200 = Centre(k)
      BY <2>2 DEF Centre
  <2>5. CASE listenTime # Centre(k)
    <3>1. listenTime' = listenTime + 1 /\ samples' = samples /\ heard' = <<>>
        BY <1>9, <2>3, <2>4, <2>5, DeviceFacts DEF HostListens
    <3>2. Centre(k)' = Centre(k)
        BY <1>5 DEF Centre
    <3>3. listenTime' <= Centre(k)' /\ Elapsed' >= 2 /\ listenTime' = Elapsed' - 2
        BY <1>3, <1>9, <2>1, <2>5, <3>1, <3>2
    <3> QED BY <1>6, <1>9, <3>1, <3>3 DEF Listening, LastBit
  <2>6. CASE listenTime = Centre(k)
    <3>1. tx = bits[k + 1]
        BY <1>1, <1>2, <1>4, <1>9, <2>1, <2>6, LineAt
    <3>2. CASE k < LastBit
      <4>1. Len(Append(samples, tx)) < DWidth + 3
        <5>1. Len([i \in 1..(k + 1) |-> bits[i]]) = k + 1
            OBVIOUS
        <5> QED BY <1>1, <2>2, <3>1, <3>2, <5>1, SMTT(30)
      <4>2. /\ listenTime' = listenTime + 1 /\ samples' = [i \in 1..(k + 1) |-> bits[i]]
            /\ heard' = <<>>
          BY <1>9, <2>2, <2>3, <2>4, <2>6, <3>1, <4>1, DeviceFacts DEF HostListens
      <4>3. Centre(k + 1)' = Centre(k + 1) /\ k + 1 \in 0..LastBit
          BY <1>1, <1>5, <3>2 DEF Centre
      <4>4. Centre(k + 1) \in Nat
          BY <4>3, DeviceFacts, CentreInBit
      <4>5. listenTime' <= Centre(k + 1)' /\ Elapsed' >= 2 /\ listenTime' = Elapsed' - 2
          BY <1>3, <1>9, <2>1, <2>6, <4>2, <4>3, <4>4
      <4> QED BY <1>6, <4>2, <4>3, <4>5 DEF Listening, LastBit
    <3>3. CASE k = LastBit
      <4>1. Append(samples, tx) = bits
          BY <1>4, <2>2, <3>1, <3>3
      <4>2. ~(Len(Append(samples, tx)) < DWidth + 3)
          BY <1>1, <1>4, <4>1
      <4>3. /\ listenTime' = -1 /\ samples' = <<>>
            /\ heard' = Append(heard, Frame(SubSeq(bits, 2, DWidth + 1), bits # FrameBits(byte)))
          BY <2>3, <2>4, <2>6, <4>1, <4>2, DeviceFacts DEF HostListens
      <4>4. SubSeq(bits, 2, DWidth + 1) = byte /\ (bits # FrameBits(byte)) = FALSE
          BY <1>4, DeviceFacts, DataOfFrame
      <4>5. heard' = <<Frame(byte, FALSE)>>
        <5>1. \A f : Append(<<>>, f) = <<f>>
            OBVIOUS
        <5> QED BY <1>9, <4>3, <4>4, <5>1
      <4>6. Elapsed' > LastBit * BaudPeriod
          BY <1>1, <1>3, <1>9, <2>1, <2>6, <3>3
      <4> QED BY <1>5, <4>3, <4>5, <4>6 DEF Listening, Deaf, Once, LastBit, Frame
    <3> QED BY <1>1, <3>2, <3>3
  <2> QED BY <2>5, <2>6
<1>10. CASE e > LastBit * BaudPeriod /\ Deaf /\ Once
  <2>1. Deaf' /\ heard' = heard
      BY <1>2, <1>10, DeviceFacts, LineAt, DeafEdge
  <2>2. Elapsed' > LastBit * BaudPeriod
      BY <1>1, <1>3, <1>10
  <2> QED BY <1>5, <1>10, <2>1, <2>2 DEF Listening, Once, LastBit, Frame
<1>11. \/ e <= 1 /\ Deaf /\ heard = <<>>
       \/ /\ e >= 2 /\ listenTime = e - 2 /\ heard = <<>>
          /\ \E k \in 0..LastBit : /\ samples = [i \in 1..k |-> bits[i]]
                                   /\ listenTime <= Centre(k)
       \/ e > LastBit * BaudPeriod /\ Deaf /\ Once
    BY <1>2, <1>4 DEF Listening
<1>12. e <= 1 => e <= 0 \/ e = 1
    OBVIOUS
<1> QED BY <1>7, <1>8, <1>9, <1>10, <1>11, <1>12

LEMMA IdleEdge ==
    ASSUME DeviceEdge, Idle
    PROVE  Idle' \/ (Sending /\ Listening)'
<1>1. Deaf' /\ heard' = <<>>
    BY DeviceFacts, DeafEdge DEF Idle, LineHigh
<1>2. tx' = 1 /\ txState = "idle" /\ txBuffer[1] = 1 /\ time \in Int /\ time <= 1
    BY DeviceFacts DEF Idle, LineHigh, ClockTransmitter
<1>3. ASSUME time # 1 PROVE Idle'
  <2>1. txEna = FALSE
      BY <1>3 DEF Idle
  <2>2. LineHigh'
      BY <1>2, <2>1, DeviceFacts DEF ClockTransmitter, NothingToSend, Load, Transmit, LineHigh
  <2>3. \/ time < 0 /\ time' = time + 1 /\ UNCHANGED <<txEna, txData>>
        \/ time = 0 /\ UNCHANGED <<time, txEna, txData>>
        \/ time = 0 /\ time' = 1 /\ txEna' = TRUE /\ txData' = byte
      BY <1>2, <1>3 DEF DeviceEdge, DeviceTalks
  <2>4. time' <= 1 /\ (txEna' <=> time' = 1) /\ (txEna' => txData' = byte')
      BY <1>2, <2>1, <2>3, DeviceFacts
  <2> QED BY <1>1, <2>2, <2>4 DEF Idle
<1>4. ASSUME time = 1 PROVE (Sending /\ Listening)'
  <2>1. txEna = TRUE /\ txData = byte
    <3>1. txEna \in BOOLEAN /\ txEna
        BY <1>4 DEF Idle, DeviceEdge, Inv, Host
    <3> QED BY <3>1 DEF Idle
  <2>2. time' = 2 /\ txEna' = FALSE
      BY <1>4 DEF DeviceEdge, DeviceTalks
  <2>3. Load(TRUE, byte)
      BY <1>2, <2>1, DeviceFacts DEF ClockTransmitter, NothingToSend, Transmit
  <2>4. txBusy' /\ txCount' = 0 /\ txState' = "transmit"
        /\ txBuffer' = <<1, 0>> \o byte \o <<EvenParity(byte)>>
      BY <2>3 DEF Load
  <2>5. /\ txBuffer' \in Seq({0, 1}) /\ Len(txBuffer') = DWidth + 3
        /\ \A i \in 1..(DWidth + 3) : txBuffer'[i] = OnLine(0 - 1 + i)
      BY <2>4, DeviceFacts, LoadedBits
  <2>6. \A k : OnLine(k)' = OnLine(k)
      BY DeviceFacts DEF OnLine, FrameBits, EvenParity
  <2>7. \A i \in 1..(DWidth + 3) : txBuffer'[i] = OnLine(txCount - 1 + i)'
      BY <2>4, <2>5, <2>6 DEF OnLine, FrameBits, EvenParity
  <2>8. baudPulse' <=> countBaud' = 0
    <3>1. baudPulse' <=> countBaud >= BaudPeriod - 1
        BY DeviceFacts DEF ClockDivider
    <3>2. countBaud' = IF countBaud >= BaudPeriod - 1 THEN 0 ELSE countBaud + 1
        BY DeviceFacts DEF ClockDivider
    <3> QED BY <3>1, <3>2, DeviceFacts
  <2>9. Within' \in 0..(BaudPeriod - 1)
      BY DeviceFacts DEF Within
  <2>10. tx' = OnLine(IF Within = 0 THEN txCount - 1 ELSE txCount)'
    <3>1. PICK k \in {-1, 0} : k = IF Within' = 0 THEN 0 - 1 ELSE 0
        OBVIOUS
    <3>2. OnLine(k)' = 1
        BY <2>6, DeviceFacts, BitsOnLine
    <3>3. OnLine(IF Within = 0 THEN txCount - 1 ELSE txCount)' = OnLine(k)'
        BY <2>4, <3>1 DEF OnLine
    <3> QED BY <1>2, <3>2, <3>3
  <2>11. Sending'
    <3>1. txCount' \in 0..(DWidth + 3)
        BY <2>4, DeviceFacts
    <3> QED BY <2>2, <2>4, <2>5, <2>7, <2>8, <2>10, <3>1 DEF Sending
  <2>12. Elapsed' <= 1
    <3>1. (0 - 1) * BaudPeriod = -BaudPeriod
        BY DeviceFacts
    <3> QED BY <2>4, <2>9, <3>1, DeviceFacts DEF Elapsed
  <2> QED BY <1>1, <2>11, <2>12 DEF Listening
<1> QED BY <1>3, <1>4

LEMMA SendingEdge ==
    ASSUME DeviceEdge, Sending, Listening
    PROVE  (Sending /\ Listening)' \/ Sent'
<1>1. Listening'
    BY ListeningEdge
<1>2. /\ Transmit /\ tx' = txBuffer[1] /\ time' = 2 /\ txEna' = FALSE /\ txBusy' = txBusy /\ txBusy
      /\ txCount' = IF baudPulse THEN txCount + 1 ELSE txCount
      /\ DWidth \in Nat /\ byte' = byte /\ byte \in Bits(DWidth)
    BY DeviceFacts, SendingFacts DEF Sending
<1>3. PICK m \in 0..(DWidth + 3) : m = txCount
    BY SendingFacts
<1>4. /\ txBuffer \in Seq({0, 1}) /\ Len(txBuffer) = DWidth + 3
      /\ \A i \in 1..(DWidth + 3) : txBuffer[i] = OnLine(m - 1 + i)
    BY <1>3 DEF Sending
<1>5. /\ Shifted(txBuffer, 1) \in Seq({0, 1}) /\ Len(Shifted(txBuffer, 1)) = DWidth + 3
      /\ \A i \in 1..(DWidth + 2) : Shifted(txBuffer, 1)[i] = txBuffer[i + 1]
      /\ Shifted(txBuffer, 1)[DWidth + 3] = 1
  <2>1. PICK n \in Nat : n = DWidth + 2
      BY <1>2
  <2>2. n + 1 = DWidth + 3
      BY <1>2, <2>1
  <2>3. /\ Shifted(txBuffer, 1) \in Seq({0, 1}) /\ Len(Shifted(txBuffer, 1)) = n + 1
        /\ \A i \in 1..n : Shifted(txBuffer, 1)[i] = txBuffer[i + 1]
        /\ Shifted(txBuffer, 1)[n + 1] = 1
      BY <1>4, <2>2, ShiftedBits
  <2> QED BY <2>1, <2>2, <2>3
<1>6. \A i \in 1..(DWidth + 3) : Shifted(txBuffer, 1)[i] = OnLine(m + i)
  <2> SUFFICES ASSUME NEW i \in 1..(DWidth + 3) PROVE Shifted(txBuffer, 1)[i] = OnLine(m + i)
      OBVIOUS
  <2>1. CASE i = DWidth + 3
    <3>1. m + i \in Int /\ m + i >= DWidth + 3
        BY <1>2, <2>1
    <3> QED BY <1>2, <1>5, <2>1, <3>1, BitsOnLine
  <2>2. CASE i # DWidth + 3
    <3>1. PICK k \in 1..(DWidth + 3) : k = i + 1
        BY <1>2, <2>2
    <3>2. i \in 1..(DWidth + 2) /\ m - 1 + k = m + i
        BY <1>2, <2>2, <3>1
    <3> QED BY <1>4, <1>5, <3>1, <3>2
  <2> QED BY <2>1, <2>2
<1>7. PICK n \in 0..(DWidth + 4) : n = txCount' /\ n = IF baudPulse THEN m + 1 ELSE m
    BY <1>2, <1>3
<1>8. /\ txBuffer' \in Seq({0, 1}) /\ Len(txBuffer') = DWidth + 3
      /\ \A i \in 1..(DWidth + 3) : txBuffer'[i] = OnLine(n - 1 + i)
  <2>1. CASE baudPulse
    <3>1. txBuffer' = Shifted(txBuffer, 1)
        BY <1>2, <2>1 DEF Transmit
    <3>2. \A i \in 1..(DWidth + 3) : n - 1 + i = m + i
        BY <1>2, <1>7, <2>1
    <3> QED BY <1>5, <1>6, <3>1, <3>2
  <2>2. CASE ~baudPulse
    <3>1. txBuffer' = txBuffer /\ n = m
        BY <1>2, <1>7, <2>2 DEF Transmit
    <3> QED BY <1>4, <3>1
  <2> QED BY <2>1, <2>2
<1>9. \A k : OnLine(k)' = OnLine(k)
    BY <1>2 DEF OnLine, FrameBits, EvenParity
<1>10. tx' = OnLine(m)
  <2>1. 1 \in 1..(DWidth + 3) /\ m - 1 + 1 = m
      BY <1>2
  <2>2. txBuffer[1] = OnLine(m - 1 + 1)
      BY <1>4, <2>1
  <2> QED BY <1>2, <2>1, <2>2
<1>11. txState' = IF n < DWidth + 4 THEN "transmit" ELSE "idle"
    BY <1>2, <1>7 DEF Transmit
<1>12. ASSUME n < DWidth + 4 PROVE (Sending /\ Listening)'
  <2>1. \A i \in 1..(DWidth + 3) : txBuffer'[i] = OnLine(txCount - 1 + i)'
      BY <1>7, <1>8, <1>9 DEF OnLine, FrameBits, EvenParity
  <2>2. tx' = OnLine(IF Within = 0 THEN txCount - 1 ELSE txCount)'
    <3>1. (IF Within' = 0 THEN n - 1 ELSE n) = m
        BY <1>7, SendingFacts
    <3>2. OnLine(IF Within = 0 THEN txCount - 1 ELSE txCount)' = OnLine(m)'
        BY <1>7, <3>1 DEF OnLine
    <3> QED BY <1>9, <1>10, <3>2
  <2>3. txCount' \in 0..(DWidth + 3) /\ txState' = "transmit"
      BY <1>2, <1>7, <1>11, <1>12
  <2>4. baudPulse' <=> countBaud' = 0
      BY SendingFacts
  <2> QED BY <1>1, <1>2, <1>8, <2>1, <2>2, <2>3, <2>4 DEF Sending
<1>13. ASSUME n = DWidth + 4 PROVE Sent'
  <2>1. m = DWidth + 3 /\ baudPulse
      BY <1>2, <1>7, <1>13
  <2>2. tx' = 1
    <3>1. m \in Int /\ m >= DWidth + 3
        BY <2>1
    <3> QED BY <1>2, <1>10, <3>1, BitsOnLine
  <2>3. txBuffer'[1] = 1
    <3>1. 1 \in 1..(DWidth + 3) /\ n - 1 + 1 \in Int /\ n - 1 + 1 >= DWidth + 3
        BY <1>2, <1>13
    <3>2. txBuffer'[1] = OnLine(n - 1 + 1)
        BY <1>8, <3>1
    <3> QED BY <1>2, <3>1, <3>2, BitsOnLine
  <2>4. txState' = "idle"
      BY <1>2, <1>11, <1>13
  <2>5. Elapsed' = (LastBit + 1) * BaudPeriod /\ (LastBit + 1) * BaudPeriod >= 5
    <3>1. Within' = 0 /\ n - 1 = LastBit + 1
        BY <1>2, <1>13, <2>1, SendingFacts DEF LastBit
    <3>2. Elapsed' = (LastBit + 1) * BaudPeriod + 0
        BY <1>7, <3>1 DEF Elapsed
    <3>3. 1 * BaudPeriod <= (LastBit + 1) * BaudPeriod /\ (LastBit + 1) * BaudPeriod \in Int
      <4>1. BaudPeriod \in Int /\ LastBit + 1 \in Int /\ 1 <= LastBit + 1
          BY DeviceFacts DEF LastBit
      <4> QED BY <4>1, DeviceFacts, TimesMonotone
    <3> QED BY <3>2, <3>3, DeviceFacts
  <2>6. Deaf' /\ Once'
    <3>1. \A k \in 0..LastBit : Centre(k)' + 2 < (LastBit + 1) * BaudPeriod
      <4> SUFFICES ASSUME NEW k \in 0..LastBit
                   PROVE  Centre(k) + 2 < (LastBit + 1) * BaudPeriod
          BY DeviceFacts DEF Centre
      <4>1. Centre(k) \in Nat /\ Centre(k) < (k + 1) * BaudPeriod - 2 /\ (k + 1) * BaudPeriod \in Nat
          BY DeviceFacts, CentreInBit
      <4>2. (k + 1) * BaudPeriod <= (LastBit + 1) * BaudPeriod /\ (LastBit + 1) * BaudPeriod \in Int
        <5>1. LastBit \in Nat /\ k + 1 <= LastBit + 1
            BY <1>2 DEF LastBit
        <5> QED BY <5>1, DeviceFacts, TimesMonotone
      <4> QED BY <4>1, <4>2
    <3>2. \/ Elapsed' <= 1
          \/ listenTime' = Elapsed' - 2 /\ \E k \in 0..LastBit : listenTime' <= Centre(k)'
          \/ Deaf' /\ Once'
        BY <1>1 DEF Listening, LastBit
    <3>3. \A k \in 0..LastBit : Centre(k)' \in Int
        BY DeviceFacts, CentreInBit DEF Centre
    <3> QED BY <2>5, <3>1, <3>2, <3>3
  <2> QED BY <1>2, <2>2, <2>3, <2>4, <2>6 DEF Sent, LineHigh
<1> QED BY <1>2, <1>7, <1>12, <1>13

LEMMA SentEdge ==
    ASSUME DeviceEdge, Sent
    PROVE  Sent'
<1>1. Deaf' /\ heard' = heard
    BY DeviceFacts, DeafEdge DEF Sent, LineHigh
<1>2. LineHigh'
    BY DeviceFacts DEF Sent, ClockTransmitter, NothingToSend, Load, Transmit, LineHigh
<1>3. time' = 2 /\ txEna' = FALSE
    BY DEF DeviceEdge, DeviceTalks, Sent
<1> QED BY <1>1, <1>2, <1>3, DeviceFacts DEF Sent, Once, Frame

LEMMA DeviceKeeps ==
    ASSUME DeviceEdge
    PROVE  FromDevice'
<1>1. (Idle \/ (Sending /\ Listening) \/ Sent)'
    BY IdleEdge, SendingEdge, SentEdge DEF DeviceEdge, FromDevice
<1> QED BY <1>1, DeviceFacts DEF FromDevice

(* A frame that is over was heard.                                         *)
LEMMA DeviceBegins ==
    ASSUME DividerFits, Inv, FromDevice, talker = "device", Begin
    PROVE  FromDevice'
<1>1. /\ time = 2 /\ ~txBusy /\ time' \in {-g : g \in Gaps} /\ heard' = <<>>
      /\ ClockDivider /\ ClockTransmitter(FALSE, txData)
      /\ UNCHANGED <<hostPeriod, samples, listenTime, txEna, txData>>
    BY DEF Begin, Clock, Over
<1>2. Sent
    BY <1>1 DEF FromDevice, Idle, Sending
<1>3. LineHigh'
    BY <1>1, <1>2 DEF Sent, ClockTransmitter, NothingToSend, Load, Transmit, LineHigh
<1>4. Deaf' /\ txEna' = FALSE
    BY <1>1, <1>2 DEF Sent, Deaf
<1>5. PICK g \in Nat : time' = -g
    BY <1>1, LinkAssumption
<1>6. countBaud' \in 0..(BaudPeriod - 1)
    BY <1>1, TimingSizes, SMTT(30) DEF FromDevice, ClockDivider
<1> QED BY <1>1, <1>3, <1>4, <1>5, <1>6 DEF FromDevice, Idle

-----------------------------------------------------------------------------
(* Both sides together.                                                    *)

LEMMA InitTiming ==
    ASSUME DividerFits, Init
    PROVE  Timing
<1>1. PICK g \in Nat : time = -g
    BY LinkAssumption DEF Init
<1>2. /\ countBaud = 0 /\ countOs = 0 /\ osPulse = FALSE /\ osCount = 0 /\ rxState = "idle"
      /\ heard = <<>> /\ samples = <<>> /\ listenTime = -1 /\ txEna = FALSE
      /\ hostPeriod \in HostPeriods /\ txState = "idle" /\ tx = 1
      /\ txBuffer = Repeated(1, DWidth + 3)
    BY DEF Init, Reset
<1>3. /\ OsPeriod \in Nat /\ OsPeriod >= 2 /\ PulsesPerPeriod \in Nat /\ DWidth \in Nat
      /\ BaudPeriod \in Nat /\ BaudPeriod >= 5
    BY TimingSizes
<1>4. Grid
  <2>1. 0 * OsPeriod = 0
      BY <1>3
  <2>2. countBaud + 1 - 1 = 0 * OsPeriod + countOs /\ (osPulse <=> countOs = 0 /\ 0 # 0)
      BY <1>2, <2>1
  <2>3. 0 \in 0..PulsesPerPeriod /\ 1 \in {0, 1}
      BY <1>3
  <2>4. \E e \in {0, 1}, n \in 0..PulsesPerPeriod :
            /\ countBaud + 1 - e = n * OsPeriod + countOs
            /\ osPulse <=> countOs = 0 /\ n # 0
      BY <2>2, <2>3, Zenon
  <2>5. countBaud \in 0..(BaudPeriod - 1) /\ countOs \in 0..(OsPeriod - 1)
      BY <1>2, <1>3
  <2>6. osPulse \in BOOLEAN
      BY <1>2, Zenon
  <2> QED BY <2>4, <2>5, <2>6, Zenon DEF Grid
<1>5. NoneSince(time)
  <2>1. Taken = 0
    <3>1. (0 + 1 - 0) \div OsPeriod = 0
        BY <1>3
    <3> QED BY <1>2, <3>1 DEF Taken, Nth
  <2>2. 0 * OsPeriod = 0
      BY <1>3
  <2> QED BY <1>1, <1>2, <2>1, <2>2 DEF NoneSince
<1>6. FromHost
    BY <1>1, <1>2, <1>4, <1>5 DEF FromHost, Waiting, NoSampleYet, Quiet
<1>7. FromDevice
  <2>1. txBuffer[1] = 1
      BY <1>2, <1>3 DEF Repeated
  <2>2. time <= 1 /\ time # 1 /\ countBaud \in 0..(BaudPeriod - 1)
      BY <1>1, <1>2, <1>3
  <2> QED BY <1>2, <2>1, <2>2 DEF FromDevice, Idle, LineHigh, Deaf
<1>8. left \in Int /\ left <= Frames - 1
    BY LinkAssumption DEF Init
<1> QED BY <1>6, <1>7, <1>8 DEF Timing

LEMMA NextTiming ==
    ASSUME DividerFits, Inv, Timing, Next
    PROVE  Timing'
<1>1. /\ talker' = talker /\ talker \in {"host", "device"} /\ hostPeriod' = hostPeriod
      /\ left \in Int /\ left <= Frames - 1 /\ Frames \in Nat
    BY LinkAssumption DEF Inv, Host, Timing, Next, HostTalks, DeviceTalks, Begin
<1>2. /\ HeardByDevice(hostPeriod)' = HeardByDevice(hostPeriod)
      /\ StopBitMissed(hostPeriod)' = StopBitMissed(hostPeriod)
      /\ HeardByHost(hostPeriod)' = HeardByHost(hostPeriod)
    BY <1>1, SameHost
<1>3. ASSUME HostTalks PROVE Timing'
  <2>1. talker = "host" /\ left' = left /\ ClockDivider
      BY <1>3 DEF HostTalks, Clock
  <2>2. ASSUME Followed PROVE FromHost'
    <3>1. PICK bit : bit = rx
        OBVIOUS
    <3>2. ClockReceiver(bit)
        BY <1>3, <3>1 DEF HostTalks, Clock
    <3>3. Edge(bit)
        BY <1>3, <2>1, <2>2, <3>1, <3>2 DEF Edge, Timing, Followed
    <3> QED BY <3>3, HostEdge
  <2>3. Followed' => Followed
      BY <1>2, <2>1 DEF Followed
  <2> QED BY <1>1, <2>1, <2>2, <2>3 DEF Timing
<1>4. ASSUME DeviceTalks PROVE Timing'
  <2>1. talker = "device" /\ left' = left
      BY <1>4 DEF DeviceTalks
  <2>2. ASSUME HeardByHost(hostPeriod) PROVE FromDevice'
    <3>1. DeviceEdge
        BY <1>4, <2>1, <2>2 DEF Timing, DeviceEdge
    <3> QED BY <3>1, DeviceKeeps
  <2> QED BY <1>1, <1>2, <2>1, <2>2 DEF Timing
<1>5. ASSUME Begin PROVE Timing'
  <2>1. left' \in Int /\ left' <= Frames - 1 /\ left' # Frames - 1
      BY <1>1, <1>5 DEF Begin
  <2>2. ASSUME talker = "host", Followed' PROVE FromHost'
    <3>1. HeardByDevice(hostPeriod)
        BY <1>2, <2>1, <2>2 DEF Followed
    <3>2. FromHost
        BY <2>2, <3>1 DEF Timing, Followed
    <3> QED BY <1>5, <2>2, <3>1, <3>2, HostBegins
  <2>3. ASSUME talker # "host", HeardByHost(hostPeriod) PROVE FromDevice'
      BY <1>1, <1>5, <2>3, DeviceBegins DEF Timing
  <2> QED BY <1>1, <1>2, <2>1, <2>2, <2>3 DEF Timing
<1> QED BY <1>3, <1>4, <1>5 DEF Next

LEMMA StutterTiming ==
    ASSUME Timing, UNCHANGED vars
    PROVE  Timing'
<1>1. UNCHANGED <<countBaud, countOs, baudPulse, osPulse, rxState, rxCount, osCount, rxBuffer>>
    BY DEF vars, uartVars
<1>2. UNCHANGED <<txState, txCount, txBuffer, txBusy, tx, txEna, txData>>
    BY DEF vars, uartVars
<1>3. UNCHANGED <<talker, hostPeriod, time, byte, left, heard, samples, listenTime>>
    BY DEF vars, hostVars
<1>4. Grid' = Grid /\ Taken' = Taken
    BY <1>1 DEF Grid, Taken, Nth
<1>5. FrameBits(byte)' = FrameBits(byte)
    BY <1>3 DEF FrameBits, EvenParity
<1>6. /\ HeardByDevice(hostPeriod)' = HeardByDevice(hostPeriod)
      /\ StopBitMissed(hostPeriod)' = StopBitMissed(hostPeriod)
      /\ HeardByHost(hostPeriod)' = HeardByHost(hostPeriod)
    BY <1>3, SameHost
<1>8. FromHost => FromHost'
  <2>1. \A c, j : Since(c, j)' = Since(c, j) /\ TakenSince(c, j)' = TakenSince(c, j)
      BY <1>1, <1>4 DEF Since, TakenSince, PulsesPerPeriod
  <2>2. Waiting => Waiting'
      BY <1>1, <1>3 DEF Waiting, Quiet
  <2>3. NoSampleYet => NoSampleYet'
      BY <1>1, <1>3, <1>4 DEF NoSampleYet, Quiet, NoneSince, Pause
  <2>4. InStartBit => InStartBit'
      BY <1>1, <1>3, <2>1 DEF InStartBit, Quiet, Pause, PulsesPerPeriod
  <2>5. Receiving => Receiving'
      BY <1>1, <1>3, <1>5, <1>6, <2>1
      DEF Receiving, Received, ticks, Earliest, Latest, ToCentre, Pause, PulsesPerPeriod
  <2>6. Finished => Finished'
      BY <1>1, <1>3, <1>4, SameTimes DEF Finished, Once, Frame, NoneSince
  <2>7. Misread => Misread'
      BY <1>3 DEF Misread, Reports, Bits, EvenParity
  <2>8. Ended => Ended'
      BY <1>6, <2>6, <2>7 DEF Ended
  <2> QED BY <1>3, <1>4, <2>2, <2>3, <2>4, <2>5, <2>8 DEF FromHost
<1>7. FromDevice => FromDevice'
  <2>1. Within' = Within /\ Elapsed' = Elapsed
      BY <1>1, <1>2 DEF Within, Elapsed
  <2>2. \A k : OnLine(k)' = OnLine(k) /\ Centre(k)' = Centre(k)
      BY <1>3, <1>5 DEF OnLine, Centre
  <2>3. Idle => Idle'
      BY <1>2, <1>3 DEF Idle, LineHigh, Deaf
  <2>4. Sending => Sending'
      BY <1>1, <1>2, <1>3, <1>5, <2>1 DEF Sending, OnLine
  <2>5. Listening => Listening'
      BY <1>2, <1>3, <1>5, <2>1, <2>2 DEF Listening, Deaf, Once, Frame, LastBit
  <2>6. Sent => Sent'
      BY <1>2, <1>3 DEF Sent, LineHigh, Deaf, Once, Frame
  <2> QED BY <1>1, <1>3, <2>3, <2>4, <2>5, <2>6 DEF FromDevice
<1> QED BY <1>3, <1>6, <1>7, <1>8 DEF Timing, Followed

LEMMA TimingHolds ==
    ASSUME DividerFits
    PROVE  Spec => [](Inv /\ Timing)
<1>1. Init => Timing
    BY InitTiming
<1>2. Inv /\ Timing /\ [Next]_vars => Timing'
    BY NextTiming, StutterTiming
<1> QED BY <1>1, <1>2, Invariance, PTL DEF Spec

(***************************************************************************)
(* By the time its talker has done with it a frame has been heard exactly  *)
(* once, with its data and without error, of every host and by every host  *)
(* of which the samples stay in their bits (uart.vhd:94-190) - for every   *)
(* divider, whether or not as many pulses come in a bit as the receiver    *)
(* counts, every width and every number of frames.                         *)
(***************************************************************************)
THEOREM FramesAreHeard ==
    ASSUME DividerFits
    PROVE  Spec => []UnderstoodFramesAreHeard
<1>1. Inv /\ Timing => UnderstoodFramesAreHeard
  <2> SUFFICES ASSUME Inv, Timing, Understood, Over PROVE Once
      BY DEF UnderstoodFramesAreHeard, EveryFrameIsHeard, Once
  <2>1. CASE talker = "host"
    <3>1. HeardByDevice(hostPeriod) /\ FromHost
        BY <2>1 DEF Understood, Timing, Followed
    <3>2. Ended
        BY <2>1, <3>1, NotOverYet DEF FromHost
    <3>3. ~StopBitMissed(hostPeriod)
        BY <3>1, HeardOrMissed DEF Inv, Host
    <3> QED BY <3>2, <3>3 DEF Ended, Finished
  <2>2. CASE talker # "host"
    <3>1. FromDevice
        BY <2>2 DEF Understood, Timing
    <3>2. time = 2 /\ ~txBusy
        BY <2>2 DEF Over
    <3> QED BY <3>1, <3>2 DEF FromDevice, Idle, Sending, Sent
  <2> QED BY <2>1, <2>2
<1> QED BY <1>1, TimingHolds, PTL

(* The first frame of a host, if its parity bit is 0, is over only after   *)
(* it has been reported with an error, though nothing is wrong with it.    *)
FaultlessIsReported ==
    talker = "host" /\ left = Frames - 1 /\ Over /\ EvenParity(byte) = 0
        => heard # <<>> /\ heard[1].error

(***************************************************************************)
(* So it is for every host whose parity bit is where the receiver takes    *)
(* its sample for the stop bit (uart.vhd:134).                             *)
(***************************************************************************)
THEOREM MissedStopBitIsAnError ==
    ASSUME DividerFits
    PROVE  Spec => [](StopBitMissed(hostPeriod) => FaultlessIsReported)
<1>1. Inv /\ Timing => (StopBitMissed(hostPeriod) => FaultlessIsReported)
  <2> SUFFICES ASSUME Inv, Timing, talker = "host", left = Frames - 1, Over,
                      StopBitMissed(hostPeriod), EvenParity(byte) = 0
               PROVE  heard # <<>> /\ heard[1].error
      BY DEF FaultlessIsReported
  <2>1. FromHost
      BY DEF Timing, Followed
  <2>2. Ended
      BY <2>1, NotOverYet DEF FromHost
  <2>3. ~HeardByDevice(hostPeriod)
      BY HeardOrMissed DEF Inv, Host
  <2> QED BY <2>2, <2>3 DEF Ended, Misread
<1> QED BY <1>1, TimingHolds, PTL

(* The numbers of the core: 20 MHz (uart_peripheral.vhd:41) over 115200    *)
(* baud, 16 samples of 10 cycles and eight bits.                           *)
TheCore == BaudPeriod = 173 /\ OsPeriod = 10 /\ OsRate = 16 /\ DWidth = 8

LEMMA CoreTimes ==
    ASSUME TheCore
    PROVE  /\ DividerFits /\ LastBit = 10 /\ Silence = 14
           /\ \A n \in 0..10 : /\ EarliestSample(n) \in Nat /\ EarliestSample(n) >= 75 + 163 * n
                               /\ LatestSample(n) = 95 + 163 * n
<1>1. /\ PulsesPerPeriod = 17 /\ Pause = 3 /\ ToCentre = 80 /\ LastBit = 10 /\ Silence = 14
      /\ Earliest = 78 /\ Latest = 95
    BY DEF TheCore, PulsesPerPeriod, Pause, ToCentre, LastBit, Silence, Earliest, Latest
<1>2. DividerFits
    BY DEF TheCore, DividerFits
<1>3. ASSUME NEW n \in 0..10
      PROVE  /\ EarliestSample(n) \in Nat /\ EarliestSample(n) >= 75 + 163 * n
             /\ LatestSample(n) = 95 + 163 * n
  <2>1. (n * 16) \div 17 >= n - 1 /\ (n * 16 + 17 - 1) \div 17 = n
      OBVIOUS
  <2>2. EarliestSample(n) = 78 + n * 16 * 10 + ((n * 16) \div 17) * 3
      BY <1>1 DEF TheCore, EarliestSample
  <2>3. LatestSample(n) = 95 + n * 16 * 10 + ((n * 16 + 17 - 1) \div 17) * 3
      BY <1>1 DEF TheCore, LatestSample
  <2> QED BY <2>1, <2>2, <2>3
<1> QED BY <1>1, <1>2, <1>3

(***************************************************************************)
(* With the numbers of the core a host whose bit is between 158.1 and      *)
(* 170.5 cycles long is heard, and one whose bit is between 164.77 and     *)
(* 181.04 cycles long hears; the nominal bit has 173.61 cycles.            *)
(***************************************************************************)
COROLLARY FramesOfTheCoreAreHeard ==
    ASSUME TheCore
    PROVE  Spec => [](hostPeriod \in (IF talker = "host" THEN 15810..17050 ELSE 16477..18104)
                        => EveryFrameIsHeard)
<1>1. ASSUME NEW p \in 15810..17050 PROVE HeardByDevice(p)
  <2>1. ASSUME NEW n \in 0..10 PROVE SampleIn(n, n, p)
    <3>1. n * p <= n * 17050 /\ (n + 1) * 15810 <= (n + 1) * p /\ n * p \in Nat
          /\ (n + 1) * p \in Nat
        BY TimesMonotone
    <3> QED BY <3>1, CoreTimes DEF SampleIn
  <2>2. 100 * (LatestSample(10) + Silence) < (10 + 1) * p
      BY CoreTimes
  <2> QED BY <2>1, <2>2, CoreTimes DEF HeardByDevice
<1>2. ASSUME NEW p \in 16477..18104 PROVE HeardByHost(p)
    BY CoreTimes DEF TheCore, HeardByHost
<1> DEFINE InTime == hostPeriod \in (IF talker = "host" THEN 15810..17050 ELSE 16477..18104)
<1>3. InTime /\ UnderstoodFramesAreHeard => EveryFrameIsHeard
  <2>1. ASSUME InTime, talker = "host" PROVE Understood
    <3>1. HeardByDevice(hostPeriod)
        BY <1>1, <2>1
    <3> QED BY <2>1, <3>1 DEF Understood
  <2>2. ASSUME InTime, talker # "host" PROVE Understood
    <3>1. HeardByHost(hostPeriod)
        BY <1>2, <2>2
    <3> QED BY <2>2, <3>1 DEF Understood
  <2> QED BY <2>1, <2>2 DEF UnderstoodFramesAreHeard
<1> HIDE DEF InTime
<1>4. DividerFits
    BY CoreTimes
<1>5. Spec => [](InTime => EveryFrameIsHeard)
    BY <1>3, <1>4, FramesAreHeard, PTL
<1> QED BY <1>5 DEF InTime

(***************************************************************************)
(* With the numbers of the core (uart_peripheral.vhd:41, 43) the nominal   *)
(* host is not heard: its first frame, if its parity bit is 0, is reported *)
(* with an error.                                                          *)
(***************************************************************************)
COROLLARY NominalHostsAreMisread ==
    ASSUME TheCore
    PROVE  Spec => [](hostPeriod = 17361 => FaultlessIsReported)
<1>1. StopBitMissed(17361)
  <2>1. SampleIn(0, 0, 17361)
      BY CoreTimes DEF SampleIn
  <2>2. SampleIn(10, 10 - 1, 17361)
      BY CoreTimes DEF SampleIn
  <2> QED BY <2>1, <2>2, CoreTimes DEF StopBitMissed
<1>2. (StopBitMissed(hostPeriod) => FaultlessIsReported)
        => (hostPeriod = 17361 => FaultlessIsReported)
    BY <1>1
<1>3. DividerFits
    BY CoreTimes
<1> QED BY <1>2, <1>3, MissedStopBitIsAnError, PTL

=============================================================================
