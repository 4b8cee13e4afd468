------------------------------ MODULE UartLink ------------------------------
(***************************************************************************)
(* uart.vhd on a line to a host that keeps its own time: a bit of the host *)
(* lasts hostPeriod hundredths of a clock cycle.  In a behaviour either    *)
(* the host talks, and frames reach the receiver of the core at any phase  *)
(* of its counters, or the device does, through tx_ena as the peripheral   *)
(* drives it, and the host listens.  The host is not part of the code: it  *)
(* sends and samples ideal frames.                                         *)
(***************************************************************************)
EXTENDS Uart, Integers

CONSTANTS Bytes,         \* the data sent
          HostPeriods,   \* the periods of a host's bit, in cycles / 100
          Gaps,          \* idle cycles before a frame
          Frames         \* bound: frames sent in a behaviour

ASSUME LinkAssumption ==
    /\ DWidth \in Nat /\ OsRate \in Nat \ {0}
    /\ Bytes \subseteq Bits(DWidth) /\ Frames \in Nat
    /\ HostPeriods \subseteq Nat \ {0} /\ Gaps \subseteq Nat

VARIABLES txEna, txData,          \* inputs of uart
          talker,                 \* who sends: "host" or "device"
          hostPeriod,
          time,                   \* cycles since the frame began, of the talker;
                                  \* negative in the gap before it
          byte,                   \* the data of the frame
          left,                   \* frames still to begin
          heard,                  \* history: what the listener heard of it
          samples, listenTime     \* the host's receiver

hostVars == <<talker, hostPeriod, time, byte, left, heard, samples, listenTime>>
vars == <<uartVars, txEna, txData, hostVars>>

\* A frame that arrived: its data, and whether it was found in error.
Frame(data, error) == [data |-> data, error |-> error]

\* The bit of the host's frame on the line at time t.
FrameBits(data) == <<0>> \o data \o <<EvenParity(data), 1>>
BitAt(t)        == (100 * t) \div hostPeriod + 1

\* The frame is over for its talker: the host has sent all bits, the device
\* sees the transmitter idle again.
Over == IF talker = "host" THEN time >= 0 /\ BitAt(time) > DWidth + 3
                           ELSE time = 2 /\ ~txBusy

rx == IF talker = "host" /\ time >= 0 /\ ~Over THEN FrameBits(byte)[BitAt(time)] ELSE 1

-----------------------------------------------------------------------------
Init ==
    /\ Reset
    /\ txEna = FALSE /\ txData = Repeated(0, DWidth)
    /\ talker \in {"host", "device"}
    /\ hostPeriod \in HostPeriods
    /\ time \in {-g : g \in Gaps} /\ byte \in Bytes /\ left = Frames - 1
    /\ heard = <<>> /\ samples = <<>> /\ listenTime = -1

\* The next frame, after a gap.
Begin ==
    /\ Over /\ left > 0
    /\ time' \in {-g : g \in Gaps} /\ byte' \in Bytes /\ left' = left - 1 /\ heard' = <<>>
    /\ Clock(1, FALSE, txData)
    /\ UNCHANGED <<talker, hostPeriod, samples, listenTime, txEna, txData>>

HostTalks ==
    /\ talker = "host" /\ ~Over
    /\ Clock(rx, FALSE, txData)
    /\ time' = time + 1
    /\ heard' = IF rxBusy /\ ~rxBusy' THEN Append(heard, Frame(rxData', rxError')) ELSE heard
    /\ UNCHANGED <<talker, hostPeriod, byte, left, samples, listenTime, txEna, txData>>

\* The host samples the centres of DWidth + 3 bits, counted from the edge of
\* the start bit.
HostListens ==
    LET centre == ((2 * Len(samples) + 1) * hostPeriod) \div 200
        all    == Append(samples, tx)
    IN  IF listenTime < 0
        THEN listenTime' = (IF tx = 0 THEN 0 ELSE -1) /\ UNCHANGED <<samples, heard>>
        ELSE IF listenTime # centre
        THEN listenTime' = listenTime + 1 /\ UNCHANGED <<samples, heard>>
        ELSE IF Len(all) < DWidth + 3
        THEN listenTime' = listenTime + 1 /\ samples' = all /\ UNCHANGED heard
        ELSE /\ listenTime' = -1 /\ samples' = <<>>
             /\ heard' = Append(heard, Frame(SubSeq(all, 2, DWidth + 1), all # FrameBits(byte)))

\* tx_ena is a pulse of one cycle, given when the transmitter is not busy.
DeviceTalks ==
    /\ talker = "device" /\ ~Over
    /\ Clock(1, txEna, txData)
    /\ HostListens
    /\ \/ time < 0 /\ time' = time + 1 /\ UNCHANGED <<txEna, txData>>
       \/ time = 0 /\ txBusy /\ UNCHANGED <<time, txEna, txData>>
       \/ time = 0 /\ ~txBusy /\ time' = 1 /\ txEna' = TRUE /\ txData' = byte
       \/ time = 1 /\ time' = 2 /\ txEna' = FALSE /\ UNCHANGED txData
       \/ time = 2 /\ UNCHANGED <<time, txEna, txData>>
    /\ UNCHANGED <<talker, hostPeriod, byte, left>>

Next == HostTalks \/ DeviceTalks \/ Begin

Spec     == Init /\ [][Next]_vars
FairSpec == Spec /\ WF_vars(Next)

-----------------------------------------------------------------------------
(***************************************************************************)
(* The hosts that are understood.  The oversampling counter restarts with  *)
(* the baud period, so that its pulses come OsPeriod cycles apart with a   *)
(* longer pause at the end of every period.  As many come in a period as   *)
(* fit, which need not be the OsRate that the receiver counts to a bit: in *)
(* a period of 173 cycles 17 of them, 10 cycles apart.                     *)
(***************************************************************************)
DividerFits ==
    /\ BaudPeriod \in Nat /\ OsPeriod \in Nat \ {0} /\ OsRate >= 2
    /\ OsPeriod < BaudPeriod /\ BaudPeriod % OsPeriod # 0
    /\ OsRate \div 2 < BaudPeriod \div OsPeriod

PulsesPerPeriod == BaudPeriod \div OsPeriod
Pause   == BaudPeriod % OsPeriod
Silence == OsPeriod + Pause + 1         \* no longer without a pulse
LastBit == DWidth + 2                   \* the stop bit, the start bit being 0

\* The centre of the start bit is sampled between Earliest and Latest cycles
\* after its edge, and bit n is taken n * OsRate pulses later.
ToCentre == (OsRate \div 2) * OsPeriod
Earliest == ToCentre - 2
Latest   == ToCentre + OsPeriod + Pause + 2

EarliestSample(n) ==
    Earliest + n * OsRate * OsPeriod + ((n * OsRate) \div PulsesPerPeriod) * Pause
LatestSample(n) ==
    Latest + n * OsRate * OsPeriod
        + ((n * OsRate + PulsesPerPeriod - 1) \div PulsesPerPeriod) * Pause

\* What the receiver takes for bit n is bit k of a host with period p.
SampleIn(n, k, p) == k * p <= 100 * EarliestSample(n) /\ 100 * LatestSample(n) < (k + 1) * p

\* Every sample is in its bit, and the receiver is idle again by the end of
\* the stop bit.
HeardByDevice(p) ==
    /\ \A n \in 0..LastBit : SampleIn(n, n, p)
    /\ 100 * (LatestSample(LastBit) + Silence) < (LastBit + 1) * p

\* The start bit is found, but what is taken for the stop bit is the parity.
StopBitMissed(p) == SampleIn(0, 0, p) /\ SampleIn(LastBit, LastBit - 1, p)

\* Every sample of the host is in its bit.
HeardByHost(p) ==
    /\ 200 * LastBit * BaudPeriod <= (2 * LastBit + 1) * p
    /\ (2 * LastBit + 1) * p < 200 * ((LastBit + 1) * BaudPeriod - 2)

Understood == IF talker = "host" THEN HeardByDevice(hostPeriod) ELSE HeardByHost(hostPeriod)

-----------------------------------------------------------------------------
(***************************************************************************)
(* By the time its talker has done with it, a frame has been heard exactly *)
(* once, with its data and without error, at every phase of the counters   *)
(* and for every period of the host: that the receiver samples the centre  *)
(* of each bit (uart.vhd:94-142).                                          *)
(***************************************************************************)
EveryFrameIsHeard == Over => heard = <<Frame(byte, FALSE)>>

(***************************************************************************)
(* So it is for the hosts whose bit the samples do not drift out of, and   *)
(* for those that listen to the device: what the device sends keeps to its *)
(* own baud period, so a device that is not busy any more has really sent  *)
(* its byte (uart.vhd:153-190).                                            *)
(***************************************************************************)
UnderstoodFramesAreHeard == Understood => EveryFrameIsHeard

(***************************************************************************)
(* A frame comes to its end, on either side.                               *)
(***************************************************************************)
EveryFrameEnds == []<>Over

BU == INSTANCE ByteUart WITH
    TxTicks   <- DWidth + 4,
    RxTicks   <- (DWidth + 2) * OsRate - 1,
    sending   <- IF txState = "transmit" THEN txCount ELSE -1,
    receiving <- IF rxBusy THEN rxCount * OsRate + osCount ELSE -1

(***************************************************************************)
(* The transceiver keeps the protocol of its ports that the peripheral     *)
(* relies on.                                                              *)
(***************************************************************************)
ImplementsByteUart == BU!Reset /\ [][BU!Clock(txEna, Bits(DWidth))]_BU!byteVars

=============================================================================
