-------------------------------- MODULE Uart --------------------------------
(***************************************************************************)
(* The serial transceiver uart.vhd, bit by bit: the divider that makes the *)
(* baud and oversampling pulses, the receiver, which samples the line at   *)
(* the centre of each bit, and the transmitter.  A frame is a start bit 0, *)
(* DWidth data bits from the lowest, an even parity bit and a stop bit 1.  *)
(*                                                                         *)
(* Clock(rx, txEna, txData) is one rising edge of clk; rx is the level of  *)
(* the line, txEna and txData what the peripheral drives.                  *)
(***************************************************************************)
EXTENDS Naturals, Sequences, FiniteSets

CONSTANTS BaudPeriod,   \* clk_freq / baud_rate, in clock cycles
          OsPeriod,     \* clk_freq / baud_rate / os_rate
          OsRate,       \* os_rate, samples that make a bit
          DWidth        \* d_width, data bits in a frame

VARIABLES countBaud, countOs, baudPulse, osPulse,
          rxState, rxCount, osCount, rxBuffer, rxBusy, rxError, rxData,
          txState, txCount, txBuffer, txBusy, tx

uartVars == <<countBaud, countOs, baudPulse, osPulse,
              rxState, rxCount, osCount, rxBuffer, rxBusy, rxError, rxData,
              txState, txCount, txBuffer, txBusy, tx>>

Bits(n) == [1..n -> {0, 1}]
Repeated(bit, n) == [i \in 1..n |-> bit]

\* The bit that makes the number of ones even (rx_parity, tx_parity;
\* parity_eo = '0').
EvenParity(bits) == Cardinality({i \in DOMAIN bits : bits[i] = 1}) % 2

Shifted(buffer, bit) == Append(Tail(buffer), bit)

\* Reset, in which busy tells that nothing can be sent, and what the signals
\* that it leaves alone are declared with.
Reset ==
    /\ countBaud = 0 /\ countOs = 0 /\ baudPulse = FALSE /\ osPulse = FALSE
    /\ rxState = "idle" /\ rxCount = 0 /\ osCount = 0
    /\ rxBuffer = Repeated(0, DWidth + 2)
    /\ rxBusy = FALSE /\ rxError = FALSE /\ rxData = Repeated(0, DWidth)
    /\ txState = "idle" /\ txCount = 0
    /\ txBuffer = Repeated(1, DWidth + 3)
    /\ txBusy = TRUE /\ tx = 1

-----------------------------------------------------------------------------
\* The oversampling counter restarts with the baud period.
ClockDivider ==
    LET baudEnds == countBaud >= BaudPeriod - 1
        os       == IF baudEnds THEN 0 ELSE countOs
        osEnds   == os >= OsPeriod - 1
    IN  /\ countBaud' = IF baudEnds THEN 0 ELSE countBaud + 1
        /\ baudPulse' = baudEnds
        /\ countOs' = IF osEnds THEN 0 ELSE os + 1
        /\ osPulse' = osEnds

\* No start bit on the line.
LineIdle(rx) ==
    /\ rxState = "idle" /\ rx = 1
    /\ rxBusy' = FALSE /\ osCount' = 0
    /\ UNCHANGED <<rxState, rxCount, rxBuffer, rxError, rxData>>

\* Perhaps a start bit, not yet at its centre.
StartBit(rx) ==
    /\ rxState = "idle" /\ rx = 0 /\ osCount < OsRate \div 2
    /\ rxBusy' = FALSE /\ osCount' = osCount + 1
    /\ UNCHANGED <<rxState, rxCount, rxBuffer, rxError, rxData>>

\* Mutant: the start bit is taken at its edge.
StartAtEdge(rx) ==
    /\ rxState = "idle" /\ rx = 0
    /\ rxState' = "receive" /\ rxBusy' = TRUE
    /\ osCount' = 0 /\ rxCount' = 0
    /\ rxBuffer' = Shifted(rxBuffer, rx)
    /\ UNCHANGED <<rxError, rxData>>

StartCentre(rx) ==
    /\ rxState = "idle" /\ rx = 0 /\ osCount >= OsRate \div 2
    /\ rxState' = "receive" /\ rxBusy' = TRUE
    /\ osCount' = 0 /\ rxCount' = 0
    /\ rxBuffer' = Shifted(rxBuffer, rx)
    /\ UNCHANGED <<rxError, rxData>>

BetweenCentres ==
    /\ rxState = "receive" /\ osCount < OsRate - 1
    /\ osCount' = osCount + 1
    /\ UNCHANGED <<rxState, rxCount, rxBuffer, rxBusy, rxError, rxData>>

BitCentre(rx) ==
    /\ rxState = "receive" /\ osCount >= OsRate - 1 /\ rxCount < DWidth + 1
    /\ osCount' = 0 /\ rxCount' = rxCount + 1
    /\ rxBuffer' = Shifted(rxBuffer, rx)
    /\ UNCHANGED <<rxState, rxBusy, rxError, rxData>>

\* The error is any of start, parity and stop bit.
StopCentre(rx) ==
    /\ rxState = "receive" /\ osCount >= OsRate - 1 /\ rxCount >= DWidth + 1
    /\ rxState' = "idle" /\ rxBusy' = FALSE
    /\ rxData' = SubSeq(rxBuffer, 2, DWidth + 1)
    /\ rxError' = (rxBuffer[1] = 1 \/ EvenParity(Tail(rxBuffer)) = 1 \/ rx = 0)
    /\ UNCHANGED <<osCount, rxCount, rxBuffer>>

ClockReceiver(rx) ==
    IF osPulse
    THEN LineIdle(rx) \/ StartBit(rx) \/ StartCentre(rx) \/ BetweenCentres
         \/ BitCentre(rx) \/ StopCentre(rx)
    ELSE UNCHANGED <<rxState, rxCount, osCount, rxBuffer, rxBusy, rxError, rxData>>

-----------------------------------------------------------------------------
\* Mutants: busy is never cleared; busy is cleared with the last bit.
StayBusy(txEna) ==
    /\ txState = "idle" /\ ~txEna
    /\ UNCHANGED <<txBusy, txState, txCount, txBuffer>>

TransmitNotBusy ==
    /\ txState = "transmit"
    /\ txCount' = IF baudPulse THEN txCount + 1 ELSE txCount
    /\ txBuffer' = IF baudPulse THEN Shifted(txBuffer, 1) ELSE txBuffer
    /\ txState' = IF txCount' < DWidth + 4 THEN "transmit" ELSE "idle"
    /\ txBusy' = (txCount' < DWidth + 3)

NothingToSend(txEna) ==
    /\ txState = "idle" /\ ~txEna
    /\ txBusy' = FALSE
    /\ UNCHANGED <<txState, txCount, txBuffer>>

Load(txEna, txData) ==
    /\ txState = "idle" /\ txEna
    /\ txBuffer' = <<1, 0>> \o txData \o <<EvenParity(txData)>>
    /\ txBusy' = TRUE /\ txCount' = 0 /\ txState' = "transmit"

\* The frame ends when the stop bit, too, has lasted a whole bit.
Transmit ==
    /\ txState = "transmit"
    /\ txCount' = IF baudPulse THEN txCount + 1 ELSE txCount
    /\ txBuffer' = IF baudPulse THEN Shifted(txBuffer, 1) ELSE txBuffer
    /\ txState' = IF txCount' < DWidth + 4 THEN "transmit" ELSE "idle"
    /\ UNCHANGED txBusy

ClockTransmitter(txEna, txData) ==
    /\ NothingToSend(txEna) \/ Load(txEna, txData) \/ Transmit
    /\ tx' = txBuffer[1]

Clock(rx, txEna, txData) ==
    /\ ClockDivider
    /\ ClockReceiver(rx)
    /\ ClockTransmitter(txEna, txData)

=============================================================================
