--------------------------- MODULE UartPeripheral ---------------------------
(***************************************************************************)
(* The registers of uart_peripheral.vhd around a transceiver that keeps    *)
(* the protocol of ByteUart (uart.vhd does: see UartLink).                 *)
(* ClockPeripheral(access, Incoming) is one rising edge of clk with access *)
(* on the bus; Incoming is the data that a frame may bring.  rx_error is   *)
(* left out: no software reads it.                                         *)
(***************************************************************************)
EXTENDS Bus, ByteUart

VARIABLES txEna, txData,           \* tx_ena_i, tx_data_i
          rxDataReg, rxValid, rxBusyPrev

peripheralVars == <<txEna, txData, rxDataReg, rxValid, rxBusyPrev, byteVars>>

NoData == 0

\* Registers, by bits 3..2 of the address.
TXDATA == 0
STATUS == 1
RXDATA == 2

ResetPeripheral ==
    /\ Reset /\ rxData = NoData
    /\ txEna = FALSE /\ txData = NoData
    /\ rxDataReg = NoData /\ rxValid = FALSE /\ rxBusyPrev = FALSE

\* A write while the transmitter is busy is dropped.
TxControl(access) ==
    LET taken == Writes(access, "uart", TXDATA) /\ ~txBusy
    IN  /\ txEna' = taken
        /\ txData' = IF taken THEN access.wdata ELSE txData

\* Mutants: the flag is not cleared; the set loses against any read.
RxLatchUncleared(access) ==
    LET ended == rxBusyPrev /\ ~rxBusy
    IN  /\ rxBusyPrev' = rxBusy
        /\ rxDataReg' = IF ended THEN rxData ELSE rxDataReg
        /\ rxValid' = (ended \/ rxValid)

RxLatchAnyRead(access) ==
    LET ended == rxBusyPrev /\ ~rxBusy
        read  == Selected(access.address) = "uart" /\ ~access.we
    IN  /\ rxBusyPrev' = rxBusy
        /\ rxDataReg' = IF ended THEN rxData ELSE rxDataReg
        /\ rxValid' = (~Reads(access, "uart", RXDATA) /\ ((ended /\ ~read) \/ rxValid))

\* The data is latched at the end of a reception; a read clears the flag,
\* also in the very cycle that would set it.
RxLatch(access) ==
    LET ended == rxBusyPrev /\ ~rxBusy
    IN  /\ rxBusyPrev' = rxBusy
        /\ rxDataReg' = IF ended THEN rxData ELSE rxDataReg
        /\ rxValid' = (~Reads(access, "uart", RXDATA) /\ (ended \/ rxValid))

ClockPeripheral(access, Incoming) ==
    /\ TxControl(access)
    /\ RxLatch(access)
    /\ Clock(txEna, Incoming)

=============================================================================
