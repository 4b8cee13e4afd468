----------------------------- MODULE MCUartLink -----------------------------
(***************************************************************************)
(* uart.vhd as uart_peripheral.vhd instantiates it, with the generics of   *)
(* its component declaration: frames of eight bits, the digits the menu    *)
(* waits for and bytes with both levels in every position.                 *)
(***************************************************************************)
EXTENDS UartLink

ClkFreq  == 20000000
BaudRate == 115200

MCOsRate     == 16
MCBaudPeriod == ClkFreq \div BaudRate
MCOsPeriod   == (ClkFreq \div BaudRate) \div MCOsRate

BitsOf(b) == [i \in 1..DWidth |-> (b \div 2^(i - 1)) % 2]

MCBytes == {BitsOf(49), BitsOf(170), BitsOf(213)}

\* A host that keeps the baud rate.
NominalPeriod == {(100 * ClkFreq) \div BaudRate}

\* That host, one in the middle and one at either end of those that the
\* device understands, and one at either end of those that understand it.
MCPeriods == NominalPeriod \cup {15810, 16477, 17050, 18104}

\* Phases of the baud period.
MCGaps == {1, 6, 40, 85, 130}

\* These are the ends, and the host that keeps the baud rate understands the
\* device, but the device finds its parity bit for its stop bit.
ASSUME EndsAssumption ==
    /\ DividerFits
    /\ HeardByDevice(15810) /\ ~HeardByDevice(15809)
    /\ HeardByDevice(17050) /\ ~HeardByDevice(17051)
    /\ HeardByHost(16477) /\ ~HeardByHost(16476)
    /\ HeardByHost(18104) /\ ~HeardByHost(18105)
    /\ \A p \in NominalPeriod : HeardByHost(p) /\ StopBitMissed(p)

=============================================================================
