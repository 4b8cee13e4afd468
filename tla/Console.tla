------------------------------ MODULE Console ------------------------------
(***************************************************************************)
(* uart_putc and uart_getc of uart_print.c as the instruction stream in    *)
(* the stage MEM of the core, against the registers of uart_peripheral.vhd *)
(* and a host that sends and receives at any time.                         *)
(*                                                                         *)
(* An instruction may stay in MEM: a load takes two cycles, one for the    *)
(* stall, and a division behind it holds it for pairs of cycles or a store *)
(* for any number (PipeControl: ClockExMem).  Its value is that of the     *)
(* last cycle.  Between two accesses of a loop there are other             *)
(* instructions, of which none has an ALU result that is the address of a  *)
(* register; between two calls there is any other work, whose ALU results  *)
(* may look like such an address.                                          *)
(*                                                                         *)
(* Bytes have identities: the i-th that is put is i, the i-th that the     *)
(* host sends is i.                                                        *)
(***************************************************************************)
EXTENDS UartPeripheral

CONSTANTS MaxHold,    \* cycles that an instruction stays in MEM, at the most
          MaxOther,   \* cycles between two accesses of a loop, at the most
          MaxPuts,    \* bound: bytes put in a behaviour
          MaxBytes    \* bound: bytes sent by the host in a behaviour

\* A division, and a loop of a driver, is shorter than a frame.
ASSUME ConsoleAssumption ==
    /\ TxTicks \in Nat /\ RxTicks \in Nat
    /\ MaxHold \in Nat /\ MaxHold >= 2 /\ MaxHold % 2 = 0 /\ MaxOther \in Nat \ {0}
    /\ MaxHold < TxTicks /\ 2 * (MaxHold + MaxOther) < RxTicks

VARIABLES call,      \* "putc", "getc", or "none" in between
          mem,       \* the instruction in MEM: "status", "tx", "rxdata", "other"
          held,      \* cycles it has been there, this one included
          stray,     \* its ALU result, unintended, is the address of RXDATA
          others,    \* cycles since the last access of the call
          loaded,    \* [busy, valid], bits 0 and 3 of STATUS as last loaded
          puts,      \* history: calls of uart_putc that stored
          sent,      \* history: what the transceiver took over
          got,       \* history: what uart_getc returned
          arrived,   \* history: frames that ended
          latched,   \* history: the newest byte in RXDATA when getc was called
          fetched    \* history: the newest byte that a load of RXDATA could return

cpuVars  == <<call, mem, held, stray, others, loaded, puts>>
consoleVars == <<peripheralVars, cpuVars, sent, got, arrived, latched, fetched>>

UpTo(n) == [i \in 1..n |-> i]
Stale   == 0

UartReg(reg) == Address(8, 0, reg)
Elsewhere    == Address(0, 0, 0)

\* A store that is held writes its data once more, but what was forwarded
\* to it is gone.
Access ==
    CASE mem = "tx"     -> Write(UartReg(TXDATA), IF held = 1 THEN puts ELSE Stale)
      [] mem = "status" -> Read(UartReg(STATUS))
      [] mem = "rxdata" -> Read(UartReg(RXDATA))
      [] mem = "other"  -> Read(IF stray THEN UartReg(RXDATA) ELSE Elsewhere)

\* One edge for everything but the instructions.
ClockDevices ==
    /\ ClockPeripheral(Access, {arrived + 1})
    /\ arrived' = IF rxBusy /\ ~rxBusy' THEN arrived + 1 ELSE arrived
    /\ (receiving = Idle /\ arrived = MaxBytes) => receiving' = Idle
    /\ sent' = IF sending = Idle /\ txEna THEN Append(sent, txData) ELSE sent
    /\ fetched' = IF mem = "rxdata" THEN rxDataReg ELSE fetched

ConsoleInit ==
    /\ ResetPeripheral
    /\ call = "none" /\ mem = "other" /\ held = 1 /\ stray = FALSE /\ others = 0
    /\ loaded = [busy |-> FALSE, valid |-> FALSE] /\ puts = 0
    /\ sent = <<>> /\ got = <<>> /\ arrived = 0 /\ latched = 0 /\ fetched = 0

-----------------------------------------------------------------------------
\* The instruction stays in MEM.
Hold ==
    /\ mem # "other" /\ held < MaxHold
    /\ held' = held + 1
    /\ UNCHANGED <<call, mem, stray, others, loaded, puts, got, latched>>

\* It leaves for WB, a load on the second cycle of a pair.
MayLeave == mem \in {"status", "rxdata"} => held % 2 = 0

Enter(instruction) ==
    /\ MayLeave
    /\ mem' = instruction /\ held' = 1
    /\ others' = IF instruction = "other" /\ call # "none" THEN others + 1 ELSE 0
    /\ loaded' = IF mem = "status" THEN [busy |-> txBusy, valid |-> rxValid] ELSE loaded
    /\ got' = IF mem = "rxdata" THEN Append(got, rxDataReg) ELSE got

\* Work between calls.
Work ==
    /\ call = "none"
    /\ Enter("other")
    /\ stray' \in BOOLEAN
    /\ UNCHANGED <<call, puts, latched>>

CallPutc ==
    /\ call = "none" /\ puts < MaxPuts
    /\ Enter("status")
    /\ call' = "putc" /\ stray' = FALSE
    /\ UNCHANGED <<puts, latched>>

CallGetc ==
    /\ call = "none"
    /\ Enter("status")
    /\ call' = "getc" /\ stray' = FALSE
    /\ latched' = rxDataReg'
    /\ UNCHANGED puts

\* The instructions of a loop around its accesses: the value loaded is not
\* looked at any earlier.
Evaluate ==
    /\ call # "none" /\ others < MaxOther
    /\ Enter("other")
    /\ UNCHANGED <<call, stray, puts, latched>>

\* while (uart_tx_is_busy());   while (!uart_rx_data_is_valid());
PollAgain ==
    /\ mem = "other"
    /\ \/ call = "putc" /\ loaded.busy
       \/ call = "getc" /\ ~loaded.valid
    /\ Enter("status")
    /\ UNCHANGED <<call, stray, puts, latched>>

\* Mutant: the loop ends whatever the flag.
StoreTxUnpolled ==
    /\ mem = "other" /\ call = "putc"
    /\ Enter("tx")
    /\ call' = "none" /\ puts' = puts + 1
    /\ UNCHANGED <<stray, latched>>

\* UART_TXDATA = (uint32_t)c;
StoreTx ==
    /\ mem = "other" /\ call = "putc" /\ ~loaded.busy
    /\ Enter("tx")
    /\ call' = "none" /\ puts' = puts + 1
    /\ UNCHANGED <<stray, latched>>

\* return (char)(UART_RXDATA & 0xFF);
ReadRx ==
    /\ mem = "other" /\ call = "getc" /\ loaded.valid
    /\ Enter("rxdata")
    /\ call' = "none"
    /\ UNCHANGED <<stray, puts, latched>>

Instructions ==
    Hold \/ Work \/ CallPutc \/ CallGetc \/ Evaluate \/ PollAgain \/ StoreTx \/ ReadRx

ConsoleNext == ClockDevices /\ Instructions

\* The clock runs, and a frame under way makes progress (UartLink:
\* EveryFrameEnds).
ConsoleSpec ==
    /\ ConsoleInit /\ [][ConsoleNext]_consoleVars
    /\ WF_consoleVars(ConsoleNext)
    /\ WF_consoleVars(ConsoleNext /\ sending' # sending)

-----------------------------------------------------------------------------
\* A byte stored that the transceiver has yet to take over.
InFlight == (mem = "tx" /\ held = 1) \/ (txEna /\ sending = Idle)

(***************************************************************************)
(* The bytes put are sent in their order, each of them once: two cycles    *)
(* after its store a byte has been taken over.  Busy rises only then, in   *)
(* time for the poll of a putc that follows at once; a store held by a     *)
(* division writes more than once, and with other data (uart_putc,         *)
(* tx_control).                                                            *)
(***************************************************************************)
PutBytesAreSent == sent = UpTo(IF InFlight THEN puts - 1 ELSE puts)

(***************************************************************************)
(* No byte is returned twice, and later ones come later: the flag of a     *)
(* byte that was read is gone by the next poll (uart_getc, rx_latch).      *)
(***************************************************************************)
BytesAreNotRepeated ==
    \A i, j \in 1..Len(got) : 0 < got[i] /\ (i < j => got[i] < got[j])

(***************************************************************************)
(* A byte that arrives while uart_getc polls is not missed: the call       *)
(* returns it, unless one that was there before (uart_getc, rx_latch).     *)
(***************************************************************************)
NoneMissedWhilePolling == [][got' # got => got'[Len(got')] <= latched + 1]_consoleVars

(***************************************************************************)
(* A call of uart_putc ends, and so does one of uart_getc during which a   *)
(* byte arrives.                                                           *)
(***************************************************************************)
CallsEnd ==
    /\ call = "putc" ~> call = "none"
    /\ call = "getc" /\ rxDataReg > latched ~> call = "none"

(***************************************************************************)
(* "clear when CPU reads RXDATA" (uart_peripheral.vhd): a byte that no     *)
(* load of RXDATA has read is flagged as valid.                            *)
(***************************************************************************)
UnreadIsValid == rxDataReg > fetched => rxValid

=============================================================================
