------------------------------ MODULE ByteUart ------------------------------
(***************************************************************************)
(* What a serial transceiver promises the registers around it: how busy    *)
(* follows tx_ena, that rx_busy falls once for each frame, and that a      *)
(* frame takes at least TxTicks or RxTicks clock cycles.  How long it      *)
(* takes beyond that is left open, so that fewer ticks promise less.       *)
(* Clock(txEna, Incoming) is one clock edge; Incoming is the data that a   *)
(* frame may bring.                                                        *)
(***************************************************************************)
EXTENDS Integers

CONSTANTS TxTicks, RxTicks   \* cycles that busy lasts, at the least

VARIABLES sending,     \* ticks of the outgoing frame so far, or Idle
          receiving,   \* ticks of the incoming frame so far, or Idle
          txBusy, rxData

byteVars == <<sending, receiving, txBusy, rxData>>

Idle   == -1
rxBusy == receiving # Idle

Reset == sending = Idle /\ receiving = Idle /\ txBusy = TRUE

\* Busy is set a cycle after tx_ena, and cleared on the first edge with
\* nothing to send: a cycle after the frame.
Accept(txEna) ==
    sending = Idle /\ txEna /\ sending' = 0 /\ txBusy' = TRUE

StayBusy(txEna) ==
    sending = Idle /\ ~txEna /\ sending' = Idle /\ UNCHANGED txBusy

NothingToSend(txEna) ==
    sending = Idle /\ ~txEna /\ sending' = Idle /\ txBusy' = FALSE

Transmit ==
    /\ sending # Idle
    /\ sending' \in {sending, IF sending + 1 = TxTicks THEN Idle ELSE sending + 1}
    /\ UNCHANGED txBusy

Listen ==
    /\ receiving = Idle
    /\ receiving' \in {Idle, 0}
    /\ UNCHANGED rxData

Receive(Incoming) ==
    /\ receiving # Idle
    /\ IF receiving = RxTicks
       THEN \/ UNCHANGED <<receiving, rxData>>
            \/ receiving' = Idle /\ rxData' \in Incoming
       ELSE receiving' \in {receiving, receiving + 1} /\ UNCHANGED rxData

Clock(txEna, Incoming) ==
    /\ Accept(txEna) \/ NothingToSend(txEna) \/ Transmit
    /\ Listen \/ Receive(Incoming)

=============================================================================
