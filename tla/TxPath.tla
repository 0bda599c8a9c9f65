--------------------------------- MODULE TxPath ---------------------------------
(***************************************************************************)
(* What the transmit half of the serial driver promises: a bounded FIFO    *)
(* whose last place ordinary output never takes, an XOFF that overtakes    *)
(* everything queued, an XON that waits for its turn and ends the throttle *)
(* in the moment it is queued, and a transmitter that is handed a byte     *)
(* only when it has sent the last one.                                     *)
(***************************************************************************)
EXTENDS Naturals, Sequences

CONSTANTS Capacity,  \* bytes the FIFO holds
          Bytes,     \* ordinary output
          XON, XOFF, None

VARIABLES queue,     \* bytes waiting for the transmitter
          tdr,       \* the byte it is sending
          throttled  \* XOFF was queued, XON not yet

txpVars == <<queue, tdr, throttled>>

TxpInit == queue = <<>> /\ tdr = None /\ throttled = FALSE

Output == /\ Len(queue) < Capacity - 1
          /\ \E b \in Bytes : queue' = Append(queue, b)
          /\ UNCHANGED <<tdr, throttled>>

Throttle == /\ ~throttled /\ Len(queue) < Capacity
            /\ queue' = <<XOFF>> \o queue
            /\ throttled' = TRUE
            /\ UNCHANGED tdr

Resume == /\ throttled /\ Len(queue) < Capacity
          /\ queue' = Append(queue, XON)
          /\ throttled' = FALSE
          /\ UNCHANGED tdr

Transmit == /\ queue # <<>> /\ tdr = None
            /\ tdr' = Head(queue)
            /\ queue' = Tail(queue)
            /\ UNCHANGED throttled

Deliver == /\ tdr # None
           /\ tdr' = None
           /\ UNCHANGED <<queue, throttled>>

TxpNext == Output \/ Throttle \/ Resume \/ Transmit \/ Deliver

TxpSpec == TxpInit /\ [][TxpNext]_txpVars

================================================================================
