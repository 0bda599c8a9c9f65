--------------------------------- MODULE RxPath ---------------------------------
(***************************************************************************)
(* What the receive half of the serial driver promises: a bounded FIFO     *)
(* between the ACIA's data register and the parser.  The byte in the       *)
(* register is the next one stored; when the FIFO is full that byte, the   *)
(* newest, is the one given up; the parser gets the stored bytes in order, *)
(* each once.                                                              *)
(***************************************************************************)
EXTENDS Naturals, Sequences

CONSTANTS Capacity,  \* bytes the FIFO holds
          Bytes,     \* bytes the line carries
          None       \* no byte

VARIABLES rdr,       \* the data register
          queue,     \* bytes stored and not yet taken
          got        \* the byte the parser works on

rxpVars == <<rdr, queue, got>>

RxpInit == rdr = None /\ queue = <<>> /\ got = None

Arrive == /\ rdr = None
          /\ rdr' \in Bytes
          /\ UNCHANGED <<queue, got>>

Store == /\ rdr # None /\ Len(queue) < Capacity
         /\ queue' = Append(queue, rdr)
         /\ rdr' = None
         /\ UNCHANGED got

GiveUp == /\ rdr # None /\ Len(queue) = Capacity
          /\ rdr' = None
          /\ UNCHANGED <<queue, got>>

Take == /\ queue # <<>> /\ got = None
        /\ got' = Head(queue)
        /\ queue' = Tail(queue)
        /\ UNCHANGED rdr

Finish == /\ got # None
          /\ got' = None
          /\ UNCHANGED <<rdr, queue>>

RxpNext == Arrive \/ Store \/ GiveUp \/ Take \/ Finish

RxpSpec == RxpInit /\ [][RxpNext]_rxpVars

================================================================================
