---------------------------- MODULE MCSerialDriver ----------------------------
(***************************************************************************)
(* SerialDriver for TLC.  The driver copies bytes and never looks at them, *)
(* and no property tells one data byte from another, so the runs that use  *)
(* two of them may exchange them.                                          *)
(***************************************************************************)
EXTENDS SerialDriver, TLC

Symmetry == Permutations(HostBytes) \cup Permutations(TermBytes)

(***************************************************************************)
(* The slots of a ring outside [tail, head) are written before they are    *)
(* read again: two states that differ only there behave alike.  The        *)
(* indices stay in the view, so that every wrap is still met.              *)
(***************************************************************************)
LiveSlots == <<RingSeq(rx_ring, r_tail, ring_count, RxSize), r_head, r_tail,
               TxQueue, t_head, t_tail, ctlVars, iflag, mainVars, isrVars,
               aciaVars, hostVars, dropped>>

================================================================================
