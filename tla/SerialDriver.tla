------------------------------ MODULE SerialDriver ------------------------------
(***************************************************************************)
(* The interrupt-driven 6551 driver of the VT100 terminal: ring.c, the     *)
(* TX half and the flow control of serial.c, the handler serial_isr.s and  *)
(* the calls the main loop of term.c makes.                                *)
(*                                                                         *)
(* Two programs share the rings, the throttle flag and the ACIA's command  *)
(* register: the main loop (mpc) and the interrupt handler (ipc), which    *)
(* may preempt the main loop before any of its steps while iflag is clear. *)
(* The ACIA and the host are the environment; they move at any time, also  *)
(* between two steps of the handler.  An access to shared state that the   *)
(* other side can observe is a step of its own.                            *)
(***************************************************************************)
EXTENDS Integers, Sequences

CONSTANTS
  RxSize, TxSize,    \* slots of the rings; both are RING_SIZE (256) in the build
  RingHigh, RingLow, \* the water marks of the receive ring (192 and 64)
  Slack,             \* bytes the host may still send after an XOFF is queued
  MaxReply,          \* longest burst given to serial_write
  HostBytes,         \* bytes the host sends
  TermBytes,         \* bytes of replies and keystrokes
  XON, XOFF,         \* the two flow-control bytes
  None,              \* no byte: an empty ACIA register, a slot never written
  OtherSources       \* whether modem-status changes and other cards interrupt

ASSUME SizeAssumption ==
  /\ RxSize \in Nat /\ RxSize >= 2
  /\ TxSize \in Nat /\ TxSize >= 3
ASSUME MarkAssumption ==
  /\ RingHigh \in 1 .. RxSize - 1
  /\ RingLow \in 0 .. RingHigh - 1
ASSUME SlackAssumption == Slack \in Nat
ASSUME ReplyAssumption == MaxReply \in Nat /\ MaxReply >= 1
ASSUME ByteAssumption ==
  /\ XON # XOFF /\ XON # None /\ XOFF # None
  /\ {XON, XOFF, None} \cap TermBytes = {}
  /\ None \notin HostBytes
ASSUME SourceAssumption == OtherSources \in BOOLEAN

VARIABLES
  rx_ring, r_head, r_tail,    \* receive ring: the handler produces, main consumes
  tx_ring, t_head, t_tail,    \* transmit ring: main appends, the handler removes
                              \* at t_tail and pushes XOFF in front of it
  xoff_sent,                  \* an XOFF was queued and no XON since
  tx_irq_active,              \* shadow of the transmit-interrupt enable
  iflag,                      \* the 6502's I flag: TRUE masks interrupts
  mpc, ret, after,            \* main: next step, where irq_on and where the
                              \* current serial call return to
  nh, len, ch,                \* main's locals: next head, bytes left, byte popped
  ipc, sr, owned,             \* handler: next step, sampled status, irq_owned
  rdr, tdr, latch, txie,      \* ACIA: data registers, interrupt latch, TX enable
  foreign,                    \* another card asserts the interrupt line
  hostFree, credit, lastCtl,  \* host: not bound by an XOFF, bytes it may send
                              \* while bound, last control byte it received
  dropped                     \* history: a received byte found the ring full

rxVars   == <<rx_ring, r_head, r_tail>>
txVars   == <<tx_ring, t_head, t_tail>>
ctlVars  == <<xoff_sent, tx_irq_active>>
mainVars == <<mpc, ret, after, nh, len, ch>>
isrVars  == <<ipc, sr, owned>>
aciaVars == <<rdr, tdr, latch, txie, foreign>>
hostVars == <<hostFree, credit, lastCtl>>
vars == <<rxVars, txVars, ctlVars, iflag, mainVars, isrVars, aciaVars,
          hostVars, dropped>>

(***************************************************************************)
(* Index arithmetic.  The indices of the code are unsigned chars over a    *)
(* 256-slot array, so they wrap with the array.                            *)
(***************************************************************************)
Succ_NoWrap(i, size) == i + 1   \* deviation: the index does not wrap

Succ(i, size) == IF i = size - 1 THEN 0 ELSE i + 1
Pred(i, size) == IF i = 0 THEN size - 1 ELSE i - 1
Dist(head, tail, size) == IF head >= tail THEN head - tail
                                          ELSE head - tail + size

ring_count == Dist(r_head, r_tail, RxSize)
TxCount    == Dist(t_head, t_tail, TxSize)

TxData    == TermBytes \cup {XON, XOFF}
IrqRaised == latch \/ (txie /\ tdr = None)

MainPc == {"poll", "pop_read", "pop_publish", "getch_check", "feed", "keyboard",
           "put_mask", "put_check", "put_commit", "wr_mask", "wr_check",
           "wr_commit", "res_mask", "res_check", "res_commit", "arm", "unmask"}
RetPc  == {"poll", "feed", "keyboard", "put_mask", "wr_mask", "res_mask"}
IsrPc  == {"off", "status", "rx", "hiwater", "tx", "done"}
Status == [rdrf : BOOLEAN, tdre : BOOLEAN]

(***************************************************************************)
(* serial_init has run and serial_puts is about to queue the boot marker.  *)
(***************************************************************************)
Init ==
  /\ rx_ring = [i \in 0 .. RxSize - 1 |-> None] /\ r_head = 0 /\ r_tail = 0
  /\ tx_ring = [i \in 0 .. TxSize - 1 |-> None] /\ t_head = 0 /\ t_tail = 0
  /\ xoff_sent = FALSE /\ tx_irq_active = FALSE /\ txie = FALSE
  /\ iflag = FALSE
  /\ mpc = "wr_mask" /\ ret = "poll" /\ after = "poll"
  /\ nh = 0 /\ len = MaxReply /\ ch = None
  /\ ipc = "off" /\ sr = [rdrf |-> FALSE, tdre |-> FALSE] /\ owned = FALSE
  /\ rdr = None /\ tdr = None /\ latch = FALSE /\ foreign = FALSE
  /\ hostFree = TRUE /\ credit = 0 /\ lastCtl = XON
  /\ dropped = FALSE

\* A step of main needs the CPU, so the handler is not running.
At(l) == ipc = "off" /\ mpc = l
Goto(l) == mpc' = l

\* From the moment an XOFF is on its way the host sends at most Slack bytes.
BindHost == /\ hostFree' = FALSE
            /\ credit' = IF hostFree THEN Slack ELSE credit

(***************************************************************************)
(* Deviations: slips the properties are there to catch, each the form of   *)
(* the action of that name a plausible edit of the code would give.  They  *)
(* are no part of the specification.                                       *)
(***************************************************************************)
RoomForOutput_NoReserve == Succ(t_head, TxSize) # t_tail

IrqOff_Missing == iflag' = iflag

\* the full ring is waited for without irq_on
PutCheck_StaysMasked ==
  /\ At("put_check")
  /\ nh' = Succ(t_head, TxSize)
  /\ Goto(IF Succ(Succ(t_head, TxSize), TxSize) # t_tail THEN "put_commit"
          ELSE "put_check")
  /\ UNCHANGED <<rxVars, txVars, ctlVars, iflag, ret, after, len, ch, isrVars,
                 aciaVars, hostVars, dropped>>

\* resume_rx gives up on a full ring, trusting the next serial_getch to retry
ResumeCheck_GivesUp ==
  /\ At("res_check")
  /\ nh' = Succ(t_head, TxSize)
  /\ IF xoff_sent /\ ring_count <= RingLow /\ Succ(t_head, TxSize) # t_tail
     THEN Goto("res_commit") /\ UNCHANGED ret
     ELSE Goto("unmask") /\ ret' = "feed"
  /\ UNCHANGED <<rxVars, txVars, ctlVars, iflag, after, len, ch, isrVars,
                 aciaVars, hostVars, dropped>>

\* resume_rx clears the throttle before it has a slot for XON
ResumeCheck_ClearsEarly ==
  /\ At("res_check")
  /\ nh' = Succ(t_head, TxSize)
  /\ xoff_sent' = (xoff_sent /\ ring_count > RingLow)
  /\ IF ~xoff_sent \/ ring_count > RingLow
     THEN Goto("unmask") /\ ret' = "feed"
     ELSE IF Succ(t_head, TxSize) # t_tail
          THEN Goto("res_commit") /\ UNCHANGED ret
          ELSE Goto("unmask") /\ ret' = "res_mask"
  /\ UNCHANGED <<rxVars, txVars, tx_irq_active, iflag, after, len, ch, isrVars,
                 aciaVars, hostVars, dropped>>

\* a status-only interrupt of the ACIA is not claimed
IsrStatus_DataOnly ==
  /\ ipc = "status"
  /\ sr' = [rdrf |-> rdr # None, tdre |-> tdr = None]
  /\ owned' = (owned \/ rdr # None)
  /\ latch' = FALSE
  /\ ipc' = IF rdr # None THEN "rx" ELSE "tx"
  /\ UNCHANGED <<rxVars, txVars, ctlVars, iflag, mainVars, rdr, tdr, txie,
                 foreign, hostVars, dropped>>

\* high water is tested one byte late
IsrHiwater_Late ==
  /\ ipc = "hiwater"
  /\ IF ring_count > RingHigh /\ ~xoff_sent /\ Pred(t_tail, TxSize) # t_head
     THEN /\ tx_ring' = [tx_ring EXCEPT ![Pred(t_tail, TxSize)] = XOFF]
          /\ t_tail' = Pred(t_tail, TxSize)
          /\ xoff_sent' = TRUE
          /\ tx_irq_active' = TRUE
          /\ txie' = IF tx_irq_active THEN txie ELSE TRUE
          /\ BindHost
     ELSE UNCHANGED <<tx_ring, t_tail, ctlVars, txie, hostFree, credit>>
  /\ ipc' = "tx"
  /\ UNCHANGED <<rxVars, t_head, iflag, mainVars, sr, owned, rdr, tdr, latch,
                 foreign, lastCtl, dropped>>

\* the shadow flag stays set when the transmit interrupt is turned off
IsrTxDisarm_StaleFlag ==
  /\ ipc = "tx" /\ tx_irq_active /\ sr.tdre /\ t_head = t_tail
  /\ txie' = FALSE
  /\ owned' = TRUE
  /\ ipc' = "status"
  /\ UNCHANGED <<rxVars, txVars, ctlVars, iflag, mainVars, sr, rdr, tdr, latch,
                 foreign, hostVars, dropped>>

\* STA (aciap),Y: the dummy read of the data register before the write
IsrTxSend_DummyRead ==
  /\ ipc = "tx" /\ tx_irq_active /\ sr.tdre /\ t_head # t_tail
  /\ rdr' = None
  /\ tdr' = tx_ring[t_tail]
  /\ t_tail' = Succ(t_tail, TxSize)
  /\ owned' = TRUE
  /\ ipc' = "status"
  /\ UNCHANGED <<rxVars, tx_ring, t_head, ctlVars, iflag, mainVars, sr, latch,
                 txie, foreign, hostVars, dropped>>

\* Ordinary output needs two free slots: the last usable one is XOFF's.
RoomForOutput == /\ Succ(t_head, TxSize) # t_tail
                 /\ Succ(Succ(t_head, TxSize), TxSize) # t_tail

--------------------------------------------------------------------------------
(***************************************************************************)
(* The main loop.                                                          *)
(***************************************************************************)
\* irq_off, the SEI before a critical section
IrqOff == iflag' = TRUE

\* serial_rx_ready at the top of the loop
PollRx ==
  /\ At("poll")
  /\ Goto(IF ring_count # 0 THEN "pop_read" ELSE "keyboard")
  /\ UNCHANGED <<rxVars, txVars, ctlVars, iflag, ret, after, nh, len, ch,
                 isrVars, aciaVars, hostVars, dropped>>

\* ring_pop up to the read of the slot
PopRead ==
  /\ At("pop_read")
  /\ IF r_head = r_tail THEN Goto("feed") /\ UNCHANGED ch
     ELSE Goto("pop_publish") /\ ch' = rx_ring[r_tail]
  /\ UNCHANGED <<rxVars, txVars, ctlVars, iflag, ret, after, nh, len,
                 isrVars, aciaVars, hostVars, dropped>>

\* ring_pop's last store gives the slot back to the handler
PopPublish ==
  /\ At("pop_publish")
  /\ r_tail' = Succ(r_tail, RxSize)
  /\ Goto("getch_check")
  /\ UNCHANGED <<rx_ring, r_head, txVars, ctlVars, iflag, ret, after, nh, len,
                 ch, isrVars, aciaVars, hostVars, dropped>>

\* serial_getch's unmasked test for a drained ring
GetchCheck ==
  /\ At("getch_check")
  /\ Goto(IF xoff_sent /\ ring_count <= RingLow THEN "res_mask" ELSE "feed")
  /\ UNCHANGED <<rxVars, txVars, ctlVars, iflag, ret, after, nh, len, ch,
                 isrVars, aciaVars, hostVars, dropped>>

\* vt100_feed renders the byte; a query makes it reply through serial_write
Feed ==
  /\ At("feed")
  /\ \/ Goto("keyboard") /\ UNCHANGED <<len, after>>
     \/ Goto("wr_mask") /\ len' \in 1 .. MaxReply /\ after' = "keyboard"
  /\ ch' = None
  /\ UNCHANGED <<rxVars, txVars, ctlVars, iflag, ret, nh, isrVars, aciaVars,
                 hostVars, dropped>>

\* the keyboard half of the loop: no key, a plain key, or an arrow's sequence
Keyboard ==
  /\ At("keyboard")
  /\ \/ Goto("poll") /\ UNCHANGED <<len, after>>
     \/ Goto("put_mask") /\ after' = "poll" /\ UNCHANGED len
     \/ Goto("wr_mask") /\ len' = MaxReply /\ after' = "poll"
  /\ UNCHANGED <<rxVars, txVars, ctlVars, iflag, ret, nh, ch, isrVars, aciaVars,
                 hostVars, dropped>>

\* serial_put, serial_write and resume_rx open their critical sections
Mask ==
  /\ \/ At("put_mask") /\ Goto("put_check")
     \/ At("wr_mask")  /\ Goto("wr_check")
     \/ At("res_mask") /\ Goto("res_check")
  /\ IrqOff
  /\ UNCHANGED <<rxVars, txVars, ctlVars, ret, after, nh, len, ch, isrVars,
                 aciaVars, hostVars, dropped>>

PutCheck ==
  /\ At("put_check")
  /\ nh' = Succ(t_head, TxSize)
  /\ IF RoomForOutput THEN Goto("put_commit") /\ UNCHANGED ret
     ELSE Goto("unmask") /\ ret' = "put_mask"
  /\ UNCHANGED <<rxVars, txVars, ctlVars, iflag, after, len, ch, isrVars,
                 aciaVars, hostVars, dropped>>

PutCommit ==
  /\ At("put_commit")
  /\ \E b \in TermBytes : tx_ring' = [tx_ring EXCEPT ![t_head] = b]
  /\ t_head' = nh
  /\ Goto("arm") /\ ret' = after
  /\ UNCHANGED <<rxVars, t_tail, ctlVars, iflag, after, nh, len, ch, isrVars,
                 aciaVars, hostVars, dropped>>

WriteCheck ==
  /\ At("wr_check")
  /\ nh' = Succ(t_head, TxSize)
  /\ IF RoomForOutput THEN Goto("wr_commit") /\ UNCHANGED ret
     ELSE Goto("arm") /\ ret' = "wr_mask"
  /\ UNCHANGED <<rxVars, txVars, ctlVars, iflag, after, len, ch, isrVars,
                 aciaVars, hostVars, dropped>>

\* serial_write arms the transmitter only behind the last byte
WriteCommit ==
  /\ At("wr_commit")
  /\ \E b \in TermBytes : tx_ring' = [tx_ring EXCEPT ![t_head] = b]
  /\ t_head' = nh
  /\ len' = len - 1
  /\ IF len = 1 THEN Goto("arm") /\ ret' = after
     ELSE Goto("unmask") /\ ret' = "wr_mask"
  /\ UNCHANGED <<rxVars, t_tail, ctlVars, iflag, after, nh, ch, isrVars,
                 aciaVars, hostVars, dropped>>

\* resume_rx: recheck under the mask; a full ring is waited for with
\* interrupts on and the throttle still set
ResumeCheck ==
  /\ At("res_check")
  /\ nh' = Succ(t_head, TxSize)
  /\ IF ~xoff_sent \/ ring_count > RingLow
     THEN Goto("unmask") /\ ret' = "feed"
     ELSE IF Succ(t_head, TxSize) # t_tail
          THEN Goto("res_commit") /\ UNCHANGED ret
          ELSE Goto("unmask") /\ ret' = "res_mask"
  /\ UNCHANGED <<rxVars, txVars, ctlVars, iflag, after, len, ch, isrVars,
                 aciaVars, hostVars, dropped>>

ResumeCommit ==
  /\ At("res_commit")
  /\ tx_ring' = [tx_ring EXCEPT ![t_head] = XON]
  /\ t_head' = nh
  /\ xoff_sent' = FALSE
  /\ Goto("arm") /\ ret' = "feed"
  /\ UNCHANGED <<rxVars, t_tail, tx_irq_active, iflag, after, nh, len, ch,
                 isrVars, aciaVars, hostVars, dropped>>

\* arm_tx, called with interrupts masked
ArmTx ==
  /\ At("arm")
  /\ tx_irq_active' = TRUE
  /\ txie' = IF tx_irq_active THEN txie ELSE TRUE
  /\ Goto("unmask")
  /\ UNCHANGED <<rxVars, txVars, xoff_sent, iflag, ret, after, nh, len, ch,
                 isrVars, rdr, tdr, latch, foreign, hostVars, dropped>>

\* irq_on, then back to the caller or to its retry
IrqOn ==
  /\ At("unmask")
  /\ iflag' = FALSE
  /\ Goto(ret)
  /\ UNCHANGED <<rxVars, txVars, ctlVars, ret, after, nh, len, ch, isrVars,
                 aciaVars, hostVars, dropped>>

Main == \/ PollRx \/ PopRead \/ PopPublish \/ GetchCheck \/ Feed \/ Keyboard
        \/ Mask \/ PutCheck \/ PutCommit \/ WriteCheck \/ WriteCommit
        \/ ResumeCheck \/ ResumeCommit \/ ArmTx \/ IrqOn

--------------------------------------------------------------------------------
(***************************************************************************)
(* The interrupt handler.                                                  *)
(***************************************************************************)
IsrEnter ==
  /\ ipc = "off" /\ ~iflag /\ (IrqRaised \/ foreign)
  /\ ipc' = "status"
  /\ iflag' = TRUE /\ owned' = FALSE
  /\ UNCHANGED <<rxVars, txVars, ctlVars, mainVars, sr, aciaVars, hostVars,
                 dropped>>

\* Reading the status clears the latch; what it sampled is used until the next
\* sample although the registers move on.
IsrStatus ==
  /\ ipc = "status"
  /\ sr' = [rdrf |-> rdr # None, tdre |-> tdr = None]
  /\ owned' = (owned \/ IrqRaised \/ rdr # None)
  /\ latch' = FALSE
  /\ ipc' = IF rdr # None THEN "rx" ELSE "tx"
  /\ UNCHANGED <<rxVars, txVars, ctlVars, iflag, mainVars, rdr, tdr, txie,
                 foreign, hostVars, dropped>>

\* the data register goes to the ring, or nowhere when the ring is full
IsrRx ==
  /\ ipc = "rx"
  /\ rdr' = None
  /\ IF Succ(r_head, RxSize) # r_tail
     THEN /\ rx_ring' = [rx_ring EXCEPT ![r_head] = rdr]
          /\ r_head' = Succ(r_head, RxSize)
          /\ UNCHANGED dropped
     ELSE dropped' = TRUE /\ UNCHANGED <<rx_ring, r_head>>
  /\ ipc' = "hiwater"
  /\ UNCHANGED <<r_tail, txVars, ctlVars, iflag, mainVars, sr, owned, tdr,
                 latch, txie, foreign, hostVars>>

\* XOFF goes in front of the queue, so it is the next byte transmitted
IsrHiwater ==
  /\ ipc = "hiwater"
  /\ IF ring_count >= RingHigh /\ ~xoff_sent /\ Pred(t_tail, TxSize) # t_head
     THEN /\ tx_ring' = [tx_ring EXCEPT ![Pred(t_tail, TxSize)] = XOFF]
          /\ t_tail' = Pred(t_tail, TxSize)
          /\ xoff_sent' = TRUE
          /\ tx_irq_active' = TRUE
          /\ txie' = IF tx_irq_active THEN txie ELSE TRUE
          /\ BindHost
     ELSE UNCHANGED <<tx_ring, t_tail, ctlVars, txie, hostFree, credit>>
  /\ ipc' = "tx"
  /\ UNCHANGED <<rxVars, t_head, iflag, mainVars, sr, owned, rdr, tdr, latch,
                 foreign, lastCtl, dropped>>

\* no transmit work in this sample: sample again after RX work, else leave
IsrTxIdle ==
  /\ ipc = "tx" /\ ~(tx_irq_active /\ sr.tdre)
  /\ ipc' = IF sr.rdrf THEN "status" ELSE "done"
  /\ UNCHANGED <<rxVars, txVars, ctlVars, iflag, mainVars, sr, owned, aciaVars,
                 hostVars, dropped>>

IsrTxDisarm ==
  /\ ipc = "tx" /\ tx_irq_active /\ sr.tdre /\ t_head = t_tail
  /\ tx_irq_active' = FALSE /\ txie' = FALSE
  /\ owned' = TRUE
  /\ ipc' = "status"
  /\ UNCHANGED <<rxVars, txVars, xoff_sent, iflag, mainVars, sr, rdr, tdr, latch,
                 foreign, hostVars, dropped>>

IsrTxSend ==
  /\ ipc = "tx" /\ tx_irq_active /\ sr.tdre /\ t_head # t_tail
  /\ tdr' = tx_ring[t_tail]
  /\ t_tail' = Succ(t_tail, TxSize)
  /\ owned' = TRUE
  /\ ipc' = "status"
  /\ UNCHANGED <<rxVars, tx_ring, t_head, ctlVars, iflag, mainVars, sr, rdr,
                 latch, txie, foreign, hostVars, dropped>>

\* An interrupt that is not the ACIA's goes to the predecessor's handler, which
\* serves its card; both ways end in an RTI.
IsrExit ==
  /\ ipc = "done"
  /\ foreign' = (foreign /\ owned)
  /\ ipc' = "off" /\ iflag' = FALSE
  /\ UNCHANGED <<rxVars, txVars, ctlVars, mainVars, sr, owned, rdr, tdr, latch,
                 txie, hostVars, dropped>>

Isr == \/ IsrEnter \/ IsrStatus \/ IsrRx \/ IsrHiwater
       \/ IsrTxIdle \/ IsrTxDisarm \/ IsrTxSend \/ IsrExit

--------------------------------------------------------------------------------
(***************************************************************************)
(* The ACIA, the host and other interrupt sources.  A byte reaches the     *)
(* data register only once the last one was read: at 9600 baud the handler *)
(* has about a thousand cycles for that.                                   *)
(***************************************************************************)
Arrive ==
  /\ rdr = None
  /\ hostFree \/ credit > 0
  /\ rdr' \in HostBytes
  /\ latch' = TRUE
  /\ credit' = IF hostFree THEN credit ELSE credit - 1
  /\ UNCHANGED <<rxVars, txVars, ctlVars, iflag, mainVars, isrVars, tdr, txie,
                 foreign, hostFree, lastCtl, dropped>>

\* The transmitted byte reaches the host, which obeys XOFF and XON.
Deliver ==
  /\ tdr # None
  /\ tdr' = None
  /\ \/ tdr = XOFF /\ BindHost /\ lastCtl' = XOFF
     \/ tdr = XON  /\ hostFree' = TRUE /\ credit' = 0 /\ lastCtl' = XON
     \/ tdr \notin {XON, XOFF} /\ UNCHANGED hostVars
  /\ UNCHANGED <<rxVars, txVars, ctlVars, iflag, mainVars, isrVars, rdr, latch,
                 txie, foreign, dropped>>

OtherInterrupt ==
  /\ OtherSources
  /\ \/ ~latch /\ latch' = TRUE /\ UNCHANGED foreign
     \/ ~foreign /\ foreign' = TRUE /\ UNCHANGED latch
  /\ UNCHANGED <<rxVars, txVars, ctlVars, iflag, mainVars, isrVars, rdr, tdr,
                 txie, hostVars, dropped>>

Next == Main \/ Isr \/ Arrive \/ Deliver \/ OtherInterrupt

Spec == Init /\ [][Next]_vars

(***************************************************************************)
(* The 6502 keeps executing and the ACIA shifts out what it was given.     *)
(* The interrupt line is a level: with a source pending, the handler is    *)
(* entered within two instructions of the CLI, so it cannot miss every     *)
(* unmasked window of a loop that masks again (irq_on is CLI; RTS).  The   *)
(* host and the other cards owe nothing.                                   *)
(***************************************************************************)
Fairness == /\ WF_vars(Main) /\ WF_vars(Isr) /\ SF_vars(IsrEnter)
            /\ WF_vars(Deliver)
FairSpec == Spec /\ Fairness

--------------------------------------------------------------------------------
RxType   == /\ rx_ring \in [0 .. RxSize - 1 -> HostBytes \cup {None}]
            /\ r_head \in 0 .. RxSize - 1 /\ r_tail \in 0 .. RxSize - 1
TxType   == /\ tx_ring \in [0 .. TxSize - 1 -> TxData \cup {None}]
            /\ t_head \in 0 .. TxSize - 1 /\ t_tail \in 0 .. TxSize - 1
CtlType  == {xoff_sent, tx_irq_active, iflag, dropped} \subseteq BOOLEAN
MainType == /\ mpc \in MainPc /\ ret \in RetPc /\ after \in {"poll", "keyboard"}
            /\ nh \in 0 .. TxSize - 1 /\ len \in 0 .. MaxReply
            /\ ch \in HostBytes \cup {None}
IsrType  == ipc \in IsrPc /\ sr \in Status /\ owned \in BOOLEAN
AciaType == /\ rdr \in HostBytes \cup {None} /\ tdr \in TxData \cup {None}
            /\ {latch, txie, foreign} \subseteq BOOLEAN
HostType == hostFree \in BOOLEAN /\ credit \in 0 .. Slack /\ lastCtl \in {XON, XOFF}

\* Every variable keeps the range the code's type and use give it.
TypeOK == /\ RxType /\ TxType /\ CtlType /\ MainType
          /\ IsrType /\ AciaType /\ HostType

\* With a host that stops within Slack bytes of a queued XOFF, no received byte
\* ever finds the ring full, whatever main is busy with.
NoLoss == ~dropped

\* The ring as the queue it implements
RingSeq(ring, tail, count, size) ==
  [k \in 1 .. count |-> ring[(tail + k - 1) % size]]
TxQueue  == RingSeq(tx_ring, t_tail, TxCount, TxSize)
InFlight == (IF tdr = None THEN <<>> ELSE <<tdr>>) \o TxQueue

\* The last control byte the host has received, once everything queued has been
\* sent, is the one xoff_sent stands for: flag and host never disagree for good,
\* so an XOFF never slips in front of the XON that should have preceded it.
ThrottleAgrees ==
  LET s    == <<lastCtl>> \o InFlight
      flag == IF xoff_sent THEN XOFF ELSE XON
  IN  \E i \in DOMAIN s : /\ s[i] = flag
                          /\ \A j \in DOMAIN s : j > i => s[j] \notin {XON, XOFF}

\* When the receive ring reaches high water there is a slot for XOFF, however
\* much output is queued.
XoffNeverStarved ==
  ipc = "hiwater" /\ ring_count >= RingHigh /\ ~xoff_sent => TxCount < TxSize - 1

\* Main is between the first byte it queued and the arming of the transmitter.
Queueing == \/ mpc = "arm"
            \/ mpc \in {"wr_mask", "wr_check", "wr_commit"}
            \/ mpc = "unmask" /\ ret = "wr_mask"

\* No byte is left behind with nothing to fetch it: one waiting in the data
\* register has its interrupt pending once the handler has left, and a queue
\* with bytes in it has the transmit interrupt on, except inside the serial
\* call that is about to turn it on.
NothingStranded ==
  /\ ipc = "off" /\ rdr # None => latch
  /\ TxCount # 0 /\ ~txie => Queueing

\* The predecessor's handler is entered only for an interrupt of another card,
\* never for one the ACIA raised.
ChainOnlyForeign == ipc = "done" /\ ~owned => foreign

\* The driver's rings implement the two bounded FIFOs.  The byte ring_pop has
\* read counts as queued until the store that frees its slot.
Rx == INSTANCE RxPath WITH
  Capacity <- RxSize - 1, Bytes <- HostBytes,
  queue <- RingSeq(rx_ring, r_tail, ring_count, RxSize),
  got <- IF mpc = "pop_publish" THEN None ELSE ch
Tx == INSTANCE TxPath WITH
  Capacity <- TxSize - 1, Bytes <- TermBytes,
  queue <- TxQueue, throttled <- xoff_sent

\* Received bytes reach the parser in order, each once; only a full ring loses
\* one, and then the newest.
ReceivesInOrder == Rx!RxpSpec

\* Output leaves in order, XOFF ahead of it, XON in its place, a byte is given
\* to the transmitter only when it is free, and the reserve holds.
TransmitsInOrder == Tx!TxpSpec

\* The driver between the parser and the wire is these two queues and nothing
\* else: both bounded FIFOs are implemented by one and the same behaviour.
ImplementsFifos == ReceivesInOrder /\ TransmitsInOrder

\* A throttled host is released: main drains the ring and its XON arrives.
ThrottleEnds == ~hostFree ~> hostFree

\* Main never hangs in a serial call: a full ring is waited for with the
\* interrupts on that empty it.
MainLoops == []<>(mpc = "poll")

================================================================================
