-------------------------- MODULE SerialDriver_proofs --------------------------
(***************************************************************************)
(* Theorems about SerialDriver for rings of any size, any water marks and  *)
(* any set of bytes.                                                       *)
(***************************************************************************)
EXTENDS SerialDriver, SequenceTheorems, TLAPS

(***************************************************************************)
(* Types.  serial_write decrements len only while bytes are left, which is *)
(* what keeps it in its range.  A step leaves most groups of variables     *)
(* alone: StutterKeeps disposes of those, and what is left to each step is *)
(* the groups it assigns.                                                  *)
(***************************************************************************)
Writing == \/ mpc \in {"wr_mask", "wr_check", "wr_commit"}
           \/ mpc \in {"arm", "unmask"} /\ ret = "wr_mask"

WriteInv == MainType /\ (Writing => len >= 1)

TInv == /\ RxType /\ TxType /\ CtlType /\ WriteInv
        /\ IsrType /\ AciaType /\ HostType

\* An index stepped forward or back stays an index.
LEMMA StepInRange ==
  ASSUME NEW size \in Nat, size >= 1, NEW i \in 0 .. size - 1
  PROVE  Succ(i, size) \in 0 .. size - 1 /\ Pred(i, size) \in 0 .. size - 1
  BY DEF Succ, Pred

\* A group of variables that does not change keeps its types.
LEMMA StutterKeeps ==
  /\ RxType /\ UNCHANGED rxVars => RxType'
  /\ TxType /\ UNCHANGED txVars => TxType'
  /\ CtlType /\ UNCHANGED <<ctlVars, iflag, dropped>> => CtlType'
  /\ WriteInv /\ UNCHANGED mainVars => WriteInv'
  /\ IsrType /\ UNCHANGED isrVars => IsrType'
  /\ AciaType /\ UNCHANGED aciaVars => AciaType'
  /\ HostType /\ UNCHANGED hostVars => HostType'
  BY DEF RxType, TxType, CtlType, WriteInv, MainType, Writing, IsrType, AciaType,
         HostType, rxVars, txVars, ctlVars, mainVars, isrVars, aciaVars, hostVars

\* Binding the host keeps its credit within Slack.
LEMMA BindKeeps ==
  HostType /\ BindHost /\ lastCtl' \in {XON, XOFF} => HostType'
  <1> SUFFICES ASSUME HostType, BindHost, lastCtl' \in {XON, XOFF} PROVE HostType'
    OBVIOUS
  <1>1. hostFree' \in BOOLEAN BY DEF BindHost
  <1>2. credit' \in 0 .. Slack BY SlackAssumption DEF HostType, BindHost
  <1> QED BY <1>1, <1>2 DEF HostType

\* The state after serial_init has the types of the variables.
LEMMA TypeInit == Init => TInv
  <1> SUFFICES ASSUME Init PROVE TInv OBVIOUS
  <1> USE SizeAssumption, SlackAssumption, ReplyAssumption DEF Init
  <1>1. RxType BY DEF RxType
  <1>2. TxType BY DEF TxType
  <1>3. CtlType BY DEF CtlType
  <1>4. WriteInv BY DEF WriteInv, MainType, Writing, MainPc, RetPc
  <1>5. IsrType BY DEF IsrType, IsrPc, Status
  <1>6. AciaType BY DEF AciaType
  <1>7. HostType BY DEF HostType
  <1> QED BY <1>1, <1>2, <1>3, <1>4, <1>5, <1>6, <1>7 DEF TInv

\* Every step of main keeps the types.
LEMMA TypeMain == TInv /\ Main => TInv'
  <1> SUFFICES ASSUME TInv, Main PROVE TInv' OBVIOUS
  <1> USE SizeAssumption, SlackAssumption, ReplyAssumption
  <1>1. CASE PollRx
    <2>1. WriteInv' BY <1>1 DEF PollRx, TInv, WriteInv, MainType, Writing, MainPc, RetPc, At, Goto, mainVars
    <2> QED BY <1>1, <2>1, StutterKeeps DEF PollRx, TInv, rxVars, txVars, ctlVars, isrVars, aciaVars, hostVars
  <1>2. CASE PopRead
    <2>1. WriteInv' BY <1>2 DEF PopRead, TInv, WriteInv, MainType, Writing, MainPc, RetPc, At, Goto, mainVars, RxType
    <2> QED BY <1>2, <2>1, StutterKeeps DEF PopRead, TInv, rxVars, txVars, ctlVars, isrVars, aciaVars, hostVars
  <1>3. CASE PopPublish
    <2>1. RxType' BY <1>3, StepInRange DEF PopPublish, TInv, RxType, rxVars
    <2>2. WriteInv' BY <1>3 DEF PopPublish, TInv, WriteInv, MainType, Writing, MainPc, RetPc, At, Goto, mainVars
    <2> QED BY <1>3, <2>1, <2>2, StutterKeeps DEF PopPublish, TInv, txVars, ctlVars, isrVars, aciaVars, hostVars
  <1>4. CASE GetchCheck
    <2>1. WriteInv' BY <1>4, StepInRange DEF GetchCheck, TInv, WriteInv, MainType, Writing, MainPc, RetPc, At, Goto, mainVars, TxType
    <2> QED BY <1>4, <2>1, StutterKeeps DEF GetchCheck, TInv, rxVars, txVars, ctlVars, isrVars, aciaVars, hostVars
  <1>5. CASE Feed
    <2>1. WriteInv' BY <1>5 DEF Feed, TInv, WriteInv, MainType, Writing, MainPc, RetPc, At, Goto, mainVars
    <2> QED BY <1>5, <2>1, StutterKeeps DEF Feed, TInv, rxVars, txVars, ctlVars, isrVars, aciaVars, hostVars
  <1>6. CASE Keyboard
    <2>1. WriteInv' BY <1>6 DEF Keyboard, TInv, WriteInv, MainType, Writing, MainPc, RetPc, At, Goto, mainVars
    <2> QED BY <1>6, <2>1, StutterKeeps DEF Keyboard, TInv, rxVars, txVars, ctlVars, isrVars, aciaVars, hostVars
  <1>7. CASE Mask
    <2>1. CtlType' BY <1>7 DEF Mask, IrqOff, TInv, CtlType, ctlVars
    <2>2. WriteInv' BY <1>7 DEF Mask, IrqOff, TInv, WriteInv, MainType, Writing, MainPc, RetPc, At, Goto, mainVars
    <2> QED BY <1>7, <2>1, <2>2, StutterKeeps DEF Mask, IrqOff, TInv, rxVars, txVars, isrVars, aciaVars, hostVars
  <1>8. CASE PutCheck
    <2>0. Succ(t_head, TxSize) \in 0 .. TxSize - 1
      BY DEF TInv, TxType, Succ
    <2>1. WriteInv' BY <1>8, <2>0 DEF PutCheck, TInv, WriteInv, MainType, Writing, MainPc, RetPc, At, Goto, mainVars
    <2> QED BY <1>8, <2>1, StutterKeeps DEF PutCheck, TInv, rxVars, txVars, ctlVars, isrVars, aciaVars, hostVars
  <1>9. CASE PutCommit
    <2>1. TxType' BY <1>9, StepInRange DEF PutCommit, TInv, TxType, TxData, txVars, WriteInv, MainType
    <2>2. WriteInv' BY <1>9 DEF PutCommit, TInv, WriteInv, MainType, Writing, MainPc, RetPc, At, Goto, mainVars
    <2> QED BY <1>9, <2>1, <2>2, StutterKeeps DEF PutCommit, TInv, rxVars, ctlVars, isrVars, aciaVars, hostVars
  <1>10. CASE WriteCheck
    <2>0. Succ(t_head, TxSize) \in 0 .. TxSize - 1
      BY DEF TInv, TxType, Succ
    <2>1. WriteInv' BY <1>10, <2>0 DEF WriteCheck, TInv, WriteInv, MainType, Writing, MainPc, RetPc, At, Goto, mainVars
    <2> QED BY <1>10, <2>1, StutterKeeps DEF WriteCheck, TInv, rxVars, txVars, ctlVars, isrVars, aciaVars, hostVars
  <1>11. CASE WriteCommit
    <2>1. TxType' BY <1>11, StepInRange DEF WriteCommit, TInv, TxType, TxData, txVars, WriteInv, MainType
    <2>2. WriteInv' BY <1>11 DEF WriteCommit, TInv, WriteInv, MainType, Writing, MainPc, RetPc, At, Goto, mainVars
    <2> QED BY <1>11, <2>1, <2>2, StutterKeeps DEF WriteCommit, TInv, rxVars, ctlVars, isrVars, aciaVars, hostVars
  <1>12. CASE ResumeCheck
    <2>0. Succ(t_head, TxSize) \in 0 .. TxSize - 1
      BY DEF TInv, TxType, Succ
    <2>1. WriteInv' BY <1>12, <2>0 DEF ResumeCheck, TInv, WriteInv, MainType, Writing, MainPc, RetPc, At, Goto, mainVars
    <2> QED BY <1>12, <2>1, StutterKeeps DEF ResumeCheck, TInv, rxVars, txVars, ctlVars, isrVars, aciaVars, hostVars
  <1>13. CASE ResumeCommit
    <2>1. TxType' BY <1>13, StepInRange DEF ResumeCommit, TInv, TxType, TxData, txVars, WriteInv, MainType
    <2>2. CtlType' BY <1>13 DEF ResumeCommit, TInv, CtlType, ctlVars
    <2>3. WriteInv' BY <1>13 DEF ResumeCommit, TInv, WriteInv, MainType, Writing, MainPc, RetPc, At, Goto, mainVars
    <2> QED BY <1>13, <2>1, <2>2, <2>3, StutterKeeps DEF ResumeCommit, TInv, rxVars, isrVars, aciaVars, hostVars
  <1>14. CASE ArmTx
    <2>1. CtlType' BY <1>14 DEF ArmTx, TInv, CtlType, ctlVars
    <2>2. WriteInv' BY <1>14 DEF ArmTx, TInv, WriteInv, MainType, Writing, MainPc, RetPc, At, Goto, mainVars
    <2>3. AciaType' BY <1>14 DEF ArmTx, TInv, AciaType, TxData, TxType, aciaVars
    <2> QED BY <1>14, <2>1, <2>2, <2>3, StutterKeeps DEF ArmTx, TInv, rxVars, txVars, isrVars, hostVars
  <1>15. CASE IrqOn
    <2>1. CtlType' BY <1>15 DEF IrqOn, TInv, CtlType, ctlVars
    <2>2. WriteInv' BY <1>15 DEF IrqOn, TInv, WriteInv, MainType, Writing, MainPc, RetPc, At, Goto, mainVars
    <2> QED BY <1>15, <2>1, <2>2, StutterKeeps DEF IrqOn, TInv, rxVars, txVars, isrVars, aciaVars, hostVars
  <1> QED BY <1>1, <1>2, <1>3, <1>4, <1>5, <1>6, <1>7, <1>8, <1>9, <1>10, <1>11, <1>12, <1>13, <1>14, <1>15 DEF Main

\* Every step of the handler keeps the types.
LEMMA TypeIsr == TInv /\ Isr => TInv'
  <1> SUFFICES ASSUME TInv, Isr PROVE TInv' OBVIOUS
  <1> USE SizeAssumption, SlackAssumption, ReplyAssumption
  <1>1. CASE IsrEnter
    <2>1. CtlType' BY <1>1 DEF IsrEnter, TInv, CtlType, ctlVars
    <2>2. IsrType' BY <1>1 DEF IsrEnter, TInv, IsrType, IsrPc, Status, IrqRaised, isrVars
    <2> QED BY <1>1, <2>1, <2>2, StutterKeeps DEF IsrEnter, TInv, rxVars, txVars, mainVars, aciaVars, hostVars
  <1>2. CASE IsrStatus
    <2>1. IsrType' BY <1>2 DEF IsrStatus, TInv, IsrType, IsrPc, Status, IrqRaised, isrVars
    <2>2. AciaType' BY <1>2 DEF IsrStatus, TInv, AciaType, TxData, TxType, aciaVars
    <2> QED BY <1>2, <2>1, <2>2, StutterKeeps DEF IsrStatus, TInv, rxVars, txVars, ctlVars, mainVars, hostVars
  <1>3. CASE IsrRx
    <2>0. /\ Succ(r_head, RxSize) \in 0 .. RxSize - 1
          /\ rdr \in HostBytes \cup {None}
      BY DEF TInv, RxType, AciaType, Succ
    <2>1. RxType' BY <1>3, <2>0 DEF IsrRx, TInv, RxType
    <2>2. CtlType' BY <1>3 DEF IsrRx, TInv, CtlType, ctlVars
    <2>3. IsrType' BY <1>3 DEF IsrRx, TInv, IsrType, IsrPc, Status, IrqRaised, isrVars
    <2>4. AciaType' BY <1>3 DEF IsrRx, TInv, AciaType, TxData, TxType, aciaVars
    <2> QED BY <1>3, <2>1, <2>2, <2>3, <2>4, StutterKeeps DEF IsrRx, TInv, txVars, mainVars, hostVars
  <1>4. CASE IsrHiwater
    <2>0. Pred(t_tail, TxSize) \in 0 .. TxSize - 1
      BY DEF TInv, TxType, Pred
    <2>1. TxType' BY <1>4, <2>0 DEF IsrHiwater, TInv, TxType, TxData
    <2>2. CtlType' BY <1>4 DEF IsrHiwater, BindHost, TInv, CtlType, ctlVars
    <2>3. IsrType' BY <1>4 DEF IsrHiwater, BindHost, TInv, IsrType, IsrPc, Status, IrqRaised, isrVars
    <2>4. AciaType' BY <1>4 DEF IsrHiwater, BindHost, TInv, AciaType, TxData, TxType, aciaVars
    <2>5. HostType'
      <3>1. lastCtl' = lastCtl BY <1>4 DEF IsrHiwater
      <3>2. BindHost \/ (hostFree' = hostFree /\ credit' = credit)
        BY <1>4 DEF IsrHiwater
      <3> QED BY <3>1, <3>2, BindKeeps DEF TInv, HostType
    <2> QED BY <1>4, <2>1, <2>2, <2>3, <2>4, <2>5, StutterKeeps DEF IsrHiwater, BindHost, TInv, rxVars, mainVars
  <1>5. CASE IsrTxIdle
    <2>1. IsrType' BY <1>5 DEF IsrTxIdle, TInv, IsrType, IsrPc, Status, IrqRaised, isrVars
    <2> QED BY <1>5, <2>1, StutterKeeps DEF IsrTxIdle, TInv, rxVars, txVars, ctlVars, mainVars, aciaVars, hostVars
  <1>6. CASE IsrTxDisarm
    <2>1. CtlType' BY <1>6 DEF IsrTxDisarm, TInv, CtlType, ctlVars
    <2>2. IsrType' BY <1>6 DEF IsrTxDisarm, TInv, IsrType, IsrPc, Status, IrqRaised, isrVars
    <2>3. AciaType' BY <1>6 DEF IsrTxDisarm, TInv, AciaType, TxData, TxType, aciaVars
    <2> QED BY <1>6, <2>1, <2>2, <2>3, StutterKeeps DEF IsrTxDisarm, TInv, rxVars, txVars, mainVars, hostVars
  <1>7. CASE IsrTxSend
    <2>1. TxType' BY <1>7, StepInRange DEF IsrTxSend, TInv, TxType, TxData, txVars
    <2>2. IsrType' BY <1>7 DEF IsrTxSend, TInv, IsrType, IsrPc, Status, IrqRaised, isrVars
    <2>3. AciaType' BY <1>7 DEF IsrTxSend, TInv, AciaType, TxData, TxType, aciaVars
    <2> QED BY <1>7, <2>1, <2>2, <2>3, StutterKeeps DEF IsrTxSend, TInv, rxVars, ctlVars, mainVars, hostVars
  <1>8. CASE IsrExit
    <2>1. CtlType' BY <1>8 DEF IsrExit, TInv, CtlType, ctlVars
    <2>2. IsrType' BY <1>8 DEF IsrExit, TInv, IsrType, IsrPc, Status, IrqRaised, isrVars
    <2>3. AciaType' BY <1>8 DEF IsrExit, TInv, AciaType, TxData, TxType, aciaVars
    <2> QED BY <1>8, <2>1, <2>2, <2>3, StutterKeeps DEF IsrExit, TInv, rxVars, txVars, mainVars, hostVars
  <1> QED BY <1>1, <1>2, <1>3, <1>4, <1>5, <1>6, <1>7, <1>8 DEF Isr

Environment == Arrive \/ Deliver \/ OtherInterrupt

\* Every step of the ACIA, the host and the other sources keeps the types.
LEMMA TypeEnvironment == TInv /\ Environment => TInv'
  <1> SUFFICES ASSUME TInv, Environment PROVE TInv' OBVIOUS
  <1> USE SizeAssumption, SlackAssumption, ReplyAssumption
  <1>1. CASE Arrive
    <2>1. AciaType' BY <1>1 DEF Arrive, TInv, AciaType, TxData, TxType, aciaVars
    <2>2. HostType' BY <1>1 DEF Arrive, TInv, HostType, hostVars
    <2> QED BY <1>1, <2>1, <2>2, StutterKeeps DEF Arrive, TInv, rxVars, txVars, ctlVars, mainVars, isrVars
  <1>2. CASE Deliver
    <2>1. AciaType' BY <1>2 DEF Deliver, BindHost, TInv, AciaType, TxData, TxType, aciaVars
    <2>2. HostType'
      <3>1. CASE tdr = XOFF
        BY <1>2, <3>1, ByteAssumption, BindKeeps DEF Deliver, TInv
      <3>2. CASE tdr = XON
        <4>1. hostFree' = TRUE /\ credit' = 0 /\ lastCtl' = XON
          BY <1>2, <3>2, ByteAssumption DEF Deliver
        <4> QED BY <4>1 DEF HostType
      <3>3. CASE tdr \notin {XON, XOFF}
        BY <1>2, <3>3, StutterKeeps DEF Deliver, TInv
      <3> QED BY <3>1, <3>2, <3>3
    <2> QED BY <1>2, <2>1, <2>2, StutterKeeps DEF Deliver, BindHost, TInv, rxVars, txVars, ctlVars, mainVars, isrVars
  <1>3. CASE OtherInterrupt
    <2>1. AciaType' BY <1>3 DEF OtherInterrupt, TInv, AciaType, TxData, TxType, aciaVars
    <2> QED BY <1>3, <2>1, StutterKeeps DEF OtherInterrupt, TInv, rxVars, txVars, ctlVars, mainVars, isrVars, hostVars
  <1> QED BY <1>1, <1>2, <1>3 DEF Environment

\* Every step, and stuttering, keeps the types.
LEMMA TypeStep == TInv /\ [Next]_vars => TInv'
  <1>1. TInv /\ UNCHANGED vars => TInv' BY StutterKeeps DEF TInv, vars
  <1> QED BY <1>1, TypeMain, TypeIsr, TypeEnvironment DEF Next, Environment

LEMMA TypeInductive == Spec => []TInv
  BY TypeInit, TypeStep, PTL DEF Spec

\* Every variable of the driver keeps its range in every behaviour.
THEOREM TypeCorrect == Spec => []TypeOK
  <1>1. TInv => TypeOK BY DEF TInv, TypeOK, WriteInv
  <1> QED BY TypeInductive, <1>1, PTL

--------------------------------------------------------------------------------
(***************************************************************************)
(* Who holds the CPU, and what main may rely on inside its critical        *)
(* sections: the handler is not running, so the slot found free before the *)
(* store is still free at the store.                                       *)
(***************************************************************************)
Masked == {"put_check", "put_commit", "wr_check", "wr_commit", "res_check",
           "res_commit", "arm", "unmask"}

MaskInv == /\ mpc \in Masked => iflag /\ ipc = "off"
           /\ ipc # "off" => iflag

CommitInv ==
  /\ mpc \in {"put_commit", "wr_commit"} =>
       nh = Succ(t_head, TxSize) /\ RoomForOutput
  /\ mpc = "res_commit" =>
       /\ nh = Succ(t_head, TxSize) /\ nh # t_tail
       /\ xoff_sent /\ ring_count <= RingLow
  /\ mpc = "pop_publish" => r_head # r_tail

(***************************************************************************)
(* Signals: what is pending has something to raise it.                     *)
(***************************************************************************)
SignalInv == /\ ipc = "rx" => rdr # None
             /\ rdr # None => latch \/ ipc = "rx"
             /\ txie = tx_irq_active
             /\ t_head # t_tail /\ ~txie => Queueing

OwnerInv == /\ ipc = "status" /\ ~owned => IrqRaised \/ foreign
            /\ ipc \in {"rx", "hiwater", "tx", "done"} /\ ~owned => foreign
            /\ ipc \in {"rx", "hiwater", "tx"} /\ sr.rdrf => owned

(***************************************************************************)
(* Flow control.  A control byte on its way to the host marks the phase:   *)
(* with the host free there is none; while xoff_sent is set there is no    *)
(* XON; and nothing but data follows an XON.  The counts bound what the    *)
(* receive ring, the data register and the host's credit add up to in each *)
(* phase.                                                                  *)
(***************************************************************************)
Control == {XON, XOFF}
Off(i)  == Dist(i, t_tail, TxSize)
Live    == {i \in 0 .. TxSize - 1 : Off(i) < TxCount}
Pending == IF rdr = None THEN 0 ELSE 1

PhaseInv ==
  /\ hostFree => ~xoff_sent /\ tdr \notin Control
  /\ hostFree \/ tdr = XON => /\ \A i \in Live : tx_ring[i] \notin Control
                             /\ TxCount <= TxSize - 2
  /\ xoff_sent => tdr # XON /\ \A i \in Live : tx_ring[i] # XON
  /\ \A i, j \in Live : tx_ring[i] = XON /\ Off(j) > Off(i)
                         => tx_ring[j] \notin Control

CountInv ==
  /\ hostFree => ring_count < RingHigh \/ (ipc = "hiwater" /\ ring_count = RingHigh)
  /\ xoff_sent => ring_count + Pending + credit <= RingHigh + Slack + 1
  /\ ~hostFree => Pending + credit <= Slack + 1
  /\ ~hostFree /\ ~xoff_sent => ring_count + Pending + credit <= RingLow + Slack + 1

\* The receive ring can take what a host still sends after XOFF, and from low
\* water that does not fill it to high water again.
HostStopsInTime == /\ RingHigh + Slack + 1 <= RxSize - 1
                   /\ RingLow + Slack + 1 < RingHigh

FlowInv == /\ MaskInv /\ CommitInv /\ SignalInv
           /\ PhaseInv /\ CountInv /\ NoLoss

--------------------------------------------------------------------------------
\* The arithmetic of a head and a tail in a ring of the given size.
LEMMA RingFacts ==
  ASSUME NEW size \in Nat, size >= 2,
         NEW h \in 0 .. size - 1, NEW t \in 0 .. size - 1
  PROVE  /\ Dist(h, t, size) \in 0 .. size - 1
         /\ Dist(h, t, size) = 0 <=> h = t
         /\ Succ(h, size) \in 0 .. size - 1 /\ Pred(t, size) \in 0 .. size - 1
         /\ Succ(h, size) # t <=> Dist(h, t, size) <= size - 2
         /\ Pred(t, size) # h <=> Dist(h, t, size) <= size - 2
         /\ Succ(h, size) # t => Dist(Succ(h, size), t, size) = Dist(h, t, size) + 1
         /\ Pred(t, size) # h => Dist(h, Pred(t, size), size) = Dist(h, t, size) + 1
         /\ h # t => Dist(h, Succ(t, size), size) = Dist(h, t, size) - 1
  BY DEF Dist, Succ, Pred

\* The handler runs only outside main's critical sections, and masked.
LEMMA MaskInductive == TInv /\ MaskInv /\ [Next]_vars => MaskInv'
  <1> SUFFICES ASSUME TInv, MaskInv, [Next]_vars PROVE MaskInv' OBVIOUS
  <1> USE DEF MaskInv, Masked
  <1>1. CASE Main
    <2>1. ipc = "off" /\ ipc' = "off"
      BY <1>1 DEF Main, At, isrVars, PollRx, PopRead, PopPublish, GetchCheck, Feed,
         Keyboard, Mask, PutCheck, PutCommit, WriteCheck, WriteCommit, ResumeCheck,
         ResumeCommit, ArmTx, IrqOn
    <2>2. CASE PollRx \/ PopRead \/ PopPublish \/ GetchCheck \/ Feed \/ Keyboard
      BY <2>1, <2>2 DEF At, Goto, PollRx, PopRead, PopPublish, GetchCheck, Feed,
         Keyboard
    <2>3. CASE Mask BY <2>1, <2>3 DEF Mask, IrqOff
    <2>4. CASE PutCheck \/ PutCommit \/ WriteCheck
      BY <2>1, <2>4 DEF At, Goto, PutCheck, PutCommit, WriteCheck
    <2>5. CASE WriteCommit \/ ResumeCheck \/ ResumeCommit \/ ArmTx
      BY <2>1, <2>5 DEF At, Goto, WriteCommit, ResumeCheck, ResumeCommit, ArmTx
    <2>6. CASE IrqOn
      BY <2>1, <2>6 DEF At, Goto, IrqOn, TInv, WriteInv, MainType, RetPc
    <2> QED BY <1>1, <2>2, <2>3, <2>4, <2>5, <2>6 DEF Main
  <1>2. CASE Isr
    BY <1>2 DEF Isr, mainVars, IsrEnter, IsrStatus, IsrRx, IsrHiwater, IsrTxIdle,
       IsrTxDisarm, IsrTxSend, IsrExit
  <1>3. CASE Arrive \/ Deliver \/ OtherInterrupt \/ UNCHANGED vars
    BY <1>3 DEF Arrive, Deliver, OtherInterrupt, vars, mainVars, isrVars
  <1> QED BY <1>1, <1>2, <1>3 DEF Next

\* What main found free under the mask is still free when it stores.
LEMMA CommitInductive == TInv /\ MaskInv /\ CommitInv /\ [Next]_vars => CommitInv'
  <1> SUFFICES ASSUME TInv, MaskInv, CommitInv, [Next]_vars PROVE CommitInv'
    OBVIOUS
  <1> USE DEF CommitInv
  <1>1. CASE PollRx \/ PopRead \/ PopPublish \/ GetchCheck \/ Feed \/ Keyboard \/ Mask
    <2>1. mpc' \notin {"put_commit", "wr_commit", "res_commit"}
      BY <1>1 DEF At, Goto, PollRx, PopRead, PopPublish, GetchCheck, Feed, Keyboard,
         Mask
    <2>2. mpc' = "pop_publish" => r_head' # r_tail'
      BY <1>1 DEF At, Goto, PollRx, PopRead, PopPublish, GetchCheck, Feed, Keyboard,
         Mask, rxVars
    <2> QED BY <2>1, <2>2
  <1>2. CASE PutCheck \/ WriteCheck
    BY <1>2 DEF At, Goto, PutCheck, WriteCheck, RoomForOutput, txVars
  <1>3. CASE ResumeCheck
    <2>1. UNCHANGED <<rxVars, txVars, xoff_sent>>
      BY <1>3 DEF ResumeCheck, ctlVars
    <2>2. mpc' \in {"unmask", "res_commit"} /\ nh' = Succ(t_head, TxSize)
      BY <1>3 DEF ResumeCheck, Goto
    <2>3. mpc' = "res_commit" =>
            Succ(t_head, TxSize) # t_tail /\ xoff_sent /\ ~(ring_count > RingLow)
      BY <1>3 DEF ResumeCheck, Goto
    <2>4. ring_count \in Nat /\ RingLow \in Nat
      BY RingFacts, SizeAssumption, MarkAssumption DEF TInv, RxType, ring_count
    <2>5. ring_count' = ring_count BY <2>1 DEF rxVars, ring_count
    <2> QED BY <2>1, <2>2, <2>3, <2>4, <2>5 DEF txVars
  <1>4. CASE PutCommit \/ WriteCommit \/ ResumeCommit \/ ArmTx
    BY <1>4 DEF At, Goto, PutCommit, WriteCommit, ResumeCommit, ArmTx
  <1>5. CASE IrqOn
    BY <1>5 DEF At, Goto, IrqOn, TInv, WriteInv, MainType, RetPc
  <1>6. CASE Isr
    <2>1. mpc \notin Masked \/ IsrEnter
      BY <1>6 DEF MaskInv, Masked, Isr, IsrEnter, IsrStatus, IsrRx, IsrHiwater,
         IsrTxIdle, IsrTxDisarm, IsrTxSend, IsrExit
    <2>2. CASE IsrEnter
      BY <2>2 DEF IsrEnter, mainVars, rxVars, txVars, ctlVars, RoomForOutput,
         ring_count
    <2>3. CASE mpc \notin Masked
      <3>1. mpc' = mpc
        BY <1>6 DEF mainVars, Isr, IsrEnter, IsrStatus, IsrRx, IsrHiwater,
           IsrTxIdle, IsrTxDisarm, IsrTxSend, IsrExit
      <3>2. r_head # r_tail => r_head' # r_tail'
        BY <1>6 DEF rxVars, Isr, IsrEnter, IsrStatus, IsrRx, IsrHiwater,
           IsrTxIdle, IsrTxDisarm, IsrTxSend, IsrExit
      <3> QED BY <2>3, <3>1, <3>2 DEF Masked
    <2> QED BY <2>1, <2>2, <2>3
  <1>7. CASE Arrive \/ Deliver \/ OtherInterrupt \/ UNCHANGED vars
    <2>1. UNCHANGED <<mpc, nh, rxVars, txVars, xoff_sent>>
      BY <1>7 DEF Arrive, Deliver, OtherInterrupt, vars, mainVars, ctlVars
    <2> QED BY <2>1 DEF rxVars, txVars, RoomForOutput, ring_count
  <1> QED BY <1>1, <1>2, <1>3, <1>4, <1>5, <1>6, <1>7 DEF Next, Main

\* What is pending stays signalled.
LEMMA SignalInductive == TInv /\ SignalInv /\ [Next]_vars => SignalInv'
  <1> SUFFICES ASSUME TInv, SignalInv, [Next]_vars PROVE SignalInv' OBVIOUS
  <1> USE DEF SignalInv, Queueing
  <1>1. CASE PollRx \/ PopRead \/ PopPublish \/ GetchCheck \/ Feed \/ Keyboard
    BY <1>1 DEF At, Goto, PollRx, PopRead, PopPublish, GetchCheck, Feed, Keyboard,
       txVars, ctlVars, isrVars, aciaVars
  <1>2. CASE Mask \/ PutCheck \/ WriteCheck \/ ResumeCheck
    BY <1>2 DEF At, Goto, Mask, PutCheck, WriteCheck, ResumeCheck, txVars, ctlVars,
       isrVars, aciaVars
  <1>3. CASE PutCommit \/ WriteCommit \/ ResumeCommit
    BY <1>3 DEF At, Goto, PutCommit, WriteCommit, ResumeCommit, ctlVars, isrVars,
       aciaVars
  <1>4. CASE ArmTx
    BY <1>4 DEF At, Goto, ArmTx, txVars, isrVars, TInv, CtlType
  <1>5. CASE IrqOn
    BY <1>5 DEF At, Goto, IrqOn, txVars, ctlVars, isrVars, aciaVars
  <1>6. CASE Isr
    <2>1. CASE IsrEnter \/ IsrStatus \/ IsrRx
      BY <2>1 DEF IsrEnter, IsrStatus, IsrRx, txVars, ctlVars, mainVars, aciaVars
    <2>2. CASE IsrHiwater
      BY <2>2 DEF IsrHiwater, ctlVars, mainVars, TInv, CtlType
    <2>3. CASE IsrTxIdle \/ IsrTxDisarm
      BY <2>3 DEF IsrTxIdle, IsrTxDisarm, txVars, ctlVars, mainVars, aciaVars
    <2>4. CASE IsrTxSend \/ IsrExit
      BY <2>4 DEF IsrTxSend, IsrExit, txVars, ctlVars, mainVars, TInv, AciaType
    <2> QED BY <1>6, <2>1, <2>2, <2>3, <2>4 DEF Isr
  <1>7. CASE Arrive
    BY <1>7 DEF Arrive, txVars, ctlVars, mainVars, isrVars
  <1>8. CASE Deliver \/ OtherInterrupt \/ UNCHANGED vars
    BY <1>8 DEF Deliver, OtherInterrupt, vars, txVars, ctlVars, mainVars, isrVars,
       aciaVars
  <1> QED BY <1>1, <1>2, <1>3, <1>4, <1>5, <1>6, <1>7, <1>8 DEF Next, Main

\* An interrupt the handler does not claim is another card's.
LEMMA OwnerInductive == TInv /\ OwnerInv /\ [Next]_vars => OwnerInv'
  <1> SUFFICES ASSUME TInv, OwnerInv, [Next]_vars PROVE OwnerInv' OBVIOUS
  <1> USE DEF OwnerInv, IrqRaised
  <1>1. CASE Main
    <2>1. ipc = "off" /\ ipc' = "off"
      BY <1>1 DEF Main, At, isrVars, PollRx, PopRead, PopPublish, GetchCheck, Feed,
         Keyboard, Mask, PutCheck, PutCommit, WriteCheck, WriteCommit, ResumeCheck,
         ResumeCommit, ArmTx, IrqOn
    <2> QED BY <2>1
  <1>2. CASE IsrEnter
    BY <1>2 DEF IsrEnter, aciaVars
  <1>3. CASE IsrStatus
    <2>1. /\ ipc' \in {"rx", "tx"} /\ foreign' = foreign
          /\ sr'.rdrf = (rdr # None) /\ owned' = (owned \/ IrqRaised \/ rdr # None)
      BY <1>3 DEF IsrStatus
    <2>2. ipc = "status" BY <1>3 DEF IsrStatus
    <2> QED BY <2>1, <2>2
  <1>4. CASE IsrRx \/ IsrHiwater \/ IsrTxIdle
    BY <1>4 DEF IsrRx, IsrHiwater, IsrTxIdle, aciaVars
  <1>5. CASE IsrTxDisarm \/ IsrTxSend \/ IsrExit
    BY <1>5 DEF IsrTxDisarm, IsrTxSend, IsrExit
  <1>6. CASE Arrive \/ Deliver \/ OtherInterrupt \/ UNCHANGED vars
    BY <1>6 DEF Arrive, Deliver, OtherInterrupt, vars, isrVars, aciaVars
  <1> QED BY <1>1, <1>2, <1>3, <1>4, <1>5, <1>6 DEF Next, Isr

--------------------------------------------------------------------------------
(***************************************************************************)
(* What the three kinds of access to the transmit ring do to the set of    *)
(* slots in use and to their order.                                        *)
(***************************************************************************)
LEMMA AppendLive ==
  ASSUME TxType, Succ(t_head, TxSize) # t_tail,
         t_head' = Succ(t_head, TxSize), t_tail' = t_tail
  PROVE  /\ TxCount' = TxCount + 1
         /\ \A i \in Live' : /\ i \in Live \/ i = t_head
                            /\ Off(i)' = Off(i)
         /\ \A i \in Live : i # t_head /\ Off(i) < Off(t_head)
  BY SizeAssumption DEF TxType, Live, Off, TxCount, Dist, Succ

LEMMA PushLive ==
  ASSUME TxType, Pred(t_tail, TxSize) # t_head,
         t_head' = t_head, t_tail' = Pred(t_tail, TxSize)
  PROVE  \A i \in Live' : i \in Live \/ i = Pred(t_tail, TxSize)
  BY SizeAssumption DEF TxType, Live, Off, TxCount, Dist, Pred

LEMMA RemoveLive ==
  ASSUME TxType, t_head # t_tail,
         t_head' = t_head, t_tail' = Succ(t_tail, TxSize)
  PROVE  /\ TxCount' = TxCount - 1
         /\ t_tail \in Live /\ Off(t_tail) = 0
         /\ \A i \in Live' : /\ i \in Live /\ Off(i) > 0
                            /\ Off(i)' = Off(i) - 1
  BY SizeAssumption DEF TxType, Live, Off, TxCount, Dist, Succ

\* The transmit ring's occupancy, and the room the guards see in it.
LEMMA TxRoom ==
  ASSUME TxType
  PROVE  /\ TxCount \in 0 .. TxSize - 1
         /\ Succ(t_head, TxSize) # t_tail <=> TxCount <= TxSize - 2
         /\ Pred(t_tail, TxSize) # t_head <=> TxCount <= TxSize - 2
         /\ RoomForOutput => TxCount <= TxSize - 3
  BY SizeAssumption DEF TxType, TxCount, Dist, Succ, Pred, RoomForOutput

\* Phases depend on nothing but these.
LEMMA PhaseFrame ==
  PhaseInv /\ UNCHANGED <<txVars, xoff_sent, tdr, hostFree>> => PhaseInv'
  BY DEF PhaseInv, Live, Off, TxCount, txVars

\* Ordinary output is data and leaves the reserve.
LEMMA PhaseOutput ==
  ASSUME TInv, CommitInv, PhaseInv, PutCommit \/ WriteCommit
  PROVE  PhaseInv'
  <1> USE DEF TInv
  <1>1. PICK b \in TermBytes : tx_ring' = [tx_ring EXCEPT ![t_head] = b]
    BY DEF PutCommit, WriteCommit
  <1>2. /\ t_head' = nh /\ t_tail' = t_tail /\ xoff_sent' = xoff_sent
        /\ tdr' = tdr /\ hostFree' = hostFree
    BY DEF PutCommit, WriteCommit, ctlVars, aciaVars, hostVars
  <1>3. nh = Succ(t_head, TxSize) /\ RoomForOutput
    BY DEF CommitInv, PutCommit, WriteCommit, At
  <1>4. TxCount <= TxSize - 3 /\ TxCount \in Nat /\ Succ(t_head, TxSize) # t_tail
    BY <1>3, TxRoom, SizeAssumption
  <1>5. /\ TxCount' = TxCount + 1
        /\ \A i \in Live' : (i \in Live \/ i = t_head) /\ Off(i)' = Off(i)
        /\ \A i \in Live : i # t_head /\ Off(i) < Off(t_head)
    BY <1>2, <1>3, <1>4, AppendLive
  <1>6. \A i \in Live' : tx_ring'[i] = b \/ (i \in Live /\ tx_ring'[i] = tx_ring[i])
    BY <1>1, <1>5 DEF TxType, Live
  <1>7. b \notin Control BY ByteAssumption DEF Control
  <1>8. TxCount' <= TxSize - 2 BY <1>4, <1>5, SizeAssumption
  <1>9. \A i \in Live' : tx_ring'[i] \in Control =>
                          i \in Live /\ tx_ring'[i] = tx_ring[i]
    BY <1>6, <1>7
  <1>10. hostFree' => ~xoff_sent' /\ tdr' \notin Control
    BY <1>2 DEF PhaseInv
  <1>11. hostFree' \/ tdr' = XON => \A i \in Live' : tx_ring'[i] \notin Control
    BY <1>2, <1>9 DEF PhaseInv
  <1>12. xoff_sent' => tdr' # XON /\ \A i \in Live' : tx_ring'[i] # XON
    BY <1>2, <1>9 DEF PhaseInv, Control
  <1>13. \A i, j \in Live' : tx_ring'[i] = XON /\ Off(j)' > Off(i)'
                             => tx_ring'[j] \notin Control
    BY <1>5, <1>9 DEF PhaseInv, Control
  <1> QED BY <1>8, <1>10, <1>11, <1>12, <1>13 DEF PhaseInv

\* XON goes behind everything else and is the only one.
LEMMA PhaseResume ==
  ASSUME TInv, CommitInv, PhaseInv, ResumeCommit
  PROVE  PhaseInv'
  <1> USE DEF TInv
  <1>1. /\ tx_ring' = [tx_ring EXCEPT ![t_head] = XON]
        /\ t_head' = nh /\ t_tail' = t_tail /\ xoff_sent' = FALSE
        /\ tdr' = tdr /\ hostFree' = hostFree
    BY DEF ResumeCommit, aciaVars, hostVars
  <1>2. nh = Succ(t_head, TxSize) /\ nh # t_tail /\ xoff_sent
    BY DEF CommitInv, ResumeCommit, At
  <1>3. /\ \A i \in Live' : (i \in Live \/ i = t_head) /\ Off(i)' = Off(i)
        /\ \A i \in Live : i # t_head /\ Off(i) < Off(t_head)
    BY <1>1, <1>2, AppendLive
  <1>4. ~hostFree /\ tdr # XON /\ \A i \in Live : tx_ring[i] # XON
    BY <1>2 DEF PhaseInv
  <1>5. \A i \in Live' : tx_ring'[i] = XON => i = t_head
    BY <1>1, <1>3, <1>4 DEF TxType, Live
  <1>6. \A j \in Live' : ~(Off(j) > Off(t_head))
    BY <1>3, SizeAssumption DEF Live, Off, Dist, TxType
  <1>7. \A i, j \in Live' : tx_ring'[i] = XON /\ Off(j)' > Off(i)'
                            => tx_ring'[j] \notin Control
    BY <1>3, <1>5, <1>6
  <1> QED BY <1>1, <1>4, <1>7 DEF PhaseInv

\* At high water with no throttle set, the host is free, the ring holds exactly
\* RingHigh bytes and XOFF has its slot.
LEMMA HighWater ==
  ASSUME TInv, PhaseInv, CountInv, HostStopsInTime,
         ipc = "hiwater", ring_count >= RingHigh, ~xoff_sent
  PROVE  /\ hostFree /\ ring_count = RingHigh
         /\ TxCount <= TxSize - 2 /\ Pred(t_tail, TxSize) # t_head
  <1>1. ring_count \in Nat /\ RingHigh \in Nat /\ RingLow \in Nat
        /\ Pending \in Nat /\ credit \in Nat
    BY RingFacts, SizeAssumption, MarkAssumption, SlackAssumption
    DEF TInv, RxType, HostType, ring_count, Pending
  <1>2. hostFree
    BY <1>1, SlackAssumption DEF CountInv, HostStopsInTime
  <1>3. ring_count = RingHigh BY <1>1, <1>2 DEF CountInv
  <1>4. TxCount <= TxSize - 2 BY <1>2 DEF PhaseInv
  <1> QED BY <1>2, <1>3, <1>4, TxRoom DEF TInv

\* XOFF is pushed in front of data only.
LEMMA PhaseHiwater ==
  ASSUME TInv, PhaseInv, CountInv, HostStopsInTime, IsrHiwater
  PROVE  PhaseInv'
  <1> USE DEF TInv
  <1>1. CASE ring_count >= RingHigh /\ ~xoff_sent
    <2>1. ipc = "hiwater" BY DEF IsrHiwater
    <2>2. hostFree /\ Pred(t_tail, TxSize) # t_head BY <1>1, <2>1, HighWater
    <2>3. /\ tx_ring' = [tx_ring EXCEPT ![Pred(t_tail, TxSize)] = XOFF]
          /\ t_tail' = Pred(t_tail, TxSize) /\ t_head' = t_head
          /\ hostFree' = FALSE /\ tdr' = tdr
      BY <1>1, <2>2 DEF IsrHiwater, BindHost
    <2>4. \A i \in Live' : i \in Live \/ i = Pred(t_tail, TxSize)
      BY <2>2, <2>3, PushLive
    <2>5. tdr # XON /\ \A i \in Live : tx_ring[i] # XON
      BY <2>2 DEF PhaseInv, Control
    <2>6. \A i \in Live' : tx_ring'[i] # XON
      BY <2>3, <2>4, <2>5, ByteAssumption DEF TxType, Live
    <2> QED BY <2>3, <2>5, <2>6 DEF PhaseInv
  <1>2. CASE ~(ring_count >= RingHigh /\ ~xoff_sent)
    <2>1. UNCHANGED <<txVars, xoff_sent, tdr, hostFree>>
      BY <1>2 DEF IsrHiwater, txVars, ctlVars
    <2> QED BY <2>1, PhaseFrame
  <1> QED BY <1>1, <1>2

\* The byte taken from the front was ahead of all others.
LEMMA PhaseSend ==
  ASSUME TInv, PhaseInv, IsrTxSend
  PROVE  PhaseInv'
  <1> USE DEF TInv
  <1>1. /\ tx_ring' = tx_ring /\ t_head' = t_head /\ t_tail' = Succ(t_tail, TxSize)
        /\ tdr' = tx_ring[t_tail] /\ t_head # t_tail
        /\ xoff_sent' = xoff_sent /\ hostFree' = hostFree
    BY DEF IsrTxSend, ctlVars, hostVars
  <1>2. /\ TxCount' = TxCount - 1
        /\ t_tail \in Live /\ Off(t_tail) = 0
        /\ \A i \in Live' : i \in Live /\ Off(i) > 0 /\ Off(i)' = Off(i) - 1
    BY <1>1, RemoveLive
  <1>3. TxCount \in 0 .. TxSize - 1 BY TxRoom
  <1>4. TxCount' <= TxSize - 2 BY <1>2, <1>3, SizeAssumption
  <1>5. hostFree' => ~xoff_sent' /\ tdr' \notin Control
    BY <1>1, <1>2 DEF PhaseInv
  <1>6. hostFree' => \A i \in Live' : tx_ring'[i] \notin Control
    BY <1>1, <1>2 DEF PhaseInv
  <1>7. tdr' = XON => \A i \in Live' : tx_ring'[i] \notin Control
    BY <1>1, <1>2 DEF PhaseInv
  <1>8. xoff_sent' => tdr' # XON /\ \A i \in Live' : tx_ring'[i] # XON
    BY <1>1, <1>2 DEF PhaseInv
  <1>9. \A i, j \in Live' : tx_ring'[i] = XON /\ Off(j)' > Off(i)'
                            => tx_ring'[j] \notin Control
    <2>1. \A i \in Live : Off(i) \in Int
      BY SizeAssumption DEF Live, Off, Dist, TxType
    <2>2. \A i, j \in Live' : Off(j)' > Off(i)' => Off(j) > Off(i)
      BY <1>2, <2>1
    <2> QED BY <1>1, <1>2, <2>2 DEF PhaseInv
  <1> QED BY <1>4, <1>5, <1>6, <1>7, <1>8, <1>9 DEF PhaseInv

\* A delivered XON frees the host with nothing but data behind it.
LEMMA PhaseDeliver ==
  ASSUME TInv, PhaseInv, Deliver
  PROVE  PhaseInv'
  <1>1. /\ UNCHANGED <<txVars, xoff_sent>> /\ tdr' = None
        /\ hostFree' => hostFree \/ tdr = XON
    BY DEF Deliver, BindHost, ctlVars, hostVars
  <1>2. None \notin Control BY ByteAssumption DEF Control
  <1>3. hostFree' => ~xoff_sent
    BY <1>1 DEF PhaseInv
  <1>4. Live' = Live /\ TxCount' = TxCount /\ tx_ring' = tx_ring
    BY <1>1 DEF Live, Off, TxCount, txVars
  <1>5. \A i : Off(i)' = Off(i) BY <1>1 DEF Off, txVars
  <1> QED BY <1>1, <1>2, <1>3, <1>4, <1>5 DEF PhaseInv, Control

\* The phases are kept by every step.
LEMMA PhaseInductive ==
  ASSUME TInv, FlowInv, HostStopsInTime, [Next]_vars
  PROVE  PhaseInv'
  <1> USE DEF FlowInv
  <1>1. CASE PutCommit \/ WriteCommit BY <1>1, PhaseOutput
  <1>2. CASE ResumeCommit BY <1>2, PhaseResume
  <1>3. CASE IsrHiwater BY <1>3, PhaseHiwater
  <1>4. CASE IsrTxSend BY <1>4, PhaseSend
  <1>5. CASE Deliver BY <1>5, PhaseDeliver
  <1>6. CASE \/ PollRx \/ PopRead \/ PopPublish \/ GetchCheck \/ Feed \/ Keyboard
             \/ Mask \/ PutCheck \/ WriteCheck \/ ResumeCheck \/ ArmTx \/ IrqOn
    <2>1. UNCHANGED <<txVars, xoff_sent, tdr, hostFree>>
      BY <1>6 DEF PollRx, PopRead, PopPublish, GetchCheck, Feed, Keyboard, Mask,
         PutCheck, WriteCheck, ResumeCheck, ArmTx, IrqOn, ctlVars, aciaVars, hostVars
    <2> QED BY <2>1, PhaseFrame
  <1>7. CASE \/ IsrEnter \/ IsrStatus \/ IsrRx \/ IsrTxIdle \/ IsrTxDisarm \/ IsrExit
             \/ Arrive \/ OtherInterrupt \/ UNCHANGED vars
    <2>1. UNCHANGED <<txVars, xoff_sent, tdr, hostFree>>
      BY <1>7 DEF IsrEnter, IsrStatus, IsrRx, IsrTxIdle, IsrTxDisarm, IsrExit, Arrive,
         OtherInterrupt, vars, ctlVars, aciaVars, hostVars
    <2> QED BY <2>1, PhaseFrame
  <1> QED BY <1>1, <1>2, <1>3, <1>4, <1>5, <1>6, <1>7 DEF Next, Main, Isr

--------------------------------------------------------------------------------
\* The receive ring's occupancy and what is on its way to it are numbers.
LEMMA CountTypes ==
  ASSUME TInv
  PROVE  /\ ring_count \in 0 .. RxSize - 1 /\ Pending \in 0 .. 1
         /\ credit \in 0 .. Slack /\ Slack \in Nat /\ RxSize \in Nat
         /\ RingHigh \in Nat /\ RingLow \in Nat
  BY RingFacts, SizeAssumption, MarkAssumption, SlackAssumption
  DEF TInv, RxType, HostType, ring_count, Pending

\* The counts depend on nothing but these, and the handler is at its high-water
\* test only right after a store.
LEMMA CountFrame ==
  ASSUME CountInv, UNCHANGED <<r_head, r_tail, xoff_sent, rdr, hostFree, credit>>,
         ipc = "hiwater" => ipc' = "hiwater"
  PROVE  CountInv'
  BY DEF CountInv, ring_count, Pending

\* Taking a byte makes room.
LEMMA CountPop ==
  ASSUME TInv, CommitInv, CountInv, PopPublish
  PROVE  CountInv'
  <1>1. /\ ring_count' = ring_count - 1 /\ ipc = "off" /\ Pending' = Pending
        /\ UNCHANGED <<xoff_sent, hostFree, credit>>
    BY RingFacts, SizeAssumption
    DEF TInv, RxType, CommitInv, PopPublish, At, ring_count, Pending, ctlVars,
        aciaVars, hostVars
  <1> QED BY <1>1, CountTypes DEF CountInv

\* XON is queued with the ring at low water and only the host's rest to come.
LEMMA CountResume ==
  ASSUME TInv, CommitInv, PhaseInv, CountInv, ResumeCommit
  PROVE  CountInv'
  <1>1. /\ ring_count' = ring_count /\ Pending' = Pending /\ xoff_sent' = FALSE
        /\ UNCHANGED <<hostFree, credit>>
    BY DEF ResumeCommit, ring_count, Pending, rxVars, aciaVars, hostVars
  <1>2. xoff_sent /\ ring_count <= RingLow
    BY DEF ResumeCommit, At, CommitInv
  <1>3. ~hostFree BY <1>2 DEF PhaseInv
  <1> QED BY <1>1, <1>2, <1>3, CountTypes DEF CountInv

\* The ring has room for every byte the handler reads.
LEMMA CountReceive ==
  ASSUME TInv, SignalInv, PhaseInv, CountInv, HostStopsInTime, IsrRx
  PROVE  CountInv' /\ dropped' = dropped
  <1>1. /\ ipc = "rx" /\ ipc' = "hiwater" /\ rdr # None /\ rdr' = None
        /\ UNCHANGED <<xoff_sent, hostFree, credit>>
    BY DEF IsrRx, SignalInv, ctlVars, hostVars
  <1>2. Pending = 1 /\ Pending' = 0 BY <1>1 DEF Pending
  <1>3. ring_count <= RxSize - 2
    BY <1>1, <1>2, CountTypes, MarkAssumption DEF CountInv, HostStopsInTime
  <1>4. Succ(r_head, RxSize) # r_tail
    BY <1>3, RingFacts, SizeAssumption DEF TInv, RxType, ring_count
  <1>5. dropped' = dropped /\ r_head' = Succ(r_head, RxSize) /\ r_tail' = r_tail
    BY <1>4 DEF IsrRx
  <1>6. ring_count' = ring_count + 1
    BY <1>4, <1>5, RingFacts, SizeAssumption DEF TInv, RxType, ring_count
  <1> QED BY <1>1, <1>2, <1>5, <1>6, CountTypes DEF CountInv

\* At high water XOFF is queued and the host's credit starts.
LEMMA CountHiwater ==
  ASSUME TInv, PhaseInv, CountInv, HostStopsInTime, IsrHiwater
  PROVE  CountInv'
  <1>1. /\ ipc = "hiwater" /\ ipc' = "tx" /\ ring_count' = ring_count
        /\ Pending' = Pending
    BY DEF IsrHiwater, rxVars, ring_count, Pending
  <1>2. CASE ring_count >= RingHigh /\ ~xoff_sent
    <2>1. hostFree /\ ring_count = RingHigh /\ Pred(t_tail, TxSize) # t_head
      BY <1>1, <1>2, HighWater
    <2>2. xoff_sent' = TRUE /\ hostFree' = FALSE /\ credit' = Slack
      BY <1>2, <2>1 DEF IsrHiwater, BindHost
    <2> QED BY <1>1, <2>1, <2>2, CountTypes DEF CountInv
  <1>3. CASE ~(ring_count >= RingHigh /\ ~xoff_sent)
    <2>1. UNCHANGED <<xoff_sent, hostFree, credit>>
      BY <1>3 DEF IsrHiwater, ctlVars
    <2>2. hostFree => ~xoff_sent BY DEF PhaseInv
    <2>3. hostFree => ring_count < RingHigh BY <1>3, <2>2, CountTypes
    <2> QED BY <1>1, <2>1, <2>3 DEF CountInv
  <1> QED BY <1>2, <1>3

\* A byte that arrives from a bound host uses up its credit.
LEMMA CountArrive ==
  ASSUME TInv, PhaseInv, CountInv, Arrive
  PROVE  CountInv'
  <1>1. /\ ring_count' = ring_count /\ rdr = None /\ rdr' # None
        /\ UNCHANGED <<ipc, xoff_sent, hostFree>>
        /\ ~hostFree => credit' = credit - 1
    BY ByteAssumption DEF Arrive, ring_count, rxVars, isrVars, ctlVars
  <1>2. Pending = 0 /\ Pending' = 1 BY <1>1 DEF Pending
  <1>3. hostFree => ~xoff_sent BY DEF PhaseInv
  <1> QED BY <1>1, <1>2, <1>3, CountTypes DEF CountInv

\* The host is freed with the ring below high water.
LEMMA CountDeliver ==
  ASSUME TInv, PhaseInv, CountInv, HostStopsInTime, Deliver
  PROVE  CountInv'
  <1>1. UNCHANGED <<r_head, r_tail, xoff_sent, rdr, ipc>>
    BY DEF Deliver, rxVars, ctlVars, isrVars
  <1>2. ring_count' = ring_count /\ Pending' = Pending
    BY <1>1 DEF ring_count, Pending
  <1>3. CASE tdr = XON
    <2>1. ~hostFree /\ ~xoff_sent BY <1>3 DEF PhaseInv, Control
    <2>2. hostFree' = TRUE BY <1>3, ByteAssumption DEF Deliver
    <2>3. ring_count < RingHigh
      BY <2>1, CountTypes DEF CountInv, HostStopsInTime
    <2> QED BY <1>1, <1>2, <2>1, <2>2, <2>3 DEF CountInv
  <1>4. CASE tdr # XON
    <2>1. tdr = XOFF => ~hostFree BY DEF PhaseInv, Control
    <2>2. hostFree' = hostFree /\ credit' = credit
      BY <1>4, <2>1 DEF Deliver, BindHost, hostVars, TInv, HostType
    <2> QED BY <1>1, <2>2, CountFrame
  <1> QED BY <1>3, <1>4

\* Every step keeps the counts.
LEMMA CountInductive ==
  ASSUME TInv, FlowInv, HostStopsInTime, [Next]_vars
  PROVE  CountInv' /\ NoLoss'
  <1> USE DEF FlowInv, NoLoss
  <1>1. CASE IsrRx BY <1>1, CountReceive
  <1>2. CASE ~IsrRx
    <2>1. dropped' = dropped
      BY <1>2 DEF Next, Main, Isr, PollRx, PopRead, PopPublish, GetchCheck, Feed,
         Keyboard, Mask, PutCheck, PutCommit, WriteCheck, WriteCommit, ResumeCheck,
         ResumeCommit, ArmTx, IrqOn, IsrEnter, IsrStatus, IsrHiwater, IsrTxIdle,
         IsrTxDisarm, IsrTxSend, IsrExit, Arrive, Deliver, OtherInterrupt, vars
    <2>2. CASE PopPublish BY <2>1, <2>2, CountPop
    <2>3. CASE ResumeCommit BY <2>1, <2>3, CountResume
    <2>4. CASE IsrHiwater BY <2>1, <2>4, CountHiwater
    <2>5. CASE Arrive BY <2>1, <2>5, CountArrive
    <2>6. CASE Deliver BY <2>1, <2>6, CountDeliver
    <2>7. CASE \/ PollRx \/ PopRead \/ GetchCheck \/ Feed \/ Keyboard \/ Mask
               \/ PutCheck \/ PutCommit \/ WriteCheck \/ WriteCommit \/ ResumeCheck
               \/ ArmTx \/ IrqOn
      <3>1. /\ UNCHANGED <<r_head, r_tail, xoff_sent, rdr, hostFree, credit>>
            /\ ipc' = ipc
        BY <2>7 DEF PollRx, PopRead, GetchCheck, Feed, Keyboard, Mask, PutCheck,
           PutCommit, WriteCheck, WriteCommit, ResumeCheck, ArmTx, IrqOn, rxVars,
           ctlVars, isrVars, aciaVars, hostVars
      <3> QED BY <2>1, <3>1, CountFrame
    <2>8. CASE \/ IsrEnter \/ IsrStatus \/ IsrTxIdle \/ IsrTxDisarm \/ IsrTxSend
               \/ IsrExit \/ OtherInterrupt \/ UNCHANGED vars
      <3>1. /\ UNCHANGED <<r_head, r_tail, xoff_sent, rdr, hostFree, credit>>
            /\ ipc = "hiwater" => ipc' = "hiwater"
        BY <2>8 DEF IsrEnter, IsrStatus, IsrTxIdle, IsrTxDisarm, IsrTxSend, IsrExit,
           OtherInterrupt, vars, rxVars, ctlVars, isrVars, aciaVars, hostVars
      <3> QED BY <2>1, <3>1, CountFrame
    <2> QED BY <1>2, <2>2, <2>3, <2>4, <2>5, <2>6, <2>7, <2>8 DEF Next, Main, Isr
  <1> QED BY <1>1, <1>2

--------------------------------------------------------------------------------
LEMMA FlowInit == Init => FlowInv
  <1> SUFFICES ASSUME Init PROVE FlowInv OBVIOUS
  <1> USE SizeAssumption, MarkAssumption, ByteAssumption DEF Init
  <1>1. MaskInv BY DEF MaskInv, Masked
  <1>2. CommitInv BY DEF CommitInv
  <1>3. SignalInv BY DEF SignalInv
  <1>4. TxCount = 0 /\ ring_count = 0 /\ Live = {}
    BY DEF TxCount, ring_count, Live, Off, Dist
  <1>5. PhaseInv BY <1>4 DEF PhaseInv, Control
  <1>6. CountInv BY <1>4 DEF CountInv
  <1> QED BY <1>1, <1>2, <1>3, <1>5, <1>6 DEF FlowInv, NoLoss

LEMMA FlowInductive ==
  ASSUME HostStopsInTime
  PROVE  Spec => [](TInv /\ FlowInv)
  <1>1. Init => TInv /\ FlowInv BY TypeInit, FlowInit
  <1>2. TInv /\ FlowInv /\ [Next]_vars => (TInv /\ FlowInv)'
    <2> SUFFICES ASSUME TInv, FlowInv, [Next]_vars PROVE (TInv /\ FlowInv)' OBVIOUS
    <2>1. TInv' BY TypeStep
    <2>2. MaskInv' /\ CommitInv' /\ SignalInv'
      BY MaskInductive, CommitInductive, SignalInductive DEF FlowInv
    <2>3. PhaseInv' BY PhaseInductive
    <2>4. CountInv' /\ NoLoss' BY CountInductive
    <2> QED BY <2>1, <2>2, <2>3, <2>4 DEF FlowInv
  <1> QED BY <1>1, <1>2, PTL DEF Spec

\* A host that stops within Slack bytes of a queued XOFF loses nothing: the
\* handler finds room in the receive ring for every byte, whatever main does.
THEOREM NoLossCorrect ==
  ASSUME HostStopsInTime
  PROVE  Spec => []NoLoss
  <1>1. FlowInv => NoLoss BY DEF FlowInv
  <1> QED BY FlowInductive, <1>1, PTL

\* Ordinary output and XON never leave XOFF without a slot when it is due.
THEOREM XoffNeverStarvedCorrect ==
  ASSUME HostStopsInTime
  PROVE  Spec => []XoffNeverStarved
  <1>1. TInv /\ FlowInv => XoffNeverStarved
    <2> SUFFICES ASSUME TInv, FlowInv, ipc = "hiwater", ring_count >= RingHigh,
                        ~xoff_sent
                 PROVE  TxCount < TxSize - 1
      BY DEF XoffNeverStarved
    <2>1. TxCount <= TxSize - 2 BY HighWater DEF FlowInv
    <2> QED BY <2>1, TxRoom, SizeAssumption DEF TInv
  <1> QED BY FlowInductive, <1>1, PTL

\* No byte in either direction waits without an interrupt to move it.
THEOREM NothingStrandedCorrect == Spec => []NothingStranded
  <1>1. Init => TInv /\ SignalInv
    BY TypeInit, SizeAssumption DEF Init, SignalInv
  <1>2. TInv /\ SignalInv /\ [Next]_vars => (TInv /\ SignalInv)'
    BY TypeStep, SignalInductive
  <1>3. TInv /\ SignalInv => NothingStranded
    <2> SUFFICES ASSUME TInv, SignalInv PROVE NothingStranded OBVIOUS
    <2>1. TxCount # 0 => t_head # t_tail
      BY SizeAssumption DEF TInv, TxType, TxCount, Dist
    <2>2. ipc = "off" /\ rdr # None => latch BY DEF SignalInv
    <2>3. TxCount # 0 /\ ~txie => Queueing BY <2>1 DEF SignalInv
    <2> QED BY <2>2, <2>3 DEF NothingStranded
  <1> QED BY <1>1, <1>2, <1>3, PTL DEF Spec

\* The predecessor's handler never gets an interrupt of the ACIA.
THEOREM ChainOnlyForeignCorrect == Spec => []ChainOnlyForeign
  <1>1. Init => TInv /\ OwnerInv
    BY TypeInit DEF Init, OwnerInv
  <1>2. TInv /\ OwnerInv /\ [Next]_vars => (TInv /\ OwnerInv)'
    BY TypeStep, OwnerInductive
  <1>3. OwnerInv => ChainOnlyForeign BY DEF OwnerInv, ChainOnlyForeign
  <1> QED BY <1>1, <1>2, <1>3, PTL DEF Spec

--------------------------------------------------------------------------------
(***************************************************************************)
(* Agreement of flag and host.  The last control byte among those queued,  *)
(* else the one being sent, else the one last delivered, is the one that   *)
(* xoff_sent stands for; and the handler sends into an empty register.     *)
(***************************************************************************)
Flag == IF xoff_sent THEN XOFF ELSE XON

SampleInv == ipc \in {"rx", "hiwater", "tx"} /\ sr.tdre => tdr = None

DataOnly == \A i \in Live : tx_ring[i] \notin Control
QueuedLast ==
  \E i \in Live : tx_ring[i] = Flag /\ \A j \in Live : Off(j) > Off(i) => tx_ring[j] \notin Control
AgreeInv ==
  QueuedLast \/ (DataOnly /\ (tdr = Flag \/ (tdr \notin Control /\ lastCtl = Flag)))

\* What was sampled empty stays empty until the handler fills it.
LEMMA SampleInductive == TInv /\ SampleInv /\ [Next]_vars => SampleInv'
  <1> SUFFICES ASSUME TInv, SampleInv, [Next]_vars PROVE SampleInv' OBVIOUS
  <1> USE DEF SampleInv
  <1>1. CASE Main
    <2>1. ipc' = "off"
      BY <1>1 DEF Main, At, isrVars, PollRx, PopRead, PopPublish, GetchCheck, Feed,
         Keyboard, Mask, PutCheck, PutCommit, WriteCheck, WriteCommit, ResumeCheck,
         ResumeCommit, ArmTx, IrqOn
    <2> QED BY <2>1
  <1>2. CASE IsrStatus
    <2>1. sr'.tdre = (tdr = None) /\ tdr' = tdr BY <1>2 DEF IsrStatus
    <2> QED BY <2>1
  <1>3. CASE IsrEnter \/ IsrTxIdle \/ IsrTxDisarm \/ IsrTxSend \/ IsrExit
    BY <1>3 DEF IsrEnter, IsrTxIdle, IsrTxDisarm, IsrTxSend, IsrExit
  <1>4. CASE IsrRx \/ IsrHiwater BY <1>4 DEF IsrRx, IsrHiwater
  <1>5. CASE Arrive \/ Deliver \/ OtherInterrupt \/ UNCHANGED vars
    BY <1>5 DEF Arrive, Deliver, OtherInterrupt, vars, isrVars, aciaVars
  <1> QED BY <1>1, <1>2, <1>3, <1>4, <1>5 DEF Next, Isr

\* Agreement depends on nothing but these.
LEMMA AgreeFrame ==
  AgreeInv /\ UNCHANGED <<txVars, xoff_sent, tdr, lastCtl>> => AgreeInv'
  BY DEF AgreeInv, QueuedLast, DataOnly, Flag, Live, Off, TxCount, txVars

\* Ordinary output is data.
LEMMA AgreeOutput ==
  ASSUME TInv, CommitInv, AgreeInv, PutCommit \/ WriteCommit
  PROVE  AgreeInv'
  <1> USE DEF TInv
  <1>1. PICK b \in TermBytes : tx_ring' = [tx_ring EXCEPT ![t_head] = b]
    BY DEF PutCommit, WriteCommit
  <1>2. /\ t_head' = nh /\ t_tail' = t_tail /\ UNCHANGED <<xoff_sent, tdr, lastCtl>>
    BY DEF PutCommit, WriteCommit, ctlVars, aciaVars, hostVars
  <1>3. nh = Succ(t_head, TxSize) /\ Succ(t_head, TxSize) # t_tail
    BY DEF CommitInv, PutCommit, WriteCommit, At, RoomForOutput
  <1>4. /\ \A i \in Live' : (i \in Live \/ i = t_head) /\ Off(i)' = Off(i)
        /\ \A i \in Live : i # t_head
    BY <1>2, <1>3, AppendLive
  <1>5. b \notin Control BY ByteAssumption DEF Control
  <1>6. \A i \in Live' : tx_ring'[i] \in Control => i \in Live /\ tx_ring'[i] = tx_ring[i]
    BY <1>1, <1>4, <1>5 DEF TxType, Live
  <1>7. \A i \in Live : i \in Live' /\ Off(i)' = Off(i) /\ tx_ring'[i] = tx_ring[i]
    <2>1. TxCount' = TxCount + 1 BY <1>2, <1>3, AppendLive
    <2>2. \A i \in Live : i \in Live' /\ Off(i)' = Off(i)
      BY <1>2, <2>1, TxRoom, SizeAssumption DEF Live, Off, TxType, Dist
    <2> QED BY <1>1, <1>4, <2>2 DEF TxType, Live
  <1>8. Flag' = Flag BY <1>2 DEF Flag
  <1>9. CASE QueuedLast
    <2>1. PICK i \in Live : /\ tx_ring[i] = Flag
                            /\ \A j \in Live : Off(j) > Off(i) => tx_ring[j] \notin Control
      BY <1>9 DEF QueuedLast
    <2>2. i \in Live' /\ tx_ring'[i] = Flag' BY <1>7, <1>8, <2>1
    <2>3. \A j \in Live' : Off(j)' > Off(i)' => tx_ring'[j] \notin Control
      BY <1>4, <1>6, <1>7, <2>1
    <2>4. QueuedLast' BY <2>2, <2>3 DEF QueuedLast, Control
    <2> QED BY <2>4 DEF AgreeInv
  <1>10. CASE ~QueuedLast
    <2>1. DataOnly' BY <1>6, <1>10 DEF AgreeInv, DataOnly, Control
    <2> QED BY <1>2, <1>8, <1>10, <2>1 DEF AgreeInv, Control
  <1> QED BY <1>9, <1>10

\* XON is queued behind everything.
LEMMA AgreeResume ==
  ASSUME TInv, CommitInv, ResumeCommit
  PROVE  AgreeInv'
  <1> USE DEF TInv
  <1> PICK h \in 0 .. TxSize - 1 : h = t_head BY DEF TxType
  <1>1. /\ tx_ring' = [tx_ring EXCEPT ![h] = XON]
        /\ t_head' = nh /\ t_tail' = t_tail /\ xoff_sent' = FALSE
    BY DEF ResumeCommit
  <1>2. nh = Succ(t_head, TxSize) /\ nh # t_tail
    BY DEF CommitInv, ResumeCommit, At
  <1>3. /\ TxCount' = TxCount + 1
        /\ \A i \in Live' : (i \in Live \/ i = h) /\ Off(i)' = Off(i)
        /\ \A i \in Live : Off(i) < Off(h)
    BY <1>1, <1>2, AppendLive
  <1>4. Off(h)' = Off(h) /\ Off(h) = TxCount /\ TxCount \in Nat
    BY <1>1, TxRoom DEF Off, TxCount
  <1>5. h \in Live' BY <1>3, <1>4 DEF Live
  <1>6. tx_ring'[h] = XON BY <1>1 DEF TxType
  <1>7. \A j \in Live' : ~(Off(j)' > Off(h)')
    BY <1>3, <1>4, SizeAssumption DEF Live, Off, Dist, TxType
  <1>8. Flag' = XON BY <1>1 DEF Flag
  <1>9. QueuedLast' BY <1>5, <1>6, <1>7, <1>8 DEF QueuedLast
  <1> QED BY <1>9 DEF AgreeInv

\* XOFF is queued in front of data.
LEMMA AgreeHiwater ==
  ASSUME TInv, PhaseInv, CountInv, AgreeInv, HostStopsInTime, IsrHiwater
  PROVE  AgreeInv'
  <1> USE DEF TInv
  <1>1. CASE ring_count >= RingHigh /\ ~xoff_sent
    <2> PICK new \in 0 .. TxSize - 1 : new = Pred(t_tail, TxSize)
      BY SizeAssumption DEF Pred, TxType
    <2>1. ipc = "hiwater" BY DEF IsrHiwater
    <2>2. hostFree /\ new # t_head /\ TxCount <= TxSize - 2 BY <1>1, <2>1, HighWater
    <2>3. /\ tx_ring' = [tx_ring EXCEPT ![new] = XOFF] /\ xoff_sent' = TRUE
          /\ t_tail' = new /\ t_head' = t_head
      BY <1>1, <2>2 DEF IsrHiwater
    <2>4. \A i \in Live' : i \in Live \/ i = new BY <2>2, <2>3, PushLive
    <2>5. new \in Live' /\ tx_ring'[new] = XOFF /\ Off(new)' = 0
      <3>1. TxCount' = TxCount + 1 /\ TxCount \in Nat
        BY <2>2, <2>3, RingFacts, SizeAssumption, TxRoom DEF TxCount, TxType
      <3>2. Off(new)' = 0 /\ new \in 0 .. TxSize - 1
        BY <2>3, SizeAssumption DEF Off, Dist, Pred, TxType
      <3> QED BY <2>3, <3>1, <3>2 DEF Live, TxType
    <2>6. \A j \in Live' : Off(j)' > Off(new)' => tx_ring'[j] \notin Control
      <3> SUFFICES ASSUME NEW j \in Live', Off(j)' > Off(new)' PROVE tx_ring'[j] \notin Control
        OBVIOUS
      <3>1. j # new BY <2>5
      <3>2. j \in Live BY <2>4, <3>1
      <3>3. tx_ring[j] \notin Control BY <2>2, <3>2 DEF PhaseInv
      <3> QED BY <2>3, <3>1, <3>2, <3>3 DEF TxType, Live
    <2>7. Flag' = XOFF BY <2>3 DEF Flag
    <2>8. QueuedLast' BY <2>5, <2>6, <2>7 DEF QueuedLast, Control
    <2> QED BY <2>8 DEF AgreeInv
  <1>2. CASE ~(ring_count >= RingHigh /\ ~xoff_sent)
    <2>1. UNCHANGED <<txVars, xoff_sent, tdr, lastCtl>>
      BY <1>2 DEF IsrHiwater, txVars, ctlVars
    <2> QED BY <2>1, AgreeFrame
  <1> QED BY <1>1, <1>2

\* The front of the queue moves into the empty register.
LEMMA AgreeSend ==
  ASSUME TInv, SampleInv, AgreeInv, IsrTxSend
  PROVE  AgreeInv'
  <1> USE DEF TInv
  <1>1. /\ tx_ring' = tx_ring /\ t_head' = t_head /\ t_tail' = Succ(t_tail, TxSize)
        /\ tdr' = tx_ring[t_tail] /\ t_head # t_tail /\ tdr = None
        /\ UNCHANGED <<xoff_sent, lastCtl>>
    BY DEF IsrTxSend, SampleInv, ctlVars, hostVars
  <1>2. /\ TxCount' = TxCount - 1
        /\ t_tail \in Live /\ Off(t_tail) = 0
        /\ \A i \in Live' : i \in Live /\ Off(i) > 0 /\ Off(i)' = Off(i) - 1
    BY <1>1, RemoveLive
  <1>3. \A i \in Live : Off(i) > 0 => i \in Live' /\ Off(i)' = Off(i) - 1
    BY <1>1, <1>2, TxRoom, SizeAssumption DEF Live, Off, Dist, Succ, TxType
  <1>4. \A i \in Live : Off(i) \in Nat
    BY SizeAssumption DEF Live, Off, Dist, TxType
  <1>5. \A i \in Live : Off(i) = 0 => i = t_tail
    BY SizeAssumption DEF Live, Off, Dist, TxType
  <1>6. Flag' = Flag /\ Flag \in Control BY <1>1 DEF Flag, Control
  <1>7. CASE QueuedLast
    <2>1. PICK i \in Live : /\ tx_ring[i] = Flag
                            /\ \A j \in Live : Off(j) > Off(i) => tx_ring[j] \notin Control
      BY <1>7 DEF QueuedLast
    <2>2. CASE Off(i) = 0
      <3>1. tdr' = Flag' BY <1>1, <1>5, <1>6, <2>1, <2>2
      <3>2. DataOnly' BY <1>1, <1>2, <2>1, <2>2 DEF DataOnly, Control
      <3> QED BY <3>1, <3>2 DEF AgreeInv
    <2>3. CASE Off(i) > 0
      <3>1. i \in Live' /\ tx_ring'[i] = Flag' BY <1>1, <1>3, <1>6, <2>1, <2>3
      <3>2. \A j \in Live' : Off(j)' > Off(i)' => tx_ring'[j] \notin Control
        BY <1>1, <1>2, <1>3, <1>4, <2>1, <2>3
      <3>3. QueuedLast' BY <3>1, <3>2 DEF QueuedLast, Control
      <3> QED BY <3>3 DEF AgreeInv
    <2> QED BY <1>4, <2>2, <2>3
  <1>8. CASE ~QueuedLast
    <2>1. DataOnly /\ lastCtl = Flag
      BY <1>1, <1>6, <1>8, ByteAssumption DEF AgreeInv, Control
    <2>2. DataOnly' BY <1>1, <1>2, <2>1 DEF DataOnly, Control
    <2>3. tdr' \notin Control BY <1>1, <1>2, <2>1 DEF DataOnly
    <2> QED BY <1>1, <1>6, <2>1, <2>2, <2>3 DEF AgreeInv, Control
  <1> QED BY <1>7, <1>8

\* A control byte in the register becomes the last one delivered.
LEMMA AgreeDeliver ==
  ASSUME TInv, AgreeInv, Deliver
  PROVE  AgreeInv'
  <1>1. /\ UNCHANGED <<txVars, xoff_sent>> /\ tdr' = None
        /\ lastCtl' = IF tdr \in Control THEN tdr ELSE lastCtl
    BY DEF Deliver, ctlVars, hostVars, Control
  <1>2. None \notin Control /\ Flag \in Control BY ByteAssumption DEF Control, Flag
  <1>3. Flag' = Flag /\ QueuedLast' = QueuedLast /\ DataOnly' = DataOnly
    BY <1>1 DEF Flag, QueuedLast, DataOnly, Live, Off, TxCount, txVars, Control
  <1>4. Control' = Control BY DEF Control
  <1> QED BY <1>1, <1>2, <1>3, <1>4 DEF AgreeInv

\* Every step keeps flag and host in agreement.
LEMMA AgreeInductive ==
  ASSUME TInv, FlowInv, SampleInv, AgreeInv, HostStopsInTime, [Next]_vars
  PROVE  AgreeInv'
  <1> USE DEF FlowInv
  <1>1. CASE PutCommit \/ WriteCommit BY <1>1, AgreeOutput
  <1>2. CASE ResumeCommit BY <1>2, AgreeResume
  <1>3. CASE IsrHiwater BY <1>3, AgreeHiwater
  <1>4. CASE IsrTxSend BY <1>4, AgreeSend
  <1>5. CASE Deliver BY <1>5, AgreeDeliver
  <1>6. CASE \/ PollRx \/ PopRead \/ PopPublish \/ GetchCheck \/ Feed \/ Keyboard
             \/ Mask \/ PutCheck \/ WriteCheck \/ ResumeCheck \/ ArmTx \/ IrqOn
    <2>1. UNCHANGED <<txVars, xoff_sent, tdr, lastCtl>>
      BY <1>6 DEF PollRx, PopRead, PopPublish, GetchCheck, Feed, Keyboard, Mask,
         PutCheck, WriteCheck, ResumeCheck, ArmTx, IrqOn, ctlVars, aciaVars, hostVars
    <2> QED BY <2>1, AgreeFrame
  <1>7. CASE \/ IsrEnter \/ IsrStatus \/ IsrRx \/ IsrTxIdle \/ IsrTxDisarm \/ IsrExit
             \/ Arrive \/ OtherInterrupt \/ UNCHANGED vars
    <2>1. UNCHANGED <<txVars, xoff_sent, tdr, lastCtl>>
      BY <1>7 DEF IsrEnter, IsrStatus, IsrRx, IsrTxIdle, IsrTxDisarm, IsrExit, Arrive,
         OtherInterrupt, vars, ctlVars, aciaVars, hostVars
    <2> QED BY <2>1, AgreeFrame
  <1> QED BY <1>1, <1>2, <1>3, <1>4, <1>5, <1>6, <1>7 DEF Next, Main, Isr

\* The slot at a given offset from the tail.
SlotAt(d) == IF t_tail + d < TxSize THEN t_tail + d ELSE t_tail + d - TxSize
LEMMA SlotFacts ==
  ASSUME NEW size \in Nat, size >= 2, NEW t \in 0 .. size - 1, NEW d \in 0 .. size - 1
  PROVE  /\ (t + (d + 1) - 1) % size = IF t + d < size THEN t + d ELSE t + d - size
         /\ \A i \in 0 .. size - 1 :
              Dist(i, t, size) = d <=> i = IF t + d < size THEN t + d ELSE t + d - size
  <1>1. PICK x \in 0 .. 2 * size - 1 : x = t + d BY SMT
  <1>2. x % size = IF x < size THEN x ELSE x - size BY SMTT(30)
  <1>3. t + (d + 1) - 1 = x BY <1>1
  <1>4. (t + (d + 1) - 1) % size = IF t + d < size THEN t + d ELSE t + d - size
    BY <1>1, <1>2, <1>3
  <1>5. \A i \in 0 .. size - 1 :
          Dist(i, t, size) = d <=> i = IF t + d < size THEN t + d ELSE t + d - size
    BY DEF Dist
  <1> QED BY <1>4, <1>5

\* The queue lists the slots in use in the order of their offsets.
LEMMA QueueOrder ==
  ASSUME TInv
  PROVE  /\ \A k \in 1 .. TxCount :
              \E i \in Live : Off(i) = k - 1 /\ TxQueue[k] = tx_ring[i]
         /\ \A i \in Live : /\ Off(i) + 1 \in 1 .. TxCount /\ Off(i) \in Nat
                            /\ TxQueue[Off(i) + 1] = tx_ring[i]
  <1> USE DEF TInv
  <1>1. TxSize \in Nat /\ TxSize >= 2 /\ t_tail \in 0 .. TxSize - 1 BY SizeAssumption DEF TxType
  <1>2. TxCount \in 0 .. TxSize - 1 BY TxRoom
  <1>3. ASSUME NEW d \in 0 .. TxCount - 1
        PROVE  /\ SlotAt(d) \in Live /\ TxQueue[d + 1] = tx_ring[SlotAt(d)]
               /\ \A i \in 0 .. TxSize - 1 : Off(i) = d <=> i = SlotAt(d)
    <2>1. d \in 0 .. TxSize - 1 /\ d < TxCount /\ d + 1 \in 1 .. TxCount
      BY <1>1, <1>2
    <2>2. /\ (t_tail + (d + 1) - 1) % TxSize = SlotAt(d)
          /\ \A i \in 0 .. TxSize - 1 : Off(i) = d <=> i = SlotAt(d)
      BY <1>1, <2>1, SlotFacts DEF SlotAt, Off
    <2>3. TxQueue[d + 1] = tx_ring[SlotAt(d)] BY <2>1, <2>2 DEF TxQueue, RingSeq
    <2>4. SlotAt(d) \in 0 .. TxSize - 1 BY <1>1, <2>1 DEF SlotAt
    <2>5. SlotAt(d) \in Live BY <2>1, <2>2, <2>4 DEF Live
    <2> QED BY <2>2, <2>3, <2>5
  <1>4. ASSUME NEW k \in 1 .. TxCount
        PROVE  \E i \in Live : Off(i) = k - 1 /\ TxQueue[k] = tx_ring[i]
    <2>1. PICK d \in 0 .. TxCount - 1 : d = k - 1 /\ k = d + 1 BY <1>2
    <2>2. SlotAt(d) \in Live /\ TxQueue[k] = tx_ring[SlotAt(d)] BY <1>3, <2>1
    <2>3. Off(SlotAt(d)) = k - 1 BY <1>3, <2>1, <2>2 DEF Live
    <2> QED BY <2>2, <2>3
  <1>5. ASSUME NEW i \in Live
        PROVE  /\ Off(i) + 1 \in 1 .. TxCount /\ Off(i) \in Nat
               /\ TxQueue[Off(i) + 1] = tx_ring[i]
    <2>1. Off(i) \in Nat /\ Off(i) < TxCount /\ i \in 0 .. TxSize - 1
      BY <1>1 DEF Live, Off, Dist
    <2>2. PICK d \in 0 .. TxCount - 1 : d = Off(i) BY <1>2, <2>1
    <2>3. i = SlotAt(d) BY <1>3, <2>1, <2>2
    <2>4. TxQueue[d + 1] = tx_ring[i] BY <1>3, <2>3
    <2>5. Off(i) + 1 \in 1 .. TxCount BY <1>2, <2>1
    <2> QED BY <2>1, <2>2, <2>4, <2>5
  <1> QED BY <1>4, <1>5

\* The bytes on their way, and the last one delivered, as the property lists them.
LEMMA AgreeEnough == ASSUME TInv, AgreeInv PROVE ThrottleAgrees
  <1> USE DEF TInv
  <1> DEFINE pre == IF tdr = None THEN <<lastCtl>> ELSE <<lastCtl, tdr>>
             s   == <<lastCtl>> \o InFlight
             n   == Len(pre)
  <1>1. TxQueue \in Seq(TxData \cup {None}) /\ Len(TxQueue) = TxCount /\ TxCount \in Nat
    <2>1. \A k \in 1 .. TxCount : TxQueue[k] \in TxData \cup {None}
      BY QueueOrder DEF TxType, Live
    <2>2. TxCount \in Nat BY TxRoom
    <2>3. TxQueue = [k \in 1 .. TxCount |-> TxQueue[k]] BY DEF TxQueue, RingSeq
    <2> QED BY <2>1, <2>2, <2>3
  <1>2. tdr \in TxData \cup {None} /\ lastCtl \in TxData \cup {None} BY DEF AciaType, HostType, TxData
  <1>3. /\ Len(s) = n + TxCount /\ n \in 1 .. 2 /\ DOMAIN s = 1 .. n + TxCount
        /\ s[1] = lastCtl /\ (n = 1 <=> tdr = None) /\ (n = 2 => s[2] = tdr)
        /\ \A k \in 1 .. TxCount : s[n + k] = TxQueue[k]
    BY <1>1, <1>2 DEF InFlight
  <1> HIDE DEF s, n, pre
  <1>4. Flag \in Control /\ None \notin Control BY ByteAssumption DEF Flag, Control
  <1>5. \A k \in n + 1 .. n + TxCount :
          \E i \in Live : Off(i) = k - n - 1 /\ s[k] = tx_ring[i]
    <2> SUFFICES ASSUME NEW k \in n + 1 .. n + TxCount
                 PROVE  \E i \in Live : Off(i) = k - n - 1 /\ s[k] = tx_ring[i]
      OBVIOUS
    <2>1. k - n \in 1 .. TxCount /\ n + (k - n) = k BY <1>1, <1>3
    <2>2. s[k] = TxQueue[k - n] BY <1>3, <2>1
    <2>3. PICK i \in Live : Off(i) = (k - n) - 1 /\ TxQueue[k - n] = tx_ring[i]
      BY <2>1, QueueOrder
    <2>4. (k - n) - 1 = k - n - 1 BY <1>3
    <2> QED BY <2>2, <2>3, <2>4
  <1>6. \E k \in DOMAIN s : s[k] = Flag /\ \A j \in DOMAIN s : j > k => s[j] \notin Control
    <2>1. CASE QueuedLast
      <3>1. PICK i \in Live : /\ tx_ring[i] = Flag
                              /\ \A j \in Live : Off(j) > Off(i) => tx_ring[j] \notin Control
        BY <2>1 DEF QueuedLast
      <3>2. PICK d \in Nat : /\ d = Off(i) /\ d + 1 \in 1 .. TxCount
                             /\ TxQueue[d + 1] = tx_ring[i]
        BY QueueOrder
      <3> DEFINE k == n + (d + 1)
      <3>3. k \in DOMAIN s /\ k \in n + 1 .. n + TxCount /\ d = k - n - 1
        BY <1>1, <1>3, <3>2
      <3>5. s[k] = Flag BY <1>3, <3>1, <3>2
      <3>4. ASSUME NEW j \in DOMAIN s, j > k PROVE s[j] \notin Control
        <4>1. j \in n + 1 .. n + TxCount /\ j - n - 1 > d
          <5>1. n \in Nat /\ TxCount \in Nat /\ j \in 1 .. n + TxCount BY <1>1, <1>3
          <5> QED BY <3>2, <3>4, <5>1
        <4> QED BY <1>5, <3>1, <3>2, <4>1
      <3> QED BY <3>3, <3>4, <3>5
    <2>2. CASE ~QueuedLast
      <3>1. \A k \in n + 1 .. n + TxCount : s[k] \notin Control
        BY <1>5, <2>2 DEF AgreeInv, DataOnly
      <3>2. tdr = Flag \/ (tdr \notin Control /\ lastCtl = Flag) BY <2>2 DEF AgreeInv
      <3>3. \A j \in DOMAIN s : j > n => s[j] \notin Control BY <1>1, <1>3, <3>1
      <3>4. CASE tdr = Flag
        <4>1. n = 2 /\ s[2] = Flag BY <1>3, <1>4, <3>4
        <4> QED BY <1>1, <1>3, <3>3, <4>1
      <3>5. CASE tdr \notin Control /\ lastCtl = Flag
        <4>1. s[1] = Flag /\ (n = 2 => s[2] \notin Control) /\ 1 \in DOMAIN s
          BY <1>1, <1>3, <3>5
        <4>2. \A j \in DOMAIN s : j > 1 => s[j] \notin Control
          BY <1>1, <1>3, <3>3, <4>1
        <4> QED BY <4>1, <4>2
      <3> QED BY <3>2, <3>4, <3>5
    <2> QED BY <2>1, <2>2
  <1> QED BY <1>6 DEF s, ThrottleAgrees, Flag, Control

\* Whatever interleaving of replies, XON and XOFF, the last control byte a host that
\* stops in time gets is the one the driver believes it obeys.
THEOREM ThrottleAgreesCorrect ==
  ASSUME HostStopsInTime
  PROVE  Spec => []ThrottleAgrees
  <1>1. Init => SampleInv /\ AgreeInv
    <2> SUFFICES ASSUME Init PROVE SampleInv /\ AgreeInv OBVIOUS
    <2> USE SizeAssumption, ByteAssumption DEF Init
    <2>1. Live = {} BY DEF Live, Off, TxCount, Dist
    <2>2. SampleInv BY DEF SampleInv
    <2>3. DataOnly BY <2>1 DEF DataOnly
    <2>4. tdr \notin Control /\ lastCtl = Flag BY DEF Control, Flag
    <2> QED BY <2>2, <2>3, <2>4 DEF AgreeInv
  <1>2. TInv /\ FlowInv /\ SampleInv /\ AgreeInv /\ [Next]_vars => SampleInv' /\ AgreeInv'
    BY SampleInductive, AgreeInductive
  <1>3. TInv /\ AgreeInv => ThrottleAgrees BY AgreeEnough
  <1> QED BY FlowInductive, <1>1, <1>2, <1>3, PTL DEF Spec

--------------------------------------------------------------------------------
(***************************************************************************)
(* The driver implements the two FIFOs, for rings of any size, any water   *)
(* marks and any host: every step of the main loop, the handler, the card  *)
(* and the host is a step of RxPath or stutters there, and likewise of     *)
(* TxPath.  First, a ring as a queue.                                      *)
(***************************************************************************)
Slot(t, d, size) == IF t + d < size THEN t + d ELSE t + d - size

Lists(q, ring, t, n, size, S) ==
  /\ q \in Seq(S) /\ Len(q) = n
  /\ \A k \in 1 .. n : /\ q[k] = ring[Slot(t, k - 1, size)]
                        /\ Slot(t, k - 1, size) \in 0 .. size - 1

\* The queue's elements are the slots from the tail on.
LEMMA RingElements ==
  ASSUME NEW size \in Nat, size >= 2, NEW S, NEW ring \in [0 .. size - 1 -> S],
         NEW t \in 0 .. size - 1, NEW n \in 0 .. size - 1
  PROVE  Lists(RingSeq(ring, t, n, size), ring, t, n, size, S)
  <1> DEFINE q == RingSeq(ring, t, n, size)
  <1>1. ASSUME NEW k \in 1 .. n
        PROVE  (t + k - 1) % size = Slot(t, k - 1, size) /\ Slot(t, k - 1, size) \in 0 .. size - 1
    <2>1. PICK d \in 0 .. size - 1 : d = k - 1 /\ t + (d + 1) - 1 = t + k - 1 OBVIOUS
    <2>2. (t + (d + 1) - 1) % size = IF t + d < size THEN t + d ELSE t + d - size BY SlotFacts
    <2>3. Slot(t, d, size) \in 0 .. size - 1 BY DEF Slot
    <2> QED BY <2>1, <2>2, <2>3 DEF Slot
  <1>2. \A k \in 1 .. n : q[k] = ring[Slot(t, k - 1, size)]
    BY <1>1 DEF RingSeq
  <1>3. q \in Seq(S) /\ Len(q) = n
    <2>1. \A k \in 1 .. n : q[k] \in S BY <1>1, <1>2
    <2>2. q = [k \in 1 .. n |-> q[k]] BY DEF RingSeq
    <2>3. q \in [1 .. n -> S] BY <2>1, <2>2
    <2>4. n \in Nat OBVIOUS
    <2> HIDE DEF q
    <2> QED BY <2>3, <2>4
  <1> QED BY <1>1, <1>2, <1>3 DEF Lists

\* A store at the head appends.
Appends(ring, h, t, size, b) ==
  RingSeq([ring EXCEPT ![h] = b], t, Dist(Succ(h, size), t, size), size)
    = Append(RingSeq(ring, t, Dist(h, t, size), size), b)

LEMMA RingAppend ==
  ASSUME NEW size \in Nat, size >= 2, NEW S, NEW ring \in [0 .. size - 1 -> S],
         NEW h \in 0 .. size - 1, NEW t \in 0 .. size - 1, NEW b \in S, Succ(h, size) # t
  PROVE  Appends(ring, h, t, size, b)
  <1> DEFINE new == [ring EXCEPT ![h] = b]
             n   == Dist(h, t, size)
             p   == RingSeq(new, t, n + 1, size)
             q   == RingSeq(ring, t, n, size)
  <1>1. n \in 0 .. size - 1 /\ n + 1 \in 0 .. size - 1 /\ Dist(Succ(h, size), t, size) = n + 1
    BY DEF Dist, Succ, Pred
  <1>2. new \in [0 .. size - 1 -> S] OBVIOUS
  <1>3. Slot(t, n, size) = h BY DEF Slot, Dist
  <1>4. \A k \in 1 .. n : Slot(t, k - 1, size) # h BY <1>1 DEF Slot, Dist
  <1> HIDE DEF n, new
  <1>5. /\ p \in Seq(S) /\ Len(p) = n + 1
        /\ \A k \in 1 .. n + 1 : p[k] = new[Slot(t, k - 1, size)]
    <2>1. Lists(p, new, t, n + 1, size, S) BY <1>1, <1>2, RingElements
    <2> QED BY <2>1 DEF Lists
  <1>6. /\ q \in Seq(S) /\ Len(q) = n
        /\ \A k \in 1 .. n : q[k] = ring[Slot(t, k - 1, size)] /\ Slot(t, k - 1, size) \in 0 .. size - 1
    <2>1. Lists(q, ring, t, n, size, S) BY <1>1, RingElements
    <2> QED BY <2>1 DEF Lists
  <1>7. \A k \in 1 .. n : p[k] = q[k]
    <2> SUFFICES ASSUME NEW k \in 1 .. n PROVE p[k] = q[k] OBVIOUS
    <2>1. p[k] = new[Slot(t, k - 1, size)] BY <1>1, <1>5
    <2> QED BY <1>4, <1>6, <2>1 DEF new
  <1>8. p[n + 1] = b
    <2>1. p[n + 1] = new[Slot(t, (n + 1) - 1, size)] BY <1>1, <1>5
    <2>2. (n + 1) - 1 = n BY <1>1
    <2> QED BY <1>3, <2>1, <2>2 DEF new
  <1> HIDE DEF p, q
  <1>9. /\ Append(q, b) \in Seq(S) /\ Len(Append(q, b)) = n + 1
        /\ \A k \in 1 .. n + 1 : Append(q, b)[k] = IF k = n + 1 THEN b ELSE q[k]
    BY <1>1, <1>6
  <1>10. \A k \in 1 .. n + 1 : p[k] = Append(q, b)[k] BY <1>1, <1>7, <1>8, <1>9
  <1>11. p = Append(q, b) BY <1>5, <1>9, <1>10, SeqEqual
  <1> QED BY <1>1, <1>11 DEF p, q, n, new, Appends

\* A step of the tail takes the first.
LEMMA RingTail ==
  ASSUME NEW size \in Nat, size >= 2, NEW S, NEW ring \in [0 .. size - 1 -> S],
         NEW h \in 0 .. size - 1, NEW t \in 0 .. size - 1, h # t
  PROVE  LET q == RingSeq(ring, t, Dist(h, t, size), size)
         IN  /\ q # <<>> /\ Head(q) = ring[t]
             /\ RingSeq(ring, Succ(t, size), Dist(h, Succ(t, size), size), size) = Tail(q)
  <1> DEFINE n == Dist(h, t, size)
             u == Succ(t, size)
             q == RingSeq(ring, t, n, size)
             p == RingSeq(ring, u, n - 1, size)
  <1>1. /\ n \in 1 .. size - 1 /\ n \in 0 .. size - 1 /\ n - 1 \in 0 .. size - 1 /\ Dist(h, u, size) = n - 1
        /\ u \in 0 .. size - 1
    <2>1. n \in 0 .. size - 1 /\ n # 0 /\ Dist(h, u, size) = n - 1 /\ u \in 0 .. size - 1
      BY DEF Dist, Succ
    <2> QED BY <2>1
  <1>2. Slot(t, 0, size) = t BY DEF Slot
  <1>3. \A k \in 1 .. n - 1 : Slot(u, k - 1, size) = Slot(t, k, size)
    BY <1>1 DEF Slot, Succ
  <1> HIDE DEF n, u
  <1>4. /\ q \in Seq(S) /\ Len(q) = n
        /\ \A k \in 1 .. n : q[k] = ring[Slot(t, k - 1, size)]
    <2>1. Lists(q, ring, t, n, size, S) BY <1>1, RingElements
    <2> QED BY <2>1 DEF Lists
  <1>5. /\ p \in Seq(S) /\ Len(p) = n - 1
        /\ \A k \in 1 .. n - 1 : p[k] = ring[Slot(u, k - 1, size)]
    <2>1. Lists(p, ring, u, n - 1, size, S) BY <1>1, RingElements
    <2> QED BY <2>1 DEF Lists
  <1> HIDE DEF p, q
  <1>6. q # <<>> BY <1>1, <1>4
  <1>7. Head(q) = ring[t]
    <2>1. Head(q) = q[1] BY <1>4, <1>6
    <2>2. q[1] = ring[Slot(t, 1 - 1, size)] BY <1>1, <1>4
    <2> QED BY <1>2, <2>1, <2>2
  <1>8. /\ Tail(q) \in Seq(S) /\ Len(Tail(q)) = n - 1
        /\ \A k \in 1 .. n - 1 : Tail(q)[k] = q[k + 1]
    BY <1>4, <1>6, HeadTailProperties
  <1>9. \A k \in 1 .. n - 1 : p[k] = Tail(q)[k]
    <2> SUFFICES ASSUME NEW k \in 1 .. n - 1 PROVE p[k] = Tail(q)[k] OBVIOUS
    <2>1. p[k] = ring[Slot(t, k, size)] BY <1>3, <1>5
    <2>2. k + 1 \in 1 .. n /\ (k + 1) - 1 = k BY <1>1
    <2>3. q[k + 1] = ring[Slot(t, (k + 1) - 1, size)] BY <1>4, <2>2
    <2> QED BY <1>8, <2>1, <2>2, <2>3
  <1>10. p = Tail(q) BY <1>5, <1>8, <1>9, SeqEqual
  <1> QED BY <1>1, <1>6, <1>7, <1>10 DEF p, q, n, u

\* A store in front of the tail comes first.
LEMMA RingPush ==
  ASSUME NEW size \in Nat, size >= 2, NEW S, NEW ring \in [0 .. size - 1 -> S],
         NEW h \in 0 .. size - 1, NEW t \in 0 .. size - 1, NEW b \in S, Pred(t, size) # h
  PROVE  RingSeq([ring EXCEPT ![Pred(t, size)] = b], Pred(t, size),
                 Dist(h, Pred(t, size), size), size)
           = <<b>> \o RingSeq(ring, t, Dist(h, t, size), size)
  <1> DEFINE u   == Pred(t, size)
             new == [ring EXCEPT ![u] = b]
             n   == Dist(h, t, size)
             p   == RingSeq(new, u, n + 1, size)
             q   == RingSeq(ring, t, n, size)
  <1>1. /\ n \in 0 .. size - 1 /\ n + 1 \in 0 .. size - 1 /\ Dist(h, u, size) = n + 1
        /\ u \in 0 .. size - 1
    BY DEF Dist, Succ, Pred
  <1>2. new \in [0 .. size - 1 -> S] OBVIOUS
  <1>3. Slot(u, 0, size) = u BY <1>1 DEF Slot
  <1>4. \A k \in 1 .. n : Slot(u, k, size) = Slot(t, k - 1, size) /\ Slot(u, k, size) # u
    BY <1>1 DEF Slot, Pred
  <1>5. new[u] = b BY <1>1
  <1> HIDE DEF n, u, new
  <1>6. /\ p \in Seq(S) /\ Len(p) = n + 1
        /\ \A k \in 1 .. n + 1 : p[k] = new[Slot(u, k - 1, size)]
    <2>1. Lists(p, new, u, n + 1, size, S) BY <1>1, <1>2, RingElements
    <2> QED BY <2>1 DEF Lists
  <1>7. /\ q \in Seq(S) /\ Len(q) = n
        /\ \A k \in 1 .. n : q[k] = ring[Slot(t, k - 1, size)] /\ Slot(t, k - 1, size) \in 0 .. size - 1
    <2>1. Lists(q, ring, t, n, size, S) BY <1>1, RingElements
    <2> QED BY <2>1 DEF Lists
  <1>8. p[1] = b
    <2>1. p[1] = new[Slot(u, 1 - 1, size)] BY <1>1, <1>6
    <2> QED BY <1>3, <1>5, <2>1
  <1>9. \A k \in 1 .. n : p[k + 1] = q[k]
    <2> SUFFICES ASSUME NEW k \in 1 .. n PROVE p[k + 1] = q[k] OBVIOUS
    <2>1. k + 1 \in 1 .. n + 1 /\ (k + 1) - 1 = k BY <1>1
    <2>2. p[k + 1] = new[Slot(u, (k + 1) - 1, size)] BY <1>6, <2>1
    <2> QED BY <1>4, <1>7, <2>1, <2>2 DEF new
  <1> HIDE DEF p, q
  <1>10. /\ <<b>> \o q \in Seq(S) /\ Len(<<b>> \o q) = n + 1
         /\ \A k \in 1 .. n + 1 : (<<b>> \o q)[k] = IF k = 1 THEN b ELSE q[k - 1]
    BY <1>1, <1>7
  <1>11. \A k \in 1 .. n + 1 : p[k] = (<<b>> \o q)[k]
    <2> SUFFICES ASSUME NEW k \in 1 .. n + 1, k # 1 PROVE p[k] = q[k - 1] BY <1>8, <1>10
    <2>1. k - 1 \in 1 .. n /\ (k - 1) + 1 = k BY <1>1
    <2> QED BY <1>9, <2>1
  <1>12. p = <<b>> \o q BY <1>6, <1>10, <1>11, SeqEqual
  <1> QED BY <1>1, <1>12 DEF p, q, n, u, new

--------------------------------------------------------------------------------
(***************************************************************************)
(* The receive half.                                                       *)
(***************************************************************************)
RxQueue == RingSeq(rx_ring, r_tail, ring_count, RxSize)
Got     == IF mpc = "pop_publish" THEN None ELSE ch

\* What main has read is the byte whose slot it is about to give back, and it
\* works on one byte at a time.
FetchInv ==
  /\ mpc = "pop_publish" => ch = rx_ring[r_tail]
  /\ ch # None => \/ mpc \in {"pop_publish", "getch_check", "feed", "res_mask", "res_check", "res_commit"}
                  \/ mpc \in {"arm", "unmask"} /\ ret \in {"feed", "res_mask"}

LEMMA FetchInductive == TInv /\ CommitInv /\ FetchInv /\ [Next]_vars => FetchInv'
  <1> SUFFICES ASSUME TInv, CommitInv, FetchInv, [Next]_vars PROVE FetchInv' OBVIOUS
  <1> USE DEF FetchInv
  <1>1. CASE PopRead
    <2>1. mpc' \in {"feed", "pop_publish"} /\ (mpc' = "pop_publish" => ch' = rx_ring[r_tail])
      BY <1>1 DEF PopRead, Goto
    <2>2. rx_ring' = rx_ring /\ r_tail' = r_tail BY <1>1 DEF PopRead, rxVars
    <2> QED BY <2>1, <2>2
  <1>2. CASE PollRx \/ PopPublish \/ GetchCheck \/ Feed \/ Keyboard \/ Mask
    BY <1>2 DEF PollRx, PopPublish, GetchCheck, Feed, Keyboard, Mask, At, Goto
  <1>3. CASE PutCheck \/ PutCommit \/ WriteCheck \/ WriteCommit
    BY <1>3 DEF PutCheck, PutCommit, WriteCheck, WriteCommit, At, Goto
  <1>4. CASE ResumeCheck \/ ResumeCommit \/ ArmTx
    BY <1>4 DEF ResumeCheck, ResumeCommit, ArmTx, At, Goto
  <1>5. CASE IrqOn
    <2>1. ret \in RetPc BY DEF TInv, WriteInv, MainType
    <2> QED BY <1>5, <2>1 DEF IrqOn, At, Goto, RetPc
  <1>6. CASE IsrRx
    <2>1. UNCHANGED <<mpc, ch, ret, r_tail>> BY <1>6 DEF IsrRx, mainVars
    <2>2. mpc = "pop_publish" => rx_ring'[r_tail] = rx_ring[r_tail]
      BY <1>6 DEF IsrRx, CommitInv, TInv, RxType
    <2> QED BY <2>1, <2>2
  <1>7. CASE \/ IsrEnter \/ IsrStatus \/ IsrHiwater \/ IsrTxIdle \/ IsrTxDisarm \/ IsrTxSend
             \/ IsrExit \/ Arrive \/ Deliver \/ OtherInterrupt \/ UNCHANGED vars
    <2>1. UNCHANGED <<mpc, ch, ret, rx_ring, r_tail>>
      BY <1>7 DEF IsrEnter, IsrStatus, IsrHiwater, IsrTxIdle, IsrTxDisarm, IsrTxSend, IsrExit,
         Arrive, Deliver, OtherInterrupt, vars, mainVars, rxVars
    <2> QED BY <2>1
  <1> QED BY <1>1, <1>2, <1>3, <1>4, <1>5, <1>6, <1>7 DEF Next, Main, Isr

LEMMA RxStutter ==
  UNCHANGED <<rx_ring, r_head, r_tail, rdr, Got>> => UNCHANGED Rx!rxpVars
  BY DEF Rx!rxpVars, Got, ring_count

\* How full the ring is, and what the queue is to the FIFO.
LEMMA RxQueueFacts ==
  ASSUME TInv
  PROVE  /\ RxSize \in Nat /\ RxSize >= 2 /\ rx_ring \in [0 .. RxSize - 1 -> HostBytes \cup {None}]
         /\ r_head \in 0 .. RxSize - 1 /\ r_tail \in 0 .. RxSize - 1
         /\ Len(RxQueue) = ring_count /\ ring_count \in 0 .. RxSize - 1
         /\ Succ(r_head, RxSize) # r_tail <=> ring_count < RxSize - 1
         /\ Succ(r_head, RxSize) = r_tail <=> ring_count = RxSize - 1
  <1>1. /\ RxSize \in Nat /\ RxSize >= 2 /\ rx_ring \in [0 .. RxSize - 1 -> HostBytes \cup {None}]
        /\ r_head \in 0 .. RxSize - 1 /\ r_tail \in 0 .. RxSize - 1
    BY SizeAssumption DEF TInv, RxType
  <1>2. /\ ring_count \in 0 .. RxSize - 1
        /\ Succ(r_head, RxSize) # r_tail <=> ring_count < RxSize - 1
    BY <1>1 DEF ring_count, Dist, Succ
  <1>3. Lists(RxQueue, rx_ring, r_tail, ring_count, RxSize, HostBytes \cup {None})
    BY <1>1, <1>2, RingElements DEF RxQueue
  <1> QED BY <1>1, <1>2, <1>3 DEF Lists

\* The handler's read of the data register stores the byte or gives it up.
LEMMA RxReceives == ASSUME TInv, SignalInv, IsrRx PROVE Rx!Store \/ Rx!GiveUp
  <1>1. rdr # None /\ rdr \in HostBytes \cup {None} /\ rdr' = None /\ UNCHANGED <<mpc, ch, r_tail>>
    BY DEF IsrRx, SignalInv, TInv, AciaType, mainVars
  <1>2. CASE Succ(r_head, RxSize) # r_tail
    <2>1. rx_ring' = [rx_ring EXCEPT ![r_head] = rdr] /\ r_head' = Succ(r_head, RxSize)
      BY <1>2 DEF IsrRx
    <2>2. Appends(rx_ring, r_head, r_tail, RxSize, rdr) BY <1>1, <1>2, RxQueueFacts, RingAppend
    <2>3. RxQueue' = Append(RxQueue, rdr) BY <1>1, <2>1, <2>2 DEF RxQueue, ring_count, Appends
    <2>4. Len(RxQueue) < RxSize - 1 BY <1>2, RxQueueFacts
    <2> QED BY <1>1, <2>3, <2>4 DEF Rx!Store, RxQueue
  <1>3. CASE Succ(r_head, RxSize) = r_tail
    <2>1. UNCHANGED <<rx_ring, r_head>> BY <1>3 DEF IsrRx
    <2>2. Len(RxQueue) = RxSize - 1 BY <1>3, RxQueueFacts
    <2> QED BY <1>1, <2>1, <2>2 DEF Rx!GiveUp, RxQueue, ring_count
  <1> QED BY <1>2, <1>3

\* The store that gives the slot back hands the byte over.
LEMMA RxTakes == ASSUME TInv, CommitInv, FetchInv, PopPublish PROVE Rx!Take
  <1>1. /\ mpc = "pop_publish" /\ mpc' # "pop_publish" /\ r_tail' = Succ(r_tail, RxSize)
        /\ UNCHANGED <<rx_ring, r_head, ch, rdr>>
    BY DEF PopPublish, At, Goto, aciaVars
  <1>2. r_head # r_tail /\ ch = rx_ring[r_tail] BY <1>1 DEF CommitInv, FetchInv
  <1>3. LET q == RingSeq(rx_ring, r_tail, Dist(r_head, r_tail, RxSize), RxSize)
        IN  /\ q # <<>> /\ Head(q) = rx_ring[r_tail]
            /\ RingSeq(rx_ring, Succ(r_tail, RxSize), Dist(r_head, Succ(r_tail, RxSize), RxSize), RxSize) = Tail(q)
    BY <1>2, RxQueueFacts, RingTail
  <1>4. RxQueue # <<>> /\ Head(RxQueue) = ch /\ RxQueue' = Tail(RxQueue)
    BY <1>1, <1>2, <1>3 DEF RxQueue, ring_count
  <1> QED BY <1>1, <1>4 DEF Rx!Take, RxQueue

LEMMA RxStep ==
  ASSUME TInv, CommitInv, SignalInv, FetchInv, [Next]_vars
  PROVE  [Rx!RxpNext]_(Rx!rxpVars)
  <1>1. CASE IsrRx BY <1>1, RxReceives DEF Rx!RxpNext
  <1>2. CASE PopPublish BY <1>2, RxTakes DEF Rx!RxpNext
  <1>3. CASE Arrive
    <2>1. /\ rdr = None /\ rdr' \in HostBytes
          /\ UNCHANGED <<rx_ring, r_head, r_tail, mpc, ch>>
      BY <1>3 DEF Arrive, rxVars, mainVars
    <2> QED BY <2>1 DEF Rx!RxpNext, Rx!Arrive, ring_count
  <1>4. CASE Feed
    <2>1. /\ mpc = "feed" /\ mpc' # "pop_publish" /\ ch' = None
          /\ UNCHANGED <<rx_ring, r_head, r_tail, rdr>>
      BY <1>4 DEF Feed, At, Goto, rxVars, aciaVars
    <2>2. CASE ch = None BY <2>1, <2>2, RxStutter DEF Got
    <2>3. CASE ch # None BY <2>1, <2>3 DEF Rx!RxpNext, Rx!Finish, ring_count
    <2> QED BY <2>2, <2>3
  <1>5. CASE PopRead
    <2>1. /\ mpc = "pop_read" /\ UNCHANGED <<rx_ring, r_head, r_tail, rdr>>
          /\ (mpc' = "feed" /\ ch' = ch) \/ mpc' = "pop_publish"
      BY <1>5 DEF PopRead, At, Goto, rxVars, aciaVars
    <2>2. ch = None BY <2>1 DEF FetchInv
    <2>3. Got' = Got BY <2>1, <2>2 DEF Got
    <2> QED BY <2>1, <2>3, RxStutter
  <1>6. CASE \/ PollRx \/ GetchCheck \/ Keyboard \/ Mask \/ PutCheck \/ PutCommit \/ WriteCheck
             \/ WriteCommit \/ ResumeCheck \/ ResumeCommit \/ ArmTx \/ IrqOn
    <2>1. UNCHANGED <<rx_ring, r_head, r_tail, rdr, ch>>
      BY <1>6 DEF PollRx, GetchCheck, Keyboard, Mask, PutCheck, PutCommit, WriteCheck, WriteCommit,
         ResumeCheck, ResumeCommit, ArmTx, IrqOn, rxVars, aciaVars
    <2>2. ret \in RetPc BY DEF TInv, WriteInv, MainType
    <2>3. mpc # "pop_publish" /\ mpc' # "pop_publish"
      BY <1>6, <2>2 DEF PollRx, GetchCheck, Keyboard, Mask, PutCheck, PutCommit, WriteCheck, WriteCommit,
         ResumeCheck, ResumeCommit, ArmTx, IrqOn, At, Goto, RetPc
    <2>4. Got' = Got BY <2>1, <2>3 DEF Got
    <2> QED BY <2>1, <2>4, RxStutter
  <1>7. CASE \/ IsrEnter \/ IsrStatus \/ IsrHiwater \/ IsrTxIdle \/ IsrTxDisarm \/ IsrTxSend
             \/ IsrExit \/ Deliver \/ OtherInterrupt \/ UNCHANGED vars
    <2>1. UNCHANGED <<rx_ring, r_head, r_tail, rdr, mpc, ch>>
      BY <1>7 DEF IsrEnter, IsrStatus, IsrHiwater, IsrTxIdle, IsrTxDisarm, IsrTxSend, IsrExit,
         Deliver, OtherInterrupt, vars, rxVars, mainVars, aciaVars
    <2>2. Got' = Got BY <2>1 DEF Got
    <2> QED BY <2>1, <2>2, RxStutter
  <1> QED BY <1>1, <1>2, <1>3, <1>4, <1>5, <1>6, <1>7 DEF Next, Main, Isr

--------------------------------------------------------------------------------
(***************************************************************************)
(* The transmit half.                                                      *)
(***************************************************************************)
LEMMA TxStutter == UNCHANGED <<txVars, tdr, xoff_sent>> => UNCHANGED Tx!txpVars
  BY DEF Tx!txpVars, txVars, TxQueue, TxCount

LEMMA TxQueueFacts ==
  ASSUME TInv
  PROVE  /\ TxSize \in Nat /\ TxSize >= 2 /\ tx_ring \in [0 .. TxSize - 1 -> TxData \cup {None}]
         /\ t_head \in 0 .. TxSize - 1 /\ t_tail \in 0 .. TxSize - 1
         /\ Len(TxQueue) = TxCount /\ TxCount \in 0 .. TxSize - 1
  <1>1. /\ TxSize \in Nat /\ TxSize >= 2 /\ tx_ring \in [0 .. TxSize - 1 -> TxData \cup {None}]
        /\ t_head \in 0 .. TxSize - 1 /\ t_tail \in 0 .. TxSize - 1
    BY SizeAssumption DEF TInv, TxType
  <1>2. TxCount \in 0 .. TxSize - 1 BY TxRoom DEF TInv
  <1>3. Lists(TxQueue, tx_ring, t_tail, TxCount, TxSize, TxData \cup {None})
    BY <1>1, <1>2, RingElements DEF TxQueue
  <1> QED BY <1>1, <1>2, <1>3 DEF Lists

\* What main puts at the head is appended.
LEMMA TxAppends ==
  ASSUME TInv, NEW b \in TxData, tx_ring' = [tx_ring EXCEPT ![t_head] = b],
         t_head' = Succ(t_head, TxSize), t_tail' = t_tail, Succ(t_head, TxSize) # t_tail
  PROVE  TxQueue' = Append(TxQueue, b)
  <1>1. Appends(tx_ring, t_head, t_tail, TxSize, b)
    <2>1. b \in TxData \cup {None} OBVIOUS
    <2> QED BY <2>1, TxQueueFacts, RingAppend
  <1> QED BY <1>1 DEF TxQueue, TxCount, Appends

LEMMA TxOutputs == ASSUME TInv, CommitInv, PutCommit \/ WriteCommit PROVE Tx!Output
  <1>1. PICK b \in TermBytes : tx_ring' = [tx_ring EXCEPT ![t_head] = b]
    BY DEF PutCommit, WriteCommit
  <1>2. t_head' = nh /\ UNCHANGED <<t_tail, tdr, xoff_sent>>
    BY DEF PutCommit, WriteCommit, ctlVars, aciaVars
  <1>3. nh = Succ(t_head, TxSize) /\ RoomForOutput
    BY DEF CommitInv, PutCommit, WriteCommit, At
  <1>4. TxCount <= TxSize - 3 BY <1>3, TxRoom DEF TInv
  <1>5. TxQueue' = Append(TxQueue, b)
    BY <1>1, <1>2, <1>3, TxAppends DEF RoomForOutput, TxData
  <1>6. Len(TxQueue) < (TxSize - 1) - 1 BY <1>4, TxQueueFacts
  <1> QED BY <1>1, <1>2, <1>5, <1>6 DEF Tx!Output

LEMMA TxResumes == ASSUME TInv, CommitInv, ResumeCommit PROVE Tx!Resume
  <1>1. /\ tx_ring' = [tx_ring EXCEPT ![t_head] = XON] /\ t_head' = nh /\ xoff_sent' = FALSE
        /\ UNCHANGED <<t_tail, tdr>>
    BY DEF ResumeCommit, aciaVars
  <1>2. nh = Succ(t_head, TxSize) /\ nh # t_tail /\ xoff_sent
    BY DEF CommitInv, ResumeCommit, At
  <1>3. TxQueue' = Append(TxQueue, XON) BY <1>1, <1>2, TxAppends DEF TxData
  <1>4. Len(TxQueue) < TxSize - 1 BY <1>2, TxRoom, TxQueueFacts DEF TInv
  <1> QED BY <1>1, <1>2, <1>3, <1>4 DEF Tx!Resume

\* What the handler puts in front of the tail comes first.
LEMMA TxThrottles ==
  ASSUME TInv, IsrHiwater, ring_count >= RingHigh, ~xoff_sent, Pred(t_tail, TxSize) # t_head
  PROVE  Tx!Throttle
  <1>1. /\ tx_ring' = [tx_ring EXCEPT ![Pred(t_tail, TxSize)] = XOFF] /\ t_tail' = Pred(t_tail, TxSize)
        /\ xoff_sent' = TRUE /\ UNCHANGED <<t_head, tdr>>
    BY DEF IsrHiwater
  <1>2. RingSeq([tx_ring EXCEPT ![Pred(t_tail, TxSize)] = XOFF], Pred(t_tail, TxSize),
                Dist(t_head, Pred(t_tail, TxSize), TxSize), TxSize)
          = <<XOFF>> \o RingSeq(tx_ring, t_tail, Dist(t_head, t_tail, TxSize), TxSize)
    <2> DEFINE S == TxData \cup {None}
    <2>1. /\ TxSize \in Nat /\ TxSize >= 2 /\ tx_ring \in [0 .. TxSize - 1 -> S]
          /\ t_head \in 0 .. TxSize - 1 /\ t_tail \in 0 .. TxSize - 1 /\ XOFF \in S
      BY TxQueueFacts DEF TxData
    <2> HIDE DEF S
    <2> QED BY <2>1, RingPush
  <1>3. TxQueue' = <<XOFF>> \o TxQueue BY <1>1, <1>2 DEF TxQueue, TxCount
  <1>4. Len(TxQueue) < TxSize - 1 BY TxRoom, TxQueueFacts DEF TInv
  <1> QED BY <1>1, <1>3, <1>4 DEF Tx!Throttle

LEMMA TxTransmits == ASSUME TInv, SampleInv, IsrTxSend PROVE Tx!Transmit
  <1>1. /\ tdr = None /\ t_head # t_tail /\ tdr' = tx_ring[t_tail] /\ t_tail' = Succ(t_tail, TxSize)
        /\ UNCHANGED <<tx_ring, t_head, xoff_sent>>
    BY DEF IsrTxSend, SampleInv, ctlVars
  <1>2. LET q == RingSeq(tx_ring, t_tail, Dist(t_head, t_tail, TxSize), TxSize)
        IN  /\ q # <<>> /\ Head(q) = tx_ring[t_tail]
            /\ RingSeq(tx_ring, Succ(t_tail, TxSize), Dist(t_head, Succ(t_tail, TxSize), TxSize), TxSize) = Tail(q)
    BY <1>1, TxQueueFacts, RingTail
  <1>3. TxQueue # <<>> /\ Head(TxQueue) = tx_ring[t_tail] /\ TxQueue' = Tail(TxQueue)
    BY <1>1, <1>2 DEF TxQueue, TxCount
  <1> QED BY <1>1, <1>3 DEF Tx!Transmit

LEMMA TxStep ==
  ASSUME TInv, CommitInv, SampleInv, [Next]_vars
  PROVE  [Tx!TxpNext]_(Tx!txpVars)
  <1>1. CASE PutCommit \/ WriteCommit BY <1>1, TxOutputs DEF Tx!TxpNext
  <1>2. CASE ResumeCommit BY <1>2, TxResumes DEF Tx!TxpNext
  <1>3. CASE IsrHiwater
    <2>1. CASE ring_count >= RingHigh /\ ~xoff_sent /\ Pred(t_tail, TxSize) # t_head
      BY <1>3, <2>1, TxThrottles DEF Tx!TxpNext
    <2>2. CASE ~(ring_count >= RingHigh /\ ~xoff_sent /\ Pred(t_tail, TxSize) # t_head)
      <3>1. UNCHANGED <<txVars, tdr, xoff_sent>> BY <1>3, <2>2 DEF IsrHiwater, txVars, ctlVars
      <3> QED BY <3>1, TxStutter
    <2> QED BY <2>1, <2>2
  <1>4. CASE IsrTxSend BY <1>4, TxTransmits DEF Tx!TxpNext
  <1>5. CASE Deliver
    <2>1. tdr # None /\ tdr' = None /\ UNCHANGED <<txVars, xoff_sent>>
      BY <1>5 DEF Deliver, ctlVars
    <2> QED BY <2>1 DEF Tx!TxpNext, Tx!Deliver, TxQueue, TxCount, txVars
  <1>6. CASE \/ PollRx \/ PopRead \/ PopPublish \/ GetchCheck \/ Feed \/ Keyboard
             \/ Mask \/ PutCheck \/ WriteCheck \/ ResumeCheck \/ ArmTx \/ IrqOn
    <2>1. UNCHANGED <<txVars, tdr, xoff_sent>>
      BY <1>6 DEF PollRx, PopRead, PopPublish, GetchCheck, Feed, Keyboard, Mask,
         PutCheck, WriteCheck, ResumeCheck, ArmTx, IrqOn, ctlVars, aciaVars
    <2> QED BY <2>1, TxStutter
  <1>7. CASE \/ IsrEnter \/ IsrStatus \/ IsrRx \/ IsrTxIdle \/ IsrTxDisarm \/ IsrExit
             \/ Arrive \/ OtherInterrupt \/ UNCHANGED vars
    <2>1. UNCHANGED <<txVars, tdr, xoff_sent>>
      BY <1>7 DEF IsrEnter, IsrStatus, IsrRx, IsrTxIdle, IsrTxDisarm, IsrExit, Arrive,
         OtherInterrupt, vars, ctlVars, aciaVars
    <2> QED BY <2>1, TxStutter
  <1> QED BY <1>1, <1>2, <1>3, <1>4, <1>5, <1>6, <1>7 DEF Next, Main, Isr

--------------------------------------------------------------------------------
LEMMA FifoInit ==
  Init => TInv /\ MaskInv /\ CommitInv /\ SignalInv /\ SampleInv /\ FetchInv
  BY TypeInit, SizeAssumption DEF Init, MaskInv, Masked, CommitInv, SignalInv, SampleInv, FetchInv

LEMMA FifoInductive ==
  Spec => [](TInv /\ MaskInv /\ CommitInv /\ SignalInv /\ SampleInv /\ FetchInv)
  <1>1. TInv /\ MaskInv /\ CommitInv /\ SignalInv /\ SampleInv /\ FetchInv /\ [Next]_vars
          => (TInv /\ MaskInv /\ CommitInv /\ SignalInv /\ SampleInv /\ FetchInv)'
    BY TypeStep, MaskInductive, CommitInductive, SignalInductive, SampleInductive, FetchInductive
  <1> QED BY <1>1, FifoInit, PTL DEF Spec

LEMMA EmptyRing ==
  ASSUME NEW ring, NEW t, NEW size
  PROVE  RingSeq(ring, t, 0, size) = <<>>
  BY DEF RingSeq

\* Between the parser and the wire the driver is two bounded FIFOs and nothing
\* else, however its handler interrupts it and whatever the host does.
THEOREM ImplementsFifosCorrect == Spec => ImplementsFifos
  <1>1. Init => Rx!RxpInit /\ Tx!TxpInit
    <2> SUFFICES ASSUME Init PROVE Rx!RxpInit /\ Tx!TxpInit OBVIOUS
    <2> USE DEF Init
    <2>1. ring_count = 0 /\ TxCount = 0
      BY SizeAssumption DEF ring_count, TxCount, Dist
    <2>2. RxQueue = <<>> /\ TxQueue = <<>>
      BY <2>1, EmptyRing DEF RxQueue, TxQueue
    <2>3. Rx!RxpInit BY <2>2 DEF Rx!RxpInit, RxQueue
    <2>4. Tx!TxpInit BY <2>2 DEF Tx!TxpInit
    <2> QED BY <2>3, <2>4
  <1>2. TInv /\ CommitInv /\ SignalInv /\ FetchInv /\ [Next]_vars => [Rx!RxpNext]_(Rx!rxpVars)
    BY RxStep
  <1>3. TInv /\ CommitInv /\ SampleInv /\ [Next]_vars => [Tx!TxpNext]_(Tx!txpVars)
    BY TxStep
  <1> QED BY <1>1, <1>2, <1>3, FifoInductive, PTL
       DEF Spec, ImplementsFifos, ReceivesInOrder, TransmitsInOrder, Rx!RxpSpec, Tx!TxpSpec

================================================================================
