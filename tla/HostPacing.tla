------------------------------- MODULE HostPacing -------------------------------
(***************************************************************************)
(* How a host paces the terminal: bench.Terminal, its reader thread and    *)
(* the benchmark that drives it.  The sender writes a group of bytes, asks *)
(* for the cursor position behind it and waits for any report before it    *)
(* writes the next group; it also stops while the reader thread has seen   *)
(* an XOFF.  A report carries no mark of the question it answers.          *)
(*                                                                         *)
(* The terminal is what SerialDriver shows the driver to be: a bounded     *)
(* receive FIFO, replies in order, XOFF in front of them.  Unlike there,   *)
(* bytes already in the socket when an XOFF arrives are not limited.       *)
(***************************************************************************)
EXTENDS Integers, Sequences, SequencesExt

CONSTANTS
  Window,            \* data bytes in one group (WINDOW, 96)
  Chunk,             \* bytes written between two tests of the pause flag (16)
  RingCap,           \* bytes the terminal's receive ring holds (255)
  RingHigh, RingLow, \* its water marks (192, 64)
  MaxTries,          \* rounds of wait_ready before its deadline
  Trials,            \* clear, sync and stream rounds of the benchmark
  Windows,           \* groups per round
  Hasty              \* the waits whose timeout may beat a reply on its way

Ops == {"ready", "clear", "sync", "window"}

ASSUME SizeAssumption ==
  /\ {Window, Chunk, RingCap, MaxTries, Trials, Windows} \subseteq Nat \ {0}
  /\ RingHigh \in 1 .. RingCap /\ RingLow \in 0 .. RingHigh - 1
ASSUME HastyAssumption == Hasty \subseteq Ops

VARIABLES
  op, step,          \* the sender: call in progress and where it is in it
  out,               \* what the call has still to write
  tries, trial, wleft, \* rounds of wait_ready, rounds of the benchmark, groups left
  asked,             \* history: questions asked so far, which numbers them
  paused, heard,     \* Terminal._paused, the reports that have reached Terminal._buf
  got, scan,         \* the reader: bytes received, how many it has looked at
  gone,              \* Terminal._disconnected
  conn,              \* the emulator is running
  pipe, back,        \* the socket, to and from the terminal
  up, ring, txq, xoff_sent, \* the terminal: booted, receive ring, transmit ring
  lost               \* history: a booted terminal's full ring dropped a byte

sender   == <<op, step, out, tries, trial, wleft, asked>>
reader   == <<got, scan, gone>>
shared   == <<paused, heard>>
socket   == <<conn, pipe, back>>
terminal == <<up, ring, txq, xoff_sent, lost>>
vars == <<sender, reader, shared, socket, terminal>>

Data   == [kind |-> "data", id |-> 0]
Ask(n) == [kind |-> "ask", id |-> n]
Cpr(n) == [kind |-> "cpr", id |-> n]
XON    == [kind |-> "xon", id |-> 0]
XOFF   == [kind |-> "xoff", id |-> 0]
Reports(s) == {m \in Range(s) : m.kind = "cpr"}

Init ==
  /\ op = "ready" /\ step = "begin" /\ out = <<>>
  /\ tries = 0 /\ trial = 0 /\ wleft = 0 /\ asked = 0
  /\ paused = FALSE /\ heard = {} /\ got = <<>> /\ scan = 0 /\ gone = FALSE
  /\ conn = TRUE /\ pipe = <<>> /\ back = <<>>
  /\ up = FALSE /\ ring = <<>> /\ txq = <<>> /\ xoff_sent = FALSE /\ lost = FALSE

At(s) == op \in Ops /\ step = s
Enter(o) == op' = o /\ step' = "begin"

--------------------------------------------------------------------------------
(***************************************************************************)
(* The sender.                                                             *)
(***************************************************************************)
\* Deviation: send_windowed does not discard the reports already there.
StaleClearBuf == heard' = IF op = "window" THEN heard ELSE {}

ClearBuf == heard' = {}

\* Deviation: a group is flushed after the chunk that overfills it.
OverfullGroups == 1 .. Window + 1

\* flush is called before a chunk would take the group past the window
Groups == 1 .. Window

\* the bytes the call is about to send; clear_buf first, if it asks a question
Begin ==
  /\ At("begin")
  /\ IF op = "clear"
     THEN out' = <<Data>> /\ UNCHANGED <<asked, heard>>
     ELSE /\ \E n \in (IF op = "window" THEN Groups ELSE {0}) :
               out' = Append([i \in 1 .. n |-> Data], Ask(asked + 1))
          /\ asked' = asked + 1
          /\ ClearBuf
  /\ step' = "send"
  /\ UNCHANGED <<op, tries, trial, wleft, paused, reader, socket, terminal>>

\* send: the pause flag is tested before each chunk, not while it is written
TestPause ==
  /\ At("send") /\ out # <<>> /\ ~paused
  /\ step' = "chunk"
  /\ UNCHANGED <<op, out, tries, trial, wleft, asked, shared, reader, socket, terminal>>

\* Writing to a socket whose peer has gone may succeed or raise.
WriteChunk ==
  /\ At("chunk") /\ ~gone
  /\ LET n == IF Len(out) < Chunk THEN Len(out) ELSE Chunk
     IN  /\ pipe' = IF conn THEN pipe \o SubSeq(out, 1, n) ELSE pipe
         /\ out' = SubSeq(out, n + 1, Len(out))
  /\ step' = "send"
  /\ UNCHANGED <<op, tries, trial, wleft, asked, shared, reader, conn, back, terminal>>

\* the terminal has gone: seen while paused or before a write, or raised by it
SendFails ==
  /\ \/ At("send") /\ out # <<>> /\ paused /\ gone
     \/ At("chunk") /\ ~conn
  /\ op' = "failed"
  /\ UNCHANGED <<step, out, tries, trial, wleft, asked, shared, reader, socket, terminal>>

\* what the benchmark calls next: clear_screen, sync, send_windowed
AfterTrial == IF trial = Trials THEN op' = "done" /\ UNCHANGED <<step, trial, wleft>>
              ELSE Enter("clear") /\ trial' = trial + 1 /\ wleft' = Windows

\* Deviation: the question that follows clear_screen is not waited for.
UnsyncedSendDone ==
  /\ At("send") /\ out = <<>>
  /\ CASE op = "clear" -> Enter("sync")
       [] op = "sync"  -> Enter("window")
       [] OTHER        -> step' = "wait" /\ UNCHANGED op
  /\ UNCHANGED <<out, tries, trial, wleft, asked, shared, reader, socket, terminal>>

SendDone ==
  /\ At("send") /\ out = <<>>
  /\ IF op = "clear" THEN Enter("sync") ELSE step' = "wait" /\ UNCHANGED op
  /\ UNCHANGED <<out, tries, trial, wleft, asked, shared, reader, socket, terminal>>

\* wait_cpr returns True: any report will do
Acked ==
  /\ At("wait") /\ heard # {}
  /\ \/ op = "ready" /\ AfterTrial /\ ClearBuf
     \/ op = "sync" /\ Enter("window") /\ ClearBuf /\ UNCHANGED <<trial, wleft>>
     \/ /\ op = "window" /\ UNCHANGED heard
        /\ IF wleft > 1
           THEN Enter("window") /\ wleft' = wleft - 1 /\ UNCHANGED trial
           ELSE AfterTrial
  /\ UNCHANGED <<out, tries, asked, paused, reader, socket, terminal>>

Pending(s) == \E i \in DOMAIN s : s[i].kind \in {"ask", "cpr"}
AnswerComing == \E s \in {pipe, ring, txq, back, got} : Pending(s)

\* wait_cpr returns False: wait_ready asks again until its deadline, sync carries
\* on, send_windowed raises and the round is abandoned
TimeOut ==
  /\ At("wait") /\ heard = {}
  /\ op \in Hasty \/ ~AnswerComing
  /\ \/ /\ op = "ready" /\ tries' = tries + 1 /\ UNCHANGED <<trial, wleft>>
        /\ IF tries + 1 < MaxTries THEN Enter("ready") ELSE op' = "failed" /\ UNCHANGED step
     \/ op = "sync" /\ Enter("window") /\ UNCHANGED <<tries, trial, wleft>>
     \/ op = "window" /\ AfterTrial /\ UNCHANGED tries
  /\ UNCHANGED <<out, asked, shared, reader, socket, terminal>>

Sender == Begin \/ TestPause \/ WriteChunk \/ SendFails \/ SendDone \/ Acked \/ TimeOut

--------------------------------------------------------------------------------
(***************************************************************************)
(* The reader thread.  It obeys every control byte of what it received     *)
(* before it lets the sender see the reports among them.                   *)
(***************************************************************************)
Recv ==
  /\ got = <<>> /\ back # <<>> /\ ~gone
  /\ \E n \in 1 .. Len(back) : got' = SubSeq(back, 1, n) /\ back' = SubSeq(back, n + 1, Len(back))
  /\ scan' = 0
  /\ UNCHANGED <<sender, shared, gone, conn, pipe, terminal>>

\* Deviation: the batch is searched for an XOFF, and for an XON only without one.
UnorderedScan ==
  /\ scan < Len(got)
  /\ scan' = Len(got)
  /\ paused' = (XOFF \in Range(got) \/ (paused /\ XON \notin Range(got)))
  /\ UNCHANGED <<sender, heard, got, gone, socket, terminal>>

Scan ==
  /\ scan < Len(got)
  /\ scan' = scan + 1
  /\ paused' = CASE got[scan + 1] = XOFF -> TRUE
                 [] got[scan + 1] = XON  -> FALSE
                 [] OTHER                -> paused
  /\ UNCHANGED <<sender, heard, got, gone, socket, terminal>>

Extend ==
  /\ got # <<>> /\ scan = Len(got)
  /\ heard' = heard \cup Reports(got)
  /\ got' = <<>> /\ scan' = 0
  /\ UNCHANGED <<sender, paused, gone, socket, terminal>>

Eof ==
  /\ got = <<>> /\ back = <<>> /\ ~conn /\ ~gone
  /\ gone' = TRUE
  /\ UNCHANGED <<sender, shared, got, scan, socket, terminal>>

Reader == Recv \/ Scan \/ Extend \/ Eof

--------------------------------------------------------------------------------
(***************************************************************************)
(* The terminal and the emulator that runs it.                             *)
(***************************************************************************)
Boot ==
  /\ conn /\ ~up
  /\ up' = TRUE
  /\ UNCHANGED <<sender, reader, shared, socket, ring, txq, xoff_sent, lost>>

\* A byte reaches the card: lost before serial_init, else stored by the handler,
\* which throttles at high water and gives up the byte when the ring is full.
Deliver ==
  /\ pipe # <<>>
  /\ pipe' = Tail(pipe)
  /\ IF ~up THEN UNCHANGED <<ring, txq, xoff_sent, lost>>
     ELSE /\ ring' = IF Len(ring) < RingCap THEN Append(ring, Head(pipe)) ELSE ring
          /\ lost' = (lost \/ Len(ring) = RingCap)
          /\ IF Len(ring') >= RingHigh /\ ~xoff_sent
             THEN txq' = <<XOFF>> \o txq /\ xoff_sent' = TRUE
             ELSE UNCHANGED <<txq, xoff_sent>>
  /\ UNCHANGED <<sender, reader, shared, conn, back, up>>

\* The main loop takes a byte, releases the host at low water, and answers.
Process ==
  /\ ring # <<>>
  /\ ring' = Tail(ring)
  /\ LET xon == xoff_sent /\ Len(ring) - 1 <= RingLow
     IN  /\ txq' = txq \o (IF xon THEN <<XON>> ELSE <<>>)
                       \o (IF Head(ring).kind = "ask" THEN <<Cpr(Head(ring).id)>> ELSE <<>>)
         /\ xoff_sent' = (xoff_sent /\ ~xon)
  /\ UNCHANGED <<sender, reader, shared, socket, up, lost>>

Transmit ==
  /\ txq # <<>>
  /\ back' = Append(back, Head(txq)) /\ txq' = Tail(txq)
  /\ UNCHANGED <<sender, reader, shared, conn, pipe, up, ring, xoff_sent, lost>>

\* The emulator exits: what it had not yet sent is gone.
Disconnect ==
  /\ conn
  /\ conn' = FALSE /\ pipe' = <<>>
  /\ up' = FALSE /\ ring' = <<>> /\ txq' = <<>> /\ xoff_sent' = FALSE
  /\ UNCHANGED <<sender, reader, shared, back, lost>>

Terminal == Deliver \/ Process \/ Transmit

Finished == op \in {"done", "failed"} /\ UNCHANGED vars

Next == Sender \/ Reader \/ Boot \/ Terminal \/ Disconnect \/ Finished

Spec     == Init /\ [][Next]_vars
\* Threads run, timeouts expire and the emulator runs its machine.
FairSpec == /\ Spec /\ WF_vars(Sender) /\ WF_vars(Reader)
            /\ WF_vars(Deliver) /\ WF_vars(Process) /\ WF_vars(Transmit)

--------------------------------------------------------------------------------
(***************************************************************************)
(* Properties.                                                             *)
(***************************************************************************)

\* No more than one group and the question behind it is ever on its way.
OneWindowInFlight == Len(pipe) + Len(ring) <= Window + 1

\* So the terminal's ring never overflows, whatever the socket holds back.
NoOverflow == ~lost

\* A report that ends a wait answers the question just asked: all that was sent
\* before it has been processed.
SettledOnAck == [][Acked => pipe = <<>> /\ ring = <<>>]_vars

\* The benchmark ends, also when the emulator exits while the sender is paused.
SenderEnds == <>(op \in {"done", "failed"})

================================================================================
