-------------------------------- MODULE HostBridge --------------------------------
(***************************************************************************)
(* The shell bridge: vt100_shell and the link it writes to.  The main      *)
(* thread waits for the terminal, starts bash and types what the terminal  *)
(* sends into it; a second thread writes bash's output to the link.        *)
(* Whoever sees the end sets the event stop.                               *)
(*                                                                         *)
(* A link is one that open_link makes: a TCP socket to the emulator, which *)
(* is not blocking and raises when it is full; a serial adapter, whose     *)
(* write waits; or a pseudo-terminal, whose write waits and gives up       *)
(* silently on an error.  bash is its output, numbered, behind a terminal  *)
(* that honours XOFF (stty ixon); the Apple terminal is its receive ring   *)
(* with its water marks.                                                   *)
(***************************************************************************)
EXTENDS Integers, Sequences, SequencesExt

CONSTANTS
  Transports,        \* the links a bridge may be given: "tcp", "serial", "posix"
  SockCap, PtyCap,   \* what the link takes unread, what bash's terminal does
  ReadMax,           \* the most one read returns
  RingCap, RingHigh, RingLow, \* the terminal's receive ring and water marks
  Keys,              \* what is typed at the Apple
  MaxOut, MaxKeys, MaxAsks \* output of bash, keys typed, questions before the deadline

ASSUME TransportAssumption == Transports \subseteq {"tcp", "serial", "posix"}
ASSUME SizeAssumption ==
  /\ {SockCap, PtyCap, ReadMax, MaxOut, MaxKeys, MaxAsks} \subseteq Nat \ {0}
  /\ RingHigh \in 1 .. RingCap /\ RingLow \in 0 .. RingHigh - 1

VARIABLES
  transport,         \* the link this bridge was given
  main, asks, heard, \* the main thread, questions asked, what wait_ready read
  pump, pending,     \* the output thread and what is left of its write
  stop,              \* the event of both threads
  alive, paused, made, out, input, \* bash: running, held by XOFF, output, unread, typed
  pipe, back,        \* the link, to and from the terminal
  apple, ring, shown, xoff_sent, \* the terminal and what it has drawn
  sent, lost, cut    \* history: all the terminal sent; a booted terminal dropped a byte;
                     \* the output that writes which failed still held

threads  == <<main, asks, heard, pump, pending, stop, cut>>
shell    == <<alive, paused, made, out, input>>
terminal == <<apple, ring, shown, xoff_sent, lost>>
vars == <<transport, threads, shell, pipe, back, terminal, sent>>

Out(n) == [kind |-> "out", n |-> n]
Item(kind) == [kind |-> kind, n |-> 0]
Ask  == Item("ask")
Cpr  == Item("cpr")
XON  == Item("xon")
XOFF == Item("xoff")

Init ==
  /\ transport \in Transports
  /\ main = "ask" /\ asks = 0 /\ heard = <<>>
  /\ pump = "off" /\ pending = <<>> /\ stop = FALSE
  /\ alive = FALSE /\ paused = FALSE /\ made = 0 /\ out = <<>> /\ input = <<>>
  /\ pipe = <<>> /\ back = <<>>
  /\ apple = "booting" /\ ring = <<>> /\ shown = <<>> /\ xoff_sent = FALSE
  /\ sent = <<>> /\ lost = FALSE /\ cut = {}

\* the output of bash among some items
Written(s) == {m.n : m \in {x \in Range(s) : x.kind = "out"}}

Open == apple # "gone"
Room == SockCap - Len(pipe)

\* the link's write raises
Raises == ~Open \/ (transport = "tcp" /\ Room = 0)

--------------------------------------------------------------------------------
(***************************************************************************)
(* wait_ready.                                                             *)
(***************************************************************************)
\* A cursor report was read, or its bytes in what was typed: ESC [ of an arrow, an R.
\* Each round tests all that was read so far.
Ready(read) ==
  \/ Cpr \in Range(read)
  \/ {Item("arrow"), Item("R")} \subseteq Range(read)

\* link.read: what has arrived, at most ReadMax; nothing also when the link has gone
Got(n) == SubSeq(back, 1, n)
LinkRead == 1 .. (IF Len(back) < ReadMax THEN Len(back) ELSE ReadMax)

StartShell == alive' = TRUE /\ pump' = "read" /\ main' = "relay"

\* what the handshake read is gone
Unread(n) == SubSeq(back, n + 1, Len(back))

\* a write to an emulator that has gone, or on an error of the pseudo-terminal, may be lost
AskReady ==
  /\ main = "ask" /\ asks < MaxAsks /\ Room > 0
  /\ asks' = asks + 1 /\ main' = "wait"
  /\ \/ Open /\ pipe' = Append(pipe, Ask)
     \/ (~Open \/ transport = "posix") /\ UNCHANGED pipe
  /\ UNCHANGED <<heard, pump, pending, stop, shell, back, terminal, sent, cut>>

\* a write raises: the link has gone or the socket is full; so does a read of an adapter
\* that was pulled; nothing catches it here
AskFails ==
  /\ \/ main = "ask" /\ Raises
     \/ main = "wait" /\ transport = "serial" /\ ~Open
  /\ main' = "done"
  /\ UNCHANGED <<asks, heard, pump, pending, stop, shell, pipe, back, terminal, sent, cut>>

WaitReads ==
  /\ main = "wait"
  /\ \E n \in LinkRead :
       /\ heard' = heard \o Got(n) /\ back' = Unread(n)
       /\ IF Ready(heard \o Got(n)) THEN StartShell ELSE UNCHANGED <<alive, pump, main>>
  /\ UNCHANGED <<asks, pending, stop, paused, made, out, input, pipe, terminal, sent, cut>>

\* half a second is over
WaitExpires ==
  /\ main = "wait" /\ main' = "ask"
  /\ UNCHANGED <<asks, heard, pump, pending, stop, shell, pipe, back, terminal, sent, cut>>

\* the deadline: "no response; starting bash anyway"
GiveUp ==
  /\ main = "ask" /\ asks = MaxAsks
  /\ StartShell
  /\ UNCHANGED <<asks, heard, pending, stop, paused, made, out, input, pipe, back, terminal, sent, cut>>

--------------------------------------------------------------------------------
(***************************************************************************)
(* pump_pty.                                                               *)
(***************************************************************************)
PumpReads ==
  /\ pump = "read" /\ ~stop /\ out # <<>>
  /\ \E n \in 1 .. Len(out) :
       /\ n <= ReadMax
       /\ pending' = SubSeq(out, 1, n) /\ out' = SubSeq(out, n + 1, Len(out))
  /\ pump' = "write"
  /\ UNCHANGED <<main, asks, heard, stop, alive, paused, made, input, pipe, back, terminal, sent, cut>>

\* end of file, a shell that is not alive, or the event: the thread ends and says so
PumpEnds ==
  /\ pump = "read" /\ (stop \/ (~alive /\ out = <<>>))
  /\ pump' = "ended" /\ stop' = TRUE
  /\ UNCHANGED <<main, asks, heard, pending, shell, pipe, back, terminal, sent, cut>>

\* Deviation: a write that was cut starts again at its beginning.
RestartWrite(n) == pending' = IF n = Len(pending) THEN <<>> ELSE pending

\* what the link took is gone from the write
Advance(n) == pending' = SubSeq(pending, n + 1, Len(pending))

\* what the link takes of a write
Taken == IF Room < Len(pending) THEN Room ELSE Len(pending)

PumpWrites ==
  /\ pump = "write" /\ Open /\ Room > 0
  /\ LET n == Taken
     IN  /\ pipe' = pipe \o SubSeq(pending, 1, n) /\ Advance(n)
         /\ pump' = IF n = Len(pending) THEN "read" ELSE "write"
  /\ UNCHANGED <<main, asks, heard, stop, shell, back, terminal, sent, cut>>

\* What a write that fails still held is gone with it.
Abandon == cut' = cut \cup Written(pending) /\ pending' = <<>>

\* nothing catches what the write raises: the thread dies
PumpDies ==
  /\ pump = "write" /\ Raises
  /\ pump' = "died" /\ Abandon
  /\ UNCHANGED <<main, asks, heard, stop, shell, pipe, back, terminal, sent>>

\* PtyLink.write returns on an error as if all had been written
PumpDrops ==
  /\ pump = "write" /\ transport = "posix"
  /\ pump' = "read" /\ Abandon
  /\ UNCHANGED <<main, asks, heard, stop, shell, pipe, back, terminal, sent>>

--------------------------------------------------------------------------------
(***************************************************************************)
(* run, the main thread.                                                   *)
(***************************************************************************)
\* finally: stop, kill the shell; the program ends and the other thread with it
Finish == main' = "done" /\ stop' = TRUE /\ alive' = FALSE

\* proc.write: all of it, decoded byte by byte
Typed(data) == data

\* the shell's own terminal is paused and resumed by what is typed
Hold(data) ==
  paused' = IF {XON, XOFF} \cap Range(data) = {} THEN paused
            ELSE Last(SelectSeq(data, LAMBDA m : m \in {XON, XOFF})) = XOFF

MainRelays ==
  /\ main = "relay" /\ ~stop
  /\ \E n \in LinkRead :
       /\ back' = SubSeq(back, n + 1, Len(back))
       /\ IF alive
          THEN /\ input' = input \o Typed(Got(n)) /\ Hold(Typed(Got(n)))
               /\ UNCHANGED <<main, stop, alive>>
          ELSE Finish /\ UNCHANGED <<input, paused>>
  /\ UNCHANGED <<asks, heard, pump, pending, made, out, pipe, terminal, sent, cut>>

\* Deviation: only the event ends the loop.
WaitForStop == stop

\* nothing to type and no shell, or the event
Over == stop \/ (back = <<>> /\ ~alive)

MainEnds ==
  /\ main = "relay" /\ Over /\ Finish
  /\ UNCHANGED <<asks, heard, pump, pending, paused, made, out, input, pipe, back, terminal, sent, cut>>

\* reading an adapter that was pulled raises
MainFails ==
  /\ main = "relay" /\ transport = "serial" /\ ~Open /\ Finish
  /\ UNCHANGED <<asks, heard, pump, pending, paused, made, out, input, pipe, back, terminal, sent, cut>>

\* Ctrl-C at the host
Interrupt ==
  /\ main = "relay" /\ Finish
  /\ UNCHANGED <<asks, heard, pump, pending, paused, made, out, input, pipe, back, terminal, sent, cut>>

--------------------------------------------------------------------------------
(***************************************************************************)
(* Outside: bash and the Apple.                                            *)
(***************************************************************************)
Produce ==
  /\ alive /\ ~paused /\ made < MaxOut /\ Len(out) < PtyCap
  /\ made' = made + 1 /\ out' = Append(out, Out(made + 1))
  /\ UNCHANGED <<threads, alive, paused, input, pipe, back, terminal, sent>>

ShellExits ==
  /\ alive /\ alive' = FALSE
  /\ UNCHANGED <<threads, paused, made, out, input, pipe, back, terminal, sent>>

Boot ==
  /\ apple = "booting" /\ apple' = "up"
  /\ UNCHANGED <<threads, shell, pipe, back, ring, shown, xoff_sent, lost, sent>>

Send(items) == back' = back \o items /\ sent' = sent \o items

\* a byte reaches the card: nobody reads it yet, the ring is full, or it is queued
Receive ==
  /\ Open /\ pipe # <<>> /\ pipe' = Tail(pipe)
  /\ IF apple = "booting" THEN UNCHANGED <<ring, xoff_sent, lost, back, sent>>
     ELSE IF Len(ring) = RingCap
          THEN lost' = TRUE /\ UNCHANGED <<ring, xoff_sent, back, sent>>
          ELSE /\ ring' = Append(ring, Head(pipe)) /\ UNCHANGED lost
               /\ IF Len(ring) + 1 >= RingHigh /\ ~xoff_sent
                  THEN xoff_sent' = TRUE /\ Send(<<XOFF>>)
                  ELSE UNCHANGED <<xoff_sent, back, sent>>
  /\ UNCHANGED <<threads, shell, apple, shown>>

\* Deviation: the ring has to be below its mark.
BelowLow(n) == n < RingLow

\* resume_rx: the ring has drained to its low mark
Drained(n) == n <= RingLow

Process ==
  /\ apple = "up" /\ ring # <<>>
  /\ ring' = Tail(ring)
  /\ LET resume == xoff_sent /\ Drained(Len(ring) - 1)
         reply  == IF Head(ring) = Ask THEN <<Cpr>> ELSE <<>>
     IN  /\ Send((IF resume THEN <<XON>> ELSE <<>>) \o reply)
         /\ xoff_sent' = (xoff_sent /\ ~resume)
  /\ shown' = IF Head(ring) = Ask THEN shown ELSE Append(shown, Head(ring))
  /\ UNCHANGED <<threads, shell, pipe, apple, lost>>

Type ==
  /\ apple = "up" /\ Len(SelectSeq(sent, LAMBDA m : m.kind \in Keys)) < MaxKeys
  /\ \E k \in Keys : Send(<<Item(k)>>)
  /\ UNCHANGED <<threads, shell, pipe, terminal>>

\* the emulator exits and reads go on returning nothing, or the adapter is pulled; the
\* pseudo-terminal stays, for its other end is held open here
Leave ==
  /\ transport # "posix" /\ Open /\ apple' = "gone" /\ pipe' = <<>>
  /\ UNCHANGED <<threads, shell, back, ring, shown, xoff_sent, lost, sent>>

Pump == PumpReads \/ PumpEnds \/ PumpWrites \/ PumpDies \/ PumpDrops
Main == AskReady \/ AskFails \/ WaitReads \/ WaitExpires \/ GiveUp \/ MainRelays \/ MainEnds
        \/ MainFails
Apple == Boot \/ Receive \/ Process
Stop == main = "done" /\ UNCHANGED vars
Bridge == Main \/ Pump \/ Interrupt \/ Produce \/ ShellExits \/ Apple \/ Type \/ Leave
Next == (main # "done" /\ Bridge /\ UNCHANGED transport) \/ Stop

\* Both threads are scheduled, time passes, and the terminal runs as long as it is there.
Fairness == /\ WF_vars(main # "done" /\ Main /\ UNCHANGED transport)
            /\ WF_vars(main # "done" /\ Pump /\ UNCHANGED transport)
            /\ WF_vars(main # "done" /\ Apple /\ UNCHANGED transport)
Spec == Init /\ [][Next]_vars /\ Fairness

--------------------------------------------------------------------------------
(***************************************************************************)
(* Properties.                                                             *)
(***************************************************************************)
\* What bash wrote is, in its order and once, what the terminal has drawn, followed by
\* what the ring, the link, the output thread and bash's terminal hold.  A terminal that
\* has not booted or overflowed leaves gaps, and a write that failed loses what it still
\* held.  When the thread dies of that, what reaches the terminal is the output up to
\* there: nothing younger than what was lost.  Over a pseudo-terminal there may be holes.
Arriving == shown \o ring \o pipe
Underway == shown \o ring \o pipe \o pending \o out
InOrder(s) ==
  \A i, j \in DOMAIN s : i < j /\ s[i].kind = "out" /\ s[j].kind = "out" => s[i].n < s[j].n
OutputKept ==
  Open => /\ InOrder(Underway) /\ Written(Underway) \subseteq (1 .. made) \ cut
          /\ ~lost /\ apple = "up" /\ Cpr \in Range(heard) =>
               Written(Underway) = (1 .. made) \ cut
          /\ cut # {} => pump = "died" \/ transport = "posix"
          /\ pump = "died" => \A n \in Written(Arriving), c \in cut : n < c

\* What the terminal sent is, in its order, what wait_ready consumed, then what was
\* typed into bash, then what is still on its way, until the shell has gone.
InputKept == alive \/ main \in {"ask", "wait"} => heard \o input \o back = sent

\* The bridge is faithful both ways, but for what a write that failed still held.
StreamsKept == OutputKept /\ InputKept

\* A bridge whose shell has ended ends, also when its output thread died before.
BridgeEnds == (main = "relay" /\ ~alive) ~> main = "done"

\* A shell held by the terminal's XOFF is released, unless the bridge or the terminal
\* ends first.
FlowResumes == paused ~> (~paused \/ ~alive \/ ~Open)

================================================================================
