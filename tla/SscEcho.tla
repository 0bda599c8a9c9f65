---------------------------------- MODULE SscEcho ----------------------------------
(***************************************************************************)
(* The polled serial echo and its client: the Apple sends back every byte  *)
(* it polls from the 6551, a line feed behind each return; the client      *)
(* writes the lines that are typed and prints what comes back on a thread  *)
(* of its own.                                                             *)
(*                                                                         *)
(* Time is counted in characters of the line: in each slot the line brings *)
(* at most one byte and takes at most one away.  The 6551 has one receive  *)
(* register, and a transmit register in front of its shift register.  The  *)
(* Apple's program runs to its next wait between slots, except when what   *)
(* it prints scrolls the screen: the Monitor then moves all of it, which   *)
(* takes up to ScrollTime slots (some 15000 cycles, 14 characters at 9600  *)
(* baud), and nothing is polled meanwhile.                                 *)
(***************************************************************************)
EXTENDS Integers, Sequences, SequencesExt

CONSTANTS
  Lines,      \* lines typed at the client: sequences of characters
  MaxLines,   \* how many
  Width,      \* columns of the screen
  Below,      \* rows left under the banner
  ScrollTime  \* slots a scroll takes at most

VARIABLES
  main, reader, stop, typed,   \* the client: its two threads, its event, lines typed
  idle,                        \* slots since the line fell silent, as far as they matter
  conn,                        \* the peer: "open" or "closed"
  line, back,                  \* bytes to and from the Apple
  rdr, tdr, shift,             \* the 6551: each a byte or Empty
  emitting, busy,              \* the Apple: bytes of an emit still to send, slots of a scroll to go
  col, below,                  \* its screen: the cursor's column, the rows under it
  sent, printed, lost,         \* history: all written, all printed, an overrun
  rest, wide, scrolled         \* history: the shortest pause before a line, a line that wraps, a scroll

client == <<main, reader, stop, typed>>
card   == <<rdr, tdr, shift>>
apple  == <<emitting, busy, col, below, scrolled>>
habits == <<rest, wide>>
vars == <<client, idle, conn, line, back, card, apple, sent, printed, lost, habits>>

Empty == "none"

\* a line holds printing characters only, no return or line feed
EchoFine ==
  /\ Width \in Nat \ {0} /\ Below \in Nat /\ ScrollTime \in Nat \ {0}
  /\ \A l \in Lines : l \in Seq(Range(l)) /\ {"CR", "LF", Empty} \cap Range(l) = {}

Put(s, b) == IF b = Empty THEN s ELSE Append(s, b)

\* the pause that sees any scroll at the end of a line over, and the one since the last byte
Enough    == ScrollTime + 1
Paused(i) == IF line = <<>> /\ i < Enough THEN i + 1 ELSE i

\* Deviation: a return goes out alone.
Bare(b) == <<b>>

\* what emit sends for a byte
Emit(b) == IF b = "CR" THEN <<"CR", "LF">> ELSE <<b>>

Expand(bytes) == FlattenSeq([i \in DOMAIN bytes |-> IF bytes[i] = "CR" THEN <<"CR", "LF">> ELSE <<bytes[i]>>])

Init ==
  /\ main = "input" /\ reader = "read" /\ stop = FALSE /\ typed = 0 /\ idle = Enough /\ conn = "open"
  /\ line = <<>> /\ back = <<>> /\ rdr = Empty /\ tdr = Empty /\ shift = Empty
  /\ emitting = <<>> /\ busy = 0 /\ col = 0 /\ below = Below
  /\ sent = <<>> /\ printed = <<>> /\ lost = FALSE
  /\ rest = Enough /\ wide = FALSE /\ scrolled = FALSE

--------------------------------------------------------------------------------
(***************************************************************************)
(* The client's relay.                                                     *)
(***************************************************************************)
\* A line is read and written, after any pause or, pasted, after none; the event is looked
\* at before a line is waited for.  Writing to a peer that has gone is accepted or raises;
\* raising ends the program.
TypeLine ==
  /\ main = "input" /\ typed < MaxLines
  /\ \E l \in Lines :
       LET payload == Append(l, "CR")
       IN  IF conn = "open"
           THEN /\ line' = line \o payload /\ sent' = sent \o payload
                /\ rest' = (IF idle < rest THEN idle ELSE rest) /\ wide' = (wide \/ Len(l) >= Width)
           ELSE UNCHANGED <<line, sent, habits>>
  /\ \E raises \in {FALSE, conn = "closed"} : main' = IF stop \/ raises THEN "done" ELSE "input"
  /\ stop' = (stop \/ main' = "done") /\ typed' = typed + 1 /\ idle' = 0
  /\ UNCHANGED <<reader, conn, back, card, apple, printed, lost>>

\* the end of the input
EndInput ==
  /\ main = "input" /\ main' = "done" /\ stop' = TRUE
  /\ UNCHANGED <<reader, typed, idle, conn, line, back, card, apple, sent, printed, lost, habits>>

ReaderPrints ==
  /\ main # "done" /\ reader = "read" /\ ~stop /\ back # <<>>
  /\ \E n \in 1 .. Len(back) :
       printed' = printed \o SubSeq(back, 1, n) /\ back' = SubSeq(back, n + 1, Len(back))
  /\ UNCHANGED <<client, idle, conn, line, card, apple, sent, lost, habits>>

\* the peer has closed and all it sent is printed, or the event
ReaderEnds ==
  /\ main # "done" /\ reader = "read" /\ (stop \/ (conn = "closed" /\ back = <<>>))
  /\ reader' = "ended" /\ stop' = TRUE
  /\ UNCHANGED <<main, typed, idle, conn, line, back, card, apple, sent, printed, lost, habits>>

PeerCloses ==
  /\ conn = "open" /\ conn' = "closed" /\ line' = <<>>
  /\ UNCHANGED <<client, idle, back, card, apple, sent, printed, lost, habits>>

--------------------------------------------------------------------------------
(***************************************************************************)
(* The Apple.                                                              *)
(***************************************************************************)
CanPush == busy = 0 /\ emitting # <<>> /\ tdr = Empty
CanTake == busy = 0 /\ emitting = <<>> /\ rdr # Empty
CanLoad == shift = Empty /\ tdr # Empty

\* The cursor goes to the next row; under the last one everything scrolls up.
NewRow ==
  IF below > 0 THEN below' = below - 1 /\ UNCHANGED <<busy, scrolled>>
               ELSE busy' \in 0 .. ScrollTime /\ scrolled' = TRUE /\ UNCHANGED below

\* COUT: a return and a character in the last column go on to the next row
Cout(b) ==
  IF b = "CR" \/ col + 1 = Width THEN col' = 0 /\ NewRow
  ELSE col' = col + 1 /\ UNCHANGED <<below, busy, scrolled>>

\* serial_raw, as soon as the transmit register is empty; behind the last byte the
\* character itself is printed
Push ==
  /\ CanPush
  /\ tdr' = Head(emitting) /\ emitting' = Tail(emitting)
  /\ IF Len(emitting) = 1 THEN Cout(IF Head(emitting) = "LF" THEN "CR" ELSE Head(emitting))
                          ELSE UNCHANGED <<busy, col, below, scrolled>>
  /\ UNCHANGED <<client, idle, conn, line, back, rdr, shift, sent, printed, lost, habits>>

\* the echo loop finds a byte
Take ==
  /\ CanTake
  /\ emitting' = Emit(rdr) /\ rdr' = Empty
  /\ UNCHANGED <<client, idle, conn, line, back, tdr, shift, busy, col, below, scrolled, sent, printed, lost, habits>>

\* the transmit register moves to the shift register as soon as that is empty
Load ==
  /\ CanLoad /\ shift' = tdr /\ tdr' = Empty
  /\ UNCHANGED <<client, idle, conn, line, back, rdr, apple, sent, printed, lost, habits>>

\* One character time, when the program and the card have nothing else to do.  A byte
\* that finds the receive register full is lost.
Slot ==
  /\ conn = "open" /\ ~(CanPush \/ CanTake \/ CanLoad)
  /\ line # <<>> \/ shift # Empty \/ busy # 0 \/ idle < Enough
  /\ IF line = <<>> THEN UNCHANGED <<line, rdr, lost>>
     ELSE /\ line' = Tail(line)
          /\ IF rdr = Empty THEN rdr' = Head(line) /\ UNCHANGED lost
                           ELSE lost' = TRUE /\ UNCHANGED rdr
  /\ back' = Put(back, shift) /\ shift' = Empty
  /\ busy' = IF busy = 0 THEN 0 ELSE busy - 1
  /\ idle' = Paused(idle)
  /\ UNCHANGED <<client, conn, tdr, emitting, col, below, scrolled, sent, printed, habits>>

Device == Push \/ Take \/ Load \/ Slot
Client == ReaderPrints \/ ReaderEnds
User   == TypeLine \/ EndInput
Stop   == main = "done" /\ UNCHANGED vars
Next   == Device \/ Client \/ User \/ PeerCloses \/ Stop

Spec   == Init /\ [][Next]_vars

--------------------------------------------------------------------------------
(***************************************************************************)
(* Properties.                                                             *)
(***************************************************************************)
\* the bytes an emit will still send, as those it was given
Order == printed \o back \o Put(<<>>, shift) \o Put(<<>>, tdr) \o emitting

\* No byte overruns the receive register as long as lines do not follow each other at
\* once and, from the first scroll on, no line wraps and each waits for the scroll of the
\* one before: what is printed and what is on its way is then the echo of all that was
\* written, in order, each return with its line feed.
EchoComplete ==
  rest > 0 /\ (scrolled => ~wide /\ rest = Enough) =>
    ~lost /\ (conn = "open" => Order \o Expand(Put(<<>>, rdr) \o line) = Expand(sent))

================================================================================
