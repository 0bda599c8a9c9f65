---------------------------------- MODULE Programs ----------------------------------
(***************************************************************************)
(* The Apple's two small programs: the snake and, beside it, the polled    *)
(* serial echo with its client.                                            *)
(***************************************************************************)
EXTENDS Snake

CONSTANTS Lines, MaxLines, Width, Below, ScrollTime

VARIABLES
  main, reader, stop, typed, idle, conn, line, back, rdr, tdr, shift, emitting, busy, col, below,
  sent, printed, lost, rest, wide, scrolled

relay == <<main, reader, stop, typed, idle, conn, line, back, rdr, tdr, shift, emitting, busy, col, below,
           sent, printed, lost, rest, wide, scrolled>>

Echo == INSTANCE SscEcho

ASSUME EchoAssumption == Echo!EchoFine

\* Lines that leave the scrolling screen its time lose no byte, and what comes back is the
\* echo of what was written.
EchoComplete == Echo!EchoComplete

================================================================================
