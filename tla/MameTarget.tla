------------------------------- MODULE MameTarget -------------------------------
(***************************************************************************)
(* One conformance run: runner.main and run_case driving MameTarget, which *)
(* sends a case's bytes through bench.Terminal, the emulated terminal that *)
(* answers, and the probe that writes a snapshot file every few frames.    *)
(* The sender knows of the firmware only the reports on the wire and of    *)
(* the screen only the file.  XON/XOFF is left to HostPacing.              *)
(*                                                                         *)
(* Bytes are the few the parser and the sender tell apart; the question    *)
(* ESC[6n is <<"esc", "[", "n">>.  A screen is the sequence of what was    *)
(* put on it since the last reset and the cursor is its length.            *)
(***************************************************************************)
EXTENDS Integers, Sequences, SequencesExt, FiniteSetsExt

CONSTANTS
  Inputs,         \* the bytes a case may send
  NCases,         \* cases in the corpus
  Window, Chunk,  \* bytes in a window (96) and in a slice (16)
  MaxTries,       \* rounds of _wait_ready before its deadline
  Ahead,          \* snapshots between two looks at the file
  Hasty           \* the waits whose timeout may beat an answer on its way

Bytes == {"esc", "[", "n", "c", "m", "]", "\\", "x"}
Waits == {"ready", "sync", "ack", "reply"}

TargetFine ==
  /\ Inputs \subseteq Seq(Bytes)
  /\ {NCases, Window, Chunk, MaxTries, Ahead} \subseteq Nat \ {0} /\ Chunk <= Window
  /\ Hasty \subseteq Waits
ASSUME TargetAssumption == TargetFine

VARIABLES
  stage, tries,        \* the harness: where it is, rounds of _wait_ready
  corpus, case,        \* the inputs and the number of the case being run
  unsent, prev,        \* what of the input is still to send, _await_reply's last length
  reports, after,      \* what was peeked, the sequence number to pass
  verdicts,            \* what the runner has recorded
  buf, gone,           \* Terminal._buf and Terminal._disconnected
  alive, up,           \* the emulator runs, the terminal has booted
  pipe, back,          \* bytes on their way to the terminal, reports from it
  term,                \* the parser's state, the screen, effects so far
  file, seq,           \* the snapshot file and the probe's counter
  base, looked         \* history: seq and effects when render looked

ready    == <<tries, corpus>>
sending  == <<unsent, prev>>
peeked   == <<reports, after, base, looked>>
progress == <<case, verdicts>>
reader   == <<buf, gone>>
machine  == <<alive, up, pipe, back, term>>
probe    == <<file, seq>>
harness  == <<stage, ready, sending, peeked, progress>>
target   == <<harness, reader, machine, probe>>

--------------------------------------------------------------------------------
(***************************************************************************)
(* The firmware's parser, a byte at a time.                                *)
(***************************************************************************)
Blank == [state |-> "normal", scr |-> <<>>, effects |-> 0, replies |-> <<>>]

Put(t, what) == [t EXCEPT !.scr = Append(@, what), !.effects = @ + 1]
Reply(t, kind, q) ==
  [t EXCEPT !.replies = Append(@, [kind |-> kind, at |-> Len(t.scr), for |-> q])]
Go(t, s) == [t EXCEPT !.state = s]

\* vt100_feed: an escape inside a control sequence is eaten, inside a string any
\* byte after it ends the string
Feed(t, b, q) ==
  CASE t.state = "normal" -> IF b = "esc" THEN Go(t, "esc") ELSE Put(t, b)
    [] t.state = "esc"    -> CASE b = "[" -> Go(t, "csi")
                               [] b = "]" -> Go(t, "str")
                               [] b = "c" -> [Go(t, "normal") EXCEPT !.scr = <<>>, !.effects = @ + 1]
                               [] OTHER   -> Go(t, "normal")
    [] t.state = "csi"    -> CASE b = "esc" -> t
                               [] b = "n"   -> Go(Reply(t, "cpr", q), "normal")
                               [] b = "c"   -> Go(Reply(t, "da", q), "normal")
                               [] b = "m"   -> Go(Put(t, "sgr"), "normal")
                               [] OTHER     -> Go(t, "normal")
    [] t.state = "str"    -> IF b = "esc" THEN Go(t, "stresc") ELSE t
    [] t.state = "stresc" -> Go(t, "normal")

\* bytes as they travel, each with the case it was sent for
OnWire(bytes, q) == [i \in DOMAIN bytes |-> [b |-> bytes[i], for |-> q]]

\* the terminal after all that is on its way to it
Fed(t, wire) ==
  LET then[n \in 0 .. Len(wire)] ==
        IF n = 0 THEN t ELSE Feed(then[n - 1], wire[n].b, wire[n].for)
  IN  then[Len(wire)]

\* what a case's bytes do on their own, to a terminal that has just been reset
Rendered(data) == Fed(Blank, OnWire(data, 0))

--------------------------------------------------------------------------------
(***************************************************************************)
(* Windows.                                                                *)
(***************************************************************************)
Query == <<"esc", "[", "n">>
Slice == Window - (Window % Chunk)

\* chunk_bytes and the packing loop of _send, whole chunks up to a window: the window to
\* send (none: an empty input) and what is behind it
Window1 == IF Len(unsent) <= Slice THEN unsent ELSE SubSeq(unsent, 1, Slice)
Rest    == SubSeq(unsent, Slice + 1, Len(unsent))

\* _REPORT_QUERY, at the end of the window's own bytes
EndsInQuery(win) == \E q \in {Query, <<"esc", "[", "c">>} : IsSuffix(q, win)

\* where a case is divided, and its last window
Boundaries(data) == {k \in 1 .. Len(data) - 1 : k % Slice = 0}
LastWindow(data) == SubSeq(data, Max({0} \cup Boundaries(data)) + 1, Len(data))

\* the first k bytes of a case, on their own
Upto(data, k) == Rendered(SubSeq(data, 1, k))
\* the question behind a window falls inside a sequence of the case and is lost
Cut(data, k)   == Upto(data, k).state # "normal"
Straddles(data) == \E k \in Boundaries(data) : Cut(data, k)
\* the case leaves the parser inside a sequence
EndsInside(data) == Rendered(data).state # "normal"

\* the places of the position reports, CPR, among reports
Cprs(s) == {k \in DOMAIN s : s[k].kind = "cpr"}
Asks(data) == Cprs(Rendered(data).replies) # {}
\* a report is asked for where the sender does not wait for it: before the last window,
\* which discards it, or before the end of that window
AsksEarly(data) ==
  \/ \E k \in Boundaries(data) : Upto(data, k).replies # <<>>
  \/ IF EndsInQuery(LastWindow(data)) THEN Upto(data, Len(data) - 1).replies # <<>>
                                      ELSE Asks(data)
\* the position is asked for in what goes out raw once a question was lost
AsksRaw(data) ==
  \E k \in Boundaries(data) : Cut(data, k) /\ Asks(SubSeq(data, k + 1, Len(data)))

--------------------------------------------------------------------------------
Absent   == [st |-> "absent"]
\* left by an earlier run
Leftover == [st |-> "ok", seq |-> 0, scr |-> <<"old">>, effects |-> 0 - 1]
\* _read_probe: absent, half written and whole files
Valid == file.st = "ok"

TargetInit ==
  /\ stage = "open" /\ tries = 0 /\ case = 1 /\ unsent = <<>> /\ prev = 0 - 1
  /\ corpus \in [1 .. NCases -> Inputs]
  /\ reports = <<>> /\ after = 0 - 1 /\ verdicts = <<>> /\ base = 0 /\ looked = 0 - 1
  /\ buf = <<>> /\ gone = FALSE
  /\ alive = TRUE /\ up = FALSE /\ pipe = <<>> /\ back = <<>>
  /\ term = Blank
  /\ file \in {Absent, Leftover} /\ seq = 0

\* Writing to a socket whose peer has gone may succeed or raise.
Send(bytes) ==
  /\ ~gone
  /\ pipe' = IF alive THEN pipe \o OnWire(bytes, case) ELSE pipe
SendOnly(bytes) == Send(bytes) /\ UNCHANGED <<alive, up, back, term, gone, probe>>
ClearBuf == buf' = <<>>

Answered == Cprs(buf) # {}
\* a wait's timeout: nothing is left that could answer, unless the wait is hasty
Expires(w) == ~Answered /\ (w \in Hasty \/ (pipe = <<>> /\ back = <<>>))

--------------------------------------------------------------------------------
(***************************************************************************)
(* open                                                                    *)
(***************************************************************************)
\* the old snapshot is removed, the emulator started; it connects or never does
Open ==
  /\ stage = "open"
  /\ file' = Absent
  /\ stage' \in (IF alive THEN {"ready"} ELSE {}) \cup {"failed"}
  /\ UNCHANGED <<ready, sending, peeked, progress, reader, machine, seq>>

\* _wait_ready: ask, and ask again, until the deadline
AskReady ==
  /\ stage = "ready" /\ ClearBuf /\ SendOnly(Query)
  /\ stage' = "readywait"
  /\ UNCHANGED <<ready, sending, peeked, progress>>

Ready ==
  /\ stage = "readywait" /\ Answered
  /\ ClearBuf /\ stage' = "probe"
  /\ UNCHANGED <<ready, sending, peeked, progress, gone, machine, probe>>

\* Deviation: no deadline.
EndlessNotReady ==
  /\ stage = "readywait" /\ Expires("ready")
  /\ stage' = "ready"
  /\ UNCHANGED <<ready, sending, peeked, progress, reader, machine, probe>>

NotReady ==
  /\ stage = "readywait" /\ Expires("ready")
  /\ tries' = tries + 1
  /\ stage' = IF tries + 1 < MaxTries THEN "ready" ELSE "failed"
  /\ UNCHANGED <<corpus, sending, peeked, progress, reader, machine, probe>>

\* _wait_probe: the first snapshot, or none in time
WaitProbe ==
  /\ stage = "probe" /\ (Valid \/ ~alive)
  /\ stage' = IF Valid THEN "reset" ELSE "failed"
  /\ UNCHANGED <<ready, sending, peeked, progress, reader, machine, probe>>

\* writing to an emulator that has gone
AskFails ==
  /\ stage = "ready" /\ ~alive
  /\ stage' = "failed"
  /\ UNCHANGED <<ready, sending, peeked, progress, reader, machine, probe>>

--------------------------------------------------------------------------------
(***************************************************************************)
(* run_case: reset, render, record.                                        *)
(***************************************************************************)
\* Deviation: sync does not discard what was received before it asked.
StaleReset ==
  /\ stage = "reset" /\ SendOnly(<<"esc", "\\", "esc", "c">> \o Query)
  /\ stage' = "sync"
  /\ UNCHANGED <<ready, sending, peeked, progress, buf>>

\* ST ends whatever the last case left open, RIS clears; then sync asks
Reset ==
  /\ stage = "reset" /\ ClearBuf /\ SendOnly(<<"esc", "\\", "esc", "c">> \o Query)
  /\ stage' = "sync"
  /\ UNCHANGED <<ready, sending, peeked, progress>>

\* answered or not, the buffer is emptied and the case goes on
Sync ==
  /\ stage = "sync" /\ (Answered \/ Expires("sync"))
  /\ ClearBuf
  /\ unsent' = corpus[case] /\ stage' = "send"
  /\ UNCHANGED <<ready, prev, peeked, progress, gone, machine, probe>>

\* a window and the question behind it, or the last one raw if it asks itself
SendWindow ==
  /\ stage = "send" /\ ClearBuf /\ unsent' = Rest
  /\ IF Rest = <<>> /\ EndsInQuery(Window1)
     THEN SendOnly(Window1) /\ prev' = 0 - 1 /\ stage' = "reply"
     ELSE SendOnly(Window1 \o Query) /\ stage' = "ack" /\ UNCHANGED prev
  /\ UNCHANGED <<ready, peeked, progress>>

Acked ==
  /\ stage = "ack" /\ Answered
  /\ stage' = IF unsent = <<>> THEN "settle" ELSE "send"
  /\ UNCHANGED <<ready, sending, peeked, progress, reader, machine, probe>>

\* no answer: the rest goes out raw and nothing is waited for
Unacked ==
  /\ stage = "ack" /\ Expires("ack")
  /\ IF unsent = <<>> THEN UNCHANGED <<gone, machine, probe>> ELSE SendOnly(unsent)
  /\ unsent' = <<>> /\ stage' = "settle"
  /\ UNCHANGED <<ready, prev, peeked, progress, buf>>

\* _await_reply: until two polls find the same bytes, or the deadline
Poll ==
  /\ stage = "reply"
  /\ IF Len(buf) > 0 /\ Len(buf) = prev
     THEN stage' = "settle" /\ UNCHANGED prev
     ELSE prev' = Len(buf) /\ UNCHANGED stage
  /\ UNCHANGED <<ready, unsent, peeked, progress, reader, machine, probe>>

NoReply ==
  /\ stage = "reply" /\ Expires("reply")
  /\ stage' = "settle"
  /\ UNCHANGED <<ready, sending, peeked, progress, reader, machine, probe>>

\* _current_seq: -1 when the file cannot be read
CurrentSeq == IF Valid THEN file.seq ELSE 0 - 1

\* after a short pause the reports are peeked; then _current_seq, the number of
\* the last snapshot
Look ==
  /\ stage = "settle"
  /\ reports' = buf
  /\ after' = CurrentSeq
  /\ base' = seq /\ looked' = term.effects
  /\ stage' = "fresh"
  /\ UNCHANGED <<ready, sending, progress, reader, machine, probe>>

Record(r) ==
  /\ verdicts' = Append(verdicts, r)
  /\ IF case = NCases THEN stage' = "done" /\ UNCHANGED case
                      ELSE stage' = "reset" /\ case' = case + 1

\* the last report of the position, else the probed variables
Cursor ==
  IF Cprs(reports) # {} THEN reports[Max(Cprs(reports))].at ELSE Len(file.scr)
Verdict == [ok |-> TRUE, scr |-> file.scr, cursor |-> Cursor, reports |-> reports]
Error   == [ok |-> FALSE]

\* Deviation: the snapshot that was there will do.
NewerThanLook == Valid /\ file.seq >= after

\* _wait_fresh
Fresh == Valid /\ file.seq > after

Take ==
  /\ stage = "fresh" /\ Fresh
  /\ Record(Verdict)
  /\ UNCHANGED <<ready, sending, peeked, reader, machine, probe>>

\* an exception in reset or render: writing to an emulator that has gone, or no
\* snapshot in time
CaseFails ==
  /\ ~alive
  /\ \/ stage \in {"reset", "send"}
     \/ stage = "ack" /\ unsent # <<>>
     \/ stage = "fresh" /\ ~Fresh
  /\ Record(Error)
  /\ UNCHANGED <<ready, sending, peeked, reader, machine, probe>>

Harness ==
  \/ Open \/ AskReady \/ Ready \/ NotReady \/ WaitProbe \/ AskFails
  \/ Reset \/ Sync \/ SendWindow \/ Acked \/ Unacked \/ Poll \/ NoReply
  \/ Look \/ Take \/ CaseFails

--------------------------------------------------------------------------------
(***************************************************************************)
(* The reader thread, the terminal and the probe.                          *)
(***************************************************************************)
Receive ==
  /\ back # <<>>
  /\ buf' = Append(buf, Head(back)) /\ back' = Tail(back)
  /\ UNCHANGED <<harness, gone, alive, up, pipe, term, probe>>

Eof ==
  /\ ~alive /\ back = <<>> /\ ~gone
  /\ gone' = TRUE
  /\ UNCHANGED <<harness, buf, machine, probe>>

\* the frame notifier holds the machine while it writes
Running == alive /\ file.st # "busy"

Boot ==
  /\ Running /\ ~up
  /\ up' = TRUE
  /\ UNCHANGED <<harness, reader, alive, pipe, back, term, probe>>

\* a byte reaches the parser, or is lost before the terminal has booted
Process ==
  /\ Running /\ pipe # <<>>
  /\ pipe' = Tail(pipe)
  /\ LET t == IF up THEN Feed(term, Head(pipe).b, Head(pipe).for) ELSE term
     IN  term' = [t EXCEPT !.replies = <<>>] /\ back' = back \o t.replies
  /\ UNCHANGED <<harness, reader, alive, up, probe>>

\* the planes are read, the file is truncated ...
SnapshotBegins ==
  /\ Running /\ stage # "open" /\ seq < base + Ahead
  /\ seq' = seq + 1
  /\ file' = [st |-> "busy", seq |-> seq', scr |-> term.scr, effects |-> term.effects]
  /\ UNCHANGED <<harness, reader, machine>>

\* ... and written
SnapshotEnds ==
  /\ alive /\ file.st = "busy"
  /\ file' = [file EXCEPT !.st = "ok"]
  /\ UNCHANGED <<harness, reader, machine, seq>>

\* The emulator exits; what it had not sent is gone, a file half written stays so.
Exit ==
  /\ alive /\ alive' = FALSE /\ pipe' = <<>>
  /\ UNCHANGED <<harness, reader, up, back, term, probe>>

Finished == stage \in {"done", "failed"} /\ UNCHANGED target

TargetNext ==
  \/ Harness \/ Receive \/ Eof \/ Boot \/ Process \/ SnapshotBegins \/ SnapshotEnds
  \/ Exit \/ Finished

TargetSpec == TargetInit /\ [][TargetNext]_target
\* Threads run, timeouts expire and the emulator runs its machine.
FairTargetSpec ==
  /\ TargetSpec /\ WF_target(Harness) /\ WF_target(Receive) /\ WF_target(Eof)
  /\ WF_target(Process) /\ WF_target(SnapshotBegins) /\ WF_target(SnapshotEnds)

--------------------------------------------------------------------------------
(***************************************************************************)
(* Properties.                                                             *)
(***************************************************************************)
\* what a case alone should be seen to do: its own replies and, unless it asks
\* itself, the one report the sender asked for
Exact(i) ==
  LET t == Rendered(corpus[i])
      r == [t EXCEPT !.replies =
              IF EndsInQuery(LastWindow(corpus[i])) THEN @
              ELSE Append(@, [kind |-> "cpr", at |-> Len(t.scr), for |-> 0])]
  IN  /\ verdicts[i].scr = r.scr
      /\ verdicts[i].cursor = Len(r.scr)
      /\ verdicts[i].reports = [j \in DOMAIN r.replies |-> [r.replies[j] EXCEPT !.for = i]]
Judged(i) == i \in DOMAIN verdicts /\ verdicts[i].ok

\* The screen, cursor and reports on which a case is judged are those of its own bytes
\* on a terminal just reset, whatever the cases before it did: if its windows cut no
\* sequence and it ends outside one, and if neither it nor a case before it asks for
\* a report where the sender does not wait for one.
FaithfulVerdict ==
  \A i \in 1 .. NCases :
    /\ Judged(i) /\ ~Straddles(corpus[i]) /\ ~EndsInside(corpus[i])
    /\ \A j \in 1 .. i : ~AsksEarly(corpus[j]) /\ ~AsksRaw(corpus[j])
    => Exact(i)

\* A snapshot accepted as fresh holds all that the terminal had drawn when render
\* looked at the file, also when the file was being written at that moment.
SnapshotNotOlder == [][Take => file.effects >= looked]_target

\* Every case gets a row, also when the emulator exits in the middle of one.
RunEnds == <>(stage = "failed" \/ (stage = "done" /\ Len(verdicts) = NCases))

================================================================================
