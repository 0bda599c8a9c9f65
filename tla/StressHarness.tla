------------------------------- MODULE StressHarness -------------------------------
(***************************************************************************)
(* The repeated serial regressions: serial_irq_stress boots an emulator,   *)
(* sends a payload, and judges the screen, the replies and the trace of    *)
(* the interrupt handler that a script in the emulator keeps.  The two     *)
(* talk through two files: the request, put in place in one step, and the  *)
(* output, which the host may read before it is all written.               *)
(*                                                                         *)
(* The firmware may be faulty, the emulator may exit, and every wait that  *)
(* has a deadline may run out; a send held by an XOFF has none.  A payload *)
(* is two bytes, the second a query except in the wrap trial, whose        *)
(* payload asks nothing; bytes of the opening handshake may still be on    *)
(* their way when a trial starts.                                          *)
(***************************************************************************)
EXTENDS Integers, Sequences, SequencesExt

CONSTANTS
  Modes,             \* "wire" (da, cpr), "flow" (flow, mixed), "reserve", "wrap", "lifecycle"
  Runs,              \* trials
  Faults,            \* what the firmware may do wrong
  Strays,            \* bytes of the handshake still on their way
  Exits              \* whether the emulator may exit

FaultKinds == {"lose", "garble", "misdraw", "extra", "stuck"}
ASSUME ModeAssumption ==
  /\ Modes \subseteq {"wire", "flow", "reserve", "wrap", "lifecycle"}
  /\ Faults \subseteq FaultKinds /\ Exits \in BOOLEAN
ASSUME SizeAssumption == Runs \in Nat \ {0} /\ Strays \in Nat

Stray   == 0
Query   == 2
Bad     == 9
High    == 2            \* occupancy at which XOFF is sent

VARIABLES
  mode,              \* the trial the program was asked for
  pc, polling, asked, \* the step of the trial, whether it waits for an answer, questions asked
  failed, rescue,    \* an error of this trial; an exception is being handled
  req, output,       \* the two files
  emu, boots,        \* the emulator: "off", "running" or "exited", and how often it was started
  life, probed,      \* a lifecycle probe in progress; the foreign probe has taken this boot
  flight, ring, drawn, txq, wire, \* the firmware: input, ring, screen, replies queued and sent
  published, crossed, \* the script's trace since its reset: bytes put in the ring, XOFF
  said, paused,      \* the firmware's last word is XOFF; the host's reader has heard it
  results, exit      \* verdicts with the truth at that moment (history), the exit code

host     == <<pc, polling, asked, failed, rescue>>
files    == <<req, output>>
machine  == <<emu, boots, life, probed>>
link     == <<said, paused>>
firmware == <<flight, ring, drawn, txq, wire, published, crossed, link>>
report   == <<results, exit>>
vars == <<mode, host, files, machine, firmware, report>>

Flowing == mode \in {"flow", "reserve"}
Payload == IF mode = "wrap" THEN <<1, 1>> ELSE <<1, Query>>
Replies == IF mode = "wrap" THEN 0 ELSE 1   \* what the payload is answered with

NoFile == [kind |-> "none", whole |-> TRUE, val |-> <<>>, idle |-> TRUE, high |-> FALSE]
File(kind, whole) ==
  [kind |-> kind, whole |-> whole, val |-> published,
   idle |-> ring = <<>> /\ txq = 0, high |-> crossed]

--------------------------------------------------------------------------------
(***************************************************************************)
(* The trials.                                                             *)
(***************************************************************************)
WireScript == <<"open", "reset", "resetdiag", "clearbuf", "send", "capture", "peek",
                "snapshot", "verdict">>
FlowScript == <<"open", "reset", "resetdiag", "clearbuf", "send", "settle",
                "snapshot", "verdict">>
ReserveScript == <<"open", "reset", "resetdiag", "clearbuf", "prime", "send", "settle",
                   "snapshot", "verdict">>
WrapScript == <<"open", "reset", "resetdiag", "send", "capture", "snapshot", "verdict">>

\* Deviation: both probes on one boot.
OneBootScript == <<"open", "reset", "resetdiag", "clearbuf", "snapshot", "foreign",
                   "snapshot", "query", "ctrlreset", "verdict">>
LifecycleScript == <<"open", "reset", "resetdiag", "clearbuf", "snapshot", "foreign", "close",
                     "open", "reset", "resetdiag", "clearbuf", "snapshot", "query",
                     "ctrlreset", "verdict">>
Script == CASE mode = "wire" -> WireScript [] mode = "flow" -> FlowScript
            [] mode = "reserve" -> ReserveScript [] mode = "wrap" -> WrapScript
            [] mode = "lifecycle" -> LifecycleScript
At(step) == exit = "running" /\ ~rescue /\ pc <= Len(Script) /\ Script[pc] = step

Init ==
  /\ mode \in Modes
  /\ pc = 1 /\ polling = FALSE /\ asked = "none" /\ failed = FALSE /\ rescue = FALSE
  /\ req = "none" /\ output = NoFile
  /\ emu = "off" /\ boots = 0 /\ life = "none" /\ probed = FALSE
  /\ flight = <<>> /\ ring = <<>> /\ drawn = <<>> /\ txq = 0 /\ wire = 0
  /\ published = <<>> /\ crossed = FALSE /\ said = FALSE /\ paused = FALSE
  /\ results = <<>> /\ exit = "running"

Step(error) == pc' = pc + 1 /\ failed' = (failed \/ error) /\ UNCHANGED rescue
\* an exception ends the trial; the wire and wrap trials still ask for a snapshot
Raise == failed' = TRUE /\ rescue' = TRUE /\ UNCHANGED pc

\* a fresh emulator; the handshake may have asked more often than was answered
Open ==
  /\ At("open")
  /\ \/ /\ emu' = "running" /\ boots' = boots + 1 /\ probed' = FALSE /\ Step(FALSE)
        /\ \E n \in 0 .. Strays : flight' = [i \in 1 .. n |-> Stray]
     \/ Raise /\ UNCHANGED <<emu, boots, probed, flight>>
  /\ UNCHANGED <<polling, asked, files, life, ring, drawn, txq, wire, published, crossed, link, report>>

\* Terminal.send waits, without a deadline, while the reader has heard XOFF and the
\* connection is open; the shell tests' terminal knows no XOFF.
Unheld == ~paused \/ mode = "wrap"

\* the screen is cleared behind what has been drawn
Reset ==
  /\ At("reset")
  /\ \/ emu = "running" /\ Unheld /\ drawn' = <<>> /\ Step(FALSE)
     \/ emu # "running" /\ Raise /\ UNCHANGED drawn
  /\ UNCHANGED <<polling, asked, files, machine, flight, ring, txq, wire, published, crossed, link, report>>

ClearBuf ==
  /\ At("clearbuf") /\ wire' = 0 /\ Step(FALSE)
  /\ UNCHANGED <<polling, asked, files, machine, flight, ring, drawn, txq, published, crossed, link, report>>

\* what is sent to an emulator that has gone is lost, or raises
Sends(bytes) ==
  /\ \/ Unheld /\ Step(FALSE) /\ flight' = IF emu = "running" THEN flight \o bytes ELSE flight
     \/ emu # "running" /\ mode # "wrap" /\ Raise /\ UNCHANGED flight
  /\ UNCHANGED <<polling, asked, files, machine, ring, drawn, txq, wire, published, crossed, link, report>>

\* the reserve trial lets its first part fill the queues before the rest
Prime == At("prime") /\ Sends(<<Head(Payload)>>)
Rest == IF mode = "reserve" THEN Tail(Payload) ELSE Payload
Send == At("send") /\ Sends(Rest)

\* Deviation: a screen with as much on it will do.
ScreenShort == Len(drawn) < Len(Payload)

ScreenWrong == drawn # Payload

\* one fresh snapshot, whenever it comes; without one, an exception
Capture ==
  /\ At("capture")
  /\ IF emu = "running" THEN Step(ScreenWrong) ELSE Raise
  /\ UNCHANGED <<polling, asked, files, machine, firmware, report>>

Peek ==
  /\ At("peek")
  /\ Step(wire # Replies \/ emu # "running")
  /\ UNCHANGED <<polling, asked, files, machine, firmware, report>>

\* screens and replies until both are right, the emulator has gone or the time is over
Settle ==
  /\ At("settle")
  /\ IF emu = "running" THEN Step(ScreenWrong \/ wire # Replies) ELSE Raise
  /\ UNCHANGED <<polling, asked, files, machine, firmware, report>>

\* the terminal still answers: a query and its one reply
QueryOnce == At("query") /\ Sends(<<Query>>)

--------------------------------------------------------------------------------
(***************************************************************************)
(* request_diag.                                                           *)
(***************************************************************************)
Asks == [resetdiag |-> "reset", snapshot |-> "snapshot", foreign |-> "foreign", ctrlreset |-> "ctrl"]
Asking ==
  /\ exit = "running" /\ ~polling /\ asked = "none"
  /\ rescue \/ \E s \in DOMAIN Asks : At(s)

\* the last step before ctrl_reset is checked: the query was answered exactly
Answered == Script[pc] = "ctrlreset" /\ ~rescue => wire = 1

\* the old output goes, the request comes in one step
Ask ==
  /\ Asking /\ (rescue => emu = "running" /\ mode \in {"wire", "wrap"})
  /\ polling' = TRUE /\ asked' = IF rescue THEN "snapshot" ELSE Asks[Script[pc]]
  /\ output' = NoFile /\ req' = asked'
  /\ failed' = (failed \/ ~Answered)
  /\ UNCHANGED <<pc, rescue, machine, firmware, report>>

Throttled(file) == file.high

\* validate_diag, and for flow and reserve that XOFF was sent and answered
Validate(file) ==
  /\ file.kind = "snapshot" /\ file.whole /\ file.idle
  /\ mode # "lifecycle" => file.val = Payload
  /\ Flowing => Throttled(file)

\* what a step makes of an answer, or of the nothing it read until its time was over
Judge(file) ==
  IF asked = "reset" THEN IF file.kind = "reset" THEN Step(FALSE) ELSE Raise
  ELSE Step(IF asked = "snapshot" THEN ~Validate(file)
            ELSE file.kind # asked \/ (asked = "ctrl" /\ emu # "running"))

\* Deviation: a snapshot for a failed trial is asked for until the trial is forgotten.
AskAgain == "none"

\* one snapshot, whatever came of it
AskedOnce == "rescued"

\* The wait ends when the marker is read, which may be before the rest is written, or
\* when its time is over; either way what was read last is judged.
Poll ==
  /\ polling /\ exit = "running"
  /\ polling' = FALSE
  /\ IF rescue THEN UNCHANGED <<pc, failed>> /\ rescue' = TRUE ELSE Judge(output)
  /\ output' = IF asked = "reset" /\ output.kind = "reset" THEN NoFile ELSE output
  /\ asked' = IF rescue THEN AskedOnce ELSE "none"
  /\ UNCHANGED <<req, machine, firmware, report>>

--------------------------------------------------------------------------------
(***************************************************************************)
(* The end of a boot, of a trial and of the program.                       *)
(***************************************************************************)
CloseEmu == emu' = "off"

\* target.close and clean_diag
ClearAll ==
  /\ CloseEmu /\ req' = "none" /\ output' = NoFile
  /\ life' = "none" /\ probed' = FALSE
  /\ flight' = <<>> /\ ring' = <<>> /\ drawn' = <<>> /\ txq' = 0 /\ wire' = 0
  /\ published' = <<>> /\ crossed' = FALSE /\ said' = FALSE /\ paused' = FALSE

Close ==
  /\ At("close") /\ ~polling /\ ClearAll /\ Step(FALSE)
  /\ UNCHANGED <<polling, asked, boots, report>>

\* history: the firmware did what it should, as far as the trial can be about it
Earned ==
  /\ mode # "lifecycle" => published = Payload /\ drawn = Payload /\ ring = <<>>
  /\ mode = "wire" \/ Flowing => wire >= 1 /\ txq = 0
  /\ Flowing => crossed

More == Len(results) + 1 < Runs

\* finally; then the result is written, and the next trial or the exit code follows
Finally(ok, truth) ==
  /\ ClearAll
  /\ results' = Append(results, [ok |-> ok, earned |-> truth, wire |-> wire])
  /\ exit' = IF More THEN "running"
             ELSE IF \A r \in Range(results') : r.ok THEN "ok" ELSE "fail"
  /\ pc' = 1 /\ polling' = FALSE /\ asked' = "none" /\ failed' = FALSE /\ rescue' = FALSE
  /\ UNCHANGED boots

Verdict == At("verdict") /\ Finally(~failed, Earned)
Rescued ==
  /\ rescue /\ ~polling /\ exit = "running"
  /\ (asked = "rescued" \/ emu # "running" \/ mode \notin {"wire", "wrap"})
  /\ Finally(FALSE, FALSE)

--------------------------------------------------------------------------------
(***************************************************************************)
(* The script in the emulator, between two frames.                         *)
(***************************************************************************)
Frame == emu = "running" /\ exit = "running"

\* snapshot_if_requested: the request is taken away, then carried out
ServeReset ==
  /\ Frame /\ req = "reset" /\ req' = "none"
  /\ published' = <<>> /\ crossed' = FALSE /\ output' = File("reset", TRUE)
  /\ UNCHANGED <<host, machine, flight, ring, drawn, txq, wire, link, report>>

\* its text is longer than one write: the marker may be there before the rest
ServeSnapshot ==
  /\ Frame /\ req = "snapshot" /\ req' = "none"
  /\ \E whole \in BOOLEAN : output' = File("snapshot", whole)
  /\ UNCHANGED <<host, machine, firmware, report>>

WriteRest ==
  /\ Frame /\ ~output.whole /\ output' = [output EXCEPT !.whole = TRUE]
  /\ UNCHANGED <<host, req, machine, firmware, report>>

\* the probes take several frames; the foreign one never gives the processor back
BeginProbe ==
  /\ Frame /\ req \in {"foreign", "ctrl"} /\ req' = "none"
  /\ life' = req /\ probed' = (probed \/ req = "foreign")
  /\ UNCHANGED <<host, output, emu, boots, firmware, report>>

EndProbe ==
  /\ Frame /\ life # "none" /\ life' = "none" /\ output' = File(life, TRUE)
  /\ UNCHANGED <<host, req, emu, boots, probed, firmware, report>>

--------------------------------------------------------------------------------
(***************************************************************************)
(* The firmware under test and its emulator.                               *)
(***************************************************************************)
\* While the foreign probe loops the firmware does nothing.
Firmware == Frame /\ ~probed /\ output.whole

Receive ==
  /\ Firmware /\ flight # <<>> /\ flight' = Tail(flight)
  /\ \/ published' = Append(published, Head(flight)) /\ ring' = Append(ring, Head(flight))
     \/ "lose" \in Faults /\ UNCHANGED <<published, ring>>
     \/ "garble" \in Faults /\ published' = Append(published, Bad) /\ ring' = Append(ring, Bad)
  /\ crossed' = (crossed \/ Len(ring') >= High) /\ said' = (said \/ Len(ring') >= High)
  /\ UNCHANGED <<host, files, machine, drawn, txq, wire, paused, report>>

Draw ==
  /\ Firmware /\ ring # <<>> /\ ring' = Tail(ring)
  /\ \/ drawn' = Append(drawn, Head(ring))
     \/ "misdraw" \in Faults /\ drawn' = Append(drawn, Bad)
  /\ \E extra \in {0} \cup (IF "extra" \in Faults THEN {1} ELSE {}) :
       txq' = txq + (IF Head(ring) = Query THEN 1 ELSE 0) + extra
  /\ \/ said' = (said /\ ring' # <<>>)
     \/ "stuck" \in Faults /\ UNCHANGED said
  /\ UNCHANGED <<host, files, machine, flight, wire, published, crossed, paused, report>>

Transmit ==
  /\ Firmware /\ txq > 0 /\ txq' = txq - 1 /\ wire' = wire + 1
  /\ UNCHANGED <<host, files, machine, flight, ring, drawn, published, crossed, link, report>>

\* the reader's thread comes to the last XOFF or XON
Hear ==
  /\ exit = "running" /\ paused # said /\ paused' = said
  /\ UNCHANGED <<host, files, machine, flight, ring, drawn, txq, wire, published, crossed, said,
                 report>>

EmulatorExits ==
  /\ Exits /\ Frame /\ emu' = "exited"
  /\ UNCHANGED <<host, files, boots, life, probed, firmware, report>>

Host == Open \/ Reset \/ ClearBuf \/ Prime \/ Send \/ Capture \/ Peek \/ Settle \/ QueryOnce
          \/ Ask \/ Poll \/ Close \/ Verdict \/ Rescued
Emulator == ServeReset \/ ServeSnapshot \/ WriteRest \/ BeginProbe \/ EndProbe
              \/ Receive \/ Draw \/ Transmit
Stop == exit # "running" /\ UNCHANGED vars
Next == ((Host \/ Emulator \/ EmulatorExits \/ Hear) /\ UNCHANGED mode) \/ Stop

\* The host's threads run and its waits run out; of the emulator nothing is assumed.
Spec == Init /\ [][Next]_vars /\ WF_vars(Host /\ UNCHANGED mode) /\ WF_vars(Hear /\ UNCHANGED mode)

--------------------------------------------------------------------------------
(***************************************************************************)
(* Properties.                                                             *)
(***************************************************************************)
\* Success means that in every trial the firmware took the payload byte for byte, drew
\* it, answered, and (for flow and reserve) was throttled, however late or torn the answers of the
\* probe were and whenever the emulator exited.
PassIsEarned == exit = "ok" => \A r \in Range(results) : r.earned

\* Ctrl-Reset is pressed in a boot that the foreign probe has not taken over.
UnmodifiedBoot == life = "ctrl" => ~probed

\* The program ends, whatever the emulator does, with one exception: an emulator that lives
\* on after an XOFF that no XON follows holds for good the send that comes next.
Held == said /\ emu = "running" /\ (At("reset") \/ At("prime") \/ At("send") \/ At("query"))
RunsEnd == <>(exit # "running") \/ <>[]Held

================================================================================
