# A TLA+ model of the Apple IIe VT100 terminal

This directory specifies the program in `vt100-term-c` (a VT100 terminal for the
Apple IIe on a 6551 Super Serial Card), the host code that paces and tests it,
and the game and the serial echo kept beside it. The specifications are
translated from the source; the documents under `vt100-term-c/docs` are quoted
only where the code and a document disagree.

Run from this directory: `tlc -config flow.cfg MCSerialDriver.tla` (and the other
configurations, with the modules named in section 4), `tlapm SerialDriver_proofs.tla`.

## 1. The system

| Component | State it keeps | Operations | Talks to |
|---|---|---|---|
| Receive ring (`ring.c`) | `rx_ring`, `r_head`, `r_tail` | pop, count | filled by the handler, emptied by the main loop |
| Serial driver, main side (`serial.c`) | `tx_ring`, `t_head`, `t_tail`, `xoff_sent`, `tx_irq_active` | `serial_put`, `serial_write`, `serial_getch`/`resume_rx`, `serial_init` | called by the main loop and the parser; shares everything with the handler |
| Interrupt handler (`serial_isr.s`) | the same, and `irq_owned`, the vector and its predecessor | receive, throttle, transmit, chain; install, remove | preempts the main loop; drives the 6551 |
| Start-up and reset (`crt0.s`) | `SOFTEV`, `PWREDUP`, `serial_old_reset` | take over and restore the warm-reset vector | the Monitor, Ctrl-Reset |
| Main loop (`term.c`) | `idle` | poll, feed, keyboard | driver, parser, screen |
| Parser (`vt100.c`) | parser state, parameters, character sets, saved cursor | `vt100_feed` | screen; replies through `serial_write` |
| Screen (`screen80.c`) | two video banks, cursor, scroll region, save area, cursor overlay | put, scroll, insert/delete, clear, save/restore | read asynchronously by the emulator's probes |
| Benchmark host (`client/bench.py`) | socket, `_paused`, reply buffer | send, drain, windowed send, ready handshake | the terminal, over a byte stream |
| Shell bridge (`client/vt100_shell.py`, `serial_link.py`) | link, pty, stop event | handshake, type into bash, write its output | the terminal and bash |
| Conformance harness (`client/conformance`) | corpus, targets, results | load, run a case on MAME and on pyte, compare, sum up | a host, the screen probe |
| Stress harness (`client/serial_irq_stress.py`) | request and output files, verdicts | boot, send, ask the script, judge | a host, the script in the emulator |
| `snake-c`, `snake-asm` | body ring, screen, generator, BCD score | one step per key poll | keyboard, lo-res screen |
| `ssc-serial-c` | the 6551's registers | poll, echo | a host |

What is hard here: one interrupt handler and one main loop share two rings, a
flag and a command register with no lock but the I flag; the 6551 changes its
registers between any two instructions of the handler, holds one received byte,
and its status read destroys information; the host stops late; Ctrl-Reset may
strike before any instruction; and on the host side a reader thread, a sender and
a timeout share a reply buffer.

What makes the components correct:

- *driver*: no received byte is lost while the host stops within the slack the
  water marks leave; bytes pass in order, each once, both ways; XOFF always finds
  a slot; `xoff_sent` is what the host will believe; nothing queued or received
  is left with no interrupt to move it; waits end; foreign interrupts, and only
  those, reach the predecessor;
- *start-up and reset*: no reset and no interrupt goes through a half-written
  vector; whatever was taken from DOS is given back, however the program ends;
- *parser and screen*: indices stay on the screen and in the region, a private or
  intermediate sequence never acts as the plain one, the overlay never leaks into
  the text, save and restore match;
- *hosts*: at most one window is in flight; an answer belongs to its question;
- *snake*: ring and screen agree on the body; *echo*: a byte is read before the
  next arrives.

## 2. Plan

The order is that of importance: first what a lost interrupt or byte breaks,
then what the user sees, then what judges both.

| Order | Module | Content | Checked by | Proved in |
|---|---|---|---|---|
| 1 | `SerialDriver`, `RxPath`, `TxPath` | main loop, handler, 6551 and host; two abstract FIFOs it implements | `flow` `order` `live` `laggard` | `SerialDriver_proofs` |
| 2 | `Lifecycle` | reset and interrupt vectors under Ctrl-Reset | `lifecycle` | `Lifecycle_proofs` |
| 3 | `HostPacing` | reader thread, XON/XOFF, windowed send, late reports, on an abstract terminal | `pacing` | `HostPacing_proofs` |
| 4 | `Screen80`, `Vt100` | parser, screen, overlay, main loop | `terminal` | `Vt100_proofs` |
| 5 | `MameTarget` | reset, recovery and settling of the conformance target, with the screen probe | `cases` | `Conformance_proofs` |
| 6 | `Corpus`, `Conformance`, `Harness` | loading the corpus; verdicts, audit, differential, figures | `conformance` | `Conformance_proofs` |
| 7 | `HostBridge` | shell bridge over a socket or a device | `bridge` | `HostBridge_proofs` |
| 8 | `StressHarness` | repeated serial trials and their request protocol | `stress` | `StressHarness_proofs` |
| 9 | `Snake`, `SnakeRandom`, `SscEcho`, `Programs` | the game, its generator, the polled echo and its client | `programs` | `Programs_proofs` |

`Harness` puts `Corpus` beside `Conformance` (a program loads, then runs), and
`MCConformance` runs the two; `Programs` puts the echo beside the snake, and
`MCPrograms` runs each of them and the generator. `HostPacing`, `HostBridge` and
`StressHarness` each hold the terminal as the FIFO that `SerialDriver` is shown
to implement. Every safety property that a run checks is proved for every value of the
constants, but for the one that section 5 names at its end.

## 3. The modules

### SerialDriver

Two programs run on one CPU. `mpc` is the main loop's next step, `ipc` the
handler's; a step of the main loop needs `ipc = "off"`, and `IsrEnter` may come
before any of them while `iflag` is clear. A step is the code between two
accesses to shared state that the other side can observe: `ring_pop` is
`PopRead` and `PopPublish` because an interrupt between the read and the store of
`r_tail` sees the slot as occupied; the code between `irq_off` and `irq_on` is
split into check, commit and `ArmTx` because the 6551 and the host keep moving
while interrupts are masked. Each handler step is one access to the card, with
what the code then does about it.

| Variables | Code |
|---|---|
| `rx_ring r_head r_tail`, `tx_ring t_head t_tail`, `xoff_sent`, `tx_irq_active` | the globals of those names |
| `mpc ret after nh len ch` | the main loop's program counter, return points and locals |
| `ipc sr owned` | the handler's program counter, `sr_tmp`, `irq_owned` |
| `rdr tdr latch txie` | the 6551: receive and transmit data registers, interrupt latch, transmit-interrupt enable |
| `foreign` | another card holds the interrupt line |
| `hostFree credit lastCtl` | the host: unthrottled, bytes it may send although throttled, last control byte received |
| `dropped` | history: a byte met a full ring |

Modelled from how the driver uses them, and marked external in the map: the card
(`Arrive`, `Deliver`, `IrqRaised`), other interrupt sources (`OtherInterrupt`)
and a host that obeys XON/XOFF with a lag: from the moment an XOFF is queued it
sends at most `Slack` bytes (`BindHost`). A byte arrives only when the last was
read: at 9600 baud the handler has about a thousand cycles for a byte, and the
6551's own overrun is outside the model. What a byte does in the parser is
abstracted to whether it produces a reply (`Feed` begins a `serial_write` of up to
`MaxReply` bytes or none); a key produces one byte or an arrow sequence.

`RxPath` and `TxPath` are what the two halves promise: a bounded FIFO, with an
urgent push at the front for XOFF and one slot in reserve for it.

### Lifecycle

`crt0.s`, `serial_isr_install` and `serial_isr_remove`, one action per store to a
vector, flag or command register; `CtrlReset` is enabled before every one and
masks interrupts, may or may not reset the card, and follows `SOFTEV` when
`PWREDUP` vouches for it. `PWREDUP` is represented by the high byte it validates,
so the invalid value the code stores, `hi EOR $5A`, is the one that validates the
complement of `hi`: the model keeps the coincidence in which that is a byte the
program is about to store. `before` records the vectors as DOS set them up; a
leftover `IRQVEC` that already is `serial_isr` is among the initial states.

### HostPacing

`bench.Terminal` and the wall pass that drives it: `wait_ready`, then rounds of
`clear_screen`, `sync` and `send_windowed`. Two threads share `paused` and `heard`.
`op` is the call the sender is in and `step` where it is in it: `TestPause` and
`WriteChunk` are two steps because the pause flag may change between them;
`Acked` and `TimeOut` are the two results of `wait_cpr`. The reader takes any
prefix of what has arrived (`Recv`), obeys its control bytes one at a time
(`Scan`) and only then shows the sender the reports in it (`Extend`). `heard` is
the set of reports that have reached `_buf`, since `wait_cpr` looks for nothing else.

The terminal end is `SerialDriver`'s promise, without its interleavings: a
receive FIFO with water marks, replies in order, XOFF in front of them (`Deliver`,
`Process`, `Transmit`). Bytes that arrive before it has booted are lost, and the
emulator may exit at any moment (`Disconnect`). Questions and reports are
numbered to state the properties; no action compares the numbers, as the code
cannot. `Hasty` names the calls whose timeout may expire with the answer on its
way: with 180 s for the waits of a round none can, with `wait_ready`'s one second
it can.

### Screen80 and Vt100

`Screen80` has no variables: every `scr_` function is an operator from a screen
record to a screen record (cells, cursor, region, attribute, save area,
overlay). The two video banks are one page of cells, and a display code is its
character with an inverse flag; `Upper` is the character a letter shares its
inverse code with when the overlay inverts a cell.

`Vt100` is the parser on that screen inside `term.c`'s loop. `pc` is the loop:
`FeedByte` takes one byte through the whole of `vt100_feed`, and painting or erasing
the overlay is a step per store (`PaintSaves`, `PaintMarks`, `PaintInverts`,
`EraseRestores`, `EraseUnmarks`), because the probes read the page between any two
of them. The
loop waits until it has been idle for a while before it paints; how long is left
to chance. A byte is a character or the name of a control; parameters are 16-bit
words and are narrowed to a byte where the code narrows them.

| Variables | Code |
|---|---|
| `s` | the statics of `screen80.c` and the page |
| `p` | the statics of `vt100.c` |
| `pc`, `rest`, `count` | the main loop, the bytes the host still sends |
| `out` | replies written with `serial_write` |
| `page`, `input`, `begun`, `primary` | history: the screen without any overlay, the last sequence and the terminal before it, the screen and cursor an alternate one was entered from |

### MameTarget

One run of `conformance/runner.py` on `MameTarget`: the harness (`stage`) resets the
terminal, sends a case's bytes (`unsent`: what is left of them) in windows with a
question behind each, waits, and looks at the file the probe writes until a snapshot
is fresh (`Look`, `Take`). `Receive` and `Eof` are the reader thread, `Process` the
firmware, a byte at a time, `SnapshotBegins` and `SnapshotEnds` the probe, `Exit` the
crash. The specification's names (`TargetInit`, `TargetNext`, `target`) differ from those
of `Conformance`, so that `Conformance_proofs` extends both.
A screen is the sequence of what was put on it since the last reset. Between
`SnapshotBegins` and `SnapshotEnds` the machine stands still, as it does while
the script writes the file from a frame callback. `Hasty` names the waits whose
timeout may beat an answer already on its way. The run lets none. That is an
assumption: the code gives most waits several seconds, but `_wait_ready` asks again
after one, and what a late first report would then do is excluded with it.

### Corpus and Conformance

`Corpus` is `load_corpus`: files in the order of their names, records in the
order of the file, errors collected and raised together, the cases sorted by
category and identifier at the end (`Sorted`: some arrangement of them that is
ordered). The loader looks for some mistakes and not for others, and the model keeps
the difference. A value is fine, holds a bad escape, is `misshapen` or `mistyped`
(`Unfit`). `Validates` is what the code checks. What trips its own code is not caught
(`Escapes`: a record that is no object, an `input` or report that is no string, an
`attr` that does not unpack into four; a file that is not UTF-8 likewise; keys of
different types at the sort, `Mixed`): `Die` leaves with what was collected untold.
Rows, cells and cursors of any shape pass, and raise when the case is checked, which
is the case with `shaped = FALSE` of `Conformance`. `Conformance` takes one
case per step (`RunOne`) through the runner's verdict, the audit of the corpus
against the reference terminal, or the differential of firmware and reference,
and then the summary and the exit code (`Finish`). A plane of a screen is one
value and an expectation the value wanted, so that a check is a comparison; what
each target can observe, the order of the tests and the filters of each summary
are the code's.

### HostBridge

`vt100_shell` with its two threads: the main one asks the terminal for its
position until it answers, starts bash and types what comes; `Pump` writes bash's
output to the link. There are three links (`transport`). A socket is not blocking:
`sendall` writes what fits and raises when the socket is full, which kills the thread
(`PumpDies`). A serial adapter's write waits, and raises when it is pulled. A
pseudo-terminal's write waits, takes part, goes on, and on an error returns as if all
were written (`PumpDrops`). What a failing write still held is gone in each case:
`Abandon` moves it to the history `cut`. bash is its numbered output behind a
terminal that honours XOFF; `proc.write` takes whatever is typed at once.

### StressHarness

`serial_irq_stress.py` as its scripts of steps, one per mode; `At` names the step
the trial is in, `polling` that it waits for the script in the emulator, and a
wait that has a deadline may run out at any time. A send has none: while the reader
thread has heard XOFF (`paused`, set by `Hear`) and the connection is open,
`Terminal.send` spins, so `Reset`, `Prime`, `Send` and `QueryOnce` are disabled
(`Unheld`). The trial `wrap` uses the shell tests' terminal, which ignores XOFF. A send
also spins on a full socket; the payloads are far shorter than one, so that is left
out, and so are the sends of the opening handshake, which `Open` contains. The request
file appears whole, the output file may be seen torn (`output`). An exception leads
through the same clean-up as in the code (`rescue`). The firmware may lose, garble or
misdraw a byte, or forget to send XON (`stuck`); the truth at the moment of the verdict
is kept in `results` beside it. For a `lifecycle` trial, which sends no payload,
that truth is empty.

### Snake, SnakeRandom, SscEcho

`Snake` is one pass of `play_game` per step; the body is a ring and the cells of
the screen, and `None` marks a slot of the ring that is not part of the body.
`SnakeRandom` is `next_random` and the cell `place_food` makes of two numbers, run
once through its period with the real constants. `SscEcho` counts time in
characters of the line, which is what decides whether the receive register is
read in time. A return costs two characters of output. What is printed goes through
the Monitor's COUT (`Cout`): a return, or a character in the last column, goes on to
the next row (`NewRow`), and below the last row the Monitor scrolls the screen, some
15,000 cycles or 14 characters at 9600 baud, during which the program does not poll
(`busy`, up to `ScrollTime`).

## 4. The runs

| Run | Module, specification | Constants | Question |
|---|---|---|---|
| `flow` | MCSerialDriver, `Spec` | rings 6 and 3, marks 3/0, slack 1, other sources on | no loss, XOFF slot, flag and host agree, nothing stranded, only foreign interrupts are chained |
| `order` | MCSerialDriver, `Spec` | rings 4 and 4, marks 3/0, two host bytes, two output bytes | the driver implements `RxPath` and `TxPath` |
| `live` | MCSerialDriver, `FairSpec` | rings 4 and 3, marks 2/0, slack 0 | throttled hosts are released, main loop never hangs |
| `laggard` | MCSerialDriver, `Spec` | rings 4 and 4, marks 2/0, slack 2 | violated: see 6 |
| `lifecycle` | Lifecycle, `Spec` | four byte values, closed under complement | vectors under Ctrl-Reset |
| `pacing` | HostPacing, `FairSpec` | groups of 4 in chunks of 2, ring 5, marks 3/1, two rounds of two groups | one group in flight, no overflow, an answer settles what came before it, the benchmark ends |
| `terminal` | MCVt100, `Spec` | 3 rows, 4 columns; three inputs of 23 that edit, three of 18 that change modes and screens, or one SGR sequence: up to four numbers, whole colours of three or five behind up to two attributes, with shifts among them | snapshots are consistent, only the region scrolls, the alternate screen gives screen and cursor back, sequences are understood, the cursor returns |
| `cases` | MCMameTarget, `FairTargetSpec` | every pair of nine inputs, windows of 6 | a case is judged on its own screen, snapshots are fresh, every case gets a row |
| `conformance` | MCConformance, `MCSpec` | directories of two files of up to two records; one case against every screen of either side, or three of a few | the loader keeps its word as far as it looks; the exit code, the figures and the three comparisons mean what they say |
| `bridge` | HostBridge, `Spec` | every link, link and pty of 2, ring 3 with marks 2/0, three pieces of output, one key | nothing reordered, nothing lost but what a failing write held, a stopped shell is released, the bridge ends |
| `stress` | StressHarness, `Spec` | every mode, two trials, four kinds of fault, one stray byte, exits | success is deserved, the reset gets a boot of its own, the program ends unless a send is held |
| `programs` | MCPrograms, `MCSpec` | generator: its real constants; board 6 by 6 with its border, snake of 4 to 6; echo: four lines of up to three characters with any pauses, screen of width 2 with two rows left, scrolls of up to 2 | the body is one snake, food is found, deaths are fair, the echo is complete where section 6 says it is |

*Bounds of the driver.* The rings wrap many times in every run (behaviours are
unbounded, only sizes are small). Three transmit slots are the least in which the
reserve, the XOFF and an ordinary byte differ; a receive ring of 6 with marks 3
and 0 and slack 1 is the least that satisfies the arithmetic the real marks
satisfy with room to spare (`RingHigh + Slack + 1 <= RxSize - 1` and `RingLow +
Slack + 1 < RingHigh`; with 256, 192 and 64 it holds for a slack up to 62). In
`order` each ring has four slots: the receive ring queues three bytes and overflows, which `RxPath` allows as dropping the newest byte; the transmit ring queues
two ordinary bytes and the XOFF in front of them, and both wrap. Several bytes in a
ring are what a reordering inside it takes, and two distinct bytes are what it takes to
see one, because the FIFO treats bytes alike; for that reason too `Symmetry` permutes
host bytes and output bytes. `LiveSlots` leaves out of the state what no step can
read: the slots of a ring outside its queue.

*Bounds of the others.* In `lifecycle`, four bytes give every pattern of equal,
different and complementary vector bytes that the properties distinguish. In
`pacing` the ring holds exactly one group and its question, the least the protocol
allows, and the high mark is below that, so that XOFF and the pause happen (with
96-byte groups and a mark of 192 they would not); two rounds of two groups give
every succession of waits. In `terminal`, three rows are the least with a region
smaller than the screen, and three inputs suffice to set a region, move in or out
of it and edit; `MCMemory` lets the save area be blank at power-up, the proofs let
it be anything. In `cases`, windows of six bytes cut a sequence of the input just
as 96 do, and two cases are enough for one to disturb the next. In `stress` a
payload is two bytes, enough to lose the first, the last or the order. In `bridge` a
link of two cuts a write in the middle and leaves something to lose. The echo of
`programs` meets a line longer than the screen is wide, full and not yet full
screens, and pauses from none to more than a scroll. In `conformance` the directories
hold a record for each mistake, those the loader finds and those it does not look
for. The generator of `programs` goes through all 65535 states, and `SearchEnds` compares
what it reaches with the longest snake of the real game.

*Fairness.* `SerialDriver`'s `FairSpec` assumes that the CPU executes (weak
fairness of `Main` and of the handler's steps), that the 6551 shifts out what it
was given (weak fairness of `Deliver`) and strong fairness of `IsrEnter`: the
interrupt line is a level, and `irq_on` is `CLI; RTS`, so between the `CLI` and the
next `SEI` at least two instructions end with interrupts enabled and a pending
interrupt is taken. The host and other cards are under no obligation.
`HostPacing`'s assumes that both threads run, that a timeout expires in the end,
and that the emulator moves bytes and runs the terminal while it lives; it need
neither boot nor exit. `MameTarget`'s assumes the same, and that the probe's frames
go on while the emulator lives. `HostBridge`'s assumes that both threads and the
terminal run, and nothing of bash or the user. `StressHarness`'s assumes only that the
host's two threads run and its waits run out: of the emulator it assumes nothing.
`Vt100`'s is weak fairness of the main loop.

*Deadlock* is checked except in `terminal` and `programs`: there the host may have
said all it has to say, or the program ended, and nothing else is left to happen.
The operators with a suffix (`Succ_NoWrap`, `IsrTxSend_DummyRead`, ...), and those
commented as deviations, are plausible slips of the code used to see that the
properties notice them; no specification refers to them.

## 5. What is proved

`SerialDriver_proofs` proves for every ring size, mark, burst and set of bytes
that satisfies the module's assumptions:

- `TypeCorrect`, `NothingStrandedCorrect`, `ChainOnlyForeignCorrect`;
- `NoLossCorrect`, `XoffNeverStarvedCorrect` and `ThrottleAgreesCorrect`, under
  `HostStopsInTime`: what the host sends after XOFF fits above high water and
  between the marks.

The inductive invariant `FlowInv` joins what the code relies on without saying:
`MaskInv` (between `irq_off` and `irq_on` interrupts are off and the handler is
not running), `CommitInv` (the head computed at the check is still the next one,
and still free, at the commit), `SignalInv` (the shadow flag is the transmit
enable, and a queue without it belongs to a call that is about to set it),
`PhaseInv` (how many control bytes the queue may hold in each state of
`xoff_sent`, which is why the reserved slot is enough), and `CountInv` (occupancy
plus the host's remaining credit fits the ring). `NoLoss` alone is not
inductive: whether a byte is lost depends on bytes already on their way, which
only `CountInv` and `PhaseInv` together bound. `ThrottleAgrees` adds two parts:
`AgreeInv` (the control byte `xoff_sent` stands for is the last one in the queue,
or, when none is queued, the one in the card's register, or the last one
delivered) and `SampleInv` (the handler hands over a byte only to an empty
register, so none is overtaken).

The second half of `SerialDriver_proofs` proves `ImplementsFifosCorrect`: `Spec` implements `RxPath`
and `TxPath`, for rings of any size and with no assumption on the host. The
lemmas about a ring as a queue come first (a store at the head appends, a step of
the tail removes the first, a store below the tail puts one in front); then each action is shown
to be one step of each FIFO or a stutter. The steps need `CommitInv`, because
the element is published at the commit and not where its slot was found free;
`FetchInv`, because the byte handed to the main loop was read before the tail
moved; and `SampleInv`.

`Lifecycle_proofs` proves, for all byte sets and addresses that satisfy the
assumptions, the type invariant and the safety invariants of the `lifecycle` run from one
inductive invariant that says, for each program point, which bytes of which
vector are the predecessor's and which are the program's.

`Vt100_proofs` proves, for a screen of any size up to a byte, any characters and
any input, `TypeCorrect` (cursor on the screen, a region of two rows or more),
`LogicalSnapshotCorrect`, `AlternateRestoresCorrect` and `OnlyRegionScrollsCorrect`.
The inductive invariant `TInv` adds to the type and the snapshot property
`Overlay`, which says for each store of painting and erasing what the flag, the
saved glyph and the cell hold, and `Saved`, which says that while the alternate
screen was entered once the save area is the screen and the cursor left behind. Each `scr_`
operator has a lemma that it keeps a fine screen fine; each parser action rests on
those. `OnlyRegionScrolls` needs the type invariant's cursor and region.

`SequencesUnderstoodCorrect`, in the same module, says that the parser, which sees a byte at a
time, does what a reader of the whole sequence would do: shifts are transparent in a
sequence of any length, and colours are passed over in every SGR sequence that
`WellFormed` admits. Its part `Fits` is the parser's limit of four slots, past which
the digits of all further numbers run together in the last: at most four numbers, or
all from the fifth on belong to a colour begun among the first three, as in
`38;2;R;G;B` (section 6 has a sequence beyond it).
The invariant `Track` relates the state and the parameters of the parser to the
bytes since the escape: which state they lead to, where the parameters start, which
numbers they spell and how many there are, past the last one kept as well. Each
`Follows` lemma carries it over one byte. Shift bytes inside a sequence
change the character set and no cell, cursor, attribute or region, so the numbers are read off the
sequence without them (`Unshifted`). The definitions that read a sequence are
recursive functions; that each exists is shown by induction over the naturals, from
the library's fact that their order is well founded, over a set of naturals rather
than an operator (`Least`, `Induction`).

`HostPacing_proofs` proves `OneWindowInFlightCorrect`, `NoOverflowCorrect` and
`SettledOnAckCorrect` for any sizes, under `Patient`: no wait gives up with an answer
on its way, and a group and its question fit the ring. The properties are far from
inductive, for a report carries no mark. `PInv` says why none is needed: at most one
question or report exists anywhere (in the socket, the ring, the transmit queue or
the reader's hands), a question is the last byte on its way, and all calls but
`wait_ready` write only when nothing is. It holds also when the emulator has not
booted or exits, and however many bytes are in the socket when XOFF arrives.

`StressHarness_proofs` proves `UnmodifiedBootCorrect` and `PassIsEarnedCorrect` for any
number of trials, any faults and waits that run out anywhere; the second says nothing of
`lifecycle` trials, whose truth is empty. For the first, `SInv`
follows the boot from its opening to the reset key. The second is about the end of
the program, and what a trial earned is settled long before. `Trial` says at every
step what is so if all the tests up to it have succeeded: `Asked`, that an answer
awaited is of the kind the script asked for and that the trace is reset only before
the payload is sent; `Order`, that the payload comes once and nothing real comes
behind it; `Seen`, that what a snapshot said stays true, which it does because of
`Order`; and `Passed`, what the steps done so far have established. `Scores` carries it from
the rows to the exit code.

`LoadsAllOrTellsCorrect` is about the loader, which `Harness` instantiates as `Ld`. While it
reads, `Told` says that each bad record met so far has its error, each error its bad
record, and `Kept` that the cases are the good records in the order met, each once,
in front of the record it stands at. What is left is the sort: it loses and invents
nothing if a sorting permutation exists, and one does, since the rank of a case
(how many come before it) is a bijection, for cases that compare alike too
(`SortExists`). The theorem promises what the loader does: `NothingSkipped` of a corpus
that loads, `AllReported` of one that is refused, and of what it does not look for that
it is only that, whether it ends the loading (`DiesOfThese`) or passes it
(`LateErrorsAreShapes`).

`Conformance_proofs` proves `SuccessMeansConformanceCorrect`, `DisagreementShowsCorrect` and
`FiguresSoundCorrect` for any corpus, any screens and any number of cases. The
invariant `RowsInv` ties each row of the results to the case and the screens it was
computed from, `ExitInv` the exit code to the rows; the rest is about the operators: an
expectation that is checkable and fails is in `Check`, the outcomes partition the
rows, so their counts add up, and relabelling one row moves it between outcomes that
the behavioural figure treats alike. They assume what `Conformance` states of its
constants: screens carry both planes, the reference has a cursor but neither reports
nor state, and an expected cursor is a position; all are so in the code's targets and
in a loaded corpus.

`SnapshotNotOlderCorrect`, in the same module, is about `MameTarget`, for any corpus
and waits as hasty as they like. A number read as -1 from a half-written file makes the
next snapshot whole the fresh one, and that is the one being written; it is not
older all the same, because the machine stands still while it is written (`FileInv`).

`FaithfulVerdictCorrect`, about the same, says that a case is judged on what its own
bytes do to a terminal just reset, for any corpus, windows and slices of any size and any
number of snapshots. It assumes `Hasty = {}`: no wait gives up on an answer that is on its
way. The property speaks of rows already written, so its invariant `Tells` follows what is
still to come on the line. `Coming` is the terminal once it has all that is on its way, `Owed`
all the reports till then; a byte processed or a report received changes neither. `CaseInv`
says for each place of the harness what the two are: after the reset a clear screen
outside any sequence, after each window the case so far (`SentTo`, `AskedAt`), at the end
the whole of it and its reports (`Own`). A report carries no mark of its question;
`LastOnly` is why none is needed: only the last byte under way asks for one that the wait
would take, so an answer received means that nothing is left on the line. `BootInv` covers
the questions a terminal loses that has not booted, `ShotInv` the snapshot begun after the
look, `PastInv` the rows. That feeding two pieces is feeding one and then the other, and that
what a case draws does not depend on how it was cut, are inductions over the bytes on the
wire, again over a set of naturals.

`HostBridge_proofs` proves `StreamsKeptCorrect` for any link, links and terminals of any
size, any output and any keys. What a failing write still held is lost (`cut`), and the
theorem says that this is all that is, and that behind it nothing follows when the
thread died of it; over a pseudo-terminal, whose write fails without a word, output
goes on behind the hole. The inductive invariant `HInv` asks less than the property of the
terminal and more of the bridge: `Control` says that a terminal which has not booted has sent
nothing and that nothing of bash exists before an answer was heard, so `Kept` may drop
the condition that the terminal is up; `Severed` says where `cut` can come from and
what is in front of it. The lemmas are about streams: moving a piece
from one to the next leaves what is on its way the same.

`Programs_proofs` proves `BodyKeptCorrect` and `DeathsFairCorrect` for a board, a ring and a winning
length of any size (the board at least six cells wide, the ring longer than the snake
can grow). `SnakeInv` replaces the cardinalities of `BodyKept` by what the game keeps:
the live indices are those at most as far from the tail as the head is (`Sized`), their
cells lie inside the border and differ (`Apart`), and each cell of the screen shows what
is there (`Drawn`, `Served`). A free slot in front of the head, which is what
`MaxLength < Ring` leaves, is why a new head overwrites nothing. `DeathsFair` needs the
body connected and the last step in the remembered direction: only then does refusing
the opposite key keep the head out of the neck.

`EchoCompleteCorrect`, in the same module, is about `SscEcho`, instantiated as `Echo`, for any
lines, any screen and any length of a scroll. It holds while lines do not follow each
other at once (`rest > 0`) and, from the first scroll on, no line has wrapped and each
waited for a scroll (`rest = Enough`). A return costs two characters on
the way back for one on the way in, so the echo falls behind by one per line.
`Behind` counts that backlog: at most one character while a line comes in, at most
two just behind its return, and at most one again after the pause. `Fits` keeps a line
that does not wrap in its row, so that only its return can scroll; `Pausing` says that
the scroll, which begins at most a slot after the line, is over before the next, and
`Quiet` that nothing is on the line meanwhile. So the register is read in time
(`~lost`), and `Echoes` follows: what came
back, with what is on its way, is the expansion of what was typed. That an expansion
of a concatenation is the concatenation of the expansions is an induction over
the sequence (`ExpandCat`).

Only model-checked:

- `SearchEnds`: that the generator comes back only after all of its 65535 states, and
  that the cells it offers on the way cannot all be covered by a snake that has not won,
  are facts about these constants and not about their form; the run goes through all
  of them.
- everything under fairness: `ThrottleEnds`, `MainLoops`, `SenderEnds`, `RunEnds`, `BridgeEnds`,
  `FlowResumes`, `RunsEnd` and `CursorReturns` are liveness properties, and proving them
  needs ENABLED.

## 6. Disagreements with the documents, and limits

`docs/SERIAL.md` argues that XON need not jump the queue "because the host is
already stopped". The driver clears `xoff_sent` when it queues the XON. A host
whose bytes in the pipe still arrive (`docs/PROTOCOL.md` expects such hosts) can
fill the ring to high water again while that XON waits behind replies; the second
XOFF is pushed in front of it, the host obeys the XON last, and from then on
`xoff_sent` is set while the host sends freely. The `laggard` run shows it with a
slack equal to the distance of the marks; the condition `RingLow + Slack + 1 <
RingHigh` of the `flow` run and of `ThrottleAgreesCorrect` is what excludes it.

Properties hold under conditions that the models make visible:

- `OneWindowInFlight` needs patient waits. `wait_ready` asks again after a second;
  with `Hasty = {"ready"}` in `pacing.cfg` a first answer that was merely late ends
  the wait of the first `sync`, and the first group is written behind the bytes
  that `sync` should have waited for. The ring has room for the excess at the
  sizes the code uses, so what suffers is the first measurement.
- `FaithfulVerdict` needs a case whose windows cut no sequence and that ends outside one:
  a question of the harness inside a sequence of the case is part of that sequence. And
  neither it nor a case before it may ask for a report where the sender does not wait
  for one (`AsksEarly`, `AsksRaw`): reports asked for in a window before the last are
  discarded with its acknowledgement; a reply in front of a trailing question can end
  `_await_reply` before that question is answered; a position asked for in the middle of
  a window is taken for the answer to the sender's own question; and one asked for in
  what goes out raw behind a lost question can answer the next case's. Such a
  case is not what the docstring of `target_mame.py` (lines 16-22) has in mind, which
  knows questions only at the end. The corpus has one, `report-cpr-6n-idempotent`, which
  asks twice in a row: its verdict rests on both answers arriving between two polls, and
  that of the cases behind it on none being left over, which the model does not promise.
- `EchoComplete` needs a pause behind each line: a return is echoed as two
  characters, and with lines sent back to back the receive register is overrun in
  time. And once the 40-column screen is full it needs more: a line of 40 characters
  or more scrolls it in the middle of the line, and a pause shorter than a scroll,
  some 14 characters, leaves the next line to arrive while nothing is polled. Bytes
  are lost in both cases, where `src/ssc-serial-c/README.md:24` says "every byte that
  arrives over serial is sent back out".
- `SequencesUnderstood` needs `Fits`. In `ESC[38;5;1;48;2;34;50;3m` the numbers from the
  fourth on run together in the parser's last slot as 48234503, which is 7 modulo 65536
  (`vt100.c:499-503`): the sequence turns inverse on, although `docs/TERMINAL.md:146-148`
  and the comment at `vt100.c:313-315` say that a colour is never misread as an attribute.
- `LoadsAllOrTells` covers what `load_corpus` looks for. Its docstring
  (`model.py:308-314`) promises a ValueError "on any schema problem". Rows, cells and
  cursors of a wrong shape pass, and become an error of the run; a record that is no
  object, an `attr` of the wrong arity, an `input` that is no string and a file that is not
  UTF-8 leave with an exception of their own, and what was found before is not told.
- `StreamsKept` excepts what a failing write still held: a burst of output that meets
  a full socket ends the output thread with its rest unwritten (`serial_link.py:28-31`),
  and an error of a pseudo-terminal drops the rest without a word (`serial_link.py:115-116`).
- `RunsEnd` excepts a held send. `bench.Terminal.send` waits for XON without a deadline
  (`bench.py:245-247`), so firmware that sends XOFF and never XON holds the stress program
  until the emulator goes. The emulator is started with `-str 3600`
  (`target_mame.py:127`) and leaves after an hour of its own time, which ends the send
  with an error; the model does not count on that.
- `FaithfulVerdict` needs patient waits like `OneWindowInFlight`, although
  `_wait_ready` of the conformance target has one second per question as well.
- `SuccessMeansConformance` leaves out what the harness itself sets aside: cases with
  nothing observable, and the known quirks of the reference.

## 7. Not modelled

- The 6551's own overrun, framing and baud rate in `SerialDriver`: time is not
  modelled there.
- `find_ssc_slot`: it only chooses the register base. The translation of keys to
  bytes: a table.
- The chained handler's registers and stack: the model says when it is entered,
  not how.
- `bench.py` beyond the wall pass's pacing: measuring, the screen checks and the
  emulator's start-up.
- The host's live demo and static screens, opening a socket, finding a serial port.
- The pyte and fake targets and the self-test of the conformance harness: they are
  its test doubles; printed reports.
- The emulator scripts that only draw the screen or press keys, and the bus tracing
  behind the figures of `serial_irq_diag.lua`.
- The score, pace and frame of the game; `snake-asm`, of which `snake.c` is the port.
- Host-side tests, monitor bindings, straight-line demos, tool-chain scripts: no
  state worth a model.
