--------------------------- MODULE StressHarness_proofs ---------------------------
(***************************************************************************)
(* Two theorems about the regressions, for any number of trials, any       *)
(* faults of the firmware and any emulator.                                *)
(*                                                                         *)
(* Ctrl-Reset is never pressed in a boot that the foreign probe has taken  *)
(* over: the trial closes that boot, and with it whatever request or probe *)
(* is left, before it opens the one it resets.                             *)
(*                                                                         *)
(* A pass is earned: what a snapshot says, even one read late or torn,     *)
(* stays true, because a payload that has been taken has nothing behind    *)
(* it, and the trace is not reset again once the payload has been sent.    *)
(***************************************************************************)
EXTENDS StressHarness, SequenceTheorems, TLAPS

\* nothing of the foreign probe is left
Untaken == ~probed /\ req # "foreign" /\ life # "foreign" /\ asked # "foreign"

\* Ctrl-Reset has been asked for, or is being pressed
Pressing == "ctrl" \in {req, life, asked}

Reopened == mode = "lifecycle" /\ pc >= 8
SInv ==
  /\ mode \in {"wire", "flow", "reserve", "wrap", "lifecycle"} /\ pc \in Nat \ {0}
  /\ asked = "foreign" => mode = "lifecycle" /\ pc = 6
  /\ polling /\ ~rescue => Script[pc] \in DOMAIN Asks
  /\ Reopened => Untaken
  /\ Pressing => Reopened

\* Where the steps of the trials that matter here are.
LEMMA Places ==
  ASSUME SInv, NEW s, At(s)
  PROVE  /\ s = "foreign" <=> mode = "lifecycle" /\ pc = 6
         /\ mode = "lifecycle" /\ pc = 7 => s = "close"
         /\ s = "ctrlreset" => mode = "lifecycle" /\ pc = 14
         /\ s = Script[pc]
  <1>1. pc \in Nat \ {0} /\ pc <= Len(Script) /\ Script[pc] = s BY DEF At, SInv
  <1>2. CASE mode = "wire"
    <2>1. Script = WireScript BY <1>2 DEF Script
    <2> QED BY <1>1, <1>2, <2>1 DEF WireScript
  <1>3. CASE mode = "flow"
    <2>1. Script = FlowScript BY <1>3 DEF Script
    <2> QED BY <1>1, <1>3, <2>1 DEF FlowScript
  <1>4. CASE mode = "wrap"
    <2>1. Script = WrapScript BY <1>4 DEF Script
    <2> QED BY <1>1, <1>4, <2>1 DEF WrapScript
  <1>5. CASE mode = "lifecycle"
    <2>1. Script = LifecycleScript BY <1>5 DEF Script
    <2> QED BY <1>1, <1>5, <2>1 DEF LifecycleScript
  <1>6. CASE mode = "reserve"
    <2>1. Script = ReserveScript BY <1>6 DEF Script
    <2> QED BY <1>1, <1>6, <2>1 DEF ReserveScript
  <1> QED BY <1>2, <1>3, <1>4, <1>5, <1>6 DEF SInv

LEMMA SInvInit == Init => SInv
  BY ModeAssumption DEF Init, SInv, Reopened, Pressing, NoFile

\* A step of the trial other than closing neither asks nor answers.
LEMMA PlainStep ==
  ASSUME SInv, pc' \in {pc, pc + 1}, NEW s, At(s), s # "close", s \notin DOMAIN Asks,
         UNCHANGED <<mode, polling, req, life, asked>>, probed' => probed
  PROVE  SInv'
  <1>1. s # "foreign" BY DEF Asks
  <1>2. ~(mode = "lifecycle" /\ pc \in {6, 7}) BY <1>1, Places
  <1>3. Reopened' <=> Reopened BY <1>2 DEF SInv, Reopened
  <1>4. asked' # "foreign" BY <1>2 DEF SInv
  <1>5. ~polling' BY Places DEF SInv, At
  <1>6. Untaken => Untaken' BY DEF Untaken
  <1>7. Pressing' <=> Pressing BY DEF Pressing
  <1> QED BY <1>3, <1>4, <1>5, <1>6, <1>7 DEF SInv

LEMMA StepKeeps ==
  SInv /\ UNCHANGED mode
    /\ (Open \/ Reset \/ ClearBuf \/ Prime \/ Send \/ Capture \/ Peek \/ Settle \/ QueryOnce) => SInv'
  <1> SUFFICES ASSUME SInv, UNCHANGED mode,
                      Open \/ Reset \/ ClearBuf \/ Prime \/ Send \/ Capture \/ Peek \/ Settle \/ QueryOnce
               PROVE  SInv'
    OBVIOUS
  <1>1. UNCHANGED <<polling, req, life, asked>> /\ pc' \in {pc, pc + 1} /\ (probed' => probed)
    BY DEF Open, Reset, ClearBuf, Prime, Send, Sends, Capture, Peek, Settle, QueryOnce, Step, Raise, files, machine
  <1>2. PICK s \in {"open", "reset", "clearbuf", "prime", "send", "capture", "peek", "settle", "query"} : At(s)
    BY DEF Open, Reset, ClearBuf, Prime, Send, Sends, Capture, Peek, Settle, QueryOnce
  <1>3. s # "close" /\ s \notin DOMAIN Asks BY <1>2 DEF Asks
  <1> QED BY <1>1, <1>2, <1>3, PlainStep

LEMMA AskKeeps == SInv /\ UNCHANGED mode /\ Ask => SInv'
  <1> SUFFICES ASSUME SInv, UNCHANGED mode, Ask PROVE SInv' OBVIOUS
  <1>1. UNCHANGED <<pc, rescue, probed, life>> /\ req' = asked' BY DEF Ask, machine
  <1>2. CASE rescue
    <2>1. asked' = "snapshot" BY <1>2 DEF Ask
    <2>2. Reopened' <=> Reopened BY <1>1 DEF Reopened
    <2>3. Untaken => Untaken' BY <1>1, <2>1 DEF Untaken
    <2>4. Pressing' => Pressing BY <1>1, <2>1 DEF Pressing
    <2> QED BY <1>1, <1>2, <2>1, <2>2, <2>3, <2>4 DEF SInv
  <1>3. CASE ~rescue
    <2>1. asked' = Asks[Script[pc]] BY <1>3 DEF Ask
    <2>2. PICK s \in DOMAIN Asks : At(s) BY <1>3 DEF Ask, Asking
    <2>3. /\ s = "foreign" <=> mode = "lifecycle" /\ pc = 6
          /\ s = "ctrlreset" => mode = "lifecycle" /\ pc = 14
          /\ asked' = Asks[s] /\ Script[pc] \in DOMAIN Asks
      BY <2>1, <2>2, Places
    <2>4. /\ asked' = "foreign" => s = "foreign"
          /\ asked' = "ctrl" => s = "ctrlreset"
      BY <2>2, <2>3 DEF Asks
    <2>5. Reopened' <=> Reopened BY <1>1 DEF Reopened
    <2>6. /\ asked' = "foreign" => mode = "lifecycle" /\ pc = 6
          /\ asked' = "ctrl" => Reopened
      BY <2>3, <2>4 DEF Reopened
    <2>7. Reopened => Untaken' BY <1>1, <2>6 DEF SInv, Reopened, Untaken
    <2>8. Pressing' => Reopened BY <1>1, <2>6 DEF SInv, Pressing
    <2>9. /\ asked' = "foreign" => mode' = "lifecycle" /\ pc' = 6
          /\ Script[pc]' \in DOMAIN Asks
      BY <1>1, <2>3, <2>6 DEF Script
    <2> QED BY <1>1, <2>5, <2>7, <2>8, <2>9 DEF SInv
  <1> QED BY <1>2, <1>3

LEMMA PollKeeps == SInv /\ UNCHANGED mode /\ Poll => SInv'
  <1> SUFFICES ASSUME SInv, UNCHANGED mode, Poll PROVE SInv' OBVIOUS
  <1>1. UNCHANGED <<req, probed, life>> /\ asked' \in {"rescued", "none"} /\ pc' \in {pc, pc + 1}
    BY DEF Poll, AskedOnce, Judge, Step, Raise, machine
  <1>2. ~polling' /\ polling BY DEF Poll
  <1>3. mode = "lifecycle" /\ pc = 7 => pc' = pc
    <2> SUFFICES ASSUME mode = "lifecycle", pc = 7 PROVE pc' = pc OBVIOUS
    <2>1. Script[pc] = "close" BY DEF Script, LifecycleScript
    <2>2. rescue BY <1>2, <2>1 DEF SInv, Asks
    <2> QED BY <2>2 DEF Poll
  <1>4. Reopened' <=> Reopened BY <1>1, <1>3 DEF SInv, Reopened
  <1>5. Untaken => Untaken' BY <1>1 DEF Untaken
  <1>6. Pressing' => Pressing BY <1>1 DEF Pressing
  <1> QED BY <1>1, <1>2, <1>4, <1>5, <1>6 DEF SInv

\* Closing a boot leaves nothing of it.
LEMMA EndKeeps == SInv /\ UNCHANGED mode /\ (Close \/ Verdict \/ Rescued) => SInv'
  <1> SUFFICES ASSUME SInv, UNCHANGED mode, Close \/ Verdict \/ Rescued PROVE SInv' OBVIOUS
  <1>1. req' = "none" /\ life' = "none" /\ ~probed'
    BY DEF Close, Verdict, Rescued, Finally, ClearAll
  <1>2. CASE Close
    <2>1. At("close") /\ asked' = asked /\ pc' = pc + 1 /\ ~polling' BY <1>2 DEF Close, Step
    <2>2. asked # "foreign" BY <2>1, Places DEF SInv
    <2>3. Pressing' => Reopened BY <1>1, <2>1 DEF SInv, Pressing
    <2> QED BY <1>1, <2>1, <2>2, <2>3 DEF SInv, Reopened, Untaken, Pressing
  <1>3. CASE Verdict \/ Rescued
    <2>1. asked' = "none" /\ pc' = 1 /\ ~polling' BY <1>3 DEF Verdict, Rescued, Finally
    <2> QED BY <1>1, <2>1 DEF SInv, Reopened, Untaken, Pressing
  <1> QED BY <1>2, <1>3

LEMMA EmulatorKeeps == SInv /\ UNCHANGED mode /\ (Emulator \/ EmulatorExits \/ Hear) => SInv'
  <1> SUFFICES ASSUME SInv, UNCHANGED mode, Emulator \/ EmulatorExits \/ Hear PROVE SInv' OBVIOUS
  <1>1. UNCHANGED <<pc, asked, polling, rescue>>
    BY DEF Emulator, EmulatorExits, Hear, ServeReset, ServeSnapshot, WriteRest, BeginProbe, EndProbe,
           Receive, Draw, Transmit, host
  <1>2. \/ UNCHANGED <<req, life, probed>>
        \/ req' = "none" /\ UNCHANGED <<life, probed>>
        \/ req' = "none" /\ life' = req /\ probed' = (probed \/ req = "foreign")
        \/ life' = "none" /\ UNCHANGED <<req, probed>>
    BY DEF Emulator, EmulatorExits, Hear, ServeReset, ServeSnapshot, WriteRest, BeginProbe, EndProbe,
           Receive, Draw, Transmit, files, machine
  <1>3. Reopened' <=> Reopened BY <1>1 DEF Reopened
  <1>4. Untaken => Untaken' BY <1>1, <1>2 DEF Untaken
  <1>5. Pressing' => Pressing BY <1>1, <1>2 DEF Pressing
  <1>6. Script[pc]' = Script[pc] BY <1>1 DEF Script
  <1> QED BY <1>1, <1>3, <1>4, <1>5, <1>6 DEF SInv

\* Ctrl-Reset is pressed in a boot that the foreign probe has not taken over.
THEOREM UnmodifiedBootCorrect == Spec => []UnmodifiedBoot
  <1>1. Init => SInv BY SInvInit
  <1>2. SInv /\ [Next]_vars => SInv'
    <2> SUFFICES ASSUME SInv, [Next]_vars PROVE SInv' OBVIOUS
    <2>1. CASE Host /\ UNCHANGED mode BY <2>1, StepKeeps, AskKeeps, PollKeeps, EndKeeps DEF Host
    <2>2. CASE (Emulator \/ EmulatorExits \/ Hear) /\ UNCHANGED mode BY <2>2, EmulatorKeeps
    <2>3. CASE UNCHANGED vars
      BY <2>3 DEF vars, host, files, machine, SInv, Reopened, Untaken, Pressing, Script
    <2> QED BY <2>1, <2>2, <2>3 DEF Next, Stop
  <1>3. SInv => UnmodifiedBoot BY DEF SInv, Pressing, Untaken, UnmodifiedBoot
  <1> QED BY <1>1, <1>2, <1>3, PTL DEF Spec

--------------------------------------------------------------------------------
(***************************************************************************)
(* A pass is earned.  Between the link and the screen no byte overtakes    *)
(* another: a payload that is all taken has nothing behind it, so that     *)
(* once the probe has seen it in place, nothing more can happen.           *)
(***************************************************************************)
Real == {1, Query}
Byte == {Stray, 1, Query, Bad}

\* the second byte of the payload is the last of all
LastReal(s) ==
  \A i, j \in DOMAIN s : i < j /\ s[i] \in Real /\ s[j] \in Real => j = Len(s)
NoReal(s) == \A i \in DOMAIN s : s[i] \notin Real
OneReal(s) == \A i, j \in DOMAIN s : s[i] \in Real /\ s[j] \in Real => i = j

\* A byte that goes on, or is lost, or is garbled on its way, leaves the order.
LEMMA MoveOn ==
  ASSUME NEW p \in Seq(Byte), NEW f \in Seq(Byte), f # <<>>, NEW x \in {Head(f), Bad}
  PROVE  /\ Append(p, x) \in Seq(Byte) /\ Tail(f) \in Seq(Byte)
         /\ LastReal(p \o f) => LastReal(Append(p, x) \o Tail(f)) /\ LastReal(p \o Tail(f))
         /\ NoReal(p \o f) => NoReal(Append(p, x) \o Tail(f)) /\ NoReal(p \o Tail(f))
         /\ OneReal(p \o f) => OneReal(Append(p, x) \o Tail(f)) /\ OneReal(p \o Tail(f))
  <1> DEFINE m == Len(p)
             n == Len(f)
             s == p \o f
             t == Append(p, x) \o Tail(f)
             u == p \o Tail(f)
  <1>1. m \in Nat /\ n \in Nat \ {0} /\ Head(f) = f[1] /\ x \in Byte /\ Bad \notin Real
    BY DEF Byte, Bad, Real, Query
  <1>2. Append(p, x) \in Seq(Byte) /\ Tail(f) \in Seq(Byte) BY <1>1
  <1>3. Len(s) = m + n /\ \A i \in 1 .. m + n : s[i] = IF i <= m THEN p[i] ELSE f[i - m]
    BY <1>1
  <1>4. Len(t) = m + n /\ \A i \in 1 .. m + n : t[i] = IF i = m + 1 THEN x ELSE s[i]
    <2>1. Len(Tail(f)) = n - 1 /\ \A i \in 1 .. n - 1 : Tail(f)[i] = f[i + 1] BY <1>1
    <2>2. /\ Len(Append(p, x)) = m + 1 /\ Append(p, x)[m + 1] = x
          /\ \A i \in 1 .. m : Append(p, x)[i] = p[i]
      BY <1>1
    <2> QED BY <1>1, <1>2, <1>3, <2>1, <2>2
  <1>5. Len(u) = m + n - 1 /\ \A i \in 1 .. m + n - 1 : u[i] = IF i <= m THEN s[i] ELSE s[i + 1]
    <2>1. Len(Tail(f)) = n - 1 /\ \A i \in 1 .. n - 1 : Tail(f)[i] = f[i + 1] BY <1>1
    <2> QED BY <1>1, <1>2, <1>3, <2>1
  <1>6. s[m + 1] = Head(f) BY <1>1, <1>3
  <1>7. /\ DOMAIN s = 1 .. m + n /\ DOMAIN t = 1 .. m + n /\ DOMAIN u = 1 .. m + n - 1
    BY <1>2, <1>3, <1>4, <1>5
  <1> HIDE DEF m, n, s, t, u
  <1>8. LastReal(s) => LastReal(t)
    <2>1. \A i \in 1 .. m + n : t[i] \in Real => s[i] \in Real BY <1>1, <1>4, <1>6
    <2> QED BY <1>3, <1>4, <1>7, <2>1 DEF LastReal
  <1>9. LastReal(s) => LastReal(u)
    <2> SUFFICES ASSUME LastReal(s), NEW i \in DOMAIN u, NEW j \in DOMAIN u,
                        i < j, u[i] \in Real, u[j] \in Real
                 PROVE  j = Len(u)
      BY DEF LastReal
    <2> DEFINE a == IF i <= m THEN i ELSE i + 1
               b == IF j <= m THEN j ELSE j + 1
    <2>1. a \in DOMAIN s /\ b \in DOMAIN s /\ a < b /\ s[a] \in Real /\ s[b] \in Real
      BY <1>1, <1>5, <1>7
    <2>2. b = m + n BY <1>3, <2>1 DEF LastReal
    <2>3. j \in 1 .. m + n - 1 /\ Len(u) = m + n - 1 BY <1>5, <1>7
    <2>4. j <= m => b = j OBVIOUS
    <2>5. j > m => b = j + 1 BY <1>1, <2>3
    <2> QED BY <1>1, <2>2, <2>3, <2>4, <2>5
  <1>10. NoReal(s) => NoReal(t) /\ NoReal(u)
    <2> SUFFICES ASSUME NoReal(s) PROVE NoReal(t) /\ NoReal(u) OBVIOUS
    <2>1. \A i \in 1 .. m + n : s[i] \notin Real BY <1>7 DEF NoReal
    <2>2. m + 1 \in 1 .. m + n BY <1>1
    <2>3. x \notin Real BY <1>1, <1>6, <2>1, <2>2
    <2>4. \A i \in 1 .. m + n : t[i] \notin Real BY <1>4, <2>1, <2>3
    <2>5. \A i \in 1 .. m + n - 1 : u[i] \notin Real BY <1>1, <1>5, <2>1
    <2> QED BY <1>7, <2>4, <2>5 DEF NoReal
  <1>11. OneReal(s) => OneReal(t)
    <2>1. \A i \in 1 .. m + n : t[i] \in Real => s[i] \in Real BY <1>1, <1>4, <1>6
    <2> QED BY <1>7, <2>1 DEF OneReal
  <1>12. OneReal(s) => OneReal(u)
    <2> SUFFICES ASSUME OneReal(s), NEW i \in DOMAIN u, NEW j \in DOMAIN u,
                        u[i] \in Real, u[j] \in Real
                 PROVE  i = j
      BY DEF OneReal
    <2> DEFINE a == IF i <= m THEN i ELSE i + 1
               b == IF j <= m THEN j ELSE j + 1
    <2>1. a \in DOMAIN s /\ b \in DOMAIN s /\ s[a] \in Real /\ s[b] \in Real
      BY <1>1, <1>5, <1>7
    <2>2. a = b BY <2>1 DEF OneReal
    <2>3. i \in Int /\ j \in Int /\ m \in Int BY <1>1, <1>7
    <2> QED BY <2>2, <2>3
  <1> QED BY <1>2, <1>8, <1>9, <1>10, <1>11, <1>12 DEF s, t, u

LEMMA PayloadBytes ==
  /\ Payload \in Seq(Byte) /\ Len(Payload) = 2
  /\ Payload[1] \in Real /\ Payload[2] \in Real
  /\ <<Head(Payload)>> \in Seq(Byte) /\ Len(<<Head(Payload)>>) = 1
  /\ Tail(Payload) \in Seq(Byte) /\ Len(Tail(Payload)) = 1
  <1>1. CASE mode = "wrap"
    <2>1. Payload = <<1, 1>> BY <1>1 DEF Payload
    <2>2. Head(Payload) = 1 /\ Tail(Payload) = <<1>> BY <2>1
    <2> QED BY <2>1, <2>2 DEF Byte, Real
  <1>2. CASE mode # "wrap"
    <2>1. Payload = <<1, Query>> BY <1>2 DEF Payload
    <2>2. Head(Payload) = 1 /\ Tail(Payload) = <<Query>> BY <2>1
    <2> QED BY <2>1, <2>2 DEF Byte, Real
  <1> QED BY <1>1, <1>2

LEMMA Joined ==
  ASSUME NEW a \in Seq(Byte), NEW b \in Seq(Byte)
  PROVE  /\ a \o b \in Seq(Byte) /\ Len(a \o b) = Len(a) + Len(b) /\ Len(a) \in Nat /\ Len(b) \in Nat
         /\ DOMAIN (a \o b) = 1 .. Len(a) + Len(b)
         /\ \A i \in 1 .. Len(a) + Len(b) : (a \o b)[i] = IF i <= Len(a) THEN a[i] ELSE b[i - Len(a)]
  OBVIOUS

\* Behind the payload there is nothing.
LEMMA PayloadLast ==
  ASSUME NEW f \in Seq(Byte), LastReal(Payload \o f)
  PROVE  f = <<>>
  <1> DEFINE s == Payload \o f
  <1>1. /\ Len(s) = 2 + Len(f) /\ DOMAIN s = 1 .. 2 + Len(f) /\ Len(f) \in Nat
        /\ s[1] = Payload[1] /\ s[2] = Payload[2]
    <2> DEFINE a == Payload
    <2>1. a \in Seq(Byte) /\ Len(a) = 2 BY PayloadBytes
    <2> HIDE DEF a
    <2>2. /\ Len(a \o f) = Len(a) + Len(f) /\ Len(f) \in Nat /\ DOMAIN (a \o f) = 1 .. Len(a) + Len(f)
          /\ \A i \in 1 .. Len(a) + Len(f) : (a \o f)[i] = IF i <= Len(a) THEN a[i] ELSE f[i - Len(a)]
      BY <2>1, Joined
    <2>3. (a \o f)[1] = a[1] /\ (a \o f)[2] = a[2] BY <2>1, <2>2
    <2> QED BY <2>1, <2>2, <2>3 DEF a
  <1>2. s[1] \in Real /\ s[2] \in Real BY <1>1, PayloadBytes
  <1> HIDE DEF s
  <1>3. 2 = Len(s)
    <2>1. \A i, j \in 1 .. 2 + Len(f) : i < j /\ s[i] \in Real /\ s[j] \in Real => j = Len(s)
      BY <1>1 DEF LastReal, s
    <2>2. 1 \in 1 .. 2 + Len(f) /\ 2 \in 1 .. 2 + Len(f) /\ 1 < 2 BY <1>1
    <2> QED BY <1>2, <2>1, <2>2
  <1>4. Len(f) = 0 BY <1>1, <1>3
  <1> QED BY <1>4

\* What is sent comes behind everything, and at most two bytes of it are the payload's.
LEMMA SentBehind ==
  ASSUME NEW p \in Seq(Byte), NEW f \in Seq(Byte), NEW a \in Seq(Byte),
         (Len(a) = 2 /\ NoReal(p \o f)) \/ (Len(a) = 1 /\ OneReal(p \o f))
  PROVE  /\ LastReal(p \o (f \o a))
         /\ Len(a) = 1 /\ NoReal(p \o f) => OneReal(p \o (f \o a))
  <1> DEFINE s == p \o f
             t == p \o (f \o a)
  <1>1. /\ s \in Seq(Byte) /\ Len(s) = Len(p) + Len(f) /\ DOMAIN s = 1 .. Len(s) /\ Len(s) \in Nat
        /\ \A i \in 1 .. Len(s) : s[i] = IF i <= Len(p) THEN p[i] ELSE f[i - Len(p)]
    BY Joined
  <1>2. /\ Len(t) = Len(s) + Len(a) /\ DOMAIN t = 1 .. Len(t)
        /\ \A i \in 1 .. Len(s) : t[i] = s[i]
    <2>1. /\ f \o a \in Seq(Byte) /\ Len(f \o a) = Len(f) + Len(a) /\ Len(f) \in Nat
          /\ \A i \in 1 .. Len(f) + Len(a) :
               (f \o a)[i] = IF i <= Len(f) THEN f[i] ELSE a[i - Len(f)]
      BY Joined
    <2>2. /\ Len(t) = Len(p) + (Len(f) + Len(a)) /\ DOMAIN t = 1 .. Len(p) + (Len(f) + Len(a))
          /\ \A i \in 1 .. Len(p) + (Len(f) + Len(a)) :
               t[i] = IF i <= Len(p) THEN p[i] ELSE (f \o a)[i - Len(p)]
      BY <2>1, Joined
    <2>3. Len(p) \in Nat /\ Len(f) \in Nat /\ Len(a) \in Nat OBVIOUS
    <2> HIDE DEF s, t
    <2>4. ASSUME NEW i \in 1 .. Len(s) PROVE t[i] = s[i]
      <3>1. i \in 1 .. Len(p) + (Len(f) + Len(a)) BY <1>1, <2>3
      <3>2. t[i] = IF i <= Len(p) THEN p[i] ELSE (f \o a)[i - Len(p)] BY <2>2, <3>1
      <3>3. i > Len(p) => i - Len(p) \in 1 .. Len(f) /\ i - Len(p) \in 1 .. Len(f) + Len(a)
        BY <1>1, <2>3
      <3>4. i > Len(p) => (f \o a)[i - Len(p)] = f[i - Len(p)] BY <2>1, <3>3
      <3> QED BY <1>1, <2>3, <3>2, <3>4
    <2> QED BY <1>1, <2>2, <2>3, <2>4
  <1> HIDE DEF s, t
  <1>3. LastReal(t)
    <2> SUFFICES ASSUME NEW i \in 1 .. Len(t), NEW j \in 1 .. Len(t), i < j,
                        t[i] \in Real, t[j] \in Real
                 PROVE  j = Len(t)
      BY <1>2 DEF LastReal
    <2>1. CASE Len(a) = 2 /\ NoReal(s)
      <3>1. \A k \in 1 .. Len(s) : t[k] \notin Real BY <1>1, <1>2, <2>1 DEF NoReal
      <3>2. i \in Len(s) + 1 .. Len(s) + 2 /\ j \in Len(s) + 1 .. Len(s) + 2
        BY <1>1, <1>2, <2>1, <3>1
      <3> QED BY <1>1, <1>2, <2>1, <3>2
    <2>2. CASE Len(a) = 1 /\ OneReal(s)
      <3>1. \A k, l \in 1 .. Len(s) : s[k] \in Real /\ s[l] \in Real => k = l
        BY <1>1, <2>2 DEF OneReal
      <3>2. j \in 1 .. Len(s) => i \in 1 .. Len(s) BY <1>1
      <3>3. j \notin 1 .. Len(s)
        <4> SUFFICES ASSUME j \in 1 .. Len(s) PROVE FALSE OBVIOUS
        <4>1. s[i] \in Real /\ s[j] \in Real BY <1>2, <3>2
        <4>2. i = j BY <3>1, <3>2, <4>1
        <4> QED BY <4>2
      <3>4. Len(t) = Len(s) + 1 BY <1>2, <2>2
      <3>5. Len(s) \in Nat /\ j \in 1 .. Len(s) + 1 BY <1>1, <3>4
      <3> QED BY <3>3, <3>4, <3>5
    <2> QED BY <2>1, <2>2 DEF s
  <1>4. ASSUME Len(a) = 1, NoReal(s) PROVE OneReal(t)
    <2>1. \A k \in 1 .. Len(s) : t[k] \notin Real BY <1>1, <1>2, <1>4 DEF NoReal
    <2>2. \A k \in 1 .. Len(t) : t[k] \in Real => k = Len(s) + 1
      <3>1. Len(t) = Len(s) + 1 BY <1>2, <1>4
      <3> QED BY <1>1, <2>1, <3>1
    <2> QED BY <1>2, <2>2 DEF OneReal
  <1> QED BY <1>3, <1>4 DEF s, t

--------------------------------------------------------------------------------
Kinds == {"none", "reset", "snapshot", "foreign", "ctrl"}
Outputs == [kind : Kinds, whole : BOOLEAN, val : Seq(Byte), idle : BOOLEAN, high : BOOLEAN]
Verdicts == [ok : BOOLEAN, earned : BOOLEAN, wire : Nat]

Types ==
  /\ flight \in Seq(Byte) /\ ring \in Seq(Byte) /\ drawn \in Seq(Byte) /\ published \in Seq(Byte)
  /\ txq \in Nat /\ wire \in Nat /\ failed \in BOOLEAN /\ crossed \in BOOLEAN
  /\ req \in Kinds /\ life \in {"none", "foreign", "ctrl"} /\ output \in Outputs
  /\ results \in Seq(Verdicts)

\* how far a trial is
SendAt == IF mode = "wrap" THEN 4 ELSE IF mode = "reserve" THEN 6 ELSE 5
SnapAt == CASE mode \in {"wire", "reserve"} -> 8 [] mode = "flow" -> 7 [] OTHER -> 6
Unsent == pc <= IF mode = "wrap" THEN 4 ELSE 5
Sent == pc > SendAt
Drew == pc > SendAt + 1
Replied == mode # "wrap" /\ pc > SnapAt - 1
Snapped == pc > SnapAt

\* what is asked, and that the trace is only reset before the payload is sent
Asked ==
  /\ life = "none" /\ req \in {"none", "reset", "snapshot"}
  /\ polling /\ ~rescue => /\ pc <= Len(Script) /\ Script[pc] \in {"resetdiag", "snapshot"}
                           /\ asked = Asks[Script[pc]]
  /\ req = "reset" => pc = 3 /\ output.kind # "reset"

\* the payload comes once, and nothing behind it
Behind == drawn \o (ring \o flight)
Traced == published \o flight
Order ==
  /\ pc = 1 => emu = "off" /\ drawn = <<>> /\ ring = <<>> /\ published = <<>>
  /\ Unsent => NoReal(Behind) /\ NoReal(Traced)
  /\ ~Sent => OneReal(Behind) /\ OneReal(Traced)
  /\ LastReal(Behind) /\ LastReal(Traced)

\* what a snapshot says stays true
Taken == published = Payload /\ ring = <<>> /\ txq = 0
Seen ==
  /\ output.kind = "snapshot" /\ output.idle /\ output.val = Payload => Taken
  /\ output.kind = "snapshot" /\ output.high => crossed

\* and so does what the steps of the trial have found
Passed ==
  /\ Drew /\ ~failed => drawn = Payload
  /\ Replied /\ ~failed => wire >= 1
  /\ Snapped /\ ~failed => Taken /\ (Flowing => crossed)

Trial == mode # "lifecycle" => Asked /\ Order /\ Seen /\ Passed
Scores ==
  /\ \A r \in Range(results) : r.ok => r.earned
  /\ exit = "ok" => \A r \in Range(results) : r.ok

EInv == SInv /\ Types /\ Trial /\ Scores

--------------------------------------------------------------------------------
\* Where the steps of the other trials are.
LEMMA Positions ==
  ASSUME SInv, mode # "lifecycle", NEW s, At(s)
  PROVE  /\ s = "open" <=> pc = 1
         /\ s = "reset" => pc = 2
         /\ s = "resetdiag" <=> pc = 3
         /\ s = "send" <=> pc = SendAt
         /\ s \in {"capture", "settle"} <=> pc = SendAt + 1
         /\ s = "settle" <=> Flowing /\ pc = SendAt + 1
         /\ s = "prime" <=> mode = "reserve" /\ pc = 5
         /\ s = "peek" <=> mode = "wire" /\ pc = 7
         /\ s = "snapshot" <=> pc = SnapAt
         /\ s = "verdict" => Snapped /\ Drew /\ (mode # "wrap" => Replied)
         /\ s \notin {"foreign", "ctrlreset", "query", "close"}
         /\ s = "clearbuf" => pc = 4 /\ mode # "wrap"
         /\ s = Script[pc]
  <1>1. pc \in Nat \ {0} /\ pc <= Len(Script) /\ Script[pc] = s BY DEF At, SInv
  <1>2. CASE mode = "wire"
    <2>1. Script = WireScript BY <1>2 DEF Script
    <2> QED BY <1>1, <1>2, <2>1 DEF WireScript, SendAt, SnapAt, Flowing, Snapped, Drew, Replied
  <1>3. CASE mode = "flow"
    <2>1. Script = FlowScript BY <1>3 DEF Script
    <2> QED BY <1>1, <1>3, <2>1 DEF FlowScript, SendAt, SnapAt, Flowing, Snapped, Drew, Replied
  <1>4. CASE mode = "wrap"
    <2>1. Script = WrapScript BY <1>4 DEF Script
    <2> QED BY <1>1, <1>4, <2>1 DEF WrapScript, SendAt, SnapAt, Flowing, Snapped, Drew, Replied
  <1>5. CASE mode = "reserve"
    <2>1. Script = ReserveScript BY <1>5 DEF Script
    <2> QED BY <1>1, <1>5, <2>1 DEF ReserveScript, SendAt, SnapAt, Flowing, Snapped, Drew, Replied
  <1> QED BY <1>2, <1>3, <1>4, <1>5 DEF SInv

Associates(a, b, c) == (a \o b) \o c = a \o (b \o c)

LEMMA BytesAssociate ==
  ASSUME NEW a \in Seq(Byte), NEW b \in Seq(Byte), NEW c \in Seq(Byte)
  PROVE  Associates(a, b, c)
  BY ConcatAssociative DEF Associates

\* The part behind of what holds nothing of the payload holds nothing of it.
LEMMA NoneBehind ==
  ASSUME NEW a \in Seq(Byte), NEW b \in Seq(Byte), NoReal(a \o b)
  PROVE  NoReal(<<>> \o b) /\ NoReal(b)
  <1>1. /\ DOMAIN (a \o b) = 1 .. Len(a) + Len(b) /\ Len(a) \in Nat /\ Len(b) \in Nat
        /\ \A i \in 1 .. Len(a) + Len(b) : (a \o b)[i] = IF i <= Len(a) THEN a[i] ELSE b[i - Len(a)]
    BY Joined
  <1>2. ASSUME NEW i \in 1 .. Len(b) PROVE b[i] \notin Real
    <2>1. Len(a) + i \in 1 .. Len(a) + Len(b) /\ ~(Len(a) + i <= Len(a)) /\ Len(a) + i - Len(a) = i
      BY <1>1
    <2> QED BY <1>1, <2>1 DEF NoReal
  <1>3. <<>> \o b = b OBVIOUS
  <1> QED BY <1>2, <1>3 DEF NoReal

\* What is taken from the front of two sequences in a row is the first one's.
LEMMA FrontOfJoined ==
  ASSUME NEW a \in Seq(Byte), NEW b \in Seq(Byte), a # <<>>
  PROVE  a \o b # <<>> /\ Head(a \o b) = Head(a) /\ Tail(a \o b) = Tail(a) \o b
  <1> DEFINE c == a \o b
             m == Len(a)
             n == Len(b)
             u == Tail(c)
             v == Tail(a) \o b
  <1>1. m \in Nat \ {0} /\ n \in Nat BY DEF m, n
  <1>2. /\ c \in Seq(Byte) /\ Len(c) = m + n
        /\ \A i \in 1 .. m + n : c[i] = IF i <= m THEN a[i] ELSE b[i - m]
    BY ConcatProperties
  <1>3. c # <<>> BY <1>1, <1>2
  <1>4. u \in Seq(Byte) /\ Len(u) = m + n - 1 /\ \A i \in 1 .. m + n - 1 : u[i] = c[i + 1]
    BY <1>2, <1>3, HeadTailProperties
  <1>5. /\ Tail(a) \in Seq(Byte) /\ Len(Tail(a)) = m - 1
        /\ \A i \in 1 .. m - 1 : Tail(a)[i] = a[i + 1]
    BY HeadTailProperties
  <1>6. /\ v \in Seq(Byte) /\ Len(v) = m - 1 + n
        /\ \A i \in 1 .. m - 1 + n : v[i] = IF i <= m - 1 THEN Tail(a)[i] ELSE b[i - (m - 1)]
    BY <1>5, ConcatProperties
  <1>7. Head(c) = c[1] /\ Head(a) = a[1] BY <1>2
  <1> HIDE DEF c, m, n, u, v
  <1>8. ASSUME NEW i \in 1 .. m + n - 1 PROVE u[i] = v[i]
    <2>1. i + 1 \in 1 .. m + n BY <1>1
    <2>2. u[i] = IF i + 1 <= m THEN a[i + 1] ELSE b[i + 1 - m] BY <1>1, <1>2, <1>4, <2>1
    <2>3. i <= m - 1 => v[i] = a[i + 1] BY <1>1, <1>5, <1>6
    <2>4. i > m - 1 => v[i] = b[i - (m - 1)] BY <1>1, <1>6
    <2>5. i - (m - 1) = i + 1 - m /\ (i + 1 <= m <=> i <= m - 1) BY <1>1
    <2>6. i \in Int /\ m \in Int BY <1>1
    <2>7. i <= m - 1 \/ i > m - 1 BY <2>6
    <2>8. CASE i <= m - 1 BY <2>2, <2>3, <2>5, <2>8
    <2>9. CASE i > m - 1
      <3>1. ~(i + 1 <= m) BY <2>5, <2>6, <2>9
      <3> QED BY <2>2, <2>4, <2>5, <2>9, <3>1
    <2> QED BY <2>7, <2>8, <2>9
  <1>9. u = v BY <1>1, <1>4, <1>6, <1>8, SeqEqual
  <1>10. c[1] = a[1] BY <1>1, <1>2
  <1> QED BY <1>3, <1>7, <1>9, <1>10 DEF c, u, v

\* The sequences of the firmware, taken together.
LEMMA Chains ==
  ASSUME Types
  PROVE  /\ ring \o flight \in Seq(Byte) /\ Behind \in Seq(Byte) /\ Traced \in Seq(Byte)
         /\ flight # <<>> => ring \o flight # <<>>
         /\ ring # <<>> => /\ ring \o flight # <<>>
                           /\ Head(ring \o flight) = Head(ring)
                           /\ Tail(ring \o flight) = Tail(ring) \o flight
  <1>1. /\ flight \in Seq(Byte) /\ ring \in Seq(Byte) /\ drawn \in Seq(Byte)
        /\ published \in Seq(Byte)
    BY DEF Types
  <1>2. ring \o flight \in Seq(Byte) /\ Behind \in Seq(Byte) /\ Traced \in Seq(Byte)
    BY <1>1 DEF Behind, Traced
  <1>3. ASSUME flight # <<>> PROVE ring \o flight # <<>>
    <2>1. Len(ring \o flight) = Len(ring) + Len(flight) BY <1>1, ConcatProperties
    <2>2. Len(flight) > 0 /\ Len(flight) \in Nat /\ Len(ring) \in Nat BY <1>1, <1>3
    <2> QED BY <2>1, <2>2
  <1>4. ASSUME ring # <<>>
        PROVE  /\ ring \o flight # <<>> /\ Head(ring \o flight) = Head(ring)
               /\ Tail(ring \o flight) = Tail(ring) \o flight
    BY <1>1, <1>4, FrontOfJoined
  <1> QED BY <1>2, <1>3, <1>4

LEMMA NoRealLast == ASSUME NEW s \in Seq(Byte), NoReal(s) PROVE OneReal(s) /\ LastReal(s)
  BY DEF NoReal, OneReal, LastReal

LEMMA RangeOfAppended ==
  ASSUME NEW S, NEW s \in Seq(S), NEW e \in S
  PROVE  Range(Append(s, e)) = Range(s) \cup {e}
  <1> DEFINE t == Append(s, e)
             n == Len(s)
  <1>1. /\ n \in Nat /\ DOMAIN s = 1 .. n /\ DOMAIN t = 1 .. n + 1
        /\ t[n + 1] = e /\ \A i \in 1 .. n : t[i] = s[i]
    BY AppendProperties
  <1> HIDE DEF t, n
  <1>2. 1 .. n + 1 = (1 .. n) \cup {n + 1} BY <1>1
  <1>3. Range(t) = Range(s) \cup {e} BY <1>1, <1>2 DEF Range
  <1> QED BY <1>3 DEF t

--------------------------------------------------------------------------------
LEMMA EInvInit == Init => EInv
  <1> SUFFICES ASSUME Init PROVE EInv OBVIOUS
  <1>1. SInv BY SInvInit
  <1>2. Types
    <2>1. <<>> \in Seq(Byte) /\ <<>> \in Seq(Verdicts) OBVIOUS
    <2>2. NoFile \in Outputs BY <2>1 DEF NoFile, Outputs, Kinds
    <2>3. req \in Kinds BY DEF Init, Kinds
    <2> QED BY <2>1, <2>2, <2>3 DEF Init, Types
  <1>3. Trial
    <2> SUFFICES ASSUME mode # "lifecycle" PROVE Asked /\ Order /\ Seen /\ Passed BY DEF Trial
    <2>1. Behind = <<>> /\ Traced = <<>> BY DEF Init, Behind, Traced
    <2>2. NoReal(<<>>) /\ OneReal(<<>>) /\ LastReal(<<>>) BY DEF NoReal, OneReal, LastReal
    <2>3. pc = 1 /\ ~Sent /\ ~Drew /\ ~Replied /\ ~Snapped
      BY ModeAssumption DEF Init, Sent, Drew, Replied, Snapped, SendAt, SnapAt
    <2> QED BY <2>1, <2>2, <2>3 DEF Init, NoFile, Asked, Order, Seen, Passed
  <1>4. Scores
    <2>1. Range(results) = {} BY DEF Init, Range
    <2> QED BY <2>1 DEF Scores
  <1> QED BY <1>1, <1>2, <1>3, <1>4 DEF EInv

--------------------------------------------------------------------------------
\* What a step leaves alone is as it was.
LEMMA PayloadKept == mode' = mode => Payload' = Payload BY DEF Payload

LEMMA ScoresKept == Scores /\ UNCHANGED report => Scores' BY DEF Scores, report

LEMMA SeenKept ==
  Seen /\ UNCHANGED <<mode, output, published, ring, txq, crossed>> => Seen'
  BY PayloadKept DEF Seen, Taken

LEMMA OrderKept ==
  ASSUME SInv, Order, mode' = mode, pc' \in {pc, pc + 1},
         UNCHANGED <<emu, flight, ring, drawn, published>>
  PROVE  Order'
  <1>1. Behind' = Behind /\ Traced' = Traced BY DEF Behind, Traced
  <1>2. (pc' = 1 => pc = 1) /\ (~Sent' => ~Sent) /\ (Unsent' => Unsent) BY DEF SInv, Sent, Unsent, SendAt
  <1> QED BY <1>1, <1>2 DEF Order, NoReal, OneReal, LastReal

LEMMA PassedKept ==
  ASSUME Passed, UNCHANGED <<mode, pc, firmware>>, failed => failed'
  PROVE  Passed'
  BY PayloadKept DEF Passed, Taken, Flowing, Drew, Replied, Snapped, SendAt, SnapAt, firmware

\* a step of the trial that asks nothing
LEMMA AskedKept ==
  ASSUME SInv, Asked, mode # "lifecycle", mode' = mode, NEW s, At(s), s \notin DOMAIN Asks,
         UNCHANGED <<polling, life, req, output>>, pc' \in {pc, pc + 1}
  PROVE  Asked'
  <1>1. s = Script[pc] /\ (s = "resetdiag" <=> pc = 3) BY Positions
  <1>2. ~polling BY <1>1 DEF SInv, At
  <1>3. pc # 3 BY <1>1 DEF Asks
  <1> QED BY <1>2, <1>3 DEF Asked

--------------------------------------------------------------------------------
LEMMA OpenTrial ==
  ASSUME EInv, mode # "lifecycle", mode' = mode, Open PROVE Types' /\ Trial'
  <1>1. /\ pc = 1 /\ At("open") /\ pc' \in {pc, pc + 1}
        /\ UNCHANGED <<polling, life, req, output>>
        /\ UNCHANGED <<ring, drawn, txq, wire, published, crossed, results>>
    BY Positions DEF Open, EInv, Step, Raise, files, report
  <1>2. Asked /\ Order /\ Seen /\ Passed /\ SInv /\ Types BY DEF EInv, Trial
  <1>3. Asked' BY <1>1, <1>2, AskedKept DEF Asks
  <1>4. Seen' BY <1>1, <1>2, SeenKept
  <1>5. drawn = <<>> /\ ring = <<>> /\ published = <<>> BY <1>1, <1>2 DEF Order
  <1>6. failed' \in BOOLEAN BY <1>2 DEF Open, Step, Raise, Types
  <1>7. CASE Raise /\ UNCHANGED <<emu, boots, probed, flight>>
    <2>1. Order' BY <1>1, <1>2, <1>7, OrderKept
    <2>2. Passed' BY <1>1, <1>2, <1>7, PassedKept DEF Open, Raise, firmware
    <2>3. Types' BY <1>1, <1>2, <1>6, <1>7 DEF Types
    <2> QED BY <1>3, <1>4, <2>1, <2>2, <2>3 DEF Trial
  <1>8. CASE Step(FALSE) /\ \E n \in 0 .. Strays : flight' = [i \in 1 .. n |-> Stray]
    <2>1. PICK n \in 0 .. Strays : flight' = [i \in 1 .. n |-> Stray] BY <1>8
    <2>2. flight' \in Seq(Byte) /\ DOMAIN flight' = 1 .. n /\ \A i \in 1 .. n : flight'[i] = Stray
      BY <2>1, SizeAssumption DEF Byte
    <2>3. Behind' = flight' /\ Traced' = flight'
      BY <1>1, <1>5, <2>2, ConcatEmptySeq DEF Behind, Traced
    <2>4. NoReal(flight') BY <2>2 DEF NoReal, Real, Stray, Query
    <2>5. OneReal(flight') /\ LastReal(flight') BY <2>2, <2>4, NoRealLast
    <2>6. pc' = 2 BY <1>1, <1>8 DEF Step
    <2>7. Order' BY <2>3, <2>4, <2>5, <2>6 DEF Order, NoReal, OneReal, LastReal
    <2>8. Passed' BY <2>6 DEF Passed, Drew, Replied, Snapped, SendAt, SnapAt
    <2>9. Types' BY <1>1, <1>2, <1>6, <2>2 DEF Types
    <2> QED BY <1>3, <1>4, <2>7, <2>8, <2>9 DEF Trial
  <1> QED BY <1>7, <1>8 DEF Open

LEMMA ResetTrial ==
  ASSUME EInv, mode # "lifecycle", mode' = mode, Reset PROVE Types' /\ Trial'
  <1>1. /\ pc = 2 /\ At("reset") /\ pc' \in {pc, pc + 1}
        /\ UNCHANGED <<polling, life, req, output, emu>>
        /\ UNCHANGED <<flight, ring, txq, wire, published, crossed, results>>
    BY Positions DEF Reset, EInv, Step, Raise, files, report, machine
  <1>2. Asked /\ Order /\ Seen /\ Passed /\ SInv /\ Types BY DEF EInv, Trial
  <1>3. Asked' BY <1>1, <1>2, AskedKept DEF Asks
  <1>4. Seen' BY <1>1, <1>2, SeenKept
  <1>5. Passed' BY <1>1 DEF Passed, Drew, Replied, Snapped, SendAt, SnapAt
  <1>6. failed' \in BOOLEAN /\ drawn' \in {<<>>, drawn}
    BY <1>2 DEF Reset, Step, Raise, Types
  <1>7. Types'
    <2>1. <<>> \in Seq(Byte) OBVIOUS
    <2>2. drawn \in Seq(Byte) BY <1>2 DEF Types
    <2>3. drawn' \in Seq(Byte) BY <1>6, <2>1, <2>2
    <2> QED BY <1>1, <1>2, <1>6, <2>3 DEF Types
  <1>8. CASE drawn' = drawn
    <2> QED BY <1>1, <1>2, <1>3, <1>4, <1>5, <1>7, <1>8, OrderKept DEF Trial
  <1>9. CASE drawn' = <<>>
    <2>1. Unsent BY <1>1 DEF Unsent
    <2>2. Behind' = <<>> \o (ring \o flight) /\ Traced' = Traced BY <1>1, <1>9 DEF Behind, Traced
    <2>3. NoReal(Behind) /\ NoReal(Traced) /\ LastReal(Traced) /\ OneReal(Traced)
      <3>1. ~Sent BY <1>1 DEF Sent, SendAt
      <3> QED BY <1>2, <2>1, <3>1 DEF Order
    <2>4. drawn \in Seq(Byte) /\ ring \o flight \in Seq(Byte) BY <1>2, Chains DEF Types
    <2>5. NoReal(<<>> \o (ring \o flight)) BY <2>3, <2>4, NoneBehind DEF Behind
    <2>6. <<>> \o (ring \o flight) \in Seq(Byte) BY <2>4, ConcatEmptySeq
    <2>7. OneReal(<<>> \o (ring \o flight)) /\ LastReal(<<>> \o (ring \o flight))
      BY <2>5, <2>6, NoRealLast
    <2>8. pc' # 1 BY <1>1
    <2>9. /\ NoReal(Behind)' /\ OneReal(Behind)' /\ LastReal(Behind)'
          /\ NoReal(Traced)' /\ OneReal(Traced)' /\ LastReal(Traced)'
      BY <2>2, <2>3, <2>5, <2>7 DEF NoReal, OneReal, LastReal
    <2> QED BY <1>3, <1>4, <1>5, <1>7, <2>8, <2>9 DEF Trial, Order
  <1> QED BY <1>6, <1>8, <1>9

LEMMA ClearBufTrial ==
  ASSUME EInv, mode # "lifecycle", mode' = mode, ClearBuf PROVE Types' /\ Trial'
  <1>1. /\ pc = 4 /\ mode # "wrap" /\ At("clearbuf") /\ pc' = 5 /\ failed' = failed /\ wire' = 0
        /\ UNCHANGED <<polling, life, req, output, emu>>
        /\ UNCHANGED <<flight, ring, drawn, txq, published, crossed, results>>
    <2>1. At("clearbuf") /\ SInv BY DEF ClearBuf, EInv
    <2>2. pc = 4 /\ mode # "wrap" BY <2>1, Positions
    <2>3. failed' = failed BY DEF ClearBuf, Step, EInv, Types
    <2> QED BY <2>1, <2>2, <2>3 DEF ClearBuf, Step, files, report, machine
  <1>2. Asked /\ Order /\ Seen /\ Passed /\ SInv /\ Types BY DEF EInv, Trial
  <1>3. Asked' BY <1>1, <1>2, AskedKept DEF Asks
  <1>4. Seen' BY <1>1, <1>2, SeenKept
  <1>5. Order' BY <1>1, <1>2, OrderKept
  <1>6. Passed' BY <1>1 DEF Passed, Drew, Replied, Snapped, SendAt, SnapAt
  <1>7. Types' BY <1>1, <1>2 DEF Types
  <1> QED BY <1>3, <1>4, <1>5, <1>6, <1>7 DEF Trial

\* What is sent goes behind what is on its way.
LEMMA SendsOrder ==
  ASSUME EInv, NEW a \in Seq(Byte), flight' = flight \o a,
         UNCHANGED <<ring, drawn, published>>,
         \/ Len(a) = 2 /\ NoReal(Behind) /\ NoReal(Traced)
         \/ Len(a) = 1 /\ OneReal(Behind) /\ OneReal(Traced)
  PROVE  /\ LastReal(Behind)' /\ LastReal(Traced)' /\ flight' \in Seq(Byte)
         /\ Len(a) = 1 /\ NoReal(Behind) /\ NoReal(Traced) => OneReal(Behind)' /\ OneReal(Traced)'
  <1>1. /\ flight \in Seq(Byte) /\ drawn \in Seq(Byte)
        /\ ring \in Seq(Byte) /\ published \in Seq(Byte) /\ ring \o flight \in Seq(Byte)
    BY Chains DEF EInv, Types
  <1>2. (ring \o flight) \o a = ring \o (flight \o a)
    <2>1. Associates(ring, flight, a) BY <1>1, BytesAssociate
    <2> QED BY <2>1 DEF Associates
  <1> DEFINE b == drawn \o ((ring \o flight) \o a)
             c == published \o (flight \o a)
  <1>3. Behind' = b /\ Traced' = c BY <1>2 DEF Behind, Traced
  <1>4. LastReal(b) /\ (Len(a) = 1 /\ NoReal(Behind) => OneReal(b)) BY <1>1, SentBehind DEF Behind
  <1>5. LastReal(c) /\ (Len(a) = 1 /\ NoReal(Traced) => OneReal(c)) BY <1>1, SentBehind DEF Traced
  <1>6. flight' \in Seq(Byte) BY <1>1, ConcatProperties
  <1> HIDE DEF b, c
  <1> QED BY <1>3, <1>4, <1>5, <1>6 DEF LastReal, OneReal

LEMMA SendTrial ==
  ASSUME EInv, mode # "lifecycle", mode' = mode, Prime \/ Send PROVE Types' /\ Trial'
  <1>1. PICK s \in {"prime", "send"} : At(s) /\ (s = "prime" <=> Prime)
    <2>1. ASSUME Prime PROVE At("prime") BY <2>1 DEF Prime
    <2>2. ASSUME Send PROVE At("send") BY <2>2 DEF Send
    <2>3. ~(At("prime") /\ At("send")) BY DEF At
    <2> QED BY <2>1, <2>2, <2>3
  <1>2. Asked /\ Order /\ Seen /\ Passed /\ SInv /\ Types BY DEF EInv, Trial
  <1>3. /\ s = "prime" => mode = "reserve" /\ pc = 5
        /\ s = "send" => pc = SendAt
    BY <1>1, <1>2, Positions
  <1>4. pc \in {4, 5, 6} /\ pc <= SendAt /\ ~Sent /\ ~Drew /\ ~Replied /\ ~Snapped
    BY <1>1, <1>2, <1>3 DEF SInv, SendAt, SnapAt, Sent, Drew, Replied, Snapped
  <1>5. /\ pc' \in {pc, pc + 1} /\ failed' \in BOOLEAN
        /\ UNCHANGED <<polling, life, req, output, emu>>
        /\ UNCHANGED <<ring, drawn, txq, wire, published, crossed, results>>
    BY <1>2 DEF Prime, Send, Sends, Step, Raise, files, report, machine, Types
  <1>6. Asked' BY <1>1, <1>2, <1>5, AskedKept DEF Asks
  <1>7. Seen' BY <1>2, <1>5, SeenKept
  <1>8. Passed'
    <2>1. ~Drew' /\ ~Replied' /\ ~Snapped'
      BY <1>2, <1>4, <1>5 DEF SInv, SendAt, SnapAt, Drew, Replied, Snapped
    <2> QED BY <2>1 DEF Passed
  <1>9. CASE flight' = flight
    <2>1. Order' BY <1>2, <1>5, <1>9, OrderKept
    <2>2. Types' BY <1>2, <1>5, <1>9 DEF Types
    <2> QED BY <1>6, <1>7, <1>8, <2>1, <2>2 DEF Trial
  <1> DEFINE a == IF s = "prime" THEN <<Head(Payload)>> ELSE Rest
  <1>10. CASE pc' = pc + 1 /\ flight' = flight \o a
    <2>1. a \in Seq(Byte)
      <3>1. Rest \in {Payload, Tail(Payload)} BY DEF Rest
      <3> QED BY <3>1, PayloadBytes
    <2>2. Len(a) = IF mode = "reserve" THEN 1 ELSE 2
      <3>1. Rest = IF mode = "reserve" THEN Tail(Payload) ELSE Payload BY DEF Rest
      <3> QED BY <1>3, <3>1, PayloadBytes
    <2> HIDE DEF a
    <2>3. /\ Unsent => NoReal(Behind) /\ NoReal(Traced)
          /\ OneReal(Behind) /\ OneReal(Traced)
      BY <1>2, <1>4 DEF Order
    <2>4. mode # "reserve" => Unsent BY <1>3, <1>4 DEF SendAt, Unsent
    <2>5. /\ LastReal(Behind)' /\ LastReal(Traced)' /\ flight' \in Seq(Byte)
          /\ Len(a) = 1 /\ NoReal(Behind) /\ NoReal(Traced) => OneReal(Behind)' /\ OneReal(Traced)'
      BY <1>5, <1>10, <2>1, <2>2, <2>3, <2>4, SendsOrder
    <2>6. pc' # 1 /\ ~Unsent'
      BY <1>2, <1>3, <1>10 DEF SInv, SendAt, Unsent
    <2>7. ~Sent' => OneReal(Behind)' /\ OneReal(Traced)'
      <3> SUFFICES ASSUME ~Sent' PROVE OneReal(Behind)' /\ OneReal(Traced)' OBVIOUS
      <3>1. s = "prime" BY <1>3, <1>10 DEF Sent, SendAt
      <3>2. mode = "reserve" /\ Unsent BY <1>3, <3>1 DEF Unsent
      <3> QED BY <2>2, <2>3, <2>5, <3>2
    <2>8. Order' BY <2>5, <2>6, <2>7 DEF Order
    <2>9. Types' BY <1>2, <1>5, <2>5 DEF Types
    <2> QED BY <1>6, <1>7, <1>8, <2>8, <2>9 DEF Trial
  <1>11. flight' = flight \/ (pc' = pc + 1 /\ flight' = flight \o a)
    <2>1. CASE Prime BY <1>1, <2>1 DEF Prime, Sends, Step
    <2>2. CASE ~Prime /\ Send
      <3>1. s # "prime" BY <1>1, <2>2
      <3> QED BY <2>2, <3>1 DEF Send, Sends, Step
    <2> QED BY <2>1, <2>2
  <1> QED BY <1>9, <1>10, <1>11

LEMMA JudgeTrial ==
  ASSUME EInv, mode # "lifecycle", mode' = mode, Capture \/ Peek \/ Settle
  PROVE  Types' /\ Trial'
  <1>1. /\ pc' \in {pc, pc + 1} /\ (failed => failed') /\ failed' \in BOOLEAN
        /\ UNCHANGED <<polling, life, req, output, emu>>
        /\ UNCHANGED <<flight, ring, drawn, txq, wire, published, crossed, results>>
        /\ UNCHANGED firmware
    BY DEF Capture, Peek, Settle, Step, Raise, files, report, machine, firmware
  <1>2. Asked /\ Order /\ Seen /\ Passed /\ SInv /\ Types BY DEF EInv, Trial
  <1>3. PICK s \in {"capture", "peek", "settle"} : At(s) BY DEF Capture, Peek, Settle
  <1>4. Asked' BY <1>1, <1>2, <1>3, AskedKept DEF Asks
  <1>5. Seen' BY <1>1, <1>2, SeenKept
  <1>6. Order' BY <1>1, <1>2, OrderKept
  <1>7. Types' BY <1>1, <1>2 DEF Types
  <1>8. Passed'
    <2>1. CASE pc' = pc BY <1>1, <1>2, <2>1, PassedKept
    <2>2. CASE pc' = pc + 1 /\ ~failed'
      <3>1. mode \in {"wire", "flow", "reserve", "wrap"} /\ pc \in Nat BY <1>2 DEF SInv
      <3>2. CASE Capture
        <4>1. pc = SendAt + 1 /\ ~Flowing
          <5>1. At("capture") BY <3>2 DEF Capture
          <5>2. pc = SendAt + 1 /\ ~(Flowing /\ pc = SendAt + 1) BY <1>2, <5>1, Positions
          <5> QED BY <5>2
        <4>2. drawn = Payload BY <2>2, <3>2 DEF Capture, Step, Raise, ScreenWrong
        <4>3. ~Replied' /\ ~Snapped'
          BY <2>2, <3>1, <4>1 DEF Replied, Snapped, SendAt, SnapAt, Flowing
        <4>4. drawn' = Payload' BY <1>1, <4>2, PayloadKept
        <4> QED BY <4>3, <4>4 DEF Passed
      <3>3. CASE Peek
        <4>1. pc = 7 /\ mode = "wire" BY <1>2, <3>3, Positions DEF Peek
        <4>2. wire = 1 BY <2>2, <3>3, <4>1 DEF Peek, Step, Replies
        <4>3. Drew /\ ~failed BY <1>1, <2>2, <4>1 DEF Drew, SendAt
        <4>4. drawn' = Payload' BY <1>1, <1>2, <4>3, PayloadKept DEF Passed
        <4>5. ~Snapped' BY <2>2, <4>1 DEF Snapped, SnapAt
        <4> QED BY <1>1, <4>2, <4>4, <4>5 DEF Passed
      <3>4. CASE Settle
        <4>1. pc = SendAt + 1 /\ Flowing
          <5>1. At("settle") BY <3>4 DEF Settle
          <5> QED BY <1>2, <5>1, Positions
        <4>2. drawn = Payload /\ wire = 1
          BY <2>2, <3>4, <4>1 DEF Settle, Step, Raise, ScreenWrong, Replies, Flowing
        <4>3. drawn' = Payload' BY <1>1, <4>2, PayloadKept
        <4>4. ~Snapped' BY <2>2, <4>1 DEF Snapped, SnapAt, SendAt, Flowing
        <4> QED BY <1>1, <4>2, <4>3, <4>4 DEF Passed
      <3> QED BY <3>2, <3>3, <3>4
    <2>3. CASE failed' BY <2>3 DEF Passed
    <2> QED BY <1>1, <2>1, <2>2, <2>3
  <1> QED BY <1>4, <1>5, <1>6, <1>7, <1>8 DEF Trial

LEMMA QueryTypes == EInv /\ QueryOnce => Types'
  <1> SUFFICES ASSUME EInv, QueryOnce PROVE Types' OBVIOUS
  <1>1. /\ failed' \in BOOLEAN
        /\ UNCHANGED <<life, req, output, ring, drawn, txq, wire, published, crossed, results>>
        /\ flight' = flight \/ flight' = flight \o <<Query>>
    BY DEF QueryOnce, Sends, Step, Raise, EInv, Types, files, report, machine
  <1>2. flight \in Seq(Byte) /\ <<Query>> \in Seq(Byte) BY DEF EInv, Types, Byte
  <1>3. flight' \in Seq(Byte) BY <1>1, <1>2, ConcatProperties
  <1> QED BY <1>1, <1>3 DEF EInv, Types

--------------------------------------------------------------------------------
LEMMA AskTypes == EInv /\ Ask => Types'
  <1> SUFFICES ASSUME EInv, Ask PROVE Types' OBVIOUS
  <1>1. UNCHANGED <<life, flight, ring, drawn, txq, wire, published, crossed, results>>
    BY DEF Ask, machine, firmware, report
  <1>2. output' = NoFile /\ req' = asked' /\ failed' \in BOOLEAN BY DEF Ask
  <1>3. NoFile \in Outputs
    <2>1. <<>> \in Seq(Byte) OBVIOUS
    <2> QED BY <2>1 DEF NoFile, Outputs, Kinds
  <1>4. asked' \in Kinds
    <2>1. rescue => asked' = "snapshot" BY DEF Ask
    <2>2. ASSUME ~rescue PROVE asked' \in {"reset", "snapshot", "foreign", "ctrl"}
      <3>1. asked' = Asks[Script[pc]] BY <2>2 DEF Ask
      <3>2. PICK s \in DOMAIN Asks : At(s) BY <2>2 DEF Ask, Asking
      <3>3. Script[pc] \in DOMAIN Asks BY <3>2 DEF At
      <3> QED BY <3>1, <3>3 DEF Asks
    <2> QED BY <2>1, <2>2 DEF Kinds
  <1> QED BY <1>1, <1>2, <1>3, <1>4 DEF EInv, Types

LEMMA AskTrial ==
  ASSUME EInv, mode # "lifecycle", mode' = mode, Ask PROVE Trial'
  <1>1. /\ UNCHANGED <<pc, rescue, life, emu, boots, probed>> /\ req' = asked' /\ output' = NoFile
        /\ UNCHANGED <<flight, ring, drawn, txq, wire, published, crossed>> /\ (failed => failed')
        /\ UNCHANGED firmware
    BY DEF Ask, machine, firmware
  <1>2. Asked /\ Order /\ Seen /\ Passed /\ SInv /\ Types BY DEF EInv, Trial
  <1>3. Seen' BY <1>1 DEF NoFile, Seen
  <1>4. Order' BY <1>1, <1>2, OrderKept
  <1>5. Passed' BY <1>1, <1>2, PassedKept
  <1>6. Asked'
    <2>1. Script' = Script BY DEF Script
    <2>2. output'.kind = "none" BY <1>1 DEF NoFile
    <2>3. CASE rescue
      <3>1. asked' = "snapshot" BY <2>3 DEF Ask
      <3> QED BY <1>1, <1>2, <2>2, <2>3, <3>1 DEF Asked
    <2>4. CASE ~rescue
      <3>1. asked' = Asks[Script[pc]] BY <2>4 DEF Ask
      <3>2. PICK s \in DOMAIN Asks : At(s) BY <2>4 DEF Ask, Asking
      <3>3. s = Script[pc] /\ (s = "resetdiag" <=> pc = 3) /\ s \notin {"foreign", "ctrlreset"}
        BY <1>2, <3>2, Positions
      <3>4. pc <= Len(Script) BY <3>2 DEF At
      <3>5. s \in {"resetdiag", "snapshot"} BY <3>2, <3>3 DEF Asks
      <3>6. asked' \in {"reset", "snapshot"} /\ (asked' = "reset" => pc = 3)
        BY <3>1, <3>3, <3>5 DEF Asks
      <3>7. Script'[pc'] = Script[pc] /\ Len(Script') = Len(Script) BY <1>1, <2>1
      <3> QED BY <1>1, <1>2, <2>2, <3>1, <3>3, <3>4, <3>5, <3>6, <3>7 DEF Asked
    <2> QED BY <2>3, <2>4
  <1> QED BY <1>3, <1>4, <1>5, <1>6 DEF Trial

LEMMA PollTypes == EInv /\ Poll => Types'
  <1> SUFFICES ASSUME EInv, Poll PROVE Types' OBVIOUS
  <1>1. /\ UNCHANGED <<life, flight, ring, drawn, txq, wire, published, crossed, results, req>>
        /\ output' = output \/ output' = NoFile
    BY DEF Poll, machine, firmware, report
  <1>2. failed' \in BOOLEAN BY DEF Poll, Judge, Step, Raise, EInv, Types
  <1>3. NoFile \in Outputs
    <2>1. <<>> \in Seq(Byte) OBVIOUS
    <2> QED BY <2>1 DEF NoFile, Outputs, Kinds
  <1> QED BY <1>1, <1>2, <1>3 DEF EInv, Types

LEMMA PollTrial ==
  ASSUME EInv, mode # "lifecycle", mode' = mode, Poll PROVE Trial'
  <1>1. /\ UNCHANGED <<req, life, emu>> /\ polling' = FALSE /\ (failed => failed')
        /\ UNCHANGED <<flight, ring, drawn, txq, wire, published, crossed>>
        /\ UNCHANGED firmware /\ pc' \in {pc, pc + 1}
    BY DEF Poll, Judge, Step, Raise, machine, firmware
  <1>2. Asked /\ Order /\ Seen /\ Passed /\ SInv /\ Types BY DEF EInv, Trial
  <1>3. Order' BY <1>1, <1>2, OrderKept
  <1>4. output' = output \/ output' = NoFile BY DEF Poll
  <1>5. Seen'
    <2>1. CASE output' = output BY <1>1, <1>2, <2>1, SeenKept
    <2>2. CASE output' = NoFile BY <2>2 DEF NoFile, Seen
    <2> QED BY <1>4, <2>1, <2>2
  <1>6. ~rescue => /\ pc <= Len(Script) /\ Script[pc] \in {"resetdiag", "snapshot"}
                   /\ asked = Asks[Script[pc]] /\ At(Script[pc])
    BY <1>2 DEF Poll, Asked, At
  <1>7. req' = "reset" => pc' = 3 /\ output'.kind # "reset"
    <2> SUFFICES ASSUME req = "reset" PROVE pc' = 3 /\ output'.kind # "reset" BY <1>1
    <2>1. pc = 3 /\ output.kind # "reset" BY <1>2 DEF Asked
    <2>2. output'.kind # "reset" BY <1>4, <2>1 DEF NoFile
    <2>3. rescue => pc' = pc BY DEF Poll
    <2>4. ASSUME ~rescue PROVE pc' = pc
      <3>1. Script[pc] = "resetdiag" BY <1>2, <1>6, <2>1, <2>4, Positions
      <3>2. asked = "reset" BY <1>6, <2>4, <3>1 DEF Asks
      <3> QED BY <2>1, <2>4, <3>2 DEF Poll, Judge, Raise
    <2> QED BY <2>1, <2>2, <2>3, <2>4
  <1>8. Asked' BY <1>1, <1>2, <1>7 DEF Asked
  <1>9. Passed'
    <2>1. CASE pc' = pc BY <1>1, <1>2, <2>1, PassedKept
    <2>2. CASE pc' = pc + 1 /\ ~failed'
      <3>1. pc \in Nat \ {0} /\ mode \in {"wire", "flow", "reserve", "wrap"} BY <1>2 DEF SInv
      <3>2. ~rescue BY <2>2, <3>1 DEF Poll
      <3>3. Judge(output) BY <3>2 DEF Poll
      <3>4. CASE Script[pc] = "resetdiag"
        <4>1. pc = 3 BY <1>2, <1>6, <3>2, <3>4, Positions
        <4> QED BY <2>2, <4>1 DEF Passed, Drew, Replied, Snapped, SendAt, SnapAt
      <3>5. CASE Script[pc] = "snapshot"
        <4>1. pc = SnapAt
          BY <1>2, <1>6, <3>2, <3>5, Positions
        <4>2. asked = "snapshot" BY <1>6, <3>2, <3>5 DEF Asks
        <4>3. Step(~Validate(output)) BY <3>3, <4>2 DEF Judge
        <4>4. Validate(output) /\ ~failed BY <2>2, <4>3 DEF Step
        <4>5. Taken /\ (Flowing => crossed) BY <1>2, <4>4 DEF Validate, Throttled, Seen
        <4>6. Drew /\ (mode # "wrap" => Replied) BY <3>1, <4>1 DEF Drew, Replied, SendAt, SnapAt
        <4>7. drawn = Payload /\ (Replied => wire >= 1) BY <1>2, <4>4, <4>6 DEF Passed
        <4>8. Replied' => Replied BY <3>1, <4>6 DEF Replied
        <4> QED BY <1>1, <4>5, <4>7, <4>8, PayloadKept DEF Passed, Taken, Flowing
      <3> QED BY <1>6, <3>2, <3>4, <3>5
    <2>3. CASE failed' BY <2>3 DEF Passed
    <2> QED BY <1>1, <2>1, <2>2, <2>3
  <1> QED BY <1>3, <1>5, <1>8, <1>9 DEF Trial

--------------------------------------------------------------------------------
\* Every boot, trial and program ends with nothing left of it.
LEMMA ClearTypes ==
  ASSUME EInv, ClearAll, failed' \in BOOLEAN, results' \in Seq(Verdicts) PROVE Types'
  <1>1. <<>> \in Seq(Byte) OBVIOUS
  <1>2. NoFile \in Outputs BY <1>1 DEF NoFile, Outputs, Kinds
  <1> QED BY <1>1, <1>2 DEF ClearAll, Types, Kinds

LEMMA FinallyKeeps ==
  ASSUME EInv, mode' = mode, exit = "running", NEW ok \in BOOLEAN, NEW truth \in BOOLEAN, ok => truth,
         Finally(ok, truth)
  PROVE  Types' /\ Trial' /\ Scores'
  <1> DEFINE r == [ok |-> ok, earned |-> truth, wire |-> wire]
  <1>1. r \in Verdicts /\ results \in Seq(Verdicts) BY DEF EInv, Types, Verdicts
  <1>2. ClearAll /\ results' = Append(results, r) BY DEF Finally
  <1>3. /\ failed' = FALSE /\ rescue' = FALSE /\ polling' = FALSE /\ pc' = 1
        /\ exit' = IF More THEN "running" ELSE IF \A q \in Range(results') : q.ok THEN "ok" ELSE "fail"
    BY DEF Finally
  <1>4. Types'
    <2>1. results' \in Seq(Verdicts) BY <1>1, <1>2
    <2> QED BY <1>2, <1>3, <2>1, ClearTypes
  <1>5. Trial'
    <2>1. /\ emu' = "off" /\ req' = "none" /\ output' = NoFile /\ life' = "none" /\ flight' = <<>>
          /\ ring' = <<>> /\ drawn' = <<>> /\ published' = <<>>
      BY <1>2 DEF ClearAll, CloseEmu
    <2>2. Behind' = <<>> /\ Traced' = <<>> BY <2>1 DEF Behind, Traced
    <2>3. /\ NoReal(Behind)' /\ NoReal(Traced)' /\ LastReal(Behind)' /\ LastReal(Traced)'
          /\ OneReal(Behind)' /\ OneReal(Traced)'
      BY <2>2 DEF NoReal, OneReal, LastReal
    <2>4. Asked' BY <1>3, <2>1 DEF Asked
    <2>5. Order' BY <2>1, <2>3 DEF Order
    <2>6. Seen' BY <2>1 DEF Seen, NoFile
    <2>7. Passed'
      <3>1. SInv BY DEF EInv
      <3>2. ~Drew' /\ ~Replied' /\ ~Snapped' BY <1>3, <3>1 DEF SInv, Drew, Replied, Snapped, SendAt, SnapAt
      <3> QED BY <3>2 DEF Passed
    <2> QED BY <2>4, <2>5, <2>6, <2>7 DEF Trial
  <1>6. Scores'
    <2>1. Range(results') = Range(results) \cup {r}
      BY <1>1, <1>2, RangeOfAppended
    <2>2. r.ok = ok /\ r.earned = truth OBVIOUS
    <2>3. \A q \in Range(results) : q.ok => q.earned BY DEF EInv, Scores
    <2>4. exit' = "ok" => \A q \in Range(results') : q.ok BY <1>3
    <2> HIDE DEF r
    <2>5. \A q \in Range(results') : q.ok => q.earned BY <2>1, <2>2, <2>3
    <2> QED BY <2>4, <2>5 DEF Scores
  <1> QED BY <1>4, <1>5, <1>6

LEMMA EndTrial ==
  ASSUME EInv, mode' = mode, Verdict \/ Rescued PROVE Types' /\ Trial' /\ Scores'
  <1>1. SInv /\ Types BY DEF EInv
  <1>2. Earned \in BOOLEAN BY DEF Earned
  <1>3. CASE Rescued BY <1>3, FinallyKeeps DEF Rescued
  <1>4. CASE Verdict
    <2>1. (~failed) \in BOOLEAN /\ At("verdict") /\ Finally(~failed, Earned) /\ exit = "running"
      BY <1>4 DEF Verdict, At
    <2>2. ~failed => Earned
      <3> SUFFICES ASSUME ~failed, mode # "lifecycle" PROVE Earned BY DEF Earned, Flowing
      <3>1. Snapped /\ Drew /\ (mode # "wrap" => Replied) BY <1>1, <2>1, Positions
      <3>2. Passed BY DEF EInv, Trial
      <3>3. Taken /\ drawn = Payload /\ (Flowing => crossed) /\ (mode # "wrap" => wire >= 1)
        BY <3>1, <3>2 DEF Passed
      <3> QED BY <3>3 DEF Earned, Taken, Flowing
    <2> QED BY <1>2, <2>1, <2>2, FinallyKeeps
  <1> QED BY <1>3, <1>4

LEMMA CloseTypes == EInv /\ Close => Types'
  <1> SUFFICES ASSUME EInv, Close PROVE Types' OBVIOUS
  <1>1. ClearAll /\ failed' \in BOOLEAN /\ results' = results BY DEF Close, Step, report
  <1>2. results \in Seq(Verdicts) BY DEF EInv, Types
  <1> QED BY <1>1, <1>2, ClearTypes

--------------------------------------------------------------------------------
\* The script in the emulator.
LEMMA ScriptTypes ==
  EInv /\ (ServeReset \/ ServeSnapshot \/ WriteRest \/ BeginProbe \/ EndProbe \/ EmulatorExits)
    => Types'
  <1> SUFFICES ASSUME EInv,
                      ServeReset \/ ServeSnapshot \/ WriteRest \/ BeginProbe \/ EndProbe
                        \/ EmulatorExits
               PROVE  Types'
    OBVIOUS
  <1>1. Types BY DEF EInv
  <1>2. /\ UNCHANGED <<failed, flight, ring, drawn, txq, wire, results>>
        /\ (published' = published /\ crossed' = crossed) \/ (published' = <<>> /\ crossed' = FALSE)
        /\ req' \in {req, "none"}
        /\ life' \in {life, "none"} \/ (req \in {"foreign", "ctrl"} /\ life' = req)
    BY DEF ServeReset, ServeSnapshot, WriteRest, BeginProbe, EndProbe, EmulatorExits, host, firmware,
           machine, report, files
  <1>3. published' \in Seq(Byte) /\ crossed' \in BOOLEAN
    <2>1. <<>> \in Seq(Byte) OBVIOUS
    <2> QED BY <1>1, <1>2, <2>1 DEF Types
  <1>4. \A k \in Kinds, w \in BOOLEAN : File(k, w) \in Outputs
    BY <1>1 DEF Types, File, Outputs
  <1>5. /\ ServeReset => output' = File("reset", TRUE)
        /\ ServeSnapshot => \E w \in BOOLEAN : output' = File("snapshot", w)
        /\ WriteRest => output' = [output EXCEPT !.whole = TRUE]
        /\ EndProbe => output' = File(life, TRUE)
        /\ BeginProbe \/ EmulatorExits => output' = output
    BY DEF ServeReset, ServeSnapshot, WriteRest, BeginProbe, EndProbe, EmulatorExits, files
  <1>6. [output EXCEPT !.whole = TRUE] \in Outputs BY <1>1 DEF Types, Outputs
  <1>7. life \in Kinds /\ "reset" \in Kinds /\ "snapshot" \in Kinds BY <1>1 DEF Types, Kinds
  <1>8. output' \in Outputs BY <1>1, <1>4, <1>5, <1>6, <1>7 DEF Types
  <1>9. req' \in Kinds /\ life' \in {"none", "foreign", "ctrl"} BY <1>1, <1>2 DEF Types, Kinds
  <1> QED BY <1>1, <1>2, <1>3, <1>8, <1>9 DEF Types

LEMMA ScriptTrial ==
  ASSUME EInv, mode # "lifecycle", mode' = mode,
         ServeReset \/ ServeSnapshot \/ WriteRest \/ BeginProbe \/ EndProbe \/ EmulatorExits
  PROVE  Trial'
  <1>1. Asked /\ Order /\ Seen /\ Passed /\ SInv /\ Types BY DEF EInv, Trial
  <1>2. /\ UNCHANGED <<pc, polling, rescue, asked, failed, flight, ring, drawn, txq, wire>>
        /\ emu = "running"
    BY DEF ServeReset, ServeSnapshot, WriteRest, BeginProbe, EndProbe, EmulatorExits, host, firmware,
           machine, report, files, Frame
  <1>3. Script' = Script /\ pc # 1 BY <1>1, <1>2 DEF Script, Order
  <1>4. ASSUME UNCHANGED published PROVE Order'
    <2>1. Behind' = Behind /\ Traced' = Traced BY <1>2, <1>4 DEF Behind, Traced
    <2>2. Sent' = Sent /\ Unsent' = Unsent BY <1>2 DEF Sent, Unsent, SendAt
    <2> QED BY <1>1, <1>2, <1>3, <2>1, <2>2 DEF Order, NoReal, OneReal, LastReal
  <1>5. CASE ServeReset
    <2>1. /\ req = "reset" /\ req' = "none" /\ published' = <<>> /\ output'.kind = "reset"
          /\ life' = life
      BY <1>5 DEF ServeReset, File, machine
    <2>2. pc = 3 /\ ~Sent /\ Unsent BY <1>1, <2>1 DEF Asked, Sent, Unsent, SendAt
    <2>3. Asked' BY <1>1, <1>2, <1>3, <2>1 DEF Asked
    <2>4. Seen' BY <2>1 DEF Seen
    <2>5. Passed' BY <1>2, <2>2 DEF Passed, Drew, Replied, Snapped, SendAt, SnapAt
    <2>6. NoReal(Behind) /\ OneReal(Behind) /\ LastReal(Behind) /\ NoReal(published \o flight)
      BY <1>1, <2>2 DEF Order, Traced
    <2>7. published \in Seq(Byte) /\ flight \in Seq(Byte) /\ <<>> \o flight \in Seq(Byte)
      BY <1>1, ConcatEmptySeq DEF Types
    <2>8. NoReal(<<>> \o flight) BY <2>6, <2>7, NoneBehind
    <2>9. OneReal(<<>> \o flight) /\ LastReal(<<>> \o flight) BY <2>7, <2>8, NoRealLast
    <2>10. Behind' = Behind /\ Traced' = <<>> \o flight BY <1>2, <2>1 DEF Behind, Traced
    <2>11. Order' BY <1>2, <1>3, <2>6, <2>8, <2>9, <2>10 DEF Order, NoReal, OneReal, LastReal
    <2> QED BY <2>3, <2>4, <2>5, <2>11 DEF Trial
  <1>6. CASE ServeSnapshot
    <2>1. PICK w \in BOOLEAN : output' = File("snapshot", w) BY <1>6 DEF ServeSnapshot
    <2>2. req' = "none" /\ UNCHANGED firmware /\ life' = life BY <1>6 DEF ServeSnapshot, machine
    <2>3. UNCHANGED <<published, crossed>> BY <2>2 DEF firmware
    <2>4. Seen' BY <1>2, <2>1, <2>3, PayloadKept DEF Seen, File, Taken
    <2>5. Asked' BY <1>1, <1>2, <1>3, <2>2 DEF Asked
    <2>6. Passed' BY <1>1, <1>2, <2>2, PassedKept
    <2> QED BY <1>4, <2>3, <2>4, <2>5, <2>6 DEF Trial
  <1>7. CASE WriteRest
    <2>1. /\ output' = [output EXCEPT !.whole = TRUE] /\ UNCHANGED firmware
          /\ UNCHANGED <<req, life>>
      BY <1>7 DEF WriteRest, machine
    <2>2. /\ output'.kind = output.kind /\ output'.idle = output.idle /\ output'.val = output.val
          /\ output'.high = output.high
      BY <1>1, <2>1 DEF Types, Outputs
    <2>3. UNCHANGED <<published, crossed>> BY <2>1 DEF firmware
    <2>4. Seen' BY <1>1, <1>2, <2>2, <2>3, PayloadKept DEF Seen, Taken
    <2>5. Asked' BY <1>1, <1>2, <1>3, <2>1, <2>2 DEF Asked
    <2>6. Passed' BY <1>1, <1>2, <2>1, PassedKept
    <2> QED BY <1>4, <2>3, <2>4, <2>5, <2>6 DEF Trial
  <1>8. ~BeginProbe /\ ~EndProbe BY <1>1 DEF Asked, BeginProbe, EndProbe
  <1>9. CASE EmulatorExits
    <2>1. UNCHANGED <<req, life, output>> /\ UNCHANGED firmware BY <1>9 DEF EmulatorExits, files
    <2>2. UNCHANGED <<published, crossed>> BY <2>1 DEF firmware
    <2>3. Seen' BY <1>1, <1>2, <2>1, <2>2, SeenKept
    <2>4. Asked' BY <1>1, <1>2, <1>3, <2>1 DEF Asked
    <2>5. Passed' BY <1>1, <1>2, <2>1, PassedKept
    <2> QED BY <1>4, <2>2, <2>3, <2>4, <2>5 DEF Trial
  <1> QED BY <1>5, <1>6, <1>7, <1>8, <1>9

--------------------------------------------------------------------------------
\* The firmware under test.
LEMMA FirmwareTypes == EInv /\ (Receive \/ Draw \/ Transmit) => Types'
  <1> SUFFICES ASSUME EInv, Receive \/ Draw \/ Transmit PROVE Types' OBVIOUS
  <1>1. Types BY DEF EInv
  <1>2. UNCHANGED <<failed, req, life, output, results>>
    BY DEF Receive, Draw, Transmit, host, files, machine, report
  <1>3. CASE Receive
    <2>1. /\ flight # <<>> /\ flight' = Tail(flight) /\ UNCHANGED <<drawn, txq, wire>>
          /\ crossed' = (crossed \/ Len(ring') >= High)
      BY <1>3 DEF Receive
    <2>2. Head(flight) \in Byte /\ flight' \in Seq(Byte) /\ Bad \in Byte
      BY <1>1, <2>1, HeadTailProperties DEF Types, Byte
    <2>3. published' \in Seq(Byte) /\ ring' \in Seq(Byte)
      <3>1. \/ UNCHANGED <<published, ring>>
            \/ \E x \in Byte : published' = Append(published, x) /\ ring' = Append(ring, x)
        BY <1>3, <2>2 DEF Receive
      <3>2. published \in Seq(Byte) /\ ring \in Seq(Byte) BY <1>1 DEF Types
      <3>3. \A x \in Byte : Append(published, x) \in Seq(Byte) /\ Append(ring, x) \in Seq(Byte)
        BY <3>2, AppendProperties
      <3> QED BY <3>1, <3>2, <3>3
    <2> QED BY <1>1, <1>2, <2>1, <2>2, <2>3 DEF Types
  <1>4. CASE Draw
    <2>1. /\ ring # <<>> /\ ring' = Tail(ring) /\ UNCHANGED <<flight, wire, published, crossed>>
          /\ drawn' \in {Append(drawn, Head(ring)), Append(drawn, Bad)}
      BY <1>4 DEF Draw
    <2>2. PICK extra \in {0, 1} : txq' = txq + (IF Head(ring) = Query THEN 1 ELSE 0) + extra
      BY <1>4 DEF Draw
    <2>3. txq' \in Nat BY <1>1, <2>2 DEF Types
    <2>4. Head(ring) \in Byte /\ ring' \in Seq(Byte) /\ Bad \in Byte
      BY <1>1, <2>1, HeadTailProperties DEF Types, Byte
    <2>5. \A x \in Byte : Append(drawn, x) \in Seq(Byte) BY <1>1, AppendProperties DEF Types
    <2>6. drawn' \in Seq(Byte) BY <2>1, <2>4, <2>5
    <2> QED BY <1>1, <1>2, <2>1, <2>3, <2>4, <2>6 DEF Types
  <1>5. CASE Transmit
    <2>1. /\ txq > 0 /\ txq' = txq - 1 /\ wire' = wire + 1
          /\ UNCHANGED <<flight, ring, drawn, published, crossed>>
      BY <1>5 DEF Transmit
    <2>2. txq' \in Nat /\ wire' \in Nat BY <1>1, <2>1 DEF Types
    <2> QED BY <1>1, <1>2, <2>1, <2>2 DEF Types
  <1> QED BY <1>3, <1>4, <1>5

LEMMA FirmwareTrial ==
  ASSUME EInv, mode # "lifecycle", mode' = mode, Receive \/ Draw \/ Transmit PROVE Trial'
  <1>1. Asked /\ Order /\ Seen /\ Passed /\ SInv /\ Types BY DEF EInv, Trial
  <1>2. UNCHANGED <<pc, polling, rescue, asked, failed, req, life, output>> /\ emu = "running"
    BY DEF Receive, Draw, Transmit, host, files, machine, Firmware, Frame
  <1>3. Script' = Script /\ pc # 1 BY <1>1, <1>2 DEF Script, Order
  <1>4. Asked' BY <1>1, <1>2, <1>3 DEF Asked
  <1>5. Sent' = Sent /\ Unsent' = Unsent /\ Drew' = Drew /\ Replied' = Replied /\ Snapped' = Snapped
    BY <1>2 DEF Sent, Unsent, Drew, Replied, Snapped, SendAt, SnapAt
  <1>6. /\ flight \in Seq(Byte) /\ ring \in Seq(Byte) /\ drawn \in Seq(Byte)
        /\ published \in Seq(Byte) /\ ring \o flight \in Seq(Byte) /\ drawn \o ring \in Seq(Byte)
    BY <1>1, Chains, ConcatProperties DEF Types
  <1>7. \* nothing is left behind a payload that has been taken
        /\ published = Payload => flight = <<>>
        /\ drawn = Payload => ring \o flight = <<>>
    BY <1>1, <1>6, PayloadLast DEF Order, Behind, Traced
  <1>8. ASSUME Unsent => NoReal(Behind') /\ NoReal(Traced'),
               ~Sent => OneReal(Behind') /\ OneReal(Traced'), LastReal(Behind'), LastReal(Traced')
        PROVE  Order'
    BY <1>2, <1>3, <1>5, <1>8 DEF Order, NoReal, OneReal, LastReal
  <1>9. CASE Receive
    <2>1. /\ flight # <<>> /\ flight' = Tail(flight) /\ UNCHANGED <<drawn, txq, wire>>
          /\ crossed => crossed'
      BY <1>9 DEF Receive
    <2>2. PICK x \in {Head(flight), Bad} :
            \/ published' = Append(published, x) /\ ring' = Append(ring, x)
            \/ UNCHANGED <<published, ring>>
      BY <1>9 DEF Receive
    <2>3. x \in Byte /\ Tail(flight) \in Seq(Byte)
      BY <1>6, <2>1, HeadTailProperties DEF Byte
    <2>4. /\ Append(drawn \o ring, x) = drawn \o Append(ring, x) /\ Append(ring, x) \in Seq(Byte)
      <3>1. <<x>> \in Seq(Byte) BY <2>3
      <3>2. Associates(drawn, ring, <<x>>) BY <1>6, <3>1, BytesAssociate
      <3>3. Append(drawn \o ring, x) = (drawn \o ring) \o <<x>> /\ Append(ring, x) = ring \o <<x>>
        BY <1>6, <2>3, AppendIsConcat
      <3>4. Append(ring, x) \in Seq(Byte) BY <1>6, <2>3, AppendProperties
      <3> QED BY <3>2, <3>3, <3>4 DEF Associates
    <2>5. /\ (drawn \o ring) \o flight = Behind
          /\ (drawn \o ring) \o Tail(flight) = drawn \o (ring \o Tail(flight))
          /\ (drawn \o Append(ring, x)) \o Tail(flight) = drawn \o (Append(ring, x) \o Tail(flight))
      <3>1. (drawn \o ring) \o flight = Behind
        <4>1. Associates(drawn, ring, flight) BY <1>6, BytesAssociate
        <4> QED BY <4>1 DEF Associates, Behind
      <3>2. (drawn \o ring) \o Tail(flight) = drawn \o (ring \o Tail(flight))
        <4>1. Associates(drawn, ring, Tail(flight)) BY <1>6, <2>3, BytesAssociate
        <4> QED BY <4>1 DEF Associates
      <3>3. (drawn \o Append(ring, x)) \o Tail(flight) = drawn \o (Append(ring, x) \o Tail(flight))
        <4>1. Associates(drawn, Append(ring, x), Tail(flight)) BY <1>6, <2>3, <2>4, BytesAssociate
        <4> QED BY <4>1 DEF Associates
      <3> QED BY <3>1, <3>2, <3>3
    <2>6. /\ LastReal(Behind) => /\ LastReal(Append(drawn \o ring, x) \o Tail(flight))
                                 /\ LastReal((drawn \o ring) \o Tail(flight))
          /\ NoReal(Behind) => /\ NoReal(Append(drawn \o ring, x) \o Tail(flight))
                               /\ NoReal((drawn \o ring) \o Tail(flight))
          /\ OneReal(Behind) => /\ OneReal(Append(drawn \o ring, x) \o Tail(flight))
                                /\ OneReal((drawn \o ring) \o Tail(flight))
      BY <1>6, <2>1, <2>5, MoveOn
    <2>7. /\ LastReal(Traced) => /\ LastReal(Append(published, x) \o Tail(flight))
                                 /\ LastReal(published \o Tail(flight))
          /\ NoReal(Traced) => /\ NoReal(Append(published, x) \o Tail(flight))
                               /\ NoReal(published \o Tail(flight))
          /\ OneReal(Traced) => /\ OneReal(Append(published, x) \o Tail(flight))
                                /\ OneReal(published \o Tail(flight))
      BY <1>6, <2>1, MoveOn DEF Traced
    <2>8. Behind' \in {Append(drawn \o ring, x) \o Tail(flight), (drawn \o ring) \o Tail(flight)}
      BY <2>1, <2>2, <2>4, <2>5 DEF Behind
    <2>9. Traced' \in {Append(published, x) \o Tail(flight), published \o Tail(flight)}
      BY <2>1, <2>2 DEF Traced
    <2>10. /\ LastReal(Behind') /\ (NoReal(Behind) => NoReal(Behind'))
           /\ OneReal(Behind) => OneReal(Behind')
      BY <1>1, <2>6, <2>8 DEF Order
    <2>11. /\ LastReal(Traced') /\ (NoReal(Traced) => NoReal(Traced'))
           /\ OneReal(Traced) => OneReal(Traced')
      BY <1>1, <2>7, <2>9 DEF Order
    <2>12. Order' BY <1>1, <1>8, <2>10, <2>11 DEF Order
    <2>13. ring \o flight # <<>> BY <1>1, <2>1, Chains
    <2>14. published # Payload /\ drawn # Payload BY <1>7, <2>1, <2>13
    <2>15. Seen' BY <1>1, <1>2, <2>1, <2>14, PayloadKept DEF Seen, Taken
    <2>16. Passed' BY <1>1, <1>2, <1>5, <2>1, <2>14 DEF Passed, Taken
    <2> QED BY <1>4, <2>12, <2>15, <2>16 DEF Trial
  <1>10. CASE Draw
    <2>1. /\ ring # <<>> /\ ring' = Tail(ring) /\ UNCHANGED <<flight, wire, published, crossed>>
      BY <1>10 DEF Draw
    <2>2. PICK x \in {Head(ring), Bad} : drawn' = Append(drawn, x) BY <1>10 DEF Draw
    <2>3. /\ ring \o flight # <<>> /\ Head(ring \o flight) = Head(ring)
          /\ Tail(ring \o flight) = Tail(ring) \o flight
      BY <1>1, <2>1, Chains
    <2>4. /\ LastReal(Behind) => LastReal(Append(drawn, x) \o (Tail(ring) \o flight))
          /\ NoReal(Behind) => NoReal(Append(drawn, x) \o (Tail(ring) \o flight))
          /\ OneReal(Behind) => OneReal(Append(drawn, x) \o (Tail(ring) \o flight))
      <3> DEFINE f == ring \o flight
      <3>1. f \in Seq(Byte) /\ f # <<>> /\ x \in {Head(f), Bad} /\ Tail(f) = Tail(ring) \o flight
        BY <1>6, <2>3
      <3>2. drawn \o f = Behind BY DEF Behind
      <3> HIDE DEF f
      <3> QED BY <1>6, <3>1, <3>2, MoveOn
    <2>5. Behind' = Append(drawn, x) \o (Tail(ring) \o flight) BY <2>1, <2>2 DEF Behind
    <2>6. Traced' = Traced BY <2>1 DEF Traced
    <2>7. /\ LastReal(Behind') /\ (NoReal(Behind) => NoReal(Behind'))
          /\ OneReal(Behind) => OneReal(Behind')
      BY <1>1, <2>4, <2>5 DEF Order
    <2>8. /\ LastReal(Traced') /\ (NoReal(Traced) => NoReal(Traced'))
          /\ OneReal(Traced) => OneReal(Traced')
      BY <1>1, <2>6 DEF Order
    <2>9. Order' BY <1>1, <1>8, <2>7, <2>8 DEF Order
    <2>10. drawn # Payload BY <1>7, <2>3
    <2>11. Seen' BY <1>1, <1>2, <2>1, PayloadKept DEF Seen, Taken
    <2>12. Passed' BY <1>1, <1>2, <1>5, <2>1, <2>10 DEF Passed, Taken
    <2> QED BY <1>4, <2>9, <2>11, <2>12 DEF Trial
  <1>11. CASE Transmit
    <2>1. /\ txq > 0 /\ wire' = wire + 1 /\ UNCHANGED <<flight, ring, drawn, published, crossed>>
      BY <1>11 DEF Transmit
    <2>2. txq # 0 /\ (wire >= 1 => wire' >= 1) BY <1>1, <2>1 DEF Types
    <2>3. Behind' = Behind /\ Traced' = Traced BY <2>1 DEF Behind, Traced
    <2>4. Order' BY <1>1, <1>8, <2>3 DEF Order
    <2>5. Seen' BY <1>1, <1>2, <2>1, <2>2, PayloadKept DEF Seen, Taken
    <2>6. Passed' BY <1>1, <1>2, <1>5, <2>1, <2>2, PayloadKept DEF Passed, Taken
    <2> QED BY <1>4, <2>4, <2>5, <2>6 DEF Trial
  <1> QED BY <1>9, <1>10, <1>11

--------------------------------------------------------------------------------
LEMMA TypesKept ==
  ASSUME EInv, Types', UNCHANGED mode, UNCHANGED report,
         mode # "lifecycle" => Trial'
  PROVE  Types' /\ Trial' /\ Scores'
  BY ScoresKept DEF EInv, Trial

\* The types, in the trial of the life cycle.
LEMMA LifecycleTypes ==
  ASSUME EInv, mode = "lifecycle", Open \/ Reset \/ ClearBuf \/ Prime \/ Send \/ Capture \/ Peek \/ Settle
  PROVE  Types'
  <1>1. Types BY DEF EInv
  <1>2. /\ UNCHANGED <<req, life, output, ring, txq, published, crossed, results>>
        /\ failed' \in BOOLEAN /\ drawn' \in {drawn, <<>>} /\ wire' \in {wire, 0}
    BY <1>1 DEF Open, Reset, ClearBuf, Prime, Send, Sends, Capture, Peek, Settle, Step, Raise, files, machine,
                firmware, report, Types
  <1>3. \/ flight' = flight \/ \E a \in {<<Head(Payload)>>, Payload, Tail(Payload)} : flight' = flight \o a
        \/ \E n \in 0 .. Strays : flight' = [i \in 1 .. n |-> Stray]
    BY DEF Open, Reset, ClearBuf, Prime, Send, Sends, Rest, Capture, Peek, Settle, firmware
  <1>4. flight' \in Seq(Byte)
    <2>1. /\ flight \in Seq(Byte)
          /\ \A a \in {<<Head(Payload)>>, Payload, Tail(Payload)} : flight \o a \in Seq(Byte)
      BY <1>1, PayloadBytes, ConcatProperties DEF Types
    <2>2. \A n \in 0 .. Strays : [i \in 1 .. n |-> Stray] \in Seq(Byte)
      BY SizeAssumption DEF Byte
    <2> QED BY <1>3, <2>1, <2>2
  <1>5. drawn' \in Seq(Byte) /\ wire' \in Nat
    <2>1. <<>> \in Seq(Byte) /\ drawn \in Seq(Byte) /\ wire \in Nat BY <1>1 DEF Types
    <2>2. wire' \in Nat BY <1>2, <2>1
    <2>3. drawn' \in Seq(Byte)
      <3>1. drawn' = drawn \/ drawn' = <<>> BY <1>2
      <3> QED BY <2>1, <3>1
    <2> QED BY <2>2, <2>3
  <1> QED BY <1>1, <1>2, <1>4, <1>5 DEF Types

\* A pass is earned: whatever the emulator and the firmware did, and whenever the script's
\* answers came, every trial of a run that ends in success took the payload byte for byte,
\* drew it, answered it and, for flow, was throttled.
THEOREM PassIsEarnedCorrect == Spec => []PassIsEarned
  <1>1. EInv /\ [Next]_vars => EInv'
    <2> SUFFICES ASSUME EInv, [Next]_vars PROVE EInv' OBVIOUS
    <2>1. SInv'
      <3>1. SInv BY DEF EInv
      <3>2. CASE Host /\ UNCHANGED mode
        BY <3>1, <3>2, StepKeeps, AskKeeps, PollKeeps, EndKeeps DEF Host
      <3>3. CASE (Emulator \/ EmulatorExits \/ Hear) /\ UNCHANGED mode BY <3>1, <3>3, EmulatorKeeps
      <3>4. CASE UNCHANGED vars
        BY <3>1, <3>4 DEF vars, host, files, machine, SInv, Reopened, Untaken, Pressing, Script
      <3> QED BY <3>2, <3>3, <3>4 DEF Next, Stop
    <2>2. Types' /\ Trial' /\ Scores'
      <3>1. CASE (Open \/ Reset \/ ClearBuf \/ Prime \/ Send \/ Capture \/ Peek \/ Settle) /\ UNCHANGED mode
        <4>1. UNCHANGED report
          BY <3>1 DEF Open, Reset, ClearBuf, Prime, Send, Sends, Capture, Peek, Settle, report
        <4>2. mode # "lifecycle" => Types' /\ Trial'
          BY <3>1, OpenTrial, ResetTrial, ClearBufTrial, SendTrial, JudgeTrial
        <4>3. mode = "lifecycle" => Types' BY <3>1, LifecycleTypes
        <4> QED BY <3>1, <4>1, <4>2, <4>3, TypesKept
      <3>2. CASE (QueryOnce \/ Close) /\ UNCHANGED mode
        <4>1. UNCHANGED report /\ Types'
          BY <3>2, QueryTypes, CloseTypes DEF QueryOnce, Sends, Close, report
        <4>2. mode = "lifecycle"
          <5>1. PICK s \in {"query", "close"} : At(s) BY <3>2 DEF QueryOnce, Close
          <5> QED BY <5>1, Positions DEF EInv
        <4> QED BY <3>2, <4>1, <4>2, TypesKept
      <3>3. CASE (Ask \/ Poll) /\ UNCHANGED mode
        <4>1. UNCHANGED report /\ Types' BY <3>3, AskTypes, PollTypes DEF Ask, Poll, report
        <4>2. mode # "lifecycle" => Trial' BY <3>3, AskTrial, PollTrial
        <4> QED BY <3>3, <4>1, <4>2, TypesKept
      <3>4. CASE (Verdict \/ Rescued) /\ UNCHANGED mode BY <3>4, EndTrial
      <3>5. CASE (\/ ServeReset \/ ServeSnapshot \/ WriteRest \/ BeginProbe \/ EndProbe
                  \/ EmulatorExits) /\ UNCHANGED mode
        <4>1. UNCHANGED report /\ Types'
          BY <3>5, ScriptTypes
             DEF ServeReset, ServeSnapshot, WriteRest, BeginProbe, EndProbe, EmulatorExits, report
        <4>2. mode # "lifecycle" => Trial' BY <3>5, ScriptTrial
        <4> QED BY <3>5, <4>1, <4>2, TypesKept
      <3>6. CASE (Receive \/ Draw \/ Transmit) /\ UNCHANGED mode
        <4>1. UNCHANGED report /\ Types'
          BY <3>6, FirmwareTypes DEF Receive, Draw, Transmit, report
        <4>2. mode # "lifecycle" => Trial' BY <3>6, FirmwareTrial
        <4> QED BY <3>6, <4>1, <4>2, TypesKept
      <3>7. CASE UNCHANGED vars \/ (Hear /\ UNCHANGED mode)
        <4>1. UNCHANGED <<mode, pc, polling, asked, failed, rescue, req, output, emu, life, flight,
                          ring, drawn, txq, wire, published, crossed, results, exit>>
          BY <3>7 DEF vars, Hear, host, files, machine, firmware, report
        <4>2. Types' /\ Scores' BY <4>1 DEF EInv, Types, Scores
        <4>3. Script' = Script /\ Payload' = Payload BY <4>1 DEF Script, Payload
        <4>4. Asked => Asked' BY <4>1, <4>3 DEF Asked
        <4>5. Order => Order'
          BY <4>1 DEF Order, Behind, Traced, Sent, Unsent, SendAt, NoReal, OneReal, LastReal
        <4>6. (Seen => Seen') /\ (Passed => Passed')
          BY <4>1, <4>3 DEF Seen, Passed, Taken, Flowing, Drew, Replied, Snapped, SendAt, SnapAt
        <4> QED BY <4>1, <4>2, <4>4, <4>5, <4>6 DEF EInv, Trial
      <3> QED BY <3>1, <3>2, <3>3, <3>4, <3>5, <3>6, <3>7 DEF Next, Stop, Host, Emulator
    <2> QED BY <2>1, <2>2 DEF EInv
  <1>2. EInv => PassIsEarned BY DEF EInv, Scores, PassIsEarned
  <1> QED BY <1>1, <1>2, EInvInit, PTL DEF Spec
================================================================================
