---------------------------- MODULE HostPacing_proofs ----------------------------
(***************************************************************************)
(* Theorems about the pacing of a host, for groups, chunks and rings of    *)
(* any size.  They hold if no wait gives up while an answer is on its way, *)
(* and if a group and its question fit into the ring.                      *)
(*                                                                         *)
(* The argument: at most one question or report exists anywhere.  While it *)
(* is a question it is the last byte on its way, so when its report is     *)
(* heard, or nothing is on its way, all bytes sent have been processed.    *)
(***************************************************************************)
EXTENDS HostPacing, SequenceTheorems, TLAPS

\* what the theorems assume of the waits and of the ring
Patient == Hasty = {} /\ Window + 1 <= RingCap

Messages == [kind : {"data", "ask", "cpr", "xon", "xoff"}, id : Nat]
Plain(q) == \A i \in DOMAIN q : q[i].kind # "ask"
Clean(q) == \A i \in DOMAIN q : q[i].kind # "cpr"
\* at most one report
One(q) == \A i, j \in DOMAIN q : q[i].kind = "cpr" /\ q[j].kind = "cpr" => i = j
\* a question, behind everything else
Carries(q) ==
  q # <<>> /\ q[Len(q)].kind = "ask" /\ \A i \in DOMAIN q : q[i].kind = "ask" => i = Len(q)

(***************************************************************************)
(* Sequences of messages.                                                  *)
(***************************************************************************)
LEMMA MessageKinds ==
  /\ Data \in Messages /\ XON \in Messages /\ XOFF \in Messages
  /\ \A n \in Nat : Ask(n) \in Messages /\ Cpr(n) \in Messages
  BY DEF Data, XON, XOFF, Ask, Cpr, Messages

LEMMA TailOf ==
  ASSUME NEW q \in Seq(Messages), q # <<>>
  PROVE  /\ Tail(q) \in Seq(Messages) /\ Len(Tail(q)) = Len(q) - 1 /\ Len(q) >= 1
         /\ Head(q) \in Messages /\ Head(q) = q[1]
         /\ Plain(q) => Plain(Tail(q)) /\ Head(q).kind # "ask"
         /\ Clean(q) => Clean(Tail(q)) /\ Head(q).kind # "cpr"
         /\ One(q) => One(Tail(q)) /\ (Head(q).kind = "cpr" => Clean(Tail(q)))
         /\ Carries(q) /\ Tail(q) # <<>> => Carries(Tail(q)) /\ Head(q).kind # "ask"
         /\ Carries(q) /\ Tail(q) = <<>> => Head(q).kind = "ask"
  <1>1. /\ Tail(q) \in Seq(Messages) /\ Len(Tail(q)) = Len(q) - 1 /\ Len(q) >= 1
        /\ Head(q) \in Messages /\ Head(q) = q[1]
        /\ \A i \in 1 .. Len(q) - 1 : Tail(q)[i] = q[i + 1]
    <2>1. /\ Tail(q) \in Seq(Messages) /\ Len(Tail(q)) = Len(q) - 1 /\ Head(q) \in Messages
          /\ \A i \in 1 .. Len(Tail(q)) : Tail(q)[i] = q[i + 1]
      BY HeadTailProperties
    <2>2. Len(q) \in Nat \ {0} BY EmptySeq
    <2>3. Head(q) = q[1] OBVIOUS
    <2> QED BY <2>1, <2>2, <2>3
  <1>2. DOMAIN q = 1 .. Len(q) /\ DOMAIN Tail(q) = 1 .. Len(q) - 1 BY <1>1
  <1>3. Plain(q) => Plain(Tail(q)) /\ Head(q).kind # "ask" BY <1>1, <1>2 DEF Plain
  <1>4. Clean(q) => Clean(Tail(q)) /\ Head(q).kind # "cpr" BY <1>1, <1>2 DEF Clean
  <1>5. One(q) => One(Tail(q)) /\ (Head(q).kind = "cpr" => Clean(Tail(q)))
    BY <1>1, <1>2 DEF One, Clean
  <1>6. Carries(q) /\ Tail(q) # <<>> => Carries(Tail(q)) /\ Head(q).kind # "ask"
    BY <1>1, <1>2 DEF Carries
  <1>7. Carries(q) /\ Tail(q) = <<>> => Head(q).kind = "ask" BY <1>1 DEF Carries
  <1> QED BY <1>1, <1>3, <1>4, <1>5, <1>6, <1>7

LEMMA AppendOf ==
  ASSUME NEW q \in Seq(Messages), NEW m \in Messages
  PROVE  /\ Append(q, m) \in Seq(Messages) /\ Len(Append(q, m)) = Len(q) + 1
         /\ Plain(q) /\ m.kind # "ask" => Plain(Append(q, m))
         /\ Plain(q) /\ m.kind = "ask" => Carries(Append(q, m))
         /\ Clean(q) /\ m.kind # "cpr" => Clean(Append(q, m))
         /\ One(q) /\ m.kind # "cpr" => One(Append(q, m))
         /\ Clean(q) => One(Append(q, m))
  <1> DEFINE a == Append(q, m)
  <1>1. /\ a \in Seq(Messages) /\ Len(a) = Len(q) + 1 /\ a[Len(q) + 1] = m
        /\ \A i \in 1 .. Len(q) : a[i] = q[i]
        /\ DOMAIN q = 1 .. Len(q) /\ DOMAIN a = 1 .. Len(q) + 1 /\ Len(q) \in Nat
    OBVIOUS
  <1> HIDE DEF a
  <1>2. Plain(q) /\ m.kind # "ask" => Plain(a) BY <1>1 DEF Plain
  <1>3. Plain(q) /\ m.kind = "ask" => Carries(a) BY <1>1 DEF Plain, Carries
  <1>4. Clean(q) /\ m.kind # "cpr" => Clean(a) BY <1>1 DEF Clean
  <1>5. One(q) /\ m.kind # "cpr" => One(a) BY <1>1 DEF One
  <1>6. Clean(q) => One(a) BY <1>1 DEF Clean, One
  <1> QED BY <1>1, <1>2, <1>3, <1>4, <1>5, <1>6 DEF a

LEMMA CatOf ==
  ASSUME NEW q \in Seq(Messages), NEW r \in Seq(Messages)
  PROVE  /\ q \o r \in Seq(Messages) /\ Len(q \o r) = Len(q) + Len(r)
         /\ Plain(q) /\ Plain(r) => Plain(q \o r)
         /\ Plain(q) /\ Carries(r) => Carries(q \o r)
         /\ Clean(q) /\ Clean(r) => Clean(q \o r)
         /\ One(q) /\ Clean(r) => One(q \o r)
         /\ Clean(q) /\ One(r) => One(q \o r)
  <1> DEFINE a == q \o r
  <1>1. /\ a \in Seq(Messages) /\ Len(a) = Len(q) + Len(r)
        /\ \A i \in 1 .. Len(a) : a[i] = IF i <= Len(q) THEN q[i] ELSE r[i - Len(q)]
        /\ DOMAIN q = 1 .. Len(q) /\ DOMAIN a = 1 .. Len(a) /\ DOMAIN r = 1 .. Len(r)
        /\ Len(q) \in Nat /\ Len(r) \in Nat
    OBVIOUS
  <1> HIDE DEF a
  <1>7. \A i \in DOMAIN a : \/ i \in DOMAIN q /\ a[i] = q[i]
                            \/ i - Len(q) \in DOMAIN r /\ a[i] = r[i - Len(q)] /\ i > Len(q)
    BY <1>1
  <1>2. Plain(q) /\ Plain(r) => Plain(a) BY ONLY <1>7 DEF Plain
  <1>3. Plain(q) /\ Carries(r) => Carries(a)
    <2> SUFFICES ASSUME Plain(q), Carries(r) PROVE Carries(a) OBVIOUS
    <2>1. Len(r) >= 1 /\ a # <<>> BY <1>1 DEF Carries
    <2>2. a[Len(a)] = r[Len(r)] BY <1>1, <2>1
    <2>3. ASSUME NEW i \in 1 .. Len(a), a[i].kind = "ask" PROVE i = Len(a)
      <3>1. i > Len(q) BY <1>1, <2>3 DEF Plain
      <3>2. r[i - Len(q)].kind = "ask" /\ i - Len(q) \in 1 .. Len(r) BY <1>1, <2>3, <3>1
      <3>3. i - Len(q) = Len(r) BY <1>1, <3>2 DEF Carries
      <3> QED BY <1>1, <3>3
    <2> QED BY <1>1, <2>1, <2>2, <2>3 DEF Carries
  <1>4. Clean(q) /\ Clean(r) => Clean(a) BY ONLY <1>7 DEF Clean
  <1>5. One(q) /\ Clean(r) => One(a) BY ONLY <1>7 DEF One, Clean
  <1>6. Clean(q) /\ One(r) => One(a)
    <2> SUFFICES ASSUME Clean(q), One(r), NEW i \in 1 .. Len(a), NEW j \in 1 .. Len(a),
                        a[i].kind = "cpr", a[j].kind = "cpr"
                 PROVE  i = j
      BY <1>1 DEF One
    <2>1. i > Len(q) /\ j > Len(q) BY <1>1 DEF Clean
    <2>2. /\ i - Len(q) \in 1 .. Len(r) /\ r[i - Len(q)].kind = "cpr"
          /\ j - Len(q) \in 1 .. Len(r) /\ r[j - Len(q)].kind = "cpr"
      BY <1>1, <2>1
    <2>3. i - Len(q) = j - Len(q) BY <1>1, <2>2 DEF One
    <2> QED BY <1>1, <2>3
  <1> QED BY <1>1, <1>2, <1>3, <1>4, <1>5, <1>6 DEF a

LEMMA SplitOf ==
  ASSUME NEW q \in Seq(Messages), NEW n \in 0 .. Len(q)
  PROVE  LET a == SubSeq(q, 1, n)
             b == SubSeq(q, n + 1, Len(q))
         IN
         /\ a \in Seq(Messages) /\ b \in Seq(Messages) /\ Len(a) = n /\ Len(b) = Len(q) - n
         /\ n = Len(q) => a = q /\ b = <<>>
         /\ Plain(q) => Plain(a) /\ Plain(b)
         /\ Clean(q) => Clean(a) /\ Clean(b)
         /\ One(q) => One(a) /\ One(b) /\ (Clean(a) \/ Clean(b))
         /\ Carries(q) /\ n < Len(q) => Plain(a) /\ Carries(b) /\ b # <<>>
  <1> DEFINE a == SubSeq(q, 1, n)
             b == SubSeq(q, n + 1, Len(q))
  <1>1. /\ a \in Seq(Messages) /\ Len(a) = n /\ DOMAIN a = 1 .. n
        /\ \A i \in 1 .. n : a[i] = q[i]
    OBVIOUS
  <1>2. /\ b \in Seq(Messages) /\ Len(b) = Len(q) - n /\ DOMAIN b = 1 .. Len(q) - n
        /\ \A i \in 1 .. Len(q) - n : b[i] = q[n + i]
    OBVIOUS
  <1>3. Len(q) \in Nat /\ DOMAIN q = 1 .. Len(q) /\ n \in Nat /\ n <= Len(q) OBVIOUS
  <1> HIDE DEF a, b
  <1>4. n = Len(q) => a = q /\ b = <<>> BY <1>1, <1>2, <1>3
  <1>9. /\ \A i \in DOMAIN a : i \in DOMAIN q /\ a[i] = q[i] /\ i \in Int /\ i <= n
        /\ \A i \in DOMAIN b : n + i \in DOMAIN q /\ b[i] = q[n + i] /\ i \in Int /\ i > 0
        /\ n \in Int
    <2>1. \A i \in 1 .. n : i \in 1 .. Len(q) /\ i \in Int /\ i <= n BY ONLY <1>3
    <2>2. \A i \in 1 .. Len(q) - n : n + i \in 1 .. Len(q) /\ i \in Int /\ i > 0 BY ONLY <1>3
    <2> QED BY ONLY <1>1, <1>2, <1>3, <2>1, <2>2
  <1>5. Plain(q) => Plain(a) /\ Plain(b) BY ONLY <1>9 DEF Plain
  <1>6. Clean(q) => Clean(a) /\ Clean(b) BY ONLY <1>9 DEF Clean
  <1>7. One(q) => One(a) /\ One(b) /\ (Clean(a) \/ Clean(b))
    <2> SUFFICES ASSUME One(q) PROVE One(a) /\ One(b) /\ (Clean(a) \/ Clean(b)) OBVIOUS
    <2>1. One(a) BY ONLY One(q), <1>9 DEF One
    <2>2. One(b)
      <3>1. \A i, j \in DOMAIN b : b[i].kind = "cpr" /\ b[j].kind = "cpr" => n + i = n + j
        BY ONLY One(q), <1>9 DEF One
      <3> QED BY ONLY <1>9, <3>1 DEF One
    <2>3. ASSUME NEW i \in DOMAIN a, NEW j \in DOMAIN b, a[i].kind = "cpr", b[j].kind = "cpr"
          PROVE  FALSE
      <3>1. i = n + j BY ONLY One(q), <1>9, <2>3 DEF One
      <3> QED BY ONLY <1>9, <2>3, <3>1
    <2> QED BY ONLY <2>1, <2>2, <2>3 DEF Clean
  <1>8. Carries(q) /\ n < Len(q) => Plain(a) /\ Carries(b) /\ b # <<>>
    <2> SUFFICES ASSUME Carries(q), n < Len(q) PROVE Plain(a) /\ Carries(b) /\ b # <<>> OBVIOUS
    <2>1. Len(b) >= 1 /\ Len(b) = Len(q) - n /\ Len(b) \in DOMAIN b /\ Len(b) \in Int
      BY ONLY <1>2, <1>3, n < Len(q)
    <2>2. q[Len(q)].kind = "ask" /\ \A i \in DOMAIN q : q[i].kind = "ask" => i = Len(q)
      BY DEF Carries
    <2>3. Plain(a)
      <3>1. \A i \in DOMAIN a : i # Len(q) BY <1>3, <1>9
      <3> QED BY ONLY <1>9, <2>2, <3>1 DEF Plain
    <2>4. b[Len(b)].kind = "ask"
      <3>1. b[Len(b)] = q[n + Len(b)] BY ONLY <1>9, <2>1
      <3>2. n + Len(b) = Len(q) BY ONLY <1>3, <2>1
      <3> QED BY ONLY <2>2, <3>1, <3>2
    <2>5. \A i \in DOMAIN b : b[i].kind = "ask" => n + i = Len(q) BY ONLY <1>9, <2>2
    <2>6. b # <<>> BY ONLY <1>2, <2>1
    <2>7. \A i \in DOMAIN b : n + i = Len(q) => i = Len(b)
      BY ONLY <1>3, <1>9, <2>1
    <2> QED BY ONLY <2>3, <2>4, <2>5, <2>6, <2>7 DEF Carries
  <1> QED BY <1>1, <1>2, <1>4, <1>5, <1>6, <1>7, <1>8 DEF a, b

LEMMA EmptyOf == Plain(<<>>) /\ Clean(<<>>) /\ One(<<>>) /\ <<>> \in Seq(Messages) /\ Len(<<>>) = 0
  BY DEF Plain, Clean, One

LEMMA SingleOf ==
  ASSUME NEW m \in Messages
  PROVE  /\ <<m>> \in Seq(Messages) /\ Len(<<m>>) = 1 /\ One(<<m>>)
         /\ m.kind # "cpr" => Clean(<<m>>)
         /\ m.kind # "ask" => Plain(<<m>>)
         /\ m.kind = "ask" => Carries(<<m>>)
  BY DEF One, Clean, Plain, Carries

\* A group of data bytes and the question behind it.
LEMMA GroupOf ==
  ASSUME NEW n \in Nat, NEW k \in Nat, NEW g, g = Append([i \in 1 .. n |-> Data], Ask(k))
  PROVE  g \in Seq(Messages) /\ Len(g) = n + 1 /\ Carries(g)
  <1> DEFINE d == [i \in 1 .. n |-> Data]
  <1>1. d \in Seq(Messages) /\ Len(d) = n BY MessageKinds
  <1>2. Plain(d) BY DEF Plain, Data
  <1>3. Ask(k) \in Messages /\ Ask(k).kind = "ask" BY MessageKinds DEF Ask
  <1> HIDE DEF d
  <1>4. /\ Append(d, Ask(k)) \in Seq(Messages) /\ Len(Append(d, Ask(k))) = n + 1
        /\ Carries(Append(d, Ask(k)))
    BY <1>1, <1>2, <1>3, AppendOf
  <1> QED BY <1>4 DEF d

(***************************************************************************)
(* The inductive invariant.                                                *)
(***************************************************************************)
Asking == op \in Ops \ {"clear"} /\ step \in {"send", "chunk", "wait"}
NoReport == Clean(got) /\ Clean(back) /\ Clean(txq)
Empty == out = <<>> /\ pipe = <<>> /\ ring = <<>>

Types ==
  /\ op \in Ops \cup {"done", "failed"} /\ step \in {"begin", "send", "chunk", "wait"}
  /\ out \in Seq(Messages) /\ pipe \in Seq(Messages) /\ ring \in Seq(Messages)
  /\ txq \in Seq(Messages) /\ back \in Seq(Messages) /\ got \in Seq(Messages)
  /\ asked \in Nat /\ up \in BOOLEAN /\ conn \in BOOLEAN

\* what the calls leave behind them
Calls ==
  /\ step = "chunk" => out # <<>>
  /\ step \in {"begin", "wait"} => out = <<>>
  /\ step = "wait" => op # "clear"
  /\ step = "begin" /\ op \in {"ready", "clear", "window"} => pipe = <<>> /\ ring = <<>>
  /\ op = "clear" => Plain(out)
  /\ op = "clear" \/ (op = "sync" /\ step = "begin") => Len(pipe) + Len(ring) + Len(out) <= 1

\* the question, if one has been asked, is the last byte on its way
Behind ==
  /\ out # <<>> => Carries(out) /\ Plain(pipe) /\ Plain(ring)
  /\ out = <<>> /\ pipe # <<>> => Carries(pipe) /\ Plain(ring)
  /\ out = <<>> /\ pipe = <<>> /\ ring # <<>> => Carries(ring)

\* there is one question or one report
Single ==
  /\ Asking => Behind
  /\ ~Asking => Plain(pipe) /\ Plain(ring) /\ NoReport
  /\ Asking /\ (heard # {} \/ ~NoReport) => Empty
  /\ heard # {} => NoReport
  /\ One(got) /\ One(back) /\ One(txq)
  /\ Clean(got) \/ Clean(back)
  /\ Clean(got) \/ Clean(txq)
  /\ Clean(back) \/ Clean(txq)

Off == (~up => ring = <<>>) /\ (~conn => pipe = <<>> /\ ~up)
Fits == Len(pipe) + Len(ring) + Len(out) <= Window + 1

PInv == Types /\ Calls /\ Single /\ Off /\ Fits /\ ~lost

LEMMA Sizes == Window \in Nat \ {0} /\ Chunk \in Nat \ {0} /\ RingCap \in Nat \ {0}
  BY SizeAssumption

LEMMA PInvInit == Init => PInv
  <1> SUFFICES ASSUME Init PROVE PInv OBVIOUS
  <1>1. /\ op = "ready" /\ step = "begin" /\ asked = 0 /\ heard = {}
        /\ out = <<>> /\ pipe = <<>> /\ ring = <<>> /\ txq = <<>> /\ back = <<>> /\ got = <<>>
        /\ up = FALSE /\ conn = TRUE /\ lost = FALSE
    BY DEF Init
  <1>2. Types BY <1>1, EmptyOf DEF Types, Ops
  <1>3. Calls BY <1>1 DEF Calls
  <1>4. ~Asking BY <1>1 DEF Asking
  <1>5. Single BY <1>1, <1>4, EmptyOf DEF Single, NoReport
  <1>6. Off /\ Fits /\ ~lost BY <1>1, EmptyOf, Sizes DEF Off, Fits
  <1> QED BY <1>2, <1>3, <1>5, <1>6 DEF PInv

(***************************************************************************)
(* The sender.                                                             *)
(***************************************************************************)
LEMMA BeginKeeps == PInv /\ Begin => PInv'
  <1> SUFFICES ASSUME PInv, Begin PROVE PInv' OBVIOUS
  <1>0. /\ Types /\ Calls /\ Single /\ Off /\ Fits /\ ~lost BY DEF PInv
  <1>1. /\ op \in Ops /\ step = "begin" /\ op' = op /\ step' = "send" /\ ~Asking /\ out = <<>>
        /\ UNCHANGED <<pipe, ring, txq, back, got, up, conn, lost>>
    BY <1>0 DEF Begin, At, Asking, Calls, reader, socket, terminal
  <1>2. Plain(pipe) /\ Plain(ring) /\ NoReport /\ NoReport' BY <1>0, <1>1 DEF Single, NoReport
  <1>3. Off' /\ ~lost' BY <1>0, <1>1 DEF Off
  <1>4. CASE op = "clear"
    <2>1. out' = <<Data>> /\ asked' = asked /\ heard' = heard /\ ~Asking'
      BY <1>1, <1>4 DEF Begin, Asking
    <2>2. out' \in Seq(Messages) /\ Len(out') = 1 /\ Plain(out')
      BY <2>1, MessageKinds, SingleOf DEF Data
    <2>3. pipe = <<>> /\ ring = <<>> BY <1>0, <1>1, <1>4 DEF Calls
    <2>4. Types' BY <1>0, <1>1, <2>1, <2>2 DEF Types
    <2>5. Calls' BY <1>1, <1>4, <2>2, <2>3, EmptyOf DEF Calls
    <2>6. Single' BY <1>0, <1>1, <1>2, <2>1 DEF Single, NoReport
    <2>7. Fits' BY <1>1, <2>2, <2>3, EmptyOf, Sizes DEF Fits
    <2> QED BY <1>3, <2>4, <2>5, <2>6, <2>7 DEF PInv
  <1>5. CASE op # "clear"
    <2>1. PICK n \in (IF op = "window" THEN Groups ELSE {0}) :
            out' = Append([i \in 1 .. n |-> Data], Ask(asked + 1))
      BY <1>1, <1>5 DEF Begin
    <2>2. asked' = asked + 1 /\ heard' = {} BY <1>1, <1>5 DEF Begin, ClearBuf
    <2>3. n \in Nat /\ n <= Window /\ (op # "window" => n = 0) BY Sizes DEF Groups
    <2>4. out' \in Seq(Messages) /\ Len(out') = n + 1 /\ Carries(out')
      <3>1. asked + 1 \in Nat BY <1>0 DEF Types
      <3> QED BY ONLY <2>1, <2>3, <3>1, GroupOf
    <2>5. Types' BY <1>0, <1>1, <2>2, <2>4 DEF Types
    <2>6. Calls' BY <1>1, <1>5 DEF Calls
    <2>7. Asking' /\ Behind'
      BY <1>1, <1>2, <1>5, <2>4 DEF Asking, Behind, Carries
    <2>8. Single' BY <1>0, <1>1, <1>2, <2>2, <2>7 DEF Single, NoReport
    <2>9. Fits'
      <3>1. CASE op = "sync"
        <4>1. Len(pipe) + Len(ring) <= 1 BY <1>0, <1>1, <3>1, EmptyOf DEF Calls, Types
        <4> QED BY <1>0, <1>1, <2>3, <2>4, <3>1, <4>1, Sizes DEF Fits, Types
      <3>2. CASE op # "sync"
        <4>1. pipe = <<>> /\ ring = <<>> BY <1>0, <1>1, <1>5, <3>2 DEF Calls, Ops
        <4> QED BY <1>1, <2>3, <2>4, <4>1, EmptyOf, Sizes DEF Fits
      <3> QED BY <3>1, <3>2
    <2> QED BY <1>3, <2>5, <2>6, <2>8, <2>9 DEF PInv
  <1> QED BY <1>4, <1>5

LEMMA SendKeeps == PInv /\ (TestPause \/ WriteChunk \/ SendFails \/ SendDone) => PInv'
  <1> SUFFICES ASSUME PInv, TestPause \/ WriteChunk \/ SendFails \/ SendDone PROVE PInv' OBVIOUS
  <1>0. /\ Types /\ Calls /\ Single /\ Off /\ Fits /\ ~lost BY DEF PInv
  <1>1. CASE TestPause
    <2>1. /\ op \in Ops /\ step = "send" /\ step' = "chunk" /\ out # <<>>
          /\ UNCHANGED <<op, out, asked, heard, got, back, pipe, ring, txq, up, conn, lost>>
      BY <1>1 DEF TestPause, At, shared, reader, socket, terminal
    <2>2. Asking' = Asking BY <2>1 DEF Asking
    <2>3. Types' /\ Off' /\ Fits' /\ ~lost' BY <1>0, <2>1 DEF Types, Off, Fits
    <2>4. Calls' BY <1>0, <2>1 DEF Calls
    <2>5. Single' BY <1>0, <2>1, <2>2 DEF Single, Behind, NoReport, Empty
    <2> QED BY <2>3, <2>4, <2>5 DEF PInv
  <1>2. CASE WriteChunk
    <2> DEFINE n == IF Len(out) < Chunk THEN Len(out) ELSE Chunk
               now == SubSeq(out, 1, n)
               left == SubSeq(out, n + 1, Len(out))
    <2>1. /\ op \in Ops /\ step = "chunk" /\ step' = "send" /\ out # <<>>
          /\ pipe' = IF conn THEN pipe \o now ELSE pipe
          /\ out' = left
          /\ UNCHANGED <<op, asked, heard, got, back, ring, txq, up, conn, lost>>
      BY <1>0, <1>2 DEF WriteChunk, At, Calls, shared, reader, terminal
    <2>2. n \in 0 .. Len(out) /\ out \in Seq(Messages) /\ pipe \in Seq(Messages)
      BY <1>0, Sizes DEF Types
    <2> HIDE DEF n
    <2> HIDE DEF now, left
    <2>3. /\ now \in Seq(Messages) /\ out' \in Seq(Messages)
          /\ Len(now) = n /\ Len(out') = Len(out) - n
          /\ n = Len(out) => now = out /\ out' = <<>>
          /\ Plain(out) => Plain(now) /\ Plain(out')
          /\ Carries(out) /\ n < Len(out) => Plain(now) /\ Carries(out') /\ out' # <<>>
      <3>1. /\ now \in Seq(Messages) /\ left \in Seq(Messages)
            /\ Len(now) = n /\ Len(left) = Len(out) - n
            /\ n = Len(out) => now = out /\ left = <<>>
            /\ Plain(out) => Plain(now) /\ Plain(left)
            /\ Carries(out) /\ n < Len(out) => Plain(now) /\ Carries(left) /\ left # <<>>
        BY <2>2, SplitOf DEF now, left
      <3> QED BY <2>1, <3>1
    <2>4. /\ pipe \o now \in Seq(Messages) /\ Len(pipe \o now) = Len(pipe) + n
          /\ Plain(pipe) /\ Plain(now) => Plain(pipe \o now)
          /\ Plain(pipe) /\ Carries(now) => Carries(pipe \o now)
      BY <2>2, <2>3, CatOf
    <2>5. Asking' = Asking BY <2>1 DEF Asking
    <2>6. Types' BY <1>0, <2>1, <2>3, <2>4 DEF Types
    <2>7. Len(pipe') + Len(ring') + Len(out') <= Len(pipe) + Len(ring) + Len(out)
      <3>1. /\ Len(out) \in Nat /\ Len(ring) \in Nat /\ Len(pipe) \in Nat /\ n \in Nat
            /\ n <= Len(out) /\ ring' = ring /\ Len(out') = Len(out) - n
        BY <1>0, <2>1, <2>2, <2>3 DEF Types
      <3>2. Len(pipe') = Len(pipe) + n \/ Len(pipe') = Len(pipe) BY <2>1, <2>4
      <3> QED BY ONLY <3>1, <3>2
    <2>8. Fits' BY <1>0, <2>6, <2>7, Sizes DEF Fits, Types
    <2>9. Calls'
      <3>1. op = "clear" => Len(pipe') + Len(ring') + Len(out') <= 1
        BY <1>0, <2>6, <2>7 DEF Calls, Types
      <3>2. op = "clear" => Plain(out') BY <1>0, <2>3 DEF Calls
      <3> QED BY <2>1, <3>1, <3>2 DEF Calls
    <2>10. Off' /\ ~lost' BY <1>0, <2>1 DEF Off
    <2>11. ASSUME Asking PROVE Single'
      <3>1. heard = {} /\ NoReport BY <1>0, <2>1, <2>11 DEF Single, Empty
      <3>2. Carries(out) /\ Plain(pipe) /\ Plain(ring) BY <1>0, <2>1, <2>11 DEF Single, Behind
      <3>3. Behind'
        <4>1. CASE n < Len(out)
          <5>1. Carries(out') /\ Plain(now) /\ out' # <<>> BY <2>3, <3>2, <4>1
          <5>2. Plain(pipe') BY <2>1, <2>4, <3>2, <5>1
          <5> QED BY <2>1, <3>2, <5>1, <5>2 DEF Behind
        <4>2. CASE n = Len(out)
          <5>1. out' = <<>> /\ now = out BY <2>3, <4>2
          <5>2. CASE conn
            <6>1. Carries(pipe') BY <2>1, <2>4, <3>2, <5>1, <5>2
            <6> QED BY <2>1, <3>2, <5>1, <6>1 DEF Behind, Carries
          <5>3. CASE ~conn
            <6>1. pipe = <<>> /\ ring = <<>> BY <1>0, <5>3 DEF Off
            <6> QED BY <2>1, <5>1, <5>3, <6>1 DEF Behind
          <5> QED BY <1>0, <5>2, <5>3 DEF Types
        <4> QED BY <2>2, <4>1, <4>2
      <3> QED BY <1>0, <2>1, <2>5, <2>11, <3>1, <3>3 DEF Single, NoReport
    <2>12. ASSUME ~Asking PROVE Single'
      <3>1. op = "clear" BY <2>1, <2>12 DEF Asking
      <3>2. Plain(pipe) /\ Plain(ring) /\ Plain(out) BY <1>0, <2>12, <3>1 DEF Single, Calls
      <3>3. Plain(pipe') BY <2>1, <2>3, <2>4, <3>2
      <3> QED BY <1>0, <2>1, <2>5, <2>12, <3>2, <3>3 DEF Single, NoReport
    <2>13. Single' BY <2>11, <2>12
    <2> QED BY <2>6, <2>8, <2>9, <2>10, <2>13 DEF PInv
  <1>3. CASE SendFails
    <2>1. /\ op \in Ops /\ op' = "failed" /\ step \in {"send", "chunk"} /\ out # <<>>
          /\ UNCHANGED <<step, out, asked, heard, got, back, pipe, ring, txq, up, conn, lost>>
      BY <1>0, <1>3 DEF SendFails, At, Calls, shared, reader, socket, terminal
    <2>2. ~Asking' BY <2>1 DEF Asking, Ops
    <2>3. Plain(pipe) /\ Plain(ring) /\ NoReport BY <1>0, <2>1 DEF Single, Behind, Empty
    <2>4. Types' /\ Off' /\ Fits' /\ ~lost' BY <1>0, <2>1 DEF Types, Off, Fits
    <2>5. Calls' BY <1>0, <2>1 DEF Calls
    <2>6. Single' BY <1>0, <2>1, <2>2, <2>3 DEF Single, NoReport
    <2> QED BY <2>4, <2>5, <2>6 DEF PInv
  <1>4. CASE SendDone
    <2>1. /\ op \in Ops /\ step = "send" /\ out = <<>>
          /\ IF op = "clear" THEN op' = "sync" /\ step' = "begin" ELSE op' = op /\ step' = "wait"
          /\ UNCHANGED <<out, asked, heard, got, back, pipe, ring, txq, up, conn, lost>>
      BY <1>4 DEF SendDone, At, Enter, shared, reader, socket, terminal
    <2>2. Asking' = Asking BY <2>1 DEF Asking, Ops
    <2>3. Types' BY <1>0, <2>1 DEF Types, Ops
    <2>4. Off' /\ Fits' /\ ~lost' BY <1>0, <2>1 DEF Off, Fits
    <2>5. Calls' BY <1>0, <2>1 DEF Calls
    <2>6. Single' BY <1>0, <2>1, <2>2 DEF Single, Behind, NoReport, Empty
    <2> QED BY <2>3, <2>4, <2>5, <2>6 DEF PInv
  <1> QED BY <1>1, <1>2, <1>3, <1>4

\* A report ends a wait: nothing is left of what was sent.
LEMMA AckedEmpty == PInv /\ Acked => Asking /\ Empty /\ NoReport
  BY DEF Acked, At, Asking, PInv, Calls, Single

\* Nor is there when a wait gives up that no answer is coming to.
LEMMA TimeOutEmpty == Patient /\ PInv /\ TimeOut => Asking /\ Empty /\ NoReport
  <1> SUFFICES ASSUME Patient, PInv, TimeOut PROVE Asking /\ Empty /\ NoReport OBVIOUS
  <1>0. Types /\ Calls /\ Single BY DEF PInv
  <1>1. op \in Ops /\ step = "wait" /\ ~AnswerComing BY DEF TimeOut, At, Patient
  <1>2. Asking /\ out = <<>> BY <1>0, <1>1 DEF Calls, Asking
  <1>3. ~Pending(pipe) /\ ~Pending(ring) /\ ~Pending(txq) /\ ~Pending(back) /\ ~Pending(got)
    BY <1>1 DEF AnswerComing
  <1>4. NoReport BY <1>3 DEF Pending, NoReport, Clean
  <1>5. ~Carries(pipe)
    <2>1. Carries(pipe) => Len(pipe) \in DOMAIN pipe BY <1>0 DEF Carries, Types
    <2> QED BY <1>3, <2>1 DEF Carries, Pending
  <1>6. ~Carries(ring)
    <2>1. Carries(ring) => Len(ring) \in DOMAIN ring BY <1>0 DEF Carries, Types
    <2> QED BY <1>3, <2>1 DEF Carries, Pending
  <1>7. Empty BY <1>0, <1>2, <1>5, <1>6 DEF Single, Behind, Empty
  <1> QED BY <1>2, <1>4, <1>7

LEMMA WaitKeeps == Patient /\ PInv /\ (Acked \/ TimeOut) => PInv'
  <1> SUFFICES ASSUME Patient, PInv, Acked \/ TimeOut PROVE PInv' OBVIOUS
  <1>0. /\ Types /\ Calls /\ Single /\ Off /\ Fits /\ ~lost BY DEF PInv
  <1>1. Asking /\ Empty /\ NoReport BY AckedEmpty, TimeOutEmpty
  <1>2. UNCHANGED <<out, asked, got, back, pipe, ring, txq, up, conn, lost>>
    BY DEF Acked, TimeOut, shared, reader, socket, terminal
  <1>3. heard' = heard \/ heard' = {} BY DEF Acked, TimeOut, ClearBuf, shared
  <1>4. /\ op' \in Ops \cup {"done", "failed"} /\ step' \in {"begin", "wait"}
        /\ op' \in Ops => step' = "begin"
    BY DEF Acked, TimeOut, At, AfterTrial, Enter, Ops
  <1>5. Empty' /\ NoReport' BY <1>1, <1>2 DEF Empty, NoReport
  <1>6. ~Asking' BY <1>4 DEF Asking
  <1>7. Types' BY <1>0, <1>2, <1>4 DEF Types
  <1>8. Calls' BY <1>4, <1>5, EmptyOf DEF Calls, Empty, Ops
  <1>9. Single' BY <1>0, <1>2, <1>5, <1>6, EmptyOf DEF Single, Empty
  <1>10. Off' /\ Fits' /\ ~lost' BY <1>0, <1>2 DEF Off, Fits
  <1> QED BY <1>7, <1>8, <1>9, <1>10 DEF PInv

(***************************************************************************)
(* The reader thread.                                                      *)
(***************************************************************************)
LEMMA ReaderKeeps == PInv /\ Reader => PInv'
  <1> SUFFICES ASSUME PInv, Reader PROVE PInv' OBVIOUS
  <1>0. /\ Types /\ Calls /\ Single /\ Off /\ Fits /\ ~lost BY DEF PInv
  <1>1. /\ UNCHANGED <<op, step, out, asked, pipe, ring, txq, up, conn, lost>>
        /\ Asking' = Asking /\ Behind' = Behind /\ Empty' = Empty
    BY DEF Reader, Recv, Scan, Extend, Eof, sender, socket, terminal, Asking, Behind, Empty
  <1>2. Calls' /\ Off' /\ Fits' /\ ~lost' BY <1>0, <1>1 DEF Calls, Off, Fits
  <1>3. CASE Recv
    <2>1. got = <<>> /\ heard' = heard BY <1>3 DEF Recv, shared
    <2>2. PICK n \in 1 .. Len(back) :
            got' = SubSeq(back, 1, n) /\ back' = SubSeq(back, n + 1, Len(back))
      BY <1>3 DEF Recv
    <2>3. n \in 0 .. Len(back) /\ back \in Seq(Messages) BY <1>0 DEF Types
    <2>4. /\ got' \in Seq(Messages) /\ back' \in Seq(Messages)
          /\ Clean(back) => Clean(got') /\ Clean(back')
          /\ One(back) => One(got') /\ One(back') /\ (Clean(got') \/ Clean(back'))
      BY <2>2, <2>3, SplitOf
    <2>5. Types' BY <1>0, <1>1, <2>4 DEF Types
    <2>6. NoReport => NoReport' BY <1>1, <2>4 DEF NoReport
    <2>7. Single' BY <1>0, <1>1, <2>1, <2>4, <2>6 DEF Single, NoReport
    <2> QED BY <1>2, <2>5, <2>7 DEF PInv
  <1>4. CASE Scan \/ Eof
    <2>1. UNCHANGED <<got, back, heard>> BY <1>4 DEF Scan, Eof, shared, socket
    <2>2. Types' BY <1>0, <1>1, <2>1 DEF Types
    <2>3. Single' BY <1>0, <1>1, <2>1 DEF Single, NoReport
    <2> QED BY <1>2, <2>2, <2>3 DEF PInv
  <1>5. CASE Extend
    <2>1. heard' = heard \cup Reports(got) /\ got' = <<>> /\ back' = back
      BY <1>5 DEF Extend, socket
    <2>2. Clean(got) => heard' = heard BY <2>1 DEF Clean, Reports, Range
    <2>3. NoReport => NoReport' BY <1>1, <2>1, EmptyOf DEF NoReport
    <2>4. ~Clean(got) => NoReport' /\ ~NoReport
      BY <1>0, <1>1, <2>1, EmptyOf DEF NoReport, Single
    <2>5. Types' BY <1>0, <1>1, <2>1, EmptyOf DEF Types
    <2>6. Asking' /\ (heard' # {} \/ ~NoReport') => Empty'
      BY <1>0, <1>1, <2>2, <2>3, <2>4 DEF Single
    <2>7. heard' # {} => NoReport' BY <1>0, <2>2, <2>3, <2>4 DEF Single
    <2>8. ~Asking' => Plain(pipe') /\ Plain(ring') /\ NoReport' BY <1>0, <1>1, <2>3 DEF Single
    <2>9. Single' BY <1>0, <1>1, <2>1, <2>6, <2>7, <2>8, EmptyOf DEF Single
    <2> QED BY <1>2, <2>5, <2>9 DEF PInv
  <1> QED BY <1>3, <1>4, <1>5 DEF Reader

(***************************************************************************)
(* The terminal.                                                           *)
(***************************************************************************)
LEMMA DeliverKeeps == Patient /\ PInv /\ Deliver => PInv'
  <1> SUFFICES ASSUME Patient, PInv, Deliver PROVE PInv' OBVIOUS
  <1>0. /\ Types /\ Calls /\ Single /\ Off /\ Fits /\ ~lost BY DEF PInv
  <1> DEFINE h == Head(pipe)
  <1>1. /\ pipe # <<>> /\ pipe' = Tail(pipe)
        /\ UNCHANGED <<op, step, out, asked, heard, got, back, up, conn>>
        /\ Asking' = Asking
    BY DEF Deliver, sender, reader, shared, Asking
  <1>2. /\ Tail(pipe) \in Seq(Messages) /\ Len(Tail(pipe)) = Len(pipe) - 1 /\ Len(pipe) >= 1
        /\ h \in Messages
        /\ Plain(pipe) => Plain(Tail(pipe)) /\ h.kind # "ask"
        /\ Carries(pipe) /\ Tail(pipe) # <<>> => Carries(Tail(pipe)) /\ h.kind # "ask"
        /\ Carries(pipe) /\ Tail(pipe) = <<>> => h.kind = "ask"
    BY <1>0, <1>1, TailOf DEF Types
  <1>3. Asking => NoReport /\ heard = {} BY <1>0, <1>1 DEF Single, Empty
  <1>4. NoReport /\ (~Asking => Plain(pipe) /\ Plain(ring)) BY <1>0, <1>3 DEF Single
  <1>5. conn BY <1>0, <1>1 DEF Off
  <1>6. CASE ~up
    <2>1. ring = <<>> /\ ring' = ring /\ txq' = txq /\ lost' = lost BY <1>0, <1>6 DEF Off, Deliver
    <2>2. Types' BY <1>0, <1>1, <1>2, <2>1 DEF Types
    <2>3. Len(pipe') + Len(ring') + Len(out') <= Len(pipe) + Len(ring) + Len(out)
      BY <1>0, <1>1, <1>2, <2>1 DEF Types
    <2>4. Calls' /\ Fits'
      <3>1. Fits' BY <1>0, <2>2, <2>3, Sizes DEF Fits, Types
      <3>2. op' = "clear" \/ (op' = "sync" /\ step' = "begin") => Len(pipe') + Len(ring') + Len(out') <= 1
        BY <1>0, <1>1, <2>2, <2>3 DEF Calls, Types
      <3> QED BY <1>0, <1>1, <2>1, <3>1, <3>2 DEF Calls
    <2>5. Behind => Behind' BY <1>1, <1>2, <2>1 DEF Behind
    <2>6. NoReport' BY <1>1, <1>4, <2>1 DEF NoReport
    <2>7. Single' BY <1>0, <1>1, <1>2, <1>3, <1>4, <2>1, <2>5, <2>6 DEF Single
    <2>8. Off' /\ ~lost' BY <1>0, <1>1, <1>5, <1>6, <2>1 DEF Off
    <2> QED BY <2>2, <2>4, <2>7, <2>8 DEF PInv
  <1>7. CASE up
    <2>1. Len(ring) < RingCap
      <3>1. /\ Len(pipe) + Len(ring) + Len(out) <= Window + 1 /\ Window + 1 <= RingCap
            /\ Len(out) \in Nat /\ Len(pipe) \in Nat /\ Len(ring) \in Nat
            /\ Window \in Nat /\ RingCap \in Nat
        BY <1>0, Sizes DEF Fits, Patient, Types
      <3> QED BY ONLY <1>2, <3>1
    <2>2. ring' = Append(ring, h) /\ ~lost'
      <3>1. ring' = Append(ring, h) BY <1>7, <2>1 DEF Deliver
      <3>2. Len(ring) # RingCap BY <1>0, <2>1, Sizes DEF Types
      <3>3. lost' = (lost \/ Len(ring) = RingCap) BY <1>7, Zenon DEF Deliver
      <3> QED BY <1>0, <3>1, <3>2, <3>3
    <2>3. txq' = <<XOFF>> \o txq \/ txq' = txq BY <1>7 DEF Deliver
    <2> HIDE DEF h
    <2>4. /\ ring' \in Seq(Messages) /\ Len(ring') = Len(ring) + 1
          /\ Plain(ring) /\ h.kind # "ask" => Plain(ring')
          /\ Plain(ring) /\ h.kind = "ask" => Carries(ring')
      BY <1>0, <1>2, <2>2, AppendOf DEF Types
    <2>5. txq' \in Seq(Messages) /\ Clean(txq') /\ One(txq')
      <3>1. <<XOFF>> \in Seq(Messages) /\ Clean(<<XOFF>>) BY MessageKinds, SingleOf DEF XOFF
      <3>2. txq \in Seq(Messages) /\ Clean(txq) /\ One(txq) BY <1>0, <1>4 DEF Types, NoReport, Single
      <3> QED BY <2>3, <3>1, <3>2, CatOf
    <2>6. Types' BY <1>0, <1>1, <1>2, <2>4, <2>5 DEF Types
    <2>7. Len(pipe') + Len(ring') + Len(out') = Len(pipe) + Len(ring) + Len(out)
      BY <1>0, <1>1, <1>2, <2>4 DEF Types
    <2>8. Fits' BY <1>0, <2>7 DEF Fits
    <2>9. Calls' BY <1>0, <1>1, <2>7 DEF Calls
    <2>10. Behind => Behind'
      <3> SUFFICES ASSUME Behind PROVE Behind' OBVIOUS
      <3>1. CASE out # <<>>
        <4>1. Plain(pipe') /\ Plain(ring') /\ Carries(out) BY <1>1, <1>2, <2>4, <3>1 DEF Behind
        <4> QED BY <1>1, <3>1, <4>1 DEF Behind
      <3>2. CASE out = <<>> /\ pipe' # <<>>
        <4>1. Carries(pipe') /\ Plain(ring') BY <1>1, <1>2, <2>4, <3>2 DEF Behind
        <4> QED BY <1>1, <3>2, <4>1 DEF Behind
      <3>3. CASE out = <<>> /\ pipe' = <<>>
        <4>1. Carries(ring') BY <1>1, <1>2, <2>4, <3>3 DEF Behind
        <4> QED BY <1>1, <3>3, <4>1 DEF Behind
      <3> QED BY <3>1, <3>2, <3>3
    <2>11. NoReport' BY <1>1, <1>4, <2>5 DEF NoReport
    <2>12. ~Asking => Plain(pipe') /\ Plain(ring') BY <1>1, <1>2, <1>4, <2>4
    <2>13. Single' BY <1>0, <1>1, <1>3, <2>5, <2>10, <2>11, <2>12 DEF Single
    <2>14. Off' /\ ~lost' BY <1>1, <1>5, <1>7, <2>2 DEF Off
    <2> QED BY <2>6, <2>8, <2>9, <2>13, <2>14 DEF PInv
  <1> QED BY <1>6, <1>7

LEMMA ProcessKeeps == PInv /\ Process => PInv'
  <1> SUFFICES ASSUME PInv, Process PROVE PInv' OBVIOUS
  <1>0. /\ Types /\ Calls /\ Single /\ Off /\ Fits /\ ~lost BY DEF PInv
  <1> DEFINE h == Head(ring)
             release == xoff_sent /\ Len(ring) - 1 <= RingLow
             x == IF release THEN <<XON>> ELSE <<>>
             a == IF h.kind = "ask" THEN <<Cpr(h.id)>> ELSE <<>>
  <1>1. /\ ring # <<>> /\ ring' = Tail(ring) /\ txq' = txq \o x \o a
        /\ UNCHANGED <<op, step, out, asked, heard, got, back, pipe, up, conn, lost>>
        /\ Asking' = Asking
    BY DEF Process, sender, reader, shared, socket, Asking
  <1>2. /\ Tail(ring) \in Seq(Messages) /\ Len(Tail(ring)) = Len(ring) - 1 /\ Len(ring) >= 1
        /\ h \in Messages
        /\ Plain(ring) => Plain(Tail(ring)) /\ h.kind # "ask"
        /\ Carries(ring) /\ Tail(ring) # <<>> => Carries(Tail(ring)) /\ h.kind # "ask"
    BY <1>0, <1>1, TailOf DEF Types
  <1>3. Asking => NoReport /\ heard = {} BY <1>0, <1>1 DEF Single, Empty
  <1>4. NoReport /\ (~Asking => Plain(pipe) /\ Plain(ring)) BY <1>0, <1>3 DEF Single
  <1>5. x \in Seq(Messages) /\ Clean(x) BY MessageKinds, SingleOf, EmptyOf DEF XON
  <1>6. a \in Seq(Messages) /\ One(a) /\ (h.kind # "ask" => Clean(a))
    <2>1. Cpr(h.id) \in Messages BY <1>2, MessageKinds DEF Messages
    <2> QED BY <2>1, SingleOf, EmptyOf
  <1> HIDE DEF x, a, h, release
  <1>7. txq \in Seq(Messages) /\ Clean(txq) BY <1>0, <1>4 DEF Types, NoReport
  <1>8. txq \o x \in Seq(Messages) /\ Clean(txq \o x) BY <1>5, <1>7, CatOf
  <1>9. txq' \in Seq(Messages) /\ One(txq') /\ (h.kind # "ask" => Clean(txq'))
    BY <1>1, <1>6, <1>8, CatOf
  <1>10. Types' BY <1>0, <1>1, <1>2, <1>9 DEF Types
  <1>11. Len(pipe') + Len(ring') + Len(out') <= Len(pipe) + Len(ring) + Len(out)
    BY <1>0, <1>1, <1>2 DEF Types
  <1>12. Fits' BY <1>0, <1>10, <1>11, Sizes DEF Fits, Types
  <1>13. Calls'
    <2>1. op' = "clear" \/ (op' = "sync" /\ step' = "begin") => Len(pipe') + Len(ring') + Len(out') <= 1
      BY <1>0, <1>1, <1>10, <1>11 DEF Calls, Types
    <2> QED BY <1>0, <1>1, <2>1 DEF Calls
  <1>14. Off' /\ ~lost' BY <1>0, <1>1 DEF Off
  <1>15. h.kind = "ask" => Asking /\ Empty'
    <2> SUFFICES ASSUME h.kind = "ask" PROVE Asking /\ Empty' OBVIOUS
    <2>1. Asking /\ ~Plain(ring) BY <1>2, <1>4
    <2>2. Behind BY <1>0, <2>1 DEF Single
    <2>3. out = <<>> /\ pipe = <<>> BY <2>1, <2>2 DEF Behind
    <2>4. Carries(ring) BY <1>1, <2>2, <2>3 DEF Behind
    <2>5. Tail(ring) = <<>> BY <1>2, <2>4
    <2> QED BY <1>1, <2>1, <2>3, <2>5 DEF Empty
  <1>16. Behind => Behind'
    <2> SUFFICES ASSUME Behind PROVE Behind' OBVIOUS
    <2> QED BY <1>1, <1>2 DEF Behind
  <1>17. h.kind # "ask" => NoReport' BY <1>1, <1>4, <1>9 DEF NoReport
  <1>18. Clean(got') /\ Clean(back') /\ One(got') /\ One(back')
    BY <1>0, <1>1, <1>4 DEF NoReport, Single
  <1>19. Asking' /\ (heard' # {} \/ ~NoReport') => Empty'
    BY <1>0, <1>1, <1>3, <1>15, <1>17
  <1>20. heard' # {} => NoReport' BY <1>1, <1>3, <1>15, <1>17
  <1>21. ~Asking' => Plain(pipe') /\ Plain(ring') /\ NoReport'
    BY <1>1, <1>2, <1>4, <1>15, <1>17
  <1>22. Single' BY <1>0, <1>1, <1>9, <1>16, <1>18, <1>19, <1>20, <1>21 DEF Single
  <1> QED BY <1>10, <1>12, <1>13, <1>14, <1>22 DEF PInv

LEMMA TransmitKeeps == PInv /\ Transmit => PInv'
  <1> SUFFICES ASSUME PInv, Transmit PROVE PInv' OBVIOUS
  <1>0. /\ Types /\ Calls /\ Single /\ Off /\ Fits /\ ~lost BY DEF PInv
  <1> DEFINE h == Head(txq)
  <1>1. /\ txq # <<>> /\ back' = Append(back, h) /\ txq' = Tail(txq)
        /\ UNCHANGED <<op, step, out, asked, heard, got, pipe, ring, up, conn, lost>>
        /\ Asking' = Asking /\ Behind' = Behind /\ Empty' = Empty
    BY DEF Transmit, sender, reader, shared, Asking, Behind, Empty
  <1>2. /\ Tail(txq) \in Seq(Messages) /\ h \in Messages
        /\ Clean(txq) => Clean(Tail(txq)) /\ h.kind # "cpr"
        /\ One(txq) => One(Tail(txq)) /\ (h.kind = "cpr" => Clean(Tail(txq)))
    BY <1>0, <1>1, TailOf DEF Types
  <1> HIDE DEF h
  <1>3. /\ back' \in Seq(Messages)
        /\ Clean(back) /\ h.kind # "cpr" => Clean(back')
        /\ One(back) /\ h.kind # "cpr" => One(back')
        /\ Clean(back) => One(back')
    BY <1>0, <1>1, <1>2, AppendOf DEF Types
  <1>4. Types' BY <1>0, <1>1, <1>2, <1>3 DEF Types
  <1>5. Calls' /\ Off' /\ Fits' /\ ~lost' BY <1>0, <1>1 DEF Calls, Off, Fits
  <1>6. h.kind = "cpr" => ~Clean(txq) /\ Clean(back) /\ Clean(got)
    BY <1>0, <1>2 DEF Single
  <1>7. NoReport => NoReport' BY <1>1, <1>2, <1>3 DEF NoReport
  <1>8. One(back') /\ One(txq') /\ One(got') BY <1>0, <1>1, <1>2, <1>3, <1>6 DEF Single
  <1>9. /\ Clean(got') \/ Clean(back')
        /\ Clean(got') \/ Clean(txq')
        /\ Clean(back') \/ Clean(txq')
    BY <1>0, <1>1, <1>2, <1>3, <1>6 DEF Single
  <1>10. Single' BY <1>0, <1>1, <1>7, <1>8, <1>9 DEF Single
  <1> QED BY <1>4, <1>5, <1>10 DEF PInv

LEMMA PowerKeeps == PInv /\ (Boot \/ Disconnect) => PInv'
  <1> SUFFICES ASSUME PInv, Boot \/ Disconnect PROVE PInv' OBVIOUS
  <1>0. /\ Types /\ Calls /\ Single /\ Off /\ Fits /\ ~lost BY DEF PInv
  <1>1. CASE Boot
    <2>1. /\ conn /\ up' = TRUE
          /\ UNCHANGED <<op, step, out, asked, heard, got, back, pipe, ring, txq, conn, lost>>
      BY <1>1 DEF Boot, sender, reader, shared, socket
    <2>2. Types' /\ Off' BY <1>0, <2>1 DEF Types, Off
    <2>3. Calls' /\ Fits' /\ ~lost' BY <1>0, <2>1 DEF Calls, Fits
    <2>4. Single' BY <1>0, <2>1 DEF Single, Asking, Behind, NoReport, Empty
    <2> QED BY <2>2, <2>3, <2>4 DEF PInv
  <1>2. CASE Disconnect
    <2>1. /\ conn' = FALSE /\ up' = FALSE /\ pipe' = <<>> /\ ring' = <<>> /\ txq' = <<>>
          /\ UNCHANGED <<op, step, out, asked, heard, got, back, lost>>
          /\ Asking' = Asking
      BY <1>2 DEF Disconnect, sender, reader, shared, Asking
    <2>2. Types' BY <1>0, <2>1, EmptyOf DEF Types
    <2>3. Len(pipe') + Len(ring') + Len(out') <= Len(pipe) + Len(ring) + Len(out)
      BY <1>0, <2>1, EmptyOf DEF Types
    <2>4. Fits' BY <1>0, <2>2, <2>3, Sizes DEF Fits, Types
    <2>5. Calls'
      <3>1. op' = "clear" \/ (op' = "sync" /\ step' = "begin") => Len(pipe') + Len(ring') + Len(out') <= 1
        BY <1>0, <2>1, <2>2, <2>3 DEF Calls, Types
      <3> QED BY <1>0, <2>1, <3>1 DEF Calls
    <2>6. Off' /\ ~lost' BY <1>0, <2>1 DEF Off
    <2>7. Behind => Behind' BY <2>1, EmptyOf DEF Behind
    <2>8. NoReport => NoReport' BY <2>1, EmptyOf DEF NoReport
    <2>9. Empty => Empty' BY <2>1 DEF Empty
    <2>10. Single' BY <1>0, <2>1, <2>7, <2>8, <2>9, EmptyOf DEF Single
    <2> QED BY <2>2, <2>4, <2>5, <2>6, <2>10 DEF PInv
  <1> QED BY <1>1, <1>2

LEMMA PInvNext == Patient /\ PInv /\ [Next]_vars => PInv'
  <1> SUFFICES ASSUME Patient, PInv, [Next]_vars PROVE PInv' OBVIOUS
  <1>1. CASE Sender BY <1>1, BeginKeeps, SendKeeps, WaitKeeps DEF Sender
  <1>2. CASE Reader BY <1>2, ReaderKeeps
  <1>3. CASE Terminal BY <1>3, DeliverKeeps, ProcessKeeps, TransmitKeeps DEF Terminal
  <1>4. CASE Boot \/ Disconnect BY <1>4, PowerKeeps
  <1>5. CASE UNCHANGED vars
    <2>1. UNCHANGED <<op, step, out, asked, heard, got, back, pipe, ring, txq, up, conn, lost>>
      BY <1>5 DEF vars, sender, reader, shared, socket, terminal
    <2> QED BY <2>1 DEF PInv, Types, Calls, Single, Off, Fits, Asking, Behind, NoReport, Empty
  <1> QED BY <1>1, <1>2, <1>3, <1>4, <1>5 DEF Next, Finished

(***************************************************************************)
(* The theorems.                                                           *)
(***************************************************************************)
THEOREM Invariant == Patient => (Spec => []PInv)
  <1> SUFFICES ASSUME Patient PROVE Spec => []PInv OBVIOUS
  <1>1. Init => PInv BY PInvInit
  <1>2. PInv /\ [Next]_vars => PInv' BY PInvNext
  <1> QED BY <1>1, <1>2, PTL DEF Spec

\* Never more than one group and its question are on the way to the terminal.
THEOREM OneWindowInFlightCorrect == Patient => (Spec => []OneWindowInFlight)
  <1> SUFFICES ASSUME Patient PROVE Spec => []OneWindowInFlight OBVIOUS
  <1>1. PInv => OneWindowInFlight
    BY Sizes DEF PInv, Fits, Types, OneWindowInFlight
  <1> QED BY <1>1, Invariant, PTL

\* So the terminal's receive ring never drops a byte.
THEOREM NoOverflowCorrect == Patient => (Spec => []NoOverflow)
  <1> SUFFICES ASSUME Patient PROVE Spec => []NoOverflow OBVIOUS
  <1>1. PInv => NoOverflow BY DEF PInv, NoOverflow
  <1> QED BY <1>1, Invariant, PTL

\* A report that ends a wait is heard when all that was sent has been processed.
THEOREM SettledOnAckCorrect == Patient => (Spec => SettledOnAck)
  <1> SUFFICES ASSUME Patient PROVE Spec => SettledOnAck OBVIOUS
  <1>1. PInv /\ [Next]_vars => [Acked => pipe = <<>> /\ ring = <<>>]_vars
    BY AckedEmpty DEF Empty
  <1> QED BY <1>1, Invariant, PTL DEF Spec, SettledOnAck
================================================================================
