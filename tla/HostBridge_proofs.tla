--------------------------- MODULE HostBridge_proofs ---------------------------
(***************************************************************************)
(* The shell bridge keeps both its streams, over any link and for rings,   *)
(* buffers and reads of any size: what bash wrote is underway once and in  *)
(* its order, but for what a failing write still held, and what the        *)
(* terminal sent was read, was typed or is still on its way.               *)
(***************************************************************************)
EXTENDS HostBridge, SequenceTheorems, TLAPS

Items == [kind : {"out", "ask", "cpr", "xon", "xoff"} \cup Keys, n : Nat]

Types ==
  /\ {heard, pending, out, input, pipe, back, ring, shown, sent} \subseteq Seq(Items)
  /\ made \in Nat

\* until the shell is started there is nothing of it; a write is over before the next read;
\* a terminal that has not booted has sent nothing
Control ==
  /\ main \in {"ask", "wait"} =>
       ~alive /\ made = 0 /\ out = <<>> /\ pending = <<>> /\ input = <<>> /\ pump = "off"
  /\ pump = "read" => pending = <<>>
  /\ apple = "booting" => sent = <<>> /\ heard = <<>> /\ back = <<>>

Kept ==
  Open => /\ InOrder(Underway) /\ Written(Underway) \subseteq (1 .. made) \ cut
          /\ ~lost /\ Cpr \in Range(heard) => Written(Underway) = (1 .. made) \ cut

\* what a failing write lost: once by the thread's death, or over a pseudo-terminal
Severed ==
  /\ cut # {} => pump = "died" \/ transport = "posix"
  /\ transport = "posix" => Open
  /\ Open => cut \subseteq 1 .. made
  /\ Open /\ pump = "died" => \A n \in Written(Arriving), c \in cut : n < c

HInv == Types /\ Control /\ Kept /\ Severed /\ InputKept

--------------------------------------------------------------------------------
(***************************************************************************)
(* Streams.                                                                *)
(***************************************************************************)
LEMMA Joined ==
  \A a, b \in Seq(Items) : a \o b \in Seq(Items)
  BY ConcatProperties

Associates(a, b, c) == (a \o b) \o c = a \o (b \o c)

LEMMA Associative ==
  ASSUME NEW a \in Seq(Items), NEW b \in Seq(Items), NEW c \in Seq(Items)
  PROVE  Associates(a, b, c)
  BY ConcatAssociative DEF Associates

\* A stream that is cut is its two parts.
LEMMA Cut ==
  ASSUME NEW s \in Seq(Items), NEW n \in 0 .. Len(s)
  PROVE  /\ SubSeq(s, 1, n) \in Seq(Items) /\ SubSeq(s, n + 1, Len(s)) \in Seq(Items)
         /\ SubSeq(s, 1, n) \o SubSeq(s, n + 1, Len(s)) = s
  <1>1. Len(s) \in Nat /\ n \in Nat /\ \A i \in 1 .. Len(s) : s[i] \in Items BY ElementOfSeq
  <1>2. SubSeq(s, 1, n) \in Seq(Items) BY <1>1, SubSeqProperties
  <1>3. SubSeq(s, n + 1, Len(s)) \in Seq(Items) BY <1>1, SubSeqProperties
  <1>4. 1 \in 1 .. Len(s) + 1 /\ n \in 1 - 1 .. Len(s) /\ Len(s) \in n .. Len(s) BY <1>1
  <1>5. SubSeq(s, 1, n) \o SubSeq(s, n + 1, Len(s)) = SubSeq(s, 1, Len(s))
    BY <1>4, ConcatAdjacentSubSeq
  <1>6. SubSeq(s, 1, Len(s)) = s BY SubSeqFull
  <1> QED BY <1>2, <1>3, <1>5, <1>6

LEMMA FrontOf ==
  ASSUME NEW s \in Seq(Items), s # <<>>
  PROVE  Head(s) \in Items /\ Tail(s) \in Seq(Items) /\ s = <<Head(s)>> \o Tail(s)
  <1>1. Len(s) \in Nat \ {0} BY EmptySeq
  <1>2. Head(s) \in Items /\ Tail(s) \in Seq(Items) BY HeadTailProperties
  <1>3. 1 \in 0 .. Len(s) BY <1>1
  <1>4. SubSeq(s, 1, 1) \o SubSeq(s, 2, Len(s)) = s BY <1>3, Cut
  <1>5. Tail(s) = SubSeq(s, 2, Len(s)) BY TailIsSubSeq
  <1>6. SubSeq(s, 1, 1) = <<Head(s)>>
    <2>1. 1 \in 1 .. Len(s) /\ 1 \in 1 .. 1 BY <1>1
    <2>2. SubSeq(s, 1, 1) = <<s[1]>> \o SubSeq(s, 2, 1) BY <2>1, SubSeqRecursiveFirst
    <2>3. SubSeq(s, 2, 1) = <<>> BY SubSeqEmpty
    <2>4. Head(s) = s[1] OBVIOUS
    <2>5. <<s[1]>> \in Seq(Items) BY <1>2, <2>4
    <2> QED BY <2>2, <2>3, <2>4, <2>5, ConcatEmptySeq
  <1> QED BY <1>2, <1>4, <1>5, <1>6

\* What is taken from the front of one stream and put behind another.
LEMMA Handover ==
  ASSUME NEW a \in Seq(Items), NEW b \in Seq(Items), b # <<>>
  PROVE  Append(a, Head(b)) \in Seq(Items) /\ Append(a, Head(b)) \o Tail(b) = a \o b
  <1> DEFINE h == Head(b)
             t == Tail(b)
  <1>1. h \in Items /\ t \in Seq(Items) /\ b = <<h>> \o t BY FrontOf
  <1> HIDE DEF h, t
  <1>2. Append(a, h) = a \o <<h>> /\ Append(a, h) \in Seq(Items)
    BY <1>1, AppendIsConcat, AppendProperties
  <1>3. <<h>> \in Seq(Items) BY <1>1
  <1>4. (a \o <<h>>) \o t = a \o (<<h>> \o t)
    <2>1. Associates(a, <<h>>, t) BY <1>1, <1>3, Associative
    <2> QED BY <2>1, Zenon DEF Associates
  <1> QED BY <1>1, <1>2, <1>4 DEF h, t

\* What is taken from the front of two streams in a row is the first one's.
LEMMA FrontOfJoined ==
  ASSUME NEW a \in Seq(Items), NEW b \in Seq(Items), a # <<>>
  PROVE  a \o b # <<>> /\ Head(a \o b) = Head(a) /\ Tail(a \o b) = Tail(a) \o b
  <1> DEFINE c == a \o b
             h == Head(a)
             t == Tail(a) \o b
  <1>1. h \in Items /\ Tail(a) \in Seq(Items) /\ a = <<h>> \o Tail(a) BY FrontOf
  <1>2. <<h>> \in Seq(Items) /\ Len(<<h>>) = 1 /\ <<h>>[1] = h BY <1>1
  <1>3. c = <<h>> \o t
    <2>1. Associates(<<h>>, Tail(a), b) BY <1>1, <1>2, Associative
    <2> QED BY <1>1, <2>1, Zenon DEF Associates
  <1>4. t \in Seq(Items) BY <1>1, Joined
  <1>5. c \in Seq(Items) /\ Len(a) > 0 /\ Len(c) = Len(a) + Len(b) /\ Len(b) \in Nat /\ Len(a) \in Nat
    BY ConcatProperties
  <1>6. c # <<>> BY <1>5
  <1> HIDE DEF c, h, t
  <1>7. /\ Len(c) = 1 + Len(t) /\ Len(t) \in Nat
        /\ \A i \in 1 .. 1 + Len(t) : c[i] = IF i <= 1 THEN h ELSE t[i - 1]
    BY <1>2, <1>3, <1>4, ConcatProperties
  <1>8. Head(c) = h
    <2>1. Head(c) = c[1] BY <1>5
    <2>2. 1 \in 1 .. 1 + Len(t) BY <1>7
    <2>3. c[1] = h BY <1>7, <2>2
    <2> QED BY <2>1, <2>3
  <1>9. Tail(c) = t
    <2>1. /\ Tail(c) \in Seq(Items) /\ Len(Tail(c)) = Len(c) - 1
          /\ \A i \in 1 .. Len(Tail(c)) : Tail(c)[i] = c[i + 1]
      BY <1>5, <1>6, HeadTailProperties
    <2>2. Len(Tail(c)) = Len(t) BY <1>7, <2>1
    <2>3. ASSUME NEW i \in 1 .. Len(Tail(c)) PROVE Tail(c)[i] = t[i]
      <3>1. i + 1 \in 1 .. 1 + Len(t) /\ ~(i + 1 <= 1) /\ (i + 1) - 1 = i BY <1>7, <2>2
      <3>2. c[i + 1] = t[(i + 1) - 1] BY <1>7, <3>1
      <3> QED BY <2>1, <3>1, <3>2
    <2> QED BY <1>4, <2>1, <2>2, <2>3, SeqEqual
  <1> QED BY <1>6, <1>8, <1>9 DEF c, h, t

\* Five streams in a row may be taken together in any way.
Row(s, a, b, c, d, e) ==
  /\ s = a \o (b \o (c \o (d \o e)))
  /\ s = (a \o b) \o (c \o (d \o e))
  /\ s = (a \o (b \o c)) \o (d \o e)
  /\ s = ((a \o b) \o (c \o d)) \o e
  /\ s = ((a \o b) \o c) \o (d \o e)
  /\ s \in Seq(Items)

LEMMA InARow ==
  ASSUME NEW a \in Seq(Items), NEW b \in Seq(Items), NEW c \in Seq(Items), NEW d \in Seq(Items),
         NEW e \in Seq(Items)
  PROVE  Row(a \o b \o c \o d \o e, a, b, c, d, e)
  <1>1. /\ a \o b \in Seq(Items) /\ b \o c \in Seq(Items) /\ c \o d \in Seq(Items)
        /\ d \o e \in Seq(Items)
    BY Joined
  <1>2. (a \o b) \o c \in Seq(Items) /\ c \o (d \o e) \in Seq(Items) BY <1>1, Joined
  <1>3. ((a \o b) \o c) \o d \in Seq(Items) BY <1>2, Joined
  <1>4. (((a \o b) \o c) \o d) \o e \in Seq(Items) BY <1>3, Joined
  <1>5. Associates((a \o b) \o c, d, e) BY <1>2, Associative
  <1>6. Associates(a, b, c) BY Associative
  <1>7. Associates(a \o b, c, d) BY <1>1, Associative
  <1>8. Associates(a \o b, c, d \o e) BY <1>1, Associative
  <1>9. Associates(a, b, c \o (d \o e)) BY <1>2, Associative
  <1> QED BY <1>4, <1>5, <1>6, <1>7, <1>8, <1>9, Zenon DEF Associates, Row

\* What bash wrote, of two streams in a row and of one more item.
LEMMA WrittenJoined ==
  ASSUME NEW a \in Seq(Items), NEW b \in Seq(Items)
  PROVE  Written(a \o b) = Written(a) \cup Written(b)
  <1>1. Range(a \o b) = Range(a) \cup Range(b) BY RangeConcatenation
  <1> QED BY <1>1 DEF Written

LEMMA WrittenOne ==
  ASSUME NEW x \in Items
  PROVE  Written(<<x>>) = IF x.kind = "out" THEN {x.n} ELSE {}
  <1>1. Range(<<x>>) = {x} BY DEF Range
  <1> QED BY <1>1 DEF Written

LEMMA WrittenNone == Written(<<>>) = {}
  <1>1. Range(<<>>) = {} BY DEF Range
  <1> QED BY <1>1 DEF Written

\* One more item behind a stream in order.
LEMMA Extended ==
  ASSUME NEW s \in Seq(Items), NEW x \in Items, NEW m \in Nat,
         InOrder(s), Written(s) \subseteq 1 .. m, x.kind = "out" => x.n > m
  PROVE  /\ Append(s, x) \in Seq(Items) /\ InOrder(Append(s, x))
         /\ Written(Append(s, x)) = Written(s) \cup (IF x.kind = "out" THEN {x.n} ELSE {})
  <1> DEFINE t == Append(s, x)
             k == Len(s)
  <1>1. /\ t \in Seq(Items) /\ Len(t) = k + 1 /\ k \in Nat /\ DOMAIN t = 1 .. k + 1
        /\ DOMAIN s = 1 .. k /\ \A i \in 1 .. k : t[i] = s[i] /\ s[i] \in Items
        /\ t[k + 1] = x
    BY AppendProperties
  <1>2. Written(t) = Written(s) \cup (IF x.kind = "out" THEN {x.n} ELSE {})
    <2>1. t = s \o <<x>> /\ <<x>> \in Seq(Items) BY AppendIsConcat
    <2> HIDE DEF t
    <2>2. Written(s \o <<x>>) = Written(s) \cup Written(<<x>>) BY <2>1, WrittenJoined
    <2>3. Written(<<x>>) = IF x.kind = "out" THEN {x.n} ELSE {} BY WrittenOne
    <2> QED BY <2>1, <2>2, <2>3
  <1> HIDE DEF t, k
  <1>3. ASSUME NEW i \in 1 .. k, s[i].kind = "out" PROVE s[i].n \in 1 .. m
    <2>1. s[i] \in Range(s) BY <1>1 DEF Range
    <2>2. s[i].n \in Written(s) BY <1>3, <2>1 DEF Written
    <2> QED BY <2>2
  <1>4. InOrder(t)
    <2> SUFFICES ASSUME NEW i \in 1 .. k + 1, NEW j \in 1 .. k + 1, i < j,
                        t[i].kind = "out", t[j].kind = "out"
                 PROVE  t[i].n < t[j].n
      BY <1>1 DEF InOrder
    <2>1. i \in 1 .. k /\ (j \in 1 .. k \/ j = k + 1) BY <1>1
    <2>2. CASE j \in 1 .. k BY <1>1, <2>1, <2>2 DEF InOrder
    <2>3. CASE j = k + 1
      <3>1. s[i].n \in 1 .. m /\ t[i] = s[i] BY <1>1, <1>3, <2>1
      <3>2. x.n > m /\ x.n \in Nat BY <1>1, <2>3 DEF Items
      <3> QED BY <1>1, <2>3, <3>1, <3>2
    <2> QED BY <2>1, <2>2, <2>3
  <1> QED BY <1>1, <1>2, <1>4 DEF t

\* One item less.
LEMMA Dropped ==
  ASSUME NEW a \in Seq(Items), NEW b \in Seq(Items), b # <<>>, InOrder(a \o b)
  PROVE  /\ InOrder(a \o Tail(b)) /\ Tail(b) \in Seq(Items)
         /\ Written(a \o b) = Written(a \o Tail(b))
                                \cup (IF Head(b).kind = "out" THEN {Head(b).n} ELSE {})
  <1> DEFINE p == a \o b
             q == a \o Tail(b)
             k == Len(a)
             l == Len(b)
             h == Head(b)
  <1>1. h \in Items /\ Tail(b) \in Seq(Items) /\ b = <<h>> \o Tail(b) BY FrontOf
  <1>2. Written(p) = Written(q) \cup (IF h.kind = "out" THEN {h.n} ELSE {})
    <2>1. Written(p) = Written(a) \cup Written(b) BY WrittenJoined
    <2>2. Written(q) = Written(a) \cup Written(Tail(b)) BY <1>1, WrittenJoined
    <2> HIDE DEF h
    <2>3. <<h>> \in Seq(Items) BY <1>1
    <2>4. Written(<<h>> \o Tail(b)) = Written(<<h>>) \cup Written(Tail(b))
      BY <1>1, <2>3, WrittenJoined
    <2>5. Written(b) = Written(<<h>>) \cup Written(Tail(b)) BY <1>1, <2>4
    <2>6. Written(<<h>>) = IF h.kind = "out" THEN {h.n} ELSE {} BY <1>1, WrittenOne
    <2> QED BY <2>1, <2>2, <2>5, <2>6
  <1>3. k \in Nat /\ l \in Nat \ {0}
    <2>1. l # 0 BY EmptySeq
    <2> QED BY <2>1
  <1>4. /\ p \in Seq(Items) /\ Len(p) = k + l
        /\ \A i \in 1 .. k + l : p[i] = IF i <= k THEN a[i] ELSE b[i - k]
    BY ConcatProperties
  <1>5. Len(Tail(b)) = l - 1 /\ \A i \in 1 .. l - 1 : Tail(b)[i] = b[i + 1]
    BY HeadTailProperties
  <1>6. /\ q \in Seq(Items) /\ Len(q) = k + (l - 1)
        /\ \A i \in 1 .. k + (l - 1) : q[i] = IF i <= k THEN a[i] ELSE Tail(b)[i - k]
    BY <1>1, <1>5, ConcatProperties
  <1>7. DOMAIN p = 1 .. k + l /\ DOMAIN q = 1 .. k + (l - 1) BY <1>4, <1>6
  <1> HIDE DEF p, q, k, l, h
  <1>8. ASSUME NEW i \in 1 .. k + (l - 1)
        PROVE  q[i] = p[IF i <= k THEN i ELSE i + 1]
    <2>1. CASE i <= k
      <3>1. i \in 1 .. k + l BY <1>3
      <3> QED BY <1>4, <1>6, <2>1, <3>1
    <2>2. CASE ~(i <= k)
      <3>1. i + 1 \in 1 .. k + l /\ ~(i + 1 <= k) /\ i - k \in 1 .. l - 1 /\ (i - k) + 1 = (i + 1) - k
        BY <1>3, <2>2
      <3>2. q[i] = Tail(b)[i - k] BY <1>6, <2>2
      <3>3. Tail(b)[i - k] = b[(i - k) + 1] BY <1>5, <3>1
      <3>4. p[i + 1] = b[(i + 1) - k] BY <1>4, <3>1
      <3> QED BY <2>2, <3>1, <3>2, <3>3, <3>4
    <2> QED BY <2>1, <2>2
  <1>9. InOrder(q)
    <2> SUFFICES ASSUME NEW i \in 1 .. k + (l - 1), NEW j \in 1 .. k + (l - 1), i < j,
                        q[i].kind = "out", q[j].kind = "out"
                 PROVE  q[i].n < q[j].n
      BY <1>7 DEF InOrder
    <2> DEFINE u == IF i <= k THEN i ELSE i + 1
               v == IF j <= k THEN j ELSE j + 1
    <2>1. u \in 1 .. k + l /\ v \in 1 .. k + l /\ u < v BY <1>3
    <2>2. q[i] = p[u] /\ q[j] = p[v] BY <1>8
    <2> HIDE DEF u, v
    <2>3. \A c, d \in 1 .. k + l : c < d /\ p[c].kind = "out" /\ p[d].kind = "out" => p[c].n < p[d].n
      BY <1>7 DEF InOrder, p
    <2> QED BY <2>1, <2>2, <2>3
  <1> QED BY <1>1, <1>2, <1>9 DEF p, q, h

Before(a, b) == \A n \in Written(a), m \in Written(b) : n < m

\* Two streams in a row are in order if each is and the first comes before the second.
LEMMA InOrderJoined ==
  ASSUME NEW a \in Seq(Items), NEW b \in Seq(Items)
  PROVE  InOrder(a \o b) <=> InOrder(a) /\ InOrder(b) /\ Before(a, b)
  <1> DEFINE c == a \o b
             k == Len(a)
             l == Len(b)
  <1>1. /\ k \in Nat /\ l \in Nat /\ DOMAIN a = 1 .. k /\ DOMAIN b = 1 .. l
        /\ \A i \in 1 .. k : a[i] \in Items
        /\ \A i \in 1 .. l : b[i] \in Items
    BY ElementOfSeq
  <1>2. /\ c \in Seq(Items) /\ Len(c) = k + l
        /\ \A i \in 1 .. k + l : c[i] = IF i <= k THEN a[i] ELSE b[i - k]
    BY ConcatProperties
  <1>3. DOMAIN c = 1 .. k + l BY <1>2
  <1> HIDE DEF c, k, l
  <1>4. \A i \in 1 .. k : i \in 1 .. k + l /\ c[i] = a[i] BY <1>1, <1>2
  <1>5. \A i \in 1 .. l : k + i \in 1 .. k + l /\ c[k + i] = b[i]
    <2> SUFFICES ASSUME NEW i \in 1 .. l PROVE k + i \in 1 .. k + l /\ c[k + i] = b[i] OBVIOUS
    <2>1. k + i \in 1 .. k + l /\ ~(k + i <= k) /\ (k + i) - k = i BY <1>1
    <2> QED BY <1>2, <2>1
  <1>6. ASSUME InOrder(c) PROVE InOrder(a) /\ InOrder(b) /\ Before(a, b)
    <2>1. \A i, j \in 1 .. k + l : i < j /\ c[i].kind = "out" /\ c[j].kind = "out" => c[i].n < c[j].n
      BY <1>3, <1>6 DEF InOrder
    <2>2. InOrder(a) BY <1>1, <1>4, <2>1 DEF InOrder
    <2>3. InOrder(b)
      <3> SUFFICES ASSUME NEW i \in 1 .. l, NEW j \in 1 .. l, i < j, b[i].kind = "out", b[j].kind = "out"
                   PROVE  b[i].n < b[j].n
        BY <1>1 DEF InOrder
      <3>1. k + i < k + j BY <1>1
      <3> QED BY <1>5, <2>1, <3>1
    <2>4. Before(a, b)
      <3> SUFFICES ASSUME NEW n \in Written(a), NEW m \in Written(b) PROVE n < m BY DEF Before
      <3>1. PICK i \in 1 .. k : a[i].kind = "out" /\ a[i].n = n BY <1>1 DEF Written, Range
      <3>2. PICK j \in 1 .. l : b[j].kind = "out" /\ b[j].n = m BY <1>1 DEF Written, Range
      <3>3. i < k + j BY <1>1
      <3> QED BY <1>4, <1>5, <2>1, <3>1, <3>2, <3>3
    <2> QED BY <2>2, <2>3, <2>4
  <1>7. ASSUME InOrder(a), InOrder(b), Before(a, b) PROVE InOrder(c)
    <2> SUFFICES ASSUME NEW i \in 1 .. k + l, NEW j \in 1 .. k + l, i < j,
                        c[i].kind = "out", c[j].kind = "out"
                 PROVE  c[i].n < c[j].n
      BY <1>3 DEF InOrder
    <2>1. CASE j <= k
      <3>1. i \in 1 .. k /\ j \in 1 .. k BY <1>1, <2>1
      <3> QED BY <1>1, <1>4, <1>7, <3>1 DEF InOrder
    <2>2. CASE ~(i <= k)
      <3>1. i - k \in 1 .. l /\ j - k \in 1 .. l /\ i - k < j - k /\ ~(j <= k) BY <1>1, <2>2
      <3>2. c[i] = b[i - k] /\ c[j] = b[j - k] BY <1>2, <2>2, <3>1
      <3> QED BY <1>1, <1>7, <3>1, <3>2 DEF InOrder
    <2>3. CASE i <= k /\ ~(j <= k)
      <3>1. i \in 1 .. k /\ j - k \in 1 .. l BY <1>1, <2>3
      <3>2. c[i] = a[i] /\ c[j] = b[j - k] BY <1>2, <2>3
      <3>3. a[i].n \in Written(a) BY <1>1, <3>1, <3>2 DEF Written, Range
      <3>4. b[j - k].n \in Written(b) BY <1>1, <3>1, <3>2 DEF Written, Range
      <3> QED BY <1>7, <3>2, <3>3, <3>4 DEF Before
    <2> QED BY <1>1, <2>1, <2>2, <2>3
  <1> QED BY <1>6, <1>7 DEF c

\* A piece that is cut out leaves order, and what comes before it is older.
LEMMA CutOut ==
  ASSUME NEW a \in Seq(Items), NEW p \in Seq(Items), NEW b \in Seq(Items), InOrder((a \o p) \o b)
  PROVE  /\ InOrder(a \o b) /\ Before(a, p)
         /\ Written((a \o p) \o b) = Written(a \o b) \cup Written(p)
         /\ Written(a \o b) \cap Written(p) = {}
  <1>1. a \o p \in Seq(Items) BY Joined
  <1>2. InOrder(a \o p) /\ InOrder(b) /\ Before(a \o p, b) BY <1>1, InOrderJoined
  <1>3. InOrder(a) /\ Before(a, p) BY <1>2, InOrderJoined
  <1>4. /\ Written(a \o p) = Written(a) \cup Written(p)
        /\ Written((a \o p) \o b) = Written(a \o p) \cup Written(b)
        /\ Written(a \o b) = Written(a) \cup Written(b)
    BY <1>1, WrittenJoined
  <1>5. Before(a, b) /\ Before(p, b) BY <1>2, <1>4 DEF Before
  <1>6. InOrder(a \o b) BY <1>2, <1>3, <1>5, InOrderJoined
  <1>7. \A n \in Written(p) : n \in Nat /\ ~(n < n)
    <2>1. DOMAIN p = 1 .. Len(p) /\ \A i \in 1 .. Len(p) : p[i] \in Items BY ElementOfSeq
    <2>2. \A i \in 1 .. Len(p) : p[i].n \in Nat BY <2>1 DEF Items
    <2>3. ASSUME NEW n \in Written(p) PROVE n \in Nat
      <3>1. PICK i \in 1 .. Len(p) : p[i].n = n BY <2>1 DEF Written, Range
      <3> QED BY <2>2, <3>1
    <2> QED BY <2>3
  <1>8. Written(a \o b) \cap Written(p) = {} BY <1>3, <1>4, <1>5, <1>7 DEF Before
  <1> QED BY <1>3, <1>4, <1>6, <1>8

--------------------------------------------------------------------------------
(***************************************************************************)
(* The bridge.                                                             *)
(***************************************************************************)
LEMMA Signals == \A k \in {"ask", "cpr", "xon", "xoff"} \cup Keys : Item(k) \in Items
  BY DEF Item, Items

LEMMA UnderwayRow ==
  ASSUME Types
  PROVE  Row(Underway, shown, ring, pipe, pending, out)
  <1>1. /\ shown \in Seq(Items) /\ ring \in Seq(Items) /\ pipe \in Seq(Items)
        /\ pending \in Seq(Items) /\ out \in Seq(Items)
    BY DEF Types
  <1>2. \A a, b, c, d, e \in Seq(Items) : Row(a \o b \o c \o d \o e, a, b, c, d, e) BY InARow
  <1> QED BY <1>1, <1>2, Zenon DEF Underway

\* An item that moves along the stream leaves the stream.
LEMMA Moved ==
  ASSUME Types, Types',
         \/ UNCHANGED <<shown, ring, pipe>> /\ pending' \o out' = pending \o out
         \/ UNCHANGED <<shown, ring, out>> /\ pipe' \o pending' = pipe \o pending
         \/ UNCHANGED <<shown, pending, out>> /\ ring' \o pipe' = ring \o pipe
         \/ UNCHANGED <<pipe, pending, out>> /\ shown' \o ring' = shown \o ring
  PROVE  Underway' = Underway
  <1>1. Row(Underway, shown, ring, pipe, pending, out) BY UnderwayRow
  <1>2. Row(Underway', shown', ring', pipe', pending', out')
    <2>1. /\ shown' \in Seq(Items) /\ ring' \in Seq(Items) /\ pipe' \in Seq(Items)
          /\ pending' \in Seq(Items) /\ out' \in Seq(Items)
      BY DEF Types
    <2>2. \A a, b, c, d, e \in Seq(Items) : Row(a \o b \o c \o d \o e, a, b, c, d, e) BY InARow
    <2> QED BY <2>1, <2>2, Zenon DEF Underway
  <1>3. CASE UNCHANGED <<shown, ring, pipe>> /\ pending' \o out' = pending \o out
    BY <1>1, <1>2, <1>3, Zenon DEF Row
  <1>4. CASE UNCHANGED <<shown, ring, out>> /\ pipe' \o pending' = pipe \o pending
    BY <1>1, <1>2, <1>4, Zenon DEF Row
  <1>5. CASE UNCHANGED <<shown, pending, out>> /\ ring' \o pipe' = ring \o pipe
    BY <1>1, <1>2, <1>5, Zenon DEF Row
  <1>6. CASE UNCHANGED <<pipe, pending, out>> /\ shown' \o ring' = shown \o ring
    BY <1>1, <1>2, <1>6, Zenon DEF Row
  <1> QED BY <1>3, <1>4, <1>5, <1>6

LEMMA KeptSame ==
  ASSUME Kept, UNCHANGED <<Underway, made, heard, lost, cut>>, Open' => Open PROVE Kept'
  <1>1. InOrder(Underway)' = InOrder(Underway) /\ Written(Underway)' = Written(Underway)
    BY DEF InOrder, Written
  <1> QED BY <1>1 DEF Kept

LEMMA SeveredSame ==
  ASSUME Severed, UNCHANGED <<cut, transport>>, Open' => Open,
         Written(Arriving)' \subseteq Written(Arriving), Open /\ transport = "posix" => Open',
         pump' = "died" <=> pump = "died", made \in Nat, made' \in {made, made + 1}
  PROVE  Severed'
  BY DEF Severed, Open

\* A step of the terminal brings nothing new to what is on its way to the screen.
LEMMA ArrivingShrinks ==
  ASSUME Types,
         \/ /\ pipe # <<>> /\ pipe' = Tail(pipe) /\ shown' = shown
            /\ ring' = ring \/ ring' = Append(ring, Head(pipe))
         \/ /\ ring # <<>> /\ ring' = Tail(ring) /\ pipe' = pipe
            /\ shown' = shown \/ shown' = Append(shown, Head(ring))
  PROVE  Written(Arriving)' \subseteq Written(Arriving)
  <1>1. shown \in Seq(Items) /\ ring \in Seq(Items) /\ pipe \in Seq(Items) BY DEF Types
  <1>2. ASSUME NEW a \in Seq(Items), NEW b \in Seq(Items), NEW c \in Seq(Items)
        PROVE  Written(a \o b \o c) = Written(a) \cup Written(b) \cup Written(c)
    <2>1. a \o b \in Seq(Items) BY Joined
    <2>2. Written((a \o b) \o c) = Written(a \o b) \cup Written(c) BY <2>1, WrittenJoined
    <2> QED BY <2>2, WrittenJoined
  <1>3. ASSUME NEW a \in Seq(Items), NEW b \in Seq(Items), b # <<>>
        PROVE  /\ Append(a, Head(b)) \in Seq(Items) /\ Tail(b) \in Seq(Items)
               /\ Written(Append(a, Head(b))) \cup Written(Tail(b)) = Written(a) \cup Written(b)
               /\ Written(Tail(b)) \subseteq Written(b)
    <2>1. Append(a, Head(b)) \in Seq(Items) /\ Append(a, Head(b)) \o Tail(b) = a \o b
          /\ Head(b) \in Items /\ Tail(b) \in Seq(Items) /\ b = <<Head(b)>> \o Tail(b)
      BY <1>3, Handover, FrontOf
    <2>2. Written(Append(a, Head(b)) \o Tail(b)) = Written(Append(a, Head(b))) \cup Written(Tail(b))
      BY <2>1, WrittenJoined
    <2>3. Written(a \o b) = Written(a) \cup Written(b) BY WrittenJoined
    <2>4. <<Head(b)>> \in Seq(Items) BY <2>1
    <2>5. Written(<<Head(b)>> \o Tail(b)) = Written(<<Head(b)>>) \cup Written(Tail(b))
      BY <2>1, <2>4, WrittenJoined
    <2>6. Written(Tail(b)) \subseteq Written(b) BY <2>1, <2>5
    <2> QED BY <2>1, <2>2, <2>3, <2>6
  <1>4. /\ Written(Arriving) = Written(shown) \cup Written(ring) \cup Written(pipe)
    BY <1>1, <1>2 DEF Arriving
  <1>5. Written(Arriving)' = Written(shown' \o ring' \o pipe') BY DEF Arriving, Written
  <1>6. CASE /\ pipe # <<>> /\ pipe' = Tail(pipe) /\ shown' = shown
             /\ ring' = ring \/ ring' = Append(ring, Head(pipe))
    <2>1. /\ pipe' \in Seq(Items) /\ ring' \in Seq(Items) /\ shown' \in Seq(Items)
          /\ Written(ring') \cup Written(pipe') \subseteq Written(ring) \cup Written(pipe)
      BY <1>1, <1>3, <1>6
    <2>2. Written(shown' \o ring' \o pipe') = Written(shown') \cup Written(ring') \cup Written(pipe')
      BY <1>2, <2>1
    <2> QED BY <1>4, <1>5, <1>6, <2>1, <2>2
  <1>7. CASE /\ ring # <<>> /\ ring' = Tail(ring) /\ pipe' = pipe
             /\ shown' = shown \/ shown' = Append(shown, Head(ring))
    <2>1. /\ pipe' \in Seq(Items) /\ ring' \in Seq(Items) /\ shown' \in Seq(Items)
          /\ Written(shown') \cup Written(ring') \subseteq Written(shown) \cup Written(ring)
      BY <1>1, <1>3, <1>7
    <2>2. Written(shown' \o ring' \o pipe') = Written(shown') \cup Written(ring') \cup Written(pipe')
      BY <1>2, <2>1
    <2> QED BY <1>4, <1>5, <1>7, <2>1, <2>2
  <1> QED BY <1>6, <1>7

LEMMA InputSame ==
  ASSUME InputKept, UNCHANGED <<heard, input, back, sent>>,
         alive' \/ main' \in {"ask", "wait"} => alive \/ main \in {"ask", "wait"}
  PROVE  InputKept'
  BY DEF InputKept

\* the streams stand still
Quiet ==
  \/ AskFails \/ WaitExpires \/ GiveUp \/ PumpEnds \/ MainEnds \/ MainFails
  \/ Interrupt \/ ShellExits \/ Boot

LEMMA QuietKeeps == ASSUME HInv, Quiet, UNCHANGED transport PROVE HInv'
  <1>1. UNCHANGED <<heard, pending, out, input, pipe, back, ring, shown, sent, made, lost, cut, transport>>
    BY DEF Quiet, AskFails, WaitExpires, GiveUp, PumpEnds, MainEnds, MainFails, Interrupt,
           ShellExits, Boot, StartShell, Finish, shell, terminal, threads
  <1>2. Types' BY <1>1 DEF HInv, Types
  <1>3. Underway' = Underway BY <1>1 DEF Underway
  <1>4. Open' <=> Open
    BY DEF Quiet, AskFails, WaitExpires, GiveUp, PumpEnds, MainEnds, MainFails, Interrupt,
           ShellExits, Boot, Open, terminal
  <1>5. Kept' BY <1>1, <1>3, <1>4, KeptSame DEF HInv
  <1>6. /\ main' \in {"ask", "wait"} => /\ main \in {"ask", "wait"} /\ (alive' => alive)
                                        /\ (pump = "off" => pump' = "off")
        /\ alive' => alive \/ main \in {"ask", "wait"}
        /\ pump' = "read" => pump = "read" \/ main \in {"ask", "wait"}
        /\ apple' = "booting" => apple = "booting"
    BY DEF Quiet, AskFails, WaitExpires, GiveUp, PumpEnds, MainEnds, MainFails, Interrupt,
           ShellExits, Boot, StartShell, Finish, shell, terminal, threads
  <1>7. Control' BY <1>1, <1>6 DEF HInv, Control
  <1>8. InputKept' BY <1>1, <1>6, InputSame DEF HInv
  <1>9. Severed'
    <2>1. pump' = "died" <=> pump = "died"
      <3>1. main \in {"ask", "wait"} => pump = "off" BY DEF HInv, Control
      <3> QED BY <3>1
          DEF Quiet, AskFails, WaitExpires, GiveUp, PumpEnds, MainEnds, MainFails, Interrupt,
              ShellExits, Boot, StartShell, Finish, threads
    <2>2. Written(Arriving)' = Written(Arriving) BY <1>1 DEF Arriving, Written
    <2> QED BY <1>1, <1>4, <2>1, <2>2, SeveredSame DEF HInv, Types
  <1> QED BY <1>2, <1>5, <1>7, <1>8, <1>9 DEF HInv

LEMMA AskReadyKeeps == ASSUME HInv, AskReady, UNCHANGED transport PROVE HInv'
  <1>1. /\ main = "ask" /\ main' = "wait"
        /\ UNCHANGED <<heard, pump, pending, alive, out, input, back, ring, shown, sent, made, lost, apple, cut, transport>>
        /\ (pipe' = Append(pipe, Ask) /\ Open) \/ pipe' = pipe
    <2>1. (pipe' = Append(pipe, Ask) /\ Open) \/ pipe' = pipe BY Zenon DEF AskReady
    <2> QED BY <2>1 DEF AskReady, shell, terminal
  <1>2. Types /\ Control /\ Kept /\ Severed BY DEF HInv
  <1>3. Ask \in Items /\ Ask.kind = "ask" BY Signals DEF Ask, Item
  <1>4. pipe' \in Seq(Items)
    <2>1. pipe \in Seq(Items) BY <1>2 DEF Types
    <2>2. Append(pipe, Ask) \in Seq(Items) BY <1>3, <2>1, AppendProperties
    <2> QED BY <1>1, <2>1, <2>2
  <1>5. Types' BY <1>1, <1>2, <1>4 DEF Types
  <1>6. Control' BY <1>1, <1>2 DEF Control
  <1>7. InputKept' BY <1>1, InputSame DEF HInv
  <1>8. Kept'
    <2> SUFFICES ASSUME Open' PROVE Kept' BY DEF Kept
    <2>1. Open BY <1>1 DEF Open
    <2>2. CASE pipe' = pipe
      <3>1. Underway' = Underway
        <4>1. UNCHANGED <<shown, ring, pipe, pending, out>> BY <1>1, <2>2
        <4> QED BY <4>1 DEF Underway
      <3> QED BY <1>1, <1>2, <2>1, <3>1, KeptSame
    <2>3. CASE pipe' = Append(pipe, Ask)
      <3>1. Open /\ pipe' = pipe \o <<Ask>> BY <1>2, <1>3, <2>1, <2>3, AppendIsConcat DEF Types
      <3>2. pending = <<>> /\ out = <<>> /\ made = 0 BY <1>1, <1>2 DEF Control
      <3>3. shown \o ring \in Seq(Items) /\ <<Ask>> \in Seq(Items) /\ pipe \in Seq(Items)
            /\ (shown \o ring) \o pipe \in Seq(Items)
        BY <1>2, <1>3, Joined DEF Types
      <3>4. Underway = (shown \o ring) \o pipe
        BY <3>2, <3>3, ConcatEmptySeq DEF Underway
      <3>5. Underway' = Append(Underway, Ask)
        <4>1. pipe' \in Seq(Items) /\ (shown \o ring) \o pipe' \in Seq(Items) BY <1>4, <3>3, Joined
        <4>2. Underway' = (shown \o ring) \o pipe'
          BY <1>1, <3>2, <4>1, ConcatEmptySeq DEF Underway
        <4>3. ((shown \o ring) \o pipe) \o <<Ask>> = (shown \o ring) \o (pipe \o <<Ask>>)
          <5>1. Associates(shown \o ring, pipe, <<Ask>>) BY <3>3, Associative
          <5> QED BY <5>1, Zenon DEF Associates
        <4>4. Append(Underway, Ask) = Underway \o <<Ask>> BY <1>3, <3>3, <3>4, AppendIsConcat
        <4> QED BY <3>1, <3>4, <4>2, <4>3, <4>4, Zenon
      <3>6. /\ InOrder(Append(Underway, Ask))
            /\ Written(Append(Underway, Ask)) = Written(Underway)
        <4>1. Underway \in Seq(Items) /\ made \in Nat BY <1>2, <3>3, <3>4 DEF Types
        <4>2. InOrder(Underway) /\ Written(Underway) \subseteq 1 .. made BY <1>2, <3>1 DEF Kept
        <4> QED BY <1>3, <4>1, <4>2, Extended
      <3>7. InOrder(Underway)' /\ Written(Underway)' = Written(Underway)
        BY <3>5, <3>6 DEF InOrder, Written
      <3> QED BY <1>1, <1>2, <3>1, <3>7 DEF Kept
    <2> QED BY <1>1, <2>2, <2>3
  <1>9. Severed'
    <2>1. pump = "off" /\ pump' = "off" BY <1>1, <1>2 DEF Control
    <2> QED BY <1>1, <1>2, <2>1 DEF Severed, Open
  <1> QED BY <1>5, <1>6, <1>7, <1>8, <1>9 DEF HInv

LEMMA WaitReadsKeeps == ASSUME HInv, WaitReads, UNCHANGED transport PROVE HInv'
  <1>1. PICK n \in LinkRead :
          /\ heard' = heard \o Got(n) /\ back' = Unread(n)
          /\ IF Ready(heard \o Got(n)) THEN StartShell ELSE UNCHANGED <<alive, pump, main>>
    BY DEF WaitReads
  <1>2. /\ main = "wait"
        /\ UNCHANGED <<pending, out, input, pipe, ring, shown, sent, made, lost, apple, cut, transport>>
    BY DEF WaitReads, terminal
  <1>3. Types /\ Control /\ Kept /\ Severed /\ InputKept BY DEF HInv
  <1>4. heard \in Seq(Items) /\ back \in Seq(Items) BY <1>3 DEF Types
  <1>5. n \in 0 .. Len(back) BY <1>4, SizeAssumption DEF LinkRead
  <1>6. Got(n) \in Seq(Items) /\ Unread(n) \in Seq(Items) /\ Got(n) \o Unread(n) = back
    BY <1>4, <1>5, Cut DEF Got, Unread
  <1>7. Types'
    <2>1. heard' \in Seq(Items) /\ back' \in Seq(Items) BY <1>1, <1>4, <1>6, Joined
    <2> QED BY <1>2, <1>3, <2>1 DEF Types
  <1>8. made = 0 /\ out = <<>> /\ pending = <<>> /\ input = <<>> /\ pump = "off" /\ ~alive
    BY <1>2, <1>3 DEF Control
  <1>9. apple # "booting"
    <2>1. Len(back) > 0 BY <1>4, SizeAssumption DEF LinkRead
    <2>2. back # <<>> BY <2>1
    <2> QED BY <1>3, <2>2 DEF Control
  <1>10. Control'
    <2>1. \/ main' = "relay" /\ pump' = "read"
          \/ UNCHANGED <<alive, pump, main>>
      BY <1>1 DEF StartShell
    <2> QED BY <1>2, <1>8, <1>9, <2>1 DEF Control
  <1>11. Underway' = Underway /\ (Open' => Open) BY <1>2 DEF Underway, Open
  <1>12. Kept'
    <2> SUFFICES ASSUME Open' PROVE Kept' BY DEF Kept
    <2>1. InOrder(Underway) /\ Written(Underway) \subseteq 1 .. made BY <1>3, <1>11 DEF Kept
    <2>2. InOrder(Underway)' /\ Written(Underway)' = Written(Underway)
      BY <1>11, <2>1 DEF InOrder, Written
    <2>3. Written(Underway) = {} /\ 1 .. made = {} /\ made' = made BY <1>2, <1>8, <2>1
    <2> QED BY <2>2, <2>3 DEF Kept
  <1>13. InputKept'
    <2>1. heard \o input \o back = sent BY <1>2, <1>3 DEF InputKept
    <2>2. heard \o input = heard BY <1>4, <1>8, ConcatEmptySeq
    <2>3. heard' \o input' = heard'
      <3>1. heard' \in Seq(Items) BY <1>1, <1>4, <1>6, Joined
      <3> QED BY <1>2, <1>8, <3>1, ConcatEmptySeq
    <2>4. (heard \o Got(n)) \o Unread(n) = heard \o (Got(n) \o Unread(n))
      <3>1. Associates(heard, Got(n), Unread(n)) BY <1>4, <1>6, Associative
      <3> QED BY <3>1, Zenon DEF Associates
    <2>5. heard' \o input' \o back' = heard \o back BY <1>1, <1>6, <2>3, <2>4, Zenon
    <2>6. heard' \o input' \o back' = sent' BY <1>2, <2>1, <2>2, <2>5
    <2> QED BY <2>6 DEF InputKept
  <1>14. Severed'
    <2>1. Written(Arriving)' = Written(Arriving) BY <1>2 DEF Arriving, Written
    <2>2. pump' = "died" <=> pump = "died" BY <1>1, <1>8 DEF StartShell
    <2> QED BY <1>2, <1>3, <2>1, <2>2, SeveredSame DEF Open, Types
  <1> QED BY <1>7, <1>10, <1>12, <1>13, <1>14 DEF HInv

LEMMA PumpReadsKeeps == ASSUME HInv, PumpReads, UNCHANGED transport PROVE HInv'
  <1>1. PICK n \in 1 .. Len(out) :
          pending' = SubSeq(out, 1, n) /\ out' = SubSeq(out, n + 1, Len(out))
    BY DEF PumpReads
  <1>2. /\ pump = "read" /\ pump' = "write"
        /\ UNCHANGED <<main, heard, alive, input, pipe, back, ring, shown, sent, made, lost, apple, cut, transport>>
    BY DEF PumpReads, terminal
  <1>3. Types /\ Control /\ Kept /\ Severed /\ InputKept BY DEF HInv
  <1>4. out \in Seq(Items) /\ n \in 0 .. Len(out) BY <1>3 DEF Types
  <1>5. pending' \in Seq(Items) /\ out' \in Seq(Items) /\ pending' \o out' = out
    BY <1>1, <1>4, Cut
  <1>6. Types' BY <1>2, <1>3, <1>5 DEF Types
  <1>7. pending \o out = out BY <1>2, <1>3, <1>4, ConcatEmptySeq DEF Control
  <1>8. Underway' = Underway /\ (Open' => Open) BY <1>2, <1>3, <1>5, <1>6, <1>7, Moved DEF Open
  <1>9. Kept' BY <1>2, <1>3, <1>8, KeptSame
  <1>10. Control' BY <1>2, <1>3 DEF Control
  <1>11. InputKept' BY <1>2, <1>3, InputSame
  <1>12. Severed'
    <2>1. Written(Arriving)' = Written(Arriving) BY <1>2 DEF Arriving, Written
    <2> QED BY <1>2, <1>3, <2>1, SeveredSame DEF Open, Types
  <1> QED BY <1>6, <1>9, <1>10, <1>11, <1>12 DEF HInv

LEMMA PumpWritesKeeps == ASSUME HInv, PumpWrites, UNCHANGED transport PROVE HInv'
  <1> DEFINE n == Taken
  <1>1. /\ pump = "write" /\ Open /\ Room > 0
        /\ pipe' = pipe \o SubSeq(pending, 1, n)
        /\ pending' = SubSeq(pending, n + 1, Len(pending))
        /\ pump' = IF n = Len(pending) THEN "read" ELSE "write"
    BY DEF PumpWrites, Advance
  <1>2. UNCHANGED <<main, heard, alive, out, input, back, ring, shown, sent, made, lost, apple, cut, transport>>
    BY DEF PumpWrites, shell, terminal
  <1>3. Types /\ Control /\ Kept /\ Severed /\ InputKept BY DEF HInv
  <1>4. pending \in Seq(Items) /\ pipe \in Seq(Items) BY <1>3 DEF Types
  <1>5. n \in 0 .. Len(pending)
    <2>1. Len(pending) \in Nat /\ Len(pipe) \in Nat /\ Room \in Int
      BY <1>4, SizeAssumption DEF Room
    <2> QED BY <1>1, <2>1 DEF Taken
  <1> HIDE DEF n
  <1>6. /\ SubSeq(pending, 1, n) \in Seq(Items) /\ pending' \in Seq(Items)
        /\ SubSeq(pending, 1, n) \o pending' = pending
    BY <1>1, <1>4, <1>5, Cut
  <1>7. pipe' \in Seq(Items) BY <1>1, <1>4, <1>6, Joined
  <1>8. pipe' \o pending' = pipe \o pending
    <2> DEFINE part == SubSeq(pending, 1, n)
    <2>1. part \in Seq(Items) /\ part \o pending' = pending /\ pipe' = pipe \o part BY <1>1, <1>6
    <2> HIDE DEF part
    <2>2. (pipe \o part) \o pending' = pipe \o (part \o pending')
      <3>1. Associates(pipe, part, pending') BY <1>4, <1>6, <2>1, Associative
      <3> QED BY <3>1, Zenon DEF Associates
    <2> QED BY <2>1, <2>2
  <1>9. Types' BY <1>2, <1>3, <1>6, <1>7 DEF Types
  <1>10. Underway' = Underway /\ (Open' => Open) BY <1>2, <1>3, <1>8, <1>9, Moved DEF Open
  <1>11. Kept' BY <1>2, <1>3, <1>10, KeptSame
  <1>12. pump' = "read" => pending' = <<>>
    <2> SUFFICES ASSUME n = Len(pending) PROVE pending' = <<>> BY <1>1
    <2>1. Len(pending) \in Nat BY <1>4
    <2> QED BY <1>1, <2>1, SubSeqEmpty
  <1>13. Control' BY <1>1, <1>2, <1>3, <1>12 DEF Control
  <1>14. InputKept' BY <1>2, <1>3, InputSame
  <1>15. Severed' BY <1>1, <1>2, <1>3 DEF Severed, Open
  <1> QED BY <1>9, <1>11, <1>13, <1>14, <1>15 DEF HInv

\* What a failing write held leaves the stream, and what is before it is older.
LEMMA PumpFailsKeeps == ASSUME HInv, PumpDies \/ PumpDrops, UNCHANGED transport PROVE HInv'
  <1>1. /\ pump = "write" /\ cut' = cut \cup Written(pending) /\ pending' = <<>>
        /\ \/ pump' = "died" /\ Raises
           \/ pump' = "read" /\ transport = "posix"
        /\ UNCHANGED <<main, heard, alive, out, input, pipe, back, ring, shown, sent, made, lost, apple>>
    BY DEF PumpDies, PumpDrops, Abandon, shell, terminal
  <1>2. Types /\ Control /\ Kept /\ Severed /\ InputKept BY DEF HInv
  <1>3. /\ Arriving \in Seq(Items) /\ pending \in Seq(Items) /\ out \in Seq(Items)
        /\ Underway = (Arriving \o pending) \o out
    <2>1. shown \o ring \in Seq(Items) /\ pipe \in Seq(Items) BY <1>2, Joined DEF Types
    <2>2. (shown \o ring) \o pipe \in Seq(Items) BY <2>1, Joined
    <2> QED BY <1>2, <2>2 DEF Types, Arriving, Underway
  <1>4. /\ Arriving' = Arriving /\ Underway' = Arriving \o out
    <2>1. Arriving' = Arriving BY <1>1 DEF Arriving
    <2>2. Underway' = (Arriving' \o pending') \o out' BY DEF Arriving, Underway
    <2>3. Arriving \o <<>> = Arriving BY <1>3, ConcatEmptySeq
    <2> QED BY <1>1, <2>1, <2>2, <2>3
  <1>5. Open' <=> Open BY <1>1 DEF Open
  <1>6. Types'
    <2>1. pending' \in Seq(Items) BY <1>1
    <2> QED BY <1>1, <1>2, <2>1 DEF Types
  <1>7. Control' BY <1>1, <1>2 DEF Control
  <1>8. InputKept' BY <1>1, <1>2, InputSame
  <1>9. Kept' /\ Severed'
    <2>1. CASE ~Open BY <1>1, <1>2, <1>5, <2>1 DEF Kept, Severed
    <2>2. CASE Open
      <3>1. /\ InOrder(Arriving \o out) /\ Before(Arriving, pending)
            /\ Written(Underway) = Written(Arriving \o out) \cup Written(pending)
            /\ Written(Arriving \o out) \cap Written(pending) = {}
        BY <1>2, <1>3, <2>2, CutOut DEF Kept
      <3>2. InOrder(Underway)' /\ Written(Underway)' = Written(Arriving \o out)
        BY <1>4, <3>1 DEF InOrder, Written
      <3>3. Kept' BY <1>1, <1>2, <2>2, <3>1, <3>2 DEF Kept
      <3>5. cut' \subseteq 1 .. made' BY <1>1, <1>2, <2>2, <3>1 DEF Kept, Severed
      <3>4. Severed'
        <4>1. CASE pump' = "read" /\ transport = "posix"
          BY <1>1, <1>2, <1>5, <3>5, <4>1 DEF Severed
        <4>2. CASE pump' = "died" /\ Raises
          <5>1. transport # "posix" /\ cut = {} BY <1>1, <1>2, <2>2, <4>2 DEF Raises, Severed
          <5>2. cut' = Written(pending) BY <1>1, <5>1
          <5>3. Written(Arriving)' = Written(Arriving) BY <1>4 DEF Written
          <5> QED BY <1>1, <3>1, <3>5, <4>2, <5>1, <5>2, <5>3 DEF Severed, Before
        <4> QED BY <1>1, <4>1, <4>2
      <3> QED BY <3>3, <3>4
    <2> QED BY <2>1, <2>2
  <1> QED BY <1>6, <1>7, <1>8, <1>9 DEF HInv

LEMMA MainRelaysKeeps == ASSUME HInv, MainRelays, UNCHANGED transport PROVE HInv'
  <1>1. PICK n \in LinkRead :
          /\ back' = SubSeq(back, n + 1, Len(back))
          /\ IF alive
             THEN input' = input \o Typed(Got(n)) /\ UNCHANGED <<main, stop, alive>>
             ELSE Finish /\ UNCHANGED <<input, paused>>
    BY DEF MainRelays
  <1>2. /\ main = "relay"
        /\ UNCHANGED <<heard, pump, pending, out, pipe, ring, shown, sent, made, lost, apple, cut, transport>>
    BY DEF MainRelays, terminal
  <1>3. Types /\ Control /\ Kept /\ Severed /\ InputKept BY DEF HInv
  <1>4. heard \in Seq(Items) /\ back \in Seq(Items) /\ input \in Seq(Items) BY <1>3 DEF Types
  <1>5. n \in 0 .. Len(back) /\ Len(back) > 0 BY <1>4, SizeAssumption DEF LinkRead
  <1>6. Got(n) \in Seq(Items) /\ back' \in Seq(Items) /\ Got(n) \o back' = back
    BY <1>1, <1>4, <1>5, Cut DEF Got
  <1>7. input' \in Seq(Items)
    <2>1. input' = input \o Got(n) \/ input' = input BY <1>1 DEF Typed
    <2> QED BY <1>4, <1>6, <2>1, Joined
  <1>8. Types' BY <1>2, <1>3, <1>6, <1>7 DEF Types
  <1>9. Underway' = Underway /\ (Open' => Open) BY <1>2 DEF Underway, Open
  <1>10. Kept' BY <1>2, <1>3, <1>9, KeptSame
  <1>11. apple # "booting"
    <2>1. back # <<>> BY <1>5
    <2> QED BY <1>3, <2>1 DEF Control
  <1>12. main' \notin {"ask", "wait"} BY <1>1, <1>2 DEF Finish
  <1>13. Control' BY <1>2, <1>3, <1>11, <1>12 DEF Control
  <1>14. InputKept'
    <2>1. CASE ~alive BY <1>1, <1>12, <2>1 DEF Finish, InputKept
    <2>2. CASE alive
      <3>1. heard \o input \o back = sent /\ input' = input \o Got(n)
        BY <1>1, <1>3, <2>2 DEF InputKept, Typed
      <3>2. heard \o input \in Seq(Items) BY <1>4, Joined
      <3>3. heard \o (input \o Got(n)) = (heard \o input) \o Got(n)
        <4>1. Associates(heard, input, Got(n)) BY <1>4, <1>6, Associative
        <4> QED BY <4>1, Zenon DEF Associates
      <3>4. ((heard \o input) \o Got(n)) \o back' = (heard \o input) \o (Got(n) \o back')
        <4>1. Associates(heard \o input, Got(n), back') BY <1>6, <3>2, Associative
        <4> QED BY <4>1, Zenon DEF Associates
      <3>5. heard' \o input' \o back' = sent'
        BY <1>2, <1>6, <3>1, <3>3, <3>4, Zenon
      <3> QED BY <3>5 DEF InputKept
    <2> QED BY <2>1, <2>2
  <1>15. Severed'
    <2>1. Written(Arriving)' = Written(Arriving) BY <1>2 DEF Arriving, Written
    <2> QED BY <1>2, <1>3, <2>1, SeveredSame DEF Open, Types
  <1> QED BY <1>8, <1>10, <1>13, <1>14, <1>15 DEF HInv

LEMMA ProduceKeeps == ASSUME HInv, Produce, UNCHANGED transport PROVE HInv'
  <1> DEFINE x == Out(made + 1)
  <1>1. /\ alive /\ made' = made + 1 /\ out' = Append(out, x)
        /\ UNCHANGED <<main, heard, pump, pending, alive, input, pipe, back, ring, shown, sent, lost,
                       apple, cut, transport>>
    BY DEF Produce, threads, terminal
  <1>2. Types /\ Control /\ Kept /\ Severed /\ InputKept BY DEF HInv
  <1>3. made \in Nat /\ x \in Items /\ x.kind = "out" /\ x.n = made + 1
    BY <1>2 DEF Types, Items, Out
  <1> HIDE DEF x
  <1>4. out \in Seq(Items) /\ out' \in Seq(Items) /\ out' = out \o <<x>> /\ <<x>> \in Seq(Items)
    BY <1>1, <1>2, <1>3, AppendProperties, AppendIsConcat DEF Types
  <1>5. Types' BY <1>1, <1>2, <1>3, <1>4 DEF Types
  <1>6. Control' BY <1>1, <1>2 DEF Control
  <1>7. InputKept' BY <1>1, <1>2, InputSame
  <1>8. Underway \in Seq(Items) BY <1>2, UnderwayRow DEF Row
  <1>9. Underway' = Append(Underway, x)
    <2> DEFINE front == shown \o ring \o pipe \o pending
    <2>1. front \in Seq(Items)
      <3>1. shown \o ring \in Seq(Items) /\ pipe \in Seq(Items) /\ pending \in Seq(Items)
        BY <1>2, Joined DEF Types
      <3>2. (shown \o ring) \o pipe \in Seq(Items) BY <3>1, Joined
      <3> QED BY <3>1, <3>2, Joined
    <2>2. Underway = front \o out /\ Underway' = front \o out' BY <1>1 DEF Underway
    <2> HIDE DEF front
    <2>3. (front \o out) \o <<x>> = front \o (out \o <<x>>)
      <3>1. Associates(front, out, <<x>>) BY <1>4, <2>1, Associative
      <3> QED BY <3>1, Zenon DEF Associates
    <2>4. Append(Underway, x) = Underway \o <<x>> BY <1>3, <1>8, AppendIsConcat
    <2> QED BY <1>4, <2>2, <2>3, <2>4, Zenon
  <1>10. Kept'
    <2> SUFFICES ASSUME Open' PROVE Kept' BY DEF Kept
    <2>1. Open BY <1>1 DEF Open
    <2>2. InOrder(Underway) /\ Written(Underway) \subseteq (1 .. made) \ cut BY <1>2, <2>1 DEF Kept
    <2>3. InOrder(Append(Underway, x)) /\ Written(Append(Underway, x)) = Written(Underway) \cup {made + 1}
      BY <1>3, <1>8, <2>2, Extended
    <2>4. InOrder(Underway)' /\ Written(Underway)' = Written(Underway) \cup {made + 1}
      BY <1>9, <2>3 DEF InOrder, Written
    <2>5. (1 .. made + 1) \ cut = ((1 .. made) \ cut) \cup {made + 1}
      <3>1. 1 .. made + 1 = (1 .. made) \cup {made + 1} /\ made + 1 \notin 1 .. made BY <1>3
      <3>2. made + 1 \notin cut BY <1>2, <2>1, <3>1 DEF Severed
      <3> QED BY <3>1, <3>2
    <2>6. ~lost /\ Cpr \in Range(heard) => Written(Underway) = (1 .. made) \ cut BY <1>2, <2>1 DEF Kept
    <2> QED BY <1>1, <2>2, <2>4, <2>5, <2>6 DEF Kept
  <1>11. Severed'
    <2>1. Written(Arriving)' = Written(Arriving) BY <1>1 DEF Arriving, Written
    <2> QED BY <1>1, <1>2, <2>1, SeveredSame DEF Open, Types
  <1> QED BY <1>5, <1>6, <1>7, <1>10, <1>11 DEF HInv

\* The terminal sends, or not.
LEMMA SendKeeps ==
  ASSUME HInv, NEW items \in Seq(Items), Send(items), UNCHANGED <<heard, input, alive, main>>
  PROVE  InputKept' /\ back' \in Seq(Items) /\ sent' \in Seq(Items)
  <1>1. heard \in Seq(Items) /\ input \in Seq(Items) /\ back \in Seq(Items) /\ sent \in Seq(Items)
    BY DEF HInv, Types
  <1>2. back' = back \o items /\ sent' = sent \o items BY DEF Send
  <1>3. heard \o input \in Seq(Items) BY <1>1, Joined
  <1>4. ((heard \o input) \o back) \o items = (heard \o input) \o (back \o items)
    <2>1. Associates(heard \o input, back, items) BY <1>1, <1>3, Associative
    <2> QED BY <2>1, Zenon DEF Associates
  <1>5. InputKept'
    <2> SUFFICES ASSUME alive \/ main \in {"ask", "wait"} PROVE heard' \o input' \o back' = sent'
      BY DEF InputKept
    <2>1. (heard \o input) \o back = sent BY DEF HInv, InputKept
    <2> QED BY <1>2, <1>4, <2>1, Zenon
  <1> QED BY <1>1, <1>2, <1>5, Joined

\* An item that is lost on its way to the screen leaves the rest of the stream.
LEMMA DroppedKeeps ==
  ASSUME HInv, Open, made' = made, NEW h \in Items,
         \/ /\ pipe # <<>> /\ h = Head(pipe) /\ pipe' = Tail(pipe)
            /\ UNCHANGED <<shown, ring, pending, out>>
         \/ /\ ring # <<>> /\ h = Head(ring) /\ ring' = Tail(ring)
            /\ UNCHANGED <<shown, pipe, pending, out>>
  PROVE  /\ InOrder(Underway)'
         /\ Written(Underway) = Written(Underway)' \cup (IF h.kind = "out" THEN {h.n} ELSE {})
  <1>1. /\ shown \in Seq(Items) /\ ring \in Seq(Items) /\ pipe \in Seq(Items)
        /\ pending \in Seq(Items) /\ out \in Seq(Items)
    BY DEF HInv, Types
  <1>2. pending \o out \in Seq(Items) /\ shown \o ring \in Seq(Items) BY <1>1, Joined
  <1>3. pipe \o (pending \o out) \in Seq(Items) BY <1>1, <1>2, Joined
  <1>4. InOrder(Underway) /\ Row(Underway, shown, ring, pipe, pending, out)
    BY UnderwayRow DEF HInv, Kept
  <1>5. \A a, b, c, d, e \in Seq(Items) : Row(a \o b \o c \o d \o e, a, b, c, d, e) BY InARow
  <1>6. CASE /\ pipe # <<>> /\ h = Head(pipe) /\ pipe' = Tail(pipe)
             /\ UNCHANGED <<shown, ring, pending, out>>
    <2> DEFINE a == shown \o ring
               b == pipe \o (pending \o out)
    <2>1. Tail(pipe) \in Seq(Items) BY <1>1, <1>6, FrontOf
    <2>2. b # <<>> /\ Head(b) = h /\ Tail(b) = Tail(pipe) \o (pending \o out)
      BY <1>1, <1>2, <1>6, FrontOfJoined
    <2>3. Underway = a \o b BY <1>4, Zenon DEF Row
    <2>4. Underway' = shown \o ring \o Tail(pipe) \o pending \o out BY <1>6 DEF Underway
    <2>5. Row(Underway', shown, ring, Tail(pipe), pending, out) BY <1>1, <1>5, <2>1, <2>4, Zenon
    <2>6. Underway' = a \o Tail(b) BY <2>2, <2>5, Zenon DEF Row
    <2>7. a \in Seq(Items) /\ b \in Seq(Items) BY <1>2, <1>3
    <2> HIDE DEF a, b
    <2>8. InOrder(a \o b) BY <1>4, <2>3
    <2>9. InOrder(a \o Tail(b)) /\ Written(a \o b) = Written(a \o Tail(b))
                                       \cup (IF h.kind = "out" THEN {h.n} ELSE {})
      BY <2>2, <2>7, <2>8, Dropped
    <2>10. InOrder(Underway)' /\ Written(Underway)' = Written(a \o Tail(b))
      BY <2>6, <2>9 DEF InOrder, Written
    <2> QED BY <2>3, <2>9, <2>10
  <1>7. CASE /\ ring # <<>> /\ h = Head(ring) /\ ring' = Tail(ring)
             /\ UNCHANGED <<shown, pipe, pending, out>>
    <2> DEFINE c == pipe \o (pending \o out)
               b == ring \o c
    <2>1. Tail(ring) \in Seq(Items) BY <1>1, <1>7, FrontOf
    <2>2. b # <<>> /\ Head(b) = h /\ Tail(b) = Tail(ring) \o c
      BY <1>1, <1>3, <1>7, FrontOfJoined
    <2>3. Underway = shown \o b BY <1>4, Zenon DEF Row
    <2>4. Underway' = shown \o Tail(ring) \o pipe \o pending \o out BY <1>7 DEF Underway
    <2>5. Row(Underway', shown, Tail(ring), pipe, pending, out) BY <1>1, <1>5, <2>1, <2>4, Zenon
    <2>6. Underway' = shown \o Tail(b) BY <2>2, <2>5, Zenon DEF Row
    <2>7. b \in Seq(Items) BY <1>1, <1>3, Joined
    <2> HIDE DEF b
    <2>8. InOrder(shown \o b) BY <1>4, <2>3
    <2>9. InOrder(shown \o Tail(b)) /\ Written(shown \o b) = Written(shown \o Tail(b))
                                           \cup (IF h.kind = "out" THEN {h.n} ELSE {})
      BY <1>1, <2>2, <2>7, <2>8, Dropped
    <2>10. InOrder(Underway)' /\ Written(Underway)' = Written(shown \o Tail(b))
      BY <2>6, <2>9 DEF InOrder, Written
    <2> QED BY <2>3, <2>9, <2>10
  <1> QED BY <1>6, <1>7

LEMMA ReceiveKeeps == ASSUME HInv, Receive, UNCHANGED transport PROVE HInv'
  <1>1. /\ Open /\ pipe # <<>> /\ pipe' = Tail(pipe)
        /\ UNCHANGED <<main, heard, pump, pending, alive, made, out, input, apple, shown, cut, transport>>
    BY DEF Receive, threads, shell
  <1>2. Types /\ Control /\ Kept /\ Severed /\ InputKept BY DEF HInv
  <1>3. pipe \in Seq(Items) /\ ring \in Seq(Items) BY <1>2 DEF Types
  <1>4. Head(pipe) \in Items /\ pipe' \in Seq(Items) BY <1>1, <1>3, FrontOf
  <1>5. \/ UNCHANGED <<ring, back, sent>> /\ ((apple = "booting" /\ lost' = lost) \/ lost')
        \/ /\ apple # "booting" /\ ring' = Append(ring, Head(pipe)) /\ lost' = lost
           /\ Send(<<XOFF>>) \/ UNCHANGED <<back, sent>>
    BY DEF Receive
  <1>6. InputKept' /\ back' \in Seq(Items) /\ sent' \in Seq(Items)
    <2>1. CASE UNCHANGED <<back, sent>> BY <1>1, <1>2, <2>1, InputSame DEF Types
    <2>2. CASE Send(<<XOFF>>)
      <3>1. XOFF \in Items BY Signals DEF XOFF
      <3>2. <<XOFF>> \in Seq(Items) BY <3>1
      <3> QED BY <1>1, <2>2, <3>2, SendKeeps
    <2> QED BY <1>5, <2>1, <2>2
  <1>7. Control'
    <2>1. apple = "booting" => UNCHANGED <<back, sent>> BY <1>5
    <2> QED BY <1>1, <1>2, <2>1 DEF Control
  <1>10. Severed'
    <2>1. Written(Arriving)' \subseteq Written(Arriving)
      <3>1. CASE ring' = ring BY <1>1, <1>3, <3>1, ArrivingShrinks DEF HInv
      <3>2. CASE ring' = Append(ring, Head(pipe)) BY <1>1, <1>3, <3>2, ArrivingShrinks DEF HInv
      <3> QED BY <1>5, <3>1, <3>2
    <2> QED BY <1>1, <1>2, <2>1, SeveredSame DEF Open, Types
  <1>8. CASE UNCHANGED <<ring, back, sent>> /\ ((apple = "booting" /\ lost' = lost) \/ lost')
    <2>1. Types' BY <1>1, <1>2, <1>4, <1>8 DEF Types
    <2>2. /\ InOrder(Underway)'
          /\ Written(Underway)' \subseteq Written(Underway)
      BY <1>1, <1>4, <1>8, DroppedKeeps
    <2>3. Written(Underway) \subseteq (1 .. made) \ cut BY <1>1, <1>2 DEF Kept
    <2>4. apple = "booting" => Cpr \notin Range(heard)
      <3> SUFFICES ASSUME apple = "booting" PROVE Cpr \notin Range(heard) OBVIOUS
      <3>1. heard = <<>> BY <1>2 DEF Control
      <3> QED BY <3>1 DEF Range
    <2>5. Kept' BY <1>1, <1>8, <2>2, <2>3, <2>4 DEF Kept
    <2> QED BY <1>6, <1>7, <1>10, <2>1, <2>5 DEF HInv
  <1>9. CASE apple # "booting" /\ ring' = Append(ring, Head(pipe)) /\ lost' = lost
    <2>1. ring' \in Seq(Items) /\ ring' \o pipe' = ring \o pipe BY <1>1, <1>3, <1>9, Handover
    <2>2. Types' BY <1>1, <1>2, <1>4, <1>6, <2>1 DEF Types
    <2>3. Underway' = Underway /\ (Open' => Open) BY <1>1, <1>2, <2>1, <2>2, Moved
    <2>4. Kept' BY <1>1, <1>2, <1>9, <2>3, KeptSame
    <2> QED BY <1>6, <1>7, <1>10, <2>2, <2>4 DEF HInv
  <1> QED BY <1>5, <1>8, <1>9

LEMMA ProcessKeeps == ASSUME HInv, Process, UNCHANGED transport PROVE HInv'
  <1>1. /\ apple = "up" /\ ring # <<>> /\ ring' = Tail(ring)
        /\ shown' = IF Head(ring) = Ask THEN shown ELSE Append(shown, Head(ring))
        /\ UNCHANGED <<main, heard, pump, pending, alive, made, out, input, apple, pipe, lost, cut, transport>>
    BY DEF Process, threads, shell
  <1>2. Types /\ Control /\ Kept /\ Severed /\ InputKept BY DEF HInv
  <1>3. pipe \in Seq(Items) /\ ring \in Seq(Items) /\ shown \in Seq(Items) BY <1>2 DEF Types
  <1>4. Head(ring) \in Items /\ ring' \in Seq(Items) BY <1>1, <1>3, FrontOf
  <1>5. InputKept' /\ back' \in Seq(Items) /\ sent' \in Seq(Items)
    <2>1. XON \in Items /\ Cpr \in Items BY Signals DEF XON, Cpr
    <2>2. <<XON>> \in Seq(Items) /\ <<Cpr>> \in Seq(Items) /\ <<>> \in Seq(Items) BY <2>1
    <2>3. PICK x \in {<<XON>>, <<>>}, y \in {<<Cpr>>, <<>>} : Send(x \o y) BY DEF Process
    <2>4. x \in Seq(Items) /\ y \in Seq(Items) BY <2>2
    <2>5. x \o y \in Seq(Items) BY <2>4, Joined
    <2> QED BY <1>1, <2>3, <2>5, SendKeeps
  <1>6. Control' BY <1>1, <1>2 DEF Control
  <1>7. Open /\ (Open' => Open) BY <1>1 DEF Open
  <1>10. Severed'
    <2>1. Written(Arriving)' \subseteq Written(Arriving)
      <3>1. CASE shown' = shown BY <1>1, <1>3, <3>1, ArrivingShrinks DEF HInv
      <3>2. CASE shown' = Append(shown, Head(ring)) BY <1>1, <1>3, <3>2, ArrivingShrinks DEF HInv
      <3> QED BY <1>1, <3>1, <3>2
    <2> QED BY <1>1, <1>2, <2>1, SeveredSame DEF Open, Types
  <1>8. CASE Head(ring) = Ask
    <2>1. shown' = shown BY <1>1, <1>8
    <2>2. Types' BY <1>1, <1>2, <1>4, <1>5, <2>1 DEF Types
    <2>3. Head(ring).kind # "out" BY <1>8 DEF Ask, Item
    <2>4. InOrder(Underway)' /\ Written(Underway)' = Written(Underway)
      BY <1>1, <1>4, <1>7, <2>1, <2>3, DroppedKeeps
    <2>5. Kept' BY <1>1, <1>2, <1>7, <2>4 DEF Kept
    <2> QED BY <1>5, <1>6, <1>10, <2>2, <2>5 DEF HInv
  <1>9. CASE Head(ring) # Ask
    <2>1. shown' \in Seq(Items) /\ shown' \o ring' = shown \o ring
      BY <1>1, <1>3, <1>9, Handover
    <2>2. Types' BY <1>1, <1>2, <1>4, <1>5, <2>1 DEF Types
    <2>3. Underway' = Underway BY <1>1, <1>2, <2>1, <2>2, Moved
    <2>4. Kept' BY <1>1, <1>2, <1>7, <2>3, KeptSame
    <2> QED BY <1>5, <1>6, <1>10, <2>2, <2>4 DEF HInv
  <1> QED BY <1>8, <1>9

LEMMA OutsideKeeps == ASSUME HInv, Type \/ Leave, UNCHANGED transport PROVE HInv'
  <1>1. Types /\ Control /\ Kept /\ Severed /\ InputKept BY DEF HInv
  <1>2. CASE Type
    <2>1. /\ apple = "up"
          /\ UNCHANGED <<main, heard, pump, pending, alive, made, out, input, apple, pipe, lost, ring,
                         shown, cut, transport>>
      BY <1>2 DEF Type, threads, shell, terminal
    <2>2. PICK k \in Keys : Send(<<Item(k)>>) BY <1>2 DEF Type
    <2>3. Item(k) \in Items BY Signals
    <2>4. <<Item(k)>> \in Seq(Items) BY <2>3
    <2>5. InputKept' /\ back' \in Seq(Items) /\ sent' \in Seq(Items) BY <2>1, <2>2, <2>4, SendKeeps
    <2>6. Types' BY <1>1, <2>1, <2>5 DEF Types
    <2>7. Control' BY <1>1, <2>1 DEF Control
    <2>8. Underway' = Underway /\ (Open' => Open) BY <2>1 DEF Underway, Open
    <2>9. Kept' BY <1>1, <2>1, <2>8, KeptSame
    <2>10. Severed'
      <3>1. Written(Arriving)' = Written(Arriving) BY <2>1 DEF Arriving, Written
      <3> QED BY <1>1, <2>1, <3>1, SeveredSame DEF Open, Types
    <2> QED BY <2>5, <2>6, <2>7, <2>9, <2>10 DEF HInv
  <1>3. CASE Leave
    <2>1. /\ apple' = "gone" /\ pipe' = <<>> /\ transport # "posix"
          /\ UNCHANGED <<main, heard, pump, pending, alive, made, out, input, back, sent, lost, ring,
                         shown, cut, transport>>
      BY <1>3 DEF Leave, threads, shell
    <2>2. pipe' \in Seq(Items) BY <2>1
    <2>3. Types' BY <1>1, <2>1, <2>2 DEF Types
    <2>4. Control' BY <1>1, <2>1 DEF Control
    <2>5. Kept' BY <2>1 DEF Kept, Open
    <2>6. InputKept' BY <1>1, <2>1, InputSame
    <2>7. Severed' BY <1>1, <2>1 DEF Severed, Open
    <2> QED BY <2>3, <2>4, <2>5, <2>6, <2>7 DEF HInv
  <1> QED BY <1>2, <1>3

LEMMA HInvInit == Init => HInv
  <1> SUFFICES ASSUME Init PROVE HInv OBVIOUS
  <1>1. <<>> \in Seq(Items) OBVIOUS
  <1>2. Types /\ Severed BY <1>1 DEF Init, Types, Severed, Open
  <1>3. Control BY DEF Init, Control
  <1>4. Kept
    <2>1. Underway = <<>> BY DEF Init, Underway
    <2>2. InOrder(<<>>) /\ Written(<<>>) = {} BY WrittenNone DEF InOrder
    <2>3. made = 0 /\ (1 .. 0) \ cut = {} BY DEF Init
    <2> QED BY <2>1, <2>2, <2>3 DEF Kept
  <1>5. InputKept BY DEF Init, InputKept
  <1> QED BY <1>2, <1>3, <1>4, <1>5 DEF HInv

LEMMA HInvNext == HInv /\ [Next]_vars => HInv'
  <1> SUFFICES ASSUME HInv, [Next]_vars PROVE HInv' OBVIOUS
  <1>0. UNCHANGED transport BY DEF Next, Stop, vars
  <1>1. CASE Quiet BY <1>0, <1>1, QuietKeeps
  <1>2. CASE AskReady \/ WaitReads BY <1>0, <1>2, AskReadyKeeps, WaitReadsKeeps
  <1>3. CASE PumpReads \/ PumpWrites \/ PumpDies \/ PumpDrops
    BY <1>0, <1>3, PumpReadsKeeps, PumpWritesKeeps, PumpFailsKeeps
  <1>4. CASE MainRelays \/ Produce BY <1>0, <1>4, MainRelaysKeeps, ProduceKeeps
  <1>5. CASE Receive \/ Process BY <1>0, <1>5, ReceiveKeeps, ProcessKeeps
  <1>6. CASE Type \/ Leave BY <1>0, <1>6, OutsideKeeps
  <1>7. CASE UNCHANGED vars
    <2>1. UNCHANGED <<main, heard, pump, pending, alive, made, out, input, pipe, back, apple, ring, shown,
                      sent, lost, cut, transport>>
      BY <1>7 DEF vars, threads, shell, terminal
    <2>2. Types' /\ Control' BY <2>1 DEF HInv, Types, Control
    <2>6. Severed'
      <3>1. Written(Arriving)' = Written(Arriving) BY <2>1 DEF Arriving, Written
      <3> QED BY <2>1, <3>1, SeveredSame DEF HInv, Open, Types
    <2>3. Underway' = Underway /\ (Open' => Open) BY <2>1 DEF Underway, Open
    <2>4. Kept' BY <2>1, <2>3, KeptSame DEF HInv
    <2>5. InputKept' BY <2>1, InputSame DEF HInv
    <2> QED BY <2>2, <2>4, <2>5, <2>6 DEF HInv
  <1> QED BY <1>1, <1>2, <1>3, <1>4, <1>5, <1>6, <1>7
      DEF Next, Stop, Bridge, Main, Pump, Apple, Quiet

\* The bridge is faithful both ways: what bash wrote is underway once and in its order,
\* without gaps but for what a failing write still held while the terminal runs and loses
\* nothing, nothing follows what was lost when the thread died of it, and what the terminal
\* sent was read while waiting, was typed into bash or is still on its way.
THEOREM StreamsKeptCorrect == Spec => []StreamsKept
  <1>1. HInv => StreamsKept BY DEF HInv, Kept, Severed, StreamsKept, OutputKept
  <1> QED BY <1>1, HInvInit, HInvNext, PTL DEF Spec
================================================================================
