----------------------------- MODULE Programs_proofs -----------------------------
(***************************************************************************)
(* Theorems about the two programs: about Snake for a board, a ring and a  *)
(* length to win with of any size, and food that falls anywhere inside the *)
(* border; and about the serial echo for any lines.                        *)
(***************************************************************************)
EXTENDS Programs, FiniteSetTheorems, FunctionTheorems, SequenceTheorems, WellFoundedInduction,
        TLAPS

(***************************************************************************)
(* The ring by distances from the tail, which spares the proofs the        *)
(* remainders.                                                             *)
(***************************************************************************)
Indices == 0 .. Ring - 1

Dist(i) == IF i >= tail THEN i - tail ELSE i - tail + Ring

Types ==
  /\ pc \in {"food", "play", "over", "won", "dos"} /\ direction \in Directions
  /\ head \in Indices /\ tail \in Indices /\ length \in Nat
  /\ body \in [Indices -> Cells \cup {None}]
  /\ screen \in [Cells -> {"black", "border", "snake", "food"}]

\* The ring holds as many cells as the length says, and a round not yet won leaves one free.
Sized ==
  /\ length = Dist(head) + 1 /\ 4 <= length /\ length <= MaxLength
  /\ pc # "won" => length < MaxLength

\* The live cells lie inside the border and differ.
Apart ==
  /\ \A i \in Live : body[i] \in Interior
  /\ \A i, j \in Live : body[i] = body[j] => i = j

\* Every cell of the screen shows what is there.
Drawn ==
  /\ \A c \in Cells : screen[c] = "snake" <=> \E i \in Live : body[i] = c
  /\ \A c \in Cells : screen[c] = "border" <=> c \in Border

Served ==
  /\ pc = "play" => \E f \in Cells : \A c \in Cells : screen[c] = "food" <=> c = f
  /\ pc # "play" => \A c \in Cells : screen[c] # "food"

SnakeInv == Types /\ (Begun => Sized /\ Apart /\ Drawn /\ Served /\ BodyConnected)

--------------------------------------------------------------------------------
LEMMA Board ==
  /\ Grid \in Nat /\ Ring \in Nat /\ MaxLength \in Nat /\ Grid >= 6 /\ Ring >= 6
  /\ MaxLength < Ring /\ StartLength = 4 /\ 4 < MaxLength
  /\ Center \in Nat /\ Center - 2 >= 1 /\ Center + 1 <= Last - 1 /\ Last \in Nat
  BY SnakeAssumption DEF Last, Center

LEMMA InsideOnScreen == Interior \subseteq Cells /\ Border \cap Interior = {}
  <1>1. 1 .. Last - 1 \subseteq 0 .. Last BY Board
  <1> QED BY <1>1 DEF Interior, Cells, Border

\* The remainders the game takes of the ring's indices.
LEMMA Remainder ==
  ASSUME NEW size \in Nat, size >= 1
  PROVE  /\ \A i \in 0 .. size - 1 : (i + 1) % size = IF i = size - 1 THEN 0 ELSE i + 1
         /\ \A i \in 0 .. size - 1, t \in 0 .. size - 1 :
              (i - t) % size = IF i >= t THEN i - t ELSE i - t + size
  <1>1. ASSUME NEW x \in - size .. 2 * size - 1
        PROVE  x % size = IF x < 0 THEN x + size ELSE IF x < size THEN x ELSE x - size
    BY SMTT(30)
  <1>2. \A i \in 0 .. size - 1 : (i + 1) % size = IF i = size - 1 THEN 0 ELSE i + 1
    BY <1>1
  <1>3. ASSUME NEW i \in 0 .. size - 1, NEW t \in 0 .. size - 1
        PROVE  (i - t) % size = IF i >= t THEN i - t ELSE i - t + size
    <2>1. PICK x \in - size .. 2 * size - 1 : x = i - t OBVIOUS
    <2>2. x % size = IF x < 0 THEN x + size ELSE IF x < size THEN x ELSE x - size BY <1>1
    <2> QED BY <2>1, <2>2
  <1> QED BY <1>2, <1>3

LEMMA Differences ==
  \A i, t \in Indices : (i - t) % Ring = IF i >= t THEN i - t ELSE i - t + Ring
  <1>1. Ring \in Nat /\ Ring >= 1 BY Board
  <1>2. \A i \in 0 .. Ring - 1, t \in 0 .. Ring - 1 :
          (i - t) % Ring = IF i >= t THEN i - t ELSE i - t + Ring
    BY <1>1, Remainder, Zenon
  <1> QED BY <1>2 DEF Indices

LEMMA SuccIs ==
  \A i \in Indices : Succ(i) \in Indices /\ Succ(i) = IF i = Ring - 1 THEN 0 ELSE i + 1
  <1>1. \A i \in 0 .. Ring - 1 : (i + 1) % Ring = IF i = Ring - 1 THEN 0 ELSE i + 1
    BY Board, Remainder
  <1> QED BY <1>1, Board DEF Succ, Indices

LEMMA LiveIs ==
  ASSUME head \in Indices, tail \in Indices
  PROVE  Live = {i \in Indices : Dist(i) <= Dist(head)}
  <1>1. \A i \in Indices : (i - tail) % Ring = Dist(i)
    BY Differences DEF Dist
  <1> QED BY <1>1 DEF Live, Indices

LEMMA LiveIsNext ==
  ASSUME head' \in Indices, tail' \in Indices
  PROVE  Live' = {i \in Indices : Dist(i)' <= Dist(head)'}
  <1>1. \A i \in Indices : (i - tail') % Ring = Dist(i)'
    <2> SUFFICES ASSUME NEW i \in Indices PROVE (i - tail') % Ring = Dist(i)' OBVIOUS
    <2>1. Dist(i)' = IF i >= tail' THEN i - tail' ELSE i - tail' + Ring BY DEF Dist
    <2> QED BY Differences, <2>1
  <1>2. (head' - tail') % Ring = Dist(head)'
    <2>1. Dist(head)' = IF head' >= tail' THEN head' - tail' ELSE head' - tail' + Ring
      BY DEF Dist
    <2> QED BY Differences, <2>1
  <1> QED BY <1>1, <1>2 DEF Live, Indices

--------------------------------------------------------------------------------
(***************************************************************************)
(* The ring after a step.                                                  *)
(***************************************************************************)
\* The head moves into the free slot.
LEMMA HeadOn ==
  ASSUME head \in Indices, tail \in Indices, Dist(head) + 1 < Ring,
         head' = Succ(head), tail' = tail
  PROVE  /\ Succ(head) \in Indices \ Live /\ Live' = Live \cup {Succ(head)}
         /\ Dist(head)' = Dist(head) + 1
  <1>1. Succ(head) \in Indices /\ Succ(head) = IF head = Ring - 1 THEN 0 ELSE head + 1
    BY SuccIs
  <1>2. Dist(Succ(head)) = Dist(head) + 1 /\ Dist(head)' = Dist(head) + 1
    BY <1>1, Board DEF Dist, Indices
  <1>3. \A i \in Indices : Dist(i)' = Dist(i) /\ Dist(i) \in Nat
    BY Board DEF Dist, Indices
  <1>4. \A i \in Indices : Dist(i) = Dist(Succ(head)) => i = Succ(head)
    BY <1>1, Board DEF Dist, Indices
  <1>5. Live = {i \in Indices : Dist(i) <= Dist(head)} BY LiveIs
  <1>6. Live' = {i \in Indices : Dist(i)' <= Dist(head)'} BY <1>1, LiveIsNext
  <1>7. \A i \in Indices : Dist(i)' <= Dist(head)' <=> Dist(i) <= Dist(head) \/ i = Succ(head)
    BY <1>1, <1>2, <1>3, <1>4
  <1> QED BY <1>1, <1>2, <1>3, <1>5, <1>6, <1>7

\* The head moves on and the tail after it.
LEMMA BothOn ==
  ASSUME head \in Indices, tail \in Indices, Dist(head) + 1 < Ring, Dist(head) >= 1,
         head' = Succ(head), tail' = Succ(tail)
  PROVE  /\ Succ(head) \in Indices \ Live /\ tail \in Live
         /\ Live' = (Live \ {tail}) \cup {Succ(head)}
         /\ Dist(head)' = Dist(head)
  <1>1. /\ Succ(head) \in Indices /\ Succ(head) = IF head = Ring - 1 THEN 0 ELSE head + 1
        /\ Succ(tail) \in Indices /\ Succ(tail) = IF tail = Ring - 1 THEN 0 ELSE tail + 1
    BY SuccIs
  <1>2. Dist(Succ(head)) = Dist(head) + 1 /\ Dist(head)' = Dist(head) /\ Dist(tail) = 0
    BY <1>1, Board DEF Dist, Indices
  <1>3. \A i \in Indices : /\ Dist(i) \in Nat /\ Dist(i)' \in Nat
                            /\ Dist(i)' = IF i = tail THEN Ring - 1 ELSE Dist(i) - 1
    BY <1>1, Board DEF Dist, Indices
  <1>4. \A i \in Indices : Dist(i) = Dist(Succ(head)) => i = Succ(head)
    BY <1>1, Board DEF Dist, Indices
  <1>5. Live = {i \in Indices : Dist(i) <= Dist(head)} BY LiveIs
  <1>6. Live' = {i \in Indices : Dist(i)' <= Dist(head)'} BY <1>1, LiveIsNext
  <1>7. \A i \in Indices : Dist(i)' <= Dist(head)'
                            <=> (Dist(i) <= Dist(head) /\ i # tail) \/ i = Succ(head)
    BY <1>1, <1>2, <1>3, <1>4, Board
  <1> QED BY <1>1, <1>2, <1>3, <1>5, <1>6, <1>7

\* A live index other than the head is followed by a live one.
LEMMA SuccLive ==
  ASSUME head \in Indices, tail \in Indices, NEW i \in Live, i # head
  PROVE  Succ(i) \in Live /\ Succ(i) # tail
  <1>1. i \in Indices /\ Dist(i) <= Dist(head) /\ Dist(head) <= Ring - 1
    BY LiveIs, Board DEF Dist, Indices
  <1>2. Succ(i) \in Indices /\ Succ(i) = IF i = Ring - 1 THEN 0 ELSE i + 1 BY <1>1, SuccIs
  <1>3. Dist(i) < Dist(head) BY <1>1, Board DEF Dist, Indices
  <1>4. Dist(Succ(i)) = Dist(i) + 1 BY <1>1, <1>2, <1>3, Board DEF Dist, Indices
  <1>5. Dist(tail) = 0 /\ Dist(i) \in Nat /\ Dist(head) \in Nat BY <1>1, Board DEF Dist, Indices
  <1> QED BY <1>2, <1>3, <1>4, <1>5, LiveIs

--------------------------------------------------------------------------------
(***************************************************************************)
(* The invariant.                                                          *)
(***************************************************************************)
LEMMA Courses ==
  /\ Directions = {"up", "down", "left", "right"}
  /\ Delta["up"] = <<0, -1>> /\ Delta["down"] = <<0, 1>>
  /\ Delta["left"] = <<-1, 0>> /\ Delta["right"] = <<1, 0>>
  BY DEF Directions, Delta

\* A step from inside the border stays on the screen and leaves the cell.
LEMMA AheadOnScreen ==
  ASSUME NEW d \in Directions, body[head] \in Interior
  PROVE  Ahead(d) \in Cells /\ Ahead(d) # body[head]
  <1>1. PICK x, y \in 1 .. Last - 1 : body[head] = <<x, y>> BY DEF Interior
  <1>2. Ahead(d) = <<x + Delta[d][1], y + Delta[d][2]>> BY <1>1 DEF Ahead
  <1>3. x \in Int /\ y \in Int /\ Last \in Nat BY Board, <1>1
  <1>4. <<x + Delta[d][1], y + Delta[d][2]>>
          \in {<<x, y - 1>>, <<x, y + 1>>, <<x - 1, y>>, <<x + 1, y>>}
    BY <1>3, Courses
  <1> QED BY <1>1, <1>2, <1>3, <1>4 DEF Cells

\* The two ends are live.
LEMMA Ends ==
  ASSUME head \in Indices, tail \in Indices
  PROVE  head \in Live /\ tail \in Live /\ Live \subseteq Indices
  <1>1. Dist(tail) = 0 /\ Dist(head) >= 0 /\ Dist(head) \in Int BY Board DEF Dist, Indices
  <1> QED BY <1>1, LiveIs

LEMMA RoundKeeps == ASSUME Round PROVE SnakeInv'
  <1> USE Board
  <1>1. /\ pc' = "food" /\ direction' = "right" /\ tail' = 0 /\ head' = 3 /\ length' = 4
        /\ body' = [i \in Indices |-> IF i < 4 THEN FirstCell(i) ELSE None]
    BY DEF Round, Indices
  <1>2. \A i \in 0 .. 3 : FirstCell(i) \in Interior /\ FirstCell(i) \in Cells
    BY DEF FirstCell, Interior, Cells
  <1>3. \A i, j \in 0 .. 3 : FirstCell(i) = FirstCell(j) => i = j BY DEF FirstCell
  <1>4. head' \in Indices /\ tail' \in Indices /\ 0 .. 3 \subseteq Indices BY <1>1 DEF Indices
  <1>5. Live' = 0 .. 3
    <2>1. Dist(head)' = 3 BY <1>1 DEF Dist
    <2>2. \A i \in Indices : Dist(i)' = i BY <1>1 DEF Dist, Indices
    <2> QED BY <1>4, <2>1, <2>2, LiveIsNext DEF Indices
  <1>6. \A i \in 0 .. 3 : body'[i] = FirstCell(i) BY <1>1, <1>4
  <1>7. screen' = [c \in Cells |-> IF c \in Border THEN "border"
                                  ELSE IF \E i \in 0 .. 3 : c = FirstCell(i)
                                       THEN "snake" ELSE "black"]
    <2>1. StartLength - 1 = 3 OBVIOUS
    <2> QED BY <2>1 DEF Round
  <1>8. Types'
    <2>1. body' \in [Indices -> Cells \cup {None}]
      <3>1. \A i \in Indices : i < 4 => i \in 0 .. 3 BY DEF Indices
      <3> QED BY <1>1, <1>2, <3>1
    <2>2. screen' \in [Cells -> {"black", "border", "snake", "food"}] BY <1>7
    <2> QED BY <1>1, <1>4, <2>1, <2>2, Courses DEF Types
  <1>9. Sized' BY <1>1 DEF Sized, Dist
  <1>10. Apart' BY <1>2, <1>3, <1>5, <1>6 DEF Apart
  <1>11. Drawn'
    <2>1. \A c \in Cells : screen'[c] = "border" <=> c \in Border BY <1>7
    <2>2. \A c \in Cells : screen'[c] = "snake" <=> \E i \in 0 .. 3 : c = FirstCell(i)
      BY <1>2, <1>7 DEF Border
    <2> QED BY <2>1, <2>2, <1>5, <1>6 DEF Drawn
  <1>12. Served' BY <1>1, <1>7 DEF Served
  <1>13. BodyConnected'
    <2> SUFFICES ASSUME NEW i \in Live', i # head'
                 PROVE  \E d \in Directions :
                          /\ body'[Succ(i)] = <<body'[i][1] + Delta[d][1], body'[i][2] + Delta[d][2]>>
                          /\ Succ(i) = head' => d = direction'
      BY DEF BodyConnected
    <2>1. i \in 0 .. 2 /\ i + 1 \in 0 .. 3 /\ i \in 0 .. 3 BY <1>1, <1>5
    <2>2. Succ(i) = i + 1 BY <2>1, <1>4, SuccIs
    <2>3. FirstCell(i + 1) = <<FirstCell(i)[1] + 1, FirstCell(i)[2] + 0>>
      BY <2>1 DEF FirstCell
    <2> QED BY <1>1, <1>6, <2>1, <2>2, <2>3, Courses
  <1> QED BY <1>8, <1>9, <1>10, <1>11, <1>12, <1>13 DEF SnakeInv

LEMMA FoodKeeps == ASSUME SnakeInv, TryEmpty PROVE SnakeInv'
  <1> USE DEF SnakeInv
  <1>1. PICK c \in Fruit : screen[c] = "black" /\ screen' = [screen EXCEPT ![c] = "food"]
    BY DEF TryEmpty
  <1>2. c \in Cells BY SnakeAssumption, InsideOnScreen
  <1>3. \A x \in Cells : screen'[x] = IF x = c THEN "food" ELSE screen[x]
    BY <1>1, <1>2 DEF Types
  <1>4. /\ pc = "food" /\ pc' = "play" /\ Begun
        /\ UNCHANGED <<direction, body, head, tail, length>>
    BY DEF TryEmpty, Begun
  <1>5. Live' = Live BY <1>4 DEF Live
  <1>6. Types' BY <1>1, <1>2, <1>4 DEF Types
  <1>7. Sized' BY <1>4 DEF Sized, Dist
  <1>8. Apart' BY <1>4, <1>5 DEF Apart
  <1>9. Drawn' BY <1>1, <1>3, <1>4, <1>5 DEF Drawn
  <1>10. Served' BY <1>2, <1>3, <1>4 DEF Served
  <1>11. BodyConnected' BY <1>4, <1>5 DEF BodyConnected
  <1> QED BY <1>6, <1>7, <1>8, <1>9, <1>10, <1>11

\* A new head in the direction the game remembers keeps the body connected.
LEMMA Linked ==
  ASSUME head \in Indices, tail \in Indices, Succ(head) \in Indices \ Live,
         Begun, BodyConnected, direction' \in Directions, head' = Succ(head),
         body'[Succ(head)] = Ahead(direction'),
         \A i \in Live' : i # Succ(head) => i \in Live /\ body'[i] = body[i],
         \A i \in Live : i # tail => body'[i] = body[i]
  PROVE  BodyConnected'
  <1> SUFFICES ASSUME NEW i \in Live', i # head'
               PROVE  \E d \in Directions :
                        /\ body'[Succ(i)] = <<body'[i][1] + Delta[d][1], body'[i][2] + Delta[d][2]>>
                        /\ Succ(i) = head' => d = direction'
    BY DEF BodyConnected
  <1>1. i \in Live /\ body'[i] = body[i] OBVIOUS
  <1>2. CASE i = head BY <1>1, <1>2 DEF Ahead
  <1>3. CASE i # head
    <2>1. Succ(i) \in Live /\ Succ(i) # tail BY <1>1, <1>3, SuccLive
    <2>2. body'[Succ(i)] = body[Succ(i)] /\ Succ(i) # head' BY <2>1
    <2>3. PICK d \in Directions :
            body[Succ(i)] = <<body[i][1] + Delta[d][1], body[i][2] + Delta[d][2]>>
      BY <1>1, <1>3 DEF BodyConnected
    <2> QED BY <1>1, <2>2, <2>3
  <1> QED BY <1>2, <1>3

\* A cell that shows the snake is a live one, and the cells ahead are on the screen.
LEMMA Look ==
  ASSUME SnakeInv, Begun, NEW d \in Directions
  PROVE  /\ head \in Live /\ tail \in Live /\ Live \subseteq Indices /\ head # tail
         /\ Ahead(d) \in Cells /\ Ahead(d) # body[head]
         /\ screen[Ahead(d)] # "border" => Ahead(d) \in Interior
         /\ \A i \in Live : body[i] \in Interior /\ body[i] \in Cells /\ screen[body[i]] = "snake"
  <1> USE DEF SnakeInv
  <1>1. head \in Live /\ tail \in Live /\ Live \subseteq Indices BY Ends DEF Types
  <1>2. head # tail BY Board DEF Sized, Dist, Types, Indices
  <1>3. \A i \in Live : body[i] \in Interior /\ body[i] \in Cells /\ screen[body[i]] = "snake"
    BY InsideOnScreen DEF Apart, Drawn
  <1>4. Ahead(d) \in Cells /\ Ahead(d) # body[head] BY <1>1, <1>3, AheadOnScreen
  <1>5. screen[Ahead(d)] # "border" => Ahead(d) \in Interior BY <1>4 DEF Drawn, Border
  <1> QED BY <1>1, <1>2, <1>3, <1>4, <1>5

LEMMA MoveKeeps ==
  ASSUME SnakeInv, pc = "play", NEW d \in Directions, direction' = d, Move(Ahead(d))
  PROVE  SnakeInv'
  <1> DEFINE cell == Ahead(d)
             next == Succ(head)
  <1> USE DEF SnakeInv
  <1>1. Begun /\ Types /\ Sized /\ Apart /\ Drawn /\ Served /\ BodyConnected BY DEF Begun
  <1>2. /\ screen[cell] = "black" \/ (screen[cell] = "snake" /\ cell = body[tail])
        /\ screen' = [[screen EXCEPT ![body[tail]] = "black"] EXCEPT ![cell] = "snake"]
        /\ body' = [body EXCEPT ![tail] = None, ![next] = cell]
        /\ head' = next /\ tail' = Succ(tail) /\ pc' = pc /\ length' = length
    BY DEF Move, Moved, Vacated
  <1>3. /\ head \in Live /\ tail \in Live /\ Live \subseteq Indices /\ head # tail
        /\ cell \in Cells
        /\ screen[cell] # "border" => cell \in Interior
        /\ \A i \in Live : body[i] \in Interior /\ body[i] \in Cells /\ screen[body[i]] = "snake"
    BY <1>1, Look
  <1>4. head \in Indices /\ tail \in Indices /\ Dist(head) + 1 < Ring /\ Dist(head) >= 1
    BY <1>1, Board DEF Types, Sized, Dist, Indices
  <1>5. /\ next \in Indices \ Live /\ Live' = (Live \ {tail}) \cup {next}
        /\ Dist(head)' = Dist(head)
    BY <1>2, <1>4, BothOn
  <1>6. Succ(tail) \in Indices BY <1>4, SuccIs
  <1> HIDE DEF cell, next, SnakeInv
  <1>7. /\ body'[next] = cell
        /\ \A i \in Live : i # tail => body'[i] = body[i]
        /\ \A i \in Live' : i # next => i \in Live /\ i # tail /\ body'[i] = body[i]
    BY <1>1, <1>2, <1>3, <1>5 DEF Types
  <1>8. \A c \in Cells : screen'[c] = IF c = cell THEN "snake"
                                      ELSE IF c = body[tail] THEN "black" ELSE screen[c]
    BY <1>1, <1>2, <1>3 DEF Types
  <1>9. \A i \in Live : i # tail => body[i] # cell
    BY <1>1, <1>2, <1>3 DEF Apart
  <1>10. cell \in Interior BY <1>2, <1>3
  <1>11. Types'
    <2>1. body' \in [Indices -> Cells \cup {None}] BY <1>1, <1>2, <1>3 DEF Types
    <2>2. screen' \in [Cells -> {"black", "border", "snake", "food"}] BY <1>1, <1>2 DEF Types
    <2> QED BY <1>1, <1>2, <1>5, <1>6, <2>1, <2>2 DEF Types
  <1>12. Sized' BY <1>1, <1>2, <1>5 DEF Sized
  <1>13. Apart' BY <1>1, <1>5, <1>7, <1>9, <1>10 DEF Apart
  <1>14. Drawn'
    <2>1. \A c \in Cells : screen'[c] = "snake" <=> \E i \in Live' : body'[i] = c
      <3> SUFFICES ASSUME NEW c \in Cells
                   PROVE  screen'[c] = "snake" <=> \E i \in Live' : body'[i] = c
        OBVIOUS
      <3>1. CASE c = cell BY <1>5, <1>7, <1>8, <3>1
      <3>2. CASE c # cell
        <4>1. (\E i \in Live' : body'[i] = c) <=> \E i \in Live : i # tail /\ body[i] = c
          BY <1>5, <1>7, <3>2
        <4>2. (\E i \in Live : i # tail /\ body[i] = c) <=> c # body[tail] /\ screen[c] = "snake"
          BY <1>1, <1>3 DEF Apart, Drawn
        <4> QED BY <1>8, <3>2, <4>1, <4>2
      <3> QED BY <3>1, <3>2
    <2>2. \A c \in Cells : screen'[c] = "border" <=> c \in Border
      BY <1>1, <1>3, <1>8, <1>10, InsideOnScreen DEF Drawn
    <2> QED BY <2>1, <2>2 DEF Drawn
  <1>15. Served'
    <2>1. PICK f \in Cells : \A c \in Cells : screen[c] = "food" <=> c = f BY <1>1 DEF Served
    <2>2. f # cell /\ f # body[tail] BY <1>2, <1>3, <2>1
    <2>3. \A c \in Cells : screen'[c] = "food" <=> c = f BY <1>8, <2>1, <2>2
    <2> QED BY <1>2, <2>3 DEF Served
  <1>16. BodyConnected' BY <1>1, <1>2, <1>4, <1>5, <1>7, Linked DEF cell, next
  <1> QED BY <1>11, <1>12, <1>13, <1>14, <1>15, <1>16 DEF SnakeInv

LEMMA EatKeeps ==
  ASSUME SnakeInv, pc = "play", NEW d \in Directions, direction' = d, Eat(Ahead(d))
  PROVE  SnakeInv'
  <1> DEFINE cell == Ahead(d)
             next == Succ(head)
  <1> USE DEF SnakeInv
  <1>1. Begun /\ Types /\ Sized /\ Apart /\ Drawn /\ Served /\ BodyConnected BY DEF Begun
  <1>2. /\ screen[cell] = "food" /\ screen' = [screen EXCEPT ![cell] = "snake"]
        /\ body' = [body EXCEPT ![next] = cell]
        /\ head' = next /\ tail' = tail /\ length' = length + 1
        /\ pc' = IF length' >= MaxLength THEN "won" ELSE "food"
    BY DEF Eat
  <1>3. /\ head \in Live /\ tail \in Live /\ Live \subseteq Indices /\ cell \in Cells
        /\ screen[cell] # "border" => cell \in Interior
        /\ \A i \in Live : body[i] \in Interior /\ body[i] \in Cells /\ screen[body[i]] = "snake"
    BY <1>1, Look
  <1>4. head \in Indices /\ tail \in Indices /\ Dist(head) + 1 < Ring
    BY <1>1, Board DEF Types, Sized, Dist, Indices
  <1>5. /\ next \in Indices \ Live /\ Live' = Live \cup {next}
        /\ Dist(head)' = Dist(head) + 1
    BY <1>2, <1>4, HeadOn
  <1> HIDE DEF cell, next, SnakeInv
  <1>6. /\ body'[next] = cell
        /\ \A i \in Live : body'[i] = body[i]
        /\ \A i \in Live' : i # next => i \in Live /\ body'[i] = body[i]
    BY <1>1, <1>2, <1>3, <1>5 DEF Types
  <1>7. \A c \in Cells : screen'[c] = IF c = cell THEN "snake" ELSE screen[c]
    BY <1>1, <1>2, <1>3 DEF Types
  <1>8. cell \in Interior /\ \A i \in Live : body[i] # cell BY <1>2, <1>3
  <1>9. Types'
    <2>1. body' \in [Indices -> Cells \cup {None}] BY <1>1, <1>2, <1>3 DEF Types
    <2>2. screen' \in [Cells -> {"black", "border", "snake", "food"}] BY <1>1, <1>2 DEF Types
    <2>3. length' \in Nat BY <1>1, <1>2 DEF Types
    <2> QED BY <1>1, <1>2, <1>5, <2>1, <2>2, <2>3 DEF Types
  <1>10. Sized' BY <1>1, <1>2, <1>5, Board DEF Sized, Types
  <1>11. Apart' BY <1>1, <1>5, <1>6, <1>8 DEF Apart
  <1>12. Drawn'
    <2>1. \A c \in Cells : screen'[c] = "snake" <=> \E i \in Live' : body'[i] = c
      BY <1>1, <1>5, <1>6, <1>7, <1>8 DEF Drawn
    <2>2. \A c \in Cells : screen'[c] = "border" <=> c \in Border
      BY <1>1, <1>7, <1>8, InsideOnScreen DEF Drawn
    <2> QED BY <2>1, <2>2 DEF Drawn
  <1>13. Served'
    <2>1. PICK f \in Cells : \A c \in Cells : screen[c] = "food" <=> c = f BY <1>1 DEF Served
    <2>2. f = cell BY <1>2, <1>3, <2>1
    <2> QED BY <1>2, <1>7, <2>1, <2>2 DEF Served
  <1>14. BodyConnected' BY <1>1, <1>2, <1>4, <1>5, <1>6, Linked DEF cell, next
  <1> QED BY <1>9, <1>10, <1>11, <1>12, <1>13, <1>14 DEF SnakeInv

\* Init and the steps that leave the body alone, and all steps together.
LEMMA SnakeInductive == (Init => SnakeInv) /\ (SnakeInv /\ [Next]_vars => SnakeInv')
  <1>1. ASSUME Init PROVE SnakeInv
    BY <1>1, Board, Courses DEF Init, SnakeInv, Types, Begun, Indices
  <1>2. ASSUME SnakeInv, [Next]_vars PROVE SnakeInv'
    <2> USE <1>2
    <2>1. CASE Key BY <2>1, RoundKeeps DEF Key
    <2>2. CASE TryEmpty BY <2>2, FoodKeeps
    <2>3. CASE UNCHANGED vars \/ TryOccupied
      BY <2>3 DEF TryOccupied, vars, SnakeInv, Types, Sized, Apart, Drawn, Served, Begun, Live,
                  BodyConnected, Dist
    <2>4. CASE Step
      <3>1. PICK d \in Turns(direction) :
              direction' = d /\ (Move(Ahead(d)) \/ Eat(Ahead(d)) \/ Die(Ahead(d)))
        BY <2>4 DEF Step
      <3>2. d \in Directions /\ pc = "play" BY <2>4 DEF Step, Turns
      <3>3. CASE Die(Ahead(d)) BY <3>1, <3>2, <3>3 DEF Die, SnakeInv, Types, Begun
      <3> QED BY <3>1, <3>2, <3>3, MoveKeeps, EatKeeps
    <2>5. CASE Quit BY <2>5 DEF Quit, SnakeInv, Types, Begun
    <2> QED BY <2>1, <2>2, <2>3, <2>4, <2>5 DEF Next
  <1> QED BY <1>1, <1>2

--------------------------------------------------------------------------------
(***************************************************************************)
(* What the game promises.                                                 *)
(***************************************************************************)
\* The live indices are as many as the length says, and so are their cells.
LEMMA Counted ==
  ASSUME Types, Sized, Apart
  PROVE  Cardinality(Live) = length /\ Cardinality({body[i] : i \in Live}) = length
  <1> DEFINE Places == {body[i] : i \in Live}
             dist == [i \in Live |-> Dist(i) + 1]
             place == [i \in Live |-> body[i]]
  <1>1. Live = {i \in Indices : Dist(i) <= Dist(head)} BY LiveIs DEF Types
  <1>2. length \in Nat /\ Dist(head) = length - 1 /\ length <= Ring
    BY Board DEF Sized, Types, Dist, Indices
  <1>3. dist \in Bijection(Live, 1 .. length)
    <2>1. \A i \in Live : Dist(i) + 1 \in 1 .. length
      BY <1>1, <1>2, Board DEF Types, Dist, Indices
    <2>2. \A i, j \in Live : Dist(i) + 1 = Dist(j) + 1 => i = j
      BY <1>1, Board DEF Types, Dist, Indices
    <2>3. \A k \in 1 .. length : \E i \in Live : Dist(i) + 1 = k
      <3> SUFFICES ASSUME NEW k \in 1 .. length PROVE \E i \in Live : Dist(i) + 1 = k OBVIOUS
      <3> DEFINE i == IF tail + k - 1 < Ring THEN tail + k - 1 ELSE tail + k - 1 - Ring
      <3>1. i \in Indices /\ Dist(i) = k - 1 BY <1>2, Board DEF Types, Dist, Indices
      <3>2. i \in Live /\ Dist(i) + 1 = k BY <1>1, <1>2, <3>1
      <3> QED BY <3>2
    <2> QED BY <2>1, <2>2, <2>3, Fun_IsBij
  <1>4. place \in Bijection(Live, Places)
    <2>1. \A i, j \in Live : body[i] = body[j] => i = j BY DEF Apart
    <2> QED BY <2>1, Fun_IsBij
  <1>5. IsFiniteSet(1 .. length) /\ Cardinality(1 .. length) = length BY <1>2, FS_Interval
  <1>6. ExistsBijection(1 .. length, Live) /\ ExistsBijection(Live, Places)
    <2>1. ExistsBijection(Live, 1 .. length) /\ ExistsBijection(Live, Places)
      BY <1>3, <1>4 DEF ExistsBijection
    <2> QED BY <2>1, Fun_ExistsBijSymmetric
  <1> HIDE DEF Places, dist, place
  <1>7. IsFiniteSet(Live) /\ Cardinality(Live) = length BY <1>5, <1>6, FS_Bijection
  <1>8. Cardinality(Places) = length BY <1>6, <1>7, FS_Bijection
  <1> QED BY <1>7, <1>8 DEF Places

LEMMA KeptEnough == ASSUME SnakeInv PROVE BodyKept
  <1>1. CASE ~Begun BY <1>1 DEF BodyKept, BodyOnScreen, BodyConnected
  <1>2. CASE Begun
    <2>1. Types /\ Sized /\ Apart /\ Drawn /\ Served /\ BodyConnected BY <1>2 DEF SnakeInv
    <2>2. {c \in Cells : screen[c] = "snake"} = {body[i] : i \in Live}
      BY <2>1, InsideOnScreen DEF Apart, Drawn
    <2>3. {c \in Cells : screen[c] = "border"} = Border BY <2>1 DEF Drawn, Border
    <2>4. Cardinality({c \in Cells : screen[c] = "food"}) = IF pc = "play" THEN 1 ELSE 0
      <3>1. CASE pc = "play"
        <4>1. PICK f \in Cells : \A c \in Cells : screen[c] = "food" <=> c = f
          BY <2>1, <3>1 DEF Served
        <4>2. {c \in Cells : screen[c] = "food"} = {f} BY <4>1
        <4> QED BY <3>1, <4>2, FS_Singleton
      <3>2. CASE pc # "play"
        <4>1. {c \in Cells : screen[c] = "food"} = {} BY <2>1, <3>2 DEF Served
        <4> QED BY <3>2, <4>1, FS_EmptySet
      <3> QED BY <3>1, <3>2
    <2> QED BY <2>1, <2>2, <2>3, <2>4, Counted DEF BodyKept, BodyOnScreen
  <1> QED BY <1>1, <1>2

\* Ring and screen agree on one connected body with cells that all differ, and there is
\* one cell of food in play and none while a place for it is sought: play_game moves,
\* grows and redraws the two together.
THEOREM BodyKeptCorrect == Spec => []BodyKept
  <1> QED BY SnakeInductive, KeptEnough, PTL DEF Spec

\* A turn is never back onto the cell behind the head.
LEMMA NoTurnBack ==
  ASSUME NEW e \in Directions, NEW d \in Turns(e), NEW p \in Interior, NEW q \in Interior,
         p = <<q[1] + Delta[e][1], q[2] + Delta[e][2]>>
  PROVE  q # <<p[1] + Delta[d][1], p[2] + Delta[d][2]>>
  <1>1. PICK x, y \in 1 .. Last - 1 : q = <<x, y>> BY DEF Interior
  <1>2. x \in Int /\ y \in Int BY Board
  <1>3. d \in Directions /\ d # Opposite[e] BY DEF Turns
  <1>4. /\ Opposite["up"] = "down" /\ Opposite["down"] = "up"
        /\ Opposite["left"] = "right" /\ Opposite["right"] = "left"
    BY DEF Opposite
  <1>5. Delta[e][1] + Delta[d][1] # 0 \/ Delta[e][2] + Delta[d][2] # 0
    BY <1>3, <1>4, Courses
  <1>6. /\ Delta[e][1] \in Int /\ Delta[e][2] \in Int /\ Delta[d][1] \in Int /\ Delta[d][2] \in Int
    BY <1>3, Courses
  <1>7. p = <<x + Delta[e][1], y + Delta[e][2]>> BY <1>1
  <1>8. x # x + Delta[e][1] + Delta[d][1] \/ y # y + Delta[e][2] + Delta[d][2]
    BY <1>2, <1>5, <1>6
  <1> QED BY <1>1, <1>7, <1>8

\* A round is lost at the border or on the body, on a cell that is not being left and not
\* the neck: what play_game tests before it moves, with read_key's refusal to turn back.
THEOREM DeathsFairCorrect == Spec => DeathsFair
  <1> DEFINE cell == Ahead(direction')
             Fair == Lost => \/ cell \in Border
                             \/ \E i \in Live \ {tail, head} : cell = body[i] /\ Succ(i) # head
  <1>1. ASSUME SnakeInv, [Next]_vars PROVE [Fair]_vars
    <2> SUFFICES ASSUME Lost, cell \notin Border
                 PROVE  \E i \in Live \ {tail, head} : cell = body[i] /\ Succ(i) # head
      OBVIOUS
    <2>1. pc = "play" /\ pc' = "over" BY DEF Lost
    <2>2. Step BY <1>1, <2>1 DEF Next, vars, Key, TryEmpty, TryOccupied, Quit
    <2>3. direction' \in Turns(direction) /\ (Move(cell) \/ Eat(cell) \/ Die(cell)) BY <2>2 DEF Step
    <2>4. Die(cell) BY <2>1, <2>3 DEF Move, Eat
    <2>5. /\ Types /\ Drawn /\ BodyConnected /\ Begun BY <1>1, <2>1 DEF SnakeInv, Begun
    <2>6. direction' \in Directions /\ direction \in Directions BY <2>3, <2>5 DEF Turns, Types
    <2>7. /\ head \in Live /\ tail \in Live /\ cell \in Cells /\ cell # body[head]
          /\ \A i \in Live : body[i] \in Interior
      BY <1>1, <2>5, <2>6, Look
    <2> HIDE DEF cell
    <2>8. screen[cell] = "snake" /\ cell # body[tail] BY <2>4, <2>5, <2>7 DEF Die, Vacated, Drawn
    <2>9. PICK i \in Live : body[i] = cell BY <2>5, <2>7, <2>8 DEF Drawn
    <2>10. i # tail /\ i # head BY <2>7, <2>8, <2>9
    <2>11. ASSUME Succ(i) = head PROVE FALSE
      <3>1. body[head] = <<body[i][1] + Delta[direction][1], body[i][2] + Delta[direction][2]>>
        BY <2>5, <2>9, <2>10, <2>11 DEF BodyConnected
      <3>2. body[i] = <<body[head][1] + Delta[direction'][1], body[head][2] + Delta[direction'][2]>>
        BY <2>9 DEF cell, Ahead
      <3> QED BY <2>3, <2>6, <2>7, <2>9, <3>1, <3>2, NoTurnBack
    <2> QED BY <2>9, <2>10, <2>11
  <1> QED BY <1>1, SnakeInductive, PTL DEF Spec, DeathsFair

--------------------------------------------------------------------------------
(***************************************************************************)
(* The serial echo.  First induction, and what Expand does, which joins    *)
(* sequences with a recursive function.                                    *)
(***************************************************************************)
\* A set of naturals has a least element, and one that holds 0 and with n also n + 1 is all
\* of them.
LEMMA Least ==
  ASSUME NEW T \in SUBSET Nat, T # {}
  PROVE  \E x \in T : \A y \in T : x <= y
  <1> DEFINE R == OpToRel(<, Nat)
  <1>1. IsWellFoundedOn(R, Nat) BY NatLessThanWellFounded
  <1>2. \A x, y \in Nat : <<x, y>> \in R <=> x < y BY DEF OpToRel
  <1> HIDE DEF R
  <1>3. PICK x \in T : \A y \in T : ~ (<<y, x>> \in R) BY <1>1, WFMin
  <1>4. x \in Nat /\ \A y \in T : y \in Nat OBVIOUS
  <1>5. \A y \in T : ~ (y < x) BY <1>2, <1>3, <1>4
  <1> QED BY <1>4, <1>5

LEMMA Induction ==
  ASSUME NEW S, 0 \in S, \A n \in Nat : n \in S => n + 1 \in S
  PROVE  Nat \subseteq S
  <1> SUFFICES ASSUME NEW k \in Nat, k \notin S PROVE FALSE OBVIOUS
  <1>1. Nat \ S # {} OBVIOUS
  <1>2. PICK x \in Nat \ S : \A y \in Nat \ S : x <= y BY <1>1, Least
  <1>3. x # 0 /\ x - 1 \in Nat /\ x - 1 < x BY <1>2
  <1>4. x - 1 \in S BY <1>2, <1>3
  <1>5. (x - 1) + 1 \in S BY <1>3, <1>4
  <1> QED BY <1>2, <1>5

\* the function Echo!FlattenSeq defines, and that there is one
JoinStep(g, q, i) == IF i = 1 THEN q[i] ELSE g[i - 1] \o q[i]
Joins(g, q, n) == g = [i \in 1 .. n |-> JoinStep(g, q, i)]
Joined(q) == CHOOSE g : Joins(g, q, Len(q))

LEMMA JoinExists ==
  ASSUME NEW q, NEW k \in Nat
  PROVE  \E g : Joins(g, q, k)
  <1> DEFINE S == {n \in Nat : \E g : Joins(g, q, n)}
  <1>1. 0 \in S
    <2> DEFINE g == [i \in 1 .. 0 |-> q]
    <2>1. Joins(g, q, 0) BY DEF Joins
    <2> QED BY <2>1
  <1>2. ASSUME NEW n \in Nat, n \in S PROVE n + 1 \in S
    <2>1. PICK g : Joins(g, q, n) BY <1>2
    <2> DEFINE h == [i \in 1 .. n + 1 |-> IF i <= n THEN g[i] ELSE JoinStep(g, q, i)]
    <2>2. \A i \in 1 .. n : g[i] = JoinStep(g, q, i) BY <2>1 DEF Joins
    <2>3. ASSUME NEW i \in 1 .. n + 1 PROVE JoinStep(h, q, i) = JoinStep(g, q, i)
      <3>1. i # 1 => i - 1 \in 1 .. n + 1 /\ i - 1 <= n OBVIOUS
      <3>2. i # 1 => h[i - 1] = g[i - 1] BY <3>1
      <3> QED BY <3>2 DEF JoinStep
    <2>4. ASSUME NEW i \in 1 .. n + 1 PROVE h[i] = JoinStep(h, q, i)
      <3>1. CASE i <= n BY <3>1, <2>2, <2>3
      <3>2. CASE ~(i <= n) BY <3>2, <2>3
      <3> QED BY <3>1, <3>2
    <2>5. h = [i \in 1 .. n + 1 |-> JoinStep(h, q, i)] BY <2>4
    <2> HIDE DEF h
    <2> QED BY <2>5 DEF Joins
  <1> HIDE DEF S
  <1>3. k \in S BY <1>1, <1>2, Induction
  <1> QED BY <1>3 DEF S

LEMMA JoinedIs ==
  ASSUME NEW B, NEW q \in Seq(B)
  PROVE  /\ Len(q) > 0 => Joined(q)[1] = q[1]
         /\ \A i \in 2 .. Len(q) : Joined(q)[i] = Joined(q)[i - 1] \o q[i]
         /\ Echo!FlattenSeq(q) = IF Len(q) = 0 THEN q ELSE Joined(q)[Len(q)]
  <1> DEFINE n == Len(q)
             r == Joined(q)
  <1>1. n \in Nat OBVIOUS
  <1>2. Echo!FlattenSeq(q) = IF n = 0 THEN q ELSE r[n]
    BY Zenon DEF Echo!FlattenSeq, Joined, Joins, JoinStep
  <1> HIDE DEF n
  <1>3. \E g : Joins(g, q, n) BY <1>1, JoinExists
  <1>4. Joins(r, q, n) BY <1>3, Zenon DEF Joined, n
  <1> HIDE DEF r
  <1>5. \A i \in 1 .. n : r[i] = JoinStep(r, q, i) BY <1>4, Zenon DEF Joins
  <1>6. n > 0 => r[1] = q[1] BY <1>1, <1>5 DEF JoinStep
  <1>7. \A i \in 2 .. n : i \in 1 .. n /\ i # 1 BY <1>1
  <1>8. \A i \in 2 .. n : r[i] = r[i - 1] \o q[i] BY <1>5, <1>7, Zenon DEF JoinStep
  <1> QED BY <1>2, <1>6, <1>8 DEF r, n

\* Joining one sequence more is appending it.
LEMMA FlattenAppend ==
  ASSUME NEW B, NEW q \in Seq(Seq(B)), NEW x \in Seq(B)
  PROVE  Echo!FlattenSeq(q) \in Seq(B) /\ Echo!FlattenSeq(Append(q, x)) = Echo!FlattenSeq(q) \o x
  <1> DEFINE n == Len(q)
             p == Append(q, x)
             f == Joined(q)
             g == Joined(p)
             S == {i \in Nat : i \in 1 .. n => f[i] \in Seq(B) /\ g[i] = f[i]}
  <1>1. n \in Nat /\ p \in Seq(Seq(B)) /\ Len(p) = n + 1 /\ p[n + 1] = x
        /\ \A i \in 1 .. n : p[i] = q[i] /\ q[i] \in Seq(B)
    OBVIOUS
  <1>f. /\ n > 0 => f[1] = q[1]
        /\ \A i \in 2 .. n : f[i] = f[i - 1] \o q[i]
        /\ Echo!FlattenSeq(q) = IF n = 0 THEN q ELSE f[n]
    BY JoinedIs
  <1>g. /\ g[1] = p[1]
        /\ \A i \in 2 .. n + 1 : g[i] = g[i - 1] \o p[i]
        /\ Echo!FlattenSeq(p) = g[n + 1]
    <2> HIDE DEF p, g
    <2>1. /\ Len(p) > 0 => Joined(p)[1] = p[1]
          /\ \A i \in 2 .. Len(p) : Joined(p)[i] = Joined(p)[i - 1] \o p[i]
          /\ Echo!FlattenSeq(p) = IF Len(p) = 0 THEN p ELSE Joined(p)[Len(p)]
      BY <1>1, JoinedIs
    <2>2. Len(p) > 0 /\ Len(p) # 0 /\ Len(p) = n + 1 BY <1>1
    <2>3. Joined(p)[1] = p[1] /\ Echo!FlattenSeq(p) = Joined(p)[n + 1] BY <2>1, <2>2
    <2>4. \A i \in 2 .. n + 1 : Joined(p)[i] = Joined(p)[i - 1] \o p[i]
      <3> HIDE DEF n
      <3> QED BY <2>1, <2>2
    <2> QED BY <2>3, <2>4 DEF g
  <1>e. n = 0 => q = <<>> OBVIOUS
  <1> HIDE DEF n, p, f, g
  <1>2. 0 \in S OBVIOUS
  <1>3. ASSUME NEW i \in Nat, i \in S PROVE i + 1 \in S
    <2>1. CASE i + 1 \notin 1 .. n BY <2>1
    <2>2. CASE i = 0 /\ i + 1 \in 1 .. n
      <3>1. f[1] = q[1] /\ g[1] = p[1] /\ 1 \in 1 .. n BY <2>2, <1>f, <1>g, <1>1
      <3> QED BY <3>1, <2>2, <1>1
    <2>3. CASE i # 0 /\ i + 1 \in 1 .. n
      <3> DEFINE k == i + 1
      <3>1. i \in 1 .. n /\ k \in 2 .. n /\ k \in 2 .. n + 1 /\ k - 1 = i /\ k \in 1 .. n BY <2>3, <1>1
      <3>2. f[i] \in Seq(B) /\ g[i] = f[i] BY <1>3, <3>1
      <3> HIDE DEF k
      <3>3. f[k] = f[i] \o q[k] /\ g[k] = g[i] \o p[k] BY <3>1, <1>f, <1>g
      <3>4. q[k] \in Seq(B) /\ p[k] = q[k] BY <3>1, <1>1
      <3>5. f[i] \o q[k] \in Seq(B) BY <3>2, <3>4
      <3>6. f[k] \in Seq(B) /\ g[k] = f[k] BY <3>2, <3>3, <3>4, <3>5
      <3> QED BY <3>6 DEF k
    <2> QED BY <2>1, <2>2, <2>3
  <1> HIDE DEF S
  <1>4. \A i \in Nat : i \in S BY <1>2, <1>3, Induction
  <1>5. \A i \in 1 .. n : f[i] \in Seq(B) /\ g[i] = f[i] BY <1>4, <1>1 DEF S
  <1>6. CASE n = 0
    <2>1. Echo!FlattenSeq(q) = <<>> /\ Echo!FlattenSeq(p) = x BY <1>6, <1>1, <1>f, <1>g, <1>e
    <2> QED BY <2>1 DEF p
  <1>7. CASE n # 0
    <2>1. n \in 1 .. n /\ n + 1 \in 2 .. n + 1 /\ (n + 1) - 1 = n BY <1>7, <1>1
    <2>2. Echo!FlattenSeq(q) = f[n] /\ Echo!FlattenSeq(p) = g[n] \o x BY <2>1, <1>7, <1>1, <1>f, <1>g
    <2> QED BY <2>1, <2>2, <1>5 DEF p
  <1> QED BY <1>6, <1>7

\* the characters of the typed lines, and those on the line
Typed == UNION {Echo!Range(l) : l \in Lines}
Text  == Typed \cup {"CR"}
Char  == Typed \cup {"CR", "LF"}

LEMMA CharIs ==
  ASSUME Echo!EchoFine PROVE Echo!Empty \notin Char /\ \A b \in Char : Echo!Emit(b) \in Seq(Char) /\ Len(Echo!Emit(b)) = IF b = "CR" THEN 2 ELSE 1
  <1>1. Echo!Empty \notin Char
    <2>1. Echo!Empty # "CR" /\ Echo!Empty # "LF" BY DEF Echo!Empty
    <2>2. \A l \in Lines : Echo!Empty \notin Echo!Range(l) BY DEF Echo!EchoFine
    <2>3. Echo!Empty \notin Typed BY <2>2, Zenon DEF Typed
    <2> QED BY <2>1, <2>3 DEF Char
  <1>2. "CR" \in Char /\ "LF" \in Char BY DEF Char
  <1> HIDE DEF Char
  <1>3. ASSUME NEW b \in Char PROVE Echo!Emit(b) \in Seq(Char) /\ Len(Echo!Emit(b)) = IF b = "CR" THEN 2 ELSE 1
    BY <1>2 DEF Echo!Emit
  <1> QED BY <1>1, <1>3

\* The echo of a sequence is the echo of its parts.
LEMMA ExpandAppend ==
  ASSUME Echo!EchoFine, NEW s \in Seq(Char), NEW b \in Char
  PROVE  Echo!Expand(s) \in Seq(Char) /\ Echo!Expand(Append(s, b)) = Echo!Expand(s) \o Echo!Emit(b)
  <1> DEFINE E(t) == [i \in DOMAIN t |-> IF t[i] = "CR" THEN <<"CR", "LF">> ELSE <<t[i]>>]
             n == Len(s)
  <1>1. \A t : Echo!Expand(t) = Echo!FlattenSeq(E(t)) BY DEF Echo!Expand
  <1>2. n \in Nat /\ DOMAIN s = 1 .. n /\ DOMAIN Append(s, b) = 1 .. n + 1
        /\ Append(s, b)[n + 1] = b /\ \A i \in 1 .. n : s[i] \in Char /\ Append(s, b)[i] = s[i]
    OBVIOUS
  <1>c. \A c \in Char : Echo!Emit(c) \in Seq(Char) BY CharIs
  <1> DEFINE t == Append(s, b)
  <1> HIDE DEF n, t
  <1>3. E(s) = [i \in 1 .. n |-> Echo!Emit(s[i])] BY <1>2 DEF Echo!Emit
  <1>4. E(t) = [i \in 1 .. n + 1 |-> Echo!Emit(t[i])] BY <1>2 DEF Echo!Emit, t
  <1> HIDE DEF E
  <1>5. E(s) \in Seq(Seq(Char)) /\ Len(E(s)) = n /\ DOMAIN E(s) = 1 .. n
    <2>1. \A i \in 1 .. n : Echo!Emit(s[i]) \in Seq(Char) BY <1>2, <1>c
    <2>2. E(s) \in [1 .. n -> Seq(Char)] BY <2>1, <1>3
    <2> QED BY <2>2, <1>2
  <1>6. E(t) = Append(E(s), Echo!Emit(b))
    <2>1. Append(E(s), Echo!Emit(b)) = [i \in 1 .. n + 1 |-> IF i = n + 1 THEN Echo!Emit(b) ELSE E(s)[i]]
      <3> DEFINE e == E(s)  x == Echo!Emit(b)
      <3>1. e \in Seq(Seq(Char)) /\ Len(e) = n /\ x \in Seq(Char) BY <1>5, <1>c
      <3> HIDE DEF e, x
      <3> DEFINE p == Append(e, x)
      <3>2. p \in Seq(Seq(Char)) /\ Len(p) = n + 1 /\ p[n + 1] = x /\ \A i \in 1 .. n : p[i] = e[i]
        BY <3>1, <1>2
      <3> HIDE DEF p
      <3>3. p = [i \in 1 .. n + 1 |-> p[i]] BY <3>2
      <3>4. \A i \in 1 .. n + 1 : i = n + 1 \/ i \in 1 .. n BY <1>2
      <3>5. \A i \in 1 .. n + 1 : p[i] = IF i = n + 1 THEN x ELSE e[i] BY <3>2, <3>4
      <3> QED BY <3>3, <3>5 DEF e, x, p
    <2>2. \A i \in 1 .. n + 1 : i # n + 1 => i \in 1 .. n BY <1>2
    <2>3. \A i \in 1 .. n + 1 : Echo!Emit(t[i]) = IF i = n + 1 THEN Echo!Emit(b) ELSE E(s)[i]
      BY <2>2, <1>2, <1>3 DEF t
    <2> QED BY <2>1, <2>3, <1>4
  <1>7. Echo!FlattenSeq(E(s)) \in Seq(Char) /\ Echo!FlattenSeq(E(t)) = Echo!FlattenSeq(E(s)) \o Echo!Emit(b)
    BY <1>5, <1>6, <1>c, FlattenAppend
  <1> QED BY <1>1, <1>7 DEF t

LEMMA ExpandNone == Echo!Expand(<<>>) = <<>>
  <1> DEFINE e == [i \in DOMAIN <<>> |-> IF <<>>[i] = "CR" THEN <<"CR", "LF">> ELSE <<<<>>[i]>>]
  <1>1. e = <<>> OBVIOUS
  <1>2. Echo!Expand(<<>>) = Echo!FlattenSeq(e) BY DEF Echo!Expand
  <1> HIDE DEF e
  <1>3. <<>> \in Seq(Seq(Char)) /\ Len(<<>>) = 0 OBVIOUS
  <1>4. Echo!FlattenSeq(<<>>) = <<>> BY <1>3, JoinedIs
  <1> QED BY <1>1, <1>2, <1>4


LEMMA ExpandCat ==
  ASSUME Echo!EchoFine, NEW s \in Seq(Char), NEW t \in Seq(Char)
  PROVE  Echo!Expand(s \o t) = Echo!Expand(s) \o Echo!Expand(t)
  <1> DEFINE S == {n \in Nat : \A u \in Seq(Char) : Len(u) = n => Echo!Expand(s \o u) = Echo!Expand(s) \o Echo!Expand(u)}
  <1>1. 0 \in S
    <2>1. "CR" \in Char BY DEF Char
    <2>2. Echo!Expand(<<>>) = <<>> BY ExpandNone
    <2>3. Echo!Expand(s) \in Seq(Char) BY <2>1, ExpandAppend
    <2>4. \A u \in Seq(Char) : Len(u) = 0 => u = <<>> OBVIOUS
    <2>5. s \o <<>> = s OBVIOUS
    <2>6. Echo!Expand(s) \o <<>> = Echo!Expand(s)
      <3> DEFINE x == Echo!Expand(s)
      <3>1. x \in Seq(Char) BY <2>3
      <3> HIDE DEF x
      <3>2. x \o <<>> = x BY <3>1
      <3> QED BY <3>2 DEF x
    <2> QED BY <2>2, <2>4, <2>5, <2>6
  <1>2. ASSUME NEW n \in Nat, n \in S PROVE n + 1 \in S
    <2> SUFFICES ASSUME NEW u \in Seq(Char), Len(u) = n + 1
                 PROVE  Echo!Expand(s \o u) = Echo!Expand(s) \o Echo!Expand(u)
      OBVIOUS
    <2> DEFINE v == SubSeq(u, 1, n)
               b == u[n + 1]
    <2>1. v \in Seq(Char) /\ b \in Char /\ Len(v) = n /\ u = Append(v, b) OBVIOUS
    <2> HIDE DEF v, b
    <2>2. s \o u = Append(s \o v, b) /\ s \o v \in Seq(Char) BY <2>1
    <2>3. Echo!Expand(s \o v) = Echo!Expand(s) \o Echo!Expand(v) BY <2>1, <1>2
    <2>4. Echo!Expand(s \o u) = (Echo!Expand(s) \o Echo!Expand(v)) \o Echo!Emit(b) BY <2>1, <2>2, <2>3, ExpandAppend
    <2>5. Echo!Expand(u) = Echo!Expand(v) \o Echo!Emit(b) BY <2>1, ExpandAppend
    <2>6. Echo!Expand(s) \in Seq(Char) /\ Echo!Expand(v) \in Seq(Char) /\ Echo!Emit(b) \in Seq(Char)
      BY <2>1, ExpandAppend, CharIs
    <2>7. Echo!Expand(s) \o (Echo!Expand(v) \o Echo!Emit(b)) = (Echo!Expand(s) \o Echo!Expand(v)) \o Echo!Emit(b)
      <3> DEFINE x == Echo!Expand(s)  y == Echo!Expand(v)  z == Echo!Emit(b)
      <3>1. x \in Seq(Char) /\ y \in Seq(Char) /\ z \in Seq(Char) BY <2>6
      <3> HIDE DEF x, y, z
      <3>2. x \o (y \o z) = (x \o y) \o z BY <3>1
      <3> QED BY <3>2 DEF x, y, z
    <2> QED BY <2>4, <2>5, <2>7
  <1> HIDE DEF S
  <1>3. Len(t) \in S BY <1>1, <1>2, Induction
  <1> QED BY <1>3 DEF S

--------------------------------------------------------------------------------
(***************************************************************************)
(* The echo.                                                               *)
(***************************************************************************)
\* bytes still to be sent back for the byte in the register
Due(b)  == IF b = Echo!Empty THEN 0 ELSE IF b = "CR" THEN 2 ELSE 1
Held(b) == IF b = Echo!Empty THEN 0 ELSE 1

\* bytes the card and the program still have to send
Backlog == Due(rdr) + Len(emitting) + Held(tdr) + Held(shift)

EchoType ==
  /\ line \in Seq(Char) /\ back \in Seq(Char) /\ emitting \in Seq(Char)
  /\ sent \in Seq(Char) /\ printed \in Seq(Char)
  /\ {rdr, tdr, shift} \subseteq Char \cup {Echo!Empty} /\ conn \in {"open", "closed"}
  /\ busy \in Nat /\ col \in Nat /\ scrolled \in BOOLEAN /\ wide \in BOOLEAN
  /\ idle \in 0 .. Echo!Enough /\ rest \in 0 .. Echo!Enough

\* What is on the line is text, and an emit is of one byte or of a return.
Shape ==
  /\ line \in Seq(Text) /\ rdr \in Text \cup {Echo!Empty}
  /\ emitting \in {<<>>, <<"LF">>, <<"CR", "LF">>} \cup {<<c>> : c \in Typed}

\* What is on the line is the rest of one typed line.
OneLine ==
  /\ \A i \in 1 .. Len(line) : line[i] = "CR" <=> i = Len(line)
  /\ idle # 0 => line = <<>>

\* The echo is at most one byte behind while a line comes in, or two at its end.
Behind == Backlog <= 2 /\ (line # <<>> \/ idle # 0 => Backlog <= 1)

\* What is on its way and what it will be is the echo of what was written.
Echoes == conn = "open" => Echo!Order \o Echo!Expand(Echo!Put(<<>>, rdr) \o line) = Echo!Expand(sent)

Clean == OneLine /\ Behind /\ ~lost /\ Echoes

\* A byte is taken before the next comes, and while the screen scrolls none comes.
Quiet == busy # 0 => line = <<>> /\ rdr = Echo!Empty /\ emitting = <<>>
Calm  == (rdr # Echo!Empty => emitting = <<>>) /\ Quiet

\* the return of a line has come and is not printed yet
Ending == rdr = "CR" \/ emitting \in {<<"LF">>, <<"CR", "LF">>}

\* A return is printed at most a slot after its line, so the pause outlasts its scroll.
Pausing ==
  /\ busy # 0 => Quiet /\ idle + busy <= Echo!Enough
  /\ Ending => line = <<>> /\ idle <= 1

\* A line starts in the first column and fits the row.
Fits ==
  /\ line = <<>> => Ending \/ (col = 0 /\ rdr = Echo!Empty /\ emitting = <<>>)
  /\ line # <<>> => col + Held(rdr) + Len(emitting) + Len(line) <= Width

\* the lines so far were typed as EchoComplete asks
Roomy   == ~wide /\ rest = Echo!Enough
Granted == rest > 0 /\ (scrolled => Roomy)

EchoInv ==
  /\ EchoType /\ Shape
  /\ ~scrolled => busy = 0
  /\ Granted => ~lost
  /\ Granted /\ conn = "open" => Clean /\ Calm
  /\ Roomy /\ conn = "open" => Pausing /\ Fits

LEMMA DueIs ==
  ASSUME NEW b
  PROVE  /\ Due(b) \in 0 .. 2 /\ (Due(b) = 0 <=> b = Echo!Empty)
         /\ Held(b) \in 0 .. 1 /\ (Held(b) = 0 <=> b = Echo!Empty)
  BY DEF Due, Held

LEMMA PutIs ==
  ASSUME Echo!EchoFine, NEW s \in Seq(Char), NEW b \in Char \cup {Echo!Empty}
  PROVE  Echo!Put(s, b) = s \o Echo!Put(<<>>, b) /\ Echo!Put(s, b) \in Seq(Char) /\ Echo!Put(<<>>, b) \in Seq(Char)
  <1>1. CASE b = Echo!Empty BY <1>1 DEF Echo!Put
  <1>2. CASE b # Echo!Empty
    <2>1. b \in Char BY <1>2
    <2> HIDE DEF Char
    <2>2. Echo!Put(s, b) = Append(s, b) /\ Echo!Put(<<>>, b) = <<b>> BY <1>2 DEF Echo!Put
    <2>3. Append(s, b) = s \o <<b>> BY <2>1, AppendIsConcat
    <2>4. Append(s, b) \in Seq(Char) /\ <<b>> \in Seq(Char) BY <2>1
    <2> QED BY <2>2, <2>3, <2>4
  <1> QED BY <1>1, <1>2

LEMMA EchoInit == Echo!EchoFine /\ Echo!Init => EchoInv
  <1> SUFFICES ASSUME Echo!EchoFine, Echo!Init PROVE EchoInv OBVIOUS
  <1> USE DEF Echo!Init
  <1>1. EchoType
    <2>1. Echo!Enough \in Nat BY DEF Echo!EchoFine, Echo!Enough
    <2>2. line \in Seq(Char) /\ back \in Seq(Char) /\ emitting \in Seq(Char)
          /\ sent \in Seq(Char) /\ printed \in Seq(Char)
      OBVIOUS
    <2>3. Echo!Enough \in 0 .. Echo!Enough BY <2>1
    <2>4. {rdr, tdr, shift} \subseteq Char \cup {Echo!Empty} OBVIOUS
    <2>5. busy \in Nat /\ col \in Nat OBVIOUS
    <2>6. scrolled \in BOOLEAN /\ wide \in BOOLEAN /\ conn \in {"open", "closed"} OBVIOUS
    <2> QED BY <2>2, <2>3, <2>4, <2>5, <2>6 DEF EchoType
  <1>2. OneLine BY DEF OneLine
  <1>3. Behind BY DEF Behind, Backlog, Due, Held
  <1>5. Shape BY DEF Shape
  <1>6. Calm /\ Pausing /\ Fits BY DEF Calm, Quiet, Pausing, Fits, Ending, Echo!Empty
  <1>4. Echoes
    <2>1. Echo!Order = <<>> BY DEF Echo!Order, Echo!Put
    <2>2. Echo!Put(<<>>, rdr) \o line = <<>> BY DEF Echo!Put
    <2>3. "CR" \in Char BY DEF Char
    <2>0. <<>> \in Seq(Char) OBVIOUS
    <2>4. Echo!Expand(<<>>) \in Seq(Char) BY <2>0, <2>3, ExpandAppend
    <2>5. <<>> \o Echo!Expand(<<>>) = Echo!Expand(<<>>) BY <2>4
    <2> QED BY <2>1, <2>2, <2>5 DEF Echoes
  <1> QED BY <1>1, <1>2, <1>3, <1>4, <1>5, <1>6 DEF EchoInv, Clean

\* Nothing but a slot takes from what is held, and it finds a byte to send if any is.
LEMMA SlotSends ==
  ASSUME EchoType, Calm, ~(Echo!CanPush \/ Echo!CanTake \/ Echo!CanLoad)
  PROVE  /\ shift = Echo!Empty => Backlog = 0
         /\ Backlog <= 1 => rdr = Echo!Empty
  <1>1. Len(emitting) \in Nat /\ (emitting = <<>> <=> Len(emitting) = 0) BY DEF EchoType
  <1>2. Backlog = Due(rdr) + Len(emitting) + Held(tdr) + Held(shift) BY DEF Backlog
  <1>3. /\ Due(rdr) \in 0 .. 2 /\ Held(tdr) \in 0 .. 1 /\ Held(shift) \in 0 .. 1
        /\ (Due(rdr) = 0 <=> rdr = Echo!Empty) /\ (Held(tdr) = 0 <=> tdr = Echo!Empty)
        /\ (Held(shift) = 0 <=> shift = Echo!Empty)
    BY DueIs
  <1>4. shift = Echo!Empty => tdr = Echo!Empty /\ emitting = <<>> /\ rdr = Echo!Empty
    BY DEF Echo!CanPush, Echo!CanTake, Echo!CanLoad, Calm, Quiet
  <1>5. shift = Echo!Empty => Backlog = 0 BY <1>1, <1>2, <1>3, <1>4
  <1>6. shift # Echo!Empty /\ rdr # Echo!Empty => Backlog >= 2 BY <1>1, <1>2, <1>3
  <1>7. Backlog \in Nat BY <1>1, <1>2, <1>3
  <1> QED BY <1>4, <1>5, <1>6, <1>7

LEMMA Assoc ==
  ASSUME NEW B
  PROVE  /\ \A x, y \in Seq(B) : x \o y \in Seq(B)
         /\ \A x, y, z \in Seq(B) : x \o (y \o z) = (x \o y) \o z
         /\ \A x \in Seq(B) : x \o <<>> = x /\ <<>> \o x = x
         /\ <<>> \in Seq(B)
  OBVIOUS

\* what is behind the register
LEMMA OrderIs ==
  ASSUME Echo!EchoFine, EchoType
  PROVE  /\ Echo!Put(<<>>, rdr) \in Seq(Char) /\ Echo!Put(<<>>, tdr) \in Seq(Char) /\ Echo!Put(<<>>, shift) \in Seq(Char)
         /\ Echo!Order \in Seq(Char)
         /\ Echo!Expand(Echo!Put(<<>>, rdr) \o line) \in Seq(Char)
  <1>1. <<>> \in Seq(Char) /\ rdr \in Char \cup {Echo!Empty} /\ tdr \in Char \cup {Echo!Empty} /\ shift \in Char \cup {Echo!Empty}
    BY DEF EchoType
  <1>2. Echo!Put(<<>>, rdr) \in Seq(Char) /\ Echo!Put(<<>>, tdr) \in Seq(Char) /\ Echo!Put(<<>>, shift) \in Seq(Char)
    BY <1>1, PutIs
  <1>3. Echo!Order \in Seq(Char) BY <1>2, Assoc DEF Echo!Order, EchoType
  <1>4. Echo!Put(<<>>, rdr) \o line \in Seq(Char) BY <1>2, Assoc DEF EchoType
  <1>5. "CR" \in Char BY DEF Char
  <1> QED BY <1>2, <1>3, <1>4, <1>5, ExpandAppend

LEMMA BacklogIs ==
  ASSUME EchoType
  PROVE  Backlog \in Nat /\ Backlog = Due(rdr) + Len(emitting) + Held(tdr) + Held(shift)
  <1>1. Len(emitting) \in Nat BY DEF EchoType
  <1>2. Due(rdr) \in Nat /\ Held(tdr) \in Nat /\ Held(shift) \in Nat BY DueIs
  <1> QED BY <1>1, <1>2 DEF Backlog

LEMMA PushClean ==
  ASSUME Echo!EchoFine, EchoType, Clean, Echo!Push
  PROVE  Clean'
  <1> DEFINE h == Head(emitting)  t == Tail(emitting)
  <1>1. /\ UNCHANGED <<main, reader, stop, typed, idle, conn, line, back, rdr, shift, sent, printed, lost>>
        /\ emitting # <<>> /\ tdr = Echo!Empty /\ tdr' = h /\ emitting' = t
    BY DEF Echo!Push, Echo!CanPush, Echo!client
  <1>2. /\ emitting \in Seq(Char) /\ h \in Char /\ t \in Seq(Char) /\ Len(t) = Len(emitting) - 1
        /\ <<h>> \o t = emitting /\ <<h>> \in Seq(Char) /\ h # Echo!Empty
    BY <1>1, CharIs DEF EchoType
  <1> HIDE DEF h, t
  <1>4. OneLine' BY <1>1 DEF Clean, OneLine
  <1>5. Backlog' = Backlog
    <2>1. Held(tdr) = 0 /\ Held(h) = 1 BY <1>1, <1>2 DEF Held
    <2>2. Backlog = Due(rdr) + Len(emitting) + Held(tdr) + Held(shift) BY DEF Backlog
    <2>3. Backlog' = Due(rdr) + Len(t) + Held(h) + Held(shift) BY <1>1 DEF Backlog
    <2>4. Due(rdr) \in Nat /\ Held(shift) \in Nat BY DueIs
    <2> QED BY <1>2, <2>1, <2>2, <2>3, <2>4
  <1>6. Behind' BY <1>1, <1>2, <1>5 DEF Clean, Behind
  <1>7. Echo!Order' = Echo!Order
    <2> DEFINE q == (printed \o back) \o Echo!Put(<<>>, shift)
    <2>1. q \in Seq(Char) BY OrderIs, Assoc DEF EchoType
    <2>2. Echo!Order = (q \o <<>>) \o emitting BY <1>1 DEF Echo!Order, Echo!Put
    <2>3. Echo!Order' = (q \o <<h>>) \o t BY <1>1, <1>2 DEF Echo!Order, Echo!Put
    <2> HIDE DEF q
    <2>4. q \o <<>> = q /\ (q \o <<h>>) \o t = q \o (<<h>> \o t) BY <2>1, <1>2, Assoc
    <2> QED BY <2>2, <2>3, <2>4, <1>2
  <1>8. Echoes' BY <1>1, <1>7 DEF Clean, Echoes
  <1> QED BY <1>1, <1>4, <1>6, <1>8 DEF Clean

LEMMA ExpandOne == ASSUME Echo!EchoFine, NEW b \in Char PROVE Echo!Expand(<<b>>) = Echo!Emit(b)
  <1>1. Echo!Expand(Append(<<>>, b)) = Echo!Expand(<<>>) \o Echo!Emit(b)
    BY ExpandAppend, Assoc
  <1>2. Append(<<>>, b) = <<b>> OBVIOUS
  <1>3. Echo!Expand(<<>>) = <<>> BY ExpandNone
  <1>4. <<>> \o Echo!Emit(b) = Echo!Emit(b) BY Assoc, CharIs
  <1> QED BY <1>1, <1>2, <1>3, <1>4

LEMMA TakeClean ==
  ASSUME Echo!EchoFine, EchoType, Clean, Echo!Take
  PROVE  Clean'
  <1>1. /\ UNCHANGED <<main, reader, stop, typed, idle, conn, line, back, tdr, shift, busy, sent, printed, lost>>
        /\ emitting = <<>> /\ rdr # Echo!Empty /\ emitting' = Echo!Emit(rdr) /\ rdr' = Echo!Empty
    BY DEF Echo!Take, Echo!CanTake, Echo!client
  <1>2. rdr \in Char /\ Echo!Emit(rdr) \in Seq(Char) /\ Len(Echo!Emit(rdr)) = IF rdr = "CR" THEN 2 ELSE 1
    BY <1>1, CharIs DEF EchoType
  <1>4. OneLine' BY <1>1 DEF Clean, OneLine
  <1>5. Backlog' = Backlog
    <2>1. Due(rdr) = Len(Echo!Emit(rdr)) /\ Due(Echo!Empty) = 0 BY <1>1, <1>2 DEF Due
    <2>2. Len(<<>>) = 0 OBVIOUS
    <2>3. Backlog = Due(rdr) + 0 + Held(tdr) + Held(shift) BY <1>1, <2>2 DEF Backlog
    <2>4. Backlog' = Due(Echo!Empty) + Len(Echo!Emit(rdr)) + Held(tdr) + Held(shift) BY <1>1 DEF Backlog
    <2>5. Due(rdr) \in Nat /\ Held(tdr) \in Nat /\ Held(shift) \in Nat BY DueIs
    <2> QED BY <2>1, <2>3, <2>4, <2>5
  <1>6. Behind' BY <1>1, <1>5 DEF Clean, Behind
  <1>7. Echo!Order' \o Echo!Expand(Echo!Put(<<>>, rdr) \o line)' = Echo!Order \o Echo!Expand(Echo!Put(<<>>, rdr) \o line)
    <2> DEFINE q == ((printed \o back) \o Echo!Put(<<>>, shift)) \o Echo!Put(<<>>, tdr)
               e == Echo!Emit(rdr)
               x == Echo!Expand(line)
    <2>1. q \in Seq(Char) BY OrderIs, Assoc DEF EchoType
    <2>2. x \in Seq(Char) BY <1>2, ExpandAppend DEF EchoType
    <2>3. Echo!Order = q \o <<>> /\ Echo!Order' = q \o e BY <1>1 DEF Echo!Order
    <2>4. Echo!Put(<<>>, rdr)' = <<>> BY <1>1 DEF Echo!Put
    <2>5. Echo!Expand(Echo!Put(<<>>, rdr) \o line)' = x BY <1>1, <2>4, Assoc DEF EchoType
    <2>6. Echo!Put(<<>>, rdr) = <<rdr>> /\ <<rdr>> \in Seq(Char) BY <1>1, <1>2 DEF Echo!Put
    <2>7. Echo!Expand(<<rdr>> \o line) = Echo!Expand(<<rdr>>) \o Echo!Expand(line) BY <2>6, ExpandCat DEF EchoType
    <2>8. Echo!Expand(<<rdr>>) = e BY <1>2, ExpandOne
    <2>9. e \in Seq(Char) BY <1>2
    <2> HIDE DEF q, e, x
    <2>10. (q \o <<>>) \o (e \o x) = (q \o e) \o x BY <2>1, <2>2, <2>9, Assoc
    <2> QED BY <2>3, <2>5, <2>6, <2>7, <2>8, <2>10 DEF x
  <1>8. Echoes' BY <1>1, <1>7 DEF Clean, Echoes
  <1> QED BY <1>1, <1>4, <1>6, <1>8 DEF Clean

LEMMA LoadClean ==
  ASSUME Echo!EchoFine, EchoType, Clean, Echo!Load
  PROVE  Clean'
  <1>1. /\ UNCHANGED <<main, reader, stop, typed, idle, conn, line, back, rdr, emitting, busy, sent, printed, lost>>
        /\ shift = Echo!Empty /\ tdr # Echo!Empty /\ shift' = tdr /\ tdr' = Echo!Empty
    BY DEF Echo!Load, Echo!CanLoad, Echo!client, Echo!apple, Echo!habits
  <1>2. tdr \in Char /\ <<tdr>> \in Seq(Char) BY <1>1 DEF EchoType
  <1>4. OneLine' BY <1>1 DEF Clean, OneLine
  <1>5. Backlog' = Backlog
    <2>1. Held(Echo!Empty) = 0 /\ Held(tdr) = 1 BY <1>1 DEF Held
    <2>2. Len(emitting) \in Nat BY DEF EchoType
    <2>3. Backlog = Due(rdr) + Len(emitting) + Held(tdr) + Held(Echo!Empty) BY <1>1 DEF Backlog
    <2>4. Backlog' = Due(rdr) + Len(emitting) + Held(Echo!Empty) + Held(tdr) BY <1>1 DEF Backlog
    <2>5. Due(rdr) \in Nat BY DueIs
    <2> QED BY <2>1, <2>2, <2>3, <2>4, <2>5
  <1>6. Behind' BY <1>1, <1>5 DEF Clean, Behind
  <1>7. Echo!Order' = Echo!Order
    <2> DEFINE q == printed \o back
    <2>1. q \in Seq(Char) BY Assoc DEF EchoType
    <2>2. Echo!Order = ((q \o <<>>) \o <<tdr>>) \o emitting BY <1>1 DEF Echo!Order, Echo!Put
    <2>3. Echo!Order' = ((q \o <<tdr>>) \o <<>>) \o emitting BY <1>1 DEF Echo!Order, Echo!Put
    <2> HIDE DEF q
    <2>4. q \o <<>> = q /\ (q \o <<tdr>>) \o <<>> = q \o <<tdr>> BY <2>1, <1>2, Assoc
    <2> QED BY <2>2, <2>3, <2>4
  <1>8. Echoes' BY <1>1, <1>7 DEF Clean, Echoes
  <1> QED BY <1>1, <1>4, <1>6, <1>8 DEF Clean

\* One byte leaves and one comes; it finds the register empty, for while a line comes in
\* only one byte is ever behind, and that is in the shift register when the slot begins.
LEMMA SlotClean ==
  ASSUME Echo!EchoFine, EchoType, Clean, Calm, Echo!Slot
  PROVE  Clean'
  <1>1. /\ UNCHANGED <<main, reader, stop, typed, conn, tdr, emitting, sent, printed>>
        /\ back' = Echo!Put(back, shift) /\ shift' = Echo!Empty /\ idle' = Echo!Paused(idle)
        /\ IF line = <<>> THEN UNCHANGED <<line, rdr, lost>>
           ELSE /\ line' = Tail(line)
                /\ IF rdr = Echo!Empty THEN rdr' = Head(line) /\ UNCHANGED lost
                                  ELSE lost' = TRUE /\ UNCHANGED rdr
    BY DEF Echo!Slot, Echo!client
  <1>2. (shift = Echo!Empty => Backlog = 0) /\ (Backlog <= 1 => rdr = Echo!Empty) /\ Backlog \in Nat
    BY SlotSends, BacklogIs DEF Clean, Echo!Slot
  <1>3. line # <<>> => rdr = Echo!Empty /\ idle = 0 /\ Backlog <= 1
    BY <1>2 DEF Clean, Behind, OneLine
  <1>4. line # <<>> => /\ rdr' = Head(line) /\ line' = Tail(line) /\ lost' = lost /\ Head(line) \in Char
                       /\ <<Head(line)>> \o Tail(line) = line /\ Tail(line) \in Seq(Char)
    BY <1>1, <1>3 DEF EchoType
  <1>5. /\ back' = back \o Echo!Put(<<>>, shift) /\ back' \in Seq(Char)
    BY <1>1, PutIs DEF EchoType
  <1>i. idle' = IF line = <<>> /\ idle < Echo!Enough THEN idle + 1 ELSE idle BY <1>1 DEF Echo!Paused
  <1>7. OneLine'
    <2>1. CASE line = <<>> BY <1>1, <2>1 DEF Clean, OneLine
    <2>2. CASE line # <<>>
      <3> DEFINE t == Tail(line)
      <3>1. /\ Len(line) \in Nat \ {0} /\ Len(t) = Len(line) - 1
            /\ \A i \in 1 .. Len(t) : t[i] = line[i + 1] /\ i + 1 \in 1 .. Len(line)
        BY <2>2 DEF EchoType
      <3>2. line' = t BY <1>4, <2>2
      <3> HIDE DEF t
      <3>3. \A i \in 1 .. Len(t) : t[i] = "CR" <=> i = Len(t) BY <3>1 DEF Clean, OneLine
      <3>4. idle' = 0 BY <2>2, <1>3, <1>i
      <3> QED BY <3>2, <3>3, <3>4 DEF OneLine
    <2> QED BY <2>1, <2>2
  <1>8. Behind'
    <2>0. Backlog = Due(rdr) + Len(emitting) + Held(tdr) + Held(shift)
          /\ Len(emitting) \in Nat /\ Held(tdr) \in Nat /\ Held(shift) \in Nat /\ Due(rdr) \in Nat
      <3>1. emitting \in Seq(Char) BY DEF EchoType
      <3> QED BY <3>1, DueIs DEF Backlog
    <2>1. Held(shift') = 0 /\ (shift # Echo!Empty => Held(shift) = 1) BY <1>1 DEF Held
    <2>2. Backlog' = Due(rdr') + Len(emitting) + Held(tdr) BY <1>1, <2>0, <2>1, DueIs DEF Backlog
    <2>3. CASE line = <<>>
      <3>1. rdr' = rdr /\ line' = <<>> BY <1>1, <2>3
      <3>2. Backlog' = IF shift = Echo!Empty THEN 0 ELSE Backlog - 1 BY <3>1, <2>0, <2>1, <2>2, <1>2
      <3>3. Backlog <= 2 BY DEF Clean, Behind
      <3>4. Backlog' <= 1 BY <3>2, <3>3, <1>2
      <3>5. Backlog' \in Int BY <3>2, <1>2
      <3> QED BY <3>4, <3>5, <1>1 DEF Behind
    <2>4. CASE line # <<>>
      <3> DEFINE c == Head(line)
      <3>1. Due(rdr) = 0 /\ rdr' = c /\ idle' = 0 BY <2>4, <1>3, <1>4, <1>i DEF Due
      <3>2. Len(emitting) + Held(tdr) = 0 BY <3>1, <2>0, <2>1, <2>4, <1>2, <1>3
      <3>3. Backlog' = Due(c) BY <3>1, <3>2, <2>0, <2>2, DueIs
      <3>4. Backlog' <= 2 BY <3>3, DueIs
      <3>5. line' # <<>> => Backlog' <= 1
        <4>1. Tail(line) # <<>> => c # "CR"
          <5>1. line[1] = c /\ Len(line) \in Nat \ {0} /\ (Tail(line) # <<>> => Len(line) # 1)
            <6>1. line \in Seq(Char) BY DEF EchoType
            <6>2. Len(line) \in Nat \ {0} /\ line[1] = Head(line) BY <2>4, <6>1
            <6>3. Tail(line) \in Seq(Char) /\ Len(Tail(line)) = Len(line) - 1 BY <2>4, <6>1
            <6>4. Len(line) = 1 => Tail(line) = <<>>
              <7> DEFINE t == Tail(line)
              <7>1. t \in Seq(Char) /\ (Len(line) = 1 => Len(t) = 0) BY <6>2, <6>3
              <7> HIDE DEF t
              <7>2. Len(line) = 1 => t = <<>> BY <7>1, EmptySeq
              <7> QED BY <7>2 DEF t
            <6> QED BY <6>2, <6>4
          <5> QED BY <5>1 DEF Clean, OneLine
        <4>2. c # "CR" => Due(c) <= 1 BY DEF Due
        <4> QED BY <4>1, <4>2, <3>3, <2>4, <1>4
      <3> QED BY <3>1, <3>4, <3>5, <1>1 DEF Behind
    <2> QED BY <2>3, <2>4
  <1>9. Echo!Order' = Echo!Order
    <2> DEFINE S == Echo!Put(<<>>, shift)
               T == Echo!Put(<<>>, tdr)
    <2>1. Echo!Order = (((printed \o back) \o S) \o T) \o emitting BY DEF Echo!Order
    <2>2. Echo!Order' = (((printed \o (back \o S)) \o <<>>) \o T) \o emitting BY <1>1, <1>5 DEF Echo!Order, Echo!Put
    <2>3. S \in Seq(Char) /\ printed \in Seq(Char) /\ back \in Seq(Char) BY OrderIs DEF EchoType
    <2> HIDE DEF S, T
    <2>4. (printed \o (back \o S)) \o <<>> = (printed \o back) \o S BY <2>3, Assoc
    <2> QED BY <2>1, <2>2, <2>4
  <1>10. Echo!Put(<<>>, rdr)' \o line' = Echo!Put(<<>>, rdr) \o line
    <2>1. CASE line = <<>> BY <2>1, <1>1
    <2>2. CASE line # <<>>
      <3>1. Echo!Put(<<>>, rdr) = <<>> BY <2>2, <1>3 DEF Echo!Put
      <3>2. Head(line) # Echo!Empty BY <2>2, <1>4, CharIs
      <3>3. Echo!Put(<<>>, rdr)' = <<Head(line)>> BY <2>2, <3>2, <1>4 DEF Echo!Put
      <3>4. <<>> \o line = line BY Assoc DEF EchoType
      <3> QED BY <3>1, <3>3, <3>4, <2>2, <1>4
    <2> QED BY <2>1, <2>2
  <1>11. Echoes' BY <1>1, <1>9, <1>10 DEF Clean, Echoes
  <1>12. ~lost' BY <1>1, <1>4 DEF Clean
  <1> QED BY <1>7, <1>8, <1>11, <1>12 DEF Clean

LEMMA ReaderClean ==
  ASSUME Echo!EchoFine, EchoType, Clean, Echo!ReaderPrints
  PROVE  Clean'
  <1>1. UNCHANGED <<idle, conn, line, rdr, tdr, shift, emitting, busy, sent, lost>>
    BY DEF Echo!ReaderPrints, Echo!card, Echo!apple, Echo!habits
  <1>2. PICK n \in 1 .. Len(back) :
          printed' = printed \o SubSeq(back, 1, n) /\ back' = SubSeq(back, n + 1, Len(back))
    BY DEF Echo!ReaderPrints
  <1> DEFINE x == SubSeq(back, 1, n)
             y == SubSeq(back, n + 1, Len(back))
  <1>t. x \in Seq(Char) /\ y \in Seq(Char) BY DEF EchoType
  <1>3. x \o y = back BY DEF EchoType
  <1>4. printed' = printed \o x /\ back' = y BY <1>2
  <1> HIDE DEF x, y
  <1>6. printed' \o back' = printed \o back
    <2>1. printed \in Seq(Char) BY DEF EchoType
    <2>2. printed \o (x \o y) = (printed \o x) \o y BY <2>1, <1>t, Assoc
    <2> QED BY <2>2, <1>3, <1>4
  <1>7. Echo!Order' = Echo!Order BY <1>1, <1>6 DEF Echo!Order, Echo!Put
  <1>8. Echoes' BY <1>1, <1>7 DEF Clean, Echoes, Echo!Put
  <1>9. OneLine' BY <1>1 DEF Clean, OneLine
  <1>10. Behind' BY <1>1 DEF Clean, Behind, Backlog
  <1> QED BY <1>1, <1>8, <1>9, <1>10 DEF Clean

\* A typed line is text that its return ends.
LEMMA LineIs ==
  ASSUME Echo!EchoFine, NEW l \in Lines
  PROVE  LET p == Append(l, "CR")
         IN  /\ p \in Seq(Text) /\ p \in Seq(Char) /\ Len(l) \in Nat /\ Len(p) = Len(l) + 1
             /\ \A i \in 1 .. Len(p) : p[i] = "CR" <=> i = Len(p)
  <1> DEFINE p == Append(l, "CR")
  <1>1. l \in Seq(Typed) /\ \A i \in 1 .. Len(l) : l[i] # "CR"
    <2>1. l \in Seq(Echo!Range(l)) /\ "CR" \notin Echo!Range(l) BY DEF Echo!EchoFine
    <2>2. Echo!Range(l) \subseteq Typed BY DEF Typed
    <2>3. \A i \in 1 .. Len(l) : l[i] \in Echo!Range(l) BY <2>1
    <2>4. \A i \in 1 .. Len(l) : l[i] \in Typed BY <2>2, <2>3
    <2>5. DOMAIN l = 1 .. Len(l) /\ Len(l) \in Nat BY <2>1
    <2>6. l = [i \in 1 .. Len(l) |-> l[i]] BY <2>1
    <2> QED BY <2>1, <2>3, <2>4, <2>5, <2>6
  <1>2. p \in Seq(Typed \cup {"CR"}) /\ p \in Seq(Typed \cup {"CR", "LF"}) BY <1>1
  <1>3. \A i \in 1 .. Len(p) : p[i] = "CR" <=> i = Len(p) BY <1>1
  <1>4. Len(l) \in Nat /\ Len(p) = Len(l) + 1 BY <1>1
  <1> QED BY <1>2, <1>3, <1>4 DEF Char, Text

\* After the pause all but a byte of the line before has been sent back.
LEMMA TypeClean ==
  ASSUME Echo!EchoFine, EchoType, Clean, conn = "open", Echo!TypeLine, rest' > 0
  PROVE  Clean'
  <1>1. UNCHANGED <<conn, back, rdr, tdr, shift, emitting, busy, printed, lost>> /\ idle' = 0
    BY DEF Echo!TypeLine, Echo!card, Echo!apple
  <1>2. PICK l \in Lines :
          /\ line' = line \o Append(l, "CR") /\ sent' = sent \o Append(l, "CR")
          /\ rest' = IF idle < rest THEN idle ELSE rest
    BY DEF Echo!TypeLine
  <1> DEFINE p == Append(l, "CR")
  <1>3. idle # 0
    <2>1. idle \in Nat /\ rest \in Nat BY DEF EchoType, Echo!Enough, Echo!EchoFine
    <2> QED BY <2>1, <1>2
  <1>4. line = <<>> /\ Backlog <= 1 BY <1>3 DEF Clean, OneLine, Behind
  <1>5. p \in Seq(Char) /\ \A i \in 1 .. Len(p) : p[i] = "CR" <=> i = Len(p) BY LineIs
  <1>6. line' = p /\ sent' = sent \o p BY <1>2, <1>4, <1>5, Assoc
  <1> HIDE DEF p
  <1>7. OneLine' BY <1>1, <1>5, <1>6 DEF OneLine
  <1>8. Behind'
    <2>1. Backlog' = Backlog BY <1>1 DEF Backlog
    <2> QED BY <2>1, <1>1, <1>4 DEF Clean, Behind
  <1>9. Echoes'
    <2> DEFINE o == Echo!Order  r == Echo!Put(<<>>, rdr)  x == Echo!Expand(r)  y == Echo!Expand(p)
    <2>1. o \in Seq(Char) /\ r \in Seq(Char) BY OrderIs
    <2>2. "CR" \in Char BY DEF Char
    <2>3. x \in Seq(Char) /\ y \in Seq(Char) BY <2>1, <2>2, <1>5, ExpandAppend
    <2>4. Echo!Order' = o /\ Echo!Put(<<>>, rdr)' = r BY <1>1 DEF Echo!Order, Echo!Put
    <2>5. Echo!Expand(r \o p) = x \o y /\ Echo!Expand(sent \o p) = Echo!Expand(sent) \o y
      BY <2>1, <1>5, ExpandCat DEF EchoType
    <2>6. o \o x = Echo!Expand(sent)
      <3>1. r \o line = r BY <1>4, <2>1, Assoc
      <3> QED BY <3>1 DEF Clean, Echoes
    <2> HIDE DEF o, r, x, y
    <2>7. o \o (x \o y) = (o \o x) \o y BY <2>1, <2>3, Assoc
    <2> QED BY <2>4, <2>5, <2>6, <2>7, <1>6 DEF Echoes
  <1>10. ~lost' BY <1>1 DEF Clean
  <1> QED BY <1>7, <1>8, <1>9, <1>10 DEF Clean

--------------------------------------------------------------------------------
(***************************************************************************)
(* The screen, and how a pause outlasts its scroll.                        *)
(***************************************************************************)
LEMMA TextIs ==
  ASSUME Echo!EchoFine
  PROVE  /\ Text \subseteq Char /\ Typed \subseteq Text /\ "CR" \notin Typed /\ "LF" \notin Typed
         /\ Echo!Empty \notin Text
         /\ \A b \in Text : \/ b = "CR" /\ Echo!Emit(b) = <<"CR", "LF">>
                            \/ b \in Typed /\ Echo!Emit(b) = <<b>>
  <1>1. "CR" \notin Typed /\ "LF" \notin Typed
    <2>1. \A l \in Lines : "CR" \notin Echo!Range(l) /\ "LF" \notin Echo!Range(l) BY DEF Echo!EchoFine
    <2> QED BY <2>1, Zenon DEF Typed
  <1>2. Text \subseteq Char /\ Typed \subseteq Text BY DEF Text, Char
  <1>3. Echo!Empty \notin Text BY <1>2, CharIs
  <1>4. \A b \in Text : b = "CR" \/ b \in Typed BY DEF Text
  <1> QED BY <1>1, <1>2, <1>3, <1>4 DEF Echo!Emit

LEMMA ShapeIs ==
  ASSUME Echo!EchoFine, Shape
  PROVE  \/ emitting = <<>> /\ Len(emitting) = 0
         \/ emitting = <<"LF">> /\ Len(emitting) = 1 /\ Head(emitting) = "LF" /\ Tail(emitting) = <<>>
         \/ emitting = <<"CR", "LF">> /\ Len(emitting) = 2 /\ Tail(emitting) = <<"LF">>
         \/ \E c \in Typed : emitting = <<c>> /\ Len(emitting) = 1 /\ Head(emitting) = c /\ Tail(emitting) = <<>>
  <1>1. CASE emitting = <<"LF">> BY <1>1
  <1>2. CASE emitting = <<"CR", "LF">>
    <2>1. Len(<<"CR", "LF">>) = 2 /\ Tail(<<"CR", "LF">>) = <<"LF">> OBVIOUS
    <2> QED BY <1>2, <2>1
  <1>3. ASSUME NEW c \in Typed, emitting = <<c>>
        PROVE  Len(emitting) = 1 /\ Head(emitting) = c /\ Tail(emitting) = <<>>
    BY <1>3
  <1>4. CASE emitting = <<>> BY <1>4
  <1> QED BY <1>1, <1>2, <1>3, <1>4 DEF Shape

\* Printing moves the cursor and starts a scroll at most.
LEMMA PrintIs ==
  ASSUME Echo!EchoFine, EchoType, busy = 0, NEW b, Echo!Cout(b)
  PROVE  /\ col' = IF b = "CR" \/ col + 1 = Width THEN 0 ELSE col + 1
         /\ scrolled' \in BOOLEAN /\ (scrolled => scrolled') /\ col' \in Nat
         /\ busy' \in 0 .. ScrollTime
         /\ busy' # 0 => scrolled' /\ (b = "CR" \/ col + 1 = Width)
  <1>1. Width \in Nat /\ ScrollTime \in Nat /\ col \in Nat /\ scrolled \in BOOLEAN
    BY DEF EchoType, Echo!EchoFine
  <1>2. CASE b = "CR" \/ col + 1 = Width
    <2>1. col' = 0 /\ Echo!NewRow BY <1>2 DEF Echo!Cout
    <2>2. (busy' = busy /\ scrolled' = scrolled) \/ (busy' \in 0 .. ScrollTime /\ scrolled' = TRUE)
      BY <2>1 DEF Echo!NewRow
    <2>3. col' \in Nat /\ 0 \in 0 .. ScrollTime BY <1>1, <2>1
    <2> QED BY <1>1, <1>2, <2>1, <2>2, <2>3, Zenon
  <1>3. CASE ~(b = "CR" \/ col + 1 = Width)
    <2>1. col' = col + 1 /\ busy' = busy /\ scrolled' = scrolled BY <1>3 DEF Echo!Cout
    <2>2. col' \in Nat /\ 0 \in 0 .. ScrollTime BY <1>1, <2>1
    <2> QED BY <1>1, <1>3, <2>1, <2>2, Zenon
  <1> QED BY <1>2, <1>3

\* What a push does to the screen.
LEMMA PushIs ==
  ASSUME Echo!EchoFine, EchoType, Shape, Echo!Push
  PROVE  /\ UNCHANGED <<line, rdr, idle, conn, rest, wide, lost>> /\ busy = 0 /\ emitting # <<>>
         /\ scrolled' \in BOOLEAN /\ (scrolled => scrolled') /\ col' \in Nat
         /\ busy' \in 0 .. ScrollTime /\ (busy' # 0 => scrolled')
         /\ \/ emitting = <<"CR", "LF">> /\ emitting' = <<"LF">> /\ busy' = 0
            \/ emitting = <<"LF">> /\ emitting' = <<>> /\ col' = 0
            \/ /\ \E c \in Typed : emitting = <<c>>
               /\ emitting' = <<>> /\ col' = (IF col + 1 = Width THEN 0 ELSE col + 1)
               /\ busy' # 0 => col + 1 = Width
  <1>1. /\ UNCHANGED <<line, rdr, idle, conn, rest, wide, lost>> /\ busy = 0 /\ emitting # <<>>
        /\ emitting' = Tail(emitting)
        /\ IF Len(emitting) = 1 THEN Echo!Cout(IF Head(emitting) = "LF" THEN "CR" ELSE Head(emitting))
                                ELSE UNCHANGED <<busy, col, scrolled>>
    BY DEF Echo!Push, Echo!CanPush, Echo!habits
  <1>2. /\ ScrollTime \in Nat /\ col \in Nat /\ scrolled \in BOOLEAN BY DEF EchoType, Echo!EchoFine
  <1>3. CASE emitting = <<"CR", "LF">> /\ Len(emitting) = 2 /\ Tail(emitting) = <<"LF">>
    BY <1>1, <1>2, <1>3
  <1>4. CASE emitting = <<"LF">> /\ Len(emitting) = 1 /\ Head(emitting) = "LF" /\ Tail(emitting) = <<>>
    <2>1. Echo!Cout("CR") /\ emitting' = <<>> BY <1>1, <1>4
    <2> QED BY <1>1, <1>4, <2>1, PrintIs
  <1>5. ASSUME NEW c \in Typed, emitting = <<c>>, Len(emitting) = 1, Head(emitting) = c, Tail(emitting) = <<>>
        PROVE  /\ scrolled' \in BOOLEAN /\ (scrolled => scrolled') /\ col' \in Nat
               /\ busy' \in 0 .. ScrollTime /\ (busy' # 0 => scrolled')
               /\ emitting' = <<>> /\ col' = (IF col + 1 = Width THEN 0 ELSE col + 1)
               /\ busy' # 0 => col + 1 = Width
    <2>1. c # "CR" /\ c # "LF" BY TextIs
    <2>2. Echo!Cout(c) /\ emitting' = <<>> BY <1>1, <1>5, <2>1
    <2> QED BY <1>1, <2>1, <2>2, PrintIs
  <1> QED BY <1>1, <1>3, <1>4, <1>5, ShapeIs

\* What a step of the card or the program has to show.
LEMMA Kept ==
  ASSUME EchoInv, EchoType', Shape', UNCHANGED <<conn, rest, wide>>, scrolled => scrolled',
         ~scrolled' => busy' = 0,
         conn # "open" => lost' = lost,
         Granted /\ conn = "open" => Clean',
         Granted' /\ conn = "open" => Calm',
         Roomy /\ conn = "open" => Pausing' /\ Fits'
  PROVE  EchoInv'
  <1>1. Roomy' <=> Roomy BY DEF Roomy, Echo!Enough
  <1>2. Granted' => Granted BY <1>1 DEF Granted, EchoInv, EchoType
  <1>3. Granted' => ~lost'
    <2>1. CASE conn = "open" BY <2>1, <1>2 DEF Clean
    <2>2. CASE conn # "open" BY <2>2, <1>2 DEF EchoInv
    <2> QED BY <2>1, <2>2
  <1> QED BY <1>1, <1>2, <1>3 DEF EchoInv

LEMMA PushKeeps == ASSUME Echo!EchoFine, EchoInv, Echo!Push PROVE EchoInv'
  <1>1. EchoType /\ Shape BY DEF EchoInv
  <1>p. /\ UNCHANGED <<line, rdr, idle, conn, rest, wide, lost>> /\ busy = 0 /\ emitting # <<>>
        /\ scrolled' \in BOOLEAN /\ (scrolled => scrolled') /\ col' \in Nat
        /\ busy' \in 0 .. ScrollTime /\ (busy' # 0 => scrolled')
        /\ \/ emitting = <<"CR", "LF">> /\ emitting' = <<"LF">> /\ busy' = 0
           \/ emitting = <<"LF">> /\ emitting' = <<>> /\ col' = 0
           \/ /\ \E c \in Typed : emitting = <<c>>
              /\ emitting' = <<>> /\ col' = (IF col + 1 = Width THEN 0 ELSE col + 1)
              /\ busy' # 0 => col + 1 = Width
    BY <1>1, PushIs
  <1>n. ScrollTime \in Nat /\ Width \in Nat /\ Echo!Enough = ScrollTime + 1 /\ col \in Nat /\ idle \in Nat
    BY <1>1 DEF Echo!EchoFine, Echo!Enough, EchoType
  <1>2. EchoType'
    <2>1. UNCHANGED <<back, shift, sent, printed>> /\ tdr' = Head(emitting) /\ emitting' = Tail(emitting)
      BY DEF Echo!Push
    <2>2. Head(emitting) \in Char /\ Tail(emitting) \in Seq(Char) BY <1>1, <1>p DEF EchoType
    <2>3. busy' \in Nat BY <1>p, <1>n
    <2> QED BY <1>1, <1>p, <2>1, <2>2, <2>3 DEF EchoType, Echo!Enough
  <1>3. Shape' BY <1>1, <1>p DEF Shape
  <1>4. ASSUME Granted, conn = "open" PROVE Clean' /\ (rdr = Echo!Empty)
    BY <1>1, <1>4, <1>p, PushClean DEF EchoInv, Calm
  <1>5. ASSUME Roomy, conn = "open"
        PROVE  Pausing' /\ Fits' /\ (busy' # 0 => line = <<>> /\ emitting' = <<>>)
    <2>1. Clean /\ Calm /\ Pausing /\ Fits /\ rdr = Echo!Empty
      <3>1. Granted BY <1>5, <1>n DEF Granted, Roomy
      <3> QED BY <3>1, <1>5, <1>p DEF EchoInv, Calm
    <2>2. "LF" # "CR" /\ Echo!Empty # "CR" BY DEF Echo!Empty
    <2>3. ASSUME NEW c \in Typed, emitting = <<c>>
          PROVE  line # <<>> /\ col + 1 < Width /\ ~Ending' /\ Held(rdr) = 0 /\ Len(emitting) = 1
      <3>1. c # "LF" /\ emitting # <<"LF">> /\ emitting # <<"CR", "LF">>
        <4>1. Len(<<c>>) = 1 /\ Len(<<"CR", "LF">>) = 2 /\ <<c>>[1] = c /\ <<"LF">>[1] = "LF" OBVIOUS
        <4> QED BY <2>3, <4>1, TextIs
      <3>2. ~Ending BY <3>1, <2>1, <2>2 DEF Ending
      <3>3. line # <<>> BY <3>2, <2>1, <1>p DEF Fits
      <3>4. Len(line) \in Nat \ {0} BY <3>3, <1>1 DEF EchoType
      <3>5. Held(rdr) = 0 /\ Len(emitting) = 1 BY <2>1, <2>3 DEF Held
      <3>6. col + 0 + 1 + Len(line) <= Width BY <3>3, <3>5, <2>1 DEF Fits
      <3>7. emitting' = <<>>
        BY <1>p, <3>1
      <3>8. ~Ending' BY <3>7, <2>1, <2>2, <1>p DEF Ending
      <3> QED BY <3>3, <3>4, <3>5, <3>6, <3>8, <1>n
    <2>4. CASE emitting = <<"CR", "LF">> /\ emitting' = <<"LF">> /\ busy' = 0
      <3>1. Ending BY <2>4 DEF Ending
      <3>2. Ending' /\ line = <<>> /\ idle <= 1 BY <3>1, <2>4, <2>1 DEF Ending, Pausing
      <3> QED BY <3>2, <2>4, <1>p DEF Pausing, Fits
    <2>5. CASE emitting = <<"LF">> /\ emitting' = <<>> /\ col' = 0
      <3>1. Ending BY <2>5 DEF Ending
      <3>2. line = <<>> /\ idle <= 1 BY <3>1, <2>1 DEF Pausing
      <3>3. ~Ending' BY <2>1, <2>2, <2>5, <1>p DEF Ending
      <3>4. idle + busy' <= Echo!Enough
        <4>0. busy' \in 0 .. ScrollTime BY <1>p
        <4>1. busy' \in Nat /\ busy' <= ScrollTime BY <4>0, <1>n
        <4>2. idle \in Nat /\ idle <= 1 BY <3>2, <1>n
        <4>3. \A i, b, s \in Nat : i <= 1 /\ b <= s => i + b <= s + 1 OBVIOUS
        <4> QED BY <4>1, <4>2, <4>3, <1>n
      <3>5. Quiet' BY <3>2, <2>1, <2>5, <1>p DEF Quiet
      <3>6. Pausing' BY <3>3, <3>4, <3>5, <1>p DEF Pausing, Echo!Enough
      <3>7. Fits' BY <3>2, <2>1, <2>5, <1>p DEF Fits
      <3> QED BY <3>2, <3>6, <3>7, <2>5
    <2>6. CASE /\ \E c \in Typed : emitting = <<c>>
               /\ emitting' = <<>> /\ col' = (IF col + 1 = Width THEN 0 ELSE col + 1)
               /\ busy' # 0 => col + 1 = Width
      <3>1. PICK c \in Typed : emitting = <<c>> BY <2>6
      <3>2. line # <<>> /\ col + 1 < Width /\ ~Ending' /\ Held(rdr) = 0 /\ Len(emitting) = 1 BY <3>1, <2>3
      <3>3. busy' = 0 /\ col' = col + 1 BY <3>2, <2>6, <1>n
      <3>4. Pausing' BY <3>2, <3>3 DEF Pausing
      <3>5. Len(line) \in Nat BY <1>1 DEF EchoType
      <3>6. col + Len(line) + 1 <= Width BY <3>2, <3>5, <1>n, <2>1 DEF Fits
      <3>7. Held(rdr)' = 0 /\ Len(emitting') = 0 BY <3>2, <2>6, <1>p DEF Held
      <3>8. Fits' BY <3>2, <3>3, <3>5, <3>6, <3>7, <1>n, <1>p DEF Fits
      <3> QED BY <3>3, <3>4, <3>8
    <2> QED BY <2>4, <2>5, <2>6, <1>p
  <1>6. ASSUME Granted', conn = "open" PROVE Calm'
    <2>1. Granted /\ (scrolled' => Roomy) BY <1>6, <1>p DEF Granted, Roomy, Echo!Enough
    <2>2. rdr' = Echo!Empty BY <2>1, <1>4, <1>6, <1>p
    <2>3. CASE busy' = 0 BY <2>2, <2>3 DEF Calm, Quiet
    <2>4. CASE busy' # 0
      <3>1. line = <<>> /\ emitting' = <<>> BY <2>1, <2>4, <1>5, <1>6, <1>p
      <3> QED BY <2>2, <3>1, <1>p DEF Calm, Quiet
    <2> QED BY <2>3, <2>4
  <1> QED BY <1>2, <1>3, <1>4, <1>5, <1>6, <1>p, Kept

LEMMA TakeKeeps == ASSUME Echo!EchoFine, EchoInv, Echo!Take PROVE EchoInv'
  <1>1. EchoType /\ Shape BY DEF EchoInv
  <1>2. /\ UNCHANGED <<idle, conn, line, back, tdr, shift, busy, col, scrolled, sent, printed, lost, rest, wide>>
        /\ busy = 0 /\ emitting = <<>> /\ rdr # Echo!Empty /\ emitting' = Echo!Emit(rdr) /\ rdr' = Echo!Empty
    BY DEF Echo!Take, Echo!CanTake, Echo!habits
  <1>3. rdr \in Text /\ rdr \in Char BY <1>1, <1>2, TextIs DEF Shape
  <1>4. \/ rdr = "CR" /\ emitting' = <<"CR", "LF">>
        \/ rdr \in Typed /\ emitting' = <<rdr>>
    BY <1>2, <1>3, TextIs
  <1>5. EchoType'
    <2>1. emitting' \in Seq(Char) BY <1>2, <1>3, CharIs
    <2> QED BY <1>1, <1>2, <2>1 DEF EchoType, Echo!Enough
  <1>6. Shape' BY <1>1, <1>2, <1>4 DEF Shape
  <1>7. ASSUME Granted, conn = "open" PROVE Clean' /\ Calm'
    <2>1. Clean' BY <1>1, <1>7, TakeClean DEF EchoInv
    <2>2. Calm' BY <1>2 DEF Calm, Quiet
    <2> QED BY <2>1, <2>2
  <1>8. ASSUME Roomy, conn = "open" PROVE Pausing' /\ Fits'
    <2>1. Pausing /\ Fits BY <1>8 DEF EchoInv
    <2>2. Ending <=> rdr = "CR"
      BY <1>2 DEF Ending
    <2>3. CASE rdr = "CR" /\ emitting' = <<"CR", "LF">>
      <3>1. line = <<>> /\ idle <= 1 BY <2>1, <2>2, <2>3 DEF Pausing
      <3>2. Ending' BY <2>3 DEF Ending
      <3>3. busy' = 0 /\ line' = <<>> /\ idle' = idle BY <3>1, <1>2
      <3> QED BY <3>1, <3>2, <3>3 DEF Pausing, Fits
    <2>4. CASE rdr \in Typed /\ emitting' = <<rdr>>
      <3>1. rdr # "CR" /\ rdr # "LF" BY <2>4, TextIs
      <3>2. Len(<<rdr>>) = 1 /\ <<rdr>> # <<"LF">> /\ <<rdr>> # <<"CR", "LF">>
        <4>1. Len(<<rdr>>) = 1 /\ Len(<<"CR", "LF">>) = 2 /\ <<rdr>>[1] = rdr /\ <<"LF">>[1] = "LF" OBVIOUS
        <4> QED BY <3>1, <4>1
      <3>3. Echo!Empty # "CR" BY DEF Echo!Empty
      <3>4. ~Ending' BY <3>2, <3>3, <2>4, <1>2 DEF Ending
      <3>5. line # <<>> BY <2>1, <2>2, <3>1, <1>2 DEF Fits
      <3>6. Held(rdr) = 1 /\ Held(rdr)' = 0 /\ Len(emitting) = 0 /\ Len(emitting)' = 1
        BY <1>2, <2>4, <3>2 DEF Held
      <3>7. Len(line) \in Nat /\ col \in Nat BY <1>1 DEF EchoType
      <3>8. col + 1 + 0 + Len(line) <= Width BY <2>1, <3>5, <3>6 DEF Fits
      <3>9. col + 0 + 1 + Len(line) <= Width BY <3>7, <3>8
      <3>10. Fits' BY <3>5, <3>6, <3>9, <1>2 DEF Fits
      <3>11. Pausing' BY <3>4, <1>2 DEF Pausing
      <3> QED BY <3>10, <3>11
    <2> QED BY <1>4, <2>3, <2>4
  <1>9. ~scrolled' => busy' = 0 BY <1>2
  <1>10. UNCHANGED <<conn, rest, wide>> /\ (scrolled => scrolled') /\ (conn # "open" => lost' = lost) BY <1>2
  <1>11. Granted' /\ conn = "open" => Calm' BY <1>2 DEF Calm, Quiet
  <1> QED BY <1>5, <1>6, <1>7, <1>8, <1>9, <1>10, <1>11, Kept

LEMMA LoadKeeps == ASSUME Echo!EchoFine, EchoInv, Echo!Load PROVE EchoInv'
  <1>1. EchoType /\ Shape BY DEF EchoInv
  <1>2. /\ UNCHANGED <<idle, conn, line, back, rdr, emitting, busy, col, scrolled, sent, printed, lost, rest, wide>>
        /\ shift' = tdr /\ tdr' = Echo!Empty
    BY DEF Echo!Load, Echo!habits, Echo!apple
  <1>3. EchoType' BY <1>1, <1>2 DEF EchoType, Echo!Enough
  <1>4. Shape' BY <1>1, <1>2 DEF Shape
  <1>5. Granted /\ conn = "open" => Clean' BY <1>1, LoadClean DEF EchoInv
  <1>6. (Granted' <=> Granted) BY <1>2 DEF Granted, Roomy, Echo!Enough
  <1>7. (Calm' <=> Calm) /\ (Pausing' <=> Pausing) /\ (Fits' <=> Fits)
    BY <1>2 DEF Calm, Quiet, Pausing, Fits, Ending, Held, Echo!Enough
  <1>8. ~scrolled' => busy' = 0 BY <1>2 DEF EchoInv
  <1>9. Granted' /\ conn = "open" => Calm' BY <1>6, <1>7 DEF EchoInv
  <1>10. Roomy /\ conn = "open" => Pausing' /\ Fits' BY <1>7 DEF EchoInv
  <1>11. UNCHANGED <<conn, rest, wide>> /\ (scrolled => scrolled') /\ (conn # "open" => lost' = lost) BY <1>2
  <1> QED BY <1>3, <1>4, <1>5, <1>8, <1>9, <1>10, <1>11, Kept

LEMMA ReaderKeeps == ASSUME Echo!EchoFine, EchoInv, Echo!ReaderPrints PROVE EchoInv'
  <1>1. EchoType /\ Shape BY DEF EchoInv
  <1>2. UNCHANGED <<idle, conn, line, rdr, tdr, shift, emitting, busy, col, scrolled, sent, lost, rest, wide>>
    BY DEF Echo!ReaderPrints, Echo!habits, Echo!apple, Echo!card
  <1>3. EchoType'
    <2>1. PICK n \in 1 .. Len(back) :
            printed' = printed \o SubSeq(back, 1, n) /\ back' = SubSeq(back, n + 1, Len(back))
      BY DEF Echo!ReaderPrints
    <2>2. back \in Seq(Char) /\ printed \in Seq(Char) BY <1>1 DEF EchoType
    <2>3. SubSeq(back, 1, n) \in Seq(Char) /\ SubSeq(back, n + 1, Len(back)) \in Seq(Char) BY <2>2
    <2>4. printed' \in Seq(Char) /\ back' \in Seq(Char) BY <2>1, <2>2, <2>3, Assoc
    <2> QED BY <1>1, <1>2, <2>4 DEF EchoType, Echo!Enough
  <1>4. Shape' BY <1>1, <1>2 DEF Shape
  <1>5. Granted /\ conn = "open" => Clean' BY <1>1, ReaderClean DEF EchoInv
  <1>6. (Granted' <=> Granted) BY <1>2 DEF Granted, Roomy, Echo!Enough
  <1>7. (Calm' <=> Calm) /\ (Pausing' <=> Pausing) /\ (Fits' <=> Fits)
    BY <1>2 DEF Calm, Quiet, Pausing, Fits, Ending, Held, Echo!Enough
  <1>8. ~scrolled' => busy' = 0 BY <1>2 DEF EchoInv
  <1>9. Granted' /\ conn = "open" => Calm' BY <1>6, <1>7 DEF EchoInv
  <1>10. Roomy /\ conn = "open" => Pausing' /\ Fits' BY <1>7 DEF EchoInv
  <1>11. UNCHANGED <<conn, rest, wide>> /\ (scrolled => scrolled') /\ (conn # "open" => lost' = lost) BY <1>2
  <1> QED BY <1>3, <1>4, <1>5, <1>8, <1>9, <1>10, <1>11, Kept

\* A slot that begins with at most a byte behind begins with that byte under way.
LEMMA SlotEmpty ==
  ASSUME EchoType, Calm, ~(Echo!CanPush \/ Echo!CanTake \/ Echo!CanLoad), Backlog <= 1
  PROVE  rdr = Echo!Empty /\ emitting = <<>>
  <1>1. rdr = Echo!Empty BY SlotSends
  <1>2. ASSUME emitting # <<>> PROVE FALSE
    <2>1. busy = 0 BY <1>2 DEF Calm, Quiet
    <2>2. tdr # Echo!Empty BY <1>2, <2>1 DEF Echo!CanPush
    <2>3. shift # Echo!Empty BY <2>2 DEF Echo!CanLoad
    <2>4. Len(emitting) \in Nat \ {0} BY <1>2 DEF EchoType
    <2>5. Held(tdr) = 1 /\ Held(shift) = 1 /\ Due(rdr) = 0 BY <1>1, <2>2, <2>3 DEF Held, Due
    <2>6. Backlog = 0 + Len(emitting) + 1 + 1 BY <2>5, BacklogIs
    <2> QED BY <2>4, <2>6
  <1> QED BY <1>1, <1>2

LEMMA SlotKeeps == ASSUME Echo!EchoFine, EchoInv, Echo!Slot PROVE EchoInv'
  <1>1. EchoType /\ Shape BY DEF EchoInv
  <1>2. /\ UNCHANGED <<conn, tdr, emitting, col, scrolled, sent, printed, rest, wide>> /\ conn = "open"
        /\ ~(Echo!CanPush \/ Echo!CanTake \/ Echo!CanLoad)
        /\ IF line = <<>> THEN UNCHANGED <<line, rdr, lost>>
           ELSE /\ line' = Tail(line)
                /\ IF rdr = Echo!Empty THEN rdr' = Head(line) /\ UNCHANGED lost
                                  ELSE lost' = TRUE /\ UNCHANGED rdr
        /\ back' = Echo!Put(back, shift) /\ shift' = Echo!Empty
        /\ busy' = (IF busy = 0 THEN 0 ELSE busy - 1)
        /\ idle' = Echo!Paused(idle)
    BY DEF Echo!Slot, Echo!habits
  <1>n. /\ Echo!Enough = ScrollTime + 1 /\ ScrollTime \in Nat /\ Echo!Enough \in Nat /\ col \in Nat
        /\ busy \in Nat /\ idle \in Nat /\ idle <= Echo!Enough
    BY <1>1 DEF Echo!EchoFine, Echo!Enough, EchoType
  <1>3. idle' = IF line = <<>> /\ idle < Echo!Enough THEN idle + 1 ELSE idle BY <1>2 DEF Echo!Paused
  <1>4. line # <<>> => /\ Head(line) \in Text /\ Tail(line) \in Seq(Text) /\ line[1] = Head(line)
                       /\ Len(line) \in Nat \ {0} /\ Len(Tail(line)) = Len(line) - 1
    BY <1>1 DEF Shape
  <1>5. Shape' BY <1>1, <1>2, <1>4 DEF Shape
  <1>6. EchoType'
    <2>1. back' \in Seq(Char)
      <3>1. back \in Seq(Char) /\ shift \in Char \cup {Echo!Empty} BY <1>1 DEF EchoType
      <3> QED BY <3>1, <1>2, PutIs
    <2>2. (Head(line) \in Char /\ Tail(line) \in Seq(Char)) \/ line = <<>> BY <1>1 DEF EchoType
    <2>3. line' \in Seq(Char) /\ rdr' \in Char \cup {Echo!Empty} BY <1>1, <1>2, <2>2 DEF EchoType
    <2>4. idle' \in 0 .. Echo!Enough BY <1>3, <1>n
    <2>5. busy' \in Nat BY <1>2, <1>n
    <2> QED BY <1>1, <1>2, <2>1, <2>3, <2>4, <2>5 DEF EchoType, Echo!Enough
  <1>7. ASSUME Granted PROVE Clean /\ Calm /\ (Backlog <= 1 => rdr = Echo!Empty /\ emitting = <<>>)
    <2>1. Clean /\ Calm BY <1>7, <1>2 DEF EchoInv
    <2> QED BY <2>1, <1>1, <1>2, SlotEmpty
  <1>8. ASSUME Granted, line # <<>>
        PROVE  /\ rdr = Echo!Empty /\ emitting = <<>> /\ idle = 0 /\ idle' = 0 /\ busy = 0 /\ busy' = 0
               /\ rdr' = Head(line) /\ line' = Tail(line)
               /\ (rdr' = "CR" <=> Len(line) = 1) /\ (line' = <<>> <=> Len(line) = 1)
    <2>1. rdr = Echo!Empty /\ emitting = <<>> /\ idle = 0 BY <1>7, <1>8 DEF Clean, Behind, OneLine
    <2>2. busy = 0 /\ busy' = 0 BY <1>2, <1>7, <1>8 DEF Calm, Quiet
    <2>3. rdr' = Head(line) /\ line' = Tail(line) /\ idle' = 0 BY <1>2, <1>3, <1>8, <2>1
    <2>4. 1 \in 1 .. Len(line) BY <1>4, <1>8
    <2>5. line[1] = "CR" <=> 1 = Len(line) BY <2>4, <1>7, <1>8 DEF Clean, OneLine
    <2>6. Tail(line) = <<>> <=> Len(Tail(line)) = 0
      <3> DEFINE t == Tail(line)
      <3>1. t \in Seq(Text) BY <1>4, <1>8
      <3> HIDE DEF t
      <3>2. t = <<>> <=> Len(t) = 0 BY <3>1, EmptySeq
      <3> QED BY <3>2 DEF t
    <2>7. line' = <<>> <=> Len(line) = 1 BY <2>3, <2>6, <1>4, <1>8
    <2>8. rdr' = "CR" <=> Len(line) = 1 BY <2>3, <2>5, <1>4, <1>8
    <2> QED BY <2>1, <2>2, <2>3, <2>7, <2>8
  <1>9. ASSUME Granted PROVE Clean' /\ Calm'
    <2>1. Clean' BY <1>1, <1>7, <1>9, SlotClean
    <2>2. CASE line = <<>>
      <3>1. busy' # 0 => busy # 0 BY <1>2
      <3> QED BY <1>2, <1>7, <1>9, <2>1, <2>2, <3>1 DEF Calm, Quiet
    <2>3. CASE line # <<>> BY <1>2, <1>8, <1>9, <2>1, <2>3 DEF Calm, Quiet
    <2> QED BY <2>2, <2>3
  <1>10. ASSUME Roomy PROVE Pausing' /\ Fits'
    <2>1. Pausing /\ Fits BY <1>10, <1>2 DEF EchoInv
    <2>2. Granted BY <1>10, <1>n DEF Granted, Roomy
    <2>3. CASE line = <<>>
      <3>1. UNCHANGED <<line, rdr, emitting, col>> BY <1>2, <2>3
      <3>2. Ending' <=> Ending BY <3>1 DEF Ending
      <3>3. Ending => idle = 0
        <4>1. ASSUME Ending, idle # 0 PROVE FALSE
          <5>1. rdr = Echo!Empty /\ emitting = <<>> BY <4>1, <2>2, <1>7 DEF Clean, Behind
          <5>2. Echo!Empty # "CR" BY DEF Echo!Empty
          <5> QED BY <4>1, <5>1, <5>2 DEF Ending
        <4> QED BY <4>1
      <3>4. Ending => idle' <= 1 BY <3>3, <1>3, <1>n
      <3>5. busy' # 0 => idle' + busy' <= Echo!Enough
        <4>1. ASSUME busy' # 0 PROVE idle' + busy' <= Echo!Enough
          <5>1. busy # 0 /\ busy' = busy - 1 BY <4>1, <1>2
          <5>2. idle + busy <= Echo!Enough BY <5>1, <2>1 DEF Pausing
          <5>3. idle' = idle + 1 \/ idle' = idle BY <1>3
          <5>4. \A i, j, b, e \in Nat : i + b <= e /\ b # 0 /\ (j = i + 1 \/ j = i) => j + (b - 1) <= e OBVIOUS
          <5>5. idle' \in Nat BY <5>3, <1>n
          <5> QED BY <5>1, <5>2, <5>3, <5>4, <5>5, <1>n
        <4> QED BY <4>1
      <3>6. Quiet' BY <1>9, <2>2 DEF Calm
      <3>7. Pausing'
        <4>1. line' = <<>> BY <3>1, <2>3
        <4> QED BY <4>1, <3>2, <3>4, <3>5, <3>6 DEF Pausing, Echo!Enough
      <3>8. Fits' BY <3>1, <3>2, <2>1 DEF Fits, Held
      <3> QED BY <3>7, <3>8
    <2>4. CASE line # <<>>
      <3>1. /\ rdr = Echo!Empty /\ emitting = <<>> /\ idle' = 0 /\ busy' = 0
            /\ rdr' = Head(line) /\ line' = Tail(line)
            /\ (rdr' = "CR" <=> Len(line) = 1) /\ (line' = <<>> <=> Len(line) = 1)
        BY <2>2, <2>4, <1>8
      <3>2. Ending' <=> rdr' = "CR" BY <3>1, <1>2 DEF Ending
      <3>3. Pausing' BY <3>1, <3>2 DEF Pausing
      <3>4. Held(rdr) = 0 /\ Len(emitting) = 0 /\ Held(rdr)' = 1 /\ Len(emitting)' = 0
        <4>1. rdr' # Echo!Empty BY <3>1, <2>4, <1>4, TextIs
        <4> QED BY <3>1, <1>2, <4>1 DEF Held
      <3>5. col + 0 + 0 + Len(line) <= Width BY <3>4, <2>1, <2>4 DEF Fits
      <3>6. Len(line') = Len(line) - 1 /\ Len(line) \in Nat BY <3>1, <1>4, <2>4
      <3>7. col + 1 + 0 + Len(line') <= Width BY <3>5, <3>6, <1>n
      <3>8. Fits' BY <3>1, <3>2, <3>4, <3>7, <1>2 DEF Fits
      <3> QED BY <3>3, <3>8
    <2> QED BY <2>3, <2>4
  <1>11. ~scrolled' => busy' = 0 BY <1>2 DEF EchoInv
  <1>12. UNCHANGED <<conn, rest, wide>> /\ (scrolled => scrolled') /\ conn = "open" BY <1>2
  <1>13. Granted' => Granted BY <1>12 DEF Granted, Roomy, Echo!Enough
  <1>14. Granted' /\ conn = "open" => Calm' BY <1>13, <1>9
  <1> QED BY <1>5, <1>6, <1>9, <1>10, <1>11, <1>12, <1>14, Kept

LEMMA TypeKeeps == ASSUME Echo!EchoFine, EchoInv, Echo!TypeLine PROVE EchoInv'
  <1>1. EchoType /\ Shape BY DEF EchoInv
  <1>n. /\ Echo!Enough = ScrollTime + 1 /\ ScrollTime \in Nat \ {0} /\ Echo!Enough \in Nat /\ col \in Nat
        /\ busy \in Nat /\ idle \in Nat /\ idle <= Echo!Enough /\ rest \in Nat /\ rest <= Echo!Enough
        /\ wide \in BOOLEAN
    BY <1>1 DEF Echo!EchoFine, Echo!Enough, EchoType
  <1>2. UNCHANGED <<conn, back, rdr, tdr, shift, emitting, busy, col, scrolled, printed, lost>> /\ idle' = 0
    BY DEF Echo!TypeLine, Echo!card, Echo!apple
  <1>3. CASE conn # "open"
    <2>1. UNCHANGED <<line, sent, rest, wide>> BY <1>3 DEF Echo!TypeLine, Echo!habits
    <2>2. 0 \in 0 .. Echo!Enough BY <1>n
    <2>3. EchoType' BY <1>1, <1>2, <2>1, <2>2 DEF EchoType, Echo!Enough
    <2>4. Shape' BY <1>1, <1>2, <2>1 DEF Shape
    <2>5. (Granted' => Granted) /\ (~scrolled' => busy' = 0)
      BY <1>2, <2>1 DEF Granted, Roomy, Echo!Enough, EchoInv
    <2> QED BY <1>2, <1>3, <2>3, <2>4, <2>5 DEF EchoInv
  <1>4. CASE conn = "open"
    <2>1. PICK l \in Lines :
            /\ line' = line \o Append(l, "CR") /\ sent' = sent \o Append(l, "CR")
            /\ rest' = (IF idle < rest THEN idle ELSE rest) /\ wide' = (wide \/ Len(l) >= Width)
      BY <1>4 DEF Echo!TypeLine
    <2> DEFINE p == Append(l, "CR")
    <2>2. p \in Seq(Text) /\ p \in Seq(Char) /\ Len(l) \in Nat /\ Len(p) = Len(l) + 1 BY LineIs
    <2>3. line' = line \o p /\ sent' = sent \o p BY <2>1
    <2> HIDE DEF p
    <2>4. EchoType'
      <3>1. line' \in Seq(Char) /\ sent' \in Seq(Char) BY <1>1, <2>2, <2>3, Assoc DEF EchoType
      <3>2. rest' \in 0 .. Echo!Enough /\ 0 \in 0 .. Echo!Enough BY <2>1, <1>n
      <3>3. wide' \in BOOLEAN BY <2>1, <1>n
      <3> QED BY <1>1, <1>2, <3>1, <3>2, <3>3 DEF EchoType, Echo!Enough
    <2>5. Shape'
      <3>1. line' \in Seq(Text) BY <1>1, <2>2, <2>3, Assoc DEF Shape
      <3> QED BY <1>1, <1>2, <3>1 DEF Shape
    <2>6. Roomy' => Roomy /\ idle = Echo!Enough /\ ~(Len(l) >= Width)
      <3>1. rest' = Echo!Enough => rest = Echo!Enough /\ idle = Echo!Enough BY <2>1, <1>n
      <3>2. ~wide' => ~wide /\ ~(Len(l) >= Width) BY <2>1, Zenon
      <3> QED BY <3>1, <3>2 DEF Roomy, Echo!Enough
    <2>7. Granted' => Granted /\ rest' > 0 /\ (~scrolled \/ Roomy')
      <3>1. rest' > 0 => rest > 0 BY <2>1, <1>n
      <3> QED BY <1>2, <2>6, <3>1 DEF Granted
    <2>8. ASSUME Granted' PROVE busy = 0
      <3>1. CASE ~scrolled BY <3>1 DEF EchoInv
      <3>2. CASE Roomy'
        <4>1. Roomy /\ idle = Echo!Enough BY <2>6, <3>2
        <4>2. Pausing BY <1>4, <4>1 DEF EchoInv
        <4>3. busy # 0 => idle + busy <= Echo!Enough BY <4>2 DEF Pausing
        <4> QED BY <4>1, <4>3, <1>n
      <3> QED BY <2>7, <2>8, <3>1, <3>2
    <2>9. ASSUME Granted' PROVE Clean' /\ Calm'
      <3>1. Granted /\ Clean /\ Calm /\ rest' > 0 BY <1>4, <2>7, <2>9 DEF EchoInv
      <3>2. Clean' BY <1>1, <1>4, <3>1, TypeClean
      <3>3. Calm' BY <1>2, <2>8, <2>9, <3>1 DEF Calm, Quiet
      <3> QED BY <3>2, <3>3
    <2>10. ASSUME Roomy' PROVE Pausing' /\ Fits'
      <3>1. Roomy /\ idle = Echo!Enough /\ ~(Len(l) >= Width) BY <2>6, <2>10
      <3>2. Granted /\ Granted'
        <4>1. rest' > 0 BY <2>10, <1>n DEF Roomy, Echo!Enough
        <4> QED BY <4>1, <2>10, <3>1, <1>n DEF Granted, Roomy
      <3>3. Clean /\ Pausing /\ Fits BY <1>4, <3>1, <3>2 DEF EchoInv
      <3>4. idle # 0 /\ ~(idle <= 1) BY <3>1, <1>n
      <3>5. line = <<>> /\ ~Ending BY <3>3, <3>4 DEF Clean, OneLine, Pausing
      <3>6. col = 0 /\ rdr = Echo!Empty /\ emitting = <<>> BY <3>3, <3>5 DEF Fits
      <3>7. ~Ending' BY <1>2, <3>5 DEF Ending
      <3>8. busy' = 0 BY <1>2, <2>8, <3>2
      <3>9. line' = p BY <2>2, <2>3, <3>5, Assoc
      <3>10. Len(p) <= Width /\ p # <<>>
        <4>1. Width \in Nat BY DEF Echo!EchoFine
        <4> QED BY <4>1, <2>2, <3>1
      <3>11. Held(rdr)' = 0 /\ Len(emitting)' = 0 BY <1>2, <3>6 DEF Held
      <3>12. col' + Held(rdr)' + Len(emitting)' + Len(line') <= Width
        <4>1. 0 + 0 + 0 + Len(p) <= Width BY <2>2, <3>10
        <4> QED BY <1>2, <3>6, <3>9, <3>11, <4>1
      <3>13. Fits' BY <3>9, <3>10, <3>12 DEF Fits
      <3> QED BY <3>7, <3>8, <3>13 DEF Pausing
    <2>11. ~scrolled' => busy' = 0 BY <1>2 DEF EchoInv
    <2>12. Granted' => ~lost' BY <2>9 DEF Clean
    <2> QED BY <2>4, <2>5, <2>9, <2>10, <2>11, <2>12 DEF EchoInv
  <1> QED BY <1>3, <1>4

LEMMA CloseKeeps == ASSUME Echo!EchoFine, EchoInv, Echo!PeerCloses PROVE EchoInv'
  <1>1. /\ UNCHANGED <<idle, back, rdr, tdr, shift, emitting, busy, col, scrolled, sent, printed, lost, rest, wide>>
        /\ conn' = "closed" /\ line' = <<>>
    BY DEF Echo!PeerCloses, Echo!apple, Echo!card, Echo!habits
  <1>2. EchoType'
    <2>1. <<>> \in Seq(Char) OBVIOUS
    <2> QED BY <1>1, <2>1 DEF EchoInv, EchoType, Echo!Enough
  <1>3. Shape'
    <2>1. <<>> \in Seq(Text) OBVIOUS
    <2> QED BY <1>1, <2>1 DEF EchoInv, Shape
  <1>4. (Granted' => Granted) /\ (~scrolled' => busy' = 0) /\ conn' # "open"
    BY <1>1 DEF Granted, Roomy, Echo!Enough, EchoInv
  <1> QED BY <1>1, <1>2, <1>3, <1>4 DEF EchoInv

LEMMA EchoNext == ASSUME Echo!EchoFine, EchoInv, [Echo!Next]_(Echo!vars) PROVE EchoInv'
  <1>1. CASE \/ UNCHANGED Echo!vars \/ Echo!EndInput \/ Echo!ReaderEnds \/ Echo!Stop
    <2>1. UNCHANGED <<idle, conn, line, back, rdr, tdr, shift, emitting, busy, col, scrolled, sent, printed, lost,
                      rest, wide>>
      BY <1>1 DEF Echo!EndInput, Echo!ReaderEnds, Echo!Stop, Echo!vars, Echo!apple, Echo!card, Echo!habits
    <2>2. (EchoType' <=> EchoType) /\ (Shape' <=> Shape) BY <2>1 DEF EchoType, Shape, Echo!Enough
    <2>3. (Granted' <=> Granted) /\ (Roomy' <=> Roomy) BY <2>1 DEF Granted, Roomy, Echo!Enough
    <2>4. Clean' <=> Clean
      <3>1. (OneLine' <=> OneLine) /\ (Behind' <=> Behind) BY <2>1 DEF OneLine, Behind, Backlog
      <3>2. Echoes' <=> Echoes BY <2>1 DEF Echoes, Echo!Order, Echo!Put
      <3> QED BY <2>1, <3>1, <3>2 DEF Clean
    <2>5. (Calm' <=> Calm) /\ (Pausing' <=> Pausing) /\ (Fits' <=> Fits)
      BY <2>1 DEF Calm, Quiet, Pausing, Fits, Ending, Held, Echo!Enough
    <2> QED BY <2>1, <2>2, <2>3, <2>4, <2>5 DEF EchoInv
  <1>2. CASE Echo!Push BY <1>2, PushKeeps
  <1>3. CASE Echo!Take BY <1>3, TakeKeeps
  <1>4. CASE Echo!Load BY <1>4, LoadKeeps
  <1>5. CASE Echo!Slot BY <1>5, SlotKeeps
  <1>6. CASE Echo!ReaderPrints BY <1>6, ReaderKeeps
  <1>7. CASE Echo!TypeLine BY <1>7, TypeKeeps
  <1>8. CASE Echo!PeerCloses BY <1>8, CloseKeeps
  <1> QED BY <1>1, <1>2, <1>3, <1>4, <1>5, <1>6, <1>7, <1>8 DEF Echo!Next, Echo!Device, Echo!Client, Echo!User

\* The echo is complete and in order as long as lines do not follow each other at once and,
\* from the first scroll on, fit the row and wait for the scroll of the one before: polling
\* is in time then, for one byte at most is behind while a line comes in, and none comes
\* while the Monitor scrolls.
THEOREM EchoCompleteCorrect == Echo!Spec => []EchoComplete
  <1>1. Echo!EchoFine BY EchoAssumption
  <1>2. Echo!Init => EchoInv BY <1>1, EchoInit
  <1>3. EchoInv /\ [Echo!Next]_(Echo!vars) => EchoInv' BY <1>1, EchoNext
  <1>4. EchoInv => EchoComplete
    <2>1. EchoComplete <=> (Granted => ~lost /\ Echoes)
      BY DEF EchoComplete, Echo!EchoComplete, Granted, Roomy, Echoes
    <2>2. EchoInv /\ Granted => ~lost /\ Echoes BY DEF EchoInv, Clean, Echoes
    <2> QED BY <2>1, <2>2
  <1> QED BY <1>2, <1>3, <1>4, PTL DEF Echo!Spec
================================================================================
