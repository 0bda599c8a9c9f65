----------------------------------- MODULE Snake -----------------------------------
(***************************************************************************)
(* The game of snake.c.  The body is kept twice: as a ring of cells from   *)
(* tail to head, and on the screen, which is what the game looks at before *)
(* it moves.  One step is one pass of play_game's loop; the search for a   *)
(* place for the food is a loop of its own.                                *)
(*                                                                         *)
(* A slot of the ring between head and tail is None: its content is read   *)
(* no more until it is written.                                            *)
(***************************************************************************)
EXTENDS Integers, FiniteSets

CONSTANTS
  Grid,                    \* GRID_SIZE
  StartLength, MaxLength,  \* START_LENGTH, MAX_LENGTH
  Ring,                    \* BYTE_SPAN
  Fruit,                   \* where the generator lets food fall: more than a snake can
                           \* cover that has not won (SnakeRandom!SearchEnds)
  None                     \* no cell

Last     == Grid - 1
Center   == Grid \div 2
Cells    == (0 .. Last) \X (0 .. Last)
Interior == (1 .. Last - 1) \X (1 .. Last - 1)
Border   == Cells \ Interior

ASSUME SnakeAssumption ==
  /\ Grid \in Nat /\ StartLength \in Nat /\ MaxLength \in Nat /\ Ring \in Nat
  /\ StartLength = 4 /\ Grid >= 6 /\ StartLength < MaxLength /\ MaxLength < Ring
  /\ Fruit \subseteq Interior /\ None \notin Cells

VARIABLES
  pc,               \* "food": searching a place; "play"; "over" and "won": waiting for a key; "dos"
  direction,
  body, head, tail, \* snake_x and snake_y, and their indices
  length, screen

vars == <<pc, direction, body, head, tail, length, screen>>

Delta == [up |-> <<0, -1>>, down |-> <<0, 1>>, left |-> <<-1, 0>>, right |-> <<1, 0>>]
Directions == DOMAIN Delta
Opposite == [up |-> "down", down |-> "up", left |-> "right", right |-> "left"]

Succ(i) == (i + 1) % Ring
FirstCell(i) == <<Center - 2 + i, Center>>

\* play_game as far as the first place_food: the round begins
Round ==
  /\ pc' = "food" /\ direction' = "right"
  /\ body' = [i \in 0 .. Ring - 1 |-> IF i < StartLength THEN FirstCell(i) ELSE None]
  /\ tail' = 0 /\ head' = StartLength - 1 /\ length' = StartLength
  /\ screen' = [c \in Cells |-> IF c \in Border THEN "border"
                                ELSE IF \E i \in 0 .. StartLength - 1 : c = FirstCell(i)
                                     THEN "snake" ELSE "black"]

Init ==
  /\ pc = "over" /\ direction = "right" /\ head = 0 /\ tail = 0 /\ length = 0
  /\ body = [i \in 0 .. Ring - 1 |-> None]
  /\ screen = [c \in Cells |-> "black"]

\* title_screen or wait_key ends, a round begins
Key == pc \in {"over", "won"} /\ Round

--------------------------------------------------------------------------------
\* place_food: the try finds the cell black
TryEmpty ==
  /\ pc = "food"
  /\ \E c \in Fruit : screen[c] = "black" /\ screen' = [screen EXCEPT ![c] = "food"]
  /\ pc' = "play"
  /\ UNCHANGED <<direction, body, head, tail, length>>

\* or occupied, and there is another
TryOccupied ==
  /\ pc = "food" /\ \E c \in Fruit : screen[c] # "black"
  /\ UNCHANGED vars

\* Deviation: the snake may turn on the spot.
AnyTurn(d) == Directions

\* read_key: no key or another one, or a turn
Turns(d) == Directions \ {Opposite[d]}

\* the tail is about to leave the cell
Vacated(cell) == cell = body[tail]

\* Deviation: the head is drawn before the tail is erased.
TailLast(s, from, to) == [[s EXCEPT ![to] = "snake"] EXCEPT ![from] = "black"]

\* the tail is erased, then the head drawn
Moved(s, from, to) == [[s EXCEPT ![from] = "black"] EXCEPT ![to] = "snake"]

Ahead(d) == <<body[head][1] + Delta[d][1], body[head][2] + Delta[d][2]>>

Move(cell) ==
  /\ screen[cell] = "black" \/ (screen[cell] = "snake" /\ Vacated(cell))
  /\ screen' = Moved(screen, body[tail], cell)
  /\ body' = [body EXCEPT ![tail] = None, ![Succ(head)] = cell]
  /\ head' = Succ(head) /\ tail' = Succ(tail)
  /\ UNCHANGED <<pc, length>>

Eat(cell) ==
  /\ screen[cell] = "food"
  /\ screen' = [screen EXCEPT ![cell] = "snake"]
  /\ body' = [body EXCEPT ![Succ(head)] = cell]
  /\ head' = Succ(head) /\ length' = length + 1
  /\ pc' = IF length' >= MaxLength THEN "won" ELSE "food"
  /\ UNCHANGED tail

Die(cell) ==
  /\ screen[cell] = "border" \/ (screen[cell] = "snake" /\ ~Vacated(cell))
  /\ pc' = "over"
  /\ UNCHANGED <<body, head, tail, length, screen>>

Step ==
  /\ pc = "play"
  /\ \E d \in Turns(direction) :
       direction' = d /\ LET cell == Ahead(d) IN Move(cell) \/ Eat(cell) \/ Die(cell)

\* ESC or Q
Quit == pc = "play" /\ pc' = "dos" /\ UNCHANGED <<direction, body, head, tail, length, screen>>

Next == Key \/ TryEmpty \/ TryOccupied \/ Step \/ Quit

Spec == Init /\ [][Next]_vars

--------------------------------------------------------------------------------
\* the indices of the ring from tail to head
Live == {i \in 0 .. Ring - 1 : (i - tail) % Ring <= (head - tail) % Ring}
Begun == pc \in {"food", "play", "won"}

\* Ring and screen agree on the body: the ring's cells are all different, as many as the
\* length says, and exactly those the screen shows; its food is one cell, or none while a
\* place is sought.
BodyOnScreen ==
  Begun =>
    /\ {c \in Cells : screen[c] = "snake"} = {body[i] : i \in Live}
    /\ Cardinality({body[i] : i \in Live}) = length /\ Cardinality(Live) = length
    /\ {c \in Cells : screen[c] = "border"} = Border
    /\ Cardinality({c \in Cells : screen[c] = "food"}) = IF pc = "play" THEN 1 ELSE 0

\* The cells of the ring are neighbours in turn, and the head has left the last one in
\* the direction the game remembers.
BodyConnected ==
  Begun => \A i \in Live \ {head} : \E d \in Directions :
    /\ body[Succ(i)] = <<body[i][1] + Delta[d][1], body[i][2] + Delta[d][2]>>
    /\ Succ(i) = head => d = direction

\* The body is one snake, kept alike in both places.
BodyKept == BodyOnScreen /\ BodyConnected

\* A round is lost at the border or on a cell of the body that is not just being left,
\* and never by turning back into the neck.
Lost == pc = "play" /\ pc' = "over"
DeathsFair ==
  [][Lost => LET cell == Ahead(direction')
             IN  \/ cell \in Border
                 \/ \E i \in Live \ {tail, head} : cell = body[i] /\ Succ(i) # head]_vars

================================================================================
