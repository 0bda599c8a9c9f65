-------------------------------- MODULE SnakeRandom --------------------------------
(***************************************************************************)
(* Where the snake's food can fall: the generator of snake.c, a 16-bit     *)
(* shift register, and the cell place_food makes of two of its numbers.    *)
(* One step is one try of place_food; a run is one whole period.           *)
(***************************************************************************)
EXTENDS Integers, FiniteSetsExt, Bitwise

CONSTANT MaxTries   \* where the run is cut

VARIABLES seed, tries, seen  \* seen: history, the cells tried so far
vars == <<seed, tries, seen>>

Word == 65536
Poly == 46080        \* $B400
SeedStart == 15525   \* $3CA5
SeedReset == 165     \* $A5
Interior == 38
Longest == 240

\* Deviation: without the polynomial the register empties.
Shifted(n) == (IF n = 0 THEN SeedReset ELSE n) \div 2

NextSeed(n) ==
  LET m == IF n = 0 THEN SeedReset ELSE n
  IN  IF m % 2 = 1 THEN (m \div 2) ^^ Poly ELSE m \div 2

\* reduce_mod38 of the low byte
Coordinate(n) == ((n % 256) % Interior) + 1

Init == seed = SeedStart /\ tries = 0 /\ seen = {}

Try ==
  LET x == NextSeed(seed)
      y == NextSeed(x)
  IN  /\ tries < MaxTries
      /\ seed' = y /\ tries' = tries + 1
      /\ seen' = seen \cup {<<Coordinate(x), Coordinate(y)>>}

Next == Try
Spec == Init /\ [][Next]_vars

--------------------------------------------------------------------------------
\* The tries go round through every state of the register but zero before the first one
\* comes back, so that it does not matter where the key on the title screen starts them.
FullPeriod == tries > 0 => (seed = SeedStart <=> tries = Word - 1)

\* The least number of steps that join the cells of a set: of all trees on them the one
\* with the least sum of distances (Prim).
Distance(c, d) ==
  (IF c[1] > d[1] THEN c[1] - d[1] ELSE d[1] - c[1]) + (IF c[2] > d[2] THEN c[2] - d[2] ELSE d[2] - c[2])
Weight(cells) ==
  LET RECURSIVE Joined(_, _)
      \* near: for each cell outside the tree, how far from it
      Joined(near, sum) ==
        IF DOMAIN near = {} THEN sum
        ELSE LET next == CHOOSE c \in DOMAIN near : \A d \in DOMAIN near : near[c] <= near[d]
             IN  Joined([d \in DOMAIN near \ {next} |-> Min({near[d], Distance(d, next)})], sum + near[next])
      first == CHOOSE c \in cells : TRUE
  IN  Joined([d \in cells \ {first} |-> Distance(d, first)], 0)

\* A snake that has not won cannot cover all the cells that food can fall on, because a
\* body through all of them is longer, and the tries reach every one of them: the search
\* for an empty cell ends.
SearchEnds == FullPeriod /\ (tries = Word - 1 => Weight(seen) + 1 >= Longest)

================================================================================
