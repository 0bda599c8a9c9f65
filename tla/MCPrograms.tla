-------------------------------- MODULE MCPrograms --------------------------------
(***************************************************************************)
(* The Apple's two small programs, and the snake's generator by itself.    *)
(* One is started: the polled echo, the snake on a board of four by four   *)
(* cells with more food than it covers, or the generator, which goes once  *)
(* through its period.                                                     *)
(***************************************************************************)
EXTENDS Programs

MCFruit == {<<1, 1>>, <<2, 2>>, <<4, 1>>, <<3, 4>>, <<1, 4>>, <<4, 3>>, <<2, 3>>}
MCLines == {<<>>, <<"a">>, <<"b", "a", "b">>}

VARIABLES
  running,   \* "generator", "game" or "echo"
  seed, tries, seen

random == <<seed, tries, seen>>

Random == INSTANCE SnakeRandom WITH MaxTries <- 65535

SearchEnds == running = "generator" => Random!SearchEnds

MCInit == running \in {"generator", "game", "echo"} /\ Init /\ Random!Init /\ Echo!Init

Generate == running = "generator" /\ Random!Next /\ UNCHANGED <<running, vars, relay>>

Play == running = "game" /\ Next /\ UNCHANGED <<running, random, relay>>
Talk == running = "echo" /\ Echo!Next /\ UNCHANGED <<running, random, vars>>

MCNext == Generate \/ Play \/ Talk
MCSpec == MCInit /\ [][MCNext]_<<running, vars, random, relay>>
================================================================================
