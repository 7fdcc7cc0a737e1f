------------------------------- MODULE MCMaze -------------------------------
(* Instances of Maze for TLC. *)
EXTENDS Maze, TLC

\* Masters 2 and 3 have neighbouring pids, and mazes in which a move of one is
\* taken for a move of the other; 11 is alone, with mazes of up to four cells,
\* and with arguments that are refused.
Arguments ==
  (2 :> {<<3, 0, 0>>}) @@ (3 :> {<<4, 1, 0>>}) @@
  (11 :> {<<4, 0, 0>>, <<4, 1, 0>>, <<3, 0, 2>>, <<1, 0, 0>>,
          <<0, 0, 0>>, <<5, 0, 0>>, <<2, 2, 0>>, <<2, 0, -1>>})
=============================================================================
