---------------------------- MODULE MCSnakeGame ----------------------------
(***************************************************************************)
(* Instances of SnakeGame, SnakeList, SnakeSetup and SnakeScreen for TLC:  *)
(* a behaviour is one of the game, of the list, of the set-up or of the    *)
(* screen, and the variables of the other three stay as they are: a game   *)
(* that is over, an empty list, a board that is read, no arguments.        *)
(***************************************************************************)
EXTENDS SnakeGame, SnakeList, SnakeSetup, SnakeScreen

VARIABLE part   \* "game", "list", "setup" or "screen"

mcVars == <<part, vars, listVars, setupVars, screenVars>>

\* The edge of the board.
MCWalls == {c \in Cells : c % Width \in {0, Width - 1} \/ c \div Width \in {0, Height - 1}}

MCDimensions == {<<1, 2>>, <<2, 2>>, <<>>}
MCRuns == {[c |-> "S", n |-> 1], [c |-> "E", n |-> 1], [c |-> "W", n |-> 2],
           [c |-> "?", n |-> 1], [c |-> "?", n |-> 0]}

NoGame ==
  /\ cells = Board /\ snake = <<>> /\ dir = "RIGHT" /\ growing = FALSE
  /\ g_score = 0 /\ phase = "done"
NoSetup ==
  /\ compressed = [dims |-> <<>>, rows |-> <<>>] /\ status = "INCORRECT_DIMENSIONS"
  /\ board = <<>> /\ row = 0 /\ run = 1
  /\ num_cells_in_row = 0 /\ num_snakes = 0 /\ start = 42 /\ food = <<>>

MCInit ==
  /\ ListInit /\ ScreenInit
  /\ \/ part = "game" /\ Init /\ NoSetup
     \/ part \in {"list", "screen"} /\ NoGame /\ NoSetup
     \/ part = "setup" /\ NoGame /\ SetupInit

MCNext ==
  /\ UNCHANGED part
  /\ \/ part = "game" /\ Next /\ UNCHANGED <<listVars, setupVars, screenVars>>
     \/ part = "list" /\ ListNext /\ UNCHANGED <<vars, setupVars, screenVars>>
     \/ part = "setup" /\ SetupNext /\ UNCHANGED <<vars, listVars, screenVars>>
     \/ part = "screen" /\ ScreenNext /\ UNCHANGED <<vars, listVars, setupVars>>

MCSpec == MCInit /\ [][MCNext]_mcVars
=============================================================================
