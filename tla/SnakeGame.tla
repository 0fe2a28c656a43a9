----------------------------- MODULE SnakeGame -----------------------------
(***************************************************************************)
(* The game of snake/src/game.c, game_setup.c and the loop of snake.c: the *)
(* board, an array of cells with flags, and the snake, a linked list of    *)
(* cell indices with the head first.  update() is one step of the loop;    *)
(* the list of linked_list.c is a sequence.                                *)
(*                                                                         *)
(* The board is one that initialize_game accepts: exactly one cell has the *)
(* snake, and walls surround the rest ("This function assumes that the     *)
(* board is surrounded by walls").                                         *)
(***************************************************************************)
EXTENDS Integers, Sequences, FiniteSets

CONSTANTS Width, Height,
          Walls, Grass,   \* the cells with FLAG_WALL and with FLAG_GRASS
          Start,          \* the cell with FLAG_SNAKE
          MaxScore        \* bound: food eaten in a game

Cells == 0 .. Width * Height - 1
Dirs  == {"UP", "DOWN", "LEFT", "RIGHT"}
Flags == {"SNAKE", "WALL", "FOOD", "GRASS"}
Inputs == Dirs \cup {"NONE"}

Opposite(d) == CASE d = "UP" -> "DOWN" [] d = "DOWN" -> "UP" [] d = "LEFT" -> "RIGHT" [] OTHER -> "LEFT"

\* The index of the neighbour of a cell.
Neighbour(c, d) ==
  CASE d = "UP" -> c - Width [] d = "DOWN" -> c + Width [] d = "RIGHT" -> c + 1 [] OTHER -> c - 1

ASSUME DimensionAssumption == Width \in Nat \ {0, 1} /\ Height \in Nat \ {0} /\ MaxScore \in Nat
ASSUME BoardAssumption ==
  /\ Walls \subseteq Cells /\ Grass \subseteq Cells \ Walls
  /\ Start \in Cells \ (Walls \cup Grass)
ASSUME EnclosedAssumption == \A c \in Cells \ Walls, d \in Dirs : Neighbour(c, d) \in Cells

VARIABLES cells,     \* [Cells -> SUBSET Flags]
          snake,     \* snake_pos, a sequence of cells
          dir,       \* snake_dir
          growing,
          g_score,
          phase      \* "playing", "over" (g_game_over), "done", "aborted" (an assertion failed)

vars == <<cells, snake, dir, growing, g_score, phase>>

-----------------------------------------------------------------------------
(* The board *)

\* The cells that are plain or have only grass.
Free(cs) == {c \in Cells : cs[c] \subseteq {"GRASS"}}

\* place_food draws width * height random cells; one that is free gets the food.
\* When none of the draws is free, the assertion fails.
place_food(cs) ==
  {[cells |-> [cs EXCEPT ![c] = @ \cup {"FOOD"}], ok |-> TRUE] : c \in Free(cs)}
  \cup {[cells |-> cs, ok |-> FALSE]}

Board == [c \in Cells |-> (IF c \in Walls THEN {"WALL"} ELSE {})
                          \cup (IF c \in Grass THEN {"GRASS"} ELSE {})
                          \cup (IF c = Start THEN {"SNAKE"} ELSE {})]

\* initialize_game
Init ==
  /\ snake = <<Start>>
  /\ dir = "RIGHT"
  /\ growing \in BOOLEAN
  /\ g_score = 0
  /\ \E o \in place_food(Board) :
       /\ cells = o.cells
       /\ phase = IF o.ok THEN "playing" ELSE "aborted"

-----------------------------------------------------------------------------
(* update *)

\* Mutant of Turn: the snake may turn back on itself.
TurnAnywhere(input) == IF input = "NONE" THEN dir ELSE input

\* The direction after an input; a snake longer than its head cannot reverse.
Turn(input) ==
  IF input = "NONE" \/ (Len(snake) > 1 /\ dir = Opposite(input)) THEN dir ELSE input

NewCell(input) == Neighbour(Head(snake), Turn(input))
Tail0 == snake[Len(snake)]

\* A wall, or the snake; its last cell is about to become free.
Blocked(c) == "WALL" \in cells[c] \/ ("SNAKE" \in cells[c] /\ c # Tail0)

\* ll_insert_first and ll_remove_last
Moved(c) == <<c>> \o SubSeq(snake, 1, Len(snake) - 1)

\* ll_insert_first alone
Longer(c) == <<c>> \o snake

\* Mutant of LeaveTail: the flag is cleared also where the head is now.
ClearTail(cs, c) == [cs EXCEPT ![Tail0] = @ \ {"SNAKE"}]

\* The last cell loses its flag, unless the head is there now.
LeaveTail(cs, c) == IF c = Tail0 THEN cs ELSE [cs EXCEPT ![Tail0] = @ \ {"SNAKE"}]

Collide(input) ==
  /\ phase = "playing"
  /\ Blocked(NewCell(input))
  /\ dir' = Turn(input)
  /\ phase' = "over"
  /\ UNCHANGED <<cells, snake, growing, g_score>>

Move(input) ==
  LET c == NewCell(input) IN
  /\ phase = "playing"
  /\ ~Blocked(c) /\ "FOOD" \notin cells[c]
  /\ dir' = Turn(input)
  /\ snake' = Moved(c)
  /\ cells' = LeaveTail([cells EXCEPT ![c] = @ \cup {"SNAKE"}], c)
  /\ UNCHANGED <<growing, g_score, phase>>

\* Food is eaten and placed anew; the last cell is left unless the snake grows.
Eat(input) ==
  LET c == NewCell(input) IN
  /\ phase = "playing"
  /\ ~Blocked(c) /\ "FOOD" \in cells[c]
  /\ g_score < MaxScore
  /\ dir' = Turn(input)
  /\ g_score' = g_score + 1
  /\ \E o \in place_food([cells EXCEPT ![c] = (@ \cup {"SNAKE"}) \ {"FOOD"}]) :
       /\ phase' = IF o.ok THEN phase ELSE "aborted"
       /\ IF o.ok /\ ~growing
          THEN snake' = Moved(c) /\ cells' = LeaveTail(o.cells, c)
          ELSE snake' = Longer(c) /\ cells' = o.cells
  /\ UNCHANGED growing

\* teardown: the list is freed element by element.
Teardown ==
  /\ phase = "over"
  /\ phase' = "done"
  /\ snake' = <<>>
  /\ UNCHANGED <<cells, dir, growing, g_score>>

Over == phase \in {"done", "aborted"} /\ UNCHANGED vars

Next ==
  \/ \E input \in Inputs : Collide(input) \/ Move(input) \/ Eat(input)
  \/ Teardown
  \/ Over

Spec == Init /\ [][Next]_vars

-----------------------------------------------------------------------------
(* Properties *)

TypeOK ==
  /\ cells \in [Cells -> SUBSET Flags]
  /\ snake \in Seq(Cells)
  /\ dir \in Dirs
  /\ growing \in BOOLEAN
  /\ g_score \in Nat
  /\ phase \in {"playing", "over", "done", "aborted"}

Alive == phase \in {"playing", "over"}

\* The list and the board agree: a cell has FLAG_SNAKE if and only if it is in the
\* list, no cell is in the list twice, and the walls and the grass never change,
\* although update() sets and clears the flag of head and tail one by one and the
\* head may enter the cell that the tail leaves.
SnakeIsOnItsCells ==
  /\ Alive => \A c \in Cells : "SNAKE" \in cells[c] <=> \E i \in 1 .. Len(snake) : snake[i] = c
  /\ \A i, j \in 1 .. Len(snake) : i # j => snake[i] # snake[j]
  /\ \A c \in Cells : ("WALL" \in cells[c] <=> c \in Walls) /\ ("GRASS" \in cells[c] <=> c \in Grass)

\* The game can go on: the snake is one piece, whatever is pressed the cell ahead is
\* not the one behind the head, and exactly one cell has food, with neither the
\* snake nor a wall on it, although update() sets and clears flags one by one.
SnakeCanGoOn ==
  /\ \A i \in 1 .. Len(snake) - 1 : \E d \in Dirs : snake[i] = Neighbour(snake[i + 1], d)
  /\ phase = "playing" /\ Len(snake) > 1 => \A input \in Inputs : NewCell(input) # snake[2]
  /\ Alive => /\ Cardinality({c \in Cells : "FOOD" \in cells[c]}) = 1
              /\ \A c \in Cells : "FOOD" \in cells[c] => cells[c] \subseteq {"FOOD", "GRASS"}

=============================================================================
