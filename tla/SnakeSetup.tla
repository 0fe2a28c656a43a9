----------------------------- MODULE SnakeSetup -----------------------------
(***************************************************************************)
(* initialize_game of snake/src/game_setup.c for a board string: the       *)
(* dimensions, the rows of runs that decompress_board_str writes into the  *)
(* cells, the search for the snake, and the first food, which is placed    *)
(* after a refusal too.  A string is what its parts read as: the           *)
(* dimensions in front of the first '|', and the rows, each a sequence of  *)
(* runs of a character and a count.  main() plays on whatever              *)
(* initialize_game answers.                                                *)
(***************************************************************************)
EXTENDS Integers, Sequences, FiniteSets, SequencesExt

CONSTANTS Dimensions,   \* {<<height, width>>}, <<>> for a text that is no number
          Runs,         \* the runs [c, n] of the strings
          MaxRuns,      \* bound: runs of a row
          MaxRows       \* bound: rows of a string

ASSUME SetupAssumption ==
  /\ Dimensions \subseteq (Nat \X Nat) \cup {<<>>}
  /\ \A r \in Runs : r.n \in Nat
  /\ MaxRuns \in Nat /\ MaxRows \in Nat

VARIABLES compressed,   \* [dims, rows]
          status,       \* "running" and then the board_init_status, or "killed" by a signal
          board,        \* the cells that have been filled, a sequence
          row, run,     \* where the loops are
          num_cells_in_row, num_snakes,
          start,        \* the cell that initialize_game takes for the snake's
          food          \* <<>>, or the cell that place_food has written to

Undefined == -1   \* an index through a pointer that was never set

setupVars == <<compressed, status, board, row, run, num_cells_in_row, num_snakes, start, food>>

\* strtok() passes over empty rows.
Tokens(strings) ==
  LET tokens[n \in 0 .. Len(strings)] ==
        IF n = 0 THEN <<>>
        ELSE IF strings[n] = <<>> THEN tokens[n - 1] ELSE Append(tokens[n - 1], strings[n])
  IN  tokens[Len(strings)]

rows == Tokens(compressed.rows)
height == compressed.dims[1]
width == compressed.dims[2]

NextRows == BoundedSeq(BoundedSeq(Runs, MaxRuns), MaxRows)

\* The head of the list is put at cell 42 before the board is read.
SetupInit ==
  /\ compressed \in [dims : Dimensions, rows : NextRows]
  /\ status = "running" /\ board = <<>> /\ row = 0 /\ run = 1
  /\ num_cells_in_row = 0 /\ num_snakes = 0 /\ start = 42 /\ food = <<>>

\* place_food, with s to be returned: a cell that is plain or grass gets the food.  When
\* each of the width * height draws hits another one, the assertion fails.  A cell that
\* was never written may be either.
PlacesFood(s, cells) ==
  LET indices == 0 .. height * width - 1
      plain == {i \in indices : i < Len(cells) /\ cells[i + 1] \in {"E", "G"}}
      unwritten == {i \in indices : i >= Len(cells)}
  IN  \/ status' = s /\ \E i \in plain \cup unwritten : food' = <<i>>
      \/ (indices = {} \/ plain # indices) /\ status' = "killed" /\ UNCHANGED food

\* The return of decompress_board_str and the search in initialize_game, which also
\* looks at cells that were never written: they may have the flag or not.  Then comes
\* the food.
Answers(s, cells) ==
  /\ PlacesFood(s, cells)
  /\ \E i \in 0 .. height * width :
       /\ \A j \in 1 .. i : j <= Len(cells) => cells[j] # "S"
       /\ (i < height * width /\ i < Len(cells)) => cells[i + 1] = "S"
       /\ start' = IF i = height * width THEN start ELSE i
  /\ UNCHANGED <<compressed, row, run>>

\* set_dimensions.  When it refuses them neither they nor the array are set, and
\* initialize_game searches for the snake, and place_food writes, wherever the variables
\* happen to point to, unless a signal ends the program.
SetDimensions ==
  /\ status = "running" /\ row = 0
  /\ IF compressed.dims = <<>>
     THEN /\ \/ status' = "INCORRECT_DIMENSIONS" /\ food' = <<Undefined>>
             \/ status' = "killed" /\ UNCHANGED food
          /\ start' \in {start, Undefined} /\ UNCHANGED row
     ELSE row' = 1 /\ UNCHANGED <<status, start, food>>
  /\ UNCHANGED <<compressed, board, run, num_cells_in_row, num_snakes>>

\* Mutant of fill_cells: the last cell is not part of the board.
fill_cells_short(r) ==
  LET room == height * width - 1 - Len(board)
      bad == r.n > 0 /\ r.c \notin {"S", "E", "G", "W"}
      n == IF bad THEN 0 ELSE IF r.n <= room THEN r.n ELSE room
  IN  [board |-> board \o [i \in 1 .. n |-> r.c],
       status |-> IF r.n > 0 /\ room = 0 THEN "INCORRECT_DIMENSIONS"
                  ELSE IF bad THEN "BAD_CHAR"
                  ELSE IF r.n > room THEN "INCORRECT_DIMENSIONS" ELSE "SUCCESS"]

\* fill_cells writes cell by cell, and stops at the end of the board or at a
\* character that is none of the four.
fill_cells(r) ==
  LET room == height * width - Len(board)
      bad == r.n > 0 /\ r.c \notin {"S", "E", "G", "W"}
      n == IF bad THEN 0 ELSE IF r.n <= room THEN r.n ELSE room
  IN  [board |-> board \o [i \in 1 .. n |-> r.c],
       status |-> IF r.n > 0 /\ room = 0 THEN "INCORRECT_DIMENSIONS"
                  ELSE IF bad THEN "BAD_CHAR"
                  ELSE IF r.n > room THEN "INCORRECT_DIMENSIONS" ELSE "SUCCESS"]

Snakes(s) == Cardinality({i \in 1 .. Len(s) : s[i] = "S"})

FillRun ==
  /\ status = "running" /\ row \in 1 .. Len(rows) /\ run <= Len(rows[row])
  /\ LET o == fill_cells(rows[row][run]) IN
       /\ board' = o.board
       /\ num_snakes' = Snakes(o.board)
       /\ IF o.status = "SUCCESS"
          THEN /\ run' = run + 1
               /\ num_cells_in_row' = num_cells_in_row + rows[row][run].n
               /\ UNCHANGED <<compressed, status, row, start, food>>
          ELSE UNCHANGED num_cells_in_row /\ Answers(o.status, o.board)

\* The row must have as many cells as the board is wide.
EndRow ==
  /\ status = "running" /\ row \in 1 .. Len(rows) /\ run > Len(rows[row])
  /\ IF num_cells_in_row = width
     THEN row' = row + 1 /\ run' = 1 /\ num_cells_in_row' = 0 /\ UNCHANGED <<compressed, status, start, food>>
     ELSE UNCHANGED num_cells_in_row /\ Answers("INCORRECT_DIMENSIONS", board)
  /\ UNCHANGED <<board, num_snakes>>

EndBoard ==
  /\ status = "running" /\ row > Len(rows)
  /\ Answers(IF Len(rows) # height THEN "INCORRECT_DIMENSIONS"
             ELSE IF num_snakes # 1 THEN "WRONG_SNAKE_NUM"
             ELSE "SUCCESS", board)
  /\ UNCHANGED <<board, num_cells_in_row, num_snakes>>

SetupNext == SetDimensions \/ FillRun \/ EndRow \/ EndBoard

SetupSpec == SetupInit /\ [][SetupNext]_setupVars

-----------------------------------------------------------------------------
(* Properties *)

\* The sequences one after the other: the first n of them for each n, and all.
Joined(parts) ==
  LET join[n \in 0 .. Len(parts)] == IF n = 0 THEN <<>> ELSE join[n - 1] \o parts[n]
  IN  join
Whole(parts) == Joined(parts)[Len(parts)]

\* The cells that the runs of a row stand for, and those of the whole string.
RunCells(r) == [k \in 1 .. Len(r) |-> [i \in 1 .. r[k].n |-> r[k].c]]
RowCells == [k \in 1 .. Len(rows) |-> Whole(RunCells(rows[k]))]
Expanded == Whole(RowCells)

\* As many rows, and as long, as the dimensions say, of the four kinds, with one snake.
Accepted ==
  /\ compressed.dims # <<>>
  /\ Len(rows) = height
  /\ \A k \in 1 .. Len(rows) : Len(RowCells[k]) = width
  /\ \A i \in 1 .. Len(Expanded) : Expanded[i] \in {"S", "E", "G", "W"}
  /\ Snakes(Expanded) = 1

\* initialize_game accepts a board exactly when its rows are as many and as long as the
\* dimensions say, its cells are of the four kinds and one is the snake; its cells are
\* then those of the string, the snake starts at its cell, and the first food lies on a
\* cell that is plain or grass.  Neither fill_cells nor place_food, which is called after
\* a refusal too, writes outside the array if the dimensions could be read; if they
\* could not, place_food writes anywhere.
BoardIsTheString ==
  /\ compressed.dims # <<>> =>
       Len(board) <= height * width /\ \A n \in 1 .. Len(food) : food[n] \in 0 .. height * width - 1
  /\ status \notin {"running", "killed"} => (status = "SUCCESS" <=> Accepted)
  /\ status = "SUCCESS" =>
       /\ board = Expanded /\ board[start + 1] = "S"
       /\ \E i \in 1 .. Len(board) : food = <<i - 1>> /\ board[i] \in {"E", "G"}
=============================================================================
