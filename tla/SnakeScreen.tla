---------------------------- MODULE SnakeScreen ----------------------------
(***************************************************************************)
(* main() of snake/src/snake.c around the game: the arguments, the name    *)
(* that read_name reads and mbslen measures, the window of render.c, the   *)
(* loop, and end_game.  The board and the rules of update() are those of   *)
(* SnakeSetup and SnakeGame; here the game goes on, ends or fails the      *)
(* assertion of place_food.                                                *)
(*                                                                         *)
(* A byte of the name is what mbslen makes of it: the first byte of a      *)
(* character of 1 to 4 bytes, 0 for one that continues a character, 5 for  *)
(* one that UTF-8 does not have, and 10 for a newline.                     *)
(***************************************************************************)
EXTENDS Integers, Sequences, FiniteSets, SequencesExt

CONSTANTS NameBytes,   \* the bytes that are typed
          MaxTyped     \* bound: the 999 bytes that a read takes

ASSUME NameBytesAssumption == NameBytes \subseteq Nat /\ MaxTyped \in Nat

VARIABLES at,          \* where main() is
          name,        \* name_buffer up to its '\0'
          g_name_len,  \* SIZE_MAX for a name that is not UTF-8
          curses,      \* has ncurses the terminal?
          heldCells,   \* is the array of cells allocated?
          drawn        \* what the screen shows: "nothing", "board" or "over"

screenVars == <<at, name, g_name_len, curses, heldCells, drawn>>

SIZE_MAX == -1
Newline == 10

ScreenInit ==
  /\ at = "args" /\ name = <<>> /\ g_name_len = 0
  /\ curses = FALSE /\ heldCells = FALSE /\ drawn = "nothing"

-----------------------------------------------------------------------------
(* The name *)

\* The bytes of the character that starts with a byte; a newline is one byte long.
Width0(b) == IF b = Newline THEN 1 ELSE b

\* The bytes behind the first one must be of the kind that continues a character;
\* the '\0' is not.
are_remaining_bytes_valid(bytes, curr, n) == \A k \in curr .. curr + n - 1 : k <= Len(bytes) /\ bytes[k] = 0

\* Mutant of Character: the last byte of a character is not looked at.
Character_loose(bytes, o) ==
  LET w == Width0(bytes[o.curr]) IN
  IF o.num_chars = SIZE_MAX \/ o.curr > Len(bytes) THEN o
  ELSE IF w \in 1 .. 4 /\ are_remaining_bytes_valid(bytes, o.curr + 1, w - 2)
  THEN [curr |-> o.curr + w, num_chars |-> o.num_chars + 1]
  ELSE [o EXCEPT !.num_chars = SIZE_MAX]

\* One turn of the loop of mbslen: a character is counted and passed over.
Character(bytes, o) ==
  LET w == Width0(bytes[o.curr]) IN
  IF o.num_chars = SIZE_MAX \/ o.curr > Len(bytes) THEN o
  ELSE IF w \in 1 .. 4 /\ are_remaining_bytes_valid(bytes, o.curr + 1, w - 1)
  THEN [curr |-> o.curr + w, num_chars |-> o.num_chars + 1]
  ELSE [o EXCEPT !.num_chars = SIZE_MAX]

mbslen(bytes) ==
  LET turn[n \in 0 .. Len(bytes)] ==
        IF n = 0 THEN [curr |-> 1, num_chars |-> 0] ELSE Character(bytes, turn[n - 1])
  IN  turn[Len(bytes)].num_chars

\* One read() of read_name; nothing read, or an empty line, asks again.
read_name ==
  /\ at = "name"
  /\ \E typed \in BoundedSeq(NameBytes, MaxTyped) :
       LET line == IF typed # <<>> /\ Last(typed) = Newline THEN Front(typed) ELSE typed IN
       IF line = <<>> THEN UNCHANGED screenVars
       ELSE /\ name' = line
            /\ g_name_len' = mbslen(line)
            /\ at' = "window"
            /\ UNCHANGED <<curses, heldCells, drawn>>

-----------------------------------------------------------------------------
(* main *)

\* Two or three arguments of which the first is 0 or 1; the rest ends with a line of
\* text.  initialize_game may fail the assertion of place_food.
Arguments ==
  /\ at = "args"
  /\ \E argc \in 1 .. 4, grows \in {0, 1, 2} :
       IF argc \in {2, 3} /\ grows \in {0, 1}
       THEN /\ heldCells' = TRUE
            /\ at' \in {"name", "aborted"}
       ELSE at' = "exited" /\ UNCHANGED heldCells
  /\ UNCHANGED <<name, g_name_len, curses, drawn>>

\* initialize_window, before every turn; check_terminal_size gives up when the
\* terminal is, or has become, too small.
initialize_window ==
  /\ at = "window"
  /\ \E fits \in BOOLEAN :
       IF fits THEN at' = "update" /\ curses' = TRUE ELSE at' = "exited1" /\ curses' = FALSE
  /\ UNCHANGED <<name, g_name_len, heldCells, drawn>>

\* get_input, update and render_game; then the loop looks at g_game_over.
Turn0 ==
  /\ at = "update"
  /\ \/ at' \in {"window", "over"} /\ drawn' = "board"
     \/ at' = "aborted" /\ UNCHANGED drawn
  /\ UNCHANGED <<name, g_name_len, curses, heldCells>>

\* teardown, render_game_over, a key, endwin.
end_game ==
  /\ at = "over"
  /\ heldCells' = FALSE /\ drawn' = "over" /\ curses' = FALSE /\ at' = "exited"
  /\ UNCHANGED <<name, g_name_len>>

ScreenNext == Arguments \/ read_name \/ initialize_window \/ Turn0 \/ end_game

ScreenSpec == ScreenInit /\ [][ScreenNext]_screenVars

-----------------------------------------------------------------------------
(* Properties *)

\* UTF-8: the bytes behind one place up to another are a character.
IsCharacter(bytes, from, to) ==
  \/ to = from + 1 /\ bytes[to] = Newline
  \/ to - from \in 1 .. 4 /\ bytes[from + 1] = to - from /\ \A k \in from + 2 .. to : bytes[k] = 0

\* The bytes can be cut into n characters, of which the kth ends at ends[k].
IsText(bytes, n) ==
  \E ends \in [1 .. n -> 1 .. Len(bytes)] :
    /\ ends[n] = Len(bytes)
    /\ \A k \in 1 .. n : IsCharacter(bytes, IF k = 1 THEN 0 ELSE ends[k - 1], ends[k])

\* The name is as long as the number of UTF-8 characters it is made of, for every
\* way of cutting its bytes into characters, and SIZE_MAX when there is none: a
\* read that ends inside a character is found out.
NameIsMeasured ==
  name # <<>> =>
    \/ g_name_len \in 1 .. Len(name) /\ IsText(name, g_name_len)
    \/ g_name_len = SIZE_MAX /\ \A n \in 1 .. Len(name) : ~IsText(name, n)

=============================================================================
