---------------------------- MODULE WeensyConsole ----------------------------
(***************************************************************************)
(* The console of weensyos: the cells of the screen and cursorpos, which   *)
(* the kernel and every program map and write without a lock, and the      *)
(* console_printer of lib.cc, a cell pointer of its own for every call of  *)
(* console_printf.  A program can be interrupted between two characters;   *)
(* the kernel runs with interrupts off: once it panics, nobody else prints.*)
(***************************************************************************)
EXTENDS Integers, Sequences, FiniteSets

CONSTANTS Programs,
          Rows, Columns,   \* CONSOLE_ROWS, CONSOLE_COLUMNS; 25 and 80
          MaxPuts,         \* bound: characters that are printed
          Positions        \* the arguments cpos of console_printf, -1 for the cursor

ASSUME ConsoleAssumption == {Rows, Columns, MaxPuts} \subseteq Nat \ {0} /\ Rows > 1 /\ Positions \subseteq Int

END_CPOS == Rows * Columns
\* A character is its writer and its place in what the writer prints.
Space == <<"nobody", 0>>
Newline == <<"nobody", 1>>
LineEnd == <<"nobody", 2>>   \* a newline, unless the printer is at the beginning of a row
Kernel == "kernel"
Printers == Programs \cup {Kernel}

VARIABLES console,    \* [0 .. END_CPOS - 1 -> what the cell shows]
          cursorpos,
          printers,   \* [Printers -> console_printer], closed when it prints nothing
          puts,       \* characters so far
          panicking,
          last_words  \* what the kernel has still to print when it panics

consoleVars == <<console, cursorpos, printers, puts, panicking, last_words>>

Closed == [open |-> FALSE, cell |-> 0, scroll |-> FALSE, moves |-> FALSE, laid |-> <<>>, alone |-> TRUE]

-----------------------------------------------------------------------------
(* console_printer; s is [console, cell, scroll, laid] *)

\* The constructor's cell.
CellOf(cpos) == IF cpos < 0 THEN cursorpos ELSE IF cpos <= END_CPOS THEN cpos ELSE 0

\* Mutant of scroll: the rows stay where they are.
scroll_in_place(s) ==
  IF s.scroll
  THEN [s EXCEPT !.console = [i \in 0 .. END_CPOS - 1 |-> IF i < END_CPOS - Columns THEN s.console[i] ELSE Space],
                 !.cell = @ - Columns]
  ELSE [s EXCEPT !.cell = 0]

scroll(s) ==
  IF s.scroll
  THEN [s EXCEPT !.console = [i \in 0 .. END_CPOS - 1 |-> IF i < END_CPOS - Columns THEN s.console[i + Columns] ELSE Space],
                 !.cell = @ - Columns]
  ELSE [s EXCEPT !.cell = 0]

\* n cells are written and the pointer goes on; laid: what has been written, in order.
PutCells(s, n, c) ==
  [s EXCEPT !.console = [i \in 0 .. END_CPOS - 1 |-> IF i \in s.cell .. s.cell + n - 1 THEN c ELSE s.console[i]],
            !.cell = @ + n, !.laid = @ \o [k \in 1 .. n |-> c]]

\* A newline fills the rest of the row; at the beginning of a row, a whole one.
putc(s, c) ==
  LET t == IF s.cell >= END_CPOS THEN scroll(s) ELSE s
  IN  IF c = Newline THEN PutCells(t, Columns - (t.cell % Columns), Space) ELSE PutCells(t, 1, c)

-----------------------------------------------------------------------------
(* A program prints *)

ConsoleInit ==
  /\ console = [i \in 0 .. END_CPOS - 1 |-> Space]
  /\ cursorpos = 0
  /\ printers = [p \in Printers |-> Closed]
  /\ puts = 0
  /\ panicking = FALSE /\ last_words = <<>>

\* Whoever else is printing is not alone any more.
Disturbed(ps) == [p \in Printers |-> [ps[p] EXCEPT !.alone = FALSE]]

Begin(p, cpos) ==
  /\ ~panicking /\ ~printers[p].open /\ puts < MaxPuts
  /\ printers' = [printers EXCEPT ![p] = [open |-> TRUE, cell |-> CellOf(cpos), scroll |-> cpos < 0,
                                          moves |-> cpos < 0, laid |-> <<>>, alone |-> TRUE]]
  /\ UNCHANGED <<console, cursorpos, puts, panicking, last_words>>

Prints(p, c) ==
  LET s == putc([console |-> console, cell |-> printers[p].cell, scroll |-> printers[p].scroll,
                 laid |-> printers[p].laid], c)
  IN  /\ console' = s.console
      /\ printers' = [Disturbed(printers) EXCEPT ![p] = [printers[p] EXCEPT !.cell = s.cell, !.laid = s.laid]]

Put(p, c) ==
  /\ ~panicking /\ printers[p].open /\ puts < MaxPuts
  /\ Prints(p, c)
  /\ puts' = puts + 1
  /\ UNCHANGED <<cursorpos, panicking, last_words>>

\* The end of console_vprintf: move_cursor.
End(p) ==
  /\ ~panicking /\ printers[p].open
  /\ cursorpos' = IF printers[p].moves THEN printers[p].cell ELSE cursorpos
  /\ printers' = [printers EXCEPT ![p] = Closed]
  /\ UNCHANGED <<console, puts, panicking, last_words>>

-----------------------------------------------------------------------------
(* The kernel prints *)

console_clear ==
  /\ ~panicking
  /\ console' = [i \in 0 .. END_CPOS - 1 |-> Space] /\ cursorpos' = 0
  /\ printers' = Disturbed(printers)
  /\ UNCHANGED <<puts, panicking, last_words>>

\* The kernel begins its last words at a cell: a text of n characters, the end of its
\* line, a line of the backtrace.
Panics(n, cell, end) ==
  /\ ~panicking
  /\ panicking' = TRUE
  /\ last_words' = [k \in 1 .. n |-> <<Kernel, k>>] \o <<end, <<Kernel, n + 1>>, Newline>>
  /\ printers' = [Disturbed(printers) EXCEPT ![Kernel] =
                     [open |-> TRUE, cell |-> cell, scroll |-> TRUE, moves |-> TRUE,
                      laid |-> <<>>, alone |-> TRUE]]
  /\ UNCHANGED <<console, puts>>

\* vpanic starts behind the last cell, so that its first character scrolls.
vpanic(n) == Panics(n, END_CPOS, LineEnd) /\ UNCHANGED cursorpos

\* assert_fail starts in the last row but one and always ends the line.
assert_fail(n) ==
  LET start == END_CPOS - 2 * Columns IN Panics(n, start, Newline) /\ cursorpos' = start

\* The next character, and behind the last one move_cursor.
LastWord ==
  /\ panicking /\ last_words # <<>>
  /\ LET c == Head(last_words) IN
     IF c = LineEnd
     THEN IF printers[Kernel].cell % Columns = 0 THEN UNCHANGED <<console, printers>> ELSE Prints(Kernel, Newline)
     ELSE Prints(Kernel, c)
  /\ last_words' = Tail(last_words)
  /\ cursorpos' = IF last_words' = <<>> THEN printers'[Kernel].cell ELSE cursorpos
  /\ UNCHANGED <<puts, panicking>>

\* fail(): for ever.
Failed == panicking /\ last_words = <<>> /\ UNCHANGED consoleVars

ConsoleNext ==
  \/ \E p \in Programs : \/ \E cpos \in Positions : Begin(p, cpos)
                         \/ \E c \in {<<p, Len(printers[p].laid)>>, Newline} : Put(p, c)
                         \/ End(p)
  \/ console_clear
  \/ \E n \in {1, Columns, Columns + 1} : vpanic(n) \/ assert_fail(n)
  \/ LastWord
  \/ Failed

-----------------------------------------------------------------------------
(* Properties *)

\* No printer ever stands outside the screen, whatever cursorpos and the positions
\* were, and what a printer has written stands before its cell, in order, as much of it
\* as fits, unless somebody else wrote meanwhile: wrapping and scrolling lose and double
\* nothing.  So the text of a panic is read to its end on a screen that was full.
ConsoleShowsTheText ==
  /\ cursorpos \in 0 .. END_CPOS
  /\ \A p \in Printers : LET q == printers[p] IN
       /\ q.cell \in 0 .. END_CPOS
       /\ q.alone => \A k \in 0 .. (IF Len(q.laid) < q.cell THEN Len(q.laid) ELSE q.cell) - 1 :
                       console[q.cell - 1 - k] = q.laid[Len(q.laid) - k]
  /\ DOMAIN console = 0 .. END_CPOS - 1

=============================================================================
