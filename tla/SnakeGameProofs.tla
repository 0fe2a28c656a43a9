-------------------------- MODULE SnakeGameProofs --------------------------
(***************************************************************************)
(* Proofs about SnakeGame, for every board that walls enclose.  The        *)
(* inductive invariant adds to SnakeIsOnItsCells what keeps it true: food  *)
(* is never on the snake, the snake is never on a wall, and the list is    *)
(* not empty while the game is on.  Proofs about SnakeList, the list that  *)
(* holds the snake, for any number of nodes: its invariant names the nodes *)
(* behind the head, in their order.  And proofs about SnakeScreen, the     *)
(* length of the player's name, for names of any length, and SnakeSetup,   *)
(* the board of a string, for every string.                                *)
(***************************************************************************)
EXTENDS SnakeGame, SnakeList, SnakeScreen, SnakeSetup, SequenceTheorems, FiniteSetTheorems, WellFoundedInduction, TLAPS

\* Food lies on plain cells and on grass.
FoodInv == Alive => \A c \in Cells : "FOOD" \in cells[c] => "SNAKE" \notin cells[c]

\* The list holds cells that are not walls, and at least one.
BodyInv ==
  /\ \A i \in 1 .. Len(snake) : snake[i] \notin Walls
  /\ Alive => Len(snake) >= 1

IInv == TypeOK /\ SnakeIsOnItsCells /\ FoodInv /\ BodyInv

-----------------------------------------------------------------------------
(* The lists that update() makes *)

\* ll_insert_first puts a cell before the others.
LEMMA LongerFacts ==
  ASSUME snake \in Seq(Cells), NEW c \in Cells
  PROVE  /\ Longer(c) \in Seq(Cells)
         /\ Len(Longer(c)) = Len(snake) + 1
         /\ Longer(c)[1] = c
         /\ \A i \in 2 .. Len(snake) + 1 : Longer(c)[i] = snake[i - 1]
  BY DEF Longer

\* ll_insert_first and ll_remove_last move every cell one place back.
LEMMA MovedFacts ==
  ASSUME snake \in Seq(Cells), Len(snake) >= 1, NEW c \in Cells
  PROVE  /\ Moved(c) \in Seq(Cells)
         /\ Len(Moved(c)) = Len(snake)
         /\ Moved(c)[1] = c
         /\ \A i \in 2 .. Len(snake) : Moved(c)[i] = snake[i - 1]
<1>1. Len(snake) \in Nat /\ Len(snake) - 1 \in 0 .. Len(snake)
  OBVIOUS
<1> DEFINE front == SubSeq(snake, 1, Len(snake) - 1)
<1>2. front \in Seq(Cells) /\ Len(front) = Len(snake) - 1
  <2>1. \A i \in 1 .. Len(snake) - 1 : snake[i] \in Cells
    BY <1>1
  <2> DEFINE m == Len(snake) - 1
  <2>2. 1 \in Int /\ m \in Int /\ m >= 0 /\ m = Len(snake) - 1
    BY <1>1
  <2> HIDE DEF m
  <2>3. \A i \in 1 .. m : snake[i] \in Cells
    BY <2>1, <2>2
  <2>4. SubSeq(snake, 1, m) \in Seq(Cells)
    BY <2>2, <2>3, SubSeqProperties
  <2>5. Len(SubSeq(snake, 1, m)) = m
    BY <2>2, <2>3, SubSeqProperties
  <2> QED
    BY <2>2, <2>4, <2>5
<1>3. \A i \in 1 .. Len(snake) - 1 : front[i] = snake[i]
  BY <1>1
<1> HIDE DEF front
<1>4. Moved(c) = <<c>> \o front
  BY DEF Moved, front
<1> QED
  BY <1>1, <1>2, <1>3, <1>4

\* The cell ahead exists: the head is not in a wall, and walls enclose the rest.
LEMMA NewCellIsACell ==
  ASSUME IInv, phase = "playing", NEW input \in Inputs
  PROVE  NewCell(input) \in Cells /\ Turn(input) \in Dirs
<1>1. Turn(input) \in Dirs
  BY DEF IInv, TypeOK, Turn, Inputs, Dirs
<1>2. Head(snake) = snake[1] /\ snake[1] \in Cells /\ snake[1] \notin Walls
  BY DEF IInv, TypeOK, BodyInv, Alive
<1> QED
  BY <1>1, <1>2, EnclosedAssumption DEF NewCell

-----------------------------------------------------------------------------
(* The invariant *)

\* What place_food does to a board: food appears on one free cell or nowhere.
LEMMA PlaceFoodFacts ==
  ASSUME NEW cs \in [Cells -> SUBSET Flags], NEW o \in place_food(cs)
  PROVE  /\ o.cells \in [Cells -> SUBSET Flags]
         /\ o.ok \in BOOLEAN
         /\ \A x \in Cells, fl \in Flags \ {"FOOD"} : fl \in o.cells[x] <=> fl \in cs[x]
         /\ \A x \in Cells : "FOOD" \in o.cells[x] => "FOOD" \in cs[x] \/ cs[x] \subseteq {"GRASS"}
<1>1. CASE \E c \in Free(cs) : o = [cells |-> [cs EXCEPT ![c] = @ \cup {"FOOD"}], ok |-> TRUE]
  <2>1. PICK c \in Free(cs) : o = [cells |-> [cs EXCEPT ![c] = @ \cup {"FOOD"}], ok |-> TRUE]
    BY <1>1
  <2>2. c \in Cells /\ cs[c] \subseteq {"GRASS"}
    BY DEF Free
  <2>3. o.cells = [cs EXCEPT ![c] = @ \cup {"FOOD"}] /\ o.ok = TRUE
    BY <2>1
  <2>4. o.cells[c] = cs[c] \cup {"FOOD"} /\ \A x \in Cells \ {c} : o.cells[x] = cs[x]
    BY <2>2, <2>3
  <2>5. o.cells \in [Cells -> SUBSET Flags]
    BY <2>2, <2>3 DEF Flags
  <2> QED
    BY <2>2, <2>3, <2>4, <2>5
<1>2. CASE o = [cells |-> cs, ok |-> FALSE]
  BY <1>2
<1> QED
  BY <1>1, <1>2 DEF place_food

\* The initial state satisfies the invariant.
LEMMA InitInv == Init => IInv
<1> SUFFICES ASSUME Init PROVE IInv
  OBVIOUS
<1>1. Board \in [Cells -> SUBSET Flags]
  BY DEF Board, Flags
<1>2. \A c \in Cells : /\ "SNAKE" \in Board[c] <=> c = Start
                       /\ "WALL" \in Board[c] <=> c \in Walls
                       /\ "GRASS" \in Board[c] <=> c \in Grass
                       /\ "FOOD" \notin Board[c]
  BY DEF Board
<1>3. PICK o \in place_food(Board) : cells = o.cells /\ phase = IF o.ok THEN "playing" ELSE "aborted"
  BY DEF Init
<1>4. /\ o.cells \in [Cells -> SUBSET Flags]
      /\ o.ok \in BOOLEAN
      /\ \A x \in Cells, fl \in Flags \ {"FOOD"} : fl \in o.cells[x] <=> fl \in Board[x]
      /\ \A x \in Cells : "FOOD" \in o.cells[x] => "FOOD" \in Board[x] \/ Board[x] \subseteq {"GRASS"}
  BY <1>1, PlaceFoodFacts
<1>5. Start \in Cells /\ Start \notin Walls
  BY BoardAssumption
<1>6. snake = <<Start>> /\ snake \in Seq(Cells) /\ Len(snake) = 1 /\ snake[1] = Start
  BY <1>5 DEF Init
<1>7. TypeOK
  BY <1>3, <1>4, <1>6 DEF Init, TypeOK, Dirs
<1>8. SnakeIsOnItsCells
  BY <1>2, <1>3, <1>4, <1>6 DEF SnakeIsOnItsCells, Flags
<1>9. FoodInv
  BY <1>2, <1>3, <1>4 DEF FoodInv, Flags
<1>10. BodyInv
  BY <1>5, <1>6 DEF BodyInv
<1> QED
  BY <1>7, <1>8, <1>9, <1>10 DEF IInv

-----------------------------------------------------------------------------
(* One lemma per action *)

\* A collision moves nothing.
LEMMA CollideInv ==
  ASSUME IInv, NEW input \in Inputs, Collide(input)
  PROVE  IInv'
<1>1. NewCell(input) \in Cells /\ Turn(input) \in Dirs
  BY NewCellIsACell DEF Collide
<1>2. TypeOK'
  BY <1>1 DEF IInv, TypeOK, Collide
<1>3. SnakeIsOnItsCells' /\ FoodInv' /\ BodyInv'
  BY DEF IInv, SnakeIsOnItsCells, FoodInv, BodyInv, Alive, Collide
<1> QED
  BY <1>2, <1>3 DEF IInv

\* The list and the flags after the head has moved to c and the tail has left its
\* cell, for any board cs that differs from cells by the flag at c and by food.
LEMMA MovedInv ==
  ASSUME IInv, phase = "playing", NEW c \in Cells, ~Blocked(c),
         NEW cs \in [Cells -> SUBSET Flags],
         \A x \in Cells : "SNAKE" \in cs[x] <=> "SNAKE" \in cells[x] \/ x = c
  PROVE  /\ LeaveTail(cs, c) \in [Cells -> SUBSET Flags]
         /\ \A x \in Cells, fl \in Flags \ {"SNAKE"} : fl \in LeaveTail(cs, c)[x] <=> fl \in cs[x]
         /\ \A x \in Cells : "SNAKE" \in LeaveTail(cs, c)[x]
                              <=> \E i \in 1 .. Len(Moved(c)) : Moved(c)[i] = x
         /\ \A i, j \in 1 .. Len(Moved(c)) : i # j => Moved(c)[i] # Moved(c)[j]
         /\ \A i \in 1 .. Len(Moved(c)) : Moved(c)[i] \notin Walls
<1> DEFINE n == Len(snake)
           s == Moved(c)
           after == LeaveTail(cs, c)
<1>1. snake \in Seq(Cells) /\ n \in Nat /\ n >= 1 /\ Tail0 = snake[n] /\ Tail0 \in Cells
  BY DEF IInv, TypeOK, BodyInv, Alive, Tail0
<1>2. s \in Seq(Cells) /\ Len(s) = n /\ s[1] = c /\ \A i \in 2 .. n : s[i] = snake[i - 1]
  BY <1>1, MovedFacts
<1>3. \A x \in Cells : "SNAKE" \in cells[x] <=> \E i \in 1 .. n : snake[i] = x
  BY DEF IInv, SnakeIsOnItsCells, Alive
<1>4. \A i, j \in 1 .. n : i # j => snake[i] # snake[j]
  BY DEF IInv, SnakeIsOnItsCells
<1>5. after \in [Cells -> SUBSET Flags]
  BY <1>1 DEF LeaveTail
<1>6. \A x \in Cells : after[x] = IF x = Tail0 /\ x # c THEN cs[x] \ {"SNAKE"} ELSE cs[x]
  <2>1. CASE c = Tail0
    BY <2>1 DEF LeaveTail
  <2>2. CASE c # Tail0
    <3>1. after = [cs EXCEPT ![Tail0] = @ \ {"SNAKE"}]
      BY <2>2 DEF LeaveTail
    <3> QED
      BY <1>1, <2>2, <3>1
  <2> QED
    BY <2>1, <2>2
<1>7. c \notin Walls /\ ("SNAKE" \in cells[c] => c = Tail0)
  BY DEF IInv, SnakeIsOnItsCells, Blocked
<1>8. \A i \in 1 .. n : snake[i] \notin Walls
  BY DEF IInv, BodyInv
<1> HIDE DEF n, s, after
<1>9. \A x \in Cells : "SNAKE" \in after[x] <=> \E i \in 1 .. n : s[i] = x
  <2> SUFFICES ASSUME NEW x \in Cells
               PROVE  "SNAKE" \in after[x] <=> \E i \in 1 .. n : s[i] = x
    OBVIOUS
  <2>1. CASE x = c
    <3>1. "SNAKE" \in cs[c] /\ after[c] = cs[c]
      BY <1>6
    <3>2. 1 \in 1 .. n /\ s[1] = x
      BY <1>1, <1>2, <2>1
    <3> QED
      BY <2>1, <3>1, <3>2
  <2>2. CASE x # c /\ x = Tail0
    <3>1. \A i \in 1 .. n : s[i] # x
      BY <1>1, <1>2, <1>4, <2>2
    <3> QED
      BY <1>6, <2>2, <3>1
  <2>3. CASE x # c /\ x # Tail0
    <3>1. "SNAKE" \in after[x] <=> \E i \in 1 .. n : snake[i] = x
      BY <1>3, <1>6, <2>3
    <3>2. ASSUME NEW i \in 1 .. n, snake[i] = x
          PROVE  \E j \in 1 .. n : s[j] = x
      <4>1. i + 1 \in 2 .. n /\ i + 1 \in 1 .. n
        BY <1>1, <2>3, <3>2
      <4>2. s[i + 1] = snake[i]
        BY <1>1, <1>2, <4>1
      <4> QED
        BY <3>2, <4>1, <4>2
    <3>3. ASSUME NEW i \in 1 .. n, s[i] = x
          PROVE  \E j \in 1 .. n : snake[j] = x
      <4>1. i \in 2 .. n /\ i - 1 \in 1 .. n
        BY <1>1, <1>2, <2>3, <3>3
      <4> QED
        BY <1>2, <3>3, <4>1
    <3> QED
      BY <3>1, <3>2, <3>3
  <2> QED
    BY <2>1, <2>2, <2>3
<1>10. \A i, j \in 1 .. n : i # j => s[i] # s[j]
  <2>1. \A i \in 2 .. n : s[i] # c
    <3> SUFFICES ASSUME NEW i \in 2 .. n, s[i] = c PROVE FALSE
      OBVIOUS
    <3>1. i - 1 \in 1 .. n /\ snake[i - 1] = c /\ i - 1 # n /\ n \in 1 .. n
      BY <1>1, <1>2
    <3>2. snake[n] = c
      BY <1>1, <1>3, <1>7, <3>1
    <3> QED
      BY <1>4, <3>1, <3>2
  <2>2. \A i, j \in 2 .. n : i # j => s[i] # s[j]
    <3> SUFFICES ASSUME NEW i \in 2 .. n, NEW j \in 2 .. n, i # j PROVE s[i] # s[j]
      OBVIOUS
    <3>1. i - 1 \in 1 .. n /\ j - 1 \in 1 .. n /\ i - 1 # j - 1
      BY <1>1
    <3> QED
      BY <1>2, <1>4, <3>1
  <2> QED
    BY <1>1, <1>2, <2>1, <2>2
<1>11. \A i \in 1 .. n : s[i] \notin Walls
  <2> SUFFICES ASSUME NEW i \in 1 .. n PROVE s[i] \notin Walls
    OBVIOUS
  <2>1. CASE i = 1
    BY <1>2, <1>7, <2>1
  <2>2. CASE i # 1
    <3>1. i \in 2 .. n /\ i - 1 \in 1 .. n
      BY <1>1, <2>2
    <3> QED
      BY <1>2, <1>8, <3>1
  <2> QED
    BY <2>1, <2>2
<1>12. \A x \in Cells, fl \in Flags \ {"SNAKE"} : fl \in after[x] <=> fl \in cs[x]
  BY <1>6
<1> QED
  BY <1>2, <1>5, <1>9, <1>10, <1>11, <1>12 DEF s, after

\* The list and the flags after the head has moved to c, which was not the
\* snake's, and the tail has stayed.
LEMMA LongerInv ==
  ASSUME IInv, phase = "playing", NEW c \in Cells, ~Blocked(c), "SNAKE" \notin cells[c],
         NEW cs \in [Cells -> SUBSET Flags],
         \A x \in Cells : "SNAKE" \in cs[x] <=> "SNAKE" \in cells[x] \/ x = c
  PROVE  /\ \A x \in Cells : "SNAKE" \in cs[x] <=> \E i \in 1 .. Len(Longer(c)) : Longer(c)[i] = x
         /\ \A i, j \in 1 .. Len(Longer(c)) : i # j => Longer(c)[i] # Longer(c)[j]
         /\ \A i \in 1 .. Len(Longer(c)) : Longer(c)[i] \notin Walls
<1> DEFINE n == Len(snake)
           s == Longer(c)
<1>1. snake \in Seq(Cells) /\ n \in Nat
  BY DEF IInv, TypeOK
<1>2. s \in Seq(Cells) /\ Len(s) = n + 1 /\ s[1] = c /\ \A i \in 2 .. n + 1 : s[i] = snake[i - 1]
  BY <1>1, LongerFacts
<1>3. \A x \in Cells : "SNAKE" \in cells[x] <=> \E i \in 1 .. n : snake[i] = x
  BY DEF IInv, SnakeIsOnItsCells, Alive
<1>4. \A i, j \in 1 .. n : i # j => snake[i] # snake[j]
  BY DEF IInv, SnakeIsOnItsCells
<1>5. c \notin Walls /\ \A i \in 1 .. n : snake[i] \notin Walls /\ snake[i] # c
  BY <1>3 DEF IInv, SnakeIsOnItsCells, BodyInv, Blocked
<1> HIDE DEF n, s
<1>6. \A i \in 2 .. n + 1 : i - 1 \in 1 .. n
  BY <1>1
<1>7. \A i \in 1 .. n : i + 1 \in 2 .. n + 1 /\ s[i + 1] = snake[i]
  BY <1>1, <1>2
<1>8. 1 .. n + 1 = {1} \cup (2 .. n + 1)
  BY <1>1
<1>9. \A x \in Cells : "SNAKE" \in cs[x] <=> \E i \in 1 .. n + 1 : s[i] = x
  <2> SUFFICES ASSUME NEW x \in Cells
               PROVE  "SNAKE" \in cs[x] <=> \E i \in 1 .. n + 1 : s[i] = x
    OBVIOUS
  <2>1. "SNAKE" \in cs[x] <=> x = c \/ \E i \in 1 .. n : snake[i] = x
    BY <1>3
  <2>2. ASSUME NEW i \in 1 .. n, snake[i] = x PROVE \E j \in 1 .. n + 1 : s[j] = x
    BY <1>7, <1>8, <2>2
  <2>3. ASSUME NEW i \in 1 .. n + 1, s[i] = x PROVE x = c \/ \E j \in 1 .. n : snake[j] = x
    BY <1>2, <1>6, <1>8, <2>3
  <2> QED
    BY <1>2, <1>8, <2>1, <2>2, <2>3
<1>10. \A i, j \in 1 .. n + 1 : i # j => s[i] # s[j]
  <2>1. \A i \in 2 .. n + 1 : s[i] # c
    BY <1>2, <1>5, <1>6
  <2>2. ASSUME NEW i \in 2 .. n + 1, NEW j \in 2 .. n + 1, i # j PROVE s[i] # s[j]
    <3>1. i - 1 \in 1 .. n /\ j - 1 \in 1 .. n /\ i - 1 # j - 1
      BY <1>1, <2>2
    <3> QED
      BY <1>2, <1>4, <3>1
  <2> QED
    BY <1>2, <1>8, <2>1, <2>2
<1>11. \A i \in 1 .. n + 1 : s[i] \notin Walls
  BY <1>2, <1>5, <1>6, <1>8
<1> QED
  BY <1>2, <1>9, <1>10, <1>11 DEF s

\* An update that moves the snake keeps the invariant.
LEMMA MoveInv ==
  ASSUME IInv, NEW input \in Inputs, Move(input)
  PROVE  IInv'
<1> DEFINE c == NewCell(input)
           cs == [cells EXCEPT ![c] = @ \cup {"SNAKE"}]
<1>1. /\ phase = "playing" /\ ~Blocked(c) /\ "FOOD" \notin cells[c]
      /\ snake' = Moved(c) /\ cells' = LeaveTail(cs, c) /\ dir' = Turn(input)
      /\ growing' = growing /\ g_score' = g_score /\ phase' = phase
  BY DEF Move
<1>2. c \in Cells /\ Turn(input) \in Dirs
  BY <1>1, NewCellIsACell
<1>3. cells \in [Cells -> SUBSET Flags] /\ snake \in Seq(Cells) /\ Len(snake) >= 1
  BY <1>1 DEF IInv, TypeOK, BodyInv, Alive
<1> HIDE DEF c
<1>4. /\ cs \in [Cells -> SUBSET Flags]
      /\ \A x \in Cells : cs[x] = IF x = c THEN cells[x] \cup {"SNAKE"} ELSE cells[x]
  BY <1>2, <1>3 DEF Flags
<1> HIDE DEF cs
<1>5. \A x \in Cells : "SNAKE" \in cs[x] <=> "SNAKE" \in cells[x] \/ x = c
  BY <1>4
<1>6. /\ cells' \in [Cells -> SUBSET Flags]
      /\ \A x \in Cells, fl \in Flags \ {"SNAKE"} : fl \in cells'[x] <=> fl \in cs[x]
      /\ \A x \in Cells : "SNAKE" \in cells'[x] <=> \E i \in 1 .. Len(snake') : snake'[i] = x
      /\ \A i, j \in 1 .. Len(snake') : i # j => snake'[i] # snake'[j]
      /\ \A i \in 1 .. Len(snake') : snake'[i] \notin Walls
  BY <1>1, <1>2, <1>4, <1>5, MovedInv
<1>7. snake' \in Seq(Cells) /\ Len(snake') = Len(snake)
  BY <1>1, <1>2, <1>3, MovedFacts
<1>8. TypeOK'
  BY <1>1, <1>2, <1>6, <1>7 DEF IInv, TypeOK
<1>9. \A x \in Cells, fl \in Flags \ {"SNAKE"} : fl \in cells'[x] <=> fl \in cells[x]
  BY <1>4, <1>6
<1>10. SnakeIsOnItsCells'
  BY <1>6, <1>9 DEF IInv, SnakeIsOnItsCells, Flags
<1>11. FoodInv'
  <2> SUFFICES ASSUME NEW x \in Cells, "FOOD" \in cells'[x] PROVE "SNAKE" \notin cells'[x]
    BY DEF FoodInv
  <2>1. "FOOD" \in cells[x] /\ "SNAKE" \notin cells[x] /\ x # c
    BY <1>1, <1>9 DEF IInv, FoodInv, Alive, Flags
  <2>2. cells'[x] \subseteq cs[x]
    BY <1>1, <1>3, <1>4 DEF LeaveTail
  <2> QED
    BY <1>4, <2>1, <2>2
<1>12. BodyInv'
  BY <1>3, <1>6, <1>7 DEF BodyInv
<1> QED
  BY <1>8, <1>10, <1>11, <1>12 DEF IInv

\* An update that makes the snake longer keeps the invariant.
LEMMA EatInv ==
  ASSUME IInv, NEW input \in Inputs, Eat(input)
  PROVE  IInv'
<1> DEFINE c == NewCell(input)
           cs == [cells EXCEPT ![c] = (@ \cup {"SNAKE"}) \ {"FOOD"}]
<1>1. /\ phase = "playing" /\ ~Blocked(c) /\ "FOOD" \in cells[c]
      /\ g_score' = g_score + 1 /\ dir' = Turn(input) /\ growing' = growing
  BY DEF Eat
<1>2. PICK o \in place_food(cs) :
        /\ phase' = IF o.ok THEN phase ELSE "aborted"
        /\ IF o.ok /\ ~growing
           THEN snake' = Moved(c) /\ cells' = LeaveTail(o.cells, c)
           ELSE snake' = Longer(c) /\ cells' = o.cells
  BY DEF Eat
<1>3. c \in Cells /\ Turn(input) \in Dirs
  BY <1>1, NewCellIsACell
<1>4. cells \in [Cells -> SUBSET Flags] /\ snake \in Seq(Cells) /\ Len(snake) >= 1
  BY <1>1 DEF IInv, TypeOK, BodyInv, Alive
<1>5. "SNAKE" \notin cells[c]
  BY <1>1, <1>3 DEF IInv, FoodInv, Alive
<1> HIDE DEF c
<1>6. /\ cs \in [Cells -> SUBSET Flags]
      /\ \A x \in Cells : cs[x] = IF x = c THEN (cells[x] \cup {"SNAKE"}) \ {"FOOD"} ELSE cells[x]
  BY <1>3, <1>4 DEF Flags
<1> HIDE DEF cs
<1>7. /\ o.cells \in [Cells -> SUBSET Flags]
      /\ o.ok \in BOOLEAN
      /\ \A x \in Cells, fl \in Flags \ {"FOOD"} : fl \in o.cells[x] <=> fl \in cs[x]
      /\ \A x \in Cells : "FOOD" \in o.cells[x] => "FOOD" \in cs[x] \/ cs[x] \subseteq {"GRASS"}
  BY <1>6, PlaceFoodFacts
<1>8. \A x \in Cells : "SNAKE" \in o.cells[x] <=> "SNAKE" \in cells[x] \/ x = c
  BY <1>6, <1>7 DEF Flags
<1>9. \A x \in Cells : "FOOD" \in o.cells[x] => "SNAKE" \notin o.cells[x]
  <2> SUFFICES ASSUME NEW x \in Cells, "FOOD" \in o.cells[x] PROVE "SNAKE" \notin o.cells[x]
    OBVIOUS
  <2>1. CASE "FOOD" \in cs[x]
    <3>1. x # c /\ "FOOD" \in cells[x] /\ "SNAKE" \notin cells[x]
      BY <1>1, <1>6, <2>1 DEF IInv, FoodInv, Alive
    <3> QED
      BY <1>8, <3>1
  <2>2. CASE cs[x] \subseteq {"GRASS"}
    BY <1>7, <2>2 DEF Flags
  <2> QED
    BY <1>7, <2>1, <2>2
<1>10. \A x \in Cells, fl \in {"WALL", "GRASS"} : fl \in o.cells[x] <=> fl \in cells[x]
  BY <1>6, <1>7 DEF Flags
<1>11. /\ cells' \in [Cells -> SUBSET Flags]
       /\ \A x \in Cells, fl \in {"WALL", "GRASS"} : fl \in cells'[x] <=> fl \in cells[x]
       /\ \A x \in Cells : cells'[x] \subseteq o.cells[x]
       /\ \A x \in Cells : "SNAKE" \in cells'[x] <=> \E i \in 1 .. Len(snake') : snake'[i] = x
       /\ \A i, j \in 1 .. Len(snake') : i # j => snake'[i] # snake'[j]
       /\ \A i \in 1 .. Len(snake') : snake'[i] \notin Walls
       /\ snake' \in Seq(Cells) /\ Len(snake') >= 1
  <2>1. CASE o.ok /\ ~growing
    <3>1. snake' = Moved(c) /\ cells' = LeaveTail(o.cells, c)
      BY <1>2, <2>1
    <3>2. /\ cells' \in [Cells -> SUBSET Flags]
          /\ \A x \in Cells, fl \in Flags \ {"SNAKE"} : fl \in cells'[x] <=> fl \in o.cells[x]
          /\ \A x \in Cells : "SNAKE" \in cells'[x] <=> \E i \in 1 .. Len(snake') : snake'[i] = x
          /\ \A i, j \in 1 .. Len(snake') : i # j => snake'[i] # snake'[j]
          /\ \A i \in 1 .. Len(snake') : snake'[i] \notin Walls
      BY <1>1, <1>3, <1>7, <1>8, <3>1, MovedInv
    <3>3. snake' \in Seq(Cells) /\ Len(snake') >= 1
      BY <1>3, <1>4, <3>1, MovedFacts
    <3>4. \A x \in Cells : cells'[x] \subseteq o.cells[x]
      BY <1>4, <1>7, <3>1 DEF LeaveTail
    <3>5. \A x \in Cells, fl \in {"WALL", "GRASS"} : fl \in cells'[x] <=> fl \in cells[x]
      BY <1>10, <3>2 DEF Flags
    <3> QED
      BY <3>2, <3>3, <3>4, <3>5
  <2>2. CASE ~(o.ok /\ ~growing)
    <3>1. snake' = Longer(c) /\ cells' = o.cells
      BY <1>2, <2>2
    <3>2. /\ \A x \in Cells : "SNAKE" \in cells'[x] <=> \E i \in 1 .. Len(snake') : snake'[i] = x
          /\ \A i, j \in 1 .. Len(snake') : i # j => snake'[i] # snake'[j]
          /\ \A i \in 1 .. Len(snake') : snake'[i] \notin Walls
      BY <1>1, <1>3, <1>5, <1>7, <1>8, <3>1, LongerInv
    <3>3. snake' \in Seq(Cells) /\ Len(snake') >= 1
      BY <1>3, <1>4, <3>1, LongerFacts
    <3> QED
      BY <1>7, <1>10, <3>1, <3>2, <3>3
  <2> QED
    BY <2>1, <2>2
<1>12. TypeOK'
  BY <1>1, <1>2, <1>3, <1>11 DEF IInv, TypeOK
<1>13. SnakeIsOnItsCells'
  BY <1>11 DEF IInv, SnakeIsOnItsCells
<1>14. FoodInv'
  BY <1>9, <1>11 DEF FoodInv
<1>15. BodyInv'
  BY <1>11 DEF BodyInv
<1> QED
  BY <1>12, <1>13, <1>14, <1>15 DEF IInv

\* The end of a game keeps the invariant.
LEMMA TeardownInv == ASSUME IInv, Teardown PROVE IInv'
<1>1. TypeOK'
  BY DEF IInv, TypeOK, Teardown
<1>2. Len(snake') = 0 /\ phase' = "done" /\ cells' = cells
  BY DEF Teardown
<1>3. SnakeIsOnItsCells' /\ FoodInv' /\ BodyInv'
  BY <1>2 DEF IInv, SnakeIsOnItsCells, FoodInv, BodyInv, Alive
<1> QED
  BY <1>1, <1>3 DEF IInv

\* The invariant is inductive: initialize_game establishes it, and update() and
\* teardown() preserve it.
THEOREM IInvHolds == Spec => []IInv
<1>1. Init => IInv
  BY InitInv
<1>2. IInv /\ [Next]_vars => IInv'
  <2> SUFFICES ASSUME IInv, [Next]_vars PROVE IInv'
    OBVIOUS
  <2>1. CASE \E input \in Inputs : Collide(input) \/ Move(input) \/ Eat(input)
    BY <2>1, CollideInv, MoveInv, EatInv
  <2>2. CASE Teardown
    BY <2>2, TeardownInv
  <2>3. CASE UNCHANGED vars
    BY <2>3 DEF vars, IInv, TypeOK, SnakeIsOnItsCells, FoodInv, BodyInv, Alive
  <2> QED
    BY <2>1, <2>2, <2>3 DEF Next, Over
<1> QED
  BY <1>1, <1>2, PTL DEF Spec

\* The board and the list keep their types, for every board: no index leaves it.
THEOREM TypeCorrect == Spec => []TypeOK
<1>1. IInv => TypeOK
  BY DEF IInv
<1> QED
  BY <1>1, IInvHolds, PTL

\* The flags of the board and the linked list always agree (update in game.c).
THEOREM SnakeStaysOnItsCells == Spec => []SnakeIsOnItsCells
<1>1. IInv => SnakeIsOnItsCells
  BY DEF IInv
<1> QED
  BY <1>1, IInvHolds, PTL

-----------------------------------------------------------------------------
(* The game can go on.  What keeps SnakeCanGoOn true: the head is ahead of the   *)
(* second cell in the direction of the snake, so that only the opposite input,   *)
(* which update() ignores, would lead back; and the one cell with food has no    *)
(* wall.                                                                         *)

Connected == \A i \in 1 .. Len(snake) - 1 : \E d \in Dirs : snake[i] = Neighbour(snake[i + 1], d)

HeadIsAhead == phase = "playing" /\ Len(snake) > 1 => snake[1] = Neighbour(snake[2], dir)

OneFood ==
  Alive => \E f \in Cells : /\ \A x \in Cells : "FOOD" \in cells[x] <=> x = f
                            /\ "WALL" \notin cells[f]

GoOnInv == Connected /\ HeadIsAhead /\ OneFood

\* A list keeps being one piece when its head is a neighbour of the old head and the
\* others have moved one place back.
LEMMA ShiftIsConnected ==
  ASSUME snake \in Seq(Cells), Len(snake) >= 1, Connected, NEW d \in Dirs,
         NEW s \in Seq(Cells), Len(s) \in {Len(snake), Len(snake) + 1},
         s[1] = Neighbour(snake[1], d),
         \A i \in 2 .. Len(s) : s[i] = snake[i - 1]
  PROVE  /\ \A i \in 1 .. Len(s) - 1 : \E e \in Dirs : s[i] = Neighbour(s[i + 1], e)
         /\ Len(s) > 1 => s[1] = Neighbour(s[2], d)
<1>1. Len(snake) \in Nat /\ Len(s) \in Nat
  OBVIOUS
<1>2. Len(s) > 1 => s[2] = snake[1]
  BY <1>1
<1>3. ASSUME NEW i \in 1 .. Len(s) - 1 PROVE \E e \in Dirs : s[i] = Neighbour(s[i + 1], e)
  <2>1. CASE i = 1
    BY <1>1, <1>2, <2>1
  <2>2. CASE i # 1
    <3> DEFINE k == i - 1
    <3>1. /\ i \in 2 .. Len(s) /\ i + 1 \in 2 .. Len(s)
          /\ k \in 1 .. Len(snake) - 1
      BY <1>1, <2>2
    <3>2. s[i] = snake[k] /\ s[i + 1] = snake[k + 1]
      BY <1>1, <3>1
    <3> HIDE DEF k
    <3>3. \E e \in Dirs : snake[k] = Neighbour(snake[k + 1], e)
      BY <3>1 DEF Connected
    <3> QED
      BY <3>2, <3>3
  <2> QED
    BY <2>1, <2>2
<1> QED
  BY <1>2, <1>3

\* Two steps lead back to a cell only when they are opposite.
LEMMA BackIsOpposite ==
  ASSUME NEW c \in Int, NEW d \in Dirs, NEW e \in Dirs, Neighbour(Neighbour(c, d), e) = c
  PROVE  d = Opposite(e)
  BY DimensionAssumption DEF Neighbour, Opposite, Dirs

\* place_food puts the food on one free cell, when it finds one.
LEMMA PlaceFoodIsOne ==
  ASSUME NEW cs \in [Cells -> SUBSET Flags], NEW o \in place_food(cs), o.ok,
         \A x \in Cells : "FOOD" \notin cs[x]
  PROVE  \E f \in Cells : /\ \A x \in Cells : "FOOD" \in o.cells[x] <=> x = f
                          /\ "WALL" \notin o.cells[f]
<1>1. PICK f \in Free(cs) : o = [cells |-> [cs EXCEPT ![f] = @ \cup {"FOOD"}], ok |-> TRUE]
  BY DEF place_food
<1>2. f \in Cells /\ cs[f] \subseteq {"GRASS"}
  BY DEF Free
<1>3. o.cells = [cs EXCEPT ![f] = @ \cup {"FOOD"}]
  BY <1>1
<1>4. \A x \in Cells : o.cells[x] = IF x = f THEN cs[x] \cup {"FOOD"} ELSE cs[x]
  BY <1>2, <1>3
<1> QED
  BY <1>2, <1>4

\* initialize_game makes a snake of one cell and places one food.
LEMMA InitGoOn == ASSUME Init PROVE GoOnInv
<1>1. Len(snake) = 1
  BY DEF Init
<1>2. PICK o \in place_food(Board) : cells = o.cells /\ phase = IF o.ok THEN "playing" ELSE "aborted"
  BY DEF Init
<1>3. Board \in [Cells -> SUBSET Flags] /\ \A x \in Cells : "FOOD" \notin Board[x]
  BY DEF Board, Flags
<1>4. o.ok => \E f \in Cells : /\ \A x \in Cells : "FOOD" \in o.cells[x] <=> x = f
                               /\ "WALL" \notin o.cells[f]
  BY <1>3, PlaceFoodIsOne
<1>5. OneFood
  BY <1>2, <1>4 DEF OneFood, Alive
<1> QED
  BY <1>1, <1>5 DEF GoOnInv, Connected, HeadIsAhead

\* A move takes the whole snake one cell on and leaves the food where it is.
LEMMA MoveGoOn ==
  ASSUME IInv, GoOnInv, NEW input \in Inputs, Move(input)
  PROVE  GoOnInv'
<1> DEFINE c == NewCell(input)
           d == Turn(input)
           cs == [cells EXCEPT ![c] = @ \cup {"SNAKE"}]
<1>1. /\ phase = "playing" /\ phase' = phase /\ dir' = d
      /\ snake' = Moved(c) /\ cells' = LeaveTail(cs, c)
  BY DEF Move
<1>2. c \in Cells /\ d \in Dirs
  BY <1>1, NewCellIsACell
<1>3. snake \in Seq(Cells) /\ Len(snake) >= 1 /\ cells \in [Cells -> SUBSET Flags]
  BY <1>1 DEF IInv, TypeOK, BodyInv, Alive
<1>4. c = Neighbour(snake[1], d) /\ Tail0 \in Cells
  BY <1>3 DEF NewCell, Tail0
<1> HIDE DEF c, d
<1>5. /\ snake' \in Seq(Cells) /\ Len(snake') = Len(snake) /\ snake'[1] = c
      /\ \A i \in 2 .. Len(snake') : snake'[i] = snake[i - 1]
  BY <1>1, <1>2, <1>3, MovedFacts
<1>6. Connected /\ OneFood
  BY DEF GoOnInv
<1>7. /\ \A i \in 1 .. Len(snake') - 1 : \E e \in Dirs : snake'[i] = Neighbour(snake'[i + 1], e)
      /\ Len(snake') > 1 => snake'[1] = Neighbour(snake'[2], d)
  BY <1>2, <1>3, <1>4, <1>5, <1>6, ShiftIsConnected
<1>8. Connected' /\ HeadIsAhead'
  BY <1>1, <1>7 DEF Connected, HeadIsAhead
<1>9. \A x \in Cells, fl \in {"FOOD", "WALL"} : fl \in cells'[x] <=> fl \in cells[x]
  BY <1>1, <1>2, <1>3, <1>4 DEF LeaveTail
<1>10. OneFood'
  BY <1>1, <1>6, <1>9 DEF OneFood, Alive
<1> QED
  BY <1>8, <1>10 DEF GoOnInv

\* Eating takes the only food away before place_food puts one elsewhere.
LEMMA EatGoOn ==
  ASSUME IInv, GoOnInv, NEW input \in Inputs, Eat(input)
  PROVE  GoOnInv'
<1> DEFINE c == NewCell(input)
           d == Turn(input)
           cs == [cells EXCEPT ![c] = (@ \cup {"SNAKE"}) \ {"FOOD"}]
<1>1. phase = "playing" /\ "FOOD" \in cells[c] /\ dir' = d
  BY DEF Eat
<1>2. PICK o \in place_food(cs) :
        /\ phase' = IF o.ok THEN phase ELSE "aborted"
        /\ IF o.ok /\ ~growing
           THEN snake' = Moved(c) /\ cells' = LeaveTail(o.cells, c)
           ELSE snake' = Longer(c) /\ cells' = o.cells
  BY DEF Eat
<1>3. c \in Cells /\ d \in Dirs
  BY <1>1, NewCellIsACell
<1>4. snake \in Seq(Cells) /\ Len(snake) >= 1 /\ cells \in [Cells -> SUBSET Flags]
  BY <1>1 DEF IInv, TypeOK, BodyInv, Alive
<1>5. c = Neighbour(snake[1], d) /\ Tail0 \in Cells
  BY <1>4 DEF NewCell, Tail0
<1> HIDE DEF c, d
<1>6. Connected /\ OneFood
  BY DEF GoOnInv
<1>7. /\ snake' \in Seq(Cells) /\ Len(snake') \in {Len(snake), Len(snake) + 1} /\ snake'[1] = c
      /\ \A i \in 2 .. Len(snake') : snake'[i] = snake[i - 1]
  <2>1. CASE snake' = Moved(c)
    BY <1>3, <1>4, <2>1, MovedFacts
  <2>2. CASE snake' = Longer(c)
    BY <1>3, <1>4, <2>2, LongerFacts
  <2> QED
    BY <1>2, <2>1, <2>2
<1>8. /\ \A i \in 1 .. Len(snake') - 1 : \E e \in Dirs : snake'[i] = Neighbour(snake'[i + 1], e)
      /\ Len(snake') > 1 => snake'[1] = Neighbour(snake'[2], d)
  BY <1>3, <1>4, <1>5, <1>6, <1>7, ShiftIsConnected
<1>9. Connected' /\ HeadIsAhead'
  BY <1>1, <1>8 DEF Connected, HeadIsAhead
<1>10. cs \in [Cells -> SUBSET Flags] /\ \A x \in Cells : "FOOD" \notin cs[x]
  BY <1>1, <1>3, <1>4, <1>6 DEF OneFood, Alive, Flags
<1> HIDE DEF cs
<1>11. o.cells \in [Cells -> SUBSET Flags]
  BY <1>10, PlaceFoodFacts
<1>12. OneFood'
  <2> SUFFICES ASSUME o.ok
               PROVE  \E f \in Cells : /\ \A x \in Cells : "FOOD" \in cells'[x] <=> x = f
                                       /\ "WALL" \notin cells'[f]
    BY <1>1, <1>2 DEF OneFood, Alive
  <2>1. PICK f \in Cells : /\ \A x \in Cells : "FOOD" \in o.cells[x] <=> x = f
                           /\ "WALL" \notin o.cells[f]
    BY <1>10, PlaceFoodIsOne
  <2>2. \A x \in Cells, fl \in {"FOOD", "WALL"} : fl \in cells'[x] <=> fl \in o.cells[x]
    BY <1>2, <1>3, <1>5, <1>11 DEF LeaveTail
  <2> QED
    BY <2>1, <2>2
<1> QED
  BY <1>9, <1>12 DEF GoOnInv

\* The invariants imply the property.
LEMMA GoOnInvImplies == ASSUME IInv, GoOnInv PROVE SnakeCanGoOn
<1>1. ASSUME phase = "playing", Len(snake) > 1, NEW input \in Inputs
      PROVE  NewCell(input) # snake[2]
  <2>1. snake \in Seq(Cells) /\ Head(snake) = snake[1] /\ snake[2] \in Cells /\ dir \in Dirs
    BY <1>1 DEF IInv, TypeOK
  <2>2. Turn(input) \in Dirs
    BY <1>1, NewCellIsACell
  <2>3. dir # Opposite(Turn(input))
    BY <1>1, <2>1 DEF Turn, Opposite, Dirs, Inputs
  <2>4. snake[1] = Neighbour(snake[2], dir)
    BY <1>1 DEF GoOnInv, HeadIsAhead
  <2>5. snake[2] \in Int
    BY <2>1, DimensionAssumption DEF Cells
  <2>6. Neighbour(Neighbour(snake[2], dir), Turn(input)) # snake[2]
    BY <2>1, <2>2, <2>3, <2>5, BackIsOpposite
  <2> QED
    BY <2>1, <2>4, <2>6 DEF NewCell
<1>2. ASSUME Alive
      PROVE  /\ Cardinality({c \in Cells : "FOOD" \in cells[c]}) = 1
             /\ \A c \in Cells : "FOOD" \in cells[c] => cells[c] \subseteq {"FOOD", "GRASS"}
  <2>1. PICK f \in Cells : /\ \A x \in Cells : "FOOD" \in cells[x] <=> x = f
                           /\ "WALL" \notin cells[f]
    BY <1>2 DEF GoOnInv, OneFood
  <2>2. {c \in Cells : "FOOD" \in cells[c]} = {f}
    BY <2>1
  <2>3. Cardinality({f}) = 1
    BY FS_Singleton
  <2>4. "SNAKE" \notin cells[f] /\ cells[f] \subseteq Flags
    BY <1>2, <2>1 DEF IInv, TypeOK, FoodInv
  <2> QED
    BY <2>1, <2>2, <2>3, <2>4 DEF Flags
<1> QED
  BY <1>1, <1>2 DEF SnakeCanGoOn, GoOnInv, Connected

\* The snake stays one piece and cannot turn back on itself, and there is exactly one
\* food on the board, whatever is pressed and wherever place_food draws a cell.
THEOREM SnakeCanAlwaysGoOn == Spec => []SnakeCanGoOn
<1>1. Init => GoOnInv
  BY InitGoOn
<1>2. IInv /\ GoOnInv /\ [Next]_vars => GoOnInv'
  <2> SUFFICES ASSUME IInv, GoOnInv, [Next]_vars PROVE GoOnInv'
    OBVIOUS
  <2>1. ASSUME NEW input \in Inputs, Collide(input) PROVE GoOnInv'
    BY <2>1 DEF Collide, GoOnInv, Connected, HeadIsAhead, OneFood, Alive
  <2>2. CASE Teardown
    BY <2>2 DEF Teardown, GoOnInv, Connected, HeadIsAhead, OneFood, Alive
  <2>3. CASE UNCHANGED vars
    BY <2>3 DEF vars, GoOnInv, Connected, HeadIsAhead, OneFood, Alive
  <2> QED
    BY <2>1, <2>2, <2>3, MoveGoOn, EatGoOn DEF Next, Over
<1>3. IInv /\ GoOnInv => SnakeCanGoOn
  BY GoOnInvImplies
<1> QED
  BY <1>1, <1>2, <1>3, IInvHolds, PTL DEF Spec

-----------------------------------------------------------------------------
(* SnakeList: numbers, and the walks along the pointers *)

\* A set of naturals that is not empty has a least element.
LEMMA LeastOfNat ==
  ASSUME NEW T \in SUBSET Nat, T # {}
  PROVE  \E x \in T : \A y \in T : x <= y
<1> DEFINE R == OpToRel(<, Nat)
<1>1. IsWellFoundedOn(R, Nat)
  BY NatLessThanWellFounded
<1>2. \A x, y \in Nat : y < x => <<y, x>> \in R
  BY DEF OpToRel
<1> HIDE DEF R
<1>3. PICK x \in T : \A y \in T : ~(<<y, x>> \in R)
  BY <1>1, WFMin
<1>4. \A y \in T : ~(y < x) /\ y \in Nat /\ x \in Nat
  BY <1>2, <1>3
<1>5. \A y \in T : x <= y
  BY <1>4
<1> QED
  BY <1>5

\* A set with 0, and with i whenever it has i - 1, has every number up to n.
LEMMA UpTo ==
  ASSUME NEW n \in Nat, NEW T, 0 \in T, \A i \in 1 .. n : i - 1 \in T => i \in T
  PROVE  \A i \in 0 .. n : i \in T
<1> DEFINE Missing == {i \in 0 .. n : i \notin T}
<1> SUFFICES ASSUME Missing # {} PROVE FALSE
  OBVIOUS
<1>1. PICK x \in Missing : \A y \in Missing : x <= y
  <2>1. Missing \in SUBSET Nat
    OBVIOUS
  <2> HIDE DEF Missing
  <2> QED BY <2>1, LeastOfNat
<1>2. x \in 1 .. n /\ x \notin T
  BY <1>1
<1>3. x - 1 \in 0 .. n /\ x - 1 \notin Missing
  BY <1>1, <1>2
<1> QED BY <1>2, <1>3

\* The values of a walk from a along a field: each from the one before.
Steps(f, a, next) ==
  /\ f[0] = a
  /\ \A i \in 1 .. NodeCount : f[i] = IF f[i - 1] \in Nodes THEN next[f[i - 1]] ELSE f[i - 1]

\* What a walk along the next pointers comes to, if it can be said.
LEMMA NextSteps ==
  ASSUME NEW h, NEW a, NEW f, NEW next,
         \A m \in Nodes : next[m] = h[m].next, Steps(f, a, next)
  PROVE  \A i \in 0 .. NodeCount : NextNodes(h, a)[i] = f[i]
<1> DEFINE N == NextNodes(h, a)
           g == [i \in 0 .. NodeCount |-> f[i]]
<1>1. NodeCount \in Nat /\ 0 \in 0 .. NodeCount
  BY NodeAssumption
<1>2. /\ g[0] = a
      /\ \A i \in 1 .. NodeCount :
           g[i] = IF g[i - 1] \in Nodes THEN h[g[i - 1]].next ELSE g[i - 1]
  <2>1. g[0] = a
    BY <1>1 DEF Steps
  <2>2. ASSUME NEW i \in 1 .. NodeCount
        PROVE  g[i] = IF g[i - 1] \in Nodes THEN h[g[i - 1]].next ELSE g[i - 1]
    <3>1. i \in 0 .. NodeCount /\ i - 1 \in 0 .. NodeCount
      BY <1>1
    <3>2. g[i] = f[i] /\ g[i - 1] = f[i - 1]
      BY <3>1
    <3>3. f[i] = IF f[i - 1] \in Nodes THEN next[f[i - 1]] ELSE f[i - 1]
      BY DEF Steps
    <3> HIDE DEF g
    <3> QED BY <3>2, <3>3
  <2> QED BY <2>1, <2>2
<1>3. g = [i \in 0 .. NodeCount |->
             IF i = 0 THEN a ELSE IF g[i - 1] \in Nodes THEN h[g[i - 1]].next ELSE g[i - 1]]
  <2>1. DOMAIN g = 0 .. NodeCount /\ g = [i \in 0 .. NodeCount |-> g[i]]
    OBVIOUS
  <2>2. \A i \in 0 .. NodeCount : i # 0 => i \in 1 .. NodeCount
    BY <1>1
  <2> HIDE DEF g
  <2> QED BY <1>2, <2>1, <2>2
<1>4. N = [i \in 0 .. NodeCount |->
             IF i = 0 THEN a ELSE IF N[i - 1] \in Nodes THEN h[N[i - 1]].next ELSE N[i - 1]]
  <2> HIDE DEF g
  <2> QED BY <1>3 DEF NextNodes
<1> HIDE DEF N
<1>5. N[0] = a /\ f[0] = a
  BY <1>1, <1>4 DEF Steps
<1> DEFINE T == {i \in 0 .. NodeCount : N[i] = f[i]}
<1>6. ASSUME NEW i \in 1 .. NodeCount, i - 1 \in T PROVE i \in T
  <2>1. i \in 0 .. NodeCount /\ i # 0 /\ i - 1 \in 0 .. NodeCount
    BY <1>1
  <2>2. N[i] = IF N[i - 1] \in Nodes THEN h[N[i - 1]].next ELSE N[i - 1]
    BY <2>1, <1>4
  <2>3. f[i] = IF f[i - 1] \in Nodes THEN next[f[i - 1]] ELSE f[i - 1]
    BY DEF Steps
  <2> QED BY <2>1, <2>2, <2>3, <1>6
<1>7. \A i \in 0 .. NodeCount : i \in T
  <2>1. 0 \in T
    BY <1>1, <1>5
  <2> HIDE DEF T
  <2> QED BY <1>1, <1>6, <2>1, UpTo
<1> QED BY <1>7 DEF N

\* The same along the previous pointers.
LEMMA PrevSteps ==
  ASSUME NEW h, NEW a, NEW f, NEW prev,
         \A m \in Nodes : prev[m] = h[m].prev, Steps(f, a, prev)
  PROVE  \A i \in 0 .. NodeCount : PrevNodes(h, a)[i] = f[i]
<1> DEFINE N == PrevNodes(h, a)
           g == [i \in 0 .. NodeCount |-> f[i]]
<1>1. NodeCount \in Nat /\ 0 \in 0 .. NodeCount
  BY NodeAssumption
<1>2. /\ g[0] = a
      /\ \A i \in 1 .. NodeCount :
           g[i] = IF g[i - 1] \in Nodes THEN h[g[i - 1]].prev ELSE g[i - 1]
  <2>1. g[0] = a
    BY <1>1 DEF Steps
  <2>2. ASSUME NEW i \in 1 .. NodeCount
        PROVE  g[i] = IF g[i - 1] \in Nodes THEN h[g[i - 1]].prev ELSE g[i - 1]
    <3>1. i \in 0 .. NodeCount /\ i - 1 \in 0 .. NodeCount
      BY <1>1
    <3>2. g[i] = f[i] /\ g[i - 1] = f[i - 1]
      BY <3>1
    <3>3. f[i] = IF f[i - 1] \in Nodes THEN prev[f[i - 1]] ELSE f[i - 1]
      BY DEF Steps
    <3> HIDE DEF g
    <3> QED BY <3>2, <3>3
  <2> QED BY <2>1, <2>2
<1>3. g = [i \in 0 .. NodeCount |->
             IF i = 0 THEN a ELSE IF g[i - 1] \in Nodes THEN h[g[i - 1]].prev ELSE g[i - 1]]
  <2>1. DOMAIN g = 0 .. NodeCount /\ g = [i \in 0 .. NodeCount |-> g[i]]
    OBVIOUS
  <2>2. \A i \in 0 .. NodeCount : i # 0 => i \in 1 .. NodeCount
    BY <1>1
  <2> HIDE DEF g
  <2> QED BY <1>2, <2>1, <2>2
<1>4. N = [i \in 0 .. NodeCount |->
             IF i = 0 THEN a ELSE IF N[i - 1] \in Nodes THEN h[N[i - 1]].prev ELSE N[i - 1]]
  <2> HIDE DEF g
  <2> QED BY <1>3 DEF PrevNodes
<1> HIDE DEF N
<1>5. N[0] = a /\ f[0] = a
  BY <1>1, <1>4 DEF Steps
<1> DEFINE T == {i \in 0 .. NodeCount : N[i] = f[i]}
<1>6. ASSUME NEW i \in 1 .. NodeCount, i - 1 \in T PROVE i \in T
  <2>1. i \in 0 .. NodeCount /\ i # 0 /\ i - 1 \in 0 .. NodeCount
    BY <1>1
  <2>2. N[i] = IF N[i - 1] \in Nodes THEN h[N[i - 1]].prev ELSE N[i - 1]
    BY <2>1, <1>4
  <2>3. f[i] = IF f[i - 1] \in Nodes THEN prev[f[i - 1]] ELSE f[i - 1]
    BY DEF Steps
  <2> QED BY <2>1, <2>2, <2>3, <1>6
<1>7. \A i \in 0 .. NodeCount : i \in T
  <2>1. 0 \in T
    BY <1>1, <1>5
  <2> HIDE DEF T
  <2> QED BY <1>1, <1>6, <2>1, UpTo
<1> QED BY <1>7 DEF N

-----------------------------------------------------------------------------
(* SnakeList: the nodes of a list *)

\* q has the nodes of the list, each once, and every other node is free.
Chain(h, hd, q) ==
  /\ q \in Seq(Nodes)
  /\ \A i, j \in 1 .. Len(q) : q[i] = q[j] => i = j
  /\ hd = IF Len(q) = 0 THEN NULL ELSE q[1]
  /\ \A i \in 1 .. Len(q) :
       /\ h[q[i]] = [data |-> h[q[i]].data, next |-> h[q[i]].next, prev |-> h[q[i]].prev]
       /\ h[q[i]].data \in Data
       /\ h[q[i]].next = IF i = Len(q) THEN NULL ELSE q[i + 1]
       /\ h[q[i]].prev = IF i = 1 THEN NULL ELSE q[i - 1]
  /\ \A m \in Nodes : (\A i \in 1 .. Len(q) : q[i] # m) => h[m] = Freed

ListInv == DOMAIN heap = Nodes /\ \E q : Chain(heap, head_list, q)

\* The contents of the nodes.
DataOf(h, q) == [i \in 1 .. Len(q) |-> h[q[i]].data]

\* A list has no more nodes than there are.
LEMMA ChainLen ==
  ASSUME NEW h, NEW hd, NEW q, Chain(h, hd, q)
  PROVE  /\ Len(q) \in Nat /\ Len(q) <= NodeCount /\ NodeCount \in Nat
         /\ q \in Seq(Nodes) /\ DOMAIN q = 1 .. Len(q)
         /\ \A i \in 1 .. Len(q) : q[i] \in Nodes /\ q[i] # NULL
<1>1. q \in Seq(Nodes) /\ NodeCount \in Nat
  BY NodeAssumption DEF Chain
<1>2. PICK n \in Nat : n = Len(q) /\ q \in [1 .. n -> Nodes] /\ DOMAIN q = 1 .. n
  BY <1>1, LenProperties
<1>3. \A i, j \in 1 .. n : q[i] = q[j] => i = j
  BY <1>2 DEF Chain
<1>4. \A i \in 1 .. n : q[i] \in Nodes /\ q[i] # NULL
  BY <1>1, <1>2 DEF Nodes, NULL
<1>5. n <= NodeCount
  <2> SUFFICES ASSUME NodeCount < n PROVE FALSE
    BY <1>1
  <2>1. IsFiniteSet(1 .. n) /\ Cardinality(1 .. n) = n
    BY FS_Interval
  <2>2. IsFiniteSet(Nodes) /\ Cardinality(Nodes) = NodeCount
    BY <1>1, FS_Interval DEF Nodes
  <2>3. \E x, y \in 1 .. n : x # y /\ q[x] = q[y]
    BY <1>2, <2>1, <2>2, FS_PigeonHole
  <2> QED BY <2>3, <1>3
<1> QED BY <1>1, <1>2, <1>4, <1>5

\* The walk from the head comes to the nodes of the list, and then to NULL.
LEMMA ChainWalk ==
  ASSUME NEW h, NEW hd, NEW q, Chain(h, hd, q)
  PROVE  \A k \in 0 .. NodeCount : NextNodes(h, hd)[k] = IF k < Len(q) THEN q[k + 1] ELSE NULL
<1>1. PICK n \in Nat : /\ n = Len(q) /\ n <= NodeCount /\ NodeCount \in Nat
                       /\ \A i \in 1 .. n : q[i] \in Nodes /\ q[i] # NULL
  BY ChainLen
<1> DEFINE f == [i \in 0 .. NodeCount |-> IF i < n THEN q[i + 1] ELSE NULL]
           next == [m \in Nodes |-> h[m].next]
<1>2. f[0] = hd
  <2>1. 0 \in 0 .. NodeCount
    BY <1>1
  <2>2. hd = IF n = 0 THEN NULL ELSE q[1]
    BY <1>1 DEF Chain
  <2> QED BY <2>1, <2>2
<1>3. ASSUME NEW i \in 1 .. NodeCount
      PROVE  f[i] = IF f[i - 1] \in Nodes THEN next[f[i - 1]] ELSE f[i - 1]
  <2>1. i \in 0 .. NodeCount /\ i - 1 \in 0 .. NodeCount
    BY <1>1
  <2>2. CASE i - 1 < n
    <3>1. i \in 1 .. n /\ f[i - 1] = q[i]
      BY <2>1, <2>2, <1>1
    <3>2. h[q[i]].next = IF i = n THEN NULL ELSE q[i + 1]
      BY <1>1, <3>1 DEF Chain
    <3>3. q[i] \in Nodes
      BY <1>1, <3>1
    <3>4. f[i] = IF i = n THEN NULL ELSE q[i + 1]
      BY <2>1, <3>1, <1>1
    <3> QED BY <3>1, <3>2, <3>3, <3>4
  <2>3. CASE ~(i - 1 < n)
    <3>1. ~(i < n) /\ f[i - 1] = NULL /\ f[i] = NULL
      BY <2>1, <2>3, <1>1
    <3> QED BY <3>1 DEF NULL, Nodes
  <2> QED BY <2>2, <2>3
<1>4. Steps(f, hd, next)
  BY <1>2, <1>3 DEF Steps
<1>5. \A m \in Nodes : next[m] = h[m].next
  OBVIOUS
<1>6. \A i \in 0 .. NodeCount : f[i] = IF i < Len(q) THEN q[i + 1] ELSE NULL
  BY <1>1
<1> HIDE DEF f, next
<1>7. \A i \in 0 .. NodeCount : NextNodes(h, hd)[i] = f[i]
  BY <1>4, <1>5, NextSteps
<1> QED BY <1>6, <1>7

\* The walk back from the last node comes to the same nodes.
LEMMA ChainWalkBack ==
  ASSUME NEW h, NEW hd, NEW q, Chain(h, hd, q), Len(q) # 0
  PROVE  \A k \in 0 .. Len(q) - 1 : PrevNodes(h, q[Len(q)])[k] = q[Len(q) - k]
<1>1. PICK n \in Nat : /\ n = Len(q) /\ n <= NodeCount /\ NodeCount \in Nat /\ n # 0
                       /\ \A i \in 1 .. n : q[i] \in Nodes /\ q[i] # NULL
  BY ChainLen
<1> DEFINE f == [i \in 0 .. NodeCount |-> IF i < n THEN q[n - i] ELSE NULL]
           prev == [m \in Nodes |-> h[m].prev]
<1>2. f[0] = q[n]
  BY <1>1
<1>3. ASSUME NEW i \in 1 .. NodeCount
      PROVE  f[i] = IF f[i - 1] \in Nodes THEN prev[f[i - 1]] ELSE f[i - 1]
  <2>1. i \in 0 .. NodeCount /\ i - 1 \in 0 .. NodeCount
    BY <1>1
  <2>2. CASE i - 1 < n
    <3>1. PICK j \in 1 .. n : j = n - (i - 1) /\ j - 1 = n - i
      <4>1. n - (i - 1) \in 1 .. n /\ (n - (i - 1)) - 1 = n - i
        BY <2>1, <2>2, <1>1
      <4> QED BY <4>1
    <3>2. f[i - 1] = q[j]
      BY <2>1, <2>2, <3>1
    <3>3. h[q[j]].prev = IF j = 1 THEN NULL ELSE q[j - 1]
      BY <1>1, <3>1 DEF Chain
    <3>4. q[j] \in Nodes
      BY <1>1, <3>1
    <3>5. f[i] = IF j = 1 THEN NULL ELSE q[j - 1]
      BY <2>1, <3>1, <1>1
    <3> QED BY <3>2, <3>3, <3>4, <3>5
  <2>3. CASE ~(i - 1 < n)
    <3>1. ~(i < n) /\ f[i - 1] = NULL /\ f[i] = NULL
      BY <2>1, <2>3, <1>1
    <3> QED BY <3>1 DEF NULL, Nodes
  <2> QED BY <2>2, <2>3
<1>4. Steps(f, q[n], prev)
  BY <1>2, <1>3 DEF Steps
<1>5. \A m \in Nodes : prev[m] = h[m].prev
  OBVIOUS
<1>6. \A i \in 0 .. n - 1 : f[i] = q[n - i] /\ i \in 0 .. NodeCount
  BY <1>1
<1> HIDE DEF f, prev
<1>7. \A i \in 0 .. NodeCount : PrevNodes(h, q[n])[i] = f[i]
  BY <1>4, <1>5, PrevSteps
<1> QED BY <1>1, <1>6, <1>7

\* The loop of ll_length counts the nodes.
LEMMA ChainLength ==
  ASSUME NEW h, NEW hd, NEW q, Chain(h, hd, q)
  PROVE  LengthOf(h, hd) = Len(q)
<1>1. PICK n \in Nat : /\ n = Len(q) /\ n <= NodeCount /\ NodeCount \in Nat
                       /\ \A i \in 1 .. n : q[i] \in Nodes /\ q[i] # NULL
  BY ChainLen
<1> DEFINE N == NextNodes(h, hd)
           Ends(k) == N[k] = NULL /\ \A j \in 0 .. k - 1 : N[j] # NULL
<1>2. \A k \in 0 .. NodeCount : N[k] = IF k < n THEN q[k + 1] ELSE NULL
  BY <1>1, ChainWalk
<1> HIDE DEF N
<1>3. n \in 0 .. NodeCount /\ N[n] = NULL
  BY <1>1, <1>2
<1>4. ASSUME NEW j \in 0 .. n - 1 PROVE N[j] # NULL
  <2>1. j \in 0 .. NodeCount /\ j < n /\ j + 1 \in 1 .. n
    BY <1>1
  <2> QED BY <2>1, <1>1, <1>2
<1>5. ASSUME NEW k \in 0 .. NodeCount, Ends(k) PROVE k = n
  <2>1. ~(k < n)
    BY <1>4, <1>5
  <2>2. ~(n < k)
    BY <1>3, <1>5
  <2> QED BY <2>1, <2>2, <1>1
<1>6. Ends(n)
  BY <1>3, <1>4
<1>7. LengthOf(h, hd) = CHOOSE k \in 0 .. NodeCount : Ends(k)
  BY DEF LengthOf, N
<1> HIDE DEF Ends
<1>8. (CHOOSE k \in 0 .. NodeCount : Ends(k)) = n
  BY <1>3, <1>5, <1>6
<1> QED BY <1>1, <1>7, <1>8

\* The nodes that are not free are those of the list.
LEMMA ChainAllocated ==
  ASSUME NEW h, NEW hd, NEW q, Chain(h, hd, q)
  PROVE  /\ \A i \in 1 .. Len(q) : h[q[i]] # Freed
         /\ Cardinality({m \in Nodes : h[m] # Freed}) = Len(q)
<1>1. PICK n \in Nat : n = Len(q) /\ q \in [1 .. n -> Nodes]
  BY ChainLen, LenProperties
<1>2. ASSUME NEW m \in Nodes PROVE h[m] # Freed <=> \E i \in 1 .. n : q[i] = m
  <2>1. ASSUME NEW i \in 1 .. n, q[i] = m PROVE h[m] # Freed
    <3>1. h[q[i]].data \in Data
      BY <1>1 DEF Chain
    <3>2. Freed.data = -1 /\ -1 \notin Data
      BY DataAssumption DEF Freed
    <3> QED BY <2>1, <3>1, <3>2
  <2>2. ASSUME \A i \in 1 .. n : q[i] # m PROVE h[m] = Freed
    BY <1>1, <2>2 DEF Chain
  <2> QED BY <2>1, <2>2
<1> DEFINE A == {m \in Nodes : h[m] # Freed}
<1>3. q \in Bijection(1 .. n, A)
  <2>1. q \in [1 .. n -> A]
    BY <1>1, <1>2
  <2>2. \A i, j \in 1 .. n : q[i] = q[j] => i = j
    BY <1>1 DEF Chain
  <2>3. \A m \in A : \E i \in 1 .. n : q[i] = m
    BY <1>2
  <2> HIDE DEF A
  <2> QED BY <2>1, <2>2, <2>3 DEF Bijection, Injection, Surjection, IsInjective
<1> HIDE DEF A
<1>4. ExistsBijection(1 .. n, A)
  BY <1>3 DEF ExistsBijection
<1>5. IsFiniteSet(1 .. n) /\ Cardinality(1 .. n) = n
  BY FS_Interval
<1>6. Cardinality(A) = n
  BY <1>4, <1>5, FS_Bijection
<1> QED BY <1>1, <1>2, <1>6 DEF A

\* The elements, as the walk finds them.
LEMMA ChainElements ==
  ASSUME NEW h, NEW hd, NEW q, Chain(h, hd, q)
  PROVE  /\ [i \in 1 .. LengthOf(h, hd) |-> h[NextNodes(h, hd)[i - 1]].data] = DataOf(h, q)
         /\ DataOf(h, q) \in Seq(Data) /\ Len(DataOf(h, q)) = Len(q)
         /\ \A i \in 1 .. Len(q) : DataOf(h, q)[i] = h[q[i]].data
<1>1. PICK n \in Nat : n = Len(q) /\ n <= NodeCount /\ NodeCount \in Nat
  BY ChainLen
<1>2. LengthOf(h, hd) = n
  BY <1>1, ChainLength
<1>3. ASSUME NEW i \in 1 .. n PROVE NextNodes(h, hd)[i - 1] = q[i]
  <2>1. i - 1 \in 0 .. NodeCount /\ i - 1 < n /\ (i - 1) + 1 = i
    BY <1>1
  <2> QED BY <2>1, <1>1, ChainWalk
<1>4. DataOf(h, q) = [i \in 1 .. n |-> h[q[i]].data]
  BY <1>1 DEF DataOf
<1>5. DataOf(h, q) \in [1 .. n -> Data]
  BY <1>1, <1>4 DEF Chain
<1>6. DataOf(h, q) \in Seq(Data)
  BY <1>5, SeqDef
<1>7. Len(DataOf(h, q)) = n
  BY <1>1, <1>5, <1>6, LenProperties
<1> QED BY <1>1, <1>2, <1>3, <1>4, <1>6, <1>7

\* From the last node the previous pointers lead back through the same nodes.
LEMMA ChainTwoWays ==
  ASSUME NEW h, NEW hd, NEW q, Chain(h, hd, q)
  PROVE  /\ Len(q) # 0 => NextNodes(h, hd)[Len(q) - 1] = q[Len(q)]
         /\ \A i \in 0 .. Len(q) - 1 :
              PrevNodes(h, NextNodes(h, hd)[Len(q) - 1])[i] = NextNodes(h, hd)[Len(q) - 1 - i]
         /\ hd # NULL => h[hd].prev = NULL
         /\ hd = NULL <=> Len(q) = 0
<1>1. PICK n \in Nat : /\ n = Len(q) /\ n <= NodeCount /\ NodeCount \in Nat
                       /\ \A i \in 1 .. n : q[i] \in Nodes /\ q[i] # NULL
  BY ChainLen
<1>2. ASSUME NEW i \in 0 .. n - 1 PROVE NextNodes(h, hd)[n - 1 - i] = q[n - i] /\ n # 0
  <2>1. PICK k \in 0 .. NodeCount : k = n - 1 - i /\ k < n /\ k + 1 = n - i /\ n # 0
    <3>1. n - 1 - i \in 0 .. NodeCount /\ n - 1 - i < n /\ (n - 1 - i) + 1 = n - i /\ n # 0
      BY <1>1
    <3> QED BY <3>1
  <2>2. NextNodes(h, hd)[k] = IF k < Len(q) THEN q[k + 1] ELSE NULL
    BY ChainWalk
  <2> QED BY <2>1, <2>2, <1>1
<1>3. ASSUME n # 0 PROVE NextNodes(h, hd)[n - 1] = q[n]
  <2>1. 0 \in 0 .. n - 1 /\ n - 1 - 0 = n - 1 /\ n - 0 = n
    BY <1>1, <1>3
  <2> QED BY <2>1, <1>2
<1>4. ASSUME NEW i \in 0 .. n - 1
      PROVE  PrevNodes(h, NextNodes(h, hd)[n - 1])[i] = NextNodes(h, hd)[n - 1 - i]
  <2>1. n # 0
    BY <1>2
  <2>2. PrevNodes(h, q[n])[i] = q[n - i]
    BY <2>1, <1>1, ChainWalkBack
  <2> QED BY <2>1, <2>2, <1>2, <1>3
<1>5. hd = NULL <=> n = 0
  <2>1. n # 0 => 1 \in 1 .. n
    BY <1>1
  <2> QED BY <1>1, <2>1 DEF Chain
<1>6. ASSUME hd # NULL PROVE h[hd].prev = NULL
  <2>1. 1 \in 1 .. n /\ hd = q[1]
    BY <1>1, <1>5, <1>6 DEF Chain
  <2> QED BY <1>1, <2>1 DEF Chain
<1> QED BY <1>1, <1>3, <1>4, <1>5, <1>6

\* What the calls see of the list.
Seen(h, hd, q) ==
  /\ LengthOf(h, hd) = Len(q)
  /\ \A k \in 1 .. Len(q) : NextNodes(h, hd)[k - 1] = q[k]
  /\ Len(q) # 0 => NextNodes(h, hd)[LengthOf(h, hd) - 1] = q[Len(q)]
  /\ hd = NULL <=> Len(q) = 0

\* The state that a call finds.
LEMMA ListSeen ==
  ASSUME NEW q, Chain(heap, head_list, q)
  PROVE  Seen(heap, head_list, q) /\ Elements = DataOf(heap, q) /\ TwoWays
<1>1. LengthOf(heap, head_list) = Len(q)
  BY ChainLength
<1>2. \A k \in 1 .. Len(q) : NextNodes(heap, head_list)[k - 1] = q[k]
  <2>1. PICK n \in Nat : n = Len(q) /\ n <= NodeCount /\ NodeCount \in Nat
    BY ChainLen
  <2>2. \A k \in 1 .. n : k - 1 \in 0 .. NodeCount /\ k - 1 < n /\ (k - 1) + 1 = k
    BY <2>1
  <2> QED BY <2>1, <2>2, ChainWalk
<1>3. Seen(heap, head_list, q)
  BY <1>1, <1>2, ChainTwoWays DEF Seen
<1>4. Elements = DataOf(heap, q)
  BY ChainElements DEF Elements, ll_length, NodeAt
<1>5. TwoWays
  BY <1>1, ChainTwoWays, ChainAllocated DEF TwoWays, ll_length, NodeAt, LastNode, Allocated
<1> QED BY <1>3, <1>4, <1>5

\* The state that it leaves.
LEMMA ListSeenNext ==
  ASSUME NEW q, Chain(heap', head_list', q)
  PROVE  Elements' = DataOf(heap', q) /\ TwoWays'
<1>1. LengthOf(heap', head_list') = Len(q)
  BY ChainLength
<1>4. Elements' = DataOf(heap', q)
  BY ChainElements DEF Elements, ll_length, NodeAt
<1>5. TwoWays'
  BY <1>1, ChainTwoWays, ChainAllocated DEF TwoWays, ll_length, NodeAt, LastNode, Allocated
<1> QED BY <1>4, <1>5

-----------------------------------------------------------------------------
(* SnakeList: the calls *)

\* A list without nodes.
LEMMA ListStarts ==
  ListInit => ListInv
<1> SUFFICES ASSUME ListInit PROVE ListInv
  OBVIOUS
<1> DEFINE q == <<>>
<1>1. q \in Seq(Nodes) /\ Len(q) = 0
  OBVIOUS
<1>2. DOMAIN heap = Nodes /\ \A m \in Nodes : heap[m] = Freed
  BY DEF ListInit
<1>3. \A i \in 1 .. Len(q) : FALSE
  BY <1>1
<1> HIDE DEF q
<1>4. Chain(heap, head_list, q)
  BY <1>1, <1>2, <1>3 DEF Chain, ListInit
<1> QED BY <1>2, <1>4 DEF ListInv

\* What a call finds: the nodes q and their contents.
Found(q, n) ==
  /\ n \in Nat /\ n = Len(q) /\ n <= NodeCount /\ NodeCount \in Nat
  /\ \A i \in 1 .. n : q[i] \in Nodes /\ q[i] # NULL
  /\ Seen(heap, head_list, q) /\ Chain(heap, head_list, q) /\ DOMAIN heap = Nodes
  /\ Elements = DataOf(heap, q) /\ Elements \in Seq(Data) /\ Len(Elements) = n
  /\ \A i \in 1 .. n : Elements[i] = heap[q[i]].data

\* It finds them in every state of the invariant.
LEMMA ListFound ==
  ASSUME ListInv
  PROVE  \E q : Found(q, Len(q))
<1>1. PICK q : Chain(heap, head_list, q)
  BY DEF ListInv
<1>2. /\ Len(q) \in Nat /\ Len(q) <= NodeCount /\ NodeCount \in Nat
      /\ \A i \in 1 .. Len(q) : q[i] \in Nodes /\ q[i] # NULL
  BY <1>1, ChainLen
<1>3. Seen(heap, head_list, q) /\ Elements = DataOf(heap, q)
  BY <1>1, ListSeen
<1>4. /\ DataOf(heap, q) \in Seq(Data) /\ Len(DataOf(heap, q)) = Len(q)
      /\ \A i \in 1 .. Len(q) : DataOf(heap, q)[i] = heap[q[i]].data
  BY <1>1, ChainElements
<1> QED BY <1>1, <1>2, <1>3, <1>4 DEF Found, ListInv

\* What a call leaves, when its nodes are a list.
LEMMA ListLeft ==
  ASSUME NEW q, Chain(heap', head_list', q), DOMAIN heap' = Nodes
  PROVE  /\ ListInv' /\ TwoWays'
         /\ Elements' \in Seq(Data) /\ Len(Elements') = Len(q)
         /\ \A i \in 1 .. Len(q) : Elements'[i] = heap'[q[i]].data
<1>1. Elements' = DataOf(heap', q) /\ TwoWays'
  BY ListSeenNext
<1>2. /\ DataOf(heap', q) \in Seq(Data) /\ Len(DataOf(heap', q)) = Len(q)
      /\ \A i \in 1 .. Len(q) : DataOf(heap', q)[i] = heap'[q[i]].data
  BY ChainElements
<1> QED BY <1>1, <1>2 DEF ListInv

\* When nothing changes, the elements stay as well.
LEMMA ListStays ==
  ASSUME ListInv, UNCHANGED <<heap, head_list>>
  PROVE  ListInv' /\ TwoWays' /\ Elements' = Elements
<1>1. PICK q : Chain(heap, head_list, q)
  BY DEF ListInv
<1>2. Chain(heap', head_list', q) /\ DOMAIN heap' = Nodes
  BY <1>1 DEF ListInv
<1>3. Elements = DataOf(heap, q) /\ Elements' = DataOf(heap', q)
  BY <1>1, <1>2, ListSeen, ListSeenNext
<1> QED BY <1>2, <1>3, ListLeft

\* The first and the last element of a sequence.
LEMMA Ends ==
  ASSUME NEW s \in Seq(Data)
  PROVE  /\ Result(s) = IF Len(s) = 0 THEN NULL ELSE s[Len(s)]
         /\ Result(Reverse(s)) = IF Len(s) = 0 THEN NULL ELSE s[1]
         /\ Len(Reverse(s)) = Len(s)
<1>1. PICK n \in Nat : n = Len(s) /\ s \in [1 .. n -> Data] /\ DOMAIN s = 1 .. n
  BY LenProperties
<1>2. \A t \in Seq(Data) : t = <<>> <=> Len(t) = 0
  BY EmptySeq
<1> DEFINE r == [i \in 1 .. n |-> s[(n - i) + 1]]
<1>3. r = Reverse(s) /\ r \in [1 .. n -> Data] /\ \A i \in 1 .. n : r[i] = s[(n - i) + 1]
  <2>1. \A i \in 1 .. n : (n - i) + 1 \in 1 .. n
    BY <1>1
  <2>2. \A i \in 1 .. n : s[(n - i) + 1] \in Data
    BY <1>1, <2>1
  <2> QED BY <1>1, <2>2 DEF Reverse
<1> HIDE DEF r
<1>4. r \in Seq(Data) /\ Len(r) = n
  <2>1. r \in Seq(Data)
    BY <1>3, SeqDef
  <2> QED BY <1>3, <2>1, LenProperties
<1>5. n # 0 => r[n] = s[1]
  <2> SUFFICES ASSUME n # 0 PROVE r[n] = s[1]
    OBVIOUS
  <2>1. n \in 1 .. n /\ (n - n) + 1 = 1
    BY <1>1
  <2> QED BY <1>3, <2>1
<1> QED BY <1>1, <1>2, <1>3, <1>4, <1>5 DEF Result

\* The contents of the first and of the last node.
LEMMA GetEnds ==
  ASSUME NEW q, Found(q, Len(q))
  PROVE  ll_get_first = Result(Reverse(Elements)) /\ ll_get_last = Result(Elements)
<1>1. ll_get_first = Result(Reverse(Elements))
  <2>1. ll_get_first = IF Len(q) = 0 THEN NULL ELSE heap[q[1]].data
    BY DEF Found, Seen, Chain, ll_get_first
  <2>2. Result(Reverse(Elements)) = IF Len(q) = 0 THEN NULL ELSE Elements[1]
    BY Ends DEF Found
  <2>3. Len(q) # 0 => Elements[1] = heap[q[1]].data
    BY DEF Found
  <2> QED BY <2>1, <2>2, <2>3
<1>2. ll_get_last = Result(Elements)
  <2>1. ll_get_last = IF Len(q) = 0 THEN NULL ELSE heap[q[Len(q)]].data
    BY DEF Found, Seen, ll_get_last, LastNode, NodeAt, ll_length
  <2>2. Result(Elements) = IF Len(q) = 0 THEN NULL ELSE Elements[Len(q)]
    BY Ends DEF Found
  <2>3. Len(q) # 0 => Elements[Len(q)] = heap[q[Len(q)]].data
    BY DEF Found
  <2> QED BY <2>1, <2>2, <2>3
<1> QED BY <1>1, <1>2

\* The calls that only look return what the sequence has.
LEMMA LooksStep ==
  ASSUME ListInv, Looks
  PROVE  SequenceStep /\ ListInv' /\ TwoWays'
<1>1. PICK q : Found(q, Len(q))
  BY ListFound
<1> DEFINE n == Len(q)
<1>2. ListInv' /\ TwoWays' /\ Elements' = Elements
  BY ListStays DEF Looks
<1>3. PICK i \in -1 .. NodeCount :
        last' \in {<<"length", NULL, ll_length>>, <<"first", NULL, ll_get_first>>,
                   <<"last", NULL, ll_get_last>>, <<"get", i, ll_get(i)>>}
  BY DEF Looks
<1>4. ll_length = n
  BY <1>1 DEF Found, Seen, ll_length
<1>5. ll_get_first = Result(Reverse(Elements)) /\ ll_get_last = Result(Elements)
  BY <1>1, GetEnds
<1>7. ll_get(i) = IF i + 1 \in 1 .. n THEN Elements[i + 1] ELSE NULL
  <2>1. i \in Int /\ n \in Nat /\ NodeCount \in Nat /\ n <= NodeCount
    BY <1>1 DEF Found
  <2>2. CASE i + 1 \in 1 .. n
    <3>1. ~(i < 0 \/ i >= n) /\ (i + 1) - 1 = i
      BY <2>1, <2>2
    <3>2. NextNodes(heap, head_list)[(i + 1) - 1] = q[i + 1]
      BY <1>1, <2>2 DEF Found, Seen
    <3>3. Elements[i + 1] = heap[q[i + 1]].data
      BY <1>1, <2>2 DEF Found
    <3>4. ll_get(i) = heap[NextNodes(heap, head_list)[i]].data
      BY <1>4, <3>1 DEF ll_get, NodeAt
    <3> QED BY <2>2, <3>1, <3>2, <3>3, <3>4
  <2>3. CASE i + 1 \notin 1 .. n
    <3>1. i < 0 \/ i >= n
      BY <2>1, <2>3
    <3> QED BY <1>4, <2>3, <3>1 DEF ll_get
  <2> QED BY <2>2, <2>3
<1>8. Len(Elements) = n
  BY <1>1 DEF Found
<1> HIDE DEF n
<1>9. CASE last' = <<"length", NULL, ll_length>>
  BY <1>2, <1>4, <1>8, <1>9 DEF SequenceStep
<1>10. CASE last' = <<"first", NULL, ll_get_first>>
  BY <1>2, <1>5, <1>10 DEF SequenceStep
<1>11. CASE last' = <<"last", NULL, ll_get_last>>
  BY <1>2, <1>5, <1>11 DEF SequenceStep
<1>12. CASE last' = <<"get", i, ll_get(i)>>
  BY <1>2, <1>7, <1>8, <1>12 DEF SequenceStep
<1> QED BY <1>3, <1>9, <1>10, <1>11, <1>12

\* The nodes of a list, given place by place.
Places(h, hd, p, n) ==
  /\ n \in Nat /\ p \in [1 .. n -> Nodes]
  /\ \A i, j \in 1 .. n : p[i] = p[j] => i = j
  /\ hd = IF n = 0 THEN NULL ELSE p[1]
  /\ \A i \in 1 .. n :
       /\ h[p[i]] = [data |-> h[p[i]].data, next |-> h[p[i]].next, prev |-> h[p[i]].prev]
       /\ h[p[i]].data \in Data
       /\ h[p[i]].next = IF i = n THEN NULL ELSE p[i + 1]
       /\ h[p[i]].prev = IF i = 1 THEN NULL ELSE p[i - 1]
  /\ \A m \in Nodes : (\A i \in 1 .. n : p[i] # m) => h[m] = Freed

\* They make a list.
LEMMA ChainFrom ==
  ASSUME NEW h, NEW hd, NEW n, NEW p, Places(h, hd, p, n)
  PROVE  Chain(h, hd, p) /\ Len(p) = n
<1>1. n \in Nat /\ p \in [1 .. n -> Nodes]
  BY DEF Places
<1>2. p \in Seq(Nodes)
  BY <1>1, SeqDef
<1>3. DOMAIN p = 1 .. n /\ DOMAIN p = 1 .. Len(p) /\ Len(p) \in Nat
  BY <1>1, <1>2, LenProperties
<1>4. Len(p) = n
  BY <1>1, <1>3
<1> QED BY <1>2, <1>4 DEF Places, Chain

\* A sequence with one more element before it.
LEMMA FrontOfSeq ==
  ASSUME NEW s \in Seq(Data), NEW n \in Nat, n = Len(s), NEW d \in Data,
         NEW t \in Seq(Data), Len(t) = n + 1, t[1] = d, \A i \in 1 .. n : t[i + 1] = s[i]
  PROVE  t = <<d>> \o s
<1> DEFINE one == <<d>>
<1>1. one \in Seq(Data) /\ Len(one) = 1 /\ one[1] = d
  OBVIOUS
<1> HIDE DEF one
<1> DEFINE u == one \o s
<1>2. u \in Seq(Data) /\ Len(u) = 1 + n
      /\ \A i \in 1 .. 1 + n : u[i] = IF i <= 1 THEN one[i] ELSE s[i - 1]
  <2>1. /\ u \in Seq(Data) /\ Len(u) = Len(one) + Len(s)
        /\ \A i \in 1 .. Len(one) + Len(s) :
             u[i] = IF i <= Len(one) THEN one[i] ELSE s[i - Len(one)]
    BY <1>1, ConcatProperties
  <2> HIDE DEF u
  <2> QED BY <1>1, <2>1
<1> HIDE DEF u
<1>3. ASSUME NEW i \in 1 .. n + 1 PROVE t[i] = u[i]
  <2>1. CASE i = 1
    <3>1. u[1] = one[1]
      BY <1>2
    <3> QED BY <1>1, <2>1, <3>1
  <2>2. CASE i # 1
    <3>1. PICK j \in 1 .. n : i = j + 1 /\ j = i - 1 /\ ~(i <= 1)
      <4>1. i - 1 \in 1 .. n /\ i = (i - 1) + 1 /\ ~(i <= 1)
        BY <2>2
      <4> QED BY <4>1
    <3>2. u[i] = s[j]
      BY <1>2, <3>1
    <3> QED BY <3>1, <3>2
  <2> QED BY <2>1, <2>2
<1>4. Len(u) = n + 1
  BY <1>2
<1>5. t = u
  BY <1>2, <1>3, <1>4, SeqEqual
<1> QED BY <1>5 DEF u, one

\* The cells of the list that a call finds.
CellsFound(q, n) ==
  /\ Places(heap, head_list, q, n)
  /\ \A m \in Nodes \ Allocated : \A i \in 1 .. n : q[i] # m
  /\ \A m \in Nodes : m # NULL

\* They are those of the nodes that it finds.
LEMMA FoundCells ==
  ASSUME NEW q, NEW n, Found(q, n)
  PROVE  CellsFound(q, n)
<1>1. \A i \in 1 .. n : heap[q[i]] # Freed
  <2>1. Chain(heap, head_list, q) /\ n = Len(q)
    BY DEF Found
  <2>2. \A i \in 1 .. Len(q) : heap[q[i]] # Freed
    BY <2>1, ChainAllocated
  <2> QED BY <2>1, <2>2
<1>2. \A m \in Nodes : m # NULL
  BY NodeAssumption DEF Nodes, NULL
<1>3. n \in Nat /\ n = Len(q) /\ q \in [1 .. n -> Nodes]
  BY LenProperties DEF Found, Chain
<1>4. Places(heap, head_list, q, n)
  BY <1>3 DEF Found, Chain, Places
<1> QED BY <1>1, <1>2, <1>4 DEF CellsFound, Allocated

\* A new node before the first, or nothing when malloc fails.
LEMMA InsertFirstStep ==
  ASSUME ListInv, NEW d \in Data, ll_insert_first(d)
  PROVE  SequenceStep /\ ListInv' /\ TwoWays'
<1>1. PICK q : Found(q, Len(q))
  BY ListFound
<1>2. PICK n \in Nat : n = Len(q) /\ n <= NodeCount /\ NodeCount \in Nat
  BY <1>1 DEF Found
<1>3. last' = <<"insert_first", d, NULL>>
  BY DEF ll_insert_first
<1>4. CASE Allocated = Nodes /\ UNCHANGED <<heap, head_list>>
  <2>1. ListInv' /\ TwoWays' /\ Elements' = Elements
    BY <1>4, ListStays
  <2>2. Cardinality(Allocated) = n
    BY <1>1, <1>2, ChainAllocated DEF Found, Allocated
  <2>3. Cardinality(Nodes) = NodeCount
    BY <1>2, FS_Interval DEF Nodes
  <2>4. Len(Elements) = NodeCount
    BY <1>1, <1>2, <1>4, <2>2, <2>3 DEF Found
  <2> QED BY <1>3, <2>1, <2>4 DEF SequenceStep
<1>5. ASSUME NEW x \in Nodes \ Allocated, head_list' = x,
             heap' = [m \in Nodes |->
                        CASE m = x         -> [data |-> d, next |-> head_list, prev |-> NULL]
                          [] m = head_list -> [heap[m] EXCEPT !.prev = x]
                          [] OTHER         -> heap[m]]
      PROVE  SequenceStep /\ ListInv' /\ TwoWays'
  <2>1. CellsFound(q, n) /\ \A i \in 1 .. n : q[i] \in Nodes
    BY <1>1, <1>2, FoundCells DEF Found
  <2>2. \A i \in 1 .. n : q[i] # x /\ q[i] # NULL
    BY <2>1 DEF CellsFound, Places
  <2>3. x \in Nodes /\ x # NULL /\ x # head_list
    <3>1. n # 0 => 1 \in 1 .. n
      BY <1>2
    <3> QED BY <2>1, <2>2, <3>1 DEF CellsFound, Places
  <2>4. heap'[x] = [data |-> d, next |-> head_list, prev |-> NULL] /\ DOMAIN heap' = Nodes
    BY <1>5, <2>3
  <2>5. \A m \in Nodes : m # x /\ m # head_list => heap'[m] = heap[m]
    BY <1>5
  <2>6. n # 0 => /\ 1 \in 1 .. n /\ head_list = q[1]
                 /\ heap'[q[1]] = [heap[q[1]] EXCEPT !.prev = x]
    <3> SUFFICES ASSUME n # 0 PROVE /\ 1 \in 1 .. n /\ head_list = q[1]
                                    /\ heap'[q[1]] = [heap[q[1]] EXCEPT !.prev = x]
      OBVIOUS
    <3>1. 1 \in 1 .. n /\ head_list = q[1]
      BY <1>2, <2>1 DEF CellsFound, Places
    <3>2. q[1] \in Nodes /\ q[1] # x
      BY <2>1, <2>2, <3>1
    <3> QED BY <1>5, <3>1, <3>2
  <2>7. ASSUME NEW i \in 1 .. n, i # 1 PROVE heap'[q[i]] = heap[q[i]]
    <3>1. n # 0
      BY <2>7
    <3>2. q[i] # q[1]
      BY <2>1, <2>6, <2>7, <3>1 DEF CellsFound, Places
    <3> QED BY <2>1, <2>2, <2>5, <2>6, <3>1, <3>2
  <2> DEFINE p == [i \in 1 .. n + 1 |-> IF i = 1 THEN x ELSE q[i - 1]]
  <2>8. p \in [1 .. n + 1 -> Nodes] /\ p[1] = x /\ \A i \in 1 .. n : p[i + 1] = q[i]
    <3>1. \A i \in 1 .. n + 1 : i # 1 => i - 1 \in 1 .. n
      OBVIOUS
    <3>2. 1 \in 1 .. n + 1 /\ \A i \in 1 .. n : i + 1 \in 1 .. n + 1 /\ i + 1 # 1 /\ (i + 1) - 1 = i
      OBVIOUS
    <3> QED BY <2>1, <2>3, <3>1, <3>2
  <2> HIDE DEF p
  <2>9. ASSUME NEW i \in 1 .. n + 1, i # 1
        PROVE  \E j \in 1 .. n : i = j + 1 /\ i - 1 = j /\ p[i] = q[j] /\ (i = n + 1 <=> j = n)
    <3>1. i - 1 \in 1 .. n /\ i = (i - 1) + 1 /\ (i = n + 1 <=> i - 1 = n)
      BY <2>9
    <3> QED BY <2>8, <3>1
  <2>10. ASSUME NEW i \in 1 .. n + 1, NEW j \in 1 .. n + 1, p[i] = p[j] PROVE i = j
    <3>1. CASE i = 1 /\ j = 1
      BY <3>1
    <3>2. CASE i = 1 /\ j # 1
      BY <2>2, <2>8, <2>9, <2>10, <3>2
    <3>3. CASE i # 1 /\ j = 1
      BY <2>2, <2>8, <2>9, <2>10, <3>3
    <3>4. CASE i # 1 /\ j # 1
      BY <2>1, <2>9, <2>10, <3>4 DEF CellsFound, Places
    <3> QED BY <3>1, <3>2, <3>3, <3>4
  <2>11. ASSUME NEW i \in 1 .. n + 1
         PROVE  /\ heap'[p[i]] = [data |-> heap'[p[i]].data, next |-> heap'[p[i]].next,
                                  prev |-> heap'[p[i]].prev]
                /\ heap'[p[i]].data \in Data
                /\ heap'[p[i]].next = IF i = n + 1 THEN NULL ELSE p[i + 1]
                /\ heap'[p[i]].prev = IF i = 1 THEN NULL ELSE p[i - 1]
    <3>1. CASE i = 1
      <4>1. head_list = IF n = 0 THEN NULL ELSE p[1 + 1]
        BY <2>1, <2>6, <2>8 DEF CellsFound, Places
      <4>2. 1 = n + 1 <=> n = 0
        OBVIOUS
      <4> QED BY <2>4, <2>8, <3>1, <4>1, <4>2
    <3>2. CASE i # 1
      <4>1. PICK j \in 1 .. n : i = j + 1 /\ i - 1 = j /\ p[i] = q[j] /\ (i = n + 1 <=> j = n)
        BY <2>9, <3>2
      <4>2. /\ heap[q[j]] = [data |-> heap[q[j]].data, next |-> heap[q[j]].next,
                             prev |-> heap[q[j]].prev]
            /\ heap[q[j]].data \in Data
            /\ heap[q[j]].next = IF j = n THEN NULL ELSE q[j + 1]
            /\ heap[q[j]].prev = IF j = 1 THEN NULL ELSE q[j - 1]
        BY <2>1 DEF CellsFound, Places
      <4>3. j # n => p[i + 1] = q[j + 1]
        <5>1. j # n => j + 1 \in 1 .. n
          OBVIOUS
        <5> QED BY <2>8, <4>1, <5>1
      <4>4. j # 1 => p[i - 1] = q[j - 1]
        <5>1. j # 1 => j - 1 \in 1 .. n /\ (j - 1) + 1 = j
          OBVIOUS
        <5> QED BY <2>8, <4>1, <5>1
      <4>5. CASE j = 1
        <5>1. p[i - 1] = x /\ n # 0
          BY <2>8, <4>1, <4>5
        <5> QED BY <2>6, <3>2, <4>1, <4>2, <4>3, <4>5, <5>1
      <4>6. CASE j # 1
        BY <2>7, <3>2, <4>1, <4>2, <4>3, <4>4, <4>6
      <4> QED BY <4>5, <4>6
    <3> QED BY <3>1, <3>2
  <2>12. ASSUME NEW m \in Nodes, \A i \in 1 .. n + 1 : p[i] # m PROVE heap'[m] = Freed
    <3>1. m # x
      <4>1. 1 \in 1 .. n + 1
        OBVIOUS
      <4> QED BY <2>8, <2>12, <4>1
    <3>2. \A i \in 1 .. n : q[i] # m
      <4>1. \A i \in 1 .. n : i + 1 \in 1 .. n + 1
        OBVIOUS
      <4> QED BY <2>8, <2>12, <4>1
    <3>3. heap[m] = Freed /\ m # head_list
      BY <2>1, <2>6, <3>2 DEF CellsFound, Places
    <3> QED BY <2>5, <3>1, <3>3
  <2>13. Chain(heap', head_list', p) /\ Len(p) = n + 1
    <3>1. n + 1 \in Nat /\ n + 1 # 0
      OBVIOUS
    <3>2. head_list' = IF n + 1 = 0 THEN NULL ELSE p[1]
      BY <1>5, <2>8, <3>1
    <3>3. Places(heap', head_list', p, n + 1)
      BY <2>8, <2>10, <2>11, <2>12, <3>1, <3>2 DEF Places
    <3> QED BY <3>3, ChainFrom
  <2>14. /\ ListInv' /\ TwoWays' /\ Elements' \in Seq(Data) /\ Len(Elements') = n + 1
         /\ \A i \in 1 .. n + 1 : Elements'[i] = heap'[p[i]].data
    BY <2>4, <2>13, ListLeft
  <2>15. Elements'[1] = d
    <3>1. 1 \in 1 .. n + 1
      OBVIOUS
    <3> QED BY <2>4, <2>8, <2>14, <3>1
  <2>16. ASSUME NEW i \in 1 .. n PROVE Elements'[i + 1] = Elements[i]
    <3>1. i + 1 \in 1 .. n + 1
      OBVIOUS
    <3>2. Elements'[i + 1] = heap'[q[i]].data /\ Elements[i] = heap[q[i]].data
      BY <1>1, <1>2, <2>8, <2>14, <3>1 DEF Found
    <3>3. CASE i = 1
      <4>1. heap[q[1]] = [data |-> heap[q[1]].data, next |-> heap[q[1]].next, prev |-> heap[q[1]].prev]
        BY <2>1, <3>3 DEF CellsFound, Places
      <4>2. n # 0
        OBVIOUS
      <4> QED BY <2>6, <3>2, <3>3, <4>1, <4>2
    <3>4. CASE i # 1
      BY <2>7, <3>2, <3>4
    <3> QED BY <3>3, <3>4
  <2>17. Elements' = <<d>> \o Elements
    <3>1. Elements \in Seq(Data) /\ Len(Elements) = n
      BY <1>1, <1>2 DEF Found
    <3> QED BY <2>14, <2>15, <2>16, <3>1, FrontOfSeq
  <2> QED BY <1>3, <2>14, <2>17 DEF SequenceStep
<1> QED BY <1>4, <1>5 DEF ll_insert_first

\* A new node after the last.
LEMMA InsertLastStep ==
  ASSUME ListInv, NEW d \in Data, ll_insert_last(d)
  PROVE  SequenceStep /\ ListInv' /\ TwoWays'
<1>1. PICK q : Found(q, Len(q))
  BY ListFound
<1>2. PICK n \in Nat : n = Len(q) /\ n <= NodeCount /\ NodeCount \in Nat
  BY <1>1 DEF Found
<1>3. last' = <<"insert_last", d, NULL>>
  BY DEF ll_insert_last
<1>4. CellsFound(q, n) /\ (\A i \in 1 .. n : q[i] \in Nodes) /\ DOMAIN heap = Nodes
  BY <1>1, <1>2, FoundCells DEF Found
<1>5. (head_list = NULL <=> n = 0) /\ (n # 0 => LastNode = q[n] /\ n \in 1 .. n)
  BY <1>1, <1>2 DEF Found, Seen, LastNode, NodeAt, ll_length
<1>6. PICK x \in Nodes \ Allocated :
        IF head_list = NULL
        THEN /\ heap' = [heap EXCEPT ![x] = [data |-> d, next |-> NULL, prev |-> NULL]]
             /\ head_list' = x
        ELSE /\ heap' = [heap EXCEPT ![x] = [data |-> d, next |-> NULL, prev |-> LastNode],
                                     ![LastNode].next = x]
             /\ UNCHANGED head_list
  BY DEF ll_insert_last
<1>7. x \in Nodes /\ \A i \in 1 .. n : q[i] # x /\ q[i] # NULL
  BY <1>4, <1>6 DEF CellsFound
<1>8. heap'[x] = [data |-> d, next |-> NULL, prev |-> IF n = 0 THEN NULL ELSE q[n]]
  BY <1>4, <1>5, <1>6, <1>7
<1>9. \A m \in Nodes : m # x /\ (n # 0 => m # q[n]) => heap'[m] = heap[m]
  BY <1>4, <1>5, <1>6
<1>10. DOMAIN heap' = Nodes
  BY <1>4, <1>6
<1>11. n # 0 => heap'[q[n]] = [heap[q[n]] EXCEPT !.next = x]
  <2> SUFFICES ASSUME n # 0 PROVE heap'[q[n]] = [heap[q[n]] EXCEPT !.next = x]
    OBVIOUS
  <2>1. q[n] \in Nodes /\ q[n] # x /\ LastNode = q[n] /\ head_list # NULL
    BY <1>4, <1>5, <1>7
  <2>2. heap' = [heap EXCEPT ![x] = [data |-> d, next |-> NULL, prev |-> LastNode],
                             ![LastNode].next = x]
    BY <1>6, <2>1
  <2> QED BY <1>4, <1>7, <2>1, <2>2
<1>12. ASSUME NEW i \in 1 .. n, i # n PROVE heap'[q[i]] = heap[q[i]]
  <2>1. n # 0
    OBVIOUS
  <2>2. q[i] # q[n]
    BY <1>4, <1>5, <1>12, <2>1 DEF CellsFound, Places
  <2> QED BY <1>4, <1>7, <1>9, <2>1, <2>2
<1> DEFINE p == [i \in 1 .. n + 1 |-> IF i = n + 1 THEN x ELSE q[i]]
<1>13. p \in [1 .. n + 1 -> Nodes] /\ p[n + 1] = x /\ \A i \in 1 .. n : p[i] = q[i]
  <2>1. \A i \in 1 .. n + 1 : i # n + 1 => i \in 1 .. n
    OBVIOUS
  <2>2. n + 1 \in 1 .. n + 1 /\ \A i \in 1 .. n : i \in 1 .. n + 1 /\ i # n + 1
    OBVIOUS
  <2> QED BY <1>4, <1>7, <2>1, <2>2
<1> HIDE DEF p
<1>14. ASSUME NEW i \in 1 .. n + 1, i # n + 1 PROVE i \in 1 .. n /\ p[i] = q[i]
  <2>1. i \in 1 .. n
    BY <1>14
  <2> QED BY <1>13, <2>1
<1>15. ASSUME NEW i \in 1 .. n + 1, NEW j \in 1 .. n + 1, p[i] = p[j] PROVE i = j
  <2>1. CASE i = n + 1 /\ j = n + 1
    BY <2>1
  <2>2. CASE i = n + 1 /\ j # n + 1
    BY <1>7, <1>13, <1>14, <1>15, <2>2
  <2>3. CASE i # n + 1 /\ j = n + 1
    BY <1>7, <1>13, <1>14, <1>15, <2>3
  <2>4. CASE i # n + 1 /\ j # n + 1
    BY <1>4, <1>14, <1>15, <2>4 DEF CellsFound, Places
  <2> QED BY <2>1, <2>2, <2>3, <2>4
<1>16. ASSUME NEW i \in 1 .. n + 1
       PROVE  /\ heap'[p[i]] = [data |-> heap'[p[i]].data, next |-> heap'[p[i]].next,
                                prev |-> heap'[p[i]].prev]
              /\ heap'[p[i]].data \in Data
              /\ heap'[p[i]].next = IF i = n + 1 THEN NULL ELSE p[i + 1]
              /\ heap'[p[i]].prev = IF i = 1 THEN NULL ELSE p[i - 1]
  <2>1. CASE i = n + 1
    <3>1. n # 0 => p[i - 1] = q[n]
      <4>1. n # 0 => i - 1 = n /\ n \in 1 .. n
        BY <2>1
      <4> QED BY <1>13, <4>1
    <3>2. i = 1 <=> n = 0
      BY <2>1
    <3> QED BY <1>8, <1>13, <2>1, <3>1, <3>2
  <2>2. CASE i # n + 1
    <3>1. i \in 1 .. n /\ p[i] = q[i]
      BY <1>14, <2>2
    <3>2. /\ heap[q[i]] = [data |-> heap[q[i]].data, next |-> heap[q[i]].next, prev |-> heap[q[i]].prev]
          /\ heap[q[i]].data \in Data
          /\ heap[q[i]].next = IF i = n THEN NULL ELSE q[i + 1]
          /\ heap[q[i]].prev = IF i = 1 THEN NULL ELSE q[i - 1]
      BY <1>4, <3>1 DEF CellsFound, Places
    <3>3. i # n => p[i + 1] = q[i + 1]
      <4>1. i # n => i + 1 \in 1 .. n
        BY <3>1
      <4> QED BY <1>13, <4>1
    <3>4. i # 1 => p[i - 1] = q[i - 1]
      <4>1. i # 1 => i - 1 \in 1 .. n
        BY <3>1
      <4> QED BY <1>13, <4>1
    <3>5. CASE i = n
      <4>1. p[i + 1] = x /\ n # 0
        BY <1>13, <3>1, <3>5
      <4> QED BY <1>11, <2>2, <3>1, <3>2, <3>4, <3>5, <4>1
    <3>6. CASE i # n
      BY <1>12, <2>2, <3>1, <3>2, <3>3, <3>4, <3>6
    <3> QED BY <3>5, <3>6
  <2> QED BY <2>1, <2>2
<1>17. ASSUME NEW m \in Nodes, \A i \in 1 .. n + 1 : p[i] # m PROVE heap'[m] = Freed
  <2>1. m # x
    <3>1. n + 1 \in 1 .. n + 1
      OBVIOUS
    <3> QED BY <1>13, <1>17, <3>1
  <2>2. \A i \in 1 .. n : q[i] # m
    <3>1. \A i \in 1 .. n : i \in 1 .. n + 1
      OBVIOUS
    <3> QED BY <1>13, <1>17, <3>1
  <2>3. heap[m] = Freed /\ (n # 0 => m # q[n])
    BY <1>4, <1>5, <2>2 DEF CellsFound, Places
  <2> QED BY <1>9, <2>1, <2>3
<1>18. Chain(heap', head_list', p) /\ Len(p) = n + 1
  <2>1. n + 1 \in Nat /\ n + 1 # 0 /\ (n = 0 => n + 1 = 1) /\ (n # 0 => 1 \in 1 .. n)
    OBVIOUS
  <2>2. head_list' = p[1]
    <3>1. CASE n = 0
      BY <1>5, <1>6, <1>13, <2>1, <3>1
    <3>2. CASE n # 0
      BY <1>4, <1>5, <1>6, <1>13, <2>1, <3>2 DEF CellsFound, Places
    <3> QED BY <3>1, <3>2
  <2>3. head_list' = IF n + 1 = 0 THEN NULL ELSE p[1]
    BY <2>1, <2>2
  <2>4. Places(heap', head_list', p, n + 1)
    BY <1>13, <1>15, <1>16, <1>17, <2>1, <2>3 DEF Places
  <2> QED BY <2>4, ChainFrom
<1>19. /\ ListInv' /\ TwoWays' /\ Elements' \in Seq(Data) /\ Len(Elements') = n + 1
       /\ \A i \in 1 .. n + 1 : Elements'[i] = heap'[p[i]].data
  BY <1>10, <1>18, ListLeft
<1>20. Elements'[n + 1] = d
  <2>1. n + 1 \in 1 .. n + 1
    OBVIOUS
  <2> QED BY <1>8, <1>13, <1>19, <2>1
<1>21. ASSUME NEW i \in 1 .. n PROVE Elements'[i] = Elements[i]
  <2>1. i \in 1 .. n + 1
    OBVIOUS
  <2>2. Elements'[i] = heap'[q[i]].data /\ Elements[i] = heap[q[i]].data
    BY <1>1, <1>2, <1>13, <1>19, <2>1 DEF Found
  <2>3. CASE i = n
    <3>1. heap[q[n]] = [data |-> heap[q[n]].data, next |-> heap[q[n]].next, prev |-> heap[q[n]].prev]
      BY <1>4, <2>3 DEF CellsFound, Places
    <3>2. n # 0
      OBVIOUS
    <3> QED BY <1>11, <2>2, <2>3, <3>1, <3>2
  <2>4. CASE i # n
    BY <1>12, <2>2, <2>4
  <2> QED BY <2>3, <2>4
<1>22. Elements' = Append(Elements, d)
  <2>1. Elements \in Seq(Data) /\ Len(Elements) = n
    BY <1>1, <1>2 DEF Found
  <2> DEFINE u == Append(Elements, d)
  <2>2. u \in Seq(Data) /\ Len(u) = n + 1 /\ u[n + 1] = d /\ \A i \in 1 .. n : u[i] = Elements[i]
    BY <2>1, AppendProperties
  <2> HIDE DEF u
  <2>3. ASSUME NEW i \in 1 .. n + 1 PROVE Elements'[i] = u[i]
    BY <1>20, <1>21, <2>2
  <2>4. Elements' = u
    BY <1>19, <2>2, <2>3, SeqEqual
  <2> QED BY <2>4 DEF u
<1> QED BY <1>3, <1>19, <1>22 DEF SequenceStep

-----------------------------------------------------------------------------
(* SnakeList: removal *)

\* The place that the ith element had before the kth went.
At(k, i) == IF i < k THEN i ELSE i + 1

\* The beginning and the end of a sequence.
LEMMA ListPartsOfSeq ==
  ASSUME NEW S, NEW v \in Seq(S), NEW n \in Nat, n = Len(v), NEW m \in 0 .. n
  PROVE  /\ SubSeq(v, 1, m) \in Seq(S) /\ Len(SubSeq(v, 1, m)) = m
         /\ \A j \in 1 .. m : SubSeq(v, 1, m)[j] = v[j]
         /\ SubSeq(v, m + 1, n) \in Seq(S) /\ Len(SubSeq(v, m + 1, n)) = n - m
         /\ \A j \in 1 .. n - m : SubSeq(v, m + 1, n)[j] = v[m + j]
<1>1. \A j \in 1 .. n : v[j] \in S
  BY ElementOfSeq
<1>2. /\ SubSeq(v, 1, m) \in Seq(S) /\ Len(SubSeq(v, 1, m)) = m
      /\ \A j \in 1 .. m : SubSeq(v, 1, m)[j] = v[j]
  <2> DEFINE head == SubSeq(v, 1, m)
  <2>1. 1 \in Int /\ m \in Int /\ \A j \in 1 .. m : v[j] \in S
    BY <1>1
  <2>2. /\ head \in Seq(S) /\ Len(head) = (IF 1 <= m THEN m - 1 + 1 ELSE 0)
        /\ \A j \in 1 .. m - 1 + 1 : head[j] = v[1 + j - 1]
    BY <2>1, SubSeqProperties
  <2> HIDE DEF head
  <2>3. Len(head) = m
    BY <2>1, <2>2
  <2>4. ASSUME NEW j \in 1 .. m PROVE head[j] = v[j]
    <3>1. j \in 1 .. m - 1 + 1 /\ 1 + j - 1 = j
      BY <2>1
    <3> QED BY <3>1, <2>2
  <2> QED BY <2>2, <2>3, <2>4 DEF head
<1>3. /\ SubSeq(v, m + 1, n) \in Seq(S) /\ Len(SubSeq(v, m + 1, n)) = n - m
      /\ \A j \in 1 .. n - m : SubSeq(v, m + 1, n)[j] = v[m + j]
  <2> DEFINE k == m + 1  tail == SubSeq(v, k, n)
  <2>1. k \in Int /\ n \in Int /\ \A j \in k .. n : v[j] \in S
    BY <1>1
  <2>4. m \in Int /\ k = m + 1 /\ m <= n
    OBVIOUS
  <2> HIDE DEF k
  <2>2. /\ tail \in Seq(S) /\ Len(tail) = (IF k <= n THEN n - k + 1 ELSE 0)
        /\ \A j \in 1 .. n - k + 1 : tail[j] = v[k + j - 1]
    BY <2>1, SubSeqProperties
  <2> HIDE DEF tail
  <2>3. Len(tail) = n - m
    BY <2>1, <2>2, <2>4
  <2>5. ASSUME NEW j \in 1 .. n - m PROVE tail[j] = v[m + j]
    <3>1. j \in 1 .. n - k + 1 /\ k + j - 1 = m + j
      BY <2>1, <2>4
    <3> QED BY <3>1, <2>2
  <2> QED BY <2>2, <2>3, <2>5 DEF tail, k
<1> QED BY <1>2, <1>3

\* A sequence of n elements without its kth.
OneLess(s, n, k, t) ==
  /\ s \in Seq(Data) /\ n \in Nat /\ Len(s) = n /\ k \in 1 .. n
  /\ t \in Seq(Data) /\ Len(t) = n - 1
  /\ \A i \in 1 .. n - 1 : t[i] = s[At(k, i)]

\* It is what RemoveAt makes, Tail for the first and Front for the last.
LEMMA WithoutOne ==
  ASSUME NEW s, NEW n, NEW k, NEW t, OneLess(s, n, k, t)
  PROVE  /\ t = RemoveAt(s, k) /\ t # s
         /\ k = 1 => t = Tail(s)
         /\ k = n => t = Front(s)
<1>0. /\ s \in Seq(Data) /\ n \in Nat /\ n = Len(s) /\ k \in 1 .. n
      /\ t \in Seq(Data) /\ Len(t) = n - 1
      /\ \A i \in 1 .. n - 1 : t[i] = s[At(k, i)]
  BY DEF OneLess
<1>1. k \in Nat /\ k - 1 \in 0 .. n /\ k \in 0 .. n /\ n # 0 /\ n - 1 \in Nat
  BY <1>0
<1>2. PICK b : /\ b = SubSeq(s, 1, k - 1) /\ b \in Seq(Data) /\ Len(b) = k - 1
               /\ \A j \in 1 .. k - 1 : b[j] = s[j]
  <2> DEFINE m == k - 1
  <2>1. m \in 0 .. n
    BY <1>0, <1>1
  <2> HIDE DEF m
  <2>2. /\ SubSeq(s, 1, m) \in Seq(Data) /\ Len(SubSeq(s, 1, m)) = m
        /\ \A j \in 1 .. m : SubSeq(s, 1, m)[j] = s[j]
    BY <1>0, <2>1, ListPartsOfSeq
  <2> QED BY <1>0, <2>2 DEF m
<1>3. PICK e : /\ e = SubSeq(s, k + 1, n) /\ e \in Seq(Data) /\ Len(e) = n - k
               /\ \A j \in 1 .. n - k : e[j] = s[k + j]
  <2>1. /\ SubSeq(s, k + 1, n) \in Seq(Data) /\ Len(SubSeq(s, k + 1, n)) = n - k
        /\ \A j \in 1 .. n - k : SubSeq(s, k + 1, n)[j] = s[k + j]
    BY <1>0, <1>1, ListPartsOfSeq
  <2> QED BY <1>0, <2>1
<1>4. t = b \o e
  <2> DEFINE u == b \o e
  <2>1. /\ u \in Seq(Data) /\ Len(u) = Len(b) + Len(e)
        /\ \A i \in 1 .. Len(b) + Len(e) : u[i] = IF i <= Len(b) THEN b[i] ELSE e[i - Len(b)]
    <3>1. b \in Seq(Data) /\ e \in Seq(Data)
      BY <1>0, <1>2, <1>3
    <3> QED BY <1>0, <3>1, ConcatProperties
  <2> HIDE DEF u
  <2>2. Len(b) + Len(e) = n - 1
    <3>1. Len(b) = k - 1 /\ Len(e) = n - k
      BY <1>0, <1>2, <1>3
    <3> QED BY <1>0, <1>1, <3>1
  <2>3. ASSUME NEW i \in 1 .. n - 1 PROVE t[i] = u[i]
    <3>1. u[i] = IF i <= Len(b) THEN b[i] ELSE e[i - Len(b)]
      BY <1>0, <2>1, <2>2
    <3>2. CASE i < k
      <4>1. i <= k - 1 /\ i \in 1 .. k - 1
        BY <1>0, <3>2
      <4>2. u[i] = s[i]
        BY <1>0, <1>2, <3>1, <4>1
      <4>3. At(k, i) = i
        BY <1>0, <3>2 DEF At
      <4> QED BY <1>0, <4>2, <4>3
    <3>3. CASE ~(i < k)
      <4>1. PICK j \in 1 .. n - k : j = i - (k - 1) /\ k + j = i + 1 /\ ~(i <= k - 1)
        <5>1. /\ i - (k - 1) \in 1 .. n - k /\ k + (i - (k - 1)) = i + 1
              /\ ~(i <= k - 1)
          BY <1>0, <1>1, <3>3
        <5> QED BY <1>0, <5>1
      <4>2. u[i] = e[j]
        BY <1>0, <1>2, <3>1, <4>1
      <4>3. e[j] = s[i + 1]
        BY <1>0, <1>3, <4>1
      <4>4. At(k, i) = i + 1
        BY <1>0, <3>3 DEF At
      <4> QED BY <1>0, <4>2, <4>3, <4>4
    <3> QED BY <1>0, <3>2, <3>3
  <2>4. t = u
    BY <1>0, <2>1, <2>2, <2>3, SeqEqual
  <2> QED BY <1>0, <2>4 DEF u
<1>5. t = RemoveAt(s, k)
  BY <1>0, <1>2, <1>3, <1>4 DEF RemoveAt
<1>6. t # s
  BY <1>0, <1>1
<1>7. ASSUME k = 1 PROVE t = Tail(s)
  <2>1. s # <<>>
    BY <1>0, <1>1, EmptySeq
  <2> DEFINE u == Tail(s)
  <2>2. /\ u \in Seq(Data) /\ Len(u) = n - 1
        /\ \A i \in 1 .. n - 1 : u[i] = s[i + 1]
    BY <1>0, <2>1, HeadTailProperties
  <2> HIDE DEF u
  <2>3. ASSUME NEW i \in 1 .. n - 1 PROVE t[i] = u[i]
    <3>1. At(k, i) = i + 1
      BY <1>0, <1>7 DEF At
    <3> QED BY <1>0, <2>2, <3>1
  <2>4. t = u
    BY <1>0, <2>2, <2>3, SeqEqual
  <2> QED BY <1>0, <2>4 DEF u
<1>8. ASSUME k = n PROVE t = Front(s)
  <2>1. b = Front(s)
    BY <1>0, <1>2, <1>8 DEF Front
  <2>2. ASSUME NEW i \in 1 .. n - 1 PROVE t[i] = b[i]
    <3>1. At(k, i) = i /\ i \in 1 .. k - 1
      BY <1>0, <1>8 DEF At
    <3> QED BY <1>0, <1>2, <3>1
  <2>3. t = b
    BY <1>0, <1>2, <1>8, <2>2, SeqEqual
  <2> QED BY <1>0, <2>1, <2>3
<1> QED BY <1>5, <1>6, <1>7, <1>8

\* The kth node goes: it is freed, and its neighbours get its pointers.
Cut(q, n, k) ==
  /\ DOMAIN heap' = Nodes /\ heap'[q[k]] = Freed
  /\ \A i \in 1 .. n : i # k =>
       heap'[q[i]] = [data |-> heap[q[i]].data,
                      next |-> IF i = k - 1 THEN heap[q[k]].next ELSE heap[q[i]].next,
                      prev |-> IF i = k + 1 THEN heap[q[k]].prev ELSE heap[q[i]].prev]
  /\ \A m \in Nodes : (\A i \in 1 .. n : q[i] # m) => heap'[m] = heap[m]
  /\ head_list' = IF k = 1 THEN heap[q[1]].next ELSE head_list

\* What is left is a list of the other nodes.
LEMMA CutStep ==
  ASSUME NEW q, NEW n \in Nat, Found(q, n), NEW k \in 1 .. n, Cut(q, n, k)
  PROVE  /\ ListInv' /\ TwoWays' /\ Elements' \in Seq(Data) /\ Len(Elements') = n - 1
         /\ \A i \in 1 .. n - 1 : Elements'[i] = Elements[At(k, i)]
<1>1. CellsFound(q, n) /\ \A i \in 1 .. n : q[i] \in Nodes
  BY FoundCells DEF Found
<1>2. ASSUME NEW i \in 1 .. n - 1
      PROVE  At(k, i) \in 1 .. n /\ At(k, i) # k /\ At(k, i) \in Int
  BY DEF At
<1> DEFINE p == [i \in 1 .. n - 1 |-> q[At(k, i)]]
<1>3. p \in [1 .. n - 1 -> Nodes] /\ \A i \in 1 .. n - 1 : p[i] = q[At(k, i)]
  BY <1>1, <1>2
<1> HIDE DEF p
<1>4. ASSUME NEW i \in 1 .. n - 1, NEW j \in 1 .. n - 1, p[i] = p[j] PROVE i = j
  <2>1. At(k, i) = At(k, j)
    BY <1>1, <1>2, <1>3, <1>4 DEF CellsFound, Places
  <2> QED BY <2>1 DEF At
<1>5. ASSUME NEW i \in 1 .. n
      PROVE  /\ heap[q[i]].data \in Data
             /\ heap[q[i]].next = IF i = n THEN NULL ELSE q[i + 1]
             /\ heap[q[i]].prev = IF i = 1 THEN NULL ELSE q[i - 1]
  BY <1>1 DEF CellsFound, Places
<1>6. ASSUME NEW i \in 1 .. n - 1
      PROVE  /\ heap'[p[i]] = [data |-> heap'[p[i]].data, next |-> heap'[p[i]].next,
                               prev |-> heap'[p[i]].prev]
             /\ heap'[p[i]].data \in Data /\ heap'[p[i]].data = heap[p[i]].data
             /\ heap'[p[i]].next = IF i = n - 1 THEN NULL ELSE p[i + 1]
             /\ heap'[p[i]].prev = IF i = 1 THEN NULL ELSE p[i - 1]
  <2>1. PICK a \in 1 .. n : a = At(k, i) /\ a # k /\ p[i] = q[a]
    BY <1>2, <1>3
  <2>2. heap'[q[a]] = [data |-> heap[q[a]].data,
                       next |-> IF a = k - 1 THEN heap[q[k]].next ELSE heap[q[a]].next,
                       prev |-> IF a = k + 1 THEN heap[q[k]].prev ELSE heap[q[a]].prev]
    BY <2>1 DEF Cut
  <2>3. (IF a = k - 1 THEN heap[q[k]].next ELSE heap[q[a]].next)
           = IF i = n - 1 THEN NULL ELSE p[i + 1]
    <3>1. CASE a = k - 1
      <4>1. i = k - 1 /\ (i = n - 1 <=> k = n)
        BY <2>1, <3>1 DEF At
      <4>2. i # n - 1 => p[i + 1] = q[k + 1]
        <5>1. i # n - 1 => i + 1 \in 1 .. n - 1 /\ At(k, i + 1) = k + 1
          BY <4>1 DEF At
        <5> QED BY <1>3, <5>1
      <4> QED BY <1>5, <3>1, <4>1, <4>2
    <3>2. CASE a # k - 1
      <4>1. i = n - 1 <=> a = n
        BY <2>1, <3>2 DEF At
      <4>2. i # n - 1 => p[i + 1] = q[a + 1]
        <5>1. i # n - 1 => i + 1 \in 1 .. n - 1 /\ At(k, i + 1) = a + 1
          BY <2>1, <3>2 DEF At
        <5> QED BY <1>3, <5>1
      <4> QED BY <1>5, <3>2, <4>1, <4>2
    <3> QED BY <3>1, <3>2
  <2>4. (IF a = k + 1 THEN heap[q[k]].prev ELSE heap[q[a]].prev)
           = IF i = 1 THEN NULL ELSE p[i - 1]
    <3>1. CASE a = k + 1
      <4>1. i = k
        BY <2>1, <3>1 DEF At
      <4>2. i # 1 => p[i - 1] = q[k - 1]
        <5>1. i # 1 => i - 1 \in 1 .. n - 1 /\ At(k, i - 1) = k - 1
          BY <4>1 DEF At
        <5> QED BY <1>3, <5>1
      <4> QED BY <1>5, <3>1, <4>1, <4>2
    <3>2. CASE a # k + 1
      <4>1. i = 1 <=> a = 1
        BY <2>1, <3>2 DEF At
      <4>2. i # 1 => p[i - 1] = q[a - 1]
        <5>1. i # 1 => i - 1 \in 1 .. n - 1 /\ At(k, i - 1) = a - 1
          BY <2>1, <3>2 DEF At
        <5> QED BY <1>3, <5>1
      <4> QED BY <1>5, <3>2, <4>1, <4>2
    <3> QED BY <3>1, <3>2
  <2>5. heap'[p[i]] = [data |-> heap[q[a]].data, next |-> IF i = n - 1 THEN NULL ELSE p[i + 1],
                       prev |-> IF i = 1 THEN NULL ELSE p[i - 1]]
    BY <2>1, <2>2, <2>3, <2>4
  <2> QED BY <1>5, <2>1, <2>5
<1>7. ASSUME NEW m \in Nodes, \A i \in 1 .. n - 1 : p[i] # m PROVE heap'[m] = Freed
  <2>1. CASE m = q[k]
    BY <2>1 DEF Cut
  <2>2. CASE m # q[k]
    <3>1. ASSUME NEW j \in 1 .. n, q[j] = m PROVE FALSE
      <4>1. j # k
        BY <2>2, <3>1
      <4>2. PICK i \in 1 .. n - 1 : At(k, i) = j
        <5>1. CASE j < k
          <6>1. j \in 1 .. n - 1 /\ At(k, j) = j
            BY <5>1 DEF At
          <6> QED BY <6>1
        <5>2. CASE ~(j < k)
          <6>1. j - 1 \in 1 .. n - 1 /\ At(k, j - 1) = j
            BY <4>1, <5>2 DEF At
          <6> QED BY <6>1
        <5> QED BY <5>1, <5>2
      <4> QED BY <1>3, <1>7, <3>1, <4>2
    <3>2. heap[m] = Freed /\ heap'[m] = heap[m]
      BY <1>1, <3>1 DEF CellsFound, Places, Cut
    <3> QED BY <3>2
  <2> QED BY <2>1, <2>2
<1>8. Chain(heap', head_list', p) /\ Len(p) = n - 1
  <2>1. n - 1 \in Nat
    OBVIOUS
  <2>2. head_list' = IF n - 1 = 0 THEN NULL ELSE p[1]
    <3>1. CASE k = 1
      <4>1. 1 \in 1 .. n /\ (1 = n <=> n - 1 = 0)
        OBVIOUS
      <4>2. n - 1 # 0 => 1 \in 1 .. n - 1 /\ At(k, 1) = 1 + 1
        BY <3>1 DEF At
      <4>3. head_list' = IF 1 = n THEN NULL ELSE q[1 + 1]
        BY <1>5, <3>1, <4>1 DEF Cut
      <4> QED BY <1>3, <4>1, <4>2, <4>3
    <3>2. CASE k # 1
      <4>1. n - 1 # 0 /\ 1 \in 1 .. n - 1 /\ At(k, 1) = 1 /\ n # 0
        BY <3>2 DEF At
      <4>2. head_list' = q[1]
        BY <1>1, <3>2, <4>1 DEF CellsFound, Places, Cut
      <4> QED BY <1>3, <4>1, <4>2
    <3> QED BY <3>1, <3>2
  <2>3. Places(heap', head_list', p, n - 1)
    BY <1>3, <1>4, <1>6, <1>7, <2>1, <2>2 DEF Places
  <2> QED BY <2>3, ChainFrom
<1>9. /\ ListInv' /\ TwoWays' /\ Elements' \in Seq(Data) /\ Len(Elements') = n - 1
      /\ \A i \in 1 .. n - 1 : Elements'[i] = heap'[p[i]].data
  <2>1. DOMAIN heap' = Nodes
    BY DEF Cut
  <2> QED BY <1>8, <2>1, ListLeft
<1>10. ASSUME NEW i \in 1 .. n - 1 PROVE Elements'[i] = Elements[At(k, i)]
  <2>1. Elements'[i] = heap[q[At(k, i)]].data
    <3>1. p[i] = q[At(k, i)]
      BY <1>3
    <3>2. Elements'[i] = heap'[p[i]].data
      BY <1>9
    <3>3. heap'[p[i]].data = heap[p[i]].data
      BY <1>6
    <3> QED BY <3>1, <3>2, <3>3
  <2>2. Elements[At(k, i)] = heap[q[At(k, i)]].data
    BY <1>2 DEF Found
  <2> QED BY <2>1, <2>2
<1> QED BY <1>9, <1>10

\* How the node that goes and its neighbours stand.
LEMMA Neighbours ==
  ASSUME NEW q, NEW n \in Nat, Found(q, n), NEW k \in 1 .. n
  PROVE  /\ q[k] \in Nodes /\ (q[k] = head_list <=> k = 1) /\ head_list # NULL
         /\ \A i \in 1 .. n : /\ q[i] \in Nodes
                              /\ q[i] = q[k] <=> i = k
                              /\ q[i] = heap[q[k]].next <=> i = k + 1
                              /\ q[i] = heap[q[k]].prev <=> i = k - 1
                              /\ heap[q[i]] = [data |-> heap[q[i]].data, next |-> heap[q[i]].next,
                                               prev |-> heap[q[i]].prev]
         /\ \A m \in Nodes : (\A i \in 1 .. n : q[i] # m) =>
              m # q[k] /\ m # heap[q[k]].next /\ m # heap[q[k]].prev
<1>1. CellsFound(q, n) /\ \A i \in 1 .. n : q[i] \in Nodes
  BY FoundCells DEF Found
<1>2. \A i, j \in 1 .. n : q[i] = q[j] <=> i = j
  BY <1>1 DEF CellsFound, Places
<1>3. \A m \in Nodes : m # NULL
  BY <1>1 DEF CellsFound
<1>4. heap[q[k]].next = IF k = n THEN NULL ELSE q[k + 1]
  BY <1>1 DEF CellsFound, Places
<1>5. heap[q[k]].prev = IF k = 1 THEN NULL ELSE q[k - 1]
  BY <1>1 DEF CellsFound, Places
<1>6. head_list = q[1] /\ 1 \in 1 .. n
  BY <1>1 DEF CellsFound, Places
<1>7. (k # n => k + 1 \in 1 .. n) /\ (k # 1 => k - 1 \in 1 .. n)
  OBVIOUS
<1>8. ASSUME NEW i \in 1 .. n PROVE q[i] = heap[q[k]].next <=> i = k + 1
  <2>1. CASE k = n
    BY <1>1, <1>3, <1>4, <2>1
  <2>2. CASE k # n
    BY <1>2, <1>4, <1>7, <2>2
  <2> QED BY <2>1, <2>2
<1>9. ASSUME NEW i \in 1 .. n PROVE q[i] = heap[q[k]].prev <=> i = k - 1
  <2>1. CASE k = 1
    BY <1>1, <1>3, <1>5, <2>1
  <2>2. CASE k # 1
    BY <1>2, <1>5, <1>7, <2>2
  <2> QED BY <2>1, <2>2
<1>10. ASSUME NEW i \in 1 .. n
       PROVE  heap[q[i]] = [data |-> heap[q[i]].data, next |-> heap[q[i]].next,
                            prev |-> heap[q[i]].prev]
  BY <1>1 DEF CellsFound, Places
<1>11. ASSUME NEW m \in Nodes, \A i \in 1 .. n : q[i] # m
       PROVE  m # q[k] /\ m # heap[q[k]].next /\ m # heap[q[k]].prev
  BY <1>3, <1>4, <1>5, <1>7, <1>11
<1> QED BY <1>1, <1>2, <1>3, <1>6, <1>8, <1>9, <1>10, <1>11

\* Unlinking does that.
LEMMA UnlinkCuts ==
  ASSUME NEW q, NEW n \in Nat, Found(q, n), NEW k \in 1 .. n, heap' = Unlink(q[k]),
         head_list' = IF q[k] = head_list THEN heap[q[k]].next ELSE head_list
  PROVE  Cut(q, n, k)
<1>1. /\ q[k] \in Nodes /\ (q[k] = head_list <=> k = 1)
      /\ \A i \in 1 .. n : /\ q[i] \in Nodes
                           /\ q[i] = q[k] <=> i = k
                           /\ q[i] = heap[q[k]].next <=> i = k + 1
                           /\ q[i] = heap[q[k]].prev <=> i = k - 1
                           /\ heap[q[i]] = [data |-> heap[q[i]].data, next |-> heap[q[i]].next,
                                            prev |-> heap[q[i]].prev]
      /\ \A m \in Nodes : (\A i \in 1 .. n : q[i] # m) =>
           m # q[k] /\ m # heap[q[k]].next /\ m # heap[q[k]].prev
  BY Neighbours
<1>2. heap' = [m \in Nodes |->
                 CASE m = q[k]                                        -> Freed
                   [] m # q[k] /\ m = heap[q[k]].next                  -> [heap[m] EXCEPT !.prev = heap[q[k]].prev]
                   [] m # q[k] /\ q[k] # head_list /\ m = heap[q[k]].prev
                                                                      -> [heap[m] EXCEPT !.next = heap[q[k]].next]
                   [] OTHER                                           -> heap[m]]
  BY DEF Unlink
<1>3. DOMAIN heap' = Nodes /\ heap'[q[k]] = Freed
  BY <1>1, <1>2
<1>4. ASSUME NEW i \in 1 .. n, i # k
      PROVE  heap'[q[i]] = [data |-> heap[q[i]].data,
                            next |-> IF i = k - 1 THEN heap[q[k]].next ELSE heap[q[i]].next,
                            prev |-> IF i = k + 1 THEN heap[q[k]].prev ELSE heap[q[i]].prev]
  <2>1. /\ q[i] \in Nodes /\ q[i] # q[k]
        /\ q[i] = heap[q[k]].next <=> i = k + 1
        /\ q[i] = heap[q[k]].prev <=> i = k - 1
        /\ heap[q[i]] = [data |-> heap[q[i]].data, next |-> heap[q[i]].next,
                         prev |-> heap[q[i]].prev]
    BY <1>1, <1>4
  <2>2. CASE i = k + 1
    <3>1. q[i] = heap[q[k]].next /\ i # k - 1
      BY <2>1, <2>2
    <3>2. q[i] # heap[q[k]].prev
      BY <2>1, <3>1
    <3>3. heap'[q[i]] = [heap[q[i]] EXCEPT !.prev = heap[q[k]].prev]
      BY <1>2, <2>1, <3>1, <3>2
    <3> QED BY <2>1, <2>2, <3>1, <3>3
  <2>3. CASE i = k - 1
    <3>1. q[i] = heap[q[k]].prev /\ i # k + 1
      BY <2>1, <2>3
    <3>2. q[i] # heap[q[k]].next
      BY <2>1, <3>1
    <3>3. q[k] # head_list
      BY <1>1, <2>3
    <3>4. heap'[q[i]] = [heap[q[i]] EXCEPT !.next = heap[q[k]].next]
      BY <1>2, <2>1, <3>1, <3>2, <3>3
    <3> QED BY <2>1, <2>3, <3>1, <3>4
  <2>4. CASE i # k + 1 /\ i # k - 1
    <3>1. q[i] # heap[q[k]].next /\ q[i] # heap[q[k]].prev
      BY <2>1, <2>4
    <3>2. heap'[q[i]] = heap[q[i]]
      BY <1>2, <2>1, <3>1
    <3> QED BY <2>1, <2>4, <3>2
  <2> QED BY <2>2, <2>3, <2>4
<1>5. ASSUME NEW m \in Nodes, \A i \in 1 .. n : q[i] # m PROVE heap'[m] = heap[m]
  BY <1>1, <1>2, <1>5
<1>6. head_list' = IF k = 1 THEN heap[q[1]].next ELSE head_list
  BY <1>1
<1> QED BY <1>3, <1>4, <1>5, <1>6 DEF Cut

\* The first element with the contents goes, and is returned.
LEMMA RemoveElementStep ==
  ASSUME ListInv, NEW d \in Data, ll_remove_element(d)
  PROVE  SequenceStep /\ ListInv' /\ TwoWays'
<1>1. PICK q : Found(q, Len(q))
  BY ListFound
<1>2. PICK n \in Nat : n = Len(q) /\ Found(q, n)
  BY <1>1 DEF Found
<1> DEFINE found == {i \in 0 .. ll_length - 1 : heap[NodeAt(i)].data = d}
           s == Elements
<1>3. ll_length = n /\ s \in Seq(Data) /\ Len(s) = n
  BY <1>2 DEF Found, Seen, ll_length
<1>4. ASSUME NEW i \in 1 .. n
      PROVE  NodeAt(i - 1) = q[i] /\ heap[q[i]].data = s[i] /\ i - 1 \in 0 .. ll_length - 1
  BY <1>2, <1>3 DEF Found, Seen, NodeAt
<1>5. \A i \in 1 .. n : i - 1 \in found <=> s[i] = d
  BY <1>4
<1>6. \A i \in found : i + 1 \in 1 .. n /\ (i + 1) - 1 = i /\ i \in Nat
  BY <1>3
<1>7. CASE found = {}
  <2>1. last' = <<"remove", d, NULL>> /\ UNCHANGED <<heap, head_list>>
    BY <1>7 DEF ll_remove_element
  <2>2. ListInv' /\ TwoWays' /\ Elements' = s
    BY <2>1, ListStays
  <2>3. Removed(s, d) = s
    BY <1>3, <1>5, <1>7 DEF Removed
  <2> QED BY <2>1, <2>2, <2>3 DEF SequenceStep
<1>8. CASE found # {}
  <2> DEFINE First(i) == i \in found /\ \A j \in found : i <= j
             c == CHOOSE i \in found : \A j \in found : i <= j
  <2>1. First(c)
    <3>1. found \in SUBSET Nat
      BY <1>6
    <3> HIDE DEF found
    <3> QED BY <1>8, <3>1, LeastOfNat
  <2>2. /\ heap' = Unlink(NodeAt(c))
        /\ head_list' = IF NodeAt(c) = head_list THEN heap[NodeAt(c)].next ELSE head_list
        /\ last' = <<"remove", d, heap[NodeAt(c)].data>>
    BY <1>8 DEF ll_remove_element
  <2> HIDE DEF c, found
  <2>3. PICK k \in 1 .. n : k = c + 1 /\ k - 1 = c
    BY <1>6, <2>1
  <2>4. NodeAt(c) = q[k] /\ s[k] = d /\ heap[q[k]].data = d
    BY <1>4, <1>5, <2>1, <2>3
  <2>5. ASSUME NEW j \in 1 .. k - 1 PROVE s[j] # d
    <3>1. j \in 1 .. n /\ ~(c <= j - 1)
      BY <2>3
    <3> QED BY <1>5, <2>1, <3>1
  <2>6. Cut(q, n, k)
    BY <1>2, <2>2, <2>4, UnlinkCuts
  <2>7. /\ ListInv' /\ TwoWays' /\ Elements' \in Seq(Data) /\ Len(Elements') = n - 1
        /\ \A i \in 1 .. n - 1 : Elements'[i] = s[At(k, i)]
    BY <1>2, <2>6, CutStep
  <2> HIDE DEF s
  <2>8. Elements' = RemoveAt(s, k) /\ Elements' # s
    <3>1. s \in Seq(Data) /\ n = Len(s)
      BY <1>3
    <3>2. Elements' \in Seq(Data) /\ Len(Elements') = n - 1 /\ \A i \in 1 .. n - 1 : Elements'[i] = s[At(k, i)]
      BY <2>7
    <3> QED BY <3>1, <3>2, WithoutOne DEF OneLess
  <2>9. (CHOOSE i \in 1 .. Len(s) : s[i] = d /\ \A j \in 1 .. i - 1 : s[j] # d) = k
    <3>1. ASSUME NEW i \in 1 .. n, s[i] = d, \A j \in 1 .. i - 1 : s[j] # d PROVE i = k
      <4>1. ~(i < k)
        BY <2>5, <3>1
      <4>2. ~(k < i)
        BY <2>4, <3>1
      <4> QED BY <4>1, <4>2
    <3>2. Len(s) = n
      BY <1>3
    <3> QED BY <2>4, <2>5, <3>1, <3>2
  <2>10. Elements' = Removed(s, d)
    <3>1. \E i \in 1 .. Len(s) : s[i] = d
      BY <1>3, <2>4
    <3>2. Removed(s, d) = RemoveAt(s, CHOOSE i \in 1 .. Len(s) : s[i] = d /\ \A j \in 1 .. i - 1 : s[j] # d)
      BY <3>1 DEF Removed
    <3> QED BY <2>8, <2>9, <3>2
  <2> QED BY <2>2, <2>4, <2>7, <2>8, <2>10 DEF SequenceStep, s
<1> QED BY <1>7, <1>8

\* The first element goes, and is returned.
LEMMA RemoveFirstStep ==
  ASSUME ListInv, ll_remove_first
  PROVE  SequenceStep /\ ListInv' /\ TwoWays'
<1>1. PICK q : Found(q, Len(q))
  BY ListFound
<1>2. PICK n \in Nat : n = Len(q) /\ Found(q, n)
  BY <1>1 DEF Found
<1>3. last' = <<"remove_first", NULL, Result(Reverse(Elements))>>
  BY <1>1, GetEnds DEF ll_remove_first
<1>4. Elements \in Seq(Data) /\ Len(Elements) = n /\ (head_list = NULL <=> n = 0)
  BY <1>2 DEF Found, Seen
<1>5. Elements = <<>> <=> n = 0
  BY <1>4, EmptySeq
<1>6. CASE head_list = NULL
  <2>1. ListInv' /\ TwoWays' /\ Elements' = Elements
    BY <1>6, ListStays DEF ll_remove_first
  <2> QED BY <1>3, <1>4, <1>5, <1>6, <2>1 DEF SequenceStep
<1>7. CASE head_list # NULL
  <2>1. 1 \in 1 .. n /\ n # 0
    BY <1>4, <1>7
  <2>2. head_list = q[1] /\ heap[q[1]].prev = NULL
    BY <1>2, <2>1 DEF Found, Chain
  <2>3. /\ head_list' = heap[q[1]].next
        /\ heap' = [m \in Nodes |->
                      CASE m = q[1]            -> Freed
                        [] m = heap[q[1]].next -> [heap[m] EXCEPT !.prev = NULL]
                        [] OTHER               -> heap[m]]
    BY <1>7, <2>2 DEF ll_remove_first
  <2>4. /\ q[1] \in Nodes
        /\ \A i \in 1 .. n : /\ q[i] \in Nodes
                             /\ q[i] = q[1] <=> i = 1
                             /\ q[i] = heap[q[1]].next <=> i = 1 + 1
                             /\ heap[q[i]] = [data |-> heap[q[i]].data, next |-> heap[q[i]].next,
                                              prev |-> heap[q[i]].prev]
        /\ \A m \in Nodes : (\A i \in 1 .. n : q[i] # m) => m # q[1] /\ m # heap[q[1]].next
    BY <1>2, <2>1, Neighbours
  <2>5. DOMAIN heap' = Nodes /\ heap'[q[1]] = Freed
    <3>1. q[1] \in Nodes
      BY <2>4
    <3>2. DOMAIN heap' = Nodes
      BY <2>3
    <3>3. heap'[q[1]] = CASE q[1] = q[1]            -> Freed
                          [] q[1] = heap[q[1]].next -> [heap[q[1]] EXCEPT !.prev = NULL]
                          [] OTHER                  -> heap[q[1]]
      BY <2>3, <3>1
    <3>4. q[1] # heap[q[1]].next
      <4>1. 1 # 1 + 1
        OBVIOUS
      <4>2. q[1] = heap[q[1]].next <=> 1 = 1 + 1
        BY <2>1, <2>4, Zenon
      <4> QED BY <4>1, <4>2
    <3> QED BY <3>2, <3>3, <3>4
  <2>6. ASSUME NEW i \in 1 .. n, i # 1
        PROVE  heap'[q[i]] = [data |-> heap[q[i]].data,
                              next |-> IF i = 1 - 1 THEN heap[q[1]].next ELSE heap[q[i]].next,
                              prev |-> IF i = 1 + 1 THEN heap[q[1]].prev ELSE heap[q[i]].prev]
    <3>1. /\ q[i] \in Nodes /\ q[i] # q[1]
          /\ heap[q[i]] = [data |-> heap[q[i]].data, next |-> heap[q[i]].next,
                           prev |-> heap[q[i]].prev]
      BY <2>4, <2>6
    <3>4. i # 1 - 1
      OBVIOUS
    <3>2. CASE i = 1 + 1
      <4>1. q[i] = heap[q[1]].next
        BY <2>4, <3>2
      <4>2. heap'[q[i]] = [heap[q[i]] EXCEPT !.prev = NULL]
        BY <2>3, <3>1, <4>1
      <4> QED BY <2>2, <3>1, <3>2, <3>4, <4>2
    <3>3. CASE i # 1 + 1
      <4>1. heap'[q[i]] = heap[q[i]]
        BY <2>3, <2>4, <3>1, <3>3
      <4> QED BY <3>1, <3>3, <3>4, <4>1
    <3> QED BY <3>2, <3>3
  <2>7. ASSUME NEW m \in Nodes, \A i \in 1 .. n : q[i] # m PROVE heap'[m] = heap[m]
    BY <2>3, <2>4, <2>7
  <2>8. Cut(q, n, 1)
    BY <2>3, <2>5, <2>6, <2>7 DEF Cut
  <2>9. /\ ListInv' /\ TwoWays' /\ Elements' \in Seq(Data) /\ Len(Elements') = n - 1
        /\ \A i \in 1 .. n - 1 : Elements'[i] = Elements[At(1, i)]
    BY <1>2, <2>1, <2>8, CutStep
  <2>10. Elements' = Tail(Elements)
    BY <1>4, <2>1, <2>9, WithoutOne DEF OneLess
  <2> QED BY <1>3, <1>5, <2>1, <2>9, <2>10 DEF SequenceStep
<1> QED BY <1>6, <1>7

\* The last element goes, and is returned.
LEMMA RemoveLastStep ==
  ASSUME ListInv, ll_remove_last
  PROVE  SequenceStep /\ ListInv' /\ TwoWays'
<1>1. PICK q : Found(q, Len(q))
  BY ListFound
<1>2. PICK n \in Nat : n = Len(q) /\ Found(q, n)
  BY <1>1 DEF Found
<1>3. last' = <<"remove_last", NULL, Result(Elements)>>
  BY <1>1, GetEnds DEF ll_remove_last
<1>4. Elements \in Seq(Data) /\ Len(Elements) = n /\ (head_list = NULL <=> n = 0)
  BY <1>2 DEF Found, Seen
<1>5. Elements = <<>> <=> n = 0
  BY <1>4, EmptySeq
<1>6. CASE head_list = NULL
  <2>1. ListInv' /\ TwoWays' /\ Elements' = Elements
    BY <1>6, ListStays DEF ll_remove_last
  <2> QED BY <1>3, <1>4, <1>5, <1>6, <2>1 DEF SequenceStep
<1>7. CASE head_list # NULL
  <2>1. 1 \in 1 .. n /\ n \in 1 .. n /\ n # 0
    BY <1>4, <1>7
  <2>2. LastNode = q[n] /\ head_list = q[1] /\ heap[q[n]].next = NULL
    BY <1>2, <2>1 DEF Found, Seen, Chain, LastNode, NodeAt, ll_length
  <2>3. /\ heap' = [m \in Nodes |->
                      CASE m = q[n]                          -> Freed
                        [] m # q[n] /\ m = heap[q[n]].prev    -> [heap[m] EXCEPT !.next = NULL]
                        [] OTHER                             -> heap[m]]
        /\ head_list' = IF heap[q[1]].next = NULL THEN NULL ELSE head_list
    BY <1>7, <2>2 DEF ll_remove_last
  <2>4. /\ q[n] \in Nodes
        /\ \A i \in 1 .. n : /\ q[i] \in Nodes
                             /\ q[i] = q[n] <=> i = n
                             /\ q[i] = heap[q[n]].prev <=> i = n - 1
                             /\ heap[q[i]] = [data |-> heap[q[i]].data, next |-> heap[q[i]].next,
                                              prev |-> heap[q[i]].prev]
        /\ \A m \in Nodes : (\A i \in 1 .. n : q[i] # m) => m # q[n] /\ m # heap[q[n]].prev
    BY <1>2, <2>1, Neighbours
  <2>5. DOMAIN heap' = Nodes /\ heap'[q[n]] = Freed
    BY <2>3, <2>4
  <2>6. ASSUME NEW i \in 1 .. n, i # n
        PROVE  heap'[q[i]] = [data |-> heap[q[i]].data,
                              next |-> IF i = n - 1 THEN heap[q[n]].next ELSE heap[q[i]].next,
                              prev |-> IF i = n + 1 THEN heap[q[n]].prev ELSE heap[q[i]].prev]
    <3>1. /\ q[i] \in Nodes /\ q[i] # q[n]
          /\ heap[q[i]] = [data |-> heap[q[i]].data, next |-> heap[q[i]].next,
                           prev |-> heap[q[i]].prev]
      BY <2>4, <2>6
    <3>4. i # n + 1
      OBVIOUS
    <3>2. CASE i = n - 1
      <4>1. q[i] = heap[q[n]].prev
        BY <2>4, <3>2
      <4>2. heap'[q[i]] = [heap[q[i]] EXCEPT !.next = NULL]
        BY <2>3, <3>1, <4>1
      <4> QED BY <2>2, <3>1, <3>2, <3>4, <4>2
    <3>3. CASE i # n - 1
      <4>1. heap'[q[i]] = heap[q[i]]
        BY <2>3, <2>4, <3>1, <3>3
      <4> QED BY <3>1, <3>3, <3>4, <4>1
    <3> QED BY <3>2, <3>3
  <2>7. ASSUME NEW m \in Nodes, \A i \in 1 .. n : q[i] # m PROVE heap'[m] = heap[m]
    BY <2>3, <2>4, <2>7
  <2>8. head_list' = IF n = 1 THEN heap[q[1]].next ELSE head_list
    <3>1. heap[q[1]].next = IF 1 = n THEN NULL ELSE q[1 + 1]
      BY <1>2, <2>1 DEF Found, Chain
    <3>2. 1 # n => q[1 + 1] # NULL
      <4>1. 1 # n => 1 + 1 \in 1 .. n
        BY <2>1
      <4> QED BY <1>2, <4>1 DEF Found
    <3> QED BY <2>3, <3>1, <3>2
  <2>9. Cut(q, n, n)
    BY <2>5, <2>6, <2>7, <2>8 DEF Cut
  <2>10. /\ ListInv' /\ TwoWays' /\ Elements' \in Seq(Data) /\ Len(Elements') = n - 1
         /\ \A i \in 1 .. n - 1 : Elements'[i] = Elements[At(n, i)]
    BY <1>2, <2>1, <2>9, CutStep
  <2>11. Elements' = Front(Elements)
    BY <1>4, <2>1, <2>10, WithoutOne DEF OneLess
  <2> QED BY <1>3, <1>5, <2>1, <2>10, <2>11 DEF SequenceStep
<1> QED BY <1>6, <1>7

-----------------------------------------------------------------------------
(* SnakeList: reversal, and every call *)

\* A sequence from its end to its beginning.
LEMMA Backwards ==
  ASSUME NEW s \in Seq(Data), NEW t \in Seq(Data), Len(t) = Len(s),
         \A i \in 1 .. Len(s) : t[i] = s[(Len(s) - i) + 1]
  PROVE  t = Reverse(s)
<1>1. PICK n \in Nat : n = Len(s) /\ t \in [1 .. n -> Data] /\ \A i \in 1 .. n : t[i] = s[(n - i) + 1]
  BY LenProperties
<1>2. t = [i \in 1 .. n |-> s[(n - i) + 1]]
  BY <1>1
<1> QED BY <1>1, <1>2 DEF Reverse

\* The pointers of every node change places.
LEMMA ReverseStep ==
  ASSUME ListInv, ll_reverse
  PROVE  SequenceStep /\ ListInv' /\ TwoWays'
<1>1. PICK q : Found(q, Len(q))
  BY ListFound
<1>2. PICK n \in Nat : n = Len(q) /\ Found(q, n)
  BY <1>1 DEF Found
<1>3. last' = <<"reverse", NULL, NULL>>
  BY DEF ll_reverse
<1>4. Elements \in Seq(Data) /\ Len(Elements) = n /\ ll_length = n
  BY <1>2 DEF Found, Seen, ll_length
<1>5. CASE n <= 1
  <2>1. ListInv' /\ TwoWays' /\ Elements' = Elements
    BY <1>4, <1>5, ListStays DEF ll_reverse
  <2>2. \A i \in 1 .. n : (n - i) + 1 = i
    BY <1>5
  <2>3. Elements = Reverse(Elements)
    BY <1>4, <2>2, Backwards
  <2> QED BY <1>3, <2>1, <2>3 DEF SequenceStep
<1>6. CASE ~(n <= 1)
  <2>1. CellsFound(q, n) /\ \A i \in 1 .. n : q[i] \in Nodes
    BY <1>2, FoundCells DEF Found
  <2>2. ASSUME NEW i \in 1 .. n
        PROVE  NodeAt(i - 1) = q[i] /\ i - 1 \in 0 .. n - 1 /\ (i # 1 => NodeAt((i - 1) - 1) = q[i - 1])
    <3>1. i - 1 \in 0 .. n - 1 /\ (i # 1 => i - 1 \in 1 .. n)
      OBVIOUS
    <3>2. \A j \in 1 .. n : NodeAt(j - 1) = q[j]
      BY <1>2 DEF Found, Seen, NodeAt
    <3> QED BY <3>1, <3>2
  <2>3. /\ heap' = [m \in Nodes |->
                      IF \E i \in 0 .. ll_length - 1 : NodeAt(i) = m
                      THEN LET i == CHOOSE j \in 0 .. ll_length - 1 : NodeAt(j) = m IN
                           [heap[m] EXCEPT !.prev = heap[m].next,
                                           !.next = IF i = 0 THEN NULL ELSE NodeAt(i - 1)]
                      ELSE heap[m]]
        /\ head_list' = LastNode
    BY <1>4, <1>6 DEF ll_reverse
  <2>4. DOMAIN heap' = Nodes
    BY <2>3
  <2>5. ASSUME NEW a \in 1 .. n
        PROVE  heap'[q[a]] = [data |-> heap[q[a]].data, next |-> IF a = 1 THEN NULL ELSE q[a - 1],
                              prev |-> IF a = n THEN NULL ELSE q[a + 1]]
    <3> DEFINE c == CHOOSE j \in 0 .. ll_length - 1 : NodeAt(j) = q[a]
    <3>1. ASSUME NEW j \in 0 .. ll_length - 1, NodeAt(j) = q[a] PROVE j = a - 1
      <4>1. j + 1 \in 1 .. n /\ (j + 1) - 1 = j
        BY <1>4
      <4>2. q[j + 1] = q[a]
        BY <2>2, <3>1, <4>1
      <4>3. j + 1 = a
        BY <2>1, <4>1, <4>2 DEF CellsFound, Places
      <4> QED BY <4>1, <4>3
    <3>2. a - 1 \in 0 .. ll_length - 1 /\ NodeAt(a - 1) = q[a]
      BY <1>4, <2>2
    <3>3. c = a - 1
      BY <3>1, <3>2
    <3>4. heap'[q[a]] = [heap[q[a]] EXCEPT !.prev = heap[q[a]].next,
                                           !.next = IF c = 0 THEN NULL ELSE NodeAt(c - 1)]
      BY <2>1, <2>3, <3>2
    <3> HIDE DEF c
    <3>5. (IF c = 0 THEN NULL ELSE NodeAt(c - 1)) = IF a = 1 THEN NULL ELSE q[a - 1]
      BY <2>2, <3>3
    <3>6. /\ heap[q[a]] = [data |-> heap[q[a]].data, next |-> heap[q[a]].next, prev |-> heap[q[a]].prev]
          /\ heap[q[a]].next = IF a = n THEN NULL ELSE q[a + 1]
      BY <2>1 DEF CellsFound, Places
    <3> DEFINE nx == IF a = 1 THEN NULL ELSE q[a - 1]
    <3>7. heap'[q[a]] = [heap[q[a]] EXCEPT !.prev = heap[q[a]].next, !.next = nx]
      BY <3>4, <3>5
    <3> HIDE DEF nx
    <3>8. heap'[q[a]] = [data |-> heap[q[a]].data, next |-> nx, prev |-> heap[q[a]].next]
      BY <3>6, <3>7
    <3> QED BY <3>6, <3>8 DEF nx
  <2> DEFINE p == [i \in 1 .. n |-> q[(n - i) + 1]]
  <2>6. ASSUME NEW i \in 1 .. n
        PROVE  (n - i) + 1 \in 1 .. n /\ p[i] = q[(n - i) + 1] /\ p[i] \in Nodes
    <3>1. (n - i) + 1 \in 1 .. n
      OBVIOUS
    <3> QED BY <2>1, <3>1
  <2>7. p \in [1 .. n -> Nodes]
    BY <2>6
  <2> HIDE DEF p
  <2>8. ASSUME NEW i \in 1 .. n, NEW j \in 1 .. n, p[i] = p[j] PROVE i = j
    <3>1. (n - i) + 1 = (n - j) + 1
      BY <2>1, <2>6, <2>8 DEF CellsFound, Places
    <3> QED BY <3>1
  <2>9. ASSUME NEW i \in 1 .. n
        PROVE  /\ heap'[p[i]] = [data |-> heap'[p[i]].data, next |-> heap'[p[i]].next,
                                 prev |-> heap'[p[i]].prev]
               /\ heap'[p[i]].data \in Data /\ heap'[p[i]].data = heap[p[i]].data
               /\ heap'[p[i]].next = IF i = n THEN NULL ELSE p[i + 1]
               /\ heap'[p[i]].prev = IF i = 1 THEN NULL ELSE p[i - 1]
    <3>1. PICK a \in 1 .. n : a = (n - i) + 1 /\ p[i] = q[a]
      BY <2>6
    <3>2. (a = 1 <=> i = n) /\ (a = n <=> i = 1)
      BY <3>1
    <3>3. a # 1 => q[a - 1] = p[i + 1]
      <4>1. a # 1 => i + 1 \in 1 .. n /\ (n - (i + 1)) + 1 = a - 1
        BY <3>1
      <4> QED BY <2>6, <4>1
    <3>4. a # n => q[a + 1] = p[i - 1]
      <4>1. a # n => i - 1 \in 1 .. n /\ (n - (i - 1)) + 1 = a + 1
        BY <3>1
      <4> QED BY <2>6, <4>1
    <3>5. heap[q[a]].data \in Data
      BY <2>1 DEF CellsFound, Places
    <3>6. heap'[p[i]] = [data |-> heap[q[a]].data, next |-> IF a = 1 THEN NULL ELSE q[a - 1],
                         prev |-> IF a = n THEN NULL ELSE q[a + 1]]
      BY <2>5, <3>1
    <3> QED BY <3>1, <3>2, <3>3, <3>4, <3>5, <3>6
  <2>10. ASSUME NEW m \in Nodes, \A i \in 1 .. n : p[i] # m PROVE heap'[m] = Freed
    <3>1. ASSUME NEW a \in 1 .. n PROVE q[a] # m
      <4>1. (n - a) + 1 \in 1 .. n /\ (n - ((n - a) + 1)) + 1 = a
        OBVIOUS
      <4> QED BY <2>6, <2>10, <4>1
    <3>2. heap[m] = Freed
      BY <2>1, <3>1 DEF CellsFound, Places
    <3>3. ~(\E i \in 0 .. ll_length - 1 : NodeAt(i) = m)
      <4> SUFFICES ASSUME NEW i \in 0 .. ll_length - 1 PROVE NodeAt(i) # m
        OBVIOUS
      <4>1. i + 1 \in 1 .. n /\ (i + 1) - 1 = i
        BY <1>4
      <4> QED BY <2>2, <3>1, <4>1
    <3> QED BY <2>3, <3>2, <3>3
  <2>11. head_list' = IF n = 0 THEN NULL ELSE p[1]
    <3>1. n # 0 /\ 1 \in 1 .. n /\ (n - 1) + 1 = n
      BY <1>6
    <3>2. LastNode = q[n]
      BY <1>2, <3>1 DEF Found, Seen, LastNode, NodeAt, ll_length
    <3> QED BY <2>3, <2>6, <3>1, <3>2
  <2>12. Chain(heap', head_list', p) /\ Len(p) = n
    <3>1. Places(heap', head_list', p, n)
      BY <2>7, <2>8, <2>9, <2>10, <2>11 DEF Places
    <3> QED BY <3>1, ChainFrom
  <2>13. /\ ListInv' /\ TwoWays' /\ Elements' \in Seq(Data) /\ Len(Elements') = n
         /\ \A i \in 1 .. n : Elements'[i] = heap'[p[i]].data
    BY <2>4, <2>12, ListLeft
  <2>14. ASSUME NEW i \in 1 .. n PROVE Elements'[i] = Elements[(n - i) + 1]
    <3>1. Elements'[i] = heap'[p[i]].data
      BY <2>13
    <3>2. heap'[p[i]].data = heap[p[i]].data
      BY <2>9
    <3>3. p[i] = q[(n - i) + 1] /\ (n - i) + 1 \in 1 .. n
      BY <2>6
    <3>4. Elements[(n - i) + 1] = heap[q[(n - i) + 1]].data
      BY <1>2, <3>3 DEF Found
    <3> QED BY <3>1, <3>2, <3>3, <3>4
  <2>15. Elements' = Reverse(Elements)
    BY <1>4, <2>13, <2>14, Backwards
  <2> QED BY <1>3, <2>13, <2>15 DEF SequenceStep
<1> QED BY <1>5, <1>6

\* Whatever the call is.
LEMMA ListStep ==
  ASSUME ListInv, ListNext
  PROVE  SequenceStep /\ ListInv' /\ TwoWays'
<1>1. CASE Looks
  BY <1>1, LooksStep
<1>2. ASSUME NEW d \in Data, ll_insert_first(d) PROVE SequenceStep /\ ListInv' /\ TwoWays'
  BY <1>2, InsertFirstStep
<1>3. ASSUME NEW d \in Data, ll_insert_last(d) PROVE SequenceStep /\ ListInv' /\ TwoWays'
  BY <1>3, InsertLastStep
<1>4. ASSUME NEW d \in Data, ll_remove_element(d) PROVE SequenceStep /\ ListInv' /\ TwoWays'
  BY <1>4, RemoveElementStep
<1>5. CASE ll_remove_first
  BY <1>5, RemoveFirstStep
<1>6. CASE ll_remove_last
  BY <1>6, RemoveLastStep
<1>7. CASE ll_reverse
  BY <1>7, ReverseStep
<1> QED BY <1>1, <1>2, <1>3, <1>4, <1>5, <1>6, <1>7 DEF ListNext

\* The nodes of the list are linked both ways, each once, and no other is in use:
\* this is what every function of linked_list.c finds and leaves.
THEOREM ListInvHolds == ListSpec => []ListInv
<1>1. ListInit => ListInv
  BY ListStarts
<1>2. ListInv /\ [ListNext]_listVars => ListInv'
  <2> SUFFICES ASSUME ListInv, [ListNext]_listVars PROVE ListInv'
    OBVIOUS
  <2>1. CASE ListNext
    BY <2>1, ListStep
  <2>2. CASE UNCHANGED listVars
    BY <2>2, ListStays DEF listVars
  <2> QED BY <2>1, <2>2
<1> QED BY <1>1, <1>2, PTL DEF ListSpec

\* Every function of linked_list.c does to the elements what the sequence operation
\* of its name does, returns what that returns, and leaves the nodes linked both
\* ways without a leak, for any number of nodes and any contents.
THEOREM ListIsASequence == ListSpec => ListIsSequence
<1>1. ListInv /\ [ListNext]_listVars => [SequenceStep /\ (heap' = heap \/ TwoWays')]_listVars
  BY ListStep
<1> QED BY <1>1, ListInvHolds, PTL DEF ListSpec, ListIsSequence

\* The values of a loop: the first one, and each from the one before in its turn.
Turns(f, n, S, first, turn) ==
  f \in [0 .. n -> S] /\ f[0] = first /\ \A i \in 1 .. n : f[i] = turn[<<i, f[i - 1]>>]

\* Every loop has its values.
LEMMA TurnsExist ==
  ASSUME NEW n \in Nat, NEW S, NEW first \in S, NEW turn \in [(1 .. n) \X S -> S]
  PROVE  \E f : Turns(f, n, S, first, turn)
<1> USE DEF Turns
<1> DEFINE Good(f, m) == Turns(f, m, S, first, turn)
           T == {m \in 0 .. n : \E f : Good(f, m)}
<1>1. 0 \in T
  <2> DEFINE f == [i \in 0 .. 0 |-> first]
  <2>2. f \in [0 .. 0 -> S] /\ f[0] = first
    OBVIOUS
  <2>3. \A i \in 1 .. 0 : FALSE
    OBVIOUS
  <2>1. Good(f, 0)
    BY <2>2, <2>3
  <2> HIDE DEF Good, f
  <2> QED BY <2>1
<1>2. ASSUME NEW m \in 1 .. n, m - 1 \in T PROVE m \in T
  <2>1. PICK f : Good(f, m - 1)
    BY <1>2
  <2> DEFINE h == [i \in 0 .. m |-> IF i = m THEN turn[<<m, f[m - 1]>>] ELSE f[i]]
  <2>2. m - 1 \in 0 .. m - 1 /\ f[m - 1] \in S
    BY <2>1
  <2>3. turn[<<m, f[m - 1]>>] \in S
    BY <2>2
  <2>4. h \in [0 .. m -> S] /\ h[0] = first
    BY <2>1, <2>3
  <2>5. ASSUME NEW i \in 1 .. m PROVE h[i] = turn[<<i, h[i - 1]>>]
    <3>1. i - 1 \in 0 .. m /\ i - 1 # m /\ h[i - 1] = f[i - 1]
      OBVIOUS
    <3>2. CASE i = m
      BY <3>1, <3>2
    <3>3. CASE i # m
      <4>1. i \in 1 .. m - 1 /\ h[i] = f[i]
        BY <3>3
      <4> QED BY <4>1, <3>1, <2>1
    <3> QED BY <3>2, <3>3
  <2>6. Good(h, m)
    BY <2>4, <2>5
  <2> HIDE DEF Good
  <2> QED BY <2>6
<1>3. n \in T
  <2> HIDE DEF T
  <2>1. \A i \in 0 .. n : i \in T
    BY <1>1, <1>2, UpTo
  <2> QED BY <2>1
<1> QED BY <1>3

-----------------------------------------------------------------------------
(* SnakeScreen: the name is measured *)

\* Where the loop of mbslen is after each turn.
Positions == [curr : Nat \ {0}, num_chars : Nat \cup {SIZE_MAX}]
NameTurns(bytes, f) ==
  /\ f \in [0 .. Len(bytes) -> Positions]
  /\ f[0] = [curr |-> 1, num_chars |-> 0]
  /\ \A i \in 1 .. Len(bytes) : f[i] = Character(bytes, f[i - 1])
  /\ mbslen(bytes) = f[Len(bytes)].num_chars

\* A turn leads to a position.
LEMMA CharacterType ==
  ASSUME NEW bytes, NEW o \in Positions
  PROVE  Character(bytes, o) \in Positions
<1> DEFINE w == Width0(bytes[o.curr])
<1>1. o = [curr |-> o.curr, num_chars |-> o.num_chars] /\ o.curr \in Nat \ {0} /\ o.num_chars \in Nat \cup {SIZE_MAX}
  BY DEF Positions
<1>2. CASE o.num_chars = SIZE_MAX \/ o.curr > Len(bytes)
  BY <1>2 DEF Character
<1>3. CASE /\ ~(o.num_chars = SIZE_MAX \/ o.curr > Len(bytes))
           /\ w \in 1 .. 4 /\ are_remaining_bytes_valid(bytes, o.curr + 1, w - 1)
  <2>1. Character(bytes, o) = [curr |-> o.curr + w, num_chars |-> o.num_chars + 1]
    BY <1>3 DEF Character
  <2>2. w \in Nat /\ o.num_chars \in Nat
    BY <1>1, <1>3
  <2> HIDE DEF w
  <2> QED BY <1>1, <2>1, <2>2 DEF Positions
<1>4. CASE /\ ~(o.num_chars = SIZE_MAX \/ o.curr > Len(bytes))
           /\ ~(w \in 1 .. 4 /\ are_remaining_bytes_valid(bytes, o.curr + 1, w - 1))
  <2>1. Character(bytes, o) = [o EXCEPT !.num_chars = SIZE_MAX]
    BY <1>4 DEF Character
  <2> QED BY <1>1, <2>1 DEF Positions
<1> QED BY <1>2, <1>3, <1>4

\* The loop has its positions.
LEMMA NameTurnsExist ==
  ASSUME NEW S, NEW bytes \in Seq(S)
  PROVE  \E f : NameTurns(bytes, f)
<1>1. PICK n \in Nat : n = Len(bytes)
  OBVIOUS
<1> DEFINE first == [curr |-> 1, num_chars |-> 0]
           step == [x \in (1 .. n) \X Positions |-> Character(bytes, x[2])]
<1>2. first \in Positions
  BY DEF Positions
<1>3. step \in [(1 .. n) \X Positions -> Positions]
  BY CharacterType
<1> HIDE DEF first, step
<1>4. PICK f : Turns(f, n, Positions, first, step)
  BY <1>2, <1>3, TurnsExist
<1>5. f \in [0 .. n -> Positions] /\ f[0] = first
  BY <1>4 DEF Turns
<1>6. ASSUME NEW i \in 1 .. n PROVE f[i] = Character(bytes, f[i - 1])
  <2>1. f[i] = step[<<i, f[i - 1]>>]
    BY <1>4 DEF Turns
  <2>2. i - 1 \in 0 .. n
    OBVIOUS
  <2>3. <<i, f[i - 1]>> \in (1 .. n) \X Positions
    BY <1>5, <2>2
  <2> QED BY <2>1, <2>3 DEF step
<1> DEFINE turn == CHOOSE g : g = [m \in 0 .. n |->
                                     IF m = 0 THEN [curr |-> 1, num_chars |-> 0]
                                     ELSE Character(bytes, g[m - 1])]
<1>7. f = [m \in 0 .. n |-> IF m = 0 THEN [curr |-> 1, num_chars |-> 0] ELSE Character(bytes, f[m - 1])]
  <2>1. \A m \in 0 .. n : m # 0 => m \in 1 .. n
    OBVIOUS
  <2> QED BY <1>5, <1>6, <2>1 DEF first
<1>8. turn = [m \in 0 .. n |-> IF m = 0 THEN [curr |-> 1, num_chars |-> 0] ELSE Character(bytes, turn[m - 1])]
  BY <1>7
<1>9. mbslen(bytes) = turn[n].num_chars
  BY <1>1 DEF mbslen
<1> HIDE DEF turn
<1>10. \A m \in 0 .. n : m \in {x \in 0 .. n : turn[x] = f[x]}
  <2> DEFINE T == {x \in 0 .. n : turn[x] = f[x]}
  <2>1. 0 \in T
    BY <1>5, <1>8 DEF first
  <2>2. ASSUME NEW i \in 1 .. n, i - 1 \in T PROVE i \in T
    <3>1. i \in 0 .. n /\ i # 0
      OBVIOUS
    <3>2. turn[i] = Character(bytes, turn[i - 1])
      BY <1>8, <3>1
    <3> QED BY <1>6, <2>2, <3>1, <3>2
  <2> HIDE DEF T
  <2>3. \A m \in 0 .. n : m \in T
    BY <2>1, <2>2, UpTo
  <2> QED BY <2>3 DEF T
<1>11. n \in 0 .. n
  OBVIOUS
<1>12. mbslen(bytes) = f[n].num_chars
  BY <1>9, <1>10, <1>11
<1>13. NameTurns(bytes, f)
  BY <1>1, <1>5, <1>6, <1>12 DEF NameTurns, first
<1> QED BY <1>13


\* What a turn reads is a character, if there is one.
LEMMA CharacterReads ==
  ASSUME NEW bytes \in Seq(Nat), NEW o \in Positions, o.num_chars # SIZE_MAX, o.curr <= Len(bytes),
         NEW to \in Nat, to <= Len(bytes), IsCharacter(bytes, o.curr - 1, to)
  PROVE  Character(bytes, o) = [curr |-> to + 1, num_chars |-> o.num_chars + 1]
<1> DEFINE b == bytes[o.curr]
           w == Width0(b)
<1>1. PICK c \in Nat \ {0} : c = o.curr /\ c <= Len(bytes) /\ Len(bytes) \in Nat
  BY DEF Positions
<1>2. b \in Nat
  BY <1>1, ElementOfSeq
<1>3. w \in 1 .. 4 /\ c + w = to + 1 /\ are_remaining_bytes_valid(bytes, c + 1, w - 1)
  <2>1. CASE to = (c - 1) + 1 /\ bytes[to] = Newline
    <3>1. to = c /\ w = 1
      BY <1>1, <2>1 DEF Width0
    <3>2. \A k \in c + 1 .. (c + 1) + (w - 1) - 1 : FALSE
      BY <3>1
    <3> QED BY <3>1, <3>2 DEF are_remaining_bytes_valid
  <2>2. CASE /\ to - (c - 1) \in 1 .. 4 /\ bytes[(c - 1) + 1] = to - (c - 1)
             /\ \A k \in (c - 1) + 2 .. to : bytes[k] = 0
    <3>1. (c - 1) + 1 = c /\ (c - 1) + 2 = c + 1
      BY <1>1
    <3>2. b = to - (c - 1) /\ b # 10
      <4>1. bytes[c] = to - (c - 1)
        BY <2>2, <3>1
      <4>2. to - (c - 1) # 10
        BY <2>2
      <4> QED BY <1>1, <4>1, <4>2
    <3>3. w = to - (c - 1)
      BY <3>2 DEF Width0, Newline
    <3>4. w \in 1 .. 4 /\ c + w = to + 1 /\ (c + 1) + (w - 1) - 1 = to
      BY <2>2, <3>3
    <3> HIDE DEF w
    <3>5. \A k \in c + 1 .. (c + 1) + (w - 1) - 1 : k <= Len(bytes) /\ bytes[k] = 0
      BY <1>1, <2>2, <3>1, <3>4
    <3> QED BY <3>4, <3>5 DEF are_remaining_bytes_valid
  <2> QED BY <1>1, <2>1, <2>2 DEF IsCharacter
<1>4. ~(o.num_chars = SIZE_MAX \/ o.curr > Len(bytes))
  BY <1>1
<1>5. Character(bytes, o) = [curr |-> o.curr + w, num_chars |-> o.num_chars + 1]
  BY <1>1, <1>3, <1>4 DEF Character
<1> QED BY <1>1, <1>3, <1>5

\* And what it counts is a character.
LEMMA CharacterFound ==
  ASSUME NEW bytes \in Seq(Nat), NEW o \in Positions, o.num_chars # SIZE_MAX, o.curr <= Len(bytes),
         Character(bytes, o).num_chars # SIZE_MAX
  PROVE  /\ Character(bytes, o).num_chars = o.num_chars + 1
         /\ Character(bytes, o).curr - 1 \in o.curr .. Len(bytes)
         /\ IsCharacter(bytes, o.curr - 1, Character(bytes, o).curr - 1)
<1> DEFINE b == bytes[o.curr]
           w == Width0(b)
<1>1. PICK c \in Nat \ {0} : c = o.curr /\ c <= Len(bytes) /\ Len(bytes) \in Nat
  BY DEF Positions
<1>2. b \in Nat
  BY <1>1, ElementOfSeq
<1>3. ~(o.num_chars = SIZE_MAX \/ o.curr > Len(bytes))
  BY <1>1
<1>4. w \in 1 .. 4 /\ are_remaining_bytes_valid(bytes, o.curr + 1, w - 1)
  <2> SUFFICES ASSUME ~(w \in 1 .. 4 /\ are_remaining_bytes_valid(bytes, o.curr + 1, w - 1)) PROVE FALSE
    OBVIOUS
  <2>1. Character(bytes, o) = [o EXCEPT !.num_chars = SIZE_MAX]
    BY <1>3 DEF Character
  <2>2. o = [curr |-> o.curr, num_chars |-> o.num_chars]
    BY DEF Positions
  <2> QED BY <2>1, <2>2
<1>5. Character(bytes, o) = [curr |-> o.curr + w, num_chars |-> o.num_chars + 1]
  BY <1>3, <1>4 DEF Character
<1>6. \A k \in c + 1 .. (c + 1) + (w - 1) - 1 : k <= Len(bytes) /\ bytes[k] = 0
  BY <1>1, <1>4 DEF are_remaining_bytes_valid
<1>7. b = Newline \/ w = b
  BY DEF Width0
<1>8. b = Newline => w = 1
  BY DEF Width0
<1> HIDE DEF w
<1>9. PICK to \in Nat : to = c + w - 1 /\ (c + 1) + (w - 1) - 1 = to /\ to >= c
  <2>1. c + w - 1 \in Nat /\ (c + 1) + (w - 1) - 1 = c + w - 1 /\ c + w - 1 >= c
    BY <1>4
  <2> QED BY <2>1
<1>10. to <= Len(bytes)
  <2>1. CASE to = c
    BY <1>1, <2>1
  <2>2. CASE to # c
    <3>1. to \in c + 1 .. (c + 1) + (w - 1) - 1
      BY <1>9, <2>2
    <3> QED BY <1>6, <3>1
  <2> QED BY <2>1, <2>2
<1>11. IsCharacter(bytes, c - 1, to)
  <2>1. CASE b = Newline
    <3>1. to = (c - 1) + 1 /\ bytes[to] = Newline
      BY <1>1, <1>8, <1>9, <2>1
    <3> QED BY <3>1 DEF IsCharacter
  <2>2. CASE w = b
    <3>1. (c - 1) + 1 = c /\ (c - 1) + 2 = c + 1 /\ to - (c - 1) = w
      BY <1>4, <1>9
    <3>2. bytes[(c - 1) + 1] = to - (c - 1) /\ to - (c - 1) \in 1 .. 4
      BY <1>1, <1>4, <2>2, <3>1
    <3>3. \A k \in (c - 1) + 2 .. to : bytes[k] = 0
      BY <1>6, <1>9, <3>1
    <3> QED BY <3>2, <3>3 DEF IsCharacter
  <2> QED BY <1>7, <2>1, <2>2
<1>12. Character(bytes, o).curr - 1 = to
  BY <1>1, <1>4, <1>5, <1>9
<1> QED BY <1>1, <1>5, <1>9, <1>10, <1>11, <1>12

\* The first n characters, which end before the place c.
Begun(bytes, n, ends, c) ==
  /\ n \in Nat /\ c \in Nat /\ n <= c /\ c <= Len(bytes) /\ (n = 0 => c = 0) /\ (n # 0 => ends[n] = c)
  /\ ends \in [1 .. n -> 1 .. Len(bytes)]
  /\ \A k \in 1 .. n : IsCharacter(bytes, IF k = 1 THEN 0 ELSE ends[k - 1], ends[k])

\* One character more.
LEMMA OneMore ==
  ASSUME NEW bytes, NEW n, NEW ends, NEW c, Begun(bytes, n, ends, c), Len(bytes) \in Nat,
         NEW d \in c + 1 .. Len(bytes), IsCharacter(bytes, c, d)
  PROVE  \E e : Begun(bytes, n + 1, e, d)
<1>1. n \in Nat /\ c \in Nat /\ n <= c
  BY DEF Begun
<1> DEFINE e == [k \in 1 .. n + 1 |-> IF k = n + 1 THEN d ELSE ends[k]]
<1>2. n + 1 \in Nat /\ d \in Nat /\ n + 1 <= d /\ d <= Len(bytes) /\ n + 1 # 0 /\ n + 1 \in 1 .. n + 1
  BY <1>1
<1>3. \A k \in 1 .. n : k \in 1 .. n + 1 /\ k # n + 1 /\ e[k] = ends[k]
  BY <1>1
<1>4. \A k \in 1 .. n + 1 : k = n + 1 \/ k \in 1 .. n
  BY <1>1
<1>5. e \in [1 .. n + 1 -> 1 .. Len(bytes)]
  <2>1. d \in 1 .. Len(bytes)
    BY <1>1
  <2> QED BY <1>4, <2>1 DEF Begun
<1>6. e[n + 1] = d
  BY <1>2
<1> HIDE DEF e
<1>7. ASSUME NEW k \in 1 .. n + 1 PROVE IsCharacter(bytes, IF k = 1 THEN 0 ELSE e[k - 1], e[k])
  <2>1. CASE k = n + 1
    <3>1. (IF k = 1 THEN 0 ELSE e[k - 1]) = c
      <4>1. CASE n = 0
        BY <2>1, <4>1 DEF Begun
      <4>2. CASE n # 0
        <5>1. k # 1 /\ k - 1 = n /\ n \in 1 .. n
          BY <1>1, <2>1, <4>2
        <5> QED BY <1>3, <4>2, <5>1 DEF Begun
      <4> QED BY <4>1, <4>2
    <3> QED BY <1>6, <2>1, <3>1
  <2>2. CASE k # n + 1
    <3>1. k \in 1 .. n /\ (k # 1 => k - 1 \in 1 .. n)
      BY <1>1, <1>4, <2>2
    <3>2. IsCharacter(bytes, IF k = 1 THEN 0 ELSE ends[k - 1], ends[k])
      BY <3>1 DEF Begun
    <3>3. e[k] = ends[k] /\ (k # 1 => e[k - 1] = ends[k - 1])
      BY <1>3, <3>1
    <3> QED BY <3>2, <3>3
  <2> QED BY <2>1, <2>2
<1>8. Begun(bytes, n + 1, e, d)
  BY <1>2, <1>5, <1>6, <1>7 DEF Begun
<1> QED BY <1>8


\* What the loop has counted are the first characters.
LEMMA MbslenCounts ==
  ASSUME NEW bytes \in Seq(Nat), Len(bytes) # 0, mbslen(bytes) # SIZE_MAX
  PROVE  mbslen(bytes) \in 1 .. Len(bytes) /\ IsText(bytes, mbslen(bytes))
<1>1. PICK n \in Nat : n = Len(bytes) /\ n # 0
  OBVIOUS
<1>2. PICK f : NameTurns(bytes, f)
  BY NameTurnsExist
<1>3. f \in [0 .. n -> Positions] /\ f[0] = [curr |-> 1, num_chars |-> 0] /\ mbslen(bytes) = f[n].num_chars
  BY <1>1, <1>2 DEF NameTurns
<1> DEFINE Reached(o, m) == \/ o.num_chars = SIZE_MAX
                            \/ /\ \E ends : Begun(bytes, o.num_chars, ends, o.curr - 1)
                               /\ o.curr > n \/ o.num_chars = m
           T == {m \in 0 .. n : Reached(f[m], m)}
<1>4. 0 \in T
  <2>1. 0 \in 0 .. n
    OBVIOUS
  <2> DEFINE ends == [k \in 1 .. 0 |-> 0]
  <2>2. ends \in [1 .. 0 -> 1 .. Len(bytes)] /\ \A k \in 1 .. 0 : FALSE
    OBVIOUS
  <2> HIDE DEF ends
  <2>3. Begun(bytes, 0, ends, 0)
    BY <1>1, <2>2 DEF Begun
  <2>4. f[0].num_chars = 0 /\ f[0].curr - 1 = 0
    BY <1>3
  <2>5. Reached(f[0], 0)
    BY <2>3, <2>4
  <2> HIDE DEF Reached
  <2> QED BY <2>1, <2>5
<1>5. ASSUME NEW m \in 1 .. n, m - 1 \in T PROVE m \in T
  <2>1. PICK o \in Positions : o = f[m - 1] /\ Reached(o, m - 1)
    BY <1>3, <1>5
  <2>2. f[m] = Character(bytes, o)
    BY <1>1, <1>2, <2>1 DEF NameTurns
  <2>3. PICK c \in Nat \ {0} : c = o.curr
    BY DEF Positions
  <2>4. CASE o.num_chars = SIZE_MAX \/ c > n
    <3>1. f[m] = o
      BY <1>1, <2>2, <2>3, <2>4 DEF Character
    <3>2. Reached(o, m)
      BY <2>1, <2>3, <2>4
    <3> HIDE DEF Reached
    <3> QED BY <3>1, <3>2
  <2>5. CASE o.num_chars # SIZE_MAX /\ c <= n /\ f[m].num_chars = SIZE_MAX
    BY <2>5
  <2>6. CASE o.num_chars # SIZE_MAX /\ c <= n /\ f[m].num_chars # SIZE_MAX
    <3>1. /\ f[m].num_chars = o.num_chars + 1
          /\ f[m].curr - 1 \in c .. n /\ IsCharacter(bytes, c - 1, f[m].curr - 1)
      BY <1>1, <2>2, <2>3, <2>6, CharacterFound
    <3>2. PICK ends : Begun(bytes, o.num_chars, ends, c - 1)
      BY <2>1, <2>3, <2>6
    <3> DEFINE d == f[m].curr - 1
    <3>3. d \in (c - 1) + 1 .. Len(bytes)
      BY <1>1, <3>1
    <3>4. o.num_chars = m - 1 /\ o.num_chars + 1 = m
      BY <2>1, <2>3, <2>6
    <3> HIDE DEF d
    <3>5. PICK e : Begun(bytes, o.num_chars + 1, e, d)
      BY <1>1, <3>1, <3>2, <3>3, OneMore DEF d
    <3>6. Begun(bytes, f[m].num_chars, e, f[m].curr - 1)
      BY <3>1, <3>5 DEF d
    <3> QED BY <3>1, <3>4, <3>6
  <2> QED BY <2>3, <2>4, <2>5, <2>6
<1> HIDE DEF T
<1>6. n \in T
  <2>1. \A m \in 0 .. n : m \in T
    BY <1>4, <1>5, UpTo
  <2> QED BY <2>1
<1>7. PICK o \in Positions : o = f[n] /\ Reached(o, n) /\ mbslen(bytes) = o.num_chars
  BY <1>3, <1>6 DEF T
<1>8. PICK ends : Begun(bytes, o.num_chars, ends, o.curr - 1)
  BY <1>7
<1>9. PICK k \in Nat, c \in Nat : k = o.num_chars /\ c = o.curr - 1 /\ Begun(bytes, k, ends, c) /\ (c + 1 > n \/ k = n)
  <2>1. o.num_chars \in Nat /\ o.curr - 1 \in Nat /\ (o.curr - 1) + 1 = o.curr
    BY <1>7 DEF Positions
  <2> QED BY <1>7, <1>8, <2>1
<1>10. c = n /\ k \in 1 .. n
  BY <1>1, <1>9 DEF Begun
<1>11. IsText(bytes, k)
  BY <1>1, <1>9, <1>10 DEF Begun, IsText
<1> QED BY <1>1, <1>7, <1>9, <1>10, <1>11

\* However the bytes are cut into characters, the loop finds those.
LEMMA MbslenFinds ==
  ASSUME NEW bytes \in Seq(Nat), NEW k \in 1 .. Len(bytes), IsText(bytes, k)
  PROVE  mbslen(bytes) = k
<1>1. PICK n \in Nat : n = Len(bytes) /\ k \in 1 .. n
  OBVIOUS
<1>2. PICK f : NameTurns(bytes, f)
  BY NameTurnsExist
<1>3. f \in [0 .. n -> Positions] /\ f[0] = [curr |-> 1, num_chars |-> 0] /\ mbslen(bytes) = f[n].num_chars
  BY <1>1, <1>2 DEF NameTurns
<1>4. PICK ends \in [1 .. k -> 1 .. n] :
        /\ ends[k] = n
        /\ \A i \in 1 .. k : IsCharacter(bytes, IF i = 1 THEN 0 ELSE ends[i - 1], ends[i])
  BY <1>1 DEF IsText
<1> DEFINE At0(m) == IF m = 0 THEN 0 ELSE ends[m]
           T == {m \in 0 .. k : f[m] = [curr |-> At0(m) + 1, num_chars |-> m]}
<1>5. ASSUME NEW m \in 1 .. k PROVE At0(m) \in 1 .. n /\ At0(m) > At0(m - 1) /\ At0(m - 1) \in Nat
  <2>1. m - 1 # 0 => m - 1 \in 1 .. k
    OBVIOUS
  <2>2. At0(m) = ends[m] /\ At0(m) \in 1 .. n /\ At0(m - 1) \in Nat
    BY <1>4, <2>1
  <2>3. IsCharacter(bytes, At0(m - 1), At0(m))
    BY <1>4, <2>2
  <2> HIDE DEF At0
  <2> QED BY <2>2, <2>3 DEF IsCharacter
<1>6. 0 \in T
  BY <1>3
<1>7. ASSUME NEW m \in 1 .. k, m - 1 \in T PROVE m \in T
  <2>1. m \in 1 .. n /\ m - 1 \in 0 .. n /\ m \in 0 .. k /\ m # 0 /\ (m - 1) + 1 = m
    BY <1>1
  <2>2. PICK o \in Positions : o = f[m - 1] /\ o = [curr |-> At0(m - 1) + 1, num_chars |-> m - 1]
    BY <1>3, <1>7, <2>1
  <2>3. f[m] = Character(bytes, o)
    BY <1>1, <1>2, <2>1, <2>2 DEF NameTurns
  <2>4. PICK a \in Nat, b \in 1 .. n : a = At0(m - 1) /\ b = At0(m) /\ b > a
    BY <1>5
  <2>5. IsCharacter(bytes, a, b)
    <3>1. At0(m) = ends[m]
      BY <2>1
    <3>2. At0(m - 1) = IF m = 1 THEN 0 ELSE ends[m - 1]
      OBVIOUS
    <3> QED BY <1>4, <2>4, <3>1, <3>2
  <2> HIDE DEF At0
  <2>6. o.curr - 1 = a /\ o.curr <= Len(bytes) /\ o.num_chars # SIZE_MAX /\ o.num_chars = m - 1
    BY <1>1, <2>2, <2>4 DEF SIZE_MAX
  <2>7. Character(bytes, o) = [curr |-> b + 1, num_chars |-> o.num_chars + 1]
    BY <1>1, <2>4, <2>5, <2>6, CharacterReads
  <2>8. f[m] = [curr |-> At0(m) + 1, num_chars |-> m]
    BY <2>1, <2>3, <2>4, <2>6, <2>7
  <2> QED BY <2>1, <2>8
<1>8. f[k] = [curr |-> n + 1, num_chars |-> k]
  <2> HIDE DEF T
  <2>0. k \in Nat /\ k \in 0 .. k
    BY <1>1
  <2>1. \A m \in 0 .. k : m \in T
    BY <1>6, <1>7, <2>0, UpTo
  <2>2. k \in T
    BY <2>0, <2>1
  <2> QED BY <1>4, <2>2 DEF T
<1> DEFINE U == {j \in 0 .. n - k : f[k + j] = f[k]}
<1>9. 0 \in U
  <2>1. 0 \in 0 .. n - k /\ k + 0 = k
    BY <1>1
  <2> QED BY <2>1
<1>10. ASSUME NEW j \in 1 .. n - k, j - 1 \in U PROVE j \in U
  <2>1. k + j \in 1 .. n /\ (k + j) - 1 = k + (j - 1) /\ j \in 0 .. n - k
    BY <1>1
  <2>2. f[k + j] = Character(bytes, f[k])
    BY <1>1, <1>2, <1>10, <2>1 DEF NameTurns
  <2>3. Character(bytes, f[k]) = f[k]
    BY <1>1, <1>8 DEF Character
  <2> QED BY <2>1, <2>2, <2>3
<1>11. f[n] = f[k]
  <2> HIDE DEF U
  <2>1. n - k \in Nat /\ n - k \in 0 .. n - k /\ k + (n - k) = n
    BY <1>1
  <2>2. \A j \in 0 .. n - k : j \in U
    BY <1>9, <1>10, <2>1, UpTo
  <2>3. n - k \in U
    BY <2>1, <2>2
  <2> QED BY <2>1, <2>3 DEF U
<1> QED BY <1>3, <1>8, <1>11

\* The name is bytes, and its length is what mbslen makes of it.
NameInv == name \in Seq(Nat) /\ (name # <<>> => g_name_len = mbslen(name))

\* A name that is measured is measured right.
LEMMA NameInvMeasures == ASSUME NameInv PROVE NameIsMeasured
<1> SUFFICES ASSUME name # <<>> PROVE \/ g_name_len \in 1 .. Len(name) /\ IsText(name, g_name_len)
                                      \/ g_name_len = SIZE_MAX /\ \A n \in 1 .. Len(name) : ~IsText(name, n)
  BY DEF NameIsMeasured
<1>1. name \in Seq(Nat) /\ Len(name) # 0 /\ g_name_len = mbslen(name)
  BY EmptySeq DEF NameInv
<1>2. CASE mbslen(name) # SIZE_MAX
  BY <1>1, <1>2, MbslenCounts
<1>3. CASE mbslen(name) = SIZE_MAX
  <2>1. ASSUME NEW n \in 1 .. Len(name), IsText(name, n) PROVE FALSE
    <3>1. mbslen(name) = n
      BY <1>1, <2>1, MbslenFinds
    <3> QED BY <1>1, <1>3, <3>1 DEF SIZE_MAX
  <2> QED BY <1>1, <1>3, <2>1
<1> QED BY <1>2, <1>3

\* read_name measures what it has read, without its newline.
LEMMA ReadNameInv == ASSUME NameInv, read_name PROVE NameInv'
<1>1. PICK typed \in BoundedSeq(NameBytes, MaxTyped) :
        LET line == IF typed # <<>> /\ Last(typed) = Newline THEN Front(typed) ELSE typed IN
        IF line = <<>> THEN UNCHANGED screenVars
        ELSE /\ name' = line
             /\ g_name_len' = mbslen(line)
             /\ at' = "window"
             /\ UNCHANGED <<curses, heldCells, drawn>>
  BY DEF read_name
<1> DEFINE line == IF typed # <<>> /\ Last(typed) = Newline THEN Front(typed) ELSE typed
<1>2. typed \in Seq(Nat)
  <2>1. PICK m \in 0 .. MaxTyped : typed \in [1 .. m -> NameBytes]
    BY DEF BoundedSeq, SeqOf
  <2>2. m \in Nat
    BY <2>1, NameBytesAssumption
  <2>3. typed \in [1 .. m -> Nat]
    BY <2>1, NameBytesAssumption
  <2> QED BY <2>2, <2>3, SeqDef
<1>3. line \in Seq(Nat)
  <2>1. CASE typed # <<>>
    <3>1. Len(typed) \in Nat /\ Len(typed) # 0
      BY <1>2, <2>1, EmptySeq
    <3>2. Front(typed) \in Seq(Nat)
      <4> DEFINE n == Len(typed)
      <4>1. n \in Nat /\ n - 1 \in Int /\ 1 \in Int
        BY <3>1
      <4>2. \A i \in 1 .. n - 1 : typed[i] \in Nat
        BY <1>2, <3>1, ElementOfSeq
      <4> HIDE DEF n
      <4>3. SubSeq(typed, 1, n - 1) \in Seq(Nat)
        BY <4>1, <4>2, SubSeqProperties
      <4> QED BY <4>3 DEF Front, n
    <3> QED BY <1>2, <3>2
  <2>2. CASE typed = <<>>
    BY <1>2, <2>2
  <2> QED BY <2>1, <2>2
<1>4. CASE line = <<>>
  <2>1. UNCHANGED screenVars
    BY <1>1, <1>4
  <2> QED BY <2>1 DEF NameInv, screenVars
<1>5. CASE line # <<>>
  <2>1. name' = line /\ g_name_len' = mbslen(line)
    BY <1>1, <1>5
  <2> HIDE DEF line
  <2> QED BY <1>3, <2>1 DEF NameInv
<1> QED BY <1>4, <1>5

\* The name that read_name has read is as long as the number of UTF-8 characters it
\* is made of, and SIZE_MAX when it is not UTF-8, for every number of bytes.
THEOREM NameIsRight == ScreenSpec => []NameIsMeasured
<1>1. ScreenInit => NameInv
  BY DEF ScreenInit, NameInv
<1>2. NameInv /\ [ScreenNext]_screenVars => NameInv'
  <2> SUFFICES ASSUME NameInv, [ScreenNext]_screenVars PROVE NameInv'
    OBVIOUS
  <2>1. CASE read_name
    BY <2>1, ReadNameInv
  <2>2. CASE Arguments \/ initialize_window \/ Turn0 \/ end_game \/ UNCHANGED screenVars
    <3>1. UNCHANGED <<name, g_name_len>>
      BY <2>2 DEF Arguments, initialize_window, Turn0, end_game, screenVars
    <3> QED BY <3>1 DEF NameInv
  <2> QED BY <2>1, <2>2 DEF ScreenNext
<1> QED BY <1>1, <1>2, NameInvMeasures, PTL DEF ScreenSpec

-----------------------------------------------------------------------------
(* SnakeSetup: the board is the string *)

\* Sequences of sequences are joined one by one.
LEMMA JoinedOne ==
  ASSUME NEW S, NEW parts \in Seq(Seq(S))
  PROVE  /\ Joined(parts) \in [0 .. Len(parts) -> Seq(S)]
         /\ Joined(parts)[0] = <<>>
         /\ \A i \in 1 .. Len(parts) : Joined(parts)[i] = Joined(parts)[i - 1] \o parts[i]
<1>1. PICK n \in Nat : n = Len(parts)
  OBVIOUS
<1> DEFINE first == <<>>
           step == [x \in (1 .. n) \X Seq(S) |-> x[2] \o parts[x[1]]]
           join == CHOOSE g : g = [m \in 0 .. n |-> IF m = 0 THEN <<>> ELSE g[m - 1] \o parts[m]]
<1>2. \A i \in 1 .. n : parts[i] \in Seq(S)
  BY <1>1, ElementOfSeq
<1>3. first \in Seq(S)
  BY EmptySeq
<1>4. step \in [(1 .. n) \X Seq(S) -> Seq(S)]
  <2>1. ASSUME NEW x \in (1 .. n) \X Seq(S) PROVE x[2] \o parts[x[1]] \in Seq(S)
    <3>1. x[2] \in Seq(S) /\ parts[x[1]] \in Seq(S)
      BY <1>2
    <3> QED BY <3>1, ConcatProperties
  <2> QED BY <2>1
<1> HIDE DEF first, step
<1>5. PICK f : Turns(f, n, Seq(S), first, step)
  BY <1>3, <1>4, TurnsExist
<1>6. f \in [0 .. n -> Seq(S)] /\ f[0] = <<>>
  BY <1>5 DEF Turns, first
<1>7. ASSUME NEW i \in 1 .. n PROVE f[i] = f[i - 1] \o parts[i]
  <2>1. f[i] = step[<<i, f[i - 1]>>]
    BY <1>5 DEF Turns
  <2>2. i - 1 \in 0 .. n
    OBVIOUS
  <2>3. <<i, f[i - 1]>> \in (1 .. n) \X Seq(S)
    BY <1>6, <2>2
  <2> QED BY <2>1, <2>3 DEF step
<1>8. f = [m \in 0 .. n |-> IF m = 0 THEN <<>> ELSE f[m - 1] \o parts[m]]
  <2>1. \A m \in 0 .. n : m # 0 => m \in 1 .. n
    OBVIOUS
  <2> QED BY <1>6, <1>7, <2>1
<1>9. join = [m \in 0 .. n |-> IF m = 0 THEN <<>> ELSE join[m - 1] \o parts[m]]
  BY <1>8
<1>10. Joined(parts) = join
  BY <1>1 DEF Joined
<1> HIDE DEF join
<1>11. join[0] = <<>>
  BY <1>9
<1>12. ASSUME NEW i \in 1 .. n PROVE join[i] = join[i - 1] \o parts[i]
  <2>1. i \in 0 .. n /\ i # 0
    OBVIOUS
  <2> QED BY <1>9, <2>1
<1>13. join \in [0 .. n -> Seq(S)]
  <2> DEFINE T == {x \in 0 .. n : join[x] \in Seq(S)}
  <2>0. 0 \in 0 .. n /\ <<>> \in Seq(S)
    BY EmptySeq
  <2>1. 0 \in T
    BY <1>11, <2>0
  <2>2. ASSUME NEW i \in 1 .. n, i - 1 \in T PROVE i \in T
    <3>1. i \in 0 .. n
      OBVIOUS
    <3>2. join[i - 1] \o parts[i] \in Seq(S)
      BY <1>2, <2>2, ConcatProperties
    <3> QED BY <1>12, <3>1, <3>2
  <2>3. \A m \in 0 .. n : m \in T
    <3> HIDE DEF T
    <3> QED BY <2>1, <2>2, UpTo
  <2> QED BY <1>9, <2>3
<1> QED BY <1>1, <1>10, <1>11, <1>12, <1>13

\* strtok() yields rows of runs.
LEMMA TokensType ==
  ASSUME NEW S, NEW strings \in Seq(Seq(S))
  PROVE  Tokens(strings) \in Seq(Seq(S))
<1>1. PICK n \in Nat : n = Len(strings)
  OBVIOUS
<1> DEFINE first == <<>>
           toks(i, t) == IF strings[i] = <<>> THEN t ELSE Append(t, strings[i])
           step == [x \in (1 .. n) \X Seq(Seq(S)) |-> toks(x[1], x[2])]
           tokens == CHOOSE g : g = [m \in 0 .. n |-> IF m = 0 THEN <<>>
                                     ELSE IF strings[m] = <<>> THEN g[m - 1] ELSE Append(g[m - 1], strings[m])]
<1>2. ASSUME NEW i \in 1 .. n, NEW t \in Seq(Seq(S)) PROVE toks(i, t) \in Seq(Seq(S))
  <2>1. strings[i] \in Seq(S)
    BY <1>1, ElementOfSeq
  <2>2. Append(t, strings[i]) \in Seq(Seq(S))
    BY <2>1, AppendProperties
  <2> QED BY <2>2
<1>3. first \in Seq(Seq(S))
  BY EmptySeq
<1>4. step \in [(1 .. n) \X Seq(Seq(S)) -> Seq(Seq(S))]
  BY <1>2
<1> HIDE DEF first, step
<1>5. PICK f : Turns(f, n, Seq(Seq(S)), first, step)
  BY <1>3, <1>4, TurnsExist
<1>6. f \in [0 .. n -> Seq(Seq(S))] /\ f[0] = <<>>
  BY <1>5 DEF Turns, first
<1>7. ASSUME NEW i \in 1 .. n PROVE f[i] = toks(i, f[i - 1])
  <2>1. f[i] = step[<<i, f[i - 1]>>]
    BY <1>5 DEF Turns
  <2>2. i - 1 \in 0 .. n
    OBVIOUS
  <2>3. <<i, f[i - 1]>> \in (1 .. n) \X Seq(Seq(S))
    BY <1>6, <2>2
  <2> QED BY <2>1, <2>3 DEF step
<1>8. f = [m \in 0 .. n |-> IF m = 0 THEN <<>>
                            ELSE IF strings[m] = <<>> THEN f[m - 1] ELSE Append(f[m - 1], strings[m])]
  <2>1. \A m \in 0 .. n : m # 0 => m \in 1 .. n
    OBVIOUS
  <2> QED BY <1>6, <1>7, <2>1
<1>9. tokens = [m \in 0 .. n |-> IF m = 0 THEN <<>>
                   ELSE IF strings[m] = <<>> THEN tokens[m - 1] ELSE Append(tokens[m - 1], strings[m])]
  BY <1>8
<1>10. Tokens(strings) = tokens[n]
  BY <1>1 DEF Tokens
<1> HIDE DEF tokens
<1>11. \A m \in 0 .. n : m \in {x \in 0 .. n : tokens[x] \in Seq(Seq(S))}
  <2> DEFINE T == {x \in 0 .. n : tokens[x] \in Seq(Seq(S))}
  <2>1. 0 \in T
    BY <1>9, EmptySeq
  <2>2. ASSUME NEW i \in 1 .. n, i - 1 \in T PROVE i \in T
    <3>1. i \in 0 .. n /\ i # 0
      OBVIOUS
    <3>2. tokens[i] = toks(i, tokens[i - 1])
      BY <1>9, <3>1
    <3>3. tokens[i - 1] \in Seq(Seq(S))
      BY <2>2
    <3> QED BY <1>2, <3>1, <3>2, <3>3
  <2> HIDE DEF T
  <2>3. \A m \in 0 .. n : m \in T
    BY <2>1, <2>2, UpTo
  <2> QED BY <2>3 DEF T
<1>12. n \in 0 .. n
  OBVIOUS
<1> QED BY <1>10, <1>11, <1>12

\* The beginning of a sequence.
Begins(s, t) == Len(s) <= Len(t) /\ \A i \in 1 .. Len(s) : t[i] = s[i]

\* What is put behind a sequence leaves its beginning as it is.
LEMMA BeginsConcat ==
  ASSUME NEW S, NEW r \in Seq(S), NEW s \in Seq(S), NEW t \in Seq(S), Begins(r \o s, t)
  PROVE  Begins(r, t)
<1>1. PICK m \in Nat, n \in Nat : m = Len(r) /\ n = Len(s)
  OBVIOUS
<1>2. Len(r \o s) = m + n /\ \A i \in 1 .. m + n : (r \o s)[i] = IF i <= m THEN r[i] ELSE s[i - m]
  BY <1>1, ConcatProperties
<1>3. Len(t) \in Nat
  OBVIOUS
<1>4. m <= Len(t)
  BY <1>2, <1>3 DEF Begins
<1>5. ASSUME NEW i \in 1 .. m PROVE t[i] = r[i]
  <2>1. i \in 1 .. m + n
    OBVIOUS
  <2>2. t[i] = (r \o s)[i]
    BY <1>2, <2>1 DEF Begins
  <2> QED BY <1>2, <2>1, <2>2
<1> QED BY <1>1, <1>4, <1>5 DEF Begins

\* The first sequences are the beginning of all of them.
LEMMA JoinedBegins ==
  ASSUME NEW S, NEW parts \in Seq(Seq(S)), NEW k \in 0 .. Len(parts)
  PROVE  Begins(Joined(parts)[k], Whole(parts))
<1>1. PICK n \in Nat : n = Len(parts) /\ k \in 0 .. n
  OBVIOUS
<1> DEFINE J == Joined(parts)
<1>2. /\ J \in [0 .. n -> Seq(S)]
      /\ \A i \in 1 .. n : J[i] = J[i - 1] \o parts[i]
      /\ Whole(parts) = J[n]
  BY <1>1, JoinedOne DEF Whole
<1>3. \A i \in 1 .. n : parts[i] \in Seq(S)
  BY <1>1, ElementOfSeq
<1> HIDE DEF J
<1> DEFINE T == {d \in 0 .. n : Begins(J[n - d], J[n])}
<1>4. 0 \in T
  <2>1. 0 \in 0 .. n /\ n - 0 = n /\ n \in 0 .. n
    OBVIOUS
  <2>2. Begins(J[n], J[n])
    BY <1>2, <2>1 DEF Begins
  <2> QED BY <2>1, <2>2
<1>5. ASSUME NEW d \in 1 .. n, d - 1 \in T PROVE d \in T
  <2>1. PICK i \in 1 .. n : i = n - (d - 1)
    OBVIOUS
  <2>2. i - 1 \in 0 .. n /\ i \in 0 .. n /\ n - d = i - 1 /\ d \in 0 .. n
    BY <2>1
  <2>3. Begins(J[i], J[n]) /\ J[i] = J[i - 1] \o parts[i]
    BY <1>2, <1>5, <2>1
  <2>4. n \in 0 .. n /\ J[n] \in Seq(S) /\ J[i - 1] \in Seq(S) /\ parts[i] \in Seq(S)
    BY <1>2, <1>3, <2>2
  <2>5. Begins(J[i - 1], J[n])
    BY <2>3, <2>4, BeginsConcat
  <2> QED BY <2>2, <2>5
<1>6. n - k \in T
  <2> HIDE DEF T
  <2>1. \A d \in 0 .. n : d \in T
    BY <1>4, <1>5, UpTo
  <2>2. n - k \in 0 .. n
    BY <1>1
  <2> QED BY <2>1, <2>2
<1>7. n - (n - k) = k
  BY <1>1
<1> QED BY <1>2, <1>6, <1>7 DEF J

\* Sequences of one length, joined.
LEMMA JoinedEven ==
  ASSUME NEW S, NEW parts \in Seq(Seq(S)), NEW w \in Nat,
         \A i \in 1 .. Len(parts) : Len(parts[i]) = w
  PROVE  Len(Whole(parts)) = Len(parts) * w
<1>1. PICK n \in Nat : n = Len(parts)
  OBVIOUS
<1> DEFINE J == Joined(parts)
<1>2. /\ J \in [0 .. n -> Seq(S)]
      /\ J[0] = <<>>
      /\ \A i \in 1 .. n : J[i] = J[i - 1] \o parts[i]
      /\ Whole(parts) = J[n]
  BY <1>1, JoinedOne DEF Whole
<1>3. \A i \in 1 .. n : parts[i] \in Seq(S) /\ Len(parts[i]) = w
  BY <1>1, ElementOfSeq
<1> HIDE DEF J
<1> DEFINE T == {m \in 0 .. n : Len(J[m]) = m * w}
<1>4. 0 \in T
  <2>1. Len(J[0]) = 0 /\ 0 * w = 0 /\ 0 \in 0 .. n
    BY <1>2
  <2> QED BY <2>1
<1>5. ASSUME NEW m \in 1 .. n, m - 1 \in T PROVE m \in T
  <2>1. PICK l \in Nat : l = m - 1 /\ l \in 0 .. n /\ m = l + 1 /\ m \in 0 .. n
    OBVIOUS
  <2>2. Len(J[l]) = l * w /\ J[l] \in Seq(S) /\ J[m] = J[l] \o parts[m]
    BY <1>2, <1>5, <2>1
  <2>3. Len(J[m]) = l * w + w
    <3>1. PICK x \in Seq(S), y \in Seq(S) : x = J[l] /\ y = parts[m] /\ J[m] = x \o y
      BY <1>3, <2>2
    <3>2. Len(x \o y) = Len(x) + Len(y)
      BY ConcatProperties
    <3> QED BY <1>3, <2>2, <3>1, <3>2
  <2>4. l * w + w = (l + 1) * w
    OBVIOUS
  <2> QED BY <2>1, <2>3, <2>4
<1>6. n \in T
  <2> HIDE DEF T
  <2>1. \A m \in 0 .. n : m \in T
    BY <1>4, <1>5, UpTo
  <2> QED BY <2>1
<1> QED BY <1>1, <1>2, <1>6

-----------------------------------------------------------------------------
\* The characters of the runs.
Characters == {r.c : r \in Runs}

\* A run of cells.
LEMMA RunIsCells ==
  ASSUME NEW r \in Runs
  PROVE  /\ [i \in 1 .. r.n |-> r.c] \in Seq(Characters)
         /\ Len([i \in 1 .. r.n |-> r.c]) = r.n
<1>1. r.n \in Nat /\ r.c \in Characters
  BY SetupAssumption DEF Characters
<1>2. [i \in 1 .. r.n |-> r.c] \in [1 .. r.n -> Characters]
  BY <1>1
<1> QED BY <1>1, <1>2, SeqDef, LenProperties

\* The cells of a row's runs.
LEMMA RunCellsType ==
  ASSUME NEW r \in Seq(Runs)
  PROVE  /\ RunCells(r) \in Seq(Seq(Characters))
         /\ Len(RunCells(r)) = Len(r)
         /\ \A k \in 1 .. Len(r) : RunCells(r)[k] = [i \in 1 .. r[k].n |-> r[k].c]
<1>1. PICK n \in Nat : n = Len(r)
  OBVIOUS
<1>2. \A k \in 1 .. n : r[k] \in Runs
  BY <1>1, ElementOfSeq
<1> DEFINE q == [k \in 1 .. n |-> [i \in 1 .. r[k].n |-> r[k].c]]
<1>3. q \in [1 .. n -> Seq(Characters)]
  BY <1>2, RunIsCells
<1>4. RunCells(r) = q
  BY <1>1 DEF RunCells
<1>5. \A k \in 1 .. n : q[k] = [i \in 1 .. r[k].n |-> r[k].c]
  OBVIOUS
<1> HIDE DEF q
<1>6. q \in Seq(Seq(Characters)) /\ Len(q) = n
  BY <1>3, SeqDef, LenProperties
<1> QED BY <1>1, <1>4, <1>5, <1>6

\* The rows and the cells that stand in them.
LEMMA RowCellsType ==
  ASSUME compressed.rows \in Seq(Seq(Runs))
  PROVE  /\ rows \in Seq(Seq(Runs))
         /\ RowCells \in Seq(Seq(Characters))
         /\ Len(RowCells) = Len(rows)
         /\ \A k \in 1 .. Len(rows) : RowCells[k] = Whole(RunCells(rows[k]))
<1>1. rows \in Seq(Seq(Runs))
  BY TokensType DEF rows
<1>2. PICK n \in Nat : n = Len(rows)
  BY <1>1
<1>3. ASSUME NEW k \in 1 .. n PROVE Whole(RunCells(rows[k])) \in Seq(Characters)
  <2>1. rows[k] \in Seq(Runs)
    BY <1>1, <1>2, ElementOfSeq
  <2> DEFINE r == rows[k]
             q == RunCells(r)
  <2> HIDE DEF r
  <2>2. q \in Seq(Seq(Characters)) /\ Len(q) \in Nat
    BY <2>1, RunCellsType DEF r
  <2> HIDE DEF q
  <2>3. Len(q) \in 0 .. Len(q)
    BY <2>2
  <2>4. Whole(q) \in Seq(Characters)
    BY <2>2, <2>3, JoinedOne DEF Whole
  <2> QED BY <2>4 DEF q, r
<1> DEFINE c == [k \in 1 .. n |-> Whole(RunCells(rows[k]))]
<1>4. c \in [1 .. n -> Seq(Characters)]
  BY <1>3
<1>5. RowCells = c
  BY <1>2 DEF RowCells
<1>6. \A k \in 1 .. n : c[k] = Whole(RunCells(rows[k]))
  OBVIOUS
<1> HIDE DEF c
<1>7. c \in Seq(Seq(Characters)) /\ Len(c) = n
  BY <1>4, SeqDef, LenProperties
<1> QED BY <1>1, <1>2, <1>5, <1>6, <1>7

\* What begins a sequence begins it behind another one too.
LEMMA BeginsAfter ==
  ASSUME NEW S, NEW r \in Seq(S), NEW s \in Seq(S), NEW t \in Seq(S), Begins(s, t)
  PROVE  Begins(r \o s, r \o t)
<1>1. PICK l \in Nat, m \in Nat, n \in Nat : l = Len(r) /\ m = Len(s) /\ n = Len(t)
  OBVIOUS
<1>2. m <= n /\ \A i \in 1 .. m : t[i] = s[i]
  BY <1>1 DEF Begins
<1>3. Len(r \o s) = l + m /\ \A i \in 1 .. l + m : (r \o s)[i] = IF i <= l THEN r[i] ELSE s[i - l]
  BY <1>1, ConcatProperties
<1>4. Len(r \o t) = l + n /\ \A i \in 1 .. l + n : (r \o t)[i] = IF i <= l THEN r[i] ELSE t[i - l]
  BY <1>1, ConcatProperties
<1>5. ASSUME NEW i \in 1 .. l + m PROVE (r \o t)[i] = (r \o s)[i]
  <2>1. i \in 1 .. l + n
    BY <1>2
  <2>2. ~(i <= l) => i - l \in 1 .. m
    OBVIOUS
  <2> QED BY <1>2, <1>3, <1>4, <2>1, <2>2
<1> QED BY <1>2, <1>3, <1>4, <1>5 DEF Begins

\* The cells in front of a run of a row.
Spread(k, j) == Joined(RowCells)[k - 1] \o Joined(RunCells(rows[k]))[j - 1]

\* The rows and the runs of one of them, one after the other.
LEMMA RowsJoined ==
  ASSUME compressed.rows \in Seq(Seq(Runs))
  PROVE  /\ Len(rows) \in Nat
         /\ Joined(RowCells) \in [0 .. Len(rows) -> Seq(Characters)]
         /\ Joined(RowCells)[0] = <<>>
         /\ Joined(RowCells)[Len(rows)] = Expanded
         /\ \A k \in 0 .. Len(rows) : Begins(Joined(RowCells)[k], Expanded)
         /\ \A k \in 1 .. Len(rows) : /\ rows[k] \in Seq(Runs)
                                      /\ RowCells[k] \in Seq(Characters)
                                      /\ Joined(RowCells)[k] = Joined(RowCells)[k - 1] \o RowCells[k]
<1>1. /\ rows \in Seq(Seq(Runs))
      /\ RowCells \in Seq(Seq(Characters))
      /\ Len(RowCells) = Len(rows)
  BY RowCellsType
<1>2. \A k \in 1 .. Len(rows) : rows[k] \in Seq(Runs) /\ RowCells[k] \in Seq(Characters)
  BY <1>1, ElementOfSeq
<1>3. Expanded = Joined(RowCells)[Len(rows)]
  BY <1>1 DEF Expanded, Whole
<1>4. \A k \in 0 .. Len(rows) : Begins(Joined(RowCells)[k], Expanded)
  BY <1>1, JoinedBegins DEF Expanded
<1>5. Len(rows) \in Nat
  BY <1>1
<1>6. /\ Joined(RowCells) \in [0 .. Len(rows) -> Seq(Characters)]
      /\ Joined(RowCells)[0] = <<>>
      /\ \A k \in 1 .. Len(rows) : Joined(RowCells)[k] = Joined(RowCells)[k - 1] \o RowCells[k]
  BY <1>1, JoinedOne
<1> QED BY <1>2, <1>3, <1>4, <1>5, <1>6

LEMMA RunsJoined ==
  ASSUME compressed.rows \in Seq(Seq(Runs)), NEW k \in 1 .. Len(rows)
  PROVE  /\ Joined(RunCells(rows[k])) \in [0 .. Len(rows[k]) -> Seq(Characters)]
         /\ Joined(RunCells(rows[k]))[0] = <<>>
         /\ Joined(RunCells(rows[k]))[Len(rows[k])] = RowCells[k]
         /\ \A j \in 1 .. Len(rows[k]) :
              /\ rows[k][j] \in Runs
              /\ Joined(RunCells(rows[k]))[j]
                   = Joined(RunCells(rows[k]))[j - 1] \o [i \in 1 .. rows[k][j].n |-> rows[k][j].c]
         /\ \A j \in 0 .. Len(rows[k]) : Begins(Joined(RunCells(rows[k]))[j], RowCells[k])
<1>1. rows[k] \in Seq(Runs)
  BY RowsJoined
<1>2. RowCells[k] = Whole(RunCells(rows[k]))
  BY RowCellsType
<1> DEFINE r == rows[k]
           q == RunCells(r)
<1> HIDE DEF r
<1>3. r \in Seq(Runs)
  BY <1>1 DEF r
<1>4. q \in Seq(Seq(Characters)) /\ Len(q) = Len(r) /\ \A j \in 1 .. Len(r) : q[j] = [i \in 1 .. r[j].n |-> r[j].c]
  BY <1>3, RunCellsType
<1> HIDE DEF q
<1>5. /\ Joined(q) \in [0 .. Len(r) -> Seq(Characters)]
      /\ Joined(q)[0] = <<>>
      /\ \A j \in 1 .. Len(r) : Joined(q)[j] = Joined(q)[j - 1] \o q[j]
  BY <1>4, JoinedOne
<1>6. Joined(q)[Len(r)] = Whole(q)
  BY <1>4 DEF Whole
<1>7. \A j \in 0 .. Len(r) : Begins(Joined(q)[j], Whole(q))
  BY <1>4, JoinedBegins
<1>8. \A j \in 1 .. Len(r) : r[j] \in Runs
  BY <1>3, ElementOfSeq
<1>9. RowCells[k] = Whole(q)
  BY <1>2 DEF q, r
<1>10. \A j \in 1 .. Len(r) :
         r[j] \in Runs /\ Joined(q)[j] = Joined(q)[j - 1] \o [i \in 1 .. r[j].n |-> r[j].c]
  BY <1>4, <1>5, <1>8
<1>11. Joined(q)[Len(r)] = RowCells[k] /\ \A j \in 0 .. Len(r) : Begins(Joined(q)[j], RowCells[k])
  BY <1>6, <1>7, <1>9
<1> QED BY <1>5, <1>10, <1>11 DEF q, r

\* The cells in front of a run begin the board, and its own come behind them.
LEMMA SpreadOne ==
  ASSUME compressed.rows \in Seq(Seq(Runs)), NEW k \in 1 .. Len(rows), NEW j \in 1 .. Len(rows[k])
  PROVE  Spread(k, j + 1) = Spread(k, j) \o [i \in 1 .. rows[k][j].n |-> rows[k][j].c]
<1> DEFINE a == Joined(RowCells)[k - 1]
           J == Joined(RunCells(rows[k]))
           c == [i \in 1 .. rows[k][j].n |-> rows[k][j].c]
<1>1. k - 1 \in 0 .. Len(rows) /\ Len(rows[k]) \in Nat
  BY RowsJoined
<1>2. a \in Seq(Characters)
  BY <1>1, RowsJoined
<1>3. J \in [0 .. Len(rows[k]) -> Seq(Characters)] /\ J[j] = J[j - 1] \o c /\ rows[k][j] \in Runs
  BY RunsJoined
<1>4. c \in Seq(Characters)
  BY <1>3, RunIsCells
<1>5. j - 1 \in 0 .. Len(rows[k]) /\ (j + 1) - 1 = j
  BY <1>1
<1>6. Spread(k, j) = a \o J[j - 1] /\ Spread(k, j + 1) = a \o J[j]
  BY <1>5 DEF Spread
<1> HIDE DEF a, J, c
<1>7. J[j - 1] \in Seq(Characters)
  BY <1>3, <1>5
<1>8. PICK x \in Seq(Characters), y \in Seq(Characters), z \in Seq(Characters) :
        x = a /\ y = J[j - 1] /\ z = c
  BY <1>2, <1>4, <1>7
<1>9. (x \o y) \o z = x \o (y \o z)
  BY ConcatAssociative
<1>10. Spread(k, j + 1) = Spread(k, j) \o c
  BY <1>3, <1>6, <1>8, <1>9
<1> QED BY <1>10 DEF c

LEMMA SpreadBegins ==
  ASSUME compressed.rows \in Seq(Seq(Runs)), NEW k \in 1 .. Len(rows), NEW j \in 1 .. Len(rows[k]) + 1
  PROVE  Spread(k, j) \in Seq(Characters) /\ Begins(Spread(k, j), Expanded)
<1> DEFINE a == Joined(RowCells)[k - 1]
           J == Joined(RunCells(rows[k]))
<1>1. k - 1 \in 0 .. Len(rows) /\ k \in 0 .. Len(rows) /\ Len(rows[k]) \in Nat /\ Len(rows) \in 0 .. Len(rows)
  BY RowsJoined
<1>2. j - 1 \in 0 .. Len(rows[k])
  BY <1>1
<1>3. a \in Seq(Characters) /\ Expanded \in Seq(Characters) /\ RowCells[k] \in Seq(Characters)
  BY <1>1, RowsJoined
<1>4. J[j - 1] \in Seq(Characters) /\ Begins(J[j - 1], RowCells[k])
  BY <1>2, RunsJoined
<1>5. Spread(k, j) = a \o J[j - 1]
  BY DEF Spread
<1>6. Begins(a \o RowCells[k], Expanded)
  BY <1>1, RowsJoined
<1> HIDE DEF a, J
<1>7. Begins(a \o J[j - 1], a \o RowCells[k])
  BY <1>3, <1>4, BeginsAfter
<1>8. a \o J[j - 1] \in Seq(Characters) /\ a \o RowCells[k] \in Seq(Characters)
  BY <1>3, <1>4, ConcatProperties
<1> DEFINE x == a \o J[j - 1]
           y == a \o RowCells[k]
<1>9. Begins(x, Expanded)
  <2>1. x \in Seq(Characters) /\ y \in Seq(Characters) /\ Begins(x, y) /\ Begins(y, Expanded)
    BY <1>6, <1>7, <1>8
  <2> HIDE DEF x, y
  <2>2. PICK l \in Nat, m \in Nat, n \in Nat : l = Len(x) /\ m = Len(y) /\ n = Len(Expanded)
    BY <1>3, <2>1
  <2>3. l <= m /\ m <= n
    BY <2>1, <2>2 DEF Begins
  <2>4. \A i \in 1 .. l : i \in 1 .. m
    BY <2>3
  <2> QED BY <2>1, <2>2, <2>3, <2>4 DEF Begins
<1> QED BY <1>5, <1>8, <1>9

\* In front of the first run of a row stand the rows before it, behind the last one
\* this row too.
LEMMA SpreadEnds ==
  ASSUME compressed.rows \in Seq(Seq(Runs)), NEW k \in 1 .. Len(rows)
  PROVE  /\ Spread(k, 1) = Joined(RowCells)[k - 1]
         /\ Spread(k, Len(rows[k]) + 1) = Joined(RowCells)[k]
<1>1. k - 1 \in 0 .. Len(rows) /\ Len(rows[k]) \in Nat
  BY RowsJoined
<1>2. Joined(RowCells)[k - 1] \in Seq(Characters)
  BY <1>1, RowsJoined
<1>3. Joined(RowCells)[k - 1] \o <<>> = Joined(RowCells)[k - 1]
  BY <1>2, ConcatEmptySeq
<1>4. Joined(RunCells(rows[k]))[0] = <<>> /\ Joined(RunCells(rows[k]))[Len(rows[k])] = RowCells[k]
  BY RunsJoined
<1>5. Joined(RowCells)[k] = Joined(RowCells)[k - 1] \o RowCells[k]
  BY RowsJoined
<1>6. 1 - 1 = 0 /\ (Len(rows[k]) + 1) - 1 = Len(rows[k])
  BY <1>1
<1> QED BY <1>3, <1>4, <1>5, <1>6 DEF Spread

\* The characters of the cells.
Kinds == {"S", "E", "G", "W"}

\* In front of run j of row k the board b is what has been read, with n cells in the row.
Filling(k, j, b, n) ==
  /\ compressed.dims # <<>>
  /\ k \in 1 .. Len(rows) + 1
  /\ \A l \in 1 .. k - 1 : Len(RowCells[l]) = width
  /\ k > Len(rows) => b = Expanded
  /\ k <= Len(rows) => /\ j \in 1 .. Len(rows[k]) + 1
                       /\ b = Spread(k, j)
                       /\ n = Len(Joined(RunCells(rows[k]))[j - 1])
  /\ \A i \in 1 .. Len(b) : b[i] \in Kinds

\* What place_food has written to lies in the array.
FoodInside(f) == compressed.dims # <<>> => \A n \in 1 .. Len(f) : f[n] \in 0 .. height * width - 1

SetupInv ==
  /\ compressed.dims \in Dimensions /\ compressed.rows \in Seq(Seq(Runs))
  /\ num_snakes = Snakes(board)
  /\ BoardIsTheString
  /\ status = "running" => IF row = 0 THEN board = <<>> /\ run = 1 /\ num_cells_in_row = 0
                           ELSE Filling(row, run, board, num_cells_in_row)

\* The reading goes on.
LEMMA GoesOn ==
  ASSUME SetupInv, UNCHANGED <<compressed, food>>, status' = "running", row' # 0, num_snakes' = Snakes(board'),
         Len(board') <= height * width, Filling(row', run', board', num_cells_in_row')
  PROVE  SetupInv'
<1>1. compressed' = compressed /\ rows' = rows /\ height' = height /\ width' = width
  BY DEF rows, height, width
<1>2. RowCells' = RowCells /\ Expanded' = Expanded
  BY <1>1 DEF RowCells, Expanded
<1>3. BoardIsTheString'
  BY <1>1 DEF BoardIsTheString, SetupInv
<1>4. Filling(row, run, board, num_cells_in_row)'
  BY <1>1, <1>2 DEF Filling, Spread
<1> QED BY <1>1, <1>3, <1>4 DEF SetupInv

\* The dimensions are numbers.
LEMMA DimensionsAreNumbers ==
  ASSUME compressed.dims \in Dimensions, compressed.dims # <<>>
  PROVE  height \in Nat /\ width \in Nat /\ height * width \in Nat
<1>1. compressed.dims \in Nat \X Nat
  BY SetupAssumption
<1>2. height \in Nat /\ width \in Nat
  BY <1>1 DEF height, width
<1> HIDE DEF height, width
<1> QED BY <1>2

\* A string that is accepted fills the board.
LEMMA AcceptedFills ==
  ASSUME compressed.dims \in Dimensions, compressed.rows \in Seq(Seq(Runs)),
         compressed.dims # <<>>, Len(rows) = height, \A k \in 1 .. Len(rows) : Len(RowCells[k]) = width
  PROVE  Len(Expanded) = height * width
<1>1. RowCells \in Seq(Seq(Characters)) /\ Len(RowCells) = Len(rows)
  BY RowCellsType
<1>2. width \in Nat
  BY DimensionsAreNumbers
<1> HIDE DEF height, width
<1>3. Len(Whole(RowCells)) = Len(RowCells) * width
  BY <1>1, <1>2, JoinedEven
<1> QED BY <1>1, <1>3 DEF Expanded

\* A refusal of a string that is not to be accepted.
LEMMA Refused ==
  ASSUME SetupInv, UNCHANGED compressed, num_snakes' = Snakes(board'),
         compressed.dims # <<>> => Len(board') <= height * width, FoodInside(food'),
         status' \notin {"running", "SUCCESS"}, ~Accepted
  PROVE  SetupInv'
<1>1. compressed' = compressed /\ rows' = rows /\ height' = height /\ width' = width
  BY DEF rows, height, width
<1>2. Accepted' <=> Accepted
  BY <1>1 DEF Accepted, Expanded, RowCells
<1>3. BoardIsTheString'
  BY <1>1, <1>2 DEF BoardIsTheString, FoodInside
<1> QED BY <1>1, <1>3 DEF SetupInv

\* place_food writes to a cell of the array, or a signal ends the program.
LEMMA FoodIsPlaced ==
  ASSUME SetupInv, NEW s, NEW b, PlacesFood(s, b)
  PROVE  FoodInside(food') /\ status' \in {s, "killed"}
<1> DEFINE indices == 0 .. height * width - 1
           plain == {i \in indices : i < Len(b) /\ b[i + 1] \in {"E", "G"}}
           unwritten == {i \in indices : i >= Len(b)}
<1>1. \/ status' = s /\ \E i \in plain \cup unwritten : food' = <<i>>
      \/ status' = "killed" /\ food' = food
  BY DEF PlacesFood
<1>2. plain \cup unwritten \subseteq indices
  OBVIOUS
<1> HIDE DEF plain, unwritten
<1>3. CASE status' = s /\ \E i \in plain \cup unwritten : food' = <<i>>
  <2>1. PICK i \in indices : food' = <<i>>
    BY <1>2, <1>3
  <2> HIDE DEF indices
  <2>2. Len(food') = 1 /\ food'[1] = i
    BY <2>1
  <2>3. \A n \in 1 .. Len(food') : food'[n] \in indices
    BY <2>2
  <2> QED BY <1>3, <2>3 DEF FoodInside, indices
<1>4. CASE status' = "killed" /\ food' = food
  BY <1>4 DEF SetupInv, BoardIsTheString, FoodInside
<1> QED BY <1>1, <1>3, <1>4

\* The empty board has no snakes.
LEMMA NoSnakes == Snakes(<<>>) = 0
<1>1. {i \in 1 .. Len(<<>>) : <<>>[i] = "S"} = {}
  OBVIOUS
<1> QED BY <1>1, FS_EmptySet DEF Snakes

\* The set-up starts with an empty board.
LEMMA SetupStarts == SetupInit => SetupInv
<1> SUFFICES ASSUME SetupInit PROVE SetupInv
  OBVIOUS
<1>1. compressed \in [dims : Dimensions, rows : NextRows]
  BY DEF SetupInit
<1>2. compressed.dims \in Dimensions /\ compressed.rows \in NextRows
  BY <1>1
<1>3. ASSUME NEW S, NEW m \in Nat, NEW s \in BoundedSeq(S, m) PROVE s \in Seq(S)
  <2>1. PICK n \in 0 .. m : s \in [1 .. n -> S]
    BY <1>3 DEF BoundedSeq, SeqOf
  <2> QED BY <2>1, SeqDef
<1>4. compressed.rows \in Seq(BoundedSeq(Runs, MaxRuns))
  BY <1>2, <1>3, SetupAssumption DEF NextRows
<1>5. BoundedSeq(Runs, MaxRuns) \subseteq Seq(Runs)
  BY <1>3, SetupAssumption
<1>6. compressed.rows \in Seq(Seq(Runs))
  BY <1>4, <1>5, SeqMonotonic
<1>7. /\ status = "running" /\ board = <<>> /\ row = 0 /\ run = 1 /\ num_cells_in_row = 0 /\ num_snakes = 0
      /\ food = <<>>
  BY DEF SetupInit
<1>8. BoardIsTheString
  <2>1. compressed.dims # <<>> => Len(board) <= height * width
    <3> SUFFICES ASSUME compressed.dims # <<>> PROVE Len(board) <= height * width
      OBVIOUS
    <3>1. height * width \in Nat
      BY <1>2, DimensionsAreNumbers
    <3>2. Len(board) = 0
      BY <1>7
    <3> HIDE DEF height, width
    <3> QED BY <3>1, <3>2
  <2>2. \A n \in 1 .. Len(food) : food[n] \in 0 .. height * width - 1
    <3>1. 1 .. Len(food) = {}
      BY <1>7
    <3> QED BY <3>1
  <2> QED BY <1>7, <2>1, <2>2 DEF BoardIsTheString
<1> QED BY <1>2, <1>6, <1>7, <1>8, NoSnakes DEF SetupInv

\* The dimensions are read.
LEMMA SetDimensionsInv == ASSUME SetupInv, SetDimensions PROVE SetupInv'
<1>1. /\ compressed' = compressed /\ board' = board /\ board = <<>> /\ run' = run /\ run = 1
      /\ num_cells_in_row' = num_cells_in_row /\ num_cells_in_row = 0 /\ num_snakes' = num_snakes
      /\ compressed.rows \in Seq(Seq(Runs)) /\ compressed.dims \in Dimensions
      /\ num_snakes = Snakes(board) /\ BoardIsTheString
  BY DEF SetupInv, SetDimensions
<1>2. CASE compressed.dims = <<>>
  <2>1. status' \in {"INCORRECT_DIMENSIONS", "killed"}
    BY <1>2 DEF SetDimensions
  <2>2. ~Accepted
    BY <1>2 DEF Accepted
  <2>3. FoodInside(food')
    BY <1>2 DEF FoodInside
  <2>4. status' \notin {"running", "SUCCESS"}
    BY <2>1
  <2> QED BY <1>1, <1>2, <2>2, <2>3, <2>4, Refused
<1>3. CASE compressed.dims # <<>>
  <2>1. row' = 1 /\ status' = "running" /\ food' = food
    BY <1>3 DEF SetDimensions
  <2>2. Len(rows) \in Nat /\ Joined(RowCells)[0] = <<>> /\ Joined(RowCells)[Len(rows)] = Expanded
    BY <1>1, RowsJoined
  <2>3. Len(rows) = 0 => board = Expanded
    BY <1>1, <2>2
  <2>4. 1 <= Len(rows) => /\ run \in 1 .. Len(rows[1]) + 1 /\ board = Spread(1, run)
                          /\ num_cells_in_row = Len(Joined(RunCells(rows[1]))[run - 1])
    <3> SUFFICES ASSUME 1 <= Len(rows) PROVE /\ run \in 1 .. Len(rows[1]) + 1 /\ board = Spread(1, run)
                                             /\ num_cells_in_row = Len(Joined(RunCells(rows[1]))[run - 1])
      OBVIOUS
    <3>1. 1 \in 1 .. Len(rows)
      BY <2>2
    <3>2. Len(rows[1]) \in Nat
      BY <1>1, <3>1, RowsJoined
    <3>3. Spread(1, 1) = <<>>
      BY <1>1, <2>2, <3>1, SpreadEnds
    <3>4. Joined(RunCells(rows[1]))[0] = <<>>
      BY <1>1, <3>1, RunsJoined
    <3> QED BY <1>1, <3>2, <3>3, <3>4
  <2>5. Filling(1, run, board, num_cells_in_row)
    BY <1>1, <1>3, <2>2, <2>3, <2>4 DEF Filling
  <2>6. Len(board) <= height * width
    BY <1>1, <1>3 DEF BoardIsTheString
  <2> QED BY <1>1, <2>1, <2>5, <2>6, GoesOn
<1> QED BY <1>2, <1>3

\* A run is written, or refused.
LEMMA FillRunInv == ASSUME SetupInv, FillRun PROVE SetupInv'
<1>1. /\ compressed.rows \in Seq(Seq(Runs)) /\ compressed.dims \in Dimensions /\ status = "running"
      /\ row \in 1 .. Len(rows) /\ run <= Len(rows[row]) /\ Filling(row, run, board, num_cells_in_row)
      /\ Len(rows) \in Nat
  <2>1. compressed.rows \in Seq(Seq(Runs)) /\ row \in 1 .. Len(rows) /\ run <= Len(rows[row]) /\ status = "running"
    BY DEF SetupInv, FillRun
  <2>2. Len(rows) \in Nat
    BY <2>1, RowsJoined
  <2>3. row # 0
    BY <2>1
  <2> QED BY <2>1, <2>2, <2>3 DEF SetupInv
<1>2. /\ compressed.dims # <<>> /\ board = Spread(row, run) /\ run \in 1 .. Len(rows[row])
      /\ num_cells_in_row = Len(Joined(RunCells(rows[row]))[run - 1])
      /\ \A l \in 1 .. row - 1 : Len(RowCells[l]) = width
      /\ \A i \in 1 .. Len(board) : board[i] \in Kinds
  <2>1. Len(rows[row]) \in Nat
    BY <1>1, RowsJoined
  <2> QED BY <1>1, <2>1 DEF Filling
<1> DEFINE r == rows[row][run]
           o == fill_cells(r)
           c == [i \in 1 .. r.n |-> r.c]
           all == Spread(row, run + 1)
           bad == r.n > 0 /\ r.c \notin Kinds
           room == height * width - Len(board)
           n == IF bad THEN 0 ELSE IF r.n <= room THEN r.n ELSE room
<1>3. /\ compressed' = compressed /\ board' = o.board /\ num_snakes' = Snakes(board')
      /\ IF o.status = "SUCCESS"
         THEN run' = run + 1 /\ num_cells_in_row' = num_cells_in_row + r.n /\ UNCHANGED <<status, row, food>>
         ELSE PlacesFood(o.status, o.board)
  BY DEF FillRun, Answers
<1>4. /\ o.board = board \o [i \in 1 .. n |-> r.c]
      /\ o.status = IF r.n > 0 /\ room = 0 THEN "INCORRECT_DIMENSIONS"
                    ELSE IF bad THEN "BAD_CHAR"
                    ELSE IF r.n > room THEN "INCORRECT_DIMENSIONS" ELSE "SUCCESS"
  BY DEF fill_cells, Kinds
<1>5. r \in Runs /\ r.n \in Nat /\ r.c \in Characters
  <2>1. r \in Runs
    BY <1>1, <1>2, RunsJoined
  <2> HIDE DEF r
  <2> QED BY <2>1, SetupAssumption DEF Characters
<1>6. c \in Seq(Characters) /\ Len(c) = r.n /\ \A i \in 1 .. r.n : c[i] = r.c
  <2> HIDE DEF r
  <2> QED BY <1>5, RunIsCells
<1>7. all = board \o c
  BY <1>1, <1>2, SpreadOne
<1>8. board \in Seq(Characters) /\ Len(board) \in Nat /\ Begins(all, Expanded) /\ run + 1 \in 1 .. Len(rows[row]) + 1
  <2>1. run \in 1 .. Len(rows[row]) + 1 /\ run + 1 \in 1 .. Len(rows[row]) + 1
    BY <1>2
  <2>2. board \in Seq(Characters) /\ Begins(all, Expanded)
    BY <1>1, <1>2, <2>1, SpreadBegins
  <2> QED BY <2>1, <2>2
<1>9. height * width \in Nat /\ Len(board) <= height * width /\ room \in Nat
  <2>1. height * width \in Nat
    BY <1>1, <1>2, DimensionsAreNumbers
  <2>2. Len(board) <= height * width
    BY <1>2 DEF SetupInv, BoardIsTheString
  <2> HIDE DEF height, width
  <2> QED BY <1>8, <2>1, <2>2
<1> HIDE DEF height, width, r, o, c, all
<1> HIDE DEF n
<1>10. PICK x \in Seq(Characters), y \in Seq(Characters) : x = board /\ y = c
  BY <1>6, <1>8
<1>11. Len(x \o y) = Len(x) + Len(y) /\ \A i \in 1 .. Len(x) + Len(y) : (x \o y)[i] = IF i <= Len(x) THEN x[i] ELSE y[i - Len(x)]
  BY ConcatProperties
<1>12. Len(y) = r.n /\ all = x \o y
  BY <1>6, <1>7, <1>10
<1>13. Len(all) = Len(board) + r.n /\ \A i \in 1 .. Len(board) + r.n : all[i] = IF i <= Len(board) THEN board[i] ELSE c[i - Len(board)]
  BY <1>10, <1>11, <1>12
<1>14. CASE o.status = "SUCCESS"
  <2>1. ~bad /\ r.n <= room
    BY <1>4, <1>5, <1>9, <1>14
  <2>2. board' = all /\ n = r.n
    <3>1. n = r.n
      BY <2>1 DEF n
    <3> QED BY <1>3, <1>4, <1>7, <3>1 DEF c
  <2>3. Len(all) = Len(board) + r.n
    BY <1>13
  <2>4. Len(board') <= height * width
    BY <1>5, <1>8, <1>9, <2>1, <2>2, <2>3, SMTT(30)
  <2>5. Filling(row, run + 1, all, num_cells_in_row + r.n)
    <3>1. \A i \in 1 .. Len(all) : all[i] \in Kinds
      <4>1. PICK l \in Nat, m \in Nat : l = Len(board) /\ m = r.n
        BY <1>5, <1>8
      <4>2. \A i \in 1 .. l + m : all[i] = IF i <= l THEN board[i] ELSE c[i - l]
        BY <1>13, <4>1
      <4>3. ASSUME NEW i \in 1 .. l + m PROVE all[i] \in Kinds
        <5>1. CASE i <= l
          BY <1>2, <4>1, <4>2, <5>1
        <5>2. CASE ~(i <= l)
          <6>1. i - l \in 1 .. m /\ m > 0
            BY <5>2
          <6>2. c[i - l] = r.c
            BY <1>6, <4>1, <6>1
          <6>3. r.c \in Kinds
            BY <2>1, <4>1, <6>1
          <6> QED BY <4>2, <5>2, <6>2, <6>3
        <5> QED BY <5>1, <5>2
      <4> QED BY <2>3, <4>1, <4>3
    <3>2. num_cells_in_row + r.n = Len(Joined(RunCells(rows[row]))[(run + 1) - 1])
      <4> DEFINE J == Joined(RunCells(rows[row]))
      <4>1. J \in [0 .. Len(rows[row]) -> Seq(Characters)] /\ J[run] = J[run - 1] \o c
        BY <1>1, <1>2, RunsJoined DEF c, r
      <4>2. Len(rows[row]) \in Nat
        BY <1>1, RowsJoined
      <4>3. run - 1 \in 0 .. Len(rows[row]) /\ (run + 1) - 1 = run
        BY <1>2, <4>2
      <4>4. num_cells_in_row = Len(J[run - 1])
        BY <1>2
      <4> HIDE DEF J
      <4>5. PICK z \in Seq(Characters) : z = J[run - 1]
        BY <4>1, <4>3
      <4>6. Len(z \o c) = Len(z) + r.n
        BY <1>6, ConcatProperties
      <4>7. num_cells_in_row + r.n = Len(J[(run + 1) - 1])
        BY <4>1, <4>3, <4>4, <4>5, <4>6
      <4> QED BY <4>7 DEF J
    <3>3. row \in 1 .. Len(rows) + 1 /\ ~(row > Len(rows))
      BY <1>1
    <3> QED BY <1>2, <1>8, <3>1, <3>2, <3>3 DEF Filling, all
  <2>6. /\ row # 0 /\ row' = row /\ run' = run + 1 /\ status' = "running" /\ num_cells_in_row' = num_cells_in_row + r.n
        /\ food' = food
    BY <1>1, <1>3, <1>14
  <2>7. Filling(row', run', board', num_cells_in_row')
    BY <2>2, <2>5, <2>6
  <2> QED BY <1>3, <2>4, <2>6, <2>7, GoesOn
<1>15. CASE o.status # "SUCCESS"
  <2>1. bad \/ r.n > room
    BY <1>4, <1>9, <1>15
  <2>2. o.status \in {"INCORRECT_DIMENSIONS", "BAD_CHAR"}
    BY <1>4, <1>15
  <2>3. n \in Nat /\ n <= room
    BY <1>5, <1>9 DEF n
  <2>4. Len(board') <= height * width
    <3> DEFINE d == [i \in 1 .. n |-> r.c]
    <3>1. d \in [1 .. n -> Characters]
      BY <1>5
    <3>2. d \in Seq(Characters)
      BY <2>3, <3>1, SeqDef
    <3>3. Len(d) = n
      BY <2>3, <3>1, <3>2, LenProperties
    <3>4. board' = board \o d
      BY <1>3, <1>4
    <3> HIDE DEF d
    <3>5. Len(board') = Len(board) + n
      BY <1>8, <3>2, <3>3, <3>4, ConcatProperties
    <3> QED BY <1>8, <1>9, <2>3, <3>5
  <2>5. ~Accepted
    <3> SUFFICES ASSUME Accepted PROVE FALSE
      OBVIOUS
    <3>1. Len(Expanded) = height * width
      BY <1>1, AcceptedFills DEF Accepted
    <3>2. \A i \in 1 .. Len(Expanded) : Expanded[i] \in Kinds
      BY DEF Accepted, Kinds
    <3>3. PICK l \in Nat, m \in Nat, h \in Nat : l = Len(board) /\ m = r.n /\ h = height * width
      BY <1>5, <1>8, <1>9
    <3>4. Len(all) = l + m /\ \A i \in 1 .. l + m : all[i] = IF i <= l THEN board[i] ELSE c[i - l]
      BY <1>13, <3>3
    <3>5. l + m <= h /\ \A i \in 1 .. l + m : Expanded[i] = all[i]
      BY <1>8, <3>1, <3>3, <3>4 DEF Begins
    <3>6. bad
      BY <2>1, <3>3, <3>5
    <3>7. l + 1 \in 1 .. l + m /\ ~(l + 1 <= l) /\ (l + 1) - l = 1 /\ 1 \in 1 .. m /\ l + 1 \in 1 .. h
      BY <3>3, <3>5, <3>6, SMTT(30)
    <3>8. Expanded[l + 1] = r.c
      BY <1>6, <3>3, <3>4, <3>5, <3>7
    <3>9. Expanded[l + 1] \in Kinds
      BY <3>1, <3>2, <3>3, <3>7
    <3> QED BY <3>6, <3>8, <3>9
  <2>6. FoodInside(food') /\ status' \in {o.status, "killed"}
    <3> HIDE DEF o
    <3> QED BY <1>3, <1>15, FoodIsPlaced
  <2>7. status' \notin {"running", "SUCCESS"}
    BY <2>2, <2>6
  <2> QED BY <1>3, <2>4, <2>5, <2>6, <2>7, Refused
<1> QED BY <1>14, <1>15

\* A row ends.
LEMMA EndRowInv == ASSUME SetupInv, EndRow PROVE SetupInv'
<1>1. /\ compressed.rows \in Seq(Seq(Runs)) /\ compressed.dims \in Dimensions /\ status = "running"
      /\ row \in 1 .. Len(rows) /\ run > Len(rows[row]) /\ Filling(row, run, board, num_cells_in_row)
      /\ num_snakes = Snakes(board) /\ Len(rows) \in Nat
  <2>1. compressed.rows \in Seq(Seq(Runs)) /\ row \in 1 .. Len(rows) /\ run > Len(rows[row]) /\ status = "running"
    BY DEF SetupInv, EndRow
  <2>2. Len(rows) \in Nat
    BY <2>1, RowsJoined
  <2>3. row # 0
    BY <2>1
  <2> QED BY <2>1, <2>2, <2>3 DEF SetupInv
<1>2. /\ compressed.dims # <<>> /\ board = Spread(row, run) /\ run = Len(rows[row]) + 1
      /\ num_cells_in_row = Len(RowCells[row])
      /\ \A l \in 1 .. row - 1 : Len(RowCells[l]) = width
      /\ \A i \in 1 .. Len(board) : board[i] \in Kinds
  <2>1. Len(rows[row]) \in Nat
    BY <1>1, RowsJoined
  <2>2. /\ compressed.dims # <<>> /\ board = Spread(row, run) /\ run \in 1 .. Len(rows[row]) + 1
        /\ num_cells_in_row = Len(Joined(RunCells(rows[row]))[run - 1])
        /\ \A l \in 1 .. row - 1 : Len(RowCells[l]) = width
        /\ \A i \in 1 .. Len(board) : board[i] \in Kinds
    BY <1>1 DEF Filling
  <2>3. run = Len(rows[row]) + 1 /\ run - 1 = Len(rows[row])
    BY <1>1, <2>1, <2>2, SMTT(30)
  <2>4. Joined(RunCells(rows[row]))[Len(rows[row])] = RowCells[row]
    BY <1>1, RunsJoined
  <2> QED BY <2>2, <2>3, <2>4
<1>3. compressed' = compressed /\ board' = board /\ num_snakes' = Snakes(board')
  <2>1. compressed' = compressed /\ board' = board /\ num_snakes' = num_snakes
    BY DEF EndRow, Answers
  <2> QED BY <1>1, <2>1
<1>4. Len(board') <= height * width
  BY <1>2, <1>3 DEF SetupInv, BoardIsTheString
<1>5. CASE num_cells_in_row = width
  <2>1. status' = "running" /\ row' = row + 1 /\ run' = 1 /\ num_cells_in_row' = 0 /\ food' = food
    BY <1>1, <1>5 DEF EndRow
  <2>2. board = Joined(RowCells)[row]
    BY <1>1, <1>2, SpreadEnds
  <2>3. Filling(row + 1, 1, board, 0)
    <3>1. row + 1 \in 1 .. Len(rows) + 1
      BY <1>1
    <3>2. ASSUME NEW l \in 1 .. (row + 1) - 1 PROVE Len(RowCells[l]) = width
      <4>1. l = row \/ l \in 1 .. row - 1
        BY <1>1
      <4> QED BY <1>2, <1>5, <4>1
    <3>3. row + 1 > Len(rows) => board = Expanded
      <4>1. row + 1 > Len(rows) => row = Len(rows)
        BY <1>1
      <4> QED BY <1>1, <2>2, <4>1, RowsJoined
    <3>4. ASSUME row + 1 <= Len(rows)
          PROVE  /\ 1 \in 1 .. Len(rows[row + 1]) + 1 /\ board = Spread(row + 1, 1)
                 /\ 0 = Len(Joined(RunCells(rows[row + 1]))[1 - 1])
      <4>1. PICK k \in 1 .. Len(rows) : k = row + 1 /\ k - 1 = row
        BY <1>1, <3>4
      <4>2. Len(rows[k]) \in Nat
        BY <1>1, RowsJoined
      <4>3. Spread(k, 1) = Joined(RowCells)[k - 1]
        BY <1>1, SpreadEnds
      <4>4. Len(Joined(RunCells(rows[k]))[1 - 1]) = 0
        <5>1. Joined(RunCells(rows[k]))[0] = <<>>
          BY <1>1, RunsJoined
        <5> QED BY <5>1
      <4> QED BY <2>2, <4>1, <4>2, <4>3, <4>4
    <3> QED BY <1>2, <3>1, <3>2, <3>3, <3>4 DEF Filling
  <2>4. row + 1 # 0
    BY <1>1
  <2>5. Filling(row', run', board', num_cells_in_row')
    BY <1>3, <2>1, <2>3
  <2> QED BY <1>3, <1>4, <2>1, <2>4, <2>5, GoesOn
<1>6. CASE num_cells_in_row # width
  <2>1. PlacesFood("INCORRECT_DIMENSIONS", board)
    BY <1>6 DEF EndRow, Answers
  <2>2. FoodInside(food') /\ status' \in {"INCORRECT_DIMENSIONS", "killed"}
    BY <2>1, FoodIsPlaced
  <2>3. status' \notin {"running", "SUCCESS"}
    BY <2>2
  <2>4. ~Accepted
    BY <1>1, <1>2, <1>6 DEF Accepted
  <2> QED BY <1>3, <1>4, <2>2, <2>3, <2>4, Refused
<1> QED BY <1>5, <1>6

\* The last row has been read.
LEMMA EndBoardInv == ASSUME SetupInv, EndBoard PROVE SetupInv'
<1>1. /\ compressed.rows \in Seq(Seq(Runs)) /\ compressed.dims \in Dimensions /\ status = "running"
      /\ row > Len(rows) /\ num_snakes = Snakes(board) /\ Len(rows) \in Nat
      /\ Filling(row, run, board, num_cells_in_row)
  <2>1. compressed.rows \in Seq(Seq(Runs)) /\ row > Len(rows) /\ status = "running"
    BY DEF SetupInv, EndBoard
  <2>2. Len(rows) \in Nat
    BY <2>1, RowsJoined
  <2>3. row # 0
    BY <2>1, <2>2
  <2> QED BY <2>1, <2>2, <2>3 DEF SetupInv
<1>2. /\ compressed.dims # <<>> /\ board = Expanded /\ row = Len(rows) + 1
      /\ \A l \in 1 .. Len(rows) : Len(RowCells[l]) = width
      /\ \A i \in 1 .. Len(board) : board[i] \in Kinds
  <2>1. row = Len(rows) + 1 /\ row - 1 = Len(rows)
    BY <1>1 DEF Filling
  <2> QED BY <1>1, <2>1 DEF Filling
<1>3. compressed' = compressed /\ board' = board /\ num_snakes' = Snakes(board')
  <2>1. compressed' = compressed /\ board' = board /\ num_snakes' = num_snakes
    BY DEF EndBoard, Answers
  <2> QED BY <1>1, <2>1
<1>4. Len(board') <= height * width
  BY <1>2, <1>3 DEF SetupInv, BoardIsTheString
<1> DEFINE s == IF Len(rows) # height THEN "INCORRECT_DIMENSIONS"
                ELSE IF num_snakes # 1 THEN "WRONG_SNAKE_NUM" ELSE "SUCCESS"
<1>5. PlacesFood(s, board) /\ FoodInside(food') /\ status' \in {s, "killed"}
  <2>1. PlacesFood(s, board)
    BY DEF EndBoard, Answers
  <2> HIDE DEF s
  <2> QED BY <2>1, FoodIsPlaced
<1>6. CASE Len(rows) # height \/ num_snakes # 1
  <2>1. status' \notin {"running", "SUCCESS"}
    BY <1>5, <1>6
  <2>2. ~Accepted
    BY <1>1, <1>2, <1>6 DEF Accepted
  <2> QED BY <1>3, <1>4, <1>5, <2>1, <2>2, Refused
<1>7. CASE Len(rows) = height /\ num_snakes = 1
  <2>1. PlacesFood("SUCCESS", board) /\ status' \in {"SUCCESS", "killed"}
    BY <1>5, <1>7
  <2>2. Accepted
    BY <1>1, <1>2, <1>7 DEF Accepted, Kinds
  <2>3. PICK h \in Nat : h = height * width /\ Len(board) = h
    BY <1>1, <1>2, <1>7, AcceptedFills, DimensionsAreNumbers
  <2>4. PICK i \in 0 .. h :
          /\ \A j \in 1 .. i : j <= Len(board) => board[j] # "S"
          /\ (i < h /\ i < Len(board)) => board[i + 1] = "S"
          /\ start' = IF i = h THEN start ELSE i
    BY <2>3 DEF EndBoard, Answers
  <2>5. i # h
    <3> SUFFICES ASSUME i = h PROVE FALSE
      OBVIOUS
    <3>1. {j \in 1 .. Len(board) : board[j] = "S"} = {}
      BY <2>3, <2>4
    <3>2. Snakes(board) = Cardinality({})
      BY <3>1 DEF Snakes
    <3>3. Cardinality({}) = 0
      BY FS_EmptySet
    <3>4. Snakes(board) = 1
      BY <1>1, <1>7
    <3> QED BY <3>2, <3>3, <3>4
  <2>6. board[start' + 1] = "S"
    BY <2>3, <2>4, <2>5
  <2>7. rows' = rows /\ height' = height /\ width' = width
    BY <1>3 DEF rows, height, width
  <2>8. Accepted' /\ Expanded' = Expanded
    BY <1>3, <2>2, <2>7 DEF Accepted, Expanded, RowCells
  <2>a. status' = "SUCCESS" => \E k \in 1 .. Len(board) : food' = <<k - 1>> /\ board[k] \in {"E", "G"}
    <3>1. {k \in 0 .. h - 1 : k >= Len(board)} = {}
      BY <2>3
    <3>2. status' = "SUCCESS" => \E k \in {k \in 0 .. h - 1 : k < Len(board) /\ board[k + 1] \in {"E", "G"}} : food' = <<k>>
      BY <2>1, <2>3, <3>1 DEF PlacesFood
    <3>3. \A k \in 0 .. h - 1 : k + 1 \in 1 .. Len(board) /\ (k + 1) - 1 = k
      BY <2>3
    <3> QED BY <3>2, <3>3
  <2>9. BoardIsTheString'
    <3>1. compressed'.dims # <<>> => /\ Len(board') <= height' * width'
                                     /\ \A n \in 1 .. Len(food') : food'[n] \in 0 .. height' * width' - 1
      BY <1>3, <1>4, <1>5, <2>7 DEF FoodInside
    <3>2. status' = "SUCCESS" => /\ board' = Expanded' /\ board'[start' + 1] = "S"
                                 /\ \E k \in 1 .. Len(board') : food' = <<k - 1>> /\ board'[k] \in {"E", "G"}
      BY <1>2, <1>3, <2>6, <2>8, <2>a
    <3> QED BY <2>1, <2>8, <3>1, <3>2 DEF BoardIsTheString
  <2> QED BY <1>1, <1>3, <2>1, <2>9 DEF SetupInv
<1> QED BY <1>6, <1>7

\* A board is accepted exactly when its string describes one of its dimensions with one
\* snake on it, and is then the board of the string with the first food on a free cell;
\* and once the dimensions are read nothing is written outside the array:
\* decompress_board_str, the search for the snake and place_food, for every string and
\* all dimensions.
THEOREM BoardIsRight == SetupSpec => []BoardIsTheString
<1>1. SetupInv /\ [SetupNext]_setupVars => SetupInv'
  <2> SUFFICES ASSUME SetupInv, [SetupNext]_setupVars PROVE SetupInv'
    OBVIOUS
  <2>1. CASE UNCHANGED setupVars
    <3>1. /\ compressed' = compressed /\ status' = status /\ board' = board /\ row' = row /\ run' = run
          /\ num_cells_in_row' = num_cells_in_row /\ num_snakes' = num_snakes /\ start' = start /\ food' = food
      BY <2>1 DEF setupVars
    <3>2. rows' = rows /\ height' = height /\ width' = width
      BY <3>1 DEF rows, height, width
    <3>3. RowCells' = RowCells /\ Expanded' = Expanded
      BY <3>1, <3>2 DEF RowCells, Expanded
    <3>4. BoardIsTheString'
      BY <3>1, <3>2, <3>3 DEF SetupInv, BoardIsTheString, Accepted
    <3>5. Filling(row, run, board, num_cells_in_row) => Filling(row, run, board, num_cells_in_row)'
      BY <3>1, <3>2, <3>3 DEF Filling, Spread
    <3> QED BY <3>1, <3>4, <3>5 DEF SetupInv
  <2> QED BY <2>1, SetDimensionsInv, FillRunInv, EndRowInv, EndBoardInv DEF SetupNext
<1>2. SetupInv => BoardIsTheString
  BY DEF SetupInv
<1> QED BY SetupStarts, <1>1, <1>2, PTL DEF SetupSpec
=============================================================================
