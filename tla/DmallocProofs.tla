--------------------------- MODULE DmallocProofs ---------------------------
(***************************************************************************)
(* Proofs about Dmalloc, for every heap, every set of sizes and every      *)
(* number of calls.  The inductive invariant relates the pieces that       *)
(* malloc() has handed out, the two tables of the base allocator, the      *)
(* pointers of the program and the words of the headers and footers: what  *)
(* dfree reads there is what dmalloc has written, whatever the program has *)
(* copied or overrun since.                                                *)
(***************************************************************************)
EXTENDS Dmalloc, FiniteSetTheorems, TLAPS

Piece == [ptr : Nat, size : Nat]

\* The type invariant.
TypeOK ==
  /\ mem \in [Heap -> Int]
  /\ pieces \subseteq Piece /\ allocs \subseteq Piece /\ frees \subseteq Piece
  /\ g_active \subseteq Heap
  /\ g_stats \in [nactive : Int, active_size : Int, ntotal : Nat, total_size : Nat,
                  nfail : Nat, fail_size : Nat, heap_min : Nat, heap_max : Nat]
  /\ aborted \in BOOLEAN

Even(a) == a % A = 0

\* The address a is in the piece q, and pieces that do not meet.
In(a, q) == q.ptr <= a /\ a < q.ptr + q.size
Apart(q, r) == q.ptr + q.size <= r.ptr \/ r.ptr + r.size <= q.ptr

\* Pieces are aligned, have room for a header and a footer, and do not meet.
PieceInv ==
  /\ \A q \in pieces : /\ q.ptr >= 1 /\ Even(q.ptr) /\ q.size >= 7 /\ q.ptr + q.size <= HeapEnd + 1
  /\ \A q, r \in pieces : q = r \/ Apart(q, r)

\* Every piece is in one entry of one of the two tables, which is not larger than the piece;
\* the program's pointers are those of the entries in use.
TableInv ==
  /\ \A x \in allocs \cup frees : \E q \in pieces : q.ptr = x.ptr /\ x.size <= q.size
  /\ \A q \in pieces : \E x \in allocs \cup frees : x.ptr = q.ptr
  /\ \A x, y \in allocs \cup frees : x.ptr = y.ptr => x = y
  /\ \A x \in allocs : x.size >= 7 /\ x \notin frees /\ x.ptr + 6 \in g_active
  /\ \A p \in g_active : \E x \in allocs : p = x.ptr + 6

\* The words of headers and footers.
HeaderInv ==
  /\ \A q \in pieces : /\ mem[q.ptr] = q.ptr + 6 /\ mem[q.ptr + 3] = BOUND_VAL
                       /\ mem[q.ptr + 4] = 0 /\ mem[q.ptr + 5] = 0
  /\ \A x \in allocs : /\ mem[x.ptr + 1] = x.size - 7 /\ mem[x.ptr + 2] = IS_ALLOC
                       /\ mem[x.ptr + x.size - 1] = IF x.ptr + 6 \in overrun THEN Data ELSE BOUND_VAL
  /\ \A x \in frees : mem[x.ptr + 2] = 0

\* What is not in a piece has never been written, and a word that looks like the first of a
\* header is one.
StrayInv ==
  /\ \A a \in Heap : (\A q \in pieces : ~In(a, q)) => mem[a] = 0
  /\ \A a \in Heap : Even(a) /\ mem[a] = a + 6 => \E q \in pieces : q.ptr = a

\* The recorded bounds of the heap, and the number of live blocks.
BoundsInv ==
  /\ g_stats.heap_min >= 8
  /\ \A q \in pieces : g_stats.heap_min <= q.ptr + 6
  /\ \A x \in allocs : x.ptr + x.size - 1 <= g_stats.heap_max
  /\ g_stats.nactive = Cardinality(g_active)

IInv == TypeOK /\ PieceInv /\ TableInv /\ HeaderInv /\ StrayInv /\ BoundsInv
-----------------------------------------------------------------------------
(* Addresses and pieces *)

\* The constants, and the addresses of the heap.
LEMMA Consts ==
  /\ HeapEnd \in Nat /\ SizeMax \in Nat /\ SizeMax >= 8 /\ HeapEnd < SizeMax
  /\ \A a : a \in Heap <=> a \in Nat /\ a >= 1 /\ a <= HeapEnd
  /\ hdr_sz = 6 /\ ftr_sz = 1
  BY DmallocAssumption DEF Heap, hdr_sz, ftr_sz

\* Alignment.
LEMMA EvenFacts ==
  ASSUME NEW a \in Nat
  PROVE  /\ Even(a) => Even(a + 6) /\ ~Even(a + 1) /\ ~Even(a + 3) /\ ~Even(a + 5)
         /\ Even(a + 6) => Even(a)
  BY DEF Even, A

\* The fields of pieces and entries.
LEMMA Fields ==
  ASSUME TypeOK
  PROVE  /\ \A q \in pieces : q.ptr \in Nat /\ q.size \in Nat
         /\ \A x \in allocs : x.ptr \in Nat /\ x.size \in Nat
         /\ \A x \in frees : x.ptr \in Nat /\ x.size \in Nat
  BY DEF TypeOK, Piece

\* An address is in one piece.
LEMMA OnePiece ==
  ASSUME TypeOK, PieceInv, NEW q \in pieces, NEW r \in pieces, NEW a \in Int, In(a, q), In(a, r)
  PROVE  q = r
<1>1. q.ptr \in Nat /\ q.size \in Nat /\ r.ptr \in Nat /\ r.size \in Nat
  BY Fields
<1>2. ~Apart(q, r)
  BY <1>1 DEF Apart, In
<1> QED
  BY <1>2 DEF PieceInv

\* The first words of a piece are in it and in the heap.
LEMMA HeaderWords ==
  ASSUME TypeOK, PieceInv, NEW q \in pieces, NEW n \in 0 .. 5
  PROVE  q.ptr + n \in Heap /\ In(q.ptr + n, q)
<1>1. /\ q.ptr \in Nat /\ q.size \in Nat /\ q.ptr >= 1 /\ q.size >= 7 /\ q.ptr + q.size <= HeapEnd + 1
  BY Fields DEF PieceInv
<1> QED
  BY <1>1, Consts DEF In

\* The piece of an entry of the tables.
LEMMA PieceOf ==
  ASSUME TypeOK, PieceInv, TableInv, NEW x \in allocs \cup frees
  PROVE  \E q \in pieces : /\ q.ptr = x.ptr /\ x.size <= q.size /\ q.ptr \in Nat /\ q.size \in Nat
                           /\ x.size \in Nat /\ q.ptr >= 1 /\ q.ptr + q.size <= HeapEnd + 1 /\ Even(q.ptr)
<1>1. PICK q \in pieces : q.ptr = x.ptr /\ x.size <= q.size
  BY DEF TableInv
<1>2. q.ptr \in Nat /\ q.size \in Nat /\ x.size \in Nat
  BY Fields
<1> QED
  BY <1>1, <1>2 DEF PieceInv

\* The block of a pointer of the program: its entry, its piece and its size.
LEMMA BlockOf ==
  ASSUME IInv, NEW p \in g_active
  PROVE  \E x \in allocs, q \in pieces :
           /\ p = x.ptr + 6 /\ q.ptr = x.ptr /\ x.size >= 7 /\ x.size <= q.size
           /\ x.ptr \in Nat /\ x.size \in Nat /\ q.size \in Nat
           /\ x.ptr >= 1 /\ x.ptr + q.size <= HeapEnd + 1 /\ Even(x.ptr)
           /\ p - hdr_sz = x.ptr /\ mem[p - hdr_sz + 1] = x.size - 7
<1>1. PICK x \in allocs : p = x.ptr + 6
  BY DEF IInv, TableInv
<1>2. x.ptr \in Nat /\ x.size \in Nat /\ x.size >= 7
  BY Fields DEF IInv, TableInv
<1>3. PICK q \in pieces : /\ q.ptr = x.ptr /\ x.size <= q.size /\ q.ptr \in Nat /\ q.size \in Nat
                          /\ q.ptr >= 1 /\ q.ptr + q.size <= HeapEnd + 1 /\ Even(q.ptr)
  BY PieceOf DEF IInv
<1>4. p - hdr_sz = x.ptr
  BY <1>1, <1>2, Consts
<1>5. mem[p - hdr_sz + 1] = x.size - 7
  BY <1>4 DEF IInv, HeaderInv
<1> QED
  BY <1>1, <1>2, <1>3, <1>4, <1>5

\* Entries in use with different pointers have blocks in different pieces.
LEMMA BlocksApart ==
  ASSUME TypeOK, PieceInv, TableInv, NEW x \in allocs, NEW y \in allocs \cup frees, x.ptr # y.ptr
  PROVE  x.ptr + x.size <= y.ptr \/ y.ptr + y.size <= x.ptr
<1>1. PICK q \in pieces : q.ptr = x.ptr /\ x.size <= q.size /\ q.ptr \in Nat /\ q.size \in Nat /\ x.size \in Nat
  BY PieceOf
<1>2. PICK r \in pieces : r.ptr = y.ptr /\ y.size <= r.size /\ r.ptr \in Nat /\ r.size \in Nat /\ y.size \in Nat
  BY PieceOf
<1>3. Apart(q, r)
  BY <1>1, <1>2 DEF PieceInv
<1> QED
  BY <1>1, <1>2, <1>3 DEF Apart

-----------------------------------------------------------------------------
(* What the program writes *)

\* A write between the header and the end of a live block changes no header and no other footer.
LEMMA UserWrite ==
  ASSUME IInv, UNCHANGED <<pieces, allocs, frees, g_active, g_stats, aborted>>, mem' \in [Heap -> Int],
         NEW x \in allocs,
         \A a \in Heap : mem'[a] # mem[a] => x.ptr + 6 <= a /\ a <= x.ptr + x.size - 1,
         \A y \in allocs : y # x => (y.ptr + 6 \in overrun' <=> y.ptr + 6 \in overrun),
         mem'[x.ptr + x.size - 1] = IF x.ptr + 6 \in overrun' THEN Data ELSE BOUND_VAL,
         \A a \in Heap : Even(a) /\ mem'[a] = a + 6 => mem'[a] = mem[a]
  PROVE  IInv'
<1>1. PICK q \in pieces : /\ q.ptr = x.ptr /\ x.size <= q.size /\ q.ptr \in Nat /\ q.size \in Nat
                          /\ x.size \in Nat /\ q.ptr >= 1 /\ q.ptr + q.size <= HeapEnd + 1
  BY PieceOf DEF IInv
<1>2. x.size >= 7
  BY DEF IInv, TableInv
<1>3. \A a \in Heap : mem'[a] # mem[a] => In(a, q)
  BY <1>1, <1>2, Consts DEF In
<1>4. ASSUME NEW r \in pieces, NEW n \in 0 .. 5 PROVE mem'[r.ptr + n] = mem[r.ptr + n]
  <2>1. r.ptr + n \in Heap /\ In(r.ptr + n, r)
    BY HeaderWords DEF IInv
  <2>2. CASE r = q
    BY <1>1, <1>2, <2>1, <2>2
  <2>3. CASE r # q
    <3>1. r.ptr + n \in Int
      BY <2>1, Consts
    <3>2. ~In(r.ptr + n, q)
      BY <2>1, <2>3, <3>1, OnePiece DEF IInv
    <3> QED
      BY <1>3, <2>1, <3>2
  <2> QED
    BY <2>2, <2>3
<1>5. TypeOK' /\ PieceInv' /\ TableInv' /\ BoundsInv'
  BY DEF IInv, TypeOK, PieceInv, TableInv, BoundsInv
<1>6. ASSUME NEW r \in pieces
      PROVE  /\ mem'[r.ptr] = mem[r.ptr] /\ mem'[r.ptr + 1] = mem[r.ptr + 1]
             /\ mem'[r.ptr + 2] = mem[r.ptr + 2] /\ mem'[r.ptr + 3] = mem[r.ptr + 3]
             /\ mem'[r.ptr + 4] = mem[r.ptr + 4] /\ mem'[r.ptr + 5] = mem[r.ptr + 5]
  <2>1. r.ptr \in Nat /\ r.ptr + 0 = r.ptr
    BY Fields DEF IInv
  <2> QED
    BY <1>4, <2>1
<1>7. ASSUME NEW y \in allocs, y # x PROVE mem'[y.ptr + y.size - 1] = mem[y.ptr + y.size - 1]
  <2>1. PICK r \in pieces : /\ r.ptr = y.ptr /\ y.size <= r.size /\ r.ptr \in Nat /\ r.size \in Nat
                            /\ y.size \in Nat /\ r.ptr >= 1 /\ r.ptr + r.size <= HeapEnd + 1
    BY PieceOf DEF IInv
  <2>2. y.size >= 7 /\ y.ptr # x.ptr
    BY <1>7 DEF IInv, TableInv
  <2>3. x.ptr + x.size <= y.ptr \/ y.ptr + y.size <= x.ptr
    BY <2>2, BlocksApart DEF IInv
  <2>4. y.ptr + y.size - 1 \in Heap
    BY <2>1, <2>2, Consts
  <2>5. ~(x.ptr + 6 <= y.ptr + y.size - 1 /\ y.ptr + y.size - 1 <= x.ptr + x.size - 1)
    BY <1>1, <2>1, <2>2, <2>3
  <2> QED
    BY <2>4, <2>5
<1>8. HeaderInv'
  <2>1. \A r \in pieces : /\ mem'[r.ptr] = r.ptr + 6 /\ mem'[r.ptr + 3] = BOUND_VAL
                          /\ mem'[r.ptr + 4] = 0 /\ mem'[r.ptr + 5] = 0
    BY <1>6 DEF IInv, HeaderInv
  <2>2. ASSUME NEW y \in allocs \cup frees
        PROVE  mem'[y.ptr + 1] = mem[y.ptr + 1] /\ mem'[y.ptr + 2] = mem[y.ptr + 2]
    <3>1. PICK r \in pieces : r.ptr = y.ptr
      BY DEF IInv, TableInv
    <3> QED
      BY <1>6, <3>1
  <2>3. ASSUME NEW y \in allocs
        PROVE  mem'[y.ptr + y.size - 1] = IF y.ptr + 6 \in overrun' THEN Data ELSE BOUND_VAL
    <3>1. CASE y = x
      BY <3>1
    <3>2. CASE y # x
      <4>1. mem[y.ptr + y.size - 1] = IF y.ptr + 6 \in overrun THEN Data ELSE BOUND_VAL
        BY DEF IInv, HeaderInv
      <4> QED
        BY <1>7, <3>2, <4>1
    <3> QED
      BY <3>1, <3>2
  <2> QED
    BY <2>1, <2>2, <2>3 DEF IInv, HeaderInv
<1>9. StrayInv'
  <2>1. \A a \in Heap : (\A r \in pieces : ~In(a, r)) => mem'[a] = 0
    BY <1>3 DEF IInv, StrayInv
  <2>2. \A a \in Heap : Even(a) /\ mem'[a] = a + 6 => \E r \in pieces : r.ptr = a
    BY DEF IInv, StrayInv
  <2> QED
    BY <2>1, <2>2 DEF StrayInv
<1> QED
  BY <1>5, <1>8, <1>9 DEF IInv

\* The program writes one word too many: the footer is lost, and nothing else.
LEMMA OverrunStep == ASSUME IInv, NEW p \in g_active, Overrun(p) PROVE IInv'
<1>1. PICK x \in allocs, q \in pieces :
           /\ p = x.ptr + 6 /\ q.ptr = x.ptr /\ x.size >= 7 /\ x.size <= q.size
           /\ x.ptr \in Nat /\ x.size \in Nat /\ q.size \in Nat
           /\ x.ptr >= 1 /\ x.ptr + q.size <= HeapEnd + 1
           /\ mem[p - hdr_sz + 1] = x.size - 7
  BY BlockOf
<1>2. p + mem[p - hdr_sz + 1] = x.ptr + x.size - 1
  BY <1>1
<1>3. /\ mem' = [mem EXCEPT ![x.ptr + x.size - 1] = Data]
      /\ overrun' = overrun \cup {p}
      /\ UNCHANGED <<pieces, allocs, frees, g_active, g_stats, aborted>>
  BY <1>2 DEF Overrun
<1>4. x.ptr + x.size - 1 \in Heap /\ x.ptr + 6 <= x.ptr + x.size - 1
  BY <1>1, Consts
<1> DEFINE a0 == x.ptr + x.size - 1
<1> HIDE DEF a0
<1>5. /\ mem' \in [Heap -> Int] /\ mem'[a0] = Data
      /\ \A a \in Heap : a # a0 => mem'[a] = mem[a]
  BY <1>3, <1>4 DEF IInv, TypeOK, Data, a0
<1>6. \A a \in Heap : mem'[a] # mem[a] => x.ptr + 6 <= a /\ a <= x.ptr + x.size - 1
  <2>1. \A a \in Heap : a = a0 => x.ptr + 6 <= a /\ a <= x.ptr + x.size - 1
    BY <1>1, <1>4 DEF a0
  <2> QED
    BY <1>5, <2>1
<1>7. \A y \in allocs : y # x => (y.ptr + 6 \in overrun' <=> y.ptr + 6 \in overrun)
  <2>1. \A y \in allocs : y # x => y.ptr # x.ptr /\ y.ptr \in Nat
    BY Fields DEF IInv, TableInv
  <2>2. \A y \in allocs : y # x => y.ptr + 6 # p
    BY <1>1, <2>1
  <2> QED
    BY <1>3, <2>2
<1>8. mem'[x.ptr + x.size - 1] = IF x.ptr + 6 \in overrun' THEN Data ELSE BOUND_VAL
  BY <1>1, <1>3, <1>5 DEF a0
<1>9. \A a \in Heap : Even(a) /\ mem'[a] = a + 6 => mem'[a] = mem[a]
  <2>1. \A a \in Heap : a + 6 # Data
    BY Consts DEF Data
  <2> QED
    BY <1>5, <2>1
<1> QED
  BY <1>3, <1>5, <1>6, <1>7, <1>8, <1>9, UserWrite

\* The program copies a block, its header included: no copy looks like a header at its place.
LEMMA CopyStep ==
  ASSUME IInv, NEW from \in g_active, NEW to \in g_active, CopyBlock(from, to)
  PROVE  IInv'
<1>1. PICK x \in allocs, q \in pieces :
           /\ to = x.ptr + 6 /\ q.ptr = x.ptr /\ x.size >= 7 /\ x.size <= q.size
           /\ x.ptr \in Nat /\ x.size \in Nat /\ q.size \in Nat
           /\ x.ptr >= 1 /\ x.ptr + q.size <= HeapEnd + 1 /\ Even(x.ptr)
           /\ to - hdr_sz = x.ptr /\ mem[to - hdr_sz + 1] = x.size - 7
  BY BlockOf
<1>2. PICK y \in allocs, r \in pieces :
           /\ from = y.ptr + 6 /\ r.ptr = y.ptr
           /\ y.ptr \in Nat /\ y.ptr >= 1 /\ y.ptr + r.size <= HeapEnd + 1 /\ Even(y.ptr)
           /\ from - hdr_sz = y.ptr
  BY BlockOf
<1>3. /\ mem[to - hdr_sz + 1] >= hdr_sz
      /\ mem' = [a \in Heap |-> IF a >= to /\ a < to + hdr_sz THEN mem[from - hdr_sz + a - to] ELSE mem[a]]
      /\ UNCHANGED <<pieces, allocs, frees, g_active, g_stats, aborted, overrun>>
  BY DEF CopyBlock
<1>4. x.size - 7 >= 6
  BY <1>1, <1>3, Consts
<1>5. \A a \in Heap : /\ mem'[a] = IF a >= x.ptr + 6 /\ a < x.ptr + 12 THEN mem[y.ptr + (a - (x.ptr + 6))] ELSE mem[a]
                      /\ a >= x.ptr + 6 /\ a < x.ptr + 12 => a - (x.ptr + 6) \in 0 .. 5
  <2> SUFFICES ASSUME NEW a \in Heap
               PROVE  /\ mem'[a] = IF a >= x.ptr + 6 /\ a < x.ptr + 12 THEN mem[y.ptr + (a - (x.ptr + 6))] ELSE mem[a]
                      /\ a >= x.ptr + 6 /\ a < x.ptr + 12 => a - (x.ptr + 6) \in 0 .. 5
    OBVIOUS
  <2>1. a \in Nat
    BY Consts
  <2>2. from - hdr_sz + a - to = y.ptr + (a - (x.ptr + 6)) /\ to + hdr_sz = x.ptr + 12
    BY <1>1, <1>2, <2>1, Consts
  <2>3. mem'[a] = IF a >= to /\ a < to + hdr_sz THEN mem[from - hdr_sz + a - to] ELSE mem[a]
    BY <1>3
  <2>4. mem'[a] = IF a >= x.ptr + 6 /\ a < x.ptr + 12 THEN mem[y.ptr + (a - (x.ptr + 6))] ELSE mem[a]
    BY <1>1, <2>2, <2>3
  <2> QED
    BY <1>1, <2>1, <2>4
<1>6. \A n \in 0 .. 5 : y.ptr + n \in Heap
  BY <1>2, HeaderWords DEF IInv
<1>7. mem' \in [Heap -> Int]
  <2>1. \A a \in Heap : mem'[a] \in Int
    BY <1>5, <1>6 DEF IInv, TypeOK
  <2> QED
    BY <1>3, <2>1
<1>8. \A a \in Heap : mem'[a] # mem[a] => x.ptr + 6 <= a /\ a <= x.ptr + x.size - 1
  <2>1. \A a \in Heap : a < x.ptr + 12 => a <= x.ptr + x.size - 1
    BY <1>1, <1>4, Consts
  <2> QED
    BY <1>1, <1>5, <2>1, Consts
<1>9. mem'[x.ptr + x.size - 1] = IF x.ptr + 6 \in overrun' THEN Data ELSE BOUND_VAL
  <2>1. x.ptr + x.size - 1 \in Heap /\ x.ptr + x.size - 1 >= x.ptr + 12
    BY <1>1, <1>4, Consts
  <2>2. mem'[x.ptr + x.size - 1] = mem[x.ptr + x.size - 1]
    BY <1>1, <1>5, <2>1
  <2> QED
    BY <1>3, <2>2 DEF IInv, HeaderInv
<1>10. ASSUME NEW a \in Heap, Even(a), mem'[a] = a + 6 PROVE mem'[a] = mem[a]
  <2> SUFFICES ASSUME a >= x.ptr + 6 /\ a < x.ptr + 12 PROVE FALSE
    BY <1>5
  <2>1. a \in Nat /\ x.ptr + 6 \in Nat /\ Even(x.ptr + 6)
    <3>1. Even(x.ptr) => Even(x.ptr + 6)
      BY <1>1, EvenFacts
    <3> QED
      BY <1>1, <3>1, Consts
  <2>2. a = x.ptr + 6 \/ a = x.ptr + 8 \/ a = x.ptr + 10
    <3>1. a # (x.ptr + 6) + 1 /\ a # (x.ptr + 6) + 3 /\ a # (x.ptr + 6) + 5
      <4> DEFINE e == x.ptr + 6
      <4> HIDE DEF e
      <4>1. e \in Nat /\ Even(e)
        BY <2>1 DEF e
      <4>2. ~Even(e + 1) /\ ~Even(e + 3) /\ ~Even(e + 5)
        BY <4>1, EvenFacts
      <4>3. a # e + 1 /\ a # e + 3 /\ a # e + 5
        BY <1>10, <4>2
      <4> QED
        BY <4>3 DEF e
    <3> QED
      BY <1>1, <2>1, <3>1
  <2>3. mem'[a] = mem[y.ptr + (a - (x.ptr + 6))]
    BY <1>5
  <2>4. CASE a = x.ptr + 6
    <3>1. mem'[a] = y.ptr + 6
      <4>1. y.ptr + (a - (x.ptr + 6)) = r.ptr
        BY <1>1, <1>2, <2>4
      <4> QED
        BY <1>2, <2>3, <4>1 DEF IInv, HeaderInv
    <3>2. y.ptr = x.ptr + 6
      BY <1>1, <1>2, <1>10, <2>4, <3>1
    <3>3. x.ptr + x.size <= y.ptr \/ y.ptr + y.size <= x.ptr
      BY <1>1, <3>2, BlocksApart DEF IInv
    <3>4. y.size \in Nat
      BY Fields DEF IInv
    <3> QED
      BY <1>1, <1>4, <3>2, <3>3, <3>4
  <2>5. CASE a = x.ptr + 8
    <3>1. mem'[a] = IS_ALLOC
      <4>1. y.ptr + (a - (x.ptr + 6)) = y.ptr + 2
        BY <1>1, <1>2, <2>5
      <4> QED
        BY <2>3, <4>1 DEF IInv, HeaderInv
    <3> QED
      BY <1>10, <2>1, <3>1 DEF IS_ALLOC
  <2>6. CASE a = x.ptr + 10
    <3>1. mem'[a] = 0
      <4>1. y.ptr + (a - (x.ptr + 6)) = r.ptr + 4
        BY <1>1, <1>2, <2>6
      <4> QED
        BY <2>3, <4>1 DEF IInv, HeaderInv
    <3> QED
      BY <1>10, <2>1, <3>1
  <2> QED
    BY <2>2, <2>4, <2>5, <2>6
<1>11. \A a \in Heap : Even(a) /\ mem'[a] = a + 6 => mem'[a] = mem[a]
  BY <1>10
<1>12. \A z \in allocs : z # x => (z.ptr + 6 \in overrun' <=> z.ptr + 6 \in overrun)
  BY <1>3
<1> QED
  BY <1>3, <1>7, <1>8, <1>9, <1>11, <1>12, UserWrite

-----------------------------------------------------------------------------
(* dmalloc and dcalloc *)

\* A block of sz words has sz + 7 words with its header and footer: no sum wraps around.
LEMMA TotalFacts ==
  ASSUME NEW sz \in Nat, ~TooLarge(sz)
  PROVE  total(sz) = sz + 7
<1>1. 6 + sz + 1 \in 0 .. SizeMax
  BY Consts DEF TooLarge
<1>2. (6 + sz + 1) % (SizeMax + 1) = 6 + sz + 1
  BY <1>1, Consts
<1> QED
  BY <1>2, Consts DEF total, Wrap

\* What the base allocator gives for n words: a piece nobody uses, or a new one.
LEMMA BaseMalloc ==
  ASSUME IInv, NEW n \in Nat, n >= 7, NEW b \in base_malloc(n)
  PROVE  \/ \E f \in frees : /\ b.ptr = f.ptr /\ b.pieces = pieces /\ b.frees = frees \ {f} /\ f.size >= n
         \/ /\ b.ptr \in Heap /\ Even(b.ptr) /\ b.ptr + n <= HeapEnd + 1
            /\ b.pieces = pieces \cup {[ptr |-> b.ptr, size |-> n]} /\ b.frees = frees
            /\ \A q \in pieces : Apart([ptr |-> b.ptr, size |-> n], q)
<1>1. CASE b \in { [ptr |-> f.ptr, pieces |-> pieces, frees |-> frees \ {f}] : f \in {g \in frees : g.size >= n} }
  BY <1>1
<1>2. CASE b \in { [ptr |-> a, pieces |-> pieces \cup {[ptr |-> a, size |-> n]}, frees |-> frees] : a \in Places(n) }
  <2>1. PICK a \in Places(n) :
          b = [ptr |-> a, pieces |-> pieces \cup {[ptr |-> a, size |-> n]}, frees |-> frees]
    BY <1>2
  <2>2. /\ a \in Heap /\ Even(a) /\ a + n - 1 <= HeapEnd
        /\ \A q \in pieces : Words([ptr |-> a, size |-> n]) \cap Words(q) = {}
    BY DEF Places, Even
  <2>3. a \in Nat /\ a + n <= HeapEnd + 1
    BY <2>2, Consts
  <2>4. ASSUME NEW q \in pieces PROVE Apart([ptr |-> a, size |-> n], q)
    <3>1. q.ptr \in Nat /\ q.size \in Nat /\ q.size >= 7
      BY Fields DEF IInv, PieceInv
    <3>2. (a .. a + n - 1) \cap (q.ptr .. q.ptr + q.size - 1) = {}
      BY <2>2 DEF Words
    <3>3. a \notin q.ptr .. q.ptr + q.size - 1 /\ q.ptr \notin a .. a + n - 1
      <4>1. a \in a .. a + n - 1 /\ q.ptr \in q.ptr .. q.ptr + q.size - 1
        BY <2>3, <3>1
      <4> QED
        BY <3>2, <4>1
    <3>4. a + n <= q.ptr \/ q.ptr + q.size <= a
      BY <2>3, <3>1, <3>3
    <3> QED
      BY <3>4 DEF Apart
  <2> QED
    BY <2>1, <2>2, <2>3, <2>4
<1>3. (IF n = 0 THEN 1 ELSE n) = n
  OBVIOUS
<1> QED
  BY <1>1, <1>2, <1>3 DEF base_malloc

\* A new block of sz words in the piece home, with the entry x.
NewBlock(home, x, sz, clear) ==
  /\ pieces' = pieces \cup {home} /\ home \in Piece /\ PieceInv'
  /\ x = [ptr |-> home.ptr, size |-> sz + 7] /\ sz + 7 <= home.size
  /\ allocs' = allocs \cup {x} /\ (\A y \in allocs : y.ptr # x.ptr)
  /\ frees' = {y \in frees : y.ptr # x.ptr}
  /\ (\A a \in Heap : In(a, home) /\ home \notin pieces => mem[a] = 0)
  /\ g_active' = g_active \cup {home.ptr + 6}
  /\ mem' = Formatted(mem, home.ptr + 6, sz, clear)
  /\ overrun' = overrun \ {home.ptr + 6} /\ aborted' = aborted
  /\ g_stats' = [g_stats EXCEPT !.nactive = @ + 1, !.active_size = @ + sz,
                   !.ntotal = @ + 1, !.total_size = @ + sz,
                   !.heap_min = IF home.ptr + 6 < @ THEN home.ptr + 6 ELSE @,
                   !.heap_max = IF home.ptr + 6 + sz > @ THEN home.ptr + 6 + sz ELSE @]

\* An allocation: home is the piece the new block lies in.
LEMMA Allocated ==
  ASSUME IInv, NEW sz \in Nat, NEW clear \in BOOLEAN, Malloc(sz, clear)
  PROVE  \E home \in pieces', x \in allocs' : NewBlock(home, x, sz, clear)
<1> DEFINE n == sz + 7
<1>1. n \in Nat /\ n >= 7 /\ total(sz) = n
  BY TotalFacts DEF Malloc
<1> HIDE DEF n
<1>2. PICK b \in base_malloc(n) :
       /\ pieces' = b.pieces
       /\ allocs' = allocs \cup {[ptr |-> b.ptr, size |-> n]}
       /\ frees' = b.frees
       /\ g_active' = g_active \cup {b.ptr + 6}
       /\ mem' = Formatted(mem, b.ptr + 6, sz, clear)
       /\ g_stats' = [g_stats EXCEPT !.nactive = @ + 1, !.active_size = @ + sz,
                            !.ntotal = @ + 1, !.total_size = @ + sz,
                            !.heap_min = IF b.ptr + 6 < @ THEN b.ptr + 6 ELSE @,
                            !.heap_max = IF b.ptr + 6 + sz > @ THEN b.ptr + 6 + sz ELSE @]
       /\ overrun' = overrun \ {b.ptr + 6} /\ aborted' = aborted
  <2>1. PICK b \in base_malloc(total(sz)) :
       LET user == b.ptr + hdr_sz IN
       /\ pieces' = b.pieces
       /\ allocs' = allocs \cup {[ptr |-> b.ptr, size |-> total(sz)]}
       /\ frees' = b.frees
       /\ g_active' = g_active \cup {user}
       /\ mem' = Formatted(mem, user, sz, clear)
       /\ g_stats' = [g_stats EXCEPT !.nactive = @ + 1, !.active_size = @ + sz,
                                     !.ntotal = @ + 1, !.total_size = @ + sz,
                                     !.heap_min = IF user < @ THEN user ELSE @,
                                     !.heap_max = IF user + sz > @ THEN user + sz ELSE @]
       /\ overrun' = overrun \ {user}
    BY Zenon DEF Malloc
  <2>2. aborted' = aborted /\ hdr_sz = 6
    BY Consts DEF Malloc
  <2> QED
    BY <1>1, <2>1, <2>2
<1> DEFINE x == [ptr |-> b.ptr, size |-> n]
<1>3. x.ptr = b.ptr /\ x.size = n /\ x \in allocs'
  BY <1>2
<1>4. CASE \E f \in frees : b.ptr = f.ptr /\ b.pieces = pieces /\ b.frees = frees \ {f} /\ f.size >= n
  <2>1. PICK f \in frees : b.ptr = f.ptr /\ b.pieces = pieces /\ b.frees = frees \ {f} /\ f.size >= n
    BY <1>4
  <2>2. PICK home \in pieces : home.ptr = f.ptr /\ f.size <= home.size /\ home.ptr \in Nat
                              /\ home.size \in Nat /\ f.size \in Nat
    BY PieceOf DEF IInv
  <2>3. n <= home.size
    BY <1>1, <2>1, <2>2
  <2>4. frees' = {y \in frees : y.ptr # x.ptr}
    <3>1. \A y \in frees : y.ptr = f.ptr <=> y = f
      BY DEF IInv, TableInv
    <3> QED
      BY <1>2, <1>3, <2>1, <3>1
  <2>5. \A y \in allocs : y.ptr # x.ptr
    BY <1>3, <2>1 DEF IInv, TableInv
  <2>6. PieceInv' /\ pieces' = pieces /\ home \in Piece
    BY <1>2, <2>1 DEF IInv, PieceInv, TypeOK
  <2>7. pieces' = pieces \cup {home}
    BY <2>6
  <2> QED
    BY <1>2, <1>3, <2>1, <2>2, <2>3, <2>4, <2>5, <2>6, <2>7, ZenonT(40) DEF n, NewBlock
<1>5. CASE /\ b.ptr \in Heap /\ Even(b.ptr) /\ b.ptr + n <= HeapEnd + 1
           /\ b.pieces = pieces \cup {x} /\ b.frees = frees
           /\ \A q \in pieces : Apart(x, q)
  <2>1. b.ptr \in Nat /\ b.ptr >= 1 /\ x \in Piece /\ pieces' = pieces \cup {x}
    BY <1>1, <1>2, <1>5, Consts DEF Piece
  <2>2. ASSUME NEW q \in pieces PROVE q.ptr # x.ptr /\ Apart(q, x)
    <3>1. q.ptr \in Nat /\ q.size \in Nat /\ q.size >= 7 /\ Apart(x, q)
      BY <1>5, Fields DEF IInv, PieceInv
    <3> QED
      BY <1>1, <1>3, <2>1, <3>1 DEF Apart
  <2>3. PieceInv'
    <3>1. \A q \in pieces' : /\ q.ptr >= 1 /\ Even(q.ptr) /\ q.size >= 7 /\ q.ptr + q.size <= HeapEnd + 1
      BY <1>1, <1>3, <1>5, <2>1 DEF IInv, PieceInv
    <3>2. \A q, r \in pieces' : q = r \/ Apart(q, r)
      BY <1>5, <2>1, <2>2 DEF IInv, PieceInv
    <3> QED
      BY <3>1, <3>2 DEF PieceInv
  <2>4. \A y \in allocs \cup frees : y.ptr # x.ptr
    BY <2>2 DEF IInv, TableInv
  <2>5. frees' = {y \in frees : y.ptr # x.ptr}
    BY <1>2, <1>5, <2>4
  <2>6. ASSUME NEW a \in Heap, In(a, x) PROVE mem[a] = 0
    <3>1. ASSUME NEW q \in pieces PROVE ~In(a, q)
      <4>1. a \in Nat /\ q.ptr \in Nat /\ q.size \in Nat /\ Apart(q, x)
        BY <2>2, Consts, Fields DEF IInv
      <4> QED
        BY <1>1, <1>3, <2>1, <2>6, <4>1 DEF In, Apart
    <3> QED
      BY <3>1 DEF IInv, StrayInv
  <2>7. x \in pieces' /\ n <= x.size
    BY <1>1, <1>3, <2>1
  <2> QED
    BY <1>2, <1>3, <2>1, <2>3, <2>4, <2>5, <2>6, <2>7, ZenonT(40) DEF n, NewBlock
<1> QED
  BY <1>1, <1>4, <1>5, BaseMalloc

\* What the new header and footer are, and that nothing outside the block is written.
LEMMA FormattedFacts ==
  ASSUME NEW p \in Nat, p >= 1, NEW sz \in Nat, p + (sz + 7) <= HeapEnd + 1, NEW clear \in BOOLEAN,
         NEW m0 \in [Heap -> Int], NEW user, user = p + 6, NEW m, m = Formatted(m0, user, sz, clear)
  PROVE  /\ m \in [Heap -> Int]
         /\ m[p] = p + 6 /\ m[p + 1] = sz /\ m[p + 2] = IS_ALLOC /\ m[p + 3] = BOUND_VAL
         /\ m[p + 4] = m0[p + 4] /\ m[p + 5] = m0[p + 5] /\ m[p + 6 + sz] = BOUND_VAL
         /\ \A a \in Heap : a < p \/ a > p + 6 + sz => m[a] = m0[a]
         /\ \A a \in Heap : a # p /\ a # p + 1 => m[a] \in {m0[a], 0, IS_ALLOC, BOUND_VAL}
<1>1. user - hdr_sz = p
  BY Consts
<1>2. /\ \A a \in Heap : m[a] = CASE a = p                                 -> p + 6
                                [] a = p + 1                             -> sz
                                [] a = p + 2                             -> IS_ALLOC
                                [] a = p + 3 \/ a = p + 6 + sz           -> BOUND_VAL
                                [] clear /\ a >= p + 6 /\ a < p + 6 + sz -> 0
                                [] OTHER                                 -> m0[a]
      /\ m = [a \in Heap |-> m[a]]
  <2>1. m = [a \in Heap |-> m[a]]
    BY DEF Formatted
  <2>2. ASSUME NEW a \in Heap
        PROVE  m[a] = CASE a = user - hdr_sz                       -> user
                        [] a = user - hdr_sz + 1                   -> sz
                        [] a = user - hdr_sz + 2                   -> IS_ALLOC
                        [] a = user - hdr_sz + 3 \/ a = user + sz  -> BOUND_VAL
                        [] clear /\ a >= user /\ a < user + sz     -> 0
                        [] OTHER                                   -> m0[a]
    BY DEF Formatted
  <2> QED
    BY <1>1, <2>1, <2>2
<1>3. \A a \in Heap : a \in Nat /\ m0[a] \in Int
  BY Consts
<1>4. /\ p \in Heap /\ p + 1 \in Heap /\ p + 2 \in Heap /\ p + 3 \in Heap /\ p + 4 \in Heap
      /\ p + 5 \in Heap /\ p + 6 + sz \in Heap
  BY Consts
<1>5. m \in [Heap -> Int]
  <2>1. \A a \in Heap : m[a] \in Int
    BY <1>2, <1>3 DEF IS_ALLOC, BOUND_VAL
  <2> QED
    BY <1>2, <2>1
<1>6. m[p] = p + 6 /\ m[p + 1] = sz /\ m[p + 2] = IS_ALLOC /\ m[p + 3] = BOUND_VAL
  BY <1>2, <1>4
<1>7. m[p + 4] = m0[p + 4] /\ m[p + 5] = m0[p + 5] /\ m[p + 6 + sz] = BOUND_VAL
  BY <1>2, <1>4
<1>8. \A a \in Heap : a < p \/ a > p + 6 + sz => m[a] = m0[a]
  BY <1>2, <1>3
<1>9. \A a \in Heap : a # p /\ a # p + 1 => m[a] \in {m0[a], 0, IS_ALLOC, BOUND_VAL}
  BY <1>2
<1> QED
  BY <1>5, <1>6, <1>7, <1>8, <1>9

\* dmalloc and dcalloc make a block.
LEMMA MallocStep ==
  ASSUME IInv, NEW sz \in Nat, NEW clear \in BOOLEAN, Malloc(sz, clear)
  PROVE  IInv'
<1>0. PICK home \in pieces', x \in allocs' : NewBlock(home, x, sz, clear)
  BY Allocated
<1>1. /\ pieces' = pieces \cup {home} /\ home \in Piece /\ PieceInv'
      /\ x = [ptr |-> home.ptr, size |-> sz + 7] /\ sz + 7 <= home.size
      /\ allocs' = allocs \cup {x} /\ (\A y \in allocs : y.ptr # x.ptr)
      /\ frees' = {y \in frees : y.ptr # x.ptr}
      /\ (\A a \in Heap : In(a, home) /\ home \notin pieces => mem[a] = 0)
      /\ g_active' = g_active \cup {home.ptr + 6}
      /\ mem' = Formatted(mem, home.ptr + 6, sz, clear)
      /\ overrun' = overrun \ {home.ptr + 6} /\ aborted' = aborted
      /\ g_stats' = [g_stats EXCEPT !.nactive = @ + 1, !.active_size = @ + sz,
                       !.ntotal = @ + 1, !.total_size = @ + sz,
                       !.heap_min = IF home.ptr + 6 < @ THEN home.ptr + 6 ELSE @,
                       !.heap_max = IF home.ptr + 6 + sz > @ THEN home.ptr + 6 + sz ELSE @]
  BY <1>0 DEF NewBlock
<1>2. PICK p \in Nat : p = home.ptr
  BY <1>1 DEF Piece
<1>3. /\ p >= 1 /\ Even(p) /\ home.size \in Nat /\ p + home.size <= HeapEnd + 1 /\ sz + 7 <= home.size
      /\ p + (sz + 7) <= HeapEnd + 1 /\ x.ptr = p /\ x.size = sz + 7 /\ x \in Piece
  <2>1. p >= 1 /\ Even(p) /\ p + home.size <= HeapEnd + 1
    BY <1>1, <1>2 DEF PieceInv
  <2>2. home.size \in Nat /\ x.ptr = p /\ x.size = sz + 7 /\ x \in Piece
    BY <1>1, <1>2 DEF Piece
  <2> QED
    BY <1>1, <2>1, <2>2, Consts
<1>4. /\ mem' \in [Heap -> Int]
      /\ mem'[p] = p + 6 /\ mem'[p + 1] = sz /\ mem'[p + 2] = IS_ALLOC /\ mem'[p + 3] = BOUND_VAL
      /\ mem'[p + 4] = mem[p + 4] /\ mem'[p + 5] = mem[p + 5] /\ mem'[p + 6 + sz] = BOUND_VAL
      /\ \A a \in Heap : a < p \/ a > p + 6 + sz => mem'[a] = mem[a]
      /\ \A a \in Heap : a # p /\ a # p + 1 => mem'[a] \in {mem[a], 0, IS_ALLOC, BOUND_VAL}
  BY <1>1, <1>2, <1>3, FormattedFacts DEF IInv, TypeOK
<1>5. ASSUME NEW q \in pieces, q # home, NEW a \in Heap, In(a, q) PROVE mem'[a] = mem[a]
  <2>1. q.ptr \in Nat /\ q.size \in Nat /\ a \in Nat
    BY Fields, Consts DEF IInv
  <2>2. Apart(q, home)
    BY <1>1, <1>5 DEF PieceInv
  <2>3. a < p \/ a > p + 6 + sz
    BY <1>2, <1>3, <1>5, <2>1, <2>2 DEF Apart, In
  <2> QED
    BY <1>4, <2>3
<1>6. ASSUME NEW q \in pieces, q # home, NEW n \in 0 .. 5 PROVE mem'[q.ptr + n] = mem[q.ptr + n]
  <2>1. q.ptr + n \in Heap /\ In(q.ptr + n, q)
    BY HeaderWords DEF IInv
  <2> QED
    BY <1>5, <1>6, <2>1
<1>7. ASSUME NEW q \in pieces, q # home
      PROVE  /\ mem'[q.ptr] = mem[q.ptr] /\ mem'[q.ptr + 1] = mem[q.ptr + 1]
             /\ mem'[q.ptr + 2] = mem[q.ptr + 2] /\ mem'[q.ptr + 3] = mem[q.ptr + 3]
             /\ mem'[q.ptr + 4] = mem[q.ptr + 4] /\ mem'[q.ptr + 5] = mem[q.ptr + 5]
  <2>1. q.ptr \in Nat /\ q.ptr + 0 = q.ptr
    BY Fields DEF IInv
  <2> QED
    BY <1>6, <1>7, <2>1
<1>8. mem[p + 4] = 0 /\ mem[p + 5] = 0
  <2>1. CASE home \in pieces
    BY <1>2, <2>1 DEF IInv, HeaderInv
  <2>2. CASE home \notin pieces
    <3>1. p + 4 \in Heap /\ p + 5 \in Heap /\ In(p + 4, home) /\ In(p + 5, home)
      BY <1>2, <1>3, Consts DEF In
    <3> QED
      BY <1>1, <2>2, <3>1
  <2> QED
    BY <2>1, <2>2
<1>9. /\ p + 6 \in Heap /\ p + 6 \notin g_active
  <2>1. \A y \in allocs : y.ptr \in Nat /\ y.ptr + 6 # p + 6
    BY <1>1, <1>3, Fields DEF IInv
  <2>2. p + 6 \notin g_active
    BY <2>1 DEF IInv, TableInv
  <2> QED
    BY <1>3, <2>2, Consts
<1>10. /\ g_stats.heap_min \in Nat /\ g_stats.heap_max \in Nat /\ g_stats.nactive \in Int
       /\ g_stats'.nactive = g_stats.nactive + 1
       /\ g_stats'.heap_min = IF p + 6 < g_stats.heap_min THEN p + 6 ELSE g_stats.heap_min
       /\ g_stats'.heap_max = IF p + 6 + sz > g_stats.heap_max THEN p + 6 + sz ELSE g_stats.heap_max
  BY <1>1, <1>2 DEF IInv, TypeOK
<1>11. TypeOK'
  <2>1. g_stats' \in [nactive : Int, active_size : Int, ntotal : Nat, total_size : Nat,
                      nfail : Nat, fail_size : Nat, heap_min : Nat, heap_max : Nat]
    <3>1. /\ g_stats.nactive + 1 \in Int /\ g_stats.active_size + sz \in Int /\ g_stats.ntotal + 1 \in Nat
          /\ g_stats.total_size + sz \in Nat
          /\ (IF p + 6 < g_stats.heap_min THEN p + 6 ELSE g_stats.heap_min) \in Nat
          /\ (IF p + 6 + sz > g_stats.heap_max THEN p + 6 + sz ELSE g_stats.heap_max) \in Nat
      BY DEF IInv, TypeOK
    <3> QED
      BY <1>1, <1>2, <3>1 DEF IInv, TypeOK
  <2>2. pieces' \subseteq Piece /\ allocs' \subseteq Piece /\ frees' \subseteq Piece
    BY <1>1, <1>3 DEF IInv, TypeOK
  <2>3. g_active' \subseteq Heap
    BY <1>1, <1>2, <1>9 DEF IInv, TypeOK
  <2> QED
    BY <1>1, <1>4, <2>1, <2>2, <2>3 DEF IInv, TypeOK
<1>12. TableInv'
  <2>1. \A y \in allocs' \cup frees' : \E q \in pieces' : q.ptr = y.ptr /\ y.size <= q.size
    BY <1>1, <1>2, <1>3 DEF IInv, TableInv
  <2>2. \A q \in pieces' : \E y \in allocs' \cup frees' : y.ptr = q.ptr
    <3> SUFFICES ASSUME NEW q \in pieces' PROVE \E y \in allocs' \cup frees' : y.ptr = q.ptr
      OBVIOUS
    <3>1. CASE q.ptr = p
      BY <1>1, <1>3, <3>1
    <3>2. CASE q.ptr # p
      <4>1. q \in pieces
        BY <1>1, <1>2, <3>2
      <4>2. PICK y \in allocs \cup frees : y.ptr = q.ptr
        BY <4>1 DEF IInv, TableInv
      <4> QED
        BY <1>1, <1>3, <3>2, <4>2
    <3> QED
      BY <3>1, <3>2
  <2>3. \A y, z \in allocs' \cup frees' : y.ptr = z.ptr => y = z
    BY <1>1, <1>3 DEF IInv, TableInv
  <2>4. \A y \in allocs' : y.size >= 7 /\ y \notin frees' /\ y.ptr + 6 \in g_active'
    <3>1. x.size >= 7 /\ x \notin frees' /\ x.ptr + 6 \in g_active'
      BY <1>1, <1>2, <1>3
    <3> QED
      BY <1>1, <3>1 DEF IInv, TableInv
  <2>5. \A r \in g_active' : \E y \in allocs' : r = y.ptr + 6
    BY <1>1, <1>2, <1>3 DEF IInv, TableInv
  <2> QED
    BY <2>1, <2>2, <2>3, <2>4, <2>5 DEF TableInv
<1>13. ASSUME NEW y \in allocs \cup frees, y.ptr # p
       PROVE  \E q \in pieces : /\ q # home /\ q.ptr = y.ptr /\ y.size <= q.size
                                /\ q.ptr \in Nat /\ q.size \in Nat /\ y.size \in Nat
                                /\ q.ptr >= 1 /\ q.ptr + q.size <= HeapEnd + 1
  <2>1. PICK q \in pieces : /\ q.ptr = y.ptr /\ y.size <= q.size /\ q.ptr \in Nat /\ q.size \in Nat
                            /\ y.size \in Nat /\ q.ptr >= 1 /\ q.ptr + q.size <= HeapEnd + 1
    BY PieceOf DEF IInv
  <2> QED
    BY <1>2, <1>13, <2>1
<1>14. HeaderInv'
  <2>1. ASSUME NEW q \in pieces'
        PROVE  /\ mem'[q.ptr] = q.ptr + 6 /\ mem'[q.ptr + 3] = BOUND_VAL
               /\ mem'[q.ptr + 4] = 0 /\ mem'[q.ptr + 5] = 0
    <3>1. CASE q = home
      BY <1>2, <1>4, <1>8, <3>1
    <3>2. CASE q # home
      <4>1. q \in pieces
        BY <1>1, <3>2
      <4> QED
        BY <1>7, <3>2, <4>1 DEF IInv, HeaderInv
    <3> QED
      BY <3>1, <3>2
  <2>2. ASSUME NEW y \in allocs'
        PROVE  /\ mem'[y.ptr + 1] = y.size - 7 /\ mem'[y.ptr + 2] = IS_ALLOC
               /\ mem'[y.ptr + y.size - 1] = IF y.ptr + 6 \in overrun' THEN Data ELSE BOUND_VAL
    <3>1. CASE y = x
      <4>1. y.ptr = p /\ y.size - 7 = sz /\ y.ptr + y.size - 1 = p + 6 + sz /\ y.ptr + 6 \notin overrun'
        BY <1>1, <1>2, <1>3, <3>1
      <4> QED
        BY <1>4, <4>1
    <3>2. CASE y # x
      <4>1. y \in allocs /\ y.ptr # p
        BY <1>1, <1>3, <3>2
      <4>2. PICK q \in pieces : /\ q # home /\ q.ptr = y.ptr /\ y.size <= q.size
                                /\ q.ptr \in Nat /\ q.size \in Nat /\ y.size \in Nat
                                /\ q.ptr >= 1 /\ q.ptr + q.size <= HeapEnd + 1
        BY <1>13, <4>1
      <4>3. y.size >= 7
        BY <4>1 DEF IInv, TableInv
      <4>4. y.ptr + y.size - 1 \in Heap /\ In(y.ptr + y.size - 1, q)
        BY <4>2, <4>3, Consts DEF In
      <4>5. /\ mem'[y.ptr + 1] = mem[y.ptr + 1] /\ mem'[y.ptr + 2] = mem[y.ptr + 2]
            /\ mem'[y.ptr + y.size - 1] = mem[y.ptr + y.size - 1]
        BY <1>5, <1>7, <4>2, <4>4
      <4>6. y.ptr + 6 \in overrun' <=> y.ptr + 6 \in overrun
        <5>1. y.ptr + 6 # p + 6
          BY <4>1, <4>2
        <5> QED
          BY <1>1, <1>2, <5>1
      <4> QED
        BY <4>1, <4>5, <4>6 DEF IInv, HeaderInv
    <3> QED
      BY <3>1, <3>2
  <2>3. ASSUME NEW y \in frees' PROVE mem'[y.ptr + 2] = 0
    <3>1. y \in frees /\ y.ptr # p
      BY <1>1, <1>3
    <3>2. PICK q \in pieces : q # home /\ q.ptr = y.ptr
      BY <1>13, <3>1
    <3> QED
      BY <1>7, <3>1, <3>2 DEF IInv, HeaderInv
  <2> QED
    BY <2>1, <2>2, <2>3 DEF HeaderInv
<1>15. StrayInv'
  <2>1. ASSUME NEW a \in Heap, \A q \in pieces' : ~In(a, q) PROVE mem'[a] = 0
    <3>1. ~In(a, home) /\ \A q \in pieces : ~In(a, q)
      BY <1>1, <2>1
    <3>2. a < p \/ a > p + 6 + sz
      BY <1>2, <1>3, <3>1, Consts DEF In
    <3> QED
      BY <1>4, <3>1, <3>2 DEF IInv, StrayInv
  <2>2. ASSUME NEW a \in Heap, Even(a), mem'[a] = a + 6 PROVE \E q \in pieces' : q.ptr = a
    <3>1. CASE a = p
      BY <1>1, <1>2, <3>1
    <3>2. CASE a # p
      <4>1. a # p + 1 /\ a \in Nat
        <5>1. ~Even(p + 1)
          BY <1>3, EvenFacts
        <5> QED
          BY <2>2, <5>1, Consts
      <4>2. a + 6 \notin {0, IS_ALLOC, BOUND_VAL}
        BY <4>1 DEF IS_ALLOC, BOUND_VAL
      <4>3. mem[a] = a + 6
        BY <1>4, <2>2, <3>2, <4>1, <4>2
      <4> QED
        BY <1>1, <2>2, <4>3 DEF IInv, StrayInv
    <3> QED
      BY <3>1, <3>2
  <2> QED
    BY <2>1, <2>2 DEF StrayInv
<1>16. BoundsInv'
  <2>1. g_stats'.heap_min \in Nat /\ g_stats'.heap_min <= g_stats.heap_min /\ g_stats'.heap_min <= p + 6
        /\ g_stats'.heap_max \in Nat /\ g_stats'.heap_max >= g_stats.heap_max /\ g_stats'.heap_max >= p + 6 + sz
    BY <1>10
  <2>2. g_stats'.heap_min >= 8
    <3>1. p # 1
      BY <1>3 DEF Even, A
    <3>2. p + 6 >= 8 /\ g_stats.heap_min >= 8
      BY <1>3, <3>1 DEF IInv, BoundsInv
    <3> QED
      BY <1>10, <3>2
  <2>3. ASSUME NEW q \in pieces' PROVE g_stats'.heap_min <= q.ptr + 6
    <3>1. CASE q = home
      BY <1>2, <2>1, <3>1
    <3>2. CASE q \in pieces
      <4>1. q.ptr \in Nat /\ g_stats.heap_min <= q.ptr + 6
        BY <3>2, Fields DEF IInv, BoundsInv
      <4> QED
        BY <1>10, <2>1, <4>1
    <3> QED
      BY <1>1, <3>1, <3>2
  <2>4. ASSUME NEW y \in allocs' PROVE y.ptr + y.size - 1 <= g_stats'.heap_max
    <3>1. CASE y = x
      BY <1>3, <2>1, <3>1
    <3>2. CASE y \in allocs
      <4>1. y.ptr \in Nat /\ y.size \in Nat /\ y.ptr + y.size - 1 <= g_stats.heap_max
        BY <3>2, Fields DEF IInv, BoundsInv
      <4> QED
        BY <1>10, <2>1, <4>1
    <3> QED
      BY <1>1, <3>1, <3>2
  <2>5. g_stats'.nactive = Cardinality(g_active')
    <3>1. IsFiniteSet(g_active)
      <4>1. IsFiniteSet(Heap)
        BY Consts, FS_Interval DEF Heap
      <4> QED
        BY <4>1, FS_Subset DEF IInv, TypeOK
    <3>2. Cardinality(g_active \cup {p + 6}) = Cardinality(g_active) + 1
      BY <1>9, <3>1, FS_AddElement
    <3>3. g_active' = g_active \cup {p + 6}
      BY <1>1, <1>2
    <3> QED
      BY <1>10, <3>2, <3>3 DEF IInv, BoundsInv
  <2> QED
    BY <2>2, <2>3, <2>4, <2>5 DEF BoundsInv
<1> QED
  BY <1>1, <1>11, <1>12, <1>14, <1>15, <1>16 DEF IInv

\* A call that fails only counts.
LEMMA FailsStep == ASSUME IInv, NEW n \in Nat, Fails(n) PROVE IInv'
<1>1. /\ g_stats' = [g_stats EXCEPT !.nfail = @ + 1, !.fail_size = n]
      /\ UNCHANGED <<mem, pieces, allocs, frees, g_active, aborted, overrun>>
  BY DEF Fails
<1>2. /\ g_stats' \in [nactive : Int, active_size : Int, ntotal : Nat, total_size : Nat,
                       nfail : Nat, fail_size : Nat, heap_min : Nat, heap_max : Nat]
      /\ g_stats'.heap_min = g_stats.heap_min /\ g_stats'.heap_max = g_stats.heap_max
      /\ g_stats'.nactive = g_stats.nactive
  <2>1. g_stats.nfail + 1 \in Nat
    BY DEF IInv, TypeOK
  <2> QED
    BY <1>1, <2>1 DEF IInv, TypeOK
<1>3. TypeOK'
  BY <1>1, <1>2 DEF IInv, TypeOK
<1>4. PieceInv' /\ TableInv' /\ HeaderInv' /\ StrayInv'
  BY <1>1 DEF IInv, PieceInv, TableInv, HeaderInv, StrayInv
<1>5. BoundsInv'
  BY <1>1, <1>2 DEF IInv, BoundsInv
<1> QED
  BY <1>3, <1>4, <1>5 DEF IInv

\* dmalloc and dcalloc, whether they fail or not.
LEMMA AllocStep ==
  ASSUME IInv, (\E sz \in Sizes : dmalloc(sz)) \/ (\E c \in Callocs : dcalloc(c[1], c[2]))
  PROVE  IInv'
<1>1. ASSUME NEW sz \in Nat, NEW clear \in BOOLEAN, Malloc(sz, clear) \/ MallocFails(sz) PROVE IInv'
  <2>1. CASE MallocFails(sz)
    <3>1. g_stats.fail_size + sz \in Nat
      BY DEF IInv, TypeOK
    <3>2. Wrap(g_stats.fail_size + sz) \in Nat
      BY <3>1, Consts DEF Wrap
    <3> QED
      BY <2>1, <3>2, FailsStep DEF MallocFails
  <2> QED
    BY <1>1, <2>1, MallocStep
<1>2. ASSUME NEW sz \in Sizes, dmalloc(sz) PROVE IInv'
  <2>1. sz \in Nat
    BY DmallocAssumption
  <2> QED
    BY <1>1, <1>2, <2>1 DEF dmalloc
<1>3. ASSUME NEW c \in Callocs, dcalloc(c[1], c[2]) PROVE IInv'
  <2>1. c[1] \in Nat /\ c[2] \in Nat
    BY DmallocAssumption
  <2>2. c[1] * c[2] \in Nat
    BY <2>1
  <2>3. CASE Fails(SizeMax)
    BY <2>3, Consts, FailsStep
  <2> QED
    BY <1>1, <1>3, <2>2, <2>3 DEF dcalloc
<1> QED
  BY <1>2, <1>3

-----------------------------------------------------------------------------
(* dfree *)

\* The block of a live pointer goes to the other table, marked.
LEMMA ReleaseStep == ASSUME IInv, NEW p \in g_active, Release(p) PROVE IInv'
<1>1. PICK x \in allocs, q \in pieces :
           /\ p = x.ptr + 6 /\ q.ptr = x.ptr /\ x.size >= 7 /\ x.size <= q.size
           /\ x.ptr \in Nat /\ x.size \in Nat /\ q.size \in Nat
           /\ x.ptr >= 1 /\ x.ptr + q.size <= HeapEnd + 1 /\ Even(x.ptr)
           /\ p - hdr_sz = x.ptr /\ mem[p - hdr_sz + 1] = x.size - 7
  BY BlockOf
<1>2. /\ mem' = [mem EXCEPT ![x.ptr + 2] = 0]
      /\ allocs' = allocs \ {y \in allocs : y.ptr = x.ptr}
      /\ frees' = frees \cup {y \in allocs : y.ptr = x.ptr}
      /\ g_active' = g_active \ {p}
      /\ g_stats' = [g_stats EXCEPT !.nactive = @ - 1, !.active_size = @ - mem[x.ptr + 1]]
      /\ UNCHANGED <<pieces, aborted, overrun>>
  BY <1>1 DEF Release, base_free
<1>3. \A y \in allocs : y.ptr = x.ptr <=> y = x
  BY DEF IInv, TableInv
<1>4. allocs' = allocs \ {x} /\ frees' = frees \cup {x}
  BY <1>2, <1>3
<1>5. x.ptr + 2 \in Heap /\ In(x.ptr + 2, q)
  BY <1>1, HeaderWords DEF IInv
<1>6. /\ mem' \in [Heap -> Int] /\ mem'[x.ptr + 2] = 0
      /\ \A a \in Heap : a # x.ptr + 2 => mem'[a] = mem[a]
  BY <1>2, <1>5 DEF IInv, TypeOK
<1>7. /\ g_stats' \in [nactive : Int, active_size : Int, ntotal : Nat, total_size : Nat,
                       nfail : Nat, fail_size : Nat, heap_min : Nat, heap_max : Nat]
      /\ g_stats'.heap_min = g_stats.heap_min /\ g_stats'.heap_max = g_stats.heap_max
      /\ g_stats'.nactive = g_stats.nactive - 1
  <2>1. g_stats.nactive - 1 \in Int /\ g_stats.active_size - mem[x.ptr + 1] \in Int
    <3>1. mem[x.ptr + 1] \in Int
      BY <1>1
    <3> QED
      BY <3>1 DEF IInv, TypeOK
  <2> QED
    BY <1>2, <2>1 DEF IInv, TypeOK
<1>8. TypeOK' /\ PieceInv'
  BY <1>2, <1>4, <1>6, <1>7 DEF IInv, TypeOK, PieceInv
<1>9. TableInv'
  <2>1. allocs' \cup frees' = allocs \cup frees
    BY <1>4
  <2>2. ASSUME NEW y \in allocs' PROVE y.size >= 7 /\ y \notin frees' /\ y.ptr + 6 \in g_active'
    <3>1. y \in allocs /\ y # x /\ y.ptr # x.ptr /\ y.ptr \in Nat
      BY <1>3, <1>4, Fields DEF IInv
    <3>2. y.ptr + 6 # p
      BY <1>1, <3>1
    <3> QED
      BY <1>2, <1>4, <3>1, <3>2 DEF IInv, TableInv
  <2>3. ASSUME NEW r \in g_active' PROVE \E y \in allocs' : r = y.ptr + 6
    <3>1. r \in g_active /\ r # p
      BY <1>2
    <3>2. PICK y \in allocs : r = y.ptr + 6
      BY <3>1 DEF IInv, TableInv
    <3> QED
      BY <1>1, <1>4, <3>1, <3>2
  <2> QED
    BY <1>2, <2>1, <2>2, <2>3 DEF IInv, TableInv
<1>10. ASSUME NEW r \in pieces, r # q, NEW a \in Heap, In(a, r) PROVE mem'[a] = mem[a]
  <2>1. a \in Int
    BY Consts
  <2>2. a # x.ptr + 2
    BY <1>5, <1>10, <2>1, OnePiece DEF IInv
  <2> QED
    BY <1>6, <2>2
<1>11. ASSUME NEW r \in pieces
       PROVE  /\ mem'[r.ptr] = mem[r.ptr] /\ mem'[r.ptr + 1] = mem[r.ptr + 1]
              /\ mem'[r.ptr + 3] = mem[r.ptr + 3]
              /\ mem'[r.ptr + 4] = mem[r.ptr + 4] /\ mem'[r.ptr + 5] = mem[r.ptr + 5]
              /\ r # q => mem'[r.ptr + 2] = mem[r.ptr + 2]
  <2>1. r.ptr \in Nat
    BY Fields DEF IInv
  <2>2. ASSUME NEW n \in 0 .. 5, r # q \/ n # 2 PROVE mem'[r.ptr + n] = mem[r.ptr + n]
    <3>1. r.ptr + n \in Heap /\ In(r.ptr + n, r)
      BY HeaderWords DEF IInv
    <3>2. CASE r # q
      BY <1>10, <3>1, <3>2
    <3>3. CASE r = q
      <4>1. r.ptr + n # x.ptr + 2
        BY <1>1, <2>1, <2>2, <3>3
      <4> QED
        BY <1>6, <3>1, <4>1
    <3> QED
      BY <3>2, <3>3
  <2>3. r.ptr + 0 = r.ptr
    BY <2>1
  <2> QED
    BY <2>2, <2>3
<1>12. HeaderInv'
  <2>1. \A r \in pieces : /\ mem'[r.ptr] = r.ptr + 6 /\ mem'[r.ptr + 3] = BOUND_VAL
                          /\ mem'[r.ptr + 4] = 0 /\ mem'[r.ptr + 5] = 0
    BY <1>11 DEF IInv, HeaderInv
  <2>2. ASSUME NEW y \in allocs \cup frees, y # x
        PROVE  \E r \in pieces : /\ r # q /\ r.ptr = y.ptr /\ y.size <= r.size /\ r.ptr \in Nat
                                 /\ r.size \in Nat /\ y.size \in Nat /\ r.ptr >= 1
                                 /\ r.ptr + r.size <= HeapEnd + 1
    <3>1. PICK r \in pieces : /\ r.ptr = y.ptr /\ y.size <= r.size /\ r.ptr \in Nat /\ r.size \in Nat
                              /\ y.size \in Nat /\ r.ptr >= 1 /\ r.ptr + r.size <= HeapEnd + 1
      BY PieceOf DEF IInv
    <3>2. y.ptr # x.ptr
      BY <2>2 DEF IInv, TableInv
    <3> QED
      BY <1>1, <3>1, <3>2
  <2>3. ASSUME NEW y \in allocs'
        PROVE  /\ mem'[y.ptr + 1] = y.size - 7 /\ mem'[y.ptr + 2] = IS_ALLOC
               /\ mem'[y.ptr + y.size - 1] = IF y.ptr + 6 \in overrun' THEN Data ELSE BOUND_VAL
    <3>1. y \in allocs /\ y # x
      BY <1>4
    <3>2. PICK r \in pieces : /\ r # q /\ r.ptr = y.ptr /\ y.size <= r.size /\ r.ptr \in Nat
                              /\ r.size \in Nat /\ y.size \in Nat /\ r.ptr >= 1
                              /\ r.ptr + r.size <= HeapEnd + 1
      BY <2>2, <3>1
    <3>3. y.size >= 7
      BY <3>1 DEF IInv, TableInv
    <3>4. y.ptr + y.size - 1 \in Heap /\ In(y.ptr + y.size - 1, r)
      BY <3>2, <3>3, Consts DEF In
    <3>5. /\ mem'[y.ptr + 1] = mem[y.ptr + 1] /\ mem'[y.ptr + 2] = mem[y.ptr + 2]
          /\ mem'[y.ptr + y.size - 1] = mem[y.ptr + y.size - 1]
      BY <1>10, <1>11, <3>2, <3>4
    <3> QED
      BY <1>2, <3>1, <3>5 DEF IInv, HeaderInv
  <2>4. ASSUME NEW y \in frees' PROVE mem'[y.ptr + 2] = 0
    <3>1. CASE y = x
      BY <1>6, <3>1
    <3>2. CASE y # x
      <4>1. y \in frees
        BY <1>4, <3>2
      <4>2. PICK r \in pieces : r # q /\ r.ptr = y.ptr
        BY <2>2, <3>2, <4>1
      <4> QED
        BY <1>11, <4>1, <4>2 DEF IInv, HeaderInv
    <3> QED
      BY <3>1, <3>2
  <2> QED
    BY <1>2, <2>1, <2>3, <2>4 DEF HeaderInv
<1>13. StrayInv'
  <2>1. ASSUME NEW a \in Heap, \A r \in pieces : ~In(a, r) PROVE mem'[a] = 0
    <3>1. a # x.ptr + 2
      BY <1>5, <2>1
    <3> QED
      BY <1>6, <2>1, <3>1 DEF IInv, StrayInv
  <2>2. ASSUME NEW a \in Heap, Even(a), mem'[a] = a + 6 PROVE \E r \in pieces : r.ptr = a
    <3>1. a # x.ptr + 2
      <4>1. a + 6 # 0
        BY Consts
      <4> QED
        BY <1>6, <2>2, <4>1
    <3> QED
      BY <1>6, <2>2, <3>1 DEF IInv, StrayInv
  <2> QED
    BY <1>2, <2>1, <2>2 DEF StrayInv
<1>14. BoundsInv'
  <2>1. IsFiniteSet(g_active)
    <3>1. IsFiniteSet(Heap)
      BY Consts, FS_Interval DEF Heap
    <3> QED
      BY <3>1, FS_Subset DEF IInv, TypeOK
  <2>2. Cardinality(g_active \ {p}) = Cardinality(g_active) - 1
    BY <2>1, FS_RemoveElement
  <2>3. g_stats'.nactive = Cardinality(g_active')
    BY <1>2, <1>7, <2>2 DEF IInv, BoundsInv
  <2> QED
    BY <1>2, <1>4, <1>7, <2>3 DEF IInv, BoundsInv
<1> QED
  BY <1>8, <1>9, <1>12, <1>13, <1>14 DEF IInv

\* dfree releases a live block or aborts.
LEMMA FreeStep == ASSUME IInv, NEW p \in Heap, dfree(p) PROVE IInv'
<1>1. CASE verdict(p) \in {"ok", "wild write"}
  <2>1. p \in g_active
    BY <1>1 DEF verdict
  <2> QED
    BY <1>1, <2>1, ReleaseStep DEF dfree
<1>2. CASE verdict(p) \notin {"ok", "wild write"}
  <2>1. aborted' = TRUE /\ UNCHANGED <<mem, pieces, allocs, frees, g_active, g_stats, overrun>>
    BY <1>2 DEF dfree
  <2>2. TypeOK'
    BY <2>1 DEF IInv, TypeOK
  <2> QED
    BY <2>1, <2>2 DEF IInv, PieceInv, TableInv, HeaderInv, StrayInv, BoundsInv
<1> QED
  BY <1>1, <1>2

-----------------------------------------------------------------------------
(* The theorems *)

\* An empty heap.
LEMMA InitIInv == ASSUME Init PROVE IInv
<1>1. TypeOK
  <2>1. mem \in [Heap -> Int] /\ g_active \subseteq Heap /\ aborted \in BOOLEAN
    <3>1. mem = [a \in Heap |-> 0] /\ g_active = {} /\ aborted = FALSE
      BY DEF Init
    <3>2. 0 \in Int
      OBVIOUS
    <3> QED
      BY <3>1, <3>2
  <2>2. g_stats \in [nactive : Int, active_size : Int, ntotal : Nat, total_size : Nat,
                     nfail : Nat, fail_size : Nat, heap_min : Nat, heap_max : Nat]
    BY Consts DEF Init
  <2> QED
    BY <2>1, <2>2 DEF Init, TypeOK
<1>2. PieceInv /\ TableInv /\ HeaderInv
  BY DEF Init, PieceInv, TableInv, HeaderInv
<1>3. StrayInv
  BY Consts DEF Init, StrayInv
<1>4. BoundsInv
  <2>1. g_stats.heap_min >= 8 /\ g_stats.nactive = 0
    BY Consts DEF Init
  <2> QED
    BY <2>1, FS_EmptySet DEF Init, BoundsInv
<1> QED
  BY <1>1, <1>2, <1>3, <1>4 DEF IInv

\* Every step keeps the invariant.
LEMMA NextIInv == ASSUME IInv, [Next]_vars PROVE IInv'
<1>1. CASE UNCHANGED vars
  BY <1>1 DEF vars, IInv, TypeOK, PieceInv, TableInv, HeaderInv, StrayInv, BoundsInv
<1> QED
  BY <1>1, AllocStep, FreeStep, CopyStep, OverrunStep DEF Next, Over

\* The inductive invariant of the allocator holds in every state, whatever sizes the program asks
\* for and whatever it copies or overruns.
THEOREM IInvHolds == Spec => []IInv
<1>1. Init => IInv
  BY InitIInv
<1>2. IInv /\ [Next]_vars => IInv'
  BY NextIInv
<1> QED
  BY <1>1, <1>2, PTL DEF Spec

\* Every live block of dmalloc, from its header to its footer, lies in one piece that malloc() has
\* handed out, and no two share a word, for every size up to (size_t)-1.
THEOREM BlocksStayApart == Spec => []BlocksAreOwn
<1>1. IInv => BlocksAreOwn
  <2> SUFFICES ASSUME IInv, NEW p \in g_active
               PROVE  /\ \E q \in pieces : Block(p) \subseteq Words(q)
                      /\ \A r \in g_active \ {p} : Block(p) \cap Block(r) = {}
    BY DEF BlocksAreOwn
  <2>1. PICK x \in allocs, q \in pieces :
             /\ p = x.ptr + 6 /\ q.ptr = x.ptr /\ x.size >= 7 /\ x.size <= q.size
             /\ x.ptr \in Nat /\ x.size \in Nat /\ q.size \in Nat
             /\ p - hdr_sz = x.ptr /\ mem[p - hdr_sz + 1] = x.size - 7
    BY BlockOf
  <2>2. Block(p) = x.ptr .. x.ptr + x.size - 1
    <3>1. Block(p) = x.ptr .. p + (x.size - 7)
      BY <2>1 DEF Block, SizeOf
    <3>2. p + (x.size - 7) = x.ptr + x.size - 1
      BY <2>1
    <3> QED
      BY <3>1, <3>2
  <2>3. Block(p) \subseteq Words(q)
    <3>1. \A a \in x.ptr .. x.ptr + x.size - 1 : a \in q.ptr .. q.ptr + q.size - 1
      BY <2>1
    <3> QED
      BY <2>2, <3>1 DEF Words
  <2>4. ASSUME NEW r \in g_active \ {p} PROVE Block(p) \cap Block(r) = {}
    <3>1. PICK y \in allocs : /\ r = y.ptr + 6 /\ y.ptr \in Nat /\ y.size \in Nat
                              /\ r - hdr_sz = y.ptr /\ mem[r - hdr_sz + 1] = y.size - 7
      BY BlockOf
    <3>2. Block(r) = y.ptr .. y.ptr + y.size - 1
      <4>1. Block(r) = y.ptr .. r + (y.size - 7)
        BY <3>1 DEF Block, SizeOf
      <4>2. r + (y.size - 7) = y.ptr + y.size - 1
        BY <3>1
      <4> QED
        BY <4>1, <4>2
    <3>3. x.ptr # y.ptr
      BY <2>1, <2>4, <3>1
    <3>4. x.ptr + x.size <= y.ptr \/ y.ptr + y.size <= x.ptr
      BY <3>3, BlocksApart DEF IInv
    <3>5. \A a \in x.ptr .. x.ptr + x.size - 1 : a \notin y.ptr .. y.ptr + y.size - 1
      BY <2>1, <3>1, <3>4
    <3> QED
      BY <2>2, <3>2, <3>5
  <2> QED
    BY <2>3, <2>4
<1> QED
  BY <1>1, IInvHolds, PTL

\* dfree frees the live blocks and nothing else, reports a wild write exactly when there was one
\* and tells a second free from any other invalid one, after any sequence of calls: the tests read
\* headers, and no word that the program has copied passes for one.
THEOREM FreesAreRight == Spec => []FreesAreJudged
<1>1. IInv => FreesAreJudged
  <2> SUFFICES ASSUME IInv, NEW p \in Heap
               PROVE  /\ verdict(p) \in {"ok", "wild write"} <=> p \in g_active /\ p < g_stats.heap_max
                      /\ verdict(p) = "wild write" => p \in overrun
                      /\ verdict(p) = "ok" => p \notin overrun
                      /\ verdict(p) = "double free" <=> p \in Freed /\ p < g_stats.heap_max
    BY DEF FreesAreJudged
  <2>1. p \in Nat /\ g_stats.heap_min \in Nat /\ g_stats.heap_max \in Nat /\ hdr_sz = 6
    BY Consts DEF IInv, TypeOK
  <2>2. ASSUME p \in g_active, p < g_stats.heap_max
        PROVE  /\ verdict(p) = IF p \in overrun THEN "wild write" ELSE "ok"
               /\ p \notin Freed
    <3>1. PICK x \in allocs, q \in pieces :
               /\ p = x.ptr + 6 /\ q.ptr = x.ptr /\ x.ptr \in Nat /\ x.size \in Nat /\ Even(x.ptr)
               /\ p - hdr_sz = x.ptr /\ mem[p - hdr_sz + 1] = x.size - 7
      BY <2>2, BlockOf
    <3>2. (p - hdr_sz) % A = 0
      BY <3>1 DEF Even
    <3>3. ~(p < g_stats.heap_min \/ p >= g_stats.heap_max)
      <4>1. g_stats.heap_min <= p
        BY <3>1 DEF IInv, BoundsInv
      <4> QED
        BY <2>1, <2>2, <4>1
    <3>4. mem[p - hdr_sz] = p /\ mem[p - hdr_sz + 2] = IS_ALLOC /\ mem[p - hdr_sz + 3] = BOUND_VAL
      BY <3>1 DEF IInv, HeaderInv
    <3>5. mem[p + mem[p - hdr_sz + 1]] = IF p \in overrun THEN Data ELSE BOUND_VAL
      <4>1. p + mem[p - hdr_sz + 1] = x.ptr + x.size - 1
        BY <3>1
      <4> QED
        BY <3>1, <4>1 DEF IInv, HeaderInv
    <3>6. verdict(p) = IF p \in overrun THEN "wild write" ELSE "ok"
      <4>1. verdict(p) = IF mem[p + mem[p - hdr_sz + 1]] # BOUND_VAL THEN "wild write" ELSE "ok"
        BY <2>2, <3>2, <3>3, <3>4 DEF verdict
      <4>2. Data # BOUND_VAL
        BY DEF Data, BOUND_VAL
      <4> QED
        BY <3>5, <4>1, <4>2
    <3>7. \A y \in frees : y.ptr + hdr_sz # p
      <4>1. \A y \in frees : y.ptr \in Nat /\ y.ptr # x.ptr
        BY Fields DEF IInv, TableInv
      <4> QED
        BY <2>1, <3>1, <4>1
    <3> QED
      BY <3>6, <3>7 DEF Freed
  <2>3. ASSUME p \notin g_active PROVE verdict(p) \notin {"ok", "wild write"}
    BY <2>3 DEF verdict
  <2>4. ASSUME ~(p < g_stats.heap_max)
        PROVE  verdict(p) \in {"not allocated", "not in heap"}
    <3>1. p >= g_stats.heap_max
      BY <2>1, <2>4
    <3> QED
      BY <3>1 DEF verdict
  <2>5. ASSUME verdict(p) = "double free" PROVE p \in Freed /\ p < g_stats.heap_max
    <3>1. /\ (p - hdr_sz) % A = 0 /\ ~(p < g_stats.heap_min \/ p >= g_stats.heap_max)
          /\ mem[p - hdr_sz] = p /\ mem[p - hdr_sz + 2] # IS_ALLOC
      BY <2>5 DEF verdict
    <3>2. p - 6 \in Heap /\ (p - 6) + 6 = p
      <4>1. g_stats.heap_min >= 8
        BY DEF IInv, BoundsInv
      <4>2. p >= 8
        BY <2>1, <3>1, <4>1
      <4> QED
        BY <2>1, <4>2, Consts
    <3>3. Even(p - 6) /\ mem[p - 6] = (p - 6) + 6
      BY <2>1, <3>1, <3>2 DEF Even
    <3>4. PICK q \in pieces : q.ptr = p - 6
      BY <3>2, <3>3 DEF IInv, StrayInv
    <3>5. PICK y \in allocs \cup frees : y.ptr = p - 6
      BY <3>4 DEF IInv, TableInv
    <3>6. y \notin allocs
      BY <2>1, <3>1, <3>5 DEF IInv, HeaderInv
    <3>7. y.ptr + hdr_sz = p
      BY <2>1, <3>5
    <3>8. p < g_stats.heap_max
      BY <2>1, <3>1
    <3> QED
      BY <3>5, <3>6, <3>7, <3>8 DEF Freed
  <2>6. ASSUME p \in Freed, p < g_stats.heap_max PROVE verdict(p) = "double free"
    <3>1. PICK y \in frees : p = y.ptr + hdr_sz
      BY <2>6 DEF Freed
    <3>2. PICK q \in pieces : q.ptr = y.ptr /\ q.ptr \in Nat /\ Even(q.ptr)
      BY PieceOf DEF IInv
    <3>3. p - hdr_sz = q.ptr /\ p = q.ptr + 6
      BY <2>1, <3>1, <3>2
    <3>4. (p - hdr_sz) % A = 0
      BY <3>2, <3>3 DEF Even
    <3>5. ~(p < g_stats.heap_min \/ p >= g_stats.heap_max)
      <4>1. g_stats.heap_min <= p
        BY <3>3 DEF IInv, BoundsInv
      <4> QED
        BY <2>1, <2>6, <4>1
    <3>6. mem[p - hdr_sz] = p /\ mem[p - hdr_sz + 2] = 0
      BY <3>2, <3>3 DEF IInv, HeaderInv
    <3> QED
      BY <3>4, <3>5, <3>6 DEF verdict, IS_ALLOC
  <2> QED
    BY <2>2, <2>3, <2>4, <2>5, <2>6
<1> QED
  BY <1>1, IInvHolds, PTL

-----------------------------------------------------------------------------
(* The statistics *)

\* The words of the blocks of a set of entries, each with its block.
EntryWords(T) == UNION {{x.ptr + 6} \X (1 .. x.size - 7) : x \in T}

\* The recorded size of the live blocks is what their entries add up to.
SumInv == IsFiniteSet(EntryWords(allocs)) /\ g_stats.active_size = Cardinality(EntryWords(allocs))

\* One more block of n words adds n to the number of words.
LEMMA OneMoreBlock ==
  ASSUME NEW W, IsFiniteSet(W), NEW p, NEW n \in Nat, \A c \in W : c[1] # p
  PROVE  /\ IsFiniteSet(W \cup ({p} \X (1 .. n)))
         /\ Cardinality(W \cup ({p} \X (1 .. n))) = Cardinality(W) + n
<1> DEFINE B == {p} \X (1 .. n)
<1>1. IsFiniteSet({p}) /\ Cardinality({p}) = 1
  BY FS_Singleton
<1>2. IsFiniteSet(1 .. n) /\ Cardinality(1 .. n) = n
  BY FS_Interval
<1>3. IsFiniteSet(B) /\ Cardinality(B) = n
  <2>1. IsFiniteSet(B) /\ Cardinality(B) = Cardinality({p}) * Cardinality(1 .. n)
    BY <1>1, <1>2, FS_Product
  <2>2. 1 * n = n
    OBVIOUS
  <2> QED
    BY <1>1, <1>2, <2>1, <2>2
<1>4. W \cap B = {}
  OBVIOUS
<1> HIDE DEF B
<1>5. IsFiniteSet(W \cup B) /\ Cardinality(W \cup B) = Cardinality(W) + Cardinality(B) - Cardinality(W \cap B)
  BY <1>3, FS_Union
<1>6. Cardinality(W \cap B) = 0 /\ Cardinality(W) \in Nat
  BY <1>4, FS_EmptySet, FS_CardinalityType
<1>7. Cardinality(W \cup B) = Cardinality(W) + n
  BY <1>3, <1>5, <1>6
<1> QED
  BY <1>5, <1>7 DEF B

\* The words of a set of entries and of one more, whose block is none of theirs.
LEMMA OneMoreEntry ==
  ASSUME NEW T \in SUBSET Piece, NEW x \in Piece, x.size >= 7, \A y \in T : y.ptr # x.ptr,
         IsFiniteSet(EntryWords(T))
  PROVE  /\ IsFiniteSet(EntryWords(T \cup {x}))
         /\ Cardinality(EntryWords(T \cup {x})) = Cardinality(EntryWords(T)) + (x.size - 7)
<1>1. EntryWords(T \cup {x}) = EntryWords(T) \cup ({x.ptr + 6} \X (1 .. x.size - 7))
  BY DEF EntryWords
<1>2. x.size - 7 \in Nat
  BY DEF Piece
<1>3. \A c \in EntryWords(T) : c[1] # x.ptr + 6
  <2> SUFFICES ASSUME NEW c \in EntryWords(T) PROVE c[1] # x.ptr + 6
    OBVIOUS
  <2>1. PICK y \in T : c \in {y.ptr + 6} \X (1 .. y.size - 7)
    BY DEF EntryWords
  <2>2. c[1] = y.ptr + 6
    BY <2>1
  <2>3. y.ptr \in Nat /\ x.ptr \in Nat /\ y.ptr # x.ptr
    BY DEF Piece
  <2> QED
    BY <2>2, <2>3
<1> DEFINE p == x.ptr + 6  n == x.size - 7
<1> HIDE DEF p, n
<1>4. n \in Nat /\ \A c \in EntryWords(T) : c[1] # p
  BY <1>2, <1>3 DEF p, n
<1>5. /\ IsFiniteSet(EntryWords(T) \cup ({p} \X (1 .. n)))
      /\ Cardinality(EntryWords(T) \cup ({p} \X (1 .. n))) = Cardinality(EntryWords(T)) + n
  BY <1>4, OneMoreBlock
<1> QED
  BY <1>1, <1>5 DEF p, n

\* No entries, no words.
LEMMA InitSum == ASSUME Init PROVE SumInv
<1>1. EntryWords(allocs) = {}
  BY DEF Init, EntryWords
<1>2. g_stats.active_size = 0
  BY DEF Init
<1> QED
  BY <1>1, <1>2, FS_EmptySet DEF SumInv

\* A new block adds its size.
LEMMA MallocSum ==
  ASSUME IInv, SumInv, NEW sz \in Nat, NEW clear \in BOOLEAN, Malloc(sz, clear)
  PROVE  SumInv'
<1>1. PICK home \in pieces', x \in allocs' : NewBlock(home, x, sz, clear)
  BY Allocated
<1>2. /\ x = [ptr |-> home.ptr, size |-> sz + 7] /\ home \in Piece
      /\ allocs' = allocs \cup {x} /\ \A y \in allocs : y.ptr # x.ptr
  BY <1>1 DEF NewBlock
<1>3. x \in Piece /\ x.size = sz + 7
  BY <1>2 DEF Piece
<1>4. g_stats'.active_size = g_stats.active_size + sz
  BY DEF Malloc, IInv, TypeOK
<1>5. allocs \in SUBSET Piece
  BY DEF IInv, TypeOK
<1>6. /\ IsFiniteSet(EntryWords(allocs'))
      /\ Cardinality(EntryWords(allocs')) = Cardinality(EntryWords(allocs)) + (x.size - 7)
  BY <1>2, <1>3, <1>5, OneMoreEntry DEF SumInv
<1> QED
  BY <1>3, <1>4, <1>6 DEF SumInv

\* A block that is released takes its size away: the one dmalloc has written into its header.
LEMMA ReleaseSum == ASSUME IInv, SumInv, NEW p \in g_active, Release(p) PROVE SumInv'
<1>1. PICK x \in allocs : /\ p = x.ptr + 6 /\ x.size >= 7 /\ x.ptr \in Nat /\ x.size \in Nat
                          /\ p - hdr_sz = x.ptr /\ mem[p - hdr_sz + 1] = x.size - 7
  BY BlockOf
<1>2. allocs' = allocs \ {x}
  <2>1. allocs' = allocs \ {y \in allocs : y.ptr = x.ptr}
    BY <1>1 DEF Release, base_free
  <2>2. \A y \in allocs : y.ptr = x.ptr => y = x
    BY DEF IInv, TableInv
  <2> QED
    BY <2>1, <2>2
<1>3. g_stats'.active_size = g_stats.active_size - (x.size - 7)
  BY <1>1 DEF Release, IInv, TypeOK
<1>4. allocs' \in SUBSET Piece /\ x \in Piece /\ (allocs' \cup {x}) = allocs
      /\ \A y \in allocs' : y.ptr # x.ptr
  BY <1>2 DEF IInv, TypeOK, TableInv
<1>5. IsFiniteSet(EntryWords(allocs')) /\ Cardinality(EntryWords(allocs')) \in Nat
  <2>1. EntryWords(allocs') \subseteq EntryWords(allocs)
    BY <1>2 DEF EntryWords
  <2> QED
    BY <2>1, FS_Subset, FS_CardinalityType DEF SumInv
<1>6. Cardinality(EntryWords(allocs)) = Cardinality(EntryWords(allocs')) + (x.size - 7)
  BY <1>1, <1>4, <1>5, OneMoreEntry
<1> QED
  BY <1>1, <1>3, <1>5, <1>6 DEF SumInv

\* Every step keeps the sum.
LEMMA NextSum == ASSUME IInv, SumInv, [Next]_vars PROVE SumInv'
<1>1. ASSUME allocs' = allocs, g_stats'.active_size = g_stats.active_size PROVE SumInv'
  BY <1>1 DEF SumInv
<1>2. ASSUME NEW n, Fails(n) PROVE SumInv'
  <2>1. allocs' = allocs /\ g_stats'.active_size = g_stats.active_size
    BY <1>2 DEF Fails, IInv, TypeOK
  <2> QED
    BY <1>1, <2>1
<1>3. ASSUME NEW sz \in Sizes, dmalloc(sz) PROVE SumInv'
  <2>1. sz \in Nat
    BY DmallocAssumption
  <2> QED
    BY <1>2, <1>3, <2>1, MallocSum DEF dmalloc, MallocFails
<1>4. ASSUME NEW c \in Callocs, dcalloc(c[1], c[2]) PROVE SumInv'
  <2>1. c[1] \in Nat /\ c[2] \in Nat
    BY DmallocAssumption
  <2>2. c[1] * c[2] \in Nat
    BY <2>1
  <2> QED
    BY <1>2, <1>4, <2>2, MallocSum DEF dcalloc, MallocFails
<1>5. ASSUME NEW p \in Heap, dfree(p) PROVE SumInv'
  <2>1. CASE verdict(p) \in {"ok", "wild write"}
    <3>1. p \in g_active
      BY <2>1 DEF verdict
    <3> QED
      BY <1>5, <2>1, <3>1, ReleaseSum DEF dfree
  <2>2. CASE verdict(p) \notin {"ok", "wild write"}
    <3>1. allocs' = allocs /\ g_stats' = g_stats
      BY <1>5, <2>2 DEF dfree
    <3> QED
      BY <1>1, <3>1
  <2> QED
    BY <2>1, <2>2
<1>6. CASE \E from, to \in g_active : CopyBlock(from, to)
  BY <1>1, <1>6 DEF CopyBlock
<1>7. CASE \E p \in g_active : Overrun(p)
  BY <1>1, <1>7 DEF Overrun
<1>8. CASE UNCHANGED vars
  BY <1>1, <1>8 DEF vars
<1> QED
  BY <1>3, <1>4, <1>5, <1>6, <1>7, <1>8 DEF Next, Over

\* The statistics are exact through any sequence of calls of dmalloc, dcalloc and dfree: the number
\* of the live blocks, the sum of their sizes, and bounds that every one of them is within.
THEOREM StatisticsAreExact == Spec => []StatsAreExact
<1>1. IInv /\ SumInv => StatsAreExact
  <2> SUFFICES ASSUME IInv, SumInv PROVE StatsAreExact
    OBVIOUS
  <2>1. ASSUME NEW p \in g_active
        PROVE  /\ g_stats.heap_min <= p /\ p + SizeOf(p) <= g_stats.heap_max
               /\ \E x \in allocs : p = x.ptr + 6 /\ SizeOf(p) = x.size - 7
    <3>1. PICK x \in allocs, q \in pieces :
               /\ p = x.ptr + 6 /\ q.ptr = x.ptr /\ x.ptr \in Nat /\ x.size \in Nat
               /\ p - hdr_sz = x.ptr /\ mem[p - hdr_sz + 1] = x.size - 7
      BY BlockOf
    <3>2. SizeOf(p) = x.size - 7 /\ p + SizeOf(p) = x.ptr + x.size - 1
      BY <3>1 DEF SizeOf
    <3> QED
      BY <3>1, <3>2 DEF IInv, BoundsInv
  <2>2. ASSUME NEW x \in allocs PROVE x.ptr + 6 \in g_active /\ SizeOf(x.ptr + 6) = x.size - 7
    <3>1. x.ptr \in Nat /\ x.ptr + 6 \in g_active /\ mem[x.ptr + 1] = x.size - 7
      BY Fields DEF IInv, TableInv, HeaderInv
    <3>2. (x.ptr + 6) - hdr_sz + 1 = x.ptr + 1
      BY <3>1, Consts
    <3>3. SizeOf(x.ptr + 6) = mem[(x.ptr + 6) - hdr_sz + 1]
      BY DEF SizeOf
    <3> QED
      BY <3>1, <3>2, <3>3
  <2>3. LiveWords \subseteq EntryWords(allocs)
    <3> SUFFICES ASSUME NEW p \in g_active PROVE {p} \X (1 .. SizeOf(p)) \subseteq EntryWords(allocs)
      BY DEF LiveWords
    <3>1. PICK x \in allocs : p = x.ptr + 6 /\ SizeOf(p) = x.size - 7
      BY <2>1
    <3> QED
      BY <3>1 DEF EntryWords
  <2>4. EntryWords(allocs) \subseteq LiveWords
    <3> SUFFICES ASSUME NEW x \in allocs PROVE {x.ptr + 6} \X (1 .. x.size - 7) \subseteq LiveWords
      BY DEF EntryWords
    <3> QED
      BY <2>2 DEF LiveWords
  <2>5. LiveWords = EntryWords(allocs)
    BY <2>3, <2>4
  <2>6. g_stats.nactive = Cardinality(g_active)
    BY DEF IInv, BoundsInv
  <2> QED
    BY <2>1, <2>5, <2>6 DEF StatsAreExact, SumInv
<1>2. Init => SumInv
  BY InitSum
<1>3. IInv /\ SumInv /\ [Next]_vars => SumInv'
  BY NextSum
<1> QED
  BY <1>1, <1>2, <1>3, IInvHolds, PTL DEF Spec

=============================================================================
