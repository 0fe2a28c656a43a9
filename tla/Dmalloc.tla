------------------------------ MODULE Dmalloc ------------------------------
(***************************************************************************)
(* The debugging allocator of dmalloc/dmalloc.cc on top of the base        *)
(* allocator of basealloc.cc.  Memory is an array of 8-byte words, laid    *)
(* out as the code does it: a block is a header of six words (ptr_val,     *)
(* alloc_size, is_allocated, padding, file, line), the words of the        *)
(* program, and a footer of one word.  Sizes are counted in words; file    *)
(* and line, which only messages show, are not kept.                       *)
(*                                                                         *)
(* malloc() itself is external: it places a new piece anywhere in the heap *)
(* where there is room, or fails.                                          *)
(***************************************************************************)
EXTENDS Integers, FiniteSets

CONSTANTS HeapEnd,    \* the heap is the words 1 .. HeapEnd
          SizeMax,    \* (size_t)-1
          Sizes,      \* the sizes that dmalloc is called with
          Callocs,    \* the pairs <<nmemb, sz>> that dcalloc is called with
          MaxCalls    \* bound: allocations, failed ones included

hdr_sz == 6           \* sizeof(alloc_info_t), rounded up to A
ftr_sz == 1
A == 2                \* alignof(std::max_align_t)

ASSUME DmallocAssumption ==
  /\ HeapEnd \in Nat /\ SizeMax \in Nat /\ MaxCalls \in Nat
  /\ hdr_sz + ftr_sz < SizeMax /\ HeapEnd < SizeMax
  /\ Sizes \subseteq 0 .. SizeMax /\ Callocs \subseteq (0 .. SizeMax) \X (0 .. SizeMax)

Heap == 1 .. HeapEnd

\* Three values of a word that no program stores by chance.
IS_ALLOC  == -1
BOUND_VAL == -2
Data      == -3

VARIABLES mem,       \* [Heap -> Int]
          pieces,    \* what malloc() has handed out, [ptr, size]: never given back
          allocs,    \* the base allocator's table of pieces in use
          frees,     \* and its list of pieces to use again
          g_active,  \* the program's pointers
          g_stats,
          aborted,   \* dfree has called abort()
          overrun    \* the pointers behind whose block the program has written

vars == <<mem, pieces, allocs, frees, g_active, g_stats, aborted, overrun>>

Init ==
  /\ mem = [a \in Heap |-> 0]
  /\ pieces = {} /\ allocs = {} /\ frees = {} /\ g_active = {}
  /\ g_stats = [nactive |-> 0, active_size |-> 0, ntotal |-> 0, total_size |-> 0,
                nfail |-> 0, fail_size |-> 0, heap_min |-> SizeMax, heap_max |-> 0]
  /\ aborted = FALSE
  /\ overrun = {}

Wrap(n) == n % (SizeMax + 1)
Words(piece) == piece.ptr .. piece.ptr + piece.size - 1

-----------------------------------------------------------------------------
(* The base allocator *)

\* malloc(): the places for a piece of that size.
Places(size) ==
  {a \in Heap : a % A = 0 /\ a + size - 1 <= HeapEnd
                /\ \A q \in pieces : Words([ptr |-> a, size |-> size]) \cap Words(q) = {}}

\* A freed piece that is large enough, or a new one; a piece that is used again
\* is recorded with its new size.
base_malloc(sz) ==
  { [ptr |-> f.ptr, pieces |-> pieces, frees |-> frees \ {f}] : f \in {g \in frees : g.size >= sz} }
  \cup LET size == IF sz = 0 THEN 1 ELSE sz IN
       { [ptr |-> a, pieces |-> pieces \cup {[ptr |-> a, size |-> size]}, frees |-> frees] :
         a \in Places(size) }

base_free(ptr) ==
  LET found == {q \in allocs : q.ptr = ptr} IN
  allocs' = allocs \ found /\ frees' = frees \cup found

-----------------------------------------------------------------------------
(* dmalloc and dcalloc *)

Running == ~aborted /\ g_stats.ntotal + g_stats.nfail < MaxCalls

\* Mutant of TooLarge: the footer is not counted.
TooLargeForHeader(sz) == sz > SizeMax - hdr_sz

\* The test for integer overflow.
TooLarge(sz) == sz > SizeMax - hdr_sz - ftr_sz

total(sz) == Wrap(hdr_sz + sz + ftr_sz)

\* The header and the footer; dcalloc clears what is between them.
Formatted(m, user, sz, clear) ==
  LET hdr == user - hdr_sz IN
  [a \in Heap |-> CASE a = hdr                                 -> user
                    [] a = hdr + 1                             -> sz
                    [] a = hdr + 2                             -> IS_ALLOC
                    [] a = hdr + 3 \/ a = user + sz            -> BOUND_VAL
                    [] clear /\ a >= user /\ a < user + sz     -> 0
                    [] OTHER                                   -> m[a]]

Fails(fail_size) ==
  /\ g_stats' = [g_stats EXCEPT !.nfail = @ + 1, !.fail_size = fail_size]
  /\ UNCHANGED <<mem, pieces, allocs, frees, g_active, aborted, overrun>>

\* Overflow, or malloc() returns NULL.
MallocFails(sz) == Running /\ Fails(Wrap(g_stats.fail_size + sz))

Malloc(sz, clear) ==
  /\ Running
  /\ ~TooLarge(sz)
  /\ \E b \in base_malloc(total(sz)) :
       LET user == b.ptr + hdr_sz IN
       /\ pieces' = b.pieces
       /\ allocs' = allocs \cup {[ptr |-> b.ptr, size |-> total(sz)]}
       /\ frees' = b.frees
       /\ g_active' = g_active \cup {user}
       /\ mem' = Formatted(mem, user, sz, clear)
       /\ g_stats' = [g_stats EXCEPT !.nactive = @ + 1, !.active_size = @ + sz,
                                     !.ntotal = @ + 1, !.total_size = @ + sz,
                                     !.heap_min = IF user < @ THEN user ELSE @,
                                     !.heap_max = IF user + sz > @ THEN user + sz ELSE @]
       /\ overrun' = overrun \ {user}
  /\ UNCHANGED aborted

dmalloc(sz) == Malloc(sz, FALSE) \/ MallocFails(sz)

\* An overflowing product sets fail_size, where dmalloc adds to it.
CallocOverflows(nmemb, sz) == nmemb # 0 /\ sz # 0 /\ sz > SizeMax \div nmemb

dcalloc(nmemb, sz) ==
  \/ CallocOverflows(nmemb, sz) /\ Running /\ Fails(SizeMax)
  \/ ~CallocOverflows(nmemb, sz) /\ (Malloc(nmemb * sz, TRUE) \/ MallocFails(nmemb * sz))

-----------------------------------------------------------------------------
(* dfree *)

\* Mutant of verdict: a header that is not marked is taken for a freed one.
verdict_unmarked(ptr) ==
  LET hdr == ptr - hdr_sz IN
  IF hdr % A # 0                                                        THEN "not allocated"
  ELSE IF ptr < g_stats.heap_min \/ ptr >= g_stats.heap_max             THEN "not in heap"
  ELSE IF mem[hdr + 2] # IS_ALLOC                                       THEN "double free"
  ELSE IF mem[hdr] # ptr \/ ptr \notin g_active                         THEN "not allocated"
  ELSE IF mem[ptr + mem[hdr + 1]] # BOUND_VAL \/ mem[hdr + 3] # BOUND_VAL THEN "wild write"
  ELSE "ok"

\* What dfree finds out about a pointer, in the order of its tests.
verdict(ptr) ==
  LET hdr == ptr - hdr_sz IN
  IF hdr % A # 0                                                        THEN "not allocated"
  ELSE IF ptr < g_stats.heap_min \/ ptr >= g_stats.heap_max             THEN "not in heap"
  ELSE IF mem[hdr] = ptr /\ mem[hdr + 2] # IS_ALLOC                     THEN "double free"
  ELSE IF mem[hdr] # ptr \/ ptr \notin g_active                         THEN "not allocated"
  ELSE IF mem[ptr + mem[hdr + 1]] # BOUND_VAL \/ mem[hdr + 3] # BOUND_VAL THEN "wild write"
  ELSE "ok"

\* Mutant of Release: the size of the block stays counted.
ReleaseKeepsSize(ptr) ==
  LET hdr == ptr - hdr_sz IN
  /\ mem' = [mem EXCEPT ![hdr + 2] = 0]
  /\ base_free(hdr)
  /\ g_active' = g_active \ {ptr}
  /\ g_stats' = [g_stats EXCEPT !.nactive = @ - 1]
  /\ UNCHANGED <<pieces, aborted, overrun>>

\* The block is marked and goes back to the base allocator.
Release(ptr) ==
  LET hdr == ptr - hdr_sz IN
  /\ mem' = [mem EXCEPT ![hdr + 2] = 0]
  /\ base_free(hdr)
  /\ g_active' = g_active \ {ptr}
  /\ g_stats' = [g_stats EXCEPT !.nactive = @ - 1, !.active_size = @ - mem[hdr + 1]]
  /\ UNCHANGED <<pieces, aborted, overrun>>

\* A wild write is reported, and the block is freed all the same.
dfree(ptr) ==
  /\ ~aborted
  /\ IF verdict(ptr) \in {"ok", "wild write"}
     THEN Release(ptr)
     ELSE aborted' = TRUE /\ UNCHANGED <<mem, pieces, allocs, frees, g_active, g_stats, overrun>>

-----------------------------------------------------------------------------
(* The program *)

\* It copies a block, header included, into a block that is large enough.
CopyBlock(from, to) ==
  /\ ~aborted
  /\ mem[to - hdr_sz + 1] >= hdr_sz
  /\ mem' = [a \in Heap |-> IF a >= to /\ a < to + hdr_sz THEN mem[from - hdr_sz + a - to] ELSE mem[a]]
  /\ UNCHANGED <<pieces, allocs, frees, g_active, g_stats, aborted, overrun>>

\* It writes one word too many.
Overrun(ptr) ==
  /\ ~aborted
  /\ mem' = [mem EXCEPT ![ptr + mem[ptr - hdr_sz + 1]] = Data]
  /\ overrun' = overrun \cup {ptr}
  /\ UNCHANGED <<pieces, allocs, frees, g_active, g_stats, aborted>>

Over == aborted /\ UNCHANGED vars

Next ==
  \/ \E sz \in Sizes : dmalloc(sz)
  \/ \E c \in Callocs : dcalloc(c[1], c[2])
  \/ \E ptr \in Heap : dfree(ptr)
  \/ \E from, to \in g_active : CopyBlock(from, to)
  \/ \E ptr \in g_active : Overrun(ptr)
  \/ Over

Spec == Init /\ [][Next]_vars

-----------------------------------------------------------------------------
(* Properties *)

SizeOf(ptr) == mem[ptr - hdr_sz + 1]
Block(ptr) == ptr - hdr_sz .. ptr + SizeOf(ptr)

\* Every live block, from its header to its footer, lies inside one piece that
\* malloc has handed out, and no two share a word: requests near the largest size
\* and pieces that are used again never make a block larger than its piece.
BlocksAreOwn ==
  \A p \in g_active :
    /\ \E q \in pieces : Block(p) \subseteq Words(q)
    /\ \A r \in g_active \ {p} : Block(p) \cap Block(r) = {}

\* The words of the live blocks, each with its block: as many as their sizes add up to.
LiveWords == UNION {{p} \X (1 .. SizeOf(p)) : p \in g_active}

\* The statistics are those of the live blocks, through any sequence of calls,
\* failed ones and blocks with wild writes included, and every live block is
\* within the recorded bounds of the heap.
StatsAreExact ==
  /\ g_stats.nactive = Cardinality(g_active)
  /\ g_stats.active_size = Cardinality(LiveWords)
  /\ \A p \in g_active : g_stats.heap_min <= p /\ p + SizeOf(p) <= g_stats.heap_max

Freed == {q.ptr + hdr_sz : q \in frees}

\* dfree frees the live blocks and nothing else, reports a wild write exactly when
\* there was one, and tells a second free from any other invalid one.  One live
\* block it refuses: an empty one that ends where the heap ends, which the test
\* against heap_max takes for a pointer outside the heap.
FreesAreJudged ==
  ~aborted =>
    \A p \in Heap :
      LET v == verdict(p) IN
      /\ v \in {"ok", "wild write"} <=> p \in g_active /\ p < g_stats.heap_max
      /\ v = "wild write" => p \in overrun
      /\ v = "ok" => p \notin overrun
      /\ v = "double free" <=> p \in Freed /\ p < g_stats.heap_max
=============================================================================
