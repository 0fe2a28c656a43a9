------------------------- MODULE WeensyKernelProofs -------------------------
(***************************************************************************)
(* Proofs about WeensyKernel for every amount of memory, every number of   *)
(* processes and every order of interrupts, system calls and stores: the   *)
(* reference counts, what the memory viewer shows, the isolation of the    *)
(* processes, and which pages are lost; and, at the end, about             *)
(* WeensyKeyboard and WeensyConsole.                                       *)
(*                                                                         *)
(* A page table refers to a page from one of its slots, a level or a user  *)
(* address.  The invariant says that a page stands in one slot of one page *)
(* table, but for a code page, which stands in the code slot of every      *)
(* process that shares it, and that the count of a page is the number of   *)
(* its slots, but for a lost page, which has one too many.                 *)
(***************************************************************************)
EXTENDS WeensyKernel, WeensyKeyboard, WeensyConsole, FiniteSetTheorems, FunctionTheorems,
        WellFoundedInduction, TLAPS

Slots == Levels \cup Vas

\* The page that a slot of a page table refers to, or 0.
Page(pt, s) == IF s \in Levels THEN pt.tables[s] ELSE pt.map[s].pa

PageTables == [tables : [Levels -> 0 .. NPages], map : [Vas -> [pa : 0 .. NPages, w : BOOLEAN]]]
Memory == [refcount : [Pages -> Nat], data : [Pages -> Nat]]

\* The processes whose page tables T share the code page p.
Sharers(T, p) == {j \in Pids : Page(T[j], "code") = p}

Loose(T, p) == \A i \in Pids, s \in Slots : Page(T[i], s) # p

Apart(T) ==
  \A i, j \in Pids, s, r \in Slots :
    Page(T[i], s) # 0 /\ Page(T[i], s) = Page(T[j], r) => s = r /\ (i = j \/ s = "code")

Counted(m, T) ==
  \A p \in Pages :
    /\ \A i \in Pids, s \in Slots \ {"code"} : Page(T[i], s) = p => m.refcount[p] = 1
    /\ Sharers(T, p) # {} => m.refcount[p] = Cardinality(Sharers(T, p))
    /\ Loose(T, p) => m.refcount[p] <= 1

\* Only the code is mapped read-only.
Rights(pt) == \A v \in Vas : pt.map[v] = NoEntry \/ (pt.map[v].pa # 0 /\ pt.map[v].w = (v # "code"))

Good(m, T) ==
  /\ m \in Memory /\ T \in [Pids -> PageTables]
  /\ Apart(T) /\ Counted(m, T)
  /\ \A i \in Pids : Rights(T[i])

TablesOf(tab) == [i \in Pids |-> tab[i].pagetable]

\* A page table with all the tables that the addresses below MEMSIZE_VIRTUAL need, and
\* a stack: nothing that is mapped there takes another page.
Whole(pt) == (\A l \in Levels \ {"far"} : pt.tables[l] # 0) /\ pt.map["stack"] # NoEntry

\* A free process has no page table, the others have a whole one, and nobody is process 0.
TypeOK ==
  /\ ptable \in [Pids -> [state : {"FREE", "RUNNABLE", "FAULTED"}, pagetable : PageTables]]
  /\ current \in Pids
  /\ spinning \in BOOLEAN

ProcInv ==
  /\ ptable[0].state = "FREE"
  /\ \A i \in Pids : IF ptable[i].state = "FREE" THEN ptable[i].pagetable = NoTable
                     ELSE Whole(ptable[i].pagetable)

IInv == TypeOK /\ ProcInv /\ Good(mem, TablesOf(ptable))

-----------------------------------------------------------------------------
(* Sets of numbers, and the allocator *)

\* A set of natural numbers that is not empty has a least one.
LEMMA LeastOfNat ==
  ASSUME NEW T \in SUBSET Nat, T # {}
  PROVE  \E x \in T : \A y \in T : x <= y
<1> DEFINE R == OpToRel(<, Nat)
<1>1. IsWellFoundedOn(R, Nat)
  BY NatLessThanWellFounded
<1>2. \A x, y \in Nat : y < x => <<y, x>> \in R
  BY DEF OpToRel
<1> HIDE DEF R
<1>3. PICK x \in T : \A y \in T : ~(<<y, x>> \in R)
  BY <1>1, WFMin
<1>4. \A y \in T : ~(y < x) /\ y \in Nat /\ x \in Nat
  BY <1>2, <1>3
<1>5. \A y \in T : x <= y
  BY <1>4
<1> QED
  BY <1>5

\* What the code's searches for the first of some numbers return.
LEMMA LeastIsChosen ==
  ASSUME NEW T \in SUBSET Nat, T # {}
  PROVE  /\ (CHOOSE x \in T : \A y \in T : x <= y) \in T
         /\ \A y \in T : (CHOOSE x \in T : \A z \in T : x <= z) <= y
<1>1. \E x \in T : \A y \in T : x <= y
  BY LeastOfNat
<1> QED
  BY <1>1

\* The constants are numbers, and there is a process besides process 0.
LEMMA Constants ==
  /\ NPages \in Nat /\ PidMax \in Nat /\ CountMod \in Nat
  /\ PidMax < CountMod /\ 2 <= PidMax /\ 0 \in Pids /\ 8 <= NPages
  /\ Pages \subseteq Nat /\ Pids \subseteq Nat /\ 0 \notin Pages
<1>1. 1 \in Boot
  BY KernelAssumption
<1> QED
  BY <1>1, KernelAssumption DEF Pages, Pids

\* The processes are finitely many, and so are those that share a page.
LEMMA PidsFinite == IsFiniteSet(Pids) /\ Cardinality(Pids) = PidMax
<1>1. 0 \in Int /\ PidMax - 1 \in Int /\ 0 <= PidMax - 1
  BY Constants
<1> QED
  BY <1>1, FS_Interval, Constants DEF Pids

\* kalloc hands out a page that was free, and the first one of those; every other
\* page stays as it is.
LEMMA KallocPage ==
  ASSUME NEW m \in Memory, kalloc(m).pa # 0
  PROVE  /\ kalloc(m).pa \in Pages /\ kalloc(m).m \in Memory
         /\ m.refcount[kalloc(m).pa] = 0
         /\ \A q \in Pages : m.refcount[q] = 0 => kalloc(m).pa <= q
         /\ \A q \in Pages :
              /\ kalloc(m).m.refcount[q] = IF q = kalloc(m).pa THEN 1 ELSE m.refcount[q]
              /\ kalloc(m).m.data[q] = IF q = kalloc(m).pa THEN Junk ELSE m.data[q]
<1> DEFINE free == {p \in Pages : m.refcount[p] = 0}
           p == CHOOSE q \in free : \A r \in free : q <= r
<1>1. free # {}
  BY DEF kalloc
<1>2. free \in SUBSET Nat
  BY Constants
<1>3. p \in free /\ \A q \in free : p <= q
  <2> HIDE DEF free
  <2> QED
    BY <1>1, <1>2, LeastIsChosen
<1>4. kalloc(m) = [m |-> [refcount |-> [m.refcount EXCEPT ![p] = 1], data |-> [m.data EXCEPT ![p] = Junk]],
                   pa |-> p]
  BY <1>1 DEF kalloc
<1> HIDE DEF p
<1> QED
  BY <1>3, <1>4 DEF Memory, Junk

\* kalloc returns nothing only when every page is in use.
LEMMA KallocNothing ==
  ASSUME NEW m \in Memory
  PROVE  /\ kalloc(m).pa = 0 => \A q \in Pages : m.refcount[q] # 0
         /\ kalloc(m).pa = 0 => kalloc(m).m = m
<1>1. CASE {p \in Pages : m.refcount[p] = 0} = {}
  BY <1>1 DEF kalloc
<1>2. CASE {p \in Pages : m.refcount[p] = 0} # {}
  <2> DEFINE free == {p \in Pages : m.refcount[p] = 0}
             p == CHOOSE q \in free : \A r \in free : q <= r
  <2>1. free \in SUBSET Nat /\ free # {}
    BY <1>2, Constants
  <2>2. p \in free
    <3> HIDE DEF free
    <3> QED
      BY <2>1, LeastIsChosen
  <2>3. kalloc(m).pa = p
    BY <1>2 DEF kalloc
  <2> QED
    BY <2>2, <2>3, Constants
<1> QED
  BY <1>1, <1>2

-----------------------------------------------------------------------------
(* The slots of the page tables *)

\* What a slot of a page table is.
LEMMA SlotType ==
  ASSUME NEW pt \in PageTables
  PROVE  /\ \A s \in Slots : Page(pt, s) \in 0 .. NPages
         /\ \A s \in Slots : Page(pt, s) = 0 \/ Page(pt, s) \in Pages
         /\ \A l \in Levels : Page(pt, l) = pt.tables[l]
         /\ \A v \in Vas : Page(pt, v) = pt.map[v].pa
         /\ Levels \subseteq Slots /\ Vas \subseteq Slots /\ Slots = Levels \cup Vas
<1>1. Levels \cap Vas = {}
  BY DEF Levels, Vas, Below
<1>2. \A s \in Slots : Page(pt, s) \in 0 .. NPages
  BY <1>1 DEF Page, PageTables, Slots
<1>3. \A v \in Vas : Page(pt, v) = pt.map[v].pa
  BY <1>1 DEF Page
<1> QED
  BY <1>2, <1>3, Constants DEF Page, Slots, Pages

\* The empty page table.
LEMMA NoTableType ==
  /\ NoTable \in PageTables /\ Rights(NoTable)
  /\ \A s \in Slots : Page(NoTable, s) = 0
<1>1. NoTable \in PageTables
  BY Constants DEF NoTable, NoEntry, PageTables
<1> QED
  BY <1>1 DEF NoTable, NoEntry, Page, Rights, Slots

\* The sharers of a page are finitely many, no more than there are processes.
LEMMA SharersFinite ==
  ASSUME NEW T, NEW p
  PROVE  /\ IsFiniteSet(Sharers(T, p)) /\ Cardinality(Sharers(T, p)) \in Nat
         /\ Sharers(T, p) \subseteq Pids /\ Cardinality(Sharers(T, p)) <= PidMax
         /\ Sharers(T, p) # {} => Cardinality(Sharers(T, p)) >= 1
<1>1. Sharers(T, p) \in SUBSET Pids
  BY DEF Sharers
<1>2. IsFiniteSet(Sharers(T, p)) /\ Cardinality(Sharers(T, p)) <= PidMax
  BY <1>1, PidsFinite, FS_Subset
<1>3. Cardinality(Sharers(T, p)) \in Nat
  BY <1>2, FS_CardinalityType
<1>4. Sharers(T, p) # {} => Cardinality(Sharers(T, p)) # 0
  BY <1>2, FS_EmptySet
<1> QED
  BY <1>1, <1>2, <1>3, <1>4

\* A page that a page table refers to is counted; a page in more than one slot is a
\* code page.
LEMMA UsedIsCounted ==
  ASSUME NEW m, NEW T, Good(m, T), NEW p \in Pages, ~Loose(T, p)
  PROVE  m.refcount[p] >= 1
<1>1. PICK i \in Pids, s \in Slots : Page(T[i], s) = p
  BY DEF Loose
<1>2. CASE s = "code"
  <2>1. i \in Sharers(T, p)
    BY <1>1, <1>2 DEF Sharers
  <2> QED
    BY <2>1, SharersFinite DEF Good, Counted
<1>3. CASE s # "code"
  BY <1>1, <1>3 DEF Good, Counted
<1> QED
  BY <1>2, <1>3

\* A page that is not counted is in no page table.
LEMMA FreeIsLoose ==
  ASSUME NEW m, NEW T, Good(m, T), NEW p \in Pages, m.refcount[p] = 0
  PROVE  Loose(T, p)
  BY UsedIsCounted

\* The counts matter, and that the memory is one; what is in the pages does not.
LEMMA SameCounts ==
  ASSUME NEW m, NEW T, Good(m, T), NEW m2 \in Memory,
         \A p \in Pages : m2.refcount[p] = m.refcount[p]
  PROVE  Good(m2, T)
  BY DEF Good, Counted

\* The page that kalloc hands out is in no page table, and is counted once.
LEMMA KallocGood ==
  ASSUME NEW m, NEW T, Good(m, T), kalloc(m).pa # 0
  PROVE  /\ Good(kalloc(m).m, T)
         /\ Loose(T, kalloc(m).pa) /\ kalloc(m).m.refcount[kalloc(m).pa] = 1
<1> DEFINE a == kalloc(m)
<1>1. /\ a.pa \in Pages /\ a.m \in Memory
      /\ m.refcount[a.pa] = 0
      /\ \A q \in Pages : a.m.refcount[q] = IF q = a.pa THEN 1 ELSE m.refcount[q]
  BY KallocPage DEF Good
<1> HIDE DEF a
<1>2. Loose(T, a.pa)
  BY <1>1, FreeIsLoose
<1>3. Counted(a.m, T)
  <2> SUFFICES ASSUME NEW p \in Pages
               PROVE  /\ \A i \in Pids, s \in Slots \ {"code"} : Page(T[i], s) = p => a.m.refcount[p] = 1
                      /\ Sharers(T, p) # {} => a.m.refcount[p] = Cardinality(Sharers(T, p))
                      /\ Loose(T, p) => a.m.refcount[p] <= 1
    BY DEF Counted
  <2>1. CASE p = a.pa
    <3>1. Sharers(T, p) = {}
      BY <2>1, <1>2 DEF Sharers, Loose, Slots, Vas, Below
    <3> QED
      BY <2>1, <3>1, <1>1, <1>2 DEF Loose
  <2>2. CASE p # a.pa
    BY <2>2, <1>1 DEF Good, Counted
  <2> QED
    BY <2>1, <2>2
<1> QED
  BY <1>1, <1>2, <1>3 DEF Good, a

\* A page that is in no page table, and counted once, can be put into any slot, but
\* not in the place of a code page.
LEMMA Install ==
  ASSUME NEW m, NEW T, Good(m, T), NEW i \in Pids, NEW s \in Slots, NEW p \in Pages,
         m.refcount[p] = 1, Loose(T, p), s = "code" => Page(T[i], s) = 0,
         NEW T2 \in [Pids -> PageTables], Rights(T2[i]),
         \A j \in Pids : j # i => T2[j] = T[j],
         \A r \in Slots : r # s => Page(T2[i], r) = Page(T[i], r),
         Page(T2[i], s) = p
  PROVE  Good(m, T2)
<1>0. p # 0
  BY Constants
<1>1. \A j \in Pids, r \in Slots : IF j = i /\ r = s THEN Page(T2[j], r) = p ELSE Page(T2[j], r) = Page(T[j], r)
  OBVIOUS
<1>2. \A j \in Pids, r \in Slots : Page(T[j], r) # p
  BY DEF Loose
<1>3. Apart(T2)
  <2> SUFFICES ASSUME NEW j \in Pids, NEW k \in Pids, NEW r \in Slots, NEW t \in Slots,
                      Page(T2[j], r) # 0, Page(T2[j], r) = Page(T2[k], t)
               PROVE  r = t /\ (j = k \/ r = "code")
    BY DEF Apart
  <2>1. Page(T[j], r) # 0 /\ Page(T[j], r) = Page(T[k], t) => r = t /\ (j = k \/ r = "code")
    BY DEF Good, Apart
  <2> QED
    BY <1>1, <1>2, <2>1
<1>4. ASSUME NEW q \in Pages
      PROVE  /\ \A j \in Pids, r \in Slots \ {"code"} : Page(T2[j], r) = q => m.refcount[q] = 1
             /\ Sharers(T2, q) # {} => m.refcount[q] = Cardinality(Sharers(T2, q))
             /\ Loose(T2, q) => m.refcount[q] <= 1
  <2>0. "code" \in Slots
    BY DEF Slots, Vas, Below
  <2>1. CASE q = p
    <3>1. Sharers(T2, q) \in {{}, {i}}
      BY <2>0, <2>1, <1>1, <1>2 DEF Sharers
    <3>2. Cardinality({i}) = 1
      BY FS_Singleton
    <3> QED
      BY <2>1, <3>1, <3>2
  <2>2. CASE q # p
    <3>1. \A j \in Pids, r \in Slots \ {"code"} : Page(T2[j], r) = q => m.refcount[q] = 1
      BY <2>2, <1>1 DEF Good, Counted
    <3>2. Sharers(T2, q) = {} \/ Sharers(T2, q) = Sharers(T, q)
      <4>1. CASE s = "code"
        <5>1. q # 0
          BY Constants
        <5>2. \A j \in Pids : Page(T2[j], "code") = q <=> Page(T[j], "code") = q
          BY <2>0, <2>2, <4>1, <5>1, <1>1
        <5> QED
          BY <5>2 DEF Sharers
      <4>2. CASE s # "code"
        <5>1. \A j \in Pids : Page(T2[j], "code") = Page(T[j], "code")
          BY <2>0, <4>2, <1>1
        <5> QED
          BY <5>1 DEF Sharers
      <4> QED
        BY <4>1, <4>2
    <3>3. Sharers(T2, q) # {} => m.refcount[q] = Cardinality(Sharers(T2, q))
      BY <3>2 DEF Good, Counted
    <3>4. ASSUME Loose(T2, q) PROVE m.refcount[q] <= 1
      <4>1. CASE Loose(T, q)
        BY <4>1 DEF Good, Counted
      <4>2. CASE ~Loose(T, q)
        <5>1. Page(T[i], s) = q
          BY <4>2, <3>4, <1>1 DEF Loose
        <5>2. s # "code"
          BY <5>1, Constants
        <5> QED
          BY <5>1, <5>2 DEF Good, Counted
      <4> QED
        BY <4>1, <4>2
    <3> QED
      BY <3>1, <3>3, <3>4
  <2> QED
    BY <2>1, <2>2
<1>5. Counted(m, T2)
  BY <1>4, Zenon DEF Counted
<1>6. \A j \in Pids : Rights(T2[j])
  BY DEF Good
<1> QED
  BY <1>3, <1>5, <1>6 DEF Good

\* A code page can be shared with one process more, if it is counted once more.
LEMMA Share ==
  ASSUME NEW m, NEW T, Good(m, T), NEW i \in Pids, NEW k \in Pids, NEW p \in Pages,
         Page(T[k], "code") = p, Page(T[i], "code") = 0,
         NEW T2 \in [Pids -> PageTables], Rights(T2[i]),
         \A j \in Pids : j # i => T2[j] = T[j],
         \A r \in Slots : r # "code" => Page(T2[i], r) = Page(T[i], r),
         Page(T2[i], "code") = p
  PROVE  Good(CountUp(m, p), T2)
<1> DEFINE m2 == CountUp(m, p)
<1>0. "code" \in Slots /\ p # 0
  BY Constants DEF Slots, Vas, Below
<1>1. \A j \in Pids, r \in Slots :
        IF j = i /\ r = "code" THEN Page(T2[j], r) = p ELSE Page(T2[j], r) = Page(T[j], r)
  OBVIOUS
<1>2. \A j \in Pids, r \in Slots : Page(T[j], r) = p => r = "code"
  BY <1>0 DEF Good, Apart
<1>3. /\ IsFiniteSet(Sharers(T, p)) /\ i \notin Sharers(T, p)
      /\ m.refcount[p] = Cardinality(Sharers(T, p))
      /\ Sharers(T2, p) = Sharers(T, p) \cup {i}
  <2>1. k \in Sharers(T, p) /\ i \notin Sharers(T, p)
    BY <1>0 DEF Sharers
  <2>2. m.refcount[p] = Cardinality(Sharers(T, p))
    BY <2>1 DEF Good, Counted
  <2>3. Sharers(T2, p) = Sharers(T, p) \cup {i}
    BY <1>0, <1>1 DEF Sharers
  <2> QED
    BY <2>1, <2>2, <2>3, SharersFinite
<1>4. Cardinality(Sharers(T2, p)) = m.refcount[p] + 1 /\ m.refcount[p] + 1 < CountMod
  <2>1. Cardinality(Sharers(T2, p)) = Cardinality(Sharers(T, p)) + 1
    BY <1>3, FS_AddElement, ZenonT(60)
  <2>2. Cardinality(Sharers(T, p)) \in Nat /\ Cardinality(Sharers(T2, p)) <= PidMax
    BY SharersFinite
  <2> QED
    BY <1>3, <2>1, <2>2, Constants
<1>5. /\ m2 \in Memory
      /\ \A q \in Pages : m2.refcount[q] = IF q = p THEN m.refcount[p] + 1 ELSE m.refcount[q]
  <2>1. m \in Memory
    BY DEF Good
  <2>2. (m.refcount[p] + 1) % CountMod = m.refcount[p] + 1
    BY <1>4, <2>1, Constants DEF Memory
  <2>3. m.refcount[p] + 1 \in Nat
    BY <2>1 DEF Memory
  <2> QED
    BY <2>1, <2>2, <2>3 DEF CountUp, Memory
<1> HIDE DEF m2
<1>6. Apart(T2)
  <2> SUFFICES ASSUME NEW j \in Pids, NEW l \in Pids, NEW r \in Slots, NEW t \in Slots,
                      Page(T2[j], r) # 0, Page(T2[j], r) = Page(T2[l], t)
               PROVE  r = t /\ (j = l \/ r = "code")
    BY DEF Apart
  <2>1. Page(T[j], r) # 0 /\ Page(T[j], r) = Page(T[l], t) => r = t /\ (j = l \/ r = "code")
    BY DEF Good, Apart
  <2> QED
    BY <1>1, <1>2, <2>1
<1>7. ASSUME NEW q \in Pages
      PROVE  /\ \A j \in Pids, r \in Slots \ {"code"} : Page(T2[j], r) = q => m2.refcount[q] = 1
             /\ Sharers(T2, q) # {} => m2.refcount[q] = Cardinality(Sharers(T2, q))
             /\ Loose(T2, q) => m2.refcount[q] <= 1
  <2>1. CASE q = p
    <3>1. ~Loose(T2, q)
      BY <1>0, <2>1 DEF Loose
    <3> QED
      BY <2>1, <3>1, <1>1, <1>2, <1>4, <1>5
  <2>2. CASE q # p
    <3>1. \A j \in Pids, r \in Slots : Page(T2[j], r) = q <=> Page(T[j], r) = q
      BY <2>2, <1>1, Constants
    <3>2. Sharers(T2, q) = Sharers(T, q) /\ Loose(T2, q) = Loose(T, q)
      BY <3>1, <1>0 DEF Sharers, Loose
    <3> QED
      BY <2>2, <3>1, <3>2, <1>5 DEF Good, Counted
  <2> QED
    BY <2>1, <2>2
<1>8. Counted(m2, T2)
  BY <1>7, Zenon DEF Counted
<1>9. \A j \in Pids : Rights(T2[j])
  BY DEF Good
<1> QED
  BY <1>5, <1>6, <1>8, <1>9 DEF Good, m2

\* What free_pagetable finds of a page in a page table: one reference, or none.
LEMMA UsesInIsOne ==
  ASSUME NEW m, NEW T, Good(m, T), NEW i \in Pids, NEW p \in Pages
  PROVE  UsesIn(T[i], p) = IF \E s \in Slots \ {"beyond"} : Page(T[i], s) = p THEN 1 ELSE 0
<1> DEFINE L == {l \in Levels : T[i].tables[l] = p}
           V == {v \in Below : T[i].map[v].pa = p}
<1>0. Cardinality({}) = 0 /\ \A x : Cardinality({x}) = 1
  BY FS_EmptySet, FS_Singleton
<1>1. /\ \A l \in Levels : Page(T[i], l) = T[i].tables[l]
      /\ \A v \in Below : Page(T[i], v) = T[i].map[v].pa
      /\ Slots \ {"beyond"} = Levels \cup Below /\ Levels \cap Below = {}
  <2>1. T[i] \in PageTables /\ Below \subseteq Vas
    BY DEF Good, Vas
  <2>2. Slots \ {"beyond"} = Levels \cup Below /\ Levels \cap Below = {}
    BY DEF Slots, Levels, Vas, Below
  <2> QED
    BY <2>1, <2>2, SlotType
<1>2. \A s, r \in Slots : Page(T[i], s) = p /\ Page(T[i], r) = p => s = r
  BY Constants DEF Good, Apart
<1>3. UsesIn(T[i], p) = Cardinality(L) + Cardinality(V)
  BY DEF UsesIn
<1> HIDE DEF L, V
<1>4. CASE \A s \in Slots \ {"beyond"} : Page(T[i], s) # p
  <2>1. L = {} /\ V = {}
    BY <1>1, <1>4 DEF L, V
  <2> QED
    BY <1>0, <1>3, <1>4, <2>1
<1>5. ASSUME NEW s \in Slots \ {"beyond"}, Page(T[i], s) = p PROVE UsesIn(T[i], p) = 1
  <2>1. CASE s \in Levels
    <3>1. L = {s} /\ V = {}
      BY <1>1, <1>2, <1>5, <2>1 DEF L, V
    <3>2. Cardinality({s}) = 1
      BY <1>0
    <3> QED
      BY <1>0, <1>3, <3>1, <3>2
  <2>2. CASE s \in Below
    <3>1. V = {s} /\ L = {}
      BY <1>1, <1>2, <1>5, <2>2 DEF L, V
    <3>2. Cardinality({s}) = 1
      BY <1>0
    <3> QED
      BY <1>0, <1>3, <3>1, <3>2
  <2> QED
    BY <1>1, <2>1, <2>2
<1> QED
  BY <1>4, <1>5

\* A page that only the page table of one process refers to is counted once.
LEMMA LastUse ==
  ASSUME NEW m, NEW T, Good(m, T), NEW i \in Pids, NEW T2, \A j \in Pids : j # i => T2[j] = T[j],
         NEW q \in Pages, Loose(T2, q), NEW s \in Slots, Page(T[i], s) = q
  PROVE  m.refcount[q] = 1
<1>1. CASE s # "code"
  BY <1>1 DEF Good, Counted
<1>2. CASE s = "code"
  <2>1. i \in Sharers(T, q)
    BY <1>2 DEF Sharers
  <2>2. \A j \in Sharers(T, q) : j = i
    BY <1>2 DEF Sharers, Loose
  <2>3. Sharers(T, q) = {i}
    BY <2>1, <2>2
  <2>4. Cardinality({i}) = 1
    BY FS_Singleton
  <2>5. m.refcount[q] = Cardinality(Sharers(T, q))
    BY <2>3 DEF Good, Counted
  <2> QED
    BY <2>3, <2>4, <2>5
<1> QED
  BY <1>1, <1>2

\* free_pagetable gives back what the page table of one process refers to, but a page
\* mapped from MEMSIZE_VIRTUAL on, and no page that another one uses.
LEMMA FreeTable ==
  ASSUME NEW m, NEW T, Good(m, T), NEW i \in Pids,
         NEW T2 \in [Pids -> PageTables], T2[i] = NoTable,
         \A j \in Pids : j # i => T2[j] = T[j]
  PROVE  LET m2 == free_pagetable(m, T[i]) IN
         /\ Good(m2, T2)
         /\ \A p \in Pages : ~Loose(T2, p) => m2.data[p] = m.data[p]
         /\ \A p \in Pages, s \in Slots \ {"beyond"} :
              Page(T[i], s) = p /\ Loose(T2, p) => m2.refcount[p] = 0
         /\ \A p \in Pages : (\A s \in Slots \ {"beyond"} : Page(T[i], s) # p) =>
              /\ m2.refcount[p] = m.refcount[p]
              /\ m.refcount[p] # 0 => m2.data[p] = m.data[p]
<1> DEFINE m2 == free_pagetable(m, T[i])
           mine(p) == \E s \in Slots \ {"beyond"} : Page(T[i], s) = p
<1>0. /\ m.refcount \in [Pages -> Nat] /\ m.data \in [Pages -> Nat]
      /\ \A j \in Pids : Rights(T[j])
      /\ "code" \in Slots /\ "code" # "beyond"
  BY DEF Good, Memory, Slots, Vas, Below
<1>1. \A p \in Pages : m2.refcount[p] = IF mine(p) THEN (IF m.refcount[p] > 1 THEN m.refcount[p] - 1 ELSE 0)
                                        ELSE m.refcount[p]
  <2>1. \A p \in Pages : m2.refcount[p] = IF m.refcount[p] > UsesIn(T[i], p) THEN m.refcount[p] - UsesIn(T[i], p) ELSE 0
    BY DEF free_pagetable, Forget
  <2>2. \A p \in Pages : UsesIn(T[i], p) = IF mine(p) THEN 1 ELSE 0
    BY UsesInIsOne
  <2> HIDE DEF m2, mine
  <2> QED
    BY <1>0, <2>1, <2>2
<1>2. \A p \in Pages : m2.data[p] = IF m2.refcount[p] = 0 THEN Junk ELSE m.data[p]
  BY DEF free_pagetable, Forget
<1>3. m2 \in Memory
  <2>1. m2 = [refcount |-> m2.refcount, data |-> m2.data]
    BY DEF free_pagetable, Forget
  <2>2. m2.refcount = [p \in Pages |-> m2.refcount[p]] /\ m2.data = [p \in Pages |-> m2.data[p]]
    BY DEF free_pagetable, Forget
  <2>3. \A p \in Pages : m2.refcount[p] \in Nat /\ m2.data[p] \in Nat
    <3> HIDE DEF m2, mine
    <3> QED
      BY <1>0, <1>1, <1>2 DEF Junk
  <2> HIDE DEF m2
  <2>4. m2.refcount \in [Pages -> Nat] /\ m2.data \in [Pages -> Nat]
    BY <2>2, <2>3
  <2> QED
    BY <2>1, <2>4 DEF Memory
<1> HIDE DEF m2
<1>4. \A j \in Pids, s \in Slots : Page(T2[j], s) = IF j = i THEN 0 ELSE Page(T[j], s)
  BY NoTableType
<1>5. Apart(T2)
  <2> SUFFICES ASSUME NEW j \in Pids, NEW l \in Pids, NEW r \in Slots, NEW t \in Slots,
                      Page(T2[j], r) # 0, Page(T2[j], r) = Page(T2[l], t)
               PROVE  r = t /\ (j = l \/ r = "code")
    BY DEF Apart
  <2>1. Page(T[j], r) # 0 /\ Page(T[j], r) = Page(T[l], t) => r = t /\ (j = l \/ r = "code")
    BY DEF Good, Apart
  <2> QED
    BY <1>4, <2>1
<1>6. ASSUME NEW q \in Pages
      PROVE  /\ \A j \in Pids, r \in Slots \ {"code"} : Page(T2[j], r) = q => m2.refcount[q] = 1
             /\ Sharers(T2, q) # {} => m2.refcount[q] = Cardinality(Sharers(T2, q))
             /\ Loose(T2, q) => m2.refcount[q] <= 1
  <2>0. q # 0 /\ m.refcount[q] \in Nat
    BY <1>0, Constants
  <2>1. ASSUME NEW j \in Pids, NEW r \in Slots \ {"code"}, Page(T2[j], r) = q PROVE m2.refcount[q] = 1
    <3>1. j # i /\ Page(T[j], r) = q
      BY <1>4, <2>0, <2>1
    <3>2. ~mine(q)
      <4>1. \A s \in Slots : Page(T[j], r) # 0 /\ Page(T[j], r) = Page(T[i], s) => r = s /\ (j = i \/ r = "code")
        BY DEF Good, Apart
      <4> QED
        BY <2>0, <3>1, <4>1
    <3>3. m.refcount[q] = 1
      BY <3>1 DEF Good, Counted
    <3> HIDE DEF mine
    <3> QED
      BY <1>1, <3>2, <3>3
  <2>2. Sharers(T2, q) = Sharers(T, q) \ {i}
    BY <1>0, <1>4, <2>0 DEF Sharers
  <2>3. ASSUME Sharers(T2, q) # {} PROVE m2.refcount[q] = Cardinality(Sharers(T2, q))
    <3>1. Sharers(T, q) # {}
      BY <2>2, <2>3
    <3>2. m.refcount[q] = Cardinality(Sharers(T, q)) /\ m.refcount[q] >= 1
      BY <3>1, SharersFinite DEF Good, Counted
    <3>3. mine(q) <=> i \in Sharers(T, q)
      <4>1. PICK j \in Pids : Page(T[j], "code") = q
        BY <3>1 DEF Sharers
      <4>2. \A s \in Slots : Page(T[j], "code") # 0 /\ Page(T[j], "code") = Page(T[i], s) => "code" = s
        BY <1>0 DEF Good, Apart
      <4> QED
        BY <1>0, <2>0, <4>1, <4>2 DEF Sharers
    <3>4. Cardinality(Sharers(T2, q)) = IF i \in Sharers(T, q) THEN Cardinality(Sharers(T, q)) - 1
                                                               ELSE Cardinality(Sharers(T, q))
      BY <2>2, SharersFinite, FS_RemoveElement
    <3>5. Cardinality(Sharers(T2, q)) >= 1
      BY <2>3, SharersFinite
    <3> HIDE DEF mine
    <3> QED
      BY <1>1, <2>0, <3>2, <3>3, <3>4, <3>5
  <2>4. ASSUME Loose(T2, q) PROVE m2.refcount[q] <= 1
    <3>1. CASE Loose(T, q)
      <4>1. ~mine(q) /\ m.refcount[q] <= 1
        BY <3>1 DEF Loose, Good, Counted
      <4> HIDE DEF mine
      <4> QED
        BY <1>1, <4>1
    <3>2. CASE ~Loose(T, q)
      <4>1. PICK s \in Slots : Page(T[i], s) = q
        BY <2>4, <3>2, <1>4 DEF Loose
      <4>2. m.refcount[q] = 1
        BY <2>4, <4>1, LastUse
      <4> HIDE DEF mine
      <4> QED
        BY <1>1, <4>2
    <3> QED
      BY <3>1, <3>2
  <2> QED
    BY <2>1, <2>3, <2>4
<1>7. Counted(m2, T2)
  BY <1>6, Zenon DEF Counted
<1>8. \A j \in Pids : Rights(T2[j])
  BY <1>0, NoTableType
<1>9. Good(m2, T2)
  BY <1>3, <1>5, <1>7, <1>8 DEF Good
<1>10. ASSUME NEW p \in Pages, ~Loose(T2, p) PROVE m2.data[p] = m.data[p]
  <2>1. m2.refcount[p] >= 1
    BY <1>9, <1>10, UsedIsCounted
  <2> QED
    BY <1>2, <2>1
<1>11. ASSUME NEW p \in Pages, NEW s \in Slots \ {"beyond"}, Page(T[i], s) = p, Loose(T2, p)
       PROVE  m2.refcount[p] = 0
  <2>1. m.refcount[p] = 1 /\ mine(p)
    BY <1>11, LastUse
  <2> HIDE DEF mine
  <2> QED
    BY <1>1, <2>1
<1>12. ASSUME NEW p \in Pages, \A s \in Slots \ {"beyond"} : Page(T[i], s) # p
       PROVE  /\ m2.refcount[p] = m.refcount[p]
              /\ m.refcount[p] # 0 => m2.data[p] = m.data[p]
  BY <1>1, <1>2, <1>12
<1> QED
  BY <1>9, <1>10, <1>11, <1>12 DEF m2

-----------------------------------------------------------------------------
(* Building the page table of the process c; those of the others are in T *)

With(T, c, pt) == [T EXCEPT ![c] = pt]

GoodBuild(b, T, c) ==
  /\ b.m \in Memory /\ b.pt \in PageTables /\ b.ok \in BOOLEAN
  /\ Good(b.m, With(T, c, b.pt))

\* No page in use has been lost or overwritten.
Kept(m, m2) ==
  \A p \in Pages : m.refcount[p] # 0 => m2.refcount[p] # 0 /\ m2.data[p] = m.data[p]

\* Tables have been added, in pages that were free.
Grown(b, b2) ==
  /\ b2.pt.map = b.pt.map
  /\ \A l \in Levels :
       \/ b2.pt.tables[l] = b.pt.tables[l]
       \/ b.pt.tables[l] = 0 /\ b.m.refcount[b2.pt.tables[l]] = 0
  /\ \A p \in Pages : b.m.refcount[p] # 0 => b2.m.refcount[p] = b.m.refcount[p] /\ b2.m.data[p] = b.m.data[p]
  /\ b2.ok => b.ok

\* The page tables while that of c is built.
LEMMA WithType ==
  ASSUME NEW T \in [Pids -> PageTables], NEW c \in Pids, NEW pt \in PageTables
  PROVE  /\ With(T, c, pt) \in [Pids -> PageTables]
         /\ With(T, c, pt)[c] = pt /\ \A j \in Pids : j # c => With(T, c, pt)[j] = T[j]
  BY DEF With

\* What a table or an entry that is written into a page table changes.
LEMMA WithSlots ==
  ASSUME NEW pt \in PageTables
  PROVE  /\ \A l \in Levels, p \in Pages :
              /\ WithTable(pt, l, p) \in PageTables
              /\ WithTable(pt, l, p).map = pt.map
              /\ \A k \in Levels : WithTable(pt, l, p).tables[k] = IF k = l THEN p ELSE pt.tables[k]
              /\ \A s \in Slots : Page(WithTable(pt, l, p), s) = IF s = l THEN p ELSE Page(pt, s)
         /\ \A va \in Vas, p \in Pages, w \in BOOLEAN :
              /\ WithEntry(pt, va, [pa |-> p, w |-> w]) \in PageTables
              /\ WithEntry(pt, va, [pa |-> p, w |-> w]).tables = pt.tables
              /\ \A v \in Vas : WithEntry(pt, va, [pa |-> p, w |-> w]).map[v]
                                  = IF v = va THEN [pa |-> p, w |-> w] ELSE pt.map[v]
              /\ \A s \in Slots : Page(WithEntry(pt, va, [pa |-> p, w |-> w]), s)
                                  = IF s = va THEN p ELSE Page(pt, s)
<1>0. Levels \cap Vas = {} /\ Slots = Levels \cup Vas
  BY DEF Levels, Vas, Below, Slots
<1>1. /\ \A p \in Pages : p \in 0 .. NPages
      /\ pt.tables \in [Levels -> 0 .. NPages] /\ pt.map \in [Vas -> [pa : 0 .. NPages, w : BOOLEAN]]
      /\ pt = [tables |-> pt.tables, map |-> pt.map]
  BY Constants DEF Pages, PageTables
<1>2. ASSUME NEW l \in Levels, NEW p \in Pages
      PROVE  /\ WithTable(pt, l, p) \in PageTables
             /\ WithTable(pt, l, p).map = pt.map
             /\ \A k \in Levels : WithTable(pt, l, p).tables[k] = IF k = l THEN p ELSE pt.tables[k]
             /\ \A s \in Slots : Page(WithTable(pt, l, p), s) = IF s = l THEN p ELSE Page(pt, s)
  <2>1. [pt.tables EXCEPT ![l] = p] \in [Levels -> 0 .. NPages]
    BY <1>1
  <2>2. WithTable(pt, l, p) \in PageTables
    BY <1>1, <2>1 DEF WithTable, PageTables
  <2>3. \A k \in Levels : WithTable(pt, l, p).tables[k] = IF k = l THEN p ELSE pt.tables[k]
    BY <1>1 DEF WithTable
  <2>4. WithTable(pt, l, p).map = pt.map
    BY DEF WithTable
  <2>5. \A s \in Slots : Page(WithTable(pt, l, p), s) = IF s = l THEN p ELSE Page(pt, s)
    BY <1>0, <2>3, <2>4 DEF Page
  <2> QED
    BY <2>2, <2>3, <2>4, <2>5
<1>3. ASSUME NEW va \in Vas, NEW p \in Pages, NEW w \in BOOLEAN, NEW e, e = [pa |-> p, w |-> w]
      PROVE  /\ WithEntry(pt, va, e) \in PageTables
             /\ WithEntry(pt, va, e).tables = pt.tables
             /\ \A v \in Vas : WithEntry(pt, va, e).map[v] = IF v = va THEN e ELSE pt.map[v]
             /\ \A s \in Slots : Page(WithEntry(pt, va, e), s) = IF s = va THEN p ELSE Page(pt, s)
  <2>0. e \in [pa : 0 .. NPages, w : BOOLEAN] /\ e.pa = p
    BY <1>1, <1>3
  <2>1. [pt.map EXCEPT ![va] = e] \in [Vas -> [pa : 0 .. NPages, w : BOOLEAN]]
    BY <1>1, <2>0
  <2>2. WithEntry(pt, va, e) \in PageTables
    BY <1>1, <2>1 DEF WithEntry, PageTables
  <2>3. \A v \in Vas : WithEntry(pt, va, e).map[v] = IF v = va THEN e ELSE pt.map[v]
    BY <1>1 DEF WithEntry
  <2>4. WithEntry(pt, va, e).tables = pt.tables
    BY DEF WithEntry
  <2>5. \A s \in Slots : Page(WithEntry(pt, va, e), s) = IF s = va THEN p ELSE Page(pt, s)
    BY <1>0, <2>0, <2>3, <2>4 DEF Page
  <2> QED
    BY <2>2, <2>3, <2>4, <2>5
<1>4. ASSUME NEW va \in Vas, NEW p \in Pages, NEW w \in BOOLEAN
      PROVE  LET e == [pa |-> p, w |-> w] IN
             /\ WithEntry(pt, va, e) \in PageTables
             /\ WithEntry(pt, va, e).tables = pt.tables
             /\ \A v \in Vas : WithEntry(pt, va, e).map[v] = IF v = va THEN e ELSE pt.map[v]
             /\ \A s \in Slots : Page(WithEntry(pt, va, e), s) = IF s = va THEN p ELSE Page(pt, s)
  BY <1>3
<1> QED
  BY <1>2, <1>4

\* Building a page table further, step by step.
LEMMA GrownTransitive ==
  ASSUME NEW b1, NEW b2, NEW b3, Grown(b1, b2), Grown(b2, b3),
         b1.m \in Memory, b1.pt \in PageTables, b2.pt \in PageTables, b3.pt \in PageTables
  PROVE  Grown(b1, b3)
<1>1. b3.pt.map = b1.pt.map /\ (b3.ok => b1.ok)
  BY DEF Grown
<1>2. ASSUME NEW p \in Pages, b1.m.refcount[p] # 0
      PROVE  b3.m.refcount[p] = b1.m.refcount[p] /\ b3.m.data[p] = b1.m.data[p]
  BY <1>2 DEF Grown
<1>3. ASSUME NEW l \in Levels
      PROVE  \/ b3.pt.tables[l] = b1.pt.tables[l]
             \/ b1.pt.tables[l] = 0 /\ b1.m.refcount[b3.pt.tables[l]] = 0
  <2>1. CASE b3.pt.tables[l] = b2.pt.tables[l]
    BY <2>1 DEF Grown
  <2>2. CASE b3.pt.tables[l] # b2.pt.tables[l]
    <3>1. b2.pt.tables[l] = 0 /\ b2.m.refcount[b3.pt.tables[l]] = 0 /\ b3.pt.tables[l] # 0
      BY <2>2 DEF Grown
    <3>2. b3.pt.tables[l] \in Pages
      BY <3>1, Constants DEF PageTables, Pages
    <3>3. b1.m.refcount[b3.pt.tables[l]] = 0
      BY <3>1, <3>2 DEF Grown
    <3>4. b1.pt.tables[l] = 0
      BY <3>1 DEF Grown
    <3> QED
      BY <3>3, <3>4
  <2> QED
    BY <2>1, <2>2
<1> QED
  BY <1>1, <1>2, <1>3 DEF Grown

\* A page in use that is in no page table is in none afterwards.
LEMMA GrownLoose ==
  ASSUME NEW b, NEW b2, Grown(b, b2), b.pt \in PageTables, b2.pt \in PageTables,
         NEW T \in [Pids -> PageTables], NEW c \in Pids,
         NEW p \in Pages, b.m.refcount[p] # 0, Loose(With(T, c, b.pt), p)
  PROVE  Loose(With(T, c, b2.pt), p)
<1>1. \A s \in Slots : Page(b.pt, s) # p
  BY WithType DEF Loose
<1>2. \A s \in Slots : Page(b2.pt, s) # p
  <2> SUFFICES ASSUME NEW s \in Slots PROVE Page(b2.pt, s) # p
    OBVIOUS
  <2>1. CASE s \in Levels
    BY <1>1, <2>1 DEF Grown, Page
  <2>2. CASE s \notin Levels
    BY <1>1, <2>2 DEF Grown, Page
  <2> QED
    BY <2>1, <2>2
<1>3. \A j \in Pids, s \in Slots : j # c => Page(T[j], s) # p
  BY WithType DEF Loose
<1>4. \A j \in Pids : With(T, c, b2.pt)[j] = IF j = c THEN b2.pt ELSE T[j]
  BY WithType
<1> QED
  BY <1>2, <1>3, <1>4 DEF Loose

\* Growing a table keeps what is in use.
LEMMA GrownKept ==
  ASSUME NEW b, NEW b2, Grown(b, b2)
  PROVE  Kept(b.m, b2.m)
  BY DEF Grown, Kept

\* One level of a page table.
LEMMA GrowStep ==
  ASSUME NEW T \in [Pids -> PageTables], NEW c \in Pids, NEW b, GoodBuild(b, T, c), NEW level \in Levels
  PROVE  GoodBuild(Grow(b, level), T, c) /\ Grown(b, Grow(b, level))
<1>0. b.m \in Memory /\ b.pt \in PageTables /\ b.ok \in BOOLEAN /\ Good(b.m, With(T, c, b.pt))
  BY DEF GoodBuild
<1>1. CASE ~b.ok \/ b.pt.tables[level] # 0
  <2>1. Grow(b, level) = b
    BY <1>1 DEF Grow
  <2> QED
    BY <2>1 DEF Grown
<1>2. CASE b.ok /\ b.pt.tables[level] = 0 /\ kalloc(b.m).pa = 0
  <2>1. Grow(b, level) = [m |-> b.m, pt |-> b.pt, ok |-> FALSE]
    BY <1>2 DEF Grow
  <2> QED
    BY <1>0, <2>1 DEF Grown, GoodBuild
<1>3. CASE b.ok /\ b.pt.tables[level] = 0 /\ kalloc(b.m).pa # 0
  <2> DEFINE a == kalloc(b.m)
             pt2 == WithTable(b.pt, level, a.pa)
  <2>1. Grow(b, level) = [m |-> a.m, pt |-> pt2, ok |-> TRUE]
    BY <1>3 DEF Grow
  <2>2. /\ a.pa \in Pages /\ a.m \in Memory /\ b.m.refcount[a.pa] = 0
        /\ \A q \in Pages :
             /\ a.m.refcount[q] = IF q = a.pa THEN 1 ELSE b.m.refcount[q]
             /\ a.m.data[q] = IF q = a.pa THEN Junk ELSE b.m.data[q]
    BY <1>0, <1>3, KallocPage
  <2>3. /\ Good(a.m, With(T, c, b.pt))
        /\ Loose(With(T, c, b.pt), a.pa) /\ a.m.refcount[a.pa] = 1
    BY <1>0, <1>3, KallocGood
  <2> HIDE DEF a
  <2>4. /\ pt2 \in PageTables /\ pt2.map = b.pt.map
        /\ \A k \in Levels : pt2.tables[k] = IF k = level THEN a.pa ELSE b.pt.tables[k]
        /\ \A s \in Slots : Page(pt2, s) = IF s = level THEN a.pa ELSE Page(b.pt, s)
    BY <1>0, <2>2, WithSlots
  <2> HIDE DEF pt2
  <2>5. Good(a.m, With(T, c, pt2))
    <3>1. /\ With(T, c, b.pt)[c] = b.pt /\ With(T, c, pt2)[c] = pt2
          /\ With(T, c, pt2) \in [Pids -> PageTables]
          /\ \A j \in Pids : j # c => With(T, c, pt2)[j] = With(T, c, b.pt)[j]
      BY <1>0, <2>4, WithType
    <3>2. Rights(pt2)
      <4>1. Rights(b.pt)
        BY <1>0, <3>1 DEF Good
      <4> QED
        BY <2>4, <4>1 DEF Rights
    <3>3. level \in Slots /\ level # "code"
      BY DEF Slots, Levels
    <3> HIDE DEF With
    <3> QED
      BY <2>2, <2>3, <2>4, <3>1, <3>2, <3>3, Install
  <2> QED
    BY <1>3, <2>1, <2>2, <2>4, <2>5 DEF Grown, GoodBuild
<1> QED
  BY <1>0, <1>1, <1>2, <1>3

\* The tables on the way to a last level.
LEMMA DescendStep ==
  ASSUME NEW T \in [Pids -> PageTables], NEW c \in Pids, NEW b, GoodBuild(b, T, c),
         NEW level \in {"low", "high", "far"}
  PROVE  GoodBuild(Descend(b, level), T, c) /\ Grown(b, Descend(b, level))
<1>0. level \in Levels /\ "level3" \in Levels /\ "level2" \in Levels
  BY DEF Levels
<1> DEFINE b1 == Grow(b, "level3")
           b2 == Grow(b1, "level2")
           b3 == Grow(b2, level)
<1>1. GoodBuild(b1, T, c) /\ Grown(b, b1)
  BY <1>0, GrowStep
<1> HIDE DEF b1
<1>2. GoodBuild(b2, T, c) /\ Grown(b1, b2)
  BY <1>0, <1>1, GrowStep
<1> HIDE DEF b2
<1>3. GoodBuild(b3, T, c) /\ Grown(b2, b3)
  BY <1>0, <1>2, GrowStep
<1> HIDE DEF b3
<1>4. /\ b.m \in Memory /\ b.pt \in PageTables /\ b1.m \in Memory /\ b1.pt \in PageTables
      /\ b2.pt \in PageTables /\ b3.pt \in PageTables
  BY <1>1, <1>2, <1>3 DEF GoodBuild
<1>5. Grown(b, b2)
  BY <1>1, <1>2, <1>4, GrownTransitive
<1>6. Grown(b, b3)
  BY <1>3, <1>4, <1>5, GrownTransitive
<1> QED
  BY <1>3, <1>6 DEF b1, b2, b3, Descend

\* try_map of a page that is in no page table, and is counted once.  When a table is
\* missing the page table has the mappings it had.
LEMMA MapPage ==
  ASSUME NEW T \in [Pids -> PageTables], NEW c \in Pids, NEW m \in Memory, NEW pt \in PageTables,
         Good(m, With(T, c, pt)), NEW va \in Vas, NEW p \in Pages,
         m.refcount[p] = 1, Loose(With(T, c, pt), p), va = "code" => pt.map[va].pa = 0
  PROVE  LET t == try_map(m, pt, va, p, va # "code") IN
         /\ GoodBuild(t, T, c) /\ Kept(m, t.m)
         /\ \A l \in Levels : pt.tables[l] # 0 => t.pt.tables[l] # 0
         /\ \A v \in Vas : v # va => t.pt.map[v] = pt.map[v]
         /\ IF t.ok THEN t.pt.map[va] = [pa |-> p, w |-> va # "code"] ELSE t.pt.map[va] = pt.map[va]
<1> DEFINE b0 == [m |-> m, pt |-> pt, ok |-> TRUE]
           b == Descend(b0, LastLevel(va))
           w == va # "code"
           e == [pa |-> p, w |-> w]
           pt2 == WithEntry(b.pt, va, e)
<1>1. GoodBuild(b, T, c) /\ Grown(b0, b)
  <2>1. GoodBuild(b0, T, c)
    BY DEF GoodBuild
  <2>2. LastLevel(va) \in {"low", "high", "far"}
    BY DEF LastLevel
  <2> HIDE DEF b0
  <2> QED
    BY <2>1, <2>2, DescendStep
<1>2. try_map(m, pt, va, p, va # "code") = IF b.ok THEN [m |-> b.m, pt |-> pt2, ok |-> TRUE] ELSE b
  BY DEF try_map
<1>3. b0.m = m /\ b0.pt = pt
  OBVIOUS
<1> HIDE DEF b0, b
<1>4. /\ b.m \in Memory /\ b.pt \in PageTables /\ b.ok \in BOOLEAN
      /\ Good(b.m, With(T, c, b.pt))
  BY <1>1 DEF GoodBuild
<1>5. /\ Kept(m, b.m) /\ b.pt.map = pt.map
      /\ \A l \in Levels : pt.tables[l] # 0 => b.pt.tables[l] # 0
      /\ b.m.refcount[p] = 1
  <2>1. Kept(b0.m, b.m)
    BY <1>1, GrownKept
  <2> QED
    BY <1>1, <1>3, <2>1 DEF Grown
<1>6. Loose(With(T, c, b.pt), p)
  BY <1>1, <1>3, <1>4, GrownLoose
<1>7. /\ pt2 \in PageTables /\ pt2.tables = b.pt.tables
      /\ \A v \in Vas : pt2.map[v] = IF v = va THEN e ELSE b.pt.map[v]
      /\ \A s \in Slots : Page(pt2, s) = IF s = va THEN p ELSE Page(b.pt, s)
  <2>1. w \in BOOLEAN
    OBVIOUS
  <2> HIDE DEF w
  <2> QED
    BY <1>4, <2>1, WithSlots
<1> HIDE DEF pt2
<1>8. Good(b.m, With(T, c, pt2))
  <2>1. /\ With(T, c, b.pt)[c] = b.pt /\ With(T, c, pt2)[c] = pt2
        /\ With(T, c, pt2) \in [Pids -> PageTables]
        /\ \A j \in Pids : j # c => With(T, c, pt2)[j] = With(T, c, b.pt)[j]
    BY <1>4, <1>7, WithType
  <2>2. Rights(pt2)
    <3>1. Rights(b.pt)
      BY <1>4, <2>1 DEF Good
    <3>2. e.pa # 0 /\ e.w = (va # "code")
      BY Constants
    <3> QED
      BY <1>7, <3>1, <3>2 DEF Rights
  <2>3. va \in Slots /\ (va = "code" => Page(b.pt, va) = 0)
    BY <1>4, <1>5, SlotType
  <2> HIDE DEF With
  <2> QED
    BY <1>4, <1>5, <1>6, <1>7, <2>1, <2>2, <2>3, Install
<1>9. CASE b.ok
  <2>1. try_map(m, pt, va, p, va # "code") = [m |-> b.m, pt |-> pt2, ok |-> TRUE]
    BY <1>2, <1>9
  <2>2. GoodBuild([m |-> b.m, pt |-> pt2, ok |-> TRUE], T, c)
    BY <1>4, <1>7, <1>8 DEF GoodBuild
  <2>3. \A v \in Vas : pt2.map[v] = IF v = va THEN e ELSE pt.map[v]
    BY <1>5, <1>7
  <2>4. \A l \in Levels : pt.tables[l] # 0 => pt2.tables[l] # 0
    BY <1>5, <1>7
  <2> QED
    BY <1>5, <2>1, <2>2, <2>3, <2>4
<1>10. CASE ~b.ok
  <2>1. try_map(m, pt, va, p, va # "code") = b
    BY <1>2, <1>10
  <2> QED
    BY <1>1, <1>5, <1>10, <2>1
<1> QED
  BY <1>9, <1>10

\* Keeping what is in use is transitive.
LEMMA KeptTransitive ==
  ASSUME NEW m1, NEW m2, NEW m3, Kept(m1, m2), Kept(m2, m3)
  PROVE  Kept(m1, m3)
  BY DEF Kept

\* kalloc, and a page that is filled afterwards: it is nobody's, and counted once.
LEMMA KallocFill ==
  ASSUME NEW m, NEW T, Good(m, T), kalloc(m).pa # 0, NEW x \in Nat
  PROVE  LET p == kalloc(m).pa
             n == Fill(kalloc(m).m, p, x)
         IN  /\ p \in Pages /\ Good(n, T) /\ Kept(m, n)
             /\ n.refcount[p] = 1 /\ n.data[p] = x /\ Loose(T, p) /\ m.refcount[p] = 0
<1> DEFINE a == kalloc(m)
           n == Fill(a.m, a.pa, x)
<1>1. /\ a.pa \in Pages /\ a.m \in Memory /\ m.refcount[a.pa] = 0
      /\ \A q \in Pages :
           /\ a.m.refcount[q] = IF q = a.pa THEN 1 ELSE m.refcount[q]
           /\ a.m.data[q] = IF q = a.pa THEN Junk ELSE m.data[q]
  BY KallocPage DEF Good
<1>2. Good(a.m, T) /\ Loose(T, a.pa) /\ a.m.refcount[a.pa] = 1
  BY KallocGood
<1> HIDE DEF a
<1>3. /\ n \in Memory /\ n.refcount = a.m.refcount
      /\ \A q \in Pages : n.data[q] = IF q = a.pa THEN x ELSE a.m.data[q]
  BY <1>1 DEF Fill, Memory
<1> HIDE DEF n
<1>4. Good(n, T)
  BY <1>2, <1>3, SameCounts
<1>5. Kept(m, n)
  BY <1>1, <1>3 DEF Kept
<1> QED
  BY <1>1, <1>2, <1>3, <1>4, <1>5 DEF n, a

\* kalloc, and a page that stays as it is.
LEMMA KallocKept ==
  ASSUME NEW m \in Memory, kalloc(m).pa # 0
  PROVE  Kept(m, kalloc(m).m)
<1> DEFINE a == kalloc(m)
<1>1. /\ m.refcount[a.pa] = 0
      /\ \A q \in Pages :
           /\ a.m.refcount[q] = IF q = a.pa THEN 1 ELSE m.refcount[q]
           /\ a.m.data[q] = IF q = a.pa THEN Junk ELSE m.data[q]
  BY KallocPage
<1> HIDE DEF a
<1> QED
  BY <1>1 DEF Kept, a

\* kalloc_pagetable and the kernel's mappings: a page table of its own, that maps
\* nothing yet.
LEMMA NewTableStep ==
  ASSUME NEW T \in [Pids -> PageTables], NEW c \in Pids, T[c] = NoTable, NEW m, Good(m, T)
  PROVE  LET b == NewTable(m) IN
         /\ GoodBuild(b, T, c) /\ Kept(m, b.m)
         /\ \A v \in Vas : b.pt.map[v] = NoEntry
         /\ kalloc(m).pa # 0 => b.pt.tables["root"] # 0
<1>0. m \in Memory /\ NoTable \in PageTables /\ With(T, c, NoTable) = T
  <2>1. With(T, c, NoTable) = T
    BY DEF With
  <2> QED
    BY <2>1, NoTableType DEF Good
<1>1. \A v \in Vas : NoTable.map[v] = NoEntry
  BY DEF NoTable
<1>2. CASE kalloc(m).pa = 0
  <2>1. NewTable(m) = [m |-> m, pt |-> NoTable, ok |-> FALSE]
    BY <1>2 DEF NewTable
  <2>2. Kept(m, m)
    BY DEF Kept
  <2> QED
    BY <1>0, <1>1, <1>2, <2>1, <2>2 DEF GoodBuild
<1>3. CASE kalloc(m).pa # 0
  <2> DEFINE a == kalloc(m)
             pt == WithTable(NoTable, "root", a.pa)
             b0 == [m |-> a.m, pt |-> pt, ok |-> TRUE]
             b == Descend(b0, "low")
  <2>0. "root" \in Levels /\ "root" \in Slots /\ "root" # "code"
    BY DEF Levels, Slots
  <2>1. /\ a.pa \in Pages /\ Good(a.m, T) /\ Kept(m, a.m)
        /\ a.m.refcount[a.pa] = 1 /\ Loose(T, a.pa)
    BY <1>0, <1>3, KallocGood, KallocKept, KallocPage
  <2>2. NewTable(m) = b
    BY <1>3 DEF NewTable
  <2> HIDE DEF a
  <2>3. /\ pt \in PageTables /\ pt.map = NoTable.map /\ pt.tables["root"] = a.pa
        /\ \A s \in Slots : Page(pt, s) = IF s = "root" THEN a.pa ELSE Page(NoTable, s)
    BY <2>0, <2>1, NoTableType, WithSlots
  <2> HIDE DEF pt
  <2>4. Good(a.m, With(T, c, pt))
    <3>1. /\ With(T, c, pt)[c] = pt /\ With(T, c, pt) \in [Pids -> PageTables]
          /\ \A j \in Pids : j # c => With(T, c, pt)[j] = T[j]
      BY <2>3, WithType
    <3>2. Rights(pt)
      BY <2>3, NoTableType DEF Rights
    <3> HIDE DEF With
    <3> QED
      BY <2>0, <2>1, <2>3, <3>1, <3>2, Install
  <2>5. GoodBuild(b0, T, c)
    BY <2>1, <2>3, <2>4 DEF GoodBuild, Good
  <2>6. b0.m = a.m /\ b0.pt = pt
    OBVIOUS
  <2> HIDE DEF b0
  <2>7. GoodBuild(b, T, c) /\ Grown(b0, b)
    BY <2>5, DescendStep
  <2> HIDE DEF b
  <2>8. Kept(m, b.m)
    BY <2>1, <2>6, <2>7, GrownKept, KeptTransitive
  <2>9. b.pt.map = NoTable.map /\ b.pt.tables["root"] # 0
    BY <2>0, <2>1, <2>3, <2>6, <2>7, Constants DEF Grown
  <2> QED
    BY <1>1, <2>2, <2>7, <2>8, <2>9
<1> QED
  BY <1>2, <1>3

-----------------------------------------------------------------------------
(* fork *)

\* What the child b has at an address, against what the parent maps there: nothing,
\* or a page with the same right and the same contents.
Copied(b, e, va) ==
  IF e = NoEntry THEN b.pt.map[va] = NoEntry
  ELSE /\ b.pt.map[va].pa \in Pages /\ b.pt.map[va].w = e.w
       /\ b.m.data[b.pt.map[va].pa] = b.m.data[e.pa]

\* The pages that the page tables refer to are in use.
LEMMA MappedIsUsed ==
  ASSUME NEW m, NEW T, Good(m, T), NEW i \in Pids, NEW va \in Vas, T[i].map[va] # NoEntry
  PROVE  T[i].map[va].pa \in Pages /\ m.refcount[T[i].map[va].pa] # 0
<1>1. T[i] \in PageTables /\ T[i].map[va].pa # 0
  BY DEF Good, Rights
<1>2. va \in Slots /\ Page(T[i], va) = T[i].map[va].pa /\ T[i].map[va].pa \in Pages
  BY <1>1, SlotType
<1>3. ~Loose(T, T[i].map[va].pa)
  BY <1>2 DEF Loose
<1> QED
  BY <1>2, <1>3, UsedIsCounted

\* What has been copied stays so while pages in use are kept.
LEMMA CopiedKept ==
  ASSUME NEW T \in [Pids -> PageTables], NEW c \in Pids, NEW k \in Pids, k # c,
         NEW b, GoodBuild(b, T, c), NEW b2, Kept(b.m, b2.m),
         NEW va \in Vas, b2.pt.map[va] = b.pt.map[va], Copied(b, T[k].map[va], va)
  PROVE  Copied(b2, T[k].map[va], va)
<1> DEFINE e == T[k].map[va]
<1>1. CASE e = NoEntry
  BY <1>1 DEF Copied
<1>2. CASE e # NoEntry
  <2>1. With(T, c, b.pt)[k] = T[k] /\ With(T, c, b.pt)[c] = b.pt
    BY WithType DEF GoodBuild
  <2>2. e.pa \in Pages /\ b.m.refcount[e.pa] # 0
    BY <1>2, <2>1, MappedIsUsed DEF GoodBuild
  <2>3. b.pt.map[va].pa \in Pages /\ b.m.refcount[b.pt.map[va].pa] # 0
    <3>1. b.pt.map[va].pa \in Pages
      BY <1>2 DEF Copied
    <3>2. b.pt.map[va] # NoEntry
      BY <3>1, Constants DEF NoEntry
    <3> QED
      BY <2>1, <3>2, MappedIsUsed DEF GoodBuild
  <2>4. \A p \in Pages : b.m.refcount[p] # 0 => b2.m.data[p] = b.m.data[p]
    BY DEF Kept
  <2> QED
    BY <1>2, <2>2, <2>3, <2>4 DEF Copied
<1> QED
  BY <1>1, <1>2

\* The part of a good build that is the child's: its page table is in the memory with
\* those of the others.
LEMMA BuildParts ==
  ASSUME NEW T \in [Pids -> PageTables], NEW c \in Pids, NEW b, GoodBuild(b, T, c)
  PROVE  /\ b.m \in Memory /\ b.pt \in PageTables /\ b.ok \in BOOLEAN
         /\ Good(b.m, With(T, c, b.pt))
         /\ With(T, c, b.pt)[c] = b.pt /\ \A j \in Pids : j # c => With(T, c, b.pt)[j] = T[j]
  BY WithType DEF GoodBuild

\* A code page that is entered into the child's page table and counted once more.
LEMMA SharedEntry ==
  ASSUME NEW T \in [Pids -> PageTables], NEW c \in Pids, NEW k \in Pids, k # c,
         NEW d, GoodBuild(d, T, c), NEW e, e = T[k].map["code"], e # NoEntry,
         d.pt.map["code"] = NoEntry,
         NEW w \in BOOLEAN, ~w,
         NEW pt2, pt2 = WithEntry(d.pt, "code", [pa |-> e.pa, w |-> w]),
         NEW m2, m2 = CountUp(d.m, e.pa)
  PROVE  /\ m2 \in Memory /\ pt2 \in PageTables /\ Good(m2, With(T, c, pt2)) /\ Kept(d.m, m2)
         /\ \A v \in Vas : v # "code" => pt2.map[v] = d.pt.map[v]
         /\ pt2.tables = d.pt.tables
         /\ e.pa \in Pages /\ e.w = w /\ pt2.map["code"].pa = e.pa /\ pt2.map["code"].w = w
<1>0. "code" \in Vas /\ "code" \in Slots
  BY DEF Vas, Below, Slots
<1>4. /\ d.m \in Memory /\ d.pt \in PageTables
      /\ Good(d.m, With(T, c, d.pt))
      /\ With(T, c, d.pt)[c] = d.pt /\ \A j \in Pids : j # c => With(T, c, d.pt)[j] = T[j]
  BY BuildParts
<1>5. e.pa \in Pages /\ d.m.refcount[e.pa] # 0 /\ Page(T[k], "code") = e.pa /\ e.w = w
  <2>1. e.pa \in Pages /\ d.m.refcount[e.pa] # 0
    BY <1>0, <1>4, MappedIsUsed
  <2>2. Rights(T[k])
    BY <1>4 DEF Good
  <2>3. e.w = ("code" # "code")
    BY <1>0, <2>2 DEF Rights
  <2> QED
    BY <1>0, <2>1, <2>3, SlotType
<1>6. /\ pt2 \in PageTables /\ pt2.tables = d.pt.tables
      /\ \A v \in Vas : pt2.map[v] = IF v = "code" THEN [pa |-> e.pa, w |-> w] ELSE d.pt.map[v]
      /\ \A r \in Slots : Page(pt2, r) = IF r = "code" THEN e.pa ELSE Page(d.pt, r)
  BY <1>0, <1>4, <1>5, WithSlots
<1>7. pt2.map["code"].pa = e.pa /\ pt2.map["code"].w = w /\ pt2.map["code"] # NoEntry
  <2>1. pt2.map["code"] = [pa |-> e.pa, w |-> w]
    BY <1>0, <1>6
  <2>2. pt2.map["code"].pa = e.pa /\ e.pa # 0
    BY <1>5, <2>1, Constants
  <2> QED
    BY <2>1, <2>2 DEF NoEntry
<1>8. Good(m2, With(T, c, pt2))
  <2>1. /\ With(T, c, pt2)[c] = pt2 /\ With(T, c, pt2) \in [Pids -> PageTables]
        /\ \A j \in Pids : j # c => With(T, c, pt2)[j] = With(T, c, d.pt)[j]
    <3>1. pt2 \in PageTables
      BY <1>6
    <3>2. /\ With(T, c, pt2)[c] = pt2 /\ With(T, c, pt2) \in [Pids -> PageTables]
          /\ \A j \in Pids : j # c => With(T, c, pt2)[j] = T[j]
      BY <3>1 DEF With
    <3> QED
      BY <1>4, <3>2
  <2>2. Rights(pt2)
    <3>1. Rights(d.pt)
      BY <1>4 DEF Good
    <3>2. pt2.map["code"].pa # 0 /\ pt2.map["code"].w = ("code" # "code")
      BY <1>5, <1>7, Constants
    <3>3. \A v \in Vas : v # "code" => pt2.map[v] = d.pt.map[v]
      BY <1>6
    <3> QED
      BY <3>1, <3>2, <3>3 DEF Rights
  <2>3. Page(d.pt, "code") = 0
    BY <1>0, <1>4, SlotType DEF NoEntry
  <2> HIDE DEF With
  <2> QED
    BY <1>0, <1>4, <1>5, <1>6, <2>1, <2>2, <2>3, Share, SMTT(90)
<1>9. /\ m2 \in Memory /\ m2.data = d.m.data
      /\ \A p \in Pages : p # e.pa => m2.refcount[p] = d.m.refcount[p]
  BY <1>4, <1>8 DEF CountUp, Good, Memory
<1>10. m2.refcount[e.pa] # 0
  <2>1. With(T, c, pt2)[c] = pt2
    BY <1>6, WithType
  <2> HIDE DEF With
  <2> QED
    BY <1>0, <1>7, <1>8, <2>1, MappedIsUsed, SMTT(90)
<1>11. Kept(d.m, m2)
  BY <1>9, <1>10 DEF Kept
<1> QED
  BY <1>5, <1>6, <1>7, <1>8, <1>9, <1>11

\* The branch of CopyPage for a read-only page.
Shared(b, e, va) ==
  LET s == try_map(b.m, b.pt, va, e.pa, FALSE)
  IN  IF s.ok THEN [m |-> CountUp(s.m, e.pa), pt |-> s.pt, ok |-> TRUE] ELSE s

\* A read-only page is shared and counted once more, if the table to map it in is there.
LEMMA SharedStep ==
  ASSUME NEW T \in [Pids -> PageTables], NEW c \in Pids, NEW k \in Pids, k # c,
         NEW b, GoodBuild(b, T, c), b.ok, NEW e, e = T[k].map["code"], e # NoEntry,
         b.pt.map["code"] = NoEntry
  PROVE  LET b2 == Shared(b, e, "code")
         IN  /\ GoodBuild(b2, T, c) /\ Kept(b.m, b2.m)
             /\ \A v \in Vas : v # "code" => b2.pt.map[v] = b.pt.map[v]
             /\ b.pt.tables["root"] # 0 => b2.pt.tables["root"] # 0
             /\ b2.ok => Copied(b2, e, "code")
<1> DEFINE b0 == [m |-> b.m, pt |-> b.pt, ok |-> TRUE]
           d == Descend(b0, "low")
           w == FALSE
           pt2 == WithEntry(d.pt, "code", [pa |-> e.pa, w |-> w])
           m2 == CountUp(d.m, e.pa)
           s == try_map(b.m, b.pt, "code", e.pa, FALSE)
           b2 == Shared(b, e, "code")
<1>0. "code" \in Vas /\ LastLevel("code") = "low" /\ "root" \in Levels
  BY DEF Vas, Below, LastLevel, Levels
<1>1. b0.m = b.m /\ b0.pt = b.pt /\ GoodBuild(b0, T, c)
  BY DEF GoodBuild
<1>2. s = IF d.ok THEN [m |-> d.m, pt |-> pt2, ok |-> TRUE] ELSE d
  BY <1>0 DEF try_map
<1>3. b2 = IF d.ok THEN [m |-> m2, pt |-> pt2, ok |-> TRUE] ELSE d
  <2>0. b2 = IF s.ok THEN [m |-> CountUp(s.m, e.pa), pt |-> s.pt, ok |-> TRUE] ELSE s
    BY DEF Shared
  <2> HIDE DEF d, pt2, s, b2
  <2>1. CASE d.ok
    <3>1. s = [m |-> d.m, pt |-> pt2, ok |-> TRUE]
      BY <1>2, <2>1
    <3>2. s.ok /\ s.m = d.m /\ s.pt = pt2
      BY <3>1
    <3> QED
      BY <2>0, <2>1, <3>2
  <2>2. CASE ~d.ok
    BY <1>2, <2>0, <2>2
  <2> QED
    BY <2>1, <2>2
<1> HIDE DEF b0, b2, s
<1>4. GoodBuild(d, T, c) /\ Grown(b0, d)
  BY <1>1, DescendStep
<1> HIDE DEF d
<1>5. /\ Kept(b.m, d.m) /\ d.pt.map = b.pt.map
      /\ b.pt.tables["root"] # 0 => d.pt.tables["root"] # 0
  BY <1>0, <1>1, <1>4, GrownKept DEF Grown
<1>6. CASE ~d.ok
  <2>1. b2 = d
    BY <1>3, <1>6
  <2> QED
    BY <1>4, <1>5, <1>6, <2>1 DEF b2
<1>7. CASE d.ok
  <2>1. b2 = [m |-> m2, pt |-> pt2, ok |-> TRUE]
    BY <1>3, <1>7
  <2>2. b2.m = m2 /\ b2.pt = pt2 /\ b2.ok = TRUE
    BY <2>1
  <2>3. w \in BOOLEAN /\ ~w
    OBVIOUS
  <2> HIDE DEF w
  <2>4. d.pt.map["code"] = NoEntry
    BY <1>5
  <2>5. /\ m2 \in Memory /\ pt2 \in PageTables /\ Good(m2, With(T, c, pt2)) /\ Kept(d.m, m2)
        /\ \A v \in Vas : v # "code" => pt2.map[v] = d.pt.map[v]
        /\ pt2.tables = d.pt.tables
        /\ e.pa \in Pages /\ e.w = w /\ pt2.map["code"].pa = e.pa /\ pt2.map["code"].w = w
    BY <1>4, <2>3, <2>4, SharedEntry
  <2> HIDE DEF m2, pt2
  <2>6. GoodBuild(b2, T, c)
    BY <2>2, <2>5 DEF GoodBuild
  <2>7. Kept(b.m, b2.m)
    BY <1>5, <2>2, <2>5, KeptTransitive
  <2>8. Copied(b2, e, "code")
    BY <2>2, <2>5 DEF Copied
  <2>9. (\A v \in Vas : v # "code" => b2.pt.map[v] = b.pt.map[v]) /\ (b.pt.tables["root"] # 0 => b2.pt.tables["root"] # 0)
    BY <1>5, <2>2, <2>5
  <2> QED
    BY <2>6, <2>7, <2>8, <2>9 DEF b2
<1> QED
  BY <1>6, <1>7

\* A writable page is copied, if there is a page, and the table to map it in.
LEMMA CopiedStep ==
  ASSUME NEW T \in [Pids -> PageTables], NEW c \in Pids, NEW k \in Pids, k # c,
         NEW b, GoodBuild(b, T, c), b.ok, NEW va \in Vas, NEW e, e = T[k].map[va], e # NoEntry, e.w,
         b.pt.map[va] = NoEntry, kalloc(b.m).pa # 0
  PROVE  LET a == kalloc(b.m)
             t == try_map(Fill(a.m, a.pa, b.m.data[e.pa]), b.pt, va, a.pa, TRUE)
         IN  /\ GoodBuild(t, T, c) /\ Kept(b.m, t.m)
             /\ \A v \in Vas : v # va => t.pt.map[v] = b.pt.map[v]
             /\ b.pt.tables["root"] # 0 => t.pt.tables["root"] # 0
             /\ t.ok => Copied(t, e, va)
<1> DEFINE p == kalloc(b.m).pa
           x == b.m.data[e.pa]
           m2 == Fill(kalloc(b.m).m, p, x)
           w == va # "code"
           t == try_map(m2, b.pt, va, p, w)
           r == try_map(m2, b.pt, va, p, TRUE)
<1>1. /\ b.m \in Memory /\ b.pt \in PageTables /\ Good(b.m, With(T, c, b.pt))
      /\ \A j \in Pids : j # c => With(T, c, b.pt)[j] = T[j]
  BY BuildParts
<1>2. e.pa \in Pages /\ b.m.refcount[e.pa] # 0 /\ e.w = w
  <2>1. e.pa \in Pages /\ b.m.refcount[e.pa] # 0
    BY <1>1, MappedIsUsed
  <2>2. Rights(T[k])
    BY <1>1 DEF Good
  <2> QED
    BY <2>1, <2>2 DEF Rights
<1>3. x \in Nat
  BY <1>1, <1>2 DEF Memory
<1> HIDE DEF x
<1>4. /\ p \in Pages /\ Good(m2, With(T, c, b.pt)) /\ Kept(b.m, m2)
      /\ m2.refcount[p] = 1 /\ m2.data[p] = x /\ Loose(With(T, c, b.pt), p)
  BY <1>1, <1>3, KallocFill
<1> HIDE DEF p, m2
<1>5. m2 \in Memory /\ b.pt.map[va].pa = 0
  BY <1>4 DEF Good, NoEntry
<1>a. /\ GoodBuild(t, T, c) /\ Kept(m2, t.m)
      /\ \A l \in Levels : b.pt.tables[l] # 0 => t.pt.tables[l] # 0
      /\ \A v \in Vas : v # va => t.pt.map[v] = b.pt.map[v]
      /\ t.ok => t.pt.map[va] = [pa |-> p, w |-> w]
  BY <1>1, <1>4, <1>5, MapPage
<1>6. /\ GoodBuild(t, T, c) /\ Kept(m2, t.m)
      /\ b.pt.tables["root"] # 0 => t.pt.tables["root"] # 0
      /\ \A v \in Vas : v # va => t.pt.map[v] = b.pt.map[v]
      /\ t.ok => t.pt.map[va] = [pa |-> p, w |-> w]
  <2>1. "root" \in Levels
    BY DEF Levels
  <2> HIDE DEF t
  <2> QED
    BY <1>a, <2>1
<1>7. w = TRUE
  BY <1>2
<1>8. r = t
  <2> HIDE DEF w
  <2> QED
    BY <1>7
<1> HIDE DEF t
<1>9. Kept(b.m, t.m)
  BY <1>4, <1>6, KeptTransitive
<1>10. ASSUME t.ok PROVE Copied(t, e, va)
  <2> HIDE DEF w
  <2>1. t.pt.map[va].pa = p /\ t.pt.map[va].w = w
    BY <1>6, <1>10
  <2>2. t.m.data[p] = x
    BY <1>4, <1>6 DEF Kept
  <2>3. t.m.data[e.pa] = x
    BY <1>2, <1>9 DEF Kept, x
  <2> QED
    BY <1>2, <1>4, <2>1, <2>2, <2>3 DEF Copied
<1>11. /\ GoodBuild(r, T, c) /\ Kept(b.m, r.m)
       /\ \A v \in Vas : v # va => r.pt.map[v] = b.pt.map[v]
       /\ b.pt.tables["root"] # 0 => r.pt.tables["root"] # 0
       /\ r.ok => Copied(r, e, va)
  <2> HIDE DEF r
  <2> QED
    BY <1>6, <1>8, <1>9, <1>10
<1> QED
  BY <1>11 DEF p, m2, x

\* The ways one turn of fork's loop can go.
LEMMA CopyPageCases ==
  ASSUME NEW b, NEW va
  PROVE  LET e == Table.map[va]
             a == kalloc(b.m)
             s2 == Shared(b, e, va)
             t == try_map(Fill(a.m, a.pa, b.m.data[e.pa]), b.pt, va, a.pa, TRUE)
             n == [m |-> b.m, pt |-> b.pt, ok |-> FALSE]
             b2 == CopyPage(b, va)
         IN  /\ ~b.ok \/ e = NoEntry => b2 = b
             /\ b.ok /\ e # NoEntry /\ ~e.w => b2 = s2
             /\ b.ok /\ e # NoEntry /\ e.w /\ a.pa = 0 => b2 = n
             /\ b.ok /\ e # NoEntry /\ e.w /\ a.pa # 0 => b2 = t
<1> DEFINE e == Table.map[va]
           a == kalloc(b.m)
           s2 == Shared(b, e, va)
           t == try_map(Fill(a.m, a.pa, b.m.data[e.pa]), b.pt, va, a.pa, TRUE)
           n == [m |-> b.m, pt |-> b.pt, ok |-> FALSE]
           b2 == CopyPage(b, va)
<1>1. b2 = IF ~b.ok \/ e = NoEntry THEN b
           ELSE CASE ~e.w            -> s2
                  [] e.w /\ a.pa = 0 -> n
                  [] e.w /\ a.pa # 0 -> t
  BY ZenonT(120) DEF CopyPage, Shared
<1> HIDE DEF b2, s2, n, t, a, e
<1>2. ~b.ok \/ e = NoEntry => b2 = b
  BY <1>1
<1>3. b.ok /\ e # NoEntry /\ ~e.w => b2 = s2
  BY <1>1
<1>4. b.ok /\ e # NoEntry /\ e.w /\ a.pa = 0 => b2 = n
  BY <1>1
<1>5. b.ok /\ e # NoEntry /\ e.w /\ a.pa # 0 => b2 = t
  BY <1>1
<1> QED
  BY <1>2, <1>3, <1>4, <1>5 DEF b2, s2, n, t, a, e

\* One turn of fork's loop, at an address where the child has nothing yet.
LEMMA CopyPageStep ==
  ASSUME NEW T \in [Pids -> PageTables], NEW c \in Pids, current \in Pids, current # c,
         T[current] = Table, NEW b, GoodBuild(b, T, c), NEW va \in Vas,
         b.pt.map[va] = NoEntry
  PROVE  LET b2 == CopyPage(b, va) IN
         /\ GoodBuild(b2, T, c) /\ Kept(b.m, b2.m)
         /\ \A v \in Vas : v # va => b2.pt.map[v] = b.pt.map[v]
         /\ b.pt.tables["root"] # 0 => b2.pt.tables["root"] # 0
         /\ b2.ok => b.ok /\ Copied(b2, T[current].map[va], va)
<1> DEFINE e == Table.map[va]
           a == kalloc(b.m)
           s2 == Shared(b, e, va)
           t == try_map(Fill(a.m, a.pa, b.m.data[e.pa]), b.pt, va, a.pa, TRUE)
           n == [m |-> b.m, pt |-> b.pt, ok |-> FALSE]
           b2 == CopyPage(b, va)
<1>1. /\ b.m \in Memory /\ b.pt \in PageTables /\ b.ok \in BOOLEAN /\ Good(b.m, With(T, c, b.pt))
      /\ \A j \in Pids : j # c => With(T, c, b.pt)[j] = T[j]
  BY BuildParts
<1>2. e # NoEntry => e.w = (va # "code")
  <2>1. Rights(T[current])
    BY <1>1 DEF Good
  <2> QED
    BY <2>1 DEF Rights
<1>3. Kept(b.m, b.m)
  BY DEF Kept
<1>4. /\ ~b.ok \/ e = NoEntry => b2 = b
      /\ b.ok /\ e # NoEntry /\ ~e.w => b2 = s2
      /\ b.ok /\ e # NoEntry /\ e.w /\ a.pa = 0 => b2 = n
      /\ b.ok /\ e # NoEntry /\ e.w /\ a.pa # 0 => b2 = t
  BY CopyPageCases
<1>5. CASE ~b.ok \/ e = NoEntry
  <2>1. b2 = b
    BY <1>4, <1>5
  <2>2. b.ok => Copied(b, T[current].map[va], va)
    BY <1>5 DEF Copied
  <2> HIDE DEF b2
  <2> QED
    BY <1>3, <2>1, <2>2 DEF b2
<1>6. CASE b.ok /\ e # NoEntry /\ ~e.w
  <2>1. va = "code"
    BY <1>2, <1>6
  <2>2. b2 = s2
    BY <1>4, <1>6
  <2>4. e = T[current].map[va] /\ e # NoEntry
    BY <1>6
  <2> HIDE DEF e
  <2>3. /\ GoodBuild(s2, T, c) /\ Kept(b.m, s2.m)
        /\ \A v \in Vas : v # va => s2.pt.map[v] = b.pt.map[v]
        /\ b.pt.tables["root"] # 0 => s2.pt.tables["root"] # 0
        /\ s2.ok => Copied(s2, e, va)
    <3>1. e = T[current].map["code"] /\ b.pt.map["code"] = NoEntry
      BY <2>1, <2>4
    <3> QED
      BY <1>6, <2>1, <2>4, <3>1, SharedStep
  <2> HIDE DEF s2, b2
  <2> QED
    BY <1>6, <2>2, <2>3, <2>4 DEF b2
<1>7. CASE b.ok /\ e # NoEntry /\ e.w /\ a.pa = 0
  <2>1. b2 = n
    BY <1>4, <1>7
  <2>2. GoodBuild(n, T, c) /\ n.m = b.m /\ n.pt = b.pt /\ ~n.ok
    BY <1>1 DEF GoodBuild
  <2> HIDE DEF n, b2
  <2> QED
    BY <1>3, <2>1, <2>2 DEF b2
<1>8. CASE b.ok /\ e # NoEntry /\ e.w /\ a.pa # 0
  <2>2. b2 = t
    BY <1>4, <1>8
  <2>3. /\ GoodBuild(t, T, c) /\ Kept(b.m, t.m)
        /\ \A v \in Vas : v # va => t.pt.map[v] = b.pt.map[v]
        /\ b.pt.tables["root"] # 0 => t.pt.tables["root"] # 0
        /\ t.ok => Copied(t, e, va)
    BY <1>8, CopiedStep
  <2>4. e = T[current].map[va]
    OBVIOUS
  <2> HIDE DEF t, b2, e
  <2> QED
    BY <1>8, <2>2, <2>3, <2>4 DEF b2
<1>9. b.ok /\ e # NoEntry => e.w \in BOOLEAN
  BY <1>2
<1> QED
  BY <1>5, <1>6, <1>7, <1>8, <1>9, Zenon

\* The whole loop: a child that is made runnable finds in its memory what the parent
\* finds in its own, and the pages in use are kept.
LEMMA CopyPagesStep ==
  ASSUME NEW T \in [Pids -> PageTables], NEW c \in Pids, current \in Pids, current # c,
         T[current] = Table, NEW b, GoodBuild(b, T, c), \A v \in Vas : b.pt.map[v] = NoEntry
  PROVE  LET b2 == CopyPages(b) IN
         /\ GoodBuild(b2, T, c) /\ Kept(b.m, b2.m)
         /\ b.pt.tables["root"] # 0 => b2.pt.tables["root"] # 0
         /\ b2.pt.map["beyond"] = NoEntry
         /\ b2.ok => \A v \in Below : Copied(b2, Table.map[v], v)
<1> DEFINE b1 == CopyPage(b, "code")
           b2 == CopyPage(b1, "data")
           b3 == CopyPage(b2, "heap")
           b4 == CopyPage(b3, "stack")
<1>0. "code" \in Vas /\ "data" \in Vas /\ "heap" \in Vas /\ "stack" \in Vas /\ "beyond" \in Vas
  BY DEF Vas, Below
<1>1. /\ GoodBuild(b1, T, c) /\ Kept(b.m, b1.m)
      /\ \A v \in Vas : v # "code" => b1.pt.map[v] = b.pt.map[v]
      /\ b.pt.tables["root"] # 0 => b1.pt.tables["root"] # 0
      /\ b1.ok => b.ok /\ Copied(b1, T[current].map["code"], "code")
  BY <1>0, CopyPageStep
<1> HIDE DEF b1
<1>2. /\ GoodBuild(b2, T, c) /\ Kept(b1.m, b2.m)
      /\ \A v \in Vas : v # "data" => b2.pt.map[v] = b1.pt.map[v]
      /\ b1.pt.tables["root"] # 0 => b2.pt.tables["root"] # 0
      /\ b2.ok => b1.ok /\ Copied(b2, T[current].map["data"], "data")
  <2>1. b1.pt.map["data"] = NoEntry
    BY <1>0, <1>1
  <2> QED
    BY <1>0, <1>1, <2>1, CopyPageStep
<1> HIDE DEF b2
<1>3. /\ GoodBuild(b3, T, c) /\ Kept(b2.m, b3.m)
      /\ \A v \in Vas : v # "heap" => b3.pt.map[v] = b2.pt.map[v]
      /\ b2.pt.tables["root"] # 0 => b3.pt.tables["root"] # 0
      /\ b3.ok => b2.ok /\ Copied(b3, T[current].map["heap"], "heap")
  <2>1. b2.pt.map["heap"] = NoEntry
    BY <1>0, <1>1, <1>2
  <2> QED
    BY <1>0, <1>2, <2>1, CopyPageStep
<1> HIDE DEF b3
<1>4. /\ GoodBuild(b4, T, c) /\ Kept(b3.m, b4.m)
      /\ \A v \in Vas : v # "stack" => b4.pt.map[v] = b3.pt.map[v]
      /\ b3.pt.tables["root"] # 0 => b4.pt.tables["root"] # 0
      /\ b4.ok => b3.ok /\ Copied(b4, T[current].map["stack"], "stack")
  <2>1. b3.pt.map["stack"] = NoEntry
    BY <1>0, <1>1, <1>2, <1>3
  <2> QED
    BY <1>0, <1>3, <2>1, CopyPageStep
<1> HIDE DEF b4
<1>5. Kept(b.m, b4.m) /\ Kept(b1.m, b4.m) /\ Kept(b2.m, b4.m)
  BY <1>1, <1>2, <1>3, <1>4, KeptTransitive
<1>6. ASSUME b4.ok PROVE \A v \in Below : Copied(b4, T[current].map[v], v)
  <2>1. Copied(b4, T[current].map["code"], "code")
    <3>1. b4.pt.map["code"] = b1.pt.map["code"] /\ Copied(b1, T[current].map["code"], "code")
      BY <1>0, <1>1, <1>2, <1>3, <1>4, <1>6
    <3> QED
      BY <1>0, <1>1, <1>5, <3>1, CopiedKept
  <2>2. Copied(b4, T[current].map["data"], "data")
    <3>1. b4.pt.map["data"] = b2.pt.map["data"] /\ Copied(b2, T[current].map["data"], "data")
      BY <1>0, <1>2, <1>3, <1>4, <1>6
    <3> QED
      BY <1>0, <1>2, <1>5, <3>1, CopiedKept
  <2>3. Copied(b4, T[current].map["heap"], "heap")
    <3>1. b4.pt.map["heap"] = b3.pt.map["heap"] /\ Copied(b3, T[current].map["heap"], "heap")
      BY <1>0, <1>3, <1>4, <1>6
    <3> QED
      BY <1>0, <1>3, <1>4, <3>1, CopiedKept
  <2> QED
    BY <1>4, <1>6, <2>1, <2>2, <2>3 DEF Below
<1>7. b.pt.tables["root"] # 0 => b4.pt.tables["root"] # 0
  BY <1>1, <1>2, <1>3, <1>4
<1>8. b4.pt.map["beyond"] = NoEntry
  BY <1>0, <1>1, <1>2, <1>3, <1>4
<1> QED
  BY <1>4, <1>5, <1>6, <1>7, <1>8, Zenon DEF b1, b2, b3, b4, CopyPages

-----------------------------------------------------------------------------
(* What a build takes *)

FreePages(m) == {q \in Pages : m.refcount[q] = 0}

\* A page table with the tables above the low user addresses.
HasLow(pt) == pt.tables["level3"] # 0 /\ pt.tables["level2"] # 0 /\ pt.tables["low"] # 0

\* Every page that has been taken since m is in the page table that is built.
Placed(m, b) ==
  \A p \in Pages : m.refcount[p] = 0 /\ b.m.refcount[p] # 0 => \E s \in Slots : Page(b.pt, s) = p

\* kalloc takes one page, and fails when there is none.
LEMMA KallocTakes ==
  ASSUME NEW m \in Memory
  PROVE  /\ Cardinality(FreePages(m)) \in Nat
         /\ kalloc(m).pa # 0 => Cardinality(FreePages(m)) = Cardinality(FreePages(kalloc(m).m)) + 1
         /\ kalloc(m).pa = 0 => FreePages(m) = {} /\ Cardinality(FreePages(m)) = 0
<1> DEFINE a == kalloc(m)
<1>1. IsFiniteSet(Pages)
  BY FS_Interval, Constants DEF Pages
<1>2. ASSUME NEW m2 PROVE IsFiniteSet(FreePages(m2)) /\ Cardinality(FreePages(m2)) \in Nat
  <2>1. FreePages(m2) \in SUBSET Pages
    BY DEF FreePages
  <2>2. IsFiniteSet(FreePages(m2))
    BY <1>1, <2>1, FS_Subset
  <2> QED
    BY <2>2, FS_CardinalityType
<1>3. ASSUME a.pa # 0
      PROVE  Cardinality(FreePages(m)) = Cardinality(FreePages(a.m)) + 1
  <2>1. /\ a.pa \in Pages /\ m.refcount[a.pa] = 0
        /\ \A q \in Pages : a.m.refcount[q] = IF q = a.pa THEN 1 ELSE m.refcount[q]
    BY <1>3, KallocPage
  <2> HIDE DEF a
  <2>2. a.pa \notin FreePages(a.m) /\ FreePages(m) = FreePages(a.m) \cup {a.pa}
    BY <2>1 DEF FreePages
  <2>3. Cardinality(FreePages(a.m) \cup {a.pa}) = Cardinality(FreePages(a.m)) + 1
    BY <1>2, <2>2, FS_AddElement
  <2> QED
    BY <2>2, <2>3
<1>4. ASSUME a.pa = 0 PROVE FreePages(m) = {} /\ Cardinality(FreePages(m)) = 0
  <2>1. FreePages(m) = {}
    BY <1>4, KallocNothing DEF FreePages
  <2> QED
    BY <2>1, FS_EmptySet
<1> QED
  BY <1>2, <1>3, <1>4

\* One level of a page table takes a page if it is missing.
LEMMA GrowTakes ==
  ASSUME NEW T \in [Pids -> PageTables], NEW c \in Pids, NEW b, GoodBuild(b, T, c), NEW level \in Levels,
         NEW m, Placed(m, b)
  PROVE  LET d == Grow(b, level) IN
         /\ GoodBuild(d, T, c) /\ Placed(m, d)
         /\ \A k \in Levels : k # level => d.pt.tables[k] = b.pt.tables[k]
         /\ d.ok => /\ b.ok /\ d.pt.tables[level] # 0
                    /\ Cardinality(FreePages(b.m))
                         = Cardinality(FreePages(d.m)) + IF b.pt.tables[level] = 0 THEN 1 ELSE 0
         /\ b.ok /\ ~d.ok => d.m = b.m /\ d.pt = b.pt /\ FreePages(b.m) = {}
<1> DEFINE d == Grow(b, level)
<1>0. /\ b.m \in Memory /\ b.pt \in PageTables /\ b.ok \in BOOLEAN /\ GoodBuild(d, T, c)
      /\ Cardinality(FreePages(b.m)) \in Nat
  BY GrowStep, KallocTakes DEF GoodBuild
<1>1. CASE ~b.ok \/ b.pt.tables[level] # 0
  <2>1. d = b
    BY <1>1 DEF Grow
  <2> HIDE DEF d
  <2> QED
    BY <1>0, <1>1, <2>1 DEF d
<1>2. CASE b.ok /\ b.pt.tables[level] = 0 /\ kalloc(b.m).pa = 0
  <2>1. d = [m |-> b.m, pt |-> b.pt, ok |-> FALSE]
    BY <1>2 DEF Grow
  <2>2. d.m = b.m /\ d.pt = b.pt /\ ~d.ok
    BY <2>1
  <2>3. FreePages(b.m) = {}
    BY <1>0, <1>2, KallocTakes
  <2> HIDE DEF d
  <2> QED
    BY <1>0, <2>2, <2>3 DEF d, Placed
<1>3. CASE b.ok /\ b.pt.tables[level] = 0 /\ kalloc(b.m).pa # 0
  <2> DEFINE a == kalloc(b.m)
             pt2 == WithTable(b.pt, level, a.pa)
  <2>1. d = [m |-> a.m, pt |-> pt2, ok |-> TRUE]
    BY <1>3 DEF Grow
  <2>2. d.m = a.m /\ d.pt = pt2 /\ d.ok
    <3> HIDE DEF a, pt2, d
    <3> QED
      BY <2>1
  <2>3. /\ a.pa \in Pages
        /\ \A q \in Pages : a.m.refcount[q] = IF q = a.pa THEN 1 ELSE b.m.refcount[q]
    BY <1>0, <1>3, KallocPage
  <2>4. Cardinality(FreePages(b.m)) = Cardinality(FreePages(a.m)) + 1
    BY <1>0, <1>3, KallocTakes
  <2> HIDE DEF a, d
  <2>5. /\ \A k \in Levels : pt2.tables[k] = IF k = level THEN a.pa ELSE b.pt.tables[k]
        /\ \A s \in Slots : Page(pt2, s) = IF s = level THEN a.pa ELSE Page(b.pt, s)
    BY <1>0, <2>3, WithSlots
  <2> HIDE DEF pt2
  <2>6. Placed(m, d)
    <3> SUFFICES ASSUME NEW p \in Pages, m.refcount[p] = 0, a.m.refcount[p] # 0
                 PROVE  \E s \in Slots : Page(pt2, s) = p
      BY <2>2 DEF Placed
    <3>1. level \in Slots /\ Page(b.pt, level) = 0 /\ p # 0
      BY <1>0, <1>3, SlotType, Constants
    <3>2. CASE p = a.pa
      BY <2>5, <3>1, <3>2
    <3>3. CASE p # a.pa
      <4>1. b.m.refcount[p] # 0
        BY <2>3, <3>3
      <4>2. PICK s \in Slots : Page(b.pt, s) = p
        BY <4>1 DEF Placed
      <4> QED
        BY <2>5, <3>1, <4>2
    <3> QED
      BY <3>2, <3>3
  <2>7. a.pa # 0
    BY <2>3, Constants
  <2> QED
    BY <1>0, <1>3, <2>2, <2>4, <2>5, <2>6, <2>7 DEF d
<1> QED
  BY <1>0, <1>1, <1>2, <1>3

\* kalloc_pagetable and the kernel's mappings take four pages.
LEMMA NewTableTakes ==
  ASSUME NEW T \in [Pids -> PageTables], NEW c \in Pids, T[c] = NoTable, NEW m, Good(m, T)
  PROVE  LET b == NewTable(m) IN
         /\ Placed(m, b)
         /\ b.ok => /\ HasLow(b.pt) /\ b.pt.tables["root"] # 0
                    /\ Cardinality(FreePages(m)) = Cardinality(FreePages(b.m)) + 4
<1>0. /\ m \in Memory /\ NoTable \in PageTables /\ With(T, c, NoTable) = T
      /\ \A l \in Levels : NoTable.tables[l] = 0
  <2>1. With(T, c, NoTable) = T
    BY DEF With
  <2> QED
    BY <2>1, NoTableType DEF Good, NoTable
<1>1. CASE kalloc(m).pa = 0
  <2>1. NewTable(m) = [m |-> m, pt |-> NoTable, ok |-> FALSE]
    BY <1>1 DEF NewTable
  <2> QED
    BY <2>1 DEF Placed
<1>2. CASE kalloc(m).pa # 0
  <2> DEFINE a == kalloc(m)
             pt == WithTable(NoTable, "root", a.pa)
             b0 == [m |-> a.m, pt |-> pt, ok |-> TRUE]
             b1 == Grow(b0, "level3")
             b2 == Grow(b1, "level2")
             b3 == Grow(b2, "low")
  <2>0. /\ "root" \in Levels /\ "root" \in Slots /\ "root" # "code"
        /\ "level3" \in Levels /\ "level2" \in Levels /\ "low" \in Levels
    BY DEF Levels, Slots
  <2>1. /\ a.pa \in Pages /\ Good(a.m, T) /\ a.m \in Memory
        /\ a.m.refcount[a.pa] = 1 /\ Loose(T, a.pa) /\ a.pa # 0
        /\ \A q \in Pages : q # a.pa => a.m.refcount[q] = m.refcount[q]
    BY <1>0, <1>2, KallocGood, KallocPage
  <2>2. NewTable(m) = b3
    BY <1>2 DEF NewTable, Descend
  <2>3. Cardinality(FreePages(m)) = Cardinality(FreePages(a.m)) + 1
    BY <1>0, <1>2, KallocTakes
  <2> HIDE DEF a
  <2>4. /\ pt \in PageTables /\ pt.map = NoTable.map
        /\ \A l \in Levels : pt.tables[l] = IF l = "root" THEN a.pa ELSE NoTable.tables[l]
        /\ \A s \in Slots : Page(pt, s) = IF s = "root" THEN a.pa ELSE Page(NoTable, s)
    BY <1>0, <2>0, <2>1, WithSlots
  <2> HIDE DEF pt
  <2>a. \A l \in Levels : l # "root" => pt.tables[l] = 0
    BY <1>0, <2>4
  <2>5. Good(a.m, With(T, c, pt))
    <3>1. /\ With(T, c, pt)[c] = pt /\ With(T, c, pt) \in [Pids -> PageTables]
          /\ \A j \in Pids : j # c => With(T, c, pt)[j] = T[j]
      BY <2>4, WithType
    <3>2. Rights(pt)
      BY <2>4, NoTableType DEF Rights
    <3>3. Page(pt, "root") = a.pa /\ \A s \in Slots : s # "root" => Page(pt, s) = Page(T[c], s)
      BY <2>0, <2>4
    <3> HIDE DEF With
    <3> QED
      BY <2>0, <2>1, <3>1, <3>2, <3>3, Install
  <2>6. b0.m = a.m /\ b0.pt = pt /\ b0.ok = TRUE
    OBVIOUS
  <2> HIDE DEF b0
  <2>7. GoodBuild(b0, T, c)
    BY <2>1, <2>4, <2>5, <2>6 DEF GoodBuild
  <2>8. Placed(m, b0)
    BY <2>0, <2>1, <2>4, <2>6 DEF Placed
  <2>9. /\ GoodBuild(b1, T, c) /\ Placed(m, b1)
        /\ \A k \in Levels : k # "level3" => b1.pt.tables[k] = b0.pt.tables[k]
        /\ b1.ok => /\ b0.ok /\ b1.pt.tables["level3"] # 0
                    /\ Cardinality(FreePages(b0.m))
                         = Cardinality(FreePages(b1.m)) + IF b0.pt.tables["level3"] = 0 THEN 1 ELSE 0
    BY <2>0, <2>7, <2>8, GrowTakes
  <2> HIDE DEF b1
  <2>10. /\ GoodBuild(b2, T, c) /\ Placed(m, b2)
         /\ \A k \in Levels : k # "level2" => b2.pt.tables[k] = b1.pt.tables[k]
         /\ b2.ok => /\ b1.ok /\ b2.pt.tables["level2"] # 0
                     /\ Cardinality(FreePages(b1.m))
                          = Cardinality(FreePages(b2.m)) + IF b1.pt.tables["level2"] = 0 THEN 1 ELSE 0
    BY <2>0, <2>9, GrowTakes
  <2> HIDE DEF b2
  <2>11. /\ GoodBuild(b3, T, c) /\ Placed(m, b3)
         /\ \A k \in Levels : k # "low" => b3.pt.tables[k] = b2.pt.tables[k]
         /\ b3.ok => /\ b2.ok /\ b3.pt.tables["low"] # 0
                     /\ Cardinality(FreePages(b2.m))
                          = Cardinality(FreePages(b3.m)) + IF b2.pt.tables["low"] = 0 THEN 1 ELSE 0
    BY <2>0, <2>10, GrowTakes
  <2> HIDE DEF b3
  <2>12. ASSUME b3.ok
         PROVE  /\ HasLow(b3.pt) /\ b3.pt.tables["root"] # 0
                /\ Cardinality(FreePages(m)) = Cardinality(FreePages(b3.m)) + 4
    <3>1. b2.ok /\ b1.ok
      BY <2>10, <2>11, <2>12
    <3>2. b0.pt.tables["level3"] = 0 /\ b1.pt.tables["level2"] = 0 /\ b2.pt.tables["low"] = 0
      BY <2>0, <2>a, <2>6, <2>9, <2>10
    <3>3. HasLow(b3.pt) /\ b3.pt.tables["root"] # 0
      BY <2>0, <2>1, <2>4, <2>6, <2>9, <2>10, <2>11, <2>12, <3>1 DEF HasLow
    <3>4. Cardinality(FreePages(b3.m)) \in Nat
      BY <2>11, KallocTakes DEF GoodBuild
    <3>5. Cardinality(FreePages(b2.m)) = Cardinality(FreePages(b3.m)) + 1
      BY <2>11, <2>12, <3>2
    <3>6. Cardinality(FreePages(b1.m)) = Cardinality(FreePages(b2.m)) + 1
      BY <2>10, <3>1, <3>2
    <3>7. Cardinality(FreePages(a.m)) = Cardinality(FreePages(b1.m)) + 1
      BY <2>6, <2>9, <3>1, <3>2
    <3> QED
      BY <2>3, <3>3, <3>4, <3>5, <3>6, <3>7
  <2> QED
    BY <2>2, <2>11, <2>12
<1> QED
  BY <1>1, <1>2

\* Where the tables are there, try_map takes no page.
LEMMA MapHere ==
  ASSUME NEW m, NEW pt, HasLow(pt), NEW va \in Below, va = "stack" => pt.tables["high"] # 0, NEW p, NEW w
  PROVE  try_map(m, pt, va, p, w) = [m |-> m, pt |-> WithEntry(pt, va, [pa |-> p, w |-> w]), ok |-> TRUE]
<1> DEFINE b == [m |-> m, pt |-> pt, ok |-> TRUE]
           l == LastLevel(va)
<1>1. b.m = m /\ b.pt = pt /\ b.ok
  OBVIOUS
<1>2. pt.tables["level3"] # 0 /\ pt.tables["level2"] # 0 /\ pt.tables[l] # 0
  BY DEF HasLow, LastLevel, Below
<1> HIDE DEF b, l
<1>3. Grow(b, "level3") = b /\ Grow(b, "level2") = b /\ Grow(b, l) = b
  BY <1>1, <1>2 DEF Grow
<1>4. Descend(b, l) = b
  BY <1>3 DEF Descend
<1>5. try_map(m, pt, va, p, w) =
        IF b.ok THEN [m |-> b.m, pt |-> WithEntry(b.pt, va, [pa |-> p, w |-> w]), ok |-> TRUE] ELSE b
  BY <1>4 DEF try_map, b, l
<1> QED
  BY <1>1, <1>5

\* fork's loop below the stack takes a page for every writable one, and nothing else.
LEMMA CopyPageTakes ==
  ASSUME NEW T \in [Pids -> PageTables], NEW c \in Pids, current \in Pids, current # c,
         T[current] = Table, NEW b, GoodBuild(b, T, c), NEW va \in Below, va # "stack",
         b.pt.map[va] = NoEntry, NEW m, Placed(m, b), b.ok => HasLow(b.pt)
  PROVE  LET b2 == CopyPage(b, va) IN
         /\ Placed(m, b2)
         /\ b2.ok => /\ b.ok /\ b2.pt.tables = b.pt.tables
                     /\ Cardinality(FreePages(b.m))
                          = Cardinality(FreePages(b2.m)) + IF Table.map[va].w THEN 1 ELSE 0
<1> DEFINE e == Table.map[va]
           a == kalloc(b.m)
           m3 == Fill(a.m, a.pa, b.m.data[e.pa])
           s2 == Shared(b, e, va)
           t == try_map(m3, b.pt, va, a.pa, TRUE)
           n == [m |-> b.m, pt |-> b.pt, ok |-> FALSE]
           b2 == CopyPage(b, va)
<1>1. /\ b.m \in Memory /\ b.pt \in PageTables /\ b.ok \in BOOLEAN /\ Good(b.m, With(T, c, b.pt))
      /\ \A j \in Pids : j # c => With(T, c, b.pt)[j] = T[j]
  BY BuildParts
<1>b. va \in Vas
  BY DEF Vas
<1>2. Cardinality(FreePages(b.m)) \in Nat /\ NoEntry.w = FALSE
  BY <1>1, KallocTakes DEF NoEntry
<1>3. va \in Slots /\ Page(b.pt, va) = 0 /\ \A p \in Pages : p # 0
  BY <1>1, <1>b, SlotType, Constants DEF NoEntry
<1>4. Kept(b.m, b2.m)
  BY <1>b, CopyPageStep
<1>5. /\ ~b.ok \/ e = NoEntry => b2 = b
      /\ b.ok /\ e # NoEntry /\ ~e.w => b2 = s2
      /\ b.ok /\ e # NoEntry /\ e.w /\ a.pa = 0 => b2 = n
      /\ b.ok /\ e # NoEntry /\ e.w /\ a.pa # 0 => b2 = t
  BY CopyPageCases
<1>6. e # NoEntry => e.pa \in Pages /\ b.m.refcount[e.pa] # 0 /\ e.w \in BOOLEAN
  <2>1. e.w \in BOOLEAN
    BY <1>b DEF PageTables
  <2> QED
    BY <1>1, <1>b, <2>1, MappedIsUsed
<1>7. CASE ~b.ok \/ e = NoEntry
  <2>1. b2 = b
    BY <1>5, <1>7
  <2>2. b.ok => e.w = FALSE
    BY <1>2, <1>7
  <2> HIDE DEF b2, e
  <2> QED
    BY <1>2, <2>1, <2>2 DEF b2, e
<1>8. CASE b.ok /\ e # NoEntry /\ ~e.w
  <2> DEFINE w == FALSE
             pt2 == WithEntry(b.pt, va, [pa |-> e.pa, w |-> w])
             m2 == CountUp(b.m, e.pa)
             s == try_map(b.m, b.pt, va, e.pa, w)
  <2>1. w \in BOOLEAN
    OBVIOUS
  <2>2. s = [m |-> b.m, pt |-> pt2, ok |-> TRUE]
    <3> DEFINE bm == b.m
               bpt == b.pt
               x == e.pa
    <3>1. HasLow(bpt) /\ (va = "stack" => bpt.tables["high"] # 0)
      BY <1>8
    <3> HIDE DEF w, e, bm, bpt, x
    <3>2. try_map(bm, bpt, va, x, w) = [m |-> bm, pt |-> WithEntry(bpt, va, [pa |-> x, w |-> w]), ok |-> TRUE]
      BY <3>1, MapHere
    <3> QED
      BY <3>2 DEF bm, bpt, x
  <2>3. s2 = IF s.ok THEN [m |-> CountUp(s.m, e.pa), pt |-> s.pt, ok |-> TRUE] ELSE s
    BY DEF Shared
  <2> HIDE DEF s, s2, e, w
  <2>4. s.m = b.m /\ s.pt = pt2 /\ s.ok
    <3> HIDE DEF pt2
    <3> QED
      BY <2>2
  <2>5. s2 = [m |-> m2, pt |-> pt2, ok |-> TRUE]
    BY <2>3, <2>4
  <2> HIDE DEF b2
  <2>6. b2.m = m2 /\ b2.pt = pt2 /\ b2.ok
    <3> HIDE DEF m2, pt2
    <3> QED
      BY <1>5, <1>8, <2>5
  <2>7. \A q \in Pages : q # e.pa => m2.refcount[q] = b.m.refcount[q]
    BY <1>1, <1>6, <1>8 DEF CountUp, Memory
  <2>8. /\ pt2.tables = b.pt.tables
        /\ \A r \in Slots : Page(pt2, r) = IF r = va THEN e.pa ELSE Page(b.pt, r)
    BY <1>1, <1>6, <1>8, <1>b, <2>1, WithSlots
  <2> HIDE DEF m2, pt2
  <2>9. FreePages(b2.m) = FreePages(b.m)
    <3>1. \A q \in Pages : m2.refcount[q] = 0 <=> b.m.refcount[q] = 0
      BY <1>4, <1>6, <1>8, <2>6, <2>7 DEF Kept
    <3> QED
      BY <2>6, <3>1 DEF FreePages
  <2>10. Placed(m, b2)
    <3> SUFFICES ASSUME NEW p \in Pages, m.refcount[p] = 0, b2.m.refcount[p] # 0
                 PROVE  \E r \in Slots : Page(b2.pt, r) = p
      BY DEF Placed
    <3>1. CASE p = e.pa
      BY <1>3, <2>6, <2>8, <3>1
    <3>2. CASE p # e.pa
      <4>1. PICK r \in Slots : Page(b.pt, r) = p
        BY <2>6, <2>7, <3>2 DEF Placed
      <4> QED
        BY <1>3, <2>6, <2>8, <4>1
    <3> QED
      BY <3>1, <3>2
  <2> QED
    BY <1>2, <1>8, <2>6, <2>8, <2>9, <2>10 DEF b2, e
<1>9. CASE b.ok /\ e # NoEntry /\ e.w /\ a.pa = 0
  <2>1. b2 = n
    BY <1>5, <1>9
  <2>2. n.m = b.m /\ n.pt = b.pt /\ ~n.ok
    OBVIOUS
  <2> HIDE DEF n, b2
  <2> QED
    BY <2>1, <2>2 DEF b2, Placed
<1>10. CASE b.ok /\ e # NoEntry /\ e.w /\ a.pa # 0
  <2> DEFINE w == TRUE
             pt2 == WithEntry(b.pt, va, [pa |-> a.pa, w |-> w])
  <2>1. w \in BOOLEAN
    OBVIOUS
  <2>2. t = [m |-> m3, pt |-> pt2, ok |-> TRUE]
    <3> DEFINE bpt == b.pt
               x == a.pa
    <3>1. HasLow(bpt) /\ (va = "stack" => bpt.tables["high"] # 0)
      BY <1>10
    <3>2. t = try_map(m3, bpt, va, x, w)
      OBVIOUS
    <3> HIDE DEF w, m3, a, t, bpt, x
    <3>3. try_map(m3, bpt, va, x, w) = [m |-> m3, pt |-> WithEntry(bpt, va, [pa |-> x, w |-> w]), ok |-> TRUE]
      BY <3>1, MapHere
    <3> QED
      BY <3>2, <3>3 DEF bpt, x
  <2>3. /\ a.pa \in Pages
        /\ \A q \in Pages : a.m.refcount[q] = IF q = a.pa THEN 1 ELSE b.m.refcount[q]
    BY <1>1, <1>10, KallocPage
  <2>4. Cardinality(FreePages(b.m)) = Cardinality(FreePages(a.m)) + 1
    BY <1>1, <1>10, KallocTakes
  <2>5. m3.refcount = a.m.refcount
    BY DEF Fill
  <2> HIDE DEF m3, a, w, t
  <2>6. /\ pt2.tables = b.pt.tables
        /\ \A r \in Slots : Page(pt2, r) = IF r = va THEN a.pa ELSE Page(b.pt, r)
    BY <1>1, <1>b, <2>1, <2>3, WithSlots
  <2> HIDE DEF pt2, b2, e
  <2>7. b2.m = m3 /\ b2.pt = pt2 /\ b2.ok
    BY <1>5, <1>10, <2>2
  <2>8. FreePages(b2.m) = FreePages(a.m)
    BY <2>5, <2>7 DEF FreePages
  <2>9. Placed(m, b2)
    <3> SUFFICES ASSUME NEW p \in Pages, m.refcount[p] = 0, b2.m.refcount[p] # 0
                 PROVE  \E r \in Slots : Page(b2.pt, r) = p
      BY DEF Placed
    <3>1. CASE p = a.pa
      BY <1>3, <2>6, <2>7, <3>1
    <3>2. CASE p # a.pa
      <4>1. PICK r \in Slots : Page(b.pt, r) = p
        BY <2>3, <2>5, <2>7, <3>2 DEF Placed
      <4> QED
        BY <1>3, <2>6, <2>7, <4>1
    <3> QED
      BY <3>1, <3>2
  <2> QED
    BY <1>10, <2>4, <2>6, <2>7, <2>8, <2>9 DEF b2, e
<1> QED
  BY <1>6, <1>7, <1>8, <1>9, <1>10, Zenon

\* The page p has been taken since m, for a copy of x, and is in no slot of the page
\* table that is built; every other page that has been taken is.
LostCopy(m, b, p, x) ==
  /\ m.refcount[p] = 0 /\ b.m.refcount[p] = 1 /\ b.m.data[p] = x
  /\ \A s \in Slots : Page(b.pt, s) # p
  /\ \A q \in Pages \ {p} : m.refcount[q] = 0 /\ b.m.refcount[q] # 0 => \E s \in Slots : Page(b.pt, s) = q

\* The copy of the stack page that is mapped when its table has been found: every page
\* that was taken is in the page table.
LEMMA StackMapped ==
  ASSUME NEW T \in [Pids -> PageTables], NEW c \in Pids, NEW m, NEW b, b.pt \in PageTables, Placed(m, b),
         b.pt.map["stack"] = NoEntry,
         NEW m2, NEW p \in Pages, \A q \in Pages : q # p => (m2.refcount[q] # 0 <=> b.m.refcount[q] # 0),
         NEW b0, b0.m = m2, b0.pt = b.pt, NEW d, Grown(b0, d), GoodBuild(d, T, c), Placed(m2, d),
         NEW b2, b2.m = d.m, b2.pt = WithEntry(d.pt, "stack", [pa |-> p, w |-> TRUE])
  PROVE  Placed(m, b2) /\ b2.pt.tables = d.pt.tables
<1>0. "stack" \in Vas /\ "stack" \in Slots /\ d.pt \in PageTables /\ \A q \in Pages : q # 0
  BY Constants DEF Vas, Below, Slots, GoodBuild
<1> DEFINE w == TRUE
           pt2 == WithEntry(d.pt, "stack", [pa |-> p, w |-> w])
<1>1. /\ pt2.tables = d.pt.tables
      /\ \A s \in Slots : Page(pt2, s) = IF s = "stack" THEN p ELSE Page(d.pt, s)
  <2>1. w \in BOOLEAN
    OBVIOUS
  <2> HIDE DEF w
  <2> QED
    BY <1>0, <2>1, WithSlots
<1>2. b2.pt = pt2
  OBVIOUS
<1> HIDE DEF pt2
<1>3. Page(b.pt, "stack") = 0 /\ Page(d.pt, "stack") = 0
  <2>1. b.pt.map["stack"].pa = 0 /\ d.pt.map["stack"].pa = 0
    BY DEF Grown, NoEntry
  <2> QED
    BY <1>0, <2>1, SlotType
<1>4. ASSUME NEW s \in Slots, Page(b.pt, s) # 0 PROVE Page(d.pt, s) = Page(b.pt, s)
  <2>1. CASE s \in Levels
    BY <1>4, <2>1 DEF Grown, Page
  <2>2. CASE s \notin Levels
    BY <2>2 DEF Grown, Page
  <2> QED
    BY <2>1, <2>2
<1>5. Placed(m, b2)
  <2> SUFFICES ASSUME NEW q \in Pages, m.refcount[q] = 0, d.m.refcount[q] # 0
               PROVE  \E s \in Slots : Page(pt2, s) = q
    BY <1>2 DEF Placed
  <2>1. CASE q = p
    BY <1>0, <1>1, <2>1
  <2>2. CASE q # p /\ m2.refcount[q] # 0
    <3>1. PICK s \in Slots : Page(b.pt, s) = q
      BY <2>2 DEF Placed
    <3> QED
      BY <1>0, <1>1, <1>3, <1>4, <3>1
  <2>3. CASE m2.refcount[q] = 0
    <3>1. PICK s \in Slots : Page(d.pt, s) = q
      BY <2>3 DEF Placed
    <3> QED
      BY <1>0, <1>1, <1>3, <3>1
  <2> QED
    BY <2>1, <2>2, <2>3
<1> QED
  BY <1>1, <1>2, <1>5

\* The last turn of fork's loop, at the stack: the copy is lost when it took the last
\* page and the table to map it in is missing.
LEMMA CopyStackTakes ==
  ASSUME NEW T \in [Pids -> PageTables], NEW c \in Pids, current \in Pids, current # c,
         T[current] = Table, NEW b, GoodBuild(b, T, c), b.pt.map["stack"] = NoEntry,
         NEW m, Placed(m, b), Kept(m, b.m), b.ok => HasLow(b.pt)
  PROVE  LET e == Table.map["stack"]
             b2 == CopyPage(b, "stack")
         IN  /\ b2.ok => /\ b.ok
                         /\ \A l \in Levels : b.pt.tables[l] # 0 => b2.pt.tables[l] # 0
                         /\ e # NoEntry => b2.pt.tables["high"] # 0
             /\ \/ Placed(m, b2)
                \/ /\ b.ok /\ ~b2.ok /\ e # NoEntry /\ e.w /\ Cardinality(FreePages(b.m)) = 1
                   /\ \E p \in Pages : LostCopy(m, b2, p, b.m.data[e.pa])
<1> DEFINE e == Table.map["stack"]
           a == kalloc(b.m)
           x == b.m.data[e.pa]
           m2 == Fill(a.m, a.pa, x)
           t == try_map(m2, b.pt, "stack", a.pa, TRUE)
           n == [m |-> b.m, pt |-> b.pt, ok |-> FALSE]
           b0 == [m |-> m2, pt |-> b.pt, ok |-> TRUE]
           d == Grow(b0, "high")
           b2 == CopyPage(b, "stack")
<1>0. "stack" \in Vas /\ "stack" # "code" /\ "high" \in Levels
  BY DEF Vas, Below, Levels
<1>1. /\ b.m \in Memory /\ b.pt \in PageTables /\ b.ok \in BOOLEAN /\ Good(b.m, With(T, c, b.pt))
      /\ With(T, c, b.pt)[c] = b.pt /\ \A j \in Pids : j # c => With(T, c, b.pt)[j] = T[j]
  BY BuildParts
<1>2. e # NoEntry => e.pa \in Pages /\ e.w
  <2>1. e # NoEntry => e.pa \in Pages
    BY <1>0, <1>1, MappedIsUsed
  <2>2. e # NoEntry => e.w = ("stack" # "code")
    BY <1>0, <1>1 DEF Good, Rights
  <2> QED
    BY <1>0, <2>1, <2>2
<1>3. /\ ~b.ok \/ e = NoEntry => b2 = b
      /\ b.ok /\ e # NoEntry /\ ~e.w => b2 = Shared(b, e, "stack")
      /\ b.ok /\ e # NoEntry /\ e.w /\ a.pa = 0 => b2 = n
      /\ b.ok /\ e # NoEntry /\ e.w /\ a.pa # 0 => b2 = t
  BY CopyPageCases
<1>4. CASE ~b.ok \/ e = NoEntry
  <2>1. b2 = b
    BY <1>3, <1>4
  <2> HIDE DEF b2, e
  <2> QED
    BY <1>4, <2>1 DEF b2, e
<1>5. CASE b.ok /\ e # NoEntry /\ a.pa = 0
  <2>1. b2 = n
    BY <1>2, <1>3, <1>5
  <2>2. n.m = b.m /\ n.pt = b.pt /\ ~n.ok
    OBVIOUS
  <2> HIDE DEF n, b2
  <2> QED
    BY <2>1, <2>2 DEF b2, Placed
<1>6. CASE b.ok /\ e # NoEntry /\ a.pa # 0
  <2>1. b2 = t
    BY <1>2, <1>3, <1>6
  <2>2. x \in Nat
    BY <1>1, <1>2, <1>6 DEF Memory
  <2>3. /\ a.pa \in Pages /\ b.m.refcount[a.pa] = 0
        /\ \A q \in Pages : a.m.refcount[q] = IF q = a.pa THEN 1 ELSE b.m.refcount[q]
    BY <1>1, <1>6, KallocPage
  <2>4. /\ Good(m2, With(T, c, b.pt)) /\ m2.refcount[a.pa] = 1 /\ m2.data[a.pa] = x
        /\ Loose(With(T, c, b.pt), a.pa)
    <3> HIDE DEF x
    <3> QED
      BY <1>1, <1>6, <2>2, KallocFill
  <2>5. m2.refcount = a.m.refcount
    BY DEF Fill
  <2>6. Cardinality(FreePages(b.m)) = Cardinality(FreePages(a.m)) + 1
    BY <1>1, <1>6, KallocTakes
  <2>7. b0.m = m2 /\ b0.pt = b.pt /\ b0.ok
    OBVIOUS
  <2>8. t = IF d.ok THEN [m |-> d.m, pt |-> WithEntry(d.pt, "stack", [pa |-> a.pa, w |-> TRUE]), ok |-> TRUE]
            ELSE d
    <3>1. LastLevel("stack") = "high"
      BY DEF LastLevel
    <3>2. b.pt.tables["level3"] # 0 /\ b.pt.tables["level2"] # 0
      BY <1>6 DEF HasLow
    <3>3. t = LET k == Descend(b0, LastLevel("stack")) IN
              IF k.ok THEN [m |-> k.m, pt |-> WithEntry(k.pt, "stack", [pa |-> a.pa, w |-> TRUE]), ok |-> TRUE]
              ELSE k
      BY DEF try_map
    <3> HIDE DEF b0, t, a, m2
    <3>4. Grow(b0, "level3") = b0 /\ Grow(b0, "level2") = b0
      BY <2>7, <3>2 DEF Grow
    <3>5. Descend(b0, LastLevel("stack")) = d
      BY <3>1, <3>4 DEF Descend
    <3> HIDE DEF d
    <3> QED
      BY <3>3, <3>5
  <2> HIDE DEF a, m2, x, b0, t, b2
  <2>9. GoodBuild(b0, T, c)
    BY <1>1, <2>4, <2>7 DEF GoodBuild, Good
  <2>10. Placed(m2, b0)
    BY <2>7 DEF Placed
  <2>11. /\ GoodBuild(d, T, c) /\ Placed(m2, d) /\ Grown(b0, d)
         /\ d.ok => d.pt.tables["high"] # 0
         /\ ~d.ok => d.m = m2 /\ d.pt = b.pt /\ FreePages(m2) = {}
    <3>1. GoodBuild(d, T, c) /\ Grown(b0, d)
      BY <1>0, <2>9, GrowStep
    <3>2. /\ GoodBuild(d, T, c) /\ Placed(m2, d)
          /\ \A k \in Levels : k # "high" => d.pt.tables[k] = b0.pt.tables[k]
          /\ d.ok => /\ b0.ok /\ d.pt.tables["high"] # 0
                     /\ Cardinality(FreePages(b0.m))
                          = Cardinality(FreePages(d.m)) + IF b0.pt.tables["high"] = 0 THEN 1 ELSE 0
          /\ b0.ok /\ ~d.ok => d.m = b0.m /\ d.pt = b0.pt /\ FreePages(b0.m) = {}
      BY <1>0, <2>9, <2>10, GrowTakes
    <3> HIDE DEF d
    <3> QED
      BY <2>7, <3>1, <3>2
  <2> HIDE DEF d
  <2>12. CASE d.ok
    <3> DEFINE w == TRUE
               pt2 == WithEntry(d.pt, "stack", [pa |-> a.pa, w |-> w])
    <3>1. b2 = [m |-> d.m, pt |-> pt2, ok |-> TRUE]
      BY <2>1, <2>8, <2>12
    <3>2. b2.m = d.m /\ b2.pt = pt2 /\ b2.ok
      <4> HIDE DEF pt2
      <4> QED
        BY <3>1
    <3>3. \A q \in Pages : q # a.pa => (m2.refcount[q] # 0 <=> b.m.refcount[q] # 0)
      BY <2>3, <2>5
    <3>4. Placed(m, b2) /\ b2.pt.tables = d.pt.tables
      BY <1>1, <2>3, <2>7, <2>11, <3>2, <3>3, StackMapped
    <3>5. \A l \in Levels : b.pt.tables[l] # 0 => d.pt.tables[l] # 0
      BY <2>7, <2>11 DEF Grown
    <3> QED
      BY <1>6, <2>11, <2>12, <3>4, <3>5 DEF b2
  <2>13. CASE ~d.ok
    <3>1. b2 = d /\ d.m = m2 /\ d.pt = b.pt /\ FreePages(a.m) = {}
      BY <2>1, <2>5, <2>8, <2>11, <2>13 DEF FreePages
    <3>2. Cardinality(FreePages(b.m)) = 1
      BY <2>6, <3>1, FS_EmptySet
    <3>3. LostCopy(m, b2, a.pa, x)
      <4>1. m.refcount[a.pa] = 0
        BY <2>3 DEF Kept
      <4>2. \A s \in Slots : Page(b.pt, s) # a.pa
        BY <1>1, <2>4 DEF Loose
      <4>3. \A q \in Pages \ {a.pa} : m.refcount[q] = 0 /\ m2.refcount[q] # 0 => \E s \in Slots : Page(b.pt, s) = q
        BY <2>3, <2>5 DEF Placed
      <4> QED
        BY <2>4, <3>1, <4>1, <4>2, <4>3 DEF LostCopy
    <3> QED
      BY <1>2, <1>6, <2>3, <2>13, <3>1, <3>2, <3>3 DEF b2, x
  <2> QED
    BY <2>12, <2>13
<1> QED
  BY <1>1, <1>4, <1>5, <1>6

\* The pages of a process with a stack that fork has to copy.
LEMMA WritablePages ==
  ASSUME NEW pt \in PageTables, Rights(pt), pt.map["stack"] # NoEntry
  PROVE  /\ ~pt.map["code"].w
         /\ Cardinality({v \in Below : pt.map[v].w})
              = (IF pt.map["data"].w THEN 1 ELSE 0) + (IF pt.map["heap"].w THEN 1 ELSE 0) + 1
<1> DEFINE A == IF pt.map["data"].w THEN {"data"} ELSE {}
           B == IF pt.map["heap"].w THEN {"heap"} ELSE {}
           W == {v \in Below : pt.map[v].w}
<1>0. "code" \in Vas /\ "stack" \in Vas /\ "stack" # "code" /\ ~NoEntry.w
  BY DEF Vas, Below, NoEntry
<1>1. ~pt.map["code"].w /\ pt.map["stack"].w
  BY <1>0 DEF Rights
<1>2. W = ({"stack"} \cup A) \cup B
  BY <1>1 DEF Vas, Below
<1>3. IsFiniteSet({"stack"}) /\ Cardinality({"stack"}) = 1
  BY FS_Singleton
<1>4. /\ IsFiniteSet({"stack"} \cup A)
      /\ Cardinality({"stack"} \cup A) = 1 + IF pt.map["data"].w THEN 1 ELSE 0
  <2>1. "data" \notin {"stack"}
    OBVIOUS
  <2>2. /\ IsFiniteSet({"stack"} \cup {"data"})
        /\ Cardinality({"stack"} \cup {"data"}) = Cardinality({"stack"}) + 1
    BY <1>3, <2>1, FS_AddElement
  <2>3. CASE pt.map["data"].w
    BY <1>3, <2>2, <2>3
  <2>4. CASE ~pt.map["data"].w
    BY <1>3, <2>4
  <2> QED
    BY <2>3, <2>4
<1>5. Cardinality(({"stack"} \cup A) \cup B)
        = Cardinality({"stack"} \cup A) + IF pt.map["heap"].w THEN 1 ELSE 0
  <2> DEFINE S == {"stack"} \cup A
  <2>1. "heap" \notin S /\ IsFiniteSet(S) /\ Cardinality(S) \in Nat
    BY <1>4
  <2> HIDE DEF S
  <2>2. Cardinality(S \cup {"heap"}) = Cardinality(S) + 1
    BY <2>1, FS_AddElement
  <2>3. Cardinality(S \cup B) = Cardinality(S) + IF pt.map["heap"].w THEN 1 ELSE 0
    <3>1. CASE pt.map["heap"].w
      BY <2>2, <3>1
    <3>2. CASE ~pt.map["heap"].w
      BY <2>1, <3>2
    <3> QED
      BY <3>1, <3>2
  <2> QED
    BY <2>3 DEF S
<1>6. Cardinality(W) = (IF pt.map["data"].w THEN 1 ELSE 0) + (IF pt.map["heap"].w THEN 1 ELSE 0) + 1
  <2> HIDE DEF W, A, B
  <2> QED
    BY <1>2, <1>4, <1>5
<1> QED
  BY <1>1, <1>6

\* What fork takes: all of it is in the child's page table, but for the copy of the
\* stack page that is lost when the pages run out just then.
LEMMA ForkTakes ==
  ASSUME NEW T \in [Pids -> PageTables], NEW c \in Pids, current \in Pids, current # c,
         T[current] = Table, T[c] = NoTable, NEW m, Good(m, T)
  PROVE  LET e == Table.map["stack"]
             b == CopyPages(NewTable(m))
         IN  /\ b.ok /\ e # NoEntry => \A l \in Levels \ {"far"} : b.pt.tables[l] # 0
             /\ \/ Placed(m, b)
                \/ /\ ~b.ok
                   /\ Cardinality(FreePages(m)) = 4 + Cardinality({v \in Below : Table.map[v].w})
                   /\ \E p \in Pages : LostCopy(m, b, p, m.data[e.pa])
<1> DEFINE e == Table.map["stack"]
           n == NewTable(m)
           b1 == CopyPage(n, "code")
           b2 == CopyPage(b1, "data")
           b3 == CopyPage(b2, "heap")
           b4 == CopyPage(b3, "stack")
           one(v) == IF Table.map[v].w THEN 1 ELSE 0
<1>0. /\ "code" \in Vas /\ "data" \in Vas /\ "heap" \in Vas /\ "stack" \in Vas
      /\ "code" \in Below /\ "data" \in Below /\ "heap" \in Below
      /\ "root" \in Levels /\ "level3" \in Levels /\ "level2" \in Levels /\ "low" \in Levels
      /\ \A l \in Levels \ {"far"} : l \in {"root", "level3", "level2", "low", "high"}
  BY DEF Vas, Below, Levels
<1>1. /\ GoodBuild(n, T, c) /\ Kept(m, n.m) /\ \A v \in Vas : n.pt.map[v] = NoEntry
      /\ Placed(m, n)
      /\ n.ok => /\ HasLow(n.pt) /\ n.pt.tables["root"] # 0
                 /\ Cardinality(FreePages(m)) = Cardinality(FreePages(n.m)) + 4
  BY NewTableStep, NewTableTakes
<1> HIDE DEF n
<1>2. /\ GoodBuild(b1, T, c) /\ Kept(n.m, b1.m) /\ Placed(m, b1)
      /\ \A v \in Vas : v # "code" => b1.pt.map[v] = n.pt.map[v]
      /\ b1.ok => /\ n.ok /\ b1.pt.tables = n.pt.tables
                  /\ Cardinality(FreePages(n.m)) = Cardinality(FreePages(b1.m)) + one("code")
  <2>1. n.pt.map["code"] = NoEntry /\ "code" # "stack"
    BY <1>0, <1>1
  <2>2. /\ GoodBuild(b1, T, c) /\ Kept(n.m, b1.m)
        /\ \A v \in Vas : v # "code" => b1.pt.map[v] = n.pt.map[v]
    BY <1>0, <1>1, <2>1, CopyPageStep
  <2>3. /\ Placed(m, b1)
        /\ b1.ok => /\ n.ok /\ b1.pt.tables = n.pt.tables
                    /\ Cardinality(FreePages(n.m)) = Cardinality(FreePages(b1.m)) + one("code")
    BY <1>0, <1>1, <2>1, CopyPageTakes
  <2> QED
    BY <2>2, <2>3
<1> HIDE DEF b1
<1>3. /\ GoodBuild(b2, T, c) /\ Kept(b1.m, b2.m) /\ Placed(m, b2)
      /\ \A v \in Vas : v # "data" => b2.pt.map[v] = b1.pt.map[v]
      /\ b2.ok => /\ b1.ok /\ b2.pt.tables = b1.pt.tables
                  /\ Cardinality(FreePages(b1.m)) = Cardinality(FreePages(b2.m)) + one("data")
  <2>1. b1.pt.map["data"] = NoEntry /\ (b1.ok => HasLow(b1.pt)) /\ "data" # "stack"
    BY <1>0, <1>1, <1>2 DEF HasLow
  <2>2. /\ GoodBuild(b2, T, c) /\ Kept(b1.m, b2.m)
        /\ \A v \in Vas : v # "data" => b2.pt.map[v] = b1.pt.map[v]
    BY <1>0, <1>2, <2>1, CopyPageStep
  <2>3. /\ Placed(m, b2)
        /\ b2.ok => /\ b1.ok /\ b2.pt.tables = b1.pt.tables
                    /\ Cardinality(FreePages(b1.m)) = Cardinality(FreePages(b2.m)) + one("data")
    BY <1>0, <1>2, <2>1, CopyPageTakes
  <2> QED
    BY <2>2, <2>3
<1> HIDE DEF b2
<1>4. /\ GoodBuild(b3, T, c) /\ Kept(b2.m, b3.m) /\ Placed(m, b3)
      /\ \A v \in Vas : v # "heap" => b3.pt.map[v] = b2.pt.map[v]
      /\ b3.ok => /\ b2.ok /\ b3.pt.tables = b2.pt.tables
                  /\ Cardinality(FreePages(b2.m)) = Cardinality(FreePages(b3.m)) + one("heap")
  <2>1. b2.pt.map["heap"] = NoEntry /\ (b2.ok => HasLow(b2.pt)) /\ "heap" # "stack"
    BY <1>0, <1>1, <1>2, <1>3 DEF HasLow
  <2>2. /\ GoodBuild(b3, T, c) /\ Kept(b2.m, b3.m)
        /\ \A v \in Vas : v # "heap" => b3.pt.map[v] = b2.pt.map[v]
    BY <1>0, <1>3, <2>1, CopyPageStep
  <2>3. /\ Placed(m, b3)
        /\ b3.ok => /\ b2.ok /\ b3.pt.tables = b2.pt.tables
                    /\ Cardinality(FreePages(b2.m)) = Cardinality(FreePages(b3.m)) + one("heap")
    BY <1>0, <1>3, <2>1, CopyPageTakes
  <2> QED
    BY <2>2, <2>3
<1> HIDE DEF b3
<1>5. Kept(m, b3.m)
  BY <1>1, <1>2, <1>3, <1>4, KeptTransitive
<1>6. b3.ok => /\ HasLow(b3.pt) /\ b3.pt.tables["root"] # 0 /\ b2.ok /\ b1.ok /\ n.ok
  BY <1>1, <1>2, <1>3, <1>4 DEF HasLow
<1>7. /\ b4.ok => /\ b3.ok
                  /\ \A l \in Levels : b3.pt.tables[l] # 0 => b4.pt.tables[l] # 0
                  /\ e # NoEntry => b4.pt.tables["high"] # 0
      /\ \/ Placed(m, b4)
         \/ /\ b3.ok /\ ~b4.ok /\ e # NoEntry /\ e.w /\ Cardinality(FreePages(b3.m)) = 1
            /\ \E p \in Pages : LostCopy(m, b4, p, b3.m.data[e.pa])
  <2>1. b3.pt.map["stack"] = NoEntry
    BY <1>0, <1>1, <1>2, <1>3, <1>4
  <2> QED
    BY <1>4, <1>5, <1>6, <2>1, CopyStackTakes
<1> HIDE DEF b4
<1>8. b4.ok /\ e # NoEntry => \A l \in Levels \ {"far"} : b4.pt.tables[l] # 0
  BY <1>0, <1>6, <1>7 DEF HasLow
<1>9. ASSUME ~Placed(m, b4)
      PROVE  /\ ~b4.ok
             /\ Cardinality(FreePages(m)) = 4 + Cardinality({v \in Below : Table.map[v].w})
             /\ \E p \in Pages : LostCopy(m, b4, p, m.data[e.pa])
  <2>1. /\ b3.ok /\ ~b4.ok /\ e # NoEntry /\ Cardinality(FreePages(b3.m)) = 1
        /\ \E p \in Pages : LostCopy(m, b4, p, b3.m.data[e.pa])
    BY <1>7, <1>9
  <2>2. Table \in PageTables /\ Rights(Table)
    BY DEF Good
  <2> DEFINE W == Cardinality({v \in Below : Table.map[v].w})
  <2>3. ~Table.map["code"].w /\ W = one("data") + one("heap") + 1
    BY <2>1, <2>2, WritablePages
  <2>4. one("code") = 0 /\ one("data") \in Nat /\ one("heap") \in Nat
    BY <2>3
  <2>5. e.pa \in Pages /\ m.refcount[e.pa] # 0
    BY <1>0, <2>1, MappedIsUsed
  <2>6. b3.m.data[e.pa] = m.data[e.pa]
    BY <1>5, <2>5 DEF Kept
  <2> HIDE DEF one, W
  <2>7. /\ Cardinality(FreePages(m)) = Cardinality(FreePages(n.m)) + 4
        /\ Cardinality(FreePages(n.m)) = Cardinality(FreePages(b1.m)) + one("code")
        /\ Cardinality(FreePages(b1.m)) = Cardinality(FreePages(b2.m)) + one("data")
        /\ Cardinality(FreePages(b2.m)) = Cardinality(FreePages(b3.m)) + one("heap")
    BY <1>1, <1>2, <1>3, <1>4, <1>6, <2>1
  <2>8. Cardinality(FreePages(m)) = 4 + W
    BY <2>1, <2>3, <2>4, <2>7
  <2> QED
    BY <2>1, <2>6, <2>8 DEF W
<1>10. CopyPages(NewTable(m)) = b4
  BY DEF CopyPages, n, b1, b2, b3, b4
<1> QED
  BY <1>8, <1>9, <1>10

-----------------------------------------------------------------------------
(* What every step keeps *)

\* A program allocates pages for its data, not in the place of its code.
DataOnly == "code" \notin AllocAt

\* ProcessIsolation, of one step.
Isolated ==
  \A i \in Pids \ {current} :
     IF ptable[i].state # "FREE" THEN View(i)' = View(i)
     ELSE ptable'[i].state = "RUNNABLE" => \A v \in Below : View(i)'[v] = View(current)[v]

\* The page tables of the processes.
LEMMA TablesType ==
  ASSUME NEW tab \in [Pids -> [state : {"FREE", "RUNNABLE", "FAULTED"}, pagetable : PageTables]]
  PROVE  /\ TablesOf(tab) \in [Pids -> PageTables]
         /\ \A i \in Pids : TablesOf(tab)[i] = tab[i].pagetable
  BY DEF TablesOf

\* schedule returns a process.
LEMMA ScheduleType ==
  ASSUME NEW tab, schedule(tab), current \in Pids, spinning \in BOOLEAN
  PROVE  current' \in Pids /\ spinning' \in BOOLEAN
<1> DEFINE runnable == {d \in 1 .. PidMax : tab[(current + d) % PidMax].state = "RUNNABLE"}
           first == CHOOSE d \in runnable : \A e \in runnable : d <= e
<1>1. CASE runnable = {}
  BY <1>1 DEF schedule
<1>2. CASE runnable # {}
  <2>1. current' = (current + first) % PidMax /\ spinning' = spinning
    BY <1>2 DEF schedule
  <2>2. first \in 1 .. PidMax
    <3>1. runnable \in SUBSET (1 .. PidMax) /\ runnable \in SUBSET Nat
      OBVIOUS
    <3>2. first \in runnable
      <4> HIDE DEF runnable
      <4> QED
        BY <1>2, <3>1, LeastIsChosen
    <3> QED
      BY <3>1, <3>2
  <2> HIDE DEF first
  <2> QED
    BY <2>1, <2>2, Constants DEF Pids
<1> QED
  BY <1>1, <1>2

\* A process whose page table stays, and the pages of which stay, finds in its memory
\* what it found before.
LEMMA ViewStays ==
  ASSUME NEW i \in Pids, ptable'[i].pagetable = ptable[i].pagetable,
         \A v \in Vas : ptable[i].pagetable.map[v] # NoEntry =>
            mem'.data[ptable[i].pagetable.map[v].pa] = mem.data[ptable[i].pagetable.map[v].pa]
  PROVE  View(i)' = View(i)
  BY DEF View

\* When no page in use changes, no process that keeps its page table sees a change.
LEMMA KeptIsIsolated ==
  ASSUME IInv, Kept(mem, mem'), NEW i \in Pids, ptable'[i].pagetable = ptable[i].pagetable
  PROVE  View(i)' = View(i)
<1>1. ASSUME NEW v \in Vas, ptable[i].pagetable.map[v] # NoEntry
      PROVE  mem'.data[ptable[i].pagetable.map[v].pa] = mem.data[ptable[i].pagetable.map[v].pa]
  <2>1. TablesOf(ptable)[i] = ptable[i].pagetable /\ Good(mem, TablesOf(ptable))
    BY TablesType DEF IInv, TypeOK
  <2>2. /\ ptable[i].pagetable.map[v].pa \in Pages
        /\ mem.refcount[ptable[i].pagetable.map[v].pa] # 0
    BY <1>1, <2>1, MappedIsUsed
  <2> QED
    BY <2>2 DEF Kept
<1> QED
  BY <1>1, ViewStays

\* A step that changes no memory, no page table, and the state of no process but the
\* running one, which stays a process that is not free.
LEMMA QuietStep ==
  ASSUME IInv, UNCHANGED mem, current' \in Pids, spinning' \in BOOLEAN,
         ptable' \in [Pids -> [state : {"FREE", "RUNNABLE", "FAULTED"}, pagetable : PageTables]],
         \A i \in Pids :
           /\ ptable'[i].pagetable = ptable[i].pagetable
           /\ i # current => ptable'[i].state = ptable[i].state
           /\ ptable'[i].state = "FREE" <=> ptable[i].state = "FREE"
  PROVE  IInv' /\ Isolated
<1>1. TypeOK'
  BY DEF TypeOK
<1>2. ProcInv'
  BY Constants DEF IInv, ProcInv
<1>3. TablesOf(ptable') = TablesOf(ptable)
  BY DEF TablesOf
<1>4. Good(mem', TablesOf(ptable'))
  BY <1>3 DEF IInv
<1>5. Kept(mem, mem')
  BY DEF Kept
<1>6. \A i \in Pids : View(i)' = View(i)
  BY <1>5, KeptIsIsolated
<1>7. Isolated
  BY <1>6 DEF Isolated
<1> QED
  BY <1>1, <1>2, <1>4, <1>7 DEF IInv

\* The steps of the scheduler, of a process that will not run again, and of the kernel
\* that stops.
LEMMA SchedulerStep ==
  ASSUME IInv, Timer \/ Yield \/ PageFault \/ Panic \/ ForkFails \/ Spin \/ UNCHANGED vars
  PROVE  IInv' /\ Isolated
<1>0. TypeOK
  BY DEF IInv
<1>1. CASE Timer \/ Yield
  BY <1>0, <1>1, ScheduleType, QuietStep DEF Timer, Yield, TypeOK
<1>2. CASE PageFault
  <2>1. ptable' = [ptable EXCEPT ![current].state = "FAULTED"] /\ UNCHANGED mem /\ ptable[current].state = "RUNNABLE"
    BY <1>2 DEF PageFault, Running
  <2>2. current' \in Pids /\ spinning' \in BOOLEAN
    BY <1>0, <1>2, ScheduleType DEF PageFault, TypeOK
  <2>3. /\ ptable' \in [Pids -> [state : {"FREE", "RUNNABLE", "FAULTED"}, pagetable : PageTables]]
        /\ \A i \in Pids :
             /\ ptable'[i].pagetable = ptable[i].pagetable
             /\ i # current => ptable'[i].state = ptable[i].state
             /\ ptable'[i].state = "FREE" <=> ptable[i].state = "FREE"
    BY <1>0, <2>1 DEF TypeOK
  <2> QED
    BY <2>1, <2>2, <2>3, QuietStep
<1>3. CASE Panic
  BY <1>0, <1>3, QuietStep DEF Panic, TypeOK
<1>4. CASE ForkFails \/ Spin \/ UNCHANGED vars
  BY <1>0, <1>4, QuietStep DEF ForkFails, Spin, vars, TypeOK
<1> QED
  BY <1>1, <1>2, <1>3, <1>4

\* The running process: its page table among the others.
LEMMA RunningFacts ==
  ASSUME IInv, Running
  PROVE  /\ current \in Pids /\ Table = ptable[current].pagetable /\ Table \in PageTables
         /\ TablesOf(ptable) \in [Pids -> PageTables] /\ TablesOf(ptable)[current] = Table
         /\ Good(mem, TablesOf(ptable)) /\ mem \in Memory /\ Rights(Table)
         /\ Whole(Table) /\ ptable[current].state = "RUNNABLE"
         /\ \A i \in Pids : TablesOf(ptable)[i] = ptable[i].pagetable
<1>1. /\ current \in Pids /\ ptable[current].state = "RUNNABLE"
      /\ Table = ptable[current].pagetable /\ Table \in PageTables
  BY DEF IInv, TypeOK, Running, Table
<1>2. /\ TablesOf(ptable) \in [Pids -> PageTables] /\ TablesOf(ptable)[current] = Table
      /\ \A i \in Pids : TablesOf(ptable)[i] = ptable[i].pagetable
  BY <1>1, TablesType DEF IInv, TypeOK
<1>3. Good(mem, TablesOf(ptable)) /\ mem \in Memory /\ Rights(Table)
  BY <1>1, <1>2 DEF IInv, Good
<1>4. Whole(Table)
  BY <1>1 DEF IInv, ProcInv
<1> QED
  BY <1>1, <1>2, <1>3, <1>4

\* A store changes a page that only the running process has.
LEMMA StoreStep ==
  ASSUME IInv, NEW va \in Vas, Store(va)
  PROVE  IInv' /\ Isolated
<1> DEFINE p == Table.map[va].pa
           T == TablesOf(ptable)
<1>1. /\ Running /\ Table.map[va].w /\ mem' = Fill(mem, p, 1)
      /\ UNCHANGED <<ptable, current, spinning>>
  BY DEF Store
<1>2. /\ current \in Pids /\ Table \in PageTables /\ mem \in Memory
      /\ T \in [Pids -> PageTables] /\ T[current] = Table
      /\ Good(mem, T) /\ Rights(Table) /\ \A i \in Pids : T[i] = ptable[i].pagetable
  BY <1>1, RunningFacts
<1>3. va # "code" /\ p # 0 /\ va \in Slots /\ Page(T[current], va) = p /\ p \in Pages
  <2>1. Table.map[va] # NoEntry
    BY <1>1 DEF NoEntry
  <2>2. va # "code" /\ p # 0
    BY <1>1, <1>2, <2>1 DEF Rights
  <2>3. va \in Slots /\ Page(Table, va) = p /\ p \in Pages
    BY <1>2, <2>2, SlotType
  <2> QED
    BY <1>2, <2>2, <2>3
<1>4. /\ mem' \in Memory /\ mem'.refcount = mem.refcount
      /\ \A q \in Pages : mem'.data[q] = IF q = p THEN 1 ELSE mem.data[q]
  BY <1>1, <1>2, <1>3 DEF Fill, Memory
<1>5. IInv'
  <2>1. Good(mem', T)
    BY <1>2, <1>4, SameCounts
  <2>2. T' = T
    BY <1>1
  <2>3. TypeOK' /\ ProcInv'
    BY <1>1 DEF IInv, TypeOK, ProcInv
  <2> QED
    BY <2>1, <2>2, <2>3 DEF IInv
<1>6. ASSUME NEW i \in Pids \ {current} PROVE View(i)' = View(i)
  <2>1. ASSUME NEW v \in Vas, ptable[i].pagetable.map[v] # NoEntry
        PROVE  mem'.data[ptable[i].pagetable.map[v].pa] = mem.data[ptable[i].pagetable.map[v].pa]
    <3>1. v \in Slots /\ Page(T[i], v) = ptable[i].pagetable.map[v].pa /\ Page(T[i], v) \in Pages
      BY <1>2, <2>1, SlotType, MappedIsUsed
    <3>2. Page(T[current], va) # 0 /\ Page(T[current], va) = Page(T[i], v) => va = v /\ (current = i \/ va = "code")
      BY <1>2, <1>3, <3>1 DEF Good, Apart
    <3>3. Page(T[i], v) # p
      BY <1>3, <3>2
    <3> QED
      BY <1>4, <3>1, <3>3
  <2> QED
    BY <1>1, <2>1, ViewStays
<1>7. Isolated
  BY <1>1, <1>6 DEF Isolated, IInv, ProcInv, TypeOK
<1> QED
  BY <1>5, <1>7

\* sys_page_alloc gives the running process a page that was nobody's, or loses it.
LEMMA PageAllocStep ==
  ASSUME DataOnly, IInv, NEW va \in Vas, PageAlloc(va)
  PROVE  IInv' /\ Isolated
<1> DEFINE T == TablesOf(ptable)
           a == kalloc(mem)
           m2 == Fill(a.m, a.pa, 0)
           w == va # "code"
           b == try_map(m2, Table, va, a.pa, w)
<1>1. /\ Running /\ va \in AllocAt /\ UNCHANGED <<current, spinning>>
      /\ IF a.pa = 0 THEN UNCHANGED <<mem, ptable>>
         ELSE /\ mem' = try_map(m2, Table, va, a.pa, TRUE).m
              /\ ptable' = [ptable EXCEPT ![current].pagetable = try_map(m2, Table, va, a.pa, TRUE).pt]
  BY DEF PageAlloc
<1>2. w = TRUE /\ va # "code"
  BY <1>1 DEF DataOnly
<1>3. /\ current \in Pids /\ Table \in PageTables /\ T \in [Pids -> PageTables] /\ T[current] = Table
      /\ Good(mem, T) /\ Whole(Table) /\ ptable[current].state = "RUNNABLE"
      /\ \A i \in Pids : T[i] = ptable[i].pagetable
  BY <1>1, RunningFacts
<1>4. CASE a.pa = 0
  BY <1>1, <1>4, SchedulerStep DEF vars
<1>5. CASE a.pa # 0
  <2>1. mem' = b.m /\ ptable' = [ptable EXCEPT ![current].pagetable = b.pt]
    <3> HIDE DEF w, a, m2
    <3> QED
      BY <1>1, <1>2, <1>5
  <2>2. With(T, current, Table) = T
    BY <1>3 DEF With
  <2>3. /\ a.pa \in Pages /\ Good(m2, T) /\ Kept(mem, m2) /\ m2.refcount[a.pa] = 1 /\ Loose(T, a.pa)
    BY <1>3, <1>5, KallocFill
  <2>4. m2 \in Memory
    BY <2>3 DEF Good
  <2>a. Good(m2, With(T, current, Table)) /\ Loose(With(T, current, Table), a.pa)
    BY <2>2, <2>3
  <2>b. va = "code" => Table.map[va].pa = 0
    BY <1>2
  <2> HIDE DEF a, m2, T
  <2>5. /\ GoodBuild(b, T, current) /\ Kept(m2, b.m)
        /\ \A l \in Levels : Table.tables[l] # 0 => b.pt.tables[l] # 0
        /\ \A v \in Vas : v # va => b.pt.map[v] = Table.map[v]
        /\ b.pt.map[va] \in {Table.map[va], [pa |-> a.pa, w |-> w]}
    <3> DEFINE p == a.pa
    <3>1. /\ p \in Pages /\ m2.refcount[p] = 1 /\ Loose(With(T, current, Table), p)
          /\ Good(m2, With(T, current, Table)) /\ m2 \in Memory /\ Table \in PageTables
          /\ current \in Pids /\ T \in [Pids -> PageTables]
      BY <1>3, <2>3, <2>4, <2>a
    <3> HIDE DEF p
    <3>2. LET t == try_map(m2, Table, va, p, va # "code") IN
          /\ GoodBuild(t, T, current) /\ Kept(m2, t.m)
          /\ \A l \in Levels : Table.tables[l] # 0 => t.pt.tables[l] # 0
          /\ \A v \in Vas : v # va => t.pt.map[v] = Table.map[v]
          /\ IF t.ok THEN t.pt.map[va] = [pa |-> p, w |-> va # "code"] ELSE t.pt.map[va] = Table.map[va]
      BY <3>1, <2>b, MapPage, SMTT(60)
    <3> DEFINE t == try_map(m2, Table, va, p, w)
    <3>3. b = t
      BY DEF p
    <3>4. /\ GoodBuild(t, T, current) /\ Kept(m2, t.m)
          /\ \A l \in Levels : Table.tables[l] # 0 => t.pt.tables[l] # 0
          /\ \A v \in Vas : v # va => t.pt.map[v] = Table.map[v]
          /\ IF t.ok THEN t.pt.map[va] = [pa |-> p, w |-> w] ELSE t.pt.map[va] = Table.map[va]
      BY <3>2
    <3>5. t.pt.map[va] \in {Table.map[va], [pa |-> p, w |-> w]}
      <4> HIDE DEF t, w
      <4> QED
        BY <3>4
    <3> HIDE DEF t, b, w
    <3> QED
      BY <3>3, <3>4, <3>5 DEF p
  <2>c. ASSUME b.pt \in PageTables PROVE Whole(b.pt)
    <3>1. \A l \in Levels \ {"far"} : b.pt.tables[l] # 0
      <4> HIDE DEF b
      <4> QED
        BY <1>3, <2>5 DEF Whole
    <3>2. Table.map["stack"] # NoEntry /\ "stack" \in Vas
      BY <1>3 DEF Whole, Vas, Below
    <3>3. [pa |-> a.pa, w |-> w].pa = a.pa /\ a.pa # 0
      BY <2>3, Constants
    <3>4. [pa |-> a.pa, w |-> w] # NoEntry
      BY <3>3 DEF NoEntry
    <3>5. b.pt.map["stack"] # NoEntry
      <4> DEFINE e == [pa |-> a.pa, w |-> w]
      <4>1. \A v \in Vas : v # va => b.pt.map[v] = Table.map[v]
        BY <2>5
      <4>2. b.pt.map[va] \in {Table.map[va], e}
        BY <2>5
      <4> HIDE DEF b, e
      <4> QED
        BY <3>2, <3>4, <4>1, <4>2 DEF e
    <3> QED
      BY <3>1, <3>5 DEF Whole
  <2> HIDE DEF b
  <2>6. b.pt \in PageTables /\ Good(mem', With(T, current, b.pt)) /\ Whole(b.pt)
    BY <2>1, <2>5, <2>c DEF GoodBuild
  <2>7. /\ ptable' \in [Pids -> [state : {"FREE", "RUNNABLE", "FAULTED"}, pagetable : PageTables]]
        /\ \A i \in Pids :
             /\ ptable'[i].state = ptable[i].state
             /\ ptable'[i].pagetable = IF i = current THEN b.pt ELSE ptable[i].pagetable
    BY <1>3, <2>1, <2>6 DEF IInv, TypeOK
  <2>8. TablesOf(ptable') = With(T, current, b.pt)
    <3>1. \A i \in Pids : With(T, current, b.pt)[i] = IF i = current THEN b.pt ELSE T[i]
      BY <1>3, <2>6, WithType
    <3>2. With(T, current, b.pt) = [i \in Pids |-> With(T, current, b.pt)[i]]
      BY <1>3, <2>6, WithType
    <3>3. TablesOf(ptable') = [i \in Pids |-> ptable'[i].pagetable]
      BY DEF TablesOf
    <3>4. \A i \in Pids : ptable'[i].pagetable = With(T, current, b.pt)[i]
      BY <1>3, <2>7, <3>1
    <3> HIDE DEF With
    <3> QED
      BY <3>2, <3>3, <3>4, Zenon
  <2>9. IInv'
    <3>1. TypeOK'
      BY <1>1, <2>7 DEF IInv, TypeOK
    <3>2. ProcInv'
      BY <1>3, <2>6, <2>7, Constants DEF IInv, ProcInv
    <3> QED
      BY <2>6, <2>8, <3>1, <3>2 DEF IInv
  <2>10. Kept(mem, mem')
    BY <2>1, <2>3, <2>5, KeptTransitive
  <2>11. \A i \in Pids \ {current} : View(i)' = View(i)
    BY <2>7, <2>10, KeptIsIsolated
  <2>12. Isolated
    BY <2>7, <2>11 DEF Isolated
  <2> QED
    BY <2>9, <2>12
<1> QED
  BY <1>4, <1>5

\* sys_page_alloc of an address that panics loses a page that was nobody's.
LEMMA PanicAllocStep ==
  ASSUME IInv, PageAllocPanics
  PROVE  IInv' /\ Isolated
<1> DEFINE T == TablesOf(ptable)
           a == kalloc(mem)
<1>1. /\ Running /\ a.pa # 0 /\ mem' = Fill(a.m, a.pa, 0) /\ spinning' = TRUE
      /\ UNCHANGED <<ptable, current>>
  BY DEF PageAllocPanics
<1>2. Good(mem, T)
  BY DEF IInv
<1>3. Good(mem', T) /\ Kept(mem, mem')
  BY <1>1, <1>2, KallocFill
<1>4. IInv'
  <2>1. TypeOK' /\ ProcInv'
    BY <1>1 DEF IInv, TypeOK, ProcInv
  <2>2. TablesOf(ptable') = T
    BY <1>1
  <2> HIDE DEF T
  <2> QED
    BY <1>3, <2>1, <2>2 DEF IInv
<1>5. \A i \in Pids : View(i)' = View(i)
  BY <1>1, <1>3, KeptIsIsolated
<1>6. Isolated
  BY <1>1, <1>5 DEF Isolated, IInv, TypeOK
<1> QED
  BY <1>4, <1>6

\* Exit gives back the pages of the running process, and none of another.
LEMMA ExitStep ==
  ASSUME IInv, Exit
  PROVE  IInv' /\ Isolated
<1> DEFINE T == TablesOf(ptable)
           T2 == TablesOf(ptable')
<1>1. /\ Running /\ mem' = free_pagetable(mem, Table)
      /\ ptable' = [ptable EXCEPT ![current] = [state |-> "FREE", pagetable |-> NoTable]]
      /\ schedule(ptable')
  BY DEF Exit
<1>2. /\ current \in Pids /\ Table \in PageTables /\ T \in [Pids -> PageTables] /\ T[current] = Table
      /\ Good(mem, T) /\ ptable[current].state = "RUNNABLE"
      /\ \A i \in Pids : T[i] = ptable[i].pagetable
  BY <1>1, RunningFacts
<1>3. /\ ptable' \in [Pids -> [state : {"FREE", "RUNNABLE", "FAULTED"}, pagetable : PageTables]]
      /\ \A i \in Pids : i # current => ptable'[i] = ptable[i]
      /\ ptable'[current].state = "FREE" /\ ptable'[current].pagetable = NoTable
  BY <1>1, <1>2, NoTableType DEF IInv, TypeOK
<1>4. /\ T2 \in [Pids -> PageTables] /\ T2[current] = NoTable
      /\ \A i \in Pids : i # current => T2[i] = T[i]
      /\ \A i \in Pids : T2[i] = ptable'[i].pagetable
  BY <1>2, <1>3, TablesType
<1>5. current' \in Pids /\ spinning' \in BOOLEAN
  BY <1>1, ScheduleType DEF IInv, TypeOK
<1> HIDE DEF T, T2
<1>6. Good(mem', T2) /\ \A p \in Pages : ~Loose(T2, p) => mem'.data[p] = mem.data[p]
  <2>1. /\ Good(free_pagetable(mem, T[current]), T2)
        /\ \A p \in Pages : ~Loose(T2, p) => free_pagetable(mem, T[current]).data[p] = mem.data[p]
    BY <1>2, <1>4, FreeTable
  <2> QED
    BY <1>1, <1>2, <2>1
<1>7. IInv'
  <2>1. TypeOK'
    BY <1>3, <1>5 DEF TypeOK
  <2>2. ProcInv'
    BY <1>2, <1>3, Constants DEF IInv, ProcInv
  <2> QED
    BY <1>6, <2>1, <2>2 DEF IInv, T2
<1>8. ASSUME NEW i \in Pids \ {current} PROVE View(i)' = View(i)
  <2>1. ASSUME NEW v \in Vas, ptable[i].pagetable.map[v] # NoEntry
        PROVE  mem'.data[ptable[i].pagetable.map[v].pa] = mem.data[ptable[i].pagetable.map[v].pa]
    <3>1. T2[i] = ptable[i].pagetable
      BY <1>2, <1>4
    <3>2. T2[i].map[v].pa \in Pages /\ v \in Slots /\ Page(T2[i], v) = T2[i].map[v].pa
      BY <1>4, <1>6, <2>1, <3>1, MappedIsUsed, SlotType
    <3>3. ~Loose(T2, T2[i].map[v].pa)
      BY <3>2 DEF Loose
    <3> QED
      BY <1>6, <3>1, <3>2, <3>3
  <2> QED
    BY <1>3, <2>1, ViewStays
<1>9. Isolated
  BY <1>3, <1>8 DEF Isolated, IInv, ProcInv, TypeOK
<1> QED
  BY <1>7, <1>9

\* The first free process, that is not process 0.
LEMMA FreePid ==
  ASSUME NEW free, free = {i \in Pids \ {0} : ptable[i].state = "FREE"}, free # {},
         NEW pid, pid = CHOOSE i \in free : \A j \in free : i <= j
  PROVE  pid \in Pids /\ pid # 0 /\ ptable[pid].state = "FREE"
<1>1. free \in SUBSET Nat
  BY Constants
<1>2. pid \in free
  BY <1>1, LeastIsChosen
<1> QED
  BY <1>2

\* A fork either makes a child that finds what its parent finds, or gives back all it
\* has taken.
LEMMA ForkStep ==
  ASSUME IInv, Fork
  PROVE  IInv' /\ Isolated
<1> DEFINE T == TablesOf(ptable)
           free == {i \in Pids \ {0} : ptable[i].state = "FREE"}
           pid == CHOOSE i \in free : \A j \in free : i <= j
           n == NewTable(mem)
           b == CopyPages(n)
<1>1. /\ Running /\ free # {} /\ kalloc(mem).pa # 0 /\ UNCHANGED <<current, spinning>>
      /\ IF b.ok THEN /\ mem' = b.m
                      /\ ptable' = [ptable EXCEPT ![pid] = [state |-> "RUNNABLE", pagetable |-> b.pt]]
         ELSE mem' = free_pagetable(b.m, b.pt) /\ UNCHANGED ptable
  BY DEF Fork
<1>2. /\ current \in Pids /\ Table \in PageTables /\ T \in [Pids -> PageTables] /\ T[current] = Table
      /\ Good(mem, T) /\ ptable[current].state = "RUNNABLE" /\ Whole(Table)
      /\ \A i \in Pids : T[i] = ptable[i].pagetable
  BY <1>1, RunningFacts
<1>3. pid \in Pids /\ pid # 0 /\ ptable[pid].state = "FREE" /\ pid # current
  <2>1. pid \in Pids /\ pid # 0 /\ ptable[pid].state = "FREE"
    BY <1>1, FreePid
  <2> HIDE DEF pid
  <2> QED
    BY <1>2, <2>1
<1> HIDE DEF pid, free, T
<1>4. T[pid] = NoTable
  BY <1>2, <1>3 DEF IInv, ProcInv
<1>5. GoodBuild(n, T, pid) /\ Kept(mem, n.m) /\ \A v \in Vas : n.pt.map[v] = NoEntry
  BY <1>2, <1>3, <1>4, NewTableStep
<1>a. b.ok /\ Table.map["stack"] # NoEntry => \A l \in Levels \ {"far"} : b.pt.tables[l] # 0
  BY <1>2, <1>3, <1>4, ForkTakes
<1> HIDE DEF n
<1>6. /\ GoodBuild(b, T, pid) /\ Kept(n.m, b.m)
      /\ b.ok => \A v \in Below : Copied(b, Table.map[v], v)
  BY <1>2, <1>3, <1>5, CopyPagesStep
<1> HIDE DEF b
<1>7. Kept(mem, b.m)
  BY <1>5, <1>6, KeptTransitive
<1>8. /\ b.m \in Memory /\ b.pt \in PageTables /\ Good(b.m, With(T, pid, b.pt))
      /\ With(T, pid, b.pt)[pid] = b.pt /\ \A j \in Pids : j # pid => With(T, pid, b.pt)[j] = T[j]
      /\ With(T, pid, b.pt) \in [Pids -> PageTables]
  <2>1. /\ b.m \in Memory /\ b.pt \in PageTables /\ Good(b.m, With(T, pid, b.pt))
        /\ With(T, pid, b.pt)[pid] = b.pt /\ \A j \in Pids : j # pid => With(T, pid, b.pt)[j] = T[j]
    BY <1>2, <1>3, <1>6, BuildParts
  <2>2. With(T, pid, b.pt) \in [Pids -> PageTables]
    BY <1>2, <1>3, <2>1, WithType
  <2> QED
    BY <2>1, <2>2
<1>9. CASE b.ok
  <2>a. Whole(b.pt)
    <3>1. Table.map["stack"] # NoEntry /\ "stack" \in Below
      BY <1>2 DEF Whole, Below
    <3>2. b.pt.map["stack"].pa \in Pages
      BY <1>6, <1>9, <3>1 DEF Copied
    <3> QED
      BY <1>9, <1>a, <3>1, <3>2, Constants DEF Whole, NoEntry
  <2>1. mem' = b.m /\ ptable' = [ptable EXCEPT ![pid] = [state |-> "RUNNABLE", pagetable |-> b.pt]]
    BY <1>1, <1>9
  <2>2. /\ ptable' \in [Pids -> [state : {"FREE", "RUNNABLE", "FAULTED"}, pagetable : PageTables]]
        /\ \A i \in Pids : i # pid => ptable'[i] = ptable[i]
        /\ ptable'[pid].state = "RUNNABLE" /\ ptable'[pid].pagetable = b.pt
    BY <1>3, <1>8, <2>1 DEF IInv, TypeOK
  <2>3. TablesOf(ptable') = With(T, pid, b.pt)
    <3>1. With(T, pid, b.pt) = [i \in Pids |-> With(T, pid, b.pt)[i]]
      BY <1>8
    <3>2. TablesOf(ptable') = [i \in Pids |-> ptable'[i].pagetable]
      BY DEF TablesOf
    <3>3. \A i \in Pids : ptable'[i].pagetable = With(T, pid, b.pt)[i]
      BY <1>2, <1>8, <2>2
    <3> HIDE DEF With
    <3> QED
      BY <3>1, <3>2, <3>3, Zenon
  <2>4. IInv'
    <3>1. TypeOK'
      BY <1>1, <2>2 DEF IInv, TypeOK
    <3>2. ProcInv'
      BY <1>3, <2>2, <2>a, Constants DEF IInv, ProcInv
    <3> QED
      BY <1>8, <2>1, <2>3, <3>1, <3>2 DEF IInv
  <2>5. \A i \in Pids : i # pid => View(i)' = View(i)
    BY <1>7, <2>1, <2>2, KeptIsIsolated
  <2>6. ASSUME NEW i \in Pids, i = pid PROVE \A v \in Below : View(i)'[v] = View(current)[v]
    <3>0. Below \subseteq Vas
      BY DEF Vas
    <3>1. ASSUME NEW v \in Below
          PROVE  (IF ptable'[i].pagetable.map[v] = NoEntry THEN <<>>
                  ELSE <<mem'.data[ptable'[i].pagetable.map[v].pa], ptable'[i].pagetable.map[v].w>>)
                 = (IF Table.map[v] = NoEntry THEN <<>>
                    ELSE <<mem.data[Table.map[v].pa], Table.map[v].w>>)
      <4>1. Copied(b, Table.map[v], v)
        BY <1>6, <1>9
      <4>2. CASE Table.map[v] = NoEntry
        BY <2>2, <2>6, <4>1, <4>2 DEF Copied
      <4>3. CASE Table.map[v] # NoEntry
        <5>1. Table.map[v].pa \in Pages /\ mem.refcount[Table.map[v].pa] # 0
          BY <1>2, <3>0, <4>3, MappedIsUsed
        <5>2. b.m.data[Table.map[v].pa] = mem.data[Table.map[v].pa]
          BY <1>7, <5>1 DEF Kept
        <5>3. /\ b.pt.map[v].pa \in Pages /\ b.pt.map[v].w = Table.map[v].w
              /\ b.m.data[b.pt.map[v].pa] = b.m.data[Table.map[v].pa]
          BY <4>1, <4>3 DEF Copied
        <5>4. b.pt.map[v] # NoEntry
          BY <5>3, Constants DEF NoEntry
        <5> QED
          BY <2>1, <2>2, <2>6, <4>3, <5>2, <5>3, <5>4
      <4> QED
        BY <4>2, <4>3
    <3> QED
      BY <3>0, <3>1 DEF View, Table
  <2>7. Isolated
    BY <1>3, <2>2, <2>5, <2>6 DEF Isolated, IInv, ProcInv, TypeOK
  <2> QED
    BY <2>4, <2>7
<1>10. CASE ~b.ok
  <2>1. mem' = free_pagetable(b.m, b.pt) /\ ptable' = ptable
    BY <1>1, <1>10
  <2>2. /\ Good(mem', T) /\ \A p \in Pages : ~Loose(T, p) => mem'.data[p] = b.m.data[p]
    <3> DEFINE W == With(T, pid, b.pt)
    <3>1. /\ Good(b.m, W) /\ W[pid] = b.pt /\ \A j \in Pids : j # pid => T[j] = W[j]
      BY <1>8
    <3> HIDE DEF W
    <3>2. /\ Good(free_pagetable(b.m, W[pid]), T)
          /\ \A p \in Pages : ~Loose(T, p) => free_pagetable(b.m, W[pid]).data[p] = b.m.data[p]
      BY <1>2, <1>3, <1>4, <3>1, FreeTable
    <3> QED
      BY <2>1, <3>1, <3>2
  <2>3. IInv'
    <3>1. TypeOK' /\ ProcInv'
      BY <1>1, <2>1 DEF IInv, TypeOK, ProcInv
    <3>2. TablesOf(ptable') = T
      BY <2>1 DEF T
    <3> QED
      BY <2>2, <3>1, <3>2 DEF IInv
  <2>4. ASSUME NEW i \in Pids PROVE View(i)' = View(i)
    <3>1. ASSUME NEW v \in Vas, ptable[i].pagetable.map[v] # NoEntry
          PROVE  mem'.data[ptable[i].pagetable.map[v].pa] = mem.data[ptable[i].pagetable.map[v].pa]
      <4>1. /\ T[i] = ptable[i].pagetable
            /\ T[i].map[v].pa \in Pages /\ mem.refcount[T[i].map[v].pa] # 0
            /\ v \in Slots /\ Page(T[i], v) = T[i].map[v].pa
        BY <1>2, <3>1, MappedIsUsed, SlotType
      <4>2. ~Loose(T, T[i].map[v].pa)
        BY <4>1 DEF Loose
      <4> QED
        BY <1>7, <2>2, <4>1, <4>2 DEF Kept
    <3> QED
      BY <2>1, <3>1, ViewStays
  <2>5. Isolated
    BY <2>1, <2>4 DEF Isolated, IInv, TypeOK
  <2> QED
    BY <2>3, <2>5
<1> QED
  BY <1>9, <1>10

-----------------------------------------------------------------------------
(* Booting: the pages are handed out in order, and there are enough of them *)

FreeAbove(m, n) == \A p \in Pages : p > n => m.refcount[p] = 0

\* While pages are left, kalloc hands one out, and one page more is in use at most.
LEMMA KallocBoot ==
  ASSUME NEW m \in Memory, NEW n \in Nat, FreeAbove(m, n), n < NPages
  PROVE  kalloc(m).pa # 0 /\ FreeAbove(kalloc(m).m, n + 1)
<1>1. n + 1 \in Pages /\ m.refcount[n + 1] = 0
  BY Constants DEF FreeAbove, Pages
<1>2. kalloc(m).pa # 0
  BY <1>1, KallocNothing
<1> DEFINE a == kalloc(m)
<1>3. /\ a.pa \in Pages /\ a.pa <= n + 1
      /\ \A q \in Pages : a.m.refcount[q] = IF q = a.pa THEN 1 ELSE m.refcount[q]
  BY <1>1, <1>2, KallocPage
<1> HIDE DEF a
<1>4. FreeAbove(a.m, n + 1)
  BY <1>3, Constants DEF FreeAbove, Pages
<1> QED
  BY <1>2, <1>4 DEF a

\* A level of a page table is there afterwards; where it is there before, nothing happens.
LEMMA GrowBoot ==
  ASSUME NEW b, b.m \in Memory, b.ok, NEW level \in Levels, NEW n \in Nat, FreeAbove(b.m, n), n < NPages,
         b.pt \in PageTables
  PROVE  LET d == Grow(b, level) IN
         /\ d.ok /\ d.pt.tables[level] # 0 /\ FreeAbove(d.m, n + 1)
         /\ b.pt.tables[level] # 0 => d = b
<1>1. kalloc(b.m).pa # 0 /\ FreeAbove(kalloc(b.m).m, n + 1)
  BY KallocBoot
<1>2. CASE b.pt.tables[level] # 0
  <2>1. Grow(b, level) = b
    BY <1>2 DEF Grow
  <2>2. FreeAbove(b.m, n + 1)
    BY Constants DEF FreeAbove, Pages
  <2> QED
    BY <1>2, <2>1, <2>2
<1>3. CASE b.pt.tables[level] = 0
  <2>1. Grow(b, level) = [m |-> kalloc(b.m).m, pt |-> WithTable(b.pt, level, kalloc(b.m).pa), ok |-> TRUE]
    BY <1>1, <1>3 DEF Grow
  <2>2. WithTable(b.pt, level, kalloc(b.m).pa).tables[level] = kalloc(b.m).pa
    BY DEF WithTable, PageTables
  <2> QED
    BY <1>1, <1>3, <2>1, <2>2
<1> QED
  BY <1>2, <1>3

\* A build at boot: good, with room for what is still to come.
BootBuild(b, T, c, n) == GoodBuild(b, T, c) /\ b.ok /\ FreeAbove(b.m, n)

\* A level that is missing takes one page.
LEMMA GrowBootStep ==
  ASSUME NEW T \in [Pids -> PageTables], NEW c \in Pids, NEW n \in Nat, n < NPages,
         NEW b, BootBuild(b, T, c, n), NEW level \in Levels
  PROVE  LET d == Grow(b, level) IN
         /\ BootBuild(d, T, c, n + 1) /\ d.pt.map = b.pt.map
         /\ d.pt.tables[level] # 0 /\ \A l \in Levels : b.pt.tables[l] # 0 => d.pt.tables[l] # 0
<1> DEFINE d == Grow(b, level)
<1>1. GoodBuild(d, T, c) /\ Grown(b, d)
  BY GrowStep DEF BootBuild
<1>2. d.ok /\ d.pt.tables[level] # 0 /\ FreeAbove(d.m, n + 1)
  BY GrowBoot DEF BootBuild, GoodBuild
<1> HIDE DEF d
<1>3. d.pt.map = b.pt.map /\ \A l \in Levels : b.pt.tables[l] # 0 => d.pt.tables[l] # 0
  BY <1>1 DEF Grown
<1> QED
  BY <1>1, <1>2, <1>3 DEF BootBuild, d

\* The page table of a process takes four pages.
LEMMA NewTableBoot ==
  ASSUME NEW T \in [Pids -> PageTables], NEW c \in Pids, T[c] = NoTable, NEW m, Good(m, T),
         NEW n \in Nat, n + 4 <= NPages, FreeAbove(m, n)
  PROVE  LET b == NewTable(m) IN
         /\ BootBuild(b, T, c, n + 4)
         /\ \A v \in Vas : b.pt.map[v] = NoEntry
         /\ \A l \in {"root", "level3", "level2", "low"} : b.pt.tables[l] # 0
<1> DEFINE b == NewTable(m)
           a == kalloc(m)
           b0 == [m |-> a.m, pt |-> WithTable(NoTable, "root", a.pa), ok |-> TRUE]
           b1 == Grow(b0, "level3")
           b2 == Grow(b1, "level2")
           b3 == Grow(b2, "low")
<1>0. m \in Memory /\ "root" \in Levels /\ "level3" \in Levels /\ "level2" \in Levels /\ "low" \in Levels
  BY DEF Good, Levels
<1>a. /\ n < NPages /\ n + 1 \in Nat /\ n + 1 < NPages
      /\ n + 1 + 1 \in Nat /\ n + 1 + 1 < NPages
      /\ n + 1 + 1 + 1 \in Nat /\ n + 1 + 1 + 1 < NPages
  BY Constants
<1>1. a.pa # 0 /\ FreeAbove(a.m, n + 1)
  BY <1>0, <1>a, KallocBoot
<1>2. GoodBuild(b, T, c) /\ (\A v \in Vas : b.pt.map[v] = NoEntry) /\ b.pt.tables["root"] # 0
  BY <1>1, NewTableStep
<1>3. b = b3
  BY <1>1 DEF NewTable, Descend
<1>4. GoodBuild(b0, T, c) /\ b0.ok /\ b0.m = a.m /\ b0.pt.tables["root"] # 0
  <2>1. a.pa \in Pages /\ Good(a.m, T) /\ a.m.refcount[a.pa] = 1 /\ Loose(T, a.pa) /\ a.m \in Memory
    BY <1>0, <1>1, KallocGood, KallocPage
  <2> HIDE DEF a
  <2> DEFINE pt == WithTable(NoTable, "root", a.pa)
  <2>2. /\ pt \in PageTables /\ pt.map = NoTable.map /\ pt.tables["root"] = a.pa
        /\ \A s \in Slots : Page(pt, s) = IF s = "root" THEN a.pa ELSE Page(NoTable, s)
    BY <1>0, <2>1, NoTableType, WithSlots
  <2> HIDE DEF pt
  <2>3. Good(a.m, With(T, c, pt))
    <3>1. /\ With(T, c, pt)[c] = pt /\ With(T, c, pt) \in [Pids -> PageTables]
          /\ \A j \in Pids : j # c => With(T, c, pt)[j] = T[j]
      BY <2>2, WithType
    <3>2. Rights(pt)
      BY <2>2, NoTableType DEF Rights
    <3>3. "root" \in Slots /\ "root" # "code"
      BY DEF Slots, Levels
    <3> HIDE DEF With
    <3> QED
      BY <2>1, <2>2, <3>1, <3>2, <3>3, Install
  <2> QED
    BY <1>1, <2>1, <2>2, <2>3 DEF GoodBuild, pt
<1>5. BootBuild(b0, T, c, n + 1)
  BY <1>1, <1>4 DEF BootBuild
<1> HIDE DEF a, b, b0
<1>6. /\ BootBuild(b1, T, c, n + 1 + 1) /\ b1.pt.tables["level3"] # 0
      /\ \A l \in Levels : b0.pt.tables[l] # 0 => b1.pt.tables[l] # 0
  BY <1>0, <1>5, <1>a, GrowBootStep, SMTT(60)
<1> HIDE DEF b1
<1>7. /\ BootBuild(b2, T, c, n + 1 + 1 + 1) /\ b2.pt.tables["level2"] # 0
      /\ \A l \in Levels : b1.pt.tables[l] # 0 => b2.pt.tables[l] # 0
  BY <1>0, <1>6, <1>a, GrowBootStep, SMTT(60)
<1> HIDE DEF b2
<1>8. /\ BootBuild(b3, T, c, n + 1 + 1 + 1 + 1) /\ b3.pt.tables["low"] # 0
      /\ \A l \in Levels : b2.pt.tables[l] # 0 => b3.pt.tables[l] # 0
  BY <1>0, <1>7, <1>a, GrowBootStep, SMTT(60)
<1> HIDE DEF b3
<1>9. n + 1 + 1 + 1 + 1 = n + 4
  OBVIOUS
<1>10. BootBuild(b, T, c, n + 4)
  BY <1>3, <1>8, <1>9
<1>11. \A l \in {"root", "level3", "level2", "low"} : b.pt.tables[l] # 0
  BY <1>0, <1>3, <1>4, <1>6, <1>7, <1>8
<1> QED
  BY <1>2, <1>10, <1>11 DEF b

\* The tables on the way to a last level take one page at most, when those above it are
\* there, and none when it is there too.
LEMMA DescendBoot ==
  ASSUME NEW T \in [Pids -> PageTables], NEW c \in Pids, NEW n \in Nat, n < NPages,
         NEW b, BootBuild(b, T, c, n), NEW level \in {"low", "high"},
         b.pt.tables["level3"] # 0, b.pt.tables["level2"] # 0
  PROVE  LET d == Descend(b, level) IN
         /\ BootBuild(d, T, c, n + 1)
         /\ d.pt.tables[level] # 0 /\ \A l \in Levels : b.pt.tables[l] # 0 => d.pt.tables[l] # 0
         /\ b.pt.tables[level] # 0 => d = b
<1>0. "level3" \in Levels /\ "level2" \in Levels /\ level \in Levels
  BY DEF Levels
<1>1. Grow(b, "level3") = b /\ Grow(b, "level2") = b /\ (b.pt.tables[level] # 0 => Grow(b, level) = b)
  BY DEF Grow
<1>2. Descend(b, level) = Grow(b, level)
  BY <1>1 DEF Descend
<1> QED
  BY <1>0, <1>1, <1>2, GrowBootStep

\* A page of the program or the stack of a process, with the table that it may need.
LEMMA LoadPageBoot ==
  ASSUME NEW T \in [Pids -> PageTables], NEW c \in Pids, NEW n \in Nat,
         NEW b, BootBuild(b, T, c, n), NEW va \in Vas, va # "beyond", b.pt.map[va] = NoEntry,
         \A l \in {"root", "level3", "level2", "low"} : b.pt.tables[l] # 0,
         n + (IF va = "stack" THEN 2 ELSE 1) <= NPages
  PROVE  LET t == LoadPage(b, va) IN
         /\ BootBuild(t, T, c, n + (IF va = "stack" THEN 2 ELSE 1))
         /\ \A l \in {"root", "level3", "level2", "low"} : t.pt.tables[l] # 0
         /\ \A v \in Vas : v # va => t.pt.map[v] = b.pt.map[v]
         /\ t.pt.map[va] # NoEntry /\ t.pt.tables[LastLevel(va)] # 0
<1> DEFINE a == kalloc(b.m)
           p == a.pa
           m2 == IF va = "stack" THEN a.m ELSE Fill(a.m, p, 0)
           t == try_map(m2, b.pt, va, p, va # "code")
           b0 == [m |-> m2, pt |-> b.pt, ok |-> TRUE]
           d == Descend(b0, LastLevel(va))
<1>0. /\ b.m \in Memory /\ b.pt \in PageTables /\ Good(b.m, With(T, c, b.pt)) /\ n < NPages
      /\ {"root", "level3", "level2", "low"} \subseteq Levels
      /\ LastLevel(va) = IF va = "stack" THEN "high" ELSE "low"
  BY Constants DEF BootBuild, GoodBuild, Levels, LastLevel
<1>1. p # 0 /\ FreeAbove(a.m, n + 1)
  BY <1>0, KallocBoot DEF BootBuild
<1>2. /\ p \in Pages /\ Good(m2, With(T, c, b.pt)) /\ m2.refcount[p] = 1 /\ Loose(With(T, c, b.pt), p)
      /\ FreeAbove(m2, n + 1)
  <2>1. CASE va = "stack"
    <3>1. m2 = a.m
      BY <2>1
    <3> QED
      BY <1>0, <1>1, <3>1, KallocGood, KallocPage
  <2>2. CASE va # "stack"
    <3> DEFINE f == Fill(a.m, p, 0)
    <3>1. m2 = f
      BY <2>2
    <3>2. /\ p \in Pages /\ Good(f, With(T, c, b.pt)) /\ f.refcount[p] = 1 /\ Loose(With(T, c, b.pt), p)
      BY <1>0, <1>1, KallocFill
    <3>3. f.refcount = a.m.refcount
      BY DEF Fill
    <3>4. FreeAbove(f, n + 1)
      BY <1>1, <3>3 DEF FreeAbove
    <3> HIDE DEF m2, f
    <3> QED
      BY <3>1, <3>2, <3>4
  <2> QED
    BY <2>1, <2>2
<1>3. LoadPage(b, va) = t
  BY DEF LoadPage
<1> HIDE DEF a, p, m2
<1>4. m2 \in Memory /\ b.pt.map[va].pa = 0
  BY <1>2 DEF Good, NoEntry
<1>5. /\ GoodBuild(t, T, c) /\ \A v \in Vas : v # va => t.pt.map[v] = b.pt.map[v]
      /\ t.ok => t.pt.map[va] # NoEntry
  <2>1. /\ p \in Pages /\ Good(m2, With(T, c, b.pt)) /\ m2.refcount[p] = 1 /\ Loose(With(T, c, b.pt), p)
        /\ m2 \in Memory /\ b.pt \in PageTables /\ (va = "code" => b.pt.map[va].pa = 0)
    BY <1>0, <1>2, <1>4
  <2>2. LET r == try_map(m2, b.pt, va, p, va # "code") IN
        /\ GoodBuild(r, T, c) /\ \A v \in Vas : v # va => r.pt.map[v] = b.pt.map[v]
        /\ r.ok => r.pt.map[va] # NoEntry
    <3> HIDE DEF b0, d
    <3>1. LET r == try_map(m2, b.pt, va, p, va # "code") IN
          /\ GoodBuild(r, T, c) /\ Kept(m2, r.m)
          /\ \A l \in Levels : b.pt.tables[l] # 0 => r.pt.tables[l] # 0
          /\ \A v \in Vas : v # va => r.pt.map[v] = b.pt.map[v]
          /\ IF r.ok THEN r.pt.map[va] = [pa |-> p, w |-> va # "code"] ELSE r.pt.map[va] = b.pt.map[va]
      BY <2>1, MapPage, ZenonT(60)
    <3>2. [pa |-> p, w |-> va # "code"] # NoEntry
      BY <2>1, Constants DEF NoEntry
    <3> QED
      BY <3>1, <3>2, ZenonT(60)
  <2> QED
    BY <2>2
<1>6. t.ok = d.ok /\ t.m = d.m /\ t.pt.tables = d.pt.tables
  <2>1. t = IF d.ok THEN [m |-> d.m, pt |-> WithEntry(d.pt, va, [pa |-> p, w |-> va # "code"]), ok |-> TRUE] ELSE d
    BY DEF try_map
  <2>2. d.ok \in BOOLEAN
    <3>1. GoodBuild(b0, T, c)
      BY <1>0, <1>2, <1>4 DEF GoodBuild
    <3>2. LastLevel(va) \in {"low", "high"}
      BY <1>0
    <3> HIDE DEF b0
    <3> QED
      BY <3>1, <3>2, DescendStep DEF GoodBuild
  <2>3. \A e : WithEntry(d.pt, va, e).tables = d.pt.tables
    BY DEF WithEntry
  <2> HIDE DEF d, t
  <2>4. CASE d.ok
    <3> DEFINE e == [pa |-> p, w |-> va # "code"]
    <3>1. t = [m |-> d.m, pt |-> WithEntry(d.pt, va, e), ok |-> TRUE]
      BY <2>1, <2>4
    <3>2. t.m = d.m /\ t.pt = WithEntry(d.pt, va, e) /\ t.ok = TRUE
      <4> HIDE DEF e
      <4> QED
        BY <3>1
    <3>3. WithEntry(d.pt, va, e).tables = d.pt.tables
      <4> HIDE DEF e
      <4> QED
        BY <2>3
    <3> HIDE DEF e
    <3> QED
      BY <2>2, <2>4, <3>2, <3>3
  <2>5. CASE ~d.ok
    BY <2>1, <2>5
  <2> QED
    BY <2>4, <2>5
<1> HIDE DEF t
<1>7. BootBuild(b0, T, c, n + 1) /\ b0.pt = b.pt
  BY <1>0, <1>2, <1>4 DEF BootBuild, GoodBuild
<1>8. /\ d.ok /\ FreeAbove(d.m, n + (IF va = "stack" THEN 2 ELSE 1))
      /\ d.pt.tables[LastLevel(va)] # 0 /\ \A l \in Levels : b.pt.tables[l] # 0 => d.pt.tables[l] # 0
  <2> HIDE DEF b0
  <2>1. CASE va = "stack"
    <3>1. n + 1 < NPages /\ n + 1 \in Nat /\ n + 1 + 1 = n + 2 /\ LastLevel(va) \in {"low", "high"}
      BY <1>0, <2>1, Constants
    <3>2. /\ BootBuild(d, T, c, n + 1 + 1) /\ d.pt.tables[LastLevel(va)] # 0
          /\ \A l \in Levels : b0.pt.tables[l] # 0 => d.pt.tables[l] # 0
      BY <1>7, <3>1, DescendBoot
    <3> HIDE DEF d
    <3> QED
      BY <1>7, <2>1, <3>1, <3>2 DEF BootBuild
  <2>2. CASE va # "stack"
    <3>1. LastLevel(va) = "low" /\ b0.ok /\ b0.pt.tables["level3"] # 0 /\ b0.pt.tables["level2"] # 0 /\ b0.pt.tables["low"] # 0
      BY <1>0, <1>7, <2>2 DEF BootBuild
    <3>2. d = b0
      BY <3>1 DEF Descend, Grow
    <3> HIDE DEF d
    <3> QED
      BY <1>7, <2>2, <3>1, <3>2 DEF BootBuild
  <2> QED
    BY <2>1, <2>2
<1> HIDE DEF d, b0
<1>9. BootBuild(t, T, c, n + (IF va = "stack" THEN 2 ELSE 1))
  BY <1>5, <1>6, <1>8 DEF BootBuild
<1>10. \A l \in {"root", "level3", "level2", "low"} : t.pt.tables[l] # 0
  BY <1>0, <1>6, <1>8
<1>11. t.pt.map[va] # NoEntry /\ t.pt.tables[LastLevel(va)] # 0
  BY <1>5, <1>6, <1>8
<1> QED
  BY <1>3, <1>5, <1>9, <1>10, <1>11

\* A process that is set up takes eight pages.
LEMMA ProcessSetupBoot ==
  ASSUME NEW T \in [Pids -> PageTables], NEW c \in Pids, T[c] = NoTable, NEW m, Good(m, T),
         NEW n \in Nat, n + 8 <= NPages, FreeAbove(m, n)
  PROVE  LET b == process_setup(m) IN
         BootBuild(b, T, c, n + 8) /\ Whole(b.pt)
<1> DEFINE b1 == NewTable(m)
           b2 == LoadPage(b1, "code")
           b3 == LoadPage(b2, "data")
           b4 == LoadPage(b3, "stack")
           Low == {"root", "level3", "level2", "low"}
<1>0. /\ "code" \in Vas /\ "data" \in Vas /\ "stack" \in Vas
      /\ n + 4 <= NPages /\ n + 4 \in Nat /\ n + 4 + 1 <= NPages /\ n + 4 + 1 \in Nat
      /\ n + 4 + 1 + 1 \in Nat /\ n + 4 + 1 + 1 <= NPages
      /\ n + 4 + 1 + 1 + 2 <= NPages /\ n + 4 + 1 + 1 + 2 = n + 8
  BY Constants DEF Vas, Below
<1>1. /\ BootBuild(b1, T, c, n + 4)
      /\ \A v \in Vas : b1.pt.map[v] = NoEntry
      /\ \A l \in Low : b1.pt.tables[l] # 0
  BY <1>0, NewTableBoot
<1> HIDE DEF b1
<1>2. /\ BootBuild(b2, T, c, n + 4 + 1)
      /\ \A l \in Low : b2.pt.tables[l] # 0
      /\ \A v \in Vas : v # "code" => b2.pt.map[v] = b1.pt.map[v]
  <2> DEFINE k == n + 4
  <2>1. k \in Nat /\ k + (IF "code" = "stack" THEN 2 ELSE 1) <= NPages /\ BootBuild(b1, T, c, k)
    BY <1>0, <1>1
  <2>2. k + (IF "code" = "stack" THEN 2 ELSE 1) = k + 1
    OBVIOUS
  <2> HIDE DEF k
  <2>3. /\ BootBuild(b2, T, c, k + (IF "code" = "stack" THEN 2 ELSE 1))
        /\ \A l \in Low : b2.pt.tables[l] # 0
        /\ \A v \in Vas : v # "code" => b2.pt.map[v] = b1.pt.map[v]
    BY <1>0, <1>1, <2>1, LoadPageBoot
  <2> QED
    BY <2>2, <2>3 DEF k
<1> HIDE DEF b2
<1>3. /\ BootBuild(b3, T, c, n + 4 + 1 + 1)
      /\ \A l \in Low : b3.pt.tables[l] # 0
      /\ \A v \in Vas : v # "data" => b3.pt.map[v] = b2.pt.map[v]
  <2> DEFINE k == n + 4 + 1
  <2>1. k \in Nat /\ k + (IF "data" = "stack" THEN 2 ELSE 1) <= NPages /\ BootBuild(b2, T, c, k)
    BY <1>0, <1>2
  <2>2. k + (IF "data" = "stack" THEN 2 ELSE 1) = k + 1
    OBVIOUS
  <2>a. b2.pt.map["data"] = NoEntry
    BY <1>0, <1>1, <1>2
  <2> HIDE DEF k
  <2>3. /\ BootBuild(b3, T, c, k + (IF "data" = "stack" THEN 2 ELSE 1))
        /\ \A l \in Low : b3.pt.tables[l] # 0
        /\ \A v \in Vas : v # "data" => b3.pt.map[v] = b2.pt.map[v]
    BY <1>0, <1>2, <2>1, <2>a, LoadPageBoot
  <2> QED
    BY <2>2, <2>3 DEF k
<1> HIDE DEF b3
<1>4. /\ BootBuild(b4, T, c, n + 4 + 1 + 1 + 2)
      /\ \A l \in Low : b4.pt.tables[l] # 0
      /\ b4.pt.map["stack"] # NoEntry /\ b4.pt.tables[LastLevel("stack")] # 0
  <2> DEFINE k == n + 4 + 1 + 1
  <2>1. k \in Nat /\ k + (IF "stack" = "stack" THEN 2 ELSE 1) <= NPages /\ BootBuild(b3, T, c, k)
    BY <1>0, <1>3
  <2>2. k + (IF "stack" = "stack" THEN 2 ELSE 1) = k + 2
    OBVIOUS
  <2>a. b3.pt.map["stack"] = NoEntry
    BY <1>0, <1>1, <1>2, <1>3
  <2> HIDE DEF k
  <2>3. /\ BootBuild(b4, T, c, k + (IF "stack" = "stack" THEN 2 ELSE 1))
        /\ \A l \in Low : b4.pt.tables[l] # 0
        /\ b4.pt.map["stack"] # NoEntry /\ b4.pt.tables[LastLevel("stack")] # 0
    BY <1>0, <1>3, <2>1, <2>a, LoadPageBoot
  <2> QED
    BY <2>2, <2>3 DEF k
<1> HIDE DEF b4
<1>5. BootBuild(b4, T, c, n + 8) /\ Whole(b4.pt)
  <2>1. Whole(b4.pt)
    BY <1>4 DEF Whole, Levels, LastLevel
  <2> QED
    BY <1>0, <1>4, <2>1
<1> QED
  BY <1>5 DEF b1, b2, b3, b4, process_setup

\* The machine while the processes below k have been set up.
Booted(s, k) ==
  /\ s.tab \in [Pids -> [state : {"FREE", "RUNNABLE", "FAULTED"}, pagetable : PageTables]]
  /\ Good(s.m, TablesOf(s.tab))
  /\ FreeAbove(s.m, 8 * (k - 1))
  /\ \A i \in Pids : IF s.tab[i].state = "FREE" THEN s.tab[i].pagetable = NoTable
                     ELSE Whole(s.tab[i].pagetable)
  /\ \A i \in Pids : i = 0 \/ i >= k => s.tab[i].state = "FREE"

\* Setting up a process of Boot, or passing over one that is not.
LEMMA SetUpBoot ==
  ASSUME NEW k \in 1 .. 4, NEW s, Booted(s, k)
  PROVE  Booted(SetUp(s, k), k + 1)
<1>1. CASE k \notin Boot
  <2>1. SetUp(s, k) = s
    BY <1>1 DEF SetUp
  <2>2. FreeAbove(s.m, 8 * (k + 1 - 1))
    <3>1. \A p \in Pages : p > 8 * (k + 1 - 1) => p > 8 * (k - 1)
      BY Constants
    <3> QED
      BY <3>1 DEF Booted, FreeAbove
  <2>3. \A i \in Pids : i = 0 \/ i >= k + 1 => s.tab[i].state = "FREE"
    <3>1. \A i \in Pids : i >= k + 1 => i >= k
      BY Constants
    <3> QED
      BY <3>1 DEF Booted
  <2> QED
    BY <2>1, <2>2, <2>3 DEF Booted
<1>2. CASE k \in Boot
  <2> DEFINE T == TablesOf(s.tab)
             b == process_setup(s.m)
             t == SetUp(s, k)
             n == 8 * (k - 1)
  <2>1. k \in Pids /\ k # 0 /\ n \in Nat /\ n + 8 <= NPages /\ n + 8 = 8 * (k + 1 - 1)
    BY <1>2, KernelAssumption DEF Pids
  <2>2. /\ T \in [Pids -> PageTables] /\ Good(s.m, T) /\ FreeAbove(s.m, n)
        /\ \A i \in Pids : T[i] = s.tab[i].pagetable
    BY TablesType DEF Booted
  <2>3. T[k] = NoTable
    BY <2>1, <2>2 DEF Booted
  <2> HIDE DEF T, n
  <2>4. BootBuild(b, T, k, n + 8) /\ Whole(b.pt)
    BY <2>1, <2>2, <2>3, ProcessSetupBoot
  <2>5. t = [m |-> b.m, tab |-> [s.tab EXCEPT ![k] = [state |-> "RUNNABLE", pagetable |-> b.pt]]]
    BY <1>2 DEF SetUp
  <2> HIDE DEF b, t
  <2>6. /\ t.m = b.m /\ b.pt \in PageTables
        /\ t.tab = [s.tab EXCEPT ![k] = [state |-> "RUNNABLE", pagetable |-> b.pt]]
    BY <2>4, <2>5 DEF BootBuild, GoodBuild
  <2>7. /\ t.tab \in [Pids -> [state : {"FREE", "RUNNABLE", "FAULTED"}, pagetable : PageTables]]
        /\ \A i \in Pids : i # k => t.tab[i] = s.tab[i]
        /\ t.tab[k].state = "RUNNABLE" /\ t.tab[k].pagetable = b.pt
    BY <2>1, <2>6 DEF Booted
  <2>8. TablesOf(t.tab) = With(T, k, b.pt)
    <3>1. /\ With(T, k, b.pt) = [i \in Pids |-> With(T, k, b.pt)[i]]
          /\ \A i \in Pids : With(T, k, b.pt)[i] = IF i = k THEN b.pt ELSE T[i]
      BY <2>2, <2>6 DEF With
    <3>2. TablesOf(t.tab) = [i \in Pids |-> t.tab[i].pagetable]
      BY DEF TablesOf
    <3>3. \A i \in Pids : t.tab[i].pagetable = With(T, k, b.pt)[i]
      BY <2>1, <2>2, <2>7, <3>1
    <3> HIDE DEF With
    <3> QED
      BY <3>1, <3>2, <3>3, Zenon
  <2>9. Good(t.m, TablesOf(t.tab)) /\ FreeAbove(t.m, 8 * (k + 1 - 1))
    BY <2>1, <2>4, <2>6, <2>8 DEF BootBuild, GoodBuild
  <2>10. \A i \in Pids : IF t.tab[i].state = "FREE" THEN t.tab[i].pagetable = NoTable
                         ELSE Whole(t.tab[i].pagetable)
    BY <2>4, <2>7 DEF Booted
  <2>11. \A i \in Pids : i = 0 \/ i >= k + 1 => t.tab[i].state = "FREE"
    <3>1. \A i \in Pids : i = 0 \/ i >= k + 1 => i # k /\ (i = 0 \/ i >= k)
      BY <2>1, Constants
    <3> QED
      BY <2>7, <3>1 DEF Booted
  <2> QED
    BY <2>7, <2>9, <2>10, <2>11 DEF Booted, t
<1> QED
  BY <1>1, <1>2

\* The machine before any process.
LEMMA BlankBoot == Booted(Blank, 1)
<1> DEFINE m0 == [refcount |-> [p \in Pages |-> 0], data |-> [p \in Pages |-> Junk]]
           tab0 == [i \in Pids |-> [state |-> "FREE", pagetable |-> NoTable]]
           T0 == TablesOf(tab0)
<1>1. Blank = [m |-> m0, tab |-> tab0]
  BY DEF Blank
<1>2. Blank.m = m0 /\ Blank.tab = tab0
  <2> HIDE DEF m0, tab0
  <2> QED
    BY <1>1
<1>3. m0 \in Memory /\ FreeAbove(m0, 8 * (1 - 1))
  BY DEF Memory, Junk, FreeAbove
<1>4. /\ tab0 \in [Pids -> [state : {"FREE", "RUNNABLE", "FAULTED"}, pagetable : PageTables]]
      /\ \A i \in Pids : tab0[i].state = "FREE" /\ tab0[i].pagetable = NoTable
  BY NoTableType
<1>5. T0 \in [Pids -> PageTables] /\ \A i \in Pids : T0[i] = NoTable
  <2> HIDE DEF tab0
  <2> QED
    BY <1>4, TablesType
<1>6. \A p \in Pages : m0.refcount[p] = 0
  OBVIOUS
<1> HIDE DEF m0, tab0, T0
<1>7. \A i \in Pids, s \in Slots : Page(T0[i], s) = 0
  BY <1>5, NoTableType
<1>8. Apart(T0)
  BY <1>7 DEF Apart
<1>9. Counted(m0, T0)
  <2>1. \A p \in Pages : p # 0
    BY Constants
  <2>2. "code" \in Slots
    BY DEF Slots, Vas, Below
  <2>3. \A p \in Pages : Sharers(T0, p) = {}
    BY <1>7, <2>1, <2>2 DEF Sharers
  <2> QED
    BY <1>6, <1>7, <2>1, <2>3 DEF Counted
<1>10. Good(m0, T0)
  BY <1>3, <1>5, <1>8, <1>9, NoTableType DEF Good
<1> QED
  BY <1>2, <1>3, <1>4, <1>10 DEF Booted, T0

\* The initial state satisfies the invariant.
LEMMA InitIInv == Init => IInv
<1> SUFFICES ASSUME Init PROVE IInv
  OBVIOUS
<1> DEFINE s1 == SetUp(Blank, 1)
           s2 == SetUp(s1, 2)
           s3 == SetUp(s2, 3)
           s4 == SetUp(s3, 4)
<1>1. mem = s4.m /\ ptable = s4.tab /\ current = 1 /\ spinning = FALSE
  BY DEF Init
<1>2. Booted(s1, 2)
  <2>1. Booted(s1, 1 + 1)
    BY BlankBoot, SetUpBoot
  <2> QED
    BY <2>1
<1> HIDE DEF s1
<1>3. Booted(s2, 3)
  <2>1. Booted(s2, 2 + 1)
    BY <1>2, SetUpBoot
  <2> QED
    BY <2>1
<1> HIDE DEF s2
<1>4. Booted(s3, 4)
  <2>1. Booted(s3, 3 + 1)
    BY <1>3, SetUpBoot
  <2> QED
    BY <2>1
<1> HIDE DEF s3
<1>5. Booted(s4, 5)
  <2>1. Booted(s4, 4 + 1)
    BY <1>4, SetUpBoot
  <2> QED
    BY <2>1
<1> HIDE DEF s4
<1>6. TypeOK
  <2>1. 1 \in Pids
    BY Constants DEF Pids
  <2> QED
    BY <1>1, <1>5, <2>1 DEF TypeOK, Booted
<1>7. ProcInv
  BY <1>1, <1>5, Constants DEF ProcInv, Booted
<1>8. Good(mem, TablesOf(ptable))
  BY <1>1, <1>5 DEF Booted
<1> QED
  BY <1>6, <1>7, <1>8 DEF IInv

\* Every step keeps the invariant, and the processes apart.
LEMMA EveryStep ==
  ASSUME DataOnly
  PROVE  IInv /\ [Next]_vars => IInv' /\ Isolated
<1> SUFFICES ASSUME IInv, [Next]_vars PROVE IInv' /\ Isolated
  OBVIOUS
<1>1. CASE Timer \/ Yield \/ PageFault \/ Panic \/ ForkFails \/ Spin \/ UNCHANGED vars
  BY <1>1, SchedulerStep
<1>2. ASSUME NEW va \in Vas, Store(va) PROVE IInv' /\ Isolated
  BY <1>2, StoreStep
<1>3. ASSUME NEW va \in Vas, PageAlloc(va) PROVE IInv' /\ Isolated
  BY <1>3, PageAllocStep
<1>4. CASE Fork
  BY <1>4, ForkStep
<1>5. CASE Exit
  BY <1>5, ExitStep
<1>6. CASE PageAllocPanics
  BY <1>6, PanicAllocStep
<1> QED
  BY <1>1, <1>2, <1>3, <1>4, <1>5, <1>6 DEF Next, process_main, exception, syscall

\* The invariant holds in every state: a page stands in one slot, but for the code pages
\* that processes share, and its count says in how many.
THEOREM IInvHolds == DataOnly /\ Spec => []IInv
<1> SUFFICES ASSUME DataOnly PROVE Spec => []IInv
  OBVIOUS
<1>1. Init => IInv
  BY InitIInv
<1>2. IInv /\ [Next]_vars => IInv'
  BY EveryStep
<1> QED
  BY <1>1, <1>2, PTL DEF Spec

\* No step of a process changes what another one finds in its memory, and a child finds
\* what its parent finds below MEMSIZE_VIRTUAL: syscall_fork shares only what nobody writes, and kalloc hands
\* out only what nobody has.
THEOREM ProcessesAreIsolated == DataOnly /\ Spec => ProcessIsolation
<1> SUFFICES ASSUME DataOnly PROVE Spec => ProcessIsolation
  OBVIOUS
<1>1. Init => IInv
  BY InitIInv
<1>2. IInv /\ [Next]_vars => IInv'
  BY EveryStep
<1>3. IInv /\ [Next]_vars => [Isolated]_vars
  BY EveryStep
<1>4. Spec => [][Isolated]_vars
  BY <1>1, <1>2, <1>3, PTL DEF Spec
<1> QED
  BY <1>4 DEF ProcessIsolation, Isolated

-----------------------------------------------------------------------------
(* The counts *)

\* There are as many code slots that refer to a page as processes that share it.
LEMMA CodeSlots ==
  ASSUME NEW T, NEW p, NEW B, B = {u \in Pids \X {"code"} : Page(T[u[1]], "code") = p}
  PROVE  Cardinality(B) = Cardinality(Sharers(T, p))
<1> DEFINE F == [j \in Sharers(T, p) |-> <<j, "code">>]
<1>1. F \in [Sharers(T, p) -> B]
  BY DEF Sharers
<1>2. \A i, j \in Sharers(T, p) : F[i] = F[j] => i = j
  OBVIOUS
<1>3. \A u \in B : \E j \in Sharers(T, p) : F[j] = u
  <2> SUFFICES ASSUME NEW u \in B PROVE \E j \in Sharers(T, p) : F[j] = u
    OBVIOUS
  <2>1. u = <<u[1], "code">> /\ u[1] \in Pids /\ Page(T[u[1]], "code") = p
    OBVIOUS
  <2>2. u[1] \in Sharers(T, p)
    BY <2>1 DEF Sharers
  <2>3. F[u[1]] = u
    BY <2>1, <2>2
  <2> QED
    BY <2>2, <2>3
<1> HIDE DEF F
<1>4. F \in Bijection(Sharers(T, p), B)
  BY <1>1, <1>2, <1>3, Fun_IsBij
<1>5. ExistsBijection(Sharers(T, p), B)
  BY <1>4 DEF ExistsBijection
<1> QED
  BY <1>5, SharersFinite, FS_Bijection

\* The references of all page tables to a page are what its count says, if there is any.
LEMMA UsesExact ==
  ASSUME IInv, NEW p \in Pages
  PROVE  Uses(p) = IF Loose(TablesOf(ptable), p) THEN 0 ELSE mem.refcount[p]
<1> DEFINE T == TablesOf(ptable)
           A == {u \in Pids \X Levels : ptable[u[1]].pagetable.tables[u[2]] = p}
           B == {u \in Pids \X Vas : ptable[u[1]].pagetable.map[u[2]].pa = p}
<1>0. /\ T \in [Pids -> PageTables] /\ Good(mem, T) /\ \A i \in Pids : T[i] = ptable[i].pagetable
      /\ p # 0 /\ Levels \cap Vas = {} /\ Slots = Levels \cup Vas
  BY TablesType, Constants DEF IInv, TypeOK, Levels, Vas, Below, Slots
<1> HIDE DEF T
<1>1. Uses(p) = Cardinality(A) + Cardinality(B)
  BY DEF Uses
<1>2. A = {u \in Pids \X Levels : Page(T[u[1]], u[2]) = p}
  <2>1. \A u \in Pids \X Levels : u[1] \in Pids /\ u[2] \in Levels
    OBVIOUS
  <2>2. \A i \in Pids, l \in Levels : Page(T[i], l) = ptable[i].pagetable.tables[l]
    BY <1>0 DEF Page
  <2>3. \A u \in Pids \X Levels : Page(T[u[1]], u[2]) = ptable[u[1]].pagetable.tables[u[2]]
    BY <2>1, <2>2
  <2> QED
    BY <2>3
<1>3. B = {u \in Pids \X Vas : Page(T[u[1]], u[2]) = p}
  <2>1. \A u \in Pids \X Vas : u[1] \in Pids /\ u[2] \in Vas
    OBVIOUS
  <2>2. \A i \in Pids, v \in Vas : Page(T[i], v) = ptable[i].pagetable.map[v].pa
    BY <1>0 DEF Page
  <2>3. \A u \in Pids \X Vas : Page(T[u[1]], u[2]) = ptable[u[1]].pagetable.map[u[2]].pa
    BY <2>1, <2>2
  <2> QED
    BY <2>3
<1> HIDE DEF A, B
<1>4. /\ Cardinality({}) = 0 /\ \A u : Cardinality({u}) = 1
  BY FS_EmptySet, FS_Singleton
<1>5. \A i, j \in Pids, s, r \in Slots : Page(T[i], s) = p /\ Page(T[j], r) = p => s = r /\ (i = j \/ s = "code")
  BY <1>0 DEF Good, Apart
<1>6. CASE Loose(T, p)
  <2>1. A = {} /\ B = {}
    BY <1>0, <1>2, <1>3, <1>6 DEF Loose
  <2> QED
    BY <1>1, <1>4, <1>6, <2>1 DEF T
<1>7. ASSUME NEW i \in Pids, NEW s \in Slots, Page(T[i], s) = p, s # "code"
      PROVE  Cardinality(A) + Cardinality(B) = mem.refcount[p]
  <2>1. mem.refcount[p] = 1
    BY <1>0, <1>7 DEF Good, Counted
  <2>2. Cardinality({<<i, s>>}) = 1
    BY <1>4
  <2>3. \A u : u \in Pids \X Slots /\ Page(T[u[1]], u[2]) = p => u = <<i, s>>
    <3> SUFFICES ASSUME NEW j \in Pids, NEW r \in Slots, Page(T[j], r) = p PROVE <<j, r>> = <<i, s>>
      OBVIOUS
    <3>1. r = s /\ j = i
      BY <1>5, <1>7
    <3> QED
      BY <3>1
  <2>4. A \cap B = {}
    BY <1>0, <1>2, <1>3
  <2>5. A \cup B = {<<i, s>>}
    <3>1. <<i, s>> \in A \cup B
      BY <1>0, <1>2, <1>3, <1>7
    <3>2. \A u \in A \cup B : u \in Pids \X Slots /\ Page(T[u[1]], u[2]) = p
      BY <1>0, <1>2, <1>3
    <3> QED
      BY <2>3, <3>1, <3>2
  <2>6. (A = {} /\ B = {<<i, s>>}) \/ (B = {} /\ A = {<<i, s>>})
    BY <2>4, <2>5
  <2> QED
    BY <1>4, <2>1, <2>2, <2>6, SMTT(30)
<1>8. ASSUME NEW i \in Pids, Page(T[i], "code") = p
      PROVE  Cardinality(A) + Cardinality(B) = mem.refcount[p]
  <2>0. "code" \in Slots /\ "code" \in Vas /\ "code" \notin Levels
    BY DEF Slots, Vas, Below, Levels
  <2>1. i \in Sharers(T, p)
    BY <1>8 DEF Sharers
  <2>2. mem.refcount[p] = Cardinality(Sharers(T, p))
    BY <1>0, <2>1 DEF Good, Counted
  <2>3. \A j \in Pids, r \in Slots : Page(T[j], r) = p => r = "code"
    BY <1>5, <1>8, <2>0
  <2>4. A = {}
    BY <1>0, <1>2, <2>0, <2>3
  <2>5. B = {u \in Pids \X {"code"} : Page(T[u[1]], "code") = p}
    <3>1. \A u \in Pids \X Vas : Page(T[u[1]], u[2]) = p => u[2] = "code"
      BY <1>0, <2>3
    <3>2. \A u : u \in Pids \X {"code"} => u \in Pids \X Vas /\ u[2] = "code"
      BY <2>0
    <3>3. \A u \in Pids \X Vas : u[2] = "code" => u \in Pids \X {"code"}
      OBVIOUS
    <3> QED
      BY <1>3, <3>1, <3>2, <3>3
  <2>6. Cardinality(B) = Cardinality(Sharers(T, p))
    BY <2>5, CodeSlots
  <2>7. Cardinality(Sharers(T, p)) \in Nat
    BY SharersFinite
  <2> QED
    BY <1>4, <2>2, <2>4, <2>6, <2>7
<1>9. CASE ~Loose(T, p)
  <2>1. PICK i \in Pids, s \in Slots : Page(T[i], s) = p
    BY <1>9 DEF Loose
  <2>2. Cardinality(A) + Cardinality(B) = mem.refcount[p]
    BY <1>7, <1>8, <2>1
  <2> QED
    BY <1>1, <1>9, <2>2 DEF T
<1> QED
  BY <1>6, <1>9

\* No page is handed out again while a page table still uses it, also after a fork that
\* failed half-way: free_pagetable gives back what one page table refers to, and no more.
THEOREM UsedPagesAreCounted == DataOnly /\ Spec => []NoPageFreedInUse
<1>1. IInv => NoPageFreedInUse
  <2> SUFFICES ASSUME IInv, NEW p \in Pages PROVE mem.refcount[p] >= Uses(p)
    BY DEF NoPageFreedInUse
  <2>1. mem.refcount[p] \in Nat
    BY DEF IInv, Good, Memory
  <2> QED
    BY <2>1, UsesExact
<1> QED
  BY <1>1, IInvHolds, PTL

-----------------------------------------------------------------------------
(* The pages that are lost *)

\* The pages in use that no page table refers to.
LostPages(m, T) == {p \in Pages : Loose(T, p) /\ m.refcount[p] # 0}

\* The four ways to lose the page p.
Replaced(p) == \E v \in AllocAt : Table.map[v].pa = p /\ ptable'[current].pagetable.map[v].pa \notin {0, p}
LeftBeyond(p) == Table.map["beyond"].pa = p /\ ptable'[current].state = "FREE"
NotMapped(p) ==
  /\ p = kalloc(mem).pa /\ ptable' = ptable
  /\ spinning' \/ (Free = {p} /\ Table.tables["far"] = 0)
StackCopy(p) ==
  /\ Lost' \ Lost = {p}
  /\ mem'.data[p] = mem.data[Table.map["stack"].pa]
  /\ Cardinality(Free) = 4 + Cardinality({v \in Below : Table.map[v].w})

\* LossesAreKnown, of one step.
KnownLoss ==
  \A p \in Lost' \ Lost :
    \/ Replaced(p)
    \/ LeftBeyond(p)
    \/ NotMapped(p)
    \/ StackCopy(p)

\* The pages with more references than the page tables hold are those in use that no
\* page table refers to.
LEMMA LostIs == IInv => Lost = LostPages(mem, TablesOf(ptable))
<1> SUFFICES ASSUME IInv PROVE Lost = LostPages(mem, TablesOf(ptable))
  OBVIOUS
<1>1. ASSUME NEW p \in Pages
      PROVE  mem.refcount[p] > Uses(p) <=> Loose(TablesOf(ptable), p) /\ mem.refcount[p] # 0
  <2>1. mem.refcount[p] \in Nat
    BY DEF IInv, Good, Memory
  <2> QED
    BY <2>1, UsesExact
<1> QED
  BY <1>1 DEF Lost, LostPages

\* The same after a step.
LEMMA LostIsNext == IInv' => Lost' = LostPages(mem', TablesOf(ptable'))
<1>1. IInv' => (Lost = LostPages(mem, TablesOf(ptable)))'
  BY LostIs, PTL
<1>2. (Lost = LostPages(mem, TablesOf(ptable)))' <=> Lost' = LostPages(mem', TablesOf(ptable'))
  BY DEF LostPages, TablesOf, Loose, Page
<1> QED
  BY <1>1, <1>2

\* A step that changes neither a count nor a page table loses nothing.
LEMMA QuietLoss ==
  ASSUME IInv, IInv', \A p \in Pages : mem'.refcount[p] = mem.refcount[p],
         \A i \in Pids : ptable'[i].pagetable = ptable[i].pagetable
  PROVE  Lost' \ Lost = {}
<1>1. TablesOf(ptable') = TablesOf(ptable)
  BY DEF TablesOf
<1>2. LostPages(mem', TablesOf(ptable')) = LostPages(mem, TablesOf(ptable))
  BY <1>1 DEF LostPages
<1> QED
  BY <1>2, LostIs, LostIsNext

\* sys_page_alloc loses the page that was mapped where the new one is, or the new one
\* if the table to map it in cannot be had, which is the one past MEMSIZE_VIRTUAL.
LEMMA PageAllocLoss ==
  ASSUME IInv, IInv', NEW va \in Vas, PageAlloc(va)
  PROVE  KnownLoss
<1> DEFINE T == TablesOf(ptable)
           T2 == TablesOf(ptable')
           a == kalloc(mem)
           m2 == Fill(a.m, a.pa, 0)
           w == TRUE
           b == try_map(m2, Table, va, a.pa, w)
<1>1. /\ Running /\ va \in AllocAt
      /\ IF a.pa = 0 THEN UNCHANGED <<mem, ptable>>
         ELSE mem' = b.m /\ ptable' = [ptable EXCEPT ![current].pagetable = b.pt]
  BY DEF PageAlloc
<1>2. /\ current \in Pids /\ Table \in PageTables /\ Table = ptable[current].pagetable
      /\ Good(mem, T) /\ mem \in Memory /\ Whole(Table)
      /\ T \in [Pids -> PageTables] /\ T[current] = Table
      /\ \A i \in Pids : T[i] = ptable[i].pagetable
  BY <1>1, RunningFacts
<1>3. CASE a.pa = 0
  <2>1. Lost' \ Lost = {}
    BY <1>1, <1>3, QuietLoss
  <2> QED
    BY <2>1 DEF KnownLoss
<1>4. CASE a.pa # 0
  <2> DEFINE p == a.pa
             l == LastLevel(va)
             b0 == [m |-> m2, pt |-> Table, ok |-> TRUE]
             d == Grow(b0, l)
             e == [pa |-> p, w |-> w]
             pt2 == WithEntry(d.pt, va, e)
  <2>1. /\ p \in Pages /\ p # 0
        /\ \A q \in Pages : a.m.refcount[q] = IF q = p THEN 1 ELSE mem.refcount[q]
    BY <1>2, <1>4, KallocPage
  <2>2. m2.refcount = a.m.refcount
    BY DEF Fill
  <2>3. mem' = b.m /\ ptable' = [ptable EXCEPT ![current].pagetable = b.pt]
    <3> HIDE DEF a, b
    <3> QED
      BY <1>1, <1>4
  <2>4. Good(m2, T)
    BY <1>2, <1>4, KallocFill
  <2>5. b0.m = m2 /\ b0.pt = Table /\ b0.ok
    OBVIOUS
  <2>6. b = IF d.ok THEN [m |-> d.m, pt |-> pt2, ok |-> TRUE] ELSE d
    <3>1. Table.tables["level3"] # 0 /\ Table.tables["level2"] # 0
      BY <1>2 DEF Whole, Levels
    <3>2. b = LET k == Descend(b0, l) IN
              IF k.ok THEN [m |-> k.m, pt |-> WithEntry(k.pt, va, e), ok |-> TRUE] ELSE k
      BY DEF try_map
    <3> HIDE DEF b0, b, a, m2, l, e
    <3>3. Grow(b0, "level3") = b0 /\ Grow(b0, "level2") = b0
      BY <2>5, <3>1 DEF Grow
    <3>4. Descend(b0, l) = d
      BY <3>3 DEF Descend
    <3> HIDE DEF d
    <3> QED
      BY <3>2, <3>4
  <2>7. l \in Levels /\ (l # "far" => Table.tables[l] # 0)
    BY <1>2 DEF LastLevel, Levels, Whole
  <2>w. w \in BOOLEAN
    OBVIOUS
  <2> HIDE DEF a, m2, w, p, b, T, T2, b0, l
  <2>8. GoodBuild(b0, T, current) /\ Placed(m2, b0)
    <3>1. With(T, current, Table) = T
      BY <1>2 DEF With
    <3> QED
      BY <1>2, <2>4, <2>5, <3>1 DEF GoodBuild, Good, Placed
  <2>9. GoodBuild(d, T, current) /\ Grown(b0, d)
    BY <1>2, <2>7, <2>8, GrowStep
  <2>10. Placed(m2, d) /\ (~d.ok => d.m = m2 /\ d.pt = Table /\ FreePages(m2) = {})
    <3>1. /\ Placed(m2, d)
          /\ b0.ok /\ ~d.ok => d.m = b0.m /\ d.pt = b0.pt /\ FreePages(b0.m) = {}
      BY <1>2, <2>7, <2>8, GrowTakes
    <3> QED
      BY <2>5, <3>1
  <2>11. ~d.ok => Table.tables["far"] = 0
    <3>1. Table.tables[l] # 0 => d = b0
      BY <2>5 DEF Grow
    <3> HIDE DEF d
    <3> QED
      BY <2>5, <2>7, <3>1
  <2> HIDE DEF d
  <2>12. \A i \in Pids : T2[i] = IF i = current THEN b.pt ELSE T[i]
    <3>1. \A i \in Pids : ptable'[i].pagetable = IF i = current THEN b.pt ELSE ptable[i].pagetable
      BY <1>2, <2>3 DEF IInv, TypeOK
    <3>2. \A i \in Pids : T2[i] = ptable'[i].pagetable
      BY DEF TablesOf, T2
    <3> QED
      BY <1>2, <3>1, <3>2
  <2>13. ASSUME NEW q \in Lost' \ Lost
         PROVE  q \in Pages /\ Loose(T2, q) /\ mem'.refcount[q] # 0 /\ ~(Loose(T, q) /\ mem.refcount[q] # 0)
    BY <2>13, LostIs, LostIsNext DEF LostPages, T, T2
  <2>14. CASE d.ok
    <3>1. b.m = d.m /\ b.pt = pt2
      <4>1. b = [m |-> d.m, pt |-> pt2, ok |-> TRUE]
        BY <2>6, <2>14
      <4> HIDE DEF pt2, b
      <4> QED
        BY <4>1
    <3>2. /\ \A v \in Vas : pt2.map[v] = IF v = va THEN e ELSE d.pt.map[v]
          /\ \A s \in Slots : Page(pt2, s) = IF s = va THEN p ELSE Page(d.pt, s)
      BY <2>1, <2>9, <2>w, WithSlots DEF GoodBuild
    <3> HIDE DEF pt2
    <3>3. ASSUME NEW s \in Slots, Page(Table, s) # 0 PROVE Page(d.pt, s) = Page(Table, s)
      <4>1. CASE s \in Levels
        BY <2>5, <2>9, <3>3, <4>1 DEF Grown, Page
      <4>2. CASE s \notin Levels
        BY <2>5, <2>9, <4>2 DEF Grown, Page
      <4> QED
        BY <4>1, <4>2
    <3>4. va \in Slots /\ Page(Table, va) = Table.map[va].pa /\ Page(d.pt, va) = Table.map[va].pa
      <4>1. d.pt.map = Table.map /\ d.pt \in PageTables
        BY <2>5, <2>9 DEF Grown, GoodBuild
      <4> QED
        BY <1>2, <4>1, SlotType
    <3>5. ASSUME NEW q \in Lost' \ Lost PROVE Replaced(q)
      <4>1. q \in Pages /\ Loose(T2, q) /\ d.m.refcount[q] # 0 /\ ~(Loose(T, q) /\ mem.refcount[q] # 0)
        BY <2>3, <2>13, <3>1
      <4>2. \A s \in Slots : Page(pt2, s) # q
        BY <1>2, <2>12, <3>1, <4>1 DEF Loose
      <4>3. q # p /\ q # 0
        BY <3>2, <3>4, <4>1, <4>2, Constants
      <4>4. Table.map[va].pa = q
        <5>1. CASE m2.refcount[q] = 0
          <6>1. PICK s \in Slots : Page(d.pt, s) = q
            BY <2>10, <4>1, <5>1 DEF Placed
          <6> QED
            BY <3>2, <3>4, <4>2, <6>1
        <5>2. CASE m2.refcount[q] # 0
          <6>1. mem.refcount[q] # 0
            BY <2>1, <2>2, <4>1, <4>3, <5>2
          <6>2. PICK i \in Pids, s \in Slots : Page(T[i], s) = q
            BY <4>1, <6>1 DEF Loose
          <6>3. i = current
            BY <2>12, <4>1, <6>2 DEF Loose
          <6>4. Page(d.pt, s) = q
            BY <1>2, <3>3, <4>3, <6>2, <6>3
          <6> QED
            BY <3>2, <3>4, <4>2, <6>4
        <5> QED
          BY <5>1, <5>2
      <4>5. ptable'[current].pagetable.map[va].pa = p
        <5>1. ptable'[current].pagetable = pt2
          BY <1>2, <2>3, <3>1 DEF IInv, TypeOK
        <5>2. pt2.map[va].pa = p
          BY <3>2
        <5> QED
          BY <5>1, <5>2
      <4> QED
        BY <1>1, <2>1, <4>3, <4>4, <4>5 DEF Replaced
    <3> QED
      BY <3>5, Zenon DEF KnownLoss
  <2>15. CASE ~d.ok
    <3>1. b.m = m2 /\ b.pt = Table
      BY <2>6, <2>10, <2>15
    <3>2. ptable' = ptable
      BY <1>2, <2>3, <3>1 DEF IInv, TypeOK
    <3>3. Free = {p}
      <4>1. mem.refcount[p] = 0
        BY <1>2, <1>4, KallocPage DEF p, a
      <4>2. \A q \in Pages : m2.refcount[q] # 0
        BY <2>10, <2>15 DEF FreePages
      <4> QED
        BY <2>1, <2>2, <4>1, <4>2 DEF Free
    <3>4. ASSUME NEW q \in Lost' \ Lost PROVE NotMapped(q)
      <4>1. q \in Pages /\ mem.refcount[q] = 0
        BY <2>13, <3>2 DEF T, T2
      <4>2. q = p
        BY <3>3, <4>1 DEF Free
      <4> QED
        BY <2>11, <2>15, <3>2, <3>3, <4>2 DEF NotMapped, p, a
    <3> QED
      BY <3>4, Zenon DEF KnownLoss
  <2> QED
    BY <2>14, <2>15
<1> QED
  BY <1>3, <1>4

\* sys_page_alloc of an address that panics loses the page it has taken.
LEMMA PanicAllocLoss ==
  ASSUME IInv, IInv', PageAllocPanics
  PROVE  KnownLoss
<1> DEFINE a == kalloc(mem)
           T == TablesOf(ptable)
<1>1. a.pa # 0 /\ mem' = Fill(a.m, a.pa, 0) /\ spinning' = TRUE /\ ptable' = ptable
  BY DEF PageAllocPanics
<1>2. mem \in Memory
  BY DEF IInv, Good
<1>3. \A q \in Pages : mem'.refcount[q] = IF q = a.pa THEN 1 ELSE mem.refcount[q]
  BY <1>1, <1>2, KallocPage DEF Fill
<1>4. ASSUME NEW q \in Lost' \ Lost PROVE NotMapped(q)
  <2>1. q \in Pages /\ Loose(T, q) /\ mem'.refcount[q] # 0 /\ ~(Loose(T, q) /\ mem.refcount[q] # 0)
    BY <1>1, <1>4, LostIs, LostIsNext DEF LostPages
  <2>2. q = a.pa
    BY <1>3, <2>1
  <2> QED
    BY <1>1, <2>2 DEF NotMapped
<1> QED
  BY <1>4, Zenon DEF KnownLoss

\* Exit loses the page that the process has mapped past MEMSIZE_VIRTUAL: it gives back
\* everything else that the process alone refers to.
LEMMA ExitLoss ==
  ASSUME IInv, IInv', Exit
  PROVE  KnownLoss
<1> DEFINE T == TablesOf(ptable)
           T2 == TablesOf(ptable')
<1>1. /\ Running /\ mem' = free_pagetable(mem, Table)
      /\ ptable' = [ptable EXCEPT ![current] = [state |-> "FREE", pagetable |-> NoTable]]
  BY DEF Exit
<1>2. /\ current \in Pids /\ Table \in PageTables /\ T[current] = Table /\ Good(mem, T)
      /\ \A i \in Pids : T[i] = ptable[i].pagetable
  BY <1>1, RunningFacts
<1>3. /\ T2 \in [Pids -> PageTables] /\ \A i \in Pids : T2[i] = ptable'[i].pagetable
  BY TablesType DEF IInv, TypeOK
<1>4. \A i \in Pids : ptable'[i] = IF i = current THEN [state |-> "FREE", pagetable |-> NoTable] ELSE ptable[i]
  BY <1>1, <1>2 DEF IInv, TypeOK
<1>5. T2[current] = NoTable /\ \A j \in Pids : j # current => T2[j] = T[j]
  BY <1>2, <1>3, <1>4
<1>a. ptable'[current].state = "FREE"
  BY <1>2, <1>4
<1>b. Page(Table, "beyond") = Table.map["beyond"].pa
  <2>1. "beyond" \in Vas
    BY DEF Vas
  <2> QED
    BY <1>2, <2>1, SlotType
<1> HIDE DEF T, T2
<1>6. /\ \A p \in Pages, s \in Slots \ {"beyond"} : Page(Table, s) = p /\ Loose(T2, p) => mem'.refcount[p] = 0
      /\ \A p \in Pages : (\A s \in Slots \ {"beyond"} : Page(Table, s) # p) => mem'.refcount[p] = mem.refcount[p]
  <2>1. LET m2 == free_pagetable(mem, T[current]) IN
        /\ Good(m2, T2)
        /\ \A p \in Pages : ~Loose(T2, p) => m2.data[p] = mem.data[p]
        /\ \A p \in Pages, s \in Slots \ {"beyond"} :
             Page(T[current], s) = p /\ Loose(T2, p) => m2.refcount[p] = 0
        /\ \A p \in Pages : (\A s \in Slots \ {"beyond"} : Page(T[current], s) # p) =>
             /\ m2.refcount[p] = mem.refcount[p]
             /\ mem.refcount[p] # 0 => m2.data[p] = mem.data[p]
    BY <1>2, <1>3, <1>5, FreeTable
  <2> QED
    BY <1>1, <1>2, <2>1
<1>7. ASSUME NEW q \in Lost' \ Lost PROVE LeftBeyond(q)
  <2>1. q \in Pages /\ Loose(T2, q) /\ mem'.refcount[q] # 0
    BY <1>7, LostIsNext DEF LostPages, T2
  <2>2. \A s \in Slots \ {"beyond"} : Page(Table, s) # q
    BY <1>6, <2>1
  <2>3. mem.refcount[q] # 0
    BY <1>6, <2>1, <2>2
  <2>4. ~Loose(T, q)
    BY <1>7, <2>1, <2>3, LostIs DEF LostPages, T
  <2>5. Page(Table, "beyond") = q
    BY <1>2, <1>5, <2>1, <2>2, <2>4 DEF Loose
  <2> QED
    BY <1>a, <1>b, <2>5 DEF LeftBeyond
<1> QED
  BY <1>7, Zenon DEF KnownLoss

\* A fork that goes well loses nothing.
LEMMA ChildLoss ==
  ASSUME IInv, IInv', NEW c \in Pids, ptable[c].pagetable = NoTable, NEW b, Placed(mem, b),
         mem' = b.m, ptable'[c].pagetable = b.pt, \A i \in Pids : i # c => ptable'[i] = ptable[i]
  PROVE  Lost' \ Lost = {}
<1> DEFINE T == TablesOf(ptable)
           T2 == TablesOf(ptable')
<1>1. \A i \in Pids : T[i] = ptable[i].pagetable /\ T2[i] = ptable'[i].pagetable
  BY DEF TablesOf
<1> HIDE DEF T, T2
<1>2. ASSUME NEW q \in Lost' PROVE q \in Lost
  <2>1. q \in Pages /\ Loose(T2, q) /\ b.m.refcount[q] # 0
    BY <1>2, LostIsNext DEF LostPages, T2
  <2>2. mem.refcount[q] # 0
    BY <1>1, <2>1 DEF Placed, Loose
  <2>3. Loose(T, q)
    <3>1. \A s \in Slots : Page(T[c], s) # q
      BY <1>1, <2>1, NoTableType, Constants
    <3>2. \A i \in Pids, s \in Slots : i # c => Page(T[i], s) # q
      BY <1>1, <2>1 DEF Loose
    <3> QED
      BY <3>1, <3>2 DEF Loose
  <2> QED
    BY <2>1, <2>2, <2>3, LostIs DEF LostPages, T
<1> QED
  BY <1>2

\* A fork that fails half-way gives back what it has taken, but for a copy of the stack
\* that could not be mapped.
LEMMA NoChildLoss ==
  ASSUME IInv, IInv', UNCHANGED ptable, NEW b, mem' = free_pagetable(b.m, b.pt),
         b.pt.map["beyond"] = NoEntry,
         \A p \in Pages, s \in Slots \ {"beyond"} :
            Page(b.pt, s) = p /\ Loose(TablesOf(ptable), p) => mem'.refcount[p] = 0,
         \A p \in Pages : (\A s \in Slots \ {"beyond"} : Page(b.pt, s) # p) =>
            /\ mem'.refcount[p] = b.m.refcount[p]
            /\ b.m.refcount[p] # 0 => mem'.data[p] = b.m.data[p]
  PROVE  /\ Placed(mem, b) => Lost' \ Lost = {}
         /\ \A x, p : p \in Pages /\ LostCopy(mem, b, p, x) => Lost' \ Lost = {p} /\ mem'.data[p] = x
<1> DEFINE T == TablesOf(ptable)
<1>1. TablesOf(ptable') = T /\ Good(mem, T)
  BY DEF IInv
<1> HIDE DEF T
<1>2. /\ Lost' = {p \in Pages : Loose(T, p) /\ mem'.refcount[p] # 0}
      /\ Lost = {p \in Pages : Loose(T, p) /\ mem.refcount[p] # 0}
  BY <1>1, LostIs, LostIsNext DEF LostPages, T
<1>3. ASSUME NEW q \in Lost' \ Lost
      PROVE  q \in Pages /\ mem.refcount[q] = 0 /\ b.m.refcount[q] # 0 /\ \A s \in Slots : Page(b.pt, s) # q
  <2>1. q \in Pages /\ Loose(T, q) /\ mem'.refcount[q] # 0 /\ mem.refcount[q] = 0
    BY <1>2, <1>3
  <2>2. \A s \in Slots \ {"beyond"} : Page(b.pt, s) # q
    BY <2>1 DEF T
  <2>3. Page(b.pt, "beyond") = 0 /\ q # 0
    BY <2>1, Constants DEF Page, NoEntry, Levels
  <2> QED
    BY <2>1, <2>2, <2>3
<1>4. Placed(mem, b) => Lost' \ Lost = {}
  BY <1>3 DEF Placed
<1>5. ASSUME NEW p \in Pages, NEW x, LostCopy(mem, b, p, x)
      PROVE  Lost' \ Lost = {p} /\ mem'.data[p] = x
  <2>1. /\ mem.refcount[p] = 0 /\ b.m.refcount[p] = 1 /\ b.m.data[p] = x
        /\ \A s \in Slots : Page(b.pt, s) # p
    BY <1>5 DEF LostCopy
  <2>2. mem'.refcount[p] = 1 /\ mem'.data[p] = x
    BY <2>1
  <2>3. Loose(T, p)
    BY <1>1, <2>1, FreeIsLoose
  <2>4. p \in Lost' \ Lost
    BY <1>2, <2>1, <2>2, <2>3
  <2>5. \A q \in Lost' \ Lost : q = p
    BY <1>3, <1>5 DEF LostCopy
  <2> QED
    BY <2>2, <2>4, <2>5
<1> QED
  BY <1>4, <1>5

\* What a fork may lose.
LEMMA ForkLoss ==
  ASSUME IInv, IInv', Fork
  PROVE  KnownLoss
<1> DEFINE T == TablesOf(ptable)
           free == {i \in Pids \ {0} : ptable[i].state = "FREE"}
           pid == CHOOSE i \in free : \A j \in free : i <= j
           n == NewTable(mem)
           b == CopyPages(n)
           e == Table.map["stack"]
           W == With(T, pid, b.pt)
<1>1. /\ Running /\ free # {} /\ UNCHANGED <<current, spinning>>
      /\ IF b.ok THEN /\ mem' = b.m
                      /\ ptable' = [ptable EXCEPT ![pid] = [state |-> "RUNNABLE", pagetable |-> b.pt]]
         ELSE mem' = free_pagetable(b.m, b.pt) /\ UNCHANGED ptable
  BY DEF Fork
<1>2. /\ current \in Pids /\ T \in [Pids -> PageTables] /\ T[current] = Table
      /\ Good(mem, T) /\ ptable[current].state = "RUNNABLE"
      /\ \A i \in Pids : T[i] = ptable[i].pagetable
  BY <1>1, RunningFacts
<1>3. pid \in Pids /\ pid # 0 /\ ptable[pid].state = "FREE" /\ pid # current
  <2>1. pid \in Pids /\ pid # 0 /\ ptable[pid].state = "FREE"
    BY <1>1, FreePid
  <2> HIDE DEF pid
  <2> QED
    BY <1>2, <2>1
<1> HIDE DEF pid, free, T
<1>4. T[pid] = NoTable
  BY <1>2, <1>3 DEF IInv, ProcInv
<1>5. \/ Placed(mem, b)
      \/ /\ ~b.ok
         /\ Cardinality(FreePages(mem)) = 4 + Cardinality({v \in Below : Table.map[v].w})
         /\ \E p \in Pages : LostCopy(mem, b, p, mem.data[e.pa])
  BY <1>2, <1>3, <1>4, ForkTakes
<1>6. GoodBuild(n, T, pid) /\ \A v \in Vas : n.pt.map[v] = NoEntry
  BY <1>2, <1>3, <1>4, NewTableStep
<1> HIDE DEF n
<1>7. GoodBuild(b, T, pid) /\ b.pt.map["beyond"] = NoEntry
  BY <1>2, <1>3, <1>6, CopyPagesStep
<1> HIDE DEF b, e
<1>8. Good(b.m, W) /\ W[pid] = b.pt /\ \A j \in Pids : j # pid => W[j] = T[j]
  BY <1>2, <1>3, <1>7, BuildParts
<1> HIDE DEF W
<1>9. CASE b.ok
  <2>1. mem' = b.m /\ ptable' = [ptable EXCEPT ![pid] = [state |-> "RUNNABLE", pagetable |-> b.pt]]
    BY <1>1, <1>9
  <2>2. /\ \A i \in Pids : i # pid => ptable'[i] = ptable[i]
        /\ ptable'[pid].pagetable = b.pt
    BY <1>3, <2>1 DEF IInv, TypeOK
  <2>3. ptable[pid].pagetable = NoTable
    BY <1>2, <1>3, <1>4
  <2>4. Lost' \ Lost = {}
    BY <1>3, <1>5, <1>9, <2>1, <2>2, <2>3, ChildLoss
  <2> QED
    BY <2>4 DEF KnownLoss
<1>10. CASE ~b.ok
  <2>1. mem' = free_pagetable(b.m, b.pt) /\ UNCHANGED ptable
    BY <1>1, <1>10
  <2>2. LET m2 == free_pagetable(b.m, W[pid]) IN
        /\ Good(m2, T)
        /\ \A p \in Pages : ~Loose(T, p) => m2.data[p] = b.m.data[p]
        /\ \A p \in Pages, s \in Slots \ {"beyond"} : Page(W[pid], s) = p /\ Loose(T, p) => m2.refcount[p] = 0
        /\ \A p \in Pages : (\A s \in Slots \ {"beyond"} : Page(W[pid], s) # p) =>
             /\ m2.refcount[p] = b.m.refcount[p]
             /\ b.m.refcount[p] # 0 => m2.data[p] = b.m.data[p]
    BY <1>2, <1>3, <1>4, <1>8, FreeTable
  <2>3. /\ \A p \in Pages, s \in Slots \ {"beyond"} :
             Page(b.pt, s) = p /\ Loose(TablesOf(ptable), p) => mem'.refcount[p] = 0
        /\ \A p \in Pages : (\A s \in Slots \ {"beyond"} : Page(b.pt, s) # p) =>
             /\ mem'.refcount[p] = b.m.refcount[p]
             /\ b.m.refcount[p] # 0 => mem'.data[p] = b.m.data[p]
    BY <1>8, <2>1, <2>2 DEF T
  <2>4. /\ Placed(mem, b) => Lost' \ Lost = {}
        /\ \A x, p : p \in Pages /\ LostCopy(mem, b, p, x) => Lost' \ Lost = {p} /\ mem'.data[p] = x
    BY <1>7, <2>1, <2>3, NoChildLoss
  <2>5. CASE Placed(mem, b)
    BY <2>4, <2>5 DEF KnownLoss
  <2>6. CASE ~Placed(mem, b)
    <3>1. PICK p \in Pages : LostCopy(mem, b, p, mem.data[e.pa])
      BY <1>5, <2>6
    <3>2. Lost' \ Lost = {p} /\ mem'.data[p] = mem.data[Table.map["stack"].pa]
      BY <2>4, <3>1 DEF e
    <3>3. Cardinality(Free) = 4 + Cardinality({v \in Below : Table.map[v].w})
      BY <1>5, <2>6 DEF FreePages, Free
    <3> QED
      BY <3>2, <3>3 DEF KnownLoss, StackCopy
  <2> QED
    BY <2>5, <2>6
<1> QED
  BY <1>9, <1>10

\* Every step.
LEMMA StepLoss ==
  ASSUME IInv, IInv', [Next]_vars
  PROVE  KnownLoss
<1>1. CASE Timer \/ Yield \/ PageFault \/ Panic \/ ForkFails \/ Spin \/ UNCHANGED vars
  <2>1. UNCHANGED mem
    BY <1>1 DEF Timer, Yield, PageFault, Panic, ForkFails, Spin, vars
  <2>2. ptable' = ptable \/ ptable' = [ptable EXCEPT ![current].state = "FAULTED"]
    BY <1>1 DEF Timer, Yield, PageFault, Panic, ForkFails, Spin, vars
  <2>3. \A i \in Pids : ptable'[i].pagetable = ptable[i].pagetable
    BY <2>2 DEF IInv, TypeOK
  <2>4. Lost' \ Lost = {}
    BY <2>1, <2>3, QuietLoss
  <2> QED
    BY <2>4 DEF KnownLoss
<1>2. ASSUME NEW va \in Vas, Store(va) PROVE KnownLoss
  <2>1. mem'.refcount = mem.refcount /\ ptable' = ptable
    BY <1>2 DEF Store, Fill
  <2>2. Lost' \ Lost = {}
    BY <2>1, QuietLoss
  <2> QED
    BY <2>2 DEF KnownLoss
<1>3. ASSUME NEW va \in Vas, PageAlloc(va) PROVE KnownLoss
  BY <1>3, PageAllocLoss
<1>4. CASE Fork
  BY <1>4, ForkLoss
<1>5. CASE Exit
  BY <1>5, ExitLoss
<1>6. CASE PageAllocPanics
  BY <1>6, PanicAllocLoss
<1> QED
  BY <1>1, <1>2, <1>3, <1>4, <1>5, <1>6 DEF Next, process_main, exception, syscall

\* Exits and failed forks give back all they should: a page is lost only where
\* sys_page_alloc maps another one in its place; when its process exits, if it was
\* mapped past MEMSIZE_VIRTUAL; where sys_page_alloc cannot map it, for want of a table
\* or because of a panic; and as the copy of the stack page for which syscall_fork finds
\* no table, in just the memory where that happens.
THEOREM PagesAreLostAsKnown == DataOnly /\ Spec => LossesAreKnown
<1> SUFFICES ASSUME DataOnly PROVE Spec => LossesAreKnown
  OBVIOUS
<1>1. Init => IInv
  BY InitIInv
<1>2. IInv /\ [Next]_vars => IInv'
  BY EveryStep
<1>3. IInv /\ IInv' /\ [Next]_vars => [KnownLoss]_vars
  BY StepLoss
<1>4. Spec => [][KnownLoss]_vars
  BY <1>1, <1>2, <1>3, PTL DEF Spec
<1> QED
  BY <1>4 DEF LossesAreKnown, KnownLoss, Replaced, LeftBeyond, NotMapped, StackCopy

-----------------------------------------------------------------------------
(* The memory viewer *)

\* The processes that refer to a page.
Referrers(p) == {i \in Pids : \E s \in Slots : Page(TablesOf(ptable)[i], s) = p}

\* The processes that are shown are those that are not free, and those alone refer to
\* pages.
LEMMA TabledFacts ==
  ASSUME IInv
  PROVE  /\ Tabled = {i \in Pids : ptable[i].state # "FREE"}
         /\ \A i \in Pids : TablesOf(ptable)[i] = ptable[i].pagetable
         /\ \A p \in Pages : Referrers(p) \subseteq Tabled
         /\ 0 \notin Tabled
<1>1. \A i \in Pids : TablesOf(ptable)[i] = ptable[i].pagetable
  BY TablesType DEF IInv, TypeOK
<1>2. Tabled = {i \in Pids : ptable[i].state # "FREE"}
  BY DEF Tabled, IInv, ProcInv, Whole, Levels
<1>3. \A p \in Pages, i \in Pids : ptable[i].state = "FREE" => i \notin Referrers(p)
  BY <1>1, NoTableType, Constants DEF Referrers, IInv, ProcInv
<1>4. \A p \in Pages : Referrers(p) \subseteq Pids
  BY DEF Referrers
<1> QED
  BY <1>1, <1>2, <1>3, <1>4 DEF IInv, ProcInv

\* What the page tables say of a page while there is a process: it is a table or mapped,
\* not both, and the processes that refer to it are marked.
LEMMA MarksFacts ==
  ASSUME IInv, NEW p \in Pages, Tabled # {}
  PROVE  /\ marks(p).pids = Referrers(p)
         /\ marks(p).kernel \in BOOLEAN /\ marks(p).user \in BOOLEAN
         /\ ~(marks(p).kernel /\ marks(p).user)
         /\ marks(p).kernel \/ marks(p).user => Referrers(p) # {}
<1> DEFINE T == TablesOf(ptable)
           tabled == {i \in Tabled : \E l \in Levels : ptable[i].pagetable.tables[l] = p}
           mapping == {i \in Tabled : \E v \in Vas : ptable[i].pagetable.map[v].pa = p}
<1>1. /\ Tabled \subseteq Pids /\ Referrers(p) \subseteq Tabled
      /\ \A i \in Pids : T[i] = ptable[i].pagetable
  BY TabledFacts
<1>2. /\ marks(p).pids = tabled \cup mapping
      /\ marks(p).kernel = (tabled # {}) /\ marks(p).user = (mapping # {})
  BY DEF marks
<1>3. Slots = Levels \cup Vas /\ Levels \cap Vas = {} /\ p # 0
  BY Constants DEF Slots, Levels, Vas, Below
<1> HIDE DEF T
<1>4. /\ \A i \in Pids, l \in Levels : Page(T[i], l) = ptable[i].pagetable.tables[l]
      /\ \A i \in Pids, v \in Vas : Page(T[i], v) = ptable[i].pagetable.map[v].pa
  BY <1>1, <1>3 DEF Page
<1>5. tabled \cup mapping = Referrers(p)
  <2>1. \A i \in Pids : i \in Referrers(p) <=> \E s \in Slots : Page(T[i], s) = p
    BY DEF Referrers, T
  <2>2. \A i \in tabled \cup mapping : i \in Referrers(p)
    BY <1>1, <1>3, <1>4, <2>1
  <2>3. \A i \in Referrers(p) : i \in tabled \cup mapping
    BY <1>1, <1>3, <1>4, <2>1
  <2> QED
    BY <2>2, <2>3
<1>6. tabled = {} \/ mapping = {}
  <2> SUFFICES ASSUME NEW i \in tabled, NEW j \in mapping PROVE FALSE
    OBVIOUS
  <2>1. PICK l \in Levels : Page(T[i], l) = p
    BY <1>1, <1>4
  <2>2. PICK v \in Vas : Page(T[j], v) = p
    BY <1>1, <1>4
  <2>3. l = v
    BY <1>1, <1>3, <2>1, <2>2 DEF IInv, Good, Apart, T
  <2> QED
    BY <1>3, <2>3
<1> HIDE DEF tabled, mapping
<1> QED
  BY <1>2, <1>5, <1>6

\* A page is in use if a process refers to it, and never more often than the processes
\* are many.
LEMMA CountFacts ==
  ASSUME IInv, NEW p \in Pages
  PROVE  /\ valid(p) /\ (Referrers(p) # {} => used(p))
         /\ Uses(p) = 0 <=> Referrers(p) = {}
<1> DEFINE T == TablesOf(ptable)
<1>1. Good(mem, T) /\ mem.refcount[p] \in Nat
  BY DEF IInv, Good, Memory
<1>2. Loose(T, p) <=> Referrers(p) = {}
  BY DEF Loose, Referrers
<1>3. ~Loose(T, p) => mem.refcount[p] >= 1
  BY <1>1, UsedIsCounted
<1>4. mem.refcount[p] <= PidMax
  <2>1. CASE Loose(T, p)
    BY <1>1, <2>1, Constants DEF Good, Counted
  <2>2. CASE Sharers(T, p) # {}
    BY <1>1, <2>2, SharersFinite DEF Good, Counted
  <2>3. CASE ~Loose(T, p) /\ Sharers(T, p) = {}
    <3>1. PICK i \in Pids, s \in Slots : Page(T[i], s) = p
      BY <2>3 DEF Loose
    <3>2. s # "code"
      BY <2>3, <3>1 DEF Sharers
    <3>3. mem.refcount[p] = 1
      BY <1>1, <3>1, <3>2 DEF Good, Counted
    <3> QED
      BY <3>3, Constants
  <2> QED
    BY <2>1, <2>2, <2>3
<1>5. Uses(p) = IF Loose(T, p) THEN 0 ELSE mem.refcount[p]
  BY UsesExact
<1> HIDE DEF T
<1> QED
  BY <1>1, <1>2, <1>3, <1>4, <1>5 DEF valid, used

\* The four kinds of characters are different.
LEMMA Characters ==
  /\ <<"L">> # <<".">> /\ <<"L">> # <<"S">> /\ <<".">> # <<"S">>
  /\ \A i : <<"pid", i>> # <<"L">> /\ <<"pid", i>> # <<".">> /\ <<"pid", i>> # <<"S">>
<1>1. <<"L">>[1] = "L" /\ <<".">>[1] = "." /\ <<"S">>[1] = "S" /\ \A i : <<"pid", i>>[1] = "pid"
  OBVIOUS
<1> QED
  BY <1>1

\* A set of one process.
LEMMA OnlyMember ==
  ASSUME NEW S \in SUBSET Pids, S # {}, ~(Cardinality(S) > 1)
  PROVE  \A i \in S : (CHOOSE j \in S : TRUE) = i
<1>1. IsFiniteSet(S) /\ Cardinality(S) \in Nat
  BY PidsFinite, FS_Subset, FS_CardinalityType
<1>2. Cardinality(S) # 0
  BY <1>1, FS_EmptySet
<1>3. Cardinality(S) = 1
  BY <1>1, <1>2
<1>4. PICK x : S = {x}
  BY <1>1, <1>3, FS_Singleton
<1> QED
  BY <1>4

\* What the viewer shows of a page while there is a process.
LEMMA SymbolWithProcesses ==
  ASSUME IInv, NEW p \in Pages, Tabled # {}
  PROVE  /\ ~symbol_at(p).error
         /\ symbol_at(p).ch = <<"L">> <=> Referrers(p) = {} /\ used(p)
         /\ symbol_at(p).ch = <<".">> <=> ~used(p)
         /\ \A i \in Referrers(p) : symbol_at(p).ch \in {<<"pid", i>>, <<"S">>}
<1> DEFINE v == marks(p)
           both == v.kernel /\ v.user
           R == Referrers(p)
           k == CHOOSE i \in v.pids : TRUE
           ch == CASE v.pids = {} /\ used(p)      -> <<"L">>
                   [] v.pids = {} /\ ~used(p)     -> <<".">>
                   [] both                        -> <<"*">>
                   [] ~both /\ v.pids # {} /\ Cardinality(v.pids) > 1 -> <<"S">>
                   [] OTHER                       -> <<"pid", k>>
<1>1. /\ v.pids = R /\ v.kernel \in BOOLEAN /\ v.user \in BOOLEAN /\ ~both
      /\ v.kernel \/ v.user => R # {}
  BY MarksFacts
<1>2. valid(p) /\ (R # {} => used(p))
  BY CountFacts
<1>3. symbol_at(p).error = (~valid(p) \/ both \/ (v.user /\ ~used(p))) /\ symbol_at(p).ch = ch
  BY DEF symbol_at
<1>4. R # {} /\ ~(Cardinality(R) > 1) => \A i \in R : k = i
  <2>1. R \in SUBSET Pids
    BY DEF Referrers
  <2> HIDE DEF R, v
  <2> QED
    BY <1>1, <2>1, OnlyMember
<1> HIDE DEF v, R, k
<1>5. CASE R = {} /\ used(p)
  <2>1. ch = <<"L">>
    BY <1>1, <1>5
  <2> HIDE DEF ch
  <2> QED
    BY <1>1, <1>2, <1>3, <1>5, <2>1, Characters DEF R
<1>6. CASE R = {} /\ ~used(p)
  <2>1. ch = <<".">>
    BY <1>1, <1>6
  <2> HIDE DEF ch
  <2> QED
    BY <1>1, <1>2, <1>3, <1>6, <2>1, Characters DEF R
<1>7. CASE R # {} /\ Cardinality(R) > 1
  <2>1. ch = <<"S">>
    BY <1>1, <1>7
  <2> HIDE DEF ch
  <2> QED
    BY <1>1, <1>2, <1>3, <1>7, <2>1, Characters DEF R
<1>8. CASE R # {} /\ ~(Cardinality(R) > 1)
  <2>1. ch = <<"pid", k>>
    BY <1>1, <1>8
  <2> HIDE DEF ch
  <2> QED
    BY <1>1, <1>2, <1>3, <1>4, <1>8, <2>1, Characters DEF R
<1> QED
  BY <1>5, <1>6, <1>7, <1>8

\* What the viewer shows of a page when every process has exited: a page in use is L, or
\* the number of a process from PROC_START_ADDR on.
LEMMA SymbolWithout ==
  ASSUME IInv, NEW p \in Pages, Tabled = {}
  PROVE  /\ ~symbol_at(p).error
         /\ symbol_at(p).ch = <<"L">> <=> used(p) /\ p <= NLow
         /\ symbol_at(p).ch = <<".">> <=> ~used(p)
<1> DEFINE v == marks(p)
           both == v.kernel /\ v.user
           k == CHOOSE i \in v.pids : TRUE
           owned == used(p) /\ p > NLow
           owner == (p - NLow - 1) \div 64
           n == owner + 1
           ch == CASE v.pids = {} /\ used(p)      -> <<"L">>
                   [] v.pids = {} /\ ~used(p)     -> <<".">>
                   [] both                        -> <<"*">>
                   [] ~both /\ v.pids # {} /\ Cardinality(v.pids) > 1 -> <<"S">>
                   [] OTHER                       -> <<"pid", k>>
<1>1. /\ v.pids = IF owned THEN {n} ELSE {}
      /\ v.kernel = FALSE /\ v.user = owned
  BY DEF marks
<1>2. valid(p)
  BY CountFacts
<1>3. symbol_at(p).error = (~valid(p) \/ both \/ (v.user /\ ~used(p))) /\ symbol_at(p).ch = ch
  BY DEF symbol_at
<1>4. p > NLow <=> ~(p <= NLow)
  BY Constants, KernelAssumption DEF Pages
<1> HIDE DEF v, k, owner, n
<1>5. CASE owned
  <2>1. Cardinality(v.pids) = 1
    BY <1>1, <1>5, FS_Singleton
  <2>2. v.pids = {n} /\ v.pids # {}
    BY <1>1, <1>5
  <2>3. ~(Cardinality(v.pids) > 1)
    BY <2>1
  <2>4. ~both
    BY <1>1
  <2>5. ch = <<"pid", k>>
    BY <2>2, <2>3, <2>4
  <2> HIDE DEF ch
  <2> QED
    BY <1>1, <1>2, <1>3, <1>4, <1>5, <2>4, <2>5, Characters
<1>6. CASE used(p) /\ ~(p > NLow)
  <2>1. v.pids = {} /\ used(p) /\ v.kernel = FALSE
    BY <1>1, <1>6
  <2>2. ch = <<"L">>
    BY <2>1
  <2>3. ~both /\ v.user = FALSE
    BY <1>1, <1>6
  <2> HIDE DEF ch
  <2> QED
    BY <1>2, <1>3, <1>4, <1>6, <2>2, <2>3, Characters
<1>7. CASE ~used(p)
  <2>1. ch = <<".">>
    BY <1>1, <1>7
  <2>2. ~both /\ v.user = FALSE
    BY <1>1, <1>7
  <2> HIDE DEF ch
  <2> QED
    BY <1>2, <1>3, <1>7, <2>1, <2>2, Characters
<1> QED
  BY <1>5, <1>6, <1>7

\* Going round the processes from one of them reaches any other.
LEMMA Around ==
  ASSUME NEW n \in Nat, NEW a \in 0 .. n - 1, NEW j \in 0 .. n - 1
  PROVE  \E d \in 0 .. n - 1 : (a + d) % n = j
<1>1. CASE a <= j
  <2>1. j - a \in 0 .. n - 1 /\ a + (j - a) = j
    BY <1>1
  <2>2. j % n = j
    OBVIOUS
  <2> QED
    BY <2>1, <2>2
<1>2. CASE j < a
  <2>1. j - a + n \in 0 .. n - 1 /\ a + (j - a + n) = j + n
    BY <1>2
  <2>2. (j + n) % n = j
    OBVIOUS
  <2> QED
    BY <2>1, <2>2
<1> QED
  BY <1>1, <1>2

\* memshow finds a process if there is one.
LEMMA MemshowFinds ==
  ASSUME IInv, NEW showing \in Pids
  PROVE  IF Tabled = {} THEN memshow(showing) = 0 ELSE memshow(showing) \in Tabled
<1> DEFINE found == {d \in 0 .. PidMax - 1 : (showing + d) % PidMax \in Tabled}
           first == CHOOSE d \in found : \A e \in found : d <= e
<1>1. memshow(showing) = IF found = {} THEN 0 ELSE (showing + first) % PidMax
  BY DEF memshow
<1>2. CASE Tabled = {}
  BY <1>1, <1>2
<1>3. CASE Tabled # {}
  <2>1. PICK j \in Tabled : TRUE
    BY <1>3
  <2>2. j \in Pids
    BY TabledFacts
  <2>3. PICK d \in 0 .. PidMax - 1 : (showing + d) % PidMax = j
    BY <2>2, Around, Constants DEF Pids
  <2>4. d \in found
    BY <2>1, <2>3
  <2>5. first \in found
    <3>1. found \in SUBSET Nat /\ found # {}
      BY <2>4
    <3> HIDE DEF found
    <3> QED
      BY <3>1, LeastIsChosen
  <2> QED
    BY <1>1, <1>3, <2>4, <2>5
<1> QED
  BY <1>2, <1>3

\* What the viewer shows of the addresses of a process: nothing, its own number, or S.
LEMMA VirtualFacts ==
  ASSUME IInv, NEW i \in Tabled, NEW v \in Below
  PROVE  VirtualView(i)[v] \in {<<>>, <<"pid", i>>, <<"S">>}
<1> DEFINE e == ptable[i].pagetable.map[v]
           T == TablesOf(ptable)
<1>1. i \in Pids /\ T[i] = ptable[i].pagetable /\ Good(mem, T)
  BY TabledFacts DEF IInv
<1>a. v \in Vas
  BY DEF Vas
<1>2. VirtualView(i)[v] = IF e = NoEntry THEN <<>> ELSE symbol_at(e.pa).ch
  BY DEF VirtualView
<1>3. CASE e = NoEntry
  BY <1>2, <1>3
<1>4. CASE e # NoEntry
  <2>1. e.pa \in Pages
    BY <1>1, <1>4, <1>a, MappedIsUsed
  <2>2. i \in Referrers(e.pa)
    <3>1. v \in Slots /\ Page(T[i], v) = e.pa
      BY <1>1, <1>a, SlotType DEF Good
    <3> QED
      BY <1>1, <3>1 DEF Referrers
  <2> HIDE DEF e
  <2>3. symbol_at(e.pa).ch \in {<<"pid", i>>, <<"S">>}
    BY <2>1, <2>2, SymbolWithProcesses
  <2> QED
    BY <1>2, <1>4, <2>3
<1> QED
  BY <1>3, <1>4

\* The viewer finds no error, marks as free just what can be allocated and as lost just
\* what nobody can reach, but for the lost pages from PROC_START_ADDR on once no process
\* is left, and shows of a process what it has: the counts that kalloc, fork and
\* free_pagetable keep are what memusage::refresh and symbol_at expect of them.
THEOREM ViewerIsRight == DataOnly /\ Spec => []ViewerTellsTheTruth
<1>1. ASSUME IInv PROVE ViewerTellsTheTruth
  <2> SUFFICES ASSUME NEW showing \in Pids
               PROVE  LET i == memshow(showing)
                          screen == console_memviewer(i)
                      IN  /\ screen.asserts
                          /\ \A p \in Pages :
                               LET sym == screen.physical[p] IN
                               /\ ~sym.error
                               /\ (sym.ch = <<"L">>) = (used(p) /\ Uses(p) = 0 /\ (Tabled = {} => p <= NLow))
                               /\ (sym.ch = <<".">>) = ~used(p)
                          /\ (screen.virtual = <<>>) = (\A k \in Pids : ptable[k].state = "FREE")
                          /\ \A n \in DOMAIN screen.virtual, v \in Below :
                               screen.virtual[n][v] \in {<<>>, <<"pid", i>>, <<"S">>}
    BY DEF ViewerTellsTheTruth
  <2> DEFINE i == memshow(showing)
             screen == console_memviewer(i)
  <2>1. /\ screen.asserts = (ptable[0].state = "FREE")
        /\ \A p \in Pages : screen.physical[p] = symbol_at(p)
        /\ screen.virtual = IF i = 0 THEN <<>> ELSE <<VirtualView(i)>>
    BY DEF console_memviewer
  <2>2. screen.asserts
    BY <1>1, <2>1 DEF IInv, ProcInv
  <2>3. IF Tabled = {} THEN i = 0 ELSE i \in Tabled /\ i # 0
    BY <1>1, MemshowFinds, TabledFacts
  <2>4. Tabled = {} <=> \A k \in Pids : ptable[k].state = "FREE"
    BY <1>1, TabledFacts
  <2> HIDE DEF i, screen
  <2>5. ASSUME NEW p \in Pages
        PROVE  LET sym == screen.physical[p] IN
               /\ ~sym.error
               /\ (sym.ch = <<"L">>) = (used(p) /\ Uses(p) = 0 /\ (Tabled = {} => p <= NLow))
               /\ (sym.ch = <<".">>) = ~used(p)
    <3>1. screen.physical[p] = symbol_at(p)
      BY <2>1
    <3>2. CASE Tabled = {}
      <4>1. Referrers(p) = {}
        BY <1>1, <3>2, TabledFacts
      <4>2. Uses(p) = 0
        BY <1>1, <4>1, CountFacts
      <4> QED
        BY <1>1, <3>1, <3>2, <4>2, SymbolWithout
    <3>3. CASE Tabled # {}
      BY <1>1, <3>1, <3>3, SymbolWithProcesses, CountFacts
    <3> QED
      BY <3>2, <3>3
  <2>6. (screen.virtual = <<>>) = (\A k \in Pids : ptable[k].state = "FREE")
    <3>1. \A x : <<x>> # <<>>
      OBVIOUS
    <3> QED
      BY <2>1, <2>3, <2>4, <3>1
  <2>7. ASSUME NEW n \in DOMAIN screen.virtual, NEW v \in Below
        PROVE  screen.virtual[n][v] \in {<<>>, <<"pid", i>>, <<"S">>}
    <3>1. CASE Tabled = {}
      BY <2>1, <2>3, <3>1
    <3>2. CASE Tabled # {}
      <4>1. screen.virtual[n] = VirtualView(i) /\ i \in Tabled
        BY <2>1, <2>3, <3>2
      <4> QED
        BY <1>1, <4>1, VirtualFacts
    <3> QED
      BY <3>1, <3>2
  <2> QED
    BY <2>2, <2>5, <2>6, <2>7 DEF i, screen
<1> QED
  BY <1>1, IInvHolds, PTL

-----------------------------------------------------------------------------
(* The keyboard (WeensyKeyboard), which shares no state with the kernel above. *)

\* Is the byte at i read behind an 0xE0, and which key and which character is it?
Escaped(i) == IF i = 1 THEN last_escape ELSE wire[i - 1].code = "E0"
KeyAt(i) == [code |-> wire[i].code, ext |-> Escaped(i)]
KindAt(i) == keymap(wire[i].code, Escaped(i))

Codes == {"E0"} \cup {k.code : k \in Keyboard}

KeyboardTypeOK ==
  /\ wire \in Seq([code : Codes, up : BOOLEAN])
  /\ held \subseteq Keyboard
  /\ modifiers \subseteq Holding \cup {"KEY_CAPSLOCK"}
  /\ last_escape \in BOOLEAN /\ caps \in BOOLEAN /\ power \in BOOLEAN

\* The bytes are those of whole keys: behind an 0xE0 comes a byte that is none.
WholeKeys ==
  /\ \A i \in 1..Len(wire) : IF wire[i].code = "E0" THEN i < Len(wire) /\ ~Escaped(i)
                             ELSE KeyAt(i) \in Keyboard
  /\ Len(wire) = 0 => ~last_escape

\* A modifier that the bytes still to be read leave on has a key that is down: the key
\* of its last byte, and when it has none there, any.
ModifiersToCome ==
  \A m \in Holding :
    /\ \A i \in 1..Len(wire) :
         /\ KindAt(i) = m /\ ~wire[i].up
         /\ \A j \in (i + 1)..Len(wire) : KindAt(j) # m
         => KeyAt(i) \in held
    /\ m \in modifiers /\ (\A i \in 1..Len(wire) : KindAt(i) # m)
         => \E k \in held : KindOf(k) = m

CapslockInv == ("KEY_CAPSLOCK" \in modifiers) = caps

KeyboardInv == KeyboardTypeOK /\ WholeKeys /\ ModifiersToCome /\ CapslockInv

\* What keymap says of the bytes of a keyboard: 0xE0 is no modifier, and only the
\* capslock key itself is that.
LEMMA KeymapFacts ==
  /\ "E0" \in Codes
  /\ \A e \in BOOLEAN : keymap("E0", e) \notin Holding \cup {"KEY_CAPSLOCK", "letter"}
  /\ \A k \in Keyboard : k.code # "E0" /\ k.code \in Codes /\ k.ext \in BOOLEAN
                         /\ (keymap(k.code, k.ext) = "KEY_CAPSLOCK") = (keymap(k.code, FALSE) = "KEY_CAPSLOCK")
BY DEF keymap, Holding, Keyboard, Codes

\* A key that goes down or up: the bytes before stay, and the last one is that key.
LEMMA StrikeAppends ==
  ASSUME KeyboardTypeOK, WholeKeys, NEW k \in Keyboard, NEW up \in BOOLEAN,
         wire' = wire \o Bytes(k, up), last_escape' = last_escape,
         NEW n, n = Len(wire), NEW last, last = Len(wire')
  PROVE  /\ wire' \in Seq([code : Codes, up : BOOLEAN])
         /\ n \in Nat /\ last = n + (IF k.ext THEN 2 ELSE 1)
         /\ \A i \in 1..n : wire'[i] = wire[i] /\ Escaped(i)' = Escaped(i)
         /\ wire'[last].code = k.code /\ wire'[last].up = up
         /\ Escaped(last)' = k.ext
         /\ k.ext => wire'[n + 1].code = "E0" /\ ~Escaped(n + 1)'
<1> DEFINE b == [code |-> k.code, up |-> up]
<1> k.code \in Codes /\ k.ext \in BOOLEAN
  BY KeymapFacts
<1>1. b \in [code : Codes, up : BOOLEAN] /\ b.code = k.code /\ b.up = up
  OBVIOUS
<1>2. E0 \in [code : Codes, up : BOOLEAN] /\ E0.code = "E0"
  <2> DEFINE F == FALSE
  <2>1. F \in BOOLEAN
    OBVIOUS
  <2> HIDE DEF F
  <2>2. [code |-> "E0", up |-> F] \in [code : Codes, up : BOOLEAN]
    BY <2>1, KeymapFacts
  <2> QED BY <2>2 DEF E0, F
<1>3. Bytes(k, up) = IF k.ext THEN <<E0>> \o <<b>> ELSE <<>> \o <<b>>
  BY DEF Bytes
<1> HIDE DEF b
<1>4. n \in Nat
  BY DEF KeyboardTypeOK
<1>5. /\ wire' \in Seq([code : Codes, up : BOOLEAN])
      /\ last = n + (IF k.ext THEN 2 ELSE 1)
      /\ \A i \in 1..n : wire'[i] = wire[i]
      /\ wire'[last] = b
      /\ k.ext => wire'[n + 1] = E0
  <2>1. CASE k.ext
    <3>1. wire' = wire \o (<<E0>> \o <<b>>)
      BY <1>3, <2>1
    <3> QED BY <1>1, <1>2, <2>1, <3>1 DEF KeyboardTypeOK
  <2>2. CASE ~k.ext
    <3>1. wire' = wire \o <<b>>
      BY <1>1, <1>3, <2>2
    <3> QED BY <1>1, <2>2, <3>1 DEF KeyboardTypeOK
  <2> QED BY <2>1, <2>2
<1>6. ~Escaped(n + 1)'
  <2>1. CASE n = 0
    BY <2>1 DEF WholeKeys, Escaped
  <2>2. CASE n # 0
    <3>1. n \in 1..n /\ n + 1 # 1 /\ n + 1 - 1 = n /\ ~(n < n)
      BY <1>4, <2>2
    <3>2. wire[n].code # "E0"
      BY <3>1 DEF WholeKeys
    <3> QED BY <1>5, <3>1, <3>2 DEF Escaped
  <2> QED BY <2>1, <2>2
<1>7. \A i \in 1..n : Escaped(i)' = Escaped(i)
  <2> TAKE i \in 1..n
  <2>1. i = 1 \/ i - 1 \in 1..n
    BY <1>4
  <2> QED BY <1>5, <2>1 DEF Escaped
<1>8. Escaped(last)' = k.ext
  <2>1. CASE k.ext
    <3>1. last # 1 /\ last - 1 = n + 1
      BY <1>4, <1>5, <2>1
    <3>2. Escaped(last)' = TRUE
      BY <1>2, <1>5, <2>1, <3>1 DEF Escaped
    <3>3. k.ext = TRUE
      BY <2>1
    <3> QED BY <3>2, <3>3
  <2>2. CASE ~k.ext
    <3>1. ~Escaped(last)' /\ Escaped(last)' \in BOOLEAN
      BY <1>5, <1>6, <2>2 DEF Escaped, KeyboardTypeOK
    <3> QED BY <2>2, <3>1
  <2> QED BY <2>1, <2>2
<1> QED BY <1>1, <1>2, <1>4, <1>5, <1>6, <1>7, <1>8

\* A byte that is read: the others move up, and each is the byte of the same key.
LEMMA ReadDrops ==
  ASSUME KeyboardTypeOK, wire # <<>>, wire' = Tail(wire), last_escape' = (wire[1].code = "E0")
  PROVE  /\ wire' \in Seq([code : Codes, up : BOOLEAN])
         /\ Len(wire') = Len(wire) - 1 /\ Len(wire) \in Nat \ {0}
         /\ \A i \in 1..Len(wire') : /\ i + 1 \in 1..Len(wire)
                                    /\ wire'[i] = wire[i + 1] /\ Escaped(i)' = Escaped(i + 1)
<1>1. /\ wire' \in Seq([code : Codes, up : BOOLEAN])
      /\ Len(wire') = Len(wire) - 1 /\ Len(wire) \in Nat \ {0}
      /\ \A i \in 1..Len(wire') : i + 1 \in 1..Len(wire) /\ wire'[i] = wire[i + 1]
  BY DEF KeyboardTypeOK
<1>2. \A i \in 1..Len(wire') : Escaped(i)' = Escaped(i + 1)
  <2> TAKE i \in 1..Len(wire')
  <2>1. CASE i = 1
    BY <2>1 DEF Escaped
  <2>2. CASE i # 1
    <3>1. i - 1 \in 1..Len(wire') /\ (i - 1) + 1 = i /\ (i + 1) - 1 = i /\ i + 1 # 1
      BY <1>1, <2>2
    <3> QED BY <1>1, <2>2, <3>1 DEF Escaped
  <2> QED BY <2>1, <2>2
<1> QED BY <1>1, <1>2

\* Striking a key keeps the invariant: its last byte says whether it is down.
LEMMA StrikeStep ==
  ASSUME KeyboardInv, NEW k \in Keyboard, NEW up \in BOOLEAN, Strike(k, up)
  PROVE  KeyboardInv'
<1> USE DEF KeyboardInv
<1>0. wire' = wire \o Bytes(k, up) /\ last_escape' = last_escape
      /\ held' = (IF up THEN held \ {k} ELSE held \cup {k}) /\ modifiers' = modifiers
      /\ caps' = caps /\ power' = power
  BY DEF Strike
<1>n. PICK n : n = Len(wire)
  OBVIOUS
<1>l. PICK last : last = Len(wire')
  OBVIOUS
<1>1. /\ wire' \in Seq([code : Codes, up : BOOLEAN])
      /\ n \in Nat /\ last = n + (IF k.ext THEN 2 ELSE 1)
      /\ \A i \in 1..n : wire'[i] = wire[i] /\ Escaped(i)' = Escaped(i)
      /\ wire'[last].code = k.code /\ wire'[last].up = up
      /\ Escaped(last)' = k.ext
      /\ k.ext => wire'[n + 1].code = "E0" /\ ~Escaped(n + 1)'
  BY <1>0, <1>n, <1>l, StrikeAppends
<1>2. last \in Nat /\ n < last /\ last \in 1..last
      /\ \A i \in 1..last : i \in 1..n \/ i = last \/ (i = n + 1 /\ k.ext /\ i < last)
  BY <1>1
<1>3. KeyboardTypeOK'
  BY <1>0, <1>1 DEF KeyboardTypeOK
<1>4. /\ \A i \in 1..n : KindAt(i)' = KindAt(i) /\ KeyAt(i)' = KeyAt(i)
      /\ KindAt(last)' = KindOf(k) /\ KeyAt(last)' = k
  <2>1. \A i \in 1..n : KindAt(i)' = KindAt(i) /\ KeyAt(i)' = KeyAt(i)
    BY <1>1 DEF KindAt, KeyAt
  <2>2. KindAt(last)' = KindOf(k)
    BY <1>1 DEF KindAt, KindOf
  <2>3. k = [code |-> k.code, ext |-> k.ext]
    BY DEF Keyboard
  <2>4. KeyAt(last)' = [code |-> k.code, ext |-> k.ext]
    BY <1>1 DEF KeyAt
  <2> QED BY <2>1, <2>2, <2>3, <2>4
<1>5. WholeKeys'
  <2>1. ASSUME NEW i \in 1..last
        PROVE  IF wire'[i].code = "E0" THEN i < last /\ ~Escaped(i)' ELSE KeyAt(i)' \in Keyboard
    <3>1. CASE i \in 1..n
      BY <1>1, <1>2, <1>4, <1>n, <3>1 DEF WholeKeys
    <3>2. CASE i = last
      <4>1. wire'[i].code # "E0" /\ KeyAt(i)' \in Keyboard
        BY <1>1, <1>4, <3>2, KeymapFacts
      <4> QED BY <4>1
    <3>3. CASE i = n + 1 /\ k.ext /\ i < last
      BY <1>1, <3>3
    <3> QED BY <1>2, <2>1, <3>1, <3>2, <3>3
  <2>2. Len(wire') # 0
    BY <1>1, <1>2, <1>l
  <2> QED BY <1>l, <2>1, <2>2 DEF WholeKeys
<1>6. ModifiersToCome'
  <2> SUFFICES ASSUME NEW m \in Holding
               PROVE  /\ \A i \in 1..last :
                           /\ KindAt(i)' = m /\ ~wire'[i].up
                           /\ \A j \in (i + 1)..last : KindAt(j)' # m
                           => KeyAt(i)' \in held'
                      /\ m \in modifiers' /\ (\A i \in 1..last : KindAt(i)' # m)
                           => \E key \in held' : KindOf(key) = m
    BY <1>l DEF ModifiersToCome
  <2>1. CASE KindOf(k) = m
    <3>1. ASSUME NEW i \in 1..last, ~wire'[i].up, KindAt(i)' = m, \A j \in (i + 1)..last : KindAt(j)' # m
          PROVE  KeyAt(i)' \in held'
      <4>1. i = last
        <5>1. i < last => last \in (i + 1)..last
          BY <1>2
        <5> QED BY <1>2, <1>4, <2>1, <3>1, <5>1
      <4> QED BY <1>0, <1>1, <1>4, <3>1, <4>1
    <3>2. ~(\A i \in 1..last : KindAt(i)' # m)
      BY <1>2, <1>4, <2>1
    <3> QED BY <3>1, <3>2
  <2>2. CASE KindOf(k) # m
    <3>1. \A key : KindOf(key) = m /\ key \in held => key \in held'
      BY <1>0, <2>2
    <3>2. \A i \in 1..last : KindAt(i)' = m => i \in 1..n
      <4> TAKE i \in 1..last
      <4>1. CASE i = n + 1 /\ k.ext /\ i < last
        <5>1. KindAt(i)' = keymap("E0", Escaped(i)')
          BY <1>1, <4>1 DEF KindAt
        <5>2. Escaped(i)' \in BOOLEAN
          BY <1>3 DEF Escaped, KeyboardTypeOK
        <5> QED BY <5>1, <5>2, KeymapFacts
      <4>2. CASE i = last
        BY <1>4, <2>2, <4>2
      <4> QED BY <1>2, <4>1, <4>2
    <3>3. ASSUME NEW i \in 1..last, ~wire'[i].up, KindAt(i)' = m, \A j \in (i + 1)..last : KindAt(j)' # m
          PROVE  KeyAt(i)' \in held'
      <4>1. i \in 1..n /\ KindAt(i) = m /\ ~wire[i].up /\ KeyAt(i)' = KeyAt(i)
        BY <1>1, <1>4, <3>2, <3>3
      <4>2. \A j \in (i + 1)..n : KindAt(j) # m
        <5> TAKE j \in (i + 1)..n
        <5>1. j \in 1..n /\ j \in (i + 1)..last
          BY <1>1, <1>2, <4>1
        <5> QED BY <1>4, <3>3, <5>1
      <4>3. KeyAt(i) \in held
        BY <1>n, <4>1, <4>2 DEF ModifiersToCome
      <4>4. KindOf(KeyAt(i)) = m
        BY <4>1 DEF KindOf, KindAt, KeyAt
      <4> QED BY <3>1, <4>1, <4>3, <4>4
    <3>4. ASSUME m \in modifiers', \A i \in 1..last : KindAt(i)' # m
          PROVE  \E key \in held' : KindOf(key) = m
      <4>1. \A i \in 1..n : KindAt(i) # m
        BY <1>1, <1>2, <1>4, <3>4
      <4>2. PICK key \in held : KindOf(key) = m
        BY <1>0, <1>n, <3>4, <4>1 DEF ModifiersToCome
      <4> QED BY <3>1, <4>2
    <3> QED BY <3>3, <3>4
  <2> QED BY <2>1, <2>2
<1> QED BY <1>0, <1>3, <1>5, <1>6 DEF CapslockInv

\* Reading a byte keeps the invariant: it turns on or off what its key is, and the
\* bytes behind it say what is to come; a restart only turns modifiers off.
LEMMA ReadStep ==
  ASSUME KeyboardInv, NEW does, check_keyboard(does)
  PROVE  KeyboardInv'
<1> USE DEF KeyboardInv
<1> DEFINE b == wire[1]  kind == keymap(wire[1].code, last_escape)
<1>0. wire # <<>> /\ Head(wire) = b /\ 1 \in 1..Len(wire) /\ KindAt(1) = kind
      /\ b.code \in Codes /\ b.up \in BOOLEAN
  <2>1. wire # <<>>
    BY DEF check_keyboard
  <2>2. Head(wire) = b /\ 1 \in 1..Len(wire)
    BY <2>1 DEF KeyboardTypeOK
  <2>4. b \in [code : Codes, up : BOOLEAN]
    <3> DEFINE Byte == [code : Codes, up : BOOLEAN]
    <3>1. wire \in Seq(Byte)
      BY DEF KeyboardTypeOK
    <3> HIDE DEF Byte
    <3>2. b \in Byte
      BY <2>2, <3>1
    <3> QED BY <3>2 DEF Byte
  <2>3. KindAt(1) = kind
    BY DEF KindAt, Escaped
  <2> QED BY <2>1, <2>2, <2>3, <2>4
<1>1. PICK reboots \in BOOLEAN :
        /\ reboots => kind = "letter" /\ b.code # "E0"
        /\ wire' = Tail(wire) /\ held' = held
        /\ modifiers' = IF reboots THEN {} ELSE ModifiersAfter(b)
        /\ last_escape' = (b.code = "E0")
        /\ caps' = IF reboots THEN FALSE ELSE caps # (~b.up /\ keymap(b.code, FALSE) = "KEY_CAPSLOCK")
        /\ power' \in BOOLEAN
  <2> DEFINE typed == IF ~b.up /\ kind = "letter" THEN Letter ELSE "none"
             reboots == does = "reboot" /\ typed = "lower"
  <2>1. reboots => kind = "letter"
    BY DEF Letter
  <2>2. reboots => b.code # "E0"
    BY <2>1, KeymapFacts DEF KeyboardTypeOK
  <2>3. reboots \in BOOLEAN
    OBVIOUS
  <2>4. /\ wire' = Tail(wire) /\ held' = held
        /\ modifiers' = IF reboots THEN {} ELSE ModifiersAfter(b)
        /\ last_escape' = IF reboots THEN FALSE ELSE EscapeAfter(b)
        /\ caps' = IF reboots THEN FALSE ELSE caps # (~b.up /\ keymap(b.code, FALSE) = "KEY_CAPSLOCK")
        /\ power' = (does # "poweroff")
    BY <1>0 DEF check_keyboard
  <2> HIDE DEF reboots
  <2>5. last_escape' = (b.code = "E0")
    BY <2>2, <2>3, <2>4 DEF EscapeAfter
  <2> WITNESS reboots \in BOOLEAN
  <2> QED BY <2>1, <2>2, <2>4, <2>5
<1>2. /\ wire' \in Seq([code : Codes, up : BOOLEAN])
      /\ Len(wire') = Len(wire) - 1 /\ Len(wire) \in Nat \ {0}
      /\ \A i \in 1..Len(wire') : /\ i + 1 \in 1..Len(wire)
                                 /\ wire'[i] = wire[i + 1] /\ Escaped(i)' = Escaped(i + 1)
  BY <1>0, <1>1, ReadDrops
<1>3. \A i \in 1..Len(wire') : KindAt(i)' = KindAt(i + 1) /\ KeyAt(i)' = KeyAt(i + 1)
  BY <1>2 DEF KindAt, KeyAt
<1> HIDE DEF b, kind
<1>4. /\ modifiers' \subseteq Holding \cup {"KEY_CAPSLOCK"}
      /\ \A m \in Holding : m \in modifiers' => IF kind = m THEN ~b.up ELSE m \in modifiers
  <2>1. b.code = "E0" => kind \notin Holding
    BY KeymapFacts DEF KeyboardTypeOK, kind, b
  <2>2. "KEY_CAPSLOCK" \notin Holding
    BY DEF Holding
  <2> QED BY <1>1, <2>1, <2>2 DEF ModifiersAfter, KeyboardTypeOK, kind, b
<1>5. caps' = ("KEY_CAPSLOCK" \in modifiers')
  <2>1. (kind = "KEY_CAPSLOCK") = (keymap(b.code, FALSE) = "KEY_CAPSLOCK")
    <3>1. CASE b.code = "E0"
      BY <3>1, KeymapFacts DEF KeyboardTypeOK, kind, b
    <3>2. CASE b.code # "E0"
      <4>1. KeyAt(1) \in Keyboard
        BY <1>0, <3>2 DEF WholeKeys, b
      <4>2. KeyAt(1).code = b.code /\ KeyAt(1).ext = last_escape
        BY DEF KeyAt, Escaped, b
      <4> QED BY <4>1, <4>2, KeymapFacts DEF kind, b
    <3> QED BY <3>1, <3>2
  <2>2. "KEY_CAPSLOCK" \notin Holding
    BY DEF Holding
  <2>3. b.code = "E0" => kind # "KEY_CAPSLOCK"
    BY KeymapFacts DEF KeyboardTypeOK, kind, b
  <2>4. ModifiersAfter(b) =
          IF b.code = "E0" THEN modifiers
          ELSE IF b.up THEN IF kind \in Holding THEN modifiers \ {kind} ELSE modifiers
          ELSE IF kind = "KEY_CAPSLOCK"
               THEN IF kind \in modifiers THEN modifiers \ {kind} ELSE modifiers \cup {kind}
          ELSE IF kind \in Holding THEN modifiers \cup {kind} ELSE modifiers
    BY DEF ModifiersAfter, kind, b
  <2>5. ("KEY_CAPSLOCK" \in ModifiersAfter(b))
          = (("KEY_CAPSLOCK" \in modifiers) # (~b.up /\ kind = "KEY_CAPSLOCK"))
    <3>1. CASE b.code # "E0" /\ ~b.up /\ kind = "KEY_CAPSLOCK"
      BY <2>4, <3>1
    <3>2. CASE ~(b.code # "E0" /\ ~b.up /\ kind = "KEY_CAPSLOCK")
      BY <2>2, <2>3, <2>4, <3>2
    <3> QED BY <2>3, <3>1, <3>2
  <2>6. CASE reboots
    <3>1. caps' = FALSE /\ modifiers' = {}
      BY <1>1, <2>6
    <3>2. ("KEY_CAPSLOCK" \in modifiers') = FALSE
      BY <3>1
    <3> QED BY <3>1, <3>2
  <2>7. CASE ~reboots
    <3>1. caps' = (caps # (~b.up /\ kind = "KEY_CAPSLOCK")) /\ modifiers' = ModifiersAfter(b)
      BY <1>1, <2>1, <2>7
    <3> QED BY <2>5, <3>1 DEF CapslockInv
  <2> QED BY <1>1, <2>6, <2>7
<1>6. KeyboardTypeOK'
  BY <1>1, <1>2, <1>4, <1>5 DEF KeyboardTypeOK
<1>7. WholeKeys'
  <2>1. ASSUME NEW i \in 1..Len(wire')
        PROVE  IF wire'[i].code = "E0" THEN i < Len(wire') /\ ~Escaped(i)' ELSE KeyAt(i)' \in Keyboard
    <3>1. IF wire[i + 1].code = "E0" THEN i + 1 < Len(wire) /\ ~Escaped(i + 1)
          ELSE KeyAt(i + 1) \in Keyboard
      BY <1>2, <2>1 DEF WholeKeys
    <3> QED BY <1>2, <1>3, <2>1, <3>1
  <2>2. ASSUME Len(wire') = 0 PROVE ~last_escape'
    <3>1. ~(1 < Len(wire))
      <4>1. Len(wire') = Len(wire) - 1 /\ Len(wire) \in Nat \ {0}
        BY <1>2
      <4>2. \A l \in Nat \ {0} : l - 1 = 0 => l = 1
        OBVIOUS
      <4>3. Len(wire) = 1
        BY <2>2, <4>1, <4>2
      <4> QED BY <4>3
    <3> QED BY <1>0, <1>1, <3>1 DEF WholeKeys, b
  <2> QED BY <2>1, <2>2 DEF WholeKeys
<1>8. ModifiersToCome'
  <2> SUFFICES ASSUME NEW m \in Holding
               PROVE  /\ \A i \in 1..Len(wire') :
                           /\ KindAt(i)' = m /\ ~wire'[i].up
                           /\ \A j \in (i + 1)..Len(wire') : KindAt(j)' # m
                           => KeyAt(i)' \in held'
                      /\ m \in modifiers' /\ (\A i \in 1..Len(wire') : KindAt(i)' # m)
                           => \E key \in held' : KindOf(key) = m
    BY DEF ModifiersToCome
  <2>1. \A j \in 2..Len(wire) : j - 1 \in 1..Len(wire') /\ KindAt(j - 1)' = KindAt(j)
    <3> TAKE j \in 2..Len(wire)
    <3>1. j - 1 \in 1..Len(wire') /\ (j - 1) + 1 = j
      BY <1>2
    <3> QED BY <1>3, <3>1
  <2>2. ASSUME NEW i \in 1..Len(wire'), ~wire'[i].up, KindAt(i)' = m,
               \A j \in (i + 1)..Len(wire') : KindAt(j)' # m
        PROVE  KeyAt(i)' \in held'
    <3>1. i + 1 \in 1..Len(wire) /\ KindAt(i + 1) = m /\ ~wire[i + 1].up
          /\ KeyAt(i)' = KeyAt(i + 1)
      BY <1>2, <1>3, <2>2
    <3>2. \A j \in ((i + 1) + 1)..Len(wire) : KindAt(j) # m
      <4> TAKE j \in ((i + 1) + 1)..Len(wire)
      <4>1. j \in 2..Len(wire) /\ j - 1 \in (i + 1)..Len(wire')
        BY <1>2
      <4> QED BY <2>1, <2>2, <4>1
    <3> QED BY <1>1, <3>1, <3>2 DEF ModifiersToCome
  <2>3. ASSUME m \in modifiers', \A i \in 1..Len(wire') : KindAt(i)' # m
        PROVE  \E key \in held' : KindOf(key) = m
    <3>1. \A j \in 2..Len(wire) : KindAt(j) # m
      BY <2>1, <2>3
    <3>2. CASE kind = m
      <4>1. KeyAt(1) \in held
        BY <1>0, <1>4, <2>3, <3>1, <3>2 DEF ModifiersToCome, b
      <4>2. KindOf(KeyAt(1)) = m
        BY <1>0, <3>2 DEF KindOf, KeyAt, KindAt
      <4> QED BY <1>1, <4>1, <4>2
    <3>3. CASE kind # m
      <4>1. \A j \in 1..Len(wire) : KindAt(j) # m
        <5> TAKE j \in 1..Len(wire)
        <5>1. j = 1 \/ j \in 2..Len(wire)
          BY <1>2
        <5> QED BY <1>0, <3>1, <3>3, <5>1
      <4> QED BY <1>1, <1>4, <2>3, <3>3, <4>1 DEF ModifiersToCome
    <3> QED BY <3>2, <3>3
  <2> QED BY <2>2, <2>3
<1> QED BY <1>5, <1>6, <1>7, <1>8 DEF CapslockInv

KeyboardSpec == KeyboardInit /\ [][KeyboardNext]_keyboardVars

\* The invariant of the keyboard holds, however many bytes its controller can keep and
\* whichever keys are held together.
THEOREM KeyboardInvHolds == KeyboardSpec => []KeyboardInv
<1>1. KeyboardInit => KeyboardInv
  <2> SUFFICES ASSUME KeyboardInit PROVE KeyboardInv
    OBVIOUS
  <2>1. wire = <<>> /\ held = {} /\ modifiers = {} /\ ~last_escape
        /\ last_escape \in BOOLEAN /\ caps \in BOOLEAN /\ power \in BOOLEAN /\ ~caps
    BY DEF KeyboardInit
  <2>2. Len(wire) = 0 /\ \A i \in 1..Len(wire) : FALSE
    BY <2>1
  <2>3. KeyboardTypeOK
    BY <2>1 DEF KeyboardTypeOK
  <2>4. WholeKeys /\ ModifiersToCome
    BY <2>1, <2>2 DEF WholeKeys, ModifiersToCome
  <2>5. CapslockInv
    BY <2>1 DEF CapslockInv
  <2> QED BY <2>3, <2>4, <2>5 DEF KeyboardInv
<1>2. KeyboardInv /\ [KeyboardNext]_keyboardVars => KeyboardInv'
  <2> SUFFICES ASSUME KeyboardInv, [KeyboardNext]_keyboardVars PROVE KeyboardInv'
    OBVIOUS
  <2>1. CASE \E k \in Keyboard, up \in BOOLEAN : Strike(k, up)
    BY <2>1, StrikeStep
  <2>2. CASE \E does \in {"reboot", "poweroff", "nothing"} : check_keyboard(does)
    BY <2>2, ReadStep
  <2>3. CASE UNCHANGED keyboardVars
    <3>1. /\ wire' = wire /\ held' = held /\ modifiers' = modifiers
          /\ last_escape' = last_escape /\ caps' = caps /\ power' = power
      BY <2>3 DEF keyboardVars
    <3>2. \A i : Escaped(i)' = Escaped(i)
      BY <3>1 DEF Escaped
    <3>3. \A i : KeyAt(i)' = KeyAt(i) /\ KindAt(i)' = KindAt(i)
      BY <3>1, <3>2 DEF KeyAt, KindAt
    <3> QED BY <3>1, <3>2, <3>3 DEF KeyboardInv, KeyboardTypeOK, WholeKeys, ModifiersToCome, CapslockInv
  <2> QED BY <2>1, <2>2, <2>3 DEF KeyboardNext
<1> QED BY <1>1, <1>2, PTL DEF KeyboardSpec

\* Modifiers follow the keys: when every byte has been read, none is stuck, capslock is
\* on after an odd number of presses, and no half of a key is remembered
\* (keyboard_readc and check_keyboard of k-hardware.cc).
THEOREM ModifiersAreRight == KeyboardSpec => []ModifiersFollowTheKeys
<1>1. KeyboardInv => ModifiersFollowTheKeys
  <2> SUFFICES ASSUME KeyboardInv, wire = <<>>
               PROVE  /\ ~last_escape
                      /\ \A m \in modifiers \cap Holding : \E k \in held : KindOf(k) = m
                      /\ ("KEY_CAPSLOCK" \in modifiers) = caps
    BY DEF ModifiersFollowTheKeys
  <2>1. \A i \in 1..Len(wire) : FALSE
    OBVIOUS
  <2> QED BY <2>1 DEF KeyboardInv, WholeKeys, ModifiersToCome, CapslockInv
<1> QED BY <1>1, KeyboardInvHolds, PTL

-----------------------------------------------------------------------------
(* The console *)

Chars == (Printers \cup {"nobody"}) \X Nat
Screen == [0 .. END_CPOS - 1 -> Chars]

\* What has been laid stands before the cell, in order, as much of it as fits.
Shows(screen, cell, laid) ==
  \A k \in Nat : k < Len(laid) /\ k < cell => screen[cell - 1 - k] = laid[Len(laid) - k]

ConsoleTypeOK ==
  /\ console \in Screen
  /\ cursorpos \in 0 .. END_CPOS
  /\ printers \in [Printers -> [open : BOOLEAN, cell : 0 .. END_CPOS, scroll : BOOLEAN, moves : BOOLEAN,
                                laid : Seq(Chars), alone : BOOLEAN]]
  /\ panicking \in BOOLEAN
  /\ last_words \in Seq(Chars)

\* Who is alone shows its text.
ShowsInv ==
  \A p \in Printers : printers[p].alone => Shows(console, printers[p].cell, printers[p].laid)

ConsoleInv == ConsoleTypeOK /\ ShowsInv

\* The size of the screen.
LEMMA ScreenSize ==
  /\ Rows \in Nat /\ Rows > 1 /\ Columns \in Nat /\ Columns >= 1
  /\ END_CPOS \in Nat /\ END_CPOS >= 2 * Columns
<1>1. Rows \in Nat /\ Rows > 1 /\ Columns \in Nat /\ Columns >= 1
  BY ConsoleAssumption
<1>2. \A r, c \in Nat : r > 1 => r * c \in Nat /\ r * c >= 2 * c
  <2> TAKE r, c \in Nat
  <2> HAVE r > 1
  <2>1. PICK d \in Nat : r = 2 + d
    <3>1. r - 2 \in Nat /\ r = 2 + (r - 2)
      OBVIOUS
    <3> QED BY <3>1
  <2>2. r * c = 2 * c + d * c /\ d * c \in Nat
    BY <2>1
  <2> QED BY <2>2
<1> QED BY <1>1, <1>2 DEF END_CPOS

\* The end of a row is on the screen.
LEMMA RowEnd ==
  ASSUME NEW a \in 0 .. END_CPOS - 1
  PROVE  Columns - (a % Columns) \in 1 .. Columns /\ a + (Columns - (a % Columns)) <= END_CPOS
<1>1. Rows \in Nat /\ Columns \in Nat /\ Columns >= 1 /\ a \in Nat
  BY ScreenSize
<1> DEFINE q == a \div Columns  r == a % Columns
<1>2. q \in Nat /\ r \in 0 .. Columns - 1 /\ a = Columns * q + r
  BY <1>1
<1> HIDE DEF q, r
<1>3. q < Rows
  <2> SUFFICES ASSUME q >= Rows PROVE FALSE
    BY <1>1, <1>2
  <2>1. PICK d \in Nat : q = Rows + d
    <3>1. q - Rows \in Nat /\ q = Rows + (q - Rows)
      BY <1>1, <1>2
    <3> QED BY <3>1
  <2>2. Columns * q = Rows * Columns + Columns * d /\ Columns * d \in Nat /\ Rows * Columns \in Nat
    BY <1>1, <2>1
  <2> QED BY <1>1, <1>2, <2>2 DEF END_CPOS
<1>4. Columns * q + Columns <= END_CPOS
  <2>1. PICK d \in Nat : Rows = q + 1 + d
    <3>1. Rows - (q + 1) \in Nat /\ Rows = q + 1 + (Rows - (q + 1))
      BY <1>1, <1>2, <1>3
    <3> QED BY <3>1
  <2>2. Rows * Columns = Columns * q + Columns + Columns * d /\ Columns * d \in Nat /\ Columns * q \in Nat
    BY <1>1, <1>2, <2>1
  <2> QED BY <1>1, <2>2 DEF END_CPOS
<1>5. Columns * q \in Nat
  BY <1>1, <1>2
<1>6. Columns - r \in 1 .. Columns /\ a + (Columns - r) <= END_CPOS
  BY <1>1, <1>2, <1>4, <1>5, ScreenSize
<1> QED BY <1>6 DEF r

\* A text of n cells more, behind the one that is shown.
LEMMA ShowsMore ==
  ASSUME NEW screen, NEW cell \in 0 .. END_CPOS, NEW laid, NEW n \in Nat, cell + n <= END_CPOS, NEW c,
         NEW scr, NEW text, Len(laid) \in Nat, Len(text) = Len(laid) + n,
         \A i \in 0 .. END_CPOS - 1 : scr[i] = IF i \in cell .. cell + n - 1 THEN c ELSE screen[i],
         \A i \in 1 .. Len(laid) : text[i] = laid[i],
         \A i \in Len(laid) + 1 .. Len(laid) + n : text[i] = c,
         Shows(screen, cell, laid)
  PROVE  Shows(scr, cell + n, text)
<1> SUFFICES ASSUME NEW k \in Nat, k < Len(text), k < cell + n
             PROVE  scr[cell + n - 1 - k] = text[Len(text) - k]
  BY DEF Shows
<1>1. k < Len(laid) + n /\ cell \in Nat /\ END_CPOS \in Nat
  BY ScreenSize
<1>2. CASE k < n
  <2>1. cell + n - 1 - k \in cell .. cell + n - 1 /\ cell + n - 1 - k \in 0 .. END_CPOS - 1
        /\ Len(text) - k \in Len(laid) + 1 .. Len(laid) + n
    BY <1>1, <1>2
  <2> QED BY <2>1
<1>3. CASE ~(k < n)
  <2>1. PICK j \in Nat : j = k - n
    BY <1>3
  <2>2. k = n + j /\ j < Len(laid) /\ j < cell
    BY <1>1, <2>1
  <2>3. cell + n - 1 - k = cell - 1 - j /\ Len(text) - k = Len(laid) - j
    BY <1>1, <2>2
  <2>4. cell - 1 - j \in 0 .. END_CPOS - 1 /\ cell - 1 - j \notin cell .. cell + n - 1
        /\ Len(laid) - j \in 1 .. Len(laid)
    BY <1>1, <2>2
  <2>5. screen[cell - 1 - j] = laid[Len(laid) - j]
    BY <2>2 DEF Shows
  <2> QED BY <2>3, <2>4, <2>5
<1> QED BY <1>2, <1>3

\* Cells that are written behind a text go on with it.
LEMMA StoreShows ==
  ASSUME NEW screen \in Screen, NEW cell \in 0 .. END_CPOS, NEW laid \in Seq(Chars),
         NEW n \in Nat, cell + n <= END_CPOS, NEW c \in Chars,
         NEW scr, scr = [i \in 0 .. END_CPOS - 1 |-> IF i \in cell .. cell + n - 1 THEN c ELSE screen[i]],
         NEW text, text = laid \o [k \in 1 .. n |-> c]
  PROVE  scr \in Screen /\ cell + n \in 0 .. END_CPOS /\ text \in Seq(Chars)
         /\ (Shows(screen, cell, laid) => Shows(scr, cell + n, text))
<1>1. scr \in Screen /\ cell + n \in 0 .. END_CPOS
  BY ScreenSize DEF Screen
<1>2. [k \in 1 .. n |-> c] \in Seq(Chars) /\ Len([k \in 1 .. n |-> c]) = n
  OBVIOUS
<1> DEFINE run == [k \in 1 .. n |-> c]
<1>3. \A k \in 1 .. n : run[k] = c
  OBVIOUS
<1> HIDE DEF run
<1>4. /\ text \in Seq(Chars) /\ Len(text) = Len(laid) + n /\ Len(laid) \in Nat
      /\ \A k \in 1 .. Len(laid) : text[k] = laid[k]
      /\ \A k \in Len(laid) + 1 .. Len(laid) + n : text[k] = c
  <2>1. run \in Seq(Chars) /\ Len(run) = n /\ text = laid \o run
    BY <1>2 DEF run
  <2>2. Len(laid) \in Nat
    OBVIOUS
  <2>3. ASSUME NEW k \in Len(laid) + 1 .. Len(laid) + n PROVE text[k] = c
    <3>1. k - Len(laid) \in 1 .. n
      BY <2>2
    <3>2. text[k] = run[k - Len(laid)]
      BY <2>1, <2>2, <3>1
    <3> QED BY <1>3, <3>1, <3>2
  <2>4. text \in Seq(Chars) /\ Len(text) = Len(laid) + n
    BY <2>1, <2>2
  <2>5. ASSUME NEW k \in 1 .. Len(laid) PROVE text[k] = laid[k]
    BY <2>1, <2>2
  <2> QED BY <2>2, <2>3, <2>4, <2>5
<1>5. \A i \in 0 .. END_CPOS - 1 : scr[i] = IF i \in cell .. cell + n - 1 THEN c ELSE screen[i]
  OBVIOUS
<1>6. ASSUME Shows(screen, cell, laid) PROVE Shows(scr, cell + n, text)
  <2>1. Len(laid) \in Nat /\ Len(text) = Len(laid) + n
    BY <1>4
  <2>2. \A i \in 1 .. Len(laid) : text[i] = laid[i]
    BY <1>4
  <2>3. \A i \in Len(laid) + 1 .. Len(laid) + n : text[i] = c
    BY <1>4
  <2> QED BY <1>5, <1>6, <2>1, <2>2, <2>3, ShowsMore, Zenon
<1> QED BY <1>1, <1>4, <1>6

\* Behind the last cell a printer goes to the last row, with all rows one up, or to
\* the first cell.
LEMMA ScrollShows ==
  ASSUME NEW screen \in Screen, NEW laid \in Seq(Chars), NEW b \in BOOLEAN,
         NEW t, t = scroll([console |-> screen, cell |-> END_CPOS, scroll |-> b, laid |-> laid])
  PROVE  /\ t = [console |-> t.console, cell |-> t.cell, scroll |-> b, laid |-> laid]
         /\ t.console \in Screen /\ t.cell \in 0 .. END_CPOS - 1
         /\ Shows(screen, END_CPOS, laid) => Shows(t.console, t.cell, laid)
<1> DEFINE s == [console |-> screen, cell |-> END_CPOS, scroll |-> b, laid |-> laid]
<1>1. CASE b
  <2> DEFINE scr == [i \in 0 .. END_CPOS - 1 |-> IF i < END_CPOS - Columns THEN screen[i + Columns] ELSE Space]
  <2>1. t = [console |-> scr, cell |-> END_CPOS - Columns, scroll |-> b, laid |-> laid]
    BY <1>1 DEF scroll
  <2>2. Space \in Chars
    BY DEF Space, Chars
  <2>3. scr \in Screen
    BY <2>2, ScreenSize DEF Screen
  <2>4. END_CPOS - Columns \in 0 .. END_CPOS - 1
    BY ScreenSize
  <2>5. ASSUME Shows(screen, END_CPOS, laid) PROVE Shows(scr, END_CPOS - Columns, laid)
    <3> SUFFICES ASSUME NEW k \in Nat, k < Len(laid), k < END_CPOS - Columns
                 PROVE  scr[END_CPOS - Columns - 1 - k] = laid[Len(laid) - k]
      BY DEF Shows
    <3>1. Len(laid) \in Nat
      OBVIOUS
    <3>2. k < END_CPOS
          /\ END_CPOS - Columns - 1 - k \in 0 .. END_CPOS - 1 /\ END_CPOS - Columns - 1 - k < END_CPOS - Columns
          /\ (END_CPOS - Columns - 1 - k) + Columns = END_CPOS - 1 - k
      BY <3>1, ScreenSize
    <3>3. screen[END_CPOS - 1 - k] = laid[Len(laid) - k]
      BY <2>5, <3>2 DEF Shows
    <3> QED BY <3>2, <3>3
  <2> HIDE DEF scr
  <2> QED BY <2>1, <2>3, <2>4, <2>5
<1>2. CASE ~b
  <2>1. t = [console |-> screen, cell |-> 0, scroll |-> b, laid |-> laid]
    BY <1>2 DEF scroll
  <2>2. Len(laid) \in Nat /\ 0 \in 0 .. END_CPOS - 1
    BY ScreenSize
  <2>3. Shows(screen, 0, laid)
    BY DEF Shows
  <2> QED BY <2>1, <2>2, <2>3
<1> QED BY <1>1, <1>2

\* A character or a newline behind a text goes on with it, wrapping or scrolling.
LEMMA PutcShows ==
  ASSUME NEW screen \in Screen, NEW cell \in 0 .. END_CPOS, NEW laid \in Seq(Chars), NEW b \in BOOLEAN,
         NEW c \in Chars,
         NEW s, s = putc([console |-> screen, cell |-> cell, scroll |-> b, laid |-> laid], c)
  PROVE  /\ s.console \in Screen /\ s.cell \in 0 .. END_CPOS /\ s.laid \in Seq(Chars)
         /\ Shows(screen, cell, laid) => Shows(s.console, s.cell, s.laid)
<1> DEFINE s0 == [console |-> screen, cell |-> cell, scroll |-> b, laid |-> laid]
<1>1. PICK t : t = IF s0.cell >= END_CPOS THEN scroll(s0) ELSE s0
  OBVIOUS
<1>2. /\ t = [console |-> t.console, cell |-> t.cell, scroll |-> b, laid |-> laid]
      /\ t.console \in Screen /\ t.cell \in 0 .. END_CPOS - 1
      /\ Shows(screen, cell, laid) => Shows(t.console, t.cell, laid)
  <2>1. CASE cell >= END_CPOS
    <3>1. cell = END_CPOS
      BY <2>1, ScreenSize
    <3>2. t = scroll([console |-> screen, cell |-> END_CPOS, scroll |-> b, laid |-> laid])
      BY <1>1, <2>1, <3>1
    <3>3. Shows(screen, cell, laid) = Shows(screen, END_CPOS, laid)
      BY <3>1
    <3> QED BY <3>2, <3>3, ScrollShows
  <2>2. CASE ~(cell >= END_CPOS)
    <3>1. t = s0 /\ cell \in 0 .. END_CPOS - 1
      BY <1>1, <2>2, ScreenSize
    <3> QED BY <3>1
  <2> QED BY <2>1, <2>2
<1>3. PICK n, ch : /\ n \in Nat /\ t.cell + n <= END_CPOS /\ ch \in Chars
                   /\ s = PutCells(t, n, ch)
  <2>1. s = IF c = Newline THEN PutCells(t, Columns - (t.cell % Columns), Space) ELSE PutCells(t, 1, c)
    BY <1>1 DEF putc
  <2>2. CASE c = Newline
    <3>1. Columns - (t.cell % Columns) \in Nat /\ t.cell + (Columns - (t.cell % Columns)) <= END_CPOS
      BY <1>2, RowEnd
    <3>2. Space \in Chars
      BY DEF Space, Chars
    <3> QED BY <2>1, <2>2, <3>1, <3>2
  <2>3. CASE c # Newline
    <3>1. t.cell + 1 <= END_CPOS
      BY <1>2, ScreenSize
    <3> QED BY <2>1, <2>3, <3>1
  <2> QED BY <2>2, <2>3
<1> DEFINE scr == [i \in 0 .. END_CPOS - 1 |-> IF i \in t.cell .. t.cell + n - 1 THEN ch ELSE t.console[i]]
           text == laid \o [k \in 1 .. n |-> ch]
<1>4. s = [console |-> scr, cell |-> t.cell + n, scroll |-> b, laid |-> text]
  <2>1. t.laid = laid /\ t.scroll = b
    BY <1>2
  <2>2. s = [t EXCEPT !.console = scr, !.cell = t.cell + n, !.laid = text]
    BY <1>3, <2>1 DEF PutCells
  <2> HIDE DEF scr, text
  <2>3. PICK scr1, cell1 : t = [console |-> scr1, cell |-> cell1, scroll |-> b, laid |-> laid]
    BY <1>2
  <2>4. t.cell = cell1 /\ s = [console |-> scr, cell |-> t.cell + n, scroll |-> b, laid |-> text]
    BY <2>2, <2>3
  <2> QED BY <2>4
<1>5. scr \in Screen /\ t.cell + n \in 0 .. END_CPOS /\ text \in Seq(Chars)
      /\ (Shows(t.console, t.cell, laid) => Shows(scr, t.cell + n, text))
  <2>1. t.cell \in 0 .. END_CPOS
    BY <1>2, ScreenSize
  <2> QED BY <1>2, <1>3, <2>1, StoreShows
<1> HIDE DEF scr, text
<1>6. s.console = scr /\ s.cell = t.cell + n /\ s.laid = text
  BY <1>2, <1>4
<1> QED BY <1>2, <1>5, <1>6

\* A printer prints a character: it goes on with its text, and whoever else is printing
\* is not alone any more.
LEMMA PrintsStep ==
  ASSUME ConsoleInv, NEW p \in Printers, NEW c \in Chars, Prints(p, c)
  PROVE  /\ console' \in Screen
         /\ printers' \in [Printers -> [open : BOOLEAN, cell : 0 .. END_CPOS, scroll : BOOLEAN, moves : BOOLEAN,
                                        laid : Seq(Chars), alone : BOOLEAN]]
         /\ ShowsInv'
<1> DEFINE Printer == [open : BOOLEAN, cell : 0 .. END_CPOS, scroll : BOOLEAN, moves : BOOLEAN,
                       laid : Seq(Chars), alone : BOOLEAN]
           q == printers[p]
<1>1. q \in Printer /\ console \in Screen /\ printers \in [Printers -> Printer]
  BY DEF ConsoleInv, ConsoleTypeOK
<1>2. PICK s : /\ s = putc([console |-> console, cell |-> q.cell, scroll |-> q.scroll, laid |-> q.laid], c)
               /\ console' = s.console
               /\ printers' = [Disturbed(printers) EXCEPT ![p] = [q EXCEPT !.cell = s.cell, !.laid = s.laid]]
  BY DEF Prints
<1>3. /\ s.console \in Screen /\ s.cell \in 0 .. END_CPOS /\ s.laid \in Seq(Chars)
      /\ Shows(console, q.cell, q.laid) => Shows(s.console, s.cell, s.laid)
  BY <1>1, <1>2, PutcShows
<1> HIDE DEF q
<1>4. /\ printers'[p] = [q EXCEPT !.cell = s.cell, !.laid = s.laid]
      /\ \A r \in Printers \ {p} : printers'[r] = [printers[r] EXCEPT !.alone = FALSE]
      /\ printers' = [r \in Printers |-> printers'[r]]
  BY <1>2 DEF Disturbed
<1>5. printers'[p] \in Printer /\ printers'[p].cell = s.cell /\ printers'[p].laid = s.laid
      /\ printers'[p].alone = q.alone
  BY <1>1, <1>3, <1>4
<1>6. ASSUME NEW r \in Printers \ {p} PROVE printers'[r] \in Printer /\ ~printers'[r].alone
  <2>1. printers[r] \in Printer
    BY <1>1
  <2> QED BY <1>4, <2>1
<1>7. printers' \in [Printers -> Printer]
  <2>1. \A r \in Printers : printers'[r] \in Printer
    BY <1>5, <1>6
  <2> HIDE DEF Printer
  <2> QED BY <1>4, <2>1
<1>8. ShowsInv'
  <2> SUFFICES ASSUME NEW r \in Printers, printers'[r].alone
               PROVE  Shows(console', printers'[r].cell, printers'[r].laid)
    BY DEF ShowsInv
  <2>1. r = p
    BY <1>6
  <2>2. Shows(console, q.cell, q.laid)
    BY <1>5, <2>1 DEF ConsoleInv, ShowsInv, q
  <2> QED BY <1>2, <1>3, <1>5, <2>1, <2>2
<1> QED BY <1>2, <1>3, <1>7, <1>8

\* Nobody who has been disturbed is alone.
LEMMA DisturbedFacts ==
  ASSUME ConsoleInv
  PROVE  /\ Disturbed(printers) \in [Printers -> [open : BOOLEAN, cell : 0 .. END_CPOS, scroll : BOOLEAN,
                                                 moves : BOOLEAN, laid : Seq(Chars), alone : BOOLEAN]]
         /\ \A r \in Printers : ~Disturbed(printers)[r].alone
<1> DEFINE Printer == [open : BOOLEAN, cell : 0 .. END_CPOS, scroll : BOOLEAN, moves : BOOLEAN,
                       laid : Seq(Chars), alone : BOOLEAN]
<1>1. ASSUME NEW r \in Printers
      PROVE  [printers[r] EXCEPT !.alone = FALSE] \in Printer /\ ~[printers[r] EXCEPT !.alone = FALSE].alone
  <2>1. printers[r] \in Printer
    BY DEF ConsoleInv, ConsoleTypeOK
  <2> QED BY <2>1
<1> HIDE DEF Printer
<1>2. Disturbed(printers) \in [Printers -> Printer] /\ \A r \in Printers : ~Disturbed(printers)[r].alone
  BY <1>1 DEF Disturbed
<1> QED BY <1>2 DEF Printer

\* The kernel begins its last words.
LEMMA PanicsStep ==
  ASSUME ConsoleInv, NEW n \in Nat, NEW cell \in 0 .. END_CPOS, NEW end \in Chars, Panics(n, cell, end),
         cursorpos' \in 0 .. END_CPOS
  PROVE  ConsoleInv'
<1> DEFINE Printer == [open : BOOLEAN, cell : 0 .. END_CPOS, scroll : BOOLEAN, moves : BOOLEAN,
                       laid : Seq(Chars), alone : BOOLEAN]
           b == TRUE
           q == [open |-> b, cell |-> cell, scroll |-> b, moves |-> b, laid |-> <<>>, alone |-> b]
<1>1. b \in BOOLEAN
  OBVIOUS
<1>2. /\ panicking' \in BOOLEAN /\ console' = console
      /\ last_words' = [k \in 1 .. n |-> <<Kernel, k>>] \o <<end, <<Kernel, n + 1>>, Newline>>
      /\ printers' = [Disturbed(printers) EXCEPT ![Kernel] = q]
  BY DEF Panics
<1> HIDE DEF b
<1>3. q \in Printer /\ q.cell = cell /\ q.laid = <<>>
  BY <1>1
<1>4. Kernel \in Printers
  BY DEF Printers
<1> HIDE DEF Printer, q
<1>5. /\ Disturbed(printers) \in [Printers -> Printer]
      /\ \A r \in Printers : ~Disturbed(printers)[r].alone
  BY DisturbedFacts DEF Printer
<1>6. /\ printers' \in [Printers -> Printer] /\ printers'[Kernel] = q
      /\ \A r \in Printers \ {Kernel} : ~printers'[r].alone
  BY <1>2, <1>3, <1>4, <1>5
<1>7. last_words' \in Seq(Chars)
  <2>1. Newline \in Chars /\ \A k \in Nat : <<Kernel, k>> \in Chars
    BY <1>4 DEF Newline, Chars
  <2>2. <<end, <<Kernel, n + 1>>, Newline>> \in Seq(Chars)
    BY <2>1
  <2>3. [k \in 1 .. n |-> <<Kernel, k>>] \in Seq(Chars)
    BY <2>1
  <2> QED BY <1>2, <2>2, <2>3
<1>8. ShowsInv'
  <2>1. Shows(console', q.cell, q.laid)
    BY <1>3 DEF Shows
  <2> QED BY <1>6, <2>1 DEF ShowsInv
<1> QED BY <1>2, <1>6, <1>7, <1>8 DEF ConsoleInv, ConsoleTypeOK, Printer

\* A word of the kernel is a character or, at the end of a line, maybe a newline.
LEMMA LastWordStep == ASSUME ConsoleInv, LastWord PROVE ConsoleInv'
<1>1. last_words # <<>> /\ last_words \in Seq(Chars) /\ last_words' = Tail(last_words) /\ panicking' = panicking
  BY DEF LastWord, ConsoleInv, ConsoleTypeOK
<1>2. Head(last_words) \in Chars /\ last_words' \in Seq(Chars)
  BY <1>1
<1>3. Newline \in Chars /\ Kernel \in Printers
  BY DEF Newline, Chars, Printers
<1>4. \/ UNCHANGED <<console, printers>> \/ Prints(Kernel, Newline)
      \/ Prints(Kernel, Head(last_words))
  BY DEF LastWord
<1>5. /\ console' \in Screen
      /\ printers' \in [Printers -> [open : BOOLEAN, cell : 0 .. END_CPOS, scroll : BOOLEAN, moves : BOOLEAN,
                                     laid : Seq(Chars), alone : BOOLEAN]]
      /\ ShowsInv'
  <2>1. CASE UNCHANGED <<console, printers>>
    BY <2>1 DEF ConsoleInv, ConsoleTypeOK, ShowsInv
  <2> QED BY <1>2, <1>3, <1>4, <2>1, PrintsStep
<1>6. cursorpos' \in 0 .. END_CPOS
  <2>1. cursorpos' = printers'[Kernel].cell \/ cursorpos' = cursorpos
    BY DEF LastWord
  <2> QED BY <1>3, <1>5, <2>1 DEF ConsoleInv, ConsoleTypeOK
<1>7. panicking' \in BOOLEAN
  BY <1>1 DEF ConsoleInv, ConsoleTypeOK
<1> QED BY <1>2, <1>5, <1>6, <1>7 DEF ConsoleInv, ConsoleTypeOK

\* Beginning to print, printing, and the end of it.
LEMMA ProgramStep ==
  ASSUME ConsoleInv, NEW p \in Programs,
         \/ \E cpos \in Positions : Begin(p, cpos)
         \/ \E c \in {<<p, Len(printers[p].laid)>>, Newline} : Put(p, c)
         \/ End(p)
  PROVE  ConsoleInv'
<1> DEFINE Printer == [open : BOOLEAN, cell : 0 .. END_CPOS, scroll : BOOLEAN, moves : BOOLEAN,
                       laid : Seq(Chars), alone : BOOLEAN]
<1>0. /\ p \in Printers /\ console \in Screen /\ cursorpos \in 0 .. END_CPOS
      /\ printers \in [Printers -> Printer] /\ panicking \in BOOLEAN /\ last_words \in Seq(Chars)
  BY DEF Printers, ConsoleInv, ConsoleTypeOK
<1>1. ASSUME NEW q \in Printer, q.laid = <<>>, printers' = [printers EXCEPT ![p] = q],
             console' = console, cursorpos' \in 0 .. END_CPOS, panicking' = panicking, last_words' = last_words
      PROVE  ConsoleInv'
  <2> HIDE DEF Printer
  <2>1. printers' \in [Printers -> Printer] /\ printers'[p] = q
        /\ \A r \in Printers \ {p} : printers'[r] = printers[r]
    BY <1>0, <1>1
  <2>2. Shows(console, q.cell, q.laid)
    BY <1>1 DEF Shows
  <2>3. ShowsInv'
    BY <1>1, <2>1, <2>2 DEF ShowsInv, ConsoleInv
  <2> QED BY <1>0, <1>1, <2>1, <2>3 DEF ConsoleInv, ConsoleTypeOK, Printer
<1>2. ASSUME NEW cpos \in Positions, Begin(p, cpos) PROVE ConsoleInv'
  <2> DEFINE t == TRUE
             m == cpos < 0
             q == [open |-> t, cell |-> CellOf(cpos), scroll |-> m, moves |-> m, laid |-> <<>>, alone |-> t]
  <2>1. t \in BOOLEAN /\ m \in BOOLEAN
    OBVIOUS
  <2>2. printers' = [printers EXCEPT ![p] = q] /\ UNCHANGED <<console, cursorpos, panicking, last_words>>
    BY <1>2 DEF Begin
  <2>3. CellOf(cpos) \in 0 .. END_CPOS
    <3>1. cpos \in Int
      BY ConsoleAssumption
    <3> QED BY <1>0, <3>1, ScreenSize DEF CellOf
  <2> HIDE DEF t, m
  <2>4. q \in Printer /\ q.laid = <<>>
    BY <2>1, <2>3
  <2> HIDE DEF q, Printer
  <2> QED BY <1>0, <1>1, <2>2, <2>4
<1>3. ASSUME NEW c \in {<<p, Len(printers[p].laid)>>, Newline}, Put(p, c) PROVE ConsoleInv'
  <2>1. printers[p].laid \in Seq(Chars)
    BY <1>0
  <2>2. Len(printers[p].laid) \in Nat
    BY <2>1
  <2>3. c \in Chars
    BY <1>0, <2>2 DEF Chars, Newline
  <2>4. Prints(p, c) /\ UNCHANGED <<cursorpos, panicking, last_words>>
    BY <1>3 DEF Put
  <2>5. console' \in Screen /\ printers' \in [Printers -> Printer] /\ ShowsInv'
    BY <1>0, <2>3, <2>4, PrintsStep
  <2> QED BY <1>0, <2>4, <2>5 DEF ConsoleInv, ConsoleTypeOK
<1>4. ASSUME End(p) PROVE ConsoleInv'
  <2>1. printers' = [printers EXCEPT ![p] = Closed] /\ UNCHANGED <<console, panicking, last_words>>
    BY <1>4 DEF End
  <2>2. Closed \in Printer /\ Closed.laid = <<>>
    <3> DEFINE t == TRUE  f == FALSE
    <3>1. t \in BOOLEAN /\ f \in BOOLEAN /\ 0 \in 0 .. END_CPOS
      BY ScreenSize
    <3> HIDE DEF t, f
    <3>2. LET q == [open |-> f, cell |-> 0, scroll |-> f, moves |-> f, laid |-> <<>>, alone |-> t]
          IN  q \in Printer /\ q.laid = <<>>
      BY <3>1
    <3> QED BY <3>2 DEF Closed, t, f
  <2>3. cursorpos' \in 0 .. END_CPOS
    <3>1. printers[p] \in Printer
      BY <1>0
    <3>2. cursorpos' = printers[p].cell \/ cursorpos' = cursorpos
      BY <1>4 DEF End
    <3> QED BY <1>0, <3>1, <3>2
  <2> HIDE DEF Printer
  <2> QED BY <1>1, <2>1, <2>2, <2>3
<1> QED BY <1>2, <1>3, <1>4

\* The kernel clears the screen.
LEMMA ClearStep == ASSUME ConsoleInv, console_clear PROVE ConsoleInv'
<1>1. /\ console' = [i \in 0 .. END_CPOS - 1 |-> Space] /\ cursorpos' = 0
      /\ printers' = Disturbed(printers) /\ panicking' = panicking /\ last_words' = last_words
  BY DEF console_clear
<1>2. Space \in Chars /\ 0 \in 0 .. END_CPOS
  BY ScreenSize DEF Space, Chars
<1>3. console' \in Screen
  BY <1>1, <1>2 DEF Screen
<1>4. ShowsInv'
  BY <1>1, DisturbedFacts DEF ShowsInv
<1> QED BY <1>1, <1>2, <1>3, <1>4, DisturbedFacts DEF ConsoleInv, ConsoleTypeOK

\* Every step keeps the invariant.
LEMMA ConsoleStep == ASSUME ConsoleInv, [ConsoleNext]_consoleVars PROVE ConsoleInv'
<1>1. ASSUME NEW n \in {1, Columns, Columns + 1}, vpanic(n) \/ assert_fail(n) PROVE ConsoleInv'
  <2>1. n \in Nat /\ END_CPOS \in 0 .. END_CPOS /\ END_CPOS - 2 * Columns \in 0 .. END_CPOS
    BY ScreenSize
  <2>2. LineEnd \in Chars /\ Newline \in Chars
    BY DEF LineEnd, Newline, Chars
  <2>3. cursorpos \in 0 .. END_CPOS
    BY DEF ConsoleInv, ConsoleTypeOK
  <2>4. CASE vpanic(n)
    <3>1. Panics(n, END_CPOS, LineEnd) /\ cursorpos' = cursorpos
      BY <2>4 DEF vpanic
    <3> QED BY <2>1, <2>2, <2>3, <3>1, PanicsStep
  <2>5. CASE assert_fail(n)
    <3>1. Panics(n, END_CPOS - 2 * Columns, Newline) /\ cursorpos' = END_CPOS - 2 * Columns
      BY <2>5 DEF assert_fail
    <3> QED BY <2>1, <2>2, <3>1, PanicsStep
  <2> QED BY <1>1, <2>4, <2>5
<1>2. CASE UNCHANGED consoleVars
  BY <1>2 DEF consoleVars, ConsoleInv, ConsoleTypeOK, ShowsInv
<1> QED BY <1>1, <1>2, ProgramStep, ClearStep, LastWordStep DEF ConsoleNext, Failed

ConsoleSpec == ConsoleInit /\ [][ConsoleNext]_consoleVars

\* The invariant of the console holds for every size of the screen, any number of programs that
\* print, and every position they print at.
THEOREM ConsoleInvHolds == ConsoleSpec => []ConsoleInv
<1>1. ConsoleInit => ConsoleInv
  <2> SUFFICES ASSUME ConsoleInit PROVE ConsoleInv
    OBVIOUS
  <2> DEFINE Printer == [open : BOOLEAN, cell : 0 .. END_CPOS, scroll : BOOLEAN, moves : BOOLEAN,
                         laid : Seq(Chars), alone : BOOLEAN]
  <2>1. Space \in Chars /\ 0 \in 0 .. END_CPOS
    BY ScreenSize DEF Space, Chars
  <2>2. console \in Screen
    BY <2>1 DEF ConsoleInit, Screen
  <2>3. Closed \in Printer /\ Closed.laid = <<>>
    <3> DEFINE t == TRUE  f == FALSE
    <3>1. t \in BOOLEAN /\ f \in BOOLEAN
      OBVIOUS
    <3> HIDE DEF t, f
    <3>2. LET q == [open |-> f, cell |-> 0, scroll |-> f, moves |-> f, laid |-> <<>>, alone |-> t]
          IN  q \in Printer /\ q.laid = <<>>
      BY <2>1, <3>1
    <3> QED BY <3>2 DEF Closed, t, f
  <2>4. ShowsInv
    <3>1. Shows(console, Closed.cell, Closed.laid)
      BY <2>3 DEF Shows
    <3> QED BY <3>1 DEF ShowsInv, ConsoleInit
  <2> HIDE DEF Printer
  <2>5. printers \in [Printers -> Printer]
    BY <2>3 DEF ConsoleInit
  <2>6. cursorpos \in 0 .. END_CPOS /\ panicking \in BOOLEAN /\ last_words \in Seq(Chars)
    <3>1. cursorpos = 0 /\ panicking = FALSE /\ last_words = <<>>
      BY DEF ConsoleInit
    <3>2. FALSE \in BOOLEAN /\ <<>> \in Seq(Chars)
      OBVIOUS
    <3> QED BY <2>1, <3>1, <3>2
  <2> QED BY <2>2, <2>4, <2>5, <2>6 DEF ConsoleInv, ConsoleTypeOK, Printer
<1>2. ConsoleInv /\ [ConsoleNext]_consoleVars => ConsoleInv'
  BY ConsoleStep
<1> QED BY <1>1, <1>2, PTL DEF ConsoleSpec

\* The console shows the text: no printer stands outside the screen, and what one has written
\* alone stands before its cell, whatever wraps and scrolls (console_printer of lib.cc, vpanic and
\* assert_fail of k-hardware.cc).
THEOREM TextIsShown == ConsoleSpec => []ConsoleShowsTheText
<1>1. ConsoleInv => ConsoleShowsTheText
  <2> SUFFICES ASSUME ConsoleInv PROVE ConsoleShowsTheText
    OBVIOUS
  <2>1. cursorpos \in 0 .. END_CPOS /\ DOMAIN console = 0 .. END_CPOS - 1
    BY DEF ConsoleInv, ConsoleTypeOK, Screen
  <2>2. ASSUME NEW p \in Printers
        PROVE  LET q == printers[p] IN
               /\ q.cell \in 0 .. END_CPOS
               /\ q.alone => \A k \in 0 .. (IF Len(q.laid) < q.cell THEN Len(q.laid) ELSE q.cell) - 1 :
                               console[q.cell - 1 - k] = q.laid[Len(q.laid) - k]
    <3> DEFINE q == printers[p]
    <3>1. q.cell \in 0 .. END_CPOS /\ q.laid \in Seq(Chars)
      BY DEF ConsoleInv, ConsoleTypeOK
    <3>2. Len(q.laid) \in Nat /\ q.cell \in Nat
      BY <3>1, ScreenSize
    <3>3. q.alone => Shows(console, q.cell, q.laid)
      BY DEF ConsoleInv, ShowsInv
    <3> HIDE DEF q
    <3>4. \A k \in 0 .. (IF Len(q.laid) < q.cell THEN Len(q.laid) ELSE q.cell) - 1 :
            k \in Nat /\ k < Len(q.laid) /\ k < q.cell
      BY <3>2
    <3>5. q.alone => \A k \in 0 .. (IF Len(q.laid) < q.cell THEN Len(q.laid) ELSE q.cell) - 1 :
                       console[q.cell - 1 - k] = q.laid[Len(q.laid) - k]
      BY <3>3, <3>4 DEF Shows
    <3> QED BY <3>1, <3>5 DEF q
  <2> QED BY <2>1, <2>2 DEF ConsoleShowsTheText
<1> QED BY <1>1, ConsoleInvHolds, PTL

=============================================================================
