---------------------------- MODULE WeensyKernel ----------------------------
(***************************************************************************)
(* Memory and processes of the kernel of weensyos/kernel.cc: the physical  *)
(* page allocator with its reference counts, the page tables, and the      *)
(* system calls that a process makes.                                      *)
(*                                                                         *)
(* The kernel runs with interrupts disabled, so a system call or an        *)
(* interrupt is one step.  A page table is its root page, the pages of its *)
(* lower levels, and the user mappings; the mappings of the kernel's own   *)
(* memory and of the console, which every page table has and nobody frees, *)
(* are left out, but the page-table pages that they need are not.          *)
(* Addresses below PROC_START_ADDR, where sys_page_alloc would replace such *)
(* a mapping, and addresses from 6 MB on, which differ from the one at 4 MB *)
(* in how many tables they need, are left out.                             *)
(***************************************************************************)
EXTENDS Integers, FiniteSets

CONSTANTS NPages,   \* allocatable physical pages
          NLow,     \* those of them below PROC_START_ADDR
          PidMax,   \* PID_MAX
          CountMod, \* a reference count is a uint8_t: 256
          Boot,     \* the pids that kernel_start sets up
          AllocAt,  \* the addresses at which processes call sys_page_alloc
          RemapAt,  \* those at which they also call it when they have a page there
          StoreAt   \* bound: the addresses at which they store something

\* kernel_start sets up one process or four, of eight pages each, and does not
\* expect the memory to run out; PID_MAX fits a reference count.
ASSUME KernelAssumption ==
  /\ NPages \in Nat /\ NLow \in Nat /\ PidMax \in Nat /\ CountMod \in Nat
  /\ PidMax < CountMod
  /\ Boot \in {{1}, 1 .. 4} /\ Boot \subseteq 1 .. PidMax - 1
  /\ \A pid \in Boot : 8 * pid <= NPages

Pages == 1 .. NPages   \* what allocatable_physical_address admits
Pids  == 0 .. PidMax - 1

\* The user addresses in ascending order: the read-only code page, the data page,
\* a page a process may allocate, the stack page, and a page at 4 MB that it may
\* allocate as well: sys_page_alloc does not refuse it.  MEMSIZE_VIRTUAL is 3 MB, so
\* the stack needs a last-level table of its own, and so does the page at 4 MB.
Below == {"code", "data", "heap", "stack"}   \* below MEMSIZE_VIRTUAL
Vas == Below \cup {"beyond"}
LastLevel(va) == IF va = "stack" THEN "high" ELSE IF va = "beyond" THEN "far" ELSE "low"
Levels == {"root", "level3", "level2", "low", "high", "far"}

Junk == 204                                  \* 0xCC
NoEntry == [pa |-> 0, w |-> FALSE]
NoTable == [tables |-> [l \in Levels |-> 0], map |-> [v \in Vas |-> NoEntry]]

VARIABLES mem,        \* [refcount : [Pages -> Nat], data : [Pages -> Contents]]
          ptable,     \* [Pids -> [state, pagetable]]
          current,    \* the pid of the running process
          spinning    \* no process will run again: schedule() finds none, or a panic

vars == <<mem, ptable, current, spinning>>

-----------------------------------------------------------------------------
(* The allocator *)

\* The first free page, filled with 0xCC; pa is 0 when there is none.
kalloc(m) ==
  LET free == {p \in Pages : m.refcount[p] = 0} IN
  IF free = {} THEN [m |-> m, pa |-> 0]
  ELSE LET p == CHOOSE q \in free : \A r \in free : q <= r IN
       [m |-> [refcount |-> [m.refcount EXCEPT ![p] = 1], data |-> [m.data EXCEPT ![p] = Junk]],
        pa |-> p]

\* The memory with the page p filled with x, and with one reference more to p.
Fill(m, p, x) == [refcount |-> m.refcount, data |-> [m.data EXCEPT ![p] = x]]
CountUp(m, p) == [refcount |-> [m.refcount EXCEPT ![p] = (@ + 1) % CountMod], data |-> m.data]

\* The references of a page table to a page that free_pagetable finds: as one of its
\* tables, or mapped below MEMSIZE_VIRTUAL.
UsesIn(pt, p) ==
  Cardinality({l \in Levels : pt.tables[l] = p}) + Cardinality({v \in Below : pt.map[v].pa = p})

\* A page that nothing refers to holds nothing: kalloc overwrites what was there.
Forget(count, data) == [refcount |-> count, data |-> [p \in Pages |-> IF count[p] = 0 THEN Junk ELSE data[p]]]

\* Mutant of free_pagetable: the pages of the lower levels are forgotten.
free_root_only(m, pt) ==
  Forget([p \in Pages |->
            LET n == Cardinality({v \in Below : pt.map[v].pa = p})
                     + IF pt.tables["root"] = p THEN 1 ELSE 0
            IN  IF m.refcount[p] > n THEN m.refcount[p] - n ELSE 0],
         m.data)

\* kfree of every user mapping below MEMSIZE_VIRTUAL and every table page; kfree leaves a count of 0.
free_pagetable(m, pt) ==
  Forget([p \in Pages |->
            IF m.refcount[p] > UsesIn(pt, p) THEN m.refcount[p] - UsesIn(pt, p) ELSE 0],
         m.data)

-----------------------------------------------------------------------------
(* Page tables: a build is [m, pt, ok] *)

WithTable(pt, level, p) == [tables |-> [pt.tables EXCEPT ![level] = p], map |-> pt.map]
WithEntry(pt, va, e) == [tables |-> pt.tables, map |-> [pt.map EXCEPT ![va] = e]]

\* One missing table on the way to the last level.
Grow(b, level) ==
  IF ~b.ok \/ b.pt.tables[level] # 0 THEN b
  ELSE LET a == kalloc(b.m) IN
       IF a.pa = 0 THEN [m |-> b.m, pt |-> b.pt, ok |-> FALSE]
       ELSE [m |-> a.m, pt |-> WithTable(b.pt, level, a.pa), ok |-> TRUE]

Descend(b, level) == Grow(Grow(Grow(b, "level3"), "level2"), level)

\* vmiter::try_map; tables it has made stay when it runs out of pages.
try_map(m, pt, va, pa, w) ==
  LET b == Descend([m |-> m, pt |-> pt, ok |-> TRUE], LastLevel(va)) IN
  IF b.ok THEN [m |-> b.m, pt |-> WithEntry(b.pt, va, [pa |-> pa, w |-> w]), ok |-> TRUE] ELSE b

\* kalloc_pagetable and the kernel's mappings.
NewTable(m) ==
  LET a == kalloc(m) IN
  IF a.pa = 0 THEN [m |-> m, pt |-> NoTable, ok |-> FALSE]
  ELSE Descend([m |-> a.m, pt |-> WithTable(NoTable, "root", a.pa), ok |-> TRUE], "low")

\* process_setup: code, data and stack get a page each; at boot there is enough.
\* The program image fills the first two, the stack stays as kalloc leaves it.
LoadPage(b, va) ==
  LET a == kalloc(b.m) IN
  try_map(IF va = "stack" THEN a.m ELSE Fill(a.m, a.pa, 0), b.pt, va, a.pa, va # "code")

process_setup(m) == LoadPage(LoadPage(LoadPage(NewTable(m), "code"), "data"), "stack")

\* The machine after the process pid has been set up, if it is among those of Boot.
SetUp(s, pid) ==
  IF pid \notin Boot THEN s
  ELSE LET b == process_setup(s.m) IN
       [m |-> b.m, tab |-> [s.tab EXCEPT ![pid] = [state |-> "RUNNABLE", pagetable |-> b.pt]]]

Blank == [m   |-> [refcount |-> [p \in Pages |-> 0], data |-> [p \in Pages |-> Junk]],
          tab |-> [i \in Pids |-> [state |-> "FREE", pagetable |-> NoTable]]]

Init ==
  LET s == SetUp(SetUp(SetUp(SetUp(Blank, 1), 2), 3), 4)
  IN  /\ mem = s.m
      /\ ptable = s.tab
      /\ current = 1
      /\ spinning = FALSE

-----------------------------------------------------------------------------
(* Scheduling *)

\* Mutant of schedule: the search always starts at the first process.
schedule_first(tab) ==
  LET runnable == {i \in Pids : tab[i].state = "RUNNABLE"} IN
  IF runnable = {} THEN spinning' = TRUE /\ UNCHANGED current
  ELSE /\ current' = CHOOSE i \in runnable : \A j \in runnable : i <= j
       /\ UNCHANGED spinning

\* The next runnable process after the current one, in the order of the pids.
schedule(tab) ==
  LET runnable == {d \in 1 .. PidMax : tab[(current + d) % PidMax].state = "RUNNABLE"} IN
  IF runnable = {} THEN spinning' = TRUE /\ UNCHANGED current
  ELSE /\ current' = (current + CHOOSE d \in runnable : \A e \in runnable : d <= e) % PidMax
       /\ UNCHANGED spinning

Running == ~spinning /\ ptable[current].state = "RUNNABLE"
Table == ptable[current].pagetable

Timer ==
  /\ Running
  /\ schedule(ptable)
  /\ UNCHANGED <<mem, ptable>>

Yield ==
  /\ Running
  /\ schedule(ptable)
  /\ UNCHANGED <<mem, ptable>>

\* A page fault in user mode: the process never runs again and keeps its pages.
PageFault ==
  /\ Running
  /\ ptable' = [ptable EXCEPT ![current].state = "FAULTED"]
  /\ schedule(ptable')
  /\ UNCHANGED mem

\* A panic: the kernel only waits for control-C.
Panic ==
  /\ Running
  /\ spinning' = TRUE
  /\ UNCHANGED <<mem, ptable, current>>

-----------------------------------------------------------------------------
(* What a process does *)

\* A store to a writable page, of something that neither the kernel nor the
\* program image puts there.
Store(va) ==
  /\ Running
  /\ va \in StoreAt /\ Table.map[va].w
  /\ mem' = Fill(mem, Table.map[va].pa, 1)
  /\ UNCHANGED <<ptable, current, spinning>>

\* syscall_page_alloc: a page that was mapped at va before is not freed, and a
\* page that cannot be mapped is not given back.
PageAlloc(va) ==
  /\ Running
  /\ va \in AllocAt /\ (va \in RemapAt \/ Table.map[va] = NoEntry)
  /\ LET a == kalloc(mem)
         b == try_map(Fill(a.m, a.pa, 0), Table, va, a.pa, TRUE)
     IN  IF a.pa = 0 THEN UNCHANGED <<mem, ptable>>
         ELSE mem' = b.m /\ ptable' = [ptable EXCEPT ![current].pagetable = b.pt]
  /\ UNCHANGED <<current, spinning>>

\* An address that is not one of a page, or not canonical: vmiter::try_map asserts,
\* with the new page taken.
PageAllocPanics ==
  /\ Running
  /\ kalloc(mem).pa # 0
  /\ mem' = Fill(kalloc(mem).m, kalloc(mem).pa, 0)
  /\ spinning' = TRUE
  /\ UNCHANGED <<ptable, current>>

\* Mutant of CopyPage: every page is shared, without copying the writable ones.
SharePage(b, va) ==
  LET e == Table.map[va] IN
  IF ~b.ok \/ e = NoEntry THEN b
  ELSE LET t == try_map(b.m, b.pt, va, e.pa, e.w) IN
       IF t.ok THEN [m |-> CountUp(t.m, e.pa), pt |-> t.pt, ok |-> TRUE] ELSE t

\* Mutant of CopyPage: a shared page is not counted.
CopyPageUncounted(b, va) ==
  LET e == Table.map[va]
      a == kalloc(b.m)
  IN  IF ~b.ok \/ e = NoEntry THEN b
      ELSE CASE ~e.w            -> try_map(b.m, b.pt, va, e.pa, FALSE)
             [] e.w /\ a.pa = 0 -> [m |-> b.m, pt |-> b.pt, ok |-> FALSE]
             [] e.w /\ a.pa # 0 -> try_map(Fill(a.m, a.pa, b.m.data[e.pa]), b.pt, va, a.pa, TRUE)

\* Mutant of CopyPage: a shared page is counted for the iteration and for the map.
CopyPageCountedTwice(b, va) ==
  LET e == Table.map[va]
      a == kalloc(b.m)
      s == try_map(b.m, b.pt, va, e.pa, FALSE)
  IN  IF ~b.ok \/ e = NoEntry THEN b
      ELSE CASE ~e.w            -> IF ~s.ok THEN s
                                 ELSE [m |-> CountUp(CountUp(s.m, e.pa), e.pa), pt |-> s.pt, ok |-> TRUE]
             [] e.w /\ a.pa = 0 -> [m |-> b.m, pt |-> b.pt, ok |-> FALSE]
             [] e.w /\ a.pa # 0 -> try_map(Fill(a.m, a.pa, b.m.data[e.pa]), b.pt, va, a.pa, TRUE)

\* One turn of fork's loop over the addresses: a writable page is copied, a
\* read-only page is shared and counted once more.  A copy that cannot be mapped
\* is not given back.
CopyPage(b, va) ==
  LET e == Table.map[va]
      a == kalloc(b.m)
      s == try_map(b.m, b.pt, va, e.pa, FALSE)
  IN  IF ~b.ok \/ e = NoEntry THEN b
      ELSE CASE ~e.w            -> IF ~s.ok THEN s
                                 ELSE [m |-> CountUp(s.m, e.pa), pt |-> s.pt, ok |-> TRUE]
             [] e.w /\ a.pa = 0 -> [m |-> b.m, pt |-> b.pt, ok |-> FALSE]
             [] e.w /\ a.pa # 0 -> try_map(Fill(a.m, a.pa, b.m.data[e.pa]), b.pt, va, a.pa, TRUE)

\* The loop, from the lowest address to MEMSIZE_VIRTUAL.
CopyPages(b) == CopyPage(CopyPage(CopyPage(CopyPage(b, "code"), "data"), "heap"), "stack")

\* syscall_fork without a free process slot, or without a page for the table.
ForkFails ==
  /\ Running
  /\ \/ \A i \in Pids \ {0} : ptable[i].state # "FREE"
     \/ kalloc(mem).pa = 0
  /\ UNCHANGED vars

\* syscall_fork: when a page is missing on the way, the child's page table and
\* what it maps are freed.
Fork ==
  /\ Running
  /\ \E i \in Pids \ {0} : ptable[i].state = "FREE"
  /\ kalloc(mem).pa # 0
  /\ LET free == {i \in Pids \ {0} : ptable[i].state = "FREE"}
         pid == CHOOSE i \in free : \A j \in free : i <= j
         b == CopyPages(NewTable(mem))
     IN  IF b.ok
         THEN /\ mem' = b.m
              /\ ptable' = [ptable EXCEPT ![pid] = [state |-> "RUNNABLE", pagetable |-> b.pt]]
         ELSE mem' = free_pagetable(b.m, b.pt) /\ UNCHANGED ptable
  /\ UNCHANGED <<current, spinning>>

\* syscall_exit
Exit ==
  /\ Running
  /\ mem' = free_pagetable(mem, Table)
  /\ ptable' = [ptable EXCEPT ![current] = [state |-> "FREE", pagetable |-> NoTable]]
  /\ schedule(ptable')

\* schedule() spins for ever when every process has exited or faulted.
Spin == spinning /\ UNCHANGED vars

\* Any other exception than these, and any other number of a system call, is a panic.
exception == Timer \/ PageFault \/ Panic

syscall ==
  \/ Panic \/ Yield
  \/ (\E va \in Vas : PageAlloc(va)) \/ PageAllocPanics
  \/ Fork \/ ForkFails \/ Exit

\* A program: between any two instructions the timer may interrupt it, it may touch what
\* it has not mapped, and it makes system calls and stores where its random numbers
\* lead it.  A failed assert of a program is a panic.
process_main == exception \/ syscall \/ \E va \in Vas : Store(va)

Next == process_main \/ Spin

\* The timer interrupts every process sooner or later: an interrupt that arrives
\* while the kernel runs stays pending.
Spec == Init /\ [][Next]_vars /\ SF_vars(Timer)

-----------------------------------------------------------------------------
(* The memory viewer, k-memviewer.cc; its own page is not among Pages *)

\* physpageinfo
used(p) == mem.refcount[p] # 0
valid(p) == mem.refcount[p] <= PidMax

\* The processes with a page table.
Tabled == {i \in Pids \ {0} : ptable[i].state # "FREE" /\ ptable[i].pagetable.tables["root"] # 0}

\* memusage::refresh: what the page tables say of a page.  User mappings are taken
\* not to be identity mappings, of which the viewer says less.  Without any process it
\* looks at the kernel's own page table, where a process may access what is not below
\* PROC_START_ADDR, and marks a used page for the process that could have been loaded
\* at its address: there were 0x40000 bytes for each.
marks(p) ==
  LET procs == Tabled
      tabled == {i \in procs : \E l \in Levels : ptable[i].pagetable.tables[l] = p}
      mapping == {i \in procs : \E v \in Vas : ptable[i].pagetable.map[v].pa = p}
      owned == used(p) /\ p > NLow
      owner == (p - NLow - 1) \div 64
  IN  IF procs = {} THEN [kernel |-> FALSE, user |-> owned, pids |-> IF owned THEN {owner + 1} ELSE {}]
      ELSE [kernel |-> tabled # {}, user |-> mapping # {}, pids |-> tabled \cup mapping]

\* memusage::symbol_at: is an error reported, and which character is shown?
symbol_at(p) ==
  LET v == marks(p)
      both == v.kernel /\ v.user
  IN  [error |-> ~valid(p) \/ both \/ (v.user /\ ~used(p)),
       ch |-> CASE v.pids = {} /\ used(p)      -> <<"L">>
                [] v.pids = {} /\ ~used(p)     -> <<".">>
                [] both                        -> <<"*">>
                [] ~both /\ v.pids # {} /\ Cardinality(v.pids) > 1 -> <<"S">>
                [] OTHER                       -> <<"pid", CHOOSE i \in v.pids : TRUE>>]

\* console_memviewer_virtual: the addresses of a process, up to MEMSIZE_VIRTUAL.
VirtualView(i) ==
  [v \in Below |-> LET e == ptable[i].pagetable.map[v] IN IF e = NoEntry THEN <<>> ELSE symbol_at(e.pa).ch]

\* memshow: the process whose addresses are shown, from the one whose turn it is; 0
\* when there is none.
memshow(showing) ==
  LET found == {d \in 0 .. PidMax - 1 : (showing + d) % PidMax \in Tabled} IN
  IF found = {} THEN 0 ELSE (showing + CHOOSE d \in found : \A e \in found : d <= e) % PidMax

\* console_memviewer, with its assertion: what the screen shows of the physical pages,
\* and of the addresses of the process vmp.
console_memviewer(vmp) ==
  [asserts  |-> ptable[0].state = "FREE",
   physical |-> [p \in Pages |-> symbol_at(p)],
   virtual  |-> IF vmp = 0 THEN <<>> ELSE <<VirtualView(vmp)>>]

-----------------------------------------------------------------------------
(* Properties *)

\* The references all page tables together hold to a page.
Uses(p) ==
  Cardinality({u \in Pids \X Levels : ptable[u[1]].pagetable.tables[u[2]] = p})
  + Cardinality({u \in Pids \X Vas : ptable[u[1]].pagetable.map[u[2]].pa = p})

\* No page is free, and so handed out again, while a page table still uses it,
\* also after a fork that failed half-way (kalloc, free_pagetable, syscall_fork).
NoPageFreedInUse == \A p \in Pages : mem.refcount[p] >= Uses(p)

\* The viewer never finds an error: no page is mapped for a user and a table as well, or
\* mapped and free, and no count leaves the range of physpageinfo::valid(), however
\* often processes fork and exit.  It shows L just for the pages that are in use and
\* that nobody can reach, but that, once there is no process, the lost pages from
\* PROC_START_ADDR on are shown as those of processes; it shows a dot just for the pages
\* that can be allocated; and whichever turn it is, it shows the addresses of a process
\* if there is one, each with the number of that process, or S where it shares the page.
ViewerTellsTheTruth ==
  \A showing \in Pids :
    LET i == memshow(showing)
        screen == console_memviewer(i)
    IN  /\ screen.asserts
        /\ \A p \in Pages :
             LET sym == screen.physical[p] IN
             /\ ~sym.error
             /\ (sym.ch = <<"L">>) = (used(p) /\ Uses(p) = 0 /\ (Tabled = {} => p <= NLow))
             /\ (sym.ch = <<".">>) = ~used(p)
        /\ (screen.virtual = <<>>) = (\A k \in Pids : ptable[k].state = "FREE")
        /\ \A n \in DOMAIN screen.virtual, v \in Below :
             screen.virtual[n][v] \in {<<>>, <<"pid", i>>, <<"S">>}

Lost == {p \in Pages : mem.refcount[p] > Uses(p)}

Free == {p \in Pages : mem.refcount[p] = 0}

\* Exits, and forks that fail half-way, give back every page they should.  A page is
\* lost in four cases only: sys_page_alloc has mapped another page in its place; its
\* process, which had it mapped from MEMSIZE_VIRTUAL on, exits; it is the page that
\* sys_page_alloc has taken and could not map, because the last free page was gone and
\* a table was missing or because of a panic; or it is the copy of the stack page
\* that fork has made when the last free page was gone and the table to map it in
\* could not be had.
LossesAreKnown ==
  [][\A p \in Lost' \ Lost :
       \/ \E v \in AllocAt : Table.map[v].pa = p /\ ptable'[current].pagetable.map[v].pa \notin {0, p}
       \/ Table.map["beyond"].pa = p /\ ptable'[current].state = "FREE"
       \/ /\ p = kalloc(mem).pa /\ ptable' = ptable
          /\ spinning' \/ (Free = {p} /\ Table.tables["far"] = 0)
       \/ /\ Lost' \ Lost = {p}
          /\ mem'.data[p] = mem.data[Table.map["stack"].pa]
          /\ Cardinality(Free) = 4 + Cardinality({v \in Below : Table.map[v].w})]_vars

\* What a process finds at its addresses.
View(i) ==
  [v \in Vas |-> LET e == ptable[i].pagetable.map[v] IN
                 IF e = NoEntry THEN <<>> ELSE <<mem.data[e.pa], e.w>>]

\* No step of a process changes what another process that exists finds in its
\* memory, shared code pages, forks and exits notwithstanding; and a child that a
\* fork makes runnable finds below MEMSIZE_VIRTUAL what the parent finds there.
ProcessIsolation ==
  [][\A i \in Pids \ {current} :
       IF ptable[i].state # "FREE" THEN View(i)' = View(i)
       ELSE ptable'[i].state = "RUNNABLE" => \A v \in Below : View(i)'[v] = View(current)[v]]_vars

\* Every runnable process runs again unless the kernel panics: schedule() passes over
\* nobody, whoever forks, yields, faults or exits meanwhile.
EveryoneRuns ==
  \A i \in Pids : ptable[i].state = "RUNNABLE" ~> current = i \/ ptable[i].state # "RUNNABLE" \/ spinning

=============================================================================
