---------------------------- MODULE WeensyMachine ----------------------------
(***************************************************************************)
(* The parts of weensyos that read what others have laid out: the boot     *)
(* loader (boot.cc), the program images, the table of symbols, the         *)
(* backtrace through a stack, the strings of a process and the devices on  *)
(* the PCI bus (k-hardware.cc, k-pci.hh), and the registers that lie on    *)
(* the kernel's stack (WeensyEntry).  The state is one question and its    *)
(* answer.                                                                 *)
(***************************************************************************)
EXTENDS Integers, Sequences, FiniteSets, SequencesExt, WeensyEntry

CONSTANTS Sector,    \* SECTORSIZE
          Memory,    \* bound: bytes of memory that the boot loader fills
          Slots,     \* bound: slots of the PCI bus
          Funcs,     \* functions of a slot; 8
          LastSize   \* bytes that the last symbol is taken to have; 0x1000

ASSUME MachineAssumption ==
  {Sector, Memory, Slots, Funcs, LastSize} \subseteq Nat \ {0} /\ Memory % Sector = 0

VARIABLES question, answer

machineVars == <<question, answer>>

-----------------------------------------------------------------------------
(* boot.cc: segments off the disk *)

\* Byte k of the kernel's file, which begins at the first byte of a sector.
FileByte(k) == 100 + k
Junk == 1

\* Sectors from the one that ptr is in, then zeros from the end of the file's part.
boot_readseg(mem, ptr, sect, filesz, memsz) ==
  LET first == ptr - (ptr % Sector)
      read == {i \in DOMAIN mem : i >= first /\ first < ptr + filesz
                                  /\ i < first + Sector * ((ptr + filesz - first + Sector - 1) \div Sector)}
  IN  [i \in DOMAIN mem |->
         IF i \in ptr + filesz .. ptr + memsz - 1 THEN 0
         ELSE IF i \in read THEN FileByte(sect * Sector + i - first) ELSE mem[i]]

\* boot: every program header, whatever its type.
boot(segments) ==
  FoldLeft(LAMBDA mem, s : boot_readseg(mem, s.va, s.offset \div Sector, s.filesz, s.memsz),
           [i \in 0 .. Memory - 1 |-> Junk], segments)

-----------------------------------------------------------------------------
(* program_image: the segments that are to be loaded *)

\* fix: on to the next header to be loaded, or behind the last.
fix(types, ph) ==
  CHOOSE p \in ph .. Len(types) + 1 :
    /\ p = Len(types) + 1 \/ types[p] = "LOAD"
    /\ \A q \in ph .. p - 1 : types[q] # "LOAD"

\* for (auto seg = begin(); seg != end(); ++seg): the headers that it visits.
Segments(types) ==
  LET end == fix(types, Len(types) + 1)
      visit[n \in 0 .. Len(types)] ==
        IF n = 0 THEN [at |-> fix(types, 1), seen |-> <<>>]
        ELSE LET v == visit[n - 1] IN
             IF v.at = end THEN v ELSE [at |-> fix(types, v.at + 1), seen |-> Append(v.seen, v.at)]
  IN  visit[Len(types)].seen

-----------------------------------------------------------------------------
(* lookup_symbol: a search by halves *)

\* Is it in the symbol m of the table?
Covers(t, m, addr) ==
  /\ t[m].value <= addr
  /\ addr < IF m = Len(t) THEN t[m].value + LastSize ELSE t[m + 1].value
  /\ t[m].size = 0 \/ addr <= t[m].value + t[m].size

\* The index of the symbol, or 0; l and r as in the code, but counted from 1.
lookup_symbol(t, addr) ==
  LET turn[n \in 0 .. Len(t)] ==
        IF n = 0 THEN [l |-> 1, r |-> Len(t) + 1, found |-> 0]
        ELSE LET s == turn[n - 1]
                 m == s.l + (s.r - s.l) \div 2
             IN  IF s.found # 0 \/ s.l >= s.r THEN s
                 ELSE IF Covers(t, m, addr) THEN [s EXCEPT !.found = m]
                 ELSE IF t[m].value < addr THEN [s EXCEPT !.l = m + 1]
                 ELSE [s EXCEPT !.r = m]
      found == turn[Len(t)].found
  IN  IF found # 0 /\ t[found].value = 0 THEN 0 ELSE found

-----------------------------------------------------------------------------
(* backtracer: the frames of a stack *)

\* A page has Page bytes.  The stack is the third page, of words of eight bytes, and may
\* be unmapped; of the two pages of code below it those of q.code.pages are mapped.
Page == 32
Words == {2 * Page, 2 * Page + 8, 2 * Page + 16, 2 * Page + 24}
None == [rbp |-> 0, rsp |-> 0]

StackPerm(q, va, n) == q.mapped /\ va \in 2 * Page .. 3 * Page - n
CodePresent(q, va) == (va \div Page) \in q.code.pages \/ StackPerm(q, va, 1)
stack_top(q) == Page * ((q.rsp + Page - 1) \div Page)

\* Is this a frame?  Else the trace is over.
check(q, f) ==
  IF /\ f.rbp >= f.rsp
     /\ stack_top(q) >= f.rbp /\ stack_top(q) - f.rbp >= 16
     /\ f.rbp % 8 = 0
     /\ StackPerm(q, f.rbp, 16)
  THEN f ELSE None

\* Mutant of ibuf: only the first byte must be present.
ibuf_first(q, va) == [j \in 1 .. (IF CodePresent(q, va) THEN 5 ELSE 0) |-> va + j - 1]

\* The bytes of code that check_leaf looks at from va on: five, or up to one that is
\* not present.
ibuf(q, va) ==
  LET n == CHOOSE k \in 0 .. 5 : /\ \A j \in 0 .. k - 1 : CodePresent(q, va + j)
                                 /\ k = 5 \/ ~CodePresent(q, va + k)
  IN  [j \in 1 .. n |-> va + j - 1]

\* check_leaf: does the word at the stack pointer look like a return address into a
\* function without a frame, and what is read to find out?  What the code says is the
\* question's choice: the function that is called in front of the return address, -1 if
\* no call stands there, whether it pushes %rbp, and which of the two addresses is not
\* near %rip.
check_leaf(q) ==
  LET word == stack_top(q) - q.rsp >= 8 /\ q.rsp % 8 = 0 /\ StackPerm(q, q.rsp, 8)
      retaddr == q.stack[q.rsp]
      near == q.code.far # "retaddr" /\ retaddr \notin stack_top(q) - Page .. stack_top(q)
      call == ibuf(q, retaddr - 5)
      called == Len(call) = 5 /\ q.code.fnaddr # -1 /\ q.code.far # "fnaddr"
      prologue == ibuf(q, q.code.fnaddr)
  IN  [leaf  |-> word /\ near /\ called /\ Len(prologue) = 5 /\ ~q.code.pushes,
       reads |-> IF word THEN <<q.rsp>> ELSE <<>>,
       code  |-> IF ~(word /\ near) THEN <<>> ELSE IF called THEN call \o prologue ELSE call]

\* print_backtrace: the words and the bytes of code that it reads, in order, and whether
\* it ends.
Backtrace(q) ==
  LET start == [rbp |-> q.rbp, rsp |-> q.rsp]
      first == check_leaf(q)
      step[n \in 0 .. Cardinality(Words) + 1] ==
        IF n = 0 THEN [f |-> IF first.leaf THEN start ELSE check(q, start), reads |-> first.reads]
        ELSE LET s == step[n - 1] IN
             IF s.f.rsp = 0 THEN s
             ELSE IF n = 1 /\ first.leaf THEN [f |-> check(q, start), reads |-> s.reads \o <<q.rsp>>]
             ELSE LET old == IF s.f.rbp \in Words THEN q.stack[s.f.rbp] ELSE 0 IN
                  [f |-> check(q, [rbp |-> old, rsp |-> s.f.rbp + 16]),
                   reads |-> s.reads \o <<s.f.rbp + 8, s.f.rbp>>]
      last == step[Cardinality(Words) + 1]
  IN  [reads |-> last.reads, code |-> first.code, ended |-> last.f.rsp = 0]

-----------------------------------------------------------------------------
(* A message of a process *)

\* strlcpy_from_user: bytes as long as the process may read them; a NUL among them is
\* copied as any other.  What lies at an offset of the process is 100 + the offset.
strlcpy_from_user(buf, user, maxlen) ==
  LET turn[i \in 0 .. maxlen] ==
        IF i = 0 THEN [i |-> 0, buf |-> buf]
        ELSE LET t == turn[i - 1] IN
             IF t.i + 1 < maxlen /\ t.i \in user
             THEN [i |-> t.i + 1, buf |-> [t.buf EXCEPT ![t.i + 1] = 100 + t.i]] ELSE t
      end == turn[maxlen]
  IN  IF end.i < maxlen THEN [end.buf EXCEPT ![end.i + 1] = 0] ELSE end.buf

-----------------------------------------------------------------------------
(* pcistate: the functions on the bus; an address is slot * Funcs + func *)

addr_end == Slots * Funcs
readl(q, a) == a \in q.present
multi(q, a) == readl(q, a) /\ a \in q.multi

\* The next function after addr, or -1.
next_function(q, addr) ==
  LET onward(a) == IF a % Funcs = 0 /\ ~multi(q, a) THEN a + Funcs ELSE a + 1
      turn[n \in 0 .. addr_end] == IF n = 0 THEN onward(addr)
                                   ELSE LET a == turn[n - 1] IN
                                        IF a >= addr_end THEN -1
                                        ELSE IF a = -1 \/ readl(q, a) THEN a ELSE onward(a)
  IN  turn[addr_end]

\* find with a predicate that nothing meets: the addresses that it tries.
find_function(q) ==
  LET try[n \in 0 .. addr_end] ==
        IF n = 0 THEN <<0>>
        ELSE LET t == try[n - 1] IN IF Last(t) = -1 THEN t ELSE Append(t, next_function(q, Last(t)))
  IN  try[addr_end]

-----------------------------------------------------------------------------
(* One question *)

\* Segments as a linker lays them out: aligned alike in the file and in memory, and no
\* sector of memory shared.
Segment == {s \in [va : 0 .. Memory - 2, offset : 0 .. 3, filesz : 0 .. 3, memsz : 0 .. 4] :
              s.filesz <= s.memsz /\ s.va % Sector = s.offset % Sector /\ s.va + s.memsz <= Memory}
Apart(s, t) == (s.va + s.memsz - 1) \div Sector < t.va \div Sector

\* Tables as mkchickadeesymtab sorts them: by address, then by size.
Sorted(t) == \A i \in 1 .. Len(t) - 1 :
               t[i].value < t[i + 1].value \/ (t[i].value = t[i + 1].value /\ t[i].size <= t[i + 1].size)
Symbols == [value : {0, 2, 3, 6}, size : {0, 1, 2}]

\* Code around a return address 35 and a function: both may reach over the end of a page.
Code == [pages : SUBSET {0, 1}, fnaddr : {-1, 29, 40, 61}, far : {"retaddr", "fnaddr", "none"}, pushes : BOOLEAN]
LeafCode == [pages : {{0, 1}}, fnaddr : {-1, 40}, far : {"none"}, pushes : {FALSE}]

MachineInit ==
  /\ \/ \E s, t \in Segment : Apart(s, t) /\ question \in {[kind |-> "boot", segments |-> <<s, t>>],
                                                         [kind |-> "boot", segments |-> <<t, s>>]}
     \/ \E n \in 0 .. 4 : \E types \in [1 .. n -> {"LOAD", "NOTE"}] : question = [kind |-> "image", types |-> types]
     \/ \E n \in 0 .. 3, addr \in 0 .. 9 : \E t \in [1 .. n -> Symbols] :
          Sorted(t) /\ question = [kind |-> "symbol", table |-> t, addr |-> addr]
     \/ \E rbp \in {0, 64, 68, 72, 80}, rsp \in {64, 68, 72, 88}, mapped \in BOOLEAN :
        \E stack \in [Words -> {0, 64, 72, 76, 80}], code \in LeafCode :
          question = [kind |-> "trace", rbp |-> rbp, rsp |-> rsp, mapped |-> mapped,
                      stack |-> IF rsp \in Words THEN [stack EXCEPT ![rsp] = 35] ELSE stack, code |-> code]
     \/ \E rbp \in {64, 72}, rsp \in {64, 72, 88}, mapped \in BOOLEAN :
        \E stack \in [Words -> {0, 35, 72}], code \in Code :
          question = [kind |-> "trace", rbp |-> rbp, rsp |-> rsp, mapped |-> mapped, stack |-> stack, code |-> code]
     \/ \E present \in SUBSET (0 .. addr_end - 1) : \E m \in SUBSET {a \in present : a % Funcs = 0} :
          question = [kind |-> "pci", present |-> present, multi |-> m]
     \/ \E num \in 0 .. 255 : question = [kind |-> "exception", num |-> num]
     \/ \E args \in 0 .. Len(ArgumentsIn), scheduled \in BOOLEAN :
          question = [kind |-> "syscall", args |-> args, scheduled |-> scheduled]
     \/ \E user \in SUBSET (0 .. 3), maxlen \in 0 .. 4 : question = [kind |-> "string", user |-> user, maxlen |-> maxlen]
  /\ answer = <<>>

Fresh0 == [i \in 1 .. 4 |-> i]

Answered(q) ==
  CASE q.kind = "boot"   -> boot(q.segments)
    [] q.kind = "image"  -> Segments(q.types)
    [] q.kind = "symbol" -> lookup_symbol(q.table, q.addr)
    [] q.kind = "trace"  -> Backtrace(q)
    [] q.kind = "pci"    -> find_function(q)
    [] q.kind = "string" -> strlcpy_from_user(Fresh0, q.user, q.maxlen)
    [] q.kind = "exception" ->
         LET seen == Seen(exception_entry(init_process, q.num)) IN [seen |-> seen, back |-> exception_return(seen)]
    [] q.kind = "syscall" ->
         LET stack == syscall_entry(init_process) IN
         [seen |-> Seen(stack), back |-> IF q.scheduled THEN Rescheduled(stack) ELSE syscall_return(init_process, stack)]

MachineNext == answer = <<>> /\ answer' = <<Answered(question)>> /\ UNCHANGED question

-----------------------------------------------------------------------------
(* Properties *)

Rising(s) == \A i \in 1 .. Len(s) - 1 : s[i] < s[i + 1]
Distinct(t) == \A i \in 1 .. Len(t) - 1 : t[i].value < t[i + 1].value

Found(q, a) ==
  CASE q.kind = "boot" ->
         \A s \in ToSet(q.segments) : \A i \in 0 .. s.memsz - 1 :
           a[s.va + i] = IF i < s.filesz THEN FileByte(s.offset + i) ELSE 0
    [] q.kind = "image" ->
         Rising(a) /\ ToSet(a) = {p \in DOMAIN q.types : q.types[p] = "LOAD"}
    [] q.kind = "symbol" ->
         LET below == {m \in DOMAIN q.table : q.table[m].value <= q.addr}
             best == {m \in below : (\A n \in below : q.table[n].value <= q.table[m].value)
                                    /\ q.table[m].value # 0 /\ Covers(q.table, m, q.addr)}
         IN  (a # 0 => a \in best) /\ (Distinct(q.table) /\ best # {} => a \in best)
    [] q.kind = "trace" ->
         LET frames == {i \in DOMAIN a.reads : i > 1 /\ a.reads[i] = a.reads[i - 1] - 8} IN
         /\ a.ended
         /\ \A i \in DOMAIN a.code : CodePresent(q, a.code[i])
         /\ \A i \in DOMAIN a.reads : q.mapped /\ a.reads[i] \in Words /\ a.reads[i] >= q.rsp
         /\ \A i, j \in frames : i < j => a.reads[i] < a.reads[j]
    [] q.kind = "pci" ->
         LET tried == SubSeq(a, 1, Len(a) - 1) IN
         /\ Last(a) = -1 /\ Rising(tried)
         /\ ToSet(tried) = {0} \cup {f \in q.present : f % Funcs = 0 \/ f - (f % Funcs) \in q.multi}

    [] q.kind = "string" ->
         LET n == CHOOSE k \in 0 .. 4 : k \notin q.user /\ \A j \in 0 .. k - 1 : j \in q.user IN
         \A i \in 1 .. 4 : a[i] = IF i > q.maxlen \/ i > n + 1 THEN i
                                 ELSE IF i = q.maxlen \/ i = n + 1 THEN 0 ELSE 99 + i
    [] q.kind = "exception" ->
         /\ a.back = init_process
         /\ a.seen["intno"] = q.num /\ a.seen["errcode"] = IF q.num \in WithCode THEN ErrorCode ELSE 0
    [] q.kind = "syscall" ->
         /\ a.back["rax"] = Result
         /\ \A r \in Registers \ make_syscall(q.args) : a.back[r] = init_process[r]
         /\ \A i \in DOMAIN ArgumentsIn : a.seen[ArgumentsIn[i]] = init_process[ArgumentsIn[i]]

\* What others have laid out is found as it was laid out.  Every segment is in memory
\* with its zeros behind it, whatever sectors were read around it; an image shows each
\* segment to be loaded once; a symbol that is found is the last one not above the
\* address, and it is found when no two share an address; the backtrace ends, climbs,
\* and reads nothing but mapped words of the stack and, at the addresses that a return
\* address leads it to, bytes that are present; the bus shows every function once;
\* a string of a process ends where it may read no more.  The handlers see the registers
\* of the process in regstate, and the process finds them again after any exception; after
\* a system call it finds the result and every register that make_syscall does not name,
\* whichever way the kernel returns.
LaidOutIsFound == \A i \in DOMAIN answer : Found(question, answer[i])

=============================================================================
