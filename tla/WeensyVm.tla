------------------------------ MODULE WeensyVm ------------------------------
(***************************************************************************)
(* The page-table iterators of weensyos/k-vmiter.{hh,cc}: vmiter, which    *)
(* finds, walks and changes the mappings of one page table, and ptiter,    *)
(* which visits its pages so that they can be freed.                       *)
(*                                                                         *)
(* The geometry is a parameter; x86-64 has OffBits = 12, IndexBits = 9 and *)
(* Levels = 4, and 64-bit addresses of which 48 bits are used.  Here one   *)
(* bit more than the tables use makes the addresses that are not canonical.*)
(***************************************************************************)
EXTENDS Integers, Sequences, FiniteSets, SequencesExt

CONSTANTS OffBits,     \* PAGEOFFBITS
          IndexBits,   \* PAGEINDEXBITS
          Levels,
          MaxTables,   \* bound: pages that kalloc can give out for tables, and the root
          MaxMaps,     \* bound: calls of try_map
          Maps         \* the arguments {<<pa, perm>>} of try_map

Size == 2 ^ (OffBits + Levels * IndexBits + 1)
Addresses == 0 .. Size - 1
VA_LOWEND == Size \div 4
VA_HIGHMIN == Size - Size \div 4
va_is_canonical(va) == va < VA_LOWEND \/ va >= VA_HIGHMIN

initial_lbits == OffBits + (Levels - 1) * IndexBits
noncanonical_lbits == OffBits + Levels * IndexBits + 10
done_lbits == noncanonical_lbits + 10

Index(va, lbits) == (va \div 2 ^ lbits) % 2 ^ IndexBits

\* An entry of a table: the flags P, W and U, is it a large page, and an address.
Zero == [perm |-> {}, ps |-> FALSE, pa |-> 0]
Blank == [i \in 0 .. 2 ^ IndexBits - 1 |-> Zero]
Link(table, perm) == [perm |-> perm, ps |-> FALSE, pa |-> table]
IsLink(e) == "P" \in e.perm /\ ~e.ps

VARIABLES pt,       \* the pages of the table, a sequence; the first is the root; empty before there is one
          it,       \* a vmiter: [pep, lbits, perm, va]
          mapped,   \* [Addresses -> what the page table is to say of the address]
          maps      \* calls of try_map so far

vmVars == <<pt, it, mapped, maps>>

-----------------------------------------------------------------------------
(* vmiter: where it stands *)

Entry(t, i) == IF i.lbits >= noncanonical_lbits THEN Zero ELSE t[i.pep[1]][i.pep[2]]

\* One turn of the loop in down().
DownOne(t, i) ==
  LET e == Entry(t, i)
      lbits == i.lbits - IndexBits
  IN  IF i.lbits > OffBits /\ IsLink(e)
      THEN [i EXCEPT !.perm = @ \cap e.perm, !.lbits = lbits, !.pep = <<e.pa, Index(i.va, lbits)>>]
      ELSE i

down(t, i) == LET turn[n \in 0 .. Levels] == IF n = 0 THEN i ELSE DownOne(t, turn[n - 1])
              IN  turn[Levels]

All == {"P", "W", "U"}
Root(va) == [pep |-> <<1, Index(va, initial_lbits)>>, lbits |-> initial_lbits, perm |-> All, va |-> va]
Nowhere(lbits, va) == [pep |-> <<1, 0>>, lbits |-> lbits, perm |-> {}, va |-> va]

\* Mutant of real_find: the test for the same table is a level too high.
real_find_wide(t, i, va, stepping) ==
  down(t, CASE stepping /\ va = 0 -> Nowhere(done_lbits, va)
            [] ~(stepping /\ va = 0) /\ i.lbits < initial_lbits
               /\ i.va \div 2 ^ (i.lbits + 2 * IndexBits) = va \div 2 ^ (i.lbits + 2 * IndexBits) ->
                 [i EXCEPT !.pep[2] = Index(va, i.lbits), !.va = va]
            [] OTHER -> IF va_is_canonical(va) THEN Root(va) ELSE Nowhere(noncanonical_lbits, va))

\* To another address: past the last one, within the table where the iterator is,
\* into the hole, or from the root.
real_find(t, i, va, stepping) ==
  down(t, IF stepping /\ va = 0 THEN Nowhere(done_lbits, va)
          ELSE IF /\ i.lbits < initial_lbits
                  /\ i.va \div 2 ^ (i.lbits + IndexBits) = va \div 2 ^ (i.lbits + IndexBits)
          THEN [i EXCEPT !.pep[2] = Index(va, i.lbits), !.va = va]
          ELSE IF ~va_is_canonical(va) THEN Nowhere(noncanonical_lbits, va)
          ELSE Root(va))

vmiter(t, va) == real_find(t, Root(0), va, FALSE)
find(t, i, va) == IF va # i.va THEN real_find(t, i, va, FALSE) ELSE i

\* The first address behind the one of 2^lbits bytes that va is in.
Behind(va, lbits) == (((va \div 2 ^ lbits) + 1) * 2 ^ lbits) % Size
last_va(i) ==
  CASE i.lbits = noncanonical_lbits -> VA_HIGHMIN
    [] i.lbits = done_lbits         -> 0
    [] OTHER                        -> Behind(i.va, i.lbits)

perm(t, i) == LET p == Entry(t, i).perm \cap i.perm IN IF "P" \in p THEN p ELSE {}
HasEntry(t, i) == "P" \in Entry(t, i).perm
pa(t, i) == IF HasEntry(t, i) THEN Entry(t, i).pa + (i.va % 2 ^ i.lbits) ELSE -1

\* next() leaves out what is not mapped; in the hole it goes by quarters of the space.
next(t, i) ==
  LET lbits == IF i.lbits > OffBits /\ perm(t, i) = {} THEN i.lbits ELSE OffBits IN
  real_find(t, i, IF lbits = noncanonical_lbits THEN (((i.va \div VA_LOWEND) + 1) * VA_LOWEND) % Size
                  ELSE Behind(i.va, lbits), TRUE)
next_range(t, i) == real_find(t, i, last_va(i), TRUE)

\* The permissions that all of the next sz bytes have: range by range.
range_perm(t, i, sz) ==
  LET step(r) == LET left == (last_va(r.i) - r.i.va) % Size
                     n == next_range(t, r.i)
                 IN  IF r.p = {} \/ r.sz <= (IF left = 0 THEN Size ELSE left) THEN r
                     ELSE [i |-> n, sz |-> r.sz - left,
                           p |-> r.p \cap (IF n.va # 0 THEN perm(t, n) ELSE {})]
      walk[k \in 0 .. Size \div 2 ^ OffBits] == IF k = 0 THEN [i |-> i, sz |-> sz, p |-> perm(t, i)] ELSE step(walk[k - 1])
  IN  walk[sz \div 2 ^ OffBits].p

-----------------------------------------------------------------------------
(* vmiter: changing the mappings *)

\* The tables that are missing are made from above; o is [pt, it, rc].
GrowOne(o) ==
  IF o.rc # "ok" \/ o.it.lbits <= OffBits THEN o
  ELSE IF HasEntry(o.pt, o.it) THEN [o EXCEPT !.rc = "assert"]
  ELSE IF Len(o.pt) = MaxTables THEN [o EXCEPT !.rc = "nomem"]
  ELSE LET grown == Append([o.pt EXCEPT ![o.it.pep[1]][o.it.pep[2]] = Link(Len(o.pt) + 1, All)], Blank)
       IN  [o EXCEPT !.pt = grown, !.it = down(grown, o.it)]

try_map(t, i, addr, p) ==
  LET start == [pt |-> t, it |-> i, rc |-> IF p \ i.perm # {} THEN "assert" ELSE "ok"]
      turn[n \in 0 .. Levels] == IF n = 0 \/ p = {} THEN start ELSE GrowOne(turn[n - 1])
      o == turn[Levels]
  IN  IF o.rc = "ok" /\ o.it.lbits = OffBits
      THEN [o EXCEPT !.pt[o.it.pep[1]][o.it.pep[2]] = [perm |-> p, ps |-> FALSE, pa |-> addr]]
      ELSE o

-----------------------------------------------------------------------------
(* ptiter: i is [pep, lbits, va, skip, stop] inside down() *)

PtEntry(t, i) == t[i.pep[1]][i.pep[2]]
AtRoot(va) == <<1, Index(va, initial_lbits)>>

\* Mutant of PtTurn: ends behind the last entry of a table below the root.
PtTurn_short(t, i) ==
  LET beyond == Behind(i.va, i.lbits)
      lower == i.lbits - IndexBits
      goesUp == i.lbits # initial_lbits
                /\ beyond \div 2 ^ (i.lbits + IndexBits) # i.va \div 2 ^ (i.lbits + IndexBits)
  IN  CASE ~i.skip /\ IsLink(PtEntry(t, i)) ->
             [i EXCEPT !.lbits = lower, !.pep = <<PtEntry(t, i).pa, Index(i.va, lower)>>]
        [] (i.skip \/ ~IsLink(PtEntry(t, i))) /\ ~goesUp /\ beyond # 0 ->
             [i EXCEPT !.pep[2] = @ + 1, !.skip = FALSE,
                       !.va = IF va_is_canonical(beyond) THEN beyond ELSE VA_HIGHMIN]
        [] OTHER -> [i EXCEPT !.lbits = done_lbits]

\* One turn of the loop.  Below the entry when it is a table that is not to be
\* skipped; else to the next entry, or up to the entry that the table hangs on.
PtTurn(t, i) ==
  LET beyond == Behind(i.va, i.lbits)
      lower == i.lbits - IndexBits
  IN  IF ~i.skip /\ IsLink(PtEntry(t, i))
      THEN [i EXCEPT !.lbits = lower, !.pep = <<PtEntry(t, i).pa, Index(i.va, lower)>>]
      ELSE IF i.lbits # initial_lbits
              /\ beyond \div 2 ^ (i.lbits + IndexBits) # i.va \div 2 ^ (i.lbits + IndexBits)
      THEN [i EXCEPT !.stop = i.lbits + IndexBits, !.lbits = initial_lbits, !.pep = AtRoot(i.va), !.skip = FALSE]
      ELSE IF beyond = 0 THEN [i EXCEPT !.lbits = done_lbits]
      ELSE [i EXCEPT !.pep[2] = @ + 1, !.skip = FALSE,
                     !.va = IF va_is_canonical(beyond) THEN beyond ELSE VA_HIGHMIN]

Stands(t, i) == i.lbits = done_lbits \/ (~i.skip /\ IsLink(PtEntry(t, i)) /\ i.lbits = i.stop)

\* The turns of down() from i: where it ends, and the pages whose entries it reads.
PtDown(t, i) ==
  LET bound == (2 ^ IndexBits + 2) * Levels + 1   \* down the tree, through entries, and up
      turn[n \in 0 .. bound] ==
        IF n = 0 THEN [i |-> i, read |-> {i.pep[1]}]
        ELSE LET o == turn[n - 1] IN
             IF Stands(t, o.i) THEN o
             ELSE LET j == PtTurn(t, o.i) IN [i |-> j, read |-> o.read \cup {j.pep[1]}]
  IN  turn[bound]

Lowest == OffBits + IndexBits
ptiter(t) == PtDown(t, [pep |-> AtRoot(0), lbits |-> initial_lbits, va |-> 0, skip |-> FALSE, stop |-> Lowest])
pt_next(t, i) == PtDown(t, [i EXCEPT !.skip = TRUE, !.stop = Lowest])

\* "for (ptiter it(pt); !it.done(); it.next()) kfree(it.kptr())": the pages in order,
\* and the pages that were read after they had been freed.
FreeAll(t) ==
  LET turn[n \in 0 .. MaxTables] ==
        IF n = 0 THEN [o |-> ptiter(t), freed |-> <<>>, stale |-> {}]
        ELSE LET s == turn[n - 1] IN
             IF s.o.i.lbits = done_lbits THEN s
             ELSE LET freed == Append(s.freed, PtEntry(t, s.o.i).pa)
                      o == pt_next(t, s.o.i)
                  IN  [o |-> o, freed |-> freed, stale |-> s.stale \cup (o.read \cap ToSet(freed))]
  IN  turn[MaxTables]

-----------------------------------------------------------------------------
(* One iterator at work *)

\* What the processor makes of an address: the entries on the way from the root.
Mmu(t, va) ==
  LET e(n, p) == t[p][Index(va, initial_lbits - n * IndexBits)]
      walk[n \in 0 .. Levels - 1] ==
        IF n = 0 THEN [e |-> e(0, 1), perm |-> All, bits |-> initial_lbits]
        ELSE LET w == walk[n - 1] IN
             IF ~IsLink(w.e) THEN w
             ELSE [e |-> e(n, w.e.pa), perm |-> w.perm \cap w.e.perm, bits |-> w.bits - IndexBits]
      w == walk[Levels - 1]
  IN  IF va_is_canonical(va) /\ "P" \in w.e.perm \cap w.perm
      THEN [pa |-> w.e.pa + (va % 2 ^ w.bits), perm |-> w.e.perm \cap w.perm]
      ELSE [pa |-> -1, perm |-> {}]

\* An empty table; one with a large page that only the kernel may use, as
\* init_kernel_memory makes them; and one whose upper level is not for users, as the
\* boot loader's.
Boots == { <<Blank>>,
           << [Blank EXCEPT ![0] = Link(2, All)],
              [Blank EXCEPT ![1] = [perm |-> {"P", "W"}, ps |-> TRUE, pa |-> 2 ^ (initial_lbits - IndexBits)]] >>,
           << [Blank EXCEPT ![0] = Link(2, {"P", "W"})], Blank >> }

VmInit ==
  /\ pt \in Boots
  /\ it = vmiter(pt, 0)
  /\ mapped = [va \in Addresses |-> Mmu(pt, va)]
  /\ maps = 0

Moves ==
  /\ it' \in {find(pt, it, va) : va \in Addresses} \cup {next(pt, it), next_range(pt, it)}
  /\ UNCHANGED <<pt, mapped, maps>>

\* vmiter::map panics, and the kernel is over, unless try_map answers 0; a caller of
\* try_map goes on.  Without permissions nothing is done above the last level: also
\* inside a large page, which then stays mapped.
TryMap ==
  /\ maps < MaxMaps
  /\ it.va % 2 ^ OffBits = 0 /\ it.lbits < noncanonical_lbits
  /\ \E m \in Maps :
       LET o == try_map(pt, it, m[1], m[2]) IN
       /\ o.rc # "assert"
       /\ pt' = o.pt /\ it' = o.it /\ maps' = maps + 1
       /\ mapped' = IF o.rc # "ok" \/ o.it.lbits > OffBits THEN mapped
                    ELSE [va \in Addresses |->
                            IF va \div 2 ^ OffBits # it.va \div 2 ^ OffBits THEN mapped[va]
                            ELSE IF "P" \in m[2] THEN [pa |-> m[1] + (va % 2 ^ OffBits), perm |-> m[2]]
                            ELSE [pa |-> -1, perm |-> {}]]

VmNext == Moves \/ TryMap

-----------------------------------------------------------------------------
(* Properties *)

\* Wherever the iterator has been moved, and whatever has been mapped through it,
\* it says of its address, and of the range behind it, what the processor finds
\* there, and the mappings are those that were asked for and no others: also when
\* try_map ran out of pages half-way.
VmiterIsTheMmu ==
  pt # <<>> =>
  /\ \A va \in Addresses : Mmu(pt, va) = mapped[va]
  /\ it.lbits = done_lbits \/ (HasEntry(pt, it) /\ "P" \in it.perm => pa(pt, it) = mapped[it.va].pa)
  /\ perm(pt, it) = (IF it.lbits = done_lbits THEN {} ELSE mapped[it.va].perm)
  /\ it.lbits # done_lbits =>
       \A sz \in 1 .. Size - it.va :
         range_perm(pt, it, sz) = {f \in All : \A va \in it.va .. it.va + sz - 1 : f \in mapped[va].perm}

\* The loop that frees a page table frees every page of it but the root, each once,
\* and never reads an entry of a page that it has freed.
EveryTableFreedOnce ==
  pt # <<>> => LET w == FreeAll(pt) IN
  /\ ToSet(w.freed) = 2 .. Len(pt)
  /\ Len(w.freed) = Len(pt) - 1
  /\ w.stale = {}
=============================================================================
