-------------------------- MODULE Io300FileProofs --------------------------
(***************************************************************************)
(* Two results about the cached file, for every block size and every size  *)
(* of the file: the assertions of check_invariants hold whatever read()    *)
(* and write() do, and on a disk that works the cached file implements     *)
(* ByteFile.                                                               *)
(***************************************************************************)
EXTENDS Io300File, SequenceTheorems, TLAPS

Disks == [size : 0 .. MaxSize, data : [Offsets -> Bytes]]

Files == [cache : [Slots -> Bytes], cache_pos : Nat, cache_idx : 0 .. CacheSize,
          cache_valid : 0 .. CacheSize, is_dirty : BOOLEAN, file_size : 0 .. MaxSize]

Aligned(p) == \E k \in Nat : p = k * CacheSize

\* The block lies inside the file's bound, with what is valid of it.
Block(g) ==
  /\ g \in Files
  /\ Aligned(g.cache_pos)
  /\ g.cache_pos + g.cache_valid <= MaxSize

TypeOK ==
  /\ use \in Uses
  /\ disk \in Disks
  /\ f \in Files
  /\ mode \in {"closed", "READ", "WRITE", "RDWR"}
  /\ op \in {"idle", "read", "write"}
  /\ todo \in Seq(Bytes)
  /\ want \in Nat
  /\ done \in Nat

\* How far the call in progress is, and that what a write has still to store
\* fits into the bound.
CallInv ==
  /\ op = "read" => done <= want
  /\ op = "write" => done <= Len(todo) /\ Head0(f) + (Len(todo) - done) <= MaxSize
  /\ op = "idle" => done = 0 /\ buff = <<>>
  /\ mode = "closed" => op = "idle"

IInv == TypeOK /\ Block(f) /\ CallInv

USE CacheSizeAssumption

-----------------------------------------------------------------------------
(* Multiples of the block size *)

\* The start of a block is a multiple of the block size.
LEMMA AlignedMod == ASSUME NEW p, Aligned(p) PROVE p \in Nat /\ p % CacheSize = 0
<1> PICK k \in Nat : p = k * CacheSize BY DEF Aligned
<1>1. k * CacheSize \in Nat /\ (k * CacheSize) % CacheSize = 0 OBVIOUS
<1> QED BY <1>1

\* The block of an offset, as seekTo computes it.
LEMMA SplitOffset ==
  ASSUME NEW p \in Nat
  PROVE  Aligned(p - (p % CacheSize)) /\ p % CacheSize \in 0 .. CacheSize - 1 /\ p - (p % CacheSize) \in 0 .. p
<1> DEFINE C == CacheSize
<1>0. C \in Nat /\ C > 0 OBVIOUS
<1> HIDE DEF C
<1>1. p = C * (p \div C) + (p % C) BY <1>0, Z3
<1>2. p \div C \in Nat /\ p % C \in 0 .. C - 1 BY <1>0
<1>3. p - (p % C) = C * (p \div C) /\ C * (p \div C) \in Nat BY <1>0, <1>1, <1>2
<1>4. C * (p \div C) = (p \div C) * C BY <1>0, <1>2
<1>5. Aligned(p - (p % C)) BY <1>2, <1>3, <1>4 DEF Aligned, C
<1>6. p - (p % C) \in 0 .. p BY <1>0, <1>2, <1>3
<1> QED BY <1>2, <1>5, <1>6 DEF C

\* The block that follows a block is a block.
LEMMA AlignedNext == ASSUME NEW p, Aligned(p) PROVE Aligned(p + CacheSize)
<1> PICK k \in Nat : p = k * CacheSize BY DEF Aligned
<1>1. p + CacheSize = (k + 1) * CacheSize /\ k + 1 \in Nat OBVIOUS
<1> QED BY <1>1 DEF Aligned

\* The offset 0 begins a block.
LEMMA AlignedZero == Aligned(0)
<1>1. 0 = 0 * CacheSize OBVIOUS
<1> QED BY <1>1 DEF Aligned

\* Blocks do not overlap: a block that begins before another ends before it.
LEMMA BlocksApart ==
  ASSUME NEW p, NEW q, Aligned(p), Aligned(q), p < q
  PROVE  p + CacheSize <= q
<1> DEFINE C == CacheSize
<1> PICK k \in Nat : p = k * C BY DEF Aligned
<1> PICK m \in Nat : q = m * C BY DEF Aligned
<1>0. C \in Nat /\ C > 0 OBVIOUS
<1> HIDE DEF C
<1>1. k < m
  <2> SUFFICES ASSUME m <= k PROVE FALSE OBVIOUS
  <2>1. m * C <= k * C BY <1>0
  <2> QED BY <2>1, <1>0
<1>2. PICK j \in Nat : m = k + 1 + j
  <2>1. m - (k + 1) \in Nat /\ m = k + 1 + (m - (k + 1)) BY <1>1
  <2> QED BY <2>1
<1>3. m * C = k * C + C + j * C BY <1>0, <1>2
<1>4. j * C \in Nat /\ k * C \in Nat BY <1>0
<1> QED BY <1>0, <1>3, <1>4 DEF C

\* The bound of the file is a whole number of blocks.
LEMMA AlignedMax == Aligned(MaxSize)
<1> DEFINE C == CacheSize
<1>0. C \in Nat /\ C > 0 OBVIOUS
<1>a. MaxSize \in Nat /\ MaxSize % C = 0 BY MaxSizeAssumption
<1> HIDE DEF C
<1>1. MaxSize = C * (MaxSize \div C) + (MaxSize % C) BY <1>0, <1>a, Z3
<1>2. MaxSize \div C \in Nat BY <1>0, <1>a
<1>3. MaxSize = (MaxSize \div C) * C BY <1>0, <1>1, <1>2, <1>a
<1> QED BY <1>2, <1>3 DEF Aligned, C

-----------------------------------------------------------------------------
(* What flush and fetch leave alone *)

\* g and h are at the same offset of the same file.
SamePlace(g, h) ==
  h.cache_pos = g.cache_pos /\ h.cache_idx = g.cache_idx /\ h.file_size = g.file_size

\* write() inside the bound leaves a file inside the bound.
LEMMA WriteAtDisk ==
  ASSUME NEW d \in Disks, NEW p \in Nat, NEW n \in Nat, NEW src, p + n <= MaxSize,
         \A i \in 0 .. n - 1 : src[i] \in Bytes
  PROVE  WriteAt(d, p, src, n) \in Disks
<1> MaxSize \in Nat BY MaxSizeAssumption
<1>1. \A i \in Offsets : (IF i >= p /\ i < p + n THEN src[i - p] ELSE d.data[i]) \in Bytes
  <2> TAKE i \in Offsets
  <2>1. d.data[i] \in Bytes BY DEF Disks
  <2>2. i >= p /\ i < p + n => i - p \in 0 .. n - 1 BY DEF Offsets
  <2> QED BY <2>1, <2>2
<1>2. [i \in Offsets |-> IF i >= p /\ i < p + n THEN src[i - p] ELSE d.data[i]] \in [Offsets -> Bytes]
  BY <1>1
<1>3. (IF n = 0 THEN d.size ELSE max(d.size, p + n)) \in 0 .. MaxSize BY DEF Disks, max
<1> QED BY <1>2, <1>3 DEF WriteAt, Disks

\* flush changes nothing of the struct but is_dirty, and writes inside the bound.
LEMMA FlushFacts ==
  ASSUME NEW g, Block(g), NEW d \in Disks, NEW w \in flush(g, d)
  PROVE  /\ Block(w.g) /\ SamePlace(g, w.g) /\ w.d \in Disks
         /\ w.g.cache = g.cache /\ w.g.cache_valid = g.cache_valid
         /\ w.rc \in {0, -1}
<1> MaxSize \in Nat BY MaxSizeAssumption
<1>1. CASE ~g.is_dirty
  <2>1. w = [g |-> g, d |-> d, rc |-> 0] BY <1>1 DEF flush
  <2> QED BY <2>1 DEF SamePlace
<1>2. CASE g.is_dirty
  <2>1. PICK n \in 0 .. g.cache_valid :
          w = [g  |-> IF n = g.cache_valid THEN [g EXCEPT !.is_dirty = FALSE] ELSE g,
               d  |-> WriteAt(d, g.cache_pos, g.cache, n),
               rc |-> IF n = g.cache_valid THEN 0 ELSE -1]
    BY <1>2 DEF flush
  <2>2. g \in Files BY DEF Block
  <2>3. \A i \in 0 .. n - 1 : g.cache[i] \in Bytes BY <2>2 DEF Files, Slots
  <2>4. g.cache_pos + n <= MaxSize /\ n \in Nat /\ g.cache_pos \in Nat BY <2>2 DEF Files, Block
  <2>5. w.d \in Disks BY <2>1, <2>3, <2>4, WriteAtDisk
  <2>6. Block([g EXCEPT !.is_dirty = FALSE]) /\ SamePlace(g, [g EXCEPT !.is_dirty = FALSE])
    BY <2>2 DEF Block, Files, SamePlace
  <2>7. SamePlace(g, g) BY DEF SamePlace
  <2>8. [g EXCEPT !.is_dirty = FALSE].cache = g.cache
        /\ [g EXCEPT !.is_dirty = FALSE].cache_valid = g.cache_valid
    BY <2>2 DEF Files
  <2> QED BY <2>1, <2>5, <2>6, <2>7, <2>8
<1> QED BY <1>1, <1>2

\* fetch changes the bytes of the block and how many of them are valid; what is
\* valid lies inside the bound, also when read() fails for a block after the one
\* whose cache_valid is still there.
LEMMA FetchFacts ==
  ASSUME NEW g \in Files, Aligned(g.cache_pos), g.cache_pos <= MaxSize, NEW d \in Disks,
         NEW o \in fetch(g, d)
  PROVE  Block(o.g) /\ SamePlace(g, o.g) /\ o.g.is_dirty = g.is_dirty /\ o.rc \in Int
<1> MaxSize \in Nat BY MaxSizeAssumption
<1>0. g.cache_pos \in Nat /\ g.file_size \in 0 .. MaxSize /\ d.size \in 0 .. MaxSize BY DEF Files, Disks
<1>1. CASE g.cache_pos >= g.file_size
  <2>1. o = [g |-> [g EXCEPT !.cache_valid = 0], rc |-> 0] BY <1>1 DEF fetch
  <2> QED BY <2>1 DEF Block, SamePlace, Files
<1>2. CASE ~(g.cache_pos >= g.file_size)
  <2> DEFINE n == max(0, min(CacheSize, d.size - g.cache_pos))
             c == [i \in Slots |-> IF i < n THEN d.data[g.cache_pos + i] ELSE g.cache[i]]
  <2>1. g.cache_pos + CacheSize <= MaxSize
    <3>1. g.cache_pos < MaxSize BY <1>0, <1>2
    <3> QED BY <3>1, AlignedMax, BlocksApart
  <2>2. n \in 0 .. CacheSize /\ (n > 0 => n <= d.size - g.cache_pos) BY <1>0 DEF max, min
  <2> HIDE DEF n
  <2>3. c \in [Slots -> Bytes]
    <3> SUFFICES ASSUME NEW i \in Slots PROVE (IF i < n THEN d.data[g.cache_pos + i] ELSE g.cache[i]) \in Bytes
      OBVIOUS
    <3>1. g.cache[i] \in Bytes BY DEF Files
    <3>2. i < n => g.cache_pos + i \in Offsets BY <1>0, <2>2 DEF Slots, Offsets
    <3> QED BY <3>1, <3>2 DEF Disks
  <2> HIDE DEF c
  <2>4. o = [g |-> [g EXCEPT !.cache = c, !.cache_valid = n], rc |-> n] \/ o = [g |-> g, rc |-> -1]
    BY <1>2 DEF fetch, c, n
  <2> DEFINE h == [g EXCEPT !.cache = c, !.cache_valid = n]
  <2>5. h \in Files /\ h.cache_pos = g.cache_pos /\ h.cache_valid = n BY <2>2, <2>3 DEF Files
  <2>6. SamePlace(g, h) /\ h.is_dirty = g.is_dirty BY DEF Files, SamePlace
  <2> HIDE DEF h
  <2>8. Block(h) BY <1>0, <2>1, <2>2, <2>5 DEF Block
  <2>7. Block(g) /\ SamePlace(g, g) BY <2>1, <1>0 DEF Block, SamePlace, Files
  <2>9. CASE o = [g |-> h, rc |-> n] BY <2>2, <2>6, <2>8, <2>9
  <2>10. CASE o = [g |-> g, rc |-> -1] BY <2>7, <2>10
  <2> QED BY <2>4, <2>9, <2>10 DEF h
<1> QED BY <1>1, <1>2

\* The next block is a block of the file, if this one does not end behind the bound.
LEMMA AdvanceFacts ==
  ASSUME NEW g, Block(g), g.cache_pos + CacheSize <= MaxSize
  PROVE  /\ Advance(g) \in Files /\ Aligned(Advance(g).cache_pos) /\ Advance(g).cache_pos <= MaxSize
         /\ Advance(g).cache_pos = g.cache_pos + CacheSize /\ Advance(g).cache_idx = 0
         /\ Advance(g).file_size = g.file_size /\ Advance(g).is_dirty = g.is_dirty
         /\ Advance(g).cache = g.cache /\ Advance(g).cache_valid = g.cache_valid
<1> g \in Files BY DEF Block
<1>1. Aligned(g.cache_pos + CacheSize) BY AlignedNext DEF Block
<1>2. Advance(g).cache_pos = g.cache_pos + CacheSize BY DEF Advance, Files
<1>3. g.cache_pos + CacheSize \in Nat /\ 0 \in 0 .. CacheSize BY DEF Files
<1>4. Advance(g) \in Files BY <1>3 DEF Advance, Files
<1>5. /\ Advance(g).cache_idx = 0 /\ Advance(g).file_size = g.file_size
      /\ Advance(g).is_dirty = g.is_dirty /\ Advance(g).cache = g.cache
      /\ Advance(g).cache_valid = g.cache_valid
  BY DEF Advance, Files
<1> QED BY <1>1, <1>2, <1>4, <1>5

\* A block that begins before the end of the file ends inside the bound.
LEMMA BlockInBound ==
  ASSUME NEW g, Block(g), g.cache_pos < g.file_size
  PROVE  g.cache_pos + CacheSize <= MaxSize
<1> MaxSize \in Nat BY MaxSizeAssumption
<1>1. g.cache_pos < MaxSize /\ Aligned(g.cache_pos) BY DEF Block, Files
<1> QED BY <1>1, AlignedMax, BlocksApart

\* What io300_read does between two blocks keeps the block, and either the offset
\* or, with the next block, an offset at its start.
LEMMA StepFacts ==
  ASSUME NEW g, Block(g), g.cache_pos + CacheSize <= MaxSize, NEW d \in Disks, NEW o \in Step(g, d)
  PROVE  Block(o.g) /\ o.d \in Disks
<1>1. PICK w \in flush(g, d) :
        o \in IF w.rc < 0 THEN {[g |-> w.g, d |-> w.d, rc |-> -1]}
              ELSE {[g |-> x.g, d |-> w.d, rc |-> x.rc] : x \in fetch(Advance(w.g), w.d)}
  BY DEF Step
<1>2. Block(w.g) /\ SamePlace(g, w.g) /\ w.d \in Disks BY FlushFacts
<1>3. CASE w.rc < 0 BY <1>1, <1>2, <1>3
<1>4. CASE ~(w.rc < 0)
  <2>1. PICK x \in fetch(Advance(w.g), w.d) : o = [g |-> x.g, d |-> w.d, rc |-> x.rc] BY <1>1, <1>4
  <2>2. w.g.cache_pos + CacheSize <= MaxSize BY <1>2 DEF SamePlace
  <2>3. Block(x.g) BY <1>2, <2>2, AdvanceFacts, FetchFacts
  <2> QED BY <1>2, <2>1, <2>3
<1> QED BY <1>3, <1>4

\* After seekTo the block is the one of the offset.
LEMMA SeekFacts ==
  ASSUME NEW g, Block(g), NEW d \in Disks, NEW p \in 0 .. MaxSize, NEW o \in seekTo(g, d, p)
  PROVE  Block(o.g) /\ o.d \in Disks
<1> MaxSize \in Nat BY MaxSizeAssumption
<1> DEFINE h(x) == [x EXCEPT !.cache_pos = p - (p % CacheSize), !.cache_idx = p % CacheSize]
<1>1. PICK w \in flush(g, d) : \E x \in fetch(h(w.g), w.d) : o = [g |-> x.g, d |-> w.d]
  BY DEF seekTo
<1>2. PICK x \in fetch(h(w.g), w.d) : o = [g |-> x.g, d |-> w.d] BY <1>1
<1>3. Block(w.g) /\ w.d \in Disks BY FlushFacts
<1>4. Aligned(p - (p % CacheSize)) /\ p % CacheSize \in 0 .. CacheSize - 1 /\ p - (p % CacheSize) \in 0 .. p
  BY SplitOffset
<1>5. h(w.g) \in Files /\ h(w.g).cache_pos = p - (p % CacheSize)
  <2>1. w.g \in Files BY <1>3 DEF Block
  <2>2. p % CacheSize \in 0 .. CacheSize /\ p - (p % CacheSize) \in Nat BY <1>4
  <2> QED BY <2>1, <2>2 DEF Files
<1>6. h(w.g).cache_pos <= MaxSize BY <1>4, <1>5
<1> HIDE DEF h
<1>7. Block(x.g) BY <1>3, <1>4, <1>5, <1>6, FetchFacts
<1> QED BY <1>2, <1>3, <1>7

-----------------------------------------------------------------------------
(* One level of io300_write *)

\* The bytes that go into the block at one level, and the struct with them in it:
\* the local variables of WriteLevel.
Rest == Len(todo) - done
Fits(g) == min(Rest, CacheSize - g.cache_idx)
Put(g) ==
  [g EXCEPT
     !.cache = [i \in Slots |-> IF i >= g.cache_idx /\ i < g.cache_idx + Fits(g)
                                THEN todo[done + i - g.cache_idx + 1] ELSE @[i]],
     !.is_dirty = @ \/ Fits(g) > 0,
     !.cache_valid = IF Fits(g) > 0 THEN max(@, g.cache_idx + Fits(g)) ELSE @,
     !.file_size = max(@, Head0(g) + Rest)]

\* Filling the hole leaves the block where it is and ends the file at the offset.
LEMMA FillCacheFacts ==
  ASSUME IInv
  PROVE  /\ FillCache \in Files
         /\ FillCache.cache_pos = f.cache_pos /\ FillCache.cache_idx = f.cache_idx
         /\ FillCache.cache_valid = f.cache_valid /\ FillCache.file_size = f.file_size
<1> f \in Files BY DEF IInv, TypeOK
<1> DEFINE c == [i \in Slots |-> IF i >= eof_idx /\ i < f.cache_idx THEN 0 ELSE f.cache[i]]
<1>1. c \in [Slots -> Bytes] BY BytesAssumption DEF Files
<1>2. FillCache = IF f.cache_idx > eof_idx THEN [f EXCEPT !.cache = c, !.is_dirty = TRUE] ELSE f
  BY DEF FillCache
<1> HIDE DEF c
<1> QED BY <1>1, <1>2 DEF Files

\* The same of Fill, with the zeros on disk.
LEMMA FillFacts ==
  ASSUME IInv, Head0(f) <= MaxSize, NEW h \in Fill
  PROVE  /\ Block(h.g) /\ h.d \in Disks
         /\ h.g.cache_pos = f.cache_pos /\ h.g.cache_idx = f.cache_idx
         /\ h.g.cache_valid = f.cache_valid
<1> MaxSize \in Nat BY MaxSizeAssumption
<1>0. f \in Files /\ disk \in Disks /\ Block(f) BY DEF IInv, TypeOK
<1>1. CASE f.file_size >= Head0(f) BY <1>0, <1>1 DEF Fill
<1>2. CASE ~(f.file_size >= Head0(f))
  <2>1. PICK d \in FillDisk : h = [g |-> [FillCache EXCEPT !.file_size = Head0(f)], d |-> d]
    BY <1>2 DEF Fill
  <2>2. Head0(f) \in 0 .. MaxSize BY <1>0 DEF Head0, Files
  <2> DEFINE g == FillCache
             x == [g EXCEPT !.file_size = Head0(f)]
  <2>3. g \in Files /\ g.cache_pos = f.cache_pos /\ g.cache_idx = f.cache_idx
        /\ g.cache_valid = f.cache_valid BY FillCacheFacts
  <2> HIDE DEF g
  <2>4. x \in Files /\ x.cache_pos = g.cache_pos /\ x.cache_idx = g.cache_idx
        /\ x.cache_valid = g.cache_valid BY <2>2, <2>3 DEF Files
  <2> HIDE DEF x
  <2>5. Block(x) BY <1>0, <2>3, <2>4 DEF Block
  <2>6. d \in Disks
    <3>1. CASE eof_idx > 0 BY <1>0, <3>1 DEF FillDisk
    <3>2. CASE ~(eof_idx > 0)
      <4>1. PICK n \in 0 .. f.cache_pos - f.file_size :
              d = WriteAt(disk, f.file_size, [i \in Offsets |-> 0], n) BY <3>2 DEF FillDisk
      <4>2. f.file_size \in Nat /\ f.cache_pos <= MaxSize /\ f.cache_pos \in Nat BY <1>0 DEF Files, Block
      <4>3. n \in Nat /\ f.file_size + n <= MaxSize BY <4>2
      <4> DEFINE src == [i \in Offsets |-> 0]
      <4>4. \A i \in 0 .. n - 1 : src[i] \in Bytes BY <4>2, <4>3, BytesAssumption DEF Offsets
      <4> HIDE DEF src
      <4> QED BY <1>0, <4>2, <4>3, <4>4, WriteAtDisk, <4>1 DEF src
    <3> QED BY <3>1, <3>2
  <2>7. h = [g |-> x, d |-> d] BY <2>1 DEF x, g
  <2> QED BY <2>3, <2>4, <2>5, <2>6, <2>7
<1> QED BY <1>1, <1>2

\* The bytes put into the block stay inside it.
LEMMA PutFacts ==
  ASSUME IInv, op = "write", NEW g, Block(g), g.cache_pos = f.cache_pos, g.cache_idx = f.cache_idx
  PROVE  /\ Rest \in Nat /\ Fits(g) \in 0 .. Rest /\ g.cache_idx + Fits(g) \in 0 .. CacheSize
         /\ g.cache_pos + g.cache_idx + Rest <= MaxSize
         /\ Block(Put(g)) /\ Put(g).cache_pos = g.cache_pos /\ Put(g).cache_idx = g.cache_idx
         /\ Put(g).file_size = max(g.file_size, Head0(g) + Rest)
         /\ Put(g).is_dirty = (g.is_dirty \/ Fits(g) > 0)
         /\ Put(g).cache_valid = IF Fits(g) > 0 THEN max(g.cache_valid, g.cache_idx + Fits(g))
                                 ELSE g.cache_valid
<1> MaxSize \in Nat BY MaxSizeAssumption
<1>0. g \in Files /\ f \in Files /\ todo \in Seq(Bytes) /\ done \in Nat BY DEF Block, IInv, TypeOK
<1>a. Len(todo) \in Nat BY <1>0
<1>1. Rest \in Nat /\ g.cache_pos + g.cache_idx + Rest <= MaxSize
  BY <1>0, <1>a DEF Rest, IInv, CallInv, Head0, Files
<1>2. Fits(g) \in 0 .. Rest /\ g.cache_idx + Fits(g) \in 0 .. CacheSize
  <2>1. g.cache_idx \in 0 .. CacheSize BY <1>0 DEF Files
  <2> QED BY <1>1, <2>1 DEF Fits, min
<1> DEFINE n == Fits(g)
           c == [i \in Slots |-> IF i >= g.cache_idx /\ i < g.cache_idx + n
                                 THEN todo[done + i - g.cache_idx + 1] ELSE g.cache[i]]
           v == IF n > 0 THEN max(g.cache_valid, g.cache_idx + n) ELSE g.cache_valid
           z == max(g.file_size, Head0(g) + Rest)
           b == g.is_dirty \/ n > 0
<1> HIDE DEF n
<1>3. c \in [Slots -> Bytes]
  <2> SUFFICES ASSUME NEW i \in Slots, i >= g.cache_idx, i < g.cache_idx + n
               PROVE  todo[done + i - g.cache_idx + 1] \in Bytes
    BY <1>0 DEF Files
  <2>1. n \in 0 .. Len(todo) - done BY <1>1, <1>2 DEF n, Rest
  <2>3. g.cache_idx \in Nat /\ i \in Int BY <1>0 DEF Files, Slots
  <2>2. done + i - g.cache_idx + 1 \in 1 .. Len(todo) BY <2>1, <2>3, <1>0, <1>a
  <2> QED BY <1>0, <2>2
<1>4. v \in 0 .. CacheSize /\ g.cache_pos + v <= MaxSize
  <2>1. /\ g.cache_pos \in Nat /\ g.cache_idx \in Nat /\ g.cache_valid \in 0 .. CacheSize
        /\ g.cache_pos + g.cache_valid <= MaxSize
    BY <1>0 DEF Files, Block
  <2>2. n \in 0 .. Rest /\ g.cache_idx + n \in 0 .. CacheSize
    BY <1>2 DEF n
  <2>3. g.cache_pos + (g.cache_idx + n) <= MaxSize
    BY <1>1, <2>1, <2>2
  <2> QED BY <2>1, <2>2, <2>3 DEF max
<1>5. z \in 0 .. MaxSize BY <1>0, <1>1 DEF max, Files, Head0
<1>6. b \in BOOLEAN OBVIOUS
<1>7. Put(g) = [g EXCEPT !.cache = c, !.is_dirty = b, !.cache_valid = v, !.file_size = z]
  BY DEF Put, n
<1> HIDE DEF c, v, z, b
<1>8. /\ Put(g) \in Files /\ Put(g).cache_pos = g.cache_pos /\ Put(g).cache_idx = g.cache_idx
      /\ Put(g).cache_valid = v /\ Put(g).file_size = z /\ Put(g).is_dirty = b
  BY <1>0, <1>3, <1>4, <1>5, <1>6, <1>7 DEF Files
<1>9. Block(Put(g)) BY <1>4, <1>8 DEF Block
<1> QED BY <1>1, <1>2, <1>8, <1>9 DEF v, z, n, b

-----------------------------------------------------------------------------
(* The invariant of the calls *)

\* The invariant holds before the file is opened.
LEMMA InitIInv == Init => IInv
<1> SUFFICES ASSUME Init PROVE IInv OBVIOUS
<1> MaxSize \in Nat BY MaxSizeAssumption
<1>1. use \in Uses BY DEF Init
<1>2. PICK s \in use.writes \cup {<<>>} : disk = Stored(s) BY DEF Init
<1>3. s \in Seq(Bytes) /\ Len(s) <= MaxSize
  <2>1. use.bytes \subseteq Bytes /\ use.writes \subseteq Seq(use.bytes) /\ use.size \in 1 .. MaxSize
        /\ \A t \in use.writes : Len(t) <= use.size
    BY <1>1, UsesAssumption
  <2>2. CASE s \in use.writes
    <3>1. s \in Seq(use.bytes) /\ Len(s) <= use.size BY <2>1, <2>2
    <3>2. s \in Seq(Bytes) BY <2>1, <3>1
    <3> QED BY <2>1, <3>1, <3>2
  <2>3. CASE s = <<>> BY <2>3
  <2> QED BY <2>2, <2>3
<1>4. EmptyDisk \in Disks BY BytesAssumption DEF EmptyDisk, Zeros, Disks
<1> DEFINE src == [i \in Slots \cup Offsets |-> IF i < Len(s) THEN s[i + 1] ELSE 0]
<1>5. \A i \in 0 .. Len(s) - 1 : src[i] \in Bytes
  <2> TAKE i \in 0 .. Len(s) - 1
  <2>1. Len(s) \in Nat BY <1>3
  <2>2. i \in Offsets /\ i < Len(s) /\ i + 1 \in 1 .. Len(s) BY <1>3, <2>1 DEF Offsets
  <2>3. s[i + 1] \in Bytes BY <1>3, <2>2
  <2> QED BY <2>2, <2>3
<1> HIDE DEF src
<1>6. WriteAt(EmptyDisk, 0, src, Len(s)) \in Disks BY <1>3, <1>4, <1>5, WriteAtDisk
<1>7. disk \in Disks BY <1>2, <1>6 DEF Stored, src
<1>8. f \in Files /\ f.cache_pos = 0 /\ f.cache_valid = 0 BY BytesAssumption DEF Init, Files
<1>9. Block(f) BY <1>8, AlignedZero DEF Block
<1> QED BY <1>1, <1>7, <1>8, <1>9 DEF Init, IInv, TypeOK, CallInv

\* A call that returns leaves no call in progress: block and disk decide.
LEMMA ReturnsInv ==
  ASSUME IInv, use' = use, NEW c, NEW v, Returns(c, v), disk' \in Disks, Block(f'),
         mode' \in {"closed", "READ", "WRITE", "RDWR"}
  PROVE  IInv'
<1>1. f' \in Files BY DEF Block
<1>2. TypeOK' BY <1>1 DEF IInv, TypeOK, Returns
<1>3. CallInv' BY DEF CallInv, Returns
<1>4. Block(f)' BY DEF Block, Aligned
<1> QED BY <1>2, <1>3, <1>4 DEF IInv

\* io300_open keeps the invariant.
LEMMA OpenInv == ASSUME IInv, use' = use, io300_open PROVE IInv'
<1> MaxSize \in Nat BY MaxSizeAssumption
<1>1. PICK m \in use.modes, junk \in [Slots -> use.bytes] :
       /\ disk' = IF m = "WRITE" THEN EmptyDisk ELSE disk
       /\ \E o \in fetch([cache |-> junk, cache_pos |-> 0, cache_idx |-> 0,
                          cache_valid |-> min(disk'.size, CacheSize), is_dirty |-> FALSE,
                          file_size |-> disk'.size], disk') :
            IF o.rc < 0 THEN UNCHANGED <<f, mode>> ELSE f' = o.g /\ mode' = m
  BY DEF io300_open
<1>2. UNCHANGED <<op, todo, want, buff, done>> /\ mode = "closed" BY DEF io300_open
<1>3. use \in Uses /\ disk \in Disks /\ Block(f) BY DEF IInv, TypeOK
<1>4. EmptyDisk \in Disks BY BytesAssumption DEF EmptyDisk, Zeros, Disks
<1>5. disk' \in Disks BY <1>1, <1>3, <1>4
<1>6. junk \in [Slots -> Bytes] /\ m \in {"READ", "WRITE", "RDWR"} BY <1>3, UsesAssumption
<1> DEFINE g == [cache |-> junk, cache_pos |-> 0, cache_idx |-> 0,
                 cache_valid |-> min(disk'.size, CacheSize), is_dirty |-> FALSE,
                 file_size |-> disk'.size]
<1>7. min(disk'.size, CacheSize) \in 0 .. CacheSize /\ disk'.size \in 0 .. MaxSize BY <1>5 DEF Disks, min
<1>8. g \in Files /\ g.cache_pos = 0 BY <1>6, <1>7 DEF Files
<1> HIDE DEF g
<1>9. PICK o \in fetch(g, disk') : IF o.rc < 0 THEN UNCHANGED <<f, mode>> ELSE f' = o.g /\ mode' = m
  BY <1>1 DEF g
<1>10. Block(o.g) BY <1>5, <1>8, AlignedZero, FetchFacts
<1>11. Block(f') /\ mode' \in {"closed", "READ", "WRITE", "RDWR"} BY <1>2, <1>3, <1>6, <1>9, <1>10
<1>12. f' \in Files BY <1>11 DEF Block
<1>13. TypeOK' BY <1>2, <1>3, <1>5, <1>11, <1>12 DEF IInv, TypeOK
<1>14. Block(f)' BY <1>11 DEF Block, Aligned
<1>15. CallInv' BY <1>2, <1>11 DEF IInv, CallInv
<1> QED BY <1>13, <1>14, <1>15 DEF IInv

\* io300_seek keeps the invariant: the offset stays in the block, or the block of
\* the new offset replaces it.
LEMMA SeekInv ==
  ASSUME IInv, use' = use, NEW p \in Int, p < use.size, io300_seek(p)
  PROVE  IInv'
<1> MaxSize \in Nat BY MaxSizeAssumption
<1>0. f \in Files /\ disk \in Disks /\ Block(f) /\ mode' = mode
      /\ mode \in {"closed", "READ", "WRITE", "RDWR"} /\ use \in Uses
  BY DEF IInv, TypeOK, io300_seek
<1>1. use.size \in 1 .. MaxSize BY <1>0, UsesAssumption
<1>2. Returns("seek", IF p < 0 THEN -1 ELSE p) BY DEF io300_seek
<1>3. CASE p < 0
  <2>0. ~(p >= f.cache_pos) BY <1>0, <1>3 DEF Files
  <2>1. f' = f /\ disk' = disk BY <1>3, <2>0 DEF io300_seek
  <2> QED BY <1>0, <1>2, <2>1, ReturnsInv
<1>4. CASE ~(p < 0) /\ p >= f.cache_pos /\ p < f.cache_pos + CacheSize
  <2>1. f' = [f EXCEPT !.cache_idx = p - f.cache_pos] /\ disk' = disk BY <1>4 DEF io300_seek
  <2>2. p - f.cache_pos \in 0 .. CacheSize BY <1>0, <1>4 DEF Files
  <2>3. f' \in Files /\ f'.cache_pos = f.cache_pos /\ f'.cache_valid = f.cache_valid
    BY <1>0, <2>1, <2>2 DEF Files
  <2>4. Block(f') BY <1>0, <2>3 DEF Block
  <2> QED BY <1>0, <1>2, <2>1, <2>4, ReturnsInv
<1>5. CASE ~(p < 0) /\ ~(p >= f.cache_pos /\ p < f.cache_pos + CacheSize)
  <2>1. PICK o \in seekTo(f, disk, p) : f' = o.g /\ disk' = o.d BY <1>5 DEF io300_seek
  <2>2. p \in 0 .. MaxSize BY <1>1, <1>5
  <2>3. Block(o.g) /\ o.d \in Disks BY <1>0, <2>2, SeekFacts
  <2> QED BY <1>0, <1>2, <2>1, <2>3, ReturnsInv
<1> QED BY <1>3, <1>4, <1>5

\* io300_close keeps the invariant.
LEMMA CloseInv == ASSUME IInv, use' = use, io300_close PROVE IInv'
<1>0. disk \in Disks /\ Block(f) BY DEF IInv, TypeOK
<1>1. PICK w \in flush(f, disk) : f' = w.g /\ disk' = w.d BY DEF io300_close
<1>2. Block(w.g) /\ w.d \in Disks BY <1>0, FlushFacts
<1>3. mode' = "closed" /\ Returns("close", 0) BY DEF io300_close
<1> QED BY <1>1, <1>2, <1>3, ReturnsInv

\* io300_filesize and the calls of io300_read and io300_write keep the invariant.
LEMMA CallsInv ==
  ASSUME IInv, use' = use,
         io300_filesize \/ (\E n \in use.reads : CallRead(n)) \/ (\E s \in use.writes : CallWrite(s))
  PROVE  IInv'
<1> MaxSize \in Nat BY MaxSizeAssumption
<1>0. /\ f \in Files /\ disk \in Disks /\ Block(f) /\ use \in Uses
      /\ mode \in {"closed", "READ", "WRITE", "RDWR"}
  BY DEF IInv, TypeOK
<1>1. CASE io300_filesize
  <2>1. Returns("filesize", disk.size) /\ disk' = disk /\ f' = f /\ mode' = mode
    BY <1>1 DEF io300_filesize
  <2> QED BY <1>0, <2>1, ReturnsInv
<1>2. ASSUME NEW n \in use.reads, CallRead(n) PROVE IInv'
  <2>1. /\ op' = "read" /\ want' = n /\ disk' = disk /\ f' = f /\ mode' = mode /\ todo' = todo
        /\ done' = done /\ mode # "closed" /\ op = "idle"
    BY <1>2 DEF CallRead, Idle
  <2>2. n \in Nat BY <1>0, UsesAssumption
  <2>3. TypeOK' BY <2>1, <2>2 DEF IInv, TypeOK
  <2>4. Block(f)' BY <1>0, <2>1 DEF Block, Aligned
  <2>5. CallInv' BY <2>1, <2>2 DEF CallInv, IInv
  <2> QED BY <2>3, <2>4, <2>5 DEF IInv
<1>3. ASSUME NEW s \in use.writes, CallWrite(s) PROVE IInv'
  <2>1. /\ op' = "write" /\ todo' = s /\ disk' = disk /\ f' = f /\ mode' = mode /\ want' = want
        /\ done' = done /\ mode # "closed" /\ op = "idle" /\ Head0(f) + Len(s) <= use.size
    BY <1>3 DEF CallWrite, Idle
  <2>2. use.size \in 1 .. MaxSize /\ use.bytes \subseteq Bytes /\ s \in Seq(use.bytes)
    BY <1>0, UsesAssumption
  <2>3. s \in Seq(Bytes) /\ Len(s) \in Nat BY <2>2
  <2>4. TypeOK' BY <2>1, <2>3 DEF IInv, TypeOK
  <2>5. Block(f)' BY <1>0, <2>1 DEF Block, Aligned
  <2>6. done = 0 BY <2>1 DEF IInv, CallInv
  <2>7. Head0(f) \in Nat BY <1>0 DEF Files, Head0
  <2>8. done' <= Len(todo') /\ Head0(f) + (Len(s) - 0) <= MaxSize BY <2>1, <2>2, <2>3, <2>6, <2>7
  <2>9. Head0(f)' = Head0(f) BY <2>1 DEF Head0
  <2>10. CallInv' BY <2>1, <2>6, <2>8, <2>9 DEF CallInv
  <2> QED BY <2>4, <2>5, <2>10 DEF IInv
<1> QED BY <1>1, <1>2, <1>3

\* The bytes a level of io300_read copies are in the block.
LEMMA ReadableFacts ==
  ASSUME IInv, op = "read"
  PROVE  readable_bytes \in 0 .. want - done /\ f.cache_idx + readable_bytes \in 0 .. CacheSize
<1>1. f \in Files /\ want \in Nat /\ done \in Nat /\ done <= want BY DEF IInv, TypeOK, CallInv
<1>2. f.cache_idx \in 0 .. CacheSize /\ f.cache_valid \in 0 .. CacheSize BY <1>1 DEF Files
<1> QED BY <1>1, <1>2 DEF readable_bytes, min

\* The levels of io300_read keep the invariant.
LEMMA ReadInv == ASSUME IInv, use' = use, ReadEof \/ ReadLast \/ ReadMore PROVE IInv'
<1> MaxSize \in Nat BY MaxSizeAssumption
<1>0. /\ f \in Files /\ disk \in Disks /\ Block(f) /\ mode' = mode /\ op = "read"
      /\ mode \in {"closed", "READ", "WRITE", "RDWR"}
  BY DEF IInv, TypeOK, ReadEof, ReadLast, ReadMore
<1>a. readable_bytes \in 0 .. want - done /\ f.cache_idx + readable_bytes \in 0 .. CacheSize
  BY <1>0, ReadableFacts
<1>1. CASE ReadEof
  <2>1. Returns("read", buff) /\ f' = f /\ disk' = disk BY <1>1 DEF ReadEof
  <2> QED BY <1>0, <2>1, ReturnsInv
<1>2. ASSUME Head0(f) < f.file_size PROVE f.cache_pos + CacheSize <= MaxSize
  <2>1. f.cache_pos < f.file_size BY <1>0, <1>2 DEF Head0, Files
  <2> QED BY <1>0, <2>1, BlockInBound
<1>3. CASE ReadLast
  <2> DEFINE g == [f EXCEPT !.cache_idx = @ + readable_bytes]
  <2>1. g \in Files /\ g.cache_pos = f.cache_pos /\ g.cache_valid = f.cache_valid
    BY <1>0, <1>a DEF Files
  <2>2. Block(g) BY <1>0, <2>1 DEF Block
  <2>3. CASE g.cache_idx = CacheSize
    <3>1. PICK o \in Step(g, disk) :
            /\ f' = o.g /\ disk' = o.d
            /\ IF o.rc < 0 THEN ReadFails ELSE Returns("read", Copied)
      BY <1>3, <2>3 DEF ReadLast
    <3>2. g.cache_pos + CacheSize <= MaxSize BY <1>2, <1>3, <2>1 DEF ReadLast
    <3>3. Block(o.g) /\ o.d \in Disks BY <1>0, <2>2, <3>2, StepFacts
    <3> HIDE DEF g
    <3> QED BY <1>0, <3>1, <3>3, ReturnsInv DEF ReadFails
  <2>4. CASE g.cache_idx # CacheSize
    <3>1. f' = g /\ disk' = disk /\ Returns("read", Copied) BY <1>3, <2>4 DEF ReadLast
    <3> HIDE DEF g
    <3> QED BY <1>0, <2>2, <3>1, ReturnsInv
  <2> QED BY <2>3, <2>4
<1>4. CASE ReadMore
  <2>1. PICK o \in Step(f, disk) :
          /\ f' = o.g /\ disk' = o.d
          /\ IF o.rc < 0 THEN ReadFails
             ELSE /\ done' = done + readable_bytes
                  /\ UNCHANGED <<op, todo, want, ret>>
    BY <1>4 DEF ReadMore
  <2>2. f.cache_pos + CacheSize <= MaxSize BY <1>2, <1>4 DEF ReadMore
  <2>3. Block(o.g) /\ o.d \in Disks BY <1>0, <2>2, StepFacts
  <2>4. CASE o.rc < 0 BY <1>0, <2>1, <2>3, <2>4, ReturnsInv DEF ReadFails
  <2>5. CASE ~(o.rc < 0)
    <3>1. done' = done + readable_bytes /\ op' = op /\ todo' = todo /\ want' = want BY <2>1, <2>5
    <3>2. done \in Nat /\ want \in Nat /\ done <= want BY <1>0 DEF IInv, TypeOK, CallInv
    <3>3. done' \in Nat /\ done' <= want BY <1>a, <3>1, <3>2
    <3>4. f' \in Files BY <2>1, <2>3 DEF Block
    <3>5. TypeOK' BY <1>0, <2>1, <2>3, <3>1, <3>3, <3>4 DEF IInv, TypeOK
    <3>6. Block(f)' BY <2>1, <2>3 DEF Block, Aligned
    <3>7. CallInv' BY <1>0, <3>1, <3>3 DEF CallInv, IInv
    <3> QED BY <3>5, <3>6, <3>7 DEF IInv
  <2> QED BY <2>4, <2>5
<1> QED BY <1>1, <1>3, <1>4

\* A hole that cannot be filled keeps the invariant.
LEMMA HoleFailsInv == ASSUME IInv, use' = use, WriteHoleFails PROVE IInv'
<1>0. disk \in Disks /\ Block(f) /\ mode \in {"closed", "READ", "WRITE", "RDWR"}
  BY DEF IInv, TypeOK
<1>1. f' = FillCache /\ disk' = disk /\ mode' = mode /\ Returns("write", done - 1) BY DEF WriteHoleFails
<1>2. Block(f') BY <1>0, <1>1, FillCacheFacts DEF Block
<1> QED BY <1>0, <1>1, <1>2, ReturnsInv

\* What becomes of the block after a level of io300_write has put its bytes in it.
LevelOutcome(g, d) ==
  IF g.cache_idx + Fits(g) = CacheSize
  THEN \E w \in flush(Put(g), d) :
         LET g2 == [Advance(w.g) EXCEPT !.cache_valid = 0] IN
         /\ disk' = w.d
         /\ IF g2.file_size > g2.cache_pos THEN \E o \in fetch(g2, w.d) : f' = o.g ELSE f' = g2
  ELSE f' = [Put(g) EXCEPT !.cache_idx = g.cache_idx + Fits(g)] /\ disk' = d

\* WriteLevel in those terms.
LEMMA WriteLevelFacts ==
  ASSUME WriteLevel
  PROVE  \E h \in Fill :
           /\ LevelOutcome(h.g, h.d)
           /\ IF Fits(h.g) = Rest THEN Returns("write", Len(todo))
              ELSE done' = done + Fits(h.g) /\ UNCHANGED <<op, todo, want, buff, ret>>
BY DEF WriteLevel, LevelOutcome, Put, Fits, Rest

\* The next block, with nothing of it read.
NextBlock(g) == [Advance(g) EXCEPT !.cache_valid = 0]

\* A block that is full is replaced by the next one; the write goes on at its start.
LEMMA FullBlockFacts ==
  ASSUME NEW g, Block(g), g.cache_pos + CacheSize <= MaxSize, NEW d \in Disks, NEW w \in flush(g, d),
         NEW g2, g2 = NextBlock(w.g)
  PROVE  /\ w.d \in Disks /\ Block(g2) /\ g2.cache_pos = g.cache_pos + CacheSize /\ g2.cache_idx = 0
         /\ g2.cache_pos <= MaxSize /\ g2.file_size = g.file_size /\ g2.cache_valid = 0
         /\ g2.is_dirty = w.g.is_dirty
         /\ \A o \in fetch(g2, w.d) : Block(o.g) /\ SamePlace(g2, o.g)
<1> MaxSize \in Nat BY MaxSizeAssumption
<1>1. Block(w.g) /\ SamePlace(g, w.g) /\ w.d \in Disks BY FlushFacts
<1>2. w.g.cache_pos + CacheSize <= MaxSize BY <1>1 DEF SamePlace
<1> DEFINE a == Advance(w.g)
<1>3. /\ a \in Files /\ Aligned(a.cache_pos) /\ a.cache_pos <= MaxSize
      /\ a.cache_pos = w.g.cache_pos + CacheSize /\ a.cache_idx = 0 /\ a.file_size = w.g.file_size
      /\ a.is_dirty = w.g.is_dirty
  BY <1>1, <1>2, AdvanceFacts
<1> HIDE DEF a
<1>4. g2 = [a EXCEPT !.cache_valid = 0] BY DEF a, NextBlock
<1>5. /\ g2 \in Files /\ g2.cache_pos = a.cache_pos /\ g2.cache_idx = 0 /\ g2.file_size = a.file_size
      /\ g2.cache_valid = 0 /\ g2.is_dirty = a.is_dirty
  BY <1>3, <1>4 DEF Files
<1>6. Aligned(g2.cache_pos) /\ g2.cache_pos <= MaxSize BY <1>3, <1>5
<1>7. g2.cache_pos + g2.cache_valid <= MaxSize BY <1>5, <1>6 DEF Files
<1>8. Block(g2) BY <1>5, <1>6, <1>7 DEF Block
<1>9. \A o \in fetch(g2, w.d) : Block(o.g) /\ SamePlace(g2, o.g) BY <1>1, <1>5, <1>6, FetchFacts
<1> QED BY <1>1, <1>3, <1>5, <1>6, <1>8, <1>9 DEF SamePlace

\* The levels of io300_write keep the invariant.
LEMMA WriteInv == ASSUME IInv, use' = use, WriteLevel PROVE IInv'
<1> MaxSize \in Nat BY MaxSizeAssumption
<1>0. /\ f \in Files /\ disk \in Disks /\ Block(f) /\ mode' = mode /\ op = "write" /\ done \in Nat
      /\ mode \in {"closed", "READ", "WRITE", "RDWR"} /\ done <= Len(todo) /\ todo \in Seq(Bytes)
      /\ Head0(f) + (Len(todo) - done) <= MaxSize
  BY DEF IInv, TypeOK, WriteLevel, CallInv
<1>a. Head0(f) <= MaxSize
  <2>1. Len(todo) \in Nat /\ Head0(f) \in Nat BY <1>0 DEF Files, Head0
  <2> QED BY <1>0, <2>1
<1>1. PICK h \in Fill :
           /\ LevelOutcome(h.g, h.d)
           /\ IF Fits(h.g) = Rest THEN Returns("write", Len(todo))
              ELSE done' = done + Fits(h.g) /\ UNCHANGED <<op, todo, want, buff, ret>>
  BY WriteLevelFacts
<1>2. Block(h.g) /\ h.d \in Disks /\ h.g.cache_pos = f.cache_pos /\ h.g.cache_idx = f.cache_idx
  BY <1>a, FillFacts
<1>3. PICK g : g = h.g OBVIOUS
<1>4. /\ Rest \in Nat /\ Fits(g) \in 0 .. Rest /\ g.cache_idx + Fits(g) \in 0 .. CacheSize
      /\ g.cache_pos + g.cache_idx + Rest <= MaxSize
      /\ Block(Put(g)) /\ Put(g).cache_pos = g.cache_pos
  BY <1>0, <1>2, <1>3, PutFacts
<1>5. g \in Files /\ g.cache_idx = f.cache_idx /\ g.cache_pos = f.cache_pos BY <1>2, <1>3 DEF Block
<1>6. /\ Block(f') /\ disk' \in Disks
      /\ Head0(f') = g.cache_pos + (g.cache_idx + Fits(g))
  <2>1. CASE g.cache_idx + Fits(g) = CacheSize
    <3>1. PICK w \in flush(Put(g), h.d) :
            LET g2 == [Advance(w.g) EXCEPT !.cache_valid = 0] IN
            /\ disk' = w.d
            /\ IF g2.file_size > g2.cache_pos THEN \E o \in fetch(g2, w.d) : f' = o.g ELSE f' = g2
      BY <1>1, <1>3, <2>1 DEF LevelOutcome
    <3>2. PICK g2 : g2 = NextBlock(w.g) OBVIOUS
    <3>3. g.cache_pos + CacheSize <= MaxSize BY <1>4, <1>5, <2>1 DEF Files
    <3>4. /\ w.d \in Disks /\ Block(g2) /\ g2.cache_pos = g.cache_pos + CacheSize /\ g2.cache_idx = 0
          /\ \A o \in fetch(g2, w.d) : Block(o.g) /\ SamePlace(g2, o.g)
      <4>1. PICK x : x = Put(g) OBVIOUS
      <4>2. Block(x) /\ x.cache_pos + CacheSize <= MaxSize /\ w \in flush(x, h.d) BY <1>4, <3>3, <4>1
      <4>3. g2.cache_pos = x.cache_pos + CacheSize /\ x.cache_pos = g.cache_pos
        BY <1>2, <1>4, <3>2, <4>1, <4>2, FullBlockFacts
      <4> QED BY <1>2, <3>2, <4>2, <4>3, FullBlockFacts
    <3>5. disk' = w.d /\ (f' = g2 \/ \E o \in fetch(g2, w.d) : f' = o.g) BY <3>1, <3>2 DEF NextBlock
    <3>6. Block(f') /\ SamePlace(g2, f')
      <4>1. CASE f' = g2 BY <3>4, <4>1 DEF SamePlace
      <4>2. CASE \E o \in fetch(g2, w.d) : f' = o.g BY <3>4, <4>2
      <4> QED BY <3>5, <4>1, <4>2
    <3> QED BY <1>5, <2>1, <3>4, <3>5, <3>6 DEF SamePlace, Head0, Files
  <2>2. CASE g.cache_idx + Fits(g) # CacheSize
    <3>1. f' = [Put(g) EXCEPT !.cache_idx = g.cache_idx + Fits(g)] /\ disk' = h.d
      BY <1>1, <1>3, <2>2 DEF LevelOutcome
    <3>2. Put(g) \in Files BY <1>4 DEF Block
    <3>3. PICK x : x = Put(g) OBVIOUS
    <3>4. f' \in Files /\ f'.cache_pos = x.cache_pos /\ f'.cache_valid = x.cache_valid
          /\ f'.cache_idx = g.cache_idx + Fits(g)
      BY <1>4, <3>1, <3>2, <3>3 DEF Files
    <3>5. Block(f') BY <1>4, <3>3, <3>4 DEF Block
    <3> QED BY <1>2, <1>4, <3>1, <3>3, <3>4, <3>5 DEF Head0
  <2> QED BY <2>1, <2>2
<1>7. CASE Fits(g) = Rest
  <2>1. Returns("write", Len(todo)) BY <1>1, <1>3, <1>7
  <2> QED BY <1>0, <1>6, <2>1, ReturnsInv
<1>8. CASE Fits(g) # Rest
  <2>1. done' = done + Fits(g) /\ op' = op /\ todo' = todo /\ want' = want BY <1>1, <1>3, <1>8
  <2>2. Len(todo) \in Nat BY <1>0
  <2>3. Fits(g) \in Nat /\ Fits(g) <= Len(todo) - done BY <1>4 DEF Rest
  <2>4. done' \in Nat /\ done' <= Len(todo) BY <1>0, <2>1, <2>2, <2>3
  <2>5. Head0(f') + (Len(todo) - done') <= MaxSize
    <3>1. g.cache_pos \in Nat /\ g.cache_idx \in Nat BY <1>5 DEF Files
    <3>2. g.cache_pos + g.cache_idx + (Len(todo) - done) <= MaxSize BY <1>4 DEF Rest
    <3> QED BY <1>0, <1>6, <2>1, <2>2, <2>3, <3>1, <3>2
  <2>6. f' \in Files BY <1>6 DEF Block
  <2>7. TypeOK' BY <1>0, <1>6, <2>1, <2>4, <2>6 DEF IInv, TypeOK
  <2>8. Block(f)' BY <1>6 DEF Block, Aligned
  <2>9. Head0(f)' = Head0(f') BY DEF Head0
  <2>10. CallInv' BY <1>0, <2>1, <2>4, <2>5, <2>9 DEF CallInv, IInv
  <2> QED BY <2>7, <2>8, <2>10 DEF IInv
<1> QED BY <1>7, <1>8

\* Every step keeps the invariant.
LEMMA NextIInv == IInv /\ [Next]_vars => IInv'
<1> SUFFICES ASSUME IInv, [Next]_vars PROVE IInv' OBVIOUS
<1> MaxSize \in Nat BY MaxSizeAssumption
<1>1. CASE UNCHANGED vars BY <1>1 DEF vars, IInv, TypeOK, CallInv, Block, Aligned, Head0
<1>2. CASE Next
  <2>0. use' = use /\ use.size \in Nat /\ use.size > 0
    <3>1. use \in Uses BY DEF IInv, TypeOK
    <3> QED BY <1>2, <3>1, UsesAssumption DEF Next
  <2>1. CASE io300_open BY <2>0, <2>1, OpenInv
  <2>2. CASE io300_close BY <2>0, <2>2, CloseInv
  <2>3. CASE io300_filesize BY <2>0, <2>3, CallsInv
  <2>4. ASSUME NEW p \in 0 .. use.size - 1, io300_seek(p) PROVE IInv'
    <3>1. p \in Int /\ p < use.size BY <2>0
    <3> QED BY <2>0, <2>4, <3>1, SeekInv
  <2>5. CASE io300_seek(-1)
    <3>1. -1 \in Int /\ -1 < use.size BY <2>0
    <3> QED BY <2>0, <2>5, <3>1, SeekInv
  <2>6. CASE \E n \in use.reads : CallRead(n) BY <2>0, <2>6, CallsInv
  <2>7. CASE \E s \in use.writes : CallWrite(s) BY <2>0, <2>7, CallsInv
  <2>8. CASE Level BY <2>0, <2>8, ReadInv, HoleFailsInv, WriteInv DEF Level
  <2> QED BY <1>2, <2>1, <2>2, <2>3, <2>4, <2>5, <2>6, <2>7, <2>8 DEF Next
<1> QED BY <1>1, <1>2

\* The invariant holds in every state, whatever read() and write() do.
THEOREM IInvHolds == Spec => []IInv
BY InitIInv, NextIInv, PTL DEF Spec

\* The assertions of check_invariants never fail, for every block size and
\* whichever system calls fail: the block is aligned, and neither the offset nor
\* the valid part of the block leaves it.
THEOREM AssertionsHold == Spec => []check_invariants
<1>1. IInv => check_invariants
  <2> SUFFICES ASSUME IInv PROVE check_invariants OBVIOUS
  <2>1. f \in Files /\ Aligned(f.cache_pos) BY DEF IInv, Block
  <2>2. f.cache_pos % CacheSize = 0 BY <2>1, AlignedMod
  <2> QED BY <2>1, <2>2 DEF check_invariants, Files
<1> QED BY <1>1, IInvHolds, PTL

-----------------------------------------------------------------------------
(* The bytes behind the block *)

Clamp(n) == max(0, min(CacheSize, n))

\* The file on disk is zero behind its end.
Zeroed(d) == \A i \in Offsets : i >= d.size => d.data[i] = 0

\* A block that has not been written to holds the bytes of the disk.
Coherent(g, d) == \A i \in Slots : i < g.cache_valid => g.cache[i] = d.data[g.cache_pos + i]

\* The size the file has once the block is written back.
TrueSize(g, d) == IF g.is_dirty THEN max(d.size, g.cache_pos + g.cache_valid) ELSE d.size

\* The byte at offset i: the block's where the block is valid, else the disk's.
View(g, d, i) ==
  IF i >= g.cache_pos /\ i < g.cache_pos + g.cache_valid THEN g.cache[i - g.cache_pos] ELSE d.data[i]

\* All of the file that the block covers is valid, and nothing else is.
Sound(g, d) ==
  /\ Block(g) /\ d \in Disks
  /\ Zeroed(d)
  /\ g.cache_valid = Clamp(TrueSize(g, d) - g.cache_pos)
  /\ g.is_dirty => g.cache_valid > 0
  /\ ~g.is_dirty => Coherent(g, d)

\* The file through the block.
Contents(g, d) ==
  [size |-> g.file_size, data |-> [i \in Offsets |-> IF i < g.file_size THEN View(g, d, i) ELSE 0]]

\* Behind its end the file reads as zero.
LEMMA ZeroBehind ==
  ASSUME NEW g, NEW d, Sound(g, d), NEW i \in Offsets, i >= TrueSize(g, d)
  PROVE  View(g, d, i) = 0
<1> MaxSize \in Nat BY MaxSizeAssumption
<1>1. g \in Files /\ d \in Disks BY DEF Sound, Block
<1>2. /\ g.cache_pos \in Nat /\ g.cache_valid \in 0 .. CacheSize /\ d.size \in 0 .. MaxSize
      /\ g.is_dirty \in BOOLEAN /\ i \in Nat
  BY <1>1 DEF Files, Disks, Offsets
<1>3. i >= d.size /\ ~(i >= g.cache_pos /\ i < g.cache_pos + g.cache_valid)
  BY <1>2 DEF Sound, TrueSize, Clamp, max, min
<1> QED BY <1>3 DEF View, Sound, Zeroed

\* A flush that works leaves a clean block and, on disk, the file as it was seen
\* through the block.
LEMMA FlushView ==
  ASSUME NEW g, NEW d, Sound(g, d), ~use.errors, mode = "READ" => ~g.is_dirty, NEW w \in flush(g, d)
  PROVE  /\ w.rc = 0 /\ ~w.g.is_dirty /\ Sound(w.g, w.d) /\ SamePlace(g, w.g)
         /\ w.d.size = TrueSize(g, d)
         /\ \A i \in Offsets : w.d.data[i] = View(g, d, i) /\ View(w.g, w.d, i) = View(g, d, i)
<1> MaxSize \in Nat BY MaxSizeAssumption
<1>0. g \in Files /\ d \in Disks /\ Block(g) BY DEF Sound, Block
<1>a. /\ g.cache_pos \in Nat /\ g.cache_valid \in 0 .. CacheSize /\ d.size \in 0 .. MaxSize
      /\ g.is_dirty \in BOOLEAN
  BY <1>0 DEF Files, Disks
<1>1. CASE ~g.is_dirty
  <2>1. w = [g |-> g, d |-> d, rc |-> 0] BY <1>1 DEF flush
  <2>2. \A i \in Offsets : d.data[i] = View(g, d, i)
    <3> SUFFICES ASSUME NEW i \in Offsets, i >= g.cache_pos, i < g.cache_pos + g.cache_valid
                 PROVE  d.data[i] = g.cache[i - g.cache_pos]
      BY DEF View
    <3>1. i - g.cache_pos \in Slots /\ i - g.cache_pos < g.cache_valid
          /\ g.cache_pos + (i - g.cache_pos) = i
      BY <1>a DEF Slots, Offsets
    <3> QED BY <1>1, <3>1 DEF Sound, Coherent
  <2> QED BY <1>1, <2>1, <2>2 DEF SamePlace, TrueSize
<1>2. CASE g.is_dirty
  <2>1. PICK n \in 0 .. g.cache_valid :
          /\ w = [g  |-> IF n = g.cache_valid THEN [g EXCEPT !.is_dirty = FALSE] ELSE g,
                  d  |-> WriteAt(d, g.cache_pos, g.cache, n),
                  rc |-> IF n = g.cache_valid THEN 0 ELSE -1]
          /\ \/ mode # "READ" /\ (n = g.cache_valid \/ use.errors)
             \/ mode = "READ" /\ n = 0
    BY <1>2 DEF flush
  <2>2. n = g.cache_valid BY <1>2, <2>1
  <2> DEFINE x == [g EXCEPT !.is_dirty = FALSE]
             e == WriteAt(d, g.cache_pos, g.cache, g.cache_valid)
  <2>3. w = [g |-> x, d |-> e, rc |-> 0] BY <2>1, <2>2
  <2>4. /\ x \in Files /\ x.cache_pos = g.cache_pos /\ x.cache_valid = g.cache_valid
        /\ x.cache = g.cache /\ SamePlace(g, x) /\ x.is_dirty = FALSE
    BY <1>0 DEF Files, SamePlace
  <2>5. e.size = TrueSize(g, d) BY <1>2, <1>a DEF WriteAt, TrueSize, Sound
  <2>6. \A i \in Offsets : e.data[i] = View(g, d, i) BY DEF WriteAt, View
  <2> HIDE DEF x, e
  <2>7. e \in Disks /\ Block(x)
    <3>1. w.d \in Disks /\ Block(w.g) BY <1>0, FlushFacts
    <3> QED BY <2>3, <3>1
  <2>8. Zeroed(e) BY <2>5, <2>6, ZeroBehind DEF Zeroed
  <2>9. Coherent(x, e)
    <3> SUFFICES ASSUME NEW i \in Slots, i < g.cache_valid PROVE g.cache[i] = e.data[g.cache_pos + i]
      BY <2>4 DEF Coherent
    <3>1. g.cache_pos + i \in Offsets /\ g.cache_pos + i < g.cache_pos + g.cache_valid
          /\ (g.cache_pos + i) - g.cache_pos = i /\ g.cache_pos + i >= g.cache_pos
      BY <1>0, <1>a DEF Block, Slots, Offsets
    <3> QED BY <2>6, <3>1 DEF View
  <2>10. TrueSize(x, e) = TrueSize(g, d) BY <2>4, <2>5 DEF TrueSize
  <2>11. Sound(x, e) BY <2>4, <2>7, <2>8, <2>9, <2>10 DEF Sound
  <2>12. \A i \in Offsets : View(x, e, i) = View(g, d, i) BY <2>4, <2>6 DEF View
  <2> QED BY <2>3, <2>4, <2>5, <2>6, <2>11, <2>12
<1> QED BY <1>a, <1>1, <1>2

\* A fetch that works makes a clean struct see the file on disk, if it looks at
\* the disk at all where the disk has bytes.
LEMMA FetchView ==
  ASSUME NEW g \in Files, NEW d \in Disks, ~use.errors, ~g.is_dirty, Zeroed(d),
         Aligned(g.cache_pos), g.cache_pos <= MaxSize,
         g.cache_pos < g.file_size \/ d.size <= g.cache_pos, NEW o \in fetch(g, d)
  PROVE  /\ o.rc >= 0 /\ o.rc \in Int /\ Sound(o.g, d) /\ ~o.g.is_dirty /\ SamePlace(g, o.g)
         /\ \A i \in Offsets : View(o.g, d, i) = d.data[i]
<1> MaxSize \in Nat BY MaxSizeAssumption
<1>0. g.cache_pos \in Nat /\ g.file_size \in 0 .. MaxSize /\ d.size \in 0 .. MaxSize BY DEF Files, Disks
<1>a. Block(o.g) /\ SamePlace(g, o.g) /\ o.g.is_dirty = g.is_dirty BY FetchFacts
<1> DEFINE n == Clamp(d.size - g.cache_pos)
<1>1. n \in 0 .. CacheSize BY <1>0 DEF Clamp, max, min
<1>2. o.g.cache_valid = n /\ o.rc = n
      /\ \A i \in Slots : i < n => o.g.cache[i] = d.data[g.cache_pos + i]
  <2>1. CASE g.cache_pos >= g.file_size
    <3>1. o = [g |-> [g EXCEPT !.cache_valid = 0], rc |-> 0] BY <2>1 DEF fetch
    <3>2. n = 0 BY <1>0, <2>1 DEF Clamp, max, min
    <3>3. o.g.cache_valid = 0 BY <3>1 DEF Files
    <3> HIDE DEF n
    <3>4. \A i \in Slots : ~(i < n) BY <3>2 DEF Slots
    <3> QED BY <3>1, <3>2, <3>3, <3>4
  <2>2. CASE ~(g.cache_pos >= g.file_size)
    <3> DEFINE c == [i \in Slots |-> IF i < n THEN d.data[g.cache_pos + i] ELSE g.cache[i]]
    <3>1. o = [g |-> [g EXCEPT !.cache = c, !.cache_valid = n], rc |-> n]
      BY <2>2 DEF fetch, Clamp
    <3> HIDE DEF n
    <3>2. \A i \in Slots : i < n => c[i] = d.data[g.cache_pos + i] OBVIOUS
    <3> HIDE DEF c
    <3>3. o.g.cache = c /\ o.g.cache_valid = n /\ o.rc = n BY <3>1 DEF Files
    <3> QED BY <3>2, <3>3
  <2> QED BY <2>1, <2>2
<1>3. o.g.cache_pos = g.cache_pos /\ ~o.g.is_dirty BY <1>a DEF SamePlace
<1>4. Sound(o.g, d) BY <1>a, <1>2, <1>3 DEF Sound, TrueSize, Coherent
<1>5. ASSUME NEW i \in Offsets PROVE View(o.g, d, i) = d.data[i]
  <2> HIDE DEF n
  <2> SUFFICES ASSUME i >= g.cache_pos, i < g.cache_pos + n PROVE o.g.cache[i - g.cache_pos] = d.data[i]
    BY <1>2, <1>3 DEF View
  <2>1. i - g.cache_pos \in Slots /\ i - g.cache_pos < n /\ g.cache_pos + (i - g.cache_pos) = i
    BY <1>0, <1>1 DEF Slots, Offsets
  <2> QED BY <1>2, <2>1
<1> HIDE DEF n
<1> QED BY <1>a, <1>1, <1>2, <1>3, <1>4, <1>5

\* g and h hold the same block.
SameBytes(g, h) ==
  /\ h.cache_pos = g.cache_pos /\ h.cache_valid = g.cache_valid
  /\ h.cache = g.cache /\ h.is_dirty = g.is_dirty

\* The offset in the block and the size in the struct do not matter for what is seen.
LEMMA SameBlockView ==
  ASSUME NEW g, NEW h, NEW d, Sound(g, d), Block(h), SameBytes(g, h)
  PROVE  /\ Sound(h, d) /\ TrueSize(h, d) = TrueSize(g, d)
         /\ \A i \in Offsets : View(h, d, i) = View(g, d, i)
<1>1. TrueSize(h, d) = TrueSize(g, d) BY DEF TrueSize, SameBytes
<1>2. Sound(h, d) BY <1>1 DEF Sound, Coherent, SameBytes
<1>3. \A i \in Offsets : View(h, d, i) = View(g, d, i) BY DEF View, SameBytes
<1> QED BY <1>1, <1>2, <1>3

\* h is a clean struct of the file (h, e) that is seen through (g, d).
SeesTheSame(g, d, h, e) ==
  /\ Sound(h, e) /\ ~h.is_dirty
  /\ h.file_size = g.file_size /\ TrueSize(h, e) = h.file_size
  /\ \A i \in Offsets : View(h, e, i) = View(g, d, i)

\* flush, a move of the struct and fetch do not change the file that is seen.
LEMMA MoveView ==
  ASSUME NEW g, NEW d, Sound(g, d), ~use.errors, mode = "READ" => ~g.is_dirty,
         g.file_size = TrueSize(g, d), NEW w \in flush(g, d),
         NEW h \in Files, Aligned(h.cache_pos), h.cache_pos <= MaxSize,
         h.is_dirty = w.g.is_dirty, h.file_size = w.g.file_size, NEW o \in fetch(h, w.d)
  PROVE  o.rc \in Nat /\ SeesTheSame(g, d, o.g, w.d) /\ SamePlace(h, o.g)
<1> MaxSize \in Nat BY MaxSizeAssumption
<1>1. /\ w.rc = 0 /\ ~w.g.is_dirty /\ Sound(w.g, w.d) /\ SamePlace(g, w.g)
      /\ w.d.size = TrueSize(g, d)
      /\ \A i \in Offsets : w.d.data[i] = View(g, d, i)
  BY FlushView
<1>2. h.file_size = g.file_size /\ h.file_size = w.d.size BY <1>1 DEF SamePlace
<1>3. w.d \in Disks /\ Zeroed(w.d) BY <1>1 DEF Sound
<1>4. h.cache_pos < h.file_size \/ w.d.size <= h.cache_pos
  <2>1. h.cache_pos \in Nat /\ h.file_size \in Nat BY DEF Files
  <2> QED BY <1>2, <2>1
<1>5. /\ o.rc >= 0 /\ o.rc \in Int /\ Sound(o.g, w.d) /\ ~o.g.is_dirty /\ SamePlace(h, o.g)
      /\ \A i \in Offsets : View(o.g, w.d, i) = w.d.data[i]
  BY <1>1, <1>3, <1>4, FetchView
<1>6. TrueSize(o.g, w.d) = w.d.size BY <1>5 DEF TrueSize
<1>7. SeesTheSame(g, d, o.g, w.d) BY <1>1, <1>2, <1>5, <1>6 DEF SeesTheSame, SamePlace
<1> QED BY <1>5, <1>7

\* The step to the next block keeps the file.
LEMMA StepView ==
  ASSUME NEW g, NEW d, Sound(g, d), ~use.errors, mode = "READ" => ~g.is_dirty,
         g.file_size = TrueSize(g, d), g.cache_pos + CacheSize <= MaxSize, NEW o \in Step(g, d)
  PROVE  /\ ~(o.rc < 0) /\ SeesTheSame(g, d, o.g, o.d)
         /\ o.g.cache_pos = g.cache_pos + CacheSize /\ o.g.cache_idx = 0
<1>1. PICK w \in flush(g, d) :
        o \in IF w.rc < 0 THEN {[g |-> w.g, d |-> w.d, rc |-> -1]}
              ELSE {[g |-> x.g, d |-> w.d, rc |-> x.rc] : x \in fetch(Advance(w.g), w.d)}
  BY DEF Step
<1>2. w.rc = 0 /\ SamePlace(g, w.g) /\ Block(w.g) BY FlushView DEF Sound
<1>3. PICK x \in fetch(Advance(w.g), w.d) : o = [g |-> x.g, d |-> w.d, rc |-> x.rc] BY <1>1, <1>2
<1>4. PICK h : h = Advance(w.g) OBVIOUS
<1>5. w.g.cache_pos + CacheSize <= MaxSize BY <1>2 DEF SamePlace
<1>6. /\ h \in Files /\ Aligned(h.cache_pos) /\ h.cache_pos <= MaxSize
      /\ h.cache_pos = w.g.cache_pos + CacheSize /\ h.cache_idx = 0
      /\ h.file_size = w.g.file_size /\ h.is_dirty = w.g.is_dirty
  BY <1>2, <1>4, <1>5, AdvanceFacts
<1>7. x \in fetch(h, w.d) BY <1>3, <1>4
<1>8. x.rc \in Nat /\ SeesTheSame(g, d, x.g, w.d) /\ SamePlace(h, x.g) BY <1>6, <1>7, MoveView
<1> QED BY <1>2, <1>3, <1>6, <1>8 DEF SamePlace

\* seekTo keeps the file, and the offset is p.
LEMMA SeekView ==
  ASSUME NEW g, NEW d, Sound(g, d), ~use.errors, mode = "READ" => ~g.is_dirty,
         g.file_size = TrueSize(g, d), NEW p \in 0 .. MaxSize, NEW o \in seekTo(g, d, p)
  PROVE  /\ SeesTheSame(g, d, o.g, o.d) /\ Head0(o.g) = p /\ o.g.cache_idx < CacheSize
<1> MaxSize \in Nat BY MaxSizeAssumption
<1> DEFINE move(x) == [x EXCEPT !.cache_pos = p - (p % CacheSize), !.cache_idx = p % CacheSize]
<1>1. PICK w \in flush(g, d) : \E x \in fetch(move(w.g), w.d) : o = [g |-> x.g, d |-> w.d]
  BY DEF seekTo
<1>2. PICK x \in fetch(move(w.g), w.d) : o = [g |-> x.g, d |-> w.d] BY <1>1
<1>3. Block(w.g) BY FlushView DEF Sound
<1>4. Aligned(p - (p % CacheSize)) /\ p % CacheSize \in 0 .. CacheSize - 1 /\ p - (p % CacheSize) \in 0 .. p
  BY SplitOffset
<1>5. PICK h : h = move(w.g) OBVIOUS
<1>6. /\ h \in Files /\ h.cache_pos = p - (p % CacheSize) /\ h.cache_idx = p % CacheSize
      /\ h.file_size = w.g.file_size /\ h.is_dirty = w.g.is_dirty
  <2>1. w.g \in Files BY <1>3 DEF Block
  <2>2. p % CacheSize \in 0 .. CacheSize /\ p - (p % CacheSize) \in Nat BY <1>4
  <2> QED BY <1>5, <2>1, <2>2 DEF Files
<1>7. x \in fetch(h, w.d) BY <1>2, <1>5
<1> HIDE DEF move
<1>8. Aligned(h.cache_pos) /\ h.cache_pos <= MaxSize BY <1>4, <1>6
<1>9. SeesTheSame(g, d, x.g, w.d) /\ SamePlace(h, x.g) BY <1>6, <1>7, <1>8, MoveView
<1>10. Head0(x.g) = (p - (p % CacheSize)) + (p % CacheSize) BY <1>6, <1>9 DEF SamePlace, Head0
<1>11. (p - (p % CacheSize)) + (p % CacheSize) = p BY <1>4
<1> QED BY <1>2, <1>4, <1>6, <1>9, <1>10, <1>11 DEF SamePlace

-----------------------------------------------------------------------------
(* The bytes of a write *)

\* A level of io300_write on a disk that works: the first one finds the size of
\* the file in the struct, a later one finds the whole request counted in it.
Writing ==
  /\ ~use.errors /\ mode # "READ" /\ op = "write"
  /\ Sound(f, disk)
  /\ f.cache_idx < CacheSize
  /\ Rest > 0
  /\ IF done > 0 THEN /\ ~f.is_dirty /\ f.cache_idx = 0
                      /\ f.file_size = max(TrueSize(f, disk), Head0(f) + Rest)
     ELSE f.file_size = TrueSize(f, disk)

\* The types of a level.
LEMMA WritingTypes ==
  ASSUME IInv, Writing
  PROVE  /\ f \in Files /\ disk \in Disks /\ Block(f)
         /\ f.cache_pos \in Nat /\ f.cache_idx \in Nat /\ f.cache_valid \in 0 .. CacheSize
         /\ f.file_size \in 0 .. MaxSize /\ disk.size \in 0 .. MaxSize /\ f.is_dirty \in BOOLEAN
         /\ Head0(f) = f.cache_pos + f.cache_idx /\ Head0(f) \in Nat /\ Rest \in Nat
         /\ Head0(f) + Rest <= MaxSize /\ TrueSize(f, disk) \in Nat
<1> MaxSize \in Nat BY MaxSizeAssumption
<1>1. f \in Files /\ disk \in Disks /\ Block(f) /\ todo \in Seq(Bytes) /\ done \in Nat BY DEF IInv, TypeOK
<1>2. /\ f.cache_pos \in Nat /\ f.cache_idx \in Nat /\ f.cache_valid \in 0 .. CacheSize
      /\ f.file_size \in 0 .. MaxSize /\ disk.size \in 0 .. MaxSize /\ f.is_dirty \in BOOLEAN
  BY <1>1 DEF Files, Disks
<1>3. Head0(f) = f.cache_pos + f.cache_idx /\ Head0(f) \in Nat BY <1>2 DEF Head0
<1>4. Len(todo) \in Nat BY <1>1
<1>5. Rest \in Nat /\ Head0(f) + Rest <= MaxSize BY <1>1, <1>4 DEF Writing, IInv, CallInv, Rest
<1>6. TrueSize(f, disk) \in Nat BY <1>2 DEF TrueSize, max
<1> QED BY <1>1, <1>2, <1>3, <1>5, <1>6

\* Filling the hole changes no byte that is seen, and clears the part of the
\* block between the end of the file and the offset.
LEMMA FillView ==
  ASSUME IInv, Writing, NEW h \in Fill
  PROVE  /\ Zeroed(h.d)
         /\ h.d.size = disk.size \/ (h.d.size = f.cache_pos /\ disk.size <= f.cache_pos)
         /\ h.g.file_size = max(f.file_size, Head0(f))
         /\ \A i \in Offsets : View(h.g, h.d, i) = View(f, disk, i)
         /\ \A i \in Slots : i >= f.cache_valid /\ i < f.cache_idx => h.g.cache[i] = 0
<1> MaxSize \in Nat BY MaxSizeAssumption
<1>0. /\ f \in Files /\ disk \in Disks /\ Block(f)
      /\ f.cache_pos \in Nat /\ f.cache_idx \in Nat /\ f.cache_valid \in 0 .. CacheSize
      /\ f.file_size \in 0 .. MaxSize /\ disk.size \in 0 .. MaxSize /\ f.is_dirty \in BOOLEAN
      /\ Head0(f) = f.cache_pos + f.cache_idx /\ Head0(f) \in Nat /\ Rest \in Nat
      /\ Head0(f) + Rest <= MaxSize /\ TrueSize(f, disk) \in Nat
  BY WritingTypes
<1>a. Sound(f, disk) /\ Rest > 0 /\ f.cache_idx < CacheSize BY DEF Writing
<1>b. f.cache_valid = Clamp(TrueSize(f, disk) - f.cache_pos) BY <1>a DEF Sound
<1>1. CASE f.file_size >= Head0(f)
  <2>1. h = [g |-> f, d |-> disk] BY <1>1 DEF Fill
  <2>2. max(f.file_size, Head0(f)) = f.file_size BY <1>0, <1>1 DEF max
  <2>3. f.cache_idx = 0 \/ f.file_size = TrueSize(f, disk) BY DEF Writing
  <2>4. f.cache_valid >= f.cache_idx
    <3>1. CASE f.cache_idx = 0 BY <1>0, <3>1
    <3>2. CASE f.file_size = TrueSize(f, disk)
      <4>1. TrueSize(f, disk) - f.cache_pos >= f.cache_idx BY <1>0, <1>1, <3>2
      <4> QED BY <1>0, <1>a, <1>b, <4>1 DEF Clamp, max, min
    <3> QED BY <2>3, <3>1, <3>2
  <2>5. \A i \in Slots : ~(i >= f.cache_valid /\ i < f.cache_idx) BY <1>0, <2>4 DEF Slots
  <2> QED BY <1>a, <2>1, <2>2, <2>5 DEF Sound
<1>2. CASE ~(f.file_size >= Head0(f))
  <2>1. PICK d \in FillDisk : h = [g |-> [FillCache EXCEPT !.file_size = Head0(f)], d |-> d]
    BY <1>2 DEF Fill
  <2>2. max(f.file_size, Head0(f)) = Head0(f) BY <1>0, <1>2 DEF max
  <2>3. f.file_size = TrueSize(f, disk)
    <3>1. ~(done > 0)
      <4> SUFFICES ASSUME done > 0 PROVE FALSE OBVIOUS
      <4>1. f.file_size = max(TrueSize(f, disk), Head0(f) + Rest) BY DEF Writing
      <4> QED BY <1>0, <1>2, <4>1 DEF max
    <3> QED BY <3>1 DEF Writing
  <2>4. eof_idx = f.cache_valid
    <3>1. f.file_size - f.cache_pos < CacheSize BY <1>0, <1>a, <1>2
    <3> QED BY <1>0, <1>b, <2>3, <3>1 DEF eof_idx, Clamp, max, min
  <2> DEFINE c == [i \in Slots |-> IF i >= eof_idx /\ i < f.cache_idx THEN 0 ELSE f.cache[i]]
  <2>5. /\ h.g.file_size = Head0(f) /\ h.g.cache_pos = f.cache_pos /\ h.g.cache_valid = f.cache_valid
        /\ h.g.cache = IF f.cache_idx > eof_idx THEN c ELSE f.cache
    <3>1. FillCache = IF f.cache_idx > eof_idx THEN [f EXCEPT !.cache = c, !.is_dirty = TRUE] ELSE f
      BY DEF FillCache
    <3> HIDE DEF c
    <3>2. FillCache \in Files /\ FillCache.cache_pos = f.cache_pos /\ FillCache.cache_valid = f.cache_valid
      BY FillCacheFacts
    <3>3. FillCache.cache = IF f.cache_idx > eof_idx THEN c ELSE f.cache BY <1>0, <3>1 DEF Files
    <3>4. PICK x : x = FillCache OBVIOUS
    <3>5. h.g = [x EXCEPT !.file_size = Head0(f)] /\ x \in Files BY <2>1, <3>2, <3>4
    <3>6. h.g.file_size = Head0(f) /\ h.g.cache_pos = x.cache_pos /\ h.g.cache_valid = x.cache_valid
          /\ h.g.cache = x.cache
      BY <3>5 DEF Files
    <3> QED BY <3>2, <3>3, <3>4, <3>6
  <2>6. \A i \in Slots : (i >= f.cache_valid /\ i < f.cache_idx => h.g.cache[i] = 0)
                         /\ (i < f.cache_valid => h.g.cache[i] = f.cache[i])
    BY <1>0, <2>4, <2>5 DEF Slots
  <2>7. /\ Zeroed(d) /\ \A i \in Offsets : d.data[i] = disk.data[i]
        /\ d.size = disk.size \/ (d.size = f.cache_pos /\ disk.size <= f.cache_pos)
    <3>0. Zeroed(disk) BY <1>a DEF Sound
    <3>1. CASE eof_idx > 0 BY <3>0, <3>1 DEF FillDisk
    <3>2. CASE ~(eof_idx > 0)
      <4>1. PICK n \in 0 .. f.cache_pos - f.file_size :
              /\ d = WriteAt(disk, f.file_size, [i \in Offsets |-> 0], n)
              /\ mode # "READ" /\ (n = f.cache_pos - f.file_size \/ use.errors)
        BY <3>2 DEF FillDisk
      <4>2. n = f.cache_pos - f.file_size BY <4>1 DEF Writing
      <4>3. f.file_size <= f.cache_pos BY <1>0, <3>2 DEF eof_idx
      <4>4. ~f.is_dirty BY <1>0, <1>a, <2>4, <3>2 DEF Sound
      <4>5. f.file_size = disk.size BY <2>3, <4>4 DEF TrueSize
      <4>6. ASSUME NEW i \in Offsets PROVE d.data[i] = disk.data[i]
        <5>1. d.data[i] = IF i >= f.file_size /\ i < f.file_size + n
                          THEN [j \in Offsets |-> 0][i - f.file_size] ELSE disk.data[i]
          BY <4>1 DEF WriteAt
        <5>2. CASE i >= f.file_size /\ i < f.file_size + n
          <6>1. i - f.file_size \in Offsets BY <1>0, <5>2 DEF Offsets
          <6>2. disk.data[i] = 0 BY <3>0, <4>5, <5>2 DEF Zeroed
          <6> QED BY <5>1, <5>2, <6>1, <6>2
        <5> QED BY <5>1, <5>2
      <4>7. d.size = f.cache_pos /\ disk.size <= f.cache_pos
        <5>1. d.size = IF n = 0 THEN disk.size ELSE max(disk.size, f.file_size + n) BY <4>1 DEF WriteAt
        <5> QED BY <1>0, <4>2, <4>3, <4>5, <5>1 DEF max
      <4>8. Zeroed(d)
        <5> SUFFICES ASSUME NEW i \in Offsets, i >= d.size PROVE d.data[i] = 0 BY DEF Zeroed
        <5>1. i >= disk.size BY <1>0, <4>7 DEF Offsets
        <5> QED BY <3>0, <4>6, <5>1 DEF Zeroed
      <4> QED BY <4>6, <4>7, <4>8
    <3> QED BY <3>1, <3>2
  <2>8. ASSUME NEW i \in Offsets PROVE View(h.g, h.d, i) = View(f, disk, i)
    <3>1. CASE i >= f.cache_pos /\ i < f.cache_pos + f.cache_valid
      <4>1. i - f.cache_pos \in Slots /\ i - f.cache_pos < f.cache_valid
        BY <1>0, <3>1 DEF Slots, Offsets
      <4> QED BY <2>5, <2>6, <3>1, <4>1 DEF View
    <3>2. CASE ~(i >= f.cache_pos /\ i < f.cache_pos + f.cache_valid)
      BY <2>1, <2>5, <2>7, <3>2 DEF View
    <3> QED BY <3>1, <3>2
  <2> QED BY <2>1, <2>2, <2>5, <2>6, <2>7, <2>8
<1> QED BY <1>1, <1>2

\* The byte at offset i after n bytes of the write are stored.
WrittenView(n, i) ==
  IF i >= Head0(f) /\ i < Head0(f) + n THEN todo[done + (i - Head0(f)) + 1] ELSE View(f, disk, i)

\* The bytes put into the block are seen in their place, and no other byte changes.
LEMMA PutView ==
  ASSUME IInv, Writing, NEW h \in Fill, NEW x, x = Put(h.g), NEW n, n = Fits(h.g)
  PROVE  /\ n \in 1 .. Rest /\ f.cache_idx + n <= CacheSize
         /\ n < Rest => f.cache_idx + n = CacheSize
         /\ Sound(x, h.d) /\ x.is_dirty
         /\ x.cache_pos = f.cache_pos /\ x.cache_idx = f.cache_idx
         /\ x.file_size = max(f.file_size, Head0(f) + Rest)
         /\ TrueSize(x, h.d) = max(TrueSize(f, disk), Head0(f) + n)
         /\ \A i \in Offsets : View(x, h.d, i) = WrittenView(n, i)
<1> MaxSize \in Nat BY MaxSizeAssumption
<1>0. /\ f \in Files /\ disk \in Disks /\ Block(f)
      /\ f.cache_pos \in Nat /\ f.cache_idx \in Nat /\ f.cache_valid \in 0 .. CacheSize
      /\ f.file_size \in 0 .. MaxSize /\ disk.size \in 0 .. MaxSize /\ f.is_dirty \in BOOLEAN
      /\ Head0(f) = f.cache_pos + f.cache_idx /\ Head0(f) \in Nat /\ Rest \in Nat
      /\ Head0(f) + Rest <= MaxSize /\ TrueSize(f, disk) \in Nat
  BY WritingTypes
<1>a. Sound(f, disk) /\ Rest > 0 /\ f.cache_idx < CacheSize /\ op = "write" BY DEF Writing
<1>b. PICK g : g = h.g OBVIOUS
<1>c. PICK d : d = h.d OBVIOUS
<1>1. /\ Block(g) /\ d \in Disks /\ g.cache_pos = f.cache_pos /\ g.cache_idx = f.cache_idx
      /\ g.cache_valid = f.cache_valid
  <2>1. Head0(f) <= MaxSize BY <1>0
  <2> QED BY <2>1, <1>b, <1>c, FillFacts
<1>2. /\ Zeroed(d)
      /\ d.size = disk.size \/ (d.size = f.cache_pos /\ disk.size <= f.cache_pos)
      /\ g.file_size = max(f.file_size, Head0(f))
      /\ \A i \in Offsets : View(g, d, i) = View(f, disk, i)
      /\ \A i \in Slots : i >= f.cache_valid /\ i < f.cache_idx => g.cache[i] = 0
  BY <1>b, <1>c, FillView
<1>3. n = min(Rest, CacheSize - f.cache_idx) BY <1>1, <1>b DEF Fits
<1>4. /\ n \in 1 .. Rest /\ f.cache_idx + n <= CacheSize
      /\ n < Rest => f.cache_idx + n = CacheSize
  BY <1>0, <1>a, <1>3 DEF min
<1>d. x = Put(g) /\ n = Fits(g) BY <1>b
<1>5. /\ Block(x) /\ x.cache_pos = f.cache_pos /\ x.cache_idx = f.cache_idx
      /\ x.file_size = max(g.file_size, Head0(g) + Rest)
      /\ x.is_dirty = (g.is_dirty \/ n > 0)
      /\ x.cache_valid = IF n > 0 THEN max(g.cache_valid, g.cache_idx + n) ELSE g.cache_valid
  BY <1>a, <1>1, <1>d, PutFacts
<1>6. x.is_dirty /\ x.cache_valid = max(f.cache_valid, f.cache_idx + n)
  <2>1. n > 0 BY <1>0, <1>4
  <2>2. x.is_dirty BY <1>5, <2>1, Zenon
  <2> QED BY <1>1, <1>5, <2>1, <2>2
<1>7. x.file_size = max(f.file_size, Head0(f) + Rest)
  <2>1. Head0(g) = Head0(f) BY <1>1 DEF Head0
  <2> QED BY <1>0, <1>2, <1>5, <2>1 DEF max
<1>8. x.cache = [i \in Slots |-> IF i >= f.cache_idx /\ i < f.cache_idx + n
                                 THEN todo[done + i - f.cache_idx + 1] ELSE g.cache[i]]
  <2>1. g \in Files BY <1>1 DEF Block
  <2> DEFINE c == [i \in Slots |-> IF i >= g.cache_idx /\ i < g.cache_idx + n
                                   THEN todo[done + i - g.cache_idx + 1] ELSE g.cache[i]]
             b == g.is_dirty \/ n > 0
             v == IF n > 0 THEN max(g.cache_valid, g.cache_idx + n) ELSE g.cache_valid
             z == max(g.file_size, Head0(g) + Rest)
  <2>2. x = [g EXCEPT !.cache = c, !.is_dirty = b, !.cache_valid = v, !.file_size = z]
    BY <1>d DEF Put
  <2> HIDE DEF c, b, v, z
  <2>3. x.cache = c BY <2>1, <2>2 DEF Files
  <2> QED BY <1>1, <2>3 DEF c
<1>9. TrueSize(x, d) = max(TrueSize(f, disk), Head0(f) + n)
  <2>1. f.cache_valid = Clamp(TrueSize(f, disk) - f.cache_pos) BY <1>a DEF Sound
  <2>2. TrueSize(x, d) = max(d.size, f.cache_pos + max(f.cache_valid, f.cache_idx + n))
    BY <1>5, <1>6 DEF TrueSize
  <2>3. TrueSize(f, disk) = IF f.is_dirty THEN max(disk.size, f.cache_pos + f.cache_valid) ELSE disk.size
    BY DEF TrueSize
  <2> QED BY <1>0, <1>2, <1>4, <2>1, <2>2, <2>3, SMTT(30) DEF max, min, Clamp
<1>10. x.cache_valid = Clamp(TrueSize(x, d) - x.cache_pos)
  <2>1. f.cache_valid = Clamp(TrueSize(f, disk) - f.cache_pos) BY <1>a DEF Sound
  <2> QED BY <1>0, <1>4, <1>5, <1>6, <1>9, <2>1 DEF max, min, Clamp
<1>11. x.cache_valid > 0 BY <1>0, <1>4, <1>6 DEF max
<1>12. Sound(x, d) BY <1>1, <1>2, <1>5, <1>6, <1>10, <1>11 DEF Sound
<1>13. ASSUME NEW i \in Offsets PROVE View(x, d, i) = WrittenView(n, i)
  <2>0. i \in Nat BY DEF Offsets
  <2>1. CASE i >= Head0(f) /\ i < Head0(f) + n
    <3>1. /\ i >= x.cache_pos /\ i < x.cache_pos + x.cache_valid
          /\ i - x.cache_pos \in Slots /\ i - x.cache_pos >= f.cache_idx
          /\ i - x.cache_pos < f.cache_idx + n
          /\ done + (i - x.cache_pos) - f.cache_idx + 1 = done + (i - Head0(f)) + 1
      <4>1. done \in Nat BY DEF IInv, TypeOK
      <4> QED BY <1>0, <1>4, <1>5, <1>6, <2>0, <2>1, <4>1 DEF max, Slots
    <3>2. x.cache[i - x.cache_pos] = todo[done + (i - Head0(f)) + 1] BY <1>8, <3>1
    <3> QED BY <2>1, <3>1, <3>2 DEF View, WrittenView
  <2>2. CASE ~(i >= Head0(f) /\ i < Head0(f) + n)
    <3>1. CASE i >= f.cache_pos /\ i < f.cache_pos + x.cache_valid
      <4> DEFINE j == i - f.cache_pos
      <4>1. j \in Slots /\ ~(j >= f.cache_idx /\ j < f.cache_idx + n)
        <5>1. x.cache_valid <= CacheSize BY <1>0, <1>4, <1>6 DEF max
        <5>2. x.cache_valid \in Int BY <1>0, <1>4, <1>6 DEF max
        <5> QED BY <1>0, <1>4, <2>0, <2>2, <3>1, <5>1, <5>2 DEF Slots
      <4>2. View(x, d, i) = g.cache[j] BY <1>5, <1>8, <3>1, <4>1 DEF View
      <4>3. CASE j < f.cache_valid
        <5>1. View(g, d, i) = g.cache[j] BY <1>0, <1>1, <2>0, <3>1, <4>3 DEF View
        <5> QED BY <1>2, <2>2, <4>2, <5>1 DEF WrittenView
      <4>4. CASE ~(j < f.cache_valid)
        <5>1. j < f.cache_idx BY <1>0, <1>4, <1>6, <2>0, <3>1, <4>1, <4>4 DEF max
        <5>2. g.cache[j] = 0 BY <1>0, <1>2, <2>0, <4>1, <4>4, <5>1
        <5>3. i >= TrueSize(f, disk)
          <6>1. f.cache_valid = Clamp(TrueSize(f, disk) - f.cache_pos) BY <1>a DEF Sound
          <6>2. f.cache_valid < CacheSize BY <1>0, <1>a, <2>0, <4>4, <5>1
          <6> QED BY <1>0, <2>0, <3>1, <4>4, <6>1, <6>2 DEF Clamp, max, min
        <5>4. View(f, disk, i) = 0 BY <1>a, <5>3, ZeroBehind
        <5> QED BY <2>2, <4>2, <5>2, <5>4 DEF WrittenView
      <4> QED BY <4>3, <4>4
    <3>2. CASE ~(i >= f.cache_pos /\ i < f.cache_pos + x.cache_valid)
      <4>1. View(x, d, i) = d.data[i] BY <1>5, <3>2 DEF View
      <4>2. ~(i >= g.cache_pos /\ i < g.cache_pos + g.cache_valid)
        BY <1>0, <1>1, <1>4, <1>6, <2>0, <3>2 DEF max
      <4>3. View(g, d, i) = d.data[i] BY <4>2 DEF View
      <4> QED BY <1>2, <2>2, <4>1, <4>3 DEF WrittenView
    <3> QED BY <3>1, <3>2
  <2> QED BY <2>1, <2>2
<1> QED BY <1>c, <1>4, <1>5, <1>6, <1>7, <1>9, <1>12, <1>13

\* After a level: the bytes it has stored are seen, the offset is behind them, and
\* the struct counts the whole request.
LEMMA LevelView ==
  ASSUME IInv, Writing, NEW h \in Fill, LevelOutcome(h.g, h.d), NEW n, n = Fits(h.g)
  PROVE  /\ n \in 1 .. Rest /\ Sound(f', disk') /\ f'.cache_idx < CacheSize
         /\ n < Rest => ~f'.is_dirty /\ f'.cache_idx = 0
         /\ Head0(f') = Head0(f) + n
         /\ f'.file_size = max(f.file_size, Head0(f) + Rest)
         /\ TrueSize(f', disk') = max(TrueSize(f, disk), Head0(f) + n)
         /\ \A i \in Offsets : View(f', disk', i) = WrittenView(n, i)
<1> MaxSize \in Nat BY MaxSizeAssumption
<1>0. /\ f.cache_pos \in Nat /\ f.cache_idx \in Nat /\ f.file_size \in 0 .. MaxSize
      /\ Head0(f) = f.cache_pos + f.cache_idx /\ Head0(f) \in Nat /\ Rest \in Nat
      /\ Head0(f) + Rest <= MaxSize /\ TrueSize(f, disk) \in Nat
  BY WritingTypes
<1>a. PICK g : g = h.g OBVIOUS
<1>b. PICK d : d = h.d OBVIOUS
<1>c. PICK x : x = Put(g) OBVIOUS
<1>1. /\ n \in 1 .. Rest /\ f.cache_idx + n <= CacheSize
      /\ n < Rest => f.cache_idx + n = CacheSize
      /\ Sound(x, d) /\ x.is_dirty
      /\ x.cache_pos = f.cache_pos /\ x.cache_idx = f.cache_idx
      /\ x.file_size = max(f.file_size, Head0(f) + Rest)
      /\ TrueSize(x, d) = max(TrueSize(f, disk), Head0(f) + n)
      /\ \A i \in Offsets : View(x, d, i) = WrittenView(n, i)
  <2>1. x = Put(h.g) BY <1>a, <1>c
  <2> QED BY <2>1, <1>b, PutView
<1>2. g.cache_idx = f.cache_idx
  <2>1. Head0(f) <= MaxSize BY <1>0
  <2> QED BY <1>a, <2>1, FillFacts
<1>3. LevelOutcome(g, d) /\ n = Fits(g) BY <1>a, <1>b
<1>4. Block(x) /\ d \in Disks BY <1>1 DEF Sound
<1>5. CASE f.cache_idx + n = CacheSize
  <2>1. PICK w \in flush(x, d) :
          LET g2 == [Advance(w.g) EXCEPT !.cache_valid = 0] IN
          /\ disk' = w.d
          /\ IF g2.file_size > g2.cache_pos THEN \E o \in fetch(g2, w.d) : f' = o.g ELSE f' = g2
    BY <1>2, <1>3, <1>5, <1>c DEF LevelOutcome
  <2>2. PICK g2 : g2 = NextBlock(w.g) OBVIOUS
  <2>3. /\ disk' = w.d
        /\ IF g2.file_size > g2.cache_pos THEN \E o \in fetch(g2, w.d) : f' = o.g ELSE f' = g2
    BY <2>1, <2>2 DEF NextBlock
  <2>4. /\ ~w.g.is_dirty /\ w.d.size = TrueSize(x, d) /\ Zeroed(w.d) /\ w.d \in Disks
        /\ \A i \in Offsets : w.d.data[i] = View(x, d, i)
    BY <1>1, FlushView DEF Writing, Sound
  <2>5. x.cache_pos + CacheSize <= MaxSize BY <1>0, <1>1, <1>5
  <2>6. /\ Block(g2) /\ g2.cache_pos = x.cache_pos + CacheSize /\ g2.cache_idx = 0
        /\ g2.cache_pos <= MaxSize /\ g2.file_size = x.file_size /\ g2.cache_valid = 0
        /\ g2.is_dirty = w.g.is_dirty
    BY <1>4, <2>2, <2>5, FullBlockFacts
  <2>7. /\ Sound(f', disk') /\ ~f'.is_dirty /\ SamePlace(g2, f')
        /\ \A i \in Offsets : View(f', disk', i) = w.d.data[i]
    <3>0. g2 \in Files /\ Aligned(g2.cache_pos) /\ ~g2.is_dirty BY <2>4, <2>6 DEF Block
    <3>a. g2.file_size \in Nat /\ g2.cache_pos \in Nat BY <3>0 DEF Files
    <3>1. CASE g2.file_size > g2.cache_pos
      <4>1. PICK o \in fetch(g2, w.d) : f' = o.g BY <2>3, <3>1
      <4>2. g2.cache_pos < g2.file_size BY <3>a, <3>1
      <4>3. /\ Sound(o.g, w.d) /\ ~o.g.is_dirty /\ SamePlace(g2, o.g)
            /\ \A i \in Offsets : View(o.g, w.d, i) = w.d.data[i]
        BY <2>4, <2>6, <3>0, <4>2, FetchView DEF Writing
      <4> QED BY <2>3, <4>1, <4>3
    <3>2. CASE ~(g2.file_size > g2.cache_pos)
      <4>1. f' = g2 BY <2>3, <3>2
      <4>2. w.d.size <= g2.cache_pos
        <5>1. TrueSize(f, disk) <= max(f.file_size, Head0(f) + Rest)
          BY <1>0 DEF Writing, max
        <5> QED BY <1>0, <1>1, <2>4, <2>6, <3>2, <5>1 DEF max
      <4>3. Coherent(g2, w.d) BY <2>6 DEF Coherent, Slots
      <4>4. w.d.size \in Nat BY <2>4 DEF Disks
      <4>5. 0 = Clamp(w.d.size - g2.cache_pos) BY <3>a, <4>2, <4>4 DEF Clamp, max, min
      <4>6. TrueSize(g2, w.d) = w.d.size BY <3>0 DEF TrueSize
      <4>7. Sound(g2, w.d) BY <2>4, <2>6, <3>0, <4>3, <4>5, <4>6 DEF Sound
      <4>8. \A i \in Offsets : View(g2, w.d, i) = w.d.data[i] BY <2>6, <3>a DEF View, Offsets
      <4> QED BY <2>3, <3>0, <4>1, <4>7, <4>8 DEF SamePlace
    <3> QED BY <3>1, <3>2
  <2>8. Head0(f') = Head0(f) + n /\ f'.cache_idx = 0
    BY <1>0, <1>1, <1>5, <2>6, <2>7 DEF SamePlace, Head0
  <2>9. TrueSize(f', disk') = w.d.size BY <2>3, <2>7 DEF TrueSize
  <2> QED BY <1>1, <2>4, <2>6, <2>7, <2>8, <2>9 DEF SamePlace
<1>6. CASE f.cache_idx + n # CacheSize
  <2>1. f' = [x EXCEPT !.cache_idx = f.cache_idx + n] /\ disk' = d
    BY <1>2, <1>3, <1>6, <1>c DEF LevelOutcome
  <2>2. x \in Files /\ f.cache_idx + n \in 0 .. CacheSize BY <1>0, <1>1, <1>4 DEF Block
  <2>3. /\ f' \in Files /\ f'.cache_pos = x.cache_pos /\ f'.cache_idx = f.cache_idx + n
        /\ f'.cache_valid = x.cache_valid /\ f'.cache = x.cache /\ f'.is_dirty = x.is_dirty
        /\ f'.file_size = x.file_size
    BY <2>1, <2>2 DEF Files
  <2>4. Block(f') BY <1>4, <2>3 DEF Block
  <2>5. /\ Sound(f', d) /\ TrueSize(f', d) = TrueSize(x, d)
        /\ \A i \in Offsets : View(f', d, i) = View(x, d, i)
    <3>1. PICK y : y = f' OBVIOUS
    <3>2. Sound(x, d) /\ Block(y) /\ SameBytes(x, y) BY <1>1, <2>3, <2>4, <3>1 DEF SameBytes
    <3>3. /\ Sound(y, d) /\ TrueSize(y, d) = TrueSize(x, d)
          /\ \A i \in Offsets : View(y, d, i) = View(x, d, i)
      BY <3>2, SameBlockView
    <3> QED BY <3>1, <3>3
  <2>6. Head0(f') = Head0(f) + n BY <1>0, <1>1, <2>3 DEF Head0
  <2>7. f'.cache_idx < CacheSize /\ ~(n < Rest) BY <1>0, <1>1, <1>6, <2>3
  <2> QED BY <1>1, <2>1, <2>3, <2>5, <2>6, <2>7
<1> QED BY <1>5, <1>6

-----------------------------------------------------------------------------
(* The file the caller sees *)

\* Between two levels of a call the struct knows the size of the file.
Quiet(g, d, m) ==
  /\ Sound(g, d)
  /\ g.cache_idx < CacheSize
  /\ g.file_size = TrueSize(g, d)
  /\ m = "READ" => ~g.is_dirty

\* The read in progress has copied out the bytes behind the offset it began at.
ReadSoFar ==
  /\ want \in use.reads
  /\ done <= Head0(f)
  /\ done > 0 => Head0(f) <= f.file_size
  /\ buff = [i \in 1 .. done |-> Contents(f, disk).data[Head0(f) - done + i - 1]]

\* On a disk that works block and disk make up the file at every step.
DataInv ==
  ~use.errors =>
    /\ Zeroed(disk)
    /\ mode # "closed" =>
         /\ mode \in use.modes
         /\ ~(op = "write" /\ done > 0) => Quiet(f, disk, mode)
         /\ op = "write" => Writing /\ todo \in use.writes
         /\ op = "read" => ReadSoFar

\* What the refinement asks of the ways the file is used on a disk that works: a
\* file open for reading is not written to, and a write has bytes.
WorkingUses ==
  \A u \in Uses : u.errors \/ (<<>> \notin u.writes /\ ("READ" \in u.modes => u.writes = {}))

BarStep == [use.errors \/ Abstract!Next]_(Abstract!vars)

\* A state that sees the same file has the same contents.
LEMMA SameContents ==
  ASSUME NEW g, NEW d, NEW h, NEW e, h.file_size = g.file_size,
         \A i \in Offsets : View(h, e, i) = View(g, d, i)
  PROVE  Contents(h, e) = Contents(g, d)
BY DEF Contents

\* Contents, named by size and bytes.
LEMMA ContentsFacts ==
  ASSUME NEW g, NEW d
  PROVE  /\ Contents(g, d).size = g.file_size
         /\ \A i \in Offsets : Contents(g, d).data[i] = IF i < g.file_size THEN View(g, d, i) ELSE 0
BY DEF Contents

\* When no write is in progress the caller sees the file through the block.
LEMMA BarQuiet ==
  mode # "closed" /\ op # "write"
    => contentBar = Contents(f, disk) /\ posBar = IF op = "read" THEN Head0(f) - done ELSE Head0(f)
<1> SUFFICES ASSUME mode # "closed", op # "write"
             PROVE  contentBar = Contents(f, disk) /\ posBar = IF op = "read" THEN Head0(f) - done ELSE Head0(f)
  OBVIOUS
<1>1. \A i \in Offsets : Visible(i) = View(f, disk, i) BY DEF Visible, View
<1>2. contentBar = Contents(f, disk) BY <1>1 DEF contentBar, Contents
<1>3. posBar = IF op = "read" THEN Head0(f) - done ELSE Head0(f) BY DEF posBar
<1> QED BY <1>2, <1>3

\* The same after a step.
LEMMA BarQuietNext ==
  ASSUME mode' # "closed", op' # "write"
  PROVE  /\ contentBar' = Contents(f', disk')
         /\ posBar' = IF op' = "read" THEN Head0(f') - done' ELSE Head0(f')
<1>1. (mode # "closed" /\ op # "write")'
        => (contentBar = Contents(f, disk) /\ posBar = IF op = "read" THEN Head0(f) - done ELSE Head0(f))'
  BY BarQuiet, PTL
<1> QED BY <1>1 DEF Contents, View, Head0

\* During a write the caller sees its bytes in their place.
WriteSize == max(f.file_size, Head0(f) + Rest)
WriteBar ==
  /\ contentBar = [size |-> WriteSize,
                   data |-> [i \in Offsets |-> IF i < WriteSize THEN WrittenView(Rest, i) ELSE 0]]
  /\ posBar = Head0(f) + Rest

\* The refinement mapping of a write in progress.
LEMMA BarWriting == IInv /\ Writing => WriteBar
<1> SUFFICES ASSUME IInv, Writing PROVE WriteBar OBVIOUS
<1> MaxSize \in Nat BY MaxSizeAssumption
<1>0. Head0(f) \in Nat /\ Rest \in Nat /\ Rest > 0 BY WritingTypes DEF Writing
<1>1. done \in Nat /\ todo \in Seq(Bytes) /\ Len(todo) \in Nat /\ mode # "closed" /\ op = "write"
  BY DEF IInv, TypeOK, CallInv, Writing
<1>2. Head0(f) + Len(todo) - done = Head0(f) + Rest BY <1>0, <1>1 DEF Rest
<1>3. todo # <<>> BY <1>0, <1>1 DEF Rest
<1>4. ASSUME NEW i \in Offsets PROVE Visible(i) = WrittenView(Rest, i)
  <2>1. i \in Nat BY DEF Offsets
  <2>2. done + i - Head0(f) + 1 = done + (i - Head0(f)) + 1 BY <1>0, <1>1, <2>1
  <2> QED BY <1>1, <1>2, <2>2 DEF Visible, WrittenView, View
<1>5. contentBar = [size |-> WriteSize, data |-> [i \in Offsets |-> IF i < WriteSize THEN Visible(i) ELSE 0]]
  BY <1>1, <1>2, <1>3 DEF contentBar, WriteSize
<1>6. posBar = Head0(f) + Rest BY <1>1, <1>2 DEF posBar
<1> QED BY <1>4, <1>5, <1>6 DEF WriteBar

\* A step that moves none of the abstract variables.
LEMMA BarStutter ==
  ASSUME contentBar' = contentBar, posBar' = posBar, mode' # "closed" <=> mode # "closed",
         op' = "write" <=> op = "write", ret' = ret
  PROVE  BarStep
BY DEF BarStep, Abstract!vars

\* A call that returns on a disk that works leaves the invariant and shows the
\* file through the block.
LEMMA ReturnsData ==
  ASSUME ~use.errors, use' = use, NEW c, NEW v, Returns(c, v), mode' \in use.modes, mode' # "closed",
         Quiet(f', disk', mode')
  PROVE  DataInv' /\ contentBar' = Contents(f', disk') /\ posBar' = Head0(f')
<1>1. op' = "idle" /\ done' = 0 BY DEF Returns
<1>2. contentBar' = Contents(f', disk') /\ posBar' = Head0(f') BY <1>1, BarQuietNext
<1>3. Quiet(f, disk, mode)' BY DEF Quiet, Sound, Block, Aligned, Zeroed, TrueSize, Coherent
<1>4. Zeroed(disk)' BY <1>3 DEF Quiet, Sound
<1>5. DataInv' BY <1>1, <1>3, <1>4 DEF DataInv
<1> QED BY <1>2, <1>5

-----------------------------------------------------------------------------
(* Every step is a step of ByteFile, or none *)

\* What the proofs of the steps start from.
Working == IInv /\ DataInv /\ WorkingUses /\ ~use.errors /\ use' = use

\* The facts of a state in which no call is in progress, or a read.
LEMMA QuietFacts ==
  ASSUME Working, mode # "closed", op # "write"
  PROVE  /\ Quiet(f, disk, mode) /\ Sound(f, disk) /\ mode \in use.modes /\ use \in Uses
         /\ contentBar = Contents(f, disk)
         /\ posBar = IF op = "read" THEN Head0(f) - done ELSE Head0(f)
         /\ f \in Files /\ disk \in Disks /\ Head0(f) \in Nat /\ done \in Nat
<1>1. Quiet(f, disk, mode) /\ mode \in use.modes BY DEF Working, DataInv
<1>2. f \in Files /\ disk \in Disks /\ done \in Nat /\ use \in Uses BY DEF Working, IInv, TypeOK
<1>3. Head0(f) \in Nat BY <1>2 DEF Head0, Files
<1> QED BY <1>1, <1>2, <1>3, BarQuiet DEF Quiet

\* The initial file is an array of bytes.
LEMMA InitBar == Init => Abstract!Init /\ DataInv
<1> SUFFICES ASSUME Init PROVE Abstract!Init /\ DataInv OBVIOUS
<1> MaxSize \in Nat BY MaxSizeAssumption
<1>0. IInv BY InitIInv
<1>1. use \in Uses /\ mode = "closed" /\ op = "idle" /\ ret = <<"none", 0>> BY DEF Init
<1>2. PICK s \in use.writes \cup {<<>>} : disk = Stored(s) BY DEF Init
<1>3. s \in Seq(Bytes) /\ Len(s) \in Nat
  <2>1. use.bytes \subseteq Bytes /\ use.writes \subseteq Seq(use.bytes) BY <1>1, UsesAssumption
  <2>2. CASE s \in use.writes
    <3>1. s \in Seq(use.bytes) BY <2>1, <2>2
    <3> QED BY <2>1, <3>1
  <2>3. CASE s = <<>> BY <2>3
  <2> QED BY <2>2, <2>3
<1> DEFINE src == [i \in Slots \cup Offsets |-> IF i < Len(s) THEN s[i + 1] ELSE 0]
<1>4. disk = WriteAt(EmptyDisk, 0, src, Len(s)) BY <1>2 DEF Stored
<1>5. \A i \in Offsets : disk.data[i] = IF i < Len(s) THEN s[i + 1] ELSE 0
  <2> TAKE i \in Offsets
  <2>1. disk.data[i] = IF i >= 0 /\ i < 0 + Len(s) THEN src[i - 0] ELSE 0
    BY <1>4 DEF WriteAt, EmptyDisk, Zeros
  <2>2. i \in Nat /\ i - 0 = i /\ 0 + Len(s) = Len(s) BY <1>3 DEF Offsets
  <2> QED BY <2>1, <2>2
<1>6. disk.size = Len(s)
  <2>1. disk.size = IF Len(s) = 0 THEN 0 ELSE max(0, 0 + Len(s)) BY <1>4 DEF WriteAt, EmptyDisk
  <2> QED BY <1>3, <2>1 DEF max
<1> HIDE DEF src
<1>7. Zeroed(disk) BY <1>3, <1>5, <1>6 DEF Zeroed, Offsets
<1>8. DataInv BY <1>1, <1>7 DEF DataInv
<1>9. contentBar = disk /\ posBar = 0 BY <1>1 DEF contentBar, posBar
<1>10. disk = Abstract!Overwrite(Abstract!Empty, 0, s)
  <2> DEFINE o == Abstract!Overwrite(Abstract!Empty, 0, s)
             sz == IF s = <<>> THEN 0 ELSE Abstract!Larger(0, 0 + Len(s))
             dt == [i \in Offsets |-> IF i >= 0 /\ i < 0 + Len(s) THEN s[i - 0 + 1] ELSE 0]
  <2>1. o = [size |-> sz, data |-> dt]
    BY DEF Abstract!Overwrite, Abstract!Empty, Abstract!Offsets, Offsets
  <2>2. sz = Len(s) BY <1>3 DEF Abstract!Larger
  <2>3. dt = disk.data
    <3>1. disk.data \in [Offsets -> Bytes] BY <1>0 DEF IInv, TypeOK, Disks
    <3>2. ASSUME NEW i \in Offsets PROVE dt[i] = disk.data[i]
      <4>1. i \in Nat /\ i - 0 = i /\ 0 + Len(s) = Len(s) BY <1>3 DEF Offsets
      <4> QED BY <1>5, <4>1
    <3> QED BY <3>1, <3>2
  <2>4. disk = [size |-> disk.size, data |-> disk.data] BY <1>0 DEF IInv, TypeOK, Disks
  <2> HIDE DEF o, sz, dt
  <2> QED BY <1>6, <2>1, <2>2, <2>3, <2>4 DEF o
<1>11. s \in (UNION {u.writes : u \in Uses}) \cup {<<>>} BY <1>1
<1>12. (mode # "closed") = FALSE /\ (op = "write") = FALSE BY <1>1
<1>13. Abstract!Init BY <1>1, <1>9, <1>10, <1>11, <1>12 DEF Abstract!Init
<1> QED BY <1>8, <1>13

\* io300_open: the array is what is on disk, or empty.
LEMMA OpenBar == ASSUME Working, io300_open PROVE DataInv' /\ BarStep
<1> MaxSize \in Nat BY MaxSizeAssumption
<1>0. /\ use \in Uses /\ disk \in Disks /\ mode = "closed" /\ op = "idle" /\ Zeroed(disk) /\ ~use.errors
      /\ use' = use /\ done = 0
  BY DEF Working, IInv, TypeOK, io300_open, CallInv, DataInv
<1>1. PICK m \in use.modes, junk \in [Slots -> use.bytes] :
       /\ disk' = IF m = "WRITE" THEN EmptyDisk ELSE disk
       /\ \E o \in fetch([cache |-> junk, cache_pos |-> 0, cache_idx |-> 0,
                          cache_valid |-> min(disk'.size, CacheSize), is_dirty |-> FALSE,
                          file_size |-> disk'.size], disk') :
            IF o.rc < 0 THEN UNCHANGED <<f, mode>> ELSE f' = o.g /\ mode' = m
  BY DEF io300_open
<1>2. op' = "idle" /\ done' = 0 /\ ret' = ret BY <1>0 DEF io300_open
<1>3. EmptyDisk \in Disks /\ Zeroed(EmptyDisk) BY BytesAssumption DEF EmptyDisk, Zeros, Disks, Zeroed
<1>4. disk' \in Disks /\ Zeroed(disk') BY <1>0, <1>1, <1>3
<1>5. junk \in [Slots -> Bytes] /\ m \in {"READ", "WRITE", "RDWR"} BY <1>0, UsesAssumption
<1> DEFINE g == [cache |-> junk, cache_pos |-> 0, cache_idx |-> 0,
                 cache_valid |-> min(disk'.size, CacheSize), is_dirty |-> FALSE,
                 file_size |-> disk'.size]
<1>6. min(disk'.size, CacheSize) \in 0 .. CacheSize /\ disk'.size \in 0 .. MaxSize BY <1>4 DEF Disks, min
<1>7. g \in Files /\ g.cache_pos = 0 /\ g.cache_idx = 0 /\ ~g.is_dirty /\ g.file_size = disk'.size
  BY <1>5, <1>6 DEF Files
<1> HIDE DEF g
<1>8. PICK o \in fetch(g, disk') : IF o.rc < 0 THEN UNCHANGED <<f, mode>> ELSE f' = o.g /\ mode' = m
  BY <1>1 DEF g
<1>9. PICK e : e = disk' OBVIOUS
<1>10. g.cache_pos < g.file_size \/ e.size <= g.cache_pos BY <1>6, <1>7, <1>9
<1>11. /\ o.rc >= 0 /\ o.rc \in Int /\ Sound(o.g, e) /\ ~o.g.is_dirty /\ SamePlace(g, o.g)
       /\ \A i \in Offsets : View(o.g, e, i) = e.data[i]
  <2>1. e \in Disks /\ Zeroed(e) /\ o \in fetch(g, e) /\ g.cache_pos <= MaxSize BY <1>4, <1>7, <1>8, <1>9
  <2> QED BY <1>0, <1>7, <1>10, <2>1, AlignedZero, FetchView
<1>12. f' = o.g /\ mode' = m BY <1>8, <1>11
<1>13. Quiet(f', disk', mode') /\ Head0(f') = 0 /\ f'.file_size = e.size
  BY <1>7, <1>9, <1>11, <1>12 DEF Quiet, SamePlace, TrueSize, Head0
<1>14. mode' # "closed" /\ mode' \in use.modes BY <1>5, <1>12
<1>15. Contents(f', disk') = e
  <2>1. Contents(f', disk') = [size |-> e.size, data |-> [i \in Offsets |-> IF i < e.size THEN e.data[i] ELSE 0]]
    BY <1>9, <1>11, <1>12, <1>13 DEF Contents
  <2>2. e = [size |-> e.size, data |-> e.data] /\ e.data \in [Offsets -> Bytes] /\ e.size \in Nat
    BY <1>4, <1>9 DEF Disks
  <2>3. ASSUME NEW i \in Offsets PROVE (IF i < e.size THEN e.data[i] ELSE 0) = e.data[i]
    <3>1. i \in Nat BY DEF Offsets
    <3> QED BY <1>4, <1>9, <2>2, <3>1 DEF Zeroed
  <2>4. [i \in Offsets |-> IF i < e.size THEN e.data[i] ELSE 0] = e.data BY <2>2, <2>3
  <2> QED BY <2>1, <2>2, <2>4
<1>16. contentBar' = e /\ posBar' = 0 BY <1>2, <1>13, <1>14, <1>15, BarQuietNext
<1>17. contentBar = disk /\ posBar = 0 BY <1>0 DEF contentBar, posBar
<1>18. EmptyDisk = Abstract!Empty
  BY DEF EmptyDisk, Zeros, Offsets, Abstract!Empty, Abstract!Offsets
<1>19. contentBar' = IF m = "WRITE" THEN Abstract!Empty ELSE contentBar BY <1>1, <1>9, <1>16, <1>17, <1>18
<1>20. m \in UNION {u.modes : u \in Uses} BY <1>0
<1>21. Abstract!Open
  BY <1>0, <1>2, <1>14, <1>16, <1>19, <1>20 DEF Abstract!Open
<1>22. BarStep BY <1>21 DEF BarStep, Abstract!Next
<1>23. Quiet(f, disk, mode)' BY <1>13 DEF Quiet, Sound, Block, Aligned, Zeroed, TrueSize, Coherent
<1>24. Zeroed(disk)' BY <1>23 DEF Quiet, Sound
<1>25. DataInv' BY <1>0, <1>2, <1>14, <1>23, <1>24 DEF DataInv
<1> QED BY <1>22, <1>25

\* io300_seek moves the offset and nothing else.
LEMMA SeekBar ==
  ASSUME Working, NEW p \in Int, p < use.size, io300_seek(p)
  PROVE  DataInv' /\ BarStep
<1> MaxSize \in Nat BY MaxSizeAssumption
<1>0. mode # "closed" /\ op = "idle" /\ mode' = mode /\ use' = use /\ ~use.errors
  BY DEF io300_seek, Idle, Working
<1>1. /\ Quiet(f, disk, mode) /\ Sound(f, disk) /\ mode \in use.modes /\ use \in Uses
      /\ contentBar = Contents(f, disk) /\ posBar = Head0(f)
      /\ f \in Files /\ disk \in Disks
  BY <1>0, QuietFacts
<1>a. use.size \in 1 .. MaxSize BY <1>1, UsesAssumption
<1>2. Returns("seek", IF p < 0 THEN -1 ELSE p) BY DEF io300_seek
<1>3. op' = "idle" /\ ret' = <<"seek", IF p < 0 THEN -1 ELSE p>> BY <1>2 DEF Returns
<1>4. CASE p < 0
  <2>0. ~(p >= f.cache_pos) BY <1>1, <1>4 DEF Files
  <2>1. f' = f /\ disk' = disk BY <1>4, <2>0 DEF io300_seek
  <2>2. Quiet(f', disk', mode') BY <1>0, <1>1, <2>1
  <2>3. DataInv' /\ contentBar' = Contents(f', disk') /\ posBar' = Head0(f')
    BY <1>0, <1>1, <1>2, <2>2, ReturnsData
  <2>4. contentBar' = contentBar /\ posBar' = posBar BY <1>1, <2>1, <2>3
  <2>5. Abstract!SeekFails BY <1>0, <1>3, <1>4, <2>4 DEF Abstract!SeekFails
  <2> QED BY <2>3, <2>5 DEF BarStep, Abstract!Next
<1>5. ASSUME p >= 0, Quiet(f', disk', mode'), Contents(f', disk') = Contents(f, disk), Head0(f') = p
      PROVE  DataInv' /\ BarStep
  <2>1. DataInv' /\ contentBar' = Contents(f', disk') /\ posBar' = Head0(f')
    BY <1>0, <1>1, <1>2, <1>5, ReturnsData
  <2>2. contentBar' = contentBar /\ posBar' = p BY <1>1, <1>5, <2>1
  <2>3. p \in Abstract!Offsets BY <1>a, <1>5 DEF Abstract!Offsets
  <2>4. ret' = <<"seek", p>> BY <1>3, <1>5
  <2>5. Abstract!Seek BY <1>0, <1>3, <2>2, <2>3, <2>4 DEF Abstract!Seek
  <2> QED BY <2>1, <2>5 DEF BarStep, Abstract!Next
<1>6. CASE ~(p < 0) /\ p >= f.cache_pos /\ p < f.cache_pos + CacheSize
  <2>1. f' = [f EXCEPT !.cache_idx = p - f.cache_pos] /\ disk' = disk BY <1>6 DEF io300_seek
  <2>2. p - f.cache_pos \in 0 .. CacheSize /\ p - f.cache_pos < CacheSize
        /\ f.cache_pos + (p - f.cache_pos) = p
    BY <1>1, <1>6 DEF Files
  <2>3. PICK y : y = f' OBVIOUS
  <2>4. /\ y \in Files /\ SameBytes(f, y) /\ y.cache_idx = p - f.cache_pos /\ y.file_size = f.file_size
        /\ y.cache_pos = f.cache_pos
    BY <1>1, <2>1, <2>2, <2>3 DEF Files, SameBytes
  <2>5. Block(y) BY <1>1, <2>4 DEF Block, Sound, SameBytes
  <2>6. /\ Sound(y, disk) /\ TrueSize(y, disk) = TrueSize(f, disk)
        /\ \A i \in Offsets : View(y, disk, i) = View(f, disk, i)
    BY <1>1, <2>4, <2>5, SameBlockView
  <2>7. Quiet(y, disk, mode) BY <1>1, <2>2, <2>4, <2>6 DEF Quiet, SameBytes
  <2>8. Contents(y, disk) = Contents(f, disk) BY <2>4, <2>6, SameContents
  <2>9. Head0(y) = p BY <2>2, <2>4 DEF Head0
  <2> QED BY <1>0, <1>5, <1>6, <2>1, <2>3, <2>7, <2>8, <2>9
<1>7. CASE ~(p < 0) /\ ~(p >= f.cache_pos /\ p < f.cache_pos + CacheSize)
  <2>1. PICK o \in seekTo(f, disk, p) : f' = o.g /\ disk' = o.d BY <1>7 DEF io300_seek
  <2>2. p \in 0 .. MaxSize BY <1>a, <1>7
  <2>3. SeesTheSame(f, disk, o.g, o.d) /\ Head0(o.g) = p /\ o.g.cache_idx < CacheSize
    BY <1>0, <1>1, <2>2, SeekView DEF Quiet
  <2>4. Quiet(o.g, o.d, mode) BY <2>3 DEF Quiet, SeesTheSame
  <2>5. Contents(o.g, o.d) = Contents(f, disk) BY <2>3, SameContents DEF SeesTheSame
  <2> QED BY <1>0, <1>5, <1>7, <2>1, <2>3, <2>4, <2>5
<1> QED BY <1>4, <1>6, <1>7

\* io300_close leaves the array on disk.
LEMMA CloseBar == ASSUME Working, io300_close PROVE DataInv' /\ BarStep
<1> MaxSize \in Nat BY MaxSizeAssumption
<1>0. mode # "closed" /\ op = "idle" /\ mode' = "closed" /\ use' = use /\ ~use.errors
  BY DEF io300_close, Idle, Working
<1>1. /\ Quiet(f, disk, mode) /\ Sound(f, disk)
      /\ contentBar = Contents(f, disk) /\ f \in Files
  BY <1>0, QuietFacts
<1>2. op' = "idle" /\ ret' = <<"close", 0>> BY DEF io300_close, Returns
<1>3. PICK w \in flush(f, disk) : disk' = w.d BY DEF io300_close
<1>4. /\ Sound(w.g, w.d) /\ w.d.size = TrueSize(f, disk)
      /\ \A i \in Offsets : w.d.data[i] = View(f, disk, i)
  BY <1>0, <1>1, FlushView DEF Quiet
<1>5. w.d \in Disks /\ Zeroed(w.d) /\ f.file_size = w.d.size BY <1>1, <1>4 DEF Sound, Quiet
<1>6. Contents(f, disk) = w.d
  <2>1. w.d = [size |-> w.d.size, data |-> w.d.data] /\ w.d.data \in [Offsets -> Bytes] /\ w.d.size \in Nat
    BY <1>5 DEF Disks
  <2>2. ASSUME NEW i \in Offsets PROVE (IF i < f.file_size THEN View(f, disk, i) ELSE 0) = w.d.data[i]
    <3>1. i \in Nat BY DEF Offsets
    <3> QED BY <1>4, <1>5, <2>1, <3>1 DEF Zeroed
  <2>3. [i \in Offsets |-> IF i < f.file_size THEN View(f, disk, i) ELSE 0] = w.d.data BY <2>1, <2>2
  <2> QED BY <1>5, <2>1, <2>3 DEF Contents
<1>7. contentBar' = w.d /\ posBar' = 0 BY <1>0, <1>2, <1>3 DEF contentBar, posBar
<1>8. Abstract!Close BY <1>0, <1>1, <1>2, <1>6, <1>7 DEF Abstract!Close
<1>9. Zeroed(disk)' BY <1>3, <1>5 DEF Zeroed
<1>10. DataInv' BY <1>0, <1>9 DEF DataInv
<1> QED BY <1>8, <1>10 DEF BarStep, Abstract!Next

\* io300_filesize reports at most the size of the array.
LEMMA FilesizeBar == ASSUME Working, io300_filesize PROVE DataInv' /\ BarStep
<1> MaxSize \in Nat BY MaxSizeAssumption
<1>0. /\ mode # "closed" /\ op = "idle" /\ mode' = mode /\ f' = f /\ disk' = disk /\ use' = use
      /\ ~use.errors /\ Returns("filesize", disk.size)
  BY DEF io300_filesize, Idle, Working
<1>1. /\ Quiet(f, disk, mode) /\ Sound(f, disk) /\ mode \in use.modes
      /\ contentBar = Contents(f, disk) /\ posBar = Head0(f) /\ f \in Files /\ disk \in Disks
  BY <1>0, QuietFacts
<1>2. DataInv' /\ contentBar' = Contents(f', disk') /\ posBar' = Head0(f')
  BY <1>0, <1>1, ReturnsData
<1>3. contentBar' = contentBar /\ posBar' = posBar BY <1>0, <1>1, <1>2
<1>4. disk.size \in 0 .. contentBar.size
  <2>1. contentBar.size = f.file_size BY <1>1 DEF Contents
  <2>2. /\ f.cache_pos \in Nat /\ f.cache_valid \in 0 .. CacheSize /\ disk.size \in 0 .. MaxSize
    BY <1>1 DEF Files, Disks
  <2> QED BY <1>1, <2>1, <2>2 DEF Quiet, TrueSize, max
<1>5. op' = "idle" /\ ret' = <<"filesize", disk.size>> BY <1>0 DEF Returns
<1>6. Abstract!Filesize BY <1>0, <1>3, <1>4, <1>5 DEF Abstract!Filesize
<1> QED BY <1>2, <1>6 DEF BarStep, Abstract!Next

\* A read that begins changes nothing the caller sees.
LEMMA CallReadBar == ASSUME Working, NEW n \in use.reads, CallRead(n) PROVE DataInv' /\ BarStep
<1>0. /\ mode # "closed" /\ op = "idle" /\ mode' = mode /\ f' = f /\ disk' = disk /\ use' = use
      /\ ~use.errors /\ op' = "read" /\ want' = n /\ buff' = buff /\ done' = done /\ ret' = ret
  BY DEF CallRead, Idle, Working
<1>1. /\ Quiet(f, disk, mode) /\ Sound(f, disk) /\ mode \in use.modes
      /\ contentBar = Contents(f, disk) /\ posBar = Head0(f) /\ Head0(f) \in Nat
  BY <1>0, QuietFacts
<1>2. contentBar' = Contents(f, disk) /\ posBar' = Head0(f) - done BY <1>0, BarQuietNext
<1>3. done = 0 /\ buff = <<>> BY <1>0 DEF Working, IInv, CallInv
<1>4. BarStep BY <1>0, <1>1, <1>2, <1>3, BarStutter
<1>5. Quiet(f, disk, mode)' BY <1>0, <1>1 DEF Quiet, Sound, Block, Aligned, Zeroed, TrueSize, Coherent
<1>6. Zeroed(disk)' BY <1>5 DEF Quiet, Sound
<1>7. ReadSoFar'
  <2>1. Head0(f') \in Nat /\ Head0(f') = Head0(f) BY <1>0, <1>1
  <2>2. [i \in 1 .. 0 |-> Contents(f', disk').data[Head0(f') - 0 + i - 1]] = <<>> OBVIOUS
  <2>3. (Contents(f, disk))' = Contents(f', disk') /\ Head0(f)' = Head0(f')
    BY DEF Contents, View, Head0
  <2> QED BY <1>0, <1>3, <2>1, <2>2, <2>3 DEF ReadSoFar
<1>8. DataInv' BY <1>0, <1>1, <1>5, <1>6, <1>7 DEF DataInv
<1> QED BY <1>4, <1>8

\* The array during a write, named by size and bytes.
WriteContents(g, d, t, k) ==
  LET end == max(g.file_size, Head0(g) + (Len(t) - k)) IN
  [size |-> end,
   data |-> [i \in Offsets |->
               IF i < end
               THEN IF i >= Head0(g) /\ i < Head0(g) + (Len(t) - k) THEN t[k + (i - Head0(g)) + 1]
                    ELSE View(g, d, i)
               ELSE 0]]

\* The refinement mapping after a step into a write in progress.
LEMMA BarWritingNext ==
  ASSUME IInv', Writing'
  PROVE  contentBar' = WriteContents(f', disk', todo', done') /\ posBar' = Head0(f') + (Len(todo') - done')
<1>1. WriteBar' BY BarWriting, PTL
<1> QED BY <1>1 DEF WriteBar, WriteSize, WrittenView, Rest, WriteContents, Head0, View

\* Writing as the invariant of a primed state.
LEMMA WritingNext ==
  ASSUME ~use'.errors, mode' # "READ", op' = "write", Sound(f', disk'), f'.cache_idx < CacheSize,
         Len(todo') - done' > 0,
         IF done' > 0 THEN /\ ~f'.is_dirty /\ f'.cache_idx = 0
                           /\ f'.file_size = max(TrueSize(f', disk'), Head0(f') + (Len(todo') - done'))
         ELSE f'.file_size = TrueSize(f', disk')
  PROVE  Writing'
<1>1. Sound(f, disk)' BY DEF Sound, Block, Aligned, Zeroed, TrueSize, Coherent
<1>2. TrueSize(f, disk)' = TrueSize(f', disk') /\ Head0(f)' = Head0(f') /\ Rest' = Len(todo') - done'
  BY DEF TrueSize, Head0, Rest
<1> QED BY <1>1, <1>2 DEF Writing

\* A write takes effect on the array when it is called.
LEMMA CallWriteBar == ASSUME Working, NEW s \in use.writes, CallWrite(s) PROVE DataInv' /\ BarStep
<1> MaxSize \in Nat BY MaxSizeAssumption
<1>0. /\ mode # "closed" /\ op = "idle" /\ mode' = mode /\ f' = f /\ disk' = disk /\ use' = use
      /\ ~use.errors /\ op' = "write" /\ todo' = s /\ done' = done /\ ret' = ret
  BY DEF CallWrite, Idle, Working
<1>1. /\ Quiet(f, disk, mode) /\ Sound(f, disk) /\ mode \in use.modes /\ use \in Uses
      /\ contentBar = Contents(f, disk) /\ posBar = Head0(f) /\ Head0(f) \in Nat /\ f \in Files
  BY <1>0, QuietFacts
<1>2. s # <<>> /\ mode # "READ"
  <2>1. <<>> \notin use.writes /\ ("READ" \in use.modes => use.writes = {})
    BY <1>0, <1>1 DEF Working, WorkingUses
  <2> QED BY <1>1, <2>1
<1>3. s \in Seq(Bytes) /\ Len(s) \in Nat /\ Len(s) > 0
  <2>1. use.bytes \subseteq Bytes /\ s \in Seq(use.bytes) BY <1>1, UsesAssumption
  <2>2. s \in Seq(Bytes) BY <2>1
  <2> QED BY <1>2, <2>2
<1>4. done = 0 BY <1>0 DEF Working, IInv, CallInv
<1>5. IInv'
  <2>1. \E t \in use.writes : CallWrite(t) OBVIOUS
  <2> QED BY <2>1, <1>0, CallsInv DEF Working
<1>6. Writing' BY <1>0, <1>1, <1>2, <1>3, <1>4, WritingNext DEF Quiet
<1>7. contentBar' = WriteContents(f, disk, s, 0) /\ posBar' = Head0(f) + (Len(s) - 0)
  BY <1>0, <1>4, <1>5, <1>6, BarWritingNext
<1>8. WriteContents(f, disk, s, 0) = Abstract!Overwrite(contentBar, posBar, s)
  <2> DEFINE p == Head0(f)
             n == Len(s)
             c == Contents(f, disk)
             z1 == max(f.file_size, p + (n - 0))
             z2 == IF s = <<>> THEN c.size ELSE Abstract!Larger(c.size, p + n)
             b1(i) == IF i < z1
                      THEN IF i >= p /\ i < p + (n - 0) THEN s[0 + (i - p) + 1] ELSE View(f, disk, i)
                      ELSE 0
             b2(i) == IF i >= p /\ i < p + n THEN s[i - p + 1] ELSE c.data[i]
  <2>1. WriteContents(f, disk, s, 0) = [size |-> z1, data |-> [i \in Offsets |-> b1(i)]]
    BY DEF WriteContents
  <2>2. Abstract!Overwrite(contentBar, posBar, s) = [size |-> z2, data |-> [i \in Offsets |-> b2(i)]]
    BY <1>1 DEF Abstract!Overwrite, Abstract!Offsets, Offsets
  <2>3. c.size = f.file_size
        /\ \A i \in Offsets : c.data[i] = IF i < f.file_size THEN View(f, disk, i) ELSE 0
    BY ContentsFacts
  <2>4. f.file_size \in Nat /\ p \in Nat /\ n \in Nat BY <1>1, <1>3 DEF Files
  <2> HIDE DEF p, n, c
  <2>5. z1 = z2 BY <1>2, <2>3, <2>4 DEF max, Abstract!Larger
  <2>6. ASSUME NEW i \in Offsets PROVE b1(i) = b2(i)
    <3>1. i \in Nat BY DEF Offsets
    <3>2. 0 + (i - p) + 1 = i - p + 1 /\ p + (n - 0) = p + n BY <2>4, <3>1
    <3>3. i >= f.file_size => View(f, disk, i) = 0 BY <1>1, ZeroBehind DEF Quiet
    <3>4. CASE i >= p /\ i < p + n
      <4>1. i < z1 BY <2>4, <3>1, <3>4 DEF max
      <4> QED BY <3>2, <3>4, <4>1
    <3>5. CASE ~(i >= p /\ i < p + n)
      <4>1. i < f.file_size => i < z1 BY <2>4, <3>1 DEF max
      <4>2. CASE i < f.file_size BY <2>3, <3>2, <3>5, <4>1, <4>2
      <4>3. CASE ~(i < f.file_size)
        <5>1. View(f, disk, i) = 0 BY <2>4, <3>1, <3>3, <4>3
        <5> QED BY <2>3, <3>2, <3>5, <4>3, <5>1
      <4> QED BY <4>2, <4>3
    <3> QED BY <3>4, <3>5
  <2> HIDE DEF z1, z2, b1, b2
  <2>7. [i \in Offsets |-> b1(i)] = [i \in Offsets |-> b2(i)] BY <2>6
  <2> QED BY <2>1, <2>2, <2>5, <2>7
<1>9. s \in UNION {u.writes : u \in Uses} BY <1>1
<1>10. Abstract!BeginWrite
  <2>1. contentBar' = Abstract!Overwrite(contentBar, posBar, s) /\ posBar' = posBar + Len(s)
    BY <1>1, <1>3, <1>7, <1>8
  <2> QED BY <1>0, <1>9, <2>1 DEF Abstract!BeginWrite
<1>11. Quiet(f, disk, mode)' BY <1>0, <1>1 DEF Quiet, Sound, Block, Aligned, Zeroed, TrueSize, Coherent
<1>12. Zeroed(disk)' BY <1>11 DEF Quiet, Sound
<1>13. DataInv' BY <1>0, <1>1, <1>6, <1>11, <1>12 DEF DataInv
<1> QED BY <1>10, <1>13 DEF BarStep, Abstract!Next

\* On a disk that works a hole can be filled.
LEMMA HoleNeverFails == ASSUME Working, WriteHoleFails PROVE FALSE
<1>1. op = "write" /\ (mode = "READ" \/ use.errors) BY DEF WriteHoleFails
<1>2. mode # "closed" BY <1>1 DEF Working, IInv, CallInv
<1> QED BY <1>1, <1>2 DEF Working, DataInv, Writing

\* The levels of a write store bytes that the array already has; the last one
\* ends the write.
LEMMA WriteLevelBar == ASSUME Working, WriteLevel PROVE DataInv' /\ BarStep
<1> MaxSize \in Nat BY MaxSizeAssumption
<1>0. op = "write" /\ mode' = mode /\ use' = use /\ ~use.errors /\ IInv BY DEF WriteLevel, Working
<1>1. mode # "closed" BY <1>0 DEF IInv, CallInv
<1>2. Writing /\ todo \in use.writes /\ mode \in use.modes BY <1>0, <1>1 DEF Working, DataInv
<1>3. mode # "READ" BY <1>2 DEF Writing
<1>4. /\ f.file_size \in 0 .. MaxSize /\ Head0(f) \in Nat /\ Rest \in Nat
      /\ Head0(f) + Rest <= MaxSize /\ TrueSize(f, disk) \in Nat
  BY <1>0, <1>2, WritingTypes
<1>5. PICK h \in Fill :
           /\ LevelOutcome(h.g, h.d)
           /\ IF Fits(h.g) = Rest THEN Returns("write", Len(todo))
              ELSE done' = done + Fits(h.g) /\ UNCHANGED <<op, todo, want, buff, ret>>
  BY WriteLevelFacts
<1>6. PICK n : n = Fits(h.g) OBVIOUS
<1>7. /\ n \in 1 .. Rest /\ Sound(f', disk') /\ f'.cache_idx < CacheSize
      /\ n < Rest => ~f'.is_dirty /\ f'.cache_idx = 0
      /\ Head0(f') = Head0(f) + n
      /\ f'.file_size = max(f.file_size, Head0(f) + Rest)
      /\ TrueSize(f', disk') = max(TrueSize(f, disk), Head0(f) + n)
      /\ \A i \in Offsets : View(f', disk', i) = WrittenView(n, i)
  BY <1>0, <1>2, <1>5, <1>6, LevelView
<1>8. /\ contentBar = [size |-> WriteSize,
                       data |-> [i \in Offsets |-> IF i < WriteSize THEN WrittenView(Rest, i) ELSE 0]]
      /\ posBar = Head0(f) + Rest
  BY <1>0, <1>2, BarWriting DEF WriteBar
<1>9. f'.file_size = WriteSize /\ WriteSize \in Nat BY <1>4, <1>7 DEF WriteSize, max
<1>10. f'.file_size = max(TrueSize(f, disk), Head0(f) + Rest)
  <2>1. f.file_size = TrueSize(f, disk) \/ f.file_size = max(TrueSize(f, disk), Head0(f) + Rest)
    BY <1>2 DEF Writing
  <2> QED BY <1>4, <1>7, <2>1 DEF max
<1>11. CASE n = Rest
  <2>1. Returns("write", Len(todo)) BY <1>5, <1>6, <1>11
  <2>2. f'.file_size = TrueSize(f', disk') BY <1>7, <1>10, <1>11
  <2>3. Quiet(f', disk', mode') BY <1>0, <1>3, <1>7, <2>2 DEF Quiet
  <2>4. mode' \in use.modes /\ mode' # "closed" BY <1>0, <1>1, <1>2
  <2>5. DataInv' /\ contentBar' = Contents(f', disk') /\ posBar' = Head0(f')
    BY <1>0, <2>1, <2>3, <2>4, ReturnsData
  <2>6. Contents(f', disk') = contentBar
    <3>1. [i \in Offsets |-> IF i < f'.file_size THEN View(f', disk', i) ELSE 0]
            = [i \in Offsets |-> IF i < WriteSize THEN WrittenView(Rest, i) ELSE 0]
      BY <1>7, <1>9, <1>11
    <3> QED BY <1>8, <1>9, <3>1 DEF Contents
  <2>7. posBar' = posBar BY <1>7, <1>8, <1>11, <2>5
  <2>8. op' = "idle" /\ ret' = <<"write", Len(todo)>> BY <2>1 DEF Returns
  <2>9. todo \in UNION {u.writes : u \in Uses} BY <1>2 DEF Working, IInv, TypeOK
  <2>10. Abstract!EndWrite BY <1>0, <1>1, <2>5, <2>6, <2>7, <2>8, <2>9 DEF Abstract!EndWrite
  <2> QED BY <2>5, <2>10 DEF BarStep, Abstract!Next
<1>12. CASE n # Rest
  <2>1. done' = done + n /\ op' = op /\ todo' = todo /\ ret' = ret BY <1>5, <1>6, <1>12
  <2>2. done \in Nat /\ Len(todo) \in Nat /\ todo \in Seq(Bytes) BY <1>0 DEF IInv, TypeOK
  <2>3. n \in Nat /\ n > 0 /\ n < Rest BY <1>4, <1>7, <1>12
  <2>4. /\ done' > 0 /\ Len(todo') - done' = Rest - n /\ Rest - n > 0
        /\ Head0(f') + (Len(todo') - done') = Head0(f) + Rest
    <3>1. Len(todo') - done' = Rest - n BY <2>1, <2>2, <2>3 DEF Rest
    <3>2. Head0(f') + (Rest - n) = Head0(f) + Rest BY <1>4, <1>7, <2>3
    <3> QED BY <1>4, <2>1, <2>2, <2>3, <3>1, <3>2
  <2>5. f'.file_size = max(TrueSize(f', disk'), Head0(f') + (Len(todo') - done'))
    <3>1. TrueSize(f', disk') = max(TrueSize(f, disk), Head0(f) + n) BY <1>7
    <3> QED BY <1>4, <1>10, <2>3, <2>4, <3>1 DEF max
  <2>6. Writing' BY <1>0, <1>3, <1>7, <2>1, <2>3, <2>4, <2>5, WritingNext
  <2>7. IInv' BY <1>0, WriteInv
  <2>8. contentBar' = WriteContents(f', disk', todo', done')
        /\ posBar' = Head0(f') + (Len(todo') - done')
    BY <2>6, <2>7, BarWritingNext
  <2>9. WriteContents(f', disk', todo', done') = contentBar
    <3> DEFINE z == max(f'.file_size, Head0(f') + (Len(todo') - done'))
               b(i) == IF i < z
                       THEN IF i >= Head0(f') /\ i < Head0(f') + (Len(todo') - done')
                            THEN todo'[done' + (i - Head0(f')) + 1]
                            ELSE View(f', disk', i)
                       ELSE 0
    <3>1. WriteContents(f', disk', todo', done') = [size |-> z, data |-> [i \in Offsets |-> b(i)]]
      BY DEF WriteContents
    <3>2. z = WriteSize BY <1>4, <1>9, <2>4 DEF WriteSize, max
    <3> HIDE DEF z
    <3>3. ASSUME NEW i \in Offsets PROVE b(i) = IF i < WriteSize THEN WrittenView(Rest, i) ELSE 0
      <4>1. i \in Nat BY DEF Offsets
      <4>2. View(f', disk', i) = WrittenView(n, i) BY <1>7
      <4>3. CASE i >= Head0(f') /\ i < Head0(f') + (Len(todo') - done')
        <5>1. i >= Head0(f) /\ i < Head0(f) + Rest BY <1>4, <1>7, <2>3, <2>4, <4>1, <4>3
        <5>2. done' + (i - Head0(f')) + 1 = done + (i - Head0(f)) + 1
          BY <1>4, <1>7, <2>1, <2>2, <2>3, <4>1
        <5>3. WrittenView(Rest, i) = todo[done + (i - Head0(f)) + 1] BY <5>1 DEF WrittenView
        <5> QED BY <2>1, <3>2, <4>3, <5>2, <5>3
      <4>4. CASE ~(i >= Head0(f') /\ i < Head0(f') + (Len(todo') - done'))
        <5>1. (i >= Head0(f) /\ i < Head0(f) + Rest) <=> (i >= Head0(f) /\ i < Head0(f) + n)
          BY <1>4, <1>7, <2>3, <2>4, <4>1, <4>4
        <5>2. WrittenView(Rest, i) = WrittenView(n, i) BY <5>1 DEF WrittenView
        <5> QED BY <3>2, <4>2, <4>4, <5>2
      <4> QED BY <4>3, <4>4
    <3> HIDE DEF b
    <3>4. [i \in Offsets |-> b(i)]
            = [i \in Offsets |-> IF i < WriteSize THEN WrittenView(Rest, i) ELSE 0]
      BY <3>3
    <3> QED BY <1>8, <3>1, <3>2, <3>4
  <2>10. posBar' = posBar BY <1>8, <2>4, <2>8
  <2>11. BarStep BY <1>0, <1>1, <2>1, <2>8, <2>9, <2>10, BarStutter
  <2>12. Zeroed(disk)' BY <1>7 DEF Sound, Zeroed
  <2>13. DataInv' BY <1>0, <1>2, <2>1, <2>4, <2>6, <2>12 DEF DataInv
  <2> QED BY <2>11, <2>13
<1> QED BY <1>11, <1>12

\* A function on 1 .. n is a sequence of length n.
LEMMA RunIsSeq ==
  ASSUME NEW S, NEW n \in Nat, NEW a \in [1 .. n -> S]
  PROVE  a \in Seq(S) /\ Len(a) = n
OBVIOUS

\* c begins as a, of length m, and goes on as b, of length n.
Follows(a, m, b, n, c) ==
  /\ m \in Nat /\ n \in Nat
  /\ a \in [1 .. m -> Bytes] /\ b \in [1 .. n -> Bytes] /\ c \in [1 .. m + n -> Bytes]
  /\ \A i \in 1 .. m : a[i] = c[i]
  /\ \A i \in 1 .. n : b[i] = c[m + i]

\* Such a sequence is the concatenation of the two.
LEMMA ConcatRun ==
  ASSUME NEW a, NEW m, NEW b, NEW n, NEW c, Follows(a, m, b, n, c)
  PROVE  a \o b = c
<1> DEFINE S == Bytes
<1>0. /\ m \in Nat /\ n \in Nat
      /\ a \in [1 .. m -> S] /\ b \in [1 .. n -> S] /\ c \in [1 .. m + n -> S]
      /\ \A i \in 1 .. m : a[i] = c[i]
      /\ \A i \in 1 .. n : b[i] = c[m + i]
  BY DEF Follows
<1> HIDE DEF S
<1>1. /\ a \in Seq(S) /\ Len(a) = m /\ b \in Seq(S) /\ Len(b) = n
      /\ c \in Seq(S) /\ Len(c) = m + n
  <2>1. m + n \in Nat BY <1>0
  <2> QED BY <1>0, <2>1, RunIsSeq
<1>2. a \o b \in Seq(S) /\ Len(a \o b) = m + n BY <1>1, ConcatProperties
<1>3. ASSUME NEW i \in 1 .. m + n PROVE (a \o b)[i] = c[i]
  <2>1. CASE i <= m BY <1>0, <1>1, <2>1
  <2>2. CASE i > m
    <3>1. i - m \in 1 .. n /\ m + (i - m) = i BY <1>0, <2>2
    <3>3. i \in 1 .. Len(a) + Len(b) /\ ~(i <= Len(a)) BY <1>0, <1>1, <2>2
    <3>2. (a \o b)[i] = b[i - m] BY <1>1, <3>3, ConcatProperties
    <3> QED BY <1>0, <3>1, <3>2
  <2> QED BY <1>0, <2>1, <2>2
<1> QED BY <1>1, <1>2, <1>3, SeqEqual

\* The file consists of bytes.
LEMMA ContentsBytes ==
  ASSUME NEW g, NEW d, Sound(g, d), NEW i \in Offsets
  PROVE  Contents(g, d).data[i] \in Bytes
<1>1. g \in Files /\ d \in Disks BY DEF Sound, Block
<1>2. d.data[i] \in Bytes BY <1>1 DEF Disks
<1>3. View(g, d, i) \in Bytes
  <2>1. g.cache_pos \in Nat /\ g.cache_valid \in 0 .. CacheSize /\ i \in Int BY <1>1 DEF Files, Offsets
  <2>2. i >= g.cache_pos /\ i < g.cache_pos + g.cache_valid => i - g.cache_pos \in Slots
    BY <2>1 DEF Slots
  <2> QED BY <1>1, <1>2, <2>2 DEF View, Files
<1> QED BY <1>3, BytesAssumption, ContentsFacts

\* What a level of io300_read knows.
LEMMA ReadTypes ==
  ASSUME Working, op = "read"
  PROVE  /\ mode # "closed" /\ mode \in use.modes /\ use \in Uses /\ ~use.errors /\ use' = use
         /\ Quiet(f, disk, mode) /\ Sound(f, disk) /\ f \in Files /\ disk \in Disks /\ Block(f)
         /\ contentBar = Contents(f, disk) /\ posBar = Head0(f) - done
         /\ done \in Nat /\ want \in Nat /\ done <= want /\ Head0(f) \in Nat
         /\ Head0(f) = f.cache_pos + f.cache_idx /\ f.cache_pos \in Nat /\ f.cache_idx \in Nat
         /\ f.cache_idx < CacheSize /\ f.cache_valid \in 0 .. CacheSize
         /\ f.file_size \in Nat /\ f.file_size <= MaxSize
         /\ f.cache_valid = Clamp(f.file_size - f.cache_pos)
         /\ ReadSoFar
<1> MaxSize \in Nat BY MaxSizeAssumption
<1>1. mode # "closed" /\ ~use.errors /\ use' = use BY DEF Working, IInv, CallInv
<1>2. /\ Quiet(f, disk, mode) /\ Sound(f, disk) /\ mode \in use.modes /\ use \in Uses
      /\ contentBar = Contents(f, disk) /\ posBar = Head0(f) - done
      /\ f \in Files /\ disk \in Disks /\ Head0(f) \in Nat /\ done \in Nat
  BY <1>1, QuietFacts
<1>3. ReadSoFar BY <1>1 DEF Working, DataInv
<1>4. want \in Nat /\ done <= want BY DEF Working, IInv, TypeOK, CallInv
<1>5. f.cache_idx < CacheSize /\ f.cache_valid = Clamp(f.file_size - f.cache_pos) /\ Block(f)
  BY <1>2 DEF Quiet, Sound
<1>6. /\ f.cache_pos \in Nat /\ f.cache_idx \in Nat /\ f.cache_valid \in 0 .. CacheSize
      /\ f.file_size \in Nat /\ f.file_size <= MaxSize
  BY <1>2 DEF Files
<1> QED BY <1>1, <1>2, <1>3, <1>4, <1>5, <1>6 DEF Head0

\* The bytes between the offset the read began at and the one k bytes on.
ReadRun(k) == [i \in 1 .. k |-> Contents(f, disk).data[Head0(f) - done + i - 1]]

\* The bytes of a run inside the file.
LEMMA ReadRunSeq ==
  ASSUME Working, op = "read", NEW k \in Nat, k = 0 \/ Head0(f) - done + k <= f.file_size
  PROVE  ReadRun(k) \in [1 .. k -> Bytes] /\ Len(ReadRun(k)) = k
<1> MaxSize \in Nat BY MaxSizeAssumption
<1>1. /\ done \in Nat /\ Head0(f) \in Nat /\ f.file_size \in Nat /\ f.file_size <= MaxSize
      /\ done <= Head0(f) /\ Sound(f, disk)
  BY ReadTypes DEF ReadSoFar
<1>2. ASSUME NEW i \in 1 .. k PROVE Contents(f, disk).data[Head0(f) - done + i - 1] \in Bytes
  <2>1. Head0(f) - done + i - 1 \in Offsets BY <1>1 DEF Offsets
  <2> QED BY <1>1, <2>1, ContentsBytes
<1>3. ReadRun(k) \in [1 .. k -> Bytes] BY <1>2 DEF ReadRun
<1> QED BY <1>3, RunIsSeq

\* A level copies the bytes that follow the ones already copied.
LEMMA CopiedFacts ==
  ASSUME Working, op = "read", Head0(f) < f.file_size
  PROVE  /\ readable_bytes \in Nat /\ readable_bytes <= want - done
         /\ f.cache_idx + readable_bytes <= CacheSize
         /\ Head0(f) + readable_bytes <= f.file_size
         /\ Copied = ReadRun(done + readable_bytes)
         /\ \/ readable_bytes = want - done
            \/ Head0(f) + readable_bytes = f.file_size
            \/ f.cache_idx + readable_bytes = CacheSize
<1> MaxSize \in Nat BY MaxSizeAssumption
<1>0. /\ done \in Nat /\ want \in Nat /\ done <= want /\ Head0(f) \in Nat
      /\ Head0(f) = f.cache_pos + f.cache_idx /\ f.cache_pos \in Nat /\ f.cache_idx \in Nat
      /\ f.cache_idx < CacheSize /\ f.cache_valid \in 0 .. CacheSize
      /\ f.file_size \in Nat /\ f.file_size <= MaxSize
      /\ f.cache_valid = Clamp(f.file_size - f.cache_pos)
      /\ done <= Head0(f) /\ Sound(f, disk) /\ f \in Files
      /\ buff = ReadRun(done)
  BY ReadTypes DEF ReadSoFar, ReadRun
<1> DEFINE r == readable_bytes
<1>1. f.cache_idx < f.cache_valid /\ f.cache_pos + f.cache_valid <= f.file_size
      /\ (f.cache_valid = CacheSize \/ f.cache_pos + f.cache_valid = f.file_size)
  BY <1>0 DEF Clamp, max, min
<1>2. r = min(want - done, min(CacheSize - f.cache_idx, f.cache_valid - f.cache_idx))
  BY <1>1 DEF readable_bytes
<1> HIDE DEF r
<1>3. /\ r \in Nat /\ r <= want - done /\ f.cache_idx + r <= f.cache_valid
      /\ (r = want - done \/ f.cache_idx + r = f.cache_valid)
  BY <1>0, <1>1, <1>2 DEF min
<1>4. f.cache_idx + r <= CacheSize /\ Head0(f) + r <= f.file_size BY <1>0, <1>1, <1>3
<1>5. r = want - done \/ Head0(f) + r = f.file_size \/ f.cache_idx + r = CacheSize
  BY <1>0, <1>1, <1>3
<1> DEFINE b == [i \in 1 .. r |-> f.cache[f.cache_idx + i - 1]]
<1>6. ASSUME NEW i \in 1 .. r
      PROVE  /\ b[i] = ReadRun(done + r)[done + i] /\ b[i] \in Bytes
  <2>1. done + i \in 1 .. done + r /\ Head0(f) - done + (done + i) - 1 = Head0(f) + i - 1 BY <1>0, <1>3
  <2>2. ReadRun(done + r)[done + i] = Contents(f, disk).data[Head0(f) + i - 1] BY <2>1 DEF ReadRun
  <2>3. Head0(f) + i - 1 \in Offsets /\ Head0(f) + i - 1 < f.file_size BY <1>0, <1>3, <1>4 DEF Offsets
  <2>4. Contents(f, disk).data[Head0(f) + i - 1] = View(f, disk, Head0(f) + i - 1)
    BY <2>3, ContentsFacts
  <2>5. /\ Head0(f) + i - 1 >= f.cache_pos /\ Head0(f) + i - 1 < f.cache_pos + f.cache_valid
        /\ Head0(f) + i - 1 - f.cache_pos = f.cache_idx + i - 1
    BY <1>0, <1>3
  <2>6. View(f, disk, Head0(f) + i - 1) = f.cache[f.cache_idx + i - 1]
    <3>1. PICK j : j = Head0(f) + i - 1 OBVIOUS
    <3>2. View(f, disk, j) = f.cache[j - f.cache_pos] BY <2>5, <3>1 DEF View
    <3>3. j - f.cache_pos = f.cache_idx + i - 1 BY <1>0, <3>1
    <3> QED BY <3>1, <3>2, <3>3, Zenon
  <2>7. f.cache_idx + i - 1 \in Slots BY <1>0, <1>3, <1>4 DEF Slots
  <2> QED BY <1>0, <2>2, <2>4, <2>6, <2>7 DEF Files
<1>7. b \in [1 .. r -> Bytes] BY <1>6
<1>8. ReadRun(done + r) \in [1 .. done + r -> Bytes]
  <2>1. done + r \in Nat /\ Head0(f) - done + (done + r) <= f.file_size BY <1>0, <1>3, <1>4
  <2> QED BY <2>1, ReadRunSeq
<1>9. \A i \in 1 .. done : i \in 1 .. done + r BY <1>0, <1>3
<1>10. \A i \in 1 .. done : ReadRun(done)[i] = ReadRun(done + r)[i] BY <1>9 DEF ReadRun
<1>11. ReadRun(done) \in [1 .. done -> Bytes]
  <2>1. Head0(f) - done + done <= f.file_size BY <1>0
  <2> QED BY <1>0, <2>1, ReadRunSeq
<1>12. buff \o b = ReadRun(done + r)
  <2> HIDE DEF b
  <2>1. \A i \in 1 .. r : b[i] = ReadRun(done + r)[done + i] BY <1>6
  <2>2. Follows(buff, done, b, r, ReadRun(done + r))
    BY <1>0, <1>3, <1>7, <1>8, <1>10, <1>11, <2>1 DEF Follows
  <2> QED BY <2>2, ConcatRun
<1>13. Copied = buff \o b BY DEF Copied, b, r
<1> QED BY <1>3, <1>4, <1>5, <1>12, <1>13 DEF r

\* A read that returns the k bytes the array has for it, and moves the offset
\* behind them, is a read of the array.
LEMMA ReadReturns ==
  ASSUME Working, op = "read", NEW k \in Nat, Returns("read", ReadRun(k)), mode' = mode,
         Quiet(f', disk', mode'), Contents(f', disk') = Contents(f, disk),
         Head0(f') = (Head0(f) - done) + k,
         IF Head0(f) - done >= f.file_size THEN k = 0
         ELSE k = Abstract!Smaller(want, f.file_size - (Head0(f) - done))
  PROVE  DataInv' /\ BarStep
<1> MaxSize \in Nat BY MaxSizeAssumption
<1>0. /\ mode # "closed" /\ mode \in use.modes /\ use \in Uses /\ ~use.errors /\ use' = use
      /\ contentBar = Contents(f, disk) /\ posBar = Head0(f) - done
      /\ done \in Nat /\ want \in Nat /\ Head0(f) \in Nat /\ f.file_size \in Nat
      /\ want \in use.reads /\ done <= Head0(f)
  BY ReadTypes DEF ReadSoFar
<1>1. DataInv' /\ contentBar' = Contents(f', disk') /\ posBar' = Head0(f')
  BY <1>0, ReturnsData
<1>2. contentBar.size = f.file_size BY <1>0, ContentsFacts
<1>3. Abstract!ReadAt(contentBar, posBar, want) = ReadRun(k)
  <2>1. CASE posBar >= f.file_size
    <3>1. Abstract!ReadAt(contentBar, posBar, want) = <<>> BY <1>2, <2>1 DEF Abstract!ReadAt
    <3>2. k = 0 BY <1>0, <2>1
    <3>3. ReadRun(0) = <<>> BY DEF ReadRun
    <3> QED BY <3>1, <3>2, <3>3
  <2>2. CASE ~(posBar >= f.file_size)
    <3>1. k = Abstract!Smaller(want, f.file_size - posBar) BY <1>0, <2>2
    <3>2. Abstract!ReadAt(contentBar, posBar, want)
            = [i \in 1 .. Abstract!Smaller(want, f.file_size - posBar) |-> contentBar.data[posBar + i - 1]]
      BY <1>2, <2>2 DEF Abstract!ReadAt
    <3>3. [i \in 1 .. k |-> contentBar.data[posBar + i - 1]] = ReadRun(k) BY <1>0 DEF ReadRun
    <3> QED BY <3>1, <3>2, <3>3
  <2> QED BY <2>1, <2>2
<1>4. Len(ReadRun(k)) = k
  <2>1. k = 0 \/ Head0(f) - done + k <= f.file_size BY <1>0 DEF Abstract!Smaller
  <2> QED BY <2>1, ReadRunSeq
<1>5. posBar' = posBar + Len(Abstract!ReadAt(contentBar, posBar, want)) BY <1>0, <1>1, <1>3, <1>4
<1>6. op' = "idle" /\ ret' = <<"read", Abstract!ReadAt(contentBar, posBar, want)>> BY <1>3 DEF Returns
<1>7. want \in UNION {u.reads : u \in Uses} BY <1>0
<1>8. Abstract!Read BY <1>0, <1>1, <1>5, <1>6, <1>7 DEF Abstract!Read
<1> QED BY <1>1, <1>8 DEF BarStep, Abstract!Next

\* At the end of the file a read returns what it has.
LEMMA ReadEofBar == ASSUME Working, ReadEof PROVE DataInv' /\ BarStep
<1>0. /\ op = "read" /\ Head0(f) >= f.file_size /\ Returns("read", buff) /\ f' = f /\ disk' = disk
      /\ mode' = mode
  BY DEF ReadEof
<1>1. /\ done \in Nat /\ want \in Nat /\ done <= want /\ Head0(f) \in Nat /\ f.file_size \in Nat
      /\ Quiet(f, disk, mode) /\ buff = ReadRun(done) /\ done <= Head0(f)
      /\ (done > 0 => Head0(f) <= f.file_size)
  BY <1>0, ReadTypes DEF ReadSoFar, ReadRun
<1>2. Head0(f') = (Head0(f) - done) + done BY <1>0, <1>1
<1>3. IF Head0(f) - done >= f.file_size THEN done = 0
      ELSE done = Abstract!Smaller(want, f.file_size - (Head0(f) - done))
  BY <1>0, <1>1 DEF Abstract!Smaller
<1>4. Returns("read", ReadRun(done)) BY <1>0, <1>1
<1>5. Quiet(f', disk', mode') /\ Contents(f', disk') = Contents(f, disk) BY <1>0, <1>1
<1> QED BY <1>0, <1>1, <1>2, <1>3, <1>4, <1>5, ReadReturns

\* The last level returns what is left of the request, or of the file.
LEMMA ReadLastBar == ASSUME Working, ReadLast PROVE DataInv' /\ BarStep
<1> MaxSize \in Nat BY MaxSizeAssumption
<1>0. /\ op = "read" /\ Head0(f) < f.file_size /\ mode' = mode
      /\ readable_bytes = want - done \/ Head0(f) + readable_bytes = f.file_size
  BY DEF ReadLast
<1>1. /\ done \in Nat /\ want \in Nat /\ done <= want /\ Head0(f) \in Nat /\ f.file_size \in Nat
      /\ Quiet(f, disk, mode) /\ Sound(f, disk) /\ Block(f) /\ f \in Files /\ ~use.errors
      /\ done <= Head0(f) /\ Head0(f) = f.cache_pos + f.cache_idx
      /\ f.cache_pos \in Nat /\ f.cache_idx \in Nat
  BY <1>0, ReadTypes DEF ReadSoFar
<1>a. PICK r : r = readable_bytes OBVIOUS
<1>2. /\ r \in Nat /\ r <= want - done /\ f.cache_idx + r <= CacheSize /\ Head0(f) + r <= f.file_size
      /\ Copied = ReadRun(done + r)
  BY <1>0, <1>a, CopiedFacts
<1>3. PICK g : g = [f EXCEPT !.cache_idx = @ + r] OBVIOUS
<1>4. /\ g \in Files /\ SameBytes(f, g) /\ g.cache_idx = f.cache_idx + r /\ g.file_size = f.file_size
      /\ g.cache_pos = f.cache_pos
  <2>1. f.cache_idx + r \in 0 .. CacheSize BY <1>1, <1>2
  <2> QED BY <1>1, <1>3, <2>1 DEF Files, SameBytes
<1>5. Block(g) BY <1>1, <1>4 DEF Block, SameBytes
<1>6. /\ Sound(g, disk) /\ TrueSize(g, disk) = TrueSize(f, disk)
      /\ \A i \in Offsets : View(g, disk, i) = View(f, disk, i)
  BY <1>1, <1>4, <1>5, SameBlockView
<1>7. g.file_size = TrueSize(g, disk) /\ (mode = "READ" => ~g.is_dirty)
  BY <1>1, <1>4, <1>6 DEF Quiet, SameBytes
<1>8. /\ Returns("read", Copied) /\ Quiet(f', disk', mode')
      /\ Contents(f', disk') = Contents(f, disk) /\ Head0(f') = Head0(f) + r
  <2>1. CASE g.cache_idx = CacheSize
    <3>1. PICK o \in Step(g, disk) :
            /\ f' = o.g /\ disk' = o.d
            /\ IF o.rc < 0 THEN ReadFails ELSE Returns("read", Copied)
      BY <1>3, <1>a, <2>1 DEF ReadLast
    <3>2. g.cache_pos + CacheSize <= MaxSize
      <4>1. f.cache_pos < f.file_size BY <1>0, <1>1
      <4> QED BY <1>1, <1>4, <4>1, BlockInBound
    <3>3. /\ ~(o.rc < 0) /\ SeesTheSame(g, disk, o.g, o.d)
          /\ o.g.cache_pos = g.cache_pos + CacheSize /\ o.g.cache_idx = 0
      BY <1>1, <1>6, <1>7, <3>2, StepView
    <3>4. Quiet(o.g, o.d, mode) BY <3>3 DEF Quiet, SeesTheSame
    <3>5. Contents(o.g, o.d) = Contents(f, disk)
      <4>1. o.g.file_size = f.file_size /\ \A i \in Offsets : View(o.g, o.d, i) = View(f, disk, i)
        BY <1>4, <1>6, <3>3 DEF SeesTheSame
      <4> QED BY <4>1, SameContents
    <3>6. Head0(o.g) = Head0(f) + r
      <4>1. Head0(o.g) = f.cache_pos + CacheSize + 0 BY <1>4, <3>3 DEF Head0
      <4> QED BY <1>1, <1>2, <1>4, <2>1, <4>1
    <3> QED BY <1>0, <3>1, <3>3, <3>4, <3>5, <3>6
  <2>2. CASE g.cache_idx # CacheSize
    <3>1. f' = g /\ disk' = disk /\ Returns("read", Copied) BY <1>3, <1>a, <2>2 DEF ReadLast
    <3>2. g.cache_idx < CacheSize BY <1>1, <1>2, <1>4, <2>2
    <3>3. Quiet(g, disk, mode) BY <1>6, <1>7, <3>2 DEF Quiet
    <3>4. Contents(g, disk) = Contents(f, disk) BY <1>4, <1>6, SameContents
    <3>5. Head0(g) = Head0(f) + r BY <1>1, <1>2, <1>4 DEF Head0
    <3> QED BY <1>0, <3>1, <3>3, <3>4, <3>5
  <2> QED BY <2>1, <2>2
<1>9. Head0(f') = (Head0(f) - done) + (done + r) /\ done + r \in Nat BY <1>1, <1>2, <1>8
<1>10. IF Head0(f) - done >= f.file_size THEN done + r = 0
       ELSE done + r = Abstract!Smaller(want, f.file_size - (Head0(f) - done))
  BY <1>0, <1>1, <1>2, <1>a DEF Abstract!Smaller
<1>11. Returns("read", ReadRun(done + r)) BY <1>2, <1>8
<1>12. PICK k \in Nat : k = done + r BY <1>9
<1> QED BY <1>0, <1>8, <1>9, <1>10, <1>11, <1>12, ReadReturns

\* A level that goes on to the next block changes nothing the caller sees.
LEMMA ReadMoreBar == ASSUME Working, ReadMore PROVE DataInv' /\ BarStep
<1> MaxSize \in Nat BY MaxSizeAssumption
<1>0. /\ op = "read" /\ Head0(f) < f.file_size /\ mode' = mode
      /\ ~(readable_bytes = want - done \/ Head0(f) + readable_bytes = f.file_size)
  BY DEF ReadMore
<1>1. /\ done \in Nat /\ want \in Nat /\ Head0(f) \in Nat /\ f.file_size \in Nat
      /\ Quiet(f, disk, mode) /\ Sound(f, disk) /\ Block(f) /\ f \in Files /\ ~use.errors /\ use' = use
      /\ done <= Head0(f) /\ Head0(f) = f.cache_pos + f.cache_idx
      /\ f.cache_pos \in Nat /\ f.cache_idx \in Nat /\ want \in use.reads
      /\ contentBar = Contents(f, disk) /\ posBar = Head0(f) - done
      /\ mode # "closed" /\ mode \in use.modes
  BY <1>0, ReadTypes DEF ReadSoFar
<1>a. PICK r : r = readable_bytes OBVIOUS
<1>2. /\ r \in Nat /\ Head0(f) + r <= f.file_size /\ f.cache_idx + r = CacheSize
      /\ Copied = ReadRun(done + r)
  BY <1>0, <1>a, CopiedFacts
<1>3. PICK o \in Step(f, disk) :
       /\ f' = o.g /\ disk' = o.d
       /\ IF o.rc < 0 THEN ReadFails
          ELSE /\ buff' = Copied
               /\ done' = done + readable_bytes
               /\ UNCHANGED <<op, todo, want, ret>>
  BY DEF ReadMore
<1>4. f.cache_pos + CacheSize <= MaxSize
  <2>1. f.cache_pos < f.file_size BY <1>0, <1>1
  <2> QED BY <1>1, <2>1, BlockInBound
<1>5. /\ ~(o.rc < 0) /\ SeesTheSame(f, disk, o.g, o.d)
      /\ o.g.cache_pos = f.cache_pos + CacheSize /\ o.g.cache_idx = 0
  BY <1>1, <1>4, StepView DEF Quiet
<1>6. /\ buff' = ReadRun(done + r) /\ done' = done + r /\ op' = "read" /\ want' = want /\ ret' = ret
  BY <1>0, <1>2, <1>3, <1>5, <1>a
<1>7. Quiet(f', disk', mode) BY <1>3, <1>5 DEF Quiet, SeesTheSame
<1>8. Contents(f', disk') = Contents(f, disk) /\ f'.file_size = f.file_size
  BY <1>3, <1>5, SameContents DEF SeesTheSame
<1>9. Head0(f') = Head0(f) + r
  <2>1. Head0(f') = f.cache_pos + CacheSize + 0 BY <1>3, <1>5 DEF Head0
  <2> QED BY <1>1, <1>2, <2>1
<1>10. Head0(f') - done' = Head0(f) - done BY <1>1, <1>2, <1>6, <1>9
<1>11. contentBar' = contentBar /\ posBar' = posBar
  <2>1. contentBar' = Contents(f', disk') /\ posBar' = Head0(f') - done'
    BY <1>0, <1>1, <1>6, BarQuietNext
  <2> QED BY <1>1, <1>8, <1>10, <2>1
<1>12. BarStep BY <1>0, <1>1, <1>6, <1>11, BarStutter
<1>13. Quiet(f, disk, mode)' BY <1>0, <1>7 DEF Quiet, Sound, Block, Aligned, Zeroed, TrueSize, Coherent
<1>14. Zeroed(disk)' BY <1>13 DEF Quiet, Sound
<1>15. ReadSoFar'
  <2>1. (Contents(f, disk))' = Contents(f', disk') /\ Head0(f)' = Head0(f')
    BY DEF Contents, View, Head0
  <2>2. done' <= Head0(f') /\ Head0(f') <= f'.file_size BY <1>1, <1>2, <1>6, <1>8, <1>9
  <2>3. buff' = [i \in 1 .. done' |-> Contents(f', disk').data[Head0(f') - done' + i - 1]]
    BY <1>6, <1>8, <1>10 DEF ReadRun
  <2> QED BY <1>1, <1>6, <2>1, <2>2, <2>3 DEF ReadSoFar
<1>16. DataInv' BY <1>0, <1>1, <1>6, <1>13, <1>14, <1>15 DEF DataInv
<1> QED BY <1>12, <1>16

\* Every step of the cached file keeps the bytes together and is a step of
\* ByteFile, or none.
LEMMA NextBar == IInv /\ DataInv /\ WorkingUses /\ [Next]_vars => DataInv' /\ BarStep
<1> SUFFICES ASSUME IInv, DataInv, WorkingUses, [Next]_vars PROVE DataInv' /\ BarStep OBVIOUS
<1>1. CASE UNCHANGED vars
  <2>1. UNCHANGED <<use, disk, f, mode, op, todo, want, buff, done, ret>> BY <1>1 DEF vars
  <2>2. DataInv'
    BY <2>1 DEF DataInv, Zeroed, Quiet, Sound, Block, Aligned, TrueSize, Coherent, Writing, ReadSoFar,
                Contents, View, Head0, Rest
  <2>3. contentBar' = contentBar /\ posBar' = posBar BY <2>1 DEF contentBar, posBar, Visible, Head0
  <2> QED BY <2>1, <2>2, <2>3, BarStutter
<1>2. CASE Next
  <2>0. use' = use /\ use \in Uses BY <1>2 DEF Next, IInv, TypeOK
  <2>1. CASE use.errors BY <2>0, <2>1 DEF DataInv, BarStep
  <2>2. CASE ~use.errors
    <3>0. Working BY <2>0, <2>2 DEF Working
    <3>a. use.size \in Nat /\ use.size > 0
      <4> MaxSize \in Nat BY MaxSizeAssumption
      <4> QED BY <2>0, UsesAssumption
    <3>1. CASE io300_open BY <3>0, <3>1, OpenBar
    <3>2. CASE io300_close BY <3>0, <3>2, CloseBar
    <3>3. CASE io300_filesize BY <3>0, <3>3, FilesizeBar
    <3>4. ASSUME NEW p \in 0 .. use.size - 1, io300_seek(p) PROVE DataInv' /\ BarStep
      <4>1. p \in Int /\ p < use.size BY <3>a
      <4> QED BY <3>0, <3>4, <4>1, SeekBar
    <3>5. CASE io300_seek(-1)
      <4>1. -1 \in Int /\ -1 < use.size BY <3>a
      <4> QED BY <3>0, <3>5, <4>1, SeekBar
    <3>6. CASE \E n \in use.reads : CallRead(n) BY <3>0, <3>6, CallReadBar
    <3>7. CASE \E s \in use.writes : CallWrite(s) BY <3>0, <3>7, CallWriteBar
    <3>8. CASE Level BY <3>0, <3>8, ReadEofBar, ReadLastBar, ReadMoreBar, HoleNeverFails, WriteLevelBar DEF Level
    <3> QED BY <1>2, <3>1, <3>2, <3>3, <3>4, <3>5, <3>6, <3>7, <3>8 DEF Next
  <2> QED BY <2>1, <2>2
<1> QED BY <1>1, <1>2

\* On a disk that works the cached file implements ByteFile, for every block size
\* and every size of the file: reads return the bytes of the array, writes
\* change it, and close() leaves it on disk, whichever blocks the calls cross.
THEOREM CachedFileIsAFile == ASSUME WorkingUses PROVE Spec => ImplementsFile
<1>1. Init => (use.errors \/ Abstract!Init) /\ IInv /\ DataInv BY InitBar, InitIInv
<1>2. IInv /\ DataInv /\ [Next]_vars => DataInv' /\ [use.errors \/ Abstract!Next]_(Abstract!vars)
  BY NextBar DEF BarStep
<1> QED BY <1>1, <1>2, NextIInv, PTL DEF Spec, ImplementsFile

=============================================================================
