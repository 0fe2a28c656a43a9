----------------------------- MODULE Io300File -----------------------------
(***************************************************************************)
(* The cached file of fileio/impl/student.c: one block of CACHE_SIZE bytes *)
(* in memory, read with fetch() and written back with flush().             *)
(*                                                                         *)
(* f is the struct io300_file, disk the file behind the descriptor.        *)
(* io300_read and io300_write call themselves for what does not fit into   *)
(* the block: each level of the recursion is a step, and the bytes of the  *)
(* finished levels are counted in done.  The system calls are modelled     *)
(* from how student.c uses them; their failures are outcomes of flush,     *)
(* fetch and the write that fills a hole.                                  *)
(***************************************************************************)
EXTENDS Integers, Sequences

CONSTANTS Bytes,      \* the values of a byte, 0 among them
          CacheSize,  \* CACHE_SIZE
          MaxSize,    \* bound: bytes in the file
          Uses        \* the ways the file is used: a set of records of
                      \*   bytes, size  - the values in use, a bound on the size
                      \*   modes        - the modes io300_open is called with
                      \*   writes       - the buffers io300_write is called with
                      \*   reads        - the sizes io300_read is called with
                      \*   errors       - may read() and write() fail, or write less

ASSUME CacheSizeAssumption == CacheSize \in Nat \ {0}
ASSUME MaxSizeAssumption == MaxSize \in Nat /\ MaxSize % CacheSize = 0
ASSUME BytesAssumption == 0 \in Bytes
ASSUME UsesAssumption ==
  \A u \in Uses :
    /\ u.bytes \subseteq Bytes /\ u.size \in 1 .. MaxSize /\ u.errors \in BOOLEAN
    /\ u.writes \subseteq Seq(u.bytes) /\ u.reads \subseteq Nat
    /\ \A s \in u.writes : Len(s) <= u.size
    /\ u.modes \subseteq {"READ", "WRITE", "RDWR"}

Offsets == 0 .. MaxSize - 1
Slots   == 0 .. CacheSize - 1

min(a, b) == IF a < b THEN a ELSE b
max(a, b) == IF a > b THEN a ELSE b

VARIABLES use,    \* the way the file is used in this behaviour
          disk,   \* [size : Nat, data : [Offsets -> Bytes]], zero behind size
          f,      \* the struct io300_file
          mode,   \* the mode the file is open in, "closed" when it is not
          op,     \* the call in progress: "idle", "read", "write"
          todo,   \* the buffer of the write in progress
          want,   \* the size of the read in progress
          buff,   \* the bytes the read in progress has copied out
          done,   \* bytes moved by the finished levels of the recursion
          ret     \* what the last call that returned has returned

vars == <<use, disk, f, mode, op, todo, want, buff, done, ret>>

Head0(g) == g.cache_pos + g.cache_idx      \* the file offset

-----------------------------------------------------------------------------
(* The file on disk *)

\* write(): n bytes of src go to offset p; a gap behind the old end reads as zero.
WriteAt(d, p, src, n) ==
  [size |-> IF n = 0 THEN d.size ELSE max(d.size, p + n),
   data |-> [i \in Offsets |-> IF i >= p /\ i < p + n THEN src[i - p] ELSE d.data[i]]]

Zeros == [i \in Offsets |-> 0]
EmptyDisk == [size |-> 0, data |-> Zeros]
Stored(s) == WriteAt(EmptyDisk, 0, [i \in Slots \cup Offsets |-> IF i < Len(s) THEN s[i + 1] ELSE 0], Len(s))

-----------------------------------------------------------------------------
(* flush and fetch: the set of their outcomes *)

\* A dirty block is written up to cache_valid and is clean then.  write() fails
\* on a descriptor that is open for reading, and may fail after some bytes: the
\* block stays dirty.
flush(g, d) ==
  IF ~g.is_dirty THEN {[g |-> g, d |-> d, rc |-> 0]}
  ELSE { [g  |-> IF n = g.cache_valid THEN [g EXCEPT !.is_dirty = FALSE] ELSE g,
          d  |-> WriteAt(d, g.cache_pos, g.cache, n),
          rc |-> IF n = g.cache_valid THEN 0 ELSE -1] :
         n \in {k \in 0 .. g.cache_valid :
                  \/ mode # "READ" /\ (k = g.cache_valid \/ use.errors)
                  \/ mode = "READ" /\ k = 0} }

\* The block at cache_pos is read; behind what read() returns the cache keeps
\* its old bytes.  When read() fails cache and cache_valid stay as they are.
fetch(g, d) ==
  IF g.cache_pos >= g.file_size
  THEN {[g |-> [g EXCEPT !.cache_valid = 0], rc |-> 0]}
  ELSE LET n == max(0, min(CacheSize, d.size - g.cache_pos)) IN
       {[g |-> [g EXCEPT !.cache = [i \in Slots |-> IF i < n THEN d.data[g.cache_pos + i] ELSE @[i]],
                         !.cache_valid = n],
         rc |-> n]}
       \cup {[g |-> g, rc |-> -1] : e \in {TRUE} \cap {use.errors}}

\* The block that follows.
Advance(g) == [g EXCEPT !.cache_pos = @ + CacheSize, !.cache_idx = 0]

-----------------------------------------------------------------------------
(* The calls *)

Init ==
  /\ use \in Uses
  /\ disk \in {Stored(s) : s \in use.writes \cup {<<>>}}
  /\ f = [cache |-> [i \in Slots |-> 0], cache_pos |-> 0, cache_idx |-> 0, cache_valid |-> 0,
          is_dirty |-> FALSE, file_size |-> 0]
  /\ mode = "closed" /\ op = "idle" /\ todo = <<>> /\ want = 0 /\ buff = <<>> /\ done = 0
  /\ ret = <<"none", 0>>

Idle == op = "idle" /\ mode # "closed"

Returns(call, value) ==
  /\ op' = "idle"
  /\ ret' = <<call, value>>
  /\ todo' = <<>> /\ want' = 0 /\ buff' = <<>> /\ done' = 0

\* io300_open: MODE_WRITE truncates the file; the cache is whatever malloc
\* returned until the first block is fetched.
io300_open ==
  /\ mode = "closed"
  /\ \E m \in use.modes, junk \in [Slots -> use.bytes] :
       /\ disk' = IF m = "WRITE" THEN EmptyDisk ELSE disk
       /\ \E o \in fetch([cache |-> junk, cache_pos |-> 0, cache_idx |-> 0,
                          cache_valid |-> min(disk'.size, CacheSize), is_dirty |-> FALSE,
                          file_size |-> disk'.size], disk') :
            IF o.rc < 0 THEN UNCHANGED <<f, mode>> ELSE f' = o.g /\ mode' = m
  /\ UNCHANGED <<op, todo, want, buff, done, ret>>

\* Mutant of seekTo: the block starts at the offset itself.
seekUnaligned(g, d, p) ==
  UNION { { [g |-> o.g, d |-> w.d] :
            o \in fetch([w.g EXCEPT !.cache_pos = p, !.cache_idx = 0], w.d) } :
          w \in flush(g, d) }

\* The block is written back and the block of offset p takes its place; the
\* results of flush and fetch are not looked at.
seekTo(g, d, p) ==
  UNION { { [g |-> o.g, d |-> w.d] :
            o \in fetch([w.g EXCEPT !.cache_pos = p - (p % CacheSize), !.cache_idx = p % CacheSize], w.d) } :
          w \in flush(g, d) }

io300_seek(p) ==
  /\ Idle
  /\ Returns("seek", IF p < 0 THEN -1 ELSE p)
  /\ CASE p < 0 -> UNCHANGED <<f, disk>>
       [] p >= f.cache_pos /\ p < f.cache_pos + CacheSize ->
            f' = [f EXCEPT !.cache_idx = p - f.cache_pos] /\ UNCHANGED disk
       [] OTHER -> \E o \in seekTo(f, disk, p) : f' = o.g /\ disk' = o.d
  /\ UNCHANGED mode

\* io300_close ignores what flush returns.
io300_close ==
  /\ Idle
  /\ \E w \in flush(f, disk) : f' = w.g /\ disk' = w.d
  /\ mode' = "closed"
  /\ Returns("close", 0)

\* fstat() sees the file on disk.
io300_filesize ==
  /\ Idle
  /\ Returns("filesize", disk.size)
  /\ UNCHANGED <<disk, f, mode>>

-----------------------------------------------------------------------------
(* io300_read *)

CallRead(n) ==
  /\ Idle
  /\ op' = "read" /\ want' = n
  /\ UNCHANGED <<disk, f, mode, todo, buff, done, ret>>

\* flush, the next block, fetch: r is the negative result of one that failed.
Step(g, d) ==
  UNION { IF w.rc < 0 THEN {[g |-> w.g, d |-> w.d, rc |-> -1]}
          ELSE {[g |-> o.g, d |-> w.d, rc |-> o.rc] : o \in fetch(Advance(w.g), w.d)} :
          w \in flush(g, d) }

readable_bytes ==
  min(want - done,
      min(CacheSize - f.cache_idx,
          IF f.cache_idx < f.cache_valid THEN f.cache_valid - f.cache_idx ELSE 0))

Copied == buff \o [i \in 1 .. readable_bytes |-> f.cache[f.cache_idx + i - 1]]

\* The result of a level that fails: -1 plus the bytes of the levels above.
ReadFails == Returns("read", <<"error", done - 1>>)

ReadEof ==
  /\ op = "read"
  /\ Head0(f) >= f.file_size
  /\ Returns("read", buff)
  /\ UNCHANGED <<disk, f, mode>>

\* The last level: everything requested has been read, or the end of the file
\* is reached; a block that is used up is replaced.
ReadLast ==
  /\ op = "read"
  /\ Head0(f) < f.file_size
  /\ readable_bytes = want - done \/ Head0(f) + readable_bytes = f.file_size
  /\ LET g == [f EXCEPT !.cache_idx = @ + readable_bytes] IN
       IF g.cache_idx = CacheSize
       THEN \E o \in Step(g, disk) :
              /\ f' = o.g /\ disk' = o.d
              /\ IF o.rc < 0 THEN ReadFails ELSE Returns("read", Copied)
       ELSE f' = g /\ UNCHANGED disk /\ Returns("read", Copied)
  /\ UNCHANGED mode

\* Mutant of ReadMore: the next level reads the same block again.
ReadAgain ==
  /\ op = "read"
  /\ Head0(f) < f.file_size
  /\ ~(readable_bytes = want - done \/ Head0(f) + readable_bytes = f.file_size)
  /\ UNCHANGED <<disk, f, mode, op, todo, want, buff, done, ret>>

\* A level that reads the rest of its block and calls io300_read again.
ReadMore ==
  /\ op = "read"
  /\ Head0(f) < f.file_size
  /\ ~(readable_bytes = want - done \/ Head0(f) + readable_bytes = f.file_size)
  /\ \E o \in Step(f, disk) :
       /\ f' = o.g /\ disk' = o.d
       /\ IF o.rc < 0 THEN ReadFails
          ELSE /\ buff' = Copied
               /\ done' = done + readable_bytes
               /\ UNCHANGED <<op, todo, want, ret>>
  /\ UNCHANGED mode

-----------------------------------------------------------------------------
(* io300_write *)

CallWrite(s) ==
  /\ Idle
  /\ Head0(f) + Len(s) <= use.size
  /\ op' = "write" /\ todo' = s
  /\ UNCHANGED <<disk, f, mode, want, buff, done, ret>>

eof_idx == IF f.file_size > f.cache_pos THEN f.file_size - f.cache_pos ELSE 0

\* The zeros between the end of the file and the offset, in the block and, when
\* the end is not in the block, on disk.
FillCache ==
  IF f.cache_idx > eof_idx
  THEN [f EXCEPT !.cache = [i \in Slots |-> IF i >= eof_idx /\ i < f.cache_idx THEN 0 ELSE @[i]],
                 !.is_dirty = TRUE]
  ELSE f

FillDisk ==
  IF eof_idx > 0 THEN {disk}
  ELSE {WriteAt(disk, f.file_size, [i \in Offsets |-> 0], n) :
          n \in {k \in 0 .. f.cache_pos - f.file_size :
                   mode # "READ" /\ (k = f.cache_pos - f.file_size \/ use.errors)}}

\* Mutant of Fill: the part of the hole that lies in the block is not cleared.
FillKeepsJunk ==
  IF f.file_size >= Head0(f) THEN {[g |-> f, d |-> disk]}
  ELSE {[g |-> [f EXCEPT !.file_size = Head0(f)], d |-> d] : d \in FillDisk}

\* The file with the hole filled, or with no outcome when write() must fail.
Fill ==
  IF f.file_size >= Head0(f) THEN {[g |-> f, d |-> disk]}
  ELSE {[g |-> [FillCache EXCEPT !.file_size = Head0(f)], d |-> d] : d \in FillDisk}

\* The zeros cannot be written to disk: the level returns -1.
WriteHoleFails ==
  /\ op = "write"
  /\ f.file_size < Head0(f)
  /\ eof_idx = 0
  /\ mode = "READ" \/ use.errors
  /\ f' = FillCache
  /\ Returns("write", done - 1)
  /\ UNCHANGED <<disk, mode>>

\* One level: it copies what fits into the block, counts the whole request into
\* file_size, and replaces a block that is full; then it returns or calls
\* io300_write for the rest.  What flush and fetch return is not looked at.
WriteLevel ==
  /\ op = "write"
  /\ \E h \in Fill :
       LET g  == h.g
           sz == Len(todo) - done
           writable_bytes == min(sz, CacheSize - g.cache_idx)
           end == g.cache_idx + writable_bytes
           g1 == [g EXCEPT
                    !.cache = [i \in Slots |-> IF i >= g.cache_idx /\ i < end
                                               THEN todo[done + i - g.cache_idx + 1] ELSE @[i]],
                    !.is_dirty = @ \/ writable_bytes > 0,
                    !.cache_valid = IF writable_bytes > 0 THEN max(@, end) ELSE @,
                    !.file_size = max(@, Head0(g) + sz)]
       IN  /\ IF end = CacheSize
              THEN \E w \in flush(g1, h.d) :
                     LET g2 == [Advance(w.g) EXCEPT !.cache_valid = 0] IN
                     /\ disk' = w.d
                     /\ IF g2.file_size > g2.cache_pos
                        THEN \E o \in fetch(g2, w.d) : f' = o.g
                        ELSE f' = g2
              ELSE f' = [g1 EXCEPT !.cache_idx = end] /\ disk' = h.d
           /\ IF writable_bytes = sz
              THEN Returns("write", Len(todo))
              ELSE /\ done' = done + writable_bytes
                   /\ UNCHANGED <<op, todo, want, buff, ret>>
  /\ UNCHANGED mode

-----------------------------------------------------------------------------
Level == ReadEof \/ ReadLast \/ ReadMore \/ WriteHoleFails \/ WriteLevel

Next ==
  /\ \/ io300_open
     \/ io300_close
     \/ io300_filesize
     \/ \E p \in 0 .. use.size - 1 : io300_seek(p)
     \/ io300_seek(-1)
     \/ \E n \in use.reads : CallRead(n)
     \/ \E s \in use.writes : CallWrite(s)
     \/ Level
  /\ UNCHANGED use

\* A call that has begun goes on.
Spec == Init /\ [][Next]_vars /\ WF_vars(Level /\ UNCHANGED use)

-----------------------------------------------------------------------------
(* Properties *)

\* The assertions of check_invariants, at every entry of a function, whatever
\* system call has failed: the block is aligned, and neither the offset nor the
\* valid part leaves it.
check_invariants ==
  /\ f.cache_valid <= CacheSize
  /\ f.cache_pos % CacheSize = 0
  /\ f.cache_idx <= CacheSize

\* Every call returns: the recursion of io300_read and io300_write ends, also
\* when blocks cannot be read or written back.
CallsReturn == op # "idle" ~> op = "idle"

-----------------------------------------------------------------------------
(* Refinement of ByteFile *)

\* The file as its user sees it: what the write in progress has still to store,
\* else the cached block, else the disk.
Visible(i) ==
  IF op = "write" /\ i >= Head0(f) /\ i < Head0(f) + Len(todo) - done THEN todo[done + i - Head0(f) + 1]
  ELSE IF i >= f.cache_pos /\ i < f.cache_pos + f.cache_valid THEN f.cache[i - f.cache_pos]
  ELSE disk.data[i]

contentBar ==
  IF mode = "closed" THEN disk
  ELSE LET size == IF op = "write" /\ todo # <<>>
                   THEN max(f.file_size, Head0(f) + Len(todo) - done) ELSE f.file_size
       IN  [size |-> size, data |-> [i \in Offsets |-> IF i < size THEN Visible(i) ELSE 0]]

posBar ==
  CASE mode = "closed" -> 0
    [] op = "write"    -> Head0(f) + Len(todo) - done
    [] op = "read"     -> Head0(f) - done
    [] OTHER           -> Head0(f)

Abstract == INSTANCE ByteFile
              WITH Modes <- UNION {u.modes : u \in Uses}, Writes <- UNION {u.writes : u \in Uses},
                   Reads <- UNION {u.reads : u \in Uses},
                   content <- contentBar, pos <- posBar, isOpen <- mode # "closed",
                   busy <- op = "write", result <- ret

\* On a disk that works the cached file behaves as an array of bytes with an
\* offset: no call sees or leaves anything that depends on the blocks, and close()
\* leaves the array on disk.
ImplementsFile ==
  /\ use.errors \/ Abstract!Init
  /\ [][use.errors \/ Abstract!Next]_(Abstract!vars)
=============================================================================
