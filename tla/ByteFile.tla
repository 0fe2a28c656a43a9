------------------------------ MODULE ByteFile ------------------------------
(***************************************************************************)
(* What the io300 library promises (fileio/io300.h), whichever of its      *)
(* implementations is linked: an open file is an array of bytes and an     *)
(* offset; a read returns the bytes at the offset that the file has, a     *)
(* write puts its bytes there and fills the gap behind the old end with    *)
(* zeros, and after close() the file on disk is the array.                 *)
(***************************************************************************)
EXTENDS Integers, Sequences

CONSTANTS Bytes, MaxSize, Modes, Writes, Reads

Offsets == 0 .. MaxSize - 1

VARIABLES content,   \* [size : Nat, data : [Offsets -> Bytes]], zero behind size
          pos,       \* the file offset, 0 when the file is closed
          isOpen,
          busy,      \* is a write in progress?
          result     \* what the last call that returned has returned

vars == <<content, pos, isOpen, busy, result>>

Larger(m, n) == IF m >= n THEN m ELSE n
Smaller(m, n) == IF m <= n THEN m ELSE n

Empty == [size |-> 0, data |-> [i \in Offsets |-> 0]]

\* The file after the bytes of s are written at offset p.
Overwrite(file, p, s) ==
  [size |-> IF s = <<>> THEN file.size ELSE Larger(file.size, p + Len(s)),
   data |-> [i \in Offsets |->
               IF i >= p /\ i < p + Len(s) THEN s[i - p + 1] ELSE file.data[i]]]

\* The bytes a read of n bytes at offset p returns.
ReadAt(file, p, n) ==
  IF p >= file.size THEN <<>>
  ELSE [i \in 1 .. Smaller(n, file.size - p) |-> file.data[p + i - 1]]

Open ==
  /\ ~isOpen
  /\ isOpen' = TRUE
  /\ \E m \in Modes : content' = IF m = "WRITE" THEN Empty ELSE content
  /\ pos' = 0
  /\ UNCHANGED <<busy, result>>

Seek ==
  /\ isOpen /\ ~busy
  /\ \E p \in Offsets : pos' = p /\ result' = <<"seek", p>>
  /\ UNCHANGED <<content, isOpen, busy>>

\* A negative offset is refused.
SeekFails ==
  /\ isOpen /\ ~busy
  /\ result' = <<"seek", -1>>
  /\ UNCHANGED <<content, pos, isOpen, busy>>

Read ==
  /\ isOpen /\ ~busy
  /\ \E n \in Reads :
       /\ result' = <<"read", ReadAt(content, pos, n)>>
       /\ pos' = pos + Len(ReadAt(content, pos, n))
  /\ UNCHANGED <<content, isOpen, busy>>

\* The size that is reported need not count what close() has yet to store.
Filesize ==
  /\ isOpen /\ ~busy
  /\ \E n \in 0 .. content.size : result' = <<"filesize", n>>
  /\ UNCHANGED <<content, pos, isOpen, busy>>

\* A write takes effect when it is called and returns later.
BeginWrite ==
  /\ isOpen /\ ~busy
  /\ \E s \in Writes : content' = Overwrite(content, pos, s) /\ pos' = pos + Len(s)
  /\ busy' = TRUE
  /\ UNCHANGED <<isOpen, result>>

EndWrite ==
  /\ busy
  /\ busy' = FALSE
  /\ \E s \in Writes : result' = <<"write", Len(s)>>
  /\ UNCHANGED <<content, pos, isOpen>>

Close ==
  /\ isOpen /\ ~busy
  /\ isOpen' = FALSE
  /\ pos' = 0
  /\ result' = <<"close", 0>>
  /\ UNCHANGED <<content, busy>>

Init ==
  /\ content \in {Overwrite(Empty, 0, s) : s \in Writes \cup {<<>>}}
  /\ pos = 0 /\ isOpen = FALSE /\ busy = FALSE /\ result = <<"none", 0>>

Next == Open \/ Seek \/ SeekFails \/ Read \/ Filesize \/ BeginWrite \/ EndWrite \/ Close

Spec == Init /\ [][Next]_vars
=============================================================================
