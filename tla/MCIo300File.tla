---------------------------- MODULE MCIo300File ----------------------------
(* Instances of Io300File for TLC. *)
EXTENDS Io300File

\* A disk that works, with one byte, a buffer that fills two blocks of two bytes,
\* and one longer; and a disk that fails, with a file that may be read only.
MCUses ==
  { [bytes |-> {0, 1, 2}, size |-> 6, modes |-> {"WRITE", "RDWR"}, errors |-> FALSE,
     writes |-> {<<1>>, <<2, 1, 2>>}, reads |-> {0, 1, 5}],
    [bytes |-> {0, 1}, size |-> 4, modes |-> {"READ", "RDWR"}, errors |-> TRUE,
     writes |-> {<<>>, <<1>>}, reads |-> {3}] }
=============================================================================
