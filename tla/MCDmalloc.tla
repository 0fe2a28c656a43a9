----------------------------- MODULE MCDmalloc -----------------------------
(* Instances of Dmalloc for TLC. *)
EXTENDS Dmalloc

\* An empty block, one with room for a header, and the two sizes at the edge of
\* the test for overflow.
MCSizes == {0, 8, SizeMax - hdr_sz - ftr_sz, SizeMax - hdr_sz}

\* A product that fits, and one that wraps around to a small number.
MCCallocs == {<<1, 1>>, <<2, (SizeMax + 1) \div 2>>}
=============================================================================
