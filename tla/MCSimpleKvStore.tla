-------------------------- MODULE MCSimpleKvStore --------------------------
(* Instances of SimpleKvStore for TLC. *)
EXTENDS SimpleKvStore

CONSTANTS k1, k2, a, b

Rq(op, ks, vs) == [op |-> op, keys |-> ks, values |-> vs]

MCRequests ==
  { Rq("Get", <<k1>>, <<>>), Rq("Put", <<k1>>, << <<a>> >>),
    Rq("Append", <<k1>>, << <<b>> >>), Rq("Delete", <<k2>>, <<>>),
    Rq("MultiGet", <<k2, k1>>, <<>>), Rq("MultiPut", <<k1, k2>>, << <<b>>, <<b>> >>),
    Rq("MultiPut", <<k1, k1, k2>>, << <<a>>, <<b>>, <<a>> >>),
    Rq("MultiPut", <<k1, k1>>, << <<a>> >>), Rq("AllKeys", <<>>, <<>>) }
=============================================================================
