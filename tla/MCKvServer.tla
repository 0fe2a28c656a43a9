----------------------------- MODULE MCKvServer -----------------------------
(* Instances of KvServer for TLC. *)
EXTENDS KvServer

CONSTANTS k1, a

Rq(op, ks, vs) == [op |-> op, keys |-> ks, values |-> vs]

\* A request that always succeeds, and one that fails until the other is served.
PutRequests == {Rq("Put", <<k1>>, << <<a>> >>)}
PutGetRequests == PutRequests \cup {Rq("Get", <<k1>>, <<>>)}
=============================================================================
