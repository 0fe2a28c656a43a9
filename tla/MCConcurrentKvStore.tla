------------------------ MODULE MCConcurrentKvStore ------------------------
(***************************************************************************)
(* Instances of ConcurrentKvStore for TLC.  With three buckets, k0 and z0  *)
(* fall into bucket 0, k1 into bucket 1 and k2 into bucket 2.              *)
(***************************************************************************)
EXTENDS ConcurrentKvStore, TLC

CONSTANTS k0, z0, k1, k2, a, b

MCHasher ==
  [k \in {k0, z0, k1, k2} \cap Keys |->
     CASE k = k0 -> 0 [] k = z0 -> 3 [] k = k1 -> 1 [] k = k2 -> 2]

Rq(op, ks, vs) == [op |-> op, keys |-> ks, values |-> vs]

\* Requests that no MultiPut in bucket 0 and no AllKeys is part of.
SafeRequests ==
  { Rq("Get", <<k1>>, <<>>), Rq("Put", <<k1>>, << <<a>> >>),
    Rq("Append", <<k1>>, << <<b>> >>), Rq("Delete", <<k2>>, <<>>),
    Rq("MultiGet", <<k2, k1>>, <<>>), Rq("MultiPut", <<k1, k2>>, << <<b>>, <<b>> >>),
    Rq("MultiPut", <<k1, k1>>, << <<a>> >>) }

\* Every operation on bucket 0, and a MultiGet and a MultiPut that both need
\* buckets 1 and 2 and name their keys in opposite orders.
AllRequests ==
  { Rq("Get", <<k0>>, <<>>), Rq("Put", <<k0>>, << <<a>> >>), Rq("Append", <<k0>>, << <<b>> >>),
    Rq("Delete", <<k0>>, <<>>), Rq("MultiGet", <<k2, k1, k0>>, <<>>),
    Rq("MultiPut", <<k0, k1, k2>>, << <<b>>, <<b>>, <<b>> >>), Rq("AllKeys", <<>>, <<>>),
    Rq("MultiGet", <<>>, <<>>), Rq("MultiPut", <<>>, <<>>) }

Bucket0Requests ==
  { Rq("MultiGet", <<k0, z0>>, <<>>),
    Rq("MultiPut", <<k0, z0>>, << <<a>>, <<a>> >>),
    Rq("MultiPut", <<k0, z0>>, << <<b>>, <<b>> >>) }

Symmetry == Permutations(Threads)
=============================================================================
