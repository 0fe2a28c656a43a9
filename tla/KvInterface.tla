---------------------------- MODULE KvInterface ----------------------------
(***************************************************************************)
(* The vocabulary every key-value store of the repository shares: the      *)
(* abstract base class KvStore (kvstore/kvstore/kvstore.hpp) and the       *)
(* request and response structures of kvstore/net/server_commands.hpp.     *)
(*                                                                         *)
(* A stored string is a sequence of chunks, so that Append is the string   *)
(* concatenation of the code; a chunk is whatever one request carries.     *)
(* std::optional<T> is a sequence of length 0 or 1.                        *)
(***************************************************************************)
EXTENDS Integers, Sequences

CONSTANTS Keys,      \* the keys clients use
          Chunks,    \* the pieces that stored strings are made of
          Threads,   \* the threads that call into the store
          Requests,  \* the requests those threads may make
          MaxOps     \* bound: requests each thread makes

Value == Seq(Chunks)

SingleKeyOps == {"Get", "Put", "Append", "Delete"}
ValueOps     == {"Put", "Append"}
Ops          == SingleKeyOps \cup {"MultiGet", "MultiPut", "AllKeys"}

\* The well-formed requests: GetRequest, PutRequest, AppendRequest and
\* DeleteRequest name one key, PutRequest and AppendRequest carry one value,
\* MultiPutRequest carries two vectors that need not have the same length.
IsRequest(r) ==
  /\ r.op \in Ops
  /\ r.keys \in Seq(Keys)
  /\ r.values \in Seq(Value)
  /\ r.op \in SingleKeyOps => Len(r.keys) = 1
  /\ r.op \in ValueOps => Len(r.values) = 1

ASSUME RequestsAssumption ==
  \A r \in Requests : /\ r = [op |-> r.op, keys |-> r.keys, values |-> r.values]
                      /\ IsRequest(r)

ASSUME MaxOpsAssumption == MaxOps \in Nat

\* The response of an operation: its boolean result, the values it copied
\* out, and for AllKeys the keys it listed.
Response == [ok : BOOLEAN, values : Seq(Value), keys : SUBSET Keys]

=============================================================================
