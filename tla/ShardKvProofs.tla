--------------------------- MODULE ShardKvProofs ---------------------------
(***************************************************************************)
(* Proofs about the parts of the sharded key-value store: SimpleKvStore,   *)
(* which a server calls, ShardController, and Shards.                      *)
(*                                                                         *)
(* The simple store, for every set of threads, keys and requests and       *)
(* without a bound on the calls: the inductive invariant says who may be   *)
(* inside an operation (the owner of the mutex, and nobody else), and what *)
(* the loops of MultiGet and MultiPut have done so far.  With it each step *)
(* of the store is a step of AtomicKvStore, or none.                       *)
(*                                                                         *)
(* The controller, for every set of clients: threads and table of          *)
(* connections agree.                                                      *)
(*                                                                         *)
(* The shards, for every alphabet, granularity and number of shards: keys  *)
(* of one length compare as the numbers of their buckets, and the shards   *)
(* stay ranges of buckets, one behind the other.                           *)
(***************************************************************************)
EXTENDS SimpleKvStore, ShardController, Shards, SequenceTheorems, FiniteSetTheorems,
        WellFoundedInduction, TLAPS

OptValue == {<<>>} \cup {<<v>> : v \in Value}

\* The type invariant.
TypeOK ==
  /\ store_ \in [Keys -> OptValue]
  /\ mtx \in SUBSET Threads
  /\ pc \in [Threads -> {"idle", "lock", "body", "loop", "ret"}]
  /\ req \in [Threads -> Requests \cup {<<>>}]
  /\ idx \in [Threads -> Nat]
  /\ res \in [Threads -> Response]
  /\ left \in [Threads -> Int]

\* The thread inside an operation owns the mutex, alone.
OwnerInv == \A t \in Threads : InOperation(t) => mtx = {t}

\* A request is there from the call to the return, and the code that runs is the
\* one of its operation.
CallInv ==
  \A t \in Threads :
    /\ pc[t] # "idle" => req[t] \in Requests
    /\ pc[t] \in {"idle", "lock", "body"} => idx[t] = 0
    /\ pc[t] = "body" => req[t].op \notin {"MultiGet", "MultiPut"}
    /\ pc[t] = "loop" => req[t].op \in {"MultiGet", "MultiPut"} /\ idx[t] <= Len(req[t].keys)

\* The map has the value v for the key k.
Has(k, v) == store_[k] # <<>> /\ store_[k][1] = v

\* MultiGet has copied out the values of the keys it has been through, which nobody
\* has changed since.
GetLoopInv ==
  \A t \in Threads : pc[t] = "loop" /\ req[t].op = "MultiGet" =>
    /\ Len(res[t].values) = idx[t]
    /\ \A i \in 1 .. idx[t] : Has(req[t].keys[i], res[t].values[i])

\* The loop of MultiPut has turned only when the two vectors are as long.
PutLoopInv ==
  \A t \in Threads : Storing(t) => Len(req[t].keys) = Len(req[t].values)

IInv == TypeOK /\ OwnerInv /\ CallInv /\ GetLoopInv /\ PutLoopInv

-----------------------------------------------------------------------------
(* Requests, optional values and positions *)

\* What KvInterface assumes of a request, part by part.
LEMMA RequestFacts ==
  ASSUME NEW r \in Requests
  PROVE  /\ r # <<>>
         /\ r.op \in Ops /\ r.keys \in Seq(Keys) /\ r.values \in Seq(Value)
         /\ r.op \in SingleKeyOps => Len(r.keys) = 1 /\ r.keys[1] \in Keys
         /\ r.op \in ValueOps => r.values = <<r.values[1]>> /\ r.values[1] \in Value
<1>1. IsRequest(r) /\ r = [op |-> r.op, keys |-> r.keys, values |-> r.values]
  BY RequestsAssumption
<1>2. r # <<>>
  <2>1. DOMAIN r = {"op", "keys", "values"}
    BY <1>1
  <2>2. DOMAIN <<>> = {}
    OBVIOUS
  <2> QED
    BY <2>1, <2>2
<1>3. ASSUME r.op \in ValueOps PROVE r.values = <<r.values[1]>> /\ r.values[1] \in Value
  <2>1. r.values \in Seq(Value) /\ Len(r.values) = 1
    BY <1>1, <1>3 DEF IsRequest
  <2>2. r.values[1] \in Value
    BY <2>1
  <2>3. <<r.values[1]>> \in Seq(Value) /\ Len(<<r.values[1]>>) = 1
    BY <2>2
  <2> QED
    BY <2>1, <2>2, <2>3, SeqEqual
<1> QED
  BY <1>1, <1>2, <1>3 DEF IsRequest

\* An optional value is empty or a sequence of one value.
LEMMA OptValueFacts ==
  ASSUME NEW o \in OptValue
  PROVE  o \in Seq(Value) /\ (o # <<>> => o = <<o[1]>> /\ o[1] \in Value)
<1>1. CASE o = <<>>
  BY <1>1
<1>2. ASSUME NEW v \in Value, o = <<v>> PROVE o \in Seq(Value) /\ o = <<o[1]>> /\ o[1] \in Value
  BY <1>2
<1> QED
  BY <1>1, <1>2 DEF OptValue

\* push_back, as a concatenation with one value.
LEMMA PushFacts ==
  ASSUME NEW vs \in Seq(Value), NEW v \in Value
  PROVE  /\ vs \o <<v>> \in Seq(Value) /\ Len(vs \o <<v>>) = Len(vs) + 1
         /\ \A i \in 1 .. Len(vs) : (vs \o <<v>>)[i] = vs[i]
         /\ (vs \o <<v>>)[Len(vs) + 1] = v
  OBVIOUS

\* A set of naturals that is not empty has a least element.
LEMMA LeastOfNat ==
  ASSUME NEW T \in SUBSET Nat, T # {}
  PROVE  \E x \in T : \A y \in T : x <= y
<1> DEFINE R == OpToRel(<, Nat)
<1>1. IsWellFoundedOn(R, Nat)
  BY NatLessThanWellFounded
<1>2. \A x, y \in Nat : y < x => <<y, x>> \in R
  BY DEF OpToRel
<1> HIDE DEF R
<1>3. PICK x \in T : \A y \in T : ~(<<y, x>> \in R)
  BY <1>1, WFMin
<1>4. \A y \in T : ~(y < x) /\ y \in Nat /\ x \in Nat
  BY <1>2, <1>3
<1>5. \A y \in T : x <= y
  BY <1>4
<1> QED
  BY <1>5

\* A set of positions that is not empty has a last one.
LEMMA LastPosition ==
  ASSUME NEW n \in Nat, NEW S \in SUBSET (1 .. n), S # {}
  PROVE  \E x \in S : \A y \in S : y <= x
<1> DEFINE T == {k \in 0 .. n : n - k \in S}
<1>1. PICK s \in S : TRUE
  OBVIOUS
<1>2. s \in 1 .. n /\ n - s \in 0 .. n /\ n - (n - s) = s
  OBVIOUS
<1>3. T \in SUBSET Nat /\ T # {}
  <2>1. n - s \in T
    BY <1>2
  <2>2. T \in SUBSET Nat
    OBVIOUS
  <2> QED
    BY <2>1, <2>2
<1>4. PICK z \in T : \A y \in T : z <= y
  BY <1>3, LeastOfNat
<1>5. n - z \in S /\ z \in 0 .. n
  OBVIOUS
<1>6. ASSUME NEW y \in S PROVE y <= n - z
  <2>1. y \in 1 .. n /\ n - y \in 0 .. n /\ n - (n - y) = y
    OBVIOUS
  <2>2. n - y \in T
    BY <2>1
  <2>3. z <= n - y
    BY <1>4, <2>2
  <2> QED
    BY <1>5, <2>1, <2>3
<1> QED
  BY <1>5, <1>6

-----------------------------------------------------------------------------
(* The invariant *)

\* An empty map, a free mutex and idle threads.
LEMMA InitIInv == ASSUME Init PROVE IInv
<1>1. EmptyResponse \in Response
  BY DEF EmptyResponse, Response
<1>2. TypeOK
  BY <1>1, MaxOpsAssumption DEF Init, TypeOK, OptValue
<1> QED
  BY <1>2 DEF Init, IInv, OwnerInv, CallInv, GetLoopInv, PutLoopInv, InOperation, Storing, Has

\* An operation that ends, with or without unlocking, keeps the invariant, whatever it
\* has stored: its thread was the only one inside.
LEMMA FinishIInv ==
  ASSUME IInv, NEW t \in Threads, InOperation(t), NEW r \in Response, Finish(t, r),
         mtx' = {} \/ mtx' = mtx, store_' \in [Keys -> OptValue], UNCHANGED <<req, idx, left>>
  PROVE  IInv'
<1>1. \A u \in Threads : u # t => ~InOperation(u)
  BY DEF IInv, OwnerInv
<1>2. \A u \in Threads : pc'[u] = IF u = t THEN "ret" ELSE pc[u]
  BY DEF Finish, IInv, TypeOK
<1>3. \A u \in Threads : ~InOperation(u)'
  BY <1>1, <1>2 DEF InOperation
<1>4. TypeOK'
  BY DEF IInv, TypeOK, Finish
<1>5. CallInv'
  BY <1>2, <1>3 DEF IInv, CallInv, InOperation
<1> QED
  BY <1>3, <1>4, <1>5 DEF IInv, OwnerInv, GetLoopInv, PutLoopInv, InOperation, Storing, Has

\* The answers that operations build.
LEMMA ResponseFacts ==
  /\ EmptyResponse \in Response /\ EmptyResponse.values = <<>>
  /\ Fail \in Response
  /\ \A vs \in Seq(Value), ks \in SUBSET Keys : Ok(vs, ks) \in Response /\ Ok(vs, ks).values = vs
  BY DEF EmptyResponse, Fail, Ok, Response

\* Every step of every thread keeps the invariant.
LEMMA NextIInv == ASSUME IInv, [Next]_vars PROVE IInv'
<1>0. /\ \A r \in Requests : r # <<>>
      /\ <<>> \in Seq(Value) /\ OptValue \subseteq Seq(Value)
      /\ {} \in SUBSET Keys
  BY RequestFacts, OptValueFacts
<1> USE DEF IInv, TypeOK, OwnerInv, CallInv, GetLoopInv, PutLoopInv, InOperation, Storing, Has
<1>1. ASSUME NEW t \in Threads, Invoke(t) PROVE IInv'
  <2>1. /\ pc[t] = "idle" /\ pc' = [pc EXCEPT ![t] = "lock"]
        /\ \E r \in Requests : req' = [req EXCEPT ![t] = r]
        /\ UNCHANGED <<store_, mtx, idx, res, left>>
    BY <1>1 DEF Invoke, InvokeWith
  <2>2. pc'[t] = "lock" /\ req'[t] \in Requests /\ idx'[t] = 0
    BY <2>1
  <2>3. \A u \in Threads : u # t => pc'[u] = pc[u] /\ req'[u] = req[u]
    BY <2>1
  <2>4. TypeOK'
    BY <2>1
  <2>5. OwnerInv' /\ CallInv'
    BY <2>1, <2>2, <2>3
  <2>6. GetLoopInv' /\ PutLoopInv'
    BY <2>1, <2>2, <2>3
  <2> QED
    BY <2>4, <2>5, <2>6
<1>2. ASSUME NEW t \in Threads, Lock(t) PROVE IInv'
  <2>1. /\ pc[t] = "lock" /\ mtx = {} /\ mtx' = {t}
        /\ pc' = [pc EXCEPT ![t] = IF req[t].op \in {"MultiGet", "MultiPut"} THEN "loop" ELSE "body"]
        /\ res' = [res EXCEPT ![t] = EmptyResponse]
        /\ UNCHANGED <<store_, req, idx, left>>
    BY <1>2 DEF Lock
  <2>2. Len(req[t].keys) \in Nat /\ Len(<<>>) = 0 /\ idx[t] = 0
    BY <2>1, RequestFacts
  <2>3. \A u \in Threads : u # t => pc[u] \in {"idle", "lock", "ret"} /\ pc'[u] = pc[u]
    BY <2>1
  <2>4. TypeOK'
    BY <2>1, ResponseFacts
  <2>5. OwnerInv' /\ CallInv'
    BY <2>1, <2>2, <2>3
  <2>6. GetLoopInv' /\ PutLoopInv'
    BY <2>1, <2>2, <2>3, ResponseFacts
  <2> QED
    BY <2>4, <2>5, <2>6
<1> HIDE DEF IInv, TypeOK, OwnerInv, CallInv, GetLoopInv, PutLoopInv, InOperation, Storing, Has
<1>3. ASSUME NEW t \in Threads, Get(t) PROVE IInv'
  <2>1. store_[Key(t)] \in Seq(Value) /\ InOperation(t)
    BY <1>0, <1>3, RequestFacts DEF Get, Key, SingleKeyOps, InOperation, IInv, TypeOK, CallInv
  <2>2. \E r \in Response : Finish(t, r)
    BY <1>0, <1>3, <2>1, ResponseFacts DEF Get, Succeed, ReturnFalse
  <2> QED
    BY <1>3, <2>1, <2>2, FinishIInv DEF Get, Succeed, ReturnFalse, IInv, TypeOK
<1>4. ASSUME NEW t \in Threads, Put(t) PROVE IInv'
  <2>1. <<req[t].values[1]>> \in OptValue /\ InOperation(t)
    BY <1>4, RequestFacts DEF Put, ValueOps, OptValue, InOperation, IInv, CallInv
  <2>2. store_' \in [Keys -> OptValue]
    BY <1>4, <2>1 DEF Put, IInv, TypeOK
  <2>3. \E r \in Response : Finish(t, r)
    BY <1>0, <1>4, ResponseFacts DEF Put, Succeed
  <2> QED
    BY <1>4, <2>1, <2>2, <2>3, FinishIInv DEF Put, Succeed
<1>5. ASSUME NEW t \in Threads, AppendOp(t) PROVE IInv'
  <2>1. req[t].values[1] \in Value /\ store_[Key(t)] \in OptValue /\ InOperation(t)
    BY <1>5, RequestFacts DEF AppendOp, ValueOps, Key, SingleKeyOps, InOperation, IInv, TypeOK, CallInv
  <2>2. store_[Key(t)] # <<>> => <<store_[Key(t)][1] \o req[t].values[1]>> \in OptValue
    BY <2>1, OptValueFacts, ConcatProperties DEF Value, OptValue
  <2>3. <<req[t].values[1]>> \in OptValue
    BY <2>1 DEF OptValue
  <2>4. store_' \in [Keys -> OptValue]
    BY <1>5, <2>2, <2>3 DEF AppendOp, IInv, TypeOK
  <2>5. \E r \in Response : Finish(t, r)
    BY <1>0, <1>5, ResponseFacts DEF AppendOp, Succeed
  <2> QED
    BY <1>5, <2>1, <2>4, <2>5, FinishIInv DEF AppendOp, Succeed
<1>6. ASSUME NEW t \in Threads, Delete(t) PROVE IInv'
  <2>1. store_[Key(t)] \in Seq(Value) /\ <<>> \in OptValue /\ InOperation(t)
    BY <1>0, <1>6, RequestFacts
       DEF Delete, Key, SingleKeyOps, OptValue, InOperation, IInv, TypeOK, CallInv
  <2>2. store_' \in [Keys -> OptValue]
    BY <1>6, <2>1 DEF Delete, IInv, TypeOK
  <2>3. \E r \in Response : Finish(t, r)
    BY <1>0, <1>6, <2>1, ResponseFacts DEF Delete, Succeed, ReturnFalse
  <2> QED
    BY <1>6, <2>1, <2>2, <2>3, FinishIInv DEF Delete, Succeed, ReturnFalse
<1>7. ASSUME NEW t \in Threads, AllKeys(t) PROVE IInv'
  <2>1. {k \in Keys : store_[k] # <<>>} \in SUBSET Keys
    OBVIOUS
  <2>2. \E r \in Response : Finish(t, r)
    BY <1>0, <1>7, <2>1, ResponseFacts DEF AllKeys, Succeed
  <2> QED
    BY <1>7, <2>2, FinishIInv DEF AllKeys, Succeed, InOperation, IInv, TypeOK
<1>8. ASSUME NEW t \in Threads, MultiGet(t) PROVE IInv'
  <2> DEFINE it == store_[req[t].keys[idx[t] + 1]]
  <2>1. /\ res[t].values \in Seq(Value) /\ req[t].keys \in Seq(Keys) /\ InOperation(t)
        /\ idx[t] \in Nat /\ Len(req[t].keys) \in Nat /\ idx[t] <= Len(req[t].keys)
        /\ Len(res[t].values) = idx[t]
        /\ \A i \in 1 .. idx[t] : Has(req[t].keys[i], res[t].values[i])
    <3>1. /\ pc[t] = "loop" /\ req[t].op = "MultiGet" /\ req[t] \in Requests
          /\ idx[t] \in Nat /\ idx[t] <= Len(req[t].keys) /\ res[t] \in Response
      BY <1>8 DEF MultiGet, IInv, TypeOK, CallInv
    <3>2. res[t].values \in Seq(Value) /\ req[t].keys \in Seq(Keys) /\ InOperation(t)
      BY <3>1, RequestFacts DEF Response, InOperation
    <3> QED
      BY <3>1, <3>2 DEF IInv, GetLoopInv
  <2>2. CASE pc'[t] = "ret"
    <3>1. \E r \in Response : Finish(t, r)
      BY <1>0, <1>8, <2>1, <2>2, ResponseFacts
         DEF MultiGet, Succeed, ReturnFalse, IInv, TypeOK
    <3> QED
      BY <1>8, <2>1, <2>2, <3>1, FinishIInv DEF MultiGet, Succeed, ReturnFalse, IInv, TypeOK
  <2>3. CASE pc'[t] # "ret"
    <3>1. /\ idx[t] # Len(req[t].keys) /\ it # <<>>
          /\ res' = [res EXCEPT ![t] = Ok(res[t].values \o it, {})]
          /\ idx' = [idx EXCEPT ![t] = idx[t] + 1]
          /\ UNCHANGED <<store_, mtx, pc, req, left>>
      BY <1>8, <2>3 DEF MultiGet, Succeed, ReturnFalse, Finish, IInv, TypeOK
    <3>2. idx[t] + 1 \in 1 .. Len(req[t].keys)
      BY <2>1, <3>1
    <3>3. it \in OptValue
      BY <2>1, <3>2 DEF IInv, TypeOK
    <3>4. it = <<it[1]>> /\ it[1] \in Value
      BY <3>1, <3>3, OptValueFacts
    <3> DEFINE vs == res[t].values \o it
    <3>5. /\ vs \in Seq(Value) /\ Len(vs) = idx[t] + 1
          /\ \A i \in 1 .. idx[t] : vs[i] = res[t].values[i]
          /\ vs[idx[t] + 1] = it[1]
      <4> HIDE DEF it
      <4> DEFINE old == res[t].values
                 v == it[1]
      <4>1. old \in Seq(Value) /\ v \in Value /\ Len(old) = idx[t]
        BY <2>1, <3>4
      <4>2. vs = old \o <<v>>
        BY <3>4
      <4> HIDE DEF old, v, vs
      <4>3. /\ vs \in Seq(Value) /\ Len(vs) = Len(old) + 1
            /\ \A i \in 1 .. Len(old) : vs[i] = old[i]
            /\ vs[Len(old) + 1] = v
        BY <4>1, <4>2, PushFacts
      <4> QED
        BY <4>1, <4>3 DEF old, v
    <3> HIDE DEF vs
    <3>6. res'[t].values = vs /\ res' \in [Threads -> Response]
      BY <1>0, <3>1, <3>5, ResponseFacts DEF vs, IInv, TypeOK
    <3>7. \A i \in 1 .. idx[t] + 1 : Has(req[t].keys[i], vs[i])
      <4>1. \A i \in 1 .. idx[t] : Has(req[t].keys[i], vs[i])
        BY <2>1, <3>5
      <4>2. Has(req[t].keys[idx[t] + 1], vs[idx[t] + 1])
        BY <3>1, <3>5 DEF Has
      <4>3. \A i \in 1 .. idx[t] + 1 : i \in 1 .. idx[t] \/ i = idx[t] + 1
        BY <2>1
      <4> QED
        BY <4>1, <4>2, <4>3
    <3> HIDE DEF it
    <3>8. TypeOK'
      BY <2>1, <3>1, <3>6 DEF IInv, TypeOK
    <3>9. OwnerInv' /\ CallInv'
      BY <2>1, <3>1, <3>2, <1>8 DEF IInv, TypeOK, OwnerInv, CallInv, InOperation, MultiGet
    <3>10. \A u \in Threads \ {t} : pc'[u] # "loop"
      BY <2>1, <3>1 DEF IInv, OwnerInv, InOperation
    <3>11. idx'[t] = idx[t] + 1 /\ req'[t] = req[t] /\ store_' = store_
      BY <3>1 DEF IInv, TypeOK
    <3>12. GetLoopInv'
      BY <3>5, <3>6, <3>7, <3>10, <3>11 DEF GetLoopInv, Has
    <3>13. PutLoopInv'
      BY <1>8, <3>1, <3>10 DEF PutLoopInv, Storing, MultiGet
    <3> QED
      BY <3>8, <3>9, <3>12, <3>13 DEF IInv
  <2> QED
    BY <2>2, <2>3
<1>9. ASSUME NEW t \in Threads, MultiPut(t) PROVE IInv'
  <2>1. /\ req[t].values \in Seq(Value) /\ req[t].keys \in Seq(Keys) /\ InOperation(t)
        /\ idx[t] \in Nat /\ Len(req[t].keys) \in Nat /\ idx[t] <= Len(req[t].keys)
    BY <1>9, RequestFacts DEF MultiPut, InOperation, IInv, TypeOK, CallInv
  <2>2. CASE pc'[t] = "ret"
    <3>1. /\ \E r \in Response : Finish(t, r)
          /\ UNCHANGED <<store_, req, idx, left>>
          /\ mtx' = {} \/ mtx' = mtx
      BY <1>0, <1>9, <2>2, ResponseFacts DEF MultiPut, Succeed, ReturnFalse, IInv, TypeOK
    <3> QED
      BY <2>1, <3>1, FinishIInv DEF IInv, TypeOK
  <2>3. CASE pc'[t] # "ret"
    <3>1. /\ idx[t] # Len(req[t].keys) /\ Len(req[t].keys) = Len(req[t].values)
          /\ store_' = [store_ EXCEPT ![req[t].keys[idx[t] + 1]] = <<req[t].values[idx[t] + 1]>>]
          /\ idx' = [idx EXCEPT ![t] = idx[t] + 1]
          /\ UNCHANGED <<mtx, pc, res, req, left>>
      BY <1>9, <2>3 DEF MultiPut, Succeed, ReturnFalse, Finish, IInv, TypeOK
    <3>2. idx[t] + 1 \in 1 .. Len(req[t].keys)
      BY <2>1, <3>1
    <3>3. <<req[t].values[idx[t] + 1]>> \in OptValue
      BY <2>1, <3>1, <3>2 DEF OptValue
    <3>4. TypeOK'
      BY <2>1, <3>1, <3>3 DEF IInv, TypeOK
    <3>5. OwnerInv' /\ CallInv'
      BY <1>9, <2>1, <3>1, <3>2 DEF IInv, TypeOK, OwnerInv, CallInv, InOperation, MultiPut
    <3>6. \A u \in Threads \ {t} : pc'[u] # "loop"
      BY <2>1, <3>1 DEF IInv, OwnerInv, InOperation
    <3>7. GetLoopInv' /\ PutLoopInv'
      BY <1>9, <3>1, <3>6 DEF GetLoopInv, PutLoopInv, Storing, MultiPut
    <3> QED
      BY <3>4, <3>5, <3>7 DEF IInv
  <2> QED
    BY <2>2, <2>3
<1> USE DEF IInv, TypeOK, OwnerInv, CallInv, GetLoopInv, PutLoopInv, InOperation, Storing, Has
<1>10. ASSUME NEW t \in Threads, Return(t) PROVE IInv'
  <2>1. /\ pc[t] = "ret" /\ pc' = [pc EXCEPT ![t] = "idle"]
        /\ req' = [req EXCEPT ![t] = <<>>] /\ idx' = [idx EXCEPT ![t] = 0]
        /\ left' = [left EXCEPT ![t] = @ - 1]
        /\ UNCHANGED <<store_, mtx, res>>
    BY <1>10 DEF Return
  <2>2. pc'[t] = "idle" /\ idx'[t] = 0
    BY <2>1
  <2>3. \A u \in Threads : u # t => pc'[u] = pc[u] /\ req'[u] = req[u] /\ idx'[u] = idx[u]
    BY <2>1
  <2>4. TypeOK'
    BY <2>1
  <2>5. OwnerInv' /\ CallInv'
    BY <2>1, <2>2, <2>3
  <2>6. GetLoopInv' /\ PutLoopInv'
    BY <2>1, <2>2, <2>3
  <2> QED
    BY <2>4, <2>5, <2>6
<1>11. CASE UNCHANGED vars
  BY <1>11 DEF vars
<1> QED
  BY <1>1, <1>2, <1>3, <1>4, <1>5, <1>6, <1>7, <1>8, <1>9, <1>10, <1>11 DEF Next, Step, Quiet

\* The invariant holds in every reachable state.
THEOREM IInvHolds == Spec => []IInv
<1>1. Init => IInv
  BY InitIInv
<1>2. IInv /\ [Next]_vars => IInv'
  BY NextIInv
<1> QED
  BY <1>1, <1>2, PTL DEF Spec

-----------------------------------------------------------------------------
(* The map that a MultiPut has promised *)

\* The last position after n at which the key k stands.
LastOf(ks, n, k) ==
  CHOOSE i \in n + 1 .. Len(ks) : ks[i] = k /\ \A j \in n + 1 .. Len(ks) : ks[j] = k => j <= i

\* The map s once the pairs of the request r after the n-th are stored too.
Ahead(s, r, n) ==
  [k \in Keys |-> IF \E i \in n + 1 .. Len(r.keys) : r.keys[i] = k
                  THEN <<r.values[LastOf(r.keys, n, k)]>> ELSE s[k]]

\* LastOf is such a position, when there is one, and the only one.
LEMMA LastOfFacts ==
  ASSUME NEW ks \in Seq(Keys), NEW n \in Nat, NEW k,
         \E i \in n + 1 .. Len(ks) : ks[i] = k
  PROVE  /\ LastOf(ks, n, k) \in n + 1 .. Len(ks)
         /\ ks[LastOf(ks, n, k)] = k
         /\ \A j \in n + 1 .. Len(ks) : ks[j] = k => j <= LastOf(ks, n, k)
         /\ \A i \in n + 1 .. Len(ks) :
              ks[i] = k /\ (\A j \in n + 1 .. Len(ks) : ks[j] = k => j <= i) => i = LastOf(ks, n, k)
<1> DEFINE S == {i \in n + 1 .. Len(ks) : ks[i] = k}
           l == LastOf(ks, n, k)
<1>1. Len(ks) \in Nat /\ S \in SUBSET (1 .. Len(ks))
  OBVIOUS
<1>2. S # {}
  OBVIOUS
<1>3. PICK x \in S : \A y \in S : y <= x
  BY <1>1, <1>2, LastPosition
<1>4. /\ x \in n + 1 .. Len(ks) /\ ks[x] = k
      /\ \A j \in n + 1 .. Len(ks) : ks[j] = k => j <= x
  BY <1>3
<1>5. /\ l \in n + 1 .. Len(ks) /\ ks[l] = k
      /\ \A j \in n + 1 .. Len(ks) : ks[j] = k => j <= l
  BY <1>4 DEF LastOf
<1> HIDE DEF l
<1>6. ASSUME NEW i \in n + 1 .. Len(ks), ks[i] = k,
             \A j \in n + 1 .. Len(ks) : ks[j] = k => j <= i
      PROVE  i = l
  <2>1. i <= l /\ l <= i
    BY <1>5, <1>6
  <2> QED
    BY <1>1, <1>5, <2>1
<1> QED
  BY <1>5, <1>6 DEF l

\* A turn of the loop does what was promised: the promise stays the same.
LEMMA AheadStep ==
  ASSUME NEW s \in [Keys -> OptValue], NEW r \in Requests, NEW n \in Nat, n < Len(r.keys)
  PROVE  Ahead([s EXCEPT ![r.keys[n + 1]] = <<r.values[n + 1]>>], r, n + 1) = Ahead(s, r, n)
<1> DEFINE ks == r.keys
           s2 == [s EXCEPT ![ks[n + 1]] = <<r.values[n + 1]>>]
<1>1. ks \in Seq(Keys) /\ Len(ks) \in Nat /\ n + 1 \in Nat
  BY RequestFacts
<1> SUFFICES ASSUME NEW k \in Keys PROVE Ahead(s2, r, n + 1)[k] = Ahead(s, r, n)[k]
  BY DEF Ahead
<1> HIDE DEF ks
<1>2. CASE \E i \in n + 2 .. Len(ks) : ks[i] = k
  <2> DEFINE l == LastOf(ks, n + 1, k)
  <2>0. \E i \in (n + 1) + 1 .. Len(ks) : ks[i] = k
    BY <1>1, <1>2
  <2>1. /\ l \in (n + 1) + 1 .. Len(ks) /\ ks[l] = k
        /\ \A j \in (n + 1) + 1 .. Len(ks) : ks[j] = k => j <= l
    BY <1>1, <2>0, LastOfFacts
  <2> HIDE DEF l
  <2>2. /\ l \in n + 1 .. Len(ks)
        /\ \A j \in n + 1 .. Len(ks) : ks[j] = k => j <= l
    BY <1>1, <2>1
  <2>3. l = LastOf(ks, n, k)
    BY <1>1, <2>1, <2>2, LastOfFacts
  <2>4. \E i \in n + 1 .. Len(ks) : ks[i] = k
    BY <2>1, <2>2
  <2> QED
    BY <2>0, <2>3, <2>4 DEF Ahead, l, ks
<1>3. CASE /\ ~\E i \in n + 2 .. Len(ks) : ks[i] = k
           /\ ks[n + 1] = k
  <2>1. n + 1 \in n + 1 .. Len(ks) /\ \A j \in n + 1 .. Len(ks) : ks[j] = k => j <= n + 1
    BY <1>1, <1>3 DEF ks
  <2>2. n + 1 = LastOf(ks, n, k)
    BY <1>1, <1>3, <2>1, LastOfFacts
  <2>3. Ahead(s, r, n)[k] = <<r.values[n + 1]>>
    BY <1>3, <2>1, <2>2 DEF Ahead, ks
  <2>4. ~\E i \in (n + 1) + 1 .. Len(ks) : ks[i] = k
    BY <1>1, <1>3
  <2>5. Ahead(s2, r, n + 1)[k] = s2[k]
    BY <2>4 DEF Ahead, ks
  <2> QED
    BY <1>3, <2>3, <2>5
<1>4. CASE /\ ~\E i \in n + 2 .. Len(ks) : ks[i] = k
           /\ ks[n + 1] # k
  <2>1. /\ ~\E i \in (n + 1) + 1 .. Len(ks) : ks[i] = k
        /\ ~\E i \in n + 1 .. Len(ks) : ks[i] = k
    BY <1>1, <1>4
  <2>2. Ahead(s2, r, n + 1)[k] = s2[k] /\ Ahead(s, r, n)[k] = s[k]
    BY <2>1 DEF Ahead, ks
  <2> QED
    BY <1>4, <2>2
<1> QED
  BY <1>2, <1>3, <1>4

\* Nothing is promised once every pair is stored.
LEMMA AheadEnd ==
  ASSUME NEW s \in [Keys -> OptValue], NEW r \in Requests
  PROVE  Ahead(s, r, Len(r.keys)) = s
<1>1. Len(r.keys) \in Nat
  BY RequestFacts
<1>2. \A k \in Keys : Ahead(s, r, Len(r.keys))[k] = s[k]
  BY <1>1 DEF Ahead
<1> QED
  BY <1>2 DEF Ahead

\* What AtomicKvStore stores for a MultiPut is the whole promise.
LEMMA PutAllIsAhead ==
  ASSUME NEW s \in [Keys -> OptValue], NEW r \in Requests
  PROVE  Atomic!PutAll(s, r.keys, r.values) = Ahead(s, r, 0)
<1> DEFINE ks == r.keys
           vs == r.values
<1>1. ks \in Seq(Keys) /\ DOMAIN ks = 1 .. Len(ks)
  BY RequestFacts, LenProperties
<1>2. 0 + 1 .. Len(ks) = 1 .. Len(ks)
  OBVIOUS
<1> HIDE DEF ks, vs
<1>3. ASSUME NEW k \in Keys PROVE Atomic!PutAll(s, ks, vs)[k] = Ahead(s, r, 0)[k]
  <2>1. CASE \E i \in DOMAIN ks : ks[i] = k
    <3> DEFINE c == CHOOSE i \in DOMAIN ks : ks[i] = k /\ \A j \in DOMAIN ks : ks[j] = k => j <= i
               l == LastOf(ks, 0, k)
    <3>1. \E i \in 0 + 1 .. Len(ks) : ks[i] = k
      BY <1>1, <1>2, <2>1
    <3>2. /\ l \in DOMAIN ks /\ ks[l] = k
          /\ \A j \in DOMAIN ks : ks[j] = k => j <= l
          /\ \A i \in DOMAIN ks :
               ks[i] = k /\ (\A j \in DOMAIN ks : ks[j] = k => j <= i) => i = l
      BY <1>1, <1>2, <3>1, LastOfFacts
    <3> HIDE DEF l
    <3>3. c \in DOMAIN ks /\ ks[c] = k /\ \A j \in DOMAIN ks : ks[j] = k => j <= c
      BY <3>2
    <3>4. c = l
      <4> HIDE DEF c
      <4> QED
        BY <3>2, <3>3
    <3>5. Atomic!PutAll(s, ks, vs)[k] = <<vs[c]>>
      BY <2>1 DEF Atomic!PutAll
    <3>6. Ahead(s, r, 0)[k] = <<vs[l]>>
      BY <3>1 DEF Ahead, ks, vs, l
    <3> QED
      BY <3>4, <3>5, <3>6
  <2>2. CASE ~\E i \in DOMAIN ks : ks[i] = k
    <3>1. Atomic!PutAll(s, ks, vs)[k] = s[k]
      BY <2>2 DEF Atomic!PutAll
    <3>2. ~\E i \in 0 + 1 .. Len(r.keys) : r.keys[i] = k
      BY <1>1, <1>2, <2>2 DEF ks
    <3>3. Ahead(s, r, 0)[k] = s[k]
      BY <3>2 DEF Ahead
    <3> QED
      BY <3>1, <3>3
  <2> QED
    BY <2>1, <2>2
<1> QED
  BY <1>3, ZenonT(40) DEF Atomic!PutAll, Ahead, ks, vs

\* Without a MultiPut under way the callers see the map itself.
LEMMA KvBarPlain == IInv => ((\A u \in Threads : ~Storing(u)) => kvBar = store_)
  BY DEF IInv, TypeOK, kvBar

\* With one under way they see its promise.
LEMMA KvBarStoring ==
  IInv => \A t \in Threads : Storing(t) => kvBar = Ahead(store_, req[t], idx[t])
<1> SUFFICES ASSUME IInv, NEW t \in Threads, Storing(t)
             PROVE  kvBar = Ahead(store_, req[t], idx[t])
  OBVIOUS
<1> DEFINE ks == req[t].keys
           n == idx[t]
<1>1. \A u \in Threads : Storing(u) => u = t
  BY DEF IInv, OwnerInv, Storing, InOperation
<1>2. req[t] \in Requests /\ n \in Nat
  BY DEF IInv, TypeOK, CallInv, Storing
<1>3. ks \in Seq(Keys) /\ Len(ks) \in Nat
  BY <1>2, RequestFacts
<1>4. ASSUME NEW k \in Keys PROVE kvBar[k] = Ahead(store_, req[t], idx[t])[k]
  <2>0. Pending(t, k) = {i \in n + 1 .. Len(ks) : ks[i] = k}
    BY DEF Pending
  <2>1. CASE Pending(t, k) # {}
    <3> DEFINE cu == CHOOSE u \in Threads : Storing(u) /\ Pending(u, k) # {}
               cj == CHOOSE j \in Pending(t, k) : \A m \in Pending(t, k) : m <= j
    <3>1. cu = t
      <4>1. cu \in Threads /\ Storing(cu)
        BY <2>1
      <4> QED
        BY <1>1, <4>1
    <3>2. \E i \in n + 1 .. Len(ks) : ks[i] = k
      BY <2>0, <2>1
    <3> DEFINE l == LastOf(ks, n, k)
    <3>3. /\ l \in n + 1 .. Len(ks) /\ ks[l] = k
          /\ \A j \in n + 1 .. Len(ks) : ks[j] = k => j <= l
          /\ \A i \in n + 1 .. Len(ks) :
               ks[i] = k /\ (\A j \in n + 1 .. Len(ks) : ks[j] = k => j <= i) => i = l
      BY <1>2, <1>3, <3>2, LastOfFacts, SMTT(30)
    <3> HIDE DEF l
    <3>4. l \in Pending(t, k) /\ \A m \in Pending(t, k) : m <= l
      BY <2>0, <3>3
    <3>5. cj \in Pending(t, k) /\ \A m \in Pending(t, k) : m <= cj
      BY <3>4
    <3> HIDE DEF cj
    <3>6. cj = l
      <4>1. cj \in n + 1 .. Len(ks) /\ ks[cj] = k
        BY <2>0, <3>5
      <4>2. \A j \in n + 1 .. Len(ks) : ks[j] = k => j <= cj
        BY <2>0, <3>5
      <4> HIDE DEF ks, n
      <4> QED
        BY <3>3, <4>1, <4>2
    <3>7. kvBar[k] = <<req[t].values[cj]>>
      <4>1. kvBar[k] = <<req[cu].values[CHOOSE j \in Pending(cu, k) : \A m \in Pending(cu, k) : m <= j]>>
        BY <2>1 DEF kvBar
      <4> HIDE DEF cu
      <4> QED
        BY <3>1, <4>1 DEF cj
    <3>8. Ahead(store_, req[t], idx[t])[k] = <<req[t].values[l]>>
      BY <3>2 DEF Ahead, l
    <3> QED
      BY <3>6, <3>7, <3>8
  <2>2. CASE Pending(t, k) = {}
    <3>1. kvBar[k] = store_[k]
      BY <1>1, <2>2 DEF kvBar
    <3>2. ~\E i \in n + 1 .. Len(ks) : ks[i] = k
      BY <2>0, <2>2
    <3>3. Ahead(store_, req[t], idx[t])[k] = store_[k]
      BY <3>2 DEF Ahead
    <3> QED
      BY <3>1, <3>3
  <2> QED
    BY <2>1, <2>2
<1> QED
  BY <1>4, ZenonT(40) DEF kvBar, Ahead

-----------------------------------------------------------------------------
(* Step by step, SimpleKvStore implements AtomicKvStore *)

\* The two lemmas on kvBar hold after a step as well.
LEMMA KvBarNext ==
  ASSUME IInv'
  PROVE  /\ (\A u \in Threads : ~Storing(u)') => kvBar' = store_'
         /\ \A t \in Threads : Storing(t)' => kvBar' = Ahead(store_', req'[t], idx'[t])
<1>1. (IInv => ((\A u \in Threads : ~Storing(u)) => kvBar = store_))'
  BY KvBarPlain, PTL
<1>2. (IInv => \A t \in Threads : Storing(t) => kvBar = Ahead(store_, req[t], idx[t]))'
  BY KvBarStoring, PTL
<1> QED
  BY <1>1, <1>2

\* A step that leaves the map and every MultiPut under way alone shows callers nothing.
LEMMA KvBarSame ==
  ASSUME IInv, IInv', store_' = store_,
         \A u \in Threads : (Storing(u)' <=> Storing(u))
                            /\ (Storing(u) => req'[u] = req[u] /\ idx'[u] = idx[u])
  PROVE  kvBar' = kvBar
<1>1. CASE \A u \in Threads : ~Storing(u)
  BY <1>1, KvBarPlain, KvBarNext
<1>2. CASE \E u \in Threads : Storing(u)
  <2>1. PICK u \in Threads : Storing(u)
    BY <1>2
  <2>2. kvBar = Ahead(store_, req[u], idx[u])
    BY <2>1, KvBarStoring
  <2>3. kvBar' = Ahead(store_', req'[u], idx'[u])
    BY <2>1, KvBarNext
  <2> QED
    BY <2>1, <2>2, <2>3
<1> QED
  BY <1>1, <1>2

\* Nobody else is inside an operation, and so nobody else is storing.
LEMMA OnlyOne ==
  ASSUME IInv, NEW t \in Threads, InOperation(t)
  PROVE  \A u \in Threads : u # t => ~InOperation(u) /\ ~Storing(u)
  BY DEF IInv, OwnerInv, InOperation, Storing

\* An operation that ends without having stored a pair of a MultiPut takes effect there.
LEMMA FinishTakesEffect ==
  ASSUME IInv, IInv', NEW t \in Threads, InOperation(t), ~Storing(t), NEW r, Finish(t, r),
         UNCHANGED <<req, idx, left>>,
         kvBar = store_ => store_' = Atomic!Effect(req[t]) /\ r = Atomic!Answer(req[t])
  PROVE  Atomic!TakeEffect(t)
<1>1. \A u \in Threads : ~Storing(u)
  BY OnlyOne
<1>2. kvBar = store_
  BY <1>1, KvBarPlain
<1>3. pc' = [pc EXCEPT ![t] = "ret"] /\ res' = [res EXCEPT ![t] = r]
  BY DEF Finish
<1>4. \A u \in Threads : ~Storing(u)'
  BY <1>1, <1>3 DEF Storing, IInv, TypeOK
<1>5. kvBar' = Atomic!Effect(req[t])
  BY <1>2, <1>4, KvBarNext
<1>6. phaseBar[t] = "called"
  BY <1>1 DEF phaseBar, InOperation
<1>7. phaseBar' = [phaseBar EXCEPT ![t] = "done"]
  <2>1. \A u \in Threads : phaseBar'[u] = IF u = t THEN "done" ELSE phaseBar[u]
    BY <1>1, <1>3, <1>4 DEF phaseBar, IInv, TypeOK
  <2> QED
    BY <2>1 DEF phaseBar
<1>8. retBar' = [retBar EXCEPT ![t] = <<Atomic!Answer(req[t])>>]
  <2>1. \A u \in Threads : retBar'[u] = IF u = t THEN <<r>> ELSE retBar[u]
    BY <1>1, <1>3, <1>4 DEF retBar, IInv, TypeOK
  <2> QED
    BY <1>2, <2>1 DEF retBar
<1> QED
  BY <1>5, <1>6, <1>7, <1>8 DEF Atomic!TakeEffect

\* A step inside an operation that neither ends it nor stores is invisible.
LEMMA InvisibleStep ==
  ASSUME IInv, IInv', store_' = store_, UNCHANGED <<req, left>>,
         \A u \in Threads : /\ ~Storing(u) /\ ~Storing(u)'
                            /\ pc'[u] = pc[u] \/ (pc[u] = "lock" /\ pc'[u] \in {"body", "loop"})
                            /\ pc[u] = "ret" => res'[u] = res[u]
  PROVE  UNCHANGED Atomic!vars
<1>1. kvBar' = kvBar
  BY KvBarSame
<1>2. phaseBar' = phaseBar
  <2>1. \A u \in Threads : phaseBar'[u] = phaseBar[u]
    BY DEF phaseBar
  <2> QED
    BY <2>1 DEF phaseBar
<1>3. retBar' = retBar
  <2>1. \A u \in Threads : retBar'[u] = retBar[u]
    BY DEF retBar
  <2> QED
    BY <2>1 DEF retBar
<1> QED
  BY <1>1, <1>2, <1>3 DEF Atomic!vars

\* A call.
LEMMA InvokeRefines ==
  ASSUME IInv, IInv', NEW t \in Threads, Invoke(t) PROVE Atomic!Call(t)
<1>1. /\ pc[t] = "idle" /\ left[t] > 0 /\ pc' = [pc EXCEPT ![t] = "lock"]
      /\ \E r \in Requests : req' = [req EXCEPT ![t] = r]
      /\ UNCHANGED <<store_, mtx, idx, res, left>>
  BY DEF Invoke, InvokeWith
<1>2. \A u \in Threads : /\ pc'[u] = IF u = t THEN "lock" ELSE pc[u]
                         /\ u # t => req'[u] = req[u]
  BY <1>1 DEF IInv, TypeOK
<1>3. \A u \in Threads : (Storing(u)' <=> Storing(u)) /\ ~(Storing(u) /\ u = t)
  BY <1>1, <1>2 DEF Storing
<1>4. kvBar' = kvBar
  BY <1>1, <1>2, <1>3, KvBarSame
<1>5. \A u \in Threads : phaseBar'[u] = IF u = t THEN "called" ELSE phaseBar[u]
  BY <1>2, <1>3 DEF phaseBar
<1>6. \A u \in Threads : retBar'[u] = retBar[u]
  BY <1>1, <1>2, <1>3 DEF retBar
<1>7. phaseBar[t] = "idle" /\ phaseBar' = [phaseBar EXCEPT ![t] = "called"] /\ retBar' = retBar
  BY <1>1, <1>5, <1>6, ZenonT(40) DEF phaseBar, retBar
<1> QED
  BY <1>1, <1>4, <1>7 DEF Atomic!Call

\* A return.
LEMMA ReturnRefines ==
  ASSUME IInv, IInv', NEW t \in Threads, Return(t) PROVE Atomic!Return(t)
<1>1. /\ pc[t] = "ret" /\ pc' = [pc EXCEPT ![t] = "idle"]
      /\ req' = [req EXCEPT ![t] = <<>>] /\ idx' = [idx EXCEPT ![t] = 0]
      /\ left' = [left EXCEPT ![t] = @ - 1]
      /\ UNCHANGED <<store_, mtx, res>>
  BY DEF Return
<1>2. \A u \in Threads : /\ pc'[u] = IF u = t THEN "idle" ELSE pc[u]
                         /\ u # t => req'[u] = req[u] /\ idx'[u] = idx[u]
  BY <1>1 DEF IInv, TypeOK
<1>3. \A u \in Threads : (Storing(u)' <=> Storing(u)) /\ ~(Storing(u) /\ u = t)
  BY <1>1, <1>2 DEF Storing
<1>4. kvBar' = kvBar
  BY <1>1, <1>2, <1>3, KvBarSame
<1>5. \A u \in Threads : phaseBar'[u] = IF u = t THEN "idle" ELSE phaseBar[u]
  BY <1>2, <1>3 DEF phaseBar
<1>6. \A u \in Threads : retBar'[u] = IF u = t THEN <<>> ELSE retBar[u]
  BY <1>1, <1>2, <1>3 DEF retBar
<1>7. /\ phaseBar[t] = "done" /\ phaseBar' = [phaseBar EXCEPT ![t] = "idle"]
      /\ retBar' = [retBar EXCEPT ![t] = <<>>]
  <2>1. phaseBar[t] = "done"
    BY <1>1 DEF phaseBar
  <2>2. phaseBar' = [phaseBar EXCEPT ![t] = "idle"]
    BY <1>5 DEF phaseBar
  <2>3. retBar' = [retBar EXCEPT ![t] = <<>>]
    BY <1>6 DEF retBar
  <2> QED
    BY <2>1, <2>2, <2>3
<1> QED
  BY <1>1, <1>4, <1>7 DEF Atomic!Return

\* lock() is invisible: nobody was inside, and no loop has turned yet.
LEMMA LockRefines ==
  ASSUME IInv, IInv', NEW t \in Threads, Lock(t) PROVE UNCHANGED Atomic!vars
<1>1. /\ pc[t] = "lock" /\ mtx = {}
      /\ pc' = [pc EXCEPT ![t] = IF req[t].op \in {"MultiGet", "MultiPut"} THEN "loop" ELSE "body"]
      /\ res' = [res EXCEPT ![t] = EmptyResponse]
      /\ UNCHANGED <<store_, req, idx, left>>
  BY DEF Lock
<1>2. \A u \in Threads : ~InOperation(u)
  BY <1>1 DEF IInv, OwnerInv
<1>3. \A u \in Threads : u # t => pc'[u] = pc[u] /\ res'[u] = res[u]
  BY <1>1 DEF IInv, TypeOK
<1>4. pc'[t] \in {"body", "loop"} /\ idx'[t] = 0
  BY <1>1 DEF IInv, TypeOK, CallInv
<1>5. \A u \in Threads : ~Storing(u) /\ ~Storing(u)'
  BY <1>2, <1>3, <1>4 DEF Storing, InOperation
<1>6. \A u \in Threads : /\ pc'[u] = pc[u] \/ (pc[u] = "lock" /\ pc'[u] \in {"body", "loop"})
                         /\ pc[u] = "ret" => res'[u] = res[u]
  BY <1>1, <1>3, <1>4
<1> QED
  BY <1>1, <1>5, <1>6, InvisibleStep

\* The operations on one key, and AllKeys, take effect in their body.
LEMMA BodyRefines ==
  ASSUME IInv, IInv', NEW t \in Threads,
         Get(t) \/ Put(t) \/ AppendOp(t) \/ Delete(t) \/ AllKeys(t)
  PROVE  Atomic!TakeEffect(t)
<1>1. pc[t] = "body" /\ UNCHANGED <<req, idx, left>> /\ req[t] \in Requests /\ store_ \in [Keys -> OptValue]
  BY DEF Get, Put, AppendOp, Delete, AllKeys, IInv, TypeOK, CallInv
<1>2. InOperation(t) /\ ~Storing(t)
  BY <1>1 DEF InOperation, Storing
<1> DEFINE r == req[t]
           k == Key(t)
<1>3. /\ r.op \in SingleKeyOps => k \in Keys
      /\ r.op \in ValueOps => r.values = <<r.values[1]>>
      /\ k = r.keys[1]
  BY <1>1, RequestFacts DEF Key
<1> USE DEF Atomic!ValueOps, Atomic!Present, Atomic!Done, Atomic!Failed, Ok, Fail, ValueOps, SingleKeyOps, Succeed, ReturnFalse
<1>4. CASE Get(t)
  <2> DEFINE a == IF store_[k] = <<>> THEN Fail ELSE Ok(store_[k], {})
  <2>1. Finish(t, a) /\ store_' = store_ /\ r.op = "Get"
    BY <1>4 DEF Get
  <2>2. kvBar = store_ => store_' = Atomic!Effect(r) /\ a = Atomic!Answer(r)
    BY <1>3, <2>1 DEF Atomic!Effect, Atomic!Answer
  <2> QED
    BY <1>1, <1>2, <2>1, <2>2, FinishTakesEffect
<1>5. CASE Put(t)
  <2> DEFINE a == Ok(<<>>, {})
  <2>1. Finish(t, a) /\ store_' = [store_ EXCEPT ![k] = <<r.values[1]>>] /\ r.op = "Put"
    BY <1>5 DEF Put
  <2>2. Atomic!Effect(r) = [kvBar EXCEPT ![k] = r.values]
    BY <1>3, <2>1 DEF Atomic!Effect
  <2>3. a = Atomic!Answer(r) /\ r.values = <<r.values[1]>>
    BY <1>3, <2>1 DEF Atomic!Answer
  <2>4. kvBar = store_ => store_' = Atomic!Effect(r) /\ a = Atomic!Answer(r)
    BY <2>1, <2>2, <2>3
  <2> QED
    BY <1>1, <1>2, <2>1, <2>4, FinishTakesEffect
<1>6. CASE AppendOp(t)
  <2> DEFINE a == Ok(<<>>, {})
  <2>1. /\ Finish(t, a) /\ r.op = "Append"
        /\ store_' = [store_ EXCEPT ![k] = IF store_[k] # <<>> THEN <<store_[k][1] \o r.values[1]>>
                                           ELSE <<r.values[1]>>]
    BY <1>1, <1>3, <1>6 DEF AppendOp
  <2>2. Atomic!Effect(r) = [kvBar EXCEPT ![k] = IF kvBar[k] # <<>> THEN <<kvBar[k][1] \o r.values[1]>>
                                                ELSE r.values]
    BY <1>3, <2>1 DEF Atomic!Effect
  <2>3. a = Atomic!Answer(r) /\ r.values = <<r.values[1]>>
    BY <1>3, <2>1 DEF Atomic!Answer
  <2>4. kvBar = store_ => store_' = Atomic!Effect(r) /\ a = Atomic!Answer(r)
    BY <2>1, <2>2, <2>3
  <2> QED
    BY <1>1, <1>2, <2>1, <2>4, FinishTakesEffect
<1>7. CASE Delete(t)
  <2> DEFINE a == IF store_[k] = <<>> THEN Fail ELSE Ok(store_[k], {})
  <2>1. /\ Finish(t, a) /\ r.op = "Delete"
        /\ store_' = [store_ EXCEPT ![k] = <<>>]
    BY <1>1, <1>3, <1>7 DEF Delete
  <2>2. Atomic!Effect(r) = [kvBar EXCEPT ![k] = <<>>] /\ a = IF store_[k] # <<>> THEN Ok(store_[k], {}) ELSE Fail
    BY <1>3, <2>1 DEF Atomic!Effect
  <2>3. Atomic!Answer(r) = IF kvBar[k] # <<>> THEN Ok(kvBar[k], {}) ELSE Fail
    BY <1>3, <2>1 DEF Atomic!Answer
  <2>4. kvBar = store_ => store_' = Atomic!Effect(r) /\ a = Atomic!Answer(r)
    BY <2>1, <2>2, <2>3
  <2> QED
    BY <1>1, <1>2, <2>1, <2>4, FinishTakesEffect
<1>8. CASE AllKeys(t)
  <2> DEFINE a == Ok(<<>>, {x \in Keys : store_[x] # <<>>})
  <2>1. Finish(t, a) /\ store_' = store_ /\ r.op = "AllKeys"
    BY <1>8 DEF AllKeys
  <2>2. kvBar = store_ => store_' = Atomic!Effect(r) /\ a = Atomic!Answer(r)
    BY <2>1 DEF Atomic!Effect, Atomic!Answer
  <2> QED
    BY <1>1, <1>2, <2>1, <2>2, FinishTakesEffect
<1> QED
  BY <1>4, <1>5, <1>6, <1>7, <1>8

\* MultiGet takes effect when its loop ends or meets a key that is not there: the keys
\* it has been through still have the values it copied.
LEMMA MultiGetRefines ==
  ASSUME IInv, IInv', NEW t \in Threads, MultiGet(t)
  PROVE  Atomic!TakeEffect(t) \/ UNCHANGED Atomic!vars
<1> DEFINE r == req[t]
           ks == r.keys
           n == idx[t]
           it == store_[ks[n + 1]]
<1>1. /\ pc[t] = "loop" /\ r.op = "MultiGet" /\ r \in Requests /\ store_ \in [Keys -> OptValue]
      /\ n \in Nat /\ n <= Len(ks) /\ res[t].values \in Seq(Value) /\ Len(res[t].values) = n
      /\ \A i \in 1 .. n : Has(ks[i], res[t].values[i])
      /\ UNCHANGED <<store_, req, left>>
  <2>1. /\ pc[t] = "loop" /\ r.op = "MultiGet" /\ r \in Requests /\ store_ \in [Keys -> OptValue]
        /\ n \in Nat /\ n <= Len(ks) /\ res[t] \in Response
        /\ UNCHANGED <<store_, req, left>>
    BY DEF MultiGet, IInv, TypeOK, CallInv
  <2>2. Len(res[t].values) = n /\ \A i \in 1 .. n : Has(ks[i], res[t].values[i])
    BY <2>1 DEF IInv, GetLoopInv
  <2> QED
    BY <2>1, <2>2 DEF Response
<1>2. ks \in Seq(Keys) /\ DOMAIN ks = 1 .. Len(ks) /\ Len(ks) \in Nat
  BY <1>1, RequestFacts, LenProperties
<1>3. InOperation(t) /\ ~Storing(t)
  BY <1>1 DEF InOperation, Storing
<1>4. Atomic!Effect(r) = kvBar
  BY <1>1 DEF Atomic!Effect
<1>5. /\ (\A i \in DOMAIN ks : kvBar[ks[i]] # <<>>)
         => Atomic!Answer(r) = Ok([i \in DOMAIN ks |-> kvBar[ks[i]][1]], {})
      /\ ~(\A i \in DOMAIN ks : kvBar[ks[i]] # <<>>) => Atomic!Answer(r) = Fail
  BY <1>1 DEF Atomic!Answer, Atomic!ValueOps, Atomic!Present, Atomic!Done, Atomic!Failed, Ok, Fail
<1>6. CASE n = Len(ks)
  <2> DEFINE vs == res[t].values
  <2>1. Finish(t, Ok(vs, {})) /\ UNCHANGED idx
    BY <1>6 DEF MultiGet, Succeed
  <2>2. ASSUME kvBar = store_ PROVE store_' = Atomic!Effect(r) /\ Ok(vs, {}) = Atomic!Answer(r)
    <3>1. \A i \in DOMAIN ks : kvBar[ks[i]] # <<>> /\ kvBar[ks[i]][1] = vs[i]
      BY <1>1, <1>2, <1>6, <2>2 DEF Has
    <3>2. vs \in [DOMAIN ks -> Value]
      BY <1>1, <1>2, <1>6, LenProperties
    <3>3. vs = [i \in DOMAIN ks |-> kvBar[ks[i]][1]]
      <4> HIDE DEF vs, ks
      <4> QED
        BY <3>1, <3>2
    <3> QED
      BY <1>1, <1>4, <1>5, <2>2, <3>1, <3>3
  <2> QED
    BY <1>1, <1>3, <2>1, <2>2, FinishTakesEffect
<1>7. CASE n # Len(ks) /\ it = <<>>
  <2>1. Finish(t, Fail) /\ UNCHANGED idx
    BY <1>7 DEF MultiGet, ReturnFalse
  <2>2. n + 1 \in DOMAIN ks
    BY <1>1, <1>2, <1>7
  <2>3. ASSUME kvBar = store_ PROVE store_' = Atomic!Effect(r) /\ Fail = Atomic!Answer(r)
    BY <1>1, <1>4, <1>5, <1>7, <2>2, <2>3
  <2> QED
    BY <1>1, <1>3, <2>1, <2>3, FinishTakesEffect
<1>8. CASE n # Len(ks) /\ it # <<>>
  <2>1. UNCHANGED pc /\ \A u \in Threads : u # t => res'[u] = res[u]
    BY <1>8 DEF MultiGet, IInv, TypeOK
  <2>2. \A u \in Threads : ~Storing(u)
    BY <1>3, OnlyOne
  <2>3. \A u \in Threads : ~Storing(u)'
    <3>1. ~Storing(t)'
      BY <1>1 DEF Storing
    <3>2. \A u \in Threads : u # t => ~InOperation(u)
      BY <1>3, OnlyOne
    <3> QED
      BY <2>1, <3>1, <3>2 DEF Storing, InOperation
  <2>4. \A u \in Threads : pc[u] = "ret" => res'[u] = res[u]
    BY <1>1, <2>1
  <2> QED
    BY <1>1, <2>1, <2>2, <2>3, <2>4, InvisibleStep
<1> QED
  BY <1>6, <1>7, <1>8

\* MultiPut takes effect with its first turn; the other turns do what it promised, and
\* its end is invisible.
LEMMA MultiPutRefines ==
  ASSUME IInv, IInv', NEW t \in Threads, MultiPut(t)
  PROVE  Atomic!TakeEffect(t) \/ UNCHANGED Atomic!vars
<1> DEFINE r == req[t]
           ks == r.keys
           n == idx[t]
<1>1. /\ pc[t] = "loop" /\ r.op = "MultiPut" /\ r \in Requests /\ r # <<>>
      /\ store_ \in [Keys -> OptValue]
      /\ n \in Nat /\ n <= Len(ks) /\ Len(ks) \in Nat
      /\ UNCHANGED <<req, left>>
  BY RequestFacts DEF MultiPut, IInv, TypeOK, CallInv
<1>2. InOperation(t) /\ (Storing(t) <=> n > 0)
  BY <1>1 DEF InOperation, Storing
<1>3. \A u \in Threads : u # t => ~InOperation(u) /\ ~Storing(u)
  BY <1>2, OnlyOne
<1>4. Atomic!Effect(r) = IF Len(ks) = Len(r.values) THEN Atomic!PutAll(kvBar, ks, r.values) ELSE kvBar
  BY <1>1 DEF Atomic!Effect
<1>5. Atomic!Answer(r) = IF Len(ks) = Len(r.values) THEN Ok(<<>>, {}) ELSE Fail
  BY <1>1 DEF Atomic!Answer, Atomic!ValueOps, Atomic!Done, Atomic!Failed, Ok, Fail
<1>6. CASE Len(ks) # Len(r.values)
  <2>1. Finish(t, Fail) /\ UNCHANGED <<store_, idx>>
    BY <1>6 DEF MultiPut, ReturnFalse
  <2>2. ~Storing(t)
    BY <1>6 DEF IInv, PutLoopInv
  <2>3. kvBar = store_ => store_' = Atomic!Effect(r) /\ Fail = Atomic!Answer(r)
    BY <1>4, <1>5, <1>6, <2>1
  <2> QED
    BY <1>1, <1>2, <2>1, <2>2, <2>3, FinishTakesEffect
<1>7. CASE Len(ks) = Len(r.values) /\ n = Len(ks) /\ n = 0
  <2>1. Finish(t, Ok(<<>>, {})) /\ UNCHANGED <<store_, idx>>
    BY <1>7 DEF MultiPut, Succeed
  <2>2. kvBar = store_ => store_' = Atomic!Effect(r) /\ Ok(<<>>, {}) = Atomic!Answer(r)
    BY <1>1, <1>4, <1>5, <1>7, <2>1, PutAllIsAhead, AheadEnd
  <2> QED
    BY <1>1, <1>2, <1>7, <2>1, <2>2, FinishTakesEffect
<1>8. CASE Len(ks) = Len(r.values) /\ n = Len(ks) /\ n > 0
  <2>1. Finish(t, Ok(<<>>, {})) /\ UNCHANGED <<store_, idx>>
    BY <1>8 DEF MultiPut, Succeed
  <2>2. kvBar = store_
    BY <1>1, <1>2, <1>8, KvBarStoring, AheadEnd
  <2>3. \A u \in Threads : pc'[u] = (IF u = t THEN "ret" ELSE pc[u]) /\ (u # t => res'[u] = res[u])
    BY <2>1 DEF Finish, IInv, TypeOK
  <2>4. \A u \in Threads : ~Storing(u)'
    BY <1>3, <2>3 DEF Storing, InOperation
  <2>5. kvBar' = kvBar
    BY <2>1, <2>2, <2>4, KvBarNext
  <2>6. \A u \in Threads : phaseBar'[u] = phaseBar[u]
    BY <1>1, <1>2, <1>3, <1>8, <2>3, <2>4 DEF phaseBar
  <2>7. res'[t] = Ok(<<>>, {})
    BY <2>1 DEF Finish, IInv, TypeOK
  <2>8. \A u \in Threads : retBar'[u] = retBar[u]
    BY <1>1, <1>2, <1>3, <1>8, <2>3, <2>4, <2>7 DEF retBar
  <2>9. phaseBar' = phaseBar /\ retBar' = retBar
    BY <2>6, <2>8 DEF phaseBar, retBar
  <2> QED
    BY <1>1, <2>5, <2>9 DEF Atomic!vars
<1>9. CASE Len(ks) = Len(r.values) /\ n # Len(ks)
  <2>1. /\ store_' = [store_ EXCEPT ![ks[n + 1]] = <<r.values[n + 1]>>]
        /\ idx' = [idx EXCEPT ![t] = n + 1]
        /\ UNCHANGED <<mtx, pc, res>>
    BY <1>9 DEF MultiPut
  <2>2. idx'[t] = n + 1 /\ Storing(t)'
    BY <1>1, <2>1 DEF Storing, IInv, TypeOK
  <2>3. \A u \in Threads : u # t => ~Storing(u)'
    BY <1>3, <2>1 DEF Storing, InOperation
  <2>4. kvBar' = Ahead(store_', r, n + 1)
    BY <1>1, <2>2, KvBarNext
  <2>5. Ahead(store_', r, n + 1) = Ahead(store_, r, n)
    <3>1. n < Len(ks)
      BY <1>1, <1>9
    <3> HIDE DEF r, n
    <3>2. Ahead([store_ EXCEPT ![r.keys[n + 1]] = <<r.values[n + 1]>>], r, n + 1) = Ahead(store_, r, n)
      BY <1>1, <3>1, AheadStep
    <3> QED
      BY <2>1, <3>2
  <2>6. CASE n = 0
    <3>1. kvBar = store_
      BY <1>2, <1>3, <2>6, KvBarPlain
    <3>2. kvBar' = Atomic!Effect(r)
      BY <1>1, <1>4, <1>9, <2>4, <2>5, <2>6, <3>1, PutAllIsAhead
    <3>3. phaseBar[t] = "called"
      BY <1>1, <1>2, <2>6 DEF phaseBar
    <3>4. \A u \in Threads : phaseBar'[u] = IF u = t THEN "done" ELSE phaseBar[u]
      BY <1>1, <1>3, <2>1, <2>2, <2>3 DEF phaseBar
    <3>5. \A u \in Threads : retBar'[u] = IF u = t THEN <<Atomic!Answer(r)>> ELSE retBar[u]
      BY <1>1, <1>3, <1>5, <1>9, <2>1, <2>2, <2>3 DEF retBar
    <3>6. phaseBar' = [phaseBar EXCEPT ![t] = "done"]
      BY <3>4 DEF phaseBar
    <3>7. retBar' = [retBar EXCEPT ![t] = <<Atomic!Answer(r)>>]
      BY <3>5 DEF retBar
    <3> QED
      BY <1>1, <3>2, <3>3, <3>6, <3>7 DEF Atomic!TakeEffect
  <2>7. CASE n > 0
    <3>1. kvBar' = kvBar
      BY <1>2, <2>4, <2>5, <2>7, KvBarStoring
    <3>2. \A u \in Threads : phaseBar'[u] = phaseBar[u]
      BY <1>2, <1>3, <2>1, <2>2, <2>3, <2>7 DEF phaseBar
    <3>3. \A u \in Threads : retBar'[u] = retBar[u]
      BY <1>2, <1>3, <2>1, <2>2, <2>3, <2>7 DEF retBar
    <3>4. phaseBar' = phaseBar /\ retBar' = retBar
      BY <3>2, <3>3 DEF phaseBar, retBar
    <3> QED
      BY <1>1, <3>1, <3>4 DEF Atomic!vars
  <2>8. n = 0 \/ n > 0
    BY <1>1
  <2> QED
    BY <2>6, <2>7, <2>8
<1> QED
  BY <1>1, <1>6, <1>7, <1>8, <1>9

\* The stores agree before the first call.
LEMMA InitRefines == ASSUME Init PROVE Atomic!Init
<1>1. IInv
  BY InitIInv
<1>2. \A u \in Threads : ~Storing(u)
  BY DEF Init, Storing
<1>3. kvBar = store_
  BY <1>1, <1>2, KvBarPlain
<1>4. phaseBar = [t \in Threads |-> "idle"] /\ retBar = [t \in Threads |-> <<>>]
  BY <1>2 DEF Init, phaseBar, retBar
<1> QED
  BY <1>3, <1>4 DEF Init, Atomic!Init

\* Every step is a step of the atomic store or leaves what its callers see unchanged.
LEMMA NextRefines ==
  ASSUME IInv, IInv', [Next]_vars PROVE [Atomic!Next]_(Atomic!vars)
<1>1. ASSUME NEW t \in Threads, Invoke(t) PROVE Atomic!Next
  BY <1>1, InvokeRefines DEF Atomic!Next
<1>2. ASSUME NEW t \in Threads, Step(t) PROVE Atomic!Next \/ UNCHANGED Atomic!vars
  BY <1>2, LockRefines, BodyRefines, MultiGetRefines, MultiPutRefines, ReturnRefines
     DEF Step, Atomic!Next
<1>3. CASE UNCHANGED vars
  BY <1>3 DEF vars, Atomic!vars, kvBar, phaseBar, retBar, Storing, Pending
<1> QED
  BY <1>1, <1>2, <1>3 DEF Next, Quiet

\* The store behind one mutex is linearizable: every call that returns took effect at one
\* instant between its call and its return, MultiGet and MultiPut as a whole, although
\* the failure paths leave the mutex locked.
THEOREM SimpleStoreIsLinearizable == Spec => Linearizable
<1>1. Init => Atomic!Init
  BY InitRefines
<1>2. IInv /\ IInv' /\ [Next]_vars => [Atomic!Next]_(Atomic!vars)
  BY NextRefines
<1> QED
  BY <1>1, <1>2, IInvHolds, PTL DEF Spec, Linearizable, Atomic!Spec
-----------------------------------------------------------------------------
(* The shard controller: a handler thread finds its own connection in the table, and    *)
(* stop() returns only when the last thread has left.                                    *)

Handling == {"loop", "recv", "send", "shut", "lock", "erase"}

ControllerTypeOK ==
  /\ main \in {"init", "running", "stopping", "join", "shut", "waiting", "stopped"}
  /\ listening \in BOOLEAN
  /\ listener \in {"none", "loop", "accept", "lock", "push", "done"}
  /\ accepted \subseteq Clients
  /\ current_conns \subseteq Clients
  /\ hpc \in [Clients -> {"none", "done"} \cup Handling]
  /\ is_connected \in [Clients -> BOOLEAN]
  /\ fd \in [Clients -> {"none", "backlog", "reset", "lost", "open", "shut", "closed"}]
  /\ cpc \in [Clients -> {"start", "ready", "waiting", "closed"}]

\* conns_mtx has one holder at a time: the listener between the creation of a
\* thread and its registration, stop() before its wait, or a handler that erases
\* its connection.
ConnsMutexInv ==
  /\ listener = "push" => conns_mtx = {"listener"} /\ main # "shut"
  /\ main = "shut" => conns_mtx # {}
  /\ \A c \in Clients :
       hpc[c] = "erase" =>
         /\ conns_mtx # {} /\ listener # "push" /\ main # "shut"
         /\ \A d \in Clients \ {c} : hpc[d] # "erase"

\* A thread runs just for the connections in the table and for the one that the
\* listener is about to enter.
ConnTableInv ==
  /\ listener \in {"lock", "push"} => \E c \in Clients : accepted = {c}
  /\ listener \notin {"lock", "push"} => accepted = {}
  /\ listener = "lock" => \A c \in accepted : hpc[c] = "none"
  /\ listener = "push" => \A c \in accepted : hpc[c] \in Handling
  /\ \A c \in Clients :
       /\ hpc[c] \in Handling => c \in current_conns \cup accepted
       /\ c \in current_conns => hpc[c] \in Handling

\* What the server's socket of a connection can be while nobody handles it yet,
\* while somebody does, and afterwards.
ConnSocketInv ==
  \A c \in Clients :
    /\ is_connected[c] <=> fd[c] = "open"
    /\ cpc[c] = "start" => fd[c] = "none"
    /\ hpc[c] = "none" /\ c \notin accepted => fd[c] \in {"none", "backlog", "reset", "lost"}
    /\ hpc[c] # "none" \/ c \in accepted => fd[c] \in {"open", "shut"}
    /\ hpc[c] \in {"lock", "erase", "done"} => ~is_connected[c]

\* How far stop() has come.
ControllerStopInv ==
  /\ listening <=> main \in {"running", "stopping"}
  /\ main = "init" => listener = "none"
  /\ ~listening => \A c \in Clients : fd[c] # "backlog"
  /\ main \in {"shut", "waiting", "stopped"} => listener = "done"
  /\ main = "stopped" => current_conns = {}


ControllerInv == ControllerTypeOK /\ ConnsMutexInv /\ ConnTableInv /\ ConnSocketInv /\ ControllerStopInv

\* The initial state satisfies the invariant.
LEMMA ControllerInitInv == ControllerInit => ControllerInv
<1> SUFFICES ASSUME ControllerInit PROVE ControllerInv
  OBVIOUS
<1>1. ControllerTypeOK
  BY DEF ControllerInit, ControllerTypeOK, Handling
<1>2. ConnsMutexInv /\ ConnTableInv
  BY DEF ControllerInit, ConnsMutexInv, ConnTableInv, Handling
<1>3. ConnSocketInv /\ ControllerStopInv
  BY DEF ControllerInit, ConnSocketInv, ControllerStopInv
<1>4. QED
  BY <1>1, <1>2, <1>3 DEF ControllerInv

\* Every step of the main thread, of the listener, of a handler and of a client keeps
\* the invariant.
LEMMA ControllerNextInv == ControllerInv /\ [ControllerNext]_(controllerVars) => ControllerInv'
<1> SUFFICES ASSUME ControllerInv, [ControllerNext]_(controllerVars) PROVE ControllerInv'
  OBVIOUS
<1> USE DEF ControllerInv, ControllerTypeOK, Handling, mainVars,
       listenerVars, sharedVars, connVars, clientVars
<1>1. CASE Start
  BY <1>1 DEF Start, ConnsMutexInv, ConnTableInv, ConnSocketInv, ControllerStopInv
<1>2. CASE Stop
  BY <1>2 DEF Stop, ConnsMutexInv, ConnTableInv, ConnSocketInv, ControllerStopInv
<1>3. CASE ShutdownListener
  <2>1. ControllerTypeOK'
    BY <1>3 DEF ShutdownListener
  <2>2. ConnsMutexInv' /\ ConnTableInv'
    BY <1>3 DEF ShutdownListener, ConnsMutexInv, ConnTableInv
  <2>3. ConnSocketInv'
    BY <1>3 DEF ShutdownListener, ConnSocketInv
  <2>4. ControllerStopInv'
    BY <1>3 DEF ShutdownListener, ControllerStopInv
  <2>5. QED
    BY <2>1, <2>2, <2>3, <2>4
<1>4. CASE JoinListener
  BY <1>4 DEF JoinListener, ConnsMutexInv, ConnTableInv, ConnSocketInv, ControllerStopInv
<1>5. CASE ShutdownAll
  <2>1. ControllerTypeOK'
    BY <1>5 DEF ShutdownAll, ShutdownConns, TestEmpty
  <2>2. ConnsMutexInv' /\ ConnTableInv'
    BY <1>5 DEF ShutdownAll, ShutdownConns, TestEmpty,
       ConnsMutexInv, ConnTableInv
  <2>3. ConnSocketInv'
    BY <1>5 DEF ShutdownAll, ShutdownConns, TestEmpty,
       ConnTableInv, ConnSocketInv
  <2>4. ControllerStopInv'
    BY <1>5 DEF ShutdownAll, ShutdownConns, TestEmpty,
       ControllerStopInv
  <2>5. QED
    BY <2>1, <2>2, <2>3, <2>4
<1>6. CASE Wake
  BY <1>6 DEF Wake, TestEmpty, ConnsMutexInv, ConnTableInv, ConnSocketInv,
     ControllerStopInv
<1>7. CASE SpuriousWake
  BY <1>7 DEF SpuriousWake, TestEmpty, ConnsMutexInv, ConnTableInv,
     ConnSocketInv, ControllerStopInv
<1>8. CASE AcceptLoop
  BY <1>8 DEF AcceptLoop, ConnsMutexInv, ConnTableInv, ConnSocketInv, ControllerStopInv
<1>9. CASE Accept
  <2>1. ControllerTypeOK'
    BY <1>9 DEF Accept
  <2>2. ConnsMutexInv' /\ ConnTableInv'
    BY <1>9 DEF Accept, ConnsMutexInv, ConnTableInv, ConnSocketInv, ControllerStopInv
  <2>3. ConnSocketInv'
    BY <1>9 DEF Accept, ConnTableInv, ConnSocketInv, ControllerStopInv
  <2>4. ControllerStopInv'
    BY <1>9 DEF Accept, ConnSocketInv, ControllerStopInv
  <2>5. QED
    BY <2>1, <2>2, <2>3, <2>4
<1>10. CASE AcceptFails
  BY <1>10 DEF AcceptFails, ConnsMutexInv, ConnTableInv, ConnSocketInv, ControllerStopInv
<1>11. CASE Spawn
  <2>1. ControllerTypeOK'
    BY <1>11 DEF Spawn
  <2>2. ConnsMutexInv'
    BY <1>11 DEF Spawn, ConnsMutexInv
  <2>3. ConnTableInv'
    BY <1>11 DEF Spawn, ConnTableInv
  <2>4. ConnSocketInv' /\ ControllerStopInv'
    BY <1>11 DEF Spawn, ConnTableInv, ConnSocketInv, ControllerStopInv
  <2>5. QED
    BY <2>1, <2>2, <2>3, <2>4
<1>12. CASE Register
  <2>1. ControllerTypeOK'
    BY <1>12 DEF Register
  <2>2. ConnsMutexInv'
    BY <1>12 DEF Register, ConnsMutexInv
  <2>3. ConnTableInv'
    BY <1>12 DEF Register, ConnsMutexInv, ConnTableInv
  <2>4. ConnSocketInv' /\ ControllerStopInv'
    BY <1>12 DEF Register, ConnTableInv, ConnSocketInv, ControllerStopInv
  <2>5. QED
    BY <2>1, <2>2, <2>3, <2>4
<1>13. ASSUME NEW c \in Clients, HandleLoop(c) PROVE ControllerInv'
  BY <1>13 DEF HandleLoop, MoveTo, ConnsMutexInv, ConnTableInv,
     ConnSocketInv, ControllerStopInv
<1>14. ASSUME NEW c \in Clients, Receive(c) PROVE ControllerInv'
  BY <1>14 DEF Receive, MoveTo, ConnsMutexInv, ConnTableInv,
     ConnSocketInv, ControllerStopInv
<1>15. ASSUME NEW c \in Clients, ReceiveEof(c) PROVE ControllerInv'
  BY <1>15 DEF ReceiveEof, MoveTo, ConnsMutexInv, ConnTableInv,
     ConnSocketInv, ControllerStopInv
<1>16. ASSUME NEW c \in Clients, Send(c) PROVE ControllerInv'
  BY <1>16 DEF Send, MoveTo, ConnsMutexInv, ConnTableInv, ConnSocketInv,
     ControllerStopInv
<1>17. ASSUME NEW c \in Clients, SendFails(c) PROVE ControllerInv'
  BY <1>17 DEF SendFails, MoveTo, ConnsMutexInv, ConnTableInv,
     ConnSocketInv, ControllerStopInv
<1>18. ASSUME NEW c \in Clients, ShutdownClient(c) PROVE ControllerInv'
  <2>1. ControllerTypeOK'
    BY <1>18 DEF ShutdownClient, MoveTo, ShutdownConns
  <2>2. ConnsMutexInv' /\ ConnTableInv'
    BY <1>18 DEF ShutdownClient, MoveTo, ShutdownConns,
       ConnsMutexInv, ConnTableInv
  <2>3. ConnSocketInv'
    BY <1>18 DEF ShutdownClient, MoveTo, ShutdownConns,
       ConnTableInv, ConnSocketInv
  <2>4. ControllerStopInv'
    BY <1>18 DEF ShutdownClient, MoveTo, ShutdownConns,
       ConnSocketInv, ControllerStopInv
  <2>5. QED
    BY <2>1, <2>2, <2>3, <2>4
<1>19. ASSUME NEW c \in Clients, LockConns(c) PROVE ControllerInv'
  <2>1. ControllerTypeOK'
    BY <1>19 DEF LockConns, MoveTo
  <2>2. ConnsMutexInv'
    BY <1>19 DEF LockConns, MoveTo, ConnsMutexInv
  <2>3. ConnTableInv'
    BY <1>19 DEF LockConns, MoveTo, ConnTableInv
  <2>4. ConnSocketInv' /\ ControllerStopInv'
    BY <1>19 DEF LockConns, MoveTo, ConnSocketInv, ControllerStopInv
  <2>5. QED
    BY <2>1, <2>2, <2>3, <2>4
<1>20. ASSUME NEW c \in Clients, Erase(c) PROVE ControllerInv'
  <2>1. ControllerTypeOK'
    BY <1>20 DEF Erase, MoveTo
  <2>2. ConnsMutexInv'
    BY <1>20 DEF Erase, MoveTo, ConnsMutexInv
  <2>3. ConnTableInv'
    BY <1>20 DEF Erase, MoveTo, ConnsMutexInv, ConnTableInv
  <2>4. ConnSocketInv' /\ ControllerStopInv'
    BY <1>20 DEF Erase, MoveTo, ConnsMutexInv, ConnTableInv,
       ConnSocketInv, ControllerStopInv
  <2>5. QED
    BY <2>1, <2>2, <2>3, <2>4
<1>21. ASSUME NEW c \in Clients, Connect(c) PROVE ControllerInv'
  BY <1>21 DEF Connect, ConnsMutexInv, ConnTableInv, ConnSocketInv, ControllerStopInv
<1>22. ASSUME NEW c \in Clients, SendRequest(c) PROVE ControllerInv'
  BY <1>22 DEF SendRequest, ConnsMutexInv, ConnTableInv, ConnSocketInv, ControllerStopInv
<1>23. ASSUME NEW c \in Clients, ReceiveResponse(c) PROVE ControllerInv'
  BY <1>23 DEF ReceiveResponse, ConnsMutexInv, ConnTableInv, ConnSocketInv,
     ControllerStopInv
<1>24. ASSUME NEW c \in Clients, ReceiveFails(c) PROVE ControllerInv'
  BY <1>24 DEF ReceiveFails, ConnsMutexInv, ConnTableInv, ConnSocketInv,
     ControllerStopInv
<1>25. ASSUME NEW c \in Clients, CloseClient(c) PROVE ControllerInv'
  BY <1>25 DEF CloseClient, ConnsMutexInv, ConnTableInv, ConnSocketInv, ControllerStopInv
<1>26. CASE UNCHANGED controllerVars
  BY <1>26 DEF controllerVars, ConnsMutexInv, ConnTableInv, ConnSocketInv, ControllerStopInv
<1>27. CASE AcceptLoses
  <2>1. ControllerTypeOK'
    BY <1>27 DEF AcceptLoses
  <2>2. ConnsMutexInv' /\ ConnTableInv'
    BY <1>27 DEF AcceptLoses, ConnsMutexInv, ConnTableInv
  <2>3. ConnSocketInv'
    BY <1>27 DEF AcceptLoses, ConnTableInv, ConnSocketInv
  <2>4. ControllerStopInv'
    BY <1>27 DEF AcceptLoses, ControllerStopInv
  <2>5. QED
    BY <2>1, <2>2, <2>3, <2>4
<1>28. QED
  BY <1>1, <1>2, <1>3, <1>4, <1>5, <1>6, <1>7, <1>8, <1>9, <1>10, <1>11, <1>12, <1>13, <1>14,
     <1>15, <1>16, <1>17, <1>18, <1>19, <1>20, <1>21, <1>22, <1>23, <1>24, <1>25, <1>26, <1>27
     DEF ControllerNext, StopStep, ListenerStep, HandlerStep, ClientStep, Over

\* The invariant holds in every state of the controller.
THEOREM ControllerInvHolds == ControllerSpec => []ControllerInv
  BY ControllerInitInv, ControllerNextInv, PTL DEF ControllerSpec

-----------------------------------------------------------------------------
(* The theorems *)

\* handle_client finds its connection in current_conns, however soon its thread
\* runs: the listener holds conns_mtx from before the creation of the thread until
\* the connection is registered, and the thread erases it under the same mutex.
THEOREM HandlersFindTheirConnection == ControllerSpec => []EraseFindsItsConnection
<1>1. ControllerInv => EraseFindsItsConnection
  BY DEF ControllerInv, ControllerTypeOK, Handling, ConnsMutexInv, ConnTableInv,
     EraseFindsItsConnection
<1>2. QED
  BY <1>1, ControllerInvHolds, PTL

\* The listener loses one connection at most, and only as its last.
LostInv ==
  \A c, d \in Clients : fd[c] = "lost" => listener = "done" /\ (fd[d] = "lost" => c = d)

\* Only the listener loses a connection, and then it is done.
LEMMA LostStep == ASSUME ControllerInv, LostInv, [ControllerNext]_controllerVars PROVE LostInv'
<1> USE DEF mainVars, listenerVars, sharedVars, connVars, clientVars
<1>1. CASE AcceptLoses
  <2>1. PICK c \in Clients : fd' = [fd EXCEPT ![c] = "lost"]
    BY <1>1 DEF AcceptLoses
  <2>2. \A d \in Clients : fd'[d] = IF d = c THEN "lost" ELSE fd[d]
    BY <2>1 DEF ControllerInv, ControllerTypeOK
  <2>3. \A d \in Clients : fd[d] # "lost"
    BY <1>1 DEF AcceptLoses, LostInv
  <2>4. listener' = "done"
    BY <1>1 DEF AcceptLoses
  <2> QED
    BY <2>2, <2>3, <2>4 DEF LostInv
<1>2. ASSUME \A c \in Clients : fd'[c] = "lost" => fd[c] = "lost", listener = "done" => listener' = "done"
      PROVE  LostInv'
  BY <1>2 DEF LostInv
<1>3. CASE Start
  <2>1. listener = "none"
    BY <1>3 DEF Start, ControllerInv, ControllerStopInv
  <2> QED
    BY <1>2, <1>3, <2>1 DEF Start
<1>4. CASE Stop \/ StopStep \/ SpuriousWake
  BY <1>2, <1>4 DEF Stop, StopStep, SpuriousWake, ShutdownListener, JoinListener, ShutdownAll, Wake,
                    TestEmpty, ShutdownConns
<1>5. CASE AcceptLoop \/ AcceptFails \/ Spawn \/ Register
  BY <1>2, <1>5 DEF AcceptLoop, AcceptFails, Spawn, Register
<1>6. CASE Accept
  <2>1. listener # "done" /\ \A d \in Clients : fd'[d] = "lost" => fd[d] = "lost"
    BY <1>6 DEF Accept, ControllerInv, ControllerTypeOK
  <2> QED
    BY <1>2, <2>1
<1>7. ASSUME NEW c \in Clients, HandlerStep(c) PROVE LostInv'
  <2>1. listener' = listener /\ \A d \in Clients : fd'[d] = "lost" => fd[d] = "lost"
    BY <1>7 DEF HandlerStep, HandleLoop, Receive, ReceiveEof, Send, SendFails, ShutdownClient,
                LockConns, Erase, ShutdownConns, ControllerInv, ControllerTypeOK
  <2> QED
    BY <1>2, <2>1
<1>8. ASSUME NEW c \in Clients, ClientStep(c) PROVE LostInv'
  <2>1. listener' = listener /\ \A d \in Clients : fd'[d] = "lost" => fd[d] = "lost"
    BY <1>8 DEF ClientStep, Connect, SendRequest, ReceiveResponse, ReceiveFails, CloseClient,
                ControllerInv, ControllerTypeOK
  <2> QED
    BY <1>2, <2>1
<1>9. CASE UNCHANGED controllerVars
  BY <1>2, <1>9 DEF controllerVars
<1> QED
  BY <1>1, <1>3, <1>4, <1>5, <1>6, <1>7, <1>8, <1>9 DEF ControllerNext, ListenerStep, Over

\* When stop() returns every detached thread has left the controller, and no socket is open but
\* the one that accept_client may have lost: the table is empty, nothing can enter it once the
\* listener is joined, and a connection that was never in it is one that nobody accepted, or
\* the lost one.
THEOREM StopOutlivesTheThreads == ControllerSpec => []NoThreadOutlivesStop
<1>1. ControllerInv /\ LostInv => NoThreadOutlivesStop
  BY DEF ControllerInv, ControllerTypeOK, Handling, ConnTableInv, ConnSocketInv,
     ControllerStopInv, LostInv, NoThreadOutlivesStop
<1>2. ControllerInit => LostInv
  BY DEF ControllerInit, LostInv
<1>3. ControllerInv /\ LostInv /\ [ControllerNext]_controllerVars => LostInv'
  BY LostStep
<1>4. QED
  BY <1>1, <1>2, <1>3, ControllerInvHolds, PTL DEF ControllerSpec

-----------------------------------------------------------------------------
(* Shards: numbers and loops *)

\* A set with m, and with i whenever it has i - 1, has every number from m to n.
LEMMA UpFrom ==
  ASSUME NEW m \in Nat, NEW n \in Nat, NEW T, m \in T,
         \A i \in m + 1 .. n : i - 1 \in T => i \in T
  PROVE  \A i \in m .. n : i \in T
<1> DEFINE Missing == {i \in m .. n : i \notin T}
<1> SUFFICES ASSUME Missing # {} PROVE FALSE
  OBVIOUS
<1>1. PICK x \in Missing : \A y \in Missing : x <= y
  <2>1. Missing \in SUBSET Nat
    OBVIOUS
  <2> HIDE DEF Missing
  <2> QED BY <2>1, LeastOfNat
<1>2. x \in m .. n /\ x \notin T /\ x # m
  BY <1>1
<1>3. x - 1 \in m .. n /\ x - 1 \notin Missing
  BY <1>1, <1>2
<1>4. x \in m + 1 .. n /\ x - 1 \in T
  BY <1>2, <1>3
<1> QED BY <1>2, <1>4

\* The values of a loop: the first one, and each from the one before in its turn.
Turns(f, n, S, first, turn) ==
  f \in [0 .. n -> S] /\ f[0] = first /\ \A i \in 1 .. n : f[i] = turn[<<i, f[i - 1]>>]

\* Every loop has its values.
LEMMA TurnsExist ==
  ASSUME NEW n \in Nat, NEW S, NEW first \in S, NEW turn \in [(1 .. n) \X S -> S]
  PROVE  \E f : Turns(f, n, S, first, turn)
<1> USE DEF Turns
<1> DEFINE Good(f, m) == Turns(f, m, S, first, turn)
           T == {m \in 0 .. n : \E f : Good(f, m)}
<1>1. 0 \in T
  <2> DEFINE f == [i \in 0 .. 0 |-> first]
  <2>2. f \in [0 .. 0 -> S] /\ f[0] = first
    OBVIOUS
  <2>3. \A i \in 1 .. 0 : FALSE
    OBVIOUS
  <2>1. Good(f, 0)
    BY <2>2, <2>3
  <2> HIDE DEF Good, f
  <2> QED BY <2>1
<1>2. ASSUME NEW m \in 1 .. n, m - 1 \in T PROVE m \in T
  <2>1. PICK f : Good(f, m - 1)
    BY <1>2
  <2> DEFINE h == [i \in 0 .. m |-> IF i = m THEN turn[<<m, f[m - 1]>>] ELSE f[i]]
  <2>2. m - 1 \in 0 .. m - 1 /\ f[m - 1] \in S
    BY <2>1
  <2>3. turn[<<m, f[m - 1]>>] \in S
    BY <2>2
  <2>4. h \in [0 .. m -> S] /\ h[0] = first
    BY <2>1, <2>3
  <2>5. ASSUME NEW i \in 1 .. m PROVE h[i] = turn[<<i, h[i - 1]>>]
    <3>1. i - 1 \in 0 .. m /\ i - 1 # m /\ h[i - 1] = f[i - 1]
      OBVIOUS
    <3>2. CASE i = m
      BY <3>1, <3>2
    <3>3. CASE i # m
      <4>1. i \in 1 .. m - 1 /\ h[i] = f[i]
        BY <3>3
      <4> QED BY <4>1, <3>1, <2>1
    <3> QED BY <3>2, <3>3
  <2>6. Good(h, m)
    BY <2>4, <2>5
  <2> HIDE DEF Good
  <2> QED BY <2>6
<1>3. n \in T
  <2> HIDE DEF T
  <2>1. \A i \in 0 + 1 .. n : i - 1 \in T => i \in T
    BY <1>2
  <2>2. \A i \in 0 .. n : i \in T
    BY <1>1, <2>1, UpFrom
  <2> QED BY <2>2
<1> QED BY <1>3

-----------------------------------------------------------------------------
(* The powers of Base *)

\* Products of naturals.
LEMMA Products ==
  ASSUME NEW a \in Nat, NEW b \in Nat
  PROVE  /\ a * b \in Nat
         /\ a \in Nat \ {0} /\ b \in Nat \ {0} => a * b \in Nat \ {0}
         /\ \A c \in Nat : a <= c => a * b <= c * b
<1>1. a * b \in Nat
  OBVIOUS
<1>2. ASSUME a \in Nat \ {0}, b \in Nat \ {0} PROVE a * b \in Nat \ {0}
  <2>1. PICK d \in Nat : a = d + 1
    <3>1. a - 1 \in Nat /\ a = (a - 1) + 1
      BY <1>2
    <3> QED BY <3>1
  <2>2. a * b = d * b + b /\ d * b \in Nat
    BY <2>1
  <2> QED BY <2>2, <1>2
<1>3. ASSUME NEW c \in Nat, a <= c PROVE a * b <= c * b
  <2>1. PICK d \in Nat : c = a + d
    <3>1. c - a \in Nat /\ c = a + (c - a)
      BY <1>3
    <3> QED BY <3>1
  <2>2. c * b = a * b + d * b /\ d * b \in Nat
    BY <2>1
  <2> QED BY <2>2
<1> QED BY <1>1, <1>2, <1>3

\* GRANULARITY_OPTS has the powers of the number of characters.
LEMMA Powers ==
  /\ MaxGranularity \in Nat \ {0} /\ Base \in Nat /\ Base >= 2
  /\ GRANULARITY_OPTS \in [0 .. MaxGranularity -> Nat \ {0}]
  /\ GRANULARITY_OPTS[0] = 1
  /\ \A i \in 1 .. MaxGranularity : GRANULARITY_OPTS[i] = GRANULARITY_OPTS[i - 1] * Base
<1>1. MaxGranularity \in Nat \ {0} /\ Base \in Nat /\ Base >= 2
  BY ShardAssumption
<1> DEFINE N == Nat \ {0}
           turn == [x \in (1 .. MaxGranularity) \X N |-> x[2] * Base]
<1>2. \A a \in N : a * Base \in N
  BY <1>1, Products
<1>3. turn \in [(1 .. MaxGranularity) \X N -> N]
  BY <1>2
<1>4. PICK f \in [0 .. MaxGranularity -> N] :
        f[0] = 1 /\ \A i \in 1 .. MaxGranularity : f[i] = turn[<<i, f[i - 1]>>]
  <2> HIDE DEF turn
  <2> DEFINE one == 1
  <2>1. MaxGranularity \in Nat /\ one \in N
    BY <1>1
  <2> HIDE DEF N, one
  <2>2. \E f : Turns(f, MaxGranularity, N, one, turn)
    BY <2>1, <1>3, TurnsExist
  <2> QED BY <2>2 DEF one, Turns
<1>5. ASSUME NEW i \in 1 .. MaxGranularity PROVE f[i] = f[i - 1] * Base
  <2>1. i - 1 \in 0 .. MaxGranularity /\ f[i - 1] \in N
    BY <1>1
  <2>2. <<i, f[i - 1]>> \in (1 .. MaxGranularity) \X N
    BY <2>1
  <2> QED BY <2>2, <1>4
<1>6. f = [i \in 0 .. MaxGranularity |-> IF i = 0 THEN 1 ELSE f[i - 1] * Base]
  <2>1. \A i \in 0 .. MaxGranularity : f[i] = IF i = 0 THEN 1 ELSE f[i - 1] * Base
    BY <1>4, <1>5, <1>1
  <2> QED BY <2>1
<1> DEFINE G == GRANULARITY_OPTS
<1>7. G = [i \in 0 .. MaxGranularity |-> IF i = 0 THEN 1 ELSE G[i - 1] * Base]
  BY <1>6 DEF GRANULARITY_OPTS
<1> HIDE DEF G
<1>8. DOMAIN G = 0 .. MaxGranularity /\ G[0] = 1
  BY <1>1, <1>7
<1>9. ASSUME NEW i \in 1 .. MaxGranularity PROVE G[i] = G[i - 1] * Base
  <2>1. i \in 0 .. MaxGranularity /\ i # 0
    OBVIOUS
  <2> QED BY <1>7, <2>1
<1>10. \A i \in 0 .. MaxGranularity : G[i] \in N
  <2> DEFINE T == {i \in 0 .. MaxGranularity : G[i] \in N}
  <2>1. 0 \in T
    BY <1>8, <1>1
  <2>2. \A i \in 0 + 1 .. MaxGranularity : i - 1 \in T => i \in T
    BY <1>9, <1>2
  <2> HIDE DEF T
  <2>3. \A i \in 0 .. MaxGranularity : i \in T
    BY <1>1, <2>1, <2>2, UpFrom
  <2> QED BY <2>3 DEF T
<1>11. G \in [0 .. MaxGranularity -> N]
  BY <1>7, <1>8, <1>10
<1> QED BY <1>1, <1>8, <1>9, <1>11 DEF G

-----------------------------------------------------------------------------
(* Keys as numbers *)

\* Quotients and remainders.
LEMMA Division ==
  ASSUME NEW a \in Nat, NEW h \in Nat \ {0}
  PROVE  a \div h \in Nat /\ a % h \in 0 .. h - 1 /\ a = h * (a \div h) + (a % h)
<1>1. a \div h \in Nat /\ a % h \in 0 .. h - 1
  OBVIOUS
<1>2. \A x, y \in Int : y > 0 => x = y * (x \div y) + (x % y)
  OBVIOUS
<1>3. a \in Int /\ h \in Int /\ h > 0
  OBVIOUS
<1> QED BY <1>1, <1>2, <1>3

\* There is one remainder.
LEMMA OneRemainder ==
  ASSUME NEW h \in Nat \ {0}, NEW p \in Nat, NEW q \in Nat, NEW r \in 0 .. h - 1, NEW t \in 0 .. h - 1,
         h * p + r = h * q + t
  PROVE  r = t
<1>1. ASSUME NEW x \in Nat, NEW y \in Nat, NEW u \in 0 .. h - 1, NEW v \in 0 .. h - 1,
             h * x + u = h * y + v, x < y
      PROVE  FALSE
  <2>1. PICK d \in Nat : y = x + 1 + d
    <3>1. y - x - 1 \in Nat /\ y = x + 1 + (y - x - 1)
      BY <1>1
    <3> QED BY <3>1
  <2>2. h * y = h * x + h + h * d /\ h * d \in Nat /\ h * x \in Nat
    BY <2>1
  <2> QED BY <1>1, <2>2
<1>2. ~(p < q) /\ ~(q < p)
  BY <1>1
<1>3. p = q
  BY <1>2
<1> QED BY <1>3

\* x is a digit below c at the place of the power h, and what a has behind it.
SplitsOff(x, a, h, c) == x \in Nat /\ x \div h \in 0 .. c - 1 /\ x = (x \div h) * h + (a % h)

\* The digit at a place, and what is left behind it.
LEMMA DigitOf ==
  ASSUME NEW a \in Nat, NEW h \in Nat \ {0}, NEW c \in Nat \ {0}, NEW k, k = h * c,
         NEW x, x = a % k
  PROVE  SplitsOff(x, a, h, c)
<1>1. k \in Nat \ {0}
  BY Products
<1>2. a \div k \in Nat /\ x \in 0 .. k - 1 /\ a = k * (a \div k) + x
  BY <1>1, Division
<1>3. PICK m \in Nat : m = a \div k
  BY <1>2
<1>4. PICK q \in Nat, r \in 0 .. h - 1 : q = x \div h /\ r = x % h /\ x = h * q + r
  <2>1. x \in Nat
    BY <1>1, <1>2
  <2> QED BY <2>1, Division
<1>5. PICK p \in Nat, t \in 0 .. h - 1 : t = a % h /\ a = h * p + t
  BY Division
<1>6. a = h * (c * m + q) + r /\ c * m + q \in Nat
  <2>1. a = (h * c) * m + (h * q + r)
    BY <1>2, <1>3, <1>4
  <2>2. (h * c) * m = h * (c * m) /\ c * m \in Nat
    OBVIOUS
  <2>3. h * (c * m + q) = h * (c * m) + h * q
    BY <2>2
  <2> QED BY <2>1, <2>2, <2>3
<1>7. r = t
  <2> DEFINE w == c * m + q
  <2>1. w \in Nat /\ h * w + r = h * p + t
    BY <1>5, <1>6
  <2> HIDE DEF w
  <2> QED BY <2>1, OneRemainder
<1>8. q < c
  <2> SUFFICES ASSUME c <= q PROVE FALSE
    OBVIOUS
  <2>1. c * h <= q * h
    BY Products
  <2>2. h * c = c * h /\ h * q = q * h
    OBVIOUS
  <2>3. x >= k /\ k \in Nat
    BY <2>1, <2>2, <1>4, <1>1
  <2> QED BY <2>3, <1>2
<1>9. x \in Nat /\ x \div h \in 0 .. c - 1
  BY <1>1, <1>2, <1>4, <1>8
<1>10. x = (x \div h) * h + (a % h)
  <2>1. x = h * q + t /\ h * q = q * h
    BY <1>4, <1>7
  <2> QED BY <2>1, <1>4, <1>5
<1> QED BY <1>9, <1>10 DEF SplitsOff

\* A key is a sequence of its granularity.
LEMMA KeyIsSeq ==
  ASSUME NEW g \in Nat, NEW s \in KeysOf(g)
  PROVE  s \in Seq(Digits) /\ Len(s) = g /\ DOMAIN s = 1 .. g /\ \A i \in 1 .. g : s[i] \in 0 .. Base - 1
<1>1. s \in [1 .. g -> Digits]
  BY DEF KeysOf
<1>2. s \in Seq(Digits)
  BY <1>1, SeqDef
<1>3. Len(s) \in Nat /\ DOMAIN s = 1 .. Len(s)
  BY <1>2, LenProperties
<1>4. Len(s) = g
  BY <1>1, <1>3
<1> QED BY <1>1, <1>2, <1>4 DEF Digits

\* The powers of the places of a key.
LEMMA PlacePower ==
  ASSUME NEW g \in 0 .. MaxGranularity, NEW i \in 1 .. g
  PROVE  /\ GRANULARITY_OPTS[g - i] \in Nat \ {0}
         /\ GRANULARITY_OPTS[g - (i - 1)] = GRANULARITY_OPTS[g - i] * Base
<1>1. g - i \in 0 .. MaxGranularity /\ g - (i - 1) \in 1 .. MaxGranularity /\ g - (i - 1) - 1 = g - i
  BY Powers
<1> QED BY <1>1, Powers

\* The loop of str_to_bucket.
LEMMA BucketTurns ==
  ASSUME NEW g \in 0 .. MaxGranularity, NEW s \in KeysOf(g)
  PROVE  /\ BucketOf(s)[0] = 0
         /\ \A i \in 1 .. g : BucketOf(s)[i] = BucketOf(s)[i - 1] + s[i] * GRANULARITY_OPTS[g - i]
         /\ \A i \in 0 .. g : BucketOf(s)[i] \in Nat
         /\ str_to_bucket(s) = BucketOf(s)[g]
<1>1. g \in Nat /\ Len(s) = g /\ \A i \in 1 .. g : s[i] \in Nat
  BY KeyIsSeq, Powers
<1> DEFINE turn == [x \in (1 .. g) \X Nat |-> x[2] + s[x[1]] * GRANULARITY_OPTS[g - x[1]]]
<1>2. ASSUME NEW i \in 1 .. g, NEW b \in Nat PROVE b + s[i] * GRANULARITY_OPTS[g - i] \in Nat
  <2>1. GRANULARITY_OPTS[g - i] \in Nat /\ s[i] \in Nat
    BY <1>1, PlacePower
  <2> QED BY <2>1
<1>3. turn \in [(1 .. g) \X Nat -> Nat]
  BY <1>2
<1>4. PICK f : Turns(f, g, Nat, 0, turn)
  <2> HIDE DEF turn
  <2> DEFINE zero == 0
  <2>1. zero \in Nat
    OBVIOUS
  <2> HIDE DEF zero
  <2>2. \E f : Turns(f, g, Nat, zero, turn)
    BY <2>1, <1>1, <1>3, TurnsExist
  <2> QED BY <2>2 DEF zero
<1>5. f \in [0 .. g -> Nat] /\ f[0] = 0 /\ \A i \in 1 .. g : f[i] = turn[<<i, f[i - 1]>>]
  BY <1>4 DEF Turns
<1>6. ASSUME NEW i \in 1 .. g PROVE f[i] = f[i - 1] + s[i] * GRANULARITY_OPTS[g - i]
  <2>1. i - 1 \in 0 .. g /\ f[i - 1] \in Nat
    BY <1>1, <1>5
  <2>2. <<i, f[i - 1]>> \in (1 .. g) \X Nat
    BY <2>1
  <2> QED BY <2>2, <1>5
<1>7. f = [i \in 0 .. Len(s) |-> IF i = 0 THEN 0 ELSE f[i - 1] + s[i] * GRANULARITY_OPTS[Len(s) - i]]
  <2>1. \A i \in 0 .. g : f[i] = IF i = 0 THEN 0 ELSE f[i - 1] + s[i] * GRANULARITY_OPTS[g - i]
    BY <1>1, <1>5, <1>6
  <2> QED BY <2>1, <1>1, <1>5
<1> DEFINE B == BucketOf(s)
<1>8. B = [i \in 0 .. g |-> IF i = 0 THEN 0 ELSE B[i - 1] + s[i] * GRANULARITY_OPTS[g - i]]
  <2>1. B = [i \in 0 .. Len(s) |-> IF i = 0 THEN 0 ELSE B[i - 1] + s[i] * GRANULARITY_OPTS[Len(s) - i]]
    BY <1>7 DEF BucketOf
  <2> QED BY <2>1, <1>1
<1>9. str_to_bucket(s) = B[g]
  BY <1>1 DEF str_to_bucket
<1> HIDE DEF B
<1>10. B[0] = 0
  BY <1>1, <1>8
<1>11. ASSUME NEW i \in 1 .. g PROVE B[i] = B[i - 1] + s[i] * GRANULARITY_OPTS[g - i]
  <2>1. i \in 0 .. g /\ i # 0
    BY <1>1
  <2> QED BY <2>1, <1>8
<1>12. \A i \in 0 .. g : B[i] \in Nat
  <2> DEFINE T == {i \in 0 .. g : B[i] \in Nat}
  <2>1. 0 \in T
    BY <1>1, <1>10
  <2>2. ASSUME NEW i \in 0 + 1 .. g, i - 1 \in T PROVE i \in T
    <3>1. i \in 1 .. g /\ i \in 0 .. g /\ B[i - 1] \in Nat
      BY <1>1, <2>2
    <3>2. B[i] \in Nat
      BY <3>1, <1>11, <1>2
    <3> QED BY <3>1, <3>2
  <2> HIDE DEF T
  <2>3. \A i \in 0 .. g : i \in T
    BY <1>1, <2>1, <2>2, UpFrom
  <2> QED BY <2>3 DEF T
<1> QED BY <1>9, <1>10, <1>11, <1>12 DEF B

\* What the turns behind one can still add is less than the power of its place.
LEMMA BucketTail ==
  ASSUME NEW g \in 0 .. MaxGranularity, NEW s \in KeysOf(g), NEW m \in 0 .. g
  PROVE  \A i \in m .. g :
           /\ BucketOf(s)[m] <= BucketOf(s)[i]
           /\ BucketOf(s)[i] + GRANULARITY_OPTS[g - i] <= BucketOf(s)[m] + GRANULARITY_OPTS[g - m]
<1> DEFINE B == BucketOf(s)  G == GRANULARITY_OPTS
           T == {i \in m .. g : B[m] <= B[i] /\ B[i] + G[g - i] <= B[m] + G[g - m]}
<1>1. g \in Nat /\ m \in Nat
  BY Powers
<1>2. \A i \in 0 .. g : B[i] \in Nat /\ G[g - i] \in Nat
  <2>1. \A i \in 0 .. g : g - i \in 0 .. MaxGranularity
    BY Powers
  <2> QED BY <2>1, BucketTurns, Powers
<1>3. m \in T
  BY <1>1, <1>2
<1>4. ASSUME NEW i \in m + 1 .. g, i - 1 \in T PROVE i \in T
  <2>1. i \in 1 .. g /\ i \in m .. g /\ i - 1 \in 0 .. g
    BY <1>1
  <2>2. s[i] \in 0 .. Base - 1 /\ Base \in Nat
    BY <1>1, <2>1, KeyIsSeq, Powers
  <2>3. PICK h \in Nat : h = G[g - i]
    BY <2>1, PlacePower
  <2>4. G[g - (i - 1)] = h * Base
    BY <2>1, <2>3, PlacePower
  <2>5. B[i] = B[i - 1] + s[i] * h
    BY <2>1, <2>3, BucketTurns
  <2>6. (s[i] + 1) * h <= Base * h /\ (s[i] + 1) * h = s[i] * h + h /\ s[i] * h \in Nat
    BY <2>2, Products
  <2>7. h * Base = Base * h
    BY <2>2
  <2>8. B[i - 1] \in Nat /\ B[m] \in Nat /\ G[g - m] \in Nat /\ Base * h \in Nat
    BY <1>2, <2>1, <2>2
  <2>9. B[m] <= B[i - 1] /\ B[i - 1] + Base * h <= B[m] + G[g - m]
    BY <1>4, <2>4, <2>7
  <2>10. B[m] <= B[i] /\ B[i] + h <= B[m] + G[g - m]
    BY <2>5, <2>6, <2>8, <2>9
  <2> QED BY <2>1, <2>3, <2>10
<1> HIDE DEF T
<1>5. \A i \in m .. g : i \in T
  BY <1>1, <1>3, <1>4, UpFrom
<1> QED BY <1>5 DEF T

\* The bucket of a key is one of its granularity.
LEMMA BucketRange ==
  ASSUME NEW g \in 0 .. MaxGranularity, NEW s \in KeysOf(g)
  PROVE  str_to_bucket(s) \in 0 .. GRANULARITY_OPTS[g] - 1
<1>1. g \in Nat /\ 0 \in 0 .. g /\ g \in 0 .. g /\ g - g = 0 /\ g - 0 = g
  BY Powers
<1>2. BucketOf(s)[g] + GRANULARITY_OPTS[g - g] <= BucketOf(s)[0] + GRANULARITY_OPTS[g - 0]
  BY <1>1, BucketTail
<1>3. GRANULARITY_OPTS[g] \in Nat /\ GRANULARITY_OPTS[0] = 1
  BY Powers
<1> QED BY <1>1, <1>2, <1>3, BucketTurns

\* Keys that begin alike have the same buckets so far.
LEMMA SamePrefix ==
  ASSUME NEW g \in 0 .. MaxGranularity, NEW s \in KeysOf(g), NEW t \in KeysOf(g), NEW n \in 0 .. g,
         \A j \in 1 .. n : s[j] = t[j]
  PROVE  BucketOf(s)[n] = BucketOf(t)[n]
<1> DEFINE T == {i \in 0 .. n : BucketOf(s)[i] = BucketOf(t)[i]}
<1>1. g \in Nat /\ n \in Nat
  BY Powers
<1>2. 0 \in T
  BY <1>1, BucketTurns
<1>3. ASSUME NEW i \in 0 + 1 .. n, i - 1 \in T PROVE i \in T
  <2>1. i \in 1 .. n /\ i \in 1 .. g /\ i \in 0 .. n
    BY <1>1
  <2>2. BucketOf(s)[i] = BucketOf(s)[i - 1] + s[i] * GRANULARITY_OPTS[g - i]
    BY <2>1, BucketTurns
  <2>3. BucketOf(t)[i] = BucketOf(t)[i - 1] + t[i] * GRANULARITY_OPTS[g - i]
    BY <2>1, BucketTurns
  <2>4. s[i] = t[i] /\ BucketOf(s)[i - 1] = BucketOf(t)[i - 1]
    BY <1>3, <2>1
  <2> QED BY <2>1, <2>2, <2>3, <2>4
<1> HIDE DEF T
<1>4. \A i \in 0 .. n : i \in T
  BY <1>1, <1>2, <1>3, UpFrom
<1>5. n \in T
  BY <1>1, <1>4
<1> QED BY <1>5 DEF T

\* The first character in which two keys differ decides.
LEMMA FirstDecides ==
  ASSUME NEW g \in 0 .. MaxGranularity, NEW s \in KeysOf(g), NEW t \in KeysOf(g), NEW i \in 1 .. g,
         \A j \in 1 .. i - 1 : s[j] = t[j], s[i] < t[i]
  PROVE  str_to_bucket(s) < str_to_bucket(t)
<1>1. g \in Nat /\ i \in Nat /\ i - 1 \in 0 .. g /\ i \in 0 .. g /\ g \in i .. g
  BY Powers
<1>2. BucketOf(s)[i - 1] = BucketOf(t)[i - 1]
  BY <1>1, SamePrefix
<1>3. PICK h \in Nat \ {0} : h = GRANULARITY_OPTS[g - i]
  BY PlacePower
<1>4. PICK a \in Nat, b \in Nat : a = s[i] /\ b = t[i] /\ a + 1 <= b
  <2>1. Base \in Nat
    BY Powers
  <2>2. PICK a \in 0 .. Base - 1, b \in 0 .. Base - 1 : a = s[i] /\ b = t[i]
    BY <1>1, KeyIsSeq
  <2>3. a \in Nat /\ b \in Nat /\ a + 1 <= b
    BY <2>1, <2>2
  <2> QED BY <2>2, <2>3
<1>5. PICK x \in Nat : x = BucketOf(s)[i - 1]
  BY <1>1, BucketTurns
<1>6. BucketOf(s)[i] = x + a * h
  BY <1>3, <1>4, <1>5, BucketTurns
<1>7. BucketOf(t)[i] = x + b * h
  BY <1>2, <1>3, <1>4, <1>5, BucketTurns
<1>8. (a + 1) * h <= b * h /\ (a + 1) * h = a * h + h /\ a * h \in Nat /\ b * h \in Nat
  BY <1>4, Products
<1>9. BucketOf(s)[g] + GRANULARITY_OPTS[g - g] <= x + a * h + h
  BY <1>1, <1>3, <1>6, BucketTail
<1>10. x + b * h <= BucketOf(t)[g]
  BY <1>1, <1>7, BucketTail
<1>11. g - g = 0 /\ GRANULARITY_OPTS[0] = 1 /\ g \in 0 .. g
  BY <1>1, Powers
<1>12. BucketOf(s)[g] \in Nat /\ BucketOf(t)[g] \in Nat
  BY <1>11, BucketTurns
<1>13. BucketOf(s)[g] + 1 <= x + a * h + h
  BY <1>9, <1>11
<1>14. BucketOf(s)[g] < BucketOf(t)[g]
  BY <1>8, <1>10, <1>12, <1>13
<1> QED BY <1>14, BucketTurns

\* Two keys that differ have a first character in which they do.
LEMMA FirstDifference ==
  ASSUME NEW g \in 0 .. MaxGranularity, NEW s \in KeysOf(g), NEW t \in KeysOf(g), s # t
  PROVE  \E i \in 1 .. g : s[i] # t[i] /\ \A j \in 1 .. i - 1 : s[j] = t[j]
<1> DEFINE D == {i \in 1 .. g : s[i] # t[i]}
<1>1. g \in Nat
  BY Powers
<1>2. D # {}
  BY <1>1 DEF KeysOf
<1>3. D \in SUBSET Nat
  BY <1>1
<1>4. PICK i \in D : \A j \in D : i <= j
  <2> HIDE DEF D
  <2> QED BY <1>2, <1>3, LeastOfNat
<1>5. \A j \in 1 .. i - 1 : s[j] = t[j]
  BY <1>1, <1>4
<1> QED BY <1>4, <1>5

\* Strings of one length compare as their first difference says.
LEMMA LessAt ==
  ASSUME NEW g \in 0 .. MaxGranularity, NEW s \in KeysOf(g), NEW t \in KeysOf(g)
  PROVE  Less(s, t) <=> \E i \in 1 .. g : s[i] < t[i] /\ \A j \in 1 .. i - 1 : s[j] = t[j]
<1>1. g \in Nat /\ Len(s) = g /\ Len(t) = g /\ \A i \in 1 .. g : s[i] \in Digits /\ t[i] \in Digits
  BY KeyIsSeq, Powers DEF KeysOf
<1>2. ASSUME NEW i \in 1 .. g
      PROVE  SubSeq(s, 1, i - 1) = SubSeq(t, 1, i - 1) <=> \A j \in 1 .. i - 1 : s[j] = t[j]
  <2> DEFINE a == SubSeq(s, 1, i - 1)  b == SubSeq(t, 1, i - 1)
  <2>1. i - 1 \in Int /\ 1 \in Int /\ \A j \in 1 .. i - 1 : s[j] \in Digits /\ t[j] \in Digits
    BY <1>1
  <2>2. a \in Seq(Digits) /\ Len(a) = (IF 1 <= i - 1 THEN i - 1 - 1 + 1 ELSE 0)
        /\ \A j \in 1 .. i - 1 - 1 + 1 : a[j] = s[1 + j - 1]
    BY <2>1, SubSeqProperties
  <2>3. b \in Seq(Digits) /\ Len(b) = (IF 1 <= i - 1 THEN i - 1 - 1 + 1 ELSE 0)
        /\ \A j \in 1 .. i - 1 - 1 + 1 : b[j] = t[1 + j - 1]
    BY <2>1, SubSeqProperties
  <2> HIDE DEF a, b
  <2>4. Len(a) = i - 1 /\ Len(b) = i - 1 /\ \A j \in 1 .. i - 1 : a[j] = s[j] /\ b[j] = t[j]
    BY <2>2, <2>3, <1>1
  <2>5. ASSUME \A j \in 1 .. i - 1 : s[j] = t[j] PROVE a = b
    <3>1. \A j \in 1 .. Len(a) : a[j] = b[j]
      BY <2>4, <2>5
    <3> QED BY <3>1, <2>2, <2>3, <2>4, SeqEqual
  <2>6. ASSUME a = b PROVE \A j \in 1 .. i - 1 : s[j] = t[j]
    BY <2>4, <2>6
  <2> QED BY <2>5, <2>6 DEF a, b
<1>3. ~(Len(s) < Len(t))
  BY <1>1
<1>4. Less(s, t) <=> \E i \in 1 .. g : s[i] < t[i] /\ SubSeq(s, 1, i - 1) = SubSeq(t, 1, i - 1)
  BY <1>1, <1>3 DEF Less
<1> QED BY <1>2, <1>4

\* Keys of one granularity compare as their buckets.
LEMMA KeysCompare ==
  ASSUME NEW g \in 0 .. MaxGranularity, NEW s \in KeysOf(g), NEW t \in KeysOf(g)
  PROVE  /\ Less(s, t) <=> str_to_bucket(s) < str_to_bucket(t)
         /\ LessEq(s, t) <=> str_to_bucket(s) <= str_to_bucket(t)
         /\ s = t <=> str_to_bucket(s) = str_to_bucket(t)
<1>1. str_to_bucket(s) \in Nat /\ str_to_bucket(t) \in Nat
  <2>1. GRANULARITY_OPTS[g] \in Nat
    BY Powers
  <2> QED BY <2>1, BucketRange
<1>2. Less(s, t) => str_to_bucket(s) < str_to_bucket(t)
  BY LessAt, FirstDecides
<1>3. ASSUME s # t PROVE Less(s, t) \/ str_to_bucket(t) < str_to_bucket(s)
  <2>1. PICK i \in 1 .. g : s[i] # t[i] /\ \A j \in 1 .. i - 1 : s[j] = t[j]
    BY <1>3, FirstDifference
  <2>2. s[i] < t[i] \/ t[i] < s[i]
    <3>1. g \in Nat
      BY Powers
    <3>2. PICK a \in 0 .. Base - 1, b \in 0 .. Base - 1 : a = s[i] /\ b = t[i]
      BY <3>1, KeyIsSeq
    <3>3. Base \in Nat
      BY Powers
    <3> QED BY <2>1, <3>2, <3>3
  <2>3. CASE s[i] < t[i]
    BY <2>1, <2>3, LessAt
  <2>4. CASE t[i] < s[i]
    <3>1. \A j \in 1 .. i - 1 : t[j] = s[j]
      BY <2>1
    <3> QED BY <2>4, <3>1, FirstDecides
  <2> QED BY <2>2, <2>3, <2>4
<1>4. str_to_bucket(s) < str_to_bucket(t) => s # t
  BY <1>1
<1> QED BY <1>1, <1>2, <1>3, <1>4 DEF LessEq

\* A bucket has its key.
LEMMA BucketHasKey ==
  ASSUME NEW g \in 1 .. MaxGranularity, NEW b \in 0 .. GRANULARITY_OPTS[g] - 1
  PROVE  bucket_to_str(b, g) \in KeysOf(g) /\ str_to_bucket(bucket_to_str(b, g)) = b
<1> DEFINE G == GRANULARITY_OPTS  s == bucket_to_str(b, g)
<1>1. g \in Nat /\ g \in 0 .. MaxGranularity /\ G[g] \in Nat /\ b \in Nat
      /\ Base \in Nat \ {0} /\ MaxGranularity \in Nat
  BY Powers
<1>2. b % G[g] = b
  BY <1>1
<1>3. s = [i \in 1 .. g |-> (IF i = 1 THEN b ELSE b % G[g - i + 1]) \div G[g - i]]
  BY DEF bucket_to_str
<1> HIDE DEF s, G
<1>4. ASSUME NEW i \in 1 .. g
      PROVE  /\ s[i] = (b % G[g - (i - 1)]) \div G[g - i]
             /\ s[i] \in 0 .. Base - 1
             /\ (b % G[g - (i - 1)]) = s[i] * G[g - i] + (b % G[g - i])
             /\ b % G[g - (i - 1)] \in Nat /\ b % G[g - i] \in Nat
  <2>1. g - i + 1 = g - (i - 1) /\ (i = 1 => g - (i - 1) = g)
    BY <1>1
  <2>2. s[i] = (b % G[g - (i - 1)]) \div G[g - i]
    BY <1>2, <1>3, <2>1
  <2>3. PICK h \in Nat \ {0} : h = G[g - i]
    BY <1>1, PlacePower DEF G
  <2>4. G[g - (i - 1)] = h * Base
    BY <1>1, <2>3, PlacePower DEF G
  <2> DEFINE k == h * Base  x == b % k
  <2>5. k = h * Base /\ x = b % k
    OBVIOUS
  <2> HIDE DEF k, x
  <2>6. /\ x \in Nat /\ x \div h \in 0 .. Base - 1
        /\ x = (x \div h) * h + (b % h)
    <3>1. b \in Nat /\ h \in Nat \ {0} /\ Base \in Nat \ {0}
      BY <1>1
    <3>2. SplitsOff(x, b, h, Base)
      BY <2>5, <3>1, DigitOf
    <3> QED BY <3>2 DEF SplitsOff
  <2>7. b % h \in Nat
    BY <1>1
  <2> QED BY <2>2, <2>3, <2>4, <2>5, <2>6, <2>7
<1>5. s \in KeysOf(g)
  BY <1>3, <1>4 DEF KeysOf, Digits
<1> DEFINE B == BucketOf(s)  T == {i \in 0 .. g : B[i] + (b % G[g - i]) = b}
<1>6. 0 \in T
  <2>1. B[0] = 0 /\ g - 0 = g
    BY <1>1, <1>5, BucketTurns
  <2> QED BY <2>1, <1>1, <1>2
<1>7. ASSUME NEW i \in 0 + 1 .. g, i - 1 \in T PROVE i \in T
  <2>1. i \in 1 .. g /\ i \in 0 .. g /\ i - 1 \in 0 .. g
    BY <1>1
  <2>2. B[i] = B[i - 1] + s[i] * G[g - i] /\ B[i - 1] \in Nat
    BY <1>1, <1>5, <2>1, BucketTurns DEF G
  <2>3. PICK x \in Nat, d \in Nat, y \in Nat, h \in Nat :
          x = b % G[g - (i - 1)] /\ d = s[i] /\ h = G[g - i] /\ y = b % h /\ x = d * h + y
    <3>1. G[g - i] \in Nat /\ s[i] \in Nat
      BY <1>1, <1>4, <2>1, PlacePower DEF G
    <3> QED BY <3>1, <1>4, <2>1
  <2>4. B[i - 1] + x = b
    BY <1>7, <2>3
  <2>5. B[i] = B[i - 1] + d * h /\ d * h \in Nat
    BY <2>2, <2>3
  <2>6. B[i] + y = b
    BY <2>2, <2>3, <2>4, <2>5
  <2> QED BY <2>1, <2>3, <2>6
<1> HIDE DEF T
<1>8. \A i \in 0 .. g : i \in T
  BY <1>1, <1>6, <1>7, UpFrom
<1>9. g \in 0 .. g /\ g - g = 0 /\ G[0] = 1
  BY <1>1, Powers DEF G
<1>10. B[g] + (b % 1) = b /\ B[g] \in Nat
  BY <1>1, <1>5, <1>8, <1>9, BucketTurns DEF T
<1>11. B[g] = b
  BY <1>10, <1>1
<1>12. str_to_bucket(s) = b
  BY <1>1, <1>5, <1>11, BucketTurns
<1> QED BY <1>5, <1>12 DEF s

-----------------------------------------------------------------------------
(* The vector of shards *)

ShardsOf(g) == [lower : KeysOf(g), upper : KeysOf(g)]

First(shard) == str_to_bucket(shard.lower)
Last(shard) == str_to_bucket(shard.upper)

\* The shards of v are ranges of buckets, one behind the other from the first bucket to
\* the last one.
Covers(v, g) ==
  /\ g \in 1 .. MaxGranularity
  /\ v \in Seq(ShardsOf(g)) /\ Len(v) >= 1
  /\ \A i \in 1 .. Len(v) : First(v[i]) <= Last(v[i])
  /\ First(v[1]) = 0
  /\ Last(v[Len(v)]) = GRANULARITY_OPTS[g] - 1
  /\ \A i \in 1 .. Len(v) - 1 : First(v[i + 1]) = Last(v[i]) + 1

ShardInv == \E g : Covers(shards, g)

\* The ends of a shard are keys of its granularity, and buckets.
LEMMA ShardEnds ==
  ASSUME NEW g \in 1 .. MaxGranularity, NEW x \in ShardsOf(g)
  PROVE  /\ x.lower \in KeysOf(g) /\ x.upper \in KeysOf(g) /\ granularity(x) = g
         /\ First(x) \in 0 .. GRANULARITY_OPTS[g] - 1 /\ Last(x) \in 0 .. GRANULARITY_OPTS[g] - 1
         /\ First(x) \in Nat /\ Last(x) \in Nat
<1>1. x.lower \in KeysOf(g) /\ x.upper \in KeysOf(g)
  BY DEF ShardsOf
<1>2. g \in Nat /\ g \in 0 .. MaxGranularity /\ GRANULARITY_OPTS[g] \in Nat
  BY Powers
<1>3. granularity(x) = g
  BY <1>1, <1>2, KeyIsSeq DEF granularity
<1>4. First(x) \in 0 .. GRANULARITY_OPTS[g] - 1 /\ Last(x) \in 0 .. GRANULARITY_OPTS[g] - 1
  BY <1>1, <1>2, BucketRange DEF First, Last
<1> QED BY <1>1, <1>2, <1>3, <1>4

\* The shards of a vector.
LEMMA ShardAt ==
  ASSUME NEW g, NEW v, Covers(v, g), NEW i \in 1 .. Len(v)
  PROVE  /\ v[i] \in ShardsOf(g) /\ g \in 1 .. MaxGranularity
         /\ Len(v) \in Nat /\ DOMAIN v = 1 .. Len(v)
         /\ First(v[i]) \in Nat /\ Last(v[i]) \in Nat /\ First(v[i]) <= Last(v[i])
<1>1. g \in 1 .. MaxGranularity /\ v \in Seq(ShardsOf(g)) /\ First(v[i]) <= Last(v[i])
  BY DEF Covers
<1>2. v[i] \in ShardsOf(g) /\ Len(v) \in Nat /\ DOMAIN v = 1 .. Len(v)
  BY <1>1, ElementOfSeq, LenProperties
<1> QED BY <1>1, <1>2, ShardEnds

\* The beginning and the end of a sequence.
LEMMA PartsOfSeq ==
  ASSUME NEW S, NEW v \in Seq(S), NEW n \in Nat, n = Len(v), NEW m \in 0 .. n
  PROVE  /\ SubSeq(v, 1, m) \in Seq(S) /\ Len(SubSeq(v, 1, m)) = m
         /\ \A j \in 1 .. m : SubSeq(v, 1, m)[j] = v[j]
         /\ SubSeq(v, m + 1, n) \in Seq(S) /\ Len(SubSeq(v, m + 1, n)) = n - m
         /\ \A j \in 1 .. n - m : SubSeq(v, m + 1, n)[j] = v[m + j]
<1>1. \A j \in 1 .. n : v[j] \in S
  BY ElementOfSeq
<1>2. /\ SubSeq(v, 1, m) \in Seq(S) /\ Len(SubSeq(v, 1, m)) = m
      /\ \A j \in 1 .. m : SubSeq(v, 1, m)[j] = v[j]
  <2> DEFINE head == SubSeq(v, 1, m)
  <2>1. 1 \in Int /\ m \in Int /\ \A j \in 1 .. m : v[j] \in S
    BY <1>1
  <2>2. /\ head \in Seq(S) /\ Len(head) = (IF 1 <= m THEN m - 1 + 1 ELSE 0)
        /\ \A j \in 1 .. m - 1 + 1 : head[j] = v[1 + j - 1]
    BY <2>1, SubSeqProperties
  <2> HIDE DEF head
  <2>3. Len(head) = m
    BY <2>1, <2>2
  <2>4. ASSUME NEW j \in 1 .. m PROVE head[j] = v[j]
    <3>1. j \in 1 .. m - 1 + 1 /\ 1 + j - 1 = j
      BY <2>1
    <3> QED BY <3>1, <2>2
  <2> QED BY <2>2, <2>3, <2>4 DEF head
<1>3. /\ SubSeq(v, m + 1, n) \in Seq(S) /\ Len(SubSeq(v, m + 1, n)) = n - m
      /\ \A j \in 1 .. n - m : SubSeq(v, m + 1, n)[j] = v[m + j]
  <2> DEFINE k == m + 1  tail == SubSeq(v, k, n)
  <2>1. k \in Int /\ n \in Int /\ \A j \in k .. n : v[j] \in S
    BY <1>1
  <2>4. m \in Int /\ k = m + 1 /\ m <= n
    OBVIOUS
  <2> HIDE DEF k
  <2>2. /\ tail \in Seq(S) /\ Len(tail) = (IF k <= n THEN n - k + 1 ELSE 0)
        /\ \A j \in 1 .. n - k + 1 : tail[j] = v[k + j - 1]
    BY <2>1, SubSeqProperties
  <2> HIDE DEF tail
  <2>3. Len(tail) = n - m
    BY <2>1, <2>2, <2>4
  <2>5. ASSUME NEW j \in 1 .. n - m PROVE tail[j] = v[m + j]
    <3>1. j \in 1 .. n - k + 1 /\ k + j - 1 = m + j
      BY <2>1, <2>4
    <3> QED BY <3>1, <2>2
  <2> QED BY <2>2, <2>3, <2>5 DEF tail, k
<1> QED BY <1>2, <1>3

\* The places of a concatenation.
LEMMA PlacesOfConcat ==
  ASSUME NEW S, NEW s \in Seq(S), NEW t \in Seq(S), NEW m \in Nat, m = Len(s), NEW k \in Nat, k = Len(t)
  PROVE  /\ s \o t \in Seq(S) /\ Len(s \o t) = m + k
         /\ \A j \in 1 .. m : (s \o t)[j] = s[j]
         /\ \A j \in 1 .. k : (s \o t)[m + j] = t[j]
<1> DEFINE u == s \o t
<1>1. u \in Seq(S) /\ Len(u) = m + k
      /\ \A j \in 1 .. m + k : u[j] = IF j <= m THEN s[j] ELSE t[j - m]
  BY ConcatProperties
<1> HIDE DEF u
<1>2. ASSUME NEW j \in 1 .. m PROVE u[j] = s[j]
  BY <1>1
<1>3. ASSUME NEW j \in 1 .. k PROVE u[m + j] = t[j]
  <2>1. m + j \in 1 .. m + k /\ ~(m + j <= m) /\ m + j - m = j
    OBVIOUS
  <2> QED BY <2>1, <1>1
<1> QED BY <1>1, <1>2, <1>3 DEF u

\* Two elements for one.
TwoForOne(w, v, i, a, b) ==
  /\ Len(w) = Len(v) + 1 /\ w[i] = a /\ w[i + 1] = b
  /\ \A j \in 1 .. i - 1 : w[j] = v[j]
  /\ \A j \in i + 1 .. Len(v) : w[j + 1] = v[j]

\* Replace puts its two parts where the one was.
LEMMA ReplacedByTwo ==
  ASSUME NEW S, NEW v \in Seq(S), NEW i \in 1 .. Len(v), NEW a \in S, NEW b \in S
  PROVE  LET w == SubSeq(v, 1, i - 1) \o <<a, b>> \o SubSeq(v, i + 1, Len(v))
         IN  w \in Seq(S) /\ TwoForOne(w, v, i, a, b)
<1>1. PICK n \in Nat : n = Len(v) /\ i \in 1 .. n
  BY LenProperties
<1>2. PICK m \in Nat : m = i - 1 /\ m \in 0 .. n /\ i = m + 1 /\ i \in 0 .. n
  <2>1. i - 1 \in Nat /\ i - 1 \in 0 .. n /\ i = (i - 1) + 1 /\ i \in 0 .. n
    BY <1>1
  <2> QED BY <2>1
<1>3. PICK head : /\ head = SubSeq(v, 1, m) /\ head \in Seq(S) /\ Len(head) = m
                  /\ \A j \in 1 .. m : head[j] = v[j]
  <2>1. /\ SubSeq(v, 1, m) \in Seq(S) /\ Len(SubSeq(v, 1, m)) = m
        /\ \A j \in 1 .. m : SubSeq(v, 1, m)[j] = v[j]
    BY <1>1, <1>2, PartsOfSeq
  <2> QED BY <2>1
<1>4. PICK tail : /\ tail = SubSeq(v, i + 1, n) /\ tail \in Seq(S) /\ Len(tail) = n - i
                  /\ \A j \in 1 .. n - i : tail[j] = v[i + j]
  <2>1. /\ SubSeq(v, i + 1, n) \in Seq(S) /\ Len(SubSeq(v, i + 1, n)) = n - i
        /\ \A j \in 1 .. n - i : SubSeq(v, i + 1, n)[j] = v[i + j]
    BY <1>1, <1>2, PartsOfSeq
  <2> QED BY <2>1
<1>5. PICK ab : ab = <<a, b>> /\ ab \in Seq(S) /\ Len(ab) = 2 /\ ab[1] = a /\ ab[2] = b
  <2>1. <<a, b>> \in Seq(S) /\ Len(<<a, b>>) = 2 /\ <<a, b>>[1] = a /\ <<a, b>>[2] = b
    OBVIOUS
  <2> QED BY <2>1
<1>6. PICK front : /\ front = head \o ab /\ front \in Seq(S) /\ Len(front) = m + 2
                   /\ \A j \in 1 .. m : front[j] = head[j]
                   /\ \A j \in 1 .. 2 : front[m + j] = ab[j]
  <2>1. /\ head \o ab \in Seq(S) /\ Len(head \o ab) = m + 2
        /\ \A j \in 1 .. m : (head \o ab)[j] = head[j]
        /\ \A j \in 1 .. 2 : (head \o ab)[m + j] = ab[j]
    <3> DEFINE two == 2
    <3>1. two \in Nat /\ Len(ab) = two
      BY <1>5
    <3> HIDE DEF two
    <3>2. /\ head \o ab \in Seq(S) /\ Len(head \o ab) = m + two
          /\ \A j \in 1 .. m : (head \o ab)[j] = head[j]
          /\ \A j \in 1 .. two : (head \o ab)[m + j] = ab[j]
      BY <3>1, <1>2, <1>3, <1>5, PlacesOfConcat
    <3> QED BY <3>2 DEF two
  <2> QED BY <2>1
<1>7. PICK w : /\ w = front \o tail /\ w \in Seq(S) /\ Len(w) = m + 2 + (n - i)
               /\ \A j \in 1 .. m + 2 : w[j] = front[j]
               /\ \A j \in 1 .. n - i : w[m + 2 + j] = tail[j]
  <2> DEFINE p == m + 2  q == n - i
  <2>1. p \in Nat /\ q \in Nat /\ p = Len(front) /\ q = Len(tail) /\ front \in Seq(S) /\ tail \in Seq(S)
    BY <1>1, <1>2, <1>4, <1>6
  <2> HIDE DEF p, q
  <2>2. /\ front \o tail \in Seq(S) /\ Len(front \o tail) = p + q
        /\ \A j \in 1 .. p : (front \o tail)[j] = front[j]
        /\ \A j \in 1 .. q : (front \o tail)[p + j] = tail[j]
    BY <2>1, PlacesOfConcat
  <2> QED BY <2>2 DEF p, q
<1>8. Len(w) = n + 1
  BY <1>1, <1>2, <1>7
<1>9. w[i] = a /\ w[i + 1] = b
  <2>1. i \in 1 .. m + 2 /\ i + 1 \in 1 .. m + 2 /\ i = m + 1 /\ i + 1 = m + 2
    BY <1>1, <1>2
  <2>2. front[m + 1] = ab[1] /\ front[m + 2] = ab[2]
    BY <1>6
  <2> QED BY <2>1, <2>2, <1>5, <1>7
<1>10. ASSUME NEW j \in 1 .. m PROVE w[j] = v[j]
  <2>1. j \in 1 .. m + 2
    BY <1>2
  <2> QED BY <2>1, <1>3, <1>6, <1>7
<1>11. ASSUME NEW j \in i + 1 .. n PROVE w[j + 1] = v[j]
  <2>1. PICK k \in 1 .. n - i : k = j - i
    BY <1>1
  <2>2. m + 2 + k = j + 1 /\ i + k = j
    BY <1>1, <1>2, <2>1
  <2> QED BY <2>2, <1>4, <1>7
<1>12. w = SubSeq(v, 1, i - 1) \o <<a, b>> \o SubSeq(v, i + 1, Len(v))
  BY <1>1, <1>2, <1>3, <1>4, <1>5, <1>6, <1>7
<1>13. TwoForOne(w, v, i, a, b)
  BY <1>1, <1>2, <1>8, <1>9, <1>10, <1>11 DEF TwoForOne
<1> QED BY <1>7, <1>12, <1>13

\* A shard of a vector may be replaced by two that have its buckets.
LEMMA TwoShardsForOne ==
  ASSUME NEW g, NEW v, Covers(v, g), NEW i \in 1 .. Len(v), NEW a, NEW b, NEW w \in Seq(ShardsOf(g)),
         TwoForOne(w, v, i, a, b),
         First(a) = First(v[i]), First(a) <= Last(a), First(b) = Last(a) + 1,
         First(b) <= Last(b), Last(b) = Last(v[i])
  PROVE  Covers(w, g)
<1>1. PICK n \in Nat : n = Len(v) /\ i \in 1 .. n /\ n >= 1 /\ g \in 1 .. MaxGranularity
  <2>1. v \in Seq(ShardsOf(g)) /\ Len(v) >= 1 /\ g \in 1 .. MaxGranularity
    BY DEF Covers
  <2>2. Len(v) \in Nat
    BY <2>1, LenProperties
  <2> QED BY <2>1, <2>2
<1>2. /\ \A j \in 1 .. n : First(v[j]) <= Last(v[j])
      /\ First(v[1]) = 0 /\ Last(v[n]) = GRANULARITY_OPTS[g] - 1
      /\ \A j \in 1 .. n - 1 : First(v[j + 1]) = Last(v[j]) + 1
  BY <1>1 DEF Covers
<1>3. /\ Len(w) = n + 1 /\ w[i] = a /\ w[i + 1] = b
      /\ \A j \in 1 .. i - 1 : w[j] = v[j]
      /\ \A j \in i + 1 .. n : w[j + 1] = v[j]
  BY <1>1 DEF TwoForOne
<1>4. \A j \in 1 .. n + 1 : j \in 1 .. i - 1 \/ j = i \/ j = i + 1 \/ \E k \in i + 1 .. n : j = k + 1
  <2> TAKE j \in 1 .. n + 1
  <2>1. j \in 1 .. i - 1 \/ j = i \/ j = i + 1 \/ (j - 1 \in i + 1 .. n /\ j = (j - 1) + 1)
    BY <1>1
  <2> QED BY <2>1
<1>5. ASSUME NEW j \in 1 .. n + 1 PROVE First(w[j]) <= Last(w[j])
  <2>1. CASE j \in 1 .. i - 1
    <3>1. j \in 1 .. n
      BY <2>1, <1>1
    <3> QED BY <3>1, <2>1, <1>2, <1>3
  <2>2. CASE j = i
    BY <2>2, <1>3
  <2>3. CASE j = i + 1
    BY <2>3, <1>3
  <2>4. ASSUME NEW k \in i + 1 .. n, j = k + 1 PROVE First(w[j]) <= Last(w[j])
    <3>1. k \in 1 .. n
      BY <1>1
    <3> QED BY <3>1, <2>4, <1>2, <1>3
  <2> QED BY <2>1, <2>2, <2>3, <2>4, <1>4
<1>6. First(w[1]) = 0
  <2>1. CASE i = 1
    BY <2>1, <1>2, <1>3
  <2>2. CASE i # 1
    <3>1. 1 \in 1 .. i - 1
      BY <2>2, <1>1
    <3> QED BY <3>1, <1>2, <1>3
  <2> QED BY <2>1, <2>2
<1>7. Last(w[n + 1]) = GRANULARITY_OPTS[g] - 1
  <2>1. CASE i = n
    BY <2>1, <1>2, <1>3
  <2>2. CASE i # n
    <3>1. n \in i + 1 .. n
      BY <2>2, <1>1
    <3> QED BY <3>1, <1>2, <1>3
  <2> QED BY <2>1, <2>2
<1>8. ASSUME NEW j \in 1 .. n PROVE First(w[j + 1]) = Last(w[j]) + 1
  <2>1. CASE j \in 1 .. i - 1 /\ j + 1 \in 1 .. i - 1
    <3>1. j \in 1 .. n - 1
      BY <2>1, <1>1
    <3> QED BY <3>1, <2>1, <1>2, <1>3
  <2>2. CASE j \in 1 .. i - 1 /\ j + 1 = i
    <3>1. j \in 1 .. n - 1
      BY <2>2, <1>1
    <3>2. w[j] = v[j] /\ w[j + 1] = a /\ First(v[j + 1]) = First(a)
      BY <2>2, <1>3
    <3> QED BY <3>1, <3>2, <1>2
  <2>3. CASE j = i
    BY <2>3, <1>3
  <2>4. CASE j = i + 1
    <3>1. i + 1 \in i + 1 .. n /\ i \in 1 .. n - 1
      BY <2>4, <1>1
    <3>2. w[j] = b /\ w[j + 1] = v[i + 1]
      BY <2>4, <3>1, <1>3
    <3> QED BY <3>1, <3>2, <1>2
  <2>5. ASSUME NEW k \in i + 1 .. n, j = k + 1 PROVE First(w[j + 1]) = Last(w[j]) + 1
    <3>1. k \in 1 .. n - 1 /\ k + 1 \in i + 1 .. n
      BY <2>5, <1>1
    <3>2. w[k + 1] = v[k] /\ w[k + 1 + 1] = v[k + 1]
      BY <3>1, <1>3
    <3> QED BY <3>1, <3>2, <2>5, <1>2
  <2>6. j \in 1 .. i - 1 => j + 1 \in 1 .. i - 1 \/ j + 1 = i
    BY <1>1
  <2>7. j \in 1 .. n + 1
    BY <1>1
  <2> QED BY <2>1, <2>2, <2>3, <2>4, <2>5, <2>6, <2>7, <1>4
<1>9. Len(w) >= 1 /\ Len(w) - 1 = n
  BY <1>1, <1>3
<1> QED BY <1>1, <1>3, <1>5, <1>6, <1>7, <1>8, <1>9 DEF Covers

\* A shard of a vector may be divided behind one of its buckets.
LEMMA DividedCovers ==
  ASSUME NEW g, NEW v, Covers(v, g), NEW i \in 1 .. Len(v), NEW m \in Nat,
         First(v[i]) <= m, m + 1 <= Last(v[i]),
         NEW parts, parts = Parts(v[i], m, m + 1)
  PROVE  Covers(SubSeq(v, 1, i - 1) \o parts \o SubSeq(v, i + 1, Len(v)), g)
<1>1. PICK x \in ShardsOf(g) : x = v[i] /\ g \in 1 .. MaxGranularity /\ v \in Seq(ShardsOf(g))
  BY ShardAt DEF Covers
<1>2. /\ granularity(x) = g /\ x.lower \in KeysOf(g) /\ x.upper \in KeysOf(g)
      /\ Last(x) \in 0 .. GRANULARITY_OPTS[g] - 1 /\ First(x) \in Nat
  BY <1>1, ShardEnds
<1>3. m \in 0 .. GRANULARITY_OPTS[g] - 1 /\ m + 1 \in 0 .. GRANULARITY_OPTS[g] - 1
  <2>1. GRANULARITY_OPTS[g] \in Nat /\ m + 1 <= Last(x)
    BY <1>1, Powers
  <2> QED BY <1>2, <2>1
<1>4. PICK p \in KeysOf(g) : p = bucket_to_str(m, g) /\ str_to_bucket(p) = m
  BY <1>1, <1>3, BucketHasKey
<1>5. PICK q \in KeysOf(g) : q = bucket_to_str(m + 1, g) /\ str_to_bucket(q) = m + 1
  BY <1>1, <1>3, BucketHasKey
<1>6. PICK a \in ShardsOf(g) : a = [lower |-> x.lower, upper |-> p] /\ a.lower = x.lower /\ a.upper = p
  <2>1. [lower |-> x.lower, upper |-> p] \in ShardsOf(g)
    BY <1>2 DEF ShardsOf
  <2> QED BY <2>1
<1>7. PICK b \in ShardsOf(g) : b = [lower |-> q, upper |-> x.upper] /\ b.lower = q /\ b.upper = x.upper
  <2>1. [lower |-> q, upper |-> x.upper] \in ShardsOf(g)
    BY <1>2 DEF ShardsOf
  <2> QED BY <2>1
<1>8. parts = <<a, b>>
  BY <1>1, <1>2, <1>4, <1>5, <1>6, <1>7 DEF Parts
<1>9. First(a) = First(x) /\ Last(a) = m /\ First(b) = m + 1 /\ Last(b) = Last(x)
  BY <1>4, <1>5, <1>6, <1>7 DEF First, Last
<1> DEFINE w == SubSeq(v, 1, i - 1) \o <<a, b>> \o SubSeq(v, i + 1, Len(v))
<1>10. w \in Seq(ShardsOf(g)) /\ TwoForOne(w, v, i, a, b)
  BY <1>1, ReplacedByTwo
<1>11. w = SubSeq(v, 1, i - 1) \o parts \o SubSeq(v, i + 1, Len(v))
  BY <1>8
<1> HIDE DEF w
<1>12. /\ First(a) = First(v[i]) /\ First(a) <= Last(a) /\ First(b) = Last(a) + 1
       /\ First(b) <= Last(b) /\ Last(b) = Last(v[i])
  BY <1>1, <1>9
<1>13. Covers(w, g)
  BY <1>10, <1>12, TwoShardsForOne
<1> QED BY <1>11, <1>13

\* A vector with a shard divided has the buckets it had.
LEMMA ReplaceCovers ==
  ASSUME NEW g, Covers(shards, g), NEW i \in DOMAIN shards, NEW m \in Nat,
         First(shards[i]) <= m, m + 1 <= Last(shards[i]),
         Replace(i, Parts(shards[i], m, m + 1))
  PROVE  ShardInv'
<1>1. i \in 1 .. Len(shards)
  BY LenProperties DEF Covers
<1>2. shards' = SubSeq(shards, 1, i - 1) \o Parts(shards[i], m, m + 1) \o SubSeq(shards, i + 1, Len(shards))
  BY DEF Replace
<1>3. Covers(shards', g)
  BY <1>1, <1>2, DividedCovers
<1> QED BY <1>3 DEF ShardInv

\* The ends of a shard with more than one bucket.
LEMMA LargeShard ==
  ASSUME NEW g, Covers(shards, g), NEW i \in DOMAIN shards, shards[i].lower # shards[i].upper
  PROVE  /\ First(shards[i]) \in Nat /\ Last(shards[i]) \in Nat /\ First(shards[i]) < Last(shards[i])
         /\ g \in 1 .. MaxGranularity /\ granularity(shards[i]) = g
         /\ shards[i].lower \in KeysOf(g) /\ shards[i].upper \in KeysOf(g)
<1>1. i \in 1 .. Len(shards)
  BY LenProperties DEF Covers
<1>2. /\ shards[i] \in ShardsOf(g) /\ g \in 1 .. MaxGranularity
      /\ First(shards[i]) \in Nat /\ Last(shards[i]) \in Nat /\ First(shards[i]) <= Last(shards[i])
  BY <1>1, ShardAt
<1>3. shards[i].lower \in KeysOf(g) /\ shards[i].upper \in KeysOf(g) /\ granularity(shards[i]) = g
  BY <1>2, ShardEnds
<1>4. First(shards[i]) # Last(shards[i])
  <2>1. g \in 0 .. MaxGranularity
    BY <1>2
  <2> QED BY <1>3, <2>1, KeysCompare DEF First, Last
<1> QED BY <1>2, <1>3, <1>4

\* split_shard at the midpoint.
LEMMA HalveInv ==
  ASSUME ShardInv, NEW i \in DOMAIN shards, Halve(i)
  PROVE  ShardInv'
<1>1. PICK g : Covers(shards, g)
  BY DEF ShardInv
<1>2. PICK l \in Nat, u \in Nat : l = First(shards[i]) /\ u = Last(shards[i]) /\ l < u
  BY <1>1, LargeShard DEF Halve
<1> DEFINE m == l + (u - l) \div 2
<1>3. m \in Nat /\ l <= m /\ m + 1 <= u
  BY <1>2
<1>4. Replace(i, Parts(shards[i], m, m + 1))
  BY <1>2 DEF Halve, split_shard, First, Last
<1> HIDE DEF m
<1> QED BY <1>1, <1>2, <1>3, <1>4, ReplaceCovers

\* split_shard at a key.
LEMMA CutInv ==
  ASSUME ShardInv, NEW i \in DOMAIN shards, NEW at \in KeysOf(granularity(shards[i])),
         NEW first \in BOOLEAN, Cut(i, at, first)
  PROVE  ShardInv'
<1>1. PICK g : Covers(shards, g)
  BY DEF ShardInv
<1>2. /\ g \in 0 .. MaxGranularity /\ at \in KeysOf(g)
      /\ shards[i].lower \in KeysOf(g) /\ shards[i].upper \in KeysOf(g)
  BY <1>1, LargeShard DEF Cut
<1>3. PICK l \in Nat, u \in Nat : l = First(shards[i]) /\ u = Last(shards[i])
  BY <1>1, LargeShard DEF Cut
<1>4. PICK p \in Nat : p = str_to_bucket(at)
  <2>1. GRANULARITY_OPTS[g] \in Nat
    BY <1>2, Powers
  <2> QED BY <1>2, <2>1, BucketRange
<1>5. l <= p /\ p <= u
  BY <1>2, <1>3, <1>4, KeysCompare DEF Cut, First, Last
<1>6. Replace(i, IF first THEN Parts(shards[i], p, p + 1) ELSE Parts(shards[i], p - 1, p))
  BY <1>4 DEF Cut, split_shard_at
<1>7. CASE first
  <2>1. p # u
    BY <1>7, <1>2, <1>3, <1>4, KeysCompare DEF Cut, Last
  <2>2. p + 1 <= u
    BY <1>5, <2>1
  <2> QED BY <1>1, <1>3, <1>4, <1>5, <1>6, <1>7, <2>2, ReplaceCovers
<1>8. CASE ~first
  <2>1. p # l
    BY <1>8, <1>2, <1>3, <1>4, KeysCompare DEF Cut, First
  <2>2. PICK m \in Nat : m = p - 1 /\ l <= m /\ m + 1 <= u /\ p = m + 1
    <3>1. p - 1 \in Nat /\ l <= p - 1 /\ (p - 1) + 1 <= u /\ p = (p - 1) + 1
      BY <1>5, <2>1
    <3> QED BY <3>1
  <2>3. Replace(i, Parts(shards[i], m, m + 1))
    BY <1>6, <1>8, <2>2
  <2> QED BY <1>1, <1>3, <2>2, <2>3, ReplaceCovers
<1> QED BY <1>7, <1>8

-----------------------------------------------------------------------------
(* split_into *)

\* The granularity that is found has enough buckets.
LEMMA GranularityFound ==
  ASSUME NEW n \in 1 .. MaxShards
  PROVE  GranularityFor(n) \in 1 .. MaxGranularity /\ n <= GRANULARITY_OPTS[GranularityFor(n)]
<1> DEFINE T == {i \in 1 .. MaxGranularity : n <= GRANULARITY_OPTS[i]}
<1>1. MaxGranularity \in Nat \ {0} /\ MaxShards \in 1 .. GRANULARITY_OPTS[MaxGranularity]
      /\ GRANULARITY_OPTS[MaxGranularity] \in Nat
  BY Powers, ShardAssumption
<1>2. MaxGranularity \in T
  BY <1>1
<1>3. T \in SUBSET Nat /\ T # {}
  BY <1>1, <1>2
<1>4. PICK i \in T : \A j \in T : i <= j
  <2> HIDE DEF T
  <2> QED BY <1>3, LeastOfNat
<1>5. ASSUME NEW j \in 1 .. i - 1 PROVE n > GRANULARITY_OPTS[j]
  <2>1. j \in 1 .. MaxGranularity /\ ~(i <= j) /\ j \in 0 .. MaxGranularity
    BY <1>1, <1>4
  <2>2. PICK h \in Nat : h = GRANULARITY_OPTS[j]
    BY <2>1, Powers
  <2>3. ~(n <= h)
    BY <2>1, <2>2, <1>4
  <2> QED BY <1>1, <2>2, <2>3
<1>6. \E k \in 1 .. MaxGranularity :
        n <= GRANULARITY_OPTS[k] /\ \A j \in 1 .. k - 1 : n > GRANULARITY_OPTS[j]
  BY <1>4, <1>5
<1> QED BY <1>6 DEF GranularityFor

\* The first bucket of the shard at a place; with n + 1, the number of buckets.
Begins(n, g, i) ==
  (i - 1) * (GRANULARITY_OPTS[g] \div n)
    + (IF i - 1 <= GRANULARITY_OPTS[g] % n THEN i - 1 ELSE GRANULARITY_OPTS[g] % n)

\* A shard begins where the one before it ends.
LEMMA BeginsFacts ==
  ASSUME NEW g \in 1 .. MaxGranularity, NEW n \in Nat \ {0}, n <= GRANULARITY_OPTS[g]
  PROVE  /\ Begins(n, g, 1) = 0 /\ Begins(n, g, n + 1) = GRANULARITY_OPTS[g]
         /\ \A i \in 1 .. n : /\ Begins(n, g, i) \in Nat /\ SizeOf(n, g, i) \in Nat \ {0}
                              /\ Begins(n, g, i + 1) = Begins(n, g, i) + SizeOf(n, g, i)
                              /\ Begins(n, g, i + 1) <= GRANULARITY_OPTS[g]
<1>1. PICK G \in Nat, q \in Nat, r \in 0 .. n - 1 :
        /\ G = GRANULARITY_OPTS[g] /\ q = GRANULARITY_OPTS[g] \div n /\ r = GRANULARITY_OPTS[g] % n
        /\ G = n * q + r
  <2>1. GRANULARITY_OPTS[g] \in Nat
    BY Powers
  <2> QED BY <2>1, Division
<1>2. q >= 1
  <2>1. q = 0 => G = r
    BY <1>1
  <2> QED BY <2>1, <1>1
<1>3. \A i \in Nat : Begins(n, g, i) = (i - 1) * q + (IF i - 1 <= r THEN i - 1 ELSE r)
  BY <1>1 DEF Begins
<1>4. \A i \in Nat : SizeOf(n, g, i) = q + IF i <= r THEN 1 ELSE 0
  BY <1>1 DEF SizeOf
<1>5. Begins(n, g, 1) = 0
  <2>1. (1 - 1) * q = 0
    BY <1>1
  <2> QED BY <2>1, <1>1, <1>3
<1>6. Begins(n, g, n + 1) = G
  <2>1. (n + 1 - 1) * q = n * q /\ n * q \in Nat /\ n + 1 - 1 = n
    OBVIOUS
  <2> QED BY <2>1, <1>1, <1>3
<1>7. ASSUME NEW i \in 1 .. n
      PROVE  /\ Begins(n, g, i) \in Nat /\ SizeOf(n, g, i) \in Nat \ {0}
             /\ Begins(n, g, i + 1) = Begins(n, g, i) + SizeOf(n, g, i)
             /\ Begins(n, g, i + 1) <= G
  <2>1. PICK k \in Nat : i = k + 1 /\ i - 1 = k /\ i + 1 - 1 = k + 1 /\ k + 1 <= n
    <3>1. i - 1 \in Nat /\ i = (i - 1) + 1 /\ i + 1 - 1 = (i - 1) + 1 /\ (i - 1) + 1 <= n
      OBVIOUS
    <3> QED BY <3>1
  <2>2. k * q \in Nat /\ (k + 1) * q = k * q + q
    OBVIOUS
  <2>3. (k + 1) * q <= n * q /\ n * q \in Nat
    <3>1. k + 1 \in Nat /\ n \in Nat
      OBVIOUS
    <3> QED BY <3>1, <2>1, Products
  <2>4. Begins(n, g, i) = k * q + (IF k <= r THEN k ELSE r)
    BY <2>1, <1>3
  <2>5. Begins(n, g, i + 1) = (k + 1) * q + (IF k + 1 <= r THEN k + 1 ELSE r)
    BY <2>1, <1>3
  <2>6. SizeOf(n, g, i) = q + IF k + 1 <= r THEN 1 ELSE 0
    BY <2>1, <1>4
  <2>7. Begins(n, g, i) \in Nat /\ SizeOf(n, g, i) \in Nat \ {0}
    BY <2>2, <2>4, <2>6, <1>2
  <2>8. Begins(n, g, i + 1) = Begins(n, g, i) + SizeOf(n, g, i)
    BY <2>2, <2>4, <2>5, <2>6
  <2>9. Begins(n, g, i + 1) <= G
    <3> DEFINE c == (k + 1) * q  e == n * q  s == IF k + 1 <= r THEN k + 1 ELSE r
    <3>1. c \in Nat /\ e \in Nat /\ c <= e
      <4>1. (k + 1) * q \in Nat
        BY <2>2
      <4> QED BY <4>1, <2>3
    <3>2. s \in Nat /\ s <= r /\ r \in Nat
      OBVIOUS
    <3>3. Begins(n, g, i + 1) = c + s
      BY <2>5
    <3>4. G = e + r
      BY <1>1
    <3> HIDE DEF c, e, s
    <3> QED BY <3>1, <3>2, <3>3, <3>4
  <2> QED BY <2>7, <2>8, <2>9
<1> QED BY <1>1, <1>5, <1>6, <1>7

\* The loop of split_into.
LEMMA LowerIsBegins ==
  ASSUME NEW g \in 1 .. MaxGranularity, NEW n \in Nat \ {0}, n <= GRANULARITY_OPTS[g]
  PROVE  \A i \in 1 .. n : LowerOf(n, g)[i] = Begins(n, g, i)
<1> DEFINE f == [i \in 1 .. n |-> Begins(n, g, i)]
<1>1. ASSUME NEW i \in 1 .. n
      PROVE  f[i] = IF i = 1 THEN 0 ELSE f[i - 1] + SizeOf(n, g, i - 1)
  <2>1. CASE i = 1
    BY <2>1, BeginsFacts
  <2>2. CASE i # 1
    <3>1. i - 1 \in 1 .. n /\ (i - 1) + 1 = i
      BY <2>2
    <3>2. Begins(n, g, (i - 1) + 1) = Begins(n, g, i - 1) + SizeOf(n, g, i - 1)
      BY <3>1, BeginsFacts
    <3> QED BY <2>2, <3>1, <3>2
  <2> QED BY <2>1, <2>2
<1>2. f = [i \in 1 .. n |-> IF i = 1 THEN 0 ELSE f[i - 1] + SizeOf(n, g, i - 1)]
  BY <1>1
<1> DEFINE L == LowerOf(n, g)
<1>3. L = [i \in 1 .. n |-> IF i = 1 THEN 0 ELSE L[i - 1] + SizeOf(n, g, i - 1)]
  BY <1>2 DEF LowerOf
<1> HIDE DEF f, L
<1> DEFINE T == {i \in 1 .. n : L[i] = Begins(n, g, i)}
<1>4. 1 \in T
  BY <1>3, BeginsFacts
<1>5. ASSUME NEW i \in 1 + 1 .. n, i - 1 \in T PROVE i \in T
  <2>1. i \in 1 .. n /\ i # 1 /\ i - 1 \in 1 .. n /\ (i - 1) + 1 = i
    OBVIOUS
  <2>2. L[i] = L[i - 1] + SizeOf(n, g, i - 1)
    BY <2>1, <1>3
  <2>3. Begins(n, g, (i - 1) + 1) = Begins(n, g, i - 1) + SizeOf(n, g, i - 1)
    BY <2>1, BeginsFacts
  <2> QED BY <2>1, <2>2, <2>3, <1>5
<1> HIDE DEF T
<1>6. \A i \in 1 .. n : i \in T
  <2> DEFINE one == 1
  <2>1. one \in Nat /\ n \in Nat /\ one \in T /\ \A i \in one + 1 .. n : i - 1 \in T => i \in T
    BY <1>4, <1>5
  <2> HIDE DEF one
  <2>2. \A i \in one .. n : i \in T
    BY <2>1, UpFrom
  <2> QED BY <2>2 DEF one
<1> QED BY <1>6 DEF L, T

\* split_into makes shards one behind the other.
LEMMA ShardInitInv == ShardInit => ShardInv
<1> SUFFICES ASSUME ShardInit PROVE ShardInv
  OBVIOUS
<1>1. PICK n \in 1 .. MaxShards : n = made /\ shards = split_into(n)
  BY DEF ShardInit
<1>2. PICK g \in 1 .. MaxGranularity : g = GranularityFor(n) /\ n <= GRANULARITY_OPTS[g]
  BY GranularityFound
<1>3. n \in Nat \ {0}
  BY ShardAssumption, Powers
<1>4. PICK G \in Nat : G = GRANULARITY_OPTS[g]
  BY Powers
<1> DEFINE b(i) == Begins(n, g, i)
<1>5. /\ b(1) = 0 /\ b(n + 1) = G
      /\ \A i \in 1 .. n : /\ b(i) \in Nat /\ SizeOf(n, g, i) \in Nat \ {0}
                           /\ b(i + 1) = b(i) + SizeOf(n, g, i) /\ b(i + 1) <= G
  BY <1>2, <1>3, <1>4, BeginsFacts
<1>6. shards = [i \in 1 .. n |-> [lower |-> bucket_to_str(b(i), g),
                                  upper |-> bucket_to_str(b(i) + SizeOf(n, g, i) - 1, g)]]
  <2>1. shards = [i \in 1 .. n |-> [lower |-> bucket_to_str(LowerOf(n, g)[i], g),
                    upper |-> bucket_to_str(LowerOf(n, g)[i] + SizeOf(n, g, i) - 1, g)]]
    BY <1>1, <1>2 DEF split_into
  <2>2. \A i \in 1 .. n : LowerOf(n, g)[i] = b(i)
    BY <1>2, <1>3, LowerIsBegins
  <2> HIDE DEF b
  <2> QED BY <2>1, <2>2
<1> HIDE DEF b
<1>7. ASSUME NEW i \in 1 .. n
      PROVE  shards[i] \in ShardsOf(g) /\ First(shards[i]) = b(i) /\ Last(shards[i]) = b(i + 1) - 1
  <2>1. PICK x \in Nat, y \in Nat : x = b(i) /\ y = b(i) + SizeOf(n, g, i) - 1 /\ y = b(i + 1) - 1
                                   /\ x \in 0 .. G - 1 /\ y \in 0 .. G - 1
    <3>1. PICK c \in Nat, d \in Nat, e \in Nat : c = b(i) /\ d = SizeOf(n, g, i) /\ d >= 1
                                               /\ e = b(i + 1) /\ e = c + d /\ e <= G
      BY <1>5
    <3>2. c \in 0 .. G - 1 /\ c + d - 1 \in 0 .. G - 1 /\ c + d - 1 = e - 1 /\ c + d - 1 \in Nat
      BY <1>4, <3>1
    <3> QED BY <3>1, <3>2
  <2>2. PICK p \in KeysOf(g) : p = bucket_to_str(x, g) /\ str_to_bucket(p) = x
    BY <1>4, <2>1, BucketHasKey
  <2>3. PICK q \in KeysOf(g) : q = bucket_to_str(y, g) /\ str_to_bucket(q) = y
    BY <1>4, <2>1, BucketHasKey
  <2>4. shards[i] = [lower |-> p, upper |-> q]
    BY <1>6, <2>1, <2>2, <2>3
  <2>5. [lower |-> p, upper |-> q] \in ShardsOf(g)
    BY DEF ShardsOf
  <2>6. shards[i].lower = p /\ shards[i].upper = q
    BY <2>4
  <2> QED BY <2>1, <2>2, <2>3, <2>4, <2>5, <2>6 DEF First, Last
<1>8. shards \in Seq(ShardsOf(g)) /\ Len(shards) = n
  <2>1. shards \in [1 .. n -> ShardsOf(g)]
    BY <1>6, <1>7
  <2>2. shards \in Seq(ShardsOf(g))
    BY <1>3, <2>1, SeqDef
  <2>3. Len(shards) \in Nat /\ DOMAIN shards = 1 .. Len(shards)
    BY <2>2, LenProperties
  <2>4. Len(shards) = n
    BY <1>3, <2>1, <2>3
  <2> QED BY <2>2, <2>4
<1>9. ASSUME NEW i \in 1 .. n PROVE First(shards[i]) <= Last(shards[i])
  BY <1>5, <1>7
<1>10. First(shards[1]) = 0 /\ Last(shards[n]) = G - 1
  <2>1. 1 \in 1 .. n /\ n \in 1 .. n
    BY <1>3
  <2> QED BY <2>1, <1>5, <1>7
<1>11. ASSUME NEW i \in 1 .. n - 1 PROVE First(shards[i + 1]) = Last(shards[i]) + 1
  <2>1. i \in 1 .. n /\ i + 1 \in 1 .. n
    BY <1>3
  <2>2. First(shards[i + 1]) = b(i + 1) /\ Last(shards[i]) = b(i + 1) - 1 /\ b(i + 1) \in Nat
    BY <2>1, <1>5, <1>7
  <2> QED BY <2>2
<1>12. Covers(shards, g)
  BY <1>3, <1>4, <1>8, <1>9, <1>10, <1>11 DEF Covers
<1> QED BY <1>12 DEF ShardInv

\* The shards are always ranges of buckets, one behind the other from the first bucket
\* to the last one, for every alphabet, granularity and number of shards.
THEOREM ShardInvHolds == ShardSpec => []ShardInv
<1>1. ShardInv /\ [ShardNext]_shardVars => ShardInv'
  <2> SUFFICES ASSUME ShardInv, [ShardNext]_shardVars PROVE ShardInv'
    OBVIOUS
  <2>1. ASSUME NEW i \in DOMAIN shards, Halve(i) PROVE ShardInv'
    BY <2>1, HalveInv
  <2>2. ASSUME NEW i \in DOMAIN shards, NEW at \in KeysOf(granularity(shards[i])),
               NEW first \in BOOLEAN, Cut(i, at, first)
        PROVE  ShardInv'
    BY <2>2, CutInv
  <2>3. CASE Finest \/ UNCHANGED shardVars
    <3>1. UNCHANGED shards
      BY <2>3 DEF Finest, shardVars
    <3> QED BY <3>1 DEF ShardInv, Covers
  <2> QED BY <2>1, <2>2, <2>3 DEF ShardNext
<1> QED BY <1>1, ShardInitInv, PTL DEF ShardSpec

-----------------------------------------------------------------------------
(* What the shards promise *)

\* A later shard lies wholly behind an earlier one.
LEMMA ShardsApart ==
  ASSUME NEW g, NEW v, Covers(v, g), NEW i \in 1 .. Len(v), NEW k \in i + 1 .. Len(v)
  PROVE  Last(v[i]) < First(v[k])
<1>1. PICK n \in Nat : n = Len(v)
  BY ShardAt
<1>2. \A j \in 1 .. n : First(v[j]) \in Nat /\ Last(v[j]) \in Nat /\ First(v[j]) <= Last(v[j])
  BY <1>1, ShardAt
<1>3. \A j \in 1 .. n - 1 : First(v[j + 1]) = Last(v[j]) + 1
  BY <1>1 DEF Covers
<1>4. PICK m \in Nat : m = i + 1 /\ i \in 1 .. n /\ k \in m .. n
  BY <1>1
<1> DEFINE T == {j \in m .. n : Last(v[i]) < First(v[j])}
<1>5. m \in T
  <2>1. i \in 1 .. n - 1 /\ m \in m .. n
    BY <1>4
  <2>2. First(v[m]) = Last(v[i]) + 1 /\ Last(v[i]) \in Nat
    BY <1>2, <1>3, <1>4, <2>1
  <2> QED BY <2>1, <2>2
<1>6. ASSUME NEW j \in m + 1 .. n, j - 1 \in T PROVE j \in T
  <2>1. PICK p \in Nat : p = j - 1 /\ j = p + 1 /\ p \in 1 .. n - 1 /\ p \in 1 .. n /\ j \in 1 .. n
                         /\ j \in m .. n
    <3>1. j - 1 \in Nat /\ j = (j - 1) + 1 /\ j - 1 \in 1 .. n - 1 /\ j - 1 \in 1 .. n
          /\ j \in 1 .. n /\ j \in m .. n
      BY <1>4
    <3> QED BY <3>1
  <2>2. First(v[j]) = Last(v[p]) + 1
    BY <2>1, <1>3
  <2>3. Last(v[i]) < First(v[p]) /\ First(v[p]) <= Last(v[p])
    BY <2>1, <1>2, <1>6
  <2>4. Last(v[i]) \in Nat /\ First(v[p]) \in Nat /\ Last(v[p]) \in Nat
    BY <2>1, <1>2, <1>4
  <2> QED BY <2>1, <2>2, <2>3, <2>4
<1> HIDE DEF T
<1>7. \A j \in m .. n : j \in T
  BY <1>5, <1>6, UpFrom
<1> QED BY <1>4, <1>7 DEF T

\* Every bucket has its shard.
LEMMA ShardFound ==
  ASSUME NEW g, NEW v, Covers(v, g), NEW x \in 0 .. GRANULARITY_OPTS[g] - 1
  PROVE  \E i \in 1 .. Len(v) : First(v[i]) <= x /\ x <= Last(v[i])
<1>1. PICK n \in Nat \ {0} : n = Len(v)
  <2>1. Len(v) \in Nat /\ Len(v) >= 1
    BY LenProperties DEF Covers
  <2> QED BY <2>1
<1>2. \A j \in 1 .. n : First(v[j]) \in Nat /\ Last(v[j]) \in Nat
  BY <1>1, ShardAt
<1>3. PICK G \in Nat : G = GRANULARITY_OPTS[g] /\ x \in 0 .. G - 1 /\ x \in Nat
  <2>1. GRANULARITY_OPTS[g] \in Nat
    BY Powers DEF Covers
  <2> QED BY <2>1
<1> DEFINE T == {j \in 1 .. n : x <= Last(v[j])}
<1>4. n \in T
  <2>1. Last(v[n]) = G - 1 /\ n \in 1 .. n
    BY <1>1, <1>3 DEF Covers
  <2> QED BY <2>1, <1>3
<1>5. T \in SUBSET Nat /\ T # {}
  BY <1>4
<1>6. PICK i \in T : \A j \in T : i <= j
  <2> HIDE DEF T
  <2> QED BY <1>5, LeastOfNat
<1>7. i \in 1 .. n /\ x <= Last(v[i])
  BY <1>6
<1>8. CASE i = 1
  <2>1. First(v[i]) = 0
    BY <1>8 DEF Covers
  <2> QED BY <2>1, <1>1, <1>3, <1>7
<1>9. CASE i # 1
  <2>1. PICK p \in Nat : p = i - 1 /\ i = p + 1 /\ p \in 1 .. n - 1 /\ p \in 1 .. n /\ ~(i <= p)
    <3>1. i - 1 \in Nat /\ i = (i - 1) + 1 /\ i - 1 \in 1 .. n - 1 /\ i - 1 \in 1 .. n /\ ~(i <= i - 1)
      BY <1>7, <1>9
    <3> QED BY <3>1
  <2>2. ~(x <= Last(v[p]))
    BY <2>1, <1>6
  <2>3. First(v[i]) = Last(v[p]) + 1 /\ Last(v[p]) \in Nat
    BY <2>1, <1>1, <1>2 DEF Covers
  <2>4. First(v[i]) <= x
    BY <2>2, <2>3, <1>3
  <2> QED BY <2>4, <1>1, <1>7
<1> QED BY <1>8, <1>9

\* The first characters of a key are a key of the shards' granularity.
LEMMA PrefixIsKey ==
  ASSUME NEW g \in 1 .. MaxGranularity, NEW h \in g .. MaxGranularity, NEW k \in KeysOf(h)
  PROVE  SubSeq(k, 1, g) \in KeysOf(g) /\ (h = g => SubSeq(k, 1, g) = k)
<1>1. PICK m \in Nat, n \in Nat : m = g /\ n = h /\ m \in 0 .. n /\ n = Len(k)
                                  /\ k \in Seq(Digits)
  <2>1. g \in Nat /\ h \in Nat /\ g \in 0 .. h
    BY Powers
  <2> QED BY <2>1, KeyIsSeq
<1>2. PICK s : /\ s = SubSeq(k, 1, m) /\ s \in Seq(Digits) /\ Len(s) = m
               /\ \A j \in 1 .. m : s[j] = k[j]
  <2>1. /\ SubSeq(k, 1, m) \in Seq(Digits) /\ Len(SubSeq(k, 1, m)) = m
        /\ \A j \in 1 .. m : SubSeq(k, 1, m)[j] = k[j]
    BY <1>1, PartsOfSeq
  <2> QED BY <2>1
<1>3. s \in [1 .. m -> Digits]
  BY <1>2, LenProperties
<1>4. ASSUME h = g PROVE s = k
  <2>1. k \in [1 .. m -> Digits]
    BY <1>1, <1>4 DEF KeysOf
  <2> QED BY <2>1, <1>2, <1>3
<1> QED BY <1>1, <1>2, <1>3, <1>4 DEF KeysOf

\* Shard::contains compares the bucket of the first characters with the ends.
LEMMA ContainsByBucket ==
  ASSUME NEW g \in 1 .. MaxGranularity, NEW x \in ShardsOf(g),
         NEW h \in g .. MaxGranularity, NEW k \in KeysOf(h)
  PROVE  contains(x, k) <=> /\ First(x) <= str_to_bucket(SubSeq(k, 1, g))
                            /\ str_to_bucket(SubSeq(k, 1, g)) <= Last(x)
<1>1. granularity(x) = g /\ x.lower \in KeysOf(g) /\ x.upper \in KeysOf(g)
  BY ShardEnds
<1>2. g \in Nat /\ h \in Nat /\ ~(h < g) /\ g \in 0 .. MaxGranularity
  BY Powers
<1>3. Len(k) = h
  BY <1>2, KeyIsSeq
<1>4. PICK s \in KeysOf(g) : s = SubSeq(k, 1, g)
  BY PrefixIsKey
<1>5. contains(x, k) <=> LessEq(x.lower, s) /\ LessEq(s, x.upper)
  BY <1>1, <1>2, <1>3, <1>4 DEF contains
<1> QED BY <1>1, <1>2, <1>4, <1>5, KeysCompare DEF First, Last

\* The granularity of the vector.
LEMMA GranOfVector ==
  ASSUME NEW g, Covers(shards, g)
  PROVE  Gran = g /\ g \in 1 .. MaxGranularity /\ DOMAIN shards = 1 .. Len(shards)
<1>1. Len(shards) >= 1 /\ Len(shards) \in Nat
  BY LenProperties DEF Covers
<1>2. 1 \in 1 .. Len(shards)
  BY <1>1
<1>3. shards[1] \in ShardsOf(g) /\ g \in 1 .. MaxGranularity /\ DOMAIN shards = 1 .. Len(shards)
  BY <1>2, ShardAt
<1> QED BY <1>3, ShardEnds DEF Gran

\* Exactly one shard contains a key.
LEMMA OneShard ==
  ASSUME NEW g, Covers(shards, g), NEW h \in g .. MaxGranularity, NEW k \in KeysOf(h)
  PROVE  Cardinality({i \in DOMAIN shards : contains(shards[i], k)}) = 1
<1>1. g \in 1 .. MaxGranularity /\ DOMAIN shards = 1 .. Len(shards) /\ g \in 0 .. MaxGranularity
  BY GranOfVector
<1>2. PICK x \in Nat : x = str_to_bucket(SubSeq(k, 1, g)) /\ x \in 0 .. GRANULARITY_OPTS[g] - 1
  <2>1. SubSeq(k, 1, g) \in KeysOf(g)
    BY <1>1, PrefixIsKey
  <2>2. GRANULARITY_OPTS[g] \in Nat
    BY <1>1, Powers
  <2> QED BY <1>1, <2>1, <2>2, BucketRange
<1>3. ASSUME NEW i \in 1 .. Len(shards)
      PROVE  contains(shards[i], k) <=> First(shards[i]) <= x /\ x <= Last(shards[i])
  <2>1. shards[i] \in ShardsOf(g)
    BY <1>3, ShardAt
  <2> QED BY <2>1, <1>1, <1>2, ContainsByBucket
<1>4. PICK i \in 1 .. Len(shards) : First(shards[i]) <= x /\ x <= Last(shards[i])
  BY <1>2, ShardFound
<1>5. ASSUME NEW j \in 1 .. Len(shards), First(shards[j]) <= x, x <= Last(shards[j])
      PROVE  j = i
  <2>1. /\ First(shards[i]) \in Nat /\ Last(shards[i]) \in Nat /\ Len(shards) \in Nat
        /\ First(shards[j]) \in Nat /\ Last(shards[j]) \in Nat
    BY ShardAt
  <2>2. CASE i < j
    <3>1. j \in i + 1 .. Len(shards)
      BY <2>1, <2>2
    <3>2. Last(shards[i]) < First(shards[j])
      BY <3>1, ShardsApart
    <3> QED BY <3>2, <2>1, <1>4, <1>5
  <2>3. CASE j < i
    <3>1. i \in j + 1 .. Len(shards)
      BY <2>1, <2>3
    <3>2. Last(shards[j]) < First(shards[i])
      BY <3>1, ShardsApart
    <3> QED BY <3>2, <2>1, <1>4, <1>5
  <2> QED BY <2>1, <2>2, <2>3
<1>6. {j \in DOMAIN shards : contains(shards[j], k)} = {i}
  BY <1>1, <1>3, <1>4, <1>5
<1> QED BY <1>6, FS_Singleton

\* However often shards are split, every key is in exactly one shard and the vector is
\* sorted: split_into and split_shard never leave a gap or an overlap.
THEOREM ShardsArePartition == ShardSpec => []ShardsPartitionTheKeys
<1>1. ShardInv => ShardsPartitionTheKeys
  <2> SUFFICES ASSUME ShardInv PROVE ShardsPartitionTheKeys
    OBVIOUS
  <2>1. PICK g : Covers(shards, g)
    BY DEF ShardInv
  <2>2. Gran = g /\ g \in 1 .. MaxGranularity /\ g \in 0 .. MaxGranularity
    BY <2>1, GranOfVector
  <2>3. ASSUME NEW k \in UNION {KeysOf(h) : h \in Gran .. MaxGranularity}
        PROVE  Cardinality({i \in DOMAIN shards : contains(shards[i], k)}) = 1
    <3>1. PICK h \in g .. MaxGranularity : k \in KeysOf(h)
      BY <2>2
    <3> QED BY <2>1, <3>1, OneShard
  <2>4. ASSUME NEW i \in 1 .. Len(shards) - 1 PROVE Less(shards[i].lower, shards[i + 1].lower)
    <3>1. Len(shards) \in Nat
      BY <2>1, LenProperties DEF Covers
    <3>2. i \in 1 .. Len(shards) /\ i + 1 \in 1 .. Len(shards)
      BY <3>1
    <3>3. /\ shards[i] \in ShardsOf(g) /\ shards[i + 1] \in ShardsOf(g)
          /\ First(shards[i]) \in Nat /\ Last(shards[i]) \in Nat /\ First(shards[i]) <= Last(shards[i])
      BY <2>1, <3>2, ShardAt
    <3>4. First(shards[i + 1]) = Last(shards[i]) + 1
      BY <2>1 DEF Covers
    <3>5. First(shards[i]) < First(shards[i + 1])
      BY <3>3, <3>4
    <3>6. shards[i].lower \in KeysOf(g) /\ shards[i + 1].lower \in KeysOf(g)
      BY <2>2, <3>3, ShardEnds
    <3> QED BY <2>2, <3>5, <3>6, KeysCompare DEF First
  <2> QED BY <2>3, <2>4 DEF ShardsPartitionTheKeys
<1> QED BY <1>1, ShardInvHolds, PTL

\* The buckets of a shard are the numbers between its ends.
LEMMA BucketsOfShard ==
  ASSUME NEW g, Covers(shards, g), NEW x \in ShardsOf(g)
  PROVE  Buckets(x) = First(x) .. Last(x)
<1>1. Gran = g /\ g \in 1 .. MaxGranularity /\ g \in g .. MaxGranularity
  BY GranOfVector
<1>2. ASSUME NEW k \in KeysOf(g)
      PROVE  contains(x, k) <=> First(x) <= str_to_bucket(k) /\ str_to_bucket(k) <= Last(x)
  <2>1. SubSeq(k, 1, g) = k
    BY <1>1, PrefixIsKey
  <2>2. /\ contains(x, k) <=> /\ First(x) <= str_to_bucket(SubSeq(k, 1, g))
                              /\ str_to_bucket(SubSeq(k, 1, g)) <= Last(x)
    BY <1>1, ContainsByBucket
  <2> QED BY <2>1, <2>2
<1>3. /\ First(x) \in 0 .. GRANULARITY_OPTS[g] - 1 /\ Last(x) \in 0 .. GRANULARITY_OPTS[g] - 1
      /\ GRANULARITY_OPTS[g] \in Nat
  BY <1>1, ShardEnds, Powers
<1>4. ASSUME NEW b \in Buckets(x) PROVE b \in First(x) .. Last(x)
  <2>1. PICK k \in KeysOf(g) : contains(x, k) /\ b = str_to_bucket(k)
    BY <1>1, <1>4 DEF Buckets
  <2>2. str_to_bucket(k) \in 0 .. GRANULARITY_OPTS[g] - 1
    BY <1>1, BucketRange
  <2> QED BY <2>1, <2>2, <1>2, <1>3
<1>5. ASSUME NEW b \in First(x) .. Last(x) PROVE b \in Buckets(x)
  <2>1. b \in 0 .. GRANULARITY_OPTS[g] - 1 /\ First(x) <= b /\ b <= Last(x)
    BY <1>3
  <2>2. PICK k \in KeysOf(g) : str_to_bucket(k) = b
    BY <1>1, <2>1, BucketHasKey
  <2>3. contains(x, k)
    BY <1>2, <2>1, <2>2
  <2> QED BY <1>1, <2>2, <2>3 DEF Buckets
<1> QED BY <1>4, <1>5

\* How two ranges of numbers lie to each other.
LEMMA RangesCompare ==
  ASSUME NEW a \in Nat, NEW b \in Nat, NEW c \in Nat, NEW d \in Nat, a <= b, c <= d
  PROVE  /\ (a .. b) \cap (c .. d) = {} <=> b < c \/ d < a
         /\ (a .. b) \subseteq (c .. d) <=> c <= a /\ b <= d
         /\ a \in c .. d <=> c <= a /\ a <= d
         /\ b \in c .. d <=> c <= b /\ b <= d
<1>1. ASSUME (a .. b) \cap (c .. d) = {} PROVE b < c \/ d < a
  <2> SUFFICES ASSUME c <= b, a <= d PROVE FALSE
    OBVIOUS
  <2>1. CASE a <= c
    <3>1. c \in a .. b /\ c \in c .. d
      BY <2>1
    <3> QED BY <3>1, <1>1
  <2>2. CASE c < a
    <3>1. a \in a .. b /\ a \in c .. d
      BY <2>2
    <3> QED BY <3>1, <1>1
  <2> QED BY <2>1, <2>2
<1>2. b < c \/ d < a => (a .. b) \cap (c .. d) = {}
  OBVIOUS
<1>3. ASSUME (a .. b) \subseteq (c .. d) PROVE c <= a /\ b <= d
  <2>1. a \in a .. b /\ b \in a .. b
    OBVIOUS
  <2>2. a \in c .. d /\ b \in c .. d
    BY <1>3, <2>1
  <2> QED BY <2>2
<1>4. c <= a /\ b <= d => (a .. b) \subseteq (c .. d)
  OBVIOUS
<1>5. (a \in c .. d <=> c <= a /\ a <= d) /\ (b \in c .. d <=> c <= b /\ b <= d)
  OBVIOUS
<1> QED BY <1>1, <1>2, <1>3, <1>4, <1>5

\* get_overlap is exact about every shard and every range of keys, and never reaches
\* its throw.
THEOREM OverlapsAreExact == ShardSpec => []OverlapIsExact
<1>1. ShardInv => OverlapIsExact
  <2> SUFFICES ASSUME ShardInv, NEW i \in DOMAIN shards,
                      NEW lower \in KeysOf(Gran), NEW upper \in KeysOf(Gran), LessEq(lower, upper)
               PROVE  LET A == Buckets(shards[i])
                          r == [lower |-> lower, upper |-> upper]
                          B == str_to_bucket(lower) .. str_to_bucket(upper)
                          first == str_to_bucket(shards[i].lower) \in B
                          last == str_to_bucket(shards[i].upper) \in B
                      IN  get_overlap(shards[i], r) =
                            IF A \cap B = {}       THEN "NO_OVERLAP"
                            ELSE IF A \subseteq B  THEN "COMPLETELY_CONTAINED"
                            ELSE IF first          THEN "OVERLAP_START"
                            ELSE IF last           THEN "OVERLAP_END"
                            ELSE "COMPLETELY_CONTAINS"
    BY DEF OverlapIsExact
  <2>1. PICK g : Covers(shards, g)
    BY DEF ShardInv
  <2>2. Gran = g /\ g \in 1 .. MaxGranularity /\ g \in 0 .. MaxGranularity /\ i \in 1 .. Len(shards)
    BY <2>1, GranOfVector
  <2>3. PICK x \in ShardsOf(g) : /\ x = shards[i] /\ x.lower \in KeysOf(g) /\ x.upper \in KeysOf(g)
                                 /\ First(x) \in Nat /\ Last(x) \in Nat /\ First(x) <= Last(x)
    BY <2>1, <2>2, ShardAt, ShardEnds
  <2>4. PICK a \in Nat, b \in Nat : a = First(x) /\ b = Last(x) /\ a <= b
    BY <2>3
  <2>5. PICK c \in Nat, d \in Nat : c = str_to_bucket(lower) /\ d = str_to_bucket(upper) /\ c <= d
    <3>1. GRANULARITY_OPTS[g] \in Nat
      BY <2>2, Powers
    <3>2. str_to_bucket(lower) \in Nat /\ str_to_bucket(upper) \in Nat
      BY <2>2, <3>1, BucketRange
    <3> QED BY <2>2, <3>2, KeysCompare
  <2> DEFINE r == [lower |-> lower, upper |-> upper]
  <2>6. r.lower = lower /\ r.upper = upper
    OBVIOUS
  <2>7. /\ Less(x.upper, r.lower) <=> b < c
        /\ Less(r.upper, x.lower) <=> d < a
        /\ LessEq(r.lower, x.lower) <=> c <= a
        /\ LessEq(x.upper, r.upper) <=> b <= d
        /\ Less(x.lower, r.lower) <=> a < c
        /\ Less(r.upper, x.upper) <=> d < b
    BY <2>2, <2>3, <2>4, <2>5, <2>6, KeysCompare DEF First, Last
  <2> HIDE DEF r
  <2>8. get_overlap(x, r) =
          IF b < c \/ d < a THEN "NO_OVERLAP"
          ELSE IF c <= a /\ b <= d THEN "COMPLETELY_CONTAINED"
          ELSE IF a < c /\ d < b THEN "COMPLETELY_CONTAINS"
          ELSE IF c <= a /\ d < b THEN "OVERLAP_START"
          ELSE IF a < c /\ b <= d THEN "OVERLAP_END"
          ELSE "throw"
    BY <2>7 DEF get_overlap
  <2>9. Buckets(x) = a .. b /\ a = str_to_bucket(x.lower) /\ b = str_to_bucket(x.upper)
    BY <2>1, <2>4, BucketsOfShard DEF First, Last
  <2>10. get_overlap(x, r) =
           IF (a .. b) \cap (c .. d) = {}        THEN "NO_OVERLAP"
           ELSE IF (a .. b) \subseteq (c .. d)   THEN "COMPLETELY_CONTAINED"
           ELSE IF a \in c .. d                  THEN "OVERLAP_START"
           ELSE IF b \in c .. d                  THEN "OVERLAP_END"
           ELSE "COMPLETELY_CONTAINS"
    <3> DEFINE none == (a .. b) \cap (c .. d) = {}    within == (a .. b) \subseteq (c .. d)
               start == a \in c .. d    ends == b \in c .. d
    <3>1. /\ none <=> b < c \/ d < a
          /\ within <=> c <= a /\ b <= d
          /\ start <=> c <= a /\ a <= d
          /\ ends <=> c <= b /\ b <= d
      BY <2>4, <2>5, RangesCompare
    <3> HIDE DEF none, within, start, ends
    <3>2. get_overlap(x, r) =
            IF none         THEN "NO_OVERLAP"
            ELSE IF within  THEN "COMPLETELY_CONTAINED"
            ELSE IF start   THEN "OVERLAP_START"
            ELSE IF ends    THEN "OVERLAP_END"
            ELSE "COMPLETELY_CONTAINS"
      BY <3>1, <2>4, <2>5, <2>8
    <3> QED BY <3>2 DEF none, within, start, ends
  <2> QED BY <2>3, <2>5, <2>9, <2>10 DEF r
<1> QED BY <1>1, ShardInvHolds, PTL

=============================================================================
