---------------------- MODULE ConcurrentKvStoreProofs ----------------------
(***************************************************************************)
(* Proofs about ConcurrentKvStore for every number of threads, buckets and *)
(* keys, every hash function and every set of requests.                    *)
(***************************************************************************)
EXTENDS ConcurrentKvStore, SequenceTheorems, WellFoundedInduction, TLAPS

IInv == TypeOK /\ MutexInv /\ HoldInv /\ ControlInv

\* DbMap::bucket stays inside the array of buckets, whatever the hash function
\* returns: the assertions `b < BUCKET_COUNT` of DbMap hold.
LEMMA BucketInRange == ASSUME NEW k \in Keys PROVE bucket(k) \in Buckets
  BY BucketAssumption, HasherAssumption DEF bucket, Buckets

\* A well-formed request locks only buckets that exist.
LEMMA LocksAreBuckets == ASSUME NEW r \in Requests PROVE Locks(r) \subseteq Buckets
  BY BucketInRange, RequestsAssumption DEF Locks, IsRequest

\* What KvInterface assumes of a request, part by part.
LEMMA RequestType ==
  ASSUME NEW r \in Requests
  PROVE  /\ r.op \in Ops
         /\ r.keys \in Seq(Keys)
         /\ r.values \in Seq(Value)
         /\ r.op \in SingleKeyOps => Len(r.keys) = 1
         /\ r.op \in ValueOps => Len(r.values) = 1
  BY RequestsAssumption DEF IsRequest

\* The first label of a body is one of the labels.
LEMMA BodyType ==
  ASSUME NEW r \in Requests
  PROVE  /\ Body(r) \in Labels \ {"idle", "lock", "write", "remove", "ret"}
         /\ Body(r) = "get" => r.op = "Get"
         /\ Body(r) = "insert" => r.op = "Put"
         /\ Body(r) = "append" => r.op = "Append"
         /\ Body(r) = "delete" => r.op = "Delete"
         /\ Body(r) = "multiget" => r.op = "MultiGet"
         /\ Body(r) = "check" => r.op = "MultiPut"
         /\ Body(r) = "allkeys" => r.op = "AllKeys"
  BY RequestType DEF Body, Labels, Ops, SingleKeyOps

\* The initial state satisfies the invariant.
LEMMA InitIInv == Init => IInv
<1> SUFFICES ASSUME Init PROVE IInv
  OBVIOUS
<1>1. TypeOK
  BY MaxOpsAssumption DEF Init, TypeOK, Labels, EmptyResponse, Response, Value
<1>2. MutexInv
  BY DEF Init, MutexInv
<1>3. HoldInv
  BY DEF Init, HoldInv, Holding, Held
<1>4. ControlInv
  BY DEF Init, ControlInv, Control
<1>5. QED
  BY <1>1, <1>2, <1>3, <1>4 DEF IInv

-----------------------------------------------------------------------------
(* One step *)

\* What all steps inside the body of an operation have in common.
BodyStep(t) ==
  \/ Get(t) \/ AppendLookup(t) \/ InsertSearch(t) \/ InsertWrite(t)
  \/ DeleteLookup(t) \/ DeleteRemove(t) \/ MultiGetNext(t) \/ MultiGetEnd(t)
  \/ MultiPutCheck(t) \/ AllKeysNext(t) \/ AllKeysEnd(t)

\* A step is a call, an acquisition, a return or a step of a body.
LEMMA NextCases ==
  ASSUME [Next]_vars
  PROVE  \/ UNCHANGED vars
         \/ \E t \in Threads : Invoke(t) \/ Acquire(t) \/ Return(t) \/ BodyStep(t)
  BY DEF Next, AllDone, Step, BodyStep

\* A step inside a body keeps the request and the locks, and the thread stays
\* inside the body until it returns.
LEMMA BodyFrame ==
  ASSUME TypeOK, NEW t \in Threads, BodyStep(t)
  PROVE  /\ UNCHANGED <<writers, readers, req, left>>
         /\ pc[t] \notin {"idle", "lock", "ret"}
         /\ pc'[t] \in Labels \ {"idle", "lock"}
         /\ \A u \in Threads \ {t} : pc'[u] = pc[u]
<1>1. CASE Get(t)
  BY <1>1 DEF Get, Finish, TypeOK, Labels
<1>2. CASE AppendLookup(t)
  BY <1>2 DEF AppendLookup, TypeOK, Labels
<1>3. CASE InsertSearch(t)
  BY <1>3 DEF InsertSearch, TypeOK, Labels
<1>4. CASE InsertWrite(t)
  BY <1>4 DEF InsertWrite, Finish, TypeOK, Labels
<1>5. CASE DeleteLookup(t)
  BY <1>5 DEF DeleteLookup, Finish, TypeOK, Labels
<1>6. CASE DeleteRemove(t)
  BY <1>6 DEF DeleteRemove, Finish, TypeOK, Labels
<1>7. CASE MultiGetNext(t)
  BY <1>7 DEF MultiGetNext, Finish, TypeOK, Labels
<1>8. CASE MultiGetEnd(t)
  BY <1>8 DEF MultiGetEnd, Finish, TypeOK, Labels
<1>9. CASE MultiPutCheck(t)
  BY <1>9 DEF MultiPutCheck, Finish, TypeOK, Labels
<1>10. CASE AllKeysNext(t)
  BY <1>10 DEF AllKeysNext, TypeOK, Labels
<1>11. CASE AllKeysEnd(t)
  BY <1>11 DEF AllKeysEnd, Finish, TypeOK, Labels
<1>12. QED
  BY <1>1, <1>2, <1>3, <1>4, <1>5, <1>6, <1>7, <1>8, <1>9, <1>10, <1>11 DEF BodyStep

\* getIfExists returns an optional value.
LEMMA GetIfExistsType ==
  ASSUME TypeOK, NEW k \in Keys
  PROVE  getIfExists(k) \in Seq(Value)
  BY DEF TypeOK, getIfExists

\* The key an access names is a key of the store.
LEMMA CurKeyType ==
  ASSUME TypeOK, ControlInv, NEW t \in Threads,
         \/ pc[t] \in {"get", "append", "delete", "remove", "insert", "write"}
         \/ pc[t] = "multiget" /\ idx[t] < Len(req[t].keys)
  PROVE  CurKey(t) \in Keys
<1>1. req[t] \in Requests /\ idx[t] \in Nat
  BY DEF TypeOK, ControlInv, Control
<1>2. idx[t] < Len(req[t].keys)
  <2>1. CASE pc[t] \in {"get", "append", "delete", "remove"}
    <3>1. idx[t] = 0 /\ req[t].op \in SingleKeyOps
      BY <2>1 DEF ControlInv, Control, SingleKeyOps
    <3>2. Len(req[t].keys) = 1
      BY <1>1, <3>1, RequestType
    <3>3. QED
      BY <3>1, <3>2
  <2>2. CASE pc[t] \in {"insert", "write"}
    BY <2>2 DEF ControlInv, Control
  <2>3. QED
    BY <2>1, <2>2
<1>3. QED
  BY <1>1, <1>2, RequestType DEF CurKey

\* What insertItem writes is a value.
LEMMA CurValueType ==
  ASSUME TypeOK, ControlInv, NEW t \in Threads, pc[t] = "write"
  PROVE  CurValue(t) \in Value
<1>1. req[t] \in Requests /\ idx[t] \in Nat /\ item[t] \in Seq(Value)
  BY DEF TypeOK, ControlInv, Control
<1>2. idx[t] < Len(req[t].values)
  BY <1>1, RequestType DEF ControlInv, Control
<1>3. CASE req[t].op = "Append" /\ item[t] # <<>>
  <2>1. item[t][1] \in Value
    BY <1>1, <1>3
  <2>2. req[t].values[1] \in Value
    BY <1>1, <1>3, RequestType DEF ValueOps
  <2>3. QED
    BY <1>3, <2>1, <2>2 DEF CurValue, Value
<1>4. CASE ~(req[t].op = "Append" /\ item[t] # <<>>)
  BY <1>1, <1>2, <1>4, RequestType DEF CurValue
<1>5. QED
  BY <1>3, <1>4

-----------------------------------------------------------------------------
(* Every step keeps every part of the invariant *)

\* Every step keeps the mutexes consistent.
LEMMA MutexStep == ASSUME IInv, [Next]_vars PROVE MutexInv'
<1> USE DEF IInv
<1>1. CASE UNCHANGED vars
  BY <1>1 DEF MutexInv, vars
<1>2. ASSUME NEW t \in Threads, Invoke(t) PROVE MutexInv'
  BY <1>2 DEF Invoke, MutexInv
<1>3. ASSUME NEW t \in Threads, Acquire(t) PROVE MutexInv'
  <2>1. PICK b \in Buckets :
          /\ writers[b] = {}
          /\ \/ /\ readers[b] = {}
                /\ writers' = [writers EXCEPT ![b] = {t}]
                /\ UNCHANGED readers
             \/ /\ readers' = [readers EXCEPT ![b] = @ \cup {t}]
                /\ UNCHANGED writers
    BY <1>3 DEF Acquire
  <2>2. SUFFICES ASSUME NEW c \in Buckets
                 PROVE  /\ \A v, u \in writers'[c] : v = u
                        /\ writers'[c] # {} => readers'[c] = {}
    BY DEF MutexInv
  <2>3. CASE c = b
    BY <2>1, <2>3 DEF TypeOK
  <2>4. CASE c # b
    BY <2>1, <2>4, ZenonT(60) DEF TypeOK, MutexInv
  <2>5. QED
    BY <2>3, <2>4
<1>4. ASSUME NEW t \in Threads, Return(t) PROVE MutexInv'
  BY <1>4 DEF Return, MutexInv, TypeOK
<1>5. ASSUME NEW t \in Threads, BodyStep(t) PROVE MutexInv'
  BY <1>5, BodyFrame DEF MutexInv
<1>6. QED
  BY <1>1, <1>2, <1>3, <1>4, <1>5, NextCases

\* Every step leaves the threads in the code of their operations.
LEMMA ControlStep == ASSUME IInv, [Next]_vars PROVE ControlInv'
<1> USE DEF IInv
<1>1. CASE UNCHANGED vars
  BY <1>1 DEF ControlInv, Control, vars
<1>2. ASSUME NEW t \in Threads, Invoke(t) PROVE ControlInv'
  <2>1. PICK r \in Requests :
          /\ req' = [req EXCEPT ![t] = r]
          /\ pc' = [pc EXCEPT ![t] = IF Locks(r) = {} THEN Body(r) ELSE "lock"]
    BY <1>2 DEF Invoke
  <2>2. Control(t)'
    <3>1. req'[t] = r /\ pc'[t] \in {"lock", Body(r)}
      BY <2>1 DEF TypeOK
    <3>2. pc[t] = "idle" /\ left'[t] > 0 /\ idx'[t] = 0 /\ item'[t] = <<>>
      BY <1>2 DEF Invoke, ControlInv, Control
    <3>3. Body(r) = "insert" => Len(r.keys) = 1 /\ Len(r.values) = 1
      BY BodyType, RequestType DEF SingleKeyOps, ValueOps
    <3>4. Len(r.keys) \in Nat
      BY RequestType
    <3>5. QED
      BY <3>1, <3>2, <3>3, <3>4, BodyType, BucketAssumption DEF Control, Labels
  <2>3. ASSUME NEW u \in Threads \ {t} PROVE Control(u)'
    BY <1>2, <2>1 DEF Invoke, ControlInv, Control, TypeOK
  <2>4. QED
    BY <2>2, <2>3 DEF ControlInv
<1>3. ASSUME NEW t \in Threads, Acquire(t) PROVE ControlInv'
  <2>1. /\ UNCHANGED <<req, idx, item, left>>
        /\ pc[t] = "lock"
        /\ pc' \in {[pc EXCEPT ![t] = "lock"], [pc EXCEPT ![t] = Body(req[t])]}
    BY <1>3 DEF Acquire
  <2>2. Control(t)'
    <3>1. req'[t] \in Requests /\ left'[t] > 0 /\ idx'[t] = 0 /\ item'[t] = <<>>
      BY <2>1 DEF ControlInv, Control
    <3>2. pc'[t] \in {"lock", Body(req'[t])}
      BY <2>1 DEF TypeOK
    <3>3. Body(req'[t]) = "insert" => Len(req'[t].keys) = 1 /\ Len(req'[t].values) = 1
      BY <3>1, BodyType, RequestType DEF SingleKeyOps, ValueOps
    <3>4. Len(req'[t].keys) \in Nat
      BY <3>1, RequestType
    <3>5. QED
      BY <3>1, <3>2, <3>3, <3>4, BodyType, BucketAssumption DEF Control, Labels
  <2>3. ASSUME NEW u \in Threads \ {t} PROVE Control(u)'
    BY <2>1 DEF ControlInv, Control, TypeOK
  <2>4. QED
    BY <2>2, <2>3 DEF ControlInv
<1>4. ASSUME NEW t \in Threads, Return(t) PROVE ControlInv'
  BY <1>4 DEF Return, ControlInv, Control, TypeOK
<1>5. ASSUME NEW t \in Threads, Get(t) PROVE ControlInv'
  BY <1>5 DEF Get, Finish, ControlInv, Control, TypeOK
<1>6. ASSUME NEW t \in Threads, AppendLookup(t) PROVE ControlInv'
  <2>1. Len(req[t].keys) = 1 /\ Len(req[t].values) = 1
    BY <1>6, RequestType DEF AppendLookup, ControlInv, Control, SingleKeyOps, ValueOps
  <2>2. Control(t)'
    BY <1>6, <2>1 DEF AppendLookup, ControlInv, Control, TypeOK
  <2>3. ASSUME NEW u \in Threads \ {t} PROVE Control(u)'
    BY <1>6 DEF AppendLookup, ControlInv, Control, TypeOK
  <2>4. QED
    BY <2>2, <2>3 DEF ControlInv
<1>7. ASSUME NEW t \in Threads, InsertSearch(t) PROVE ControlInv'
  BY <1>7 DEF InsertSearch, ControlInv, Control, TypeOK
<1>8. ASSUME NEW t \in Threads, InsertWrite(t) PROVE ControlInv'
  BY <1>8 DEF InsertWrite, Finish, ControlInv, Control, TypeOK
<1>9. ASSUME NEW t \in Threads, DeleteLookup(t) PROVE ControlInv'
  BY <1>9 DEF DeleteLookup, Finish, ControlInv, Control, TypeOK
<1>10. ASSUME NEW t \in Threads, DeleteRemove(t) PROVE ControlInv'
  BY <1>10 DEF DeleteRemove, Finish, ControlInv, Control, TypeOK
<1>11. ASSUME NEW t \in Threads, MultiGetNext(t) PROVE ControlInv'
  BY <1>11, RequestType, SMTT(30) DEF MultiGetNext, Finish, ControlInv, Control, TypeOK
<1>12. ASSUME NEW t \in Threads, MultiGetEnd(t) PROVE ControlInv'
  BY <1>12 DEF MultiGetEnd, Finish, ControlInv, Control, TypeOK
<1>13. ASSUME NEW t \in Threads, MultiPutCheck(t) PROVE ControlInv'
  BY <1>13, RequestType DEF MultiPutCheck, Finish, ControlInv, Control, TypeOK
<1>14. ASSUME NEW t \in Threads, AllKeysNext(t) PROVE ControlInv'
  BY <1>14, BucketAssumption DEF AllKeysNext, ControlInv, Control, TypeOK
<1>15. ASSUME NEW t \in Threads, AllKeysEnd(t) PROVE ControlInv'
  BY <1>15 DEF AllKeysEnd, Finish, ControlInv, Control, TypeOK
<1>16. QED
  BY <1>1, <1>2, <1>3, <1>4, <1>5, <1>6, <1>7, <1>8, <1>9, <1>10, <1>11, <1>12,
     <1>13, <1>14, <1>15, NextCases DEF BodyStep

\* Every step leaves the threads with the mutexes of the place they are at.
LEMMA HoldStep == ASSUME IInv, [Next]_vars PROVE HoldInv'
<1> USE DEF IInv
<1>1. CASE UNCHANGED vars
  BY <1>1 DEF HoldInv, Holding, Held, vars
<1>2. ASSUME NEW t \in Threads, Invoke(t) PROVE HoldInv'
  <2>1. PICK r \in Requests :
          /\ req' = [req EXCEPT ![t] = r]
          /\ pc' = [pc EXCEPT ![t] = IF Locks(r) = {} THEN Body(r) ELSE "lock"]
    BY <1>2 DEF Invoke
  <2>2. \A u \in Threads : Held(u)' = Held(u)
    BY <1>2 DEF Invoke, Held
  <2>3. Holding(t)'
    <3>1. Held(t) = {}
      BY <1>2 DEF Invoke, HoldInv, Holding
    <3>2. \A b \in Buckets : t \notin writers'[b] /\ t \notin readers'[b]
      BY <1>2, <3>1 DEF Invoke, Held
    <3>3. /\ req'[t] = r
          /\ pc'[t] = "lock" \/ (Locks(r) = {} /\ pc'[t] = Body(r))
      BY <2>1 DEF TypeOK
    <3>4. QED
      BY <2>2, <3>1, <3>2, <3>3, BodyType DEF Holding
  <2>4. ASSUME NEW u \in Threads \ {t} PROVE Holding(u)'
    <3>1. pc'[u] = pc[u] /\ req'[u] = req[u]
      BY <2>1 DEF TypeOK
    <3>2. QED
      BY <1>2, <2>2, <3>1 DEF Invoke, HoldInv, Holding
  <2>5. QED
    BY <2>3, <2>4 DEF HoldInv
<1>3. ASSUME NEW t \in Threads, Acquire(t) PROVE HoldInv'
  <2>1. PICK b \in Buckets :
          /\ NextLock(t, b)
          /\ \/ /\ Exclusive(req[t])
                /\ writers[b] = {}
                /\ writers' = [writers EXCEPT ![b] = {t}]
                /\ UNCHANGED readers
             \/ /\ ~Exclusive(req[t])
                /\ readers' = [readers EXCEPT ![b] = @ \cup {t}]
                /\ UNCHANGED writers
          /\ pc' = [pc EXCEPT ![t] =
                      IF Locks(req[t]) = Held(t) \cup {b} THEN Body(req[t]) ELSE "lock"]
    BY <1>3 DEF Acquire
  <2>2. pc[t] = "lock" /\ req' = req /\ req[t] \in Requests
    BY <1>3 DEF Acquire, ControlInv, Control
  <2>3. Held(t)' = Held(t) \cup {b}
    BY <2>1 DEF Held, TypeOK
  <2>4. Holding(t)'
    <3>1. /\ Held(t) \subseteq Locks(req[t])
          /\ \A c \in Held(t), d \in Locks(req[t]) \ Held(t) : c < d
          /\ \A c \in Buckets : t \in writers[c] => Exclusive(req[t])
          /\ \A c \in Buckets : t \in readers[c] => ~Exclusive(req[t])
      BY <2>2 DEF HoldInv, Holding
    <3>2. Held(t)' \subseteq Locks(req[t])
      BY <2>1, <2>3, <3>1 DEF NextLock
    <3>3. \A c \in Held(t)', d \in Locks(req[t]) \ Held(t)' : c < d
      <4>1. SUFFICES ASSUME NEW d \in Locks(req[t]) \ Held(t)' PROVE b < d
        BY <2>3, <3>1
      <4>2. d \in Int /\ b \in Int
        BY <2>2, LocksAreBuckets, BucketAssumption DEF Buckets
      <4>3. d # b /\ d \notin Held(t)
        BY <2>3, <4>1
      <4>4. QED
        BY <2>1, <4>1, <4>2, <4>3 DEF NextLock
    <3>4. /\ \A c \in Buckets : t \in writers'[c] => Exclusive(req[t])
          /\ \A c \in Buckets : t \in readers'[c] => ~Exclusive(req[t])
      BY <2>1, <3>1 DEF TypeOK
    <3>5. pc'[t] = "lock" \/ (Locks(req[t]) = Held(t)' /\ pc'[t] = Body(req[t]))
      BY <2>1, <2>3 DEF TypeOK
    <3>6. QED
      BY <2>2, <3>2, <3>3, <3>4, <3>5, BodyType DEF Holding
  <2>5. ASSUME NEW u \in Threads \ {t} PROVE Holding(u)'
    <3>1. pc'[u] = pc[u] /\ req'[u] = req[u]
      BY <2>1, <2>2 DEF TypeOK
    <3>2. \A c \in Buckets : /\ (u \in writers'[c]) = (u \in writers[c])
                            /\ (u \in readers'[c]) = (u \in readers[c])
      <4>1. ASSUME NEW c \in Buckets
            PROVE  \/ writers'[c] = writers[c]
                   \/ writers[c] = {} /\ writers'[c] = {t}
        BY <2>1 DEF TypeOK
      <4>2. ASSUME NEW c \in Buckets
            PROVE  readers'[c] = readers[c] \/ readers'[c] = readers[c] \cup {t}
        BY <2>1 DEF TypeOK
      <4>3. ASSUME NEW c \in Buckets PROVE (u \in writers'[c]) = (u \in writers[c])
        BY <4>1
      <4>4. ASSUME NEW c \in Buckets PROVE (u \in readers'[c]) = (u \in readers[c])
        BY <4>2
      <4>5. QED
        BY <4>3, <4>4
    <3>3. Held(u)' = Held(u)
      BY <3>2 DEF Held
    <3>4. QED
      BY <3>1, <3>2, <3>3 DEF HoldInv, Holding
  <2>6. QED
    BY <2>4, <2>5 DEF HoldInv
<1>4. ASSUME NEW t \in Threads, Return(t) PROVE HoldInv'
  <2>1. \A b \in Buckets : t \notin writers'[b] /\ t \notin readers'[b]
    BY <1>4 DEF Return
  <2>2. Holding(t)'
    <3>1. pc'[t] = "idle"
      BY <1>4 DEF Return, TypeOK
    <3>2. QED
      BY <2>1, <3>1 DEF Holding, Held
  <2>3. ASSUME NEW u \in Threads \ {t} PROVE Holding(u)'
    <3>1. pc'[u] = pc[u] /\ req'[u] = req[u]
      BY <1>4 DEF Return, TypeOK
    <3>2. \A c \in Buckets : /\ (u \in writers'[c]) = (u \in writers[c])
                            /\ (u \in readers'[c]) = (u \in readers[c])
      BY <1>4 DEF Return, TypeOK
    <3>3. Held(u)' = Held(u)
      BY <3>2 DEF Held
    <3>4. QED
      BY <3>1, <3>2, <3>3 DEF HoldInv, Holding
  <2>4. QED
    BY <2>2, <2>3 DEF HoldInv
<1>5. ASSUME NEW t \in Threads, BodyStep(t) PROVE HoldInv'
  <2>1. ASSUME NEW u \in Threads PROVE Holding(u)'
    <3>1. Held(u)' = Held(u)
      BY <1>5, BodyFrame DEF Held
    <3>2. UNCHANGED <<writers, readers, req>>
      BY <1>5, BodyFrame
    <3>3. \/ pc'[u] = pc[u]
          \/ pc[u] \notin {"idle", "lock"} /\ pc'[u] \notin {"idle", "lock"}
      BY <1>5, BodyFrame
    <3>4. QED
      BY <3>1, <3>2, <3>3 DEF HoldInv, Holding
  <2>2. QED
    BY <2>1 DEF HoldInv
<1>6. QED
  BY <1>1, <1>2, <1>3, <1>4, <1>5, NextCases

\* Every step keeps the types.
LEMMA TypeStep == ASSUME IInv, [Next]_vars PROVE TypeOK'
<1> USE DEF IInv
<1>1. CASE UNCHANGED vars
  BY <1>1 DEF TypeOK, vars
<1>2. ASSUME NEW t \in Threads, Invoke(t) PROVE TypeOK'
  BY <1>2, BodyType DEF Invoke, TypeOK, Labels
<1>3. ASSUME NEW t \in Threads, Acquire(t) PROVE TypeOK'
  <2>1. req[t] \in Requests
    BY <1>3 DEF Acquire, ControlInv, Control
  <2>2. /\ writers' \in [Buckets -> SUBSET Threads]
        /\ readers' \in [Buckets -> SUBSET Threads]
    <3>1. PICK b \in Buckets :
            \/ writers' = [writers EXCEPT ![b] = {t}] /\ UNCHANGED readers
            \/ readers' = [readers EXCEPT ![b] = @ \cup {t}] /\ UNCHANGED writers
      BY <1>3 DEF Acquire
    <3>2. CASE writers' = [writers EXCEPT ![b] = {t}] /\ UNCHANGED readers
      BY <3>2 DEF TypeOK
    <3>3. CASE readers' = [readers EXCEPT ![b] = @ \cup {t}] /\ UNCHANGED writers
      <4>1. readers[b] \cup {t} \in SUBSET Threads
        BY DEF TypeOK
      <4>2. QED
        BY <3>3, <4>1 DEF TypeOK
    <3>4. QED
      BY <3>1, <3>2, <3>3
  <2>3. pc' \in [Threads -> Labels]
    BY <1>3, <2>1, BodyType DEF Acquire, TypeOK, Labels
  <2>4. QED
    BY <1>3, <2>2, <2>3 DEF Acquire, TypeOK
<1>4. ASSUME NEW t \in Threads, Return(t) PROVE TypeOK'
  <2>1. left' \in [Threads -> Nat]
    <3>1. left[t] > 0
      BY <1>4 DEF Return, ControlInv, Control
    <3>2. left' = [left EXCEPT ![t] = @ - 1]
      BY <1>4 DEF Return
    <3>3. QED
      BY <3>1, <3>2 DEF TypeOK
  <2>2. /\ writers' \in [Buckets -> SUBSET Threads]
        /\ readers' \in [Buckets -> SUBSET Threads]
    BY <1>4 DEF Return, TypeOK
  <2>3. res' \in [Threads -> Response]
    BY <1>4 DEF Return, TypeOK, Response, EmptyResponse
  <2>4. QED
    BY <1>4, <2>1, <2>2, <2>3 DEF Return, TypeOK, Labels
<1>5. ASSUME NEW t \in Threads, NEW ok \in BOOLEAN, NEW values \in Seq(Value),
             Finish(t, ok, values)
      PROVE  res' \in [Threads -> Response] /\ pc' \in [Threads -> Labels]
  BY <1>5 DEF Finish, TypeOK, Response, Labels
<1>6. ASSUME NEW t \in Threads, Get(t) PROVE TypeOK'
  <2>1. getIfExists(CurKey(t)) \in Seq(Value)
    BY <1>6, CurKeyType, GetIfExistsType DEF Get
  <2>2. item' \in [Threads -> Seq(Value)] /\ item'[t] \in Seq(Value)
    BY <1>6, <2>1 DEF Get, TypeOK
  <2>3. res' \in [Threads -> Response] /\ pc' \in [Threads -> Labels]
    BY <1>5, <1>6, <2>2, (item'[t] # <<>>) \in BOOLEAN DEF Get
  <2>4. QED
    BY <1>6, <2>2, <2>3 DEF Get, TypeOK
<1>7. ASSUME NEW t \in Threads, AppendLookup(t) PROVE TypeOK'
  <2>1. getIfExists(CurKey(t)) \in Seq(Value)
    BY <1>7, CurKeyType, GetIfExistsType DEF AppendLookup
  <2>2. QED
    BY <1>7, <2>1 DEF AppendLookup, TypeOK, Labels
<1>8. ASSUME NEW t \in Threads, InsertSearch(t) PROVE TypeOK'
  BY <1>8 DEF InsertSearch, TypeOK, Labels
<1>9. ASSUME NEW t \in Threads, InsertWrite(t) PROVE TypeOK'
  <2>1. CurKey(t) \in Keys /\ CurValue(t) \in Value
    BY <1>9, CurKeyType, CurValueType DEF InsertWrite
  <2>2. insertItem(items[CurKey(t)], found[t], CurValue(t)) \in Seq(Value)
    BY <2>1 DEF TypeOK, insertItem
  <2>3. items' \in [Keys -> Seq(Value)]
    BY <1>9, <2>1, <2>2 DEF InsertWrite, TypeOK
  <2>4. res' \in [Threads -> Response] /\ pc' \in [Threads -> Labels]
    <3>1. CASE Finish(t, TRUE, <<>>)
      BY <1>5, <3>1, <<>> \in Seq(Value)
    <3>2. CASE pc' = [pc EXCEPT ![t] = "insert"] /\ UNCHANGED res
      BY <3>2 DEF TypeOK, Labels
    <3>3. QED
      BY <1>9, <3>1, <3>2 DEF InsertWrite
  <2>5. /\ idx' \in [Threads -> Nat]
        /\ UNCHANGED <<writers, readers, req, item, found, left>>
    BY <1>9 DEF InsertWrite, TypeOK
  <2>6. QED
    BY <2>3, <2>4, <2>5 DEF TypeOK
<1>10. ASSUME NEW t \in Threads, DeleteLookup(t) PROVE TypeOK'
  <2>1. getIfExists(CurKey(t)) \in Seq(Value)
    BY <1>10, CurKeyType, GetIfExistsType DEF DeleteLookup
  <2>2. item' \in [Threads -> Seq(Value)]
    BY <1>10, <2>1 DEF DeleteLookup, TypeOK
  <2>3. res' \in [Threads -> Response] /\ pc' \in [Threads -> Labels]
    <3>1. CASE Finish(t, FALSE, <<>>)
      BY <1>5, <3>1, <<>> \in Seq(Value)
    <3>2. CASE pc' = [pc EXCEPT ![t] = "remove"] /\ UNCHANGED res
      BY <3>2 DEF TypeOK, Labels
    <3>3. QED
      BY <1>10, <3>1, <3>2 DEF DeleteLookup
  <2>4. QED
    BY <1>10, <2>2, <2>3 DEF DeleteLookup, TypeOK
<1>11. ASSUME NEW t \in Threads, DeleteRemove(t) PROVE TypeOK'
  <2>1. res' \in [Threads -> Response] /\ pc' \in [Threads -> Labels]
    BY <1>5, <1>11, item[t] \in Seq(Value) DEF DeleteRemove, TypeOK
  <2>2. QED
    BY <1>11, <2>1, CurKeyType DEF DeleteRemove, TypeOK
<1>12. ASSUME NEW t \in Threads, MultiGetNext(t) PROVE TypeOK'
  <2>1. getIfExists(CurKey(t)) \in Seq(Value)
    BY <1>12, CurKeyType, GetIfExistsType DEF MultiGetNext
  <2>2. item' \in [Threads -> Seq(Value)] /\ item'[t] \in Seq(Value)
    BY <1>12, <2>1 DEF MultiGetNext, TypeOK
  <2>3. /\ res' \in [Threads -> Response]
        /\ pc' \in [Threads -> Labels]
        /\ idx' \in [Threads -> Nat]
    <3>1. CASE item'[t] = <<>>
      BY <1>5, <1>12, <3>1, <<>> \in Seq(Value) DEF MultiGetNext, TypeOK
    <3>2. CASE item'[t] # <<>>
      <4>1. [ok |-> res[t].ok, values |-> res[t].values \o item'[t], keys |-> res[t].keys]
              \in Response
        BY <2>2 DEF TypeOK, Response
      <4>2. res' \in [Threads -> Response]
        BY <1>12, <3>2, <4>1 DEF MultiGetNext, TypeOK
      <4>3. pc' = pc /\ idx' = [idx EXCEPT ![t] = @ + 1]
        BY <1>12, <3>2 DEF MultiGetNext
      <4>4. QED
        BY <4>2, <4>3 DEF TypeOK
    <3>3. QED
      BY <3>1, <3>2
  <2>4. QED
    BY <1>12, <2>2, <2>3 DEF MultiGetNext, TypeOK
<1>13. ASSUME NEW t \in Threads, MultiGetEnd(t) PROVE TypeOK'
  <2>1. res[t].values \in Seq(Value)
    BY DEF TypeOK, Response
  <2>2. QED
    BY <1>5, <1>13, <2>1 DEF MultiGetEnd, TypeOK
<1>14. ASSUME NEW t \in Threads, MultiPutCheck(t) PROVE TypeOK'
  <2>1. res' \in [Threads -> Response] /\ pc' \in [Threads -> Labels]
    <3>1. CASE Finish(t, Len(req[t].keys) = Len(req[t].values), <<>>)
      BY <1>5, <3>1, <<>> \in Seq(Value), (Len(req[t].keys) = Len(req[t].values)) \in BOOLEAN
    <3>2. CASE pc' = [pc EXCEPT ![t] = "insert"] /\ UNCHANGED res
      BY <3>2 DEF TypeOK, Labels
    <3>3. QED
      BY <1>14, <3>1, <3>2 DEF MultiPutCheck
  <2>2. QED
    BY <1>14, <2>1 DEF MultiPutCheck, TypeOK
<1>15. ASSUME NEW t \in Threads, AllKeysNext(t) PROVE TypeOK'
  <2>1. ASSUME NEW here \in SUBSET Keys
        PROVE  [ok |-> res[t].ok, values |-> res[t].values, keys |-> res[t].keys \cup here]
                 \in Response
    BY DEF TypeOK, Response
  <2>2. res' \in [Threads -> Response]
    BY <1>15, <2>1 DEF AllKeysNext, TypeOK
  <2>3. QED
    BY <1>15, <2>2 DEF AllKeysNext, TypeOK
<1>16. ASSUME NEW t \in Threads, AllKeysEnd(t) PROVE TypeOK'
  BY <1>5, <1>16, <<>> \in Seq(Value) DEF AllKeysEnd, TypeOK
<1>17. QED
  BY <1>1, <1>2, <1>3, <1>4, <1>6, <1>7, <1>8, <1>9, <1>10, <1>11, <1>12,
     <1>13, <1>14, <1>15, <1>16, NextCases DEF BodyStep

-----------------------------------------------------------------------------
(* The invariant and what follows from it *)

\* Every step keeps the invariant.
LEMMA IInvStep == IInv /\ [Next]_vars => IInv'
  BY TypeStep, MutexStep, HoldStep, ControlStep DEF IInv

\* IInv holds in every reachable state.
THEOREM IInvHolds == Spec => []IInv
<1>1. Spec => Init /\ [][Next]_vars
  BY DEF Spec
<1>2. QED
  BY <1>1, InitIInv, IInvStep, PTL

\* Every variable keeps its type, for every set of threads, keys and requests.
THEOREM TypeCorrect == Spec => []TypeOK
  BY IInvHolds, PTL DEF IInv

\* The bucket mutexes are used as the code intends: whoever is in the body of an
\* operation holds exactly the mutexes of Locks, in the mode of the operation.
THEOREM LocksAreDisciplined == Spec => []LockDiscipline
<1>1. IInv => LockDiscipline
  BY DEF IInv, LockDiscipline
<1>2. QED
  BY <1>1, IInvHolds, PTL

\* An access other than AllKeys' walk, and other than one of MultiPut in bucket
\* 0, is made with the bucket's mutex held in the operation's mode.
LEMMA AccessIsLocked ==
  ASSUME IInv, NEW t \in Threads, NEW b \in Buckets, Reads(t, b) \/ Writes(t, b),
         req[t].op # "AllKeys", ~(b = 0 /\ req[t].op = "MultiPut")
  PROVE  /\ b \in Held(t)
         /\ Exclusive(req[t]) => t \in writers[b]
         /\ ~Exclusive(req[t]) => t \in readers[b]
<1>1. pc[t] # "allkeys"
  BY DEF IInv, ControlInv, Control
<1>2. /\ \/ pc[t] \in {"get", "append", "delete", "remove", "insert", "write"}
         \/ pc[t] = "multiget" /\ idx[t] < Len(req[t].keys)
      /\ b = bucket(CurKey(t))
  BY <1>1 DEF Reads, Writes
<1>3. req[t] \in Requests /\ idx[t] \in Nat /\ Held(t) = Locks(req[t])
  BY <1>2 DEF IInv, ControlInv, Control, HoldInv, Holding, TypeOK
<1>4. idx[t] + 1 \in DOMAIN req[t].keys
  <2>1. idx[t] < Len(req[t].keys)
    <3>1. CASE pc[t] \in {"get", "append", "delete", "remove"}
      <4>1. idx[t] = 0 /\ req[t].op \in SingleKeyOps
        BY <3>1 DEF IInv, ControlInv, Control, SingleKeyOps
      <4>2. Len(req[t].keys) = 1
        BY <1>3, <4>1, RequestType
      <4>3. QED
        BY <4>1, <4>2
    <3>2. CASE pc[t] \in {"insert", "write"}
      BY <3>2 DEF IInv, ControlInv, Control
    <3>3. QED
      BY <1>2, <3>1, <3>2
  <2>2. QED
    BY <1>3, <2>1, RequestType
<1>5. b \in Locks(req[t])
  <2>1. CASE req[t].op = "MultiPut"
    BY <2>1 DEF Locks
  <2>2. CASE req[t].op # "MultiPut"
    BY <1>2, <1>4, <2>2 DEF Locks, CurKey
  <2>3. QED
    BY <2>1, <2>2
<1>6. QED
  BY <1>3, <1>5 DEF Held, IInv, HoldInv, Holding

\* Two threads that race are in AllKeys, or one is in MultiPut and at bucket 0.
LEMMA IInvConfinesRaces == IInv => RaceConfined
<1> SUFFICES ASSUME IInv, NEW t \in Threads, NEW u \in Threads, NEW b \in Buckets,
                    Race(t, u, b), req[u].op # "AllKeys",
                    ~(b = 0 /\ "MultiPut" \in {req[t].op, req[u].op})
             PROVE  FALSE
  BY DEF RaceConfined
<1>1. Writes(t, b) /\ (Reads(u, b) \/ Writes(u, b)) /\ t # u
  BY DEF Race
<1>2. Exclusive(req[t]) /\ req[t].op # "AllKeys"
  BY <1>1 DEF Writes, Exclusive, IInv, ControlInv, Control
<1>3. t \in writers[b]
  BY <1>1, <1>2, AccessIsLocked
<1>4. u \in writers[b] \/ u \in readers[b]
  BY <1>1, AccessIsLocked
<1>5. QED
  BY <1>1, <1>3, <1>4 DEF IInv, MutexInv

\* For any threads, buckets, hash function and requests, the only data races of
\* the store are those of a MultiPut in bucket 0 and those of AllKeys.
THEOREM RacesAreConfined == Spec => []RaceConfined
  BY IInvHolds, IInvConfinesRaces, PTL

\* A waiting thread holds only smaller buckets, so no cycle of waiting threads
\* can form, for any number of buckets.
THEOREM LocksAreOrdered == Spec => []LockOrder
<1>1. IInv => LockOrder
  BY DEF IInv, HoldInv, Holding, LockOrder, NextLock
<1>2. QED
  BY <1>1, IInvHolds, PTL

-----------------------------------------------------------------------------
(* Requests that keep to what the locking covers *)

\* Without those requests no two threads race.
LEMMA GuardedIsRaceFree ==
  ASSUME GuardedRequests, IInv
  PROVE  DataRaceFree
<1> SUFFICES ASSUME NEW t \in Threads, NEW u \in Threads, NEW b \in Buckets, Race(t, u, b)
             PROVE  FALSE
  BY DEF DataRaceFree
<1>1. ASSUME NEW v \in Threads, Reads(v, b) \/ Writes(v, b)
      PROVE  req[v].op # "AllKeys" /\ ~(b = 0 /\ req[v].op = "MultiPut")
  <2>1. req[v] \in Requests
    BY <1>1 DEF Reads, Writes, IInv, ControlInv, Control
  <2>2. req[v].op # "AllKeys"
    BY <2>1 DEF GuardedRequests
  <2>3. CASE req[v].op = "MultiPut"
    <3>1. pc[v] \in {"insert", "write"} /\ b = bucket(CurKey(v))
      BY <1>1, <2>3 DEF Reads, Writes, IInv, ControlInv, Control
    <3>2. idx[v] \in Nat /\ idx[v] < Len(req[v].keys)
      BY <3>1 DEF IInv, ControlInv, Control, TypeOK
    <3>3. idx[v] + 1 \in DOMAIN req[v].keys
      BY <2>1, <3>2, RequestType
    <3>4. QED
      BY <2>1, <2>2, <2>3, <3>1, <3>3 DEF GuardedRequests, CurKey
  <2>4. QED
    BY <2>2, <2>3
<1>2. req[u].op # "AllKeys" /\ ~(b = 0 /\ "MultiPut" \in {req[t].op, req[u].op})
  BY <1>1 DEF Race
<1>3. QED
  BY <1>2, IInvConfinesRaces DEF RaceConfined

\* With requests the locking covers, no two threads ever conflict on a bucket.
THEOREM GuardedStoreIsRaceFree == GuardedRequests /\ Spec => []DataRaceFree
<1> SUFFICES ASSUME GuardedRequests PROVE Spec => []DataRaceFree
  OBVIOUS
<1>1. IInv => DataRaceFree
  BY GuardedIsRaceFree
<1>2. QED
  BY <1>1, IInvHolds, PTL

DupInv == NoDuplicateKeys /\ SearchIsCurrent

\* An empty store has no key twice.
LEMMA InitDupInv == Init => DupInv
  BY DEF Init, DupInv, NoDuplicateKeys, SearchIsCurrent

\* A step that leaves the items alone, and moves only t and not to "write".
LEMMA DupFrame ==
  ASSUME IInv, DupInv, NEW t \in Threads, pc'[t] # "write",
         \A u \in Threads \ {t} : pc'[u] = pc[u] /\ req'[u] = req[u]
                                 /\ idx'[u] = idx[u] /\ found'[u] = found[u],
         items' = items
  PROVE  DupInv'
  BY DEF DupInv, NoDuplicateKeys, SearchIsCurrent, CurKey

\* A step that writes the items of the key t is at.
LEMMA DupWrite ==
  ASSUME GuardedRequests, IInv, DupInv, NEW t \in Threads,
         pc[t] \in {"write", "remove"}, pc'[t] # "write",
         \A u \in Threads \ {t} : pc'[u] = pc[u] /\ req'[u] = req[u]
                                 /\ idx'[u] = idx[u] /\ found'[u] = found[u],
         NEW new, Len(new) <= 1, items' = [items EXCEPT ![CurKey(t)] = new]
  PROVE  DupInv'
<1>1. CurKey(t) \in Keys /\ items \in [Keys -> Seq(Value)]
  BY CurKeyType DEF IInv, TypeOK
<1>2. NoDuplicateKeys'
  BY <1>1 DEF DupInv, NoDuplicateKeys
<1>3. ASSUME NEW u \in Threads, pc'[u] = "write"
      PROVE  found'[u] <=> items'[CurKey(u)'] # <<>>
  <2>1. u # t /\ pc[u] = "write"
    BY <1>3
  <2>2. CurKey(u)' = CurKey(u) /\ found'[u] = found[u]
    BY <2>1 DEF CurKey
  <2>3. CurKey(u) # CurKey(t)
    <3>1. SUFFICES ASSUME CurKey(u) = CurKey(t) PROVE FALSE
      OBVIOUS
    <3>2. Race(t, u, bucket(CurKey(t)))
      BY <2>1, <3>1 DEF Race, Writes
    <3>3. QED
      BY <1>1, <3>2, BucketInRange, GuardedIsRaceFree DEF DataRaceFree
  <2>4. CurKey(u) \in Keys
    BY <2>1, CurKeyType DEF IInv
  <2>5. items'[CurKey(u)] = items[CurKey(u)]
    BY <1>1, <2>3, <2>4
  <2>6. QED
    BY <2>1, <2>2, <2>5 DEF DupInv, SearchIsCurrent
<1>4. QED
  BY <1>2, <1>3 DEF DupInv, SearchIsCurrent

\* A thread's step leaves the other threads' locals alone.
LEMMA OthersUntouched ==
  ASSUME TypeOK, NEW t \in Threads,
         Invoke(t) \/ Acquire(t) \/ Return(t) \/ BodyStep(t),
         NEW u \in Threads \ {t}
  PROVE  pc'[u] = pc[u] /\ req'[u] = req[u] /\ idx'[u] = idx[u] /\ found'[u] = found[u]
<1>1. CASE Invoke(t)
  BY <1>1 DEF Invoke, TypeOK
<1>2. CASE Acquire(t)
  BY <1>2 DEF Acquire, TypeOK
<1>3. CASE Return(t)
  BY <1>3 DEF Return, TypeOK
<1>4. CASE BodyStep(t)
  <2>1. pc'[u] = pc[u] /\ req'[u] = req[u]
    BY <1>4, BodyFrame
  <2>2. idx'[u] = idx[u] /\ found'[u] = found[u]
    BY <1>4 DEF TypeOK, BodyStep, Get, AppendLookup, InsertSearch, InsertWrite, DeleteLookup,
       DeleteRemove, MultiGetNext, MultiGetEnd, MultiPutCheck, AllKeysNext, AllKeysEnd
  <2>3. QED
    BY <2>1, <2>2
<1>5. QED
  BY <1>1, <1>2, <1>3, <1>4

\* With guarded requests every step keeps the keys single and the searches current.
LEMMA DupStep ==
  ASSUME GuardedRequests, IInv, DupInv, [Next]_vars
  PROVE  DupInv'
<1> USE DEF IInv
<1>1. CASE UNCHANGED vars
  BY <1>1 DEF DupInv, NoDuplicateKeys, SearchIsCurrent, CurKey, vars
<1>2. ASSUME NEW t \in Threads, Invoke(t) PROVE DupInv'
  <2>1. pc'[t] # "write" /\ items' = items
    BY <1>2, BodyType DEF Invoke, TypeOK
  <2>2. QED
    BY <1>2, <2>1, OthersUntouched, DupFrame
<1>3. ASSUME NEW t \in Threads, Acquire(t) PROVE DupInv'
  <2>1. pc'[t] # "write" /\ items' = items
    BY <1>3, BodyType DEF Acquire, TypeOK, ControlInv, Control
  <2>2. QED
    BY <1>3, <2>1, OthersUntouched, DupFrame
<1>4. ASSUME NEW t \in Threads, Return(t) PROVE DupInv'
  <2>1. pc'[t] # "write" /\ items' = items
    BY <1>4 DEF Return, TypeOK
  <2>2. QED
    BY <1>4, <2>1, OthersUntouched, DupFrame
<1>5. ASSUME NEW t \in Threads, InsertSearch(t) PROVE DupInv'
  <2>1. /\ items' = items /\ pc[t] = "insert" /\ CurKey(t)' = CurKey(t)
        /\ found'[t] = (items[CurKey(t)] # <<>>)
    BY <1>5 DEF InsertSearch, TypeOK, CurKey
  <2>2. ASSUME NEW u \in Threads \ {t}
        PROVE  pc'[u] = pc[u] /\ req'[u] = req[u] /\ idx'[u] = idx[u] /\ found'[u] = found[u]
    BY <1>5, OthersUntouched DEF BodyStep
  <2>3. NoDuplicateKeys'
    BY <2>1 DEF DupInv, NoDuplicateKeys
  <2>4. ASSUME NEW u \in Threads, pc'[u] = "write"
        PROVE  found'[u] <=> items'[CurKey(u)'] # <<>>
    <3>1. CASE u = t
      BY <2>1, <3>1
    <3>2. CASE u # t
      <4>1. CurKey(u)' = CurKey(u) /\ pc[u] = "write" /\ found'[u] = found[u]
        BY <2>2, <2>4, <3>2 DEF CurKey
      <4>2. QED
        BY <2>1, <4>1 DEF DupInv, SearchIsCurrent
    <3>3. QED
      BY <3>1, <3>2
  <2>5. QED
    BY <2>3, <2>4 DEF DupInv, SearchIsCurrent
<1>6. ASSUME NEW t \in Threads, InsertWrite(t) PROVE DupInv'
  <2>1. pc[t] = "write" /\ pc'[t] # "write"
    BY <1>6 DEF InsertWrite, Finish, TypeOK
  <2>2. CurKey(t) \in Keys /\ CurValue(t) \in Value
    BY <2>1, CurKeyType, CurValueType
  <2> DEFINE old == items[CurKey(t)]
             new == insertItem(old, found[t], CurValue(t))
  <2>3. items' = [items EXCEPT ![CurKey(t)] = new]
    BY <1>6 DEF InsertWrite
  <2>4. Len(new) <= 1
    <3>1. old \in Seq(Value) /\ Len(old) <= 1
      BY <2>2 DEF TypeOK, DupInv, NoDuplicateKeys
    <3>2. found[t] \in BOOLEAN /\ (found[t] <=> old # <<>>)
      BY <2>1 DEF TypeOK, DupInv, SearchIsCurrent
    <3>3. CASE found[t]
      BY <2>2, <3>1, <3>3 DEF insertItem
    <3>4. CASE ~found[t]
      <4>1. old = <<>>
        BY <3>2, <3>4
      <4>2. QED
        BY <3>4, <4>1, <2>2 DEF insertItem
    <3>5. QED
      BY <3>3, <3>4
  <2>5. QED
    <3> HIDE DEF new
    <3> QED
      BY <1>6, <2>1, <2>3, <2>4, OthersUntouched, DupWrite DEF BodyStep
<1>7. ASSUME NEW t \in Threads, DeleteRemove(t) PROVE DupInv'
  <2>1. pc[t] = "remove" /\ pc'[t] # "write"
    BY <1>7 DEF DeleteRemove, Finish, TypeOK
  <2>2. items' = [items EXCEPT ![CurKey(t)] = <<>>]
    BY <1>7 DEF DeleteRemove
  <2>3. ASSUME NEW u \in Threads \ {t}
        PROVE  pc'[u] = pc[u] /\ req'[u] = req[u] /\ idx'[u] = idx[u] /\ found'[u] = found[u]
    BY <1>7, OthersUntouched DEF BodyStep
  <2> DEFINE new == << >>
  <2>4. Len(new) <= 1
    OBVIOUS
  <2>5. QED
    <3>1. items' = [items EXCEPT ![CurKey(t)] = new]
      BY <2>2
    <3> HIDE DEF new
    <3> QED
      BY <2>1, <2>3, <2>4, <3>1, DupWrite
<1>8. ASSUME NEW t \in Threads, BodyStep(t), ~InsertSearch(t), ~InsertWrite(t), ~DeleteRemove(t)
      PROVE  DupInv'
  <2>1. items' = items
    BY <1>8 DEF BodyStep, Get, AppendLookup, DeleteLookup, MultiGetNext, MultiGetEnd,
       MultiPutCheck, AllKeysNext, AllKeysEnd
  <2>2. pc'[t] # "write"
    BY <1>8 DEF TypeOK, BodyStep, Get, AppendLookup, DeleteLookup, MultiGetNext, MultiGetEnd,
       MultiPutCheck, AllKeysNext, AllKeysEnd, Finish
  <2>3. QED
    BY <1>8, <2>1, <2>2, OthersUntouched, DupFrame
<1>9. QED
  BY <1>1, <1>2, <1>3, <1>4, <1>5, <1>6, <1>7, <1>8, NextCases

\* With requests the locking covers, a key never gets two items: no other thread
\* can change the bucket between the search and the write of an insertItem.
THEOREM GuardedStoreHasNoDuplicates == GuardedRequests /\ Spec => []NoDuplicateKeys
<1> SUFFICES ASSUME GuardedRequests PROVE Spec => []NoDuplicateKeys
  OBVIOUS
<1>1. Spec => Init /\ [][Next]_vars
  BY DEF Spec
<1>2. Init => IInv /\ DupInv
  BY InitIInv, InitDupInv
<1>3. (IInv /\ DupInv) /\ [Next]_vars => (IInv /\ DupInv)'
  BY IInvStep, DupStep
<1>4. DupInv => NoDuplicateKeys
  BY DEF DupInv
<1>5. QED
  BY <1>1, <1>2, <1>3, <1>4, PTL

-----------------------------------------------------------------------------
(* Who may change a bucket *)

\* Outside bucket 0 only the exclusive owner of a bucket's mutex changes its
\* items, for any requests, AllKeys and MultiPut included.
THEOREM UpdatesAreGuarded == Spec => GuardedUpdates
<1> DEFINE Guarded ==
      \A k \in Keys :
        items'[k] # items[k] /\ bucket(k) # 0 =>
          \E t \in Threads :
            /\ pc'[t] # pc[t]
            /\ writers[bucket(k)] = {t}
            /\ readers[bucket(k)] = {}
<1>1. IInv /\ [Next]_vars => [Guarded]_vars
  <2> SUFFICES ASSUME IInv, [Next]_vars, NEW k \in Keys, items'[k] # items[k], bucket(k) # 0
               PROVE  \E t \in Threads :
                        /\ pc'[t] # pc[t]
                        /\ writers[bucket(k)] = {t}
                        /\ readers[bucket(k)] = {}
    OBVIOUS
  <2>1. PICK t \in Threads : InsertWrite(t) \/ DeleteRemove(t)
    BY NextCases DEF vars, Invoke, Acquire, Return, BodyStep, Get, AppendLookup, InsertSearch,
       DeleteLookup, MultiGetNext, MultiGetEnd, MultiPutCheck, AllKeysNext, AllKeysEnd
  <2>2. pc[t] \in {"write", "remove"} /\ k = CurKey(t) /\ pc'[t] # pc[t]
    BY <2>1 DEF InsertWrite, DeleteRemove, Finish, IInv, TypeOK
  <2>3. Writes(t, bucket(k)) /\ Exclusive(req[t]) /\ req[t].op # "AllKeys"
    BY <2>2 DEF Writes, IInv, ControlInv, Control, Exclusive
  <2>4. t \in writers[bucket(k)]
    BY <2>3, AccessIsLocked, BucketInRange
  <2>5. writers[bucket(k)] = {t} /\ readers[bucket(k)] = {}
    BY <2>4, BucketInRange DEF IInv, MutexInv
  <2>6. QED
    BY <2>2, <2>5
<1>2. Spec => [][Next]_vars
  BY DEF Spec
<1>3. QED
  BY <1>1, <1>2, IInvHolds, PTL DEF GuardedUpdates

-----------------------------------------------------------------------------
(* What a thread has read is still so while it holds the bucket *)

\* Inside an operation the locals agree with the items: Append and Delete have the item
\* of their key, MultiGet the values of the keys it has been through, and a response is
\* empty until the operation builds one.
Local(t) ==
  /\ pc[t] \notin {"multiget", "ret"} => res[t] = EmptyResponse
  /\ pc[t] = "remove" => item[t] = items[CurKey(t)] /\ item[t] # <<>>
  /\ pc[t] \in {"insert", "write"} /\ req[t].op = "Append" => item[t] = items[CurKey(t)]
  /\ pc[t] = "multiget" =>
       /\ res[t].keys = {}
       /\ Len(res[t].values) = idx[t]
       /\ \A i \in 1 .. idx[t] : items[req[t].keys[i]] = <<res[t].values[i]>>

LocalInv == \A t \in Threads : Local(t)

LinInv == IInv /\ DupInv /\ LocalInv

\* Nothing has been read before the first call.
LEMMA InitLocal == Init => LocalInv
  BY DEF Init, LocalInv, Local

\* While t writes the items of its key no other thread is in the body of an operation
\* that locks the bucket of the key.
LEMMA WriterAlone ==
  ASSUME GuardedRequests, IInv, NEW t \in Threads, pc[t] \in {"write", "remove"},
         NEW u \in Threads \ {t}, NEW b \in Held(u)
  PROVE  b # bucket(CurKey(t))
<1>1. CurKey(t) \in Keys /\ req[t] \in Requests /\ idx[t] \in Nat
  BY CurKeyType DEF IInv, TypeOK, ControlInv, Control
<1>2. Writes(t, bucket(CurKey(t))) /\ bucket(CurKey(t)) \in Buckets
  BY <1>1, BucketInRange DEF Writes
<1>3. Exclusive(req[t]) /\ req[t].op # "AllKeys"
  BY DEF Exclusive, IInv, ControlInv, Control
<1>4. ~(bucket(CurKey(t)) = 0 /\ req[t].op = "MultiPut")
  <2>1. ASSUME req[t].op = "MultiPut" PROVE idx[t] + 1 \in DOMAIN req[t].keys
    <3>1. idx[t] < Len(req[t].keys)
      BY <2>1 DEF IInv, ControlInv, Control
    <3> QED
      BY <1>1, <3>1, RequestType
  <2> QED
    BY <1>1, <2>1 DEF GuardedRequests, CurKey
<1>5. t \in writers[bucket(CurKey(t))]
  BY <1>2, <1>3, <1>4, AccessIsLocked
<1>6. b \in Buckets /\ (u \in writers[b] \/ u \in readers[b])
  BY DEF Held
<1> QED
  BY <1>2, <1>5, <1>6 DEF IInv, MutexInv

\* The keys that the body of an operation names are in buckets that it has locked.
LEMMA KeysAreHeld ==
  ASSUME IInv, NEW u \in Threads, pc[u] \notin {"idle", "lock"},
         req[u].op \in SingleKeyOps \cup {"MultiGet"}, NEW i \in DOMAIN req[u].keys
  PROVE  req[u].keys[i] \in Keys /\ bucket(req[u].keys[i]) \in Held(u)
<1>1. req[u] \in Requests /\ Held(u) = Locks(req[u])
  BY DEF IInv, ControlInv, Control, HoldInv, Holding
<1>2. req[u].keys \in Seq(Keys)
  BY <1>1, RequestType
<1> QED
  BY <1>1, <1>2 DEF Locks, SingleKeyOps

\* The positions that Local speaks of are positions of the request.
LEMMA LocalKeys ==
  ASSUME IInv, NEW u \in Threads
  PROVE  /\ pc[u] = "remove" => req[u].op = "Delete" /\ idx[u] + 1 \in DOMAIN req[u].keys
         /\ pc[u] \in {"insert", "write"} => idx[u] + 1 \in DOMAIN req[u].keys
         /\ pc[u] = "multiget" => /\ req[u].op = "MultiGet"
                                  /\ \A i \in 1 .. idx[u] : i \in DOMAIN req[u].keys
<1>1. CASE pc[u] \in {"idle", "lock"}
  BY <1>1
<1>2. CASE pc[u] \notin {"idle", "lock"}
  <2>1. req[u] \in Requests /\ idx[u] \in Nat
    BY <1>2 DEF IInv, ControlInv, Control, TypeOK
  <2>2. /\ req[u].keys \in Seq(Keys) /\ Len(req[u].keys) \in Nat
        /\ DOMAIN req[u].keys = 1 .. Len(req[u].keys)
        /\ req[u].op = "Delete" => Len(req[u].keys) = 1
    BY <2>1, RequestType, LenProperties DEF SingleKeyOps
  <2>3. /\ pc[u] = "remove" => req[u].op = "Delete" /\ idx[u] = 0
        /\ pc[u] \in {"insert", "write"} => idx[u] < Len(req[u].keys)
        /\ pc[u] = "multiget" => req[u].op = "MultiGet" /\ idx[u] <= Len(req[u].keys)
    BY DEF IInv, ControlInv, Control
  <2> DEFINE n == idx[u]
             l == Len(req[u].keys)
  <2>4. n \in Nat /\ l \in Nat
    BY <2>1, <2>2
  <2>5. pc[u] = "remove" => n + 1 \in 1 .. l
    <3>1. pc[u] = "remove" => n = 0 /\ l = 1
      BY <2>2, <2>3
    <3> HIDE DEF n, l
    <3> QED
      BY <3>1
  <2>6. pc[u] \in {"insert", "write"} => n + 1 \in 1 .. l
    <3> HIDE DEF n, l
    <3>1. n < l => n + 1 \in 1 .. l
      BY <2>4
    <3> QED
      BY <2>3, <3>1 DEF n, l
  <2>7. pc[u] = "multiget" => \A i \in 1 .. n : i \in 1 .. l
    <3> HIDE DEF n, l
    <3>1. n <= l => \A i \in 1 .. n : i \in 1 .. l
      BY <2>4
    <3> QED
      BY <2>3, <3>1 DEF n, l
  <2> QED
    BY <2>2, <2>3, <2>5, <2>6, <2>7
<1> QED
  BY <1>1, <1>2

\* A thread's step leaves what another thread has read as it is.
LEMMA OthersLocal ==
  ASSUME GuardedRequests, LinInv, NEW t \in Threads, NEW u \in Threads \ {t},
         pc'[u] = pc[u] /\ req'[u] = req[u] /\ idx'[u] = idx[u],
         item'[u] = item[u] /\ res'[u] = res[u],
         \/ items' = items
         \/ /\ pc[t] \in {"write", "remove"}
            /\ \A k \in Keys : k # CurKey(t) => items'[k] = items[k]
  PROVE  Local(u)'
<1>1. ASSUME NEW i \in DOMAIN req[u].keys, pc[u] \notin {"idle", "lock"},
             req[u].op \in SingleKeyOps \cup {"MultiGet"}
      PROVE  items'[req[u].keys[i]] = items[req[u].keys[i]]
  <2>1. CASE items' = items
    BY <2>1
  <2>2. CASE /\ pc[t] \in {"write", "remove"}
             /\ \A k \in Keys : k # CurKey(t) => items'[k] = items[k]
    <3>1. req[u].keys[i] \in Keys /\ bucket(req[u].keys[i]) \in Held(u)
      BY <1>1, KeysAreHeld DEF LinInv
    <3>2. bucket(req[u].keys[i]) # bucket(CurKey(t))
      BY <2>2, <3>1, WriterAlone DEF LinInv
    <3> QED
      BY <2>2, <3>1, <3>2
  <2> QED
    BY <2>1, <2>2
<1>2. Local(u) /\ IInv
  BY DEF LinInv, LocalInv
<1>3. pc'[u] = "remove" => item'[u] = items'[CurKey(u)'] /\ item'[u] # <<>>
  BY <1>1, <1>2, LocalKeys DEF Local, CurKey, SingleKeyOps
<1>4. pc'[u] \in {"insert", "write"} /\ req'[u].op = "Append" => item'[u] = items'[CurKey(u)']
  BY <1>1, <1>2, LocalKeys DEF Local, CurKey, SingleKeyOps
<1>5. pc'[u] = "multiget" =>
        /\ res'[u].keys = {}
        /\ Len(res'[u].values) = idx'[u]
        /\ \A i \in 1 .. idx'[u] : items'[req'[u].keys[i]] = <<res'[u].values[i]>>
  <2> SUFFICES ASSUME pc[u] = "multiget", NEW i \in 1 .. idx[u]
               PROVE  items'[req[u].keys[i]] = <<res[u].values[i]>>
    BY <1>2 DEF Local
  <2>1. i \in DOMAIN req[u].keys /\ req[u].op = "MultiGet"
    BY <1>2, LocalKeys
  <2>2. items'[req[u].keys[i]] = items[req[u].keys[i]]
    BY <1>1, <2>1
  <2> QED
    BY <1>2, <2>2 DEF Local
<1> QED
  BY <1>2, <1>3, <1>4, <1>5 DEF Local


\* A thread's step leaves the other threads' items and responses alone.
LEMMA OthersKept ==
  ASSUME TypeOK, NEW t \in Threads,
         Invoke(t) \/ Acquire(t) \/ Return(t) \/ BodyStep(t),
         NEW u \in Threads \ {t}
  PROVE  item'[u] = item[u] /\ res'[u] = res[u]
<1>1. CASE Invoke(t) \/ Acquire(t) \/ Return(t)
  BY <1>1 DEF Invoke, Acquire, Return, TypeOK
<1>2. CASE BodyStep(t)
  BY <1>2 DEF TypeOK, BodyStep, Get, AppendLookup, InsertSearch, InsertWrite, DeleteLookup,
     DeleteRemove, MultiGetNext, MultiGetEnd, MultiPutCheck, AllKeysNext, AllKeysEnd, Finish
<1> QED
  BY <1>1, <1>2

\* Only the write of insertItem and remove_if change items, those of one key.
LEMMA ItemsChange ==
  ASSUME TypeOK, NEW t \in Threads,
         Invoke(t) \/ Acquire(t) \/ Return(t) \/ BodyStep(t)
  PROVE  \/ items' = items
         \/ /\ pc[t] \in {"write", "remove"}
            /\ \A k \in Keys : k # CurKey(t) => items'[k] = items[k]
<1>1. CASE InsertWrite(t) \/ DeleteRemove(t)
  BY <1>1 DEF InsertWrite, DeleteRemove, TypeOK
<1>2. CASE ~(InsertWrite(t) \/ DeleteRemove(t))
  BY <1>2 DEF Invoke, Acquire, Return, BodyStep, Get, AppendLookup, InsertSearch, DeleteLookup,
     MultiGetNext, MultiGetEnd, MultiPutCheck, AllKeysNext, AllKeysEnd
<1> QED
  BY <1>1, <1>2

\* Without a duplicate the first item of a key is the only one.
LEMMA OneItem ==
  ASSUME TypeOK, NoDuplicateKeys, NEW k \in Keys
  PROVE  getIfExists(k) = items[k] /\ (items[k] # <<>> => items[k] = <<items[k][1]>> /\ items[k][1] \in Value)
<1>1. items[k] \in Seq(Value) /\ Len(items[k]) <= 1
  BY DEF TypeOK, NoDuplicateKeys
<1>2. ASSUME items[k] # <<>> PROVE items[k] = <<items[k][1]>> /\ items[k][1] \in Value
  <2>1. Len(items[k]) = 1
    <3>1. Len(items[k]) \in Nat /\ Len(items[k]) # 0
      BY <1>1, <1>2, LenProperties, EmptySeq
    <3> DEFINE n == Len(items[k])
    <3>2. n \in Nat /\ n # 0 /\ n <= 1
      BY <1>1, <3>1
    <3> HIDE DEF n
    <3>3. n = 1
      BY <3>2
    <3> QED
      BY <3>3 DEF n
  <2>2. items[k][1] \in Value
    BY <1>1, <2>1
  <2>3. <<items[k][1]>> \in Seq(Value) /\ Len(<<items[k][1]>>) = 1 /\ <<items[k][1]>>[1] = items[k][1]
    BY <2>2
  <2> QED
    BY <1>1, <2>1, <2>2, <2>3, SeqEqual
<1> QED
  BY <1>2 DEF getIfExists

\* push_back, as a concatenation with one value.
LEMMA PushFacts ==
  ASSUME NEW vs \in Seq(Value), NEW v \in Value
  PROVE  /\ vs \o <<v>> \in Seq(Value) /\ Len(vs \o <<v>>) = Len(vs) + 1
         /\ \A i \in 1 .. Len(vs) : (vs \o <<v>>)[i] = vs[i]
         /\ (vs \o <<v>>)[Len(vs) + 1] = v
  OBVIOUS

\* A step of a thread keeps what the thread itself has read.
LEMMA OwnLocal ==
  ASSUME GuardedRequests, LinInv, NEW t \in Threads,
         Invoke(t) \/ Acquire(t) \/ Return(t) \/ BodyStep(t)
  PROVE  Local(t)'
<1>0. /\ IInv /\ TypeOK /\ ControlInv /\ NoDuplicateKeys /\ Local(t) /\ Control(t)
  BY DEF LinInv, IInv, DupInv, LocalInv, ControlInv
<1>1. CASE Invoke(t)
  <2>1. PICK r \in Requests :
          /\ req' = [req EXCEPT ![t] = r]
          /\ pc' = [pc EXCEPT ![t] = IF Locks(r) = {} THEN Body(r) ELSE "lock"]
    BY <1>1 DEF Invoke
  <2>2. /\ pc[t] = "idle" /\ idx'[t] = 0 /\ res'[t] = EmptyResponse
        /\ pc'[t] \in {"lock", Body(r)} /\ req'[t] = r
    BY <1>0, <1>1, <2>1 DEF Invoke, TypeOK, Local, Control
  <2>3. pc'[t] \notin {"remove", "write", "ret"} /\ (pc'[t] = "insert" => req'[t].op = "Put")
    BY <2>2, BodyType
  <2> QED
    BY <2>2, <2>3 DEF Local, EmptyResponse
<1>2. CASE Acquire(t)
  <2>1. /\ pc[t] = "lock" /\ UNCHANGED <<req, idx, res>>
        /\ pc' \in {[pc EXCEPT ![t] = "lock"], [pc EXCEPT ![t] = Body(req[t])]}
    BY <1>2 DEF Acquire
  <2>2. /\ req[t] \in Requests /\ idx'[t] = 0 /\ res'[t] = EmptyResponse
        /\ pc'[t] \in {"lock", Body(req[t])}
    BY <1>0, <2>1 DEF TypeOK, Local, Control
  <2>3. pc'[t] \notin {"remove", "write", "ret"} /\ (pc'[t] = "insert" => req[t].op = "Put")
    BY <2>2, BodyType
  <2> QED
    BY <2>1, <2>2, <2>3 DEF Local, EmptyResponse
<1>3. CASE Return(t)
  BY <1>0, <1>3 DEF Return, Local, TypeOK
<1>4. CASE Get(t) \/ MultiGetEnd(t)
  BY <1>0, <1>4 DEF Get, MultiGetEnd, Finish, Local, TypeOK
<1>5. CASE AppendLookup(t)
  <2>1. /\ CurKey(t) \in Keys /\ CurKey(t)' = CurKey(t) /\ pc'[t] = "insert"
        /\ item'[t] = getIfExists(CurKey(t)) /\ items' = items /\ res'[t] = EmptyResponse
    BY <1>0, <1>5, CurKeyType DEF AppendLookup, CurKey, TypeOK, Local
  <2> QED
    BY <1>0, <2>1, OneItem DEF Local
<1>6. CASE InsertSearch(t)
  <2>1. /\ pc[t] = "insert" /\ pc'[t] = "write" /\ CurKey(t)' = CurKey(t)
        /\ UNCHANGED <<items, item, res, req>>
    BY <1>0, <1>6 DEF InsertSearch, CurKey, TypeOK
  <2> QED
    BY <1>0, <2>1 DEF Local
<1>7. CASE InsertWrite(t)
  <2>1. /\ pc[t] = "write" /\ req' = req
        /\ \/ pc'[t] = "ret"
           \/ pc'[t] = "insert" /\ res' = res /\ idx[t] + 1 < Len(req[t].keys)
    BY <1>0, <1>7 DEF InsertWrite, Finish, TypeOK
  <2>2. req[t] \in Requests /\ idx[t] \in Nat
    BY <1>0, <2>1 DEF Control, TypeOK
  <2>3. pc'[t] = "insert" => req[t].op # "Append"
    <3>1. req[t].op = "Append" => Len(req[t].keys) = 1
      BY <2>2, RequestType DEF SingleKeyOps
    <3>2. ~(idx[t] + 1 < 1)
      BY <2>2
    <3> QED
      BY <2>1, <3>1, <3>2
  <2> QED
    BY <1>0, <2>1, <2>3 DEF Local
<1>8. CASE DeleteLookup(t)
  <2>1. /\ CurKey(t) \in Keys /\ CurKey(t)' = CurKey(t) /\ items' = items
        /\ item'[t] = getIfExists(CurKey(t))
        /\ \/ pc'[t] = "ret"
           \/ pc'[t] = "remove" /\ item'[t] # <<>> /\ res'[t] = EmptyResponse
    BY <1>0, <1>8, CurKeyType DEF DeleteLookup, Finish, CurKey, TypeOK, Local
  <2> QED
    BY <1>0, <2>1, OneItem DEF Local
<1>9. CASE DeleteRemove(t)
  BY <1>0, <1>9 DEF DeleteRemove, Finish, Local, TypeOK
<1>10. CASE MultiPutCheck(t)
  <2>1. pc[t] = "check" /\ req[t].op = "MultiPut" /\ req' = req
    BY <1>0, <1>10 DEF MultiPutCheck, Control
  <2> QED
    BY <1>0, <1>10, <2>1 DEF MultiPutCheck, Finish, Local, TypeOK
<1>11. CASE MultiGetNext(t)
  <2>1. /\ pc[t] = "multiget" /\ idx[t] < Len(req[t].keys) /\ UNCHANGED <<items, req>>
        /\ item'[t] = getIfExists(CurKey(t))
    BY <1>0, <1>11 DEF MultiGetNext, TypeOK
  <2>2. CurKey(t) \in Keys
    BY <1>0, <2>1, CurKeyType
  <2> DEFINE v == items[CurKey(t)][1]
             vs == res[t].values
             n == idx[t]
  <2>3. CASE item'[t] = <<>>
    BY <1>0, <1>11, <2>3 DEF MultiGetNext, Finish, Local, TypeOK
  <2>4. CASE item'[t] # <<>>
    <3>1. item'[t] = <<v>> /\ items[CurKey(t)] = <<v>> /\ v \in Value
      BY <1>0, <2>1, <2>2, <2>4, OneItem
    <3>2. /\ res'[t] = [ok |-> res[t].ok, values |-> vs \o item'[t], keys |-> res[t].keys]
          /\ idx'[t] = n + 1 /\ pc'[t] = "multiget"
      BY <1>0, <1>11, <2>4 DEF MultiGetNext, TypeOK
    <3>3. vs \in Seq(Value) /\ n \in Nat /\ Len(vs) = n /\ res[t].keys = {}
      BY <1>0, <2>1 DEF TypeOK, Response, Local
    <3>4. \A i \in 1 .. n : items[req[t].keys[i]] = <<vs[i]>>
      BY <1>0, <2>1 DEF Local
    <3>5. res'[t].values = vs \o <<v>> /\ res'[t].keys = {}
      BY <3>1, <3>2, <3>3
    <3>6. /\ Len(vs \o <<v>>) = n + 1 /\ (vs \o <<v>>)[n + 1] = v
          /\ \A i \in 1 .. n : (vs \o <<v>>)[i] = vs[i]
      <4>1. v \in Value /\ vs \in Seq(Value) /\ Len(vs) = n
        BY <3>1, <3>3
      <4> HIDE DEF v, vs, n
      <4>2. /\ Len(vs \o <<v>>) = Len(vs) + 1 /\ (vs \o <<v>>)[Len(vs) + 1] = v
            /\ \A i \in 1 .. Len(vs) : (vs \o <<v>>)[i] = vs[i]
        BY <4>1, PushFacts
      <4> QED
        BY <4>1, <4>2
    <3>7. items[req[t].keys[n + 1]] = <<v>>
      BY <3>1 DEF CurKey
    <3>8. \A i \in 1 .. n + 1 : items'[req'[t].keys[i]] = <<res'[t].values[i]>>
      <4> HIDE DEF v, vs, n
      <4> SUFFICES ASSUME NEW i \in 1 .. n + 1 PROVE items[req[t].keys[i]] = <<(vs \o <<v>>)[i]>>
        BY <2>1, <3>5
      <4>1. i \in 1 .. n \/ i = n + 1
        BY <3>3
      <4> QED
        BY <3>4, <3>6, <3>7, <4>1
    <3> QED
      BY <3>2, <3>5, <3>6, <3>8 DEF Local
  <2> QED
    BY <2>3, <2>4
<1>12. CASE AllKeysNext(t) \/ AllKeysEnd(t)
  BY <1>0, <1>12 DEF AllKeysNext, AllKeysEnd, Control, GuardedRequests
<1> QED
  BY <1>1, <1>2, <1>3, <1>4, <1>5, <1>6, <1>7, <1>8, <1>9, <1>10, <1>11, <1>12 DEF BodyStep

\* Every step keeps what threads have read.
LEMMA LinStep == ASSUME GuardedRequests, LinInv, [Next]_vars PROVE LinInv'
<1>1. IInv' /\ DupInv'
  BY IInvStep, DupStep DEF LinInv
<1>2. CASE UNCHANGED vars
  BY <1>1, <1>2 DEF LinInv, LocalInv, Local, CurKey, vars
<1>3. ASSUME NEW t \in Threads, Invoke(t) \/ Acquire(t) \/ Return(t) \/ BodyStep(t)
      PROVE  LocalInv'
  <2>1. TypeOK
    BY DEF LinInv, IInv
  <2>2. ASSUME NEW u \in Threads \ {t} PROVE Local(u)'
    BY <1>3, <2>1, OthersUntouched, OthersKept, ItemsChange, OthersLocal
  <2> QED
    BY <1>3, <2>2, OwnLocal DEF LocalInv
<1> QED
  BY <1>1, <1>2, <1>3, NextCases DEF LinInv

-----------------------------------------------------------------------------
(* The map that a MultiPut has promised *)

\* A request is a record, and a request on one key with one value has just those.
LEMMA RequestFacts ==
  ASSUME NEW r \in Requests
  PROVE  /\ r # <<>>
         /\ r.op \in Ops /\ r.keys \in Seq(Keys) /\ r.values \in Seq(Value)
         /\ Len(r.keys) \in Nat /\ DOMAIN r.keys = 1 .. Len(r.keys)
         /\ r.op \in SingleKeyOps => Len(r.keys) = 1 /\ r.keys[1] \in Keys
         /\ r.op \in ValueOps => r.values = <<r.values[1]>> /\ r.values[1] \in Value
<1>1. IsRequest(r) /\ r = [op |-> r.op, keys |-> r.keys, values |-> r.values]
  BY RequestsAssumption
<1>2. r # <<>>
  <2>1. DOMAIN r = {"op", "keys", "values"}
    BY <1>1
  <2>2. DOMAIN <<>> = {}
    OBVIOUS
  <2> QED
    BY <2>1, <2>2
<1>3. ASSUME r.op \in ValueOps PROVE r.values = <<r.values[1]>> /\ r.values[1] \in Value
  <2>1. r.values \in Seq(Value) /\ Len(r.values) = 1
    BY <1>1, <1>3 DEF IsRequest
  <2>2. r.values[1] \in Value
    BY <2>1
  <2>3. <<r.values[1]>> \in Seq(Value) /\ Len(<<r.values[1]>>) = 1
    BY <2>2
  <2> QED
    BY <2>1, <2>2, <2>3, SeqEqual
<1> QED
  BY <1>1, <1>2, <1>3, LenProperties DEF IsRequest

\* A set of naturals that is not empty has a least element.
LEMMA LeastOfNat ==
  ASSUME NEW T \in SUBSET Nat, T # {}
  PROVE  \E x \in T : \A y \in T : x <= y
<1> DEFINE R == OpToRel(<, Nat)
<1>1. IsWellFoundedOn(R, Nat)
  BY NatLessThanWellFounded
<1>2. \A x, y \in Nat : y < x => <<y, x>> \in R
  BY DEF OpToRel
<1> HIDE DEF R
<1>3. PICK x \in T : \A y \in T : ~(<<y, x>> \in R)
  BY <1>1, WFMin
<1>4. \A y \in T : ~(y < x) /\ y \in Nat /\ x \in Nat
  BY <1>2, <1>3
<1>5. \A y \in T : x <= y
  BY <1>4
<1> QED
  BY <1>5

\* A set of positions that is not empty has a last one.
LEMMA LastPosition ==
  ASSUME NEW n \in Nat, NEW S \in SUBSET (1 .. n), S # {}
  PROVE  \E x \in S : \A y \in S : y <= x
<1> DEFINE T == {k \in 0 .. n : n - k \in S}
<1>1. PICK s \in S : TRUE
  OBVIOUS
<1>2. s \in 1 .. n /\ n - s \in 0 .. n /\ n - (n - s) = s
  OBVIOUS
<1>3. T \in SUBSET Nat /\ T # {}
  <2>1. n - s \in T
    BY <1>2
  <2>2. T \in SUBSET Nat
    OBVIOUS
  <2> QED
    BY <2>1, <2>2
<1>4. PICK z \in T : \A y \in T : z <= y
  BY <1>3, LeastOfNat
<1>5. n - z \in S /\ z \in 0 .. n
  OBVIOUS
<1>6. ASSUME NEW y \in S PROVE y <= n - z
  <2>1. y \in 1 .. n /\ n - y \in 0 .. n /\ n - (n - y) = y
    OBVIOUS
  <2>2. n - y \in T
    BY <2>1
  <2>3. z <= n - y
    BY <1>4, <2>2
  <2> QED
    BY <1>5, <2>1, <2>3
<1> QED
  BY <1>5, <1>6

\* The last position after n at which the key k stands.
LastOf(ks, n, k) ==
  CHOOSE i \in n + 1 .. Len(ks) : ks[i] = k /\ \A j \in n + 1 .. Len(ks) : ks[j] = k => j <= i

\* The map s once the pairs of the request r after the n-th are stored too.
Ahead(s, r, n) ==
  [k \in Keys |-> IF \E i \in n + 1 .. Len(r.keys) : r.keys[i] = k
                  THEN <<r.values[LastOf(r.keys, n, k)]>> ELSE s[k]]

\* LastOf is such a position, when there is one, and the only one.
LEMMA LastOfFacts ==
  ASSUME NEW ks \in Seq(Keys), NEW n \in Nat, NEW k,
         \E i \in n + 1 .. Len(ks) : ks[i] = k
  PROVE  /\ LastOf(ks, n, k) \in n + 1 .. Len(ks)
         /\ ks[LastOf(ks, n, k)] = k
         /\ \A j \in n + 1 .. Len(ks) : ks[j] = k => j <= LastOf(ks, n, k)
         /\ \A i \in n + 1 .. Len(ks) :
              ks[i] = k /\ (\A j \in n + 1 .. Len(ks) : ks[j] = k => j <= i) => i = LastOf(ks, n, k)
<1> DEFINE S == {i \in n + 1 .. Len(ks) : ks[i] = k}
           l == LastOf(ks, n, k)
<1>1. Len(ks) \in Nat /\ S \in SUBSET (1 .. Len(ks))
  OBVIOUS
<1>2. S # {}
  OBVIOUS
<1>3. PICK x \in S : \A y \in S : y <= x
  BY <1>1, <1>2, LastPosition
<1>4. /\ x \in n + 1 .. Len(ks) /\ ks[x] = k
      /\ \A j \in n + 1 .. Len(ks) : ks[j] = k => j <= x
  BY <1>3
<1>5. /\ l \in n + 1 .. Len(ks) /\ ks[l] = k
      /\ \A j \in n + 1 .. Len(ks) : ks[j] = k => j <= l
  BY <1>4 DEF LastOf
<1> HIDE DEF l
<1>6. ASSUME NEW i \in n + 1 .. Len(ks), ks[i] = k,
             \A j \in n + 1 .. Len(ks) : ks[j] = k => j <= i
      PROVE  i = l
  <2>1. i <= l /\ l <= i
    BY <1>5, <1>6
  <2> QED
    BY <1>1, <1>5, <2>1
<1> QED
  BY <1>5, <1>6 DEF l

\* A turn of the loop does what was promised: the promise stays the same.
LEMMA AheadStep ==
  ASSUME NEW s \in [Keys -> Seq(Value)], NEW r \in Requests, NEW n \in Nat, n < Len(r.keys)
  PROVE  Ahead([s EXCEPT ![r.keys[n + 1]] = <<r.values[n + 1]>>], r, n + 1) = Ahead(s, r, n)
<1> DEFINE ks == r.keys
           s2 == [s EXCEPT ![ks[n + 1]] = <<r.values[n + 1]>>]
<1>1. ks \in Seq(Keys) /\ Len(ks) \in Nat /\ n + 1 \in Nat
  BY RequestFacts
<1> SUFFICES ASSUME NEW k \in Keys PROVE Ahead(s2, r, n + 1)[k] = Ahead(s, r, n)[k]
  BY DEF Ahead
<1> HIDE DEF ks
<1>2. CASE \E i \in n + 2 .. Len(ks) : ks[i] = k
  <2> DEFINE l == LastOf(ks, n + 1, k)
  <2>0. \E i \in (n + 1) + 1 .. Len(ks) : ks[i] = k
    BY <1>1, <1>2
  <2>1. /\ l \in (n + 1) + 1 .. Len(ks) /\ ks[l] = k
        /\ \A j \in (n + 1) + 1 .. Len(ks) : ks[j] = k => j <= l
    BY <1>1, <2>0, LastOfFacts
  <2> HIDE DEF l
  <2>2. /\ l \in n + 1 .. Len(ks)
        /\ \A j \in n + 1 .. Len(ks) : ks[j] = k => j <= l
    BY <1>1, <2>1
  <2>3. l = LastOf(ks, n, k)
    BY <1>1, <2>1, <2>2, LastOfFacts
  <2>4. \E i \in n + 1 .. Len(ks) : ks[i] = k
    BY <2>1, <2>2
  <2> QED
    BY <2>0, <2>3, <2>4 DEF Ahead, l, ks
<1>3. CASE /\ ~\E i \in n + 2 .. Len(ks) : ks[i] = k
           /\ ks[n + 1] = k
  <2>1. n + 1 \in n + 1 .. Len(ks) /\ \A j \in n + 1 .. Len(ks) : ks[j] = k => j <= n + 1
    BY <1>1, <1>3 DEF ks
  <2>2. n + 1 = LastOf(ks, n, k)
    BY <1>1, <1>3, <2>1, LastOfFacts, SMTT(30)
  <2>3. Ahead(s, r, n)[k] = <<r.values[n + 1]>>
    BY <1>3, <2>1, <2>2 DEF Ahead, ks
  <2>4. ~\E i \in (n + 1) + 1 .. Len(ks) : ks[i] = k
    BY <1>1, <1>3
  <2>5. Ahead(s2, r, n + 1)[k] = s2[k]
    BY <2>4 DEF Ahead, ks
  <2> QED
    BY <1>3, <2>3, <2>5
<1>4. CASE /\ ~\E i \in n + 2 .. Len(ks) : ks[i] = k
           /\ ks[n + 1] # k
  <2>1. /\ ~\E i \in (n + 1) + 1 .. Len(ks) : ks[i] = k
        /\ ~\E i \in n + 1 .. Len(ks) : ks[i] = k
    BY <1>1, <1>4
  <2>2. Ahead(s2, r, n + 1)[k] = s2[k] /\ Ahead(s, r, n)[k] = s[k]
    BY <2>1 DEF Ahead, ks
  <2> QED
    BY <1>4, <2>2
<1> QED
  BY <1>2, <1>3, <1>4

\* Nothing is promised once every pair is stored.
LEMMA AheadEnd ==
  ASSUME NEW s \in [Keys -> Seq(Value)], NEW r \in Requests
  PROVE  Ahead(s, r, Len(r.keys)) = s
<1>1. Len(r.keys) \in Nat
  BY RequestFacts
<1>2. \A k \in Keys : Ahead(s, r, Len(r.keys))[k] = s[k]
  BY <1>1 DEF Ahead
<1> QED
  BY <1>2 DEF Ahead

\* What AtomicKvStore stores for a MultiPut is the whole promise.
LEMMA PutAllIsAhead ==
  ASSUME NEW s \in [Keys -> Seq(Value)], NEW r \in Requests
  PROVE  Atomic!PutAll(s, r.keys, r.values) = Ahead(s, r, 0)
<1> DEFINE ks == r.keys
           vs == r.values
<1>1. ks \in Seq(Keys) /\ DOMAIN ks = 1 .. Len(ks)
  BY RequestFacts, LenProperties
<1>2. 0 + 1 .. Len(ks) = 1 .. Len(ks)
  OBVIOUS
<1> HIDE DEF ks, vs
<1>3. ASSUME NEW k \in Keys PROVE Atomic!PutAll(s, ks, vs)[k] = Ahead(s, r, 0)[k]
  <2>1. CASE \E i \in DOMAIN ks : ks[i] = k
    <3> DEFINE c == CHOOSE i \in DOMAIN ks : ks[i] = k /\ \A j \in DOMAIN ks : ks[j] = k => j <= i
               l == LastOf(ks, 0, k)
    <3>1. \E i \in 0 + 1 .. Len(ks) : ks[i] = k
      BY <1>1, <1>2, <2>1
    <3>2. /\ l \in DOMAIN ks /\ ks[l] = k
          /\ \A j \in DOMAIN ks : ks[j] = k => j <= l
          /\ \A i \in DOMAIN ks :
               ks[i] = k /\ (\A j \in DOMAIN ks : ks[j] = k => j <= i) => i = l
      <4>1. 0 \in Nat
        OBVIOUS
      <4>2. /\ l \in 0 + 1 .. Len(ks) /\ ks[l] = k
            /\ \A j \in 0 + 1 .. Len(ks) : ks[j] = k => j <= l
            /\ \A i \in 0 + 1 .. Len(ks) :
                 ks[i] = k /\ (\A j \in 0 + 1 .. Len(ks) : ks[j] = k => j <= i) => i = l
        BY <1>1, <3>1, <4>1, LastOfFacts
      <4> HIDE DEF l
      <4> QED
        BY <1>1, <1>2, <4>2
    <3> HIDE DEF l
    <3>3. c \in DOMAIN ks /\ ks[c] = k /\ \A j \in DOMAIN ks : ks[j] = k => j <= c
      BY <3>2
    <3>4. c = l
      <4> HIDE DEF c
      <4> QED
        BY <3>2, <3>3
    <3>5. Atomic!PutAll(s, ks, vs)[k] = <<vs[c]>>
      BY <2>1 DEF Atomic!PutAll
    <3>6. Ahead(s, r, 0)[k] = <<vs[l]>>
      BY <3>1 DEF Ahead, ks, vs, l
    <3> QED
      BY <3>4, <3>5, <3>6
  <2>2. CASE ~\E i \in DOMAIN ks : ks[i] = k
    <3>1. Atomic!PutAll(s, ks, vs)[k] = s[k]
      BY <2>2 DEF Atomic!PutAll
    <3>2. ~\E i \in 0 + 1 .. Len(r.keys) : r.keys[i] = k
      BY <1>1, <1>2, <2>2 DEF ks
    <3>3. Ahead(s, r, 0)[k] = s[k]
      BY <3>2 DEF Ahead
    <3> QED
      BY <3>1, <3>3
  <2> QED
    BY <2>1, <2>2
<1> QED
  BY <1>3, ZenonT(40) DEF Atomic!PutAll, Ahead, ks, vs

-----------------------------------------------------------------------------
(* What callers see *)

\* A MultiPut that stores holds the buckets of all of its keys exclusively.
LEMMA StorerHolds ==
  ASSUME GuardedRequests, IInv, NEW u \in Threads, Storing(u)
  PROVE  /\ req[u] \in Requests /\ idx[u] \in Nat /\ idx[u] < Len(req[u].keys)
         /\ Len(req[u].keys) = Len(req[u].values)
         /\ \A i \in DOMAIN req[u].keys : bucket(req[u].keys[i]) \in Buckets \ {0}
         /\ \A b \in Buckets \ {0} : writers[b] = {u} /\ readers[b] = {}
<1>1. /\ req[u] \in Requests /\ idx[u] \in Nat /\ idx[u] < Len(req[u].keys)
      /\ Len(req[u].keys) = Len(req[u].values)
      /\ Held(u) = Locks(req[u]) /\ req[u].op = "MultiPut"
  BY DEF Storing, IInv, TypeOK, ControlInv, Control, HoldInv, Holding
<1>2. \A i \in DOMAIN req[u].keys : bucket(req[u].keys[i]) \in Buckets \ {0}
  <2>1. \A i \in DOMAIN req[u].keys : req[u].keys[i] \in Keys
    BY <1>1, RequestFacts
  <2>2. \A i \in DOMAIN req[u].keys : bucket(req[u].keys[i]) # 0
    BY <1>1 DEF GuardedRequests
  <2> QED
    BY <2>1, <2>2, BucketInRange
<1>3. Held(u) = Buckets \ {0} /\ Exclusive(req[u])
  BY <1>1 DEF Locks, Exclusive
<1>4. \A b \in Buckets \ {0} : u \in writers[b]
  BY <1>3 DEF Held, IInv, HoldInv, Holding
<1>5. \A b \in Buckets \ {0} : writers[b] = {u} /\ readers[b] = {}
  BY <1>4 DEF IInv, MutexInv
<1> QED
  BY <1>1, <1>2, <1>5

\* While it stores no other thread holds the bucket of one of its keys.
LEMMA StorerKeys ==
  ASSUME GuardedRequests, IInv, NEW u \in Threads, Storing(u), NEW t \in Threads \ {u},
         NEW k \in Keys, bucket(k) \in Held(t)
  PROVE  \A i \in DOMAIN req[u].keys : req[u].keys[i] # k
<1> SUFFICES ASSUME NEW i \in DOMAIN req[u].keys, req[u].keys[i] = k PROVE FALSE
  OBVIOUS
<1>1. bucket(k) \in Buckets \ {0} /\ writers[bucket(k)] = {u} /\ readers[bucket(k)] = {}
  BY StorerHolds
<1> QED
  BY <1>1 DEF Held

\* One MultiPut stores at a time, and none does while another has its locks.
LEMMA OneStorer ==
  ASSUME GuardedRequests, IInv, NEW u \in Threads, Storing(u), NEW t \in Threads,
         Storing(t) \/ pc[t] = "check"
  PROVE  t = u
<1>1. 1 \in DOMAIN req[u].keys
  <2>1. /\ req[u] \in Requests /\ idx[u] \in Nat /\ idx[u] < Len(req[u].keys)
        /\ Len(req[u].keys) \in Nat /\ DOMAIN req[u].keys = 1 .. Len(req[u].keys)
    BY StorerHolds, RequestFacts
  <2> QED
    BY <2>1
<1>2. PICK b \in Buckets \ {0} : writers[b] = {u} /\ readers[b] = {}
  BY <1>1, StorerHolds
<1>3. CASE Storing(t)
  BY <1>2, <1>3, StorerHolds
<1>4. CASE pc[t] = "check"
  <2>1. Held(t) = Locks(req[t]) /\ req[t].op = "MultiPut"
    BY <1>4 DEF IInv, ControlInv, Control, HoldInv, Holding
  <2>2. b \in Held(t)
    BY <2>1 DEF Locks
  <2> QED
    BY <1>2, <2>2 DEF Held
<1> QED
  BY <1>3, <1>4

\* Without a MultiPut that stores the callers see the items.
LEMMA KvBarPlain == LinInv => ((\A u \in Threads : ~Storing(u)) => kvBar = items)
<1> SUFFICES ASSUME LinInv, \A u \in Threads : ~Storing(u) PROVE kvBar = items
  OBVIOUS
<1>1. TypeOK /\ NoDuplicateKeys
  BY DEF LinInv, IInv, DupInv
<1>2. \A k \in Keys : kvBar[k] = items[k]
  BY <1>1, OneItem DEF kvBar
<1> QED
  BY <1>1, <1>2 DEF kvBar, TypeOK

\* With one under way they see its promise.
LEMMA KvBarStoring ==
  GuardedRequests => (LinInv => \A t \in Threads : Storing(t) => kvBar = Ahead(items, req[t], idx[t]))
<1> SUFFICES ASSUME GuardedRequests, LinInv, NEW t \in Threads, Storing(t)
             PROVE  kvBar = Ahead(items, req[t], idx[t])
  OBVIOUS
<1> DEFINE ks == req[t].keys
           n == idx[t]
<1>1. \A u \in Threads : Storing(u) => u = t
  BY OneStorer DEF LinInv
<1>2. req[t] \in Requests /\ n \in Nat
  BY StorerHolds DEF LinInv
<1>3. ks \in Seq(Keys) /\ Len(ks) \in Nat
  BY <1>2, RequestFacts
<1>4. ASSUME NEW k \in Keys PROVE kvBar[k] = Ahead(items, req[t], idx[t])[k]
  <2>0. Pending(t, k) = {i \in n + 1 .. Len(ks) : ks[i] = k}
    BY DEF Pending
  <2>1. CASE Pending(t, k) # {}
    <3> DEFINE cu == CHOOSE u \in Threads : Storing(u) /\ Pending(u, k) # {}
               cj == CHOOSE j \in Pending(t, k) : \A m \in Pending(t, k) : m <= j
    <3>1. cu = t
      <4>1. cu \in Threads /\ Storing(cu)
        BY <2>1
      <4> QED
        BY <1>1, <4>1
    <3>2. \E i \in n + 1 .. Len(ks) : ks[i] = k
      BY <2>0, <2>1
    <3> DEFINE l == LastOf(ks, n, k)
    <3>3. /\ l \in n + 1 .. Len(ks) /\ ks[l] = k
          /\ \A j \in n + 1 .. Len(ks) : ks[j] = k => j <= l
          /\ \A i \in n + 1 .. Len(ks) :
               ks[i] = k /\ (\A j \in n + 1 .. Len(ks) : ks[j] = k => j <= i) => i = l
      BY <1>2, <1>3, <3>2, LastOfFacts, SMTT(60)
    <3> HIDE DEF l
    <3>4. l \in Pending(t, k) /\ \A m \in Pending(t, k) : m <= l
      BY <2>0, <3>3
    <3>5. cj \in Pending(t, k) /\ \A m \in Pending(t, k) : m <= cj
      BY <3>4
    <3> HIDE DEF cj
    <3>6. cj = l
      <4>1. cj \in n + 1 .. Len(ks) /\ ks[cj] = k
        BY <2>0, <3>5
      <4>2. \A j \in n + 1 .. Len(ks) : ks[j] = k => j <= cj
        BY <2>0, <3>5
      <4> HIDE DEF ks, n
      <4> QED
        BY <3>3, <4>1, <4>2
    <3>7. kvBar[k] = <<req[t].values[cj]>>
      <4>1. kvBar[k] = <<req[cu].values[CHOOSE j \in Pending(cu, k) : \A m \in Pending(cu, k) : m <= j]>>
        BY <2>1 DEF kvBar
      <4> HIDE DEF cu
      <4> QED
        BY <3>1, <4>1 DEF cj
    <3>8. Ahead(items, req[t], idx[t])[k] = <<req[t].values[l]>>
      BY <3>2 DEF Ahead, l
    <3> QED
      BY <3>6, <3>7, <3>8
  <2>2. CASE Pending(t, k) = {}
    <3>1. kvBar[k] = getIfExists(k)
      BY <1>1, <2>2 DEF kvBar
    <3>4. getIfExists(k) = items[k]
      BY OneItem DEF LinInv, IInv, DupInv
    <3>2. ~\E i \in n + 1 .. Len(ks) : ks[i] = k
      BY <2>0, <2>2
    <3>3. Ahead(items, req[t], idx[t])[k] = items[k]
      BY <3>2 DEF Ahead
    <3> QED
      BY <3>1, <3>3, <3>4
  <2> QED
    BY <2>1, <2>2
<1> QED
  BY <1>4, ZenonT(40) DEF kvBar, Ahead

\* The two lemmas hold after a step as well.
LEMMA KvBarNext ==
  ASSUME GuardedRequests, LinInv'
  PROVE  /\ (\A u \in Threads : ~Storing(u)') => kvBar' = items'
         /\ \A t \in Threads : Storing(t)' => kvBar' = Ahead(items', req'[t], idx'[t])
<1>1. (LinInv => ((\A u \in Threads : ~Storing(u)) => kvBar = items))'
  BY KvBarPlain, PTL
<1>2. (GuardedRequests => (LinInv => \A t \in Threads : Storing(t) => kvBar = Ahead(items, req[t], idx[t])))'
  BY KvBarStoring, PTL
<1> QED
  BY <1>1, <1>2

\* A step that leaves the items and every MultiPut that stores alone shows callers nothing.
LEMMA KvBarSame ==
  ASSUME GuardedRequests, LinInv, LinInv', items' = items,
         \A u \in Threads : (Storing(u)' <=> Storing(u))
                            /\ (Storing(u) => req'[u] = req[u] /\ idx'[u] = idx[u])
  PROVE  kvBar' = kvBar
<1>1. CASE \A u \in Threads : ~Storing(u)
  BY <1>1, KvBarPlain, KvBarNext
<1>2. CASE \E u \in Threads : Storing(u)
  <2>1. PICK u \in Threads : Storing(u)
    BY <1>2
  <2>2. kvBar = Ahead(items, req[u], idx[u])
    BY <2>1, KvBarStoring
  <2>3. kvBar' = Ahead(items', req'[u], idx'[u])
    BY <2>1, KvBarNext
  <2> QED
    BY <2>1, <2>2, <2>3
<1> QED
  BY <1>1, <1>2

\* A thread that holds the bucket of a key, and does not store, finds there what callers see.
LEMMA KvBarHeld ==
  ASSUME GuardedRequests, LinInv, NEW t \in Threads, ~Storing(t), NEW k \in Keys,
         bucket(k) \in Held(t)
  PROVE  kvBar[k] = items[k]
<1>1. CASE \A u \in Threads : ~Storing(u)
  BY <1>1, KvBarPlain
<1>2. CASE \E u \in Threads : Storing(u)
  <2>1. PICK u \in Threads : Storing(u)
    BY <1>2
  <2>2. kvBar = Ahead(items, req[u], idx[u])
    BY <2>1, KvBarStoring
  <2>3. IInv /\ req[u] \in Requests /\ idx[u] \in Nat
    BY <2>1, StorerHolds DEF LinInv
  <2>4. \A i \in DOMAIN req[u].keys : req[u].keys[i] # k
    BY <2>1, <2>3, StorerKeys
  <2>5. \A i \in idx[u] + 1 .. Len(req[u].keys) : i \in DOMAIN req[u].keys
    BY <2>3, RequestFacts
  <2> QED
    BY <2>2, <2>4, <2>5 DEF Ahead
<1> QED
  BY <1>1, <1>2

\* What callers see is a function on the keys.
LEMMA KvBarFunction == kvBar = [k \in Keys |-> kvBar[k]] /\ kvBar' = [k \in Keys |-> kvBar'[k]]
  BY DEF kvBar

\* What such a thread writes is what callers see next.
LEMMA KvBarWrite ==
  ASSUME GuardedRequests, LinInv, LinInv', NEW t \in Threads, ~Storing(t), ~Storing(t)',
         NEW k \in Keys, bucket(k) \in Held(t), NEW v,
         \A x \in Keys : items'[x] = IF x = k THEN v ELSE items[x],
         \A u \in Threads \ {t} : pc'[u] = pc[u] /\ req'[u] = req[u] /\ idx'[u] = idx[u]
  PROVE  \A x \in Keys : kvBar'[x] = IF x = k THEN v ELSE kvBar[x]
<1>1. \A u \in Threads : Storing(u)' <=> Storing(u)
  BY DEF Storing
<1>2. CASE \A u \in Threads : ~Storing(u)
  BY <1>1, <1>2, KvBarPlain, KvBarNext
<1>3. CASE \E u \in Threads : Storing(u)
  <2>1. PICK u \in Threads : Storing(u) /\ u # t
    BY <1>3
  <2>2. kvBar = Ahead(items, req[u], idx[u])
    BY <2>1, KvBarStoring
  <2>3. kvBar' = Ahead(items', req[u], idx[u])
    BY <1>1, <2>1, KvBarNext
  <2>4. IInv /\ req[u] \in Requests /\ idx[u] \in Nat
    BY <2>1, StorerHolds DEF LinInv
  <2>5. \A i \in DOMAIN req[u].keys : req[u].keys[i] # k
    BY <2>1, <2>4, StorerKeys
  <2>6. \A i \in idx[u] + 1 .. Len(req[u].keys) : i \in DOMAIN req[u].keys
    BY <2>4, RequestFacts
  <2> DEFINE r == req[u]
             n == idx[u]
             s2 == items'
  <2>7. /\ \A i \in n + 1 .. Len(r.keys) : r.keys[i] # k
        /\ \A x \in Keys : s2[x] = IF x = k THEN v ELSE items[x]
    BY <2>5, <2>6
  <2> HIDE DEF r, n, s2
  <2>8. \A x \in Keys : Ahead(s2, r, n)[x] = IF x = k THEN v ELSE Ahead(items, r, n)[x]
    BY <2>7 DEF Ahead
  <2> QED
    BY <2>2, <2>3, <2>8 DEF r, n, s2
<1> QED
  BY <1>2, <1>3

-----------------------------------------------------------------------------
(* Step by step, the store implements AtomicKvStore *)

\* A thread that is neither storing nor at one end of its operation is a caller that waits.
LEMMA WaitingBar ==
  ASSUME NEW t \in Threads, ~Storing(t), pc[t] \notin {"idle", "ret"}
  PROVE  phaseBar[t] = "called" /\ retBar[t] = <<>>
  BY DEF phaseBar, retBar

\* The same after a step.
LEMMA WaitingBarNext ==
  ASSUME NEW t \in Threads, ~Storing(t)', pc'[t] \notin {"idle", "ret"}
  PROVE  phaseBar'[t] = "called" /\ retBar'[t] = <<>>
  BY DEF phaseBar, retBar

\* An operation that is about to return is done.
LEMMA EndedBar ==
  ASSUME NEW t \in Threads, pc'[t] = "ret"
  PROVE  phaseBar'[t] = "done" /\ retBar'[t] = <<res'[t]>>
<1>1. ~Storing(t)'
  BY DEF Storing
<1> QED
  BY <1>1 DEF phaseBar, retBar

\* A MultiPut that stores is done, as far as its caller is concerned.
LEMMA StoringBar ==
  ASSUME NEW t \in Threads, Storing(t)
  PROVE  phaseBar[t] = "done" /\ retBar[t] = <<[ok |-> TRUE, values |-> <<>>, keys |-> {}]>>
<1>1. pc[t] \notin {"idle", "ret"}
  BY DEF Storing
<1> QED
  BY <1>1 DEF phaseBar, retBar

\* The same after a step.
LEMMA StoringBarNext ==
  ASSUME NEW t \in Threads, Storing(t)'
  PROVE  phaseBar'[t] = "done" /\ retBar'[t] = <<[ok |-> TRUE, values |-> <<>>, keys |-> {}]>>
<1>1. pc'[t] \notin {"idle", "ret"}
  BY DEF Storing
<1> QED
  BY <1>1 DEF phaseBar, retBar

\* What callers see of a thread depends on the thread alone.
LEMMA OthersBar ==
  ASSUME NEW u \in Threads, pc'[u] = pc[u] /\ req'[u] = req[u] /\ res'[u] = res[u]
  PROVE  phaseBar'[u] = phaseBar[u] /\ retBar'[u] = retBar[u] /\ (Storing(u)' <=> Storing(u))
  BY DEF phaseBar, retBar, Storing

\* A step of t leaves what callers see of the others, and their MultiPuts, alone.
LEMMA OthersSame ==
  ASSUME TypeOK, NEW t \in Threads, Invoke(t) \/ Acquire(t) \/ Return(t) \/ BodyStep(t)
  PROVE  /\ \A u \in Threads : u # t => phaseBar'[u] = phaseBar[u] /\ retBar'[u] = retBar[u]
         /\ \A u \in Threads : u # t => (Storing(u)' <=> Storing(u))
         /\ \A u \in Threads : u # t => pc'[u] = pc[u] /\ req'[u] = req[u] /\ idx'[u] = idx[u]
<1>1. ASSUME NEW u \in Threads, u # t
      PROVE  pc'[u] = pc[u] /\ req'[u] = req[u] /\ idx'[u] = idx[u] /\ res'[u] = res[u]
  BY <1>1, OthersUntouched, OthersKept
<1>2. ASSUME NEW u \in Threads, u # t
      PROVE  phaseBar'[u] = phaseBar[u] /\ retBar'[u] = retBar[u] /\ (Storing(u)' <=> Storing(u))
  BY <1>1, <1>2, OthersBar
<1> QED
  BY <1>1, <1>2

\* The mapped variables are functions on the threads.
LEMMA BarFunctions ==
  /\ phaseBar = [u \in Threads |-> phaseBar[u]] /\ phaseBar' = [u \in Threads |-> phaseBar'[u]]
  /\ retBar = [u \in Threads |-> retBar[u]] /\ retBar' = [u \in Threads |-> retBar'[u]]
<1>1. phaseBar = [u \in Threads |-> phaseBar[u]] /\ phaseBar' = [u \in Threads |-> phaseBar'[u]]
  BY DEF phaseBar
<1>2. retBar = [u \in Threads |-> retBar[u]] /\ retBar' = [u \in Threads |-> retBar'[u]]
  BY DEF retBar
<1> QED
  BY <1>1, <1>2

\* A step of t that no caller sees.
LEMMA InvisibleStep ==
  ASSUME NEW t \in Threads, kvBar' = kvBar, UNCHANGED <<req, left>>,
         phaseBar'[t] = phaseBar[t] /\ retBar'[t] = retBar[t],
         \A u \in Threads : u # t => phaseBar'[u] = phaseBar[u] /\ retBar'[u] = retBar[u]
  PROVE  UNCHANGED Atomic!vars
<1>1. \A u \in Threads : phaseBar'[u] = phaseBar[u] /\ retBar'[u] = retBar[u]
  OBVIOUS
<1>2. phaseBar' = phaseBar
  BY <1>1 DEF phaseBar
<1>3. retBar' = retBar
  BY <1>1 DEF retBar
<1> QED
  BY <1>2, <1>3 DEF Atomic!vars

\* A step of t with which its operation takes effect.
LEMMA EffectStep ==
  ASSUME NEW t \in Threads, kvBar' = Atomic!Effect(req[t]), UNCHANGED <<req, left>>,
         phaseBar[t] = "called", phaseBar'[t] = "done", retBar'[t] = <<Atomic!Answer(req[t])>>,
         \A u \in Threads : u # t => phaseBar'[u] = phaseBar[u] /\ retBar'[u] = retBar[u]
  PROVE  Atomic!TakeEffect(t)
<1>1. phaseBar' = [phaseBar EXCEPT ![t] = "done"]
  <2>1. \A u \in Threads : phaseBar'[u] = IF u = t THEN "done" ELSE phaseBar[u]
    OBVIOUS
  <2> QED
    BY <2>1, BarFunctions
<1>2. retBar' = [retBar EXCEPT ![t] = <<Atomic!Answer(req[t])>>]
  <2>1. \A u \in Threads : retBar'[u] = IF u = t THEN <<Atomic!Answer(req[t])>> ELSE retBar[u]
    OBVIOUS
  <2> HIDE DEF Atomic!Answer
  <2> QED
    BY <2>1, BarFunctions
<1> QED
  BY <1>1, <1>2 DEF Atomic!TakeEffect

\* An operation that ends without having stored takes effect there.
LEMMA EndTakesEffect ==
  ASSUME TypeOK, NEW t \in Threads, BodyStep(t), ~Storing(t), pc'[t] = "ret",
         res'[t] = Atomic!Answer(req[t]), kvBar' = Atomic!Effect(req[t])
  PROVE  Atomic!TakeEffect(t)
<1>1. UNCHANGED <<req, left>> /\ pc[t] \notin {"idle", "ret"}
  BY BodyFrame
<1>2. \A u \in Threads : u # t => phaseBar'[u] = phaseBar[u] /\ retBar'[u] = retBar[u]
  BY OthersSame
<1>3. phaseBar[t] = "called"
  BY <1>1, WaitingBar
<1>5. phaseBar'[t] = "done" /\ retBar'[t] = <<res'[t]>>
  BY EndedBar
<1>6. retBar'[t] = <<Atomic!Answer(req[t])>>
  BY <1>5
<1> QED
  BY <1>1, <1>2, <1>3, <1>5, <1>6, EffectStep

\* A step inside an operation that does not end it, changes nothing and does not store is
\* invisible.
LEMMA InsideInvisible ==
  ASSUME GuardedRequests, LinInv, LinInv', NEW t \in Threads, Acquire(t) \/ BodyStep(t),
         ~Storing(t), ~Storing(t)', pc'[t] # "ret", items' = items
  PROVE  UNCHANGED Atomic!vars
<1>1. TypeOK
  BY DEF LinInv, IInv
<1>2. /\ UNCHANGED <<req, left>> /\ pc[t] \notin {"idle", "ret"} /\ pc'[t] # "idle"
  <2>1. CASE BodyStep(t)
    BY <1>1, <2>1, BodyFrame
  <2>2. CASE Acquire(t)
    <3>1. pc[t] = "lock" /\ req[t] \in Requests
      BY <2>2 DEF Acquire, LinInv, IInv, ControlInv, Control
    <3> QED
      BY <1>1, <2>2, <3>1, BodyType DEF Acquire, TypeOK
  <2> QED
    BY <2>1, <2>2
<1>3. /\ \A u \in Threads : u # t => phaseBar'[u] = phaseBar[u] /\ retBar'[u] = retBar[u]
      /\ \A u \in Threads : u # t => (Storing(u)' <=> Storing(u))
      /\ \A u \in Threads : u # t => req'[u] = req[u] /\ idx'[u] = idx[u]
  BY <1>1, OthersSame
<1>4. kvBar' = kvBar
  BY <1>3, KvBarSame
<1>5. phaseBar'[t] = phaseBar[t] /\ retBar'[t] = retBar[t]
  BY <1>2, WaitingBar, WaitingBarNext
<1> QED
  BY <1>2, <1>3, <1>4, <1>5, InvisibleStep

\* A call.
LEMMA InvokeRefines ==
  ASSUME GuardedRequests, LinInv, LinInv', NEW t \in Threads, Invoke(t) PROVE Atomic!Call(t)
<1>1. TypeOK
  BY DEF LinInv, IInv
<1>2. PICK r \in Requests :
        /\ req' = [req EXCEPT ![t] = r]
        /\ pc' = [pc EXCEPT ![t] = IF Locks(r) = {} THEN Body(r) ELSE "lock"]
  BY DEF Invoke
<1>3. /\ pc[t] = "idle" /\ left[t] > 0 /\ UNCHANGED <<items, left, idx>>
      /\ req'[t] = r /\ pc'[t] \in {"lock", Body(r)}
  BY <1>1, <1>2 DEF Invoke, TypeOK
<1>4. pc'[t] \notin {"idle", "ret", "write"} /\ (pc'[t] = "insert" => r.op = "Put")
  BY <1>3, BodyType
<1>5. ~Storing(t) /\ ~Storing(t)'
  BY <1>3, <1>4 DEF Storing
<1>6. /\ \A u \in Threads : u # t => phaseBar'[u] = phaseBar[u] /\ retBar'[u] = retBar[u]
      /\ \A u \in Threads : u # t => (Storing(u)' <=> Storing(u))
      /\ \A u \in Threads : u # t => req'[u] = req[u] /\ idx'[u] = idx[u]
  BY <1>1, OthersSame
<1>7. kvBar' = kvBar
  BY <1>3, <1>5, <1>6, KvBarSame
<1>8. phaseBar[t] = "idle" /\ retBar[t] = <<>> /\ phaseBar'[t] = "called" /\ retBar'[t] = <<>>
  <2>1. phaseBar[t] = "idle" /\ retBar[t] = <<>>
    BY <1>3, <1>5 DEF phaseBar, retBar
  <2> QED
    BY <1>4, <1>5, <2>1, WaitingBarNext
<1>9. phaseBar' = [phaseBar EXCEPT ![t] = "called"]
  <2>1. \A u \in Threads : phaseBar'[u] = IF u = t THEN "called" ELSE phaseBar[u]
    BY <1>6, <1>8
  <2> QED
    BY <2>1 DEF phaseBar
<1>10. retBar' = retBar
  <2>1. \A u \in Threads : retBar'[u] = retBar[u]
    BY <1>6, <1>8
  <2> QED
    BY <2>1 DEF retBar
<1> QED
  BY <1>2, <1>3, <1>7, <1>8, <1>9, <1>10 DEF Atomic!Call

\* A return.
LEMMA ReturnRefines ==
  ASSUME GuardedRequests, LinInv, LinInv', NEW t \in Threads, Return(t) PROVE Atomic!Return(t)
<1>1. TypeOK
  BY DEF LinInv, IInv
<1>2. /\ pc[t] = "ret" /\ pc'[t] = "idle" /\ items' = items
      /\ req' = [req EXCEPT ![t] = <<>>] /\ left' = [left EXCEPT ![t] = @ - 1]
  BY <1>1 DEF Return, TypeOK
<1>3. ~Storing(t) /\ ~Storing(t)'
  BY <1>2 DEF Storing
<1>4. /\ \A u \in Threads : u # t => phaseBar'[u] = phaseBar[u] /\ retBar'[u] = retBar[u]
      /\ \A u \in Threads : u # t => (Storing(u)' <=> Storing(u))
      /\ \A u \in Threads : u # t => req'[u] = req[u] /\ idx'[u] = idx[u]
  BY <1>1, OthersSame
<1>5. kvBar' = kvBar
  BY <1>2, <1>3, <1>4, KvBarSame
<1>6. phaseBar[t] = "done" /\ phaseBar'[t] = "idle" /\ retBar'[t] = <<>>
  BY <1>2, <1>3 DEF phaseBar, retBar
<1>7. phaseBar' = [phaseBar EXCEPT ![t] = "idle"]
  <2>1. \A u \in Threads : phaseBar'[u] = IF u = t THEN "idle" ELSE phaseBar[u]
    BY <1>4, <1>6
  <2> QED
    BY <2>1 DEF phaseBar
<1>8. retBar' = [retBar EXCEPT ![t] = <<>>]
  <2>1. \A u \in Threads : retBar'[u] = IF u = t THEN <<>> ELSE retBar[u]
    BY <1>4, <1>6
  <2> QED
    BY <2>1 DEF retBar
<1> QED
  BY <1>2, <1>5, <1>6, <1>7, <1>8 DEF Atomic!Return

\* The request that a thread runs on one key, whose bucket it holds.
LEMMA OnItsKey ==
  ASSUME GuardedRequests, LinInv, NEW t \in Threads, ~Storing(t),
         \/ pc[t] \in {"get", "append", "delete", "remove", "insert", "write"}
         \/ pc[t] = "multiget" /\ idx[t] < Len(req[t].keys)
  PROVE  /\ req[t] \in Requests /\ CurKey(t) \in Keys /\ bucket(CurKey(t)) \in Held(t)
         /\ kvBar[CurKey(t)] = items[CurKey(t)]
         /\ pc[t] # "multiget" => idx[t] = 0 /\ CurKey(t) = req[t].keys[1]
<1>1. IInv /\ TypeOK /\ ControlInv /\ Control(t) /\ req[t] \in Requests /\ idx[t] \in Nat
  BY DEF LinInv, IInv, ControlInv, Control, TypeOK
<1>2. CurKey(t) \in Keys
  BY <1>1, CurKeyType
<1>3. /\ req[t].op # "AllKeys" /\ req[t].op # "MultiPut"
      /\ pc[t] # "multiget" => req[t].op \in SingleKeyOps
  <2>1. req[t] # <<>>
    BY <1>1, RequestFacts
  <2> QED
    BY <1>1, <2>1 DEF Control, Storing, SingleKeyOps
<1>4. bucket(CurKey(t)) \in Held(t)
  <2>1. Reads(t, bucket(CurKey(t))) \/ Writes(t, bucket(CurKey(t)))
    BY DEF Reads, Writes
  <2>2. bucket(CurKey(t)) \in Buckets
    BY <1>2, BucketInRange
  <2> QED
    BY <1>1, <1>3, <2>1, <2>2, AccessIsLocked
<1>5. kvBar[CurKey(t)] = items[CurKey(t)]
  BY <1>2, <1>4, KvBarHeld
<1>6. pc[t] # "multiget" => idx[t] = 0
  <2>1. pc[t] # "multiget" => Len(req[t].keys) = 1
    BY <1>1, <1>3, RequestFacts
  <2>2. idx[t] < 1 => idx[t] = 0
    BY <1>1
  <2> QED
    BY <1>1, <2>1, <2>2 DEF Control
<1> QED
  BY <1>1, <1>2, <1>4, <1>5, <1>6 DEF CurKey

\* Get answers with what callers see under its key.
LEMMA GetRefines ==
  ASSUME GuardedRequests, LinInv, LinInv', NEW t \in Threads, Get(t) PROVE Atomic!TakeEffect(t)
<1> DEFINE r == req[t]
           k == CurKey(t)
<1>1. IInv /\ TypeOK /\ NoDuplicateKeys /\ Control(t) /\ Local(t) /\ pc[t] = "get"
  BY DEF LinInv, IInv, DupInv, LocalInv, ControlInv, Get
<1>2. ~Storing(t) /\ r.op = "Get" /\ BodyStep(t)
  BY <1>1 DEF Storing, Control, BodyStep
<1>3. k \in Keys /\ kvBar[k] = items[k] /\ k = r.keys[1]
  BY <1>1, <1>2, OnItsKey
<1>4. /\ item'[t] = items[k] /\ items' = items /\ pc' = [pc EXCEPT ![t] = "ret"]
      /\ res'[t] = [ok |-> item'[t] # <<>>, values |-> item'[t], keys |-> res[t].keys]
  BY <1>1, <1>3, OneItem DEF Get, Finish, TypeOK
<1>5. res'[t] = IF items[k] # <<>> THEN [ok |-> TRUE, values |-> items[k], keys |-> {}]
                ELSE [ok |-> FALSE, values |-> <<>>, keys |-> {}]
  <2>1. res[t].keys = {}
    BY <1>1 DEF Local, EmptyResponse
  <2>2. CASE items[k] # <<>>
    <3>1. (item'[t] # <<>>) = TRUE
      BY <1>4, <2>2
    <3> QED
      BY <1>4, <2>1, <2>2, <3>1
  <2>3. CASE items[k] = <<>>
    <3>1. (item'[t] # <<>>) = FALSE
      BY <1>4, <2>3
    <3> QED
      BY <1>4, <2>1, <2>3, <3>1
  <2> QED
    BY <2>2, <2>3
<1>6. Atomic!Answer(r) = IF kvBar[k] # <<>> THEN [ok |-> TRUE, values |-> kvBar[k], keys |-> {}]
                         ELSE [ok |-> FALSE, values |-> <<>>, keys |-> {}]
  BY <1>2, <1>3 DEF Atomic!Answer, Atomic!ValueOps, Atomic!Present, Atomic!Done, Atomic!Failed
<1>7. kvBar' = kvBar
  <2>1. pc'[t] = "ret" /\ ~Storing(t)'
    BY <1>1, <1>4 DEF Storing, TypeOK
  <2>2. \A u \in Threads : u # t => (Storing(u)' <=> Storing(u)) /\ req'[u] = req[u] /\ idx'[u] = idx[u]
    BY <1>1, <1>2, OthersSame
  <2> QED
    BY <1>2, <1>4, <2>1, <2>2, KvBarSame
<1>8. Atomic!Effect(r) = kvBar
  BY <1>2 DEF Atomic!Effect
<1>9. pc'[t] = "ret"
  BY <1>1, <1>4 DEF TypeOK
<1> QED
  BY <1>1, <1>2, <1>3, <1>5, <1>6, <1>7, <1>8, <1>9, EndTakesEffect

\* The write of an insertItem leaves the key with the one value.
LEMMA InsertOne ==
  ASSUME LinInv, NEW t \in Threads, pc[t] = "write", NEW v \in Value
  PROVE  insertItem(items[CurKey(t)], found[t], v) = <<v>>
<1>1. TypeOK /\ ControlInv /\ NoDuplicateKeys /\ CurKey(t) \in Keys
  BY CurKeyType DEF LinInv, IInv, DupInv
<1>2. found[t] \in BOOLEAN /\ (found[t] <=> items[CurKey(t)] # <<>>)
  BY <1>1 DEF LinInv, DupInv, SearchIsCurrent, TypeOK
<1>3. CASE ~found[t]
  <2>1. insertItem(items[CurKey(t)], found[t], v) = Append(<<>>, v)
    BY <1>2, <1>3 DEF insertItem
  <2>2. Append(<<>>, v) = <<v>>
    OBVIOUS
  <2> QED
    BY <2>1, <2>2
<1>4. CASE found[t]
  <2>1. items[CurKey(t)] # <<>> /\ items[CurKey(t)] = <<items[CurKey(t)][1]>>
    BY <1>1, <1>2, <1>4, OneItem
  <2>2. insertItem(items[CurKey(t)], found[t], v) = [items[CurKey(t)] EXCEPT ![1] = v]
    BY <1>4, <2>1 DEF insertItem
  <2> DEFINE x == items[CurKey(t)][1]
  <2>3. [<<x>> EXCEPT ![1] = v] = <<v>>
    <3> HIDE DEF x
    <3> QED
      OBVIOUS
  <2> QED
    BY <2>1, <2>2, <2>3
<1> QED
  BY <1>2, <1>3, <1>4

\* Put and Append take effect with their write.
LEMMA PutRefines ==
  ASSUME GuardedRequests, LinInv, LinInv', NEW t \in Threads, InsertWrite(t), ~Storing(t)
  PROVE  Atomic!TakeEffect(t)
<1> DEFINE r == req[t]
           k == CurKey(t)
           v == CurValue(t)
<1>1. IInv /\ TypeOK /\ Control(t) /\ Local(t) /\ pc[t] = "write" /\ BodyStep(t)
  BY DEF LinInv, IInv, LocalInv, ControlInv, InsertWrite, BodyStep
<1>2. /\ r \in Requests /\ k \in Keys /\ bucket(k) \in Held(t) /\ kvBar[k] = items[k]
      /\ idx[t] = 0 /\ k = r.keys[1] /\ r # <<>>
  BY <1>1, OnItsKey, RequestFacts
<1>3. r.op \in {"Put", "Append"}
  BY <1>1, <1>2 DEF Control, Storing
<1>4. r.values = <<r.values[1]>> /\ r.values[1] \in Value /\ Len(r.keys) = 1
  BY <1>2, <1>3, RequestFacts DEF ValueOps, SingleKeyOps
<1>5. v = IF r.op = "Append" /\ items[k] # <<>> THEN items[k][1] \o r.values[1] ELSE r.values[1]
  BY <1>1, <1>2, <1>3 DEF CurValue, Local
<1>6. v \in Value
  <2>1. items[k] # <<>> => items[k][1] \in Value
    BY <1>1, <1>2, OneItem DEF LinInv, DupInv
  <2> QED
    BY <1>4, <1>5, <2>1 DEF Value
<1>7. insertItem(items[k], found[t], v) = <<v>>
  BY <1>1, <1>6, InsertOne
<1>8. /\ items' = [items EXCEPT ![k] = <<v>>]
      /\ pc'[t] = "ret" /\ res'[t] = [ok |-> TRUE, values |-> <<>>, keys |-> res[t].keys]
  <2>1. items' = [items EXCEPT ![k] = insertItem(items[k], found[t], v)]
    BY <1>1, <1>2 DEF InsertWrite, TypeOK
  <2>2. ~(idx[t] + 1 < Len(r.keys))
    BY <1>2, <1>4
  <2>3. Finish(t, TRUE, <<>>)
    BY <2>2 DEF InsertWrite
  <2> QED
    BY <1>1, <1>7, <2>1, <2>3 DEF Finish, TypeOK
<1>9. kvBar' = [kvBar EXCEPT ![k] = <<v>>]
  <2>1. ~Storing(t)'
    BY <1>8 DEF Storing
  <2>2. \A u \in Threads \ {t} : pc'[u] = pc[u] /\ req'[u] = req[u] /\ idx'[u] = idx[u]
    BY <1>1, OthersUntouched
  <2> DEFINE w == <<v>>
  <2>3. items' = [items EXCEPT ![k] = w]
    BY <1>8
  <2> HIDE DEF k, v, w
  <2>4. kvBar' = [kvBar EXCEPT ![k] = w]
    <3>1. \A x \in Keys : items'[x] = IF x = k THEN w ELSE items[x]
      <4>1. items \in [Keys -> Seq(Value)]
        BY <1>1 DEF TypeOK
      <4> QED
        BY <2>3, <4>1
    <3>2. \A x \in Keys : kvBar'[x] = IF x = k THEN w ELSE kvBar[x]
      <4>1. k \in Keys /\ bucket(k) \in Held(t) /\ ~Storing(t)
        BY <1>2
      <4> QED
        BY <2>1, <2>2, <3>1, <4>1, KvBarWrite
    <3> QED
      BY <3>2, KvBarFunction
  <2> QED
    BY <2>4 DEF w
<1>10. Atomic!Effect(r) = [kvBar EXCEPT ![k] = <<v>>]
  <2>1. CASE r.op = "Put"
    <3>1. Atomic!Effect(r) = [kvBar EXCEPT ![r.keys[1]] = r.values]
      BY <2>1 DEF Atomic!Effect
    <3>2. v = r.values[1]
      BY <1>5, <2>1
    <3> HIDE DEF v, r, k
    <3> QED
      BY <1>2, <1>4, <3>1, <3>2
  <2>2. CASE r.op = "Append"
    <3>1. Atomic!Effect(r) = [kvBar EXCEPT ![r.keys[1]] =
             IF kvBar[r.keys[1]] # <<>> THEN <<kvBar[r.keys[1]][1] \o r.values[1]>> ELSE r.values]
      BY <2>2 DEF Atomic!Effect, Atomic!Present
    <3>2. <<v>> = IF kvBar[k] # <<>> THEN <<kvBar[k][1] \o r.values[1]>> ELSE r.values
      BY <1>2, <1>4, <1>5, <2>2
    <3> HIDE DEF v, r, k
    <3> QED
      BY <1>2, <3>1, <3>2
  <2> QED
    BY <1>3, <2>1, <2>2
<1>11. res'[t] = Atomic!Answer(r)
  <2>1. res[t].keys = {}
    BY <1>1 DEF Local, EmptyResponse
  <2> QED
    BY <1>3, <1>8, <2>1 DEF Atomic!Answer, Atomic!ValueOps, Atomic!Done
<1> QED
  BY <1>1, <1>8, <1>9, <1>10, <1>11, EndTakesEffect

\* Delete takes effect when it does not find its key, or when it removes it.
LEMMA DeleteRefines ==
  ASSUME GuardedRequests, LinInv, LinInv', NEW t \in Threads,
         DeleteRemove(t) \/ (DeleteLookup(t) /\ pc'[t] = "ret")
  PROVE  Atomic!TakeEffect(t)
<1> DEFINE r == req[t]
           k == CurKey(t)
<1>1. /\ IInv /\ TypeOK /\ NoDuplicateKeys /\ Control(t) /\ Local(t) /\ BodyStep(t)
      /\ pc[t] \in {"delete", "remove"}
  BY DEF LinInv, IInv, DupInv, LocalInv, ControlInv, DeleteRemove, DeleteLookup, BodyStep
<1>2. ~Storing(t) /\ r.op = "Delete"
  BY <1>1 DEF Storing, Control
<1>3. k \in Keys /\ kvBar[k] = items[k] /\ k = r.keys[1] /\ bucket(k) \in Held(t)
  BY <1>1, <1>2, OnItsKey
<1>4. res[t].keys = {}
  BY <1>1 DEF Local, EmptyResponse
<1>5. \A u \in Threads \ {t} : pc'[u] = pc[u] /\ req'[u] = req[u] /\ idx'[u] = idx[u]
  BY <1>1, OthersUntouched
<1>6. Atomic!Effect(r) = [kvBar EXCEPT ![k] = <<>>]
  BY <1>2, <1>3 DEF Atomic!Effect
<1>7. Atomic!Answer(r) = IF kvBar[k] # <<>> THEN [ok |-> TRUE, values |-> kvBar[k], keys |-> {}]
                         ELSE [ok |-> FALSE, values |-> <<>>, keys |-> {}]
  BY <1>2, <1>3 DEF Atomic!Answer, Atomic!ValueOps, Atomic!Present, Atomic!Done, Atomic!Failed
<1>8. /\ pc'[t] = "ret" /\ items' = [items EXCEPT ![k] = <<>>]
      /\ res'[t] = Atomic!Answer(r)
  <2>1. CASE DeleteRemove(t)
    <3>1. /\ pc'[t] = "ret" /\ items' = [items EXCEPT ![k] = <<>>]
          /\ res'[t] = [ok |-> TRUE, values |-> item[t], keys |-> res[t].keys]
          /\ item[t] = items[k] /\ item[t] # <<>>
      BY <1>1, <2>1 DEF DeleteRemove, Finish, TypeOK, Local
    <3> QED
      BY <1>3, <1>4, <1>7, <3>1
  <2>2. CASE DeleteLookup(t) /\ pc'[t] = "ret"
    <3>1. item'[t] = items[k] /\ items' = items
      BY <1>1, <1>3, <2>2, OneItem DEF DeleteLookup, TypeOK
    <3>2. item'[t] = <<>>
      BY <1>1, <2>2 DEF DeleteLookup, TypeOK
    <3>3. res'[t] = [ok |-> FALSE, values |-> <<>>, keys |-> res[t].keys]
      BY <1>1, <2>2, <3>2 DEF DeleteLookup, Finish, TypeOK
    <3>4. items' = [items EXCEPT ![k] = <<>>]
      <4>1. items \in [Keys -> Seq(Value)] /\ items[k] = <<>>
        BY <1>1, <3>1, <3>2 DEF TypeOK
      <4> HIDE DEF k
      <4> QED
        BY <1>3, <3>1, <4>1
    <3> QED
      BY <1>3, <1>4, <1>7, <2>2, <3>1, <3>2, <3>3, <3>4
  <2> QED
    BY <2>1, <2>2
<1>9. kvBar' = [kvBar EXCEPT ![k] = <<>>]
  <2>1. ~Storing(t)'
    BY <1>8 DEF Storing
  <2> DEFINE w == <<>>
  <2>2. items' = [items EXCEPT ![k] = w]
    BY <1>8
  <2> HIDE DEF k, w
  <2>3. kvBar' = [kvBar EXCEPT ![k] = w]
    <3>1. \A x \in Keys : items'[x] = IF x = k THEN w ELSE items[x]
      <4>1. items \in [Keys -> Seq(Value)]
        BY <1>1 DEF TypeOK
      <4> QED
        BY <2>2, <4>1
    <3>2. \A x \in Keys : kvBar'[x] = IF x = k THEN w ELSE kvBar[x]
      BY <1>2, <1>3, <1>5, <2>1, <3>1, KvBarWrite
    <3> QED
      BY <3>2, KvBarFunction
  <2> QED
    BY <2>3 DEF w
<1> QED
  BY <1>1, <1>2, <1>6, <1>8, <1>9, EndTakesEffect

\* MultiGet takes effect when its loop ends or meets a key that is not there: it holds the
\* buckets of all of its keys, so what it copied is still what callers see.
LEMMA MultiGetRefines ==
  ASSUME GuardedRequests, LinInv, LinInv', NEW t \in Threads,
         MultiGetEnd(t) \/ (MultiGetNext(t) /\ pc'[t] = "ret")
  PROVE  Atomic!TakeEffect(t)
<1> DEFINE r == req[t]
           ks == r.keys
           vs == res[t].values
           n == idx[t]
<1>1. /\ IInv /\ TypeOK /\ NoDuplicateKeys /\ Control(t) /\ Local(t) /\ BodyStep(t)
      /\ pc[t] = "multiget" /\ items' = items
  BY DEF LinInv, IInv, DupInv, LocalInv, ControlInv, MultiGetEnd, MultiGetNext, BodyStep
<1>2. /\ ~Storing(t) /\ r.op = "MultiGet" /\ r \in Requests /\ res[t].keys = {}
      /\ n \in Nat /\ n <= Len(ks) /\ Len(vs) = n /\ vs \in Seq(Value)
      /\ \A i \in 1 .. n : items[ks[i]] = <<vs[i]>>
  BY <1>1 DEF Storing, Control, Local, TypeOK, Response
<1>3. ks \in Seq(Keys) /\ Len(ks) \in Nat /\ DOMAIN ks = 1 .. Len(ks)
  BY <1>2, RequestFacts
<1>4. \A i \in DOMAIN ks : kvBar[ks[i]] = items[ks[i]]
  <2> SUFFICES ASSUME NEW i \in DOMAIN ks PROVE kvBar[ks[i]] = items[ks[i]]
    OBVIOUS
  <2>1. ks[i] \in Keys /\ bucket(ks[i]) \in Held(t)
    BY <1>1, <1>2, KeysAreHeld
  <2> QED
    BY <1>2, <2>1, KvBarHeld
<1>5. kvBar' = kvBar
  <2>1. ~Storing(t)'
    BY <1>1 DEF Storing, MultiGetEnd, MultiGetNext, Finish, TypeOK
  <2>2. \A u \in Threads : u # t => (Storing(u)' <=> Storing(u)) /\ req'[u] = req[u] /\ idx'[u] = idx[u]
    BY <1>1, OthersSame
  <2> QED
    BY <1>1, <1>2, <2>1, <2>2, KvBarSame
<1>6. Atomic!Effect(r) = kvBar
  BY <1>2 DEF Atomic!Effect
<1>7. /\ (\A i \in DOMAIN ks : kvBar[ks[i]] # <<>>)
         => Atomic!Answer(r) = [ok |-> TRUE, values |-> [i \in DOMAIN ks |-> kvBar[ks[i]][1]], keys |-> {}]
      /\ ~(\A i \in DOMAIN ks : kvBar[ks[i]] # <<>>)
         => Atomic!Answer(r) = [ok |-> FALSE, values |-> <<>>, keys |-> {}]
  BY <1>2 DEF Atomic!Answer, Atomic!ValueOps, Atomic!Present, Atomic!Done, Atomic!Failed
<1>8. CASE MultiGetEnd(t)
  <2>1. n = Len(ks) /\ pc'[t] = "ret" /\ res'[t] = [ok |-> TRUE, values |-> vs, keys |-> {}]
    BY <1>1, <1>2, <1>8 DEF MultiGetEnd, Finish, TypeOK
  <2>2. \A i \in DOMAIN ks : kvBar[ks[i]] = <<vs[i]>>
    BY <1>2, <1>3, <1>4, <2>1
  <2>3. vs \in [DOMAIN ks -> Value]
    BY <1>2, <1>3, <2>1, LenProperties
  <2>4. /\ \A i \in DOMAIN ks : kvBar[ks[i]] # <<>>
        /\ vs = [i \in DOMAIN ks |-> kvBar[ks[i]][1]]
    <3> HIDE DEF vs, ks
    <3>1. \A i \in DOMAIN ks : kvBar[ks[i]] # <<>> /\ kvBar[ks[i]][1] = vs[i]
      BY <2>2
    <3> QED
      BY <2>3, <3>1
  <2>5. res'[t] = Atomic!Answer(r)
    BY <1>7, <2>1, <2>4
  <2> QED
    BY <1>1, <1>2, <1>5, <1>6, <2>1, <2>5, EndTakesEffect
<1>9. CASE MultiGetNext(t) /\ pc'[t] = "ret"
  <2>1. n < Len(ks) /\ item'[t] = getIfExists(CurKey(t)) /\ item'[t] = <<>>
    BY <1>1, <1>9 DEF MultiGetNext, TypeOK
  <2>2. res'[t] = [ok |-> FALSE, values |-> <<>>, keys |-> {}]
    BY <1>1, <1>2, <1>9, <2>1 DEF MultiGetNext, Finish, TypeOK
  <2>3. n + 1 \in DOMAIN ks
    BY <1>2, <1>3, <2>1
  <2>4. CurKey(t) \in Keys /\ CurKey(t) = ks[n + 1]
    <3>1. ControlInv /\ pc[t] = "multiget" /\ idx[t] < Len(req[t].keys)
      BY <1>1, <2>1 DEF IInv
    <3>2. CurKey(t) \in Keys
      BY <1>1, <3>1, CurKeyType
    <3> QED
      BY <3>2 DEF CurKey
  <2>5. kvBar[ks[n + 1]] = <<>>
    BY <1>1, <1>4, <2>1, <2>3, <2>4, OneItem
  <2>6. res'[t] = Atomic!Answer(r)
    BY <1>7, <2>2, <2>3, <2>5
  <2> QED
    BY <1>1, <1>2, <1>5, <1>6, <1>9, <2>6, EndTakesEffect
<1> QED
  BY <1>8, <1>9

\* MultiPut takes effect when it compares its sizes: no other thread is storing.
LEMMA MultiPutRefines ==
  ASSUME GuardedRequests, LinInv, LinInv', NEW t \in Threads, MultiPutCheck(t)
  PROVE  Atomic!TakeEffect(t)
<1> DEFINE r == req[t]
           ks == r.keys
<1>1. /\ IInv /\ TypeOK /\ Control(t) /\ Local(t) /\ BodyStep(t)
      /\ pc[t] = "check" /\ items' = items /\ UNCHANGED <<req, idx, left>>
  BY DEF LinInv, IInv, LocalInv, ControlInv, MultiPutCheck, BodyStep
<1>2. /\ ~Storing(t) /\ r.op = "MultiPut" /\ r \in Requests /\ res[t].keys = {} /\ idx[t] = 0
      /\ r # <<>> /\ Len(ks) \in Nat
  BY <1>1, RequestFacts DEF Storing, Control, Local, EmptyResponse
<1>3. \A u \in Threads : ~Storing(u)
  <2> SUFFICES ASSUME NEW u \in Threads, Storing(u) PROVE FALSE
    OBVIOUS
  <2>1. t = u
    BY <1>1, OneStorer
  <2> QED
    BY <1>2, <2>1
<1>4. kvBar = items /\ items \in [Keys -> Seq(Value)]
  BY <1>1, <1>3, KvBarPlain DEF TypeOK
<1>5. \A u \in Threads : u # t => ~Storing(u)'
  BY <1>1, <1>3, OthersSame
<1>6. Atomic!Effect(r) = IF Len(ks) = Len(r.values) THEN Atomic!PutAll(kvBar, ks, r.values) ELSE kvBar
  BY <1>2 DEF Atomic!Effect
<1>7. Atomic!Answer(r) = IF Len(ks) = Len(r.values)
                         THEN [ok |-> TRUE, values |-> <<>>, keys |-> {}]
                         ELSE [ok |-> FALSE, values |-> <<>>, keys |-> {}]
  BY <1>2 DEF Atomic!Answer, Atomic!ValueOps, Atomic!Done, Atomic!Failed
<1>8. CASE Len(ks) # Len(r.values) \/ Len(ks) = 0
  <2> DEFINE same == Len(ks) = Len(r.values)
  <2>1. pc'[t] = "ret" /\ res'[t] = [ok |-> same, values |-> <<>>, keys |-> {}]
    <3>1. Finish(t, same, <<>>)
      BY <1>8 DEF MultiPutCheck
    <3> HIDE DEF same
    <3> QED
      BY <1>1, <1>2, <3>1 DEF Finish, TypeOK
  <2>2. kvBar' = items
    <3>1. ~Storing(t)'
      BY <2>1 DEF Storing
    <3> QED
      BY <1>1, <1>5, <3>1, KvBarNext
  <2>3. CASE Len(ks) # Len(r.values)
    <3>1. same = FALSE
      BY <2>3
    <3>2. res'[t] = Atomic!Answer(r) /\ kvBar' = Atomic!Effect(r)
      BY <1>4, <1>6, <1>7, <2>1, <2>2, <2>3, <3>1
    <3> QED
      BY <1>1, <1>2, <2>1, <3>2, EndTakesEffect
  <2>4. CASE Len(ks) = Len(r.values) /\ Len(ks) = 0
    <3>1. same = TRUE
      BY <2>4
    <3>2. Atomic!PutAll(items, r.keys, r.values) = items
      BY <1>2, <1>4, <2>4, PutAllIsAhead, AheadEnd
    <3>3. res'[t] = Atomic!Answer(r) /\ kvBar' = Atomic!Effect(r)
      BY <1>4, <1>6, <1>7, <2>1, <2>2, <2>4, <3>1, <3>2
    <3> QED
      BY <1>1, <1>2, <2>1, <3>3, EndTakesEffect
  <2> QED
    BY <1>8, <2>3, <2>4
<1>9. CASE Len(ks) = Len(r.values) /\ Len(ks) # 0
  <2>1. pc'[t] = "insert"
    BY <1>1, <1>9 DEF MultiPutCheck, TypeOK
  <2>2. Storing(t)'
    BY <1>1, <1>2, <2>1 DEF Storing
  <2>3. kvBar' = Ahead(items, r, 0)
    BY <1>1, <1>2, <2>2, KvBarNext
  <2>4. kvBar' = Atomic!Effect(r)
    BY <1>2, <1>4, <1>6, <1>9, <2>3, PutAllIsAhead
  <2>5. phaseBar[t] = "called"
    BY <1>1, <1>2, WaitingBar
  <2>6. phaseBar'[t] = "done" /\ retBar'[t] = <<[ok |-> TRUE, values |-> <<>>, keys |-> {}]>>
    BY <2>1, <2>2, StoringBarNext
  <2>7. \A u \in Threads : u # t => phaseBar'[u] = phaseBar[u] /\ retBar'[u] = retBar[u]
    BY <1>1, OthersSame
  <2>8. retBar'[t] = <<Atomic!Answer(r)>>
    BY <1>7, <1>9, <2>6
  <2> QED
    BY <1>1, <2>4, <2>5, <2>6, <2>7, <2>8, EffectStep
<1> QED
  BY <1>8, <1>9

\* The writes of a MultiPut do what it promised, and its end is invisible.
LEMMA MultiPutWriteRefines ==
  ASSUME GuardedRequests, LinInv, LinInv', NEW t \in Threads, InsertWrite(t), Storing(t)
  PROVE  UNCHANGED Atomic!vars
<1> DEFINE r == req[t]
           ks == r.keys
           n == idx[t]
           v == r.values[n + 1]
           s2 == items'
<1>1. IInv /\ TypeOK /\ Local(t) /\ pc[t] = "write" /\ BodyStep(t) /\ UNCHANGED <<req, left>>
  BY DEF LinInv, IInv, LocalInv, InsertWrite, BodyStep
<1>2. r \in Requests /\ n \in Nat /\ n < Len(ks) /\ Len(ks) = Len(r.values) /\ r.op = "MultiPut"
  BY <1>1, StorerHolds DEF Storing
<1>3. /\ Len(ks) \in Nat /\ items \in [Keys -> Seq(Value)] /\ v \in Value
      /\ CurKey(t) = ks[n + 1] /\ CurValue(t) = v /\ CurKey(t) \in Keys
  <2>1. Len(ks) \in Nat /\ r.values \in Seq(Value) /\ items \in [Keys -> Seq(Value)]
    BY <1>1, <1>2, RequestFacts DEF TypeOK
  <2>2. n + 1 \in 1 .. Len(r.values)
    BY <1>2, <2>1
  <2>3. CurKey(t) \in Keys
    BY <1>1, CurKeyType DEF IInv
  <2> QED
    BY <1>2, <2>1, <2>2, <2>3 DEF CurKey, CurValue
<1>4. items' = [items EXCEPT ![ks[n + 1]] = <<v>>] /\ idx'[t] = n + 1
  <2>1. insertItem(items[CurKey(t)], found[t], v) = <<v>>
    BY <1>1, <1>3, InsertOne
  <2>2. items' = [items EXCEPT ![CurKey(t)] = insertItem(items[CurKey(t)], found[t], CurValue(t))]
    BY <1>1, <1>3 DEF InsertWrite
  <2>3. idx'[t] = n + 1
    BY <1>1 DEF InsertWrite, TypeOK
  <2> HIDE DEF v, n, ks
  <2> QED
    BY <1>3, <2>1, <2>2, <2>3
<1>5. Ahead(s2, r, n + 1) = kvBar
  <2>1. kvBar = Ahead(items, r, n)
    BY KvBarStoring
  <2>2. r \in Requests /\ n \in Nat /\ n < Len(r.keys) /\ items \in [Keys -> Seq(Value)]
    BY <1>2, <1>3
  <2>3. s2 = [items EXCEPT ![r.keys[n + 1]] = <<r.values[n + 1]>>]
    BY <1>4
  <2> HIDE DEF r, n, s2
  <2>4. Ahead([items EXCEPT ![r.keys[n + 1]] = <<r.values[n + 1]>>], r, n + 1) = Ahead(items, r, n)
    BY <2>2, AheadStep
  <2> QED
    BY <2>1, <2>3, <2>4
<1>6. phaseBar[t] = "done" /\ retBar[t] = <<[ok |-> TRUE, values |-> <<>>, keys |-> {}]>>
  BY <1>1, StoringBar
<1>7. \A u \in Threads : u # t => phaseBar'[u] = phaseBar[u] /\ retBar'[u] = retBar[u]
  BY <1>1, OthersSame
<1>8. CASE n + 1 < Len(ks)
  <2>1. pc'[t] = "insert"
    BY <1>1, <1>8 DEF InsertWrite, TypeOK
  <2>2. Storing(t)'
    BY <1>1, <2>1 DEF Storing
  <2>3. kvBar' = kvBar
    BY <1>1, <1>4, <1>5, <2>2, KvBarNext
  <2>4. phaseBar'[t] = phaseBar[t] /\ retBar'[t] = retBar[t]
    BY <1>6, <2>1, <2>2, StoringBarNext
  <2> QED
    BY <1>1, <1>7, <2>3, <2>4, InvisibleStep
<1>9. CASE ~(n + 1 < Len(ks))
  <2>1. n + 1 = Len(ks)
    BY <1>2, <1>3, <1>9
  <2>2. pc'[t] = "ret" /\ res'[t] = [ok |-> TRUE, values |-> <<>>, keys |-> {}]
    BY <1>1, <1>9 DEF InsertWrite, Finish, TypeOK, Local, EmptyResponse
  <2>3. \A u \in Threads : ~Storing(u)'
    <3>1. ~Storing(t)'
      BY <2>2 DEF Storing
    <3>2. \A u \in Threads : u # t => (Storing(u)' <=> Storing(u))
      BY <1>1, OthersSame
    <3>3. \A u \in Threads : u # t => ~Storing(u)
      BY <1>1, OneStorer
    <3> QED
      BY <3>1, <3>2, <3>3
  <2>4. s2 \in [Keys -> Seq(Value)]
    BY DEF LinInv, IInv, TypeOK
  <2>5. kvBar' = kvBar
    <3>1. kvBar' = s2
      BY <2>3, KvBarNext
    <3>2. Ahead(s2, r, Len(r.keys)) = s2
      <4> HIDE DEF s2
      <4> QED
        BY <1>2, <2>4, AheadEnd
    <3> QED
      BY <1>5, <2>1, <3>1, <3>2
  <2>6. phaseBar'[t] = phaseBar[t] /\ retBar'[t] = retBar[t]
    BY <1>6, <2>2, EndedBar
  <2> QED
    BY <1>1, <1>7, <2>5, <2>6, InvisibleStep
<1> QED
  BY <1>8, <1>9

\* A MultiPut's search is invisible.
LEMMA SearchRefines ==
  ASSUME GuardedRequests, LinInv, LinInv', NEW t \in Threads, InsertSearch(t)
  PROVE  UNCHANGED Atomic!vars
<1>1. /\ TypeOK /\ BodyStep(t) /\ pc[t] = "insert" /\ pc'[t] = "write" /\ items' = items
      /\ UNCHANGED <<req, idx, left>>
  BY DEF LinInv, IInv, TypeOK, InsertSearch, BodyStep
<1>2. Storing(t)' <=> Storing(t)
  BY <1>1 DEF Storing
<1>3. CASE ~Storing(t)
  BY <1>1, <1>2, <1>3, InsideInvisible
<1>4. CASE Storing(t)
  <2>1. /\ \A u \in Threads : u # t => phaseBar'[u] = phaseBar[u] /\ retBar'[u] = retBar[u]
        /\ \A u \in Threads : u # t => (Storing(u)' <=> Storing(u))
    BY <1>1, OthersSame
  <2>2. kvBar' = kvBar
    BY <1>1, <1>2, <2>1, KvBarSame
  <2>3. phaseBar'[t] = phaseBar[t] /\ retBar'[t] = retBar[t]
    BY <1>1, <1>2, <1>4, StoringBar, StoringBarNext
  <2> QED
    BY <1>1, <2>1, <2>2, <2>3, InvisibleStep
<1> QED
  BY <1>3, <1>4

\* The operations agree before the first call.
LEMMA InitRefines == ASSUME Init PROVE Atomic!Init
<1>1. LinInv
  BY InitIInv, InitDupInv, InitLocal DEF LinInv
<1>2. \A u \in Threads : ~Storing(u)
  BY DEF Init, Storing
<1>3. kvBar = items
  BY <1>1, <1>2, KvBarPlain
<1>4. phaseBar = [t \in Threads |-> "idle"] /\ retBar = [t \in Threads |-> <<>>]
  BY <1>2 DEF Init, phaseBar, retBar
<1> QED
  BY <1>3, <1>4 DEF Init, Atomic!Init

\* A step inside a body takes effect or is invisible.
LEMMA BodyRefines ==
  ASSUME GuardedRequests, LinInv, LinInv', NEW t \in Threads, BodyStep(t)
  PROVE  Atomic!TakeEffect(t) \/ UNCHANGED Atomic!vars
<1>1. TypeOK /\ ControlInv /\ Control(t)
  BY DEF LinInv, IInv, ControlInv
<1>2. CASE Get(t)
  BY <1>2, GetRefines
<1>3. CASE AppendLookup(t)
  <2>1. /\ pc[t] = "append" /\ req[t].op = "Append" /\ pc'[t] = "insert" /\ req' = req
        /\ items' = items
    BY <1>1, <1>3 DEF AppendLookup, Control, TypeOK
  <2>2. ~Storing(t) /\ ~Storing(t)'
    BY <2>1 DEF Storing
  <2> QED
    BY <1>3, <2>1, <2>2, InsideInvisible DEF BodyStep
<1>4. CASE InsertSearch(t)
  BY <1>4, SearchRefines
<1>5. CASE InsertWrite(t)
  BY <1>5, PutRefines, MultiPutWriteRefines
<1>6. CASE DeleteLookup(t)
  <2>1. CASE pc'[t] = "ret"
    BY <1>6, <2>1, DeleteRefines
  <2>2. CASE pc'[t] # "ret"
    <3>1. pc[t] = "delete" /\ pc'[t] = "remove" /\ items' = items
      BY <1>1, <1>6, <2>2 DEF DeleteLookup, Finish, TypeOK
    <3>2. ~Storing(t) /\ ~Storing(t)'
      BY <3>1 DEF Storing
    <3> QED
      BY <1>6, <3>1, <3>2, InsideInvisible DEF BodyStep
  <2> QED
    BY <2>1, <2>2
<1>7. CASE DeleteRemove(t)
  BY <1>7, DeleteRefines
<1>8. CASE MultiGetNext(t)
  <2>1. CASE pc'[t] = "ret"
    BY <1>8, <2>1, MultiGetRefines
  <2>2. CASE pc'[t] # "ret"
    <3>1. pc[t] = "multiget" /\ pc'[t] = "multiget" /\ items' = items
      BY <1>1, <1>8, <2>2 DEF MultiGetNext, Finish, TypeOK
    <3>2. ~Storing(t) /\ ~Storing(t)'
      BY <3>1 DEF Storing
    <3> QED
      BY <1>8, <3>1, <3>2, InsideInvisible DEF BodyStep
  <2> QED
    BY <2>1, <2>2
<1>9. CASE MultiGetEnd(t)
  BY <1>9, MultiGetRefines
<1>10. CASE MultiPutCheck(t)
  BY <1>10, MultiPutRefines
<1>11. CASE AllKeysNext(t) \/ AllKeysEnd(t)
  BY <1>1, <1>11 DEF AllKeysNext, AllKeysEnd, Control, GuardedRequests
<1> QED
  BY <1>2, <1>3, <1>4, <1>5, <1>6, <1>7, <1>8, <1>9, <1>10, <1>11 DEF BodyStep

\* The acquisition of a guard is invisible.
LEMMA AcquireRefines ==
  ASSUME GuardedRequests, LinInv, LinInv', NEW t \in Threads, Acquire(t)
  PROVE  UNCHANGED Atomic!vars
<1>1. /\ pc[t] = "lock" /\ UNCHANGED <<items, req, idx>> /\ req[t] \in Requests
      /\ pc'[t] \in {"lock", Body(req[t])}
  BY DEF Acquire, LinInv, IInv, TypeOK, ControlInv, Control
<1>2. pc'[t] \notin {"write", "ret"} /\ (pc'[t] = "insert" => req[t].op = "Put")
  BY <1>1, BodyType
<1>3. ~Storing(t) /\ ~Storing(t)'
  BY <1>1, <1>2 DEF Storing
<1> QED
  BY <1>1, <1>2, <1>3, InsideInvisible

\* Every step is a step of the atomic store or leaves what its callers see unchanged.
LEMMA NextRefines ==
  ASSUME GuardedRequests, LinInv, LinInv', [Next]_vars PROVE [Atomic!Next]_(Atomic!vars)
<1>1. ASSUME NEW t \in Threads, Invoke(t) PROVE Atomic!Next
  BY <1>1, InvokeRefines DEF Atomic!Next
<1>2. ASSUME NEW t \in Threads, Acquire(t) PROVE UNCHANGED Atomic!vars
  BY <1>2, AcquireRefines
<1>3. ASSUME NEW t \in Threads, Return(t) PROVE Atomic!Next
  BY <1>3, ReturnRefines DEF Atomic!Next
<1>4. ASSUME NEW t \in Threads, BodyStep(t) PROVE Atomic!Next \/ UNCHANGED Atomic!vars
  BY <1>4, BodyRefines DEF Atomic!Next
<1>5. CASE UNCHANGED vars
  BY <1>5 DEF vars, Atomic!vars, kvBar, phaseBar, retBar, Storing, Pending, getIfExists
<1> QED
  BY <1>1, <1>2, <1>3, <1>4, <1>5, NextCases

\* With requests the locking covers the store is linearizable: every call that returns took
\* effect at one instant between its call and its return, MultiGet and MultiPut as a whole,
\* although each operation is many accesses to many lists.
THEOREM GuardedStoreIsLinearizable == GuardedRequests /\ Spec => Linearizable
<1> SUFFICES ASSUME GuardedRequests PROVE Spec => Linearizable
  OBVIOUS
<1>1. Init => Atomic!Init
  BY InitRefines
<1>2. Init => LinInv
  BY InitIInv, InitDupInv, InitLocal DEF LinInv
<1>3. LinInv /\ [Next]_vars => LinInv'
  BY LinStep
<1>4. LinInv /\ LinInv' /\ [Next]_vars => [Atomic!Next]_(Atomic!vars)
  BY NextRefines
<1> QED
  BY <1>1, <1>2, <1>3, <1>4, PTL DEF Spec, Linearizable, Atomic!Spec
=============================================================================
