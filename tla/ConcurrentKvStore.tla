------------------------- MODULE ConcurrentKvStore -------------------------
(***************************************************************************)
(* The lock-striped store of kvstore/kvstore/concurrent_kvstore.{hpp,cpp}: *)
(* an array of bucket lists, a std::shared_mutex per bucket, and threads   *)
(* that run the seven operations of class ConcurrentKvStore.               *)
(*                                                                         *)
(* items[k] holds the values of the DbItems with key k, in the order of    *)
(* the list of k's bucket.  The order of items with different keys inside  *)
(* one list is left out: no operation but AllKeys can see it, and AllKeys' *)
(* result is kept as a set.                                                *)
(*                                                                         *)
(* A step is one access to a bucket list (one getIfExists, the search or   *)
(* the write of one insertItem, one remove_if, the walk over one bucket in *)
(* AllKeys), one lock acquisition, or the call or return of an operation.  *)
(* pc names the access the thread is about to make, so two threads whose   *)
(* pcs name conflicting accesses to one bucket are a data race.            *)
(***************************************************************************)
EXTENDS KvInterface

CONSTANTS BucketCount,   \* DbMap::BUCKET_COUNT
          Hasher         \* the hash function, [Keys -> Nat]

ASSUME BucketAssumption == BucketCount \in Nat \ {0}
ASSUME HasherAssumption == Hasher \in [Keys -> Nat]

Buckets == 0 .. BucketCount - 1

\* DbMap::bucket
bucket(k) == Hasher[k] % BucketCount

VARIABLES items,     \* [Keys -> Seq(Value)], DbMap::buckets
          writers,   \* [Buckets -> SUBSET Threads], who holds shared_mtxs[b] exclusively
          readers,   \* [Buckets -> SUBSET Threads], who holds shared_mtxs[b] shared
          pc,        \* [Threads -> Labels]
          req,       \* the request a thread is running, <<>> when it runs none
          idx,       \* how many keys (or buckets) the operation's loop has finished
          item,      \* the local std::optional<DbItem>, an optional value
          found,     \* what the search of insertItem found
          res,       \* the response being built
          left       \* requests a thread may still make

vars == <<items, writers, readers, pc, req, idx, item, found, res, left>>

Labels == {"idle", "lock", "get", "insert", "write", "append", "delete",
           "remove", "multiget", "check", "allkeys", "ret"}

EmptyResponse == [ok |-> FALSE, values |-> <<>>, keys |-> {}]

Init ==
  /\ items = [k \in Keys |-> <<>>]
  /\ writers = [b \in Buckets |-> {}]
  /\ readers = [b \in Buckets |-> {}]
  /\ pc = [t \in Threads |-> "idle"]
  /\ req = [t \in Threads |-> <<>>]
  /\ idx = [t \in Threads |-> 0]
  /\ item = [t \in Threads |-> <<>>]
  /\ found = [t \in Threads |-> FALSE]
  /\ res = [t \in Threads |-> EmptyResponse]
  /\ left = [t \in Threads |-> MaxOps]

-----------------------------------------------------------------------------
(* Locking *)

\* DbMap::getIfExists: the first item with the key, if there is one.
getIfExists(k) == IF items[k] = <<>> THEN <<>> ELSE <<items[k][1]>>

\* Mutant of Locks: MultiGet locks the bucket of its first key only.
LocksFirstKeyOnly(r) ==
  CASE r.op = "AllKeys"  -> {}
    [] r.op = "MultiPut" -> Buckets \ {0}
    [] OTHER             -> {bucket(r.keys[i]) : i \in DOMAIN r.keys \cap {1}}

\* The buckets whose mutex the operation acquires, in ascending order.  The
\* single-key operations and MultiGet lock the buckets of their keys.  The loop
\* of MultiPut tests `if (b)`: it locks every bucket but bucket 0, whatever the
\* keys are.  AllKeys locks nothing.
Locks(r) ==
  CASE r.op = "AllKeys"  -> {}
    [] r.op = "MultiPut" -> Buckets \ {0}
    [] OTHER             -> {bucket(r.keys[i]) : i \in DOMAIN r.keys}

\* Mutants of Exclusive: an operation that writes takes a std::shared_lock.
SharedAppend(r)   == r.op \in {"Put", "Delete", "MultiPut"}
\* std::unique_lock or std::shared_lock
Exclusive(r) == r.op \in {"Put", "Append", "Delete", "MultiPut"}

Held(t) == {b \in Buckets : t \in writers[b] \/ t \in readers[b]}

\* The first access of the operation's body, once its guards are constructed.
Body(r) ==
  CASE r.op = "Get"      -> "get"
    [] r.op = "Put"      -> "insert"
    [] r.op = "Append"   -> "append"
    [] r.op = "Delete"   -> "delete"
    [] r.op = "MultiGet" -> "multiget"
    [] r.op = "MultiPut" -> "check"
    [] OTHER             -> "allkeys"

\* A thread calls one of the operations.
Invoke(t) ==
  /\ pc[t] = "idle"
  /\ left[t] > 0
  /\ \E r \in Requests :
       /\ req' = [req EXCEPT ![t] = r]
       /\ pc' = [pc EXCEPT ![t] = IF Locks(r) = {} THEN Body(r) ELSE "lock"]
  /\ UNCHANGED <<items, writers, readers, idx, item, found, res, left>>

\* Mutant of NextLock: MultiGet takes the mutexes in the order of its keys.
NextInKeyOrder(t, b) ==
  LET ks == req[t].keys
  IN  /\ b \in Locks(req[t]) \ Held(t)
      /\ IF req[t].op = "MultiGet"
         THEN \E i \in DOMAIN ks :
                bucket(ks[i]) = b /\ \A j \in 1 .. i - 1 : bucket(ks[j]) \in Held(t)
         ELSE \A c \in Locks(req[t]) : c < b => c \in Held(t)

\* The smallest bucket whose mutex t still needs.
NextLock(t, b) ==
  /\ b \in Locks(req[t]) \ Held(t)
  /\ \A c \in Locks(req[t]) : c < b => c \in Held(t)

\* One guard is constructed: a shared mutex admits a writer alone, and readers
\* together.
Acquire(t) ==
  /\ pc[t] = "lock"
  /\ \E b \in Buckets :
       /\ NextLock(t, b)
       /\ writers[b] = {}
       /\ IF Exclusive(req[t])
          THEN /\ readers[b] = {}
               /\ writers' = [writers EXCEPT ![b] = {t}]
               /\ UNCHANGED readers
          ELSE /\ readers' = [readers EXCEPT ![b] = @ \cup {t}]
               /\ UNCHANGED writers
       /\ pc' = [pc EXCEPT ![t] =
                   IF Locks(req[t]) = Held(t) \cup {b} THEN Body(req[t]) ELSE "lock"]
  /\ UNCHANGED <<items, req, idx, item, found, res, left>>

-----------------------------------------------------------------------------
(* The bodies of the operations *)

CurKey(t) == req[t].keys[idx[t] + 1]

\* The value insertItem is called with: Append passes dbItem->value + req->value
\* when the key was there.
CurValue(t) ==
  IF req[t].op = "Append" /\ item[t] # <<>>
  THEN item[t][1] \o req[t].values[1]
  ELSE req[t].values[idx[t] + 1]

Finish(t, ok, values) ==
  /\ res' = [res EXCEPT ![t] = [ok |-> ok, values |-> values, keys |-> @.keys]]
  /\ pc' = [pc EXCEPT ![t] = "ret"]

Get(t) ==
  /\ pc[t] = "get"
  /\ item' = [item EXCEPT ![t] = getIfExists(CurKey(t))]
  /\ Finish(t, item'[t] # <<>>, item'[t])
  /\ UNCHANGED <<items, writers, readers, req, idx, found, left>>

\* Append's getIfExists.
AppendLookup(t) ==
  /\ pc[t] = "append"
  /\ item' = [item EXCEPT ![t] = getIfExists(CurKey(t))]
  /\ pc' = [pc EXCEPT ![t] = "insert"]
  /\ UNCHANGED <<items, writers, readers, req, idx, found, res, left>>

\* insertItem, the search for the key.
InsertSearch(t) ==
  /\ pc[t] = "insert"
  /\ found' = [found EXCEPT ![t] = items[CurKey(t)] # <<>>]
  /\ pc' = [pc EXCEPT ![t] = "write"]
  /\ UNCHANGED <<items, writers, readers, req, idx, item, res, left>>

\* insertItem's effect on the items of the key: the item the search found is
\* overwritten, otherwise a new item goes to the end of the list.  When another
\* thread has removed the item since the search (possible only in bucket 0,
\* where MultiPut holds no lock) the write goes to a freed node and is lost.
insertItem(seq, wasFound, v) ==
  IF ~wasFound THEN Append(seq, v)
  ELSE IF seq = <<>> THEN seq ELSE [seq EXCEPT ![1] = v]

\* insertItem, the write; MultiPut's loop goes on to its next pair.
InsertWrite(t) ==
  /\ pc[t] = "write"
  /\ items' = [items EXCEPT ![CurKey(t)] = insertItem(@, found[t], CurValue(t))]
  /\ idx' = [idx EXCEPT ![t] = @ + 1]
  /\ IF idx[t] + 1 < Len(req[t].keys)
     THEN /\ pc' = [pc EXCEPT ![t] = "insert"]
          /\ UNCHANGED res
     ELSE Finish(t, TRUE, <<>>)
  /\ UNCHANGED <<writers, readers, req, item, found, left>>

\* Delete's getIfExists: a missing key ends the operation with false.
DeleteLookup(t) ==
  /\ pc[t] = "delete"
  /\ item' = [item EXCEPT ![t] = getIfExists(CurKey(t))]
  /\ IF item'[t] = <<>>
     THEN Finish(t, FALSE, <<>>)
     ELSE pc' = [pc EXCEPT ![t] = "remove"] /\ UNCHANGED res
  /\ UNCHANGED <<items, writers, readers, req, idx, found, left>>

\* removeItem: remove_if drops every item with the key.
DeleteRemove(t) ==
  /\ pc[t] = "remove"
  /\ items' = [items EXCEPT ![CurKey(t)] = <<>>]
  /\ Finish(t, TRUE, item[t])
  /\ UNCHANGED <<writers, readers, req, idx, item, found, left>>

\* One turn of MultiGet's loop over its keys; a missing key clears the values
\* and ends the operation with false.
MultiGetNext(t) ==
  /\ pc[t] = "multiget"
  /\ idx[t] < Len(req[t].keys)
  /\ item' = [item EXCEPT ![t] = getIfExists(CurKey(t))]
  /\ IF item'[t] = <<>>
     THEN /\ Finish(t, FALSE, <<>>)
          /\ UNCHANGED idx
     ELSE /\ res' = [res EXCEPT ![t] =
                         [ok |-> @.ok, values |-> @.values \o item'[t], keys |-> @.keys]]
          /\ idx' = [idx EXCEPT ![t] = @ + 1]
          /\ UNCHANGED pc
  /\ UNCHANGED <<items, writers, readers, req, found, left>>

MultiGetEnd(t) ==
  /\ pc[t] = "multiget"
  /\ idx[t] = Len(req[t].keys)
  /\ Finish(t, TRUE, res[t].values)
  /\ UNCHANGED <<items, writers, readers, req, idx, item, found, left>>

\* MultiPut compares the sizes of its vectors when it holds its locks.
MultiPutCheck(t) ==
  /\ pc[t] = "check"
  /\ IF \/ Len(req[t].keys) # Len(req[t].values)
        \/ Len(req[t].keys) = 0
     THEN Finish(t, Len(req[t].keys) = Len(req[t].values), <<>>)
     ELSE pc' = [pc EXCEPT ![t] = "insert"] /\ UNCHANGED res
  /\ UNCHANGED <<items, writers, readers, req, idx, item, found, left>>

\* AllKeys walks the list of the next bucket, without its lock.
AllKeysNext(t) ==
  /\ pc[t] = "allkeys"
  /\ idx[t] < BucketCount
  /\ LET here == {k \in Keys : bucket(k) = idx[t] /\ items[k] # <<>>} IN
     res' = [res EXCEPT ![t] =
               [ok |-> @.ok, values |-> @.values, keys |-> @.keys \cup here]]
  /\ idx' = [idx EXCEPT ![t] = @ + 1]
  /\ UNCHANGED <<items, writers, readers, pc, req, item, found, left>>

AllKeysEnd(t) ==
  /\ pc[t] = "allkeys"
  /\ idx[t] = BucketCount
  /\ Finish(t, TRUE, <<>>)
  /\ UNCHANGED <<items, writers, readers, req, idx, item, found, left>>

\* The operation returns: its guards and its other locals are destroyed.
Return(t) ==
  /\ pc[t] = "ret"
  /\ writers' = [b \in Buckets |-> writers[b] \ {t}]
  /\ readers' = [b \in Buckets |-> readers[b] \ {t}]
  /\ pc' = [pc EXCEPT ![t] = "idle"]
  /\ req' = [req EXCEPT ![t] = <<>>]
  /\ idx' = [idx EXCEPT ![t] = 0]
  /\ item' = [item EXCEPT ![t] = <<>>]
  /\ found' = [found EXCEPT ![t] = FALSE]
  /\ res' = [res EXCEPT ![t] = EmptyResponse]
  /\ left' = [left EXCEPT ![t] = @ - 1]
  /\ UNCHANGED items

\* A step of an operation that has been called.
Step(t) ==
  \/ Acquire(t)
  \/ Get(t)
  \/ AppendLookup(t)
  \/ InsertSearch(t)
  \/ InsertWrite(t)
  \/ DeleteLookup(t)
  \/ DeleteRemove(t)
  \/ MultiGetNext(t)
  \/ MultiGetEnd(t)
  \/ MultiPutCheck(t)
  \/ AllKeysNext(t)
  \/ AllKeysEnd(t)
  \/ Return(t)

\* Every thread has made its requests.
AllDone ==
  /\ \A t \in Threads : pc[t] = "idle" /\ left[t] = 0
  /\ UNCHANGED vars

Next == AllDone \/ \E t \in Threads : Invoke(t) \/ Step(t)

\* The scheduler runs every thread that can take a step; nothing is assumed of
\* the order in which a mutex admits waiting threads.
Fairness == \A t \in Threads : WF_vars(Step(t))

Spec == Init /\ [][Next]_vars /\ Fairness

-----------------------------------------------------------------------------
(* Properties *)

TypeOK ==
  /\ items \in [Keys -> Seq(Value)]
  /\ writers \in [Buckets -> SUBSET Threads]
  /\ readers \in [Buckets -> SUBSET Threads]
  /\ pc \in [Threads -> Labels]
  /\ req \in [Threads -> Requests \cup {<<>>}]
  /\ idx \in [Threads -> Nat]
  /\ item \in [Threads -> Seq(Value)]
  /\ found \in [Threads -> BOOLEAN]
  /\ res \in [Threads -> Response]
  /\ left \in [Threads -> Nat]

\* Thread t is about to read, or to modify, the list of bucket b.
Reads(t, b) ==
  \/ pc[t] \in {"get", "append", "insert", "delete"} /\ b = bucket(CurKey(t))
  \/ pc[t] = "multiget" /\ idx[t] < Len(req[t].keys) /\ b = bucket(CurKey(t))
  \/ pc[t] = "allkeys" /\ b = idx[t]

Writes(t, b) == pc[t] \in {"write", "remove"} /\ b = bucket(CurKey(t))

Race(t, u, b) == t # u /\ Writes(t, b) /\ (Reads(u, b) \/ Writes(u, b))

\* No two threads are ever at conflicting accesses to one bucket list: the
\* std::list objects of DbMap are never used by two threads at once when one of
\* them modifies the list (concurrent_kvstore.cpp, the guards of every operation).
DataRaceFree == \A t, u \in Threads, b \in Buckets : ~Race(t, u, b)

\* Requests that keep to what the locking covers: no AllKeys, and no MultiPut of
\* a key in bucket 0.
GuardedRequests ==
  \A r \in Requests :
    /\ r.op # "AllKeys"
    /\ r.op = "MultiPut" => \A i \in DOMAIN r.keys : bucket(r.keys[i]) # 0

\* The races the locking leaves are confined to two places, whatever is
\* requested: a MultiPut in bucket 0, whose mutex its loop never takes, and a
\* walk of AllKeys, which takes no mutex.
RaceConfined ==
  \A t, u \in Threads, b \in Buckets :
    Race(t, u, b) =>
      \/ b = 0 /\ "MultiPut" \in {req[t].op, req[u].op}
      \/ req[u].op = "AllKeys"

\* A thread that waits for a bucket's mutex holds only smaller ones, in MultiGet
\* and MultiPut alike, so no cycle of waiting threads can form.
LockOrder ==
  \A t \in Threads, b \in Buckets :
    pc[t] = "lock" /\ NextLock(t, b) => \A c \in Held(t) : c < b

\* A bucket's list holds at most one item per key, although insertItem searches
\* and writes in two steps.
NoDuplicateKeys == \A k \in Keys : Len(items[k]) <= 1

\* What an insertItem found is still so when it writes.
SearchIsCurrent ==
  \A t \in Threads : pc[t] = "write" => (found[t] <=> items[CurKey(t)] # <<>>)

\* A step that changes the items of a key in a bucket other than 0 is made by a
\* thread that holds the bucket's mutex exclusively, and no other thread holds
\* it in any mode.
GuardedUpdates ==
  [][\A k \in Keys :
       items'[k] # items[k] /\ bucket(k) # 0 =>
         \E t \in Threads :
           /\ pc'[t] # pc[t]
           /\ writers[bucket(k)] = {t}
           /\ readers[bucket(k)] = {}]_vars

\* When every MultiPut stores one value under all of its keys, a MultiGet of
\* those keys returns one value: it never sees a MultiPut half done
\* (test_atomic_multiput_multiget.cpp).
MultiGetSeesOneMultiPut ==
  \A t \in Threads :
    pc[t] = "ret" /\ req[t].op = "MultiGet" =>
      \A i, j \in DOMAIN res[t].values : res[t].values[i] = res[t].values[j]

\* Every operation that is called returns: MultiGet and MultiPut, which hold
\* several bucket mutexes at once and meet in at least two, never wait for each
\* other in a circle, and no guard outlives its operation.
CallsReturn == \A t \in Threads : pc[t] # "idle" ~> pc[t] = "idle"

-----------------------------------------------------------------------------
(* The inductive invariant behind the safety properties *)

\* A shared mutex has one exclusive owner and no shared one, or any number of
\* shared owners.
MutexInv ==
  \A b \in Buckets :
    /\ \A t, u \in writers[b] : t = u
    /\ writers[b] # {} => readers[b] = {}

\* A thread between operations holds nothing; one that is acquiring holds a
\* prefix of the buckets it needs; one in the body of an operation holds all of
\* them, in the operation's own mode.
Holding(t) ==
  /\ pc[t] = "idle" => Held(t) = {}
  /\ pc[t] = "lock" =>
       /\ Held(t) \subseteq Locks(req[t])
       /\ \A c \in Held(t), b \in Locks(req[t]) \ Held(t) : c < b
  /\ pc[t] \notin {"idle", "lock"} => Held(t) = Locks(req[t])
  /\ \A b \in Buckets : t \in writers[b] => Exclusive(req[t])
  /\ \A b \in Buckets : t \in readers[b] => ~Exclusive(req[t])

HoldInv == \A t \in Threads : Holding(t)

\* Where a thread is in its code fixes the operation it runs and the range of
\* its loop counter.
Control(t) ==
  /\ pc[t] # "idle" => req[t] \in Requests /\ left[t] > 0
  /\ pc[t] \in {"idle", "lock", "check"} => idx[t] = 0 /\ item[t] = <<>>
  /\ pc[t] = "get" => req[t].op = "Get" /\ idx[t] = 0
  /\ pc[t] = "append" => req[t].op = "Append" /\ idx[t] = 0
  /\ pc[t] \in {"delete", "remove"} => req[t].op = "Delete" /\ idx[t] = 0
  /\ pc[t] \in {"insert", "write"} =>
       /\ req[t].op \in {"Put", "Append", "MultiPut"}
       /\ idx[t] < Len(req[t].keys)
       /\ Len(req[t].keys) = Len(req[t].values)
  /\ pc[t] = "multiget" => req[t].op = "MultiGet" /\ idx[t] <= Len(req[t].keys)
  /\ pc[t] = "check" => req[t].op = "MultiPut"
  /\ pc[t] = "allkeys" => req[t].op = "AllKeys" /\ idx[t] <= BucketCount

ControlInv == \A t \in Threads : Control(t)

\* The three together: the discipline of the bucket mutexes.
LockDiscipline == MutexInv /\ HoldInv /\ ControlInv

-----------------------------------------------------------------------------
(* Refinement of AtomicKvStore *)

\* A MultiPut takes effect when it has passed its size check: the pairs it has
\* still to store already count, because it holds the buckets they go to.
Storing(t) == req[t] # <<>> /\ req[t].op = "MultiPut" /\ pc[t] \in {"insert", "write"}

Pending(t, k) == {i \in idx[t] + 1 .. Len(req[t].keys) : req[t].keys[i] = k}

kvBar ==
  [k \in Keys |->
     IF \E t \in Threads : Storing(t) /\ Pending(t, k) # {}
     THEN LET t == CHOOSE u \in Threads : Storing(u) /\ Pending(u, k) # {}
              i == CHOOSE j \in Pending(t, k) : \A m \in Pending(t, k) : m <= j
          IN  <<req[t].values[i]>>
     ELSE getIfExists(k)]

phaseBar ==
  [t \in Threads |-> CASE pc[t] = "idle"                -> "idle"
                      [] pc[t] = "ret" \/ Storing(t) -> "done"
                      [] OTHER                       -> "called"]

retBar ==
  [t \in Threads |-> CASE pc[t] = "ret" -> <<res[t]>>
                      [] Storing(t)   -> <<[ok |-> TRUE, values |-> <<>>, keys |-> {}]>>
                      [] OTHER        -> <<>>]

Atomic == INSTANCE AtomicKvStore
            WITH kv <- kvBar, phase <- phaseBar, call <- req, ret <- retBar, calls <- left

\* Every operation, MultiGet and MultiPut included, takes effect at one instant
\* between its call and its return.
Linearizable == Atomic!Spec
=============================================================================
