--------------------------- MODULE SimpleKvStore ---------------------------
(***************************************************************************)
(* The store of kvstore/kvstore/simple_kvstore.{hpp,cpp}: one              *)
(* std::unordered_map behind one std::mutex that the operations lock and   *)
(* unlock by hand.  KvServer::start() builds this store.                   *)
(*                                                                         *)
(* The failure paths of Get, Delete, MultiGet and MultiPut return before   *)
(* the call of unlock(), so the mutex keeps an owner that is not inside an *)
(* operation.  A thread that locks a mutex it already owns never returns   *)
(* from lock(), as with the default mutex of the platform's library.       *)
(***************************************************************************)
EXTENDS KvInterface

VARIABLES store_,   \* [Keys -> optional value]
          mtx,      \* the set of threads that own the mutex: {} or {t}
          pc,       \* [Threads -> {"idle", "lock", "body", "loop", "ret"}]
          req,      \* the request a thread is running, <<>> when it runs none
          idx,      \* how many keys the loop of MultiGet or MultiPut has finished
          res,      \* the response being built, or the last one when none is
          left      \* requests a thread may still make

vars == <<store_, mtx, pc, req, idx, res, left>>

EmptyResponse == [ok |-> TRUE, values |-> <<>>, keys |-> {}]

Init ==
  /\ store_ = [k \in Keys |-> <<>>]
  /\ mtx = {}
  /\ pc = [t \in Threads |-> "idle"]
  /\ req = [t \in Threads |-> <<>>]
  /\ idx = [t \in Threads |-> 0]
  /\ res = [t \in Threads |-> EmptyResponse]
  /\ left = [t \in Threads |-> MaxOps]

\* A thread calls the operation r.
InvokeWith(t, r) ==
  /\ pc[t] = "idle"
  /\ left[t] > 0
  /\ req' = [req EXCEPT ![t] = r]
  /\ pc' = [pc EXCEPT ![t] = "lock"]
  /\ UNCHANGED <<store_, mtx, idx, res, left>>

Invoke(t) == \E r \in Requests : InvokeWith(t, r)

\* this->mtx.lock()
Lock(t) ==
  /\ pc[t] = "lock"
  /\ mtx = {}
  /\ mtx' = {t}
  /\ pc' = [pc EXCEPT ![t] = IF req[t].op \in {"MultiGet", "MultiPut"} THEN "loop" ELSE "body"]
  /\ res' = [res EXCEPT ![t] = EmptyResponse]
  /\ UNCHANGED <<store_, req, idx, left>>

Key(t) == req[t].keys[1]
Finish(t, r) == res' = [res EXCEPT ![t] = r] /\ pc' = [pc EXCEPT ![t] = "ret"]
Ok(values, keys) == [ok |-> TRUE, values |-> values, keys |-> keys]
Fail == [ok |-> FALSE, values |-> <<>>, keys |-> {}]

\* this->mtx.unlock(), then return true
Succeed(t, values, keys) == Finish(t, Ok(values, keys)) /\ mtx' = {}

\* return false, without unlock()
ReturnFalse(t) == Finish(t, Fail) /\ UNCHANGED mtx

Get(t) ==
  /\ pc[t] = "body" /\ req[t].op = "Get"
  /\ IF store_[Key(t)] = <<>> THEN ReturnFalse(t) ELSE Succeed(t, store_[Key(t)], {})
  /\ UNCHANGED <<store_, req, idx, left>>

Put(t) ==
  /\ pc[t] = "body" /\ req[t].op = "Put"
  /\ store_' = [store_ EXCEPT ![Key(t)] = <<req[t].values[1]>>]
  /\ Succeed(t, <<>>, {})
  /\ UNCHANGED <<req, idx, left>>

\* Mutant of AppendOp: the stored value is overwritten.
AppendOverwrites(t) ==
  /\ pc[t] = "body" /\ req[t].op = "Append"
  /\ store_' = [store_ EXCEPT ![Key(t)] = <<req[t].values[1]>>]
  /\ Succeed(t, <<>>, {})
  /\ UNCHANGED <<req, idx, left>>

AppendOp(t) ==
  /\ pc[t] = "body" /\ req[t].op = "Append"
  /\ store_' = [store_ EXCEPT ![Key(t)] =
                  IF @ # <<>> THEN <<@[1] \o req[t].values[1]>> ELSE <<req[t].values[1]>>]
  /\ Succeed(t, <<>>, {})
  /\ UNCHANGED <<req, idx, left>>

Delete(t) ==
  /\ pc[t] = "body" /\ req[t].op = "Delete"
  /\ IF store_[Key(t)] = <<>>
     THEN ReturnFalse(t) /\ UNCHANGED store_
     ELSE Succeed(t, store_[Key(t)], {}) /\ store_' = [store_ EXCEPT ![Key(t)] = <<>>]
  /\ UNCHANGED <<req, idx, left>>

AllKeys(t) ==
  /\ pc[t] = "body" /\ req[t].op = "AllKeys"
  /\ Succeed(t, <<>>, {k \in Keys : store_[k] # <<>>})
  /\ UNCHANGED <<store_, req, idx, left>>

\* Mutant of MultiGet: the loop does not go on to the next key.
MultiGetStays(t) ==
  /\ pc[t] = "loop" /\ req[t].op = "MultiGet"
  /\ UNCHANGED vars

\* One turn of MultiGet's loop, or its end.
MultiGet(t) ==
  /\ pc[t] = "loop" /\ req[t].op = "MultiGet"
  /\ IF idx[t] = Len(req[t].keys)
     THEN Succeed(t, res[t].values, {}) /\ UNCHANGED idx
     ELSE LET it == store_[req[t].keys[idx[t] + 1]] IN
          IF it = <<>>
          THEN ReturnFalse(t) /\ UNCHANGED idx
          ELSE /\ res' = [res EXCEPT ![t] = Ok(@.values \o it, {})]
               /\ idx' = [idx EXCEPT ![t] = @ + 1]
               /\ UNCHANGED <<mtx, pc>>
  /\ UNCHANGED <<store_, req, left>>

\* MultiPut: vectors of different sizes end it before the loop.
MultiPut(t) ==
  /\ pc[t] = "loop" /\ req[t].op = "MultiPut"
  /\ IF Len(req[t].keys) # Len(req[t].values)
     THEN ReturnFalse(t) /\ UNCHANGED <<store_, idx>>
     ELSE IF idx[t] = Len(req[t].keys)
     THEN Succeed(t, <<>>, {}) /\ UNCHANGED <<store_, idx>>
     ELSE /\ store_' = [store_ EXCEPT ![req[t].keys[idx[t] + 1]] = <<req[t].values[idx[t] + 1]>>]
          /\ idx' = [idx EXCEPT ![t] = @ + 1]
          /\ UNCHANGED <<mtx, pc, res>>
  /\ UNCHANGED <<req, left>>

\* The caller gets the result.
Return(t) ==
  /\ pc[t] = "ret"
  /\ pc' = [pc EXCEPT ![t] = "idle"]
  /\ req' = [req EXCEPT ![t] = <<>>]
  /\ idx' = [idx EXCEPT ![t] = 0]
  /\ left' = [left EXCEPT ![t] = @ - 1]
  /\ UNCHANGED <<store_, mtx, res>>

\* A step of an operation that has been called.
Step(t) ==
  \/ Lock(t)
  \/ Get(t)
  \/ Put(t)
  \/ AppendOp(t)
  \/ Delete(t)
  \/ AllKeys(t)
  \/ MultiGet(t)
  \/ MultiPut(t)
  \/ Return(t)

\* Nothing is left to do: every thread has made its requests, or every thread
\* that has not is waiting in lock() for a mutex nobody will unlock.
Quiet ==
  /\ \A t \in Threads : \/ pc[t] = "idle" /\ left[t] = 0
                        \/ pc[t] = "lock" /\ mtx # {}
  /\ UNCHANGED vars

Next == Quiet \/ \E t \in Threads : Invoke(t) \/ Step(t)

\* The scheduler runs every thread that can take a step.
Fairness == \A t \in Threads : WF_vars(Step(t))

Spec == Init /\ [][Next]_vars /\ Fairness

-----------------------------------------------------------------------------
(* Properties *)

InOperation(t) == pc[t] \in {"body", "loop"}

\* The mutex has an owner that is not inside an operation.
Leaked == \E t \in mtx : ~InOperation(t)

\* Every operation returns unless some operation has answered false.
CallsReturnOrLeak == \A t \in Threads : pc[t] # "idle" ~> pc[t] = "idle" \/ Leaked

-----------------------------------------------------------------------------
(* Refinement of AtomicKvStore *)

\* A MultiPut takes effect with its first turn: nobody sees the map until its
\* last one.
Storing(t) == req[t] # <<>> /\ req[t].op = "MultiPut" /\ pc[t] = "loop" /\ idx[t] > 0

Pending(t, k) == {i \in idx[t] + 1 .. Len(req[t].keys) : req[t].keys[i] = k}

kvBar ==
  [k \in Keys |->
     IF \E t \in Threads : Storing(t) /\ Pending(t, k) # {}
     THEN LET t == CHOOSE u \in Threads : Storing(u) /\ Pending(u, k) # {}
              i == CHOOSE j \in Pending(t, k) : \A m \in Pending(t, k) : m <= j
          IN  <<req[t].values[i]>>
     ELSE store_[k]]

phaseBar ==
  [t \in Threads |-> CASE pc[t] = "idle"                -> "idle"
                      [] pc[t] = "ret" \/ Storing(t) -> "done"
                      [] OTHER                       -> "called"]

retBar ==
  [t \in Threads |-> CASE pc[t] = "ret" -> <<res[t]>>
                      [] Storing(t)   -> <<Ok(<<>>, {})>>
                      [] OTHER        -> <<>>]

Atomic == INSTANCE AtomicKvStore
            WITH kv <- kvBar, phase <- phaseBar, call <- req, ret <- retBar, calls <- left

\* Every operation that returns took effect at one instant of its call.
Linearizable == Atomic!Spec
=============================================================================
