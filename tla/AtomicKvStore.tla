--------------------------- MODULE AtomicKvStore ---------------------------
(***************************************************************************)
(* What a KvStore promises its callers, whichever implementation is behind *)
(* the pointer: a call takes effect at one instant between the call and    *)
(* its return, on one map from keys to strings, and MultiGet and MultiPut  *)
(* are each a single such instant.  SimpleKvStore and ConcurrentKvStore    *)
(* are compared with this specification by a refinement mapping.           *)
(***************************************************************************)
EXTENDS KvInterface

VARIABLES kv,      \* [Keys -> optional value]
          phase,   \* [Threads -> {"idle", "called", "done"}]
          call,    \* [Threads -> Requests or <<>>]: the request in progress
          ret,     \* [Threads -> optional Response]
          calls    \* [Threads -> 0..MaxOps]: requests a thread may still make

vars == <<kv, phase, call, ret, calls>>

Init ==
  /\ kv = [k \in Keys |-> <<>>]
  /\ phase = [t \in Threads |-> "idle"]
  /\ call = [t \in Threads |-> <<>>]
  /\ ret = [t \in Threads |-> <<>>]
  /\ calls = [t \in Threads |-> MaxOps]

Failed == [ok |-> FALSE, values |-> <<>>, keys |-> {}]
Done(vs) == [ok |-> TRUE, values |-> vs, keys |-> {}]

Present(k) == kv[k] # <<>>

\* The map after the pairs (ks[i], vs[i]) are stored in order: for a key that
\* occurs more than once the last pair wins.
PutAll(map, ks, vs) ==
  [k \in Keys |->
     IF \E i \in DOMAIN ks : ks[i] = k
     THEN << vs[CHOOSE i \in DOMAIN ks :
                  ks[i] = k /\ \A j \in DOMAIN ks : ks[j] = k => j <= i] >>
     ELSE map[k]]

\* The map after the request r, and the response that r earns.
Effect(r) ==
  LET k == r.keys[1] IN
  CASE r.op = "Put"      -> [kv EXCEPT ![k] = r.values]
    [] r.op = "Append"   -> [kv EXCEPT ![k] =
                               IF Present(k) THEN <<kv[k][1] \o r.values[1]>> ELSE r.values]
    [] r.op = "Delete"   -> [kv EXCEPT ![k] = <<>>]
    [] r.op = "MultiPut" -> IF Len(r.keys) = Len(r.values)
                            THEN PutAll(kv, r.keys, r.values) ELSE kv
    [] OTHER             -> kv

Answer(r) ==
  CASE r.op \in {"Get", "Delete"} ->
         IF Present(r.keys[1]) THEN Done(kv[r.keys[1]]) ELSE Failed
    [] r.op \in ValueOps -> Done(<<>>)
    [] r.op = "MultiGet" ->
         IF \A i \in DOMAIN r.keys : Present(r.keys[i])
         THEN Done([i \in DOMAIN r.keys |-> kv[r.keys[i]][1]]) ELSE Failed
    [] r.op = "MultiPut" ->
         IF Len(r.keys) = Len(r.values) THEN Done(<<>>) ELSE Failed
    [] r.op = "AllKeys"  ->
         [ok |-> TRUE, values |-> <<>>, keys |-> {k \in Keys : Present(k)}]

Call(t) ==
  /\ phase[t] = "idle"
  /\ calls[t] > 0
  /\ \E r \in Requests : call' = [call EXCEPT ![t] = r]
  /\ phase' = [phase EXCEPT ![t] = "called"]
  /\ UNCHANGED <<kv, ret, calls>>

TakeEffect(t) ==
  /\ phase[t] = "called"
  /\ kv' = Effect(call[t])
  /\ ret' = [ret EXCEPT ![t] = <<Answer(call[t])>>]
  /\ phase' = [phase EXCEPT ![t] = "done"]
  /\ UNCHANGED <<call, calls>>

Return(t) ==
  /\ phase[t] = "done"
  /\ phase' = [phase EXCEPT ![t] = "idle"]
  /\ call' = [call EXCEPT ![t] = <<>>]
  /\ ret' = [ret EXCEPT ![t] = <<>>]
  /\ calls' = [calls EXCEPT ![t] = @ - 1]
  /\ UNCHANGED kv

Next == \E t \in Threads : Call(t) \/ TakeEffect(t) \/ Return(t)

Spec == Init /\ [][Next]_vars
=============================================================================
