--------------------------- MODULE KvServerProofs ---------------------------
(***************************************************************************)
(* Proofs about KvServer, for every number of workers, clients and         *)
(* requests.  The inductive invariant says where a connection can be (with *)
(* the listener, in one queue or with one worker, and nowhere twice), how  *)
(* far stop() has come, and where the request of a waiting client is.      *)
(***************************************************************************)
EXTENDS KvServer, SequenceTheorems, FiniteSetTheorems, TLAPS

OptClient == {<<>>} \cup {<<c>> : c \in Clients}

\* The type invariant.
TypeOK ==
  /\ main \in {"init", "starting", "sized", "running", "failed", "stopping", "join listener",
               "shut queues", "join workers", "stopped"}
  /\ is_stopped \in BOOLEAN /\ sized \in BOOLEAN /\ crashed \in BOOLEAN
  /\ listener_fd \in {"none", "open", "shutdown"}
  /\ listener \in {"none", "loop", "accept", "push", "done"}
  /\ accepted \in OptClient
  /\ n_workers \in 1 .. NWorkers /\ next_worker \in Workers /\ next_queue \in Nat
  /\ conn_queues \in [Workers -> Seq(Clients)]
  /\ wpc \in [Workers -> {"none", "loop", "pop", "recv", "process", "send", "done"}]
  /\ client \in [Workers -> OptClient]
  /\ conn \in [Clients -> {"none", "backlog", "reset", "lost", "open", "shut", "closed"}]
  /\ inbox \in [Clients -> Seq(Requests)]
  /\ outbox \in [Clients -> Nat]
  /\ cpc \in [Clients -> {"start", "ready", "waiting", "closed"}]
  /\ sent \in [Clients -> Nat]
  /\ pc \in [Workers -> {"idle", "lock", "body", "loop", "ret"}]

\* How far start() and stop() have come.
MainInv ==
  /\ main \in {"init", "failed"} => listener = "none"
  /\ main \in {"init", "starting", "sized", "failed"} => \A w \in Workers : wpc[w] = "none"
  /\ ~crashed => (sized <=> main \notin {"init", "starting", "failed"})
  /\ crashed => main \in {"starting", "stopping"}
  /\ main \in {"join listener", "shut queues", "join workers", "stopped"} => listener_fd = "shutdown"
  /\ main \in {"shut queues", "join workers", "stopped"} => listener = "done"
  /\ main \notin {"shut queues", "join workers", "stopped"} => next_queue = 0
  /\ main = "shut queues" => next_queue < n_workers
  /\ main \in {"join workers", "stopped"} => next_queue = n_workers
  /\ main = "stopped" => \A w \in Workers : wpc[w] \in {"none", "done"}
  /\ \A w \in Workers : w < n_workers \/ wpc[w] = "none"

\* A worker has a connection from pop to close, and is inside the store while it
\* processes a request.
WorkerInv ==
  \A w \in Workers :
    /\ client[w] # <<>> <=> wpc[w] \in {"recv", "process", "send"}
    /\ pc[w] # "idle" <=> wpc[w] = "process"

\* An optional client is c.
Is(o, c) == o # <<>> /\ o[1] = c

Queued(w, c) == \E i \in 1 .. Len(conn_queues[w]) : conn_queues[w][i] = c

\* The listener has a connection between accept and push, loses one at most and only as its
\* last, and shutdown() of its socket leaves none waiting.
ListenerInv ==
  /\ accepted # <<>> <=> listener = "push"
  /\ \A c, d \in Clients : conn[c] = "lost" => listener = "done" /\ (conn[d] = "lost" => c = d)
  /\ listener_fd = "shutdown" => \A c \in Clients : conn[c] # "backlog"

\* A connection is at one place, and an open one is at some place.
PlaceInv ==
  /\ \A c \in Clients : conn[c] \in {"none", "backlog", "reset", "lost"} =>
       ~Is(accepted, c) /\ \A w \in Workers : ~Is(client[w], c) /\ ~Queued(w, c)
  /\ \A c \in Clients : Is(accepted, c) => \A w \in Workers : ~Is(client[w], c) /\ ~Queued(w, c)
  /\ \A c \in Clients, v, w \in Workers : Is(client[w], c) =>
       ~Queued(v, c) /\ (Is(client[v], c) => v = w)
  /\ \A v, w \in Workers : \A i \in 1 .. Len(conn_queues[v]), j \in 1 .. Len(conn_queues[w]) :
       conn_queues[v][i] = conn_queues[w][j] => v = w /\ i = j
  /\ ~crashed => \A c \in Clients : conn[c] = "open" =>
       Is(accepted, c) \/ \E w \in Workers : Is(client[w], c) \/ Queued(w, c)

\* The queues that stop() has been through have no open connection.
ShutInv ==
  \A w \in Workers : w < next_queue =>
    \A i \in 1 .. Len(conn_queues[w]) : conn[conn_queues[w][i]] # "open"

\* A request of c is being processed or its response is being sent.
Serving(c) == \E w \in Workers : Is(client[w], c) /\ wpc[w] \in {"process", "send"}

\* Where the request of a client is.
Pending(c) == Len(inbox[c]) + outbox[c] + (IF Serving(c) THEN 1 ELSE 0)

FlowInv ==
  \A c \in Clients :
    /\ cpc[c] = "start" <=> conn[c] = "none"
    /\ cpc[c] \in {"start", "ready"} => Pending(c) = 0
    /\ cpc[c] = "waiting" => Pending(c) <= 1 /\ (conn[c] \in {"backlog", "open", "lost"} => Pending(c) = 1)

IInv == TypeOK /\ MainInv /\ WorkerInv /\ ListenerInv /\ PlaceInv /\ ShutInv /\ FlowInv

-----------------------------------------------------------------------------
(* Optional clients and queues *)

\* An optional client is empty or a sequence of one client.
LEMMA OptFacts ==
  /\ <<>> \in OptClient
  /\ \A c \in Clients : <<c>> \in OptClient /\ <<c>> # <<>> /\ <<c>>[1] = c
  /\ \A o \in OptClient : o # <<>> => o[1] \in Clients /\ o = <<o[1]>>
<1>1. \A c \in Clients : <<c>> \in OptClient /\ <<c>> # <<>> /\ <<c>>[1] = c
  BY DEF OptClient
<1>2. ASSUME NEW o \in OptClient, o # <<>> PROVE o[1] \in Clients /\ o = <<o[1]>>
  BY <1>2 DEF OptClient
<1> QED
  BY <1>1, <1>2 DEF OptClient

\* push puts a connection at the end of a queue.
LEMMA PushFacts ==
  ASSUME NEW q \in Seq(Clients), NEW c \in Clients
  PROVE  /\ q \o <<c>> \in Seq(Clients) /\ Len(q \o <<c>>) = Len(q) + 1
         /\ \A i \in 1 .. Len(q) : (q \o <<c>>)[i] = q[i]
         /\ (q \o <<c>>)[Len(q) + 1] = c
  OBVIOUS

\* pop takes the first connection of a queue.
LEMMA PopFacts ==
  ASSUME NEW q \in Seq(Clients), q # <<>>
  PROVE  /\ Tail(q) \in Seq(Clients) /\ Len(q) \in Nat /\ Len(q) >= 1 /\ Len(Tail(q)) = Len(q) - 1
         /\ \A i \in 1 .. Len(q) - 1 : Tail(q)[i] = q[i + 1]
         /\ Head(q) = q[1] /\ q[1] \in Clients
  BY HeadTailProperties, EmptySeq, LenProperties

\* The store takes its requests step by step and gives them back idle.
LEMMA StoreStepFacts ==
  ASSUME TypeOK, NEW w \in Workers, Store!Step(w), pc[w] # "ret"
  PROVE  /\ pc' \in [Workers -> {"idle", "lock", "body", "loop", "ret"}]
         /\ \A v \in Workers : (pc'[v] = "idle") <=> (pc[v] = "idle")
<1> DEFINE step(x) == pc' = [pc EXCEPT ![w] = x]
<1>1. pc[w] # "idle" /\ (step("loop") \/ step("body") \/ step("ret") \/ pc' = pc)
  BY DEF Store!Step, Store!Lock, Store!Get, Store!Put, Store!AppendOp, Store!Delete, Store!AllKeys,
         Store!MultiGet, Store!MultiPut, Store!Return, Store!Succeed, Store!ReturnFalse, Store!Finish
<1> QED
  BY <1>1, ZenonT(60) DEF TypeOK

\* The indices of workers.
LEMMA WorkerFacts ==
  /\ NWorkers \in Nat /\ NWorkers > 0
  /\ Workers \subseteq Nat /\ 0 \in Workers
  /\ \A n \in Nat : n \in Workers <=> n < NWorkers
  BY NWorkersAssumption DEF Workers

\* How many of them there are.
LEMMA CountFacts ==
  ASSUME TypeOK
  PROVE  /\ n_workers \in Nat /\ n_workers > 0 /\ n_workers <= NWorkers
         /\ \A w \in Workers : w \in Nat /\ (w < n_workers \/ w >= n_workers)
         /\ \A n \in Nat : n < n_workers => n \in Workers
<1>1. n_workers \in 1 .. NWorkers /\ NWorkers \in Nat
  BY WorkerFacts DEF TypeOK
<1>2. Workers \subseteq Nat /\ \A n \in Nat : n \in Workers <=> n < NWorkers
  BY WorkerFacts
<1> QED
  BY <1>1, <1>2

\* The listener goes round the workers.
LEMMA NextWorkerFacts ==
  \A n \in 1 .. NWorkers, w \in Workers : (w + 1) % n \in Workers /\ (w + 1) % n < n
  BY NWorkersAssumption DEF Workers

\* What the types of the queues say of their elements.
LEMMA QueueFacts ==
  ASSUME TypeOK, NEW w \in Workers
  PROVE  /\ conn_queues[w] \in Seq(Clients) /\ Len(conn_queues[w]) \in Nat
         /\ DOMAIN conn_queues[w] = 1 .. Len(conn_queues[w])
         /\ \A i \in 1 .. Len(conn_queues[w]) : conn_queues[w][i] \in Clients
<1>1. conn_queues[w] \in Seq(Clients)
  BY DEF TypeOK
<1> QED
  BY <1>1, LenProperties, ElementOfSeq

-----------------------------------------------------------------------------
(* Frames: what a step must leave alone to keep a part of the invariant *)

\* Connections stay where they are, and none opens.
LEMMA PlaceFrame ==
  ASSUME PlaceInv, UNCHANGED <<conn_queues, client, accepted>>, ~crashed,
         \A c \in Clients : /\ conn'[c] \in {"none", "backlog", "reset", "lost"}
                               => conn[c] \in {"none", "backlog", "reset", "lost"}
                            /\ conn'[c] = "open" => conn[c] = "open"
  PROVE  PlaceInv'
<1>1. /\ \A c \in Clients : Is(accepted, c)' <=> Is(accepted, c)
      /\ \A c \in Clients, w \in Workers : (Is(client[w], c)' <=> Is(client[w], c))
                                            /\ (Queued(w, c)' <=> Queued(w, c))
  BY DEF Is, Queued
<1>2. \A v, w \in Workers : \A i \in 1 .. Len(conn_queues'[v]), j \in 1 .. Len(conn_queues'[w]) :
        conn_queues'[v][i] = conn_queues'[w][j] => v = w /\ i = j
  BY DEF PlaceInv
<1> QED
  BY <1>1, <1>2 DEF PlaceInv

\* No connection of a queue that is done opens.
LEMMA ShutFrame ==
  ASSUME TypeOK, ShutInv, UNCHANGED <<conn_queues, next_queue>>,
         \A c \in Clients : conn'[c] = "open" => conn[c] = "open"
  PROVE  ShutInv'
  BY QueueFacts DEF ShutInv

\* No request moves.
LEMMA FlowFrame ==
  ASSUME FlowInv, UNCHANGED <<cpc, inbox, outbox>>,
         \A c \in Clients : /\ Serving(c)' <=> Serving(c)
                            /\ conn'[c] = "none" <=> conn[c] = "none"
                            /\ conn'[c] \in {"backlog", "open", "lost"} => conn[c] \in {"backlog", "open", "lost"}
  PROVE  FlowInv'
<1>1. \A c \in Clients : Pending(c)' = Pending(c)
  BY DEF Pending
<1> QED
  BY <1>1 DEF FlowInv

\* Nobody begins or ends to serve a client.
LEMMA ServingFrame ==
  ASSUME UNCHANGED client,
         \A w \in Workers : wpc'[w] \in {"process", "send"} <=> wpc[w] \in {"process", "send"}
  PROVE  \A c \in Clients : Serving(c)' <=> Serving(c)
  BY DEF Serving, Is

-----------------------------------------------------------------------------
(* start() and stop() *)

\* Everything before start().
LEMMA InitIInv == ASSUME Init PROVE IInv
<1>1. TypeOK
  <2>1. <<>> \in Seq(Clients) /\ <<>> \in Seq(Requests) /\ <<>> \in OptClient /\ 0 \in Workers
    BY OptFacts, WorkerFacts
  <2> QED
    BY <2>1 DEF Init, TypeOK, Store!Init
<1>2. MainInv /\ WorkerInv /\ ListenerInv /\ ShutInv
  BY WorkerFacts DEF Init, MainInv, WorkerInv, ListenerInv, ShutInv, Store!Init
<1>3. PlaceInv
  BY DEF Init, PlaceInv, Is, Queued
<1>4. \A c \in Clients : Pending(c) = 0
  BY DEF Init, Pending, Serving, Is
<1>5. FlowInv
  BY <1>4 DEF Init, FlowInv
<1> QED
  BY <1>1, <1>2, <1>3, <1>5 DEF IInv

\* What start() and stop() do apart from the two steps that shut connections down.
LEMMA MainStep ==
  ASSUME IInv, ~crashed,
         \/ StartListener \/ StartFails \/ DestroyFailed \/ ResizeQueues \/ StartWorkers \/ Stop
         \/ JoinListener \/ JoinWorkers
  PROVE  IInv'
<1> USE DEF mainVars, acceptVars, workVars, netVars, clientVars, storeVars
<1>1. /\ UNCHANGED <<n_workers, conn_queues, client, conn, inbox, outbox, cpc, sent, pc, accepted, next_worker,
                     next_queue>>
      /\ \/ UNCHANGED wpc /\ main # "sized"
         \/ main = "sized" /\ main' = "running" /\ wpc' = [w \in Workers |-> IF w < n_workers THEN "loop" ELSE "none"]
                           /\ UNCHANGED <<listener, listener_fd, sized, crashed>>
         \/ main = "sized" /\ main' = "sized" /\ UNCHANGED <<wpc, listener, listener_fd, sized, crashed>>
      /\ \/ UNCHANGED <<listener, listener_fd>>
         \/ main = "init" /\ listener' = "loop" /\ listener_fd' = "open"
      /\ is_stopped' = is_stopped \/ is_stopped' = TRUE
      /\ sized' = sized \/ sized' = TRUE
      /\ crashed' = crashed \/ crashed' = TRUE
  BY DEF StartListener, StartFails, DestroyFailed, ResizeQueues, StartWorkers, Stop, JoinListener,
         JoinWorkers
<1>2. TypeOK'
  <2>1. /\ main' \in {"init", "starting", "sized", "running", "failed", "stopping", "join listener",
                      "shut queues", "join workers", "stopped"}
        /\ listener_fd' \in {"none", "open", "shutdown"}
        /\ listener' \in {"none", "loop", "accept", "push", "done"}
    BY <1>1 DEF StartListener, StartFails, DestroyFailed, ResizeQueues, StartWorkers, Stop,
       JoinListener,
         JoinWorkers, IInv, TypeOK
  <2>2. wpc' \in [Workers -> {"none", "loop", "pop", "recv", "process", "send", "done"}]
    BY <1>1 DEF IInv, TypeOK
  <2>3. is_stopped' \in BOOLEAN /\ sized' \in BOOLEAN /\ crashed' \in BOOLEAN
    BY <1>1 DEF IInv, TypeOK
  <2> QED
    BY <1>1, <2>1, <2>2, <2>3 DEF IInv, TypeOK
<1>3. MainInv'
  <2>1. CASE StartListener
    BY <2>1 DEF IInv, TypeOK, MainInv, StartListener
  <2>2. CASE StartFails
    BY <2>2 DEF IInv, TypeOK, MainInv, StartFails
  <2>3. CASE DestroyFailed
    BY <2>3 DEF IInv, TypeOK, MainInv, DestroyFailed
  <2>4. CASE ResizeQueues
    BY <2>4 DEF IInv, TypeOK, MainInv, ResizeQueues
  <2>5. CASE StartWorkers
    BY <2>5 DEF IInv, TypeOK, MainInv, StartWorkers
  <2>6. CASE Stop
    BY <2>6 DEF IInv, TypeOK, MainInv, Stop
  <2>7. CASE JoinListener
    <3>1. /\ main = "join listener" /\ listener = "done" /\ main' = "shut queues"
          /\ UNCHANGED <<n_workers, is_stopped, listener_fd, next_queue, sized, listener, crashed, wpc>>
      BY <2>7 DEF JoinListener
    <3>2. next_queue = 0 /\ 0 < n_workers
      BY <3>1, CountFacts DEF IInv, MainInv
    <3> QED
      BY <3>1, <3>2 DEF IInv, MainInv
  <2>8. CASE JoinWorkers
    BY <2>8 DEF IInv, MainInv, JoinWorkers
  <2> QED
    BY <2>1, <2>2, <2>3, <2>4, <2>5, <2>6, <2>7, <2>8
<1>4. WorkerInv'
  BY <1>1 DEF IInv, MainInv, WorkerInv
<1>5. ListenerInv'
  <2>1. main = "init" => accepted = <<>>
    BY DEF IInv, MainInv, ListenerInv
  <2> QED
    BY <1>1, <2>1 DEF IInv, MainInv, ListenerInv
<1>6. PlaceInv'
  BY <1>1, PlaceFrame DEF IInv
<1>7. ShutInv'
  BY <1>1, ShutFrame DEF IInv
<1>8. FlowInv'
  <2>1. \A w \in Workers : wpc'[w] \in {"process", "send"} <=> wpc[w] \in {"process", "send"}
    BY <1>1 DEF IInv, MainInv
  <2> QED
    BY <1>1, <2>1, ServingFrame, FlowFrame DEF IInv
<1> QED
  BY <1>2, <1>3, <1>4, <1>5, <1>6, <1>7, <1>8 DEF IInv

\* shutdown() of the listener's socket: what nobody has accepted is reset.
LEMMA ShutdownListenerStep == ASSUME IInv, ~crashed, ShutdownListener PROVE IInv'
<1>1. /\ main = "stopping" /\ main' = "join listener" /\ listener_fd' = "shutdown"
      /\ conn' = [c \in Clients |-> IF conn[c] = "backlog" THEN "reset" ELSE conn[c]]
      /\ UNCHANGED <<n_workers, is_stopped, next_queue, sized, listener, accepted, next_worker, conn_queues, wpc,
                     client, inbox, outbox, cpc, sent, crashed, pc>>
  BY DEF ShutdownListener, acceptVars, workVars, clientVars, storeVars
<1>2. \A c \in Clients : conn'[c] = IF conn[c] = "backlog" THEN "reset" ELSE conn[c]
  BY <1>1
<1>3. TypeOK'
  BY <1>1 DEF IInv, TypeOK
<1>4. MainInv' /\ WorkerInv'
  BY <1>1 DEF IInv, MainInv, WorkerInv
<1>5. ListenerInv'
  BY <1>1, <1>2 DEF IInv, ListenerInv
<1>6. PlaceInv'
  BY <1>1, <1>2, PlaceFrame DEF IInv
<1>7. ShutInv'
  BY <1>1, <1>2, ShutFrame DEF IInv
<1>8. FlowInv'
  BY <1>1, <1>2, ServingFrame, FlowFrame DEF IInv
<1> QED
  BY <1>3, <1>4, <1>5, <1>6, <1>7, <1>8 DEF IInv

\* The loop of stop() over one queue.
LEMMA ShutdownQueueStep == ASSUME IInv, ~crashed, ShutdownQueue PROVE IInv'
<1> DEFINE q == conn_queues[next_queue]
           queued == {q[i] : i \in DOMAIN q}
<1>1. /\ main = "shut queues" /\ next_queue' = next_queue + 1
      /\ main' = IF next_queue + 1 = n_workers THEN "join workers" ELSE "shut queues"
      /\ UNCHANGED <<n_workers, is_stopped, listener_fd, sized, listener, accepted, next_worker, conn_queues, wpc,
                     client, inbox, outbox, cpc, sent, crashed, pc>>
  BY DEF ShutdownQueue, acceptVars, workVars, clientVars, storeVars
<1>12. conn' = [c \in Clients |-> IF c \in queued THEN "shut" ELSE conn[c]]
  BY DEF ShutdownQueue
<1>2. next_queue \in Nat /\ next_queue \in Workers
  <2>1. next_queue \in Nat /\ next_queue < n_workers
    BY <1>1 DEF IInv, TypeOK, MainInv
  <2> QED
    BY <2>1, CountFacts DEF IInv
<1>3. \A c \in Clients : c \in queued <=> Queued(next_queue, c)
  BY <1>2, QueueFacts DEF Queued, IInv
<1> HIDE DEF queued, q
<1>4. \A c \in Clients : conn'[c] = IF Queued(next_queue, c) THEN "shut" ELSE conn[c]
  BY <1>12, <1>3
<1>5. TypeOK'
  <2>1. conn' \in [Clients -> {"none", "backlog", "reset", "lost", "open", "shut", "closed"}]
    BY <1>12 DEF IInv, TypeOK
  <2>2. next_queue' \in Nat /\ main' \in {"join workers", "shut queues"}
    <3>1. next_queue + 1 \in Nat
      BY <1>2
    <3> QED
      BY <1>1, <3>1
  <2> QED
    BY <1>1, <2>1, <2>2 DEF IInv, TypeOK
<1>6. MainInv'
  <2>1. next_queue + 1 \in Nat /\ next_queue + 1 <= n_workers
    <3>1. next_queue < n_workers /\ n_workers \in Nat
      BY <1>1, CountFacts DEF IInv, MainInv
    <3> QED
      BY <1>2, <3>1
  <2>2. next_queue' \in Nat /\ next_queue' = next_queue + 1
    BY <1>1, <2>1
  <2>3. CASE next_queue + 1 = n_workers
    BY <1>1, <2>2, <2>3 DEF IInv, MainInv
  <2>4. CASE next_queue + 1 # n_workers
    <3>1. next_queue' < n_workers
      <4>1. n_workers \in Nat
        BY CountFacts DEF IInv
      <4> QED
        BY <2>1, <2>2, <2>4, <4>1
    <3> QED
      BY <1>1, <2>4, <3>1 DEF IInv, MainInv
  <2> QED
    BY <2>3, <2>4
<1>7. WorkerInv' /\ ListenerInv'
  BY <1>1, <1>4 DEF IInv, WorkerInv, ListenerInv
<1>8. \A c \in Clients : conn[c] \in {"none", "backlog", "reset", "lost"} => conn'[c] = conn[c]
  BY <1>2, <1>4 DEF IInv, PlaceInv
<1>9. PlaceInv'
  BY <1>1, <1>4, PlaceFrame DEF IInv
<1>10. ShutInv'
  <2> SUFFICES ASSUME NEW w \in Workers, w < next_queue', NEW i \in 1 .. Len(conn_queues'[w])
               PROVE  conn'[conn_queues'[w][i]] # "open"
    BY DEF ShutInv
  <2> DEFINE c == conn_queues[w][i]
  <2>1. c \in Clients /\ i \in 1 .. Len(conn_queues[w]) /\ conn_queues' = conn_queues
    BY <1>1, QueueFacts DEF IInv
  <2>2. CASE w = next_queue
    BY <1>4, <2>1, <2>2 DEF Queued
  <2>3. CASE w < next_queue
    <3>1. conn[c] # "open"
      BY <2>1, <2>3 DEF IInv, ShutInv
    <3> QED
      BY <1>4, <2>1, <3>1
  <2>4. w = next_queue \/ w < next_queue
    <3>1. next_queue' = next_queue + 1
      BY <1>1
    <3>2. w \in Nat
      BY WorkerFacts
    <3> QED
      BY <1>2, <3>1, <3>2
  <2> QED
    BY <2>2, <2>3, <2>4
<1>11. FlowInv'
  <2>1. \A c \in Clients : conn'[c] = "none" <=> conn[c] = "none"
    BY <1>4, <1>8
  <2> QED
    BY <1>1, <1>4, <2>1, ServingFrame, FlowFrame DEF IInv
<1> QED
  BY <1>5, <1>6, <1>7, <1>9, <1>10, <1>11 DEF IInv

-----------------------------------------------------------------------------
(* The listener *)

\* The listener looks at is_stopped, or accept() fails: nothing is accepted.
LEMMA ListenerMoves == ASSUME IInv, ~crashed, AcceptLoop \/ AcceptFails PROVE IInv'
<1>1. /\ listener \in {"loop", "accept"} /\ listener' \in {"accept", "done"}
      /\ UNCHANGED <<n_workers, main, is_stopped, listener_fd, next_queue, sized, accepted, next_worker, conn_queues,
                     wpc, client, conn, inbox, outbox, cpc, sent, crashed, pc>>
  BY DEF AcceptLoop, AcceptFails, mainVars, workVars, netVars, clientVars, storeVars
<1>2. TypeOK'
  BY <1>1 DEF IInv, TypeOK
<1>3. MainInv' /\ WorkerInv' /\ ListenerInv'
  BY <1>1 DEF IInv, MainInv, WorkerInv, ListenerInv
<1>4. PlaceInv' /\ ShutInv'
  BY <1>1, PlaceFrame, ShutFrame DEF IInv
<1>5. FlowInv'
  BY <1>1, ServingFrame, FlowFrame DEF IInv
<1> QED
  BY <1>2, <1>3, <1>4, <1>5 DEF IInv

\* accept() takes a connection nobody has.
LEMMA AcceptStep == ASSUME IInv, ~crashed, Accept PROVE IInv'
<1>1. PICK c \in Clients : conn[c] = "backlog" /\ conn' = [conn EXCEPT ![c] = "open"] /\ accepted' = <<c>>
  BY DEF Accept
<1>2. /\ listener = "accept" /\ listener_fd = "open" /\ listener' = "push"
      /\ UNCHANGED <<n_workers, main, is_stopped, listener_fd, next_queue, sized, next_worker, conn_queues,
                     wpc, client, inbox, outbox, cpc, sent, crashed, pc>>
  BY DEF Accept, mainVars, workVars, clientVars, storeVars
<1>3. \A d \in Clients : conn'[d] = IF d = c THEN "open" ELSE conn[d]
  BY <1>1 DEF IInv, TypeOK
<1>4. accepted' \in OptClient /\ accepted' # <<>> /\ accepted'[1] = c /\ accepted = <<>>
  BY <1>1, <1>2, OptFacts DEF IInv, ListenerInv
<1>5. TypeOK'
  BY <1>1, <1>2, <1>4 DEF IInv, TypeOK
<1>6. MainInv' /\ WorkerInv' /\ ListenerInv'
  <2>1. MainInv' /\ WorkerInv'
    BY <1>2 DEF IInv, MainInv, WorkerInv
  <2>2. \A d \in Clients : conn[d] # "lost" /\ conn'[d] # "lost"
    BY <1>2, <1>3 DEF IInv, ListenerInv
  <2>3. ListenerInv'
    BY <1>2, <1>4, <2>2 DEF ListenerInv
  <2> QED
    BY <2>1, <2>3
<1>7. \A d \in Clients : (Is(accepted, d)' <=> d = c) /\ ~Is(accepted, d)
  BY <1>4 DEF Is
<1>8. \A d \in Clients, w \in Workers : (Is(client[w], d)' <=> Is(client[w], d))
                                         /\ (Queued(w, d)' <=> Queued(w, d))
  BY <1>2 DEF Is, Queued
<1>9. \A w \in Workers : ~Is(client[w], c) /\ ~Queued(w, c)
  BY <1>1 DEF IInv, PlaceInv
<1>10. PlaceInv'
  <2>1. \A v, w \in Workers : \A i \in 1 .. Len(conn_queues'[v]), j \in 1 .. Len(conn_queues'[w]) :
          conn_queues'[v][i] = conn_queues'[w][j] => v = w /\ i = j
    BY <1>2 DEF IInv, PlaceInv
  <2> QED
    BY <1>2, <1>3, <1>7, <1>8, <1>9, <2>1 DEF IInv, PlaceInv
<1>11. ShutInv'
  BY <1>2, <1>3, <1>9, QueueFacts DEF IInv, ShutInv, Queued
<1>12. FlowInv'
  <2>1. \A d \in Clients : /\ conn'[d] = "none" <=> conn[d] = "none"
                           /\ conn'[d] \in {"backlog", "open", "lost"} => conn[d] \in {"backlog", "open", "lost"}
    BY <1>1, <1>3
  <2> QED
    BY <1>2, <2>1, ServingFrame, FlowFrame DEF IInv
<1> QED
  BY <1>5, <1>6, <1>10, <1>11, <1>12 DEF IInv

\* accept() takes a connection and it is lost: it is nowhere, as before.
LEMMA AcceptLosesStep == ASSUME IInv, ~crashed, AcceptLoses PROVE IInv'
<1>1. PICK c \in Clients : conn[c] = "backlog" /\ conn' = [conn EXCEPT ![c] = "lost"]
  BY DEF AcceptLoses
<1>2. /\ listener = "accept" /\ listener' = "done"
      /\ UNCHANGED <<n_workers, main, is_stopped, listener_fd, next_queue, sized, accepted, next_worker,
                     conn_queues, wpc, client, inbox, outbox, cpc, sent, crashed, pc>>
  BY DEF AcceptLoses, mainVars, workVars, clientVars, storeVars
<1>3. \A d \in Clients : conn'[d] = IF d = c THEN "lost" ELSE conn[d]
  BY <1>1 DEF IInv, TypeOK
<1>4. TypeOK'
  BY <1>1, <1>2 DEF IInv, TypeOK
<1>5. MainInv' /\ WorkerInv'
  BY <1>2 DEF IInv, MainInv, WorkerInv
<1>6. ListenerInv'
  BY <1>2, <1>3 DEF IInv, ListenerInv
<1>7. PlaceInv' /\ ShutInv'
  <2>1. \A d \in Clients : /\ conn'[d] \in {"none", "backlog", "reset", "lost"}
                              => conn[d] \in {"none", "backlog", "reset", "lost"}
                           /\ conn'[d] = "open" => conn[d] = "open"
    BY <1>1, <1>3
  <2> QED
    BY <1>2, <2>1, PlaceFrame, ShutFrame DEF IInv
<1>8. FlowInv'
  <2>1. \A d \in Clients : /\ conn'[d] = "none" <=> conn[d] = "none"
                           /\ conn'[d] \in {"backlog", "open", "lost"}
                              => conn[d] \in {"backlog", "open", "lost"}
    BY <1>1, <1>3
  <2> QED
    BY <1>2, <2>1, ServingFrame, FlowFrame DEF IInv
<1> QED
  BY <1>4, <1>5, <1>6, <1>7, <1>8 DEF IInv

\* The connection goes to the end of one queue; the process ends when there is none yet.
LEMMA PushStep == ASSUME IInv, ~crashed, Push PROVE IInv'
<1>1. /\ listener = "push" /\ listener' = "loop" /\ accepted' = <<>>
      /\ UNCHANGED <<n_workers, main, is_stopped, listener_fd, next_queue, sized, wpc, client, conn, inbox, outbox,
                     cpc, sent, pc>>
  BY DEF Push, mainVars, workVars, netVars, clientVars, storeVars
<1>2. next_worker' = (next_worker + 1) % n_workers /\ next_worker \in Workers /\ next_worker' \in Workers
  BY NextWorkerFacts DEF Push, IInv, TypeOK
<1>3. accepted \in OptClient /\ accepted # <<>> /\ accepted[1] \in Clients /\ accepted = <<accepted[1]>>
  BY <1>1, OptFacts DEF IInv, TypeOK, ListenerInv
<1> DEFINE c == accepted[1]
           n == next_worker
           q == conn_queues[n]
<1>4. q \in Seq(Clients) /\ Len(q) \in Nat
  BY <1>2, QueueFacts DEF IInv
<1>5. WorkerInv' /\ ListenerInv'
  BY <1>1 DEF IInv, WorkerInv, ListenerInv
<1>6. FlowInv'
  BY <1>1, ServingFrame, FlowFrame DEF IInv
<1>7. next_queue = 0 /\ next_queue' = 0
  BY <1>1 DEF IInv, MainInv
<1>8. ShutInv'
  BY <1>7, WorkerFacts DEF ShutInv
<1>9. \A d \in Clients, w \in Workers : Is(client[w], d)' <=> Is(client[w], d)
  BY <1>1 DEF Is
<1>10. \A d \in Clients : ~Is(accepted, d)'
  BY <1>1 DEF Is
<1>11. Is(accepted, c) /\ (\A d \in Clients : Is(accepted, d) => d = c)
  BY <1>3 DEF Is
<1>12. /\ conn[c] \notin {"none", "backlog", "reset", "lost"}
       /\ \A w \in Workers : ~Is(client[w], c) /\ ~Queued(w, c)
  BY <1>3, <1>11 DEF IInv, PlaceInv
<1>13. CASE sized
  <2>1. conn_queues' = [conn_queues EXCEPT ![n] = q \o <<c>>] /\ crashed' = FALSE
    BY <1>3, <1>13 DEF Push, IInv, TypeOK
  <2> HIDE DEF c, n, q
  <2>2. /\ q \o <<c>> \in Seq(Clients) /\ Len(q \o <<c>>) = Len(q) + 1
        /\ \A i \in 1 .. Len(q) : (q \o <<c>>)[i] = q[i]
        /\ (q \o <<c>>)[Len(q) + 1] = c
    BY <1>3, <1>4, PushFacts DEF c
  <2> DEFINE r == conn_queues'[n]
  <2>3. /\ r \in Seq(Clients) /\ Len(r) = Len(q) + 1 /\ r[Len(q) + 1] = c
        /\ \A i \in 1 .. Len(q) : r[i] = q[i]
        /\ \A w \in Workers : w # n => conn_queues'[w] = conn_queues[w]
    BY <1>2, <2>1, <2>2 DEF IInv, TypeOK, n
  <2> HIDE DEF r
  <2>4. TypeOK'
    <3>1. conn_queues' \in [Workers -> Seq(Clients)]
      BY <1>2, <2>1, <2>2 DEF IInv, TypeOK
    <3> QED
      BY <1>1, <1>2, <2>1, <3>1, OptFacts DEF IInv, TypeOK
  <2>5. MainInv'
    BY <1>1, <1>13, <2>1 DEF IInv, MainInv
  <2>6. \A i \in 1 .. Len(r) : i \in 1 .. Len(q) \/ i = Len(q) + 1
    BY <1>4, <2>3
  <2>7. \A d \in Clients, w \in Workers : Queued(w, d)' <=> Queued(w, d) \/ (w = n /\ d = c)
    <3> SUFFICES ASSUME NEW d \in Clients, NEW w \in Workers
                 PROVE  Queued(w, d)' <=> Queued(w, d) \/ (w = n /\ d = c)
      OBVIOUS
    <3>1. CASE w # n
      BY <2>3, <3>1 DEF Queued
    <3>2. CASE w = n
      <4>1. Queued(w, d)' <=> \E i \in 1 .. Len(r) : r[i] = d
        BY <3>2 DEF Queued, r
      <4>2. Queued(w, d) <=> \E i \in 1 .. Len(q) : q[i] = d
        BY <3>2 DEF Queued, q
      <4>3. Len(q) + 1 \in 1 .. Len(r) /\ \A i \in 1 .. Len(q) : i \in 1 .. Len(r)
        BY <1>4, <2>3
      <4> QED
        BY <2>3, <2>6, <3>2, <4>1, <4>2, <4>3
    <3> QED
      BY <3>1, <3>2
  <2>8. \A v, w \in Workers : \A i \in 1 .. Len(conn_queues'[v]), j \in 1 .. Len(conn_queues'[w]) :
          conn_queues'[v][i] = conn_queues'[w][j] => v = w /\ i = j
    <3>1. \A w \in Workers : \A i \in 1 .. Len(conn_queues'[w]) :
            \/ i \in 1 .. Len(conn_queues[w]) /\ conn_queues'[w][i] = conn_queues[w][i]
            \/ w = n /\ i = Len(q) + 1 /\ conn_queues'[w][i] = c
      BY <2>3, <2>6 DEF q, r
    <3>2. \A w \in Workers : \A i \in 1 .. Len(conn_queues[w]) : conn_queues[w][i] # c
      BY <1>12 DEF Queued, c
    <3>3. \A v, w \in Workers : \A i \in 1 .. Len(conn_queues[v]), j \in 1 .. Len(conn_queues[w]) :
            conn_queues[v][i] = conn_queues[w][j] => v = w /\ i = j
      BY DEF IInv, PlaceInv
    <3> TAKE v, w \in Workers
    <3> TAKE i \in 1 .. Len(conn_queues'[v]), j \in 1 .. Len(conn_queues'[w])
    <3>4. CASE i \in 1 .. Len(conn_queues[v]) /\ conn_queues'[v][i] = conn_queues[v][i]
      <4>1. CASE j \in 1 .. Len(conn_queues[w]) /\ conn_queues'[w][j] = conn_queues[w][j]
        <5>1. conn_queues[v][i] = conn_queues[w][j] => v = w /\ i = j
          BY <3>3, <3>4, <4>1, Zenon
        <5> QED
          BY <3>4, <4>1, <5>1
      <4>2. CASE w = n /\ j = Len(q) + 1 /\ conn_queues'[w][j] = c
        BY <3>2, <3>4, <4>2
      <4> QED
        BY <3>1, <4>1, <4>2
    <3>5. CASE v = n /\ i = Len(q) + 1 /\ conn_queues'[v][i] = c
      <4>1. CASE j \in 1 .. Len(conn_queues[w]) /\ conn_queues'[w][j] = conn_queues[w][j]
        BY <3>2, <3>5, <4>1
      <4>2. CASE w = n /\ j = Len(q) + 1 /\ conn_queues'[w][j] = c
        BY <3>5, <4>2
      <4> QED
        BY <3>1, <4>1, <4>2
    <3> QED
      BY <3>1, <3>4, <3>5
  <2>9. PlaceInv'
    <3>1. c \in Clients /\ n \in Workers /\ Is(accepted, c) /\ (\A d \in Clients : Is(accepted, d) => d = c)
      BY <1>2, <1>3, <1>11 DEF c, n
    <3>2. /\ conn[c] \notin {"none", "backlog", "reset", "lost"}
          /\ \A w \in Workers : ~Is(client[w], c) /\ ~Queued(w, c)
      BY <1>12 DEF c
    <3> QED
      BY <1>1, <1>9, <1>10, <2>1, <2>7, <2>8, <3>1, <3>2 DEF IInv, PlaceInv
  <2> QED
    BY <1>5, <1>6, <1>8, <2>4, <2>5, <2>9 DEF IInv
<1>14. CASE ~sized
  <2>1. conn_queues' = conn_queues /\ crashed' = TRUE
    BY <1>14 DEF Push
  <2>2. TypeOK'
    BY <1>1, <1>2, <2>1, OptFacts DEF IInv, TypeOK
  <2>3. MainInv'
    BY <1>1, <1>14, <2>1 DEF IInv, MainInv
  <2>4. \A d \in Clients, w \in Workers : Queued(w, d)' <=> Queued(w, d)
    BY <2>1 DEF Queued
  <2>5. PlaceInv'
    BY <1>1, <1>9, <1>10, <2>1, <2>4 DEF IInv, PlaceInv
  <2> QED
    BY <1>5, <1>6, <1>8, <2>2, <2>3, <2>5 DEF IInv
<1> QED
  BY <1>13, <1>14
-----------------------------------------------------------------------------
(* The workers *)

\* A worker that moves is neither unborn nor done, so start() has returned and stop() has not.
LEMMA WorkerMoves ==
  ASSUME IInv, ~crashed, NEW w \in Workers, wpc[w] \notin {"none", "done"},
         NEW x \in {"loop", "pop", "recv", "process", "send", "done"}, wpc' = [wpc EXCEPT ![w] = x],
         UNCHANGED <<n_workers, main, is_stopped, listener_fd, next_queue, sized, listener, accepted, next_worker,
                     crashed, sent, cpc>>
  PROVE  /\ MainInv'
         /\ \A v \in Workers : wpc'[v] = IF v = w THEN x ELSE wpc[v]
         /\ wpc' \in [Workers -> {"none", "loop", "pop", "recv", "process", "send", "done"}]
<1>1. \A v \in Workers : wpc'[v] = IF v = w THEN x ELSE wpc[v]
  BY DEF IInv, TypeOK
<1>2. wpc' \in [Workers -> {"none", "loop", "pop", "recv", "process", "send", "done"}]
  BY DEF IInv, TypeOK
<1>3. main \notin {"init", "starting", "sized", "failed", "stopped"}
  BY DEF IInv, MainInv
<1>4. \A v \in Workers : v < n_workers' \/ wpc'[v] = "none"
  BY <1>1 DEF IInv, MainInv
<1>5. MainInv'
  BY <1>3, <1>4 DEF IInv, MainInv
<1> QED
  BY <1>1, <1>2, <1>5

\* A worker looks at is_stopped, or finds its queue empty.
LEMMA WorkLoopStep ==
  ASSUME IInv, ~crashed, NEW w \in Workers, WorkLoop(w) \/ (Pop(w) /\ conn_queues[w] = <<>>)
  PROVE  IInv'
<1>1. PICK x \in {"loop", "pop", "done"} :
        /\ wpc[w] \in {"loop", "pop"} /\ wpc' = [wpc EXCEPT ![w] = x]
        /\ UNCHANGED <<n_workers, main, is_stopped, listener_fd, next_queue, sized, listener, accepted, next_worker,
                       conn_queues, client, conn, inbox, outbox, cpc, sent, crashed, pc>>
  BY DEF WorkLoop, Pop, MoveWorker, mainVars, acceptVars, netVars, clientVars, storeVars
<1>2. /\ MainInv'
      /\ \A v \in Workers : wpc'[v] = IF v = w THEN x ELSE wpc[v]
      /\ wpc' \in [Workers -> {"none", "loop", "pop", "recv", "process", "send", "done"}]
  BY <1>1, WorkerMoves
<1>3. TypeOK'
  BY <1>1, <1>2, ZenonT(40) DEF IInv, TypeOK
<1>4. WorkerInv' /\ ListenerInv'
  BY <1>1, <1>2 DEF IInv, WorkerInv, ListenerInv
<1>5. PlaceInv' /\ ShutInv'
  BY <1>1, PlaceFrame, ShutFrame DEF IInv
<1>6. FlowInv'
  BY <1>1, <1>2, ServingFrame, FlowFrame DEF IInv
<1> QED
  BY <1>2, <1>3, <1>4, <1>5, <1>6 DEF IInv

\* pop: the first connection of the queue is the worker's.
LEMMA PopStep ==
  ASSUME IInv, ~crashed, NEW w \in Workers, Pop(w), conn_queues[w] # <<>>
  PROVE  IInv'
<1> DEFINE q == conn_queues[w]
           c == q[1]
<1>1. q \in Seq(Clients)
  BY QueueFacts DEF IInv
<1>2. /\ Tail(q) \in Seq(Clients) /\ Len(q) \in Nat /\ Len(q) >= 1 /\ Len(Tail(q)) = Len(q) - 1
      /\ \A i \in 1 .. Len(q) - 1 : Tail(q)[i] = q[i + 1]
      /\ Head(q) = q[1] /\ q[1] \in Clients
  BY <1>1, PopFacts
<1>3. /\ wpc[w] = "pop" /\ wpc' = [wpc EXCEPT ![w] = "recv"]
      /\ client' = [client EXCEPT ![w] = <<c>>]
      /\ conn_queues' = [conn_queues EXCEPT ![w] = Tail(q)]
      /\ UNCHANGED <<n_workers, main, is_stopped, listener_fd, next_queue, sized, listener, accepted, next_worker,
                     conn, inbox, outbox, cpc, sent, crashed, pc>>
  BY <1>2 DEF Pop, MoveWorker, mainVars, acceptVars, netVars, clientVars, storeVars
<1>4. /\ MainInv'
      /\ \A v \in Workers : wpc'[v] = IF v = w THEN "recv" ELSE wpc[v]
      /\ wpc' \in [Workers -> {"none", "loop", "pop", "recv", "process", "send", "done"}]
  BY <1>3, WorkerMoves
<1>5. /\ <<c>> \in OptClient /\ <<c>> # <<>> /\ <<c>>[1] = c
      /\ client' \in [Workers -> OptClient]
      /\ conn_queues' \in [Workers -> Seq(Clients)]
  BY <1>2, <1>3, OptFacts DEF IInv, TypeOK
<1>6. TypeOK'
  BY <1>3, <1>4, <1>5, ZenonT(40) DEF IInv, TypeOK
<1>7. /\ client'[w] = <<c>> /\ client[w] = <<>>
      /\ \A v \in Workers : v # w => client'[v] = client[v] /\ conn_queues'[v] = conn_queues[v]
      /\ conn_queues'[w] = Tail(q)
  BY <1>3 DEF IInv, TypeOK, WorkerInv
<1>8. WorkerInv' /\ ListenerInv'
  BY <1>3, <1>4, <1>5, <1>7 DEF IInv, WorkerInv, ListenerInv
<1> DEFINE r == conn_queues'[w]
<1>9. /\ r \in Seq(Clients) /\ Len(r) = Len(q) - 1
      /\ \A i \in 1 .. Len(r) : i + 1 \in 1 .. Len(q) /\ i + 1 # 1 /\ r[i] = q[i + 1]
      /\ 1 \in 1 .. Len(q)
  BY <1>2, <1>7
<1>10. \A j \in 1 .. Len(q) : j = 1 \/ (j - 1 \in 1 .. Len(r) /\ r[j - 1] = q[j])
  <2> SUFFICES ASSUME NEW j \in 1 .. Len(q), j # 1
               PROVE  j - 1 \in 1 .. Len(r) /\ r[j - 1] = q[j]
    OBVIOUS
  <2>1. j - 1 \in 1 .. Len(r) /\ (j - 1) + 1 = j
    BY <1>2, <1>9
  <2> QED
    BY <1>9, <2>1
<1>11. \A v \in Workers : \A i, j \in 1 .. Len(conn_queues[v]) :
         conn_queues[v][i] = conn_queues[v][j] => i = j
  BY DEF IInv, PlaceInv
<1> HIDE DEF r, q, c
<1>12. /\ c \in Clients /\ Queued(w, c)
       /\ \A v \in Workers : v # w => ~Queued(v, c)
  <2>1. c \in Clients
    BY <1>2 DEF c
  <2>2. conn_queues[w][1] = c /\ 1 \in 1 .. Len(conn_queues[w])
    BY <1>9 DEF c, q
  <2>3. ASSUME NEW v \in Workers, v # w, Queued(v, c) PROVE FALSE
    BY <2>2, <2>3 DEF IInv, PlaceInv, Queued
  <2> QED
    BY <2>1, <2>2, <2>3 DEF Queued
<1>13. \A d \in Clients, v \in Workers : Queued(v, d)' <=> Queued(v, d) /\ d # c
  <2> SUFFICES ASSUME NEW d \in Clients, NEW v \in Workers
               PROVE  Queued(v, d)' <=> Queued(v, d) /\ d # c
    OBVIOUS
  <2>1. CASE v # w
    BY <1>7, <1>12, <2>1 DEF Queued
  <2>2. CASE v = w
    <3>1. Queued(v, d)' <=> \E i \in 1 .. Len(r) : r[i] = d
      BY <2>2 DEF Queued, r
    <3>2. Queued(v, d) <=> \E i \in 1 .. Len(q) : q[i] = d
      BY <2>2 DEF Queued, q
    <3>3. \A i \in 1 .. Len(q) : q[i] = c <=> i = 1
      BY <1>9, <1>11 DEF q, c
    <3> QED
      BY <1>9, <1>10, <3>1, <3>2, <3>3
  <2> QED
    BY <2>1, <2>2
<1>14. \A d \in Clients, v \in Workers : Is(client[v], d)' <=> Is(client[v], d) \/ (v = w /\ d = c)
  BY <1>5, <1>7 DEF Is
<1>15. \A d \in Clients : Is(accepted, d)' <=> Is(accepted, d)
  BY <1>3 DEF Is
<1>16. \A v \in Workers : ~Is(client[v], c)
  BY <1>12 DEF IInv, PlaceInv
<1>17. ~Is(accepted, c) /\ conn[c] \notin {"none", "backlog", "reset", "lost"}
  BY <1>12 DEF IInv, PlaceInv
<1>18. PlaceInv'
  <2>1. \A u, v \in Workers : \A i \in 1 .. Len(conn_queues'[u]), j \in 1 .. Len(conn_queues'[v]) :
          conn_queues'[u][i] = conn_queues'[v][j] => u = v /\ i = j
    <3> DEFINE at(v, i) == IF v = w THEN i + 1 ELSE i
    <3>1. \A v \in Workers : \A i \in 1 .. Len(conn_queues'[v]) :
            i \in Nat /\ at(v, i) \in 1 .. Len(conn_queues[v]) /\ conn_queues'[v][i] = conn_queues[v][at(v, i)]
      <4> SUFFICES ASSUME NEW v \in Workers, NEW i \in 1 .. Len(conn_queues'[v])
                   PROVE  /\ i \in Nat /\ at(v, i) \in 1 .. Len(conn_queues[v])
                          /\ conn_queues'[v][i] = conn_queues[v][at(v, i)]
        OBVIOUS
      <4>1. CASE v = w
        BY <1>9, <4>1 DEF r, q
      <4>2. CASE v # w
        BY <1>7, <4>2
      <4> QED
        BY <4>1, <4>2
    <3>2. \A u, v \in Workers : \A i \in 1 .. Len(conn_queues[u]), j \in 1 .. Len(conn_queues[v]) :
            conn_queues[u][i] = conn_queues[v][j] => u = v /\ i = j
      BY DEF IInv, PlaceInv
    <3> SUFFICES ASSUME NEW u \in Workers, NEW v \in Workers, NEW i \in 1 .. Len(conn_queues'[u]),
                        NEW j \in 1 .. Len(conn_queues'[v]), conn_queues'[u][i] = conn_queues'[v][j]
                 PROVE  u = v /\ i = j
      OBVIOUS
    <3>3. i \in Nat /\ j \in Nat
      BY <3>1
    <3>4. conn_queues[u][at(u, i)] = conn_queues[v][at(v, j)] /\ at(u, i) \in 1 .. Len(conn_queues[u])
          /\ at(v, j) \in 1 .. Len(conn_queues[v])
      BY <3>1
    <3> HIDE DEF at
    <3>5. u = v /\ at(u, i) = at(v, j)
      BY <3>2, <3>4
    <3> QED
      BY <3>3, <3>5 DEF at
  <2>2. \A d \in Clients : conn'[d] \in {"none", "backlog", "reset", "lost"} =>
          ~Is(accepted, d)' /\ \A v \in Workers : ~Is(client[v], d)' /\ ~Queued(v, d)'
    BY <1>3, <1>13, <1>14, <1>15, <1>17 DEF IInv, PlaceInv
  <2>3. \A d \in Clients : Is(accepted, d)' => \A v \in Workers : ~Is(client[v], d)' /\ ~Queued(v, d)'
    BY <1>13, <1>14, <1>15, <1>17 DEF IInv, PlaceInv
  <2>4. \A d \in Clients, u, v \in Workers : Is(client[v], d)' =>
          ~Queued(u, d)' /\ (Is(client[u], d)' => u = v)
    BY <1>13, <1>14, <1>16 DEF IInv, PlaceInv
  <2>5. ~crashed' => \A d \in Clients : conn'[d] = "open" =>
          Is(accepted, d)' \/ \E v \in Workers : Is(client[v], d)' \/ Queued(v, d)'
    BY <1>3, <1>13, <1>14, <1>15 DEF IInv, PlaceInv
  <2> QED
    BY <2>1, <2>2, <2>3, <2>4, <2>5 DEF PlaceInv
<1>19. ShutInv'
  <2> SUFFICES ASSUME NEW v \in Workers, v < next_queue', NEW i \in 1 .. Len(conn_queues'[v])
               PROVE  conn'[conn_queues'[v][i]] # "open"
    BY DEF ShutInv
  <2>1. CASE v = w
    <3>1. i + 1 \in 1 .. Len(conn_queues[v]) /\ conn_queues'[v][i] = conn_queues[v][i + 1]
      BY <1>9, <2>1 DEF r, q
    <3> QED
      BY <1>3, <3>1 DEF IInv, ShutInv
  <2>2. CASE v # w
    BY <1>3, <1>7, <2>2 DEF IInv, ShutInv
  <2> QED
    BY <2>1, <2>2
<1>20. FlowInv'
  <2>1. \A d \in Clients : Serving(d)' <=> Serving(d)
    BY <1>3, <1>4, <1>14 DEF Serving
  <2> QED
    BY <1>3, <2>1, FlowFrame DEF IInv
<1> QED
  BY <1>4, <1>6, <1>8, <1>18, <1>19, <1>20 DEF IInv

\* Only the places of w differ: a request of its connection may be at another place.
LEMMA OthersServing ==
  ASSUME IInv, NEW w \in Workers, NEW c \in Clients, Is(client[w], c), UNCHANGED client,
         \A v \in Workers : v # w => wpc'[v] = wpc[v]
  PROVE  /\ Serving(c) <=> wpc[w] \in {"process", "send"}
         /\ Serving(c)' <=> wpc'[w] \in {"process", "send"}
         /\ \A d \in Clients : d # c => (Serving(d)' <=> Serving(d))
<1>1. \A v \in Workers : Is(client[v], c) => v = w
  BY DEF IInv, PlaceInv
<1>2. \A v \in Workers, d \in Clients : Is(client[v], d)' <=> Is(client[v], d)
  BY DEF Is
<1>3. \A d \in Clients : d # c => ~Is(client[w], d)
  BY DEF Is
<1> QED
  BY <1>1, <1>2, <1>3 DEF Serving

\* The connection of a worker that receives, processes or sends.
LEMMA ServedClient ==
  ASSUME IInv, NEW w \in Workers, wpc[w] \in {"recv", "process", "send"}
  PROVE  client[w][1] \in Clients /\ Is(client[w], client[w][1])
<1>1. client[w] \in OptClient /\ client[w] # <<>>
  BY DEF IInv, TypeOK, WorkerInv
<1> QED
  BY <1>1, OptFacts DEF Is

\* recv_request takes the request from the socket, and process_request calls the store.
LEMMA ReceiveStep == ASSUME IInv, ~crashed, NEW w \in Workers, Receive(w) PROVE IInv'
<1>0. PICK c \in Clients : c = client[w][1] /\ Is(client[w], c)
  <2>1. wpc[w] \in {"recv", "process", "send"}
    BY DEF Receive
  <2> QED
    BY <2>1, ServedClient
<1>1. /\ wpc[w] = "recv" /\ wpc' = [wpc EXCEPT ![w] = "process"] /\ inbox[c] # <<>>
      /\ inbox' = [inbox EXCEPT ![c] = Tail(@)] /\ pc' = [pc EXCEPT ![w] = "lock"]
      /\ UNCHANGED <<n_workers, main, is_stopped, listener_fd, next_queue, sized, listener, accepted, next_worker,
                     conn_queues, client, conn, outbox, cpc, sent, crashed>>
  BY <1>0 DEF Receive, MoveWorker, mainVars, acceptVars, netVars, clientVars, Store!InvokeWith
<1>2. c \in Clients /\ Is(client[w], c)
  BY <1>0
<1>3. /\ MainInv'
      /\ \A v \in Workers : wpc'[v] = IF v = w THEN "process" ELSE wpc[v]
      /\ wpc' \in [Workers -> {"none", "loop", "pop", "recv", "process", "send", "done"}]
  BY <1>1, WorkerMoves
<1>4. inbox[c] \in Seq(Requests)
  BY <1>2 DEF IInv, TypeOK
<1>5. Tail(inbox[c]) \in Seq(Requests) /\ Len(Tail(inbox[c])) = Len(inbox[c]) - 1
  BY <1>1, <1>4, HeadTailProperties
<1>6. TypeOK'
  <2>1. inbox' \in [Clients -> Seq(Requests)]
    BY <1>1, <1>5 DEF IInv, TypeOK
  <2>2. pc' \in [Workers -> {"idle", "lock", "body", "loop", "ret"}]
    BY <1>1 DEF IInv, TypeOK
  <2> QED
    BY <1>1, <1>3, <2>1, <2>2, ZenonT(40) DEF IInv, TypeOK
<1>7. \A v \in Workers : pc'[v] = IF v = w THEN "lock" ELSE pc[v]
  BY <1>1 DEF IInv, TypeOK
<1>8. WorkerInv' /\ ListenerInv'
  BY <1>1, <1>3, <1>7 DEF IInv, WorkerInv, ListenerInv
<1>9. PlaceInv' /\ ShutInv'
  BY <1>1, PlaceFrame, ShutFrame DEF IInv
<1>10. FlowInv'
  <2>1. /\ inbox'[c] = Tail(inbox[c]) /\ outbox'[c] = outbox[c]
        /\ \A d \in Clients : d # c => inbox'[d] = inbox[d] /\ outbox'[d] = outbox[d]
    BY <1>1, <1>2 DEF IInv, TypeOK
  <2>2. /\ Serving(c) <=> wpc[w] \in {"process", "send"}
        /\ Serving(c)' <=> wpc'[w] \in {"process", "send"}
        /\ \A d \in Clients : d # c => (Serving(d)' <=> Serving(d))
    BY <1>1, <1>2, <1>3, OthersServing
  <2>3. ~Serving(c) /\ Serving(c)'
    BY <1>1, <1>3, <2>2
  <2>4. Len(inbox[c]) \in Nat /\ outbox[c] \in Nat
    BY <1>2, <1>4, LenProperties DEF IInv, TypeOK
  <2>5. Pending(c)' = Pending(c)
    <3>1. Pending(c) = Len(inbox[c]) + outbox[c]
      BY <2>3, <2>4 DEF Pending
    <3>2. Pending(c)' = Len(inbox'[c]) + outbox'[c] + 1
      BY <2>3 DEF Pending
    <3> QED
      BY <1>5, <2>1, <2>4, <3>1, <3>2
  <2>6. \A d \in Clients : Pending(d)' = Pending(d)
    BY <2>1, <2>2, <2>5 DEF Pending
  <2> QED
    BY <1>1, <2>6 DEF IInv, FlowInv
<1> QED
  BY <1>3, <1>6, <1>8, <1>9, <1>10 DEF IInv

\* The store works on the request, or process_request returns its response.
LEMMA ProcessStep ==
  ASSUME IInv, ~crashed, NEW w \in Workers, StoreStep(w) \/ ProcessRequest(w)
  PROVE  IInv'
<1>1. /\ wpc[w] = "process"
      /\ UNCHANGED <<n_workers, main, is_stopped, listener_fd, next_queue, sized, listener, accepted, next_worker,
                     conn_queues, client, conn, inbox, outbox, cpc, sent, crashed>>
  BY DEF StoreStep, ProcessRequest, mainVars, acceptVars, workVars, netVars, clientVars
<1>2. CASE StoreStep(w)
  <2>1. wpc' = wpc /\ pc[w] # "ret" /\ Store!Step(w)
    BY <1>2 DEF StoreStep, workVars
  <2>2. /\ pc' \in [Workers -> {"idle", "lock", "body", "loop", "ret"}]
        /\ \A v \in Workers : (pc'[v] = "idle") <=> (pc[v] = "idle")
    BY <2>1, StoreStepFacts DEF IInv
  <2>3. TypeOK'
    BY <1>1, <2>1, <2>2, ZenonT(40) DEF IInv, TypeOK
  <2>4. MainInv' /\ WorkerInv' /\ ListenerInv'
    BY <1>1, <2>1, <2>2 DEF IInv, MainInv, WorkerInv, ListenerInv
  <2>5. PlaceInv' /\ ShutInv'
    BY <1>1, PlaceFrame, ShutFrame DEF IInv
  <2>6. FlowInv'
    BY <1>1, <2>1, ServingFrame, FlowFrame DEF IInv
  <2> QED
    BY <2>3, <2>4, <2>5, <2>6 DEF IInv
<1>3. CASE ProcessRequest(w)
  <2>1. wpc' = [wpc EXCEPT ![w] = "send"] /\ pc' = [pc EXCEPT ![w] = "idle"]
    BY <1>3 DEF ProcessRequest, MoveWorker, Store!Return
  <2>2. /\ MainInv'
        /\ \A v \in Workers : wpc'[v] = IF v = w THEN "send" ELSE wpc[v]
        /\ wpc' \in [Workers -> {"none", "loop", "pop", "recv", "process", "send", "done"}]
    BY <1>1, <2>1, WorkerMoves
  <2>3. /\ \A v \in Workers : pc'[v] = IF v = w THEN "idle" ELSE pc[v]
        /\ pc' \in [Workers -> {"idle", "lock", "body", "loop", "ret"}]
    BY <2>1 DEF IInv, TypeOK
  <2>4. TypeOK'
    BY <1>1, <2>2, <2>3, ZenonT(40) DEF IInv, TypeOK
  <2>5. WorkerInv' /\ ListenerInv'
    BY <1>1, <2>2, <2>3 DEF IInv, WorkerInv, ListenerInv
  <2>6. PlaceInv' /\ ShutInv'
    BY <1>1, PlaceFrame, ShutFrame DEF IInv
  <2>7. FlowInv'
    BY <1>1, <2>2, ServingFrame, FlowFrame DEF IInv
  <2> QED
    BY <2>2, <2>4, <2>5, <2>6, <2>7 DEF IInv
<1> QED
  BY <1>2, <1>3

\* send_response hands the response to the socket.
LEMMA SendStep == ASSUME IInv, ~crashed, NEW w \in Workers, Send(w) PROVE IInv'
<1>0. PICK c \in Clients : c = client[w][1] /\ Is(client[w], c)
  <2>1. wpc[w] \in {"recv", "process", "send"}
    BY DEF Send
  <2> QED
    BY <2>1, ServedClient
<1>1. /\ wpc[w] = "send" /\ wpc' = [wpc EXCEPT ![w] = "recv"]
      /\ outbox' = [outbox EXCEPT ![c] = @ + 1]
      /\ UNCHANGED <<n_workers, main, is_stopped, listener_fd, next_queue, sized, listener, accepted, next_worker,
                     conn_queues, client, conn, inbox, cpc, sent, crashed, pc>>
  BY <1>0 DEF Send, MoveWorker, mainVars, acceptVars, netVars, clientVars, storeVars
<1>2. c \in Clients /\ Is(client[w], c)
  BY <1>0
<1>3. /\ MainInv'
      /\ \A v \in Workers : wpc'[v] = IF v = w THEN "recv" ELSE wpc[v]
      /\ wpc' \in [Workers -> {"none", "loop", "pop", "recv", "process", "send", "done"}]
  BY <1>1, WorkerMoves
<1>4. inbox[c] \in Seq(Requests) /\ outbox[c] \in Nat
  BY <1>2 DEF IInv, TypeOK
<1>5. /\ outbox' \in [Clients -> Nat] /\ outbox'[c] = outbox[c] + 1
      /\ \A d \in Clients : d # c => outbox'[d] = outbox[d]
  <2>1. outbox[c] + 1 \in Nat
    BY <1>4
  <2> QED
    BY <1>1, <2>1 DEF IInv, TypeOK
<1>6. TypeOK'
  BY <1>1, <1>3, <1>5, ZenonT(60) DEF IInv, TypeOK
<1>7. WorkerInv' /\ ListenerInv'
  BY <1>1, <1>3 DEF IInv, WorkerInv, ListenerInv
<1>8. PlaceInv' /\ ShutInv'
  BY <1>1, PlaceFrame, ShutFrame DEF IInv
<1>9. FlowInv'
  <2>1. /\ Serving(c) <=> wpc[w] \in {"process", "send"}
        /\ Serving(c)' <=> wpc'[w] \in {"process", "send"}
        /\ \A d \in Clients : d # c => (Serving(d)' <=> Serving(d))
    BY <1>1, <1>2, <1>3, OthersServing
  <2>2. Serving(c) /\ ~Serving(c)'
    BY <1>1, <1>3, <2>1
  <2>3. Len(inbox[c]) \in Nat
    BY <1>4, LenProperties
  <2>4. Pending(c)' = Pending(c)
    <3>1. Pending(c) = Len(inbox[c]) + outbox[c] + 1
      BY <2>2 DEF Pending
    <3>2. Pending(c)' = Len(inbox[c]) + outbox'[c] + 0
      BY <1>1, <2>2 DEF Pending
    <3> QED
      BY <1>4, <1>5, <2>3, <3>1, <3>2
  <2>5. \A d \in Clients : Pending(d)' = Pending(d)
    BY <1>1, <1>5, <2>1, <2>4 DEF Pending
  <2> QED
    BY <1>1, <2>5 DEF IInv, FlowInv
<1> QED
  BY <1>3, <1>6, <1>7, <1>8, <1>9 DEF IInv

\* The worker closes the connection: the client has gone, or stop() has shut it down.
LEMMA CloseStep ==
  ASSUME IInv, ~crashed, NEW w \in Workers, ReceiveEof(w) \/ SendFails(w)
  PROVE  IInv'
<1>0. PICK c \in Clients : c = client[w][1] /\ Is(client[w], c)
  <2>1. wpc[w] \in {"recv", "process", "send"}
    BY DEF ReceiveEof, SendFails
  <2> QED
    BY <2>1, ServedClient
<1>1. /\ wpc[w] \in {"recv", "send"} /\ wpc' = [wpc EXCEPT ![w] = "loop"]
      /\ client' = [client EXCEPT ![w] = <<>>]
      /\ conn' = [conn EXCEPT ![c] = IF @ = "open" THEN "closed" ELSE @]
      /\ UNCHANGED <<n_workers, main, is_stopped, listener_fd, next_queue, sized, listener, accepted, next_worker,
                     conn_queues, inbox, outbox, cpc, sent, crashed, pc>>
  BY <1>0 DEF ReceiveEof, SendFails, Close, MoveWorker, mainVars, acceptVars, netVars,
     clientVars, storeVars
<1>2. cpc[c] = "closed" \/ conn[c] = "shut"
  BY <1>0 DEF ReceiveEof, SendFails
<1>3. c \in Clients /\ Is(client[w], c)
  BY <1>0
<1>4. /\ MainInv'
      /\ \A v \in Workers : wpc'[v] = IF v = w THEN "loop" ELSE wpc[v]
      /\ wpc' \in [Workers -> {"none", "loop", "pop", "recv", "process", "send", "done"}]
  BY <1>1, WorkerMoves
<1>5. /\ client'[w] = <<>> /\ \A v \in Workers : v # w => client'[v] = client[v]
      /\ client' \in [Workers -> OptClient]
  BY <1>1, OptFacts DEF IInv, TypeOK
<1>6. /\ conn'[c] = IF conn[c] = "open" THEN "closed" ELSE conn[c]
      /\ \A d \in Clients : d # c => conn'[d] = conn[d]
      /\ conn' \in [Clients -> {"none", "backlog", "reset", "lost", "open", "shut", "closed"}]
  BY <1>1, <1>3 DEF IInv, TypeOK
<1>7. TypeOK'
  BY <1>1, <1>4, <1>5, <1>6, ZenonT(40) DEF IInv, TypeOK
<1>8. WorkerInv' /\ ListenerInv'
  BY <1>1, <1>4, <1>5, <1>6 DEF IInv, WorkerInv, ListenerInv
<1>9. /\ \A v \in Workers, d \in Clients : Is(client[v], d)' <=> Is(client[v], d) /\ v # w
      /\ \A v \in Workers, d \in Clients : Queued(v, d)' <=> Queued(v, d)
      /\ \A d \in Clients : Is(accepted, d)' <=> Is(accepted, d)
  BY <1>1, <1>5 DEF Is, Queued
<1>10. \A d \in Clients : Is(client[w], d) => d = c
  BY <1>3 DEF Is
<1>11. PlaceInv'
  <2>1. \A u, v \in Workers : \A i \in 1 .. Len(conn_queues'[u]), j \in 1 .. Len(conn_queues'[v]) :
          conn_queues'[u][i] = conn_queues'[v][j] => u = v /\ i = j
    BY <1>1 DEF IInv, PlaceInv
  <2>2. \A d \in Clients : conn'[d] = "open" => d # c /\ conn[d] = "open"
    BY <1>6
  <2>3. \A d \in Clients : conn'[d] \in {"none", "backlog", "reset", "lost"}
                           => conn[d] \in {"none", "backlog", "reset", "lost"}
    BY <1>6
  <2>4. \A d \in Clients : conn'[d] \in {"none", "backlog", "reset", "lost"} =>
          ~Is(accepted, d)' /\ \A v \in Workers : ~Is(client[v], d)' /\ ~Queued(v, d)'
    BY <1>9, <2>3 DEF IInv, PlaceInv
  <2>5. ~crashed' => \A d \in Clients : conn'[d] = "open" =>
          Is(accepted, d)' \/ \E v \in Workers : Is(client[v], d)' \/ Queued(v, d)'
    BY <1>9, <1>10, <2>2 DEF IInv, PlaceInv
  <2> QED
    BY <1>9, <2>1, <2>4, <2>5 DEF IInv, PlaceInv
<1>12. ShutInv'
  BY <1>1, <1>6, ShutFrame DEF IInv
<1>13. FlowInv'
  <2>1. \A d \in Clients : d # c => (Serving(d)' <=> Serving(d))
    BY <1>4, <1>9, <1>10 DEF Serving
  <2>2. \A v \in Workers : ~Is(client[v], c)'
    BY <1>3, <1>9 DEF IInv, PlaceInv
  <2>3. ~Serving(c)'
    BY <2>2 DEF Serving
  <2>4. \A d \in Clients : d # c => Pending(d)' = Pending(d)
    BY <1>1, <2>1 DEF Pending
  <2>5. Len(inbox[c]) \in Nat /\ outbox[c] \in Nat
    <3>1. inbox[c] \in Seq(Requests) /\ outbox[c] \in Nat
      BY <1>3 DEF IInv, TypeOK
    <3> QED
      BY <3>1, LenProperties
  <2>6. Pending(c)' \in Nat /\ Pending(c) \in Nat /\ Pending(c)' <= Pending(c)
    <3>1. Pending(c)' = Len(inbox[c]) + outbox[c] + 0
      BY <1>1, <2>3 DEF Pending
    <3>2. Pending(c) = Len(inbox[c]) + outbox[c] + 0 \/ Pending(c) = Len(inbox[c]) + outbox[c] + 1
      BY DEF Pending
    <3> QED
      BY <2>5, <3>1, <3>2
  <2>7. conn[c] \notin {"none", "backlog", "reset", "lost"}
    BY <1>3 DEF IInv, PlaceInv
  <2>8. conn'[c] \notin {"none", "backlog", "open", "lost"}
    BY <1>6, <2>7
  <2>9. /\ cpc'[c] = "start" <=> conn'[c] = "none"
        /\ cpc'[c] \in {"start", "ready"} => Pending(c)' = 0
        /\ cpc'[c] = "waiting" => Pending(c)' <= 1 /\ (conn'[c] \in {"backlog", "open", "lost"} => Pending(c)' = 1)
    <3>1. /\ cpc[c] = "start" <=> conn[c] = "none"
          /\ cpc[c] \in {"start", "ready"} => Pending(c) = 0
          /\ cpc[c] = "waiting" => Pending(c) <= 1
      BY <1>3 DEF IInv, FlowInv
    <3> QED
      BY <1>1, <2>6, <2>7, <2>8, <3>1
  <2> QED
    BY <1>1, <1>6, <2>4, <2>9 DEF IInv, FlowInv
<1> QED
  BY <1>4, <1>7, <1>8, <1>11, <1>12, <1>13 DEF IInv

-----------------------------------------------------------------------------
(* The clients *)

\* A client connects, sends a request, receives its response, or goes.
LEMMA ClientSteps ==
  ASSUME IInv, ~crashed, NEW c \in Clients, Connect(c) \/ ClientStep(c)
  PROVE  IInv'
<1>1. UNCHANGED <<n_workers, main, is_stopped, listener_fd, next_queue, sized, listener, accepted, next_worker,
                  conn_queues, wpc, client, crashed, pc>>
  BY DEF Connect, ClientStep, SendRequest, ReceiveResponse, ReceiveResponseFails, CloseClient,
     MoveClient,
         mainVars, acceptVars, workVars, netVars, storeVars
<1>2. \A d \in Clients : Serving(d)' <=> Serving(d)
  BY <1>1, ServingFrame
<1>3. /\ inbox[c] \in Seq(Requests) /\ Len(inbox[c]) \in Nat /\ outbox[c] \in Nat /\ sent[c] \in Nat
  <2>1. inbox[c] \in Seq(Requests) /\ outbox[c] \in Nat /\ sent[c] \in Nat
    BY DEF IInv, TypeOK
  <2> QED
    BY <2>1, LenProperties
<1>4. MainInv' /\ WorkerInv'
  BY <1>1 DEF IInv, MainInv, WorkerInv
<1>5. /\ cpc[c] = "start" <=> conn[c] = "none"
      /\ cpc[c] \in {"start", "ready"} => Pending(c) = 0
      /\ cpc[c] = "waiting" => Pending(c) <= 1 /\ (conn[c] \in {"backlog", "open", "lost"} => Pending(c) = 1)
  BY DEF IInv, FlowInv
<1> DEFINE s == IF Serving(c) THEN 1 ELSE 0
<1>6. /\ s \in {0, 1} /\ Pending(c) = Len(inbox[c]) + outbox[c] + s
      /\ Pending(c)' = Len(inbox'[c]) + outbox'[c] + s
  BY <1>2 DEF Pending
<1> HIDE DEF s
<1>7. ASSUME UNCHANGED conn
      PROVE  ListenerInv' /\ PlaceInv' /\ ShutInv'
  <2>1. ListenerInv'
    BY <1>1, <1>7 DEF IInv, ListenerInv
  <2> QED
    BY <1>1, <1>7, <2>1, PlaceFrame, ShutFrame DEF IInv
<1>8. ASSUME \A d \in Clients : d # c => /\ cpc'[d] = cpc[d] /\ inbox'[d] = inbox[d]
                                         /\ outbox'[d] = outbox[d] /\ conn'[d] = conn[d],
             /\ cpc'[c] = "start" <=> conn'[c] = "none"
             /\ cpc'[c] \in {"start", "ready"} => Pending(c)' = 0
             /\ cpc'[c] = "waiting" => Pending(c)' <= 1
                                       /\ (conn'[c] \in {"backlog", "open", "lost"} => Pending(c)' = 1)
      PROVE  FlowInv'
  <2>1. \A d \in Clients : d # c => Pending(d)' = Pending(d)
    BY <1>2, <1>8 DEF Pending
  <2> QED
    BY <1>8, <2>1 DEF IInv, FlowInv
<1>9. CASE Connect(c)
  <2>1. /\ cpc[c] = "start" /\ listener_fd = "open" /\ cpc' = [cpc EXCEPT ![c] = "ready"]
        /\ conn' = [conn EXCEPT ![c] = "backlog"] /\ UNCHANGED <<inbox, outbox, sent>>
    BY <1>9 DEF Connect, MoveClient
  <2>2. TypeOK'
    BY <1>1, <2>1 DEF IInv, TypeOK
  <2>3. /\ cpc'[c] = "ready" /\ conn'[c] = "backlog"
        /\ \A d \in Clients : d # c => cpc'[d] = cpc[d] /\ conn'[d] = conn[d]
    BY <2>1 DEF IInv, TypeOK
  <2>4. conn[c] = "none"
    BY <1>5, <2>1
  <2>5. ListenerInv'
    BY <1>1, <2>1 DEF IInv, ListenerInv
  <2>6. \A d \in Clients : /\ conn'[d] \in {"none", "backlog", "reset", "lost"}
                              => conn[d] \in {"none", "backlog", "reset", "lost"}
                           /\ conn'[d] = "open" => conn[d] = "open"
    BY <2>3, <2>4
  <2>7. PlaceInv' /\ ShutInv'
    BY <1>1, <2>6, PlaceFrame, ShutFrame DEF IInv
  <2>8. Pending(c)' = 0
    BY <1>5, <1>6, <2>1
  <2>9. FlowInv'
    BY <1>8, <2>1, <2>3, <2>8
  <2> QED
    BY <1>4, <2>2, <2>5, <2>7, <2>9 DEF IInv
<1>10. CASE SendRequest(c)
  <2>1. cpc[c] = "ready" /\ UNCHANGED <<conn, outbox>> /\ Pending(c) = 0
    BY <1>5, <1>10 DEF SendRequest, ClientStep
  <2>2. CASE conn[c] \in {"backlog", "open", "lost"}
    <3>1. PICK r \in Requests : inbox' = [inbox EXCEPT ![c] = Append(@, r)]
      BY <1>10, <2>2 DEF SendRequest
    <3>2. sent' = [sent EXCEPT ![c] = @ + 1] /\ cpc' = [cpc EXCEPT ![c] = "waiting"]
      BY <1>10, <2>2 DEF SendRequest, MoveClient
    <3>3. Append(inbox[c], r) \in Seq(Requests) /\ Len(Append(inbox[c], r)) = Len(inbox[c]) + 1
      BY <1>3, AppendProperties
    <3>4. TypeOK'
      <4>1. inbox' \in [Clients -> Seq(Requests)]
        BY <3>1, <3>3 DEF IInv, TypeOK
      <4>2. sent' \in [Clients -> Nat]
        <5>1. sent[c] + 1 \in Nat
          BY <1>3
        <5> QED
          BY <3>2, <5>1 DEF IInv, TypeOK
      <4> QED
        BY <1>1, <2>1, <3>2, <4>1, <4>2, ZenonT(40) DEF IInv, TypeOK
    <3>5. /\ cpc'[c] = "waiting" /\ inbox'[c] = Append(inbox[c], r)
          /\ \A d \in Clients : d # c => cpc'[d] = cpc[d] /\ inbox'[d] = inbox[d]
      BY <3>1, <3>2 DEF IInv, TypeOK
    <3>6. Pending(c)' = 1
      BY <1>3, <1>6, <2>1, <3>3, <3>5
    <3>7. FlowInv'
      BY <1>5, <1>8, <2>1, <3>5, <3>6
    <3> QED
      BY <1>4, <1>7, <2>1, <3>4, <3>7 DEF IInv
  <2>3. CASE conn[c] \notin {"backlog", "open", "lost"}
    <3>1. cpc' = [cpc EXCEPT ![c] = "closed"] /\ UNCHANGED <<inbox, sent>>
      BY <1>10, <2>3 DEF SendRequest, MoveClient
    <3>2. TypeOK'
      BY <1>1, <2>1, <3>1, ZenonT(60) DEF IInv, TypeOK
    <3>3. cpc'[c] = "closed" /\ \A d \in Clients : d # c => cpc'[d] = cpc[d]
      BY <3>1 DEF IInv, TypeOK
    <3>4. FlowInv'
      BY <1>5, <1>8, <2>1, <3>1, <3>3
    <3> QED
      BY <1>4, <1>7, <2>1, <3>2, <3>4 DEF IInv
  <2> QED
    BY <2>2, <2>3
<1>11. CASE ReceiveResponse(c)
  <2>1. /\ cpc[c] = "waiting" /\ outbox[c] > 0 /\ outbox' = [outbox EXCEPT ![c] = @ - 1]
        /\ cpc' = [cpc EXCEPT ![c] = "ready"] /\ UNCHANGED <<conn, inbox, sent>>
    BY <1>11 DEF ReceiveResponse, MoveClient
  <2>2. outbox[c] - 1 \in Nat
    BY <1>3, <2>1
  <2>3. TypeOK'
    <3>1. outbox' \in [Clients -> Nat]
      BY <2>1, <2>2 DEF IInv, TypeOK
    <3> QED
      BY <1>1, <2>1, <3>1, ZenonT(60) DEF IInv, TypeOK
  <2>4. /\ cpc'[c] = "ready" /\ outbox'[c] = outbox[c] - 1
        /\ \A d \in Clients : d # c => cpc'[d] = cpc[d] /\ outbox'[d] = outbox[d]
    BY <2>1 DEF IInv, TypeOK
  <2>5. Pending(c)' = 0
    BY <1>3, <1>5, <1>6, <2>1, <2>4
  <2>6. FlowInv'
    BY <1>5, <1>8, <2>1, <2>4, <2>5
  <2> QED
    BY <1>4, <1>7, <2>1, <2>3, <2>6 DEF IInv
<1>12. CASE ReceiveResponseFails(c) \/ CloseClient(c)
  <2>1. /\ cpc[c] \in {"waiting", "ready"} /\ cpc' = [cpc EXCEPT ![c] = "closed"]
        /\ UNCHANGED <<conn, inbox, outbox, sent>>
    BY <1>12 DEF ReceiveResponseFails, CloseClient, MoveClient, netVars
  <2>2. TypeOK'
    BY <1>1, <2>1, ZenonT(60) DEF IInv, TypeOK
  <2>3. cpc'[c] = "closed" /\ \A d \in Clients : d # c => cpc'[d] = cpc[d]
    BY <2>1 DEF IInv, TypeOK
  <2>4. FlowInv'
    BY <1>5, <1>8, <2>1, <2>3
  <2> QED
    BY <1>4, <1>7, <2>1, <2>2, <2>4 DEF IInv
<1> QED
  BY <1>9, <1>10, <1>11, <1>12 DEF ClientStep

-----------------------------------------------------------------------------
(* The theorems *)

\* Every step keeps the invariant.
LEMMA NextIInv == ASSUME IInv, [Next]_vars PROVE IInv'
<1>1. CASE UNCHANGED vars
  <2>1. UNCHANGED <<n_workers, main, is_stopped, listener_fd, next_queue, sized, listener, accepted, next_worker,
                    conn_queues, wpc, client, conn, inbox, outbox, cpc, sent, crashed, pc>>
    BY <1>1 DEF vars, mainVars, acceptVars, workVars, netVars, clientVars, storeVars
  <2>2. TypeOK'
    BY <2>1, ZenonT(40) DEF IInv, TypeOK
  <2>3. MainInv' /\ WorkerInv' /\ ListenerInv' /\ ShutInv'
    BY <2>1 DEF IInv, MainInv, WorkerInv, ListenerInv, ShutInv
  <2>4. PlaceInv'
    BY <2>1 DEF IInv, PlaceInv, Is, Queued
  <2>5. FlowInv'
    BY <2>1, ServingFrame, FlowFrame DEF IInv
  <2> QED
    BY <2>2, <2>3, <2>4, <2>5 DEF IInv
<1>2. CASE ~crashed /\ (StartStep \/ Stop \/ StopStep \/ ListenerStep)
  BY <1>2, MainStep, ShutdownListenerStep, ShutdownQueueStep, ListenerMoves, AcceptStep, AcceptLosesStep, PushStep
     DEF StartStep, StopStep, ListenerStep
<1>3. ASSUME ~crashed, NEW w \in Workers, WorkerStep(w) PROVE IInv'
  BY <1>3, WorkLoopStep, PopStep, ReceiveStep, ProcessStep, SendStep, CloseStep DEF WorkerStep
<1>4. ASSUME ~crashed, NEW c \in Clients, Connect(c) \/ ClientStep(c) PROVE IInv'
  BY <1>4, ClientSteps
<1> QED
  BY <1>1, <1>2, <1>3, <1>4 DEF Next, Over

\* The inductive invariant of the server holds in every state, with any number of workers and
\* clients and however early a client connects.
THEOREM IInvHolds == Spec => []IInv
<1>1. Init => IInv
  BY InitIInv
<1>2. IInv /\ [Next]_vars => IInv'
  BY NextIInv
<1> QED
  BY <1>1, <1>2, PTL DEF Spec

\* No connection goes to a worker that the server does not have.
StartedInv ==
  /\ next_worker < n_workers
  /\ \A w \in Workers : w < n_workers \/ conn_queues[w] = <<>>

\* Only the listener and the workers that were started touch the queues.
LEMMA StartedStep == ASSUME IInv, StartedInv, [Next]_vars PROVE StartedInv'
<1> USE DEF mainVars, acceptVars, workVars, netVars, clientVars, storeVars
<1>1. CASE UNCHANGED <<n_workers, next_worker, conn_queues>>
  BY <1>1 DEF StartedInv
<1>2. CASE Push
  <2>1. /\ next_worker' = (next_worker + 1) % n_workers /\ UNCHANGED n_workers
        /\ \/ conn_queues' = [conn_queues EXCEPT ![next_worker] = @ \o accepted]
           \/ conn_queues' = conn_queues
    BY <1>2 DEF Push
  <2>2. next_worker' < n_workers'
    BY <2>1, NextWorkerFacts DEF IInv, TypeOK
  <2>3. \A w \in Workers : w # next_worker => conn_queues'[w] = conn_queues[w]
    BY <2>1 DEF IInv, TypeOK
  <2> QED
    BY <2>1, <2>2, <2>3 DEF StartedInv
<1>3. ASSUME NEW w \in Workers, WorkerStep(w) PROVE StartedInv'
  <2>1. /\ UNCHANGED <<n_workers, next_worker>>
        /\ \/ UNCHANGED conn_queues
           \/ conn_queues[w] # <<>> /\ conn_queues' = [conn_queues EXCEPT ![w] = Tail(@)]
    BY <1>3 DEF WorkerStep, WorkLoop, Pop, Receive, ReceiveEof, StoreStep, ProcessRequest, Send,
                SendFails
  <2>2. conn_queues' = conn_queues \/ (w < n_workers /\ \A v \in Workers : v # w => conn_queues'[v] = conn_queues[v])
    BY <2>1 DEF IInv, TypeOK, StartedInv
  <2> QED
    BY <2>1, <2>2 DEF StartedInv
<1>4. ASSUME NEW c \in Clients, Connect(c) \/ ClientStep(c)
      PROVE  UNCHANGED <<n_workers, next_worker, conn_queues>>
  BY <1>4 DEF Connect, ClientStep, SendRequest, ReceiveResponse, ReceiveResponseFails, CloseClient
<1>5. CASE StartStep \/ Stop \/ StopStep \/ ListenerStep
  BY <1>1, <1>2, <1>5
     DEF StartStep, StopStep, ListenerStep, StartListener, StartFails, DestroyFailed, ResizeQueues,
         StartWorkers, Stop, ShutdownListener, JoinListener, ShutdownQueue, JoinWorkers, AcceptLoop,
         Accept, AcceptFails, AcceptLoses
<1>6. CASE UNCHANGED vars
  BY <1>1, <1>6 DEF vars
<1> QED
  BY <1>1, <1>3, <1>4, <1>5, <1>6 DEF Next, Over

\* When Server::stop returns, every worker is out of the store and every connection is reset,
\* shut or closed: what a worker popped while stop() ran it has closed, and what stays in a queue
\* the loop of stop() has shut down.  One may be open, the one that accept_client lost when
\* getnameinfo failed.
THEOREM StopShutsAllButTheLost == Spec => []StopLeavesOnlyTheLost
<1>1. IInv /\ StartedInv => StopLeavesOnlyTheLost
  <2> SUFFICES ASSUME IInv, StartedInv, main = "stopped"
               PROVE  /\ \A c \in Clients : conn[c] \notin {"backlog", "open"}
                      /\ \A c, d \in Clients : conn[c] = "lost" /\ conn[d] = "lost" => c = d
                      /\ \A w \in Workers : client[w] = <<>> /\ pc[w] = "idle"
    BY DEF StopLeavesOnlyTheLost
  <2>1. /\ listener = "done" /\ listener_fd = "shutdown" /\ next_queue = n_workers /\ ~crashed
        /\ \A w \in Workers : wpc[w] \in {"none", "done"}
    BY DEF IInv, MainInv
  <2>2. \A w \in Workers : client[w] = <<>> /\ pc[w] = "idle"
    BY <2>1 DEF IInv, WorkerInv
  <2>3. accepted = <<>> /\ \A c \in Clients : conn[c] # "backlog"
    BY <2>1 DEF IInv, ListenerInv
  <2>4. ASSUME NEW c \in Clients, conn[c] = "open" PROVE FALSE
    <3>1. PICK w \in Workers : Queued(w, c)
      BY <2>1, <2>2, <2>3, <2>4 DEF IInv, PlaceInv, Is
    <3>2. conn_queues[w] # <<>>
      BY <3>1 DEF Queued
    <3>3. w < next_queue
      BY <2>1, <3>2 DEF StartedInv
    <3> QED
      BY <2>4, <3>1, <3>3 DEF IInv, ShutInv, Queued
  <2>5. \A c, d \in Clients : conn[c] = "lost" /\ conn[d] = "lost" => c = d
    BY DEF IInv, ListenerInv
  <2> QED
    BY <2>2, <2>3, <2>4, <2>5
<1>2. Init => StartedInv
  BY NWorkersAssumption DEF Init, StartedInv, Workers
<1>3. IInv /\ StartedInv /\ [Next]_vars => StartedInv'
  BY StartedStep
<1> QED
  BY <1>1, <1>2, <1>3, IInvHolds, PTL DEF Spec

\* InFlight counts one worker at most, because a connection is with one worker.
LEMMA InFlightIsPending == ASSUME IInv, NEW c \in Clients PROVE InFlight(c) = Pending(c)
<1> DEFINE S == {w \in Workers : client[w] = <<c>> /\ wpc[w] \in {"process", "send"}}
<1>1. \A w \in Workers : client[w] = <<c>> <=> Is(client[w], c)
  <2> SUFFICES ASSUME NEW w \in Workers PROVE client[w] = <<c>> <=> Is(client[w], c)
    OBVIOUS
  <2>1. client[w] \in OptClient
    BY DEF IInv, TypeOK
  <2> QED
    BY <2>1, OptFacts DEF Is
<1>2. \A w \in Workers : w \in S <=> Is(client[w], c) /\ wpc[w] \in {"process", "send"}
  BY <1>1
<1>3. \A v, w \in Workers : Is(client[w], c) /\ Is(client[v], c) => v = w
  BY DEF IInv, PlaceInv
<1>4. InFlight(c) = Len(inbox[c]) + outbox[c] + Cardinality(S)
  BY DEF InFlight
<1>5. S \subseteq Workers
  OBVIOUS
<1> HIDE DEF S
<1>6. CASE Serving(c)
  <2>1. PICK w \in Workers : Is(client[w], c) /\ wpc[w] \in {"process", "send"}
    BY <1>6 DEF Serving
  <2>2. S = {w}
    BY <1>2, <1>3, <1>5, <2>1
  <2>3. Cardinality(S) = 1
    BY <2>2, FS_Singleton
  <2> QED
    BY <1>4, <1>6, <2>3 DEF Pending
<1>7. CASE ~Serving(c)
  <2>1. S = {}
    BY <1>2, <1>5, <1>7 DEF Serving
  <2>2. Cardinality(S) = 0
    BY <2>1, FS_EmptySet
  <2> QED
    BY <1>4, <1>7, <2>2 DEF Pending
<1> QED
  BY <1>6, <1>7

\* A waiting client's request is at exactly one place on its way through work_loop and back while
\* its connection lasts, and nothing is left over for a client that does not wait.
THEOREM RequestsAreServedOnce == Spec => []OneAnswerPerRequest
<1>1. IInv => OneAnswerPerRequest
  <2> SUFFICES ASSUME IInv, NEW c \in Clients
               PROVE  /\ cpc[c] = "waiting" /\ conn[c] \in {"backlog", "open", "lost"} => InFlight(c) = 1
                      /\ cpc[c] \in {"start", "ready"} => InFlight(c) = 0
    BY DEF OneAnswerPerRequest
  <2>1. InFlight(c) = Pending(c)
    BY InFlightIsPending
  <2> QED
    BY <2>1 DEF IInv, FlowInv
<1> QED
  BY <1>1, IInvHolds, PTL

=============================================================================
