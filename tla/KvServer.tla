------------------------------ MODULE KvServer ------------------------------
(***************************************************************************)
(* The server of kvstore/server/server.{hpp,cpp} without a shard           *)
(* controller: the thread that calls start() and stop(), the listener      *)
(* thread of accept_clients_loop, the worker threads of work_loop with a   *)
(* queue of connections each, and the SimpleKvStore that start() creates.  *)
(* The sockets and the clients at their other ends are modelled from how   *)
(* net/network_conn.cpp and client/simple_client.cpp use them.             *)
(*                                                                         *)
(* A push or pop of a queue under its mutex is one step, and so is the     *)
(* loop of stop() over one queue.                                          *)
(***************************************************************************)
EXTENDS Integers, Sequences, FiniteSets

CONSTANTS Keys, Chunks, Requests,
          NWorkers,       \* bound: n_workers is at most that
          Clients,        \* one connection each
          ReqPerConn,     \* bound: requests a client sends on its connection
          ConnectEarly,   \* may a client connect before start() has returned?
          AcceptErrors    \* may accept_client fail while the socket is open?

ASSUME NWorkersAssumption == NWorkers \in Nat \ {0}

Workers == 0 .. NWorkers - 1
MaxOps  == Cardinality(Clients) * ReqPerConn

VARIABLES
  n_workers,     \* a server is made with 1 .. NWorkers workers
  main,          \* where the thread that runs start() and stop() is
  is_stopped,
  listener_fd,   \* "none", "open", "shutdown"
  listener,      \* the listener thread: "none", "loop", "accept", "push", "done"
  accepted,      \* the connection the listener has accepted, an optional client
  next_worker,
  next_queue,    \* the queue the loop of stop() is at
  sized,         \* have conn_queues and conn_queue_mtxs been resized?
  conn_queues,   \* [Workers -> Seq(Clients)]
  wpc,           \* [Workers -> ...], where each worker thread is
  client,        \* [Workers -> optional client], the connection it serves
  conn,          \* [Clients -> ...], the server's end of the connection; "lost" is
                 \* an open descriptor that no variable holds
  inbox,         \* [Clients -> Seq(Requests)], requests sent and not yet received
  outbox,        \* [Clients -> Nat], responses sent and not yet received
  cpc,           \* [Clients -> ...], where the client is
  sent,          \* [Clients -> Nat], requests the client has sent
  crashed        \* has undefined behaviour ended the process?

VARIABLES store_, mtx, pc, req, idx, res, left   \* the SimpleKvStore

storeVars  == <<store_, mtx, pc, req, idx, res, left>>
mainVars   == <<main, is_stopped, listener_fd, next_queue, sized, n_workers>>
acceptVars == <<listener, accepted, next_worker>>
workVars   == <<wpc, client>>
netVars    == <<conn, inbox, outbox>>
clientVars == <<cpc, sent>>

vars == <<mainVars, acceptVars, conn_queues, workVars, netVars, clientVars, crashed, storeVars>>

Store == INSTANCE SimpleKvStore WITH Threads <- Workers

Init ==
  /\ n_workers \in 1 .. NWorkers
  /\ main = "init" /\ is_stopped = FALSE /\ listener_fd = "none"
  /\ next_queue = 0 /\ sized = FALSE
  /\ listener = "none" /\ accepted = <<>> /\ next_worker = 0
  /\ conn_queues = [w \in Workers |-> <<>>]
  /\ wpc = [w \in Workers |-> "none"]
  /\ client = [w \in Workers |-> <<>>]
  /\ conn = [c \in Clients |-> "none"]
  /\ inbox = [c \in Clients |-> <<>>]
  /\ outbox = [c \in Clients |-> 0]
  /\ cpc = [c \in Clients |-> "start"]
  /\ sent = [c \in Clients |-> 0]
  /\ crashed = FALSE
  /\ Store!Init

-----------------------------------------------------------------------------
(* The thread that starts and stops the server *)

\* start(): the listener thread runs before the queues exist.
StartListener ==
  /\ main = "init"
  /\ main' = "starting"
  /\ listener_fd' = "open"
  /\ listener' = "loop"
  /\ UNCHANGED <<n_workers, is_stopped, next_queue, sized, accepted, next_worker, conn_queues, workVars, netVars,
                 clientVars, crashed, storeVars>>

\* start() cannot open its socket and returns -1.
StartFails ==
  /\ main = "init"
  /\ main' = "failed"
  /\ UNCHANGED <<n_workers, is_stopped, listener_fd, next_queue, sized, acceptVars, conn_queues, workVars, netVars,
                 clientVars, crashed, storeVars>>

\* A server that failed to start is destroyed (the command exits instead):
\* is_stopped is still false, so the destructor calls stop(), which joins a
\* listener thread that was never created and throws.
DestroyFailed ==
  /\ main = "failed"
  /\ main' = "stopping"
  /\ is_stopped' = TRUE
  /\ crashed' = TRUE
  /\ UNCHANGED <<n_workers, listener_fd, next_queue, sized, acceptVars, conn_queues, workVars, netVars,
                 clientVars, storeVars>>

ResizeQueues ==
  /\ main = "starting"
  /\ main' = "sized"
  /\ sized' = TRUE
  /\ UNCHANGED <<n_workers, is_stopped, listener_fd, next_queue, acceptVars, conn_queues, workVars, netVars,
                 clientVars, crashed, storeVars>>

StartWorkers ==
  /\ main = "sized"
  /\ main' = "running"
  /\ wpc' = [w \in Workers |-> IF w < n_workers THEN "loop" ELSE "none"]
  /\ UNCHANGED <<n_workers, is_stopped, listener_fd, next_queue, sized, acceptVars, conn_queues, client, netVars,
                 clientVars, crashed, storeVars>>

\* stop() is called.
Stop ==
  /\ main = "running"
  /\ main' = "stopping"
  /\ is_stopped' = TRUE
  /\ UNCHANGED <<n_workers, listener_fd, next_queue, sized, acceptVars, conn_queues, workVars, netVars, clientVars,
                 crashed, storeVars>>

\* shutdown(listener_fd): connections nobody accepted are reset.
ShutdownListener ==
  /\ main = "stopping"
  /\ main' = "join listener"
  /\ listener_fd' = "shutdown"
  /\ conn' = [c \in Clients |-> IF conn[c] = "backlog" THEN "reset" ELSE conn[c]]
  /\ UNCHANGED <<n_workers, is_stopped, next_queue, sized, acceptVars, conn_queues, workVars, inbox, outbox,
                 clientVars, crashed, storeVars>>

\* client_listener.join(), then the loop over the queues: every connection that
\* is still in a queue is shut down, and stays in the queue.
JoinListener ==
  /\ main = "join listener"
  /\ listener = "done"
  /\ main' = "shut queues"
  /\ UNCHANGED <<n_workers, is_stopped, listener_fd, next_queue, sized, acceptVars, conn_queues, workVars, netVars,
                 clientVars, crashed, storeVars>>

\* Mutant of ShutdownQueue: the loop over the queues skips what it finds.
SkipQueue ==
  /\ main = "shut queues"
  /\ next_queue' = next_queue + 1
  /\ main' = IF next_queue + 1 = n_workers THEN "join workers" ELSE "shut queues"
  /\ UNCHANGED <<n_workers, is_stopped, listener_fd, sized, acceptVars, conn_queues, workVars, netVars,
                 clientVars, crashed, storeVars>>

ShutdownQueue ==
  /\ main = "shut queues"
  /\ LET queue == conn_queues[next_queue]
         queued == {queue[i] : i \in DOMAIN queue}
     IN  conn' = [c \in Clients |-> IF c \in queued THEN "shut" ELSE conn[c]]
  /\ next_queue' = next_queue + 1
  /\ main' = IF next_queue + 1 = n_workers THEN "join workers" ELSE "shut queues"
  /\ UNCHANGED <<n_workers, is_stopped, listener_fd, sized, acceptVars, conn_queues, workVars, inbox,
                 outbox, clientVars, crashed, storeVars>>

JoinWorkers ==
  /\ main = "join workers"
  /\ \A w \in Workers : w < n_workers => wpc[w] = "done"
  /\ main' = "stopped"
  /\ UNCHANGED <<n_workers, is_stopped, listener_fd, next_queue, sized, acceptVars, conn_queues, workVars, netVars,
                 clientVars, crashed, storeVars>>

-----------------------------------------------------------------------------
(* accept_clients_loop *)

AcceptLoop ==
  /\ listener = "loop"
  /\ listener' = IF is_stopped THEN "done" ELSE "accept"
  /\ UNCHANGED <<mainVars, accepted, next_worker, conn_queues, workVars, netVars, clientVars,
                 crashed, storeVars>>

Accept ==
  /\ listener = "accept"
  /\ listener_fd = "open"
  /\ \E c \in Clients :
       /\ conn[c] = "backlog"
       /\ conn' = [conn EXCEPT ![c] = "open"]
       /\ accepted' = <<c>>
  /\ listener' = "push"
  /\ UNCHANGED <<mainVars, next_worker, conn_queues, workVars, inbox, outbox, clientVars,
                 crashed, storeVars>>

\* accept() fails once the socket is shut down, or for lack of a resource: the
\* listener thread returns either way.
AcceptFails ==
  /\ listener = "accept"
  /\ listener_fd = "shutdown" \/ AcceptErrors
  /\ listener' = "done"
  /\ UNCHANGED <<mainVars, accepted, next_worker, conn_queues, workVars, netVars, clientVars,
                 crashed, storeVars>>

\* accept() succeeds and getnameinfo fails: accept_client returns a null pointer
\* without closing the descriptor, and the listener thread returns.
AcceptLoses ==
  /\ listener = "accept"
  /\ listener_fd = "open"
  /\ AcceptErrors
  /\ \E c \in Clients :
       /\ conn[c] = "backlog"
       /\ conn' = [conn EXCEPT ![c] = "lost"]
  /\ listener' = "done"
  /\ UNCHANGED <<mainVars, accepted, next_worker, conn_queues, workVars, inbox, outbox,
                 clientVars, crashed, storeVars>>

\* The connection goes to the next worker's queue.  Before the queues are
\* resized this dereferences an element of an empty vector.
Push ==
  /\ listener = "push"
  /\ IF sized
     THEN /\ conn_queues' = [conn_queues EXCEPT ![next_worker] = @ \o accepted]
          /\ UNCHANGED crashed
     ELSE crashed' = TRUE /\ UNCHANGED conn_queues
  /\ accepted' = <<>>
  /\ next_worker' = (next_worker + 1) % n_workers
  /\ listener' = "loop"
  /\ UNCHANGED <<mainVars, workVars, netVars, clientVars, storeVars>>

-----------------------------------------------------------------------------
(* work_loop *)

MoveWorker(w, to) == wpc' = [wpc EXCEPT ![w] = to]

\* Mutant of WorkLoop: the worker never looks at is_stopped.
WorkForever(w) ==
  /\ wpc[w] = "loop"
  /\ MoveWorker(w, "pop")
  /\ UNCHANGED <<mainVars, acceptVars, conn_queues, client, netVars, clientVars, crashed,
                 storeVars>>

WorkLoop(w) ==
  /\ wpc[w] = "loop"
  /\ MoveWorker(w, IF is_stopped THEN "done" ELSE "pop")
  /\ UNCHANGED <<mainVars, acceptVars, conn_queues, client, netVars, clientVars, crashed,
                 storeVars>>

Pop(w) ==
  /\ wpc[w] = "pop"
  /\ IF conn_queues[w] = <<>>
     THEN MoveWorker(w, "loop") /\ UNCHANGED <<conn_queues, client>>
     ELSE /\ client' = [client EXCEPT ![w] = <<Head(conn_queues[w])>>]
          /\ conn_queues' = [conn_queues EXCEPT ![w] = Tail(@)]
          /\ MoveWorker(w, "recv")
  /\ UNCHANGED <<mainVars, acceptVars, netVars, clientVars, crashed, storeVars>>

\* ClientConn::close: it closes the socket unless stop() has shut it down.
Close(w) ==
  /\ conn' = [conn EXCEPT ![client[w][1]] = IF @ = "open" THEN "closed" ELSE @]
  /\ client' = [client EXCEPT ![w] = <<>>]
  /\ MoveWorker(w, "loop")

\* Mutant of Receive: the request stays in the socket's buffer.
ReceivePeeks(w) ==
  /\ wpc[w] = "recv"
  /\ inbox[client[w][1]] # <<>>
  /\ Store!InvokeWith(w, Head(inbox[client[w][1]]))
  /\ MoveWorker(w, "process")
  /\ UNCHANGED <<mainVars, acceptVars, conn_queues, client, netVars, clientVars, crashed>>

\* recv_request returns a request, and process_request calls the store.
Receive(w) ==
  /\ wpc[w] = "recv"
  /\ LET c == client[w][1] IN
       /\ inbox[c] # <<>>
       /\ inbox' = [inbox EXCEPT ![c] = Tail(@)]
       /\ Store!InvokeWith(w, Head(inbox[c]))
  /\ MoveWorker(w, "process")
  /\ UNCHANGED <<mainVars, acceptVars, conn_queues, client, conn, outbox, clientVars, crashed>>

\* recv_request finds the end of the stream: the client has closed its end, or
\* the connection was shut down.
ReceiveEof(w) ==
  /\ wpc[w] = "recv"
  /\ inbox[client[w][1]] = <<>>
  /\ cpc[client[w][1]] = "closed" \/ conn[client[w][1]] = "shut"
  /\ Close(w)
  /\ UNCHANGED <<mainVars, acceptVars, conn_queues, inbox, outbox, clientVars, crashed,
                 storeVars>>

\* A step of the store inside process_request.
StoreStep(w) ==
  /\ wpc[w] = "process"
  /\ pc[w] # "ret"
  /\ Store!Step(w)
  /\ UNCHANGED <<mainVars, acceptVars, conn_queues, workVars, netVars, clientVars, crashed>>

\* process_request builds its response from the store's result.
ProcessRequest(w) ==
  /\ wpc[w] = "process"
  /\ Store!Return(w)
  /\ MoveWorker(w, "send")
  /\ UNCHANGED <<mainVars, acceptVars, conn_queues, client, netVars, clientVars, crashed>>

\* send_response succeeds: the client may have closed its end already.
Send(w) ==
  /\ wpc[w] = "send"
  /\ conn[client[w][1]] = "open"
  /\ outbox' = [outbox EXCEPT ![client[w][1]] = @ + 1]
  /\ MoveWorker(w, "recv")
  /\ UNCHANGED <<mainVars, acceptVars, conn_queues, client, conn, inbox, clientVars, crashed,
                 storeVars>>

SendFails(w) ==
  /\ wpc[w] = "send"
  /\ cpc[client[w][1]] = "closed" \/ conn[client[w][1]] = "shut"
  /\ Close(w)
  /\ UNCHANGED <<mainVars, acceptVars, conn_queues, inbox, outbox, clientVars, crashed,
                 storeVars>>

-----------------------------------------------------------------------------
(* The clients *)

MoveClient(c, to) == cpc' = [cpc EXCEPT ![c] = to]

Connect(c) ==
  /\ cpc[c] = "start"
  /\ listener_fd = "open"
  /\ ConnectEarly \/ main \notin {"init", "starting", "sized"}
  /\ MoveClient(c, "ready")
  /\ conn' = [conn EXCEPT ![c] = "backlog"]
  /\ UNCHANGED <<mainVars, acceptVars, conn_queues, workVars, inbox, outbox, sent, crashed,
                 storeVars>>

\* send_request; a connection the server has ended makes it fail.
SendRequest(c) ==
  /\ cpc[c] = "ready"
  /\ sent[c] < ReqPerConn
  /\ IF conn[c] \in {"backlog", "open", "lost"}
     THEN /\ \E r \in Requests : inbox' = [inbox EXCEPT ![c] = Append(@, r)]
          /\ sent' = [sent EXCEPT ![c] = @ + 1]
          /\ MoveClient(c, "waiting")
     ELSE MoveClient(c, "closed") /\ UNCHANGED <<inbox, sent>>
  /\ UNCHANGED <<mainVars, acceptVars, conn_queues, workVars, conn, outbox, crashed, storeVars>>

ReceiveResponse(c) ==
  /\ cpc[c] = "waiting"
  /\ outbox[c] > 0
  /\ outbox' = [outbox EXCEPT ![c] = @ - 1]
  /\ MoveClient(c, "ready")
  /\ UNCHANGED <<mainVars, acceptVars, conn_queues, workVars, conn, inbox, sent, crashed,
                 storeVars>>

ReceiveResponseFails(c) ==
  /\ cpc[c] = "waiting"
  /\ outbox[c] = 0
  /\ conn[c] \in {"reset", "shut", "closed"}
  /\ MoveClient(c, "closed")
  /\ UNCHANGED <<mainVars, acceptVars, conn_queues, workVars, netVars, sent, crashed, storeVars>>

CloseClient(c) ==
  /\ cpc[c] = "ready"
  /\ MoveClient(c, "closed")
  /\ UNCHANGED <<mainVars, acceptVars, conn_queues, workVars, netVars, sent, crashed, storeVars>>

-----------------------------------------------------------------------------
StartStep == StartListener \/ StartFails \/ DestroyFailed \/ ResizeQueues \/ StartWorkers
StopStep == ShutdownListener \/ JoinListener \/ ShutdownQueue \/ JoinWorkers
ListenerStep == AcceptLoop \/ Accept \/ AcceptFails \/ AcceptLoses \/ Push
WorkerStep(w) ==
  \/ WorkLoop(w) \/ Pop(w) \/ Receive(w) \/ ReceiveEof(w) \/ StoreStep(w)
  \/ ProcessRequest(w) \/ Send(w) \/ SendFails(w)
ClientStep(c) ==
  SendRequest(c) \/ ReceiveResponse(c) \/ ReceiveResponseFails(c) \/ CloseClient(c)

\* Nothing need happen once stop() has returned or the process has crashed, and
\* once a worker waits for a mutex that a failed operation has left locked.
Over ==
  /\ \/ crashed
     \/ main \in {"stopped", "failed"}
     \/ Store!Leaked /\ \E w \in Workers : pc[w] = "lock"
  /\ UNCHANGED vars

Next ==
  \/ ~crashed /\ (StartStep \/ Stop \/ StopStep \/ ListenerStep)
  \/ ~crashed /\ \E w \in Workers : WorkerStep(w)
  \/ ~crashed /\ \E c \in Clients : Connect(c) \/ ClientStep(c)
  \/ Over

\* Every server thread that can run does; start(), once called, goes on.
ServerFairness ==
  /\ WF_vars(~crashed /\ (ResizeQueues \/ StartWorkers))
  /\ WF_vars(~crashed /\ StopStep)
  /\ WF_vars(~crashed /\ ListenerStep)
  /\ \A w \in Workers : WF_vars(~crashed /\ WorkerStep(w))

\* Every client that can send, receive or close does.
ClientFairness == \A c \in Clients : WF_vars(~crashed /\ ClientStep(c))

Spec == Init /\ [][Next]_vars /\ ServerFairness /\ ClientFairness

-----------------------------------------------------------------------------
(* Properties *)

\* When stop() returns no worker is inside the store and no connection is left
\* open, although workers go on popping connections while stop() runs: none but
\* the one that accept_client has lost, if it has lost one, and with it the
\* listener thread has ended.
StopLeavesOnlyTheLost ==
  main = "stopped" =>
    /\ \A c \in Clients : conn[c] \notin {"backlog", "open"}
    /\ \A c, d \in Clients : conn[c] = "lost" /\ conn[d] = "lost" => c = d
    /\ \A w \in Workers : client[w] = <<>> /\ pc[w] = "idle"

\* Where a request of c can be between its sending and the receipt of its answer.
InFlight(c) ==
  Len(inbox[c]) + outbox[c]
  + Cardinality({w \in Workers : client[w] = <<c>> /\ wpc[w] \in {"process", "send"}})

\* While its connection lasts, a waiting client's request is at exactly one place
\* on its way through work_loop and back, and nothing is left over for a client
\* that does not wait: no request is lost, served twice or answered twice.
OneAnswerPerRequest ==
  \A c \in Clients :
    /\ cpc[c] = "waiting" /\ conn[c] \in {"backlog", "open", "lost"} => InFlight(c) = 1
    /\ cpc[c] \in {"start", "ready"} => InFlight(c) = 0

\* A client that has sent a request gets an answer or sees its connection end,
\* also when its connection waits behind another in a worker's queue: unless a
\* request has failed in the store and left its mutex locked, or the listener has
\* ended and the connection was never accepted, or was lost when it was.
RequestsAreAnswered ==
  \A c \in Clients :
    cpc[c] = "waiting" /\ ~crashed ~>
      \/ cpc[c] # "waiting" \/ Store!Leaked \/ crashed
      \/ listener = "done" /\ conn[c] \in {"backlog", "lost"}

\* stop() returns, unless a request has failed in the store and left its mutex
\* locked.
StopReturns == main = "stopping" /\ ~crashed ~> main = "stopped" \/ Store!Leaked \/ crashed

=============================================================================
