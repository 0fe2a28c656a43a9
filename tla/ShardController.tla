-------------------------- MODULE ShardController --------------------------
(***************************************************************************)
(* The connection handling of the shard controller of                      *)
(* kvstore/shardcontroller/static_shardcontroller.{hpp,cpp}: the thread    *)
(* that runs start() and stop(), the listener thread, and one detached     *)
(* thread of handle_client per connection.  The threads share              *)
(* current_conns under conns_mtx, and stop() waits on conns_cv until the   *)
(* last connection is gone.                                                *)
(*                                                                         *)
(* What a request does is left out: Query, Join and Leave answer true      *)
(* without touching the configuration, and Move finds it empty.  Sockets   *)
(* and clients are modelled from how net/network_conn.cpp uses them.       *)
(***************************************************************************)
EXTENDS Integers, FiniteSets

CONSTANTS Clients,      \* one connection each
          ReqPerConn,   \* bound: requests a client sends on its connection
          AcceptErrors  \* may accept_client fail while the socket is open?

VARIABLES
  main,           \* where the thread that runs start() and stop() is
  is_stopped,
  listening,      \* is the listener socket open for connections?
  listener,       \* the listener thread: "none", "loop", "accept", "lock", "push", "done"
  accepted,       \* the connection the listener is registering, {} or {c}
  current_conns,  \* the registered connections
  conns_mtx,      \* who holds conns_mtx: {}, {"listener"}, {"stop"} or {c}
  notified,       \* has conns_cv been notified since stop() began to wait?
  hpc,            \* [Clients -> ...], where the thread of handle_client is
  is_connected,   \* [Clients -> BOOLEAN], ClientConn::is_connected
  fd,             \* [Clients -> ...], the server's socket of the connection; "lost" is
                  \* an open descriptor that no variable holds
  wire,           \* [Clients -> {"empty", "request", "response"}]
  cpc,            \* [Clients -> ...], where the client is
  sent            \* [Clients -> 0..ReqPerConn]

mainVars == <<main, is_stopped, listening>>
listenerVars == <<listener, accepted>>
sharedVars == <<current_conns, conns_mtx, notified>>
connVars == <<is_connected, fd>>
clientVars == <<cpc, sent>>

controllerVars == <<mainVars, listenerVars, sharedVars, hpc, connVars, wire, clientVars>>

ControllerInit ==
  /\ main = "init" /\ is_stopped = FALSE /\ listening = FALSE
  /\ listener = "none" /\ accepted = {}
  /\ current_conns = {} /\ conns_mtx = {} /\ notified = FALSE
  /\ hpc = [c \in Clients |-> "none"]
  /\ is_connected = [c \in Clients |-> FALSE]
  /\ fd = [c \in Clients |-> "none"]
  /\ wire = [c \in Clients |-> "empty"]
  /\ cpc = [c \in Clients |-> "start"]
  /\ sent = [c \in Clients |-> 0]

-----------------------------------------------------------------------------
(* start() and stop() *)

Start ==
  /\ main = "init"
  /\ main' = "running" /\ listening' = TRUE
  /\ listener' = "loop"
  /\ UNCHANGED <<is_stopped, accepted, sharedVars, hpc, connVars, wire, clientVars>>

Stop ==
  /\ main = "running"
  /\ main' = "stopping" /\ is_stopped' = TRUE
  /\ UNCHANGED <<listening, listenerVars, sharedVars, hpc, connVars, wire, clientVars>>

\* Connections nobody has accepted are reset.
ShutdownListener ==
  /\ main = "stopping"
  /\ main' = "join" /\ listening' = FALSE
  /\ fd' = [c \in Clients |-> IF fd[c] = "backlog" THEN "reset" ELSE fd[c]]
  /\ UNCHANGED <<is_stopped, listenerVars, sharedVars, hpc, is_connected, wire, clientVars>>

\* The listener is joined, then conns_mtx is locked.
JoinListener ==
  /\ main = "join"
  /\ listener = "done"
  /\ conns_mtx = {}
  /\ conns_mtx' = {"stop"}
  /\ main' = "shut"
  /\ UNCHANGED <<is_stopped, listening, listenerVars, current_conns, notified, hpc, connVars,
                 wire, clientVars>>

\* ClientConn::shutdown, of a connection that is still connected.
ShutdownConns(cs) ==
  /\ is_connected' = [c \in Clients |-> is_connected[c] /\ c \notin cs]
  /\ fd' = [c \in Clients |-> IF c \in cs /\ is_connected[c] THEN "shut" ELSE fd[c]]

\* conns_cv.wait tests its predicate with the mutex held: stop() returns, or it
\* unlocks the mutex and waits.
TestEmpty ==
  /\ main' = IF current_conns = {} THEN "stopped" ELSE "waiting"
  /\ conns_mtx' = {}
  /\ notified' = FALSE

\* Every registered connection is shut down, then the wait begins.
ShutdownAll ==
  /\ main = "shut"
  /\ ShutdownConns(current_conns)
  /\ TestEmpty
  /\ UNCHANGED <<is_stopped, listening, listenerVars, current_conns, hpc, wire, clientVars>>

\* Mutant of Wake: the wait does not test its predicate again.
WakeUntested ==
  /\ main = "waiting"
  /\ conns_mtx = {}
  /\ main' = "stopped"
  /\ UNCHANGED <<is_stopped, listening, listenerVars, sharedVars, hpc, connVars, wire, clientVars>>

\* The wait ends after a notification and tests again.
Wake ==
  /\ main = "waiting"
  /\ notified
  /\ conns_mtx = {}
  /\ TestEmpty
  /\ UNCHANGED <<is_stopped, listening, listenerVars, current_conns, hpc, connVars, wire,
                 clientVars>>

\* A condition variable may also wake without one.
SpuriousWake ==
  /\ main = "waiting"
  /\ ~notified
  /\ conns_mtx = {}
  /\ TestEmpty
  /\ UNCHANGED <<is_stopped, listening, listenerVars, current_conns, hpc, connVars, wire,
                 clientVars>>

-----------------------------------------------------------------------------
(* accept_clients_loop *)

AcceptLoop ==
  /\ listener = "loop"
  /\ listener' = IF is_stopped THEN "done" ELSE "accept"
  /\ UNCHANGED <<mainVars, accepted, sharedVars, hpc, connVars, wire, clientVars>>

Accept ==
  /\ listener = "accept"
  /\ listening
  /\ \E c \in Clients :
       /\ fd[c] = "backlog"
       /\ fd' = [fd EXCEPT ![c] = "open"]
       /\ is_connected' = [is_connected EXCEPT ![c] = TRUE]
       /\ accepted' = {c}
  /\ listener' = "lock"
  /\ UNCHANGED <<mainVars, sharedVars, hpc, wire, clientVars>>

\* accept() fails, always once the socket is shut down: the thread ends for good.
AcceptFails ==
  /\ listener = "accept"
  /\ ~listening \/ AcceptErrors
  /\ listener' = "done"
  /\ UNCHANGED <<mainVars, accepted, sharedVars, hpc, connVars, wire, clientVars>>

\* accept() succeeds and getnameinfo fails: accept_client returns a null pointer
\* without closing the descriptor, and the listener thread ends for good.
AcceptLoses ==
  /\ listener = "accept"
  /\ listening
  /\ AcceptErrors
  /\ \E c \in Clients :
       /\ fd[c] = "backlog"
       /\ fd' = [fd EXCEPT ![c] = "lost"]
  /\ listener' = "done"
  /\ UNCHANGED <<mainVars, accepted, sharedVars, hpc, is_connected, wire, clientVars>>

\* Mutant of Spawn: the thread is created before conns_mtx is locked.
SpawnUnlocked ==
  /\ listener = "lock"
  /\ hpc' = [c \in Clients |-> IF c \in accepted THEN "loop" ELSE hpc[c]]
  /\ listener' = "push"
  /\ UNCHANGED <<mainVars, accepted, sharedVars, connVars, wire, clientVars>>

\* conns_mtx is locked and the thread of the connection is created ...
Spawn ==
  /\ listener = "lock"
  /\ conns_mtx = {}
  /\ conns_mtx' = {"listener"}
  /\ hpc' = [c \in Clients |-> IF c \in accepted THEN "loop" ELSE hpc[c]]
  /\ listener' = "push"
  /\ UNCHANGED <<mainVars, accepted, current_conns, notified, connVars, wire, clientVars>>

\* ... and runs already when the connection is registered.
Register ==
  /\ listener = "push"
  /\ current_conns' = current_conns \cup accepted
  /\ accepted' = {}
  /\ conns_mtx' = conns_mtx \ {"listener"}
  /\ listener' = "loop"
  /\ UNCHANGED <<mainVars, notified, hpc, connVars, wire, clientVars>>

-----------------------------------------------------------------------------
(* handle_client *)

MoveTo(c, to) == hpc' = [hpc EXCEPT ![c] = to]

HandleLoop(c) ==
  /\ hpc[c] = "loop"
  /\ MoveTo(c, IF ~is_stopped /\ is_connected[c] THEN "recv" ELSE "shut")
  /\ UNCHANGED <<mainVars, listenerVars, sharedVars, connVars, wire, clientVars>>

\* recv_request, and process_request with its answer.
Receive(c) ==
  /\ hpc[c] = "recv"
  /\ wire[c] = "request"
  /\ wire' = [wire EXCEPT ![c] = "empty"]
  /\ MoveTo(c, "send")
  /\ UNCHANGED <<mainVars, listenerVars, sharedVars, connVars, clientVars>>

\* recv_request fails: the client has closed its end or the socket is shut down.
ReceiveEof(c) ==
  /\ hpc[c] = "recv"
  /\ wire[c] # "request"
  /\ cpc[c] = "closed" \/ fd[c] = "shut"
  /\ MoveTo(c, "shut")
  /\ UNCHANGED <<mainVars, listenerVars, sharedVars, connVars, wire, clientVars>>

Send(c) ==
  /\ hpc[c] = "send"
  /\ fd[c] = "open"
  /\ wire' = [wire EXCEPT ![c] = "response"]
  /\ MoveTo(c, "loop")
  /\ UNCHANGED <<mainVars, listenerVars, sharedVars, connVars, clientVars>>

SendFails(c) ==
  /\ hpc[c] = "send"
  /\ cpc[c] = "closed" \/ fd[c] = "shut"
  /\ MoveTo(c, "shut")
  /\ UNCHANGED <<mainVars, listenerVars, sharedVars, connVars, wire, clientVars>>

ShutdownClient(c) ==
  /\ hpc[c] = "shut"
  /\ ShutdownConns({c})
  /\ MoveTo(c, "lock")
  /\ UNCHANGED <<mainVars, listenerVars, sharedVars, wire, clientVars>>

LockConns(c) ==
  /\ hpc[c] = "lock"
  /\ conns_mtx = {}
  /\ conns_mtx' = {c}
  /\ MoveTo(c, "erase")
  /\ UNCHANGED <<mainVars, listenerVars, current_conns, notified, connVars, wire, clientVars>>

\* Mutant of Erase: nobody is notified.
EraseSilently(c) ==
  /\ hpc[c] = "erase"
  /\ current_conns' = current_conns \ {c}
  /\ conns_mtx' = {}
  /\ MoveTo(c, "done")
  /\ UNCHANGED <<mainVars, listenerVars, notified, connVars, wire, clientVars>>

\* The connection is unregistered and the last one notifies stop(); then the
\* lock and the last reference to the connection are dropped.  The destructor of
\* ClientConn closes a socket that is still connected.
Erase(c) ==
  /\ hpc[c] = "erase"
  /\ current_conns' = current_conns \ {c}
  /\ notified' = (notified \/ (current_conns' = {} /\ main = "waiting"))
  /\ conns_mtx' = {}
  /\ fd' = [fd EXCEPT ![c] = IF is_connected[c] THEN "closed" ELSE @]
  /\ MoveTo(c, "done")
  /\ UNCHANGED <<mainVars, listenerVars, is_connected, wire, clientVars>>

-----------------------------------------------------------------------------
(* The clients: a server that joins, leaves and queries, or a ShardKvClient *)

Connect(c) ==
  /\ cpc[c] = "start"
  /\ listening
  /\ cpc' = [cpc EXCEPT ![c] = "ready"]
  /\ fd' = [fd EXCEPT ![c] = "backlog"]
  /\ UNCHANGED <<mainVars, listenerVars, sharedVars, hpc, is_connected, wire, sent>>

SendRequest(c) ==
  /\ cpc[c] = "ready"
  /\ sent[c] < ReqPerConn
  /\ fd[c] \in {"backlog", "open", "lost"}
  /\ wire' = [wire EXCEPT ![c] = "request"]
  /\ sent' = [sent EXCEPT ![c] = @ + 1]
  /\ cpc' = [cpc EXCEPT ![c] = "waiting"]
  /\ UNCHANGED <<mainVars, listenerVars, sharedVars, hpc, connVars>>

ReceiveResponse(c) ==
  /\ cpc[c] = "waiting"
  /\ wire[c] = "response"
  /\ wire' = [wire EXCEPT ![c] = "empty"]
  /\ cpc' = [cpc EXCEPT ![c] = "ready"]
  /\ UNCHANGED <<mainVars, listenerVars, sharedVars, hpc, connVars, sent>>

\* The connection has ended under the client.
ReceiveFails(c) ==
  /\ cpc[c] = "waiting"
  /\ wire[c] # "response"
  /\ fd[c] \in {"reset", "shut", "closed"}
  /\ cpc' = [cpc EXCEPT ![c] = "closed"]
  /\ UNCHANGED <<mainVars, listenerVars, sharedVars, hpc, connVars, wire, sent>>

CloseClient(c) ==
  /\ cpc[c] = "ready"
  /\ cpc' = [cpc EXCEPT ![c] = "closed"]
  /\ UNCHANGED <<mainVars, listenerVars, sharedVars, hpc, connVars, wire, sent>>

-----------------------------------------------------------------------------
StopStep == ShutdownListener \/ JoinListener \/ ShutdownAll \/ Wake
ListenerStep == AcceptLoop \/ Accept \/ AcceptFails \/ AcceptLoses \/ Spawn \/ Register
HandlerStep(c) ==
  \/ HandleLoop(c) \/ Receive(c) \/ ReceiveEof(c) \/ Send(c) \/ SendFails(c)
  \/ ShutdownClient(c) \/ LockConns(c) \/ Erase(c)
ClientStep(c) ==
  \/ Connect(c) \/ SendRequest(c) \/ ReceiveResponse(c) \/ ReceiveFails(c) \/ CloseClient(c)

Over == main = "stopped" /\ UNCHANGED controllerVars

ControllerNext ==
  \/ Start \/ Stop \/ StopStep \/ SpuriousWake \/ ListenerStep \/ Over
  \/ \E c \in Clients : HandlerStep(c) \/ ClientStep(c)

\* Every thread of the controller that can run does; nothing is assumed of the
\* clients, and no thread relies on a spurious wake-up.
ControllerFairness ==
  /\ WF_controllerVars(StopStep)
  /\ WF_controllerVars(ListenerStep)
  /\ \A c \in Clients : WF_controllerVars(HandlerStep(c))

ControllerSpec == ControllerInit /\ [][ControllerNext]_controllerVars /\ ControllerFairness

-----------------------------------------------------------------------------
(* Properties *)

\* handle_client always finds its connection among current_conns ("Connection
\* should not already be removed"), although its thread runs before the listener
\* has registered the connection.
EraseFindsItsConnection == \A c \in Clients : hpc[c] = "erase" => c \in current_conns

\* When stop() returns no detached thread is left that could still use the
\* controller, and no connection is open but the one that accept_client has lost,
\* if it has lost one: every other that was accepted a handler has shut down.
NoThreadOutlivesStop ==
  main = "stopped" =>
    /\ \A c \in Clients : hpc[c] \in {"none", "done"} /\ fd[c] \notin {"backlog", "open"}
    /\ \A c, d \in Clients : fd[c] = "lost" /\ fd[d] = "lost" => c = d

\* stop() returns, whatever the clients do: an idle client does not keep it.
StopReturns == main = "stopping" ~> main = "stopped"

=============================================================================
