----------------------------- MODULE KvNetwork -----------------------------
(***************************************************************************)
(* Calls between the kvstore programs over TCP streams: the framing of     *)
(* net/network_messages.cpp over the partial transfers, timeouts and       *)
(* closed sockets of net/network_helpers.cpp, and the programs that use    *)
(* it: the server's configuration thread and its join and leave commands,  *)
(* the two clients, the shard controller's handlers and the server's       *)
(* workers.                                                                *)
(*                                                                         *)
(* A connection has a caller, which sends a request and waits for the      *)
(* response, and a handler.  A message in a stream is a head cell, of its  *)
(* type and its size, and as many data cells as the size says.  Type and   *)
(* size are sent and received one after the other without a timeout: an    *)
(* end that closes between them has the effect of one that closes before.  *)
(* A receiver that takes other bytes for a head reads arbitrary values.    *)
(***************************************************************************)
EXTENDS KvCommands, FiniteSets

CONSTANTS PayloadLen,    \* data cells of a message that is not empty
          MaxFailures,   \* the 100 of process_config_loop
          Misread,       \* bound: values of a type field read from other bytes
          CallsAfterCut, \* bound: calls on a connection after a timeout on it
          Groups         \* sets of connections that are used together; bound: timeouts
                         \* happen on a connection that is used alone


Conns == {"querier", "admin", "client", "simple"}
Sides == {"caller", "handler"}
Other(s) == IF s = "caller" THEN "handler" ELSE "caller"

\* The process at each end.
Caller == [querier |-> "server", admin |-> "server", client |-> "client", simple |-> "simple"]
Handler == [querier |-> "controller", admin |-> "controller", client |-> "controller",
            simple |-> "server"]
Proc(c, s) == IF s = "caller" THEN Caller[c] ELSE Handler[c]
Procs == {"server", "controller", "client", "simple"}

KvTypes == {"GET", "PUT", "APPEND", "DELETE", "MULTI_GET", "MULTI_PUT"}
ControllerTypes == {"JOIN", "LEAVE", "MOVE", "QUERY"}
MessageType == KvTypes \cup ControllerTypes \cup {"ERROR"}

ASSUME NetworkAssumption ==
  /\ PayloadLen \in Nat \ {0} /\ MaxFailures \in Nat /\ CallsAfterCut \in Nat
  /\ Misread \subseteq MessageType \cup {"invalid"} /\ Groups \subseteq SUBSET Conns

VARIABLES
  active,         \* the connections in use
  sock,           \* [Conns -> [Sides -> {"open", "shut"}]]
  stream,         \* [Conns -> [Sides -> Seq(cells)]], on the way to that side
  ep,             \* [Conns -> [Sides -> ...]], where each side is in a message
  call,           \* [Conns -> ...], what the line just read leads to
  asked,          \* [Conns -> MessageType], the request of the call
  cut,            \* [Conns -> BOOLEAN], has a transfer timed out in a payload?
  late,           \* [Conns -> 0..CallsAfterCut], calls since then
  died,           \* [Procs -> {"no", "exit", "SIGPIPE", "exception", "undefined"}]
  qpc,            \* the thread of process_config_loop
  failure_count,
  config_mtx,     \* is config_mtx held exclusively?
  leaked,         \* has a failed operation left the mutex of the store locked?
  main,           \* the thread of the server that runs the Repl and then stop()
  is_stopped

connVars == <<sock, stream, ep, cut, late>>
serverVars == <<qpc, failure_count, config_mtx, leaked, main, is_stopped>>
vars == <<active, connVars, call, asked, died, serverVars>>

\* Is the server started with a shard controller?
Distributed == "querier" \in active
Alive(p) == died[p] = "no"

At(at) == [at |-> at, type |-> "ERROR", size |-> 0, left |-> 0, whole |-> TRUE]

\* serialize_request and serialize_response: the empty structs give no payload.
SizeOfRequest(type) == IF type = "QUERY" THEN 0 ELSE PayloadLen
SizeOfResponse(type) ==
  IF type \in {"PUT", "APPEND", "MULTI_PUT", "JOIN", "LEAVE", "MOVE"} THEN 0 ELSE PayloadLen

\* send_request and send_response.
Sending(s, type) ==
  LET size == IF s = "caller" THEN SizeOfRequest(type) ELSE SizeOfResponse(type)
  IN  [at |-> "send_head", type |-> type, size |-> size, left |-> size, whole |-> TRUE]

\* The persistent connections have been made: a server or a client that cannot
\* make its own ends in start() or in its constructor.
Init ==
  /\ active \in Groups
  /\ sock = [c \in Conns |-> [s \in Sides |-> IF c = "simple" THEN "shut" ELSE "open"]]
  /\ stream = [c \in Conns |-> [s \in Sides |-> <<>>]]
  /\ ep = [c \in Conns |-> [s \in Sides |->
             At(IF s = "caller" THEN "idle" ELSE IF c = "simple" THEN "gone" ELSE "recv_head")]]
  /\ call = [c \in Conns |-> Usage]
  /\ asked = [c \in Conns |-> "QUERY"]
  /\ cut = [c \in Conns |-> FALSE]
  /\ late = [c \in Conns |-> 0]
  /\ died = [p \in Procs |-> "no"]
  /\ qpc = "loop" /\ failure_count = 0 /\ config_mtx = FALSE /\ leaked = FALSE
  /\ main = "repl" /\ is_stopped = FALSE

-----------------------------------------------------------------------------
(* sendall and recvall, send_message and recv_message *)

SetEp(c, s, e) == ep' = [ep EXCEPT ![c][s] = e]
Broken(c) == \E s \in Sides : sock[c][s] # "open"

\* The process ends, and the kernel closes its sockets.
Die(p, why) ==
  /\ died' = [died EXCEPT ![p] = why]
  /\ sock' = [c \in Conns |-> [s \in Sides |-> IF Proc(c, s) = p THEN "shut" ELSE sock[c][s]]]
  /\ ep' = [c \in Conns |-> [s \in Sides |-> IF Proc(c, s) = p THEN At("gone") ELSE ep[c][s]]]
  /\ UNCHANGED <<stream, cut, late>>

\* A field, or a piece of the payload, is sent.  Bytes for a peer that has closed
\* its end are lost.
SendCell(c, s, cell, e) ==
  /\ stream' = [stream EXCEPT ![c][Other(s)] =
                  IF sock[c][Other(s)] = "open" THEN Append(@, cell) ELSE @]
  /\ SetEp(c, s, e)
  /\ UNCHANGED <<sock, cut, late, died>>

\* The type and the size.  After its message a caller waits for the response, a
\* handler for the next request.
SendHead(c, s) ==
  /\ ep[c][s].at = "send_head"
  /\ SendCell(c, s, <<"head", ep[c][s].type, ep[c][s].size>>,
              IF ep[c][s].size = 0 THEN At("recv_head") ELSE [ep[c][s] EXCEPT !.at = "send_data"])

SendData(c, s) ==
  /\ ep[c][s].at = "send_data"
  /\ SendCell(c, s, <<"data">>,
              IF ep[c][s].left = 1 THEN At("recv_head") ELSE [ep[c][s] EXCEPT !.left = @ - 1])

Sends == {"send_head", "send_data"}
Recvs == {"recv_head", "recv_data"}

\* Once an end is closed send() fails, and recv() does after the last byte.
TransferFails(c, s) ==
  /\ Broken(c)
  /\ \/ ep[c][s].at \in Sends
     \/ ep[c][s].at \in Recvs /\ stream[c][s] = <<>>
  /\ SetEp(c, s, At("failed"))
  /\ UNCHANGED <<sock, stream, cut, late, died>>

\* The payload is sent without MSG_NOSIGNAL: the process is killed.
SendKills(c, s) ==
  /\ ep[c][s].at = "send_data"
  /\ Broken(c)
  /\ Die(Proc(c, s), "SIGPIPE")

\* The clock is only looked at between two pieces of a payload.
TimesOut(c, s) ==
  /\ active = {c}
  /\ ep[c][s].at \in {"send_data", "recv_data"}
  /\ ep[c][s].left < ep[c][s].size
  /\ SetEp(c, s, At("failed"))
  /\ cut' = [cut EXCEPT ![c] = TRUE]
  /\ UNCHANGED <<sock, stream, late, died>>

Consume(c, s) ==
  /\ stream[c][s] # <<>>
  /\ stream' = [stream EXCEPT ![c][s] = Tail(@)]
  /\ UNCHANGED <<sock, cut, late, died>>

RecvHead(c, s) ==
  /\ ep[c][s].at = "recv_head"
  /\ Consume(c, s)
  /\ LET cell == Head(stream[c][s])
         read == IF cell[1] = "head" THEN {<<cell[2], cell[3]>>} ELSE Misread \X (0 .. PayloadLen)
     IN  \E h \in read :
           SetEp(c, s, [at |-> IF h[2] = 0 THEN "got" ELSE "recv_data", type |-> h[1],
                        size |-> h[2], left |-> h[2], whole |-> cell[1] = "head"])

\* Mutant of RecvData: one recv() is taken for the whole payload.
RecvOnce(c, s) ==
  /\ ep[c][s].at = "recv_data"
  /\ Consume(c, s)
  /\ SetEp(c, s, [ep[c][s] EXCEPT !.at = "got"])

RecvData(c, s) ==
  /\ ep[c][s].at = "recv_data"
  /\ Consume(c, s)
  /\ SetEp(c, s, [ep[c][s] EXCEPT !.at = IF ep[c][s].left = 1 THEN "got" ELSE @, !.left = @ - 1,
                                  !.whole = @ /\ Head(stream[c][s])[1] = "data"])

-----------------------------------------------------------------------------
(* recv_request and recv_response *)

\* What the bytes of a payload deserialise to: those of another type may be refused.
Deserialised(e) == IF e.whole THEN {e.type} ELSE {e.type, "none"}

\* Both throw for a value that is no message type; requests know no ERROR.
deserialize_request(e) == IF e.type \in {"invalid", "ERROR"} THEN {"throw"} ELSE Deserialised(e)
deserialize_response(e) == IF e.type = "invalid" THEN {"throw"} ELSE Deserialised(e)

recv_request(e) == IF e.at = "failed" THEN {"none"} ELSE deserialize_request(e)
recv_response(e) == IF e.at = "failed" THEN {"none"} ELSE deserialize_response(e)

Ended(c, s) == ep[c][s].at \in {"got", "failed"}

-----------------------------------------------------------------------------
(* The handlers *)

\* A handler that cannot receive or send shuts its connection down.  The server
\* accepts the next connection of a simple client then.
HandlerEnds(c) ==
  /\ sock' = [sock EXCEPT ![c].handler = "shut"]
  /\ SetEp(c, "handler", At("gone"))
  /\ UNCHANGED <<stream, cut, late, died>>

Respond(c, type) ==
  /\ SetEp(c, "handler", Sending("handler", type))
  /\ UNCHANGED <<sock, stream, cut, late, died>>

\* Query, Join and Leave do not touch the configuration, so it stays empty and Move
\* finds no server to take shards from: all four answer true.
ShardControllerAnswer(type) == type

\* StaticShardController::process_request.  A request of the server's throws.
ControllerAnswers(c) ==
  /\ Handler[c] = "controller"
  /\ \E o \in recv_request(ep[c].handler) :
       CASE o = "none"               -> HandlerEnds(c)
         [] o \in ControllerTypes    -> Respond(c, ShardControllerAnswer(o))
         [] OTHER                    -> Die("controller", "exception")
  /\ UNCHANGED <<active, call, asked, serverVars>>

\* ShardControllerConfig::get_server finds no server for any key.
get_server == "nullopt"

\* With a shard controller, config_mtx is taken shared to look for the server.
responsible_for == ~Distributed \/ get_server = "this"

\* The store of the server is a SimpleKvStore.  An operation that misses a key
\* answers false and leaves the mutex locked: the next operation never gets it.  The
\* commands give MultiPut as many values as keys.
StoreAnswers(c, o) ==
  /\ ~leaked
  /\ \/ Respond(c, o) /\ UNCHANGED leaked
     \/ o \in {"GET", "DELETE", "MULTI_GET"} /\ Respond(c, "ERROR") /\ leaked' = TRUE

\* KvServer::process_request.  A request of the controller's throws.
ServerAnswers(c) ==
  /\ Handler[c] = "server"
  /\ \E o \in recv_request(ep[c].handler) :
       CASE o = "none"    -> HandlerEnds(c) /\ UNCHANGED leaked
         [] o \in KvTypes -> /\ Distributed => ~config_mtx
                             /\ \/ responsible_for /\ StoreAnswers(c, o)
                                \/ ~responsible_for /\ Respond(c, "ERROR") /\ UNCHANGED leaked
         [] OTHER         -> Die("server", "exception") /\ UNCHANGED leaked
  /\ UNCHANGED <<active, call, asked, qpc, failure_count, config_mtx, main, is_stopped>>

Handle(c) == Ended(c, "handler") /\ (ControllerAnswers(c) \/ ServerAnswers(c))

-----------------------------------------------------------------------------
(* The callers *)

\* The simple client asks the server.
SimpleClient(op) == IF op \in KvTypes THEN op ELSE "none"

\* The sharded client asks the controller for the configuration before it looks for
\* the server of a key, and finds none; MultiGet and MultiPut ask nobody.
ShardKvClient(op) ==
  CASE op \in {"GET", "PUT", "APPEND", "DELETE", "QUERY"} -> "QUERY"
    [] op = "MOVE"                                        -> "MOVE"
    [] OTHER                                              -> "none"

\* KvServer::Join and Leave.
ServerCall(op) == IF op \in {"JOIN", "LEAVE"} THEN op ELSE "none"

RequestOf(program, does) ==
  CASE program = "simple" -> SimpleClient(does.op)
    [] program = "client" -> ShardKvClient(does.op)
    [] program = "server" -> ServerCall(does.op)

TypedBy == [p \in Procs \ {"controller"} |-> Typed(p)]

\* Is the thread that reads the lines of this program free?
Reading(c) == ep[c].caller.at = "idle" /\ (c = "admin" => main = "repl")

\* Calls that end the program: GDPRDelete of the sharded client asserts false, and
\* a move with half a shard may do anything.
Fatal(c) == c = "client" /\ call[c].op \in {"GDPR", "undefined"}

\* A persistent connection is used again, also after a transfer was cut short.
Reuse(c) ==
  /\ cut[c] => late[c] < CallsAfterCut
  /\ late' = [late EXCEPT ![c] = IF cut[c] THEN @ + 1 ELSE @]

\* Repl::run reads a line: process_line.
ReadLine(c) ==
  /\ Reading(c) /\ call[c] = Usage
  /\ \E does \in TypedBy[Caller[c]] : call' = [call EXCEPT ![c] = does]
  /\ UNCHANGED <<active, connVars, asked, died, serverVars>>

\* A call that makes no request: of an object that answers at once, or of a simple
\* client that cannot connect.
CallLocal(c) ==
  /\ Reading(c) /\ call[c].op \notin {"usage", "undefined"}
  /\ \/ RequestOf(Caller[c], call[c]) = "none" /\ ~Fatal(c)
     \/ c = "simple" /\ (~Alive("server") \/ is_stopped)
  /\ call' = [call EXCEPT ![c] = Usage]
  /\ UNCHANGED <<active, connVars, asked, died, serverVars>>

\* A call over the persistent connection of a program.
Call(c) ==
  /\ c \in {"admin", "client"}
  /\ Reading(c)
  /\ LET type == RequestOf(Caller[c], call[c]) IN
       /\ type # "none"
       /\ asked' = [asked EXCEPT ![c] = type]
       /\ SetEp(c, "caller", Sending("caller", type))
  /\ call' = [call EXCEPT ![c] = Usage]
  /\ Reuse(c)
  /\ UNCHANGED <<active, sock, stream, cut, died, serverVars>>

\* A simple client connects for every call, if the server listens.
CallSimple ==
  /\ Reading("simple")
  /\ ep["simple"].handler.at = "gone"
  /\ Alive("server") /\ ~is_stopped
  /\ LET type == RequestOf("simple", call["simple"]) IN
       /\ type # "none"
       /\ asked' = [asked EXCEPT !["simple"] = type]
       /\ ep' = [ep EXCEPT !["simple"] = [s \in Sides |->
                   IF s = "caller" THEN Sending("caller", type) ELSE At("recv_head")]]
  /\ call' = [call EXCEPT !["simple"] = Usage]
  /\ sock' = [sock EXCEPT !["simple"] = [s \in Sides |-> "open"]]
  /\ stream' = [stream EXCEPT !["simple"] = [s \in Sides |-> <<>>]]
  /\ cut' = [cut EXCEPT !["simple"] = FALSE]
  /\ UNCHANGED <<active, late, died, serverVars>>

\* The program ends instead.
CallFatal(c) ==
  /\ Reading(c) /\ Fatal(c)
  /\ Die(Caller[c], "undefined")
  /\ UNCHANGED <<active, call, asked, serverVars>>

\* The call returns to the Repl, which also catches what it throws.  The
\* connection of a simple client is shut down with its ServerConn.
ReturnToRepl(c) ==
  /\ c # "querier"
  /\ Ended(c, "caller")
  /\ SetEp(c, "caller", At("idle"))
  /\ sock' = IF c = "simple" THEN [sock EXCEPT ![c].caller = "shut"] ELSE sock
  /\ UNCHANGED <<active, call, asked, stream, cut, late, died, serverVars>>

\* process_config_loop, and the query of process_config under config_mtx.
QuerierLoop ==
  /\ qpc = "loop"
  /\ qpc' = IF is_stopped THEN "done" ELSE "lock"
  /\ UNCHANGED <<active, connVars, call, asked, died, failure_count, config_mtx, leaked, main, is_stopped>>

QuerierAsks ==
  /\ qpc = "lock"
  /\ qpc' = "query"
  /\ config_mtx' = TRUE
  /\ asked' = [asked EXCEPT !["querier"] = "QUERY"]
  /\ SetEp("querier", "caller", Sending("caller", "QUERY"))
  /\ Reuse("querier")
  /\ UNCHANGED <<active, sock, stream, cut, call, died, failure_count, leaked, main, is_stopped>>

\* Mutant of QuerierReturns: a failed round leaves the mutex locked.
QuerierKeepsLock ==
  /\ qpc = "query"
  /\ Ended("querier", "caller")
  /\ LET ok == ep["querier"].caller.at = "got" IN
       /\ config_mtx' = ~ok
       /\ failure_count' = IF ok THEN 0 ELSE failure_count + 1
       /\ qpc' = IF failure_count' > MaxFailures THEN "done" ELSE "loop"
       /\ SetEp("querier", "caller", At("idle"))
  /\ UNCHANGED <<active, sock, stream, cut, late, died, call, asked, leaked, main, is_stopped>>

\* The configuration in the answer is not used.  Nothing catches an exception here.
QuerierReturns ==
  /\ qpc = "query"
  /\ Ended("querier", "caller")
  /\ config_mtx' = FALSE
  /\ \E o \in recv_response(ep["querier"].caller) :
       IF o = "throw"
       THEN Die("server", "exception") /\ UNCHANGED <<failure_count, qpc>>
       ELSE /\ failure_count' = IF o = "QUERY" THEN 0 ELSE failure_count + 1
            /\ qpc' = IF failure_count' > MaxFailures THEN "done" ELSE "loop"
            /\ SetEp("querier", "caller", At("idle"))
            /\ UNCHANGED <<sock, stream, cut, late, died>>
  /\ UNCHANGED <<active, call, asked, leaked, main, is_stopped>>

-----------------------------------------------------------------------------
(* The ends of the programs *)

\* Mutant of StopServer: is_stopped is not set.
StopServerUnseen ==
  /\ main = "repl" /\ Reading("admin") /\ call["admin"] = Usage
  /\ main' = "join"
  /\ UNCHANGED <<active, connVars, call, asked, died, qpc, failure_count, config_mtx, leaked, is_stopped>>

\* The end of the server's input: stop().
StopServer ==
  /\ main = "repl" /\ Reading("admin") /\ call["admin"] = Usage
  /\ main' = "join" /\ is_stopped' = TRUE
  /\ UNCHANGED <<active, connVars, call, asked, died, qpc, failure_count, config_mtx, leaked>>

\* The workers and the querier are joined, and the process ends.
ServerStopped ==
  /\ main = "join"
  /\ "simple" \in active => ep["simple"].handler.at = "gone"
  /\ Distributed => qpc = "done"
  /\ main' = "stopped"
  /\ Die("server", "exit")
  /\ UNCHANGED <<active, call, asked, qpc, failure_count, config_mtx, leaked, is_stopped>>

\* The sharded client or the controller ends; the controller shuts down the
\* connections of all its clients.
Exit(p) ==
  /\ Alive(p)
  /\ p = "client" => Reading("client") /\ call["client"] = Usage
  /\ Die(p, "exit")
  /\ UNCHANGED <<active, call, asked, serverVars>>

-----------------------------------------------------------------------------
Transfer(c, s) ==
  /\ \/ SendHead(c, s) \/ SendData(c, s) \/ RecvHead(c, s) \/ RecvData(c, s)
     \/ TransferFails(c, s) \/ SendKills(c, s) \/ TimesOut(c, s)
  /\ UNCHANGED <<active, call, asked, serverVars>>

Querier == Alive("server") /\ (QuerierLoop \/ QuerierAsks \/ QuerierReturns)

\* The threads at the two ends of a connection.
CallerStep(c) ==
  c \in active /\ (Transfer(c, "caller") \/ ReturnToRepl(c) \/ (c = "querier" /\ Querier))
HandlerStep(c) == c \in active /\ (Transfer(c, "handler") \/ Handle(c))
ReplStep(c) == c \in active /\ (ReadLine(c) \/ CallLocal(c) \/ Call(c) \/ CallFatal(c))

Next ==
  \/ \E c \in Conns : CallerStep(c) \/ HandlerStep(c)
  \/ \E c \in Conns \ {"querier"} : ReplStep(c)
  \/ "simple" \in active /\ CallSimple
  \/ Alive("server") /\ (StopServer \/ ServerStopped)
  \/ Exit("controller")
  \/ "client" \in active /\ Exit("client")

\* Every thread in a call, and every handler, goes on if it can.  A worker that
\* wants config_mtx gets it in the end: the querier sleeps between two rounds with
\* the mutex free.
Fairness ==
  /\ \A c \in Conns : WF_vars(CallerStep(c))
  /\ \A c \in Conns : SF_vars(HandlerStep(c))
  /\ WF_vars(Alive("server") /\ ServerStopped)

Spec == Init /\ [][Next]_vars /\ Fairness

-----------------------------------------------------------------------------
(* Properties *)

\* As long as no transfer on a connection has timed out inside a payload, a
\* response that recv_response returns is the whole answer to the request of this
\* call, and nothing of another message is left in either stream: framing survives
\* partial transfers, failures and the deaths of other processes.  And an
\* exception ends a process only after such a timeout: the caller goes on using the
\* connection, whose next bytes are then the rest of the old message.
AnswersMatch ==
  /\ \A c \in active :
       ep[c].caller.at = "got" /\ ~cut[c] =>
         /\ ep[c].caller.whole
         /\ ep[c].caller.type \in {asked[c], "ERROR"}
         /\ stream[c].caller = <<>> /\ stream[c].handler = <<>>
  /\ \A p \in Procs : died[p] = "exception" =>
       \E c \in active : cut[c] /\ p \in {Caller[c], Handler[c]}

Cut == \E c \in active : cut[c]
Calling(c) == ep[c].caller.at \in Sends \cup Recvs

\* Does the worker wait for the mutex that a failed operation of the store kept?
Stuck == leaked /\ ep["simple"].handler.at = "got"

\* A call returns, whoever exits or dies meanwhile, unless a transfer was cut
\* short: the header is awaited without a timeout, so a caller that misreads a
\* size waits for bytes nobody sends.  The calls of a simple client wait for the
\* mutex that the server's querier holds during its own call, and they alone wait
\* for ever after a call that found no key: the store's mutex is then still locked.
CallsReturn ==
  \A c \in Conns :
    c \in active /\ Calling(c) ~> ~Calling(c) \/ Cut \/ (c = "simple" /\ Stuck)

\* stop() returns, unless a transfer was cut short, the server dies before, or a
\* worker waits for the mutex of the store, where stop() joins it for ever.
StopReturns == main = "join" ~> main = "stopped" \/ Cut \/ died["server"] # "no" \/ Stuck

=============================================================================
