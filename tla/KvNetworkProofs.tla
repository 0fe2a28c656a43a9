-------------------------- MODULE KvNetworkProofs --------------------------
(***************************************************************************)
(* AnswersMatch, proved for every length of a payload, every bound of the  *)
(* failures and every set of connections that are used together.           *)
(*                                                                         *)
(* The invariant says of every connection without a timeout where its one  *)
(* message is: the cells in the stream and those the sender still has are  *)
(* what the receiver expects.  It speaks of the parts of one connection:   *)
(* ce and he are the ends of its caller and its handler, cq and hq the     *)
(* streams to them, ck and hk their sockets, and a is the request.         *)
(***************************************************************************)
EXTENDS KvNetwork, SequenceTheorems, TLAPS

Ats == {"idle", "gone", "failed", "got"} \cup Sends \cup Recvs
Types == MessageType \cup {"invalid"}
Ends == [at : Ats, type : Types, size : Int, left : Int, whole : BOOLEAN]
Cells == ({"head"} \X Types \X Int) \cup {<<"data">>}
Causes == {"no", "exit", "SIGPIPE", "exception", "undefined"}

TypeOK ==
  /\ active \subseteq Conns
  /\ sock \in [Conns -> [Sides -> {"open", "shut"}]]
  /\ stream \in [Conns -> [Sides -> Seq(Cells)]]
  /\ ep \in [Conns -> [Sides -> Ends]]
  /\ asked \in [Conns -> MessageType]
  /\ cut \in [Conns -> BOOLEAN]
  /\ died \in [Procs -> Causes]

-----------------------------------------------------------------------------
(* One message on its way *)

\* The cells a receiver of a message with n data cells has still to take, and the
\* cells a sender has still to give.
Expected(e, n) ==
  IF e.at = "recv_head" THEN n + 1 ELSE IF e.at = "recv_data" THEN e.left ELSE 0
ToSend(e) ==
  IF e.at = "send_head" THEN e.size + 1 ELSE IF e.at = "send_data" THEN e.left ELSE 0

\* The cells in q continue the message of this type and size where e is in it, and
\* are not more than its rest.
Receiving(e, q, type, n) ==
  /\ e.at \in {"recv_head", "recv_data", "got"}
  /\ e.at # "recv_head" => e.type = type /\ e.whole = TRUE
  /\ e.at = "recv_data" => e.left \in 1 .. n
  /\ \A i \in 1 .. Len(q) :
       q[i] = IF i = 1 /\ e.at = "recv_head" THEN <<"head", type, n>> ELSE <<"data">>
  /\ Len(q) <= Expected(e, n)

\* The sender d has the rest of the message that is not in q.
Flight(d, e, q, type, n) ==
  /\ Receiving(e, q, type, n)
  /\ d.at \in Sends \cup {"recv_head"}
  /\ d.at \in Sends => d.type = type /\ d.size = n
  /\ d.at = "send_head" => d.left = n
  /\ d.at = "send_data" => d.left \in 1 .. n
  /\ Len(q) + ToSend(d) = Expected(e, n)

\* A sender d gives a cell and is d1; a receiver e takes the first cell of q and is e1.
Gives(d, cell, d1) ==
  \/ /\ d.at = "send_head" /\ cell = <<"head", d.type, d.size>>
     /\ d1 = IF d.size = 0 THEN At("recv_head") ELSE [d EXCEPT !.at = "send_data"]
  \/ /\ d.at = "send_data" /\ cell = <<"data">>
     /\ d1 = IF d.left = 1 THEN At("recv_head") ELSE [d EXCEPT !.left = @ - 1]

TakesHead(e, cell, e1) ==
  /\ e.at = "recv_head"
  /\ \E h \in IF cell[1] = "head" THEN {<<cell[2], cell[3]>>} ELSE Misread \X (0 .. PayloadLen) :
       e1 = [at |-> IF h[2] = 0 THEN "got" ELSE "recv_data", type |-> h[1],
             size |-> h[2], left |-> h[2], whole |-> cell[1] = "head"]

TakesData(e, cell, e1) ==
  /\ e.at = "recv_data"
  /\ e1 = [e EXCEPT !.at = IF e.left = 1 THEN "got" ELSE @, !.left = @ - 1,
                    !.whole = @ /\ cell[1] = "data"]

Takes(e, q, e1) == q # <<>> /\ (TakesHead(e, Head(q), e1) \/ TakesData(e, Head(q), e1))

-----------------------------------------------------------------------------
(* One connection *)

Quiet(ce, he, cq, hq) ==
  ce.at = "idle" /\ he.at = "recv_head" /\ cq = <<>> /\ hq = <<>>
Requesting(ce, he, cq, hq, a) ==
  cq = <<>> /\ Flight(ce, he, hq, a, SizeOfRequest(a))
Answering(ce, he, cq, hq, a) ==
  hq = <<>> /\ \E t \in {a, "ERROR"} : Flight(he, ce, cq, t, SizeOfResponse(t))

\* The handler is gone: the caller sends into the void, or takes what there is of
\* the answer.
LostHandler(ce, cq, hq, a) ==
  \/ ce.at \in {"idle", "failed", "recv_head"} \cup Sends /\ cq = <<>>
  \/ hq = <<>> /\ \E t \in {a, "ERROR"} : Receiving(ce, cq, t, SizeOfResponse(t))

\* The caller is gone: the handler takes what there is of the request, or answers
\* into the void.
LostCaller(he, hq, a) ==
  \/ he.at = "failed"
  \/ he.at \in Sends /\ hq = <<>>
  \/ Receiving(he, hq, a, SizeOfRequest(a))

Framed(ce, he, cq, hq, ck, hk, a) ==
  /\ ck = "open" /\ hk = "open" =>
       Quiet(ce, he, cq, hq) \/ Requesting(ce, he, cq, hq, a) \/ Answering(ce, he, cq, hq, a)
  /\ ck = "open" /\ hk = "shut" => LostHandler(ce, cq, hq, a)
  /\ ck = "shut" /\ hk = "open" => LostCaller(he, hq, a)

\* The socket of a handler is shut exactly when the handler is gone, that of a
\* caller when it is gone or between two calls of a simple client.
Coupled(c, ce, he, ck, hk) ==
  /\ he.at = "gone" <=> hk = "shut"
  /\ ce.at = "gone" => ck = "shut"
  /\ ck = "shut" => ce.at = "gone" \/ (ce.at = "idle" /\ c = "simple")

\* The requests that the handler of a connection knows.
Requests(c) == IF Handler[c] = "controller" THEN ControllerTypes ELSE KvTypes

LinkOK(c, ce, he, cq, hq, ck, hk, a, ct) ==
  /\ Coupled(c, ce, he, ck, hk)
  /\ hk = "open" => a \in Requests(c)
  /\ ct = FALSE => Framed(ce, he, cq, hq, ck, hk, a)

LinkType(ce, he, cq, hq, ck, hk, a, ct) ==
  /\ ce \in Ends /\ he \in Ends
  /\ cq \in Seq(Cells) /\ hq \in Seq(Cells)
  /\ ck \in {"open", "shut"} /\ hk \in {"open", "shut"}
  /\ a \in MessageType /\ ct \in BOOLEAN

-----------------------------------------------------------------------------
Link(c) ==
  LinkOK(c, ep[c]["caller"], ep[c]["handler"], stream[c]["caller"], stream[c]["handler"],
         sock[c]["caller"], sock[c]["handler"], asked[c], cut[c])
LinkInv == \A c \in Conns : Link(c)

\* A caller is gone only when its process has ended.
GoneInv == \A c \in Conns : ep[c]["caller"].at = "gone" => died[Caller[c]] # "no"

\* Outside its query the thread of process_config_loop is in no call.
QuerierInv == qpc # "query" => ep["querier"]["caller"].at \in {"idle", "gone"}

\* An exception ends a process only after a timeout on one of its connections, and
\* never a client.
ExceptionInv ==
  \A p \in Procs : died[p] = "exception" =>
    /\ p \in {"server", "controller"}
    /\ \E c \in active : cut[c] /\ p \in {Caller[c], Handler[c]}

IInv == TypeOK /\ LinkInv /\ GoneInv /\ QuerierInv /\ ExceptionInv

-----------------------------------------------------------------------------
(* Messages *)

\* A message has a number of data cells.
LEMMA Sizes ==
  ASSUME NEW type
  PROVE  SizeOfRequest(type) \in Nat /\ SizeOfResponse(type) \in Nat
BY NetworkAssumption DEF SizeOfRequest, SizeOfResponse

\* What one more cell makes of a stream.
LEMMA StreamFacts ==
  ASSUME NEW q \in Seq(Cells), NEW cell \in Cells
  PROVE  /\ Append(q, cell) \in Seq(Cells) /\ Len(Append(q, cell)) = Len(q) + 1
         /\ \A i \in 1 .. Len(q) : Append(q, cell)[i] = q[i]
         /\ Append(q, cell)[Len(q) + 1] = cell
         /\ Len(q) \in Nat /\ (Len(q) = 0 <=> q = <<>>)
OBVIOUS

\* What is left of a stream without its first cell.
LEMMA TailFacts ==
  ASSUME NEW q \in Seq(Cells), q # <<>>
  PROVE  /\ Tail(q) \in Seq(Cells) /\ Len(Tail(q)) = Len(q) - 1
         /\ \A i \in 1 .. Len(Tail(q)) : Tail(q)[i] = q[i + 1]
         /\ Len(q) \in Nat \ {0} /\ Head(q) = q[1] /\ Head(q) \in Cells
OBVIOUS

\* The numbers of cells to come are integers.
LEMMA CellsToCome ==
  ASSUME NEW e \in Ends, NEW n \in Nat
  PROVE  Expected(e, n) \in Int /\ ToSend(e) \in Int
BY DEF Expected, ToSend, Ends

\* An end that is in no message.
LEMMA AtFacts ==
  ASSUME NEW x \in Ats
  PROVE  At(x) \in Ends /\ At(x).at = x
<1>1. "ERROR" \in Types /\ 0 \in Int /\ TRUE \in BOOLEAN
  BY DEF Types, MessageType
<1> QED  BY <1>1 DEF At, Ends

\* The end of a sender after a cell is an end.
LEMMA GivesType ==
  ASSUME NEW d \in Ends, NEW cell, NEW d1, Gives(d, cell, d1)
  PROVE  d1 \in Ends /\ cell \in Cells /\ d1.at \in {"recv_head", "send_data"}
<1>1. CASE d.at = "send_head"
  <2>1. CASE d.size = 0
    <3>1. d1 = At("recv_head") /\ cell = <<"head", d.type, d.size>>
      BY <1>1, <2>1 DEF Gives
    <3>2. d.type \in Types /\ d.size \in Int
      BY DEF Ends
    <3> QED  BY <3>1, <3>2, AtFacts DEF Ats, Recvs, Cells
  <2>2. CASE d.size # 0
    BY <1>1, <2>2 DEF Gives, Ends, At, Ats, Types, MessageType, Sends, Recvs, Cells
  <2> QED  BY <2>1, <2>2
<1>2. CASE d.at = "send_data"
  <2>1. CASE d.left = 1
    <3>1. d1 = At("recv_head") /\ cell = <<"data">>
      BY <1>2, <2>1 DEF Gives
    <3> QED  BY <3>1, AtFacts DEF Ats, Recvs, Cells
  <2>2. CASE d.left # 1
    BY <1>2, <2>2 DEF Gives, Ends, At, Ats, Types, MessageType, Sends, Recvs, Cells
  <2> QED  BY <2>1, <2>2
<1> QED  BY <1>1, <1>2 DEF Gives

\* The end of a receiver after a cell is an end.
LEMMA TakesType ==
  ASSUME NEW e \in Ends, NEW q \in Seq(Cells), NEW e1, Takes(e, q, e1)
  PROVE  e1 \in Ends /\ e1.at \in {"recv_data", "got"}
<1>1. PICK cell \in Cells : cell = Head(q)
  BY TailFacts DEF Takes
<1>2. CASE TakesHead(e, cell, e1)
  <2>1. PICK h \in Types \X Int :
          e1 = [at |-> IF h[2] = 0 THEN "got" ELSE "recv_data", type |-> h[1],
                size |-> h[2], left |-> h[2], whole |-> cell[1] = "head"]
    <3>1. CASE cell[1] = "head"
      <4>1. cell \in {"head"} \X Types \X Int
        BY <3>1 DEF Cells
      <4> QED  BY <1>2, <3>1, <4>1 DEF TakesHead
    <3>2. CASE cell[1] # "head"
      <4>1. Misread \X (0 .. PayloadLen) \subseteq Types \X Int
        BY NetworkAssumption DEF Types
      <4> QED  BY <1>2, <3>2, <4>1 DEF TakesHead
    <3> QED  BY <3>1, <3>2
  <2>2. (cell[1] = "head") \in BOOLEAN
    OBVIOUS
  <2> QED  BY <2>1, <2>2 DEF Ends, Ats, Sends, Recvs
<1>3. CASE TakesData(e, cell, e1)
  <2>1. PICK b \in BOOLEAN : b <=> (e.whole /\ cell[1] = "data")
    OBVIOUS
  <2>2. /\ e1 = [e EXCEPT !.at = IF e.left = 1 THEN "got" ELSE @, !.left = @ - 1, !.whole = b]
        /\ e.at = "recv_data"
    BY <1>3, <2>1 DEF TakesData
  <2>3. e.left \in Int
    BY DEF Ends
  <2>4. PICK x \in {"got", "recv_data"} : x = IF e.left = 1 THEN "got" ELSE e.at
    BY <2>2
  <2>5. PICK y \in Int : y = e.left - 1
    BY <2>3
  <2>6. e1 = [e EXCEPT !.at = x, !.left = y, !.whole = b]
    BY <2>2, <2>4, <2>5
  <2>7. x \in Ats
    BY DEF Ats, Recvs
  <2> QED  BY <2>6, <2>7 DEF Ends
<1> QED  BY <1>1, <1>2, <1>3 DEF Takes

\* What a sender gives continues the message.
LEMMA FlightGives ==
  ASSUME NEW d \in Ends, NEW e \in Ends, NEW q \in Seq(Cells), NEW type, NEW n \in Nat,
         NEW cell, NEW d1, Flight(d, e, q, type, n), Gives(d, cell, d1)
  PROVE  Flight(d1, e, Append(q, cell), type, n)
<1>1. cell \in Cells /\ d1 \in Ends
  BY GivesType
<1>2. PICK r : r = Append(q, cell)
  OBVIOUS
<1>3. /\ r \in Seq(Cells) /\ Len(r) = Len(q) + 1 /\ Len(q) \in Nat
      /\ \A i \in 1 .. Len(q) : r[i] = q[i]
      /\ r[Len(q) + 1] = cell
  BY <1>1, <1>2, StreamFacts
<1>4. CASE d.at = "send_head"
  <2>1. d.size = n /\ d.left = n /\ d.type = type /\ cell = <<"head", type, n>>
    BY <1>4 DEF Flight, Gives, Sends
  <2>2. Len(q) + (n + 1) = Expected(e, n)
    BY <1>4, <2>1 DEF Flight, ToSend
  <2>3. e.at = "recv_head" /\ Len(q) = 0
    BY <2>2, <1>3 DEF Flight, Receiving, Expected
  <2>4. Receiving(e, r, type, n)
    BY <2>1, <2>3, <1>3 DEF Receiving, Expected
  <2>5. CASE n = 0
    <3>1. d1 = At("recv_head")
      BY <1>4, <2>1, <2>5 DEF Gives
    <3>2. d1.at = "recv_head"
      BY <3>1 DEF At
    <3> QED  BY <3>2, <2>3, <2>4, <2>5, <1>2, <1>3 DEF Flight, ToSend, Expected, Sends
  <2>6. CASE n # 0
    <3>1. d1 = [d EXCEPT !.at = "send_data"]
      BY <1>4, <2>1, <2>6 DEF Gives
    <3>2. d1.at = "send_data" /\ d1.type = type /\ d1.size = n /\ d1.left = n
      BY <3>1, <2>1 DEF Ends
    <3> QED  BY <3>2, <2>3, <2>4, <2>6, <1>2, <1>3 DEF Flight, ToSend, Expected, Sends
  <2> QED  BY <2>5, <2>6
<1>5. CASE d.at = "send_data"
  <2>1. d.size = n /\ d.left \in 1 .. n /\ d.type = type /\ cell = <<"data">>
    BY <1>5 DEF Flight, Gives, Sends
  <2>2. Len(q) + d.left = Expected(e, n)
    BY <1>5, <2>1 DEF Flight, ToSend
  <2>3. Len(q) + 1 <= Expected(e, n) /\ (e.at = "recv_head" => Len(q) >= 1)
    BY <2>1, <2>2, <1>3 DEF Expected
  <2>4. Receiving(e, r, type, n)
    <3>1. Receiving(e, q, type, n)
      BY DEF Flight
    <3>2. ASSUME NEW i \in 1 .. Len(r)
          PROVE  r[i] = IF i = 1 /\ e.at = "recv_head" THEN <<"head", type, n>> ELSE <<"data">>
      <4>1. CASE i \in 1 .. Len(q)
        BY <4>1, <3>1, <1>3 DEF Receiving
      <4>2. CASE i = Len(q) + 1
        <5>1. ~(i = 1 /\ e.at = "recv_head") /\ r[i] = <<"data">>
          BY <4>2, <2>1, <2>3, <1>3
        <5> QED  BY <5>1
      <4> QED  BY <4>1, <4>2, <1>3
    <3>3. Len(r) <= Expected(e, n)
      BY <2>3, <1>3
    <3> QED  BY <3>1, <3>2, <3>3 DEF Receiving
  <2>5. CASE d.left = 1
    <3>1. d1 = At("recv_head")
      BY <1>5, <2>5 DEF Gives
    <3>2. d1.at = "recv_head"
      BY <3>1 DEF At
    <3> QED  BY <3>2, <2>2, <2>4, <2>5, <1>2, <1>3 DEF Flight, ToSend, Sends
  <2>6. CASE d.left # 1
    <3>1. d1 = [d EXCEPT !.left = @ - 1]
      BY <1>5, <2>6 DEF Gives
    <3>2. d1.at = "send_data" /\ d1.type = type /\ d1.size = n /\ d1.left = d.left - 1
      BY <3>1, <2>1, <1>5 DEF Ends
    <3>3. d1.left \in 1 .. n /\ Len(r) + d1.left = Expected(e, n)
      <4>1. PICK x \in Int : x = Expected(e, n)
        BY CellsToCome
      <4> QED  BY <4>1, <3>2, <2>1, <2>2, <2>6, <1>3, SMTT(30)
    <3>4. ToSend(d1) = d1.left
      BY <3>2 DEF ToSend
    <3> QED  BY <3>2, <3>3, <3>4, <2>4, <1>2 DEF Flight, Sends
  <2> QED  BY <2>5, <2>6
<1> QED  BY <1>4, <1>5 DEF Gives

\* What a receiver takes is the next cell of the message.
LEMMA ReceivingTakes ==
  ASSUME NEW e \in Ends, NEW q \in Seq(Cells), NEW type, NEW n \in Nat, NEW e1,
         Receiving(e, q, type, n), Takes(e, q, e1)
  PROVE  Receiving(e1, Tail(q), type, n) /\ Expected(e1, n) = Expected(e, n) - 1
<1>1. PICK r : r = Tail(q)
  OBVIOUS
<1>2. /\ r \in Seq(Cells) /\ Len(r) = Len(q) - 1 /\ Len(q) \in Nat \ {0}
      /\ \A i \in 1 .. Len(r) : r[i] = q[i + 1]
      /\ Head(q) = q[1]
  BY <1>1, TailFacts DEF Takes
<1>3. \A i \in 1 .. Len(r) : r[i] = <<"data">>
  <2>1. SUFFICES ASSUME NEW i \in 1 .. Len(r)
                 PROVE  r[i] = <<"data">>
    OBVIOUS
  <2>2. i + 1 \in 1 .. Len(q) /\ i + 1 # 1
    BY <1>2
  <2>3. q[i + 1] = <<"data">>
    BY <2>2 DEF Receiving
  <2> QED  BY <2>3, <1>2
<1>4. CASE e.at = "recv_head"
  <2>1. Head(q) = <<"head", type, n>> /\ Len(q) <= n + 1
    BY <1>2, <1>4 DEF Receiving, Expected
  <2>2. TakesHead(e, <<"head", type, n>>, e1)
    BY <1>4, <2>1 DEF Takes, TakesData
  <2>3. e1 = [at |-> IF n = 0 THEN "got" ELSE "recv_data", type |-> type,
              size |-> n, left |-> n, whole |-> TRUE]
    <3>1. PICK h \in {<<type, n>>} :
            e1 = [at |-> IF h[2] = 0 THEN "got" ELSE "recv_data", type |-> h[1],
                  size |-> h[2], left |-> h[2], whole |-> "head" = "head"]
      BY <2>2 DEF TakesHead
    <3>2. h = <<type, n>> /\ h[1] = type /\ h[2] = n
      OBVIOUS
    <3> QED  BY <3>1, <3>2
  <2>4. /\ e1.at = IF n = 0 THEN "got" ELSE "recv_data"
        /\ e1.type = type /\ e1.left = n /\ e1.whole = TRUE
    BY <2>3
  <2>5. Expected(e1, n) = n /\ Expected(e, n) = n + 1
    BY <2>4, <1>4 DEF Expected
  <2> QED  BY <1>1, <1>2, <1>3, <2>1, <2>4, <2>5 DEF Receiving
<1>5. CASE e.at = "recv_data"
  <2>1. Head(q) = <<"data">> /\ Len(q) <= e.left /\ e.left \in 1 .. n
    BY <1>2, <1>5 DEF Receiving, Expected
  <2>2. TakesData(e, <<"data">>, e1)
    BY <1>5, <2>1 DEF Takes, TakesHead
  <2>3. e.type = type /\ e.whole = TRUE
    BY <1>5 DEF Receiving
  <2>4. /\ e1.at = IF e.left = 1 THEN "got" ELSE "recv_data"
        /\ e1.type = type /\ e1.left = e.left - 1 /\ e1.whole = TRUE
    BY <2>2, <2>3, <1>5 DEF TakesData, Ends
  <2>5. Expected(e1, n) = e.left - 1 /\ Expected(e, n) = e.left
    BY <2>1, <2>4, <1>5 DEF Expected
  <2> QED  BY <1>1, <1>2, <1>3, <2>1, <2>4, <2>5 DEF Receiving
<1> QED  BY <1>4, <1>5 DEF Takes, TakesHead, TakesData

\* A message on its way stays one when its receiver takes a cell.
LEMMA FlightTakes ==
  ASSUME NEW d \in Ends, NEW e \in Ends, NEW q \in Seq(Cells), NEW type, NEW n \in Nat,
         NEW e1, Flight(d, e, q, type, n), Takes(e, q, e1)
  PROVE  Flight(d, e1, Tail(q), type, n)
<1>1. Receiving(e1, Tail(q), type, n) /\ Expected(e1, n) = Expected(e, n) - 1
  BY ReceivingTakes DEF Flight
<1>2. Len(Tail(q)) = Len(q) - 1 /\ Len(q) \in Nat
  BY TailFacts DEF Takes
<1>3. ToSend(d) \in Int /\ Expected(e, n) \in Int
  BY CellsToCome
<1>4. Len(q) + ToSend(d) = Expected(e, n)
  BY DEF Flight
<1>5. Len(Tail(q)) + ToSend(d) = Expected(e1, n)
  <2>1. PICK x \in Int, y \in Int : x = Expected(e, n) /\ y = ToSend(d)
    BY <1>3
  <2>2. PICK l \in Nat : l = Len(q)
    BY <1>2
  <2>3. l + y = x
    BY <2>1, <2>2, <1>4
  <2>4. (l - 1) + y = x - 1
    BY <2>3
  <2> QED  BY <2>1, <2>2, <2>4, <1>1, <1>2
<1> QED  BY <1>1, <1>5 DEF Flight

-----------------------------------------------------------------------------
(* Steps of one connection *)

\* A caller sends a cell of its request.
LEMMA CallerGives ==
  ASSUME NEW c, NEW ce, NEW he, NEW cq, NEW hq, NEW ck, NEW hk, NEW a, NEW ct,
         LinkType(ce, he, cq, hq, ck, hk, a, ct), LinkOK(c, ce, he, cq, hq, ck, hk, a, ct),
         NEW cell, NEW d1, Gives(ce, cell, d1),
         NEW q1, q1 = IF hk = "open" THEN Append(hq, cell) ELSE hq
  PROVE  LinkType(d1, he, cq, q1, ck, hk, a, ct) /\ LinkOK(c, d1, he, cq, q1, ck, hk, a, ct)
<1>1. /\ ce \in Ends /\ he \in Ends /\ cq \in Seq(Cells) /\ hq \in Seq(Cells)
      /\ ck \in {"open", "shut"} /\ hk \in {"open", "shut"}
  BY DEF LinkType
<1>2. d1 \in Ends /\ cell \in Cells /\ d1.at \in {"recv_head", "send_data"}
  BY <1>1, GivesType
<1>3. ce.at \in Sends
  BY DEF Gives, Sends
<1>4. ck = "open" /\ Coupled(c, d1, he, ck, hk)
  BY <1>1, <1>2, <1>3 DEF LinkOK, Coupled, Sends
<1>5. q1 \in Seq(Cells)
  BY <1>1, <1>2, StreamFacts
<1>6. ASSUME ct = FALSE PROVE Framed(d1, he, cq, q1, ck, hk, a)
  <2>1. Framed(ce, he, cq, hq, ck, hk, a)
    BY <1>6 DEF LinkOK
  <2>2. CASE hk = "open"
    <3>1. Requesting(ce, he, cq, hq, a)
      BY <2>1, <2>2, <1>3, <1>4 DEF Framed, Quiet, Answering, Flight, Receiving, Sends
    <3>2. q1 = Append(hq, cell)
      BY <2>2
    <3>3. Flight(d1, he, q1, a, SizeOfRequest(a))
      BY <3>1, <3>2, <1>1, Sizes, FlightGives DEF Requesting
    <3> QED  BY <3>1, <3>3, <2>2, <1>4 DEF Framed, Requesting
  <2>3. CASE hk = "shut"
    <3>1. LostHandler(ce, cq, hq, a)
      BY <2>1, <2>3, <1>4 DEF Framed
    <3>2. cq = <<>>
      BY <3>1, <1>3 DEF LostHandler, Receiving, Sends
    <3> QED  BY <3>2, <2>3, <1>2, <1>4 DEF Framed, LostHandler, Sends
  <2> QED  BY <2>2, <2>3, <1>1
<1> QED  BY <1>2, <1>4, <1>5, <1>6 DEF LinkType, LinkOK

\* A handler sends a cell of its response.
LEMMA HandlerGives ==
  ASSUME NEW c, NEW ce, NEW he, NEW cq, NEW hq, NEW ck, NEW hk, NEW a, NEW ct,
         LinkType(ce, he, cq, hq, ck, hk, a, ct), LinkOK(c, ce, he, cq, hq, ck, hk, a, ct),
         NEW cell, NEW d1, Gives(he, cell, d1),
         NEW q1, q1 = IF ck = "open" THEN Append(cq, cell) ELSE cq
  PROVE  LinkType(ce, d1, q1, hq, ck, hk, a, ct) /\ LinkOK(c, ce, d1, q1, hq, ck, hk, a, ct)
<1>1. /\ ce \in Ends /\ he \in Ends /\ cq \in Seq(Cells) /\ hq \in Seq(Cells)
      /\ ck \in {"open", "shut"} /\ hk \in {"open", "shut"}
  BY DEF LinkType
<1>2. d1 \in Ends /\ cell \in Cells /\ d1.at \in {"recv_head", "send_data"}
  BY <1>1, GivesType
<1>3. he.at \in Sends
  BY DEF Gives, Sends
<1>4. hk = "open" /\ Coupled(c, ce, d1, ck, hk)
  BY <1>1, <1>2, <1>3 DEF LinkOK, Coupled, Sends
<1>5. q1 \in Seq(Cells)
  BY <1>1, <1>2, StreamFacts
<1>6. ASSUME ct = FALSE PROVE Framed(ce, d1, q1, hq, ck, hk, a)
  <2>1. Framed(ce, he, cq, hq, ck, hk, a)
    BY <1>6 DEF LinkOK
  <2>2. CASE ck = "open"
    <3>1. Answering(ce, he, cq, hq, a)
      BY <2>1, <2>2, <1>3, <1>4 DEF Framed, Quiet, Requesting, Flight, Receiving, Sends
    <3>2. q1 = Append(cq, cell)
      BY <2>2
    <3>3. PICK t \in {a, "ERROR"} : Flight(he, ce, cq, t, SizeOfResponse(t))
      BY <3>1 DEF Answering
    <3>4. Flight(d1, ce, q1, t, SizeOfResponse(t))
      BY <3>2, <3>3, <1>1, Sizes, FlightGives
    <3> QED  BY <3>1, <3>4, <2>2, <1>4 DEF Framed, Answering
  <2>3. CASE ck = "shut"
    <3>1. LostCaller(he, hq, a)
      BY <2>1, <2>3, <1>4 DEF Framed
    <3>2. hq = <<>>
      BY <3>1, <1>3 DEF LostCaller, Receiving, Sends
    <3>3. Receiving(d1, hq, a, SizeOfRequest(a)) \/ d1.at \in Sends
      <4>1. CASE d1.at = "recv_head"
        <5>1. Len(hq) = 0 /\ SizeOfRequest(a) \in Nat
          BY <3>2, Sizes
        <5> QED  BY <4>1, <5>1 DEF Receiving, Expected
      <4> QED  BY <4>1, <1>2 DEF Sends
    <3> QED  BY <3>2, <3>3, <2>3, <1>4 DEF Framed, LostCaller
  <2> QED  BY <2>2, <2>3, <1>1
<1> QED  BY <1>2, <1>4, <1>5, <1>6 DEF LinkType, LinkOK

\* A caller takes a cell of the response.
LEMMA CallerTakes ==
  ASSUME NEW c, NEW ce, NEW he, NEW cq, NEW hq, NEW ck, NEW hk, NEW a, NEW ct,
         LinkType(ce, he, cq, hq, ck, hk, a, ct), LinkOK(c, ce, he, cq, hq, ck, hk, a, ct),
         NEW e1, Takes(ce, cq, e1), NEW q1, q1 = Tail(cq)
  PROVE  LinkType(e1, he, q1, hq, ck, hk, a, ct) /\ LinkOK(c, e1, he, q1, hq, ck, hk, a, ct)
<1>1. /\ ce \in Ends /\ he \in Ends /\ cq \in Seq(Cells) /\ hq \in Seq(Cells)
      /\ ck \in {"open", "shut"} /\ hk \in {"open", "shut"}
  BY DEF LinkType
<1>2. e1 \in Ends /\ e1.at \in {"recv_data", "got"}
  BY <1>1, TakesType
<1>3. ce.at \in Recvs /\ cq # <<>>
  BY DEF Takes, TakesHead, TakesData, Recvs
<1>4. ck = "open" /\ Coupled(c, e1, he, ck, hk)
  BY <1>1, <1>2, <1>3 DEF LinkOK, Coupled, Recvs
<1>5. q1 \in Seq(Cells)
  BY <1>1, <1>3, TailFacts
<1>6. ASSUME ct = FALSE PROVE Framed(e1, he, q1, hq, ck, hk, a)
  <2>1. Framed(ce, he, cq, hq, ck, hk, a)
    BY <1>6 DEF LinkOK
  <2>2. CASE hk = "open"
    <3>1. Answering(ce, he, cq, hq, a)
      BY <2>1, <2>2, <1>3, <1>4 DEF Framed, Quiet, Requesting
    <3>2. PICK t \in {a, "ERROR"} : Flight(he, ce, cq, t, SizeOfResponse(t))
      BY <3>1 DEF Answering
    <3>3. Flight(he, e1, q1, t, SizeOfResponse(t))
      BY <3>2, <1>1, Sizes, FlightTakes
    <3> QED  BY <3>1, <3>3, <2>2, <1>4 DEF Framed, Answering
  <2>3. CASE hk = "shut"
    <3>1. LostHandler(ce, cq, hq, a)
      BY <2>1, <2>3, <1>4 DEF Framed
    <3>2. PICK t \in {a, "ERROR"} : hq = <<>> /\ Receiving(ce, cq, t, SizeOfResponse(t))
      BY <3>1, <1>3 DEF LostHandler
    <3>3. Receiving(e1, q1, t, SizeOfResponse(t))
      BY <3>2, <1>1, Sizes, ReceivingTakes
    <3> QED  BY <3>2, <3>3, <2>3, <1>4 DEF Framed, LostHandler
  <2> QED  BY <2>2, <2>3, <1>1
<1> QED  BY <1>2, <1>4, <1>5, <1>6 DEF LinkType, LinkOK

\* A handler takes a cell of the request.
LEMMA HandlerTakes ==
  ASSUME NEW c, NEW ce, NEW he, NEW cq, NEW hq, NEW ck, NEW hk, NEW a, NEW ct,
         LinkType(ce, he, cq, hq, ck, hk, a, ct), LinkOK(c, ce, he, cq, hq, ck, hk, a, ct),
         NEW e1, Takes(he, hq, e1), NEW q1, q1 = Tail(hq)
  PROVE  LinkType(ce, e1, cq, q1, ck, hk, a, ct) /\ LinkOK(c, ce, e1, cq, q1, ck, hk, a, ct)
<1>1. /\ ce \in Ends /\ he \in Ends /\ cq \in Seq(Cells) /\ hq \in Seq(Cells)
      /\ ck \in {"open", "shut"} /\ hk \in {"open", "shut"}
  BY DEF LinkType
<1>2. e1 \in Ends /\ e1.at \in {"recv_data", "got"}
  BY <1>1, TakesType
<1>3. he.at \in Recvs /\ hq # <<>>
  BY DEF Takes, TakesHead, TakesData, Recvs
<1>4. hk = "open" /\ Coupled(c, ce, e1, ck, hk)
  BY <1>1, <1>2, <1>3 DEF LinkOK, Coupled, Recvs
<1>5. q1 \in Seq(Cells)
  BY <1>1, <1>3, TailFacts
<1>6. ASSUME ct = FALSE PROVE Framed(ce, e1, cq, q1, ck, hk, a)
  <2>1. Framed(ce, he, cq, hq, ck, hk, a)
    BY <1>6 DEF LinkOK
  <2>2. CASE ck = "open"
    <3>1. Requesting(ce, he, cq, hq, a)
      BY <2>1, <2>2, <1>3, <1>4 DEF Framed, Quiet, Answering
    <3>2. Flight(ce, e1, q1, a, SizeOfRequest(a))
      BY <3>1, <1>1, Sizes, FlightTakes DEF Requesting
    <3> QED  BY <3>1, <3>2, <2>2, <1>4 DEF Framed, Requesting
  <2>3. CASE ck = "shut"
    <3>1. LostCaller(he, hq, a)
      BY <2>1, <2>3, <1>4 DEF Framed
    <3>2. Receiving(he, hq, a, SizeOfRequest(a))
      BY <3>1, <1>3 DEF LostCaller, Recvs
    <3>3. Receiving(e1, q1, a, SizeOfRequest(a))
      BY <3>2, <1>1, Sizes, ReceivingTakes
    <3> QED  BY <3>3, <2>3, <1>4 DEF Framed, LostCaller
  <2> QED  BY <2>2, <2>3, <1>1
<1> QED  BY <1>2, <1>4, <1>5, <1>6 DEF LinkType, LinkOK

\* A transfer of a caller fails: the handler has gone.
LEMMA CallerFails ==
  ASSUME NEW c, NEW ce, NEW he, NEW cq, NEW hq, NEW ck, NEW hk, NEW a, NEW ct,
         LinkType(ce, he, cq, hq, ck, hk, a, ct), LinkOK(c, ce, he, cq, hq, ck, hk, a, ct),
         ck # "open" \/ hk # "open", ce.at \in Sends \/ (ce.at \in Recvs /\ cq = <<>>)
  PROVE  /\ LinkType(At("failed"), he, cq, hq, ck, hk, a, ct)
         /\ LinkOK(c, At("failed"), he, cq, hq, ck, hk, a, ct)
<1>1. PICK e1 \in Ends : e1 = At("failed") /\ e1.at = "failed"
  BY AtFacts DEF Ats
<1>2. /\ ck \in {"open", "shut"} /\ hk \in {"open", "shut"}
      /\ Coupled(c, ce, he, ck, hk)
  BY DEF LinkType, LinkOK
<1>3. ck = "open" /\ hk = "shut"
  BY <1>2 DEF Coupled, Sends, Recvs
<1>4. Coupled(c, e1, he, ck, hk)
  BY <1>1, <1>2, <1>3 DEF Coupled
<1>5. ASSUME ct = FALSE PROVE Framed(e1, he, cq, hq, ck, hk, a)
  <2>1. LostHandler(ce, cq, hq, a)
    BY <1>3, <1>5 DEF LinkOK, Framed
  <2>2. cq = <<>>
    BY <2>1 DEF LostHandler, Receiving, Sends
  <2> QED  BY <1>1, <1>3, <2>2 DEF Framed, LostHandler
<1> QED  BY <1>1, <1>4, <1>5 DEF LinkType, LinkOK

\* A transfer of a handler fails: the caller has gone.
LEMMA HandlerFails ==
  ASSUME NEW c, NEW ce, NEW he, NEW cq, NEW hq, NEW ck, NEW hk, NEW a, NEW ct,
         LinkType(ce, he, cq, hq, ck, hk, a, ct), LinkOK(c, ce, he, cq, hq, ck, hk, a, ct),
         ck # "open" \/ hk # "open", he.at \in Sends \cup Recvs
  PROVE  /\ LinkType(ce, At("failed"), cq, hq, ck, hk, a, ct)
         /\ LinkOK(c, ce, At("failed"), cq, hq, ck, hk, a, ct)
<1>1. PICK e1 \in Ends : e1 = At("failed") /\ e1.at = "failed"
  BY AtFacts DEF Ats
<1>2. /\ ck \in {"open", "shut"} /\ hk \in {"open", "shut"}
      /\ Coupled(c, ce, he, ck, hk)
  BY DEF LinkType, LinkOK
<1>3. ck = "shut" /\ hk = "open"
  BY <1>2 DEF Coupled, Sends, Recvs
<1>4. Coupled(c, ce, e1, ck, hk)
  BY <1>1, <1>2, <1>3 DEF Coupled
<1>5. Framed(ce, e1, cq, hq, ck, hk, a)
  BY <1>1, <1>3 DEF Framed, LostCaller
<1> QED  BY <1>1, <1>4, <1>5 DEF LinkType, LinkOK

\* A timeout inside a payload ends the framing of a connection, and nothing else.
LEMMA CallerIsCut ==
  ASSUME NEW c, NEW ce, NEW he, NEW cq, NEW hq, NEW ck, NEW hk, NEW a, NEW ct,
         LinkType(ce, he, cq, hq, ck, hk, a, ct), LinkOK(c, ce, he, cq, hq, ck, hk, a, ct),
         ce.at \in Sends \cup Recvs
  PROVE  /\ LinkType(At("failed"), he, cq, hq, ck, hk, a, TRUE)
         /\ LinkOK(c, At("failed"), he, cq, hq, ck, hk, a, TRUE)
<1>1. PICK e1 \in Ends : e1 = At("failed") /\ e1.at = "failed"
  BY AtFacts DEF Ats
<1>2. Coupled(c, e1, he, ck, hk)
  BY <1>1 DEF LinkOK, Coupled, Sends, Recvs
<1> QED  BY <1>1, <1>2 DEF LinkType, LinkOK

\* The same for a handler.
LEMMA HandlerIsCut ==
  ASSUME NEW c, NEW ce, NEW he, NEW cq, NEW hq, NEW ck, NEW hk, NEW a, NEW ct,
         LinkType(ce, he, cq, hq, ck, hk, a, ct), LinkOK(c, ce, he, cq, hq, ck, hk, a, ct),
         he.at \in Sends \cup Recvs
  PROVE  /\ LinkType(ce, At("failed"), cq, hq, ck, hk, a, TRUE)
         /\ LinkOK(c, ce, At("failed"), cq, hq, ck, hk, a, TRUE)
<1>1. PICK e1 \in Ends : e1 = At("failed") /\ e1.at = "failed"
  BY AtFacts DEF Ats
<1>2. Coupled(c, ce, e1, ck, hk)
  BY <1>1 DEF LinkOK, Coupled, Sends, Recvs
<1> QED  BY <1>1, <1>2 DEF LinkType, LinkOK

\* A handler that has received something of a connection without a timeout has the
\* request of the call, all of it, and the caller waits for the response.
LEMMA RequestIsWhole ==
  ASSUME NEW c, NEW ce, NEW he, NEW cq, NEW hq, NEW ck, NEW hk, NEW a, NEW ct,
         LinkType(ce, he, cq, hq, ck, hk, a, ct), LinkOK(c, ce, he, cq, hq, ck, hk, a, ct),
         he.at = "got", ct = FALSE
  PROVE  /\ he.type = a /\ he.whole = TRUE /\ a \in Requests(c)
         /\ hq = <<>> /\ hk = "open"
         /\ ck = "open" => ce.at = "recv_head" /\ cq = <<>>
<1>1. /\ ce \in Ends /\ he \in Ends /\ cq \in Seq(Cells) /\ hq \in Seq(Cells)
      /\ ck \in {"open", "shut"} /\ hk \in {"open", "shut"}
      /\ Coupled(c, ce, he, ck, hk) /\ Framed(ce, he, cq, hq, ck, hk, a)
  BY DEF LinkType, LinkOK
<1>2. hk = "open" /\ a \in Requests(c)
  BY <1>1 DEF Coupled, LinkOK
<1>3. Len(hq) \in Nat /\ (Len(hq) = 0 => hq = <<>>)
  BY <1>1
<1>4. CASE ck = "open"
  <2>1. cq = <<>> /\ Flight(ce, he, hq, a, SizeOfRequest(a))
    BY <1>1, <1>2, <1>4 DEF Framed, Quiet, Requesting, Answering, Flight, Sends
  <2>2. Expected(he, SizeOfRequest(a)) = 0
    BY DEF Expected
  <2>3. Len(hq) + ToSend(ce) = 0 /\ Receiving(he, hq, a, SizeOfRequest(a))
    BY <2>1, <2>2 DEF Flight
  <2>4. hq = <<>>
    BY <2>2, <2>3, <1>3 DEF Receiving
  <2>5. ToSend(ce) = 0
    BY <2>3, <2>4, <1>1, CellsToCome
  <2>6. ce.at \notin Sends
    BY <2>1, <2>5, Sizes DEF ToSend, Flight, Sends
  <2> QED  BY <2>1, <2>3, <2>4, <2>6, <1>2 DEF Flight, Receiving
<1>5. CASE ck = "shut"
  <2>1. Receiving(he, hq, a, SizeOfRequest(a))
    BY <1>1, <1>2, <1>5 DEF Framed, LostCaller, Sends
  <2>2. hq = <<>>
    BY <2>1, <1>3 DEF Receiving, Expected
  <2> QED  BY <2>1, <2>2, <1>2, <1>5 DEF Receiving
<1> QED  BY <1>1, <1>4, <1>5

\* A caller that has received something of a connection without a timeout has the
\* whole response to its request, and the streams are empty.
LEMMA ResponseIsWhole ==
  ASSUME NEW c, NEW ce, NEW he, NEW cq, NEW hq, NEW ck, NEW hk, NEW a, NEW ct,
         LinkType(ce, he, cq, hq, ck, hk, a, ct), LinkOK(c, ce, he, cq, hq, ck, hk, a, ct),
         ce.at = "got", ct = FALSE
  PROVE  /\ ce.type \in {a, "ERROR"} /\ ce.whole = TRUE
         /\ cq = <<>> /\ hq = <<>> /\ ck = "open"
         /\ hk = "open" => he.at = "recv_head"
<1>1. /\ ce \in Ends /\ he \in Ends /\ cq \in Seq(Cells) /\ hq \in Seq(Cells)
      /\ ck \in {"open", "shut"} /\ hk \in {"open", "shut"}
      /\ Coupled(c, ce, he, ck, hk) /\ Framed(ce, he, cq, hq, ck, hk, a)
  BY DEF LinkType, LinkOK
<1>2. ck = "open"
  BY <1>1 DEF Coupled
<1>3. Len(cq) \in Nat /\ (Len(cq) = 0 => cq = <<>>)
  BY <1>1
<1>4. CASE hk = "open"
  <2>1. PICK t \in {a, "ERROR"} : hq = <<>> /\ Flight(he, ce, cq, t, SizeOfResponse(t))
    BY <1>1, <1>2, <1>4 DEF Framed, Quiet, Requesting, Answering, Flight, Sends
  <2>2. Expected(ce, SizeOfResponse(t)) = 0
    BY DEF Expected
  <2>3. Len(cq) + ToSend(he) = 0 /\ Receiving(ce, cq, t, SizeOfResponse(t))
    BY <2>1, <2>2 DEF Flight
  <2>4. cq = <<>>
    BY <2>2, <2>3, <1>3 DEF Receiving
  <2>5. ToSend(he) = 0
    BY <2>3, <2>4, <1>1, CellsToCome
  <2>6. he.at \notin Sends
    BY <2>1, <2>5, Sizes DEF ToSend, Flight, Sends
  <2> QED  BY <2>1, <2>3, <2>4, <2>6, <1>2 DEF Flight, Receiving
<1>5. CASE hk = "shut"
  <2>1. PICK t \in {a, "ERROR"} : hq = <<>> /\ Receiving(ce, cq, t, SizeOfResponse(t))
    BY <1>1, <1>2, <1>5 DEF Framed, LostHandler, Sends
  <2>2. cq = <<>>
    BY <2>1, <1>3 DEF Receiving, Expected
  <2> QED  BY <2>1, <2>2, <1>2, <1>5 DEF Receiving
<1> QED  BY <1>1, <1>4, <1>5

\* What the request of a connection without a timeout deserialises to.
LEMMA RequestIsKnown ==
  ASSUME NEW c, NEW ce, NEW he, NEW cq, NEW hq, NEW ck, NEW hk, NEW a, NEW ct,
         LinkType(ce, he, cq, hq, ck, hk, a, ct), LinkOK(c, ce, he, cq, hq, ck, hk, a, ct),
         he.at \in {"got", "failed"}, ct = FALSE, NEW o \in recv_request(he)
  PROVE  (he.at = "failed" /\ o = "none") \/ (he.at = "got" /\ o = a /\ a \in Requests(c))
<1>1. CASE he.at = "failed"
  BY <1>1 DEF recv_request
<1>2. CASE he.at = "got"
  <2>1. he.type = a /\ he.whole = TRUE /\ a \in Requests(c)
    BY <1>2, RequestIsWhole, ZenonT(40)
  <2>2. he.type \notin {"invalid", "ERROR"}
    BY <2>1 DEF Requests, ControllerTypes, KvTypes
  <2> QED  BY <1>2, <2>1, <2>2 DEF recv_request, deserialize_request, Deserialised
<1> QED  BY <1>1, <1>2

\* A handler that could not receive, or not deserialise, shuts its connection down.
LEMMA HandlerLeaves ==
  ASSUME NEW c, NEW ce, NEW he, NEW cq, NEW hq, NEW ck, NEW hk, NEW a, NEW ct,
         LinkType(ce, he, cq, hq, ck, hk, a, ct), LinkOK(c, ce, he, cq, hq, ck, hk, a, ct),
         he.at \in {"got", "failed"}, "none" \in recv_request(he)
  PROVE  /\ LinkType(ce, At("gone"), cq, hq, ck, "shut", a, ct)
         /\ LinkOK(c, ce, At("gone"), cq, hq, ck, "shut", a, ct)
<1>1. PICK e1 \in Ends : e1 = At("gone") /\ e1.at = "gone"
  BY AtFacts DEF Ats
<1>2. Coupled(c, ce, e1, ck, "shut")
  BY <1>1 DEF LinkOK, Coupled
<1>3. ASSUME ct = FALSE PROVE Framed(ce, e1, cq, hq, ck, "shut", a)
  <2>1. he.at = "failed"
    <3>1. PICK o : o \in recv_request(he) /\ o = "none"
      OBVIOUS
    <3>2. o \in recv_request(he)
      BY <3>1
    <3>4. (he.at = "failed" /\ o = "none") \/ (he.at = "got" /\ o = a /\ a \in Requests(c))
      BY <1>3, <3>2, RequestIsKnown
    <3>3. "none" \notin Requests(c)
      BY DEF Requests, ControllerTypes, KvTypes
    <3> QED  BY <3>1, <3>3, <3>4
  <2>2. hk = "open"
    BY <2>1 DEF LinkOK, LinkType, Coupled
  <2>3. ck = "shut"
    BY <2>1, <2>2, <1>3 DEF LinkOK, LinkType, Framed, Quiet, Requesting, Answering, Flight,
                            Receiving, Sends
  <2> QED  BY <2>3 DEF Framed
<1> QED  BY <1>1, <1>2, <1>3 DEF LinkType, LinkOK

\* A handler that knows the request answers it, or refuses it.
LEMMA HandlerResponds ==
  ASSUME NEW c, NEW ce, NEW he, NEW cq, NEW hq, NEW ck, NEW hk, NEW a, NEW ct,
         LinkType(ce, he, cq, hq, ck, hk, a, ct), LinkOK(c, ce, he, cq, hq, ck, hk, a, ct),
         he.at \in {"got", "failed"}, NEW o \in recv_request(he), o \in Requests(c),
         NEW t \in {o, "ERROR"}
  PROVE  /\ LinkType(ce, Sending("handler", t), cq, hq, ck, hk, a, ct)
         /\ LinkOK(c, ce, Sending("handler", t), cq, hq, ck, hk, a, ct)
<1>1. PICK e1 \in Ends : /\ e1 = Sending("handler", t)
                         /\ e1.at = "send_head" /\ e1.type = t
                         /\ e1.size = SizeOfResponse(t) /\ e1.left = SizeOfResponse(t)
  <2>1. t \in Types
    BY DEF Types, MessageType, Requests, ControllerTypes, KvTypes
  <2>2. PICK n \in Nat : n = SizeOfResponse(t)
    BY Sizes
  <2>3. PICK e1 : e1 = [at |-> "send_head", type |-> t, size |-> n, left |-> n, whole |-> TRUE]
    OBVIOUS
  <2>4. e1 = Sending("handler", t)
    BY <2>2, <2>3 DEF Sending
  <2>5. "send_head" \in Ats /\ n \in Int /\ TRUE \in BOOLEAN
    BY DEF Ats, Sends
  <2>6. e1 \in Ends
    BY <2>1, <2>3, <2>5 DEF Ends
  <2>7. e1.at = "send_head" /\ e1.type = t /\ e1.size = n /\ e1.left = n
    BY <2>3
  <2> QED  BY <2>2, <2>4, <2>6, <2>7
<1>2. /\ ce \in Ends /\ he \in Ends /\ cq \in Seq(Cells) /\ hq \in Seq(Cells)
      /\ ck \in {"open", "shut"} /\ hk \in {"open", "shut"}
      /\ Coupled(c, ce, he, ck, hk)
  BY DEF LinkType, LinkOK
<1>3. hk = "open" /\ Coupled(c, ce, e1, ck, hk)
  BY <1>1, <1>2 DEF Coupled
<1>4. ASSUME ct = FALSE PROVE Framed(ce, e1, cq, hq, ck, hk, a)
  <2>1. (he.at = "failed" /\ o = "none") \/ (he.at = "got" /\ o = a)
    BY <1>4, RequestIsKnown, ZenonT(40)
  <2>2. he.at = "got" /\ t \in {a, "ERROR"}
    BY <2>1 DEF Requests, ControllerTypes, KvTypes
  <2>3. /\ he.type = a /\ he.whole = TRUE /\ a \in Requests(c)
        /\ hq = <<>> /\ hk = "open"
        /\ ck = "open" => ce.at = "recv_head" /\ cq = <<>>
    <3>1. he.at = "got"
      BY <2>2
    <3> QED  BY <3>1, <1>4, RequestIsWhole, ZenonT(40)
  <2>4. CASE ck = "open"
    <3>1. PICK n \in Nat : n = SizeOfResponse(t)
      BY Sizes
    <3>2. Len(cq) = 0 /\ Expected(ce, n) = n + 1 /\ ToSend(e1) = n + 1
      BY <2>3, <2>4, <1>1, <3>1 DEF Expected, ToSend
    <3>3. Receiving(ce, cq, t, n)
      BY <3>2, <2>3, <2>4 DEF Receiving
    <3>4. Flight(e1, ce, cq, t, n)
      BY <3>1, <3>2, <3>3, <1>1 DEF Flight, Sends
    <3> QED  BY <3>1, <3>4, <2>2, <2>3, <2>4, <1>3 DEF Framed, Answering
  <2>5. CASE ck = "shut"
    BY <2>3, <2>5, <1>1, <1>3 DEF Framed, LostCaller, Sends
  <2> QED  BY <2>4, <2>5, <1>2
<1> QED  BY <1>1, <1>3, <1>4 DEF LinkType, LinkOK

\* Sending a request puts a caller before its head.
LEMMA SendingFacts ==
  ASSUME NEW a \in MessageType
  PROVE  /\ Sending("caller", a) \in Ends
         /\ Sending("caller", a).at = "send_head" /\ Sending("caller", a).type = a
         /\ Sending("caller", a).size = SizeOfRequest(a)
         /\ Sending("caller", a).left = SizeOfRequest(a)
<1>1. PICK n \in Nat : n = SizeOfRequest(a)
  BY Sizes
<1>2. PICK e1 : e1 = [at |-> "send_head", type |-> a, size |-> n, left |-> n, whole |-> TRUE]
  OBVIOUS
<1>3. e1 = Sending("caller", a)
  BY <1>1, <1>2 DEF Sending
<1>4. a \in Types /\ "send_head" \in Ats /\ n \in Int /\ TRUE \in BOOLEAN
  BY DEF Types, Ats, Sends
<1>5. e1 \in Ends
  BY <1>2, <1>4 DEF Ends
<1>6. e1.at = "send_head" /\ e1.type = a /\ e1.size = n /\ e1.left = n
  BY <1>2
<1> QED  BY <1>1, <1>3, <1>5, <1>6

\* A request before its head, to a handler that waits for one, is on its way.
LEMMA RequestStarts ==
  ASSUME NEW a \in MessageType, NEW he, he.at = "recv_head"
  PROVE  Requesting(Sending("caller", a), he, <<>>, <<>>, a)
<1>1. PICK n \in Nat : n = SizeOfRequest(a)
  BY Sizes
<1>2. PICK d \in Ends : /\ d = Sending("caller", a)
                        /\ d.at = "send_head" /\ d.type = a /\ d.size = n /\ d.left = n
  BY <1>1, SendingFacts
<1>3. PICK q : q = <<>> /\ Len(q) = 0
  OBVIOUS
<1>4. Expected(he, n) = n + 1 /\ ToSend(d) = n + 1
  BY <1>2 DEF Expected, ToSend
<1>5. Receiving(he, q, a, n)
  BY <1>3, <1>4 DEF Receiving
<1>6. Flight(d, he, q, a, n)
  BY <1>2, <1>3, <1>4, <1>5 DEF Flight, Sends
<1> QED  BY <1>1, <1>2, <1>3, <1>6 DEF Requesting

\* A call starts on a persistent connection.
LEMMA CallerStarts ==
  ASSUME NEW c, NEW ce, NEW he, NEW cq, NEW hq, NEW ck, NEW hk, NEW a, NEW ct,
         LinkType(ce, he, cq, hq, ck, hk, a, ct), LinkOK(c, ce, he, cq, hq, ck, hk, a, ct),
         c # "simple", ce.at = "idle", NEW a1 \in MessageType, a1 \in Requests(c)
  PROVE  /\ LinkType(Sending("caller", a1), he, cq, hq, ck, hk, a1, ct)
         /\ LinkOK(c, Sending("caller", a1), he, cq, hq, ck, hk, a1, ct)
<1>1. PICK e1 \in Ends : e1 = Sending("caller", a1) /\ e1.at = "send_head"
  BY SendingFacts
<1>2. /\ ce \in Ends /\ he \in Ends /\ cq \in Seq(Cells) /\ hq \in Seq(Cells)
      /\ ck \in {"open", "shut"} /\ hk \in {"open", "shut"}
      /\ Coupled(c, ce, he, ck, hk)
  BY DEF LinkType, LinkOK
<1>3. ck = "open" /\ Coupled(c, e1, he, ck, hk)
  BY <1>1, <1>2 DEF Coupled
<1>4. ASSUME ct = FALSE PROVE Framed(e1, he, cq, hq, ck, hk, a1)
  <2>1. Framed(ce, he, cq, hq, ck, hk, a)
    BY <1>4 DEF LinkOK
  <2>2. CASE hk = "open"
    <3>1. Quiet(ce, he, cq, hq)
      BY <2>1, <2>2, <1>3 DEF Framed, Requesting, Answering, Flight, Receiving, Sends
    <3>2. Requesting(e1, he, cq, hq, a1)
      BY <3>1, <1>1, RequestStarts DEF Quiet
    <3> QED  BY <3>2, <2>2, <1>3 DEF Framed
  <2>3. CASE hk = "shut"
    <3>1. cq = <<>>
      BY <2>1, <2>3, <1>3 DEF Framed, LostHandler, Receiving
    <3> QED  BY <3>1, <2>3, <1>1, <1>3 DEF Framed, LostHandler, Sends
  <2> QED  BY <2>2, <2>3, <1>2
<1> QED  BY <1>1, <1>3, <1>4 DEF LinkType, LinkOK

\* A new connection of a simple client.
LEMMA SimpleStarts ==
  ASSUME NEW c, NEW a \in MessageType, a \in Requests(c)
  PROVE  /\ LinkType(Sending("caller", a), At("recv_head"), <<>>, <<>>, "open", "open", a, FALSE)
         /\ LinkOK(c, Sending("caller", a), At("recv_head"), <<>>, <<>>, "open", "open", a, FALSE)
<1>1. PICK e1 \in Ends : e1 = Sending("caller", a) /\ e1.at = "send_head"
  BY SendingFacts
<1>2. PICK e2 \in Ends : e2 = At("recv_head") /\ e2.at = "recv_head"
  BY AtFacts DEF Ats, Recvs
<1>3. Requesting(e1, e2, <<>>, <<>>, a)
  BY <1>1, <1>2, RequestStarts
<1>4. Framed(e1, e2, <<>>, <<>>, "open", "open", a)
  BY <1>3 DEF Framed
<1>5. Coupled(c, e1, e2, "open", "open")
  BY <1>1, <1>2 DEF Coupled
<1>6. <<>> \in Seq(Cells) /\ FALSE \in BOOLEAN
  OBVIOUS
<1> QED  BY <1>1, <1>2, <1>4, <1>5, <1>6 DEF LinkType, LinkOK

\* A call returns; a simple client shuts its connection down.
LEMMA CallerReturns ==
  ASSUME NEW c, NEW ce, NEW he, NEW cq, NEW hq, NEW ck, NEW hk, NEW a, NEW ct,
         LinkType(ce, he, cq, hq, ck, hk, a, ct), LinkOK(c, ce, he, cq, hq, ck, hk, a, ct),
         ce.at \in {"got", "failed"}, NEW k1, k1 = IF c = "simple" THEN "shut" ELSE ck
  PROVE  /\ LinkType(At("idle"), he, cq, hq, k1, hk, a, ct)
         /\ LinkOK(c, At("idle"), he, cq, hq, k1, hk, a, ct)
<1>1. PICK e1 \in Ends : e1 = At("idle") /\ e1.at = "idle"
  BY AtFacts DEF Ats
<1>2. /\ ce \in Ends /\ he \in Ends /\ cq \in Seq(Cells) /\ hq \in Seq(Cells)
      /\ ck \in {"open", "shut"} /\ hk \in {"open", "shut"}
      /\ Coupled(c, ce, he, ck, hk)
  BY DEF LinkType, LinkOK
<1>3. ck = "open" /\ k1 \in {"open", "shut"} /\ Coupled(c, e1, he, k1, hk)
  BY <1>1, <1>2 DEF Coupled
<1>4. ASSUME ct = FALSE PROVE Framed(e1, he, cq, hq, k1, hk, a)
  <2>1. Framed(ce, he, cq, hq, ck, hk, a)
    BY <1>4 DEF LinkOK
  <2>2. CASE hk = "open"
    <3>1. ce.at = "got"
      BY <2>1, <2>2, <1>3 DEF Framed, Quiet, Requesting, Answering, Flight, Receiving, Sends
    <3>2. cq = <<>> /\ hq = <<>> /\ he.at = "recv_head"
      BY <3>1, <2>2, <1>4, ResponseIsWhole
    <3>3. Receiving(he, hq, a, SizeOfRequest(a))
      <4>1. Len(hq) = 0 /\ SizeOfRequest(a) \in Nat
        BY <3>2, Sizes
      <4> QED  BY <4>1, <3>2 DEF Receiving, Expected
    <3> QED  BY <3>2, <3>3, <2>2, <1>1 DEF Framed, Quiet, LostCaller
  <2>3. CASE hk = "shut"
    <3>1. cq = <<>>
      <4>1. CASE ce.at = "got"
        BY <4>1, <1>4, ResponseIsWhole
      <4>2. CASE ce.at = "failed"
        BY <4>2, <2>1, <2>3, <1>3 DEF Framed, LostHandler, Receiving
      <4> QED  BY <4>1, <4>2
    <3> QED  BY <3>1, <2>3, <1>1 DEF Framed, LostHandler
  <2> QED  BY <2>2, <2>3, <1>2
<1> QED  BY <1>1, <1>3, <1>4 DEF LinkType, LinkOK

\* The process of the caller ends.
LEMMA CallerDies ==
  ASSUME NEW c, NEW ce, NEW he, NEW cq, NEW hq, NEW ck, NEW hk, NEW a, NEW ct,
         LinkType(ce, he, cq, hq, ck, hk, a, ct), LinkOK(c, ce, he, cq, hq, ck, hk, a, ct)
  PROVE  /\ LinkType(At("gone"), he, cq, hq, "shut", hk, a, ct)
         /\ LinkOK(c, At("gone"), he, cq, hq, "shut", hk, a, ct)
<1>1. PICK e1 \in Ends : e1 = At("gone") /\ e1.at = "gone"
  BY AtFacts DEF Ats
<1>2. ck \in {"open", "shut"} /\ hk \in {"open", "shut"}
  BY DEF LinkType
<1>3. Coupled(c, e1, he, "shut", hk)
  BY <1>1 DEF LinkOK, Coupled
<1>4. ASSUME ct = FALSE PROVE Framed(e1, he, cq, hq, "shut", hk, a)
  <2>1. Framed(ce, he, cq, hq, ck, hk, a)
    BY <1>4 DEF LinkOK
  <2>2. ASSUME hk = "open" PROVE LostCaller(he, hq, a)
    <3>1. CASE he.at = "recv_head" /\ hq = <<>>
      <4>1. Len(hq) = 0 /\ SizeOfRequest(a) \in Nat
        BY <3>1, Sizes
      <4> QED  BY <4>1, <3>1 DEF LostCaller, Receiving, Expected
    <3>2. CASE ck = "open" /\ Requesting(ce, he, cq, hq, a)
      BY <3>2 DEF Requesting, Flight, LostCaller
    <3>3. CASE ck = "open" /\ Answering(ce, he, cq, hq, a) /\ he.at \in Sends
      BY <3>3 DEF Answering, LostCaller
    <3>4. CASE ck = "shut"
      BY <3>4, <2>1, <2>2 DEF Framed
    <3> QED  BY <3>1, <3>2, <3>3, <3>4, <2>1, <2>2, <1>2 DEF Framed, Quiet, Answering, Flight
  <2> QED  BY <2>2 DEF Framed
<1> QED  BY <1>1, <1>3, <1>4 DEF LinkType, LinkOK

\* The process of the handler ends.
LEMMA HandlerDies ==
  ASSUME NEW c, NEW ce, NEW he, NEW cq, NEW hq, NEW ck, NEW hk, NEW a, NEW ct,
         LinkType(ce, he, cq, hq, ck, hk, a, ct), LinkOK(c, ce, he, cq, hq, ck, hk, a, ct)
  PROVE  /\ LinkType(ce, At("gone"), cq, hq, ck, "shut", a, ct)
         /\ LinkOK(c, ce, At("gone"), cq, hq, ck, "shut", a, ct)
<1>1. PICK e1 \in Ends : e1 = At("gone") /\ e1.at = "gone"
  BY AtFacts DEF Ats
<1>2. ck \in {"open", "shut"} /\ hk \in {"open", "shut"}
  BY DEF LinkType
<1>3. Coupled(c, ce, e1, ck, "shut")
  BY <1>1 DEF LinkOK, Coupled
<1>4. ASSUME ct = FALSE PROVE Framed(ce, e1, cq, hq, ck, "shut", a)
  <2>1. Framed(ce, he, cq, hq, ck, hk, a)
    BY <1>4 DEF LinkOK
  <2>2. ASSUME ck = "open" PROVE LostHandler(ce, cq, hq, a)
    <3>1. CASE hk = "open" /\ Quiet(ce, he, cq, hq)
      BY <3>1 DEF Quiet, LostHandler
    <3>2. CASE hk = "open" /\ Requesting(ce, he, cq, hq, a)
      BY <3>2 DEF Requesting, Flight, LostHandler
    <3>3. CASE hk = "open" /\ Answering(ce, he, cq, hq, a)
      BY <3>3 DEF Answering, Flight, LostHandler
    <3>4. CASE hk = "shut"
      BY <3>4, <2>1, <2>2 DEF Framed
    <3> QED  BY <3>1, <3>2, <3>3, <3>4, <2>1, <2>2, <1>2 DEF Framed
  <2> QED  BY <2>2 DEF Framed
<1> QED  BY <1>1, <1>3, <1>4 DEF LinkType, LinkOK

-----------------------------------------------------------------------------
(* Steps of the programs *)

Others(c) ==
  \A d \in Conns : d # c =>
    /\ ep'[d] = ep[d] /\ stream'[d] = stream[d] /\ sock'[d] = sock[d]
    /\ asked'[d] = asked[d] /\ cut'[d] = cut[d]

\* The parts of a connection after a step.
Becomes(c, ce, he, cq, hq, ck, hk, a, ct) ==
  /\ ep'[c]["caller"] = ce /\ ep'[c]["handler"] = he
  /\ stream'[c]["caller"] = cq /\ stream'[c]["handler"] = hq
  /\ sock'[c]["caller"] = ck /\ sock'[c]["handler"] = hk
  /\ asked'[c] = a /\ cut'[c] = ct

\* The parts of a connection have their types.
LEMMA Parts ==
  ASSUME TypeOK, NEW c \in Conns
  PROVE  LinkType(ep[c]["caller"], ep[c]["handler"], stream[c]["caller"], stream[c]["handler"],
                  sock[c]["caller"], sock[c]["handler"], asked[c], cut[c])
<1>1. "caller" \in Sides /\ "handler" \in Sides
  BY DEF Sides
<1> QED  BY <1>1 DEF TypeOK, LinkType

\* What the invariant says of one connection.
LEMMA LinkFacts ==
  ASSUME IInv, NEW c \in Conns
  PROVE  /\ LinkType(ep[c]["caller"], ep[c]["handler"], stream[c]["caller"], stream[c]["handler"],
                     sock[c]["caller"], sock[c]["handler"], asked[c], cut[c])
         /\ LinkOK(c, ep[c]["caller"], ep[c]["handler"], stream[c]["caller"], stream[c]["handler"],
                   sock[c]["caller"], sock[c]["handler"], asked[c], cut[c])
BY Parts DEF IInv, LinkInv, Link

\* A step of one end leaves the other end and the other connections alone.
LEMMA SetEpFacts ==
  ASSUME TypeOK, NEW c \in Conns, NEW s \in Sides, NEW e \in Ends, SetEp(c, s, e)
  PROVE  /\ ep' \in [Conns -> [Sides -> Ends]]
         /\ ep'[c][s] = e
         /\ \A r \in Sides : r # s => ep'[c][r] = ep[c][r]
         /\ \A d \in Conns : d # c => ep'[d] = ep[d]
BY DEF TypeOK, SetEp

\* So does a step of one stream.
LEMMA SetStreamFacts ==
  ASSUME TypeOK, NEW c \in Conns, NEW s \in Sides, NEW q \in Seq(Cells),
         stream' = [stream EXCEPT ![c][s] = q]
  PROVE  /\ stream' \in [Conns -> [Sides -> Seq(Cells)]]
         /\ stream'[c][s] = q
         /\ \A r \in Sides : r # s => stream'[c][r] = stream[c][r]
         /\ \A d \in Conns : d # c => stream'[d] = stream[d]
BY DEF TypeOK

\* A step of one connection that ends no process keeps the invariant, if it keeps
\* that of the connection.
LEMMA Lift ==
  ASSUME IInv, NEW c \in Conns, TypeOK', Link(c)', Others(c), QuerierInv',
         active' = active, died' = died,
         ep'[c]["caller"].at = "gone" => ep[c]["caller"].at = "gone",
         \A d \in Conns : cut[d] => cut'[d]
  PROVE  IInv'
<1>1. LinkInv'
  <2>1. SUFFICES ASSUME NEW d \in Conns PROVE Link(d)'
    BY DEF LinkInv
  <2>2. CASE d # c
    BY <2>2 DEF IInv, LinkInv, Link, Others
  <2> QED  BY <2>2
<1>2. GoneInv'
  <2>1. SUFFICES ASSUME NEW d \in Conns, ep'[d]["caller"].at = "gone"
                 PROVE  died'[Caller[d]] # "no"
    BY DEF GoneInv
  <2>2. ep[d]["caller"].at = "gone"
    BY <2>1 DEF Others
  <2> QED  BY <2>2 DEF IInv, GoneInv
<1>3. ExceptionInv'
  <2>1. SUFFICES ASSUME NEW p \in Procs, died[p] = "exception"
                 PROVE  /\ p \in {"server", "controller"}
                        /\ \E d \in active : cut'[d] /\ p \in {Caller[d], Handler[d]}
    BY DEF ExceptionInv
  <2>2. p \in {"server", "controller"}
    BY <2>1 DEF IInv, ExceptionInv
  <2>3. PICK d \in active : cut[d] /\ p \in {Caller[d], Handler[d]}
    BY <2>1 DEF IInv, ExceptionInv
  <2>4. d \in Conns
    BY DEF IInv, TypeOK
  <2> QED  BY <2>2, <2>3, <2>4
<1> QED  BY <1>1, <1>2, <1>3 DEF IInv

\* The same, with the parts that the connection becomes.
LEMMA LiftParts ==
  ASSUME IInv, NEW c \in Conns, TypeOK', Others(c), QuerierInv',
         active' = active, died' = died,
         \A d \in Conns : cut[d] => cut'[d],
         NEW ce, NEW he, NEW cq, NEW hq, NEW ck, NEW hk, NEW a, NEW ct,
         Becomes(c, ce, he, cq, hq, ck, hk, a, ct), LinkOK(c, ce, he, cq, hq, ck, hk, a, ct),
         ce.at = "gone" => ep[c]["caller"].at = "gone"
  PROVE  IInv'
<1>1. Link(c)'
  BY DEF Link, Becomes
<1>2. ep'[c]["caller"].at = "gone" => ep[c]["caller"].at = "gone"
  BY DEF Becomes
<1> QED  BY <1>1, <1>2, Lift

\* A step of one end of a connection leaves the querier where it is.
LEMMA QuerierStays ==
  ASSUME IInv, NEW c \in Conns, NEW s \in Sides, NEW e \in Ends, SetEp(c, s, e), qpc' = qpc,
         ep[c][s].at \notin {"idle", "gone"} \/ e.at \in {"idle", "gone"} \/ c # "querier"
  PROVE  QuerierInv'
<1>1. /\ ep'[c][s] = e
      /\ \A r \in Sides : r # s => ep'[c][r] = ep[c][r]
      /\ \A d \in Conns : d # c => ep'[d] = ep[d]
  BY SetEpFacts DEF IInv
<1>2. "querier" \in Conns /\ "caller" \in Sides
  BY DEF Conns, Sides
<1>3. CASE c = "querier" /\ s = "caller"
  BY <1>1, <1>3 DEF IInv, QuerierInv
<1>4. CASE c # "querier" \/ s # "caller"
  <2>1. ep'["querier"]["caller"] = ep["querier"]["caller"]
    BY <1>1, <1>2, <1>4
  <2> QED  BY <2>1 DEF IInv, QuerierInv
<1> QED  BY <1>3, <1>4

\* A cell is sent.
LEMMA SendPreserves ==
  ASSUME IInv, NEW c \in Conns, NEW s \in Sides, NEW cell, NEW e,
         Gives(ep[c][s], cell, e), SendCell(c, s, cell, e), UNCHANGED <<active, asked, qpc>>
  PROVE  IInv'
<1> "caller" \in Sides /\ "handler" \in Sides /\ "caller" # "handler"
  BY DEF Sides
<1>1. TypeOK /\ ep[c][s] \in Ends
  BY DEF IInv, TypeOK
<1>2. e \in Ends /\ cell \in Cells /\ e.at \in {"recv_head", "send_data"}
  BY <1>1, GivesType
<1>3. SetEp(c, s, e) /\ UNCHANGED <<sock, cut, died>>
  BY DEF SendCell
<1>4. PICK q : q = IF sock[c][Other(s)] = "open" THEN Append(stream[c][Other(s)], cell)
                                                 ELSE stream[c][Other(s)]
  OBVIOUS
<1>5. stream' = [stream EXCEPT ![c][Other(s)] = q] /\ Other(s) \in Sides /\ Other(s) # s
  BY <1>1, <1>4 DEF SendCell, Other, Sides, TypeOK
<1>6. stream[c][Other(s)] \in Seq(Cells) /\ q \in Seq(Cells)
  BY <1>1, <1>2, <1>4, <1>5, StreamFacts DEF TypeOK
<1>7. /\ ep' \in [Conns -> [Sides -> Ends]] /\ ep'[c][s] = e
      /\ \A r \in Sides : r # s => ep'[c][r] = ep[c][r]
      /\ \A d \in Conns : d # c => ep'[d] = ep[d]
  BY <1>1, <1>2, <1>3, SetEpFacts
<1>8. /\ stream' \in [Conns -> [Sides -> Seq(Cells)]] /\ stream'[c][Other(s)] = q
      /\ \A r \in Sides : r # Other(s) => stream'[c][r] = stream[c][r]
      /\ \A d \in Conns : d # c => stream'[d] = stream[d]
  BY <1>1, <1>5, <1>6, SetStreamFacts, ZenonT(40)
<1>9. TypeOK' /\ Others(c)
  BY <1>1, <1>3, <1>7, <1>8 DEF TypeOK, Others
<1>10. ep[c][s].at \in Sends
  BY DEF Gives, Sends
<1>11. QuerierInv'
  BY <1>2, <1>3, <1>10, QuerierStays DEF Sends
<1>12. /\ LinkType(ep[c]["caller"], ep[c]["handler"], stream[c]["caller"], stream[c]["handler"],
                   sock[c]["caller"], sock[c]["handler"], asked[c], cut[c])
       /\ LinkOK(c, ep[c]["caller"], ep[c]["handler"], stream[c]["caller"], stream[c]["handler"],
                 sock[c]["caller"], sock[c]["handler"], asked[c], cut[c])
  BY LinkFacts
<1>13. CASE s = "caller"
  <2>1. /\ Gives(ep[c]["caller"], cell, e) /\ Other(s) = "handler"
        /\ q = IF sock[c]["handler"] = "open" THEN Append(stream[c]["handler"], cell)
                                              ELSE stream[c]["handler"]
    BY <1>4, <1>13 DEF Other
  <2>2. LinkOK(c, e, ep[c]["handler"], stream[c]["caller"], q,
               sock[c]["caller"], sock[c]["handler"], asked[c], cut[c])
    BY <2>1, <1>12, CallerGives
  <2>3. Becomes(c, e, ep[c]["handler"], stream[c]["caller"], q,
                sock[c]["caller"], sock[c]["handler"], asked[c], cut[c])
    BY <2>1, <1>3, <1>7, <1>8, <1>13 DEF Becomes
  <2> QED  BY <2>2, <2>3, <1>2, <1>3, <1>9, <1>11, LiftParts
<1>14. CASE s = "handler"
  <2>1. /\ Gives(ep[c]["handler"], cell, e) /\ Other(s) = "caller"
        /\ q = IF sock[c]["caller"] = "open" THEN Append(stream[c]["caller"], cell)
                                             ELSE stream[c]["caller"]
    BY <1>4, <1>14 DEF Other
  <2>2. LinkOK(c, ep[c]["caller"], e, q, stream[c]["handler"],
               sock[c]["caller"], sock[c]["handler"], asked[c], cut[c])
    BY <2>1, <1>12, HandlerGives
  <2>3. Becomes(c, ep[c]["caller"], e, q, stream[c]["handler"],
                sock[c]["caller"], sock[c]["handler"], asked[c], cut[c])
    BY <2>1, <1>3, <1>7, <1>8, <1>14 DEF Becomes
  <2> QED  BY <2>2, <2>3, <1>2, <1>3, <1>9, <1>11, LiftParts
<1> QED  BY <1>13, <1>14 DEF Sides

\* A cell is received.
LEMMA TakePreserves ==
  ASSUME IInv, NEW c \in Conns, NEW s \in Sides, NEW e,
         Takes(ep[c][s], stream[c][s], e), SetEp(c, s, e), Consume(c, s),
         UNCHANGED <<active, asked, qpc>>
  PROVE  IInv'
<1> "caller" \in Sides /\ "handler" \in Sides /\ "caller" # "handler"
  BY DEF Sides
<1>1. TypeOK /\ ep[c][s] \in Ends /\ stream[c][s] \in Seq(Cells)
  BY DEF IInv, TypeOK
<1>2. e \in Ends /\ e.at \in {"recv_data", "got"}
  BY <1>1, TakesType
<1>3. UNCHANGED <<sock, cut, died>> /\ stream[c][s] # <<>>
  BY DEF Consume
<1>4. PICK q : q = Tail(stream[c][s])
  OBVIOUS
<1>5. stream' = [stream EXCEPT ![c][s] = q]
  BY <1>1, <1>4 DEF Consume, TypeOK
<1>6. q \in Seq(Cells)
  BY <1>1, <1>3, <1>4, TailFacts
<1>7. /\ ep' \in [Conns -> [Sides -> Ends]] /\ ep'[c][s] = e
      /\ \A r \in Sides : r # s => ep'[c][r] = ep[c][r]
      /\ \A d \in Conns : d # c => ep'[d] = ep[d]
  BY <1>1, <1>2, SetEpFacts
<1>8. /\ stream' \in [Conns -> [Sides -> Seq(Cells)]] /\ stream'[c][s] = q
      /\ \A r \in Sides : r # s => stream'[c][r] = stream[c][r]
      /\ \A d \in Conns : d # c => stream'[d] = stream[d]
  BY <1>1, <1>5, <1>6, SetStreamFacts, ZenonT(40)
<1>9. TypeOK' /\ Others(c)
  BY <1>1, <1>3, <1>7, <1>8 DEF TypeOK, Others
<1>10. ep[c][s].at \in Recvs
  BY DEF Takes, TakesHead, TakesData, Recvs
<1>11. QuerierInv'
  BY <1>2, <1>10, QuerierStays DEF Recvs
<1>12. /\ LinkType(ep[c]["caller"], ep[c]["handler"], stream[c]["caller"], stream[c]["handler"],
                   sock[c]["caller"], sock[c]["handler"], asked[c], cut[c])
       /\ LinkOK(c, ep[c]["caller"], ep[c]["handler"], stream[c]["caller"], stream[c]["handler"],
                 sock[c]["caller"], sock[c]["handler"], asked[c], cut[c])
  BY LinkFacts
<1>13. CASE s = "caller"
  <2>1. Takes(ep[c]["caller"], stream[c]["caller"], e) /\ q = Tail(stream[c]["caller"])
    BY <1>4, <1>13
  <2>2. LinkOK(c, e, ep[c]["handler"], q, stream[c]["handler"],
               sock[c]["caller"], sock[c]["handler"], asked[c], cut[c])
    BY <2>1, <1>12, CallerTakes
  <2>3. Becomes(c, e, ep[c]["handler"], q, stream[c]["handler"],
                sock[c]["caller"], sock[c]["handler"], asked[c], cut[c])
    BY <1>3, <1>7, <1>8, <1>13 DEF Becomes
  <2> QED  BY <2>2, <2>3, <1>2, <1>3, <1>9, <1>11, LiftParts
<1>14. CASE s = "handler"
  <2>1. Takes(ep[c]["handler"], stream[c]["handler"], e) /\ q = Tail(stream[c]["handler"])
    BY <1>4, <1>14
  <2>2. LinkOK(c, ep[c]["caller"], e, stream[c]["caller"], q,
               sock[c]["caller"], sock[c]["handler"], asked[c], cut[c])
    BY <2>1, <1>12, HandlerTakes
  <2>3. Becomes(c, ep[c]["caller"], e, stream[c]["caller"], q,
                sock[c]["caller"], sock[c]["handler"], asked[c], cut[c])
    BY <1>3, <1>7, <1>8, <1>14 DEF Becomes
  <2> QED  BY <2>2, <2>3, <1>2, <1>3, <1>9, <1>11, LiftParts
<1> QED  BY <1>13, <1>14 DEF Sides

\* A transfer fails.
LEMMA FailPreserves ==
  ASSUME IInv, NEW c \in Conns, NEW s \in Sides, TransferFails(c, s),
         UNCHANGED <<active, asked, qpc>>
  PROVE  IInv'
<1> "caller" \in Sides /\ "handler" \in Sides /\ "caller" # "handler"
  BY DEF Sides
<1>1. TypeOK
  BY DEF IInv
<1>2. PICK e \in Ends : e = At("failed") /\ e.at = "failed"
  BY AtFacts DEF Ats
<1>3. SetEp(c, s, e) /\ UNCHANGED <<sock, stream, cut, died>>
  BY <1>2 DEF TransferFails
<1>4. /\ ep' \in [Conns -> [Sides -> Ends]] /\ ep'[c][s] = e
      /\ \A r \in Sides : r # s => ep'[c][r] = ep[c][r]
      /\ \A d \in Conns : d # c => ep'[d] = ep[d]
  BY <1>1, <1>3, SetEpFacts
<1>5. TypeOK' /\ Others(c)
  BY <1>1, <1>3, <1>4 DEF TypeOK, Others
<1>6. ep[c][s].at \in Sends \/ (ep[c][s].at \in Recvs /\ stream[c][s] = <<>>)
  BY DEF TransferFails
<1>7. QuerierInv'
  BY <1>3, <1>6, QuerierStays DEF Sends, Recvs
<1>8. sock[c]["caller"] # "open" \/ sock[c]["handler"] # "open"
  BY DEF TransferFails, Broken, Sides
<1>9. CASE s = "caller"
  <2>1. LinkOK(c, e, ep[c]["handler"], stream[c]["caller"], stream[c]["handler"],
               sock[c]["caller"], sock[c]["handler"], asked[c], cut[c])
    BY <1>2, <1>6, <1>8, <1>9, LinkFacts, CallerFails
  <2>2. Becomes(c, e, ep[c]["handler"], stream[c]["caller"], stream[c]["handler"],
                sock[c]["caller"], sock[c]["handler"], asked[c], cut[c])
    BY <1>3, <1>4, <1>9 DEF Becomes
  <2> QED  BY <2>1, <2>2, <1>2, <1>3, <1>5, <1>7, LiftParts
<1>10. CASE s = "handler"
  <2>1. LinkOK(c, ep[c]["caller"], e, stream[c]["caller"], stream[c]["handler"],
               sock[c]["caller"], sock[c]["handler"], asked[c], cut[c])
    BY <1>2, <1>6, <1>8, <1>10, LinkFacts, HandlerFails
  <2>2. Becomes(c, ep[c]["caller"], e, stream[c]["caller"], stream[c]["handler"],
                sock[c]["caller"], sock[c]["handler"], asked[c], cut[c])
    BY <1>3, <1>4, <1>10 DEF Becomes
  <2> QED  BY <2>1, <2>2, <1>2, <1>3, <1>5, <1>7, LiftParts
<1> QED  BY <1>9, <1>10 DEF Sides

\* A transfer times out.
LEMMA CutPreserves ==
  ASSUME IInv, NEW c \in Conns, NEW s \in Sides, TimesOut(c, s),
         UNCHANGED <<active, asked, qpc>>
  PROVE  IInv'
<1> "caller" \in Sides /\ "handler" \in Sides /\ "caller" # "handler"
  BY DEF Sides
<1>1. TypeOK
  BY DEF IInv
<1>2. PICK e \in Ends : e = At("failed") /\ e.at = "failed"
  BY AtFacts DEF Ats
<1>3. /\ SetEp(c, s, e) /\ UNCHANGED <<sock, stream, died>>
      /\ cut' = [cut EXCEPT ![c] = TRUE]
  BY <1>2 DEF TimesOut
<1>4. /\ ep' \in [Conns -> [Sides -> Ends]] /\ ep'[c][s] = e
      /\ \A r \in Sides : r # s => ep'[c][r] = ep[c][r]
      /\ \A d \in Conns : d # c => ep'[d] = ep[d]
  BY <1>1, <1>3, SetEpFacts
<1>5. /\ cut' \in [Conns -> BOOLEAN] /\ cut'[c] = TRUE
      /\ \A d \in Conns : d # c => cut'[d] = cut[d]
  BY <1>1, <1>3 DEF TypeOK
<1>6. TypeOK' /\ Others(c) /\ \A d \in Conns : cut[d] => cut'[d]
  BY <1>1, <1>3, <1>4, <1>5 DEF TypeOK, Others
<1>7. ep[c][s].at \in Sends \cup Recvs
  BY DEF TimesOut, Sends, Recvs
<1>8. QuerierInv'
  BY <1>3, <1>7, QuerierStays DEF Sends, Recvs
<1>9. CASE s = "caller"
  <2>1. LinkOK(c, e, ep[c]["handler"], stream[c]["caller"], stream[c]["handler"],
               sock[c]["caller"], sock[c]["handler"], asked[c], TRUE)
    BY <1>2, <1>7, <1>9, LinkFacts, CallerIsCut
  <2>2. Becomes(c, e, ep[c]["handler"], stream[c]["caller"], stream[c]["handler"],
                sock[c]["caller"], sock[c]["handler"], asked[c], TRUE)
    BY <1>3, <1>4, <1>5, <1>9 DEF Becomes
  <2> QED  BY <2>1, <2>2, <1>2, <1>3, <1>6, <1>8, LiftParts
<1>10. CASE s = "handler"
  <2>1. LinkOK(c, ep[c]["caller"], e, stream[c]["caller"], stream[c]["handler"],
               sock[c]["caller"], sock[c]["handler"], asked[c], TRUE)
    BY <1>2, <1>7, <1>10, LinkFacts, HandlerIsCut
  <2>2. Becomes(c, ep[c]["caller"], e, stream[c]["caller"], stream[c]["handler"],
                sock[c]["caller"], sock[c]["handler"], asked[c], TRUE)
    BY <1>3, <1>4, <1>5, <1>10 DEF Becomes
  <2> QED  BY <2>1, <2>2, <1>2, <1>3, <1>6, <1>8, LiftParts
<1> QED  BY <1>9, <1>10 DEF Sides

\* The two ends of a connection are different processes.
LEMMA TwoProcs ==
  ASSUME NEW c \in Conns
  PROVE  /\ Caller[c] \in Procs /\ Handler[c] \in {"controller", "server"}
         /\ Caller[c] # Handler[c]
         /\ Proc(c, "caller") = Caller[c] /\ Proc(c, "handler") = Handler[c]
<1>1. CASE c = "querier"  BY <1>1 DEF Caller, Handler, Proc, Procs
<1>2. CASE c = "admin"  BY <1>2 DEF Caller, Handler, Proc, Procs
<1>3. CASE c = "client"  BY <1>3 DEF Caller, Handler, Proc, Procs
<1>4. CASE c = "simple"  BY <1>4 DEF Caller, Handler, Proc, Procs
<1> QED  BY <1>1, <1>2, <1>3, <1>4 DEF Conns

\* A process ends.
LEMMA DiePreserves ==
  ASSUME IInv, NEW p \in Procs, NEW why \in Causes, why # "no", Die(p, why),
         UNCHANGED <<active, asked, qpc>>,
         why = "exception" => /\ p \in {"server", "controller"}
                              /\ \E c \in active : cut[c] /\ p \in {Caller[c], Handler[c]}
  PROVE  IInv'
<1> "caller" \in Sides /\ "handler" \in Sides /\ "caller" # "handler"
  BY DEF Sides
<1>1. TypeOK
  BY DEF IInv
<1>2. PICK e \in Ends : e = At("gone") /\ e.at = "gone"
  BY AtFacts DEF Ats
<1>3. /\ died' = [died EXCEPT ![p] = why] /\ UNCHANGED <<stream, cut>>
      /\ sock' = [c \in Conns |-> [s \in Sides |-> IF Proc(c, s) = p THEN "shut" ELSE sock[c][s]]]
      /\ ep' = [c \in Conns |-> [s \in Sides |-> IF Proc(c, s) = p THEN e ELSE ep[c][s]]]
  BY <1>2 DEF Die
<1>4. died' \in [Procs -> Causes] /\ died'[p] = why /\ \A x \in Procs : x # p => died'[x] = died[x]
  BY <1>1, <1>3 DEF TypeOK
<1>5. ASSUME NEW c \in Conns, NEW s \in Sides
      PROVE  /\ sock'[c][s] = IF Proc(c, s) = p THEN "shut" ELSE sock[c][s]
             /\ ep'[c][s] = IF Proc(c, s) = p THEN e ELSE ep[c][s]
  BY <1>3
<1>6. TypeOK'
  <2>1. ep' \in [Conns -> [Sides -> Ends]]
    BY <1>1, <1>3 DEF TypeOK
  <2>2. sock' \in [Conns -> [Sides -> {"open", "shut"}]]
    BY <1>1, <1>3 DEF TypeOK
  <2> QED  BY <2>1, <2>2, <1>1, <1>3, <1>4 DEF TypeOK
<1>7. LinkInv'
  <2>1. SUFFICES ASSUME NEW c \in Conns PROVE Link(c)'
    BY DEF LinkInv
  <2>2. /\ stream'[c] = stream[c] /\ asked'[c] = asked[c] /\ cut'[c] = cut[c]
    BY <1>3
  <2>3. CASE Caller[c] = p
    <3>1. /\ sock'[c]["caller"] = "shut" /\ sock'[c]["handler"] = sock[c]["handler"]
          /\ ep'[c]["caller"] = e /\ ep'[c]["handler"] = ep[c]["handler"]
      BY <2>3, <1>5, TwoProcs
    <3>2. LinkOK(c, e, ep[c]["handler"], stream[c]["caller"], stream[c]["handler"],
                 "shut", sock[c]["handler"], asked[c], cut[c])
      BY <1>2, LinkFacts, CallerDies
    <3> QED  BY <3>1, <3>2, <2>2 DEF Link
  <2>4. CASE Handler[c] = p
    <3>1. /\ sock'[c]["caller"] = sock[c]["caller"] /\ sock'[c]["handler"] = "shut"
          /\ ep'[c]["caller"] = ep[c]["caller"] /\ ep'[c]["handler"] = e
      BY <2>4, <1>5, TwoProcs
    <3>2. LinkOK(c, ep[c]["caller"], e, stream[c]["caller"], stream[c]["handler"],
                 sock[c]["caller"], "shut", asked[c], cut[c])
      BY <1>2, LinkFacts, HandlerDies
    <3> QED  BY <3>1, <3>2, <2>2 DEF Link
  <2>5. CASE Caller[c] # p /\ Handler[c] # p
    <3>1. /\ sock'[c]["caller"] = sock[c]["caller"] /\ sock'[c]["handler"] = sock[c]["handler"]
          /\ ep'[c]["caller"] = ep[c]["caller"] /\ ep'[c]["handler"] = ep[c]["handler"]
      BY <2>5, <1>5, TwoProcs
    <3> QED  BY <3>1, <2>2 DEF Link, IInv, LinkInv
  <2> QED  BY <2>3, <2>4, <2>5
<1>8. GoneInv'
  <2>1. SUFFICES ASSUME NEW c \in Conns, ep'[c]["caller"].at = "gone"
                 PROVE  died'[Caller[c]] # "no"
    BY DEF GoneInv
  <2>2. CASE Caller[c] = p
    BY <2>2, <1>4
  <2>3. CASE Caller[c] # p
    <3>1. ep'[c]["caller"] = ep[c]["caller"] /\ died'[Caller[c]] = died[Caller[c]]
      BY <2>3, <1>4, <1>5, TwoProcs
    <3> QED  BY <3>1, <2>1 DEF IInv, GoneInv
  <2> QED  BY <2>2, <2>3
<1>9. QuerierInv'
  <2>1. ep'["querier"]["caller"] = e \/ ep'["querier"]["caller"] = ep["querier"]["caller"]
    BY <1>5 DEF Conns
  <2> QED  BY <2>1, <1>2 DEF IInv, QuerierInv
<1>10. ExceptionInv'
  <2>1. SUFFICES ASSUME NEW x \in Procs, died'[x] = "exception"
                 PROVE  /\ x \in {"server", "controller"}
                        /\ \E c \in active : cut[c] /\ x \in {Caller[c], Handler[c]}
    BY <1>3 DEF ExceptionInv
  <2>2. CASE x = p
    BY <2>1, <2>2, <1>4
  <2>3. CASE x # p
    BY <2>1, <2>3, <1>4 DEF IInv, ExceptionInv
  <2> QED  BY <2>2, <2>3
<1> QED  BY <1>6, <1>7, <1>8, <1>9, <1>10 DEF IInv

\* A step of a transfer.
LEMMA TransferPreserves ==
  ASSUME IInv, NEW c \in Conns, NEW s \in Sides, Transfer(c, s)
  PROVE  IInv'
<1>1. UNCHANGED <<active, asked, qpc>>
  BY DEF Transfer, serverVars
<1>2. CASE SendHead(c, s)
  <2>1. PICK cell, e : Gives(ep[c][s], cell, e) /\ SendCell(c, s, cell, e)
    BY <1>2 DEF SendHead, Gives
  <2> QED  BY <2>1, <1>1, SendPreserves
<1>3. CASE SendData(c, s)
  <2>1. PICK cell, e : Gives(ep[c][s], cell, e) /\ SendCell(c, s, cell, e)
    BY <1>3 DEF SendData, Gives
  <2> QED  BY <2>1, <1>1, SendPreserves
<1>4. CASE RecvHead(c, s)
  <2>1. PICK e : TakesHead(ep[c][s], Head(stream[c][s]), e) /\ SetEp(c, s, e)
    BY <1>4 DEF RecvHead, TakesHead
  <2>2. Consume(c, s) /\ stream[c][s] # <<>>
    BY <1>4 DEF RecvHead, Consume
  <2>3. Takes(ep[c][s], stream[c][s], e)
    BY <2>1, <2>2 DEF Takes
  <2> QED  BY <2>1, <2>2, <2>3, <1>1, TakePreserves
<1>5. CASE RecvData(c, s)
  <2>1. PICK e : TakesData(ep[c][s], Head(stream[c][s]), e) /\ SetEp(c, s, e)
    BY <1>5 DEF RecvData, TakesData
  <2>2. Consume(c, s) /\ stream[c][s] # <<>>
    BY <1>5 DEF RecvData, Consume
  <2>3. Takes(ep[c][s], stream[c][s], e)
    BY <2>1, <2>2 DEF Takes
  <2> QED  BY <2>1, <2>2, <2>3, <1>1, TakePreserves
<1>6. CASE TransferFails(c, s)
  BY <1>1, <1>6, FailPreserves
<1>7. CASE SendKills(c, s)
  <2>1. Die(Proc(c, s), "SIGPIPE") /\ Proc(c, s) \in Procs
    BY <1>7, TwoProcs DEF SendKills, Sides, Procs
  <2> QED  BY <2>1, <1>1, DiePreserves DEF Causes
<1>8. CASE TimesOut(c, s)
  BY <1>1, <1>8, CutPreserves
<1> QED  BY <1>2, <1>3, <1>4, <1>5, <1>6, <1>7, <1>8 DEF Transfer

\* What a handler does with what it received: it leaves, answers, or throws.
LEMMA HandlerOutcome ==
  ASSUME NEW c \in Conns, Handle(c)
  PROVE  \E o \in recv_request(ep[c]["handler"]) :
           \/ o = "none" /\ HandlerEnds(c)
           \/ o \in Requests(c) /\ \E t \in {o, "ERROR"} : Respond(c, t)
           \/ o # "none" /\ o \notin Requests(c) /\ Die(Handler[c], "exception")
<1>0. "none" \notin ControllerTypes /\ "none" \notin KvTypes
  BY DEF ControllerTypes, KvTypes
<1>1. CASE ControllerAnswers(c)
  <2>1. Handler[c] = "controller" /\ Requests(c) = ControllerTypes
    BY <1>1 DEF ControllerAnswers, Requests
  <2>2. PICK o \in recv_request(ep[c]["handler"]) :
          CASE o = "none"               -> HandlerEnds(c)
            [] o \in ControllerTypes    -> Respond(c, ShardControllerAnswer(o))
            [] OTHER                    -> Die("controller", "exception")
    BY <1>1 DEF ControllerAnswers
  <2>3. CASE o = "none"
    BY <2>2, <2>3, <1>0
  <2>4. CASE o \in ControllerTypes
    <3>1. Respond(c, o)
      BY <2>2, <2>4, <1>0 DEF ShardControllerAnswer
    <3> QED  BY <2>1, <2>4, <3>1
  <2>5. CASE o # "none" /\ o \notin ControllerTypes
    <3>1. Die("controller", "exception")
      BY <2>2, <2>5
    <3> QED  BY <2>1, <2>5, <3>1
  <2> QED  BY <2>3, <2>4, <2>5
<1>2. CASE ServerAnswers(c)
  <2>1. Handler[c] = "server" /\ Requests(c) = KvTypes
    BY <1>2 DEF ServerAnswers, Requests
  <2>2. PICK o \in recv_request(ep[c]["handler"]) :
          CASE o = "none"    -> HandlerEnds(c) /\ UNCHANGED leaked
            [] o \in KvTypes -> /\ Distributed => ~config_mtx
                                /\ \/ responsible_for /\ StoreAnswers(c, o)
                                   \/ ~responsible_for /\ Respond(c, "ERROR") /\ UNCHANGED leaked
            [] OTHER         -> Die("server", "exception") /\ UNCHANGED leaked
    BY <1>2 DEF ServerAnswers
  <2>3. CASE o = "none"
    BY <2>2, <2>3, <1>0
  <2>4. CASE o \in KvTypes
    <3>1. StoreAnswers(c, o) \/ Respond(c, "ERROR")
      BY <2>2, <2>4, <1>0
    <3>2. Respond(c, "ERROR") \/ Respond(c, o)
      BY <3>1 DEF StoreAnswers
    <3> QED  BY <2>1, <2>4, <3>2
  <2>5. CASE o # "none" /\ o \notin KvTypes
    <3>1. Die("server", "exception")
      BY <2>2, <2>5
    <3> QED  BY <2>1, <2>5, <3>1
  <2> QED  BY <2>3, <2>4, <2>5
<1> QED  BY <1>1, <1>2 DEF Handle

\* A handler handles what it received.
LEMMA HandlePreserves ==
  ASSUME IInv, NEW c \in Conns, c \in active, Handle(c)
  PROVE  IInv'
<1> "caller" \in Sides /\ "handler" \in Sides /\ "caller" # "handler"
  BY DEF Sides
<1>1. TypeOK /\ sock[c]["caller"] \in {"open", "shut"}
  BY DEF IInv, TypeOK
<1>2. UNCHANGED <<active, asked, qpc>>
  BY DEF Handle, ControllerAnswers, ServerAnswers, serverVars
<1>3. ep[c]["handler"].at \in {"got", "failed"}
  BY DEF Handle, Ended
<1>4. PICK o \in recv_request(ep[c]["handler"]) :
        \/ o = "none" /\ HandlerEnds(c)
        \/ o \in Requests(c) /\ \E t \in {o, "ERROR"} : Respond(c, t)
        \/ o # "none" /\ o \notin Requests(c) /\ Die(Handler[c], "exception")
  BY HandlerOutcome
<1>5. CASE o = "none" /\ HandlerEnds(c)
  <2>1. PICK e \in Ends : e = At("gone") /\ e.at = "gone"
    BY AtFacts DEF Ats
  <2>2. /\ SetEp(c, "handler", e) /\ UNCHANGED <<stream, cut, died>>
        /\ sock' = [sock EXCEPT ![c]["handler"] = "shut"]
    BY <1>5, <2>1 DEF HandlerEnds
  <2>3. /\ ep' \in [Conns -> [Sides -> Ends]] /\ ep'[c]["handler"] = e
        /\ ep'[c]["caller"] = ep[c]["caller"]
        /\ \A d \in Conns : d # c => ep'[d] = ep[d]
    BY <1>1, <2>1, <2>2, SetEpFacts
  <2>4. /\ sock' \in [Conns -> [Sides -> {"open", "shut"}]] /\ sock'[c]["handler"] = "shut"
        /\ sock'[c]["caller"] = sock[c]["caller"]
        /\ \A d \in Conns : d # c => sock'[d] = sock[d]
    BY <1>1, <2>2 DEF TypeOK
  <2>5. TypeOK' /\ Others(c)
    BY <1>1, <1>2, <2>2, <2>3, <2>4 DEF TypeOK, Others
  <2>6. QuerierInv'
    BY <1>2, <1>3, <2>1, <2>2, QuerierStays
  <2>7. LinkOK(c, ep[c]["caller"], e, stream[c]["caller"], stream[c]["handler"],
               sock[c]["caller"], "shut", asked[c], cut[c])
    BY <1>3, <1>5, <2>1, LinkFacts, HandlerLeaves
  <2>8. Becomes(c, ep[c]["caller"], e, stream[c]["caller"], stream[c]["handler"],
                sock[c]["caller"], "shut", asked[c], cut[c])
    BY <1>2, <2>2, <2>3, <2>4 DEF Becomes
  <2> QED  BY <2>2, <2>5, <2>6, <2>7, <2>8, <1>2, LiftParts
<1>6. ASSUME o \in Requests(c), NEW t \in {o, "ERROR"}, Respond(c, t) PROVE IInv'
  <2>1. PICK e : e = Sending("handler", t)
    OBVIOUS
  <2>2. /\ LinkType(ep[c]["caller"], e, stream[c]["caller"], stream[c]["handler"],
                    sock[c]["caller"], sock[c]["handler"], asked[c], cut[c])
        /\ LinkOK(c, ep[c]["caller"], e, stream[c]["caller"], stream[c]["handler"],
                  sock[c]["caller"], sock[c]["handler"], asked[c], cut[c])
    BY <1>3, <1>6, <2>1, LinkFacts, HandlerResponds
  <2>3. e \in Ends
    BY <2>2 DEF LinkType
  <2>4. SetEp(c, "handler", e) /\ UNCHANGED <<sock, stream, cut, died>>
    BY <1>6, <2>1 DEF Respond
  <2>5. /\ ep' \in [Conns -> [Sides -> Ends]] /\ ep'[c]["handler"] = e
        /\ ep'[c]["caller"] = ep[c]["caller"]
        /\ \A d \in Conns : d # c => ep'[d] = ep[d]
    BY <1>1, <2>3, <2>4, SetEpFacts
  <2>6. TypeOK' /\ Others(c)
    BY <1>1, <1>2, <2>4, <2>5 DEF TypeOK, Others
  <2>7. QuerierInv'
    BY <1>2, <1>3, <2>3, <2>4, QuerierStays
  <2>8. Becomes(c, ep[c]["caller"], e, stream[c]["caller"], stream[c]["handler"],
                sock[c]["caller"], sock[c]["handler"], asked[c], cut[c])
    BY <1>2, <2>4, <2>5 DEF Becomes
  <2> QED  BY <2>2, <2>4, <2>6, <2>7, <2>8, <1>2, LiftParts
<1>7. CASE o # "none" /\ o \notin Requests(c) /\ Die(Handler[c], "exception")
  <2>1. cut[c] # FALSE
    <3>1. SUFFICES ASSUME cut[c] = FALSE PROVE FALSE
      OBVIOUS
    <3>2. PICK ce, he, cq, hq, ck, hk, a, ct :
            /\ ce = ep[c]["caller"] /\ he = ep[c]["handler"]
            /\ cq = stream[c]["caller"] /\ hq = stream[c]["handler"]
            /\ ck = sock[c]["caller"] /\ hk = sock[c]["handler"] /\ a = asked[c] /\ ct = cut[c]
      OBVIOUS
    <3>3. LinkType(ce, he, cq, hq, ck, hk, a, ct) /\ LinkOK(c, ce, he, cq, hq, ck, hk, a, ct)
      BY <3>2, LinkFacts
    <3>4. ct = FALSE /\ he.at \in {"got", "failed"} /\ o \in recv_request(he)
      BY <3>1, <3>2, <1>3
    <3>5. (he.at = "failed" /\ o = "none") \/ (he.at = "got" /\ o = a /\ a \in Requests(c))
      BY <3>3, <3>4, RequestIsKnown
    <3> QED  BY <3>5, <1>7
  <2>2. cut[c] = TRUE
    BY <1>1, <2>1 DEF TypeOK
  <2>3. Handler[c] \in Procs /\ Handler[c] \in {"server", "controller"}
    BY TwoProcs DEF Procs
  <2>4. \E d \in active : cut[d] /\ Handler[c] \in {Caller[d], Handler[d]}
    BY <2>2
  <2> QED  BY <1>2, <1>7, <2>3, <2>4, DiePreserves DEF Causes
<1> QED  BY <1>4, <1>5, <1>6, <1>7

\* A call starts on a persistent connection.
LEMMA StartPreserves ==
  ASSUME IInv, NEW c \in Conns, c # "simple", ep[c]["caller"].at = "idle",
         NEW a \in MessageType, a \in Requests(c),
         SetEp(c, "caller", Sending("caller", a)), asked' = [asked EXCEPT ![c] = a],
         UNCHANGED <<active, sock, stream, cut, died>>,
         (qpc' = qpc /\ c # "querier") \/ qpc' = "query"
  PROVE  IInv'
<1> "caller" \in Sides /\ "handler" \in Sides /\ "caller" # "handler"
  BY DEF Sides
<1>1. TypeOK
  BY DEF IInv
<1>2. PICK e \in Ends : e = Sending("caller", a) /\ e.at = "send_head"
  BY SendingFacts
<1>3. /\ ep' \in [Conns -> [Sides -> Ends]] /\ ep'[c]["caller"] = e
      /\ ep'[c]["handler"] = ep[c]["handler"]
      /\ \A d \in Conns : d # c => ep'[d] = ep[d]
  BY <1>1, <1>2, SetEpFacts
<1>4. /\ asked' \in [Conns -> MessageType] /\ asked'[c] = a
      /\ \A d \in Conns : d # c => asked'[d] = asked[d]
  BY <1>1 DEF TypeOK
<1>5. TypeOK' /\ Others(c)
  BY <1>1, <1>3, <1>4 DEF TypeOK, Others
<1>6. QuerierInv'
  BY <1>3 DEF IInv, QuerierInv, Conns
<1>7. LinkOK(c, e, ep[c]["handler"], stream[c]["caller"], stream[c]["handler"],
             sock[c]["caller"], sock[c]["handler"], a, cut[c])
  BY <1>2, LinkFacts, CallerStarts
<1>8. Becomes(c, e, ep[c]["handler"], stream[c]["caller"], stream[c]["handler"],
              sock[c]["caller"], sock[c]["handler"], a, cut[c])
  BY <1>3, <1>4 DEF Becomes
<1> QED  BY <1>2, <1>5, <1>6, <1>7, <1>8, LiftParts

\* A call returns.
LEMMA ReturnPreserves ==
  ASSUME IInv, NEW c \in Conns, Ended(c, "caller"), SetEp(c, "caller", At("idle")),
         sock' = (IF c = "simple" THEN [sock EXCEPT ![c]["caller"] = "shut"] ELSE sock),
         UNCHANGED <<active, asked, stream, cut, died>>, qpc' = qpc \/ c = "querier"
  PROVE  IInv'
<1> "caller" \in Sides /\ "handler" \in Sides /\ "caller" # "handler"
  BY DEF Sides
<1>1. TypeOK /\ ep[c]["caller"].at \in {"got", "failed"}
  BY DEF IInv, Ended
<1>2. PICK e \in Ends : e = At("idle") /\ e.at = "idle"
  BY AtFacts DEF Ats
<1>3. /\ ep' \in [Conns -> [Sides -> Ends]] /\ ep'[c]["caller"] = e
      /\ ep'[c]["handler"] = ep[c]["handler"]
      /\ \A d \in Conns : d # c => ep'[d] = ep[d]
  BY <1>1, <1>2, SetEpFacts
<1>4. PICK k : k = IF c = "simple" THEN "shut" ELSE sock[c]["caller"]
  OBVIOUS
<1>5. /\ sock' \in [Conns -> [Sides -> {"open", "shut"}]] /\ sock'[c]["caller"] = k
      /\ sock'[c]["handler"] = sock[c]["handler"]
      /\ \A d \in Conns : d # c => sock'[d] = sock[d]
  <2>1. CASE c = "simple"
    BY <1>1, <1>4, <2>1 DEF TypeOK
  <2>2. CASE c # "simple"
    BY <1>1, <1>4, <2>2 DEF TypeOK
  <2> QED  BY <2>1, <2>2
<1>6. TypeOK' /\ Others(c)
  BY <1>1, <1>3, <1>5 DEF TypeOK, Others
<1>7. QuerierInv'
  <2>1. CASE c = "querier"
    BY <1>2, <1>3, <2>1 DEF QuerierInv
  <2>2. CASE c # "querier"
    BY <1>3, <2>2 DEF IInv, QuerierInv, Conns
  <2> QED  BY <2>1, <2>2
<1>8. LinkOK(c, e, ep[c]["handler"], stream[c]["caller"], stream[c]["handler"],
             k, sock[c]["handler"], asked[c], cut[c])
  BY <1>1, <1>2, <1>4, LinkFacts, CallerReturns
<1>9. Becomes(c, e, ep[c]["handler"], stream[c]["caller"], stream[c]["handler"],
              k, sock[c]["handler"], asked[c], cut[c])
  BY <1>3, <1>5 DEF Becomes
<1> QED  BY <1>2, <1>6, <1>7, <1>8, <1>9, LiftParts

\* A program asks the handler of its connection only what that handler knows.
LEMMA RequestsAreKnown ==
  ASSUME NEW does
  PROVE  /\ RequestOf("simple", does) = "none" \/ RequestOf("simple", does) \in KvTypes
         /\ RequestOf("client", does) = "none" \/ RequestOf("client", does) \in ControllerTypes
         /\ RequestOf("server", does) = "none" \/ RequestOf("server", does) \in ControllerTypes
<1>1. RequestOf("simple", does) = SimpleClient(does.op)
  BY DEF RequestOf
<1>2. RequestOf("client", does) = ShardKvClient(does.op)
  BY DEF RequestOf
<1>3. RequestOf("server", does) = ServerCall(does.op)
  BY DEF RequestOf
<1>4. SimpleClient(does.op) = "none" \/ SimpleClient(does.op) \in KvTypes
  BY DEF SimpleClient
<1>5. ShardKvClient(does.op) \in {"QUERY", "MOVE", "none"}
  <2>1. CASE does.op \in {"GET", "PUT", "APPEND", "DELETE", "QUERY"}
    BY <2>1 DEF ShardKvClient
  <2>2. CASE does.op = "MOVE"
    BY <2>2 DEF ShardKvClient
  <2>3. CASE does.op \notin {"GET", "PUT", "APPEND", "DELETE", "QUERY", "MOVE"}
    BY <2>3 DEF ShardKvClient
  <2> QED  BY <2>1, <2>2, <2>3
<1>6. ServerCall(does.op) \in {"JOIN", "LEAVE", "none"}
  BY DEF ServerCall
<1> QED  BY <1>1, <1>2, <1>3, <1>4, <1>5, <1>6 DEF ControllerTypes

\* A simple client connects.
LEMMA CallSimplePreserves ==
  ASSUME IInv, CallSimple
  PROVE  IInv'
<1> DEFINE c == "simple"
<1> "caller" \in Sides /\ "handler" \in Sides /\ "caller" # "handler" /\ c \in Conns
  BY DEF Sides, Conns
<1>1. TypeOK
  BY DEF IInv
<1>2. PICK a : /\ a = RequestOf("simple", call["simple"]) /\ a # "none"
               /\ asked' = [asked EXCEPT !["simple"] = a]
               /\ ep' = [ep EXCEPT !["simple"] = [s \in Sides |->
                           IF s = "caller" THEN Sending("caller", a) ELSE At("recv_head")]]
  BY DEF CallSimple
<1>3. a \in Requests(c) /\ a \in MessageType
  BY <1>2, RequestsAreKnown DEF Requests, Handler, MessageType
<1>4. PICK x \in Ends : x = Sending("caller", a) /\ x.at = "send_head"
  BY <1>3, SendingFacts
<1>5. PICK y \in Ends : y = At("recv_head")
  BY AtFacts DEF Ats, Recvs
<1>6. PICK r \in [Sides -> Ends] : r = [s \in Sides |-> IF s = "caller" THEN x ELSE y]
  OBVIOUS
<1>7. /\ ep' \in [Conns -> [Sides -> Ends]]
      /\ ep'[c]["caller"] = x /\ ep'[c]["handler"] = y
      /\ \A d \in Conns : d # c => ep'[d] = ep[d]
  BY <1>1, <1>2, <1>4, <1>5, <1>6 DEF TypeOK
<1>8. /\ asked' \in [Conns -> MessageType] /\ asked'[c] = a
      /\ \A d \in Conns : d # c => asked'[d] = asked[d]
  BY <1>1, <1>2, <1>3 DEF TypeOK
<1>9. /\ sock' \in [Conns -> [Sides -> {"open", "shut"}]]
      /\ sock'[c]["caller"] = "open" /\ sock'[c]["handler"] = "open"
      /\ \A d \in Conns : d # c => sock'[d] = sock[d]
  BY <1>1 DEF CallSimple, TypeOK
<1>10. /\ stream' \in [Conns -> [Sides -> Seq(Cells)]]
       /\ stream'[c]["caller"] = <<>> /\ stream'[c]["handler"] = <<>>
       /\ \A d \in Conns : d # c => stream'[d] = stream[d]
  <2>1. <<>> \in Seq(Cells)
    OBVIOUS
  <2> QED  BY <1>1, <2>1 DEF CallSimple, TypeOK
<1>11. /\ cut' \in [Conns -> BOOLEAN] /\ cut'[c] = FALSE
       /\ \A d \in Conns : d # c => cut'[d] = cut[d]
  BY <1>1 DEF CallSimple, TypeOK
<1>12. UNCHANGED <<active, died, qpc>> /\ died["server"] = "no"
  BY DEF CallSimple, serverVars, Alive
<1>13. TypeOK' /\ Others(c)
  BY <1>1, <1>7, <1>8, <1>9, <1>10, <1>11, <1>12 DEF TypeOK, Others
<1>14. LinkInv'
  <2>1. SUFFICES ASSUME NEW d \in Conns PROVE Link(d)'
    BY DEF LinkInv
  <2>2. CASE d # c
    BY <2>2, <1>13 DEF IInv, LinkInv, Link, Others
  <2>3. CASE d = c
    <3>1. LinkOK(c, x, y, <<>>, <<>>, "open", "open", a, FALSE)
      BY <1>3, <1>4, <1>5, SimpleStarts
    <3> QED  BY <2>3, <3>1, <1>7, <1>8, <1>9, <1>10, <1>11 DEF Link
  <2> QED  BY <2>2, <2>3
<1>15. GoneInv'
  <2>1. SUFFICES ASSUME NEW d \in Conns, ep'[d]["caller"].at = "gone"
                 PROVE  died'[Caller[d]] # "no"
    BY DEF GoneInv
  <2>2. d # c
    BY <2>1, <1>4, <1>7
  <2> QED  BY <2>1, <2>2, <1>7, <1>12 DEF IInv, GoneInv
<1>16. QuerierInv'
  BY <1>7, <1>12 DEF IInv, QuerierInv, Conns
<1>17. ExceptionInv'
  <2>1. SUFFICES ASSUME NEW p \in Procs, died[p] = "exception"
                 PROVE  /\ p \in {"server", "controller"}
                        /\ \E d \in active : cut'[d] /\ p \in {Caller[d], Handler[d]}
    BY <1>12 DEF ExceptionInv
  <2>2. p \in {"server", "controller"}
    BY <2>1 DEF IInv, ExceptionInv
  <2>3. PICK d \in active : cut[d] /\ p \in {Caller[d], Handler[d]}
    BY <2>1 DEF IInv, ExceptionInv
  <2>4. d \in Conns
    BY <1>1 DEF TypeOK
  <2>5. p = "controller"
    BY <2>1, <2>2, <1>12
  <2>6. d # c
    BY <2>3, <2>5 DEF Caller, Handler
  <2> QED  BY <2>2, <2>3, <2>4, <2>6, <1>11
<1> QED  BY <1>12, <1>13, <1>14, <1>15, <1>16, <1>17 DEF IInv

\* A step that leaves the connections and the processes alone.
LEMMA LocalPreserves ==
  ASSUME IInv, UNCHANGED <<active, sock, stream, ep, asked, cut, died>>,
         qpc' = qpc \/ (qpc # "query")
  PROVE  IInv'
<1>1. TypeOK' /\ LinkInv' /\ GoneInv' /\ ExceptionInv'
  <2>1. TypeOK'  BY DEF IInv, TypeOK
  <2>2. LinkInv'  BY DEF IInv, LinkInv, Link
  <2>3. GoneInv'  BY DEF IInv, GoneInv
  <2>4. ExceptionInv'  BY DEF IInv, ExceptionInv
  <2> QED  BY <2>1, <2>2, <2>3, <2>4
<1>2. QuerierInv'
  BY DEF IInv, QuerierInv
<1> QED  BY <1>1, <1>2 DEF IInv

\* The thread of process_config_loop.
LEMMA QuerierPreserves ==
  ASSUME IInv, "querier" \in active, Querier
  PROVE  IInv'
<1> "caller" \in Sides /\ "handler" \in Sides /\ "querier" \in Conns
  BY DEF Sides, Conns
<1>1. died["server"] = "no"
  BY DEF Querier, Alive
<1>2. CASE QuerierLoop
  BY <1>2, LocalPreserves DEF QuerierLoop, connVars
<1>3. CASE QuerierAsks
  <2>1. ep["querier"]["caller"].at = "idle"
    <3>1. ep["querier"]["caller"].at \in {"idle", "gone"}
      BY <1>3 DEF IInv, QuerierInv, QuerierAsks
    <3>2. Caller["querier"] = "server"
      BY DEF Caller
    <3> QED  BY <3>1, <3>2, <1>1 DEF IInv, GoneInv
  <2>2. "QUERY" \in MessageType /\ "QUERY" \in Requests("querier")
    BY DEF MessageType, Requests, Handler, ControllerTypes
  <2>3. /\ SetEp("querier", "caller", Sending("caller", "QUERY"))
        /\ asked' = [asked EXCEPT !["querier"] = "QUERY"] /\ qpc' = "query"
        /\ UNCHANGED <<active, sock, stream, cut, died>>
    BY <1>3 DEF QuerierAsks
  <2>4. PICK a : a = "QUERY"
    OBVIOUS
  <2> QED  BY <2>1, <2>2, <2>3, <2>4, StartPreserves
<1>4. CASE QuerierReturns
  <2>1. /\ Ended("querier", "caller") /\ UNCHANGED <<active, asked>>
    BY <1>4 DEF QuerierReturns
  <2>2. PICK o \in recv_response(ep["querier"]["caller"]) :
          IF o = "throw"
          THEN Die("server", "exception") /\ qpc' = qpc
          ELSE /\ SetEp("querier", "caller", At("idle"))
               /\ UNCHANGED <<sock, stream, cut, late, died>>
    BY <1>4 DEF QuerierReturns
  <2>3. CASE o = "throw"
    <3>1. ep["querier"]["caller"].at = "got" /\ ep["querier"]["caller"].type = "invalid"
      <4>1. PICK e : e = ep["querier"]["caller"]
        OBVIOUS
      <4>2. e.at \in {"got", "failed"} /\ e.type \in Types /\ "throw" \in recv_response(e)
        BY <4>1, <2>1, <2>2, <2>3 DEF Ended, IInv, TypeOK, Ends
      <4>3. "throw" \notin Types /\ "throw" # "none"
        BY DEF Types, MessageType, KvTypes, ControllerTypes
      <4> QED  BY <4>1, <4>2, <4>3 DEF recv_response, deserialize_response, Deserialised
    <3>2. cut["querier"] # FALSE
      <4>1. SUFFICES ASSUME cut["querier"] = FALSE PROVE FALSE
        OBVIOUS
      <4>2. PICK c, ce, he, cq, hq, ck, hk, a, ct :
              /\ c = "querier" /\ ce = ep[c]["caller"] /\ he = ep[c]["handler"]
              /\ cq = stream[c]["caller"] /\ hq = stream[c]["handler"]
              /\ ck = sock[c]["caller"] /\ hk = sock[c]["handler"] /\ a = asked[c] /\ ct = cut[c]
        OBVIOUS
      <4>3. LinkType(ce, he, cq, hq, ck, hk, a, ct) /\ LinkOK(c, ce, he, cq, hq, ck, hk, a, ct)
        BY <4>2, LinkFacts
      <4>4. ct = FALSE /\ ce.at = "got" /\ ce.type = "invalid"
        BY <3>1, <4>1, <4>2
      <4>5. ce.type \in {a, "ERROR"}
        BY <4>3, <4>4, ResponseIsWhole
      <4>6. a \in MessageType /\ "invalid" \notin MessageType
        BY <4>3 DEF LinkType, MessageType, KvTypes, ControllerTypes
      <4> QED  BY <4>4, <4>5, <4>6
    <3>3. cut["querier"] = TRUE
      BY <3>2 DEF IInv, TypeOK
    <3>4. \E d \in active : cut[d] /\ "server" \in {Caller[d], Handler[d]}
      BY <3>3 DEF Caller
    <3> QED  BY <2>1, <2>2, <2>3, <3>4, DiePreserves DEF Causes, Procs
  <2>4. CASE o # "throw"
    <3>1. /\ SetEp("querier", "caller", At("idle")) /\ sock' = sock
          /\ UNCHANGED <<stream, cut, died>>
      BY <2>2, <2>4
    <3>2. PICK c \in Conns : c = "querier"
      OBVIOUS
    <3> QED  BY <2>1, <3>1, <3>2, ReturnPreserves
  <2> QED  BY <2>3, <2>4
<1> QED  BY <1>2, <1>3, <1>4 DEF Querier

\* A line of a program's input.
LEMMA ReplPreserves ==
  ASSUME IInv, NEW c \in Conns, c # "querier", ReplStep(c)
  PROVE  IInv'
<1>1. CASE ReadLine(c)
  BY <1>1, LocalPreserves DEF ReadLine, connVars, serverVars
<1>2. CASE CallLocal(c)
  BY <1>2, LocalPreserves DEF CallLocal, connVars, serverVars
<1>3. CASE Call(c)
  <2>1. PICK a : /\ a = RequestOf(Caller[c], call[c]) /\ a # "none"
                 /\ asked' = [asked EXCEPT ![c] = a]
                 /\ SetEp(c, "caller", Sending("caller", a))
    BY <1>3 DEF Call
  <2>2. c \in {"admin", "client"} /\ ep[c]["caller"].at = "idle"
    BY <1>3 DEF Call, Reading
  <2>3. (c = "admin" => Caller[c] = "server") /\ (c = "client" => Caller[c] = "client")
    BY DEF Caller
  <2>4. a \in ControllerTypes
    BY <2>1, <2>2, <2>3, RequestsAreKnown
  <2>5. Handler[c] = "controller"
    BY <2>2 DEF Handler
  <2>6. a \in Requests(c) /\ a \in MessageType
    BY <2>4, <2>5 DEF Requests, MessageType
  <2>7. UNCHANGED <<active, sock, stream, cut, died, qpc>>
    BY <1>3 DEF Call, serverVars
  <2> QED  BY <2>1, <2>2, <2>6, <2>7, StartPreserves
<1>4. CASE CallFatal(c)
  <2>1. Die(Caller[c], "undefined") /\ UNCHANGED <<active, asked, qpc>>
    BY <1>4 DEF CallFatal, serverVars
  <2> QED  BY <2>1, TwoProcs, DiePreserves DEF Causes
<1> QED  BY <1>1, <1>2, <1>3, <1>4 DEF ReplStep

\* The initial state satisfies the invariant.
LEMMA InitIInv == Init => IInv
<1> SUFFICES ASSUME Init PROVE IInv
  OBVIOUS
<1> "caller" \in Sides /\ "handler" \in Sides /\ "caller" # "handler"
  BY DEF Sides
<1>1. PICK i \in Ends : i = At("idle") /\ i.at = "idle"
  BY AtFacts DEF Ats
<1>2. PICK g \in Ends : g = At("gone") /\ g.at = "gone"
  BY AtFacts DEF Ats
<1>3. PICK h \in Ends : h = At("recv_head") /\ h.at = "recv_head"
  BY AtFacts DEF Ats, Recvs
<1>4. ep = [c \in Conns |-> [s \in Sides |->
              IF s = "caller" THEN i ELSE IF c = "simple" THEN g ELSE h]]
  BY <1>1, <1>2, <1>3 DEF Init
<1>5. TypeOK
  <2>1. active \subseteq Conns
    BY NetworkAssumption DEF Init
  <2>2. <<>> \in Seq(Cells) /\ "QUERY" \in MessageType /\ FALSE \in BOOLEAN /\ "no" \in Causes
    BY DEF MessageType, ControllerTypes, Causes
  <2>3. ep \in [Conns -> [Sides -> Ends]]
    BY <1>4
  <2>4. sock \in [Conns -> [Sides -> {"open", "shut"}]]
    BY DEF Init
  <2>5. stream \in [Conns -> [Sides -> Seq(Cells)]]
    BY <2>2 DEF Init
  <2> QED  BY <2>1, <2>2, <2>3, <2>4, <2>5 DEF Init, TypeOK
<1>6. LinkInv
  <2>1. SUFFICES ASSUME NEW c \in Conns PROVE Link(c)
    BY DEF LinkInv
  <2>2. /\ ep[c]["caller"] = i /\ ep[c]["handler"] = IF c = "simple" THEN g ELSE h
        /\ stream[c]["caller"] = <<>> /\ stream[c]["handler"] = <<>>
        /\ asked[c] = "QUERY" /\ cut[c] = FALSE
    BY <1>4 DEF Init
  <2>3. /\ sock[c]["caller"] = IF c = "simple" THEN "shut" ELSE "open"
        /\ sock[c]["handler"] = IF c = "simple" THEN "shut" ELSE "open"
    BY DEF Init
  <2>4. CASE c = "simple"
    BY <2>2, <2>3, <2>4, <1>1, <1>2 DEF Link, LinkOK, Coupled, Framed
  <2>5. CASE c # "simple"
    <3>1. Handler[c] = "controller" /\ "QUERY" \in Requests(c)
      BY <2>5 DEF Handler, Conns, Requests, ControllerTypes
    <3>2. Quiet(i, h, <<>>, <<>>)
      BY <1>1, <1>3 DEF Quiet
    <3>3. Coupled(c, i, h, "open", "open")
      BY <1>1, <1>3 DEF Coupled
    <3>4. LinkOK(c, i, h, <<>>, <<>>, "open", "open", "QUERY", FALSE)
      BY <3>1, <3>2, <3>3 DEF LinkOK, Framed
    <3> QED  BY <3>4, <2>2, <2>3, <2>5 DEF Link
  <2> QED  BY <2>4, <2>5
<1>7. GoneInv /\ QuerierInv
  <2>1. \A c \in Conns : ep[c]["caller"].at = "idle"
    BY <1>1, <1>4
  <2> QED  BY <2>1 DEF GoneInv, QuerierInv, Conns
<1>8. ExceptionInv
  BY DEF Init, ExceptionInv
<1> QED  BY <1>5, <1>6, <1>7, <1>8 DEF IInv

\* Every step keeps the invariant.
LEMMA NextIInv == IInv /\ [Next]_vars => IInv'
<1> SUFFICES ASSUME IInv, [Next]_vars PROVE IInv'
  OBVIOUS
<1>1. ASSUME NEW c \in Conns, CallerStep(c) PROVE IInv'
  <2>1. CASE Transfer(c, "caller")
    BY <2>1, TransferPreserves DEF Sides
  <2>2. CASE ReturnToRepl(c)
    <3>1. /\ Ended(c, "caller") /\ SetEp(c, "caller", At("idle"))
          /\ sock' = (IF c = "simple" THEN [sock EXCEPT ![c]["caller"] = "shut"] ELSE sock)
          /\ UNCHANGED <<active, asked, stream, cut, died, qpc>>
      BY <2>2 DEF ReturnToRepl, serverVars
    <3> QED  BY <3>1, ReturnPreserves
  <2>3. CASE c = "querier" /\ Querier
    BY <1>1, <2>3, QuerierPreserves DEF CallerStep
  <2> QED  BY <1>1, <2>1, <2>2, <2>3 DEF CallerStep
<1>2. ASSUME NEW c \in Conns, HandlerStep(c) PROVE IInv'
  <2>1. CASE Transfer(c, "handler")
    BY <2>1, TransferPreserves DEF Sides
  <2>2. CASE Handle(c)
    BY <1>2, <2>2, HandlePreserves DEF HandlerStep
  <2> QED  BY <1>2, <2>1, <2>2 DEF HandlerStep
<1>3. ASSUME NEW c \in Conns \ {"querier"}, ReplStep(c) PROVE IInv'
  BY <1>3, ReplPreserves
<1>4. CASE CallSimple
  BY <1>4, CallSimplePreserves
<1>5. CASE StopServer
  BY <1>5, LocalPreserves DEF StopServer, connVars
<1>6. CASE ServerStopped
  <2>1. Die("server", "exit") /\ UNCHANGED <<active, asked, qpc>>
    BY <1>6 DEF ServerStopped
  <2> QED  BY <2>1, DiePreserves DEF Causes, Procs
<1>7. ASSUME NEW p \in Procs, Exit(p) PROVE IInv'
  <2>1. Die(p, "exit") /\ UNCHANGED <<active, asked, qpc>>
    BY <1>7 DEF Exit, serverVars
  <2> QED  BY <2>1, DiePreserves DEF Causes
<1>8. CASE UNCHANGED vars
  BY <1>8, LocalPreserves DEF vars, connVars, serverVars
<1>9. "controller" \in Procs /\ "client" \in Procs
  BY DEF Procs
<1> QED  BY <1>1, <1>2, <1>3, <1>4, <1>5, <1>6, <1>7, <1>8, <1>9 DEF Next

-----------------------------------------------------------------------------
(* Theorems *)

\* The invariant of the connections holds: one message at a time is on its way on a
\* connection without a timeout, whoever fails or dies.
THEOREM IInvHolds == Spec => []IInv
BY InitIInv, NextIInv, PTL DEF Spec

\* A response that recv_response returns is the whole answer to the request of the
\* call, with nothing left in the streams, and an exception ends a process only
\* after a timeout on one of its connections, for every length of the payloads and
\* every set of connections that are used together.
THEOREM ResponsesAnswerTheirRequests == Spec => []AnswersMatch
<1>1. IInv => AnswersMatch
  <2> SUFFICES ASSUME IInv PROVE AnswersMatch
    OBVIOUS
  <2>1. ASSUME NEW c \in active, ep[c]["caller"].at = "got", cut[c] = FALSE
        PROVE  /\ ep[c]["caller"].whole = TRUE
               /\ ep[c]["caller"].type \in {asked[c], "ERROR"}
               /\ stream[c]["caller"] = <<>> /\ stream[c]["handler"] = <<>>
    <3>1. c \in Conns
      BY DEF IInv, TypeOK
    <3>2. PICK ce, he, cq, hq, ck, hk, a, ct :
            /\ ce = ep[c]["caller"] /\ he = ep[c]["handler"]
            /\ cq = stream[c]["caller"] /\ hq = stream[c]["handler"]
            /\ ck = sock[c]["caller"] /\ hk = sock[c]["handler"] /\ a = asked[c] /\ ct = cut[c]
      OBVIOUS
    <3>3. LinkType(ce, he, cq, hq, ck, hk, a, ct) /\ LinkOK(c, ce, he, cq, hq, ck, hk, a, ct)
      BY <3>1, <3>2, LinkFacts
    <3>4. ct = FALSE /\ ce.at = "got"
      BY <2>1, <3>2
    <3>5. ce.type \in {a, "ERROR"} /\ ce.whole = TRUE /\ cq = <<>> /\ hq = <<>>
      BY <3>3, <3>4, ResponseIsWhole
    <3> QED  BY <3>2, <3>5
  <2>2. \A c \in active : cut[c] \in BOOLEAN
    BY DEF IInv, TypeOK
  <2>3. ASSUME NEW p \in Procs, died[p] = "exception"
        PROVE  \E c \in active : cut[c] /\ p \in {Caller[c], Handler[c]}
    BY <2>3 DEF IInv, ExceptionInv
  <2> QED  BY <2>1, <2>2, <2>3 DEF AnswersMatch
<1> QED  BY <1>1, IInvHolds, PTL
=============================================================================
