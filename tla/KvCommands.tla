----------------------------- MODULE KvCommands -----------------------------
(***************************************************************************)
(* The command line of the kvstore programs: repl/repl.cpp and the         *)
(* handle() of every command under client/cmd, server/cmd and              *)
(* shardcontroller/cmd.  A line is a command name and the tokens that      *)
(* split() leaves of the rest; a token is known by what the commands ask   *)
(* of it: is it an address, is it a valid shard bound, how long is it.     *)
(*                                                                         *)
(* Handling a line refuses it ("usage"), makes one call of the client or   *)
(* the server object, or reads past the end of the tokens ("undefined").   *)
(***************************************************************************)
EXTENDS Integers, Sequences, SequencesExt

CONSTANT MaxTokens   \* bound: tokens of a line

\* An address, valid bounds of one and of two characters, and a word with a
\* character outside VALID_CHARS.
Tokens == {"addr", "A", "AB", "?"}
IsAddress(t) == t = "addr"
IsValid(t) == t \in {"A", "AB"}
SizeOf(t) == IF t = "A" THEN 1 ELSE 2

Lines == [cmd : {"help", "get", "put", "append", "delete", "multiget", "multiput", "gdprdelete",
                 "query", "move", "join", "leave", "print", "other"},
          tokens : BoundedSeq(Tokens, MaxTokens)]

\* What handling a line leads to: an operation with its numbers of keys and values.
Does(op, keys, values) == [op |-> op, keys |-> keys, values |-> values]
Usage == Does("usage", 0, 0)
Undefined == Does("undefined", 0, 0)

-----------------------------------------------------------------------------
(* The commands of the clients *)

\* These three take one key.
GetCommand(t) == IF Len(t) = 1 THEN Does("GET", 1, 0) ELSE Usage
DeleteCommand(t) == IF Len(t) = 1 THEN Does("DELETE", 1, 0) ELSE Usage
GDPRDeleteCommand(t) == IF Len(t) = 1 THEN Does("GDPR", 1, 0) ELSE Usage

\* put joins every further token into the value, append takes the second one.
PutCommand(t) == IF Len(t) < 2 THEN Usage ELSE Does("PUT", 1, 1)
AppendCommand(t) == IF Len(t) < 2 THEN Usage ELSE Does("APPEND", 1, 1)

MultiGetCommand(t) == IF Len(t) < 1 THEN Usage ELSE Does("MULTI_GET", Len(t), 0)

MultiPutCommand(t) ==
  IF Len(t) < 2 \/ Len(t) % 2 # 0 THEN Usage ELSE Does("MULTI_PUT", Len(t) \div 2, Len(t) \div 2)

\* An even number of tokens is only reported: the loop goes on, and reads the
\* bound after the last token unless an earlier shard is refused.
MoveCommand(t) ==
  LET lowers == {i \in 2 .. Len(t) : i % 2 = 0}
      Refused(i) ==
        \/ ~IsValid(t[i])
        \/ i < Len(t) /\ (~IsValid(t[i + 1]) \/ SizeOf(t[i]) # SizeOf(t[i + 1]))
  IN  IF Len(t) < 3 \/ ~IsAddress(t[1]) \/ \E i \in lowers : Refused(i) THEN Usage
      ELSE IF Len(t) % 2 = 0 THEN Undefined
      ELSE Does("MOVE", (Len(t) - 1) \div 2, 0)

\* query, join and leave ignore the rest of the line; print looks at its token.
ClientQueryCommand == Does("QUERY", 0, 0)
JoinCommand == Does("JOIN", 0, 0)
LeaveCommand == Does("LEAVE", 0, 0)
PrintCommand(t) == IF Len(t) # 1 THEN Usage ELSE Does("print", 0, 0)

-----------------------------------------------------------------------------
(* Repl::process_line *)

\* The commands each program adds to its Repl.
Commands(program) ==
  LET kv == {"get", "put", "append", "delete", "multiget", "multiput", "gdprdelete"} IN
  CASE program = "simple" -> kv
    [] program = "client" -> kv \cup {"query", "move"}
    [] program = "server" -> {"join", "leave", "print"}

\* An empty line, help and an unknown command do nothing else.
process_line(program, line) ==
  LET t == line.tokens IN
  IF line.cmd \notin Commands(program) THEN Usage
  ELSE CASE line.cmd = "get"        -> GetCommand(t)
         [] line.cmd = "delete"     -> DeleteCommand(t)
         [] line.cmd = "gdprdelete" -> GDPRDeleteCommand(t)
         [] line.cmd = "put"        -> PutCommand(t)
         [] line.cmd = "append"     -> AppendCommand(t)
         [] line.cmd = "multiget"   -> MultiGetCommand(t)
         [] line.cmd = "multiput"   -> MultiPutCommand(t)
         [] line.cmd = "move"       -> MoveCommand(t)
         [] line.cmd = "query"      -> ClientQueryCommand
         [] line.cmd = "join"       -> JoinCommand
         [] line.cmd = "leave"      -> LeaveCommand
         [] line.cmd = "print"      -> PrintCommand(t)

\* What the lines a user can type lead to.
Typed(program) == {process_line(program, line) : line \in Lines}
=============================================================================
