---------------------------- MODULE MCKvNetwork ----------------------------
(* Instances of KvNetwork for TLC. *)
EXTENDS KvNetwork

\* The server's two connections to the controller; a simple client of a server
\* with and without a controller; two programs that share the controller.
MCGroups == {{"querier"}, {"admin"}, {"client"}, {"simple"}, {"querier", "simple"}}
=============================================================================
