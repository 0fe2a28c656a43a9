------------------------- MODULE MCShardController -------------------------
(* Instances of ShardController for TLC. *)
EXTENDS ShardController
=============================================================================
