------------------------------ MODULE MCEngine ------------------------------
(* Engine for TLC.  Hosts are not symmetric: each can be reached another way. *)
EXTENDS Engine
=============================================================================
