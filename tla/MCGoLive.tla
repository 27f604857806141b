-------------------------------- MODULE MCGoLive --------------------------------
(* Instances of GoLive for TLC. *)
EXTENDS GoLive
=============================================================================
