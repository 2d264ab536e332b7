----------------------------- MODULE MCBuildPool ----------------------------
(* BuildPool with two clients, one worker and one closer, for TLC. *)
EXTENDS BuildPool
=============================================================================
