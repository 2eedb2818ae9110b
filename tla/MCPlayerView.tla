----------------------------- MODULE MCPlayerView -----------------------------
(* The instances of Failover, with the player's view. *)
EXTENDS PlayerView, MCFailover
=============================================================================
