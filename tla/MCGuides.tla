------------------------------ MODULE MCGuides -------------------------------
(* Two channels; a snapshot with both, and one that one of them has left.     *)
EXTENDS Guides, TLC
MCLineup == (1 :> {"news", "sport"}) @@ (2 :> {"news"})
=============================================================================
