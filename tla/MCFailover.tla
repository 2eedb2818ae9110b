------------------------------ MODULE MCFailover ------------------------------
(* Small instances of Failover for TLC. *)
EXTENDS Failover, TLC

CONSTANTS p, c1, c2, dlhd, pluto

MCCand       == {p, c1, c2}
MCOneCand    == {p, c1}
MCChildOrder == <<c1, c2>>
MCOneOrder   == <<c1>>
MCAdapter    == {dlhd, pluto}
(* A dlhd channel backed by a pluto child and by another dlhd channel. *)
MCProvider    == p :> dlhd @@ c1 :> pluto @@ c2 :> dlhd
MCOneProvider == p :> dlhd @@ c1 :> pluto
On          == {[enabled |-> TRUE, definite |-> FALSE]}
OnDefinite  == {[enabled |-> TRUE, definite |-> TRUE]}
OnOff       == {[enabled |-> TRUE, definite |-> FALSE], [enabled |-> FALSE, definite |-> FALSE]}
(* Two states are one if they differ only in what no guard and no property of *)
(* FailoverPair.cfg reads: the attribution, which is only written; the history *)
(* that WalkTriesEveryone looks at; and how the request in a free slot ended   *)
(* (Free, Resting; WalkExitsUnpin looks at the step in which it ends).         *)
AtWork(t) == IF t.pc = "done" THEN NoTask ELSE [t EXCEPT !.visited = {}, !.steady = TRUE]
WhatMatters == <<entry, policies, order, config, won, [r \in Req |-> AtWork(tasks[r])]>>
(* The properties name no request slot. *)
Interchangeable == Permutations(Req)
=============================================================================
