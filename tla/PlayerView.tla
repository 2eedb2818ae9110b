------------------------------ MODULE PlayerView ------------------------------
(***************************************************************************)
(* What the player of the stream of Failover gets to see: the target of    *)
(* the last manifest it was served, and whether that manifest was marked   *)
(* as discontinuous (proxy.rs, the manifest-rewrite branch).               *)
(***************************************************************************)
EXTENDS Failover

VARIABLE view

ViewInit == Init /\ view = [target |-> NoTarget, marked |-> FALSE]

(* A manifest is rewritten and served; a recovery always marks it. *)
ServesManifest(r) ==
    /\ tasks[r].pc = "fetch" /\ tasks'[r].pc = "done" /\ tasks'[r].result = "served"
    /\ view' = [target |-> tasks[r].target,
                marked |-> tasks[r].marked \/ tasks[r].role = "walk"]

ServesNone ==
    /\ \A r \in Req : ~(/\ tasks[r].pc = "fetch" /\ tasks'[r].pc = "done"
                        /\ tasks'[r].result = "served")
    /\ UNCHANGED view

ViewNext == Next /\ (ServesNone \/ \E r \in Req : ServesManifest(r))

ViewSpec == ViewInit /\ [][ViewNext]_<<vars, view>>

(* A player is never moved to another upstream by a manifest that does not say *)
(* so: a served target that differs from the last served one is marked.        *)
NoSilentSwitch ==
    [][view.target \notin {NoTarget, view'.target} /\ view'.target # NoTarget => view'.marked]_view

=============================================================================
