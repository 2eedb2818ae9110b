----------------------------- MODULE TargetCache -----------------------------
(***************************************************************************)
(* The record the Rust data plane keeps for one stream (proxy/src/state.rs,*)
(* TargetEntry): the resolved upstream target, how long it stays usable,   *)
(* which provider's policy it is fetched under, and the failover cursor.   *)
(* The operators below are what each method of AppState does to the record *)
(* inside one critical section of the `targets` lock.                      *)
(*                                                                         *)
(* Instants are abstracted to two countdowns that a tick of time moves:    *)
(* `ttl` is what is left of TARGET_TTL (expires - now, 0 = stale) and      *)
(* `quiet` is the time since last_access, saturating one past the idle     *)
(* limit.  `resolvedAt` is history: the attempt the target was resolved    *)
(* for.  The code does not store it; the properties compare it with the    *)
(* cursor.                                                                 *)
(***************************************************************************)
EXTENDS Integers

CONSTANTS
    Cand,        \* the channel itself and its failover children
    Url,         \* the upstream urls an adapter may hand out for a candidate
    Adapter,     \* the providers
    TargetTtl,   \* TARGET_TTL, in ticks
    CursorIdle,  \* FAILOVER_CURSOR_IDLE, in ticks
    NoEntry      \* no record: the stream was never resolved

(* The cursor's idle limit (300 s) is no shorter than a target's life (60 s). *)
ASSUME TimeAssumption ==
    /\ TargetTtl \in Nat \ {0}
    /\ CursorIdle \in Nat
    /\ TargetTtl <= CursorIdle

Target == [cand: Cand, url: Url]

Entry == [target:     Target,
          ttl:        0..TargetTtl,
          policyKey:  Adapter,
          attempt:    Nat,
          quiet:      0..(CursorIdle + 1),
          pending:    BOOLEAN,
          resolvedAt: Nat]

ASSUME NoEntryAssumption == NoEntry \notin Entry

Fresh(e) == e.ttl > 0
Idle(e)  == e.quiet > CursorIdle

(* Nobody asked for the stream for longer than the idle limit: the next     *)
(* session starts again from the channel itself.  The target is left alone. *)
IdleReset(e) == IF Idle(e) THEN [e EXCEPT !.attempt = 0] ELSE e

Touch(e)      == [e EXCEPT !.quiet = 0]
Invalidate(e) == [e EXCEPT !.ttl = 0]

(* Mutations: the target survives the reset; the cursor steps back. *)
ResetCursorKeepsTarget(e) == [e EXCEPT !.attempt = 0]
ResetCursorStepsBack(e) == [e EXCEPT !.attempt = @ - 1, !.ttl = 0]
ResetCursor(e) == [e EXCEPT !.attempt = 0, !.ttl = 0]

(* Mutation: a grant that lands does not count as an access. *)
FillKeepsAccess(prev, target, key, attempt) ==
    [target |-> target, ttl |-> TargetTtl, policyKey |-> key, attempt |-> attempt,
     quiet |-> IF prev = NoEntry THEN 0 ELSE prev.quiet,
     pending |-> prev # NoEntry /\ prev.target # target, resolvedAt |-> attempt]

(* resolve_at: the grant replaces whatever was cached and pins the cursor to *)
(* the attempt it was resolved for.  A target that differs from the previous *)
(* one is remembered as a switch the viewer has not been told about.         *)
Fill(prev, target, key, attempt) ==
    [target |-> target, ttl |-> TargetTtl, policyKey |-> key, attempt |-> attempt,
     quiet |-> 0, pending |-> prev # NoEntry /\ prev.target # target,
     resolvedAt |-> attempt]

TakePending(e) == [e EXCEPT !.pending = FALSE]

(* One tick of time. *)
Age(e) == [e EXCEPT !.ttl   = IF @ > 0 THEN @ - 1 ELSE 0,
                    !.quiet = IF @ <= CursorIdle THEN @ + 1 ELSE @]

=============================================================================
