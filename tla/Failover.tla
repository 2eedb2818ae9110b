------------------------------- MODULE Failover -------------------------------
(***************************************************************************)
(* One stream of the proxy and everything that moves its failover cursor:  *)
(*   - entry requests (proxy.rs serve_stream): resolve, fetch, and, when   *)
(*     either fails, the candidate walk (failover_walk);                   *)
(*   - failed hops, which refresh the target in the background;            *)
(*   - raw-TS sessions (tsmux.rs), which touch the record while they are   *)
(*     healthy and walk the candidates when they are not;                  *)
(*   - the Node resolve seam (resolveSeam.ts), which names the candidate   *)
(*     behind an attempt number.                                           *)
(* Each task runs on the multi-threaded tokio runtime: a step here is the  *)
(* code between two awaits, or between two takings of the `targets` lock   *)
(* where another thread can observe the difference.                        *)
(***************************************************************************)
EXTENDS TargetCache, Sequences, FiniteSets

CONSTANTS
    Parent,       \* the channel itself (attempt 0)
    ChildOrder,   \* the group's children in failoverOrder
    Provider,     \* Provider[c]: the adapter of candidate c
    Req,          \* task slots: requests, refreshes and raw-TS sessions at one time
    MaxAttempts,  \* MAX_FAILOVER_ATTEMPTS
    Configs,      \* the proxy configs the operator may choose between
    Modes,        \* what an entry turns into: "hls" polls or a "ts" session
    Events,       \* which disturbances happen: see the guards below
    NoTarget, NoPolicy, NoChild

Children == {ChildOrder[i] : i \in DOMAIN ChildOrder}
Knobs    == [enabled: BOOLEAN, definite: BOOLEAN]
Policy   == [owner: Adapter, knobs: Knobs]
Mount    == Provider[Parent]

ASSUME FailoverAssumption ==
    /\ Parent \in Cand
    /\ ChildOrder \in Seq(Cand \ {Parent})
    /\ Provider \in [Cand -> Adapter]
    /\ MaxAttempts \in Nat \ {0}
    /\ Configs \subseteq Knobs
    /\ Modes \subseteq {"hls", "ts"}
    /\ NoPolicy \notin Policy

VARIABLES
    entry,     \* AppState.targets: the stream's record
    policies,  \* AppState.cache: whose headers each policy key holds, and the knobs filed there
    order,     \* Node: the Active children, in the order of the current 5-minute bucket
    config,    \* Node: the stream's proxy config
    serving,   \* Node: failoverByChannel, the child shown as serving
    tasks,     \* the tasks in flight
    won        \* history: since the cursor last named the channel itself, the attempts that
               \* served 2xx and those a late grant put it back to (see Landed)

vars == <<entry, policies, order, config, serving, tasks, won>>

Task == [pc: {"idle", "ask", "reply", "take", "check", "fetch", "prefetched", "ts", "done"},
         role: {"entry", "walk", "cold", "refresh"}, mode: {"hls", "ts"},
         attempt: Nat, reply: {"none", "grant", "exhausted", "error"},
         target: Target \cup {NoTarget}, key: Adapter, knobs: Knobs, marked: BOOLEAN,
         start: Nat, wrap: BOOLEAN, wrapped: BOOLEAN, tried: Nat,
         children: BOOLEAN, definite: BOOLEAN, again: BOOLEAN,
         stash: Adapter \cup {NoPolicy},  \* the policy of the last definitive answer
         result: {"none", "served", "forwarded", "dead"},
         visited: SUBSET Cand, steady: BOOLEAN,  \* history: see WalkTriesEveryone
         off: BOOLEAN]                           \* history: see OffIsAuthoritative

DefaultKnobs == [enabled |-> TRUE, definite |-> FALSE]

NoTask == [pc |-> "idle", role |-> "entry", mode |-> "hls",
           attempt |-> 0, reply |-> "none",
           target |-> NoTarget, key |-> Mount, knobs |-> DefaultKnobs, marked |-> FALSE,
           start |-> 0, wrap |-> FALSE, wrapped |-> FALSE, tried |-> 0,
           children |-> FALSE, definite |-> FALSE, again |-> FALSE, stash |-> NoPolicy,
           result |-> "none", visited |-> {}, steady |-> TRUE, off |-> FALSE]

(* Every order of a set of children: what the seeded shuffle can draw. *)
Orders(S) == {o \in [1..Cardinality(S) -> S] : \A i, j \in DOMAIN o : o[i] = o[j] => i = j}
Active    == {order[i] : i \in DOMAIN order}

Init ==
    /\ entry = NoEntry
    /\ policies = [a \in Adapter |-> NoPolicy]
    /\ order \in Orders(Children)
    /\ config \in Configs
    /\ serving = NoChild
    /\ tasks = [r \in Req |-> NoTask]
    /\ won = {}

-----------------------------------------------------------------------------
(* The record, when there is one. *)
IdleResetEntry   == IF entry = NoEntry THEN NoEntry ELSE IdleReset(entry)
TouchEntry(e)    == IF e = NoEntry THEN NoEntry ELSE Touch(e)
InvalidEntry(e)  == IF e = NoEntry THEN NoEntry ELSE Invalidate(e)
ResetEntry       == IF entry = NoEntry THEN NoEntry ELSE ResetCursor(entry)
TakenEntry       == IF entry = NoEntry THEN NoEntry ELSE TakePending(entry)
Cursor(e)        == IF e = NoEntry THEN 0 ELSE e.attempt

(* The record and the history of attempts that served while it was pinned. *)
SetEntry(e, served) ==
    /\ entry' = e
    /\ won' = IF Cursor(e) = 0 THEN {} ELSE served

Becomes(r, t) == tasks' = [tasks EXCEPT ![r] = t]

Asking(t, attempt) ==
    [t EXCEPT !.pc = "ask", !.attempt = attempt, !.reply = "none", !.target = NoTarget]

Ended(t, result) ==
    [NoTask EXCEPT !.pc = "done", !.role = t.role, !.mode = t.mode, !.result = result,
                   !.children = t.children, !.visited = t.visited, !.steady = t.steady]

(* A walk that answers a refused resolve hands its non-2xx answer back to the *)
(* request as if it had been fetched there; any other walk forwards it.       *)
Answer(t, key) == IF t.again THEN [t EXCEPT !.pc = "prefetched", !.key = key]
                             ELSE Ended(t, "forwarded")

(* What a walk ends with once nothing is left to try. *)
Exhaust(t) == IF t.stash = NoPolicy THEN Ended(t, "dead") ELSE Answer(t, t.stash)

(* Free for a new request: a finished request's outcome is kept only so that *)
(* the properties can look at it.                                            *)
Free(r) == tasks[r].pc \in {"idle", "done"}

-----------------------------------------------------------------------------
(* Requests. *)

(* resolve_entry: the idle reset, the touch, and either the cached target or *)
(* a resolve at the cursor.                                                  *)
EntryRequest(r) ==
    /\ Free(r)
    /\ SetEntry(TouchEntry(IdleResetEntry), won)
    /\ \/ /\ entry # NoEntry
          /\ Fresh(entry)
          /\ policies[entry.policyKey] # NoPolicy
          /\ Becomes(r, [NoTask EXCEPT !.pc = "take", !.attempt = Cursor(IdleResetEntry),
                                       !.target = entry.target, !.key = entry.policyKey])
       \/ /\ entry # NoEntry => ~Fresh(entry) \/ policies[entry.policyKey] = NoPolicy
          /\ Becomes(r, Asking(NoTask, Cursor(IdleResetEntry)))
    /\ UNCHANGED <<policies, order, config, serving>>

(* A hop whose stream has a policy: it keeps the cursor alive. *)
Hop ==
    /\ "hop" \in Events
    /\ entry # NoEntry
    /\ SetEntry(TouchEntry(entry), won)
    /\ UNCHANGED <<policies, order, config, serving, tasks>>

(* A hop that failed, or was answered 401/403: resolve_fresh in the background. *)
HopRefresh(r) ==
    /\ "refresh" \in Events
    /\ Free(r)
    /\ entry # NoEntry \/ policies[Mount] # NoPolicy
    /\ SetEntry(IdleResetEntry, won)
    /\ Becomes(r, Asking([NoTask EXCEPT !.role = "refresh"], Cursor(IdleResetEntry)))
    /\ UNCHANGED <<policies, order, config, serving>>

(* A hop of a stream this process knows nothing of (the sidecar restarted). *)
ColdHop(r) ==
    /\ "restart" \in Events
    /\ Free(r) /\ entry = NoEntry /\ policies[Mount] = NoPolicy
    /\ Becomes(r, Asking([NoTask EXCEPT !.role = "cold"], 0))
    /\ UNCHANGED <<entry, policies, order, config, serving, won>>

-----------------------------------------------------------------------------
(* The resolve seam.  Node looks the candidate up, resolves it with its own  *)
(* adapter, records it as serving and answers.                               *)

(* A grant that says failover is on, made and not yet landed. *)
OnInFlight == \E q \in Req : tasks[q].pc = "reply" /\ tasks[q].reply = "grant"
                              /\ tasks[q].knobs.enabled

Grants(r, c) ==
    /\ \E u \in Url :
         Becomes(r, [tasks[r] EXCEPT !.pc = "reply", !.reply = "grant", !.knobs = config,
                                     !.target = [cand |-> c, url |-> u], !.key = Provider[c],
                                     !.visited = @ \cup {c},
                                     !.off = ~config.enabled /\ ~OnInFlight])
    /\ serving' = IF c = Parent THEN NoChild ELSE c

Named(attempt) == IF attempt = 0 THEN Parent ELSE order[attempt]
Exists(attempt) == attempt = 0 \/ attempt \in DOMAIN order

Grant(r) ==
    /\ tasks[r].pc = "ask" /\ Exists(tasks[r].attempt)
    /\ Grants(r, Named(tasks[r].attempt))
    /\ UNCHANGED <<entry, policies, order, config, won>>

(* 410 failover_exhausted: no such candidate. *)
GrantExhausted(r) ==
    /\ tasks[r].pc = "ask" /\ ~Exists(tasks[r].attempt)
    /\ Becomes(r, [tasks[r] EXCEPT !.pc = "reply", !.reply = "exhausted"])
    /\ UNCHANGED <<entry, policies, order, config, serving, won>>

(* 502: the candidate's adapter could not resolve it. *)
GrantFails(r) ==
    /\ tasks[r].pc = "ask" /\ Exists(tasks[r].attempt)
    /\ Becomes(r, [tasks[r] EXCEPT !.pc = "reply", !.reply = "error",
                                   !.visited = @ \cup {Named(tasks[r].attempt)}])
    /\ UNCHANGED <<entry, policies, order, config, serving, won>>

(* A grant arrives: the policy is filed under the serving provider's key and *)
(* the record is replaced.                                                   *)
(* Mutation: the policy is keyed by the mount source of the url. *)
FiledUnderMount(t) == Mount
FiledUnder(t) == t.key

(* The cursor moved while a grant for its old attempt was under way: the grant *)
(* puts it back, whatever moved it.                                            *)
Late(t) == t.role # "walk" /\ t.attempt # Cursor(entry)

Landed(r) ==
    LET t == tasks[r] IN
    /\ policies' = [policies EXCEPT ![FiledUnder(t)] =
                        [owner |-> Provider[t.target.cand], knobs |-> t.knobs]]
    /\ SetEntry(Fill(entry, t.target, FiledUnder(t), t.attempt),
                IF Late(t) THEN won \cup {t.attempt} ELSE won)

Land(r) ==
    /\ tasks[r].pc = "reply" /\ tasks[r].reply = "grant"
    /\ Landed(r)
    /\ \/ tasks[r].role \in {"entry", "cold"} /\ Becomes(r, [tasks[r] EXCEPT !.pc = "take"])
       \/ tasks[r].role = "walk" /\ Becomes(r, [tasks[r] EXCEPT !.pc = "check"])
       \/ tasks[r].role = "refresh" /\ Becomes(r, NoTask)
    /\ UNCHANGED <<order, config, serving>>

(* take_pending_discontinuity, a second taking of the lock.  A cold hop has  *)
(* its policy then; it drops the mark, for it serves no manifest.            *)
Take(r) ==
    /\ tasks[r].pc = "take"
    /\ SetEntry(TakenEntry, won)
    /\ \/ /\ tasks[r].role = "entry"
          /\ Becomes(r, [tasks[r] EXCEPT !.pc = "fetch",
                                         !.marked = entry # NoEntry /\ entry.pending])
       \/ tasks[r].role = "cold" /\ Becomes(r, NoTask)
    /\ UNCHANGED <<policies, order, config, serving>>

-----------------------------------------------------------------------------
(* The walk (failover_walk). *)

Walking(t, start, wrap, knobs, stash) ==
    Asking([t EXCEPT !.role = "walk", !.start = start, !.wrap = wrap, !.wrapped = FALSE,
                     !.tried = 1, !.children = knobs.enabled, !.definite = knobs.definite,
                     !.stash = stash], start)

(* Mutation: a failed walk leaves the cursor where it ended. *)
GiveUpPinned(r, t) ==
    /\ SetEntry(entry, won)
    /\ Becomes(r, Exhaust(t))

(* Every way out but a 2xx: un-pin the cursor and expire the target. *)
GiveUp(r, t) ==
    /\ SetEntry(ResetEntry, won)
    /\ Becomes(r, Exhaust(t))

(* The head of the loop, with the cap on attempts. *)
LoopHead(r, t, attempt) ==
    \/ t.tried >= MaxAttempts /\ GiveUp(r, t)
    \/ /\ t.tried < MaxAttempts
       /\ Becomes(r, Asking([t EXCEPT !.tried = @ + 1], attempt))
       /\ UNCHANGED <<entry, won>>

(* Mutation: `continue` without going back through the head. *)
AdvanceInPlace(r, t) ==
    /\ Becomes(r, Asking(t, t.attempt))
    /\ UNCHANGED <<entry, won>>

(* Mutation: an off-by-one at the end of the wrap. *)
AdvanceStopsEarly(r, t) ==
    \/ ~t.children /\ GiveUp(r, t)
    \/ t.children /\ t.wrapped /\ t.attempt + 2 >= t.start /\ GiveUp(r, t)
    \/ /\ t.children /\ ~(t.wrapped /\ t.attempt + 2 >= t.start)
       /\ LoopHead(r, t, t.attempt + 1)

(* The foot of the loop: this candidate failed. *)
Advance(r, t) ==
    \/ ~t.children /\ GiveUp(r, t)
    \/ t.children /\ t.wrapped /\ t.attempt + 1 >= t.start /\ GiveUp(r, t)
    \/ /\ t.children /\ ~(t.wrapped /\ t.attempt + 1 >= t.start)
       /\ LoopHead(r, t, t.attempt + 1)

MountKnobs == IF policies[Mount] = NoPolicy THEN DefaultKnobs ELSE policies[Mount].knobs

(* Mutation: the flag is read from the policy of the mount source (failover_knobs). *)
CheckReadsMount(r) ==
    LET t == tasks[r] IN
    /\ t.pc = "check"
    /\ \/ /\ MountKnobs.enabled \/ t.attempt = 0
          /\ Becomes(r, [t EXCEPT !.pc = "fetch"]) /\ UNCHANGED <<entry, won>>
       \/ ~MountKnobs.enabled /\ t.attempt > 0 /\ GiveUp(r, [t EXCEPT !.children = FALSE])
    /\ UNCHANGED <<policies, order, config, serving>>

(* Mutation: the walk breaks off without reset_cursor. *)
CheckKeepsPin(r) ==
    LET t  == tasks[r]
        on == policies[t.key] # NoPolicy /\ policies[t.key].knobs.enabled
    IN  /\ t.pc = "check"
        /\ \/ /\ on \/ t.attempt = 0
              /\ Becomes(r, [t EXCEPT !.pc = "fetch"]) /\ UNCHANGED <<entry, won>>
           \/ ~on /\ t.attempt > 0 /\ GiveUpPinned(r, [t EXCEPT !.children = FALSE])
        /\ UNCHANGED <<policies, order, config, serving>>

(* The grant says whether children may be served at all; the flag is read    *)
(* from the shared policy, which another task may have written since.        *)
Check(r) ==
    LET t   == tasks[r]
        off == [t EXCEPT !.children = FALSE]
        on  == policies[t.key] # NoPolicy /\ policies[t.key].knobs.enabled
    IN  /\ t.pc = "check"
        /\ \/ on /\ Becomes(r, [t EXCEPT !.pc = "fetch"]) /\ UNCHANGED <<entry, won>>
           \/ ~on /\ t.attempt > 0 /\ GiveUp(r, off)
           \/ /\ ~on /\ t.attempt = 0
              /\ Becomes(r, [off EXCEPT !.pc = "fetch"]) /\ UNCHANGED <<entry, won>>
        /\ UNCHANGED <<policies, order, config, serving>>

-----------------------------------------------------------------------------
(* A resolve that was refused, by the role of the task that asked. *)

(* The pinned candidate could not be resolved: walk on from the one after it, *)
(* or from the channel itself when the pin outlived its group.                *)
EntryRefused(r) ==
    LET t == tasks[r]
        cursor == Cursor(IdleResetEntry)
    IN  \/ ~MountKnobs.enabled /\ Becomes(r, Ended(t, "dead")) /\ UNCHANGED <<entry, won>>
        \/ /\ MountKnobs.enabled /\ t.reply = "exhausted"
           /\ SetEntry(ResetEntry, won)
           /\ Becomes(r, Walking([t EXCEPT !.again = TRUE], 0, FALSE, MountKnobs, NoPolicy))
        \/ /\ MountKnobs.enabled /\ t.reply = "error"
           /\ SetEntry(IdleResetEntry, won)
           /\ Becomes(r, Walking([t EXCEPT !.again = TRUE,
                                           !.steady = @ /\ cursor = t.attempt],
                                 cursor + 1, cursor > 0, MountKnobs, NoPolicy))

WalkRefused(r) ==
    LET t == tasks[r]
        wraps == t.children /\ t.wrap /\ t.start > 0 /\ ~t.wrapped
    IN  \/ t.reply = "exhausted" /\ wraps /\ LoopHead(r, [t EXCEPT !.wrapped = TRUE], 0)
        \/ t.reply = "exhausted" /\ ~wraps /\ GiveUp(r, t)
        \/ t.reply = "error" /\ Advance(r, t)

Refused(r) ==
    /\ tasks[r].pc = "reply" /\ tasks[r].reply \in {"exhausted", "error"}
    /\ \/ tasks[r].role = "entry" /\ EntryRefused(r)
       \/ tasks[r].role = "walk" /\ WalkRefused(r)
       \/ tasks[r].role = "cold" /\ Becomes(r, Ended(tasks[r], "dead")) /\ UNCHANGED <<entry, won>>
       \/ tasks[r].role = "refresh" /\ Becomes(r, NoTask) /\ UNCHANGED <<entry, won>>
    /\ UNCHANGED <<policies, order, config, serving>>

-----------------------------------------------------------------------------
(* The fetch of the target. *)

(* An HLS player gets a manifest; a "ts" session goes on until it ends. *)
Serve(r, mode) ==
    LET t == tasks[r] IN
    Becomes(r, IF mode = "hls" THEN Ended(t, "served")
               ELSE [NoTask EXCEPT !.pc = "ts", !.key = t.key])

FetchOk(r) ==
    LET t == tasks[r] IN
    /\ t.pc = "fetch"
    /\ \E mode \in Modes : (t.mode = "ts" => mode = "ts") /\ Serve(r, mode)
    /\ SetEntry(entry, won \cup {t.attempt})
    /\ UNCHANGED <<policies, order, config, serving>>

(* An entry whose fetch failed: expire the target and walk from the cursor.  *)
EntryWalk(r, knobs, stash) ==
    /\ SetEntry(InvalidEntry(IdleResetEntry), won)
    /\ Becomes(r, Walking([tasks[r] EXCEPT !.again = FALSE], Cursor(IdleResetEntry), TRUE,
                          knobs, stash))

(* A definitive answer that is the request's own to deal with. *)
AtEntry(t) == t.role = "entry" \/ t.pc = "prefetched"

(* Mutation: a walk that forwards an error page stays on its candidate. *)
ForwardPinned(r) ==
    /\ UNCHANGED <<entry, won>>
    /\ Becomes(r, Ended(tasks[r], "forwarded"))

(* It is forwarded; in a walk it also un-pins the cursor. *)
Forward(r) ==
    LET t == tasks[r] IN
    \/ AtEntry(t) /\ UNCHANGED <<entry, won>> /\ Becomes(r, Ended(t, "forwarded"))
    \/ ~AtEntry(t) /\ SetEntry(ResetEntry, won) /\ Becomes(r, Answer(t, t.key))

(* The knobs of the policy a task fetches under. *)
KnobsOf(key) == IF policies[key] = NoPolicy THEN DefaultKnobs ELSE policies[key].knobs

(* A definitive non-2xx is forwarded, unless the operator asked to walk on.  *)
FetchDefinite(r) ==
    LET t     == tasks[r]
        knobs == KnobsOf(t.key)
        walks == IF AtEntry(t) THEN knobs.enabled /\ knobs.definite
                               ELSE t.children /\ t.definite
    IN  /\ t.pc \in {"fetch", "prefetched"}
        /\ \/ walks /\ AtEntry(t) /\ EntryWalk(r, knobs, t.key)
           \/ walks /\ ~AtEntry(t) /\ Advance(r, [t EXCEPT !.stash = t.key])
           \/ ~walks /\ Forward(r)
        /\ UNCHANGED <<policies, order, config, serving>>

(* No answer after the retries. *)
FetchFails(r) ==
    /\ tasks[r].pc = "fetch"
    /\ \/ tasks[r].role = "entry" /\ EntryWalk(r, KnobsOf(tasks[r].key), NoPolicy)
       \/ tasks[r].role = "walk" /\ Advance(r, tasks[r])
    /\ UNCHANGED <<policies, order, config, serving>>

-----------------------------------------------------------------------------
(* A raw-TS session (ts_producer). *)

TsHealthy(r) ==
    /\ tasks[r].pc = "ts"
    /\ SetEntry(TouchEntry(entry), won)
    /\ UNCHANGED <<policies, order, config, serving, tasks>>

(* reresolve_media: a dead segment moves on to the next candidate and wraps;  *)
(* a dead media playlist starts over at the pinned one and does not.          *)
TsRecovers(r, advance) ==
    LET t     == tasks[r]
        knobs == KnobsOf(t.key)
        next  == advance /\ knobs.enabled
    IN  /\ t.pc = "ts"
        /\ SetEntry(InvalidEntry(IdleResetEntry), won)
        /\ Becomes(r, Walking([NoTask EXCEPT !.mode = "ts"],
                              IF next THEN Cursor(IdleResetEntry) + 1
                                      ELSE Cursor(IdleResetEntry),
                              next, knobs, NoPolicy))
        /\ UNCHANGED <<policies, order, config, serving>>

TsEnds(r) ==
    /\ tasks[r].pc = "ts"
    /\ Becomes(r, NoTask)
    /\ UNCHANGED <<entry, policies, order, config, serving, won>>

-----------------------------------------------------------------------------
(* The environment. *)

(* Resolves and fetches may take any time. *)
Tick ==
    /\ entry # NoEntry
    /\ SetEntry(Age(entry), won)
    /\ UNCHANGED <<policies, order, config, serving, tasks>>

Unsteady == tasks' = [r \in Req |-> [tasks[r] EXCEPT !.steady = tasks[r].pc = "idle"]]

(* The shuffle's 5-minute bucket turns over. *)
NewBucket ==
    /\ "bucket" \in Events
    /\ order' \in Orders(Active) /\ order' # order
    /\ Unsteady
    /\ UNCHANGED <<entry, policies, config, serving, won>>

(* Children are enabled, disabled, added or removed. *)
Regroup ==
    /\ "regroup" \in Events
    /\ \E S \in SUBSET Children : S # Active /\ order' \in Orders(S)
    /\ Unsteady
    /\ UNCHANGED <<entry, policies, config, serving, won>>

Reconfigure ==
    /\ config' \in Configs /\ config' # config
    /\ tasks' = [r \in Req |-> [tasks[r] EXCEPT !.off = @ /\ ~config'.enabled]]
    /\ UNCHANGED <<entry, policies, order, serving, won>>

(* The sidecar dies and its supervisor starts a new one. *)
Restart ==
    /\ "restart" \in Events
    /\ entry' = NoEntry /\ won' = {}
    /\ policies' = [a \in Adapter |-> NoPolicy]
    /\ tasks' = [r \in Req |-> NoTask]
    /\ UNCHANGED <<order, config, serving>>

(* The seam cannot be reached, or its answer is lost after Node acted on it. *)
SeamLost(r) ==
    /\ "loss" \in Events
    /\ tasks[r].pc = "ask"
    /\ LET t == tasks[r] IN
       Becomes(r, [t EXCEPT !.pc = "reply", !.reply = "error",
           !.visited = IF Exists(t.attempt) THEN t.visited \cup {Named(t.attempt)}
                                            ELSE t.visited,
           !.steady = t.steady /\ Exists(t.attempt)])
    /\ \/ UNCHANGED serving
       \/ /\ Exists(tasks[r].attempt)
          /\ serving' = IF tasks[r].attempt = 0 THEN NoChild ELSE Named(tasks[r].attempt)
    /\ UNCHANGED <<entry, policies, order, config, won>>

(* What a task does by itself once started. *)
Progress(r) ==
    \/ Grant(r) \/ GrantExhausted(r) \/ GrantFails(r)
    \/ Land(r) \/ Refused(r)
    \/ Take(r) \/ Check(r)
    \/ FetchOk(r) \/ FetchDefinite(r) \/ FetchFails(r)

Next ==
    \/ \E r \in Req : \/ EntryRequest(r) \/ HopRefresh(r) \/ ColdHop(r)
                      \/ Progress(r) \/ SeamLost(r)
                      \/ TsHealthy(r) \/ TsEnds(r)
                      \/ \E advance \in BOOLEAN : TsRecovers(r, advance)
    \/ Hop \/ Tick \/ NewBucket \/ Regroup \/ Reconfigure \/ Restart

Spec == Init /\ [][Next]_vars

(* What is certain to happen.  The runtime runs a task that has something to  *)
(* do, and a fetch inside a walk is answered or given up: both its connect    *)
(* and its wait for the headers are capped (FAILOVER_CONNECT_CAP_MS,          *)
(* FAILOVER_READ_CAP_MS).  Nothing bounds Node's answer to a resolve or, with *)
(* read_timeout_ms at its default 0, a request's first fetch.                 *)
OwnStep(r) ==
    \/ Land(r) \/ Refused(r) \/ Take(r) \/ Check(r)
    \/ tasks[r].role = "walk" /\ (FetchOk(r) \/ FetchDefinite(r) \/ FetchFails(r))

FairSpec == Spec /\ \A r \in Req : WF_vars(OwnStep(r))

-----------------------------------------------------------------------------
TypeOK ==
    /\ entry \in Entry \cup {NoEntry}
    /\ policies \in [Adapter -> Policy \cup {NoPolicy}]
    /\ order \in Seq(Children)
    /\ config \in Configs
    /\ serving \in Children \cup {NoChild}
    /\ tasks \in [Req -> Task]
    /\ won \subseteq Nat

(* A target that may still be served from the cache is the one the cursor     *)
(* points at: no reset, idle expiry, refresh or walk leaves a usable target of *)
(* one candidate under the cursor of another.                                  *)
CachedTargetIsPinned ==
    entry # NoEntry /\ Fresh(entry) => entry.resolvedAt = entry.attempt

(* Hops replay the headers of the provider the cached target came from, and a  *)
(* provider's headers are never overwritten by another provider's grant.       *)
PolicyOfServingProvider ==
    /\ \A a \in Adapter : policies[a] # NoPolicy => policies[a].owner = a
    /\ entry # NoEntry => /\ entry.policyKey = Provider[entry.target.cand]
                          /\ policies[entry.policyKey] # NoPolicy

(* A record idle for longer than the cursor's limit has no usable target left, *)
(* so the reset of the cursor alone is enough.                                 *)
IdleMeansStale == entry # NoEntry /\ Idle(entry) => ~Fresh(entry)

Resting(r) == tasks[r].pc \in {"idle", "done", "ts"}
Quiet      == \A r \in Req : Resting(r)

(* "The cursor only stays pinned to an attempt that actually SERVED 2xx": when *)
(* nothing is in flight, a child is pinned only after it served, or after a    *)
(* grant that came late put the cursor back to it (`won`, see Landed).         *)
PinnedServed == Quiet => Cursor(entry) = 0 \/ Cursor(entry) \in won

(* A request that walked and served nothing leaves the next one to start from  *)
(* the channel itself, with nothing cached: a stale pin cannot fail for ever.  *)
(* (With a second request the pin may be back by then: see WalkExitsUnpin.)    *)
FailedWalkUnpins ==
    \A r \in Req : tasks[r].pc = "done" /\ tasks[r].role = "walk"
                     /\ tasks[r].result \in {"forwarded", "dead"}
        => Cursor(entry) = 0 /\ (entry # NoEntry => ~Fresh(entry))

(* A walk of a poll gives up only after the channel and every Active child     *)
(* were tried, if the group did not change under it, no answer was lost beyond *)
(* the group's end, nothing moved the cursor while the refused resolve that    *)
(* began the walk was under way, and the cap leaves room.  (A raw-TS session   *)
(* that recovers from a dead playlist does not wrap.)                          *)
WalkTriesEveryone ==
    \A r \in Req :
        /\ tasks[r].pc = "done" /\ tasks[r].role = "walk" /\ tasks[r].result = "dead"
        /\ tasks[r].mode = "hls" /\ tasks[r].children /\ tasks[r].steady
        /\ Len(order) + 2 <= MaxAttempts
        => tasks[r].visited = Active \cup {Parent}

(* "An operator's knob-off is authoritative even when the pre-walk policy      *)
(* cache was cold": a grant made with failover off, when no grant that said    *)
(* otherwise was still under way, and not overtaken by the operator switching  *)
(* it on again, never lets its walk fetch from a child.                        *)
OffIsAuthoritative ==
    \A r \in Req : tasks[r].pc = "fetch" /\ tasks[r].role = "walk" /\ tasks[r].off
        => tasks[r].attempt = 0

(* The step in which a walk ends without having served, whichever of its exits *)
(* it takes and whoever else is at work on the stream, leaves the cursor at    *)
(* the channel itself and nothing in the cache.                                *)
EndsInVain(r) ==
    /\ tasks[r].role = "walk" /\ tasks[r].pc \in {"ask", "reply", "check", "fetch"}
    /\ \/ tasks'[r].pc = "prefetched"
       \/ tasks'[r].pc = "done" /\ tasks'[r].result \in {"forwarded", "dead"}

WalkExitsUnpin ==
    [][\A r \in Req : EndsInVain(r)
         => Cursor(entry') = 0 /\ (entry' # NoEntry => ~Fresh(entry'))]_vars

(* README: "The session then sticks to the winning child": as long as the      *)
(* cursor stays on an attempt that served, the target stays with its child.    *)
SticksToWinner ==
    [][entry # NoEntry /\ entry' # NoEntry /\ entry.attempt \in won
         /\ entry'.attempt = entry.attempt
         => entry'.target.cand = entry.target.cand]_entry

(* A request that does not end waits for ever for one answer: for Node to      *)
(* resolve, or for its own first fetch.  No walk goes round for ever, and none *)
(* hangs on a candidate ("can stall the walk indefinitely").                   *)
Awaits(r) == tasks[r].pc = "ask" \/ (tasks[r].pc = "fetch" /\ tasks[r].role = "entry")

OnlyAnswersHoldUp == \A r \in Req : []<>Resting(r) \/ <>[]Awaits(r)

=============================================================================
