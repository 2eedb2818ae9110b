------------------------------- MODULE Sidecar -------------------------------
(* The process of the data plane and its supervisor, and the gate the sidecar *)
(* keeps when it is the public edge.                                          *)
(*                                                                            *)
(* Node spawns the sidecar, restarts it when it exits, gives up when it dies  *)
(* young too often (never at the edge), and ends it on its own shutdown.  At  *)
(* the edge the sidecar asks Node whether a token may play a source and keeps *)
(* each answer for a while: a restart loses them, an answer may be overtaken  *)
(* by a newer one, and a call that fails decides nothing.                     *)
(* proxy/sidecar.ts, index.ts, routes/internal.ts, middleware/streamGate.ts,  *)
(* proxy/src/state.rs, proxy/src/edge.rs.  Times are in ticks.                *)
EXTENDS Naturals, FiniteSets

CONSTANTS Key,           \* (token, source)
          Asker,       \* requests of the edge that may be under way at once
          MaxRestarts,   \* MAX_RESTARTS
          Healthy,       \* HEALTHY_UPTIME_MS
          Ttl,           \* AUTH_TTL
          CallMax,       \* the longest a call to Node takes
          CacheMax,      \* AUTH_CACHE_MAX
          NoKey, NoEntry

ASSUME SidecarAssumption ==
    /\ MaxRestarts \in Nat /\ Healthy \in Nat /\ Ttl \in Nat \ {0} /\ CallMax \in Nat
    /\ CacheMax \in Nat /\ IsFiniteSet(Key) /\ NoKey \notin Key
    /\ NoEntry \notin [ok : BOOLEAN, age : Nat]

VARIABLES
    edge,        \* MASQ_EDGE
    proc,        \* the child: none, up, told to end, or one whose spawn failed
    uptime, restarts,
    respawning,  \* a respawn timer is set
    stopping,    \* stopProxySidecar: not called, waiting for the exit, returned
    young,       \* history: runs in a row that were not healthy
    permit,      \* Node: may the token play the source
    ago,         \* history: when Node would last have said yes, and no
    cache, calls \* the sidecar's auth_cache; its calls of /authorize
supervisor == <<edge, proc, uptime, restarts, respawning, stopping, young>>
gate == <<permit, ago, cache, calls>>
sidecarVars == <<supervisor, gate>>

Bound == Ttl + CallMax
Capped(n, max) == IF n > max THEN max ELSE n
NoCall == [pc |-> "none", key |-> NoKey, ok |-> FALSE, age |-> 0]
Empty == [k \in Key |-> NoEntry]
Forget == cache' = Empty /\ calls' = [r \in Asker |-> NoCall] /\ UNCHANGED <<permit, ago>>
-----------------------------------------------------------------------------
(* spawnOnce.  A spawn that fails emits 'error' and never 'exit'.             *)
SpawnOnce == /\ proc' \in {"up", "unborn"} /\ uptime' = 0

(* The exit handler: a healthy run resets the budget.                         *)
Budget == IF uptime > Healthy THEN 0 ELSE restarts
(* Mutation: the budget is for life.                                          *)
ExitForLife ==
    /\ proc \in {"up", "ending"}
    /\ proc' = "gone" /\ Forget
    /\ young' = IF uptime > Healthy THEN 0 ELSE Capped(young + 1, MaxRestarts)
    /\ IF stopping # "no"
       THEN stopping' = "done" /\ UNCHANGED <<restarts, respawning>>
       ELSE /\ restarts' = IF ~edge /\ restarts >= MaxRestarts THEN restarts ELSE Capped(restarts + 1, MaxRestarts)
            /\ respawning' = (edge \/ restarts < MaxRestarts)
            /\ UNCHANGED stopping
    /\ UNCHANGED <<edge, uptime>>
Exit ==
    /\ proc \in {"up", "ending"}
    /\ proc' = "gone" /\ Forget
    /\ young' = IF uptime > Healthy THEN 0 ELSE Capped(young + 1, MaxRestarts)
    /\ IF stopping # "no"
       THEN stopping' = "done" /\ UNCHANGED <<restarts, respawning>>
       ELSE /\ restarts' = IF ~edge /\ Budget >= MaxRestarts THEN Budget ELSE Capped(Budget + 1, MaxRestarts)
            /\ respawning' = (edge \/ Budget < MaxRestarts)
            /\ UNCHANGED stopping
    /\ UNCHANGED <<edge, uptime>>

(* The timer of the exit handler, RESTART_DELAY_MS later.                     *)
(* Mutation: the shutdown is not looked at again.                             *)
RespawnAnyway ==
    /\ respawning /\ respawning' = FALSE
    /\ SpawnOnce
    /\ UNCHANGED <<edge, restarts, stopping, young, gate>>
Respawn ==
    /\ respawning /\ respawning' = FALSE
    /\ IF stopping = "no" THEN SpawnOnce ELSE UNCHANGED <<proc, uptime>>
    /\ UNCHANGED <<edge, restarts, stopping, young, gate>>

(* stopProxySidecar: SIGTERM, and SIGKILL when the grace is over.  SIGKILL is *)
(* taken to end the child at once.                                            *)
Stop ==
    /\ stopping = "no"
    /\ stopping' = IF proc = "gone" THEN "done" ELSE "waiting"
    /\ proc' = IF proc = "up" THEN "ending" ELSE proc
    /\ UNCHANGED <<edge, uptime, restarts, respawning, young, gate>>
Kill ==
    /\ stopping = "waiting" /\ stopping' = "done"
    /\ proc' = IF proc = "ending" THEN "gone" ELSE proc
    /\ Forget
    /\ UNCHANGED <<edge, uptime, restarts, respawning, young>>
-----------------------------------------------------------------------------
(* The gate.                                                                  *)
Fresh(k) == cache[k] # NoEntry /\ cache[k].age < Ttl

(* authorize finds no usable decision, and asks.                              *)
Ask(r, k) ==
    /\ edge /\ proc = "up" /\ calls[r] = NoCall /\ ~Fresh(k)
    /\ calls' = [calls EXCEPT ![r] = [pc |-> "asked", key |-> k, ok |-> FALSE, age |-> 0]]
    /\ UNCHANGED <<supervisor, permit, ago, cache>>

(* routes/internal.ts: the decision of now.                                   *)
Decide(r) ==
    /\ calls[r].pc = "asked"
    /\ calls' = [calls EXCEPT ![r].pc = "answered", ![r].ok = permit[calls[r].key]]
    /\ UNCHANGED <<supervisor, permit, ago, cache>>

(* A full cache drops what has expired; if that is not enough the decision is *)
(* not kept.                                                                  *)
Pruned == IF Cardinality({k \in Key : cache[k] # NoEntry}) < CacheMax THEN cache
          ELSE [k \in Key |-> IF Fresh(k) THEN cache[k] ELSE NoEntry]
(* Mutation: the answer is kept, however full the cache still is.             *)
LandUnbounded(r) ==
    /\ calls[r].pc = "answered"
    /\ cache' = [Pruned EXCEPT ![calls[r].key] = [ok |-> calls[r].ok, age |-> 0]]
    /\ calls' = [calls EXCEPT ![r] = NoCall]
    /\ UNCHANGED <<supervisor, permit, ago>>
Land(r) ==
    /\ calls[r].pc = "answered"
    /\ cache' = IF Cardinality({k \in Key : Pruned[k] # NoEntry}) < CacheMax
                THEN [Pruned EXCEPT ![calls[r].key] = [ok |-> calls[r].ok, age |-> 0]] ELSE Pruned
    /\ calls' = [calls EXCEPT ![r] = NoCall]
    /\ UNCHANGED <<supervisor, permit, ago>>

(* Node is not reached, or its answer is not understood: refused, not kept.   *)
(* Mutation: the decision that has expired serves on.                         *)
LostRevives(r) ==
    /\ calls[r].pc # "none"
    /\ cache' = [cache EXCEPT ![calls[r].key] = IF @ = NoEntry THEN @ ELSE [@ EXCEPT !.age = 0]]
    /\ calls' = [calls EXCEPT ![r] = NoCall]
    /\ UNCHANGED <<supervisor, permit, ago>>
Lost(r) ==
    /\ calls[r].pc # "none"
    /\ calls' = [calls EXCEPT ![r] = NoCall]
    /\ UNCHANGED <<supervisor, permit, ago, cache>>

(* An operator changes an account's access, or switches its token.            *)
SetPermit(k) ==
    /\ edge
    /\ permit' = [permit EXCEPT ![k] = ~@]
    /\ ago' = [ago EXCEPT ![k][permit'[k]] = 0]
    /\ UNCHANGED <<supervisor, cache, calls>>

Older(n) == Capped(n + 1, Bound)
Elapse ==
    /\ \A r \in Asker : calls[r].pc # "none" => calls[r].age < CallMax
    /\ uptime' = IF proc = "gone" THEN uptime ELSE Capped(uptime + 1, Healthy + 1)
    /\ calls' = [r \in Asker |-> IF calls[r] = NoCall THEN NoCall ELSE [calls[r] EXCEPT !.age = @ + 1]]
    /\ cache' = [k \in Key |-> IF cache[k] = NoEntry THEN NoEntry ELSE [cache[k] EXCEPT !.age = Capped(@ + 1, Ttl)]]
    /\ ago' = [k \in Key |-> [b \in BOOLEAN |-> IF permit[k] = b THEN 0 ELSE Older(ago[k][b])]]
    /\ UNCHANGED <<edge, proc, restarts, respawning, stopping, young, permit>>

SidecarInit ==
    /\ edge \in BOOLEAN /\ proc \in {"up", "unborn"} /\ uptime = 0 /\ restarts = 0
    /\ respawning = FALSE /\ stopping = "no" /\ young = 0
    /\ permit \in [Key -> BOOLEAN]
    /\ ago = [k \in Key |-> [b \in BOOLEAN |-> IF permit[k] = b THEN 0 ELSE Bound]]
    /\ cache = Empty /\ calls = [r \in Asker |-> NoCall]

SidecarNext ==
    \/ Exit \/ Respawn \/ Stop \/ Kill \/ Elapse
    \/ \E r \in Asker : Decide(r) \/ Land(r) \/ Lost(r) \/ \E k \in Key : Ask(r, k)
    \/ \E k \in Key : SetPermit(k)
SidecarSpec == SidecarInit /\ [][SidecarNext]_sidecarVars

-----------------------------------------------------------------------------
(* Every variable is of its type, and the cache stays within its bound.       *)
SidecarTypeOK ==
    /\ edge \in BOOLEAN /\ proc \in {"gone", "up", "ending", "unborn"}
    /\ uptime \in 0..(Healthy + 1) /\ restarts \in 0..MaxRestarts /\ respawning \in BOOLEAN
    /\ stopping \in {"no", "waiting", "done"} /\ young \in 0..MaxRestarts
    /\ permit \in [Key -> BOOLEAN] /\ ago \in [Key -> [BOOLEAN -> 0..Bound]]
    /\ cache \in [Key -> [ok : BOOLEAN, age : 0..Ttl] \cup {NoEntry}]
    /\ Cardinality({k \in Key : cache[k] # NoEntry}) <= CacheMax
    /\ calls \in [Asker -> [pc : {"none", "asked", "answered"}, key : Key \cup {NoKey}, ok : BOOLEAN, age : 0..CallMax]]

(* sidecar.ts: "a rare long-uptime crash doesn't permanently exhaust" the     *)
(* budget, "a fast crash-loop counts against the cap", and at the edge Node   *)
(* must "never give up".  Streaming is down for good (no child, no timer, no  *)
(* shutdown) for one of two reasons only: the last MAX_RESTARTS runs were all *)
(* short, and Node is not behind the edge; or the latest spawn failed, which  *)
(* is never tried again: behind the edge too, against "never give up", and    *)
(* however few runs were short, for a failed spawn emits no 'exit'.           *)
GivesUpOnLoops ==
    proc \in {"gone", "unborn"} /\ ~respawning /\ stopping = "no"
        => \/ ~edge /\ young = MaxRestarts
           \/ proc = "unborn"

(* sidecar.ts, index.ts: a shutdown does not "process.exit() while the child  *)
(* is still draining".  Once the stop has returned no child runs and none is  *)
(* started, whatever timers were set before.                                  *)
NoneLeftBehind == stopping = "done" => proc \in {"gone", "unborn"}

(* edge.rs, state.rs: "revocation takes effect within the cache TTL".         *)
(* Whatever the order in which answers of several calls arrive, and whatever  *)
(* is lost, a decision in use is one Node would have given at most AUTH_TTL   *)
(* and the time of one call ago.                                              *)
DecisionsRecent ==
    /\ \A k \in Key : Fresh(k) => ago[k][cache[k].ok] < Bound
    /\ \A r \in Asker : calls[r].pc = "answered" => ago[calls[r].key][calls[r].ok] <= CallMax
=============================================================================
