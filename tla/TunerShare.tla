----------------------------- MODULE TunerShare -----------------------------
(***************************************************************************)
(* HDHomeRun tuner sharing (proxy/src/tuner_share.rs and its two call      *)
(* sites in proxy.rs serve_stream).  A request first looks for a live      *)
(* upstream of its channel (join); on a miss it opens a connection to the  *)
(* device, which takes one of its tuners, and registers it (start).  One   *)
(* pump task per registered connection drains it and gives it up when the  *)
(* upstream ends or when nobody has been attached for `tuner_idle_secs`.   *)
(*                                                                         *)
(* A step is one taking of the `live` lock, or the code between two awaits *)
(* of a task; the runtime is multi-threaded.  A tuner of the device and    *)
(* the connection that occupies it are one thing here: `Tuner` has as many *)
(* elements as the device has tuners.  What is streamed is not modelled.   *)
(***************************************************************************)
EXTENDS Integers, FiniteSets

CONSTANTS
    Channel,    \* the shareable upstreams: (mount source, stream entry url)
    Client,     \* the players
    Tuner,      \* the tuners of the device (TunerCount of them)
    IdleTicks,  \* tuner_idle_secs, in ticks
    NoTuner, NoChannel

ASSUME TunerAssumption ==
    /\ IsFiniteSet(Client) /\ IsFiniteSet(Tuner)
    /\ IdleTicks \in Nat
    /\ NoTuner \notin Tuner
    /\ NoChannel \notin Channel

VARIABLES
    live,     \* TunerShare.live: the pump registered for each channel
    tuners,   \* the connections, and the pump that drains each
    clients   \* where each player's request stands

vars == <<live, tuners, clients>>

Busy == -1  \* zero_since = None: somebody was attached at the last check

FreeTuner == [state |-> "free", chan |-> NoChannel, viewers |-> 0, zeroFor |-> Busy]
Opened(ch) == [state |-> "opened", chan |-> ch, viewers |-> 0, zeroFor |-> Busy]
Away      == [pc |-> "away", chan |-> NoChannel, tuner |-> NoTuner]

Init ==
    /\ live = [ch \in Channel |-> NoTuner]
    /\ tuners = [t \in Tuner |-> FreeTuner]
    /\ clients = [c \in Client |-> Away]

Attached(t) == {c \in Client : clients[c].pc = "watching" /\ clients[c].tuner = t}

Watch(c, ch, t) == clients' = [clients EXCEPT ![c] = [pc |-> "watching", chan |-> ch, tuner |-> t]]

-----------------------------------------------------------------------------
(* Requests. *)

(* join: attach to the channel's live upstream.  A miss goes on to fetch. *)
Join(c, ch) ==
    /\ clients[c].pc = "away" /\ live[ch] # NoTuner
    /\ tuners' = [tuners EXCEPT ![live[ch]].viewers = @ + 1]
    /\ Watch(c, ch, live[ch])
    /\ UNCHANGED live

JoinMisses(c, ch) ==
    /\ clients[c].pc = "away" /\ live[ch] = NoTuner
    /\ clients' = [clients EXCEPT ![c] = [pc |-> "opening", chan |-> ch, tuner |-> NoTuner]]
    /\ UNCHANGED <<live, tuners>>

(* The fetch is answered: the device had a tuner left. *)
Open(c) ==
    /\ clients[c].pc = "opening"
    /\ \E t \in Tuner :
         /\ tuners[t].state = "free"
         /\ tuners' = [tuners EXCEPT ![t] = Opened(clients[c].chan)]
         /\ clients' = [clients EXCEPT ![c] = [pc |-> "starting", chan |-> clients[c].chan, tuner |-> t]]
    /\ UNCHANGED live

(* The device refuses or fails; the player gets the error. *)
OpenFails(c) ==
    /\ clients[c].pc = "opening"
    /\ clients' = [clients EXCEPT ![c] = Away]
    /\ UNCHANGED <<live, tuners>>

(* start, the cold-start race lost: drop the redundant connection and attach *)
(* to the winner's.                                                          *)
JoinsWinner(c) ==
    LET t == clients[c].tuner
        w == live[clients[c].chan]
    IN  /\ clients[c].pc = "starting" /\ w # NoTuner
        /\ tuners' = [tuners EXCEPT ![t] = FreeTuner, ![w].viewers = @ + 1]
        /\ Watch(c, clients[c].chan, w)
        /\ UNCHANGED live

Registers(c) ==
    LET t == clients[c].tuner IN
    /\ tuners' = [tuners EXCEPT ![t].state = "pumping", ![t].viewers = 1]
    /\ live' = [live EXCEPT ![clients[c].chan] = t]
    /\ Watch(c, clients[c].chan, t)

(* Mutation: the map is not looked at again under the lock. *)
StartBlindly(c) == clients[c].pc = "starting" /\ Registers(c)

(* Mutation: the loser of the race is attached without being counted. *)
StartUncounted(c) ==
    LET t == clients[c].tuner
        w == live[clients[c].chan]
    IN  \/ /\ clients[c].pc = "starting" /\ w # NoTuner
           /\ tuners' = [tuners EXCEPT ![t] = FreeTuner]
           /\ Watch(c, clients[c].chan, w)
           /\ UNCHANGED live
        \/ clients[c].pc = "starting" /\ w = NoTuner /\ Registers(c)

Start(c) ==
    \/ JoinsWinner(c)
    \/ clients[c].pc = "starting" /\ live[clients[c].chan] = NoTuner /\ Registers(c)

(* The player goes away before it is served: the request's future is dropped *)
(* and the connection it may hold with it.                                   *)
Abandon(c) ==
    /\ clients[c].pc \in {"opening", "starting"}
    /\ tuners' = IF clients[c].tuner = NoTuner THEN tuners
                 ELSE [tuners EXCEPT ![clients[c].tuner] = FreeTuner]
    /\ clients' = [clients EXCEPT ![c] = Away]
    /\ UNCHANGED live

(* ViewerGuard::drop, outside the lock. *)
Leave(c) ==
    /\ clients[c].pc = "watching"
    /\ tuners' = [tuners EXCEPT ![clients[c].tuner].viewers = @ - 1]
    /\ clients' = [clients EXCEPT ![c] = Away]
    /\ UNCHANGED live

-----------------------------------------------------------------------------
(* The pump of a registered connection. *)

(* Mutation: an idle upstream is kept until it ends by itself. *)
PumpNeverExpires(t) ==
    /\ tuners[t].state = "pumping"
    /\ tuners' = [tuners EXCEPT ![t].zeroFor = IF tuners[t].viewers > 0 THEN Busy
                                               ELSE IF @ = Busy THEN 0 ELSE @]
    /\ UNCHANGED <<live, clients>>

(* The check after every chunk and every second: one load of the counter,    *)
(* without the lock.                                                         *)
PumpCheck(t) ==
    LET zero == IF tuners[t].viewers > 0 THEN Busy
                ELSE IF tuners[t].zeroFor = Busy THEN 0 ELSE tuners[t].zeroFor
    IN  /\ tuners[t].state = "pumping"
        /\ tuners' = [tuners EXCEPT ![t].zeroFor = zero,
                                    ![t].state = IF zero = IdleTicks THEN "expired" ELSE @]
        /\ UNCHANGED <<live, clients>>

(* The device closes the connection, or reading it fails. *)
UpstreamEnds(t) ==
    /\ tuners[t].state = "pumping"
    /\ tuners' = [tuners EXCEPT ![t].state = "ended"]
    /\ UNCHANGED <<live, clients>>

(* Mutation: the connection is closed without its entry being removed. *)
RemoveKeepsEntry(t) ==
    /\ tuners[t].state \in {"expired", "ended"}
    /\ tuners' = [tuners EXCEPT ![t].state = "closing"]
    /\ UNCHANGED <<live, clients>>

(* After the loop: take the lock and remove the channel's entry. *)
Remove(t) ==
    /\ tuners[t].state \in {"expired", "ended"}
    /\ tuners' = [tuners EXCEPT ![t].state = "closing"]
    /\ live' = [live EXCEPT ![tuners[t].chan] = NoTuner]
    /\ UNCHANGED clients

(* The pump returns: the connection closes, and so does the stream of every  *)
(* player still attached.                                                    *)
Close(t) ==
    /\ tuners[t].state = "closing"
    /\ tuners' = [tuners EXCEPT ![t] = FreeTuner]
    /\ clients' = [c \in Client |-> IF c \in Attached(t) THEN Away ELSE clients[c]]
    /\ UNCHANGED live

Tick ==
    /\ \E t \in Tuner : tuners[t].state = "pumping" /\ tuners[t].zeroFor \in 0..(IdleTicks - 1)
    /\ tuners' = [t \in Tuner |->
           IF tuners[t].state = "pumping" /\ tuners[t].zeroFor \in 0..(IdleTicks - 1)
           THEN [tuners[t] EXCEPT !.zeroFor = @ + 1] ELSE tuners[t]]
    /\ UNCHANGED <<live, clients>>

Request(c) ==
    \/ \E ch \in Channel : Join(c, ch) \/ JoinMisses(c, ch)
    \/ Open(c) \/ OpenFails(c) \/ Start(c) \/ Abandon(c) \/ Leave(c)

Pump(t) == PumpCheck(t) \/ Remove(t) \/ Close(t)

Next == \/ \E c \in Client : Request(c)
        \/ \E t \in Tuner : Pump(t) \/ UpstreamEnds(t)
        \/ Tick

Spec == Init /\ [][Next]_vars

(* The runtime runs every pump, which wakes once a second whatever arrives. *)
FairSpec == Spec /\ WF_vars(Tick) /\ \A t \in Tuner : WF_vars(Pump(t))

-----------------------------------------------------------------------------
TypeOK ==
    /\ live \in [Channel -> Tuner \cup {NoTuner}]
    /\ tuners \in [Tuner -> [state: {"free", "opened", "pumping", "expired", "ended", "closing"},
                             chan: Channel \cup {NoChannel}, viewers: Nat, zeroFor: Busy..IdleTicks]]
    /\ clients \in [Client -> [pc: {"away", "opening", "starting", "watching"},
                               chan: Channel \cup {NoChannel}, tuner: Tuner \cup {NoTuner}]]

Registered(t) == tuners[t].state \in {"pumping", "expired", "ended"}

(* tuner_share.rs start: "exactly one upstream ever survives per channel",     *)
(* whoever raced: two pumps never drain the same channel.                      *)
OneUpstreamPerChannel ==
    \A t, u \in Tuner : Registered(t) /\ Registered(u) /\ tuners[t].chan = tuners[u].chan => t = u

(* A pump takes out its own registration and no other: what the map holds is   *)
(* exactly the pumps still to be taken out, so a join never finds a connection *)
(* that is gone and a running pump can always be found.                        *)
MapIsPumps ==
    \A t \in Tuner : \A ch \in Channel :
        live[ch] = t <=> Registered(t) /\ tuners[t].chan = ch

(* Everybody receives the channel they asked for, from a connection that is    *)
(* not yet closed, and is counted: the pump's "idle countdown always reflects  *)
(* reality".                                                                   *)
ViewersCounted ==
    /\ \A c \in Client : clients[c].pc = "watching" =>
         /\ tuners[clients[c].tuner].state \notin {"free", "opened"}
         /\ tuners[clients[c].tuner].chan = clients[c].chan
    /\ \A t \in Tuner : tuners[t].viewers = Cardinality(Attached(t))

(* A tuner nobody watches is given back to the device, or watched again.       *)
AbandonedTunerReturns ==
    \A t \in Tuner : Registered(t) /\ tuners[t].viewers = 0
                        ~> tuners[t].state = "free" \/ tuners[t].viewers > 0

(* tuner_share.rs: the pump keeps the tuner open until its idle time "elapses  *)
(* after the LAST viewer detaches": it never closes one that is being watched  *)
(* unless the upstream ended.                                                  *)
WatchedTunerStays == \A t \in Tuner : tuners[t].state = "expired" => tuners[t].viewers = 0

(* Sharing keeps its promise. *)
Receives(c) == /\ clients[c].pc = "watching"
               /\ tuners[clients[c].tuner].state # "closing"

Promise == INSTANCE TunerPromise WITH
    tuned    <- {ch \in Channel : live[ch] # NoTuner},
    watching <- [c \in Client |-> IF Receives(c) THEN clients[c].chan ELSE NoChannel]

KeepsPromise == Promise!PSpec

=============================================================================
