-------------------------- MODULE StreamTelemetry --------------------------
(***************************************************************************)
(* Who is watching what, as the server knows it.  The sidecar reports      *)
(* polls, bytes, failures and held raw-TS sockets into a bounded queue     *)
(* that drops what does not fit; one flusher posts the queue in batches    *)
(* and never retries (proxy/src/state.rs).  The server applies a batch     *)
(* event by event (telemetryIngest.ts) to its viewers (streamTelemetry.ts) *)
(* and to the phase of each channel (streamState.ts), and a timer ages     *)
(* viewers, detects buffering and sweeps who fell silent.                  *)
(*                                                                         *)
(* A sidecar that crashes loses its queue and its sockets and restarts     *)
(* its stream ids at the beginning; the server survives it.  A batch is    *)
(* applied in one turn of the event loop: the timer does not run inside.   *)
(***************************************************************************)
EXTENDS Integers, Sequences

CONSTANTS
    Channel, Player,
    Stream,      \* the raw-TS tasks of the sidecar
    QueueCap,    \* TELEMETRY_QUEUE
    MaxBatch,    \* TELEMETRY_MAX_BATCH
    PollTtl,     \* CLIENT_TTL_MS, in ticks
    SocketIdle,  \* SOCKET_IDLE_MS, in ticks
    Cooldown,    \* FAILED_COOLDOWN_MS, in ticks
    MaxRetries,  \* MAX_RETRIES
    MaxOpens,    \* bound: raw-TS sessions ever reported
    NoRow, NoChannel

ASSUME TelemetryAssumption ==
    /\ QueueCap \in Nat /\ MaxBatch \in Nat \ {0}
    /\ PollTtl \in Nat /\ SocketIdle \in Nat /\ Cooldown \in Nat
    /\ MaxRetries \in Nat \ {0} /\ MaxOpens \in Nat
    /\ NoChannel \notin Channel
    /\ NoRow \notin [chan: Channel, quiet: Nat, marked: BOOLEAN]

VARIABLES
    up, nextId, streams, queue, wire, applying, opens,                  \* the sidecar
    tsConns, sockets, polls, lastChannel, channels, states, saves  \* the server

sidecarVars == <<up, nextId, streams, queue, wire, applying, opens>>
serverVars  == <<tsConns, sockets, polls, lastChannel, channels, states, saves>>
vars == <<sidecarVars, serverVars>>

Id   == 1..MaxOpens    \* ts0, ts1, ...
None == 0
Conn == DOMAIN sockets \* every viewer id nextSocketConnId ever gave out

Off == [id |-> None, chan |-> NoChannel]
Row(ch) == [chan |-> ch, quiet |-> 0, marked |-> FALSE]  \* marked: upstreamOpen # null

Untried   == [ever |-> FALSE, failures |-> 0, failedFor |-> -1]
Succeeded == [ever |-> TRUE, failures |-> 0, failedFor |-> -1]

Init ==
    /\ up = TRUE /\ nextId = None /\ opens = 0
    /\ streams = [s \in Stream |-> Off]
    /\ queue = <<>> /\ wire = <<>> /\ applying = FALSE
    /\ tsConns = [i \in Id |-> None]
    /\ sockets = <<>> /\ saves = <<>>
    /\ polls = [p \in Player |-> [ch \in Channel |-> NoRow]]
    /\ lastChannel = [p \in Player |-> NoChannel]
    /\ channels = [ch \in Channel |-> "unknown"]
    /\ states = [ch \in Channel |-> Untried]

-----------------------------------------------------------------------------
(* The sidecar.  report: what does not fit is dropped. *)

Report(events) ==
    queue' = SubSeq(queue \o events, 1, IF Len(queue \o events) <= QueueCap
                                        THEN Len(queue \o events) ELSE QueueCap)

Event(kind, id, ch, p, definite) ==
    [kind |-> kind, id |-> id, chan |-> ch, player |-> p, definite |-> definite]

(* An HLS player: the poll of its entry, and a segment of what it polls. *)
Poll(p, ch) ==
    /\ up /\ \E kind \in {"viewer", "bytes"} : Report(<<Event(kind, None, ch, p, FALSE)>>)
    /\ UNCHANGED <<up, nextId, streams, wire, applying, opens, serverVars>>

(* An upstream answers non-2xx (definite), or not at all. *)
UpstreamFails(ch) ==
    /\ up /\ \E definite \in BOOLEAN : Report(<<Event("upstream", None, ch, None, definite)>>)
    /\ UNCHANGED <<up, nextId, streams, wire, applying, opens, serverVars>>

OpenStream(s, ch) ==
    /\ up /\ streams[s] = Off /\ opens < MaxOpens
    /\ opens' = opens + 1
    /\ nextId' = nextId + 1
    /\ streams' = [streams EXCEPT ![s] = [id |-> nextId', chan |-> ch]]
    /\ Report(<<Event("open", nextId', ch, None, FALSE)>>)
    /\ UNCHANGED <<up, wire, applying, serverVars>>

(* The once-a-second flush names the stream and no channel. *)
Bytes(id) == Event("sbytes", id, NoChannel, None, FALSE)

StreamBytes(s) ==
    /\ up /\ streams[s] # Off
    /\ Report(<<Bytes(streams[s].id)>>)
    /\ UNCHANGED <<up, nextId, streams, wire, applying, opens, serverVars>>

(* The end of the producer, or the drop of the viewer's body. *)
CloseStream(s) ==
    LET close == Event("close", streams[s].id, NoChannel, None, FALSE) IN
    /\ up /\ streams[s] # Off
    /\ Report(<<close>>) \/ Report(<<Bytes(streams[s].id), close>>)
    /\ streams' = [streams EXCEPT ![s] = Off]
    /\ UNCHANGED <<up, nextId, wire, applying, opens, serverVars>>

(* telemetry_flusher: the next batch once the last post has returned. *)
Flush ==
    /\ up /\ wire = <<>> /\ queue # <<>>
    /\ LET n == IF Len(queue) <= MaxBatch THEN Len(queue) ELSE MaxBatch IN
         /\ wire' = SubSeq(queue, 1, n)
         /\ queue' = SubSeq(queue, n + 1, Len(queue))
    /\ UNCHANGED <<up, nextId, streams, applying, opens, serverVars>>

(* The post fails before the server reads it; the batch is not kept. *)
PostFails ==
    /\ wire # <<>> /\ ~applying
    /\ wire' = <<>>
    /\ UNCHANGED <<up, nextId, streams, queue, applying, opens, serverVars>>

(* A batch already sent may still arrive. *)
Crash ==
    /\ up /\ up' = FALSE
    /\ nextId' = None
    /\ streams' = [s \in Stream |-> Off]
    /\ queue' = <<>>
    /\ UNCHANGED <<wire, applying, opens, serverVars>>

(* sidecar.ts spawns the next one after a delay. *)
Restart ==
    /\ ~up /\ wire = <<>>
    /\ up' = TRUE
    /\ UNCHANGED <<nextId, streams, queue, wire, applying, opens, serverVars>>

-----------------------------------------------------------------------------
(* streamState.ts. *)

NoteSuccess(st) == Succeeded

Failing(st, n) ==
    [ever |-> st.ever, failures |-> n,
     failedFor |-> IF n = MaxRetries /\ st.failedFor = -1 THEN 0 ELSE st.failedFor]

NoteFailure(st) == Failing(st, IF st.failures < MaxRetries THEN st.failures + 1 ELSE st.failures)

NoteFailed(st) == Failing(st, MaxRetries)

Cooled(st) == st.failures = MaxRetries /\ st.failedFor > Cooldown

(* phaseFor reads the phase, and forgives a failure that has cooled down. *)
PhaseFor(st) ==
    CASE st.failures = 0 /\ ~st.ever              -> "establishing"
      [] st.failures = 0 /\ st.ever               -> "live"
      [] st.failures = MaxRetries /\ ~Cooled(st)  -> "failed"
      [] OTHER -> IF st.ever THEN "buffer" ELSE "establishing"

Forgiven(st) == [ever |-> st.ever, failures |-> 0, failedFor |-> -1]

-----------------------------------------------------------------------------
(* The server applies the next event of the batch. *)

Taken(kind) ==
    /\ wire # <<>> /\ Head(wire).kind = kind
    /\ wire' = Tail(wire) /\ applying' = (Tail(wire) # <<>>)
    /\ UNCHANGED <<up, nextId, streams, queue, opens>>

Known(ch) == channels' = [channels EXCEPT ![ch] = IF @ = "unknown" THEN "steady" ELSE @]

ApplyViewer ==
    LET e == Head(wire) IN
    /\ Taken("viewer")
    /\ lastChannel' = [lastChannel EXCEPT ![e.player] = e.chan]
    /\ polls' = [polls EXCEPT ![e.player][e.chan] =
                    IF @ = NoRow THEN Row(e.chan) ELSE [@ EXCEPT !.quiet = 0]]
    /\ Known(e.chan)
    /\ states' = [states EXCEPT ![e.chan] = NoteSuccess(@)]
    /\ UNCHANGED <<tsConns, sockets, saves>>

(* Bytes count for the channel this player polled last. *)
ApplyBytes ==
    LET e == Head(wire)
        ch == lastChannel[e.player]
    IN  /\ Taken("bytes")
        /\ polls' = IF ch = NoChannel \/ polls[e.player][ch] = NoRow THEN polls
                    ELSE [polls EXCEPT ![e.player][ch].quiet = 0]
        /\ states' = [states EXCEPT ![e.chan] = NoteSuccess(@)]
        /\ UNCHANGED <<tsConns, sockets, lastChannel, channels, saves>>

ApplyUpstream ==
    LET e == Head(wire) IN
    /\ Taken("upstream")
    /\ states' = [states EXCEPT ![e.chan] = IF e.definite THEN NoteFailed(@) ELSE NoteFailure(@)]
    /\ UNCHANGED <<tsConns, sockets, polls, lastChannel, channels, saves>>

(* Mutation: a reused id does not close the session it named before. *)
ApplyOpenOverwrites ==
    LET e == Head(wire)
    IN  /\ Taken("open")
        /\ tsConns' = [tsConns EXCEPT ![e.id] = Len(sockets) + 1]
        /\ sockets' = Append(sockets, Row(e.chan))
        /\ saves' = Append(saves, 0)
        /\ Known(e.chan)
        /\ states' = [states EXCEPT ![e.chan] = NoteSuccess(@)]
        /\ UNCHANGED <<polls, lastChannel>>

Closed(c) == [d \in Conn |-> IF d = c THEN NoRow ELSE sockets[d]]
Saved(c)  == [d \in Conn |-> IF d = c /\ sockets[d] # NoRow THEN saves[d] + 1 ELSE saves[d]]

ApplyOpen ==
    LET e == Head(wire)
        prev == tsConns[e.id]
    IN  /\ Taken("open")
        /\ tsConns' = [tsConns EXCEPT ![e.id] = Len(sockets) + 1]
        /\ sockets' = Append(Closed(prev), Row(e.chan))
        /\ saves' = Append(Saved(prev), 0)
        /\ Known(e.chan)
        /\ states' = [states EXCEPT ![e.chan] = NoteSuccess(@)]
        /\ UNCHANGED <<polls, lastChannel>>

ApplySocketBytes ==
    LET e == Head(wire)
        c == tsConns[e.id]
    IN  /\ Taken("sbytes")
        /\ sockets' = [d \in Conn |-> IF d = c /\ sockets[d] # NoRow
                                      THEN [sockets[d] EXCEPT !.quiet = 0] ELSE sockets[d]]
        /\ states' = IF c # None /\ e.chan # NoChannel
                     THEN [states EXCEPT ![e.chan] = NoteSuccess(@)] ELSE states
        /\ UNCHANGED <<tsConns, polls, lastChannel, channels, saves>>

(* Mutation: a session the sweep has saved is saved again. *)
ApplyCloseTwice ==
    LET c == tsConns[Head(wire).id]
    IN  /\ Taken("close")
        /\ sockets' = Closed(c)
        /\ saves' = [d \in Conn |-> IF d = c THEN saves[d] + 1 ELSE saves[d]]
        /\ tsConns' = [tsConns EXCEPT ![Head(wire).id] = None]
        /\ UNCHANGED <<polls, lastChannel, channels, states>>

ApplyClose ==
    LET c == tsConns[Head(wire).id]
    IN  /\ Taken("close")
        /\ sockets' = Closed(c)
        /\ saves' = Saved(c)
        /\ tsConns' = [tsConns EXCEPT ![Head(wire).id] = None]
        /\ UNCHANGED <<polls, lastChannel, channels, states>>

Apply == ApplyViewer \/ ApplyBytes \/ ApplyUpstream \/ ApplyOpen \/ ApplySocketBytes \/ ApplyClose

Bound(ch) == \/ \E c \in Conn : sockets[c] # NoRow /\ sockets[c].chan = ch
             \/ \E p \in Player : polls[p][ch] # NoRow

(* statsHub.ts builds a snapshot of the watched channels, one after another: *)
(* reading a phase forgives a failure whose cooldown has run out since the   *)
(* last tick.                                                                *)
Snapshot ==
    /\ ~applying
    /\ \E ch \in Channel : /\ Bound(ch) /\ states[ch].failedFor >= Cooldown
                           /\ states' = [states EXCEPT ![ch] = Forgiven(@)]
    /\ UNCHANGED <<sidecarVars, tsConns, sockets, polls, lastChannel, channels, saves>>

-----------------------------------------------------------------------------
(* tick: time passes; buffering is detected, then the silent are swept. *)

Older(n, bound) == IF n \in 0..bound THEN n + 1 ELSE n

Aged(ch) == [states[ch] EXCEPT !.failedFor = Older(@, Cooldown)]

Looked(ch) == channels[ch] # "unknown" /\ (Bound(ch) \/ channels[ch] = "buffering")

TickChannel(ch) ==
    CASE ~Looked(ch) -> "unknown"
      [] PhaseFor(Aged(ch)) \in {"buffer", "failed"} -> "buffering"
      [] OTHER -> "steady"

(* Mutation: the end of an interval is not noted on the viewers. *)
TickMarkKeeps(row) ==
    IF channels[row.chan] = "steady" /\ TickChannel(row.chan) = "buffering" THEN TRUE ELSE row.marked

(* An interval opens, or ends, on every viewer bound at that tick. *)
TickMark(row) ==
    IF channels[row.chan] = TickChannel(row.chan) THEN row.marked
    ELSE TickChannel(row.chan) = "buffering"

(* Mutation: sockets are exempt from the sweep altogether. *)
TickSocketUnswept(row) ==
    IF row = NoRow THEN NoRow
    ELSE [row EXCEPT !.quiet = Older(@, SocketIdle), !.marked = TickMark(row)]

TickRow(row, ttl) ==
    IF row = NoRow \/ Older(row.quiet, ttl) > ttl THEN NoRow
    ELSE [chan |-> row.chan, quiet |-> row.quiet + 1, marked |-> TickMark(row)]

TickSocket(row) == TickRow(row, SocketIdle)

Tick ==
    /\ ~applying
    /\ channels' = [ch \in Channel |-> TickChannel(ch)]
    /\ states' = [ch \in Channel |-> IF Looked(ch) /\ Cooled(Aged(ch)) THEN Forgiven(Aged(ch))
                                           ELSE Aged(ch)]
    /\ sockets' = [c \in Conn |-> TickSocket(sockets[c])]
    /\ polls' = [p \in Player |-> [ch \in Channel |-> TickRow(polls[p][ch], PollTtl)]]
    /\ saves' = [c \in Conn |-> IF sockets[c] # NoRow /\ sockets'[c] = NoRow
                                THEN saves[c] + 1 ELSE saves[c]]
    /\ UNCHANGED <<sidecarVars, tsConns, lastChannel>>

Sidecar == \/ \E s \in Stream : StreamBytes(s) \/ CloseStream(s) \/ \E ch \in Channel : OpenStream(s, ch)
           \/ \E ch \in Channel : UpstreamFails(ch) \/ \E p \in Player : Poll(p, ch)
           \/ Flush \/ PostFails \/ Crash \/ Restart

Next == Sidecar \/ Apply \/ Snapshot \/ Tick

Spec == Init /\ [][Next]_vars

(* A batch is applied to its end, and the timer runs between two batches      *)
(* however many of them there are.                                            *)
FairSpec == Spec /\ WF_vars(Apply) /\ SF_vars(Tick)

-----------------------------------------------------------------------------
RowOK(row, ttl) == row # NoRow => /\ row.chan \in Channel /\ row.quiet \in 0..ttl
                                  /\ row.marked \in BOOLEAN

TypeOK ==
    /\ up \in BOOLEAN /\ nextId \in 0..MaxOpens /\ opens \in 0..MaxOpens
    /\ streams \in [Stream -> [id: Id \cup {None}, chan: Channel \cup {NoChannel}]]
    /\ Len(queue) <= QueueCap /\ Len(wire) <= MaxBatch /\ applying \in BOOLEAN
    /\ tsConns \in [Id -> Nat]
    /\ \A c \in Conn : RowOK(sockets[c], SocketIdle)
    /\ \A p \in Player : \A ch \in Channel : RowOK(polls[p][ch], PollTtl)
    /\ lastChannel \in [Player -> Channel \cup {NoChannel}]
    /\ channels \in [Channel -> {"unknown", "steady", "buffering"}]
    /\ states \in [Channel -> [ever: BOOLEAN, failures: 0..MaxRetries, failedFor: -1..(Cooldown + 1)]]
    /\ \A ch \in Channel : states[ch].failedFor = -1 <=> states[ch].failures < MaxRetries
    /\ DOMAIN saves = Conn /\ \A c \in Conn : saves[c] \in Nat

(* telemetryIngest.ts: "a reused id can never double-count".  Every socket     *)
(* that is counted is named by exactly one stream id, so its close finds it.   *)
NoGhostViewer ==
    /\ \A c \in Conn : sockets[c] # NoRow => \E i \in Id : tsConns[i] = c
    /\ \A i, j \in Id : tsConns[i] = tsConns[j] /\ tsConns[i] # None => i = j

(* A session is written to the history once, when its viewer is taken off the  *)
(* list: by its close, by the sweep or by the reuse of its id.  Counted are the *)
(* calls of closeSession; of these persistSession keeps the sessions that      *)
(* lasted MIN_SESSION_MS.                                                      *)
SavedOnce ==
    \A c \in Conn : saves[c] = IF sockets[c] = NoRow THEN 1 ELSE 0

(* Every viewer's channel is tracked, and a viewer has an open buffering       *)
(* interval only while its channel has one: none is left to run on.            *)
IntervalsMatch ==
    \A row \in {sockets[c] : c \in Conn} \cup UNION {{polls[p][ch] : ch \in Channel} : p \in Player} :
        row # NoRow => /\ channels[row.chan] # "unknown"
                       /\ row.marked => channels[row.chan] = "buffering"

Listed(c) == c \in Conn /\ sockets[c] # NoRow

(* A running stream whose bytes count for viewer c: c's own, or, after a crash, *)
(* one that was given the same id again and whose `open` was lost.              *)
Kept(c) == \E s \in Stream : streams[s] # Off /\ tsConns[streams[s].id] = c

(* streamTelemetry.ts, SOCKET_IDLE_MS: a viewer whose close never arrives       *)
(* (dropped, lost, or a crashed sidecar) is taken off the list all the same,    *)
(* unless bytes go on to arrive under its id.  After a crash they may be those  *)
(* of another stream: a dead viewer then stays as long as that stream runs,     *)
(* which telemetryIngest.ts:58-60 ("only wastes a few bytes") does not expect.  *)
EndedViewersGo == \A c \in 1..MaxOpens : Listed(c) ~> ~Listed(c) \/ Kept(c)

(* telemetryIngest.ts: `sbytes` is "noteSuccess (keeps the channel live, same  *)
(* as the HLS `bytes` event)": bytes that wake a viewer up find its channel   *)
(* live.                                                                       *)
BytesKeepLive ==
    [][\A c \in Conn : /\ sockets[c] # NoRow /\ sockets'[c] # NoRow
                       /\ sockets[c].quiet > 0 /\ sockets'[c].quiet = 0
                       => PhaseFor(states'[sockets[c].chan]) = "live"]_vars

=============================================================================
