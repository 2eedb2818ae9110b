----------------------- MODULE StreamTelemetryProofs -----------------------
(***************************************************************************)
(* What the server's list of viewers guarantees whatever the sidecar sends *)
(* or fails to send, for every number of streams and players, every size   *)
(* of the queue and of a batch and every setting of the times.             *)
(*                                                                         *)
(* The inductive invariant has two halves.  SidecarOK: every event in the  *)
(* queue or in a batch names a channel, a player and a stream where its    *)
(* kind needs one.  ServerOK: the rows are typed, no stream id points past *)
(* the last viewer id given out (so that a new viewer is nobody else's),   *)
(* and a poll row is filed under its own channel.                          *)
(***************************************************************************)
EXTENDS StreamTelemetry, SequenceTheorems, TLAPS

Kinds == {"viewer", "bytes", "upstream", "open", "sbytes", "close"}

Events ==
    {e \in [kind: Kinds, id: Id \cup {None}, chan: Channel \cup {NoChannel},
            player: Player \cup {None}, definite: BOOLEAN] :
        /\ e.kind \in {"viewer", "bytes"} => e.chan \in Channel /\ e.player \in Player
        /\ e.kind \in {"upstream", "open"} => e.chan \in Channel
        /\ e.kind \in {"open", "sbytes", "close"} => e.id \in Id}

SidecarOK ==
    /\ up \in BOOLEAN /\ opens \in 0..MaxOpens /\ nextId \in 0..opens
    /\ streams \in [Stream -> [id: Id, chan: Channel] \cup {Off}]
    /\ queue \in Seq(Events) /\ Len(queue) <= QueueCap
    /\ wire \in Seq(Events) /\ Len(wire) <= MaxBatch
    /\ applying \in BOOLEAN

Rows(ttl) == [chan: Channel, quiet: 0..ttl, marked: BOOLEAN]
States == [ever: BOOLEAN, failures: 0..MaxRetries, failedFor: -1..(Cooldown + 1)]
Counted(st) == st.failedFor = -1 <=> st.failures < MaxRetries

SocketsOK ==
    /\ sockets \in Seq(Rows(SocketIdle) \cup {NoRow})
    /\ saves \in Seq(Nat) /\ Len(saves) = Len(sockets)
    /\ tsConns \in [Id -> 0..Len(sockets)]

PollsOK ==
    /\ polls \in [Player -> [Channel -> Rows(PollTtl) \cup {NoRow}]]
    /\ \A p \in Player, ch \in Channel : polls[p][ch] # NoRow => polls[p][ch].chan = ch
    /\ lastChannel \in [Player -> Channel \cup {NoChannel}]

PhasesOK ==
    /\ channels \in [Channel -> {"unknown", "steady", "buffering"}]
    /\ states \in [Channel -> States] /\ \A ch \in Channel : Counted(states[ch])

ServerOK == SocketsOK /\ PollsOK /\ PhasesOK

(* IntervalsMatch, for one row. *)
Matches(row) == row # NoRow => /\ channels[row.chan] # "unknown"
                               /\ row.marked => channels[row.chan] = "buffering"

RowsMatch == /\ \A c \in Conn : Matches(sockets[c])
             /\ \A p \in Player, ch \in Channel : Matches(polls[p][ch])

IInv == SidecarOK /\ ServerOK /\ NoGhostViewer /\ SavedOnce /\ RowsMatch

-----------------------------------------------------------------------------
(* The sidecar. *)

(* report never grows the queue beyond its capacity, nor spoils it. *)
LEMMA ReportTyped ==
    ASSUME SidecarOK, NEW events \in Seq(Events), Report(events)
    PROVE  queue' \in Seq(Events) /\ Len(queue') <= QueueCap
<1> DEFINE all == queue \o events
           n == IF Len(all) <= QueueCap THEN Len(all) ELSE QueueCap
<1>1. all \in Seq(Events) BY ConcatProperties DEF SidecarOK
<1>2. Len(all) \in Nat /\ n \in 0..Len(all) /\ n <= QueueCap
  BY <1>1, LenProperties, TelemetryAssumption
<1>3. \A i \in 1..n : all[i] \in Events BY <1>1, <1>2, ElementOfSeq
<1>4. queue' = SubSeq(all, 1, n) BY DEF Report
<1> HIDE DEF all, n
<1>5. SubSeq(all, 1, n) \in Seq(Events) /\ Len(SubSeq(all, 1, n)) = IF 1 <= n THEN n - 1 + 1 ELSE 0
  BY <1>2, <1>3, SubSeqProperties
<1> QED BY <1>2, <1>4, <1>5, TelemetryAssumption

LEMMA SingleTyped ==
    ASSUME NEW e \in Events
    PROVE  <<e>> \in Seq(Events)
OBVIOUS

LEMMA PairTyped ==
    ASSUME NEW e \in Events, NEW f \in Events
    PROVE  <<e, f>> \in Seq(Events)
OBVIOUS

LEMMA SidecarStep ==
    ASSUME SidecarOK, Sidecar
    PROVE  SidecarOK' /\ UNCHANGED serverVars
<1>1. ASSUME NEW ch \in Channel, NEW p \in Player, Poll(p, ch) PROVE SidecarOK' /\ UNCHANGED serverVars
  <2>1. PICK kind \in {"viewer", "bytes"} : Report(<<Event(kind, None, ch, p, FALSE)>>) BY <1>1 DEF Poll
  <2>2. Event(kind, None, ch, p, FALSE) \in Events BY DEF Event, Events, Kinds
  <2>3. queue' \in Seq(Events) /\ Len(queue') <= QueueCap BY <2>1, <2>2, SingleTyped, ReportTyped
  <2> QED BY <1>1, <2>3 DEF Poll, SidecarOK
<1>2. ASSUME NEW ch \in Channel, UpstreamFails(ch) PROVE SidecarOK' /\ UNCHANGED serverVars
  <2>1. PICK d \in BOOLEAN : Report(<<Event("upstream", None, ch, None, d)>>) BY <1>2 DEF UpstreamFails
  <2>2. Event("upstream", None, ch, None, d) \in Events BY DEF Event, Events, Kinds
  <2>3. queue' \in Seq(Events) /\ Len(queue') <= QueueCap BY <2>1, <2>2, SingleTyped, ReportTyped
  <2> QED BY <1>2, <2>3 DEF UpstreamFails, SidecarOK
<1>3. ASSUME NEW s \in Stream, NEW ch \in Channel, OpenStream(s, ch) PROVE SidecarOK' /\ UNCHANGED serverVars
  <2>1. nextId' \in Id /\ nextId' \in 0..opens' /\ opens' \in 0..MaxOpens
    BY <1>3, TelemetryAssumption DEF OpenStream, SidecarOK, Id
  <2>2. Event("open", nextId', ch, None, FALSE) \in Events BY <2>1 DEF Event, Events, Kinds
  <2>3. queue' \in Seq(Events) /\ Len(queue') <= QueueCap
    BY <1>3, <2>2, SingleTyped, ReportTyped DEF OpenStream
  <2>4. streams' \in [Stream -> [id: Id, chan: Channel] \cup {Off}] BY <1>3, <2>1 DEF OpenStream, SidecarOK
  <2> QED BY <1>3, <2>1, <2>3, <2>4 DEF OpenStream, SidecarOK
<1>4. ASSUME NEW s \in Stream, StreamBytes(s) PROVE SidecarOK' /\ UNCHANGED serverVars
  <2>1. streams[s].id \in Id BY <1>4 DEF StreamBytes, SidecarOK
  <2>2. Bytes(streams[s].id) \in Events BY <2>1 DEF Bytes, Event, Events, Kinds
  <2>3. queue' \in Seq(Events) /\ Len(queue') <= QueueCap
    BY <1>4, <2>2, SingleTyped, ReportTyped DEF StreamBytes
  <2> QED BY <1>4, <2>3 DEF StreamBytes, SidecarOK
<1>5. ASSUME NEW s \in Stream, CloseStream(s) PROVE SidecarOK' /\ UNCHANGED serverVars
  <2> DEFINE close == Event("close", streams[s].id, NoChannel, None, FALSE)
  <2>1. streams[s].id \in Id BY <1>5 DEF CloseStream, SidecarOK
  <2>2. Bytes(streams[s].id) \in Events /\ close \in Events BY <2>1 DEF Bytes, Event, Events, Kinds
  <2>3. Report(<<close>>) \/ Report(<<Bytes(streams[s].id), close>>) BY <1>5 DEF CloseStream
  <2> HIDE DEF close
  <2>4. queue' \in Seq(Events) /\ Len(queue') <= QueueCap
    BY <2>2, <2>3, SingleTyped, PairTyped, ReportTyped
  <2>5. streams' \in [Stream -> [id: Id, chan: Channel] \cup {Off}] BY <1>5 DEF CloseStream, SidecarOK
  <2> QED BY <1>5, <2>4, <2>5 DEF CloseStream, SidecarOK
<1>6. CASE Flush
  <2> DEFINE n == IF Len(queue) <= MaxBatch THEN Len(queue) ELSE MaxBatch
  <2>1. /\ wire' = SubSeq(queue, 1, n) /\ queue' = SubSeq(queue, n + 1, Len(queue))
    BY <1>6 DEF Flush
  <2>2. Len(queue) \in Nat /\ n \in 0..Len(queue) /\ n <= MaxBatch
    BY LenProperties, TelemetryAssumption DEF SidecarOK
  <2>3. \A i \in 1..Len(queue) : queue[i] \in Events BY ElementOfSeq DEF SidecarOK
  <2> HIDE DEF n
  <2>4. /\ SubSeq(queue, 1, n) \in Seq(Events)
        /\ Len(SubSeq(queue, 1, n)) = IF 1 <= n THEN n - 1 + 1 ELSE 0
    BY <2>2, <2>3, SubSeqProperties
  <2>5. /\ SubSeq(queue, n + 1, Len(queue)) \in Seq(Events)
        /\ Len(SubSeq(queue, n + 1, Len(queue))) = IF n + 1 <= Len(queue) THEN Len(queue) - (n + 1) + 1 ELSE 0
    BY <2>2, <2>3, SubSeqProperties
  <2>6. Len(wire') <= MaxBatch /\ Len(queue') <= QueueCap
    BY <2>1, <2>2, <2>4, <2>5, TelemetryAssumption DEF SidecarOK
  <2> QED BY <1>6, <2>1, <2>4, <2>5, <2>6 DEF Flush, SidecarOK
<1>7. CASE PostFails BY <1>7, TelemetryAssumption DEF PostFails, SidecarOK
<1>8. CASE Crash
  <2>1. streams' \in [Stream -> [id: Id, chan: Channel] \cup {Off}] BY <1>8 DEF Crash
  <2>2. queue' \in Seq(Events) /\ Len(queue') <= QueueCap
    BY <1>8, EmptySeq, TelemetryAssumption DEF Crash
  <2>3. nextId' \in 0..opens' BY <1>8 DEF Crash, SidecarOK, None
  <2> QED BY <1>8, <2>1, <2>2, <2>3 DEF Crash, SidecarOK
<1>9. CASE Restart BY <1>9 DEF Restart, SidecarOK
<1> QED BY <1>1, <1>2, <1>3, <1>4, <1>5, <1>6, <1>7, <1>8, <1>9 DEF Sidecar


-----------------------------------------------------------------------------
(* Rows, phases and sequences over the viewer ids. *)

LEMMA RowIsNotNoRow ==
    ASSUME NEW ttl \in Nat
    PROVE  NoRow \notin Rows(ttl)
BY TelemetryAssumption DEF Rows

LEMMA RowTyped ==
    ASSUME NEW ttl \in Nat, NEW ch \in Channel
    PROVE  Row(ch) \in Rows(ttl) /\ Row(ch) # NoRow
<1>1. Row(ch) \in Rows(ttl) BY DEF Row, Rows
<1> QED BY <1>1, RowIsNotNoRow

LEMMA Phases ==
    ASSUME NEW st \in States, Counted(st)
    PROVE  /\ NoteSuccess(st) \in States /\ Counted(NoteSuccess(st))
           /\ NoteFailure(st) \in States /\ Counted(NoteFailure(st))
           /\ NoteFailed(st) \in States /\ Counted(NoteFailed(st))
           /\ Forgiven(st) \in States /\ Counted(Forgiven(st))
<1>1. NoteSuccess(st) \in States /\ Counted(NoteSuccess(st))
  BY TelemetryAssumption DEF States, Counted, NoteSuccess, Succeeded
<1>2. /\ st.ever \in BOOLEAN /\ st.failures \in 0..MaxRetries /\ st.failedFor \in -1..(Cooldown + 1)
      /\ st.failedFor = -1 <=> st.failures < MaxRetries
  BY DEF States, Counted
<1>3. ASSUME NEW n \in 1..MaxRetries, n >= st.failures
      PROVE  Failing(st, n) \in States /\ Counted(Failing(st, n))
  BY <1>2, <1>3, TelemetryAssumption DEF States, Counted, Failing
<1>4. NoteFailure(st) \in States /\ Counted(NoteFailure(st))
  BY <1>2, <1>3, TelemetryAssumption DEF NoteFailure
<1>5. NoteFailed(st) \in States /\ Counted(NoteFailed(st))
  BY <1>2, <1>3, TelemetryAssumption DEF NoteFailed
<1>6. Forgiven(st) \in States /\ Counted(Forgiven(st))
  BY <1>2, TelemetryAssumption DEF States, Counted, Forgiven
<1> QED BY <1>1, <1>4, <1>5, <1>6

LEMMA SeqOfFunction ==
    ASSUME NEW S, NEW n \in Nat, NEW f \in [1..n -> S]
    PROVE  f \in Seq(S) /\ Len(f) = n
<1>1. f \in Seq(S) BY SeqDef
<1>2. DOMAIN f = 1..Len(f) /\ Len(f) \in Nat BY <1>1, LenProperties
<1>3. DOMAIN f = 1..n OBVIOUS
<1> QED BY <1>1, <1>2, <1>3

LEMMA Conns ==
    ASSUME SocketsOK
    PROVE  /\ Len(sockets) \in Nat /\ Conn = 1..Len(sockets)
           /\ \A c \in Conn : sockets[c] \in Rows(SocketIdle) \cup {NoRow} /\ saves[c] \in Nat
<1>1. Len(sockets) \in Nat /\ DOMAIN sockets = 1..Len(sockets)
  BY LenProperties DEF SocketsOK
<1>2. \A c \in 1..Len(sockets) : sockets[c] \in Rows(SocketIdle) \cup {NoRow}
  BY ElementOfSeq DEF SocketsOK
<1>3. \A c \in 1..Len(sockets) : saves[c] \in Nat BY ElementOfSeq DEF SocketsOK
<1> QED BY <1>1, <1>2, <1>3 DEF Conn

(* Taking a viewer off the list keeps every other viewer's id. *)
LEMMA ClosedSaved ==
    ASSUME SocketsOK, NEW c
    PROVE  /\ Closed(c) \in Seq(Rows(SocketIdle) \cup {NoRow}) /\ Len(Closed(c)) = Len(sockets)
           /\ Saved(c) \in Seq(Nat) /\ Len(Saved(c)) = Len(sockets)
<1>1. Closed(c) \in [1..Len(sockets) -> Rows(SocketIdle) \cup {NoRow}] BY Conns DEF Closed
<1>2. Saved(c) \in [1..Len(sockets) -> Nat] BY Conns DEF Saved
<1> QED BY <1>1, <1>2, Conns, SeqOfFunction

(* One event of a batch is taken. *)
LEMMA TakenTyped ==
    ASSUME SidecarOK, NEW kind, Taken(kind)
    PROVE  SidecarOK' /\ Head(wire) \in Events /\ Head(wire).kind = kind
<1>1. Head(wire) \in Events /\ Tail(wire) \in Seq(Events) /\ Len(Tail(wire)) = Len(wire) - 1
  BY HeadTailProperties DEF Taken, SidecarOK
<1>2. Len(wire) \in Nat BY LenProperties DEF SidecarOK
<1> QED BY <1>1, <1>2, TelemetryAssumption DEF Taken, SidecarOK

-----------------------------------------------------------------------------
(* What the actions that touch only some of the server leave in order. *)

(* An event makes its channel known; a known one keeps its state. *)
LEMMA KnownChannels ==
    ASSUME PhasesOK, NEW ch \in Channel, Known(ch)
    PROVE  /\ channels' \in [Channel -> {"unknown", "steady", "buffering"}]
           /\ channels'[ch] # "unknown"
           /\ \A d \in Channel : channels[d] # "unknown" => channels'[d] = channels[d]
BY DEF PhasesOK, Known

(* The phase of one channel changes, to a well-formed one. *)
LEMMA OnePhase ==
    ASSUME PhasesOK, NEW ch \in Channel, NEW st \in States, Counted(st),
           states' = [states EXCEPT ![ch] = st]
    PROVE  states' \in [Channel -> States] /\ \A d \in Channel : Counted(states'[d])
BY DEF PhasesOK

(* Rows that stay, on channels that stay known, still match them. *)
LEMMA StillMatch ==
    ASSUME ServerOK, RowsMatch, NEW row, Matches(row), row # NoRow => row.chan \in Channel,
           \A d \in Channel : channels[d] # "unknown" => channels'[d] = channels[d]
    PROVE  row # NoRow => /\ channels'[row.chan] # "unknown"
                          /\ row.marked => channels'[row.chan] = "buffering"
BY DEF Matches

LEMMA ViewerStep ==
    ASSUME IInv, ApplyViewer
    PROVE  IInv'
<1> DEFINE e == Head(wire)
           now == IF polls[e.player][e.chan] = NoRow THEN Row(e.chan)
                  ELSE [polls[e.player][e.chan] EXCEPT !.quiet = 0]
<1>1. SidecarOK' /\ e \in Events /\ e.kind = "viewer" BY TakenTyped DEF ApplyViewer, IInv
<1>2. e.chan \in Channel /\ e.player \in Player BY <1>1 DEF Events
<1>3. Known(e.chan) /\ states' = [states EXCEPT ![e.chan] = NoteSuccess(states[e.chan])]
      /\ polls' = [polls EXCEPT ![e.player][e.chan] = now]
      /\ lastChannel' = [lastChannel EXCEPT ![e.player] = e.chan]
      /\ UNCHANGED <<tsConns, sockets, saves>>
  BY DEF ApplyViewer
<1> HIDE DEF e
<1>4. PollsOK /\ PhasesOK /\ SocketsOK /\ ServerOK /\ RowsMatch BY DEF IInv, ServerOK
<1>5. PhasesOK'
  <2>1. states[e.chan] \in States /\ Counted(states[e.chan]) BY <1>2, <1>4 DEF PhasesOK
  <2> QED BY <1>2, <1>3, <1>4, <2>1, Phases, OnePhase, KnownChannels DEF PhasesOK
<1>6. now \in Rows(PollTtl) /\ now # NoRow /\ now.chan = e.chan
      /\ (now.marked => polls[e.player][e.chan] # NoRow /\ polls[e.player][e.chan].marked)
  <2>1. PollTtl \in Nat BY TelemetryAssumption
  <2>2. polls[e.player][e.chan] \in Rows(PollTtl) \cup {NoRow}
        /\ (polls[e.player][e.chan] # NoRow => polls[e.player][e.chan].chan = e.chan)
    BY <1>2, <1>4 DEF PollsOK
  <2>3. CASE polls[e.player][e.chan] = NoRow
    BY <1>2, <2>1, <2>3, RowTyped DEF Row
  <2>4. CASE polls[e.player][e.chan] # NoRow
    <3>1. now \in Rows(PollTtl) /\ now.chan = e.chan /\ now.marked = polls[e.player][e.chan].marked
      BY <2>1, <2>2, <2>4 DEF Rows
    <3> QED BY <2>1, <2>4, <3>1, RowIsNotNoRow
  <2> QED BY <2>3, <2>4
<1> HIDE DEF now
<1>7. \A p \in Player, ch \in Channel :
        polls'[p][ch] = IF p = e.player /\ ch = e.chan THEN now ELSE polls[p][ch]
  BY <1>2, <1>3, <1>4 DEF PollsOK
<1>8. PollsOK'
  <2>1. polls' \in [Player -> [Channel -> Rows(PollTtl) \cup {NoRow}]]
    BY <1>2, <1>3, <1>4, <1>6 DEF PollsOK
  <2>2. \A p \in Player, ch \in Channel : polls'[p][ch] # NoRow => polls'[p][ch].chan = ch
    BY <1>4, <1>6, <1>7 DEF PollsOK
  <2>3. lastChannel' \in [Player -> Channel \cup {NoChannel}] BY <1>2, <1>3, <1>4 DEF PollsOK
  <2> QED BY <2>1, <2>2, <2>3 DEF PollsOK
<1>9. SocketsOK' /\ NoGhostViewer' /\ SavedOnce'
  BY <1>3 DEF IInv, ServerOK, SocketsOK, NoGhostViewer, SavedOnce, Conn
<1>10. RowsMatch'
  <2>1. /\ channels'[e.chan] # "unknown"
        /\ \A d \in Channel : channels[d] # "unknown" => channels'[d] = channels[d]
    BY <1>2, <1>3, <1>4, KnownChannels
  <2>2. ASSUME NEW c \in Conn PROVE Matches(sockets[c])'
    <3>1. Matches(sockets[c]) /\ (sockets[c] # NoRow => sockets[c].chan \in Channel)
      BY <1>4, <2>2, Conns DEF RowsMatch, Rows
    <3> QED BY <1>3, <1>4, <2>1, <3>1, StillMatch DEF Matches
  <2>3. ASSUME NEW p \in Player, NEW ch \in Channel PROVE Matches(polls[p][ch])'
    <3>1. Matches(polls[p][ch]) /\ (polls[p][ch] # NoRow => polls[p][ch].chan = ch)
      BY <1>4 DEF RowsMatch, PollsOK
    <3>2. CASE p = e.player /\ ch = e.chan
      BY <1>6, <1>7, <2>1, <3>1, <3>2 DEF Matches
    <3>3. CASE ~(p = e.player /\ ch = e.chan)
      BY <1>7, <2>1, <3>1, <3>3 DEF Matches
    <3> QED BY <3>2, <3>3
  <2> QED BY <1>3, <2>2, <2>3 DEF RowsMatch, Conn
<1> QED BY <1>1, <1>5, <1>8, <1>9, <1>10 DEF IInv, ServerOK


LEMMA BytesStep ==
    ASSUME IInv, ApplyBytes
    PROVE  IInv'
<1> DEFINE e == Head(wire)
           p == e.player
           ch == lastChannel[p]
<1>1. SidecarOK' /\ e \in Events /\ e.kind = "bytes" BY TakenTyped DEF ApplyBytes, IInv
<1>2. e.chan \in Channel /\ p \in Player BY <1>1 DEF Events
<1>3. /\ states' = [states EXCEPT ![e.chan] = NoteSuccess(states[e.chan])]
      /\ polls' = IF ch = NoChannel \/ polls[p][ch] = NoRow THEN polls
                  ELSE [polls EXCEPT ![p][ch].quiet = 0]
      /\ UNCHANGED <<tsConns, sockets, lastChannel, channels, saves>>
  BY DEF ApplyBytes
<1>4. PollsOK /\ PhasesOK /\ SocketsOK /\ ServerOK /\ RowsMatch BY DEF IInv, ServerOK
<1> HIDE DEF p
<1>5. PhasesOK'
  <2>1. states[e.chan] \in States /\ Counted(states[e.chan]) BY <1>2, <1>4 DEF PhasesOK
  <2> QED BY <1>2, <1>3, <1>4, <2>1, Phases, OnePhase DEF PhasesOK
<1>6. \A q \in Player, d \in Channel :
        /\ polls'[q][d] \in Rows(PollTtl) \cup {NoRow}
        /\ polls'[q][d] # NoRow => polls[q][d] # NoRow /\ polls'[q][d].chan = polls[q][d].chan
                                   /\ polls'[q][d].marked = polls[q][d].marked
  <2>1. CASE ch = NoChannel \/ polls[p][ch] = NoRow BY <1>3, <1>4, <2>1 DEF PollsOK
  <2>2. CASE ch # NoChannel /\ polls[p][ch] # NoRow
    <3>1. ch \in Channel BY <1>2, <1>4, <2>2 DEF PollsOK
    <3> DEFINE now == [polls[p][ch] EXCEPT !.quiet = 0]
    <3>2. now \in Rows(PollTtl) /\ now.chan = polls[p][ch].chan /\ now.marked = polls[p][ch].marked
      BY <1>2, <1>4, <2>2, <3>1, TelemetryAssumption DEF PollsOK, Rows
    <3>3. \A q \in Player, d \in Channel :
            polls'[q][d] = IF q = p /\ d = ch THEN now ELSE polls[q][d]
      BY <1>2, <1>3, <1>4, <2>2, <3>1 DEF PollsOK
    <3> HIDE DEF ch, now
    <3> QED BY <1>4, <2>2, <3>1, <3>2, <3>3 DEF PollsOK
  <2> QED BY <2>1, <2>2
<1>7. polls' \in [Player -> [Channel -> Rows(PollTtl) \cup {NoRow}]]
  <2>1. CASE ch = NoChannel \/ polls[p][ch] = NoRow BY <1>3, <1>4, <2>1 DEF PollsOK
  <2>2. CASE ch # NoChannel /\ polls[p][ch] # NoRow
    <3>1. ch \in Channel BY <1>2, <1>4, <2>2 DEF PollsOK
    <3>2. [polls[p][ch] EXCEPT !.quiet = 0] \in Rows(PollTtl)
      BY <1>2, <1>4, <2>2, <3>1, TelemetryAssumption DEF PollsOK, Rows
    <3> QED BY <1>2, <1>3, <1>4, <2>2, <3>1, <3>2 DEF PollsOK
  <2> QED BY <2>1, <2>2
<1>8. PollsOK' BY <1>3, <1>4, <1>6, <1>7 DEF PollsOK
<1>9. SocketsOK' /\ NoGhostViewer' /\ SavedOnce'
  BY <1>3 DEF IInv, ServerOK, SocketsOK, NoGhostViewer, SavedOnce, Conn
<1>10. RowsMatch'
  <2>1. \A c \in Conn : Matches(sockets[c])' BY <1>3, <1>4 DEF RowsMatch, Matches
  <2>2. ASSUME NEW q \in Player, NEW d \in Channel PROVE Matches(polls[q][d])'
    <3>1. Matches(polls[q][d]) BY <1>4 DEF RowsMatch
    <3> QED BY <1>3, <1>6, <3>1 DEF Matches
  <2> QED BY <1>3, <2>1, <2>2 DEF RowsMatch, Conn
<1> QED BY <1>1, <1>5, <1>8, <1>9, <1>10 DEF IInv, ServerOK

LEMMA UpstreamStep ==
    ASSUME IInv, ApplyUpstream
    PROVE  IInv'
<1> DEFINE e == Head(wire)
           st == IF e.definite THEN NoteFailed(states[e.chan]) ELSE NoteFailure(states[e.chan])
<1>1. SidecarOK' /\ e \in Events /\ e.kind = "upstream" BY TakenTyped DEF ApplyUpstream, IInv
<1>2. e.chan \in Channel BY <1>1 DEF Events
<1>3. states' = [states EXCEPT ![e.chan] = st]
      /\ UNCHANGED <<tsConns, sockets, polls, lastChannel, channels, saves>>
  BY DEF ApplyUpstream
<1>4. PhasesOK BY DEF IInv, ServerOK
<1>5. st \in States /\ Counted(st)
  <2>1. states[e.chan] \in States /\ Counted(states[e.chan]) BY <1>2, <1>4 DEF PhasesOK
  <2> QED BY <2>1, Phases
<1> HIDE DEF st, e
<1>6. PhasesOK' BY <1>2, <1>3, <1>4, <1>5, OnePhase DEF PhasesOK
<1> QED BY <1>1, <1>3, <1>6 DEF IInv, ServerOK, SocketsOK, PollsOK, NoGhostViewer, SavedOnce,
                                RowsMatch, Matches, Conn

LEMMA OpenStep ==
    ASSUME IInv, ApplyOpen
    PROVE  IInv'
<1> DEFINE e == Head(wire)
           prev == tsConns[e.id]
           n == Len(sockets) + 1
<1>1. SidecarOK' /\ e \in Events /\ e.kind = "open" BY TakenTyped DEF ApplyOpen, IInv
<1>2. e.chan \in Channel /\ e.id \in Id BY <1>1 DEF Events
<1>3. /\ tsConns' = [tsConns EXCEPT ![e.id] = n]
      /\ sockets' = Append(Closed(prev), Row(e.chan))
      /\ saves' = Append(Saved(prev), 0)
      /\ Known(e.chan)
      /\ states' = [states EXCEPT ![e.chan] = NoteSuccess(states[e.chan])]
      /\ UNCHANGED <<polls, lastChannel>>
  BY DEF ApplyOpen
<1> HIDE DEF e
<1>4. PollsOK /\ PhasesOK /\ SocketsOK /\ ServerOK /\ RowsMatch BY DEF IInv, ServerOK
<1>5. PhasesOK'
  <2>1. states[e.chan] \in States /\ Counted(states[e.chan]) BY <1>2, <1>4 DEF PhasesOK
  <2> QED BY <1>2, <1>3, <1>4, <2>1, Phases, OnePhase, KnownChannels DEF PhasesOK
<1>6. /\ Len(sockets) \in Nat /\ Conn = 1..Len(sockets) /\ n \notin Conn
      /\ tsConns \in [Id -> 0..Len(sockets)]
  BY <1>4, Conns DEF SocketsOK
<1>7. Row(e.chan) \in Rows(SocketIdle) /\ Row(e.chan) # NoRow
  BY <1>2, RowTyped, TelemetryAssumption
<1>8. /\ sockets' \in Seq(Rows(SocketIdle) \cup {NoRow}) /\ Len(sockets') = n
      /\ saves' \in Seq(Nat) /\ Len(saves') = n
      /\ \A c \in Conn : sockets'[c] = Closed(prev)[c] /\ saves'[c] = Saved(prev)[c]
      /\ sockets'[n] = Row(e.chan) /\ saves'[n] = 0
  BY <1>3, <1>4, <1>6, <1>7, ClosedSaved, AppendProperties
<1>9. /\ Conn' = Conn \cup {n}
      /\ \A c \in Conn : /\ sockets'[c] = IF c = prev THEN NoRow ELSE sockets[c]
                         /\ saves'[c] = IF c = prev /\ sockets[c] # NoRow THEN saves[c] + 1 ELSE saves[c]
  <2>1. Conn' = 1..n BY <1>8, LenProperties DEF Conn
  <2> QED BY <1>6, <1>8, <2>1 DEF Closed, Saved
<1> HIDE DEF prev, n
<1>10. tsConns' \in [Id -> 0..n]
       /\ \A i \in Id : tsConns'[i] = IF i = e.id THEN n ELSE tsConns[i]
  BY <1>2, <1>3, <1>6 DEF n
<1>11. SocketsOK' BY <1>8, <1>10 DEF SocketsOK
<1>12. NoGhostViewer'
  <2>1. ASSUME NEW c \in Conn', sockets'[c] # NoRow PROVE \E i \in Id : tsConns'[i] = c
    <3>1. CASE c = n BY <1>2, <1>10, <3>1
    <3>2. CASE c \in Conn
      <4>1. c # prev /\ sockets[c] # NoRow BY <1>9, <2>1, <3>2
      <4>2. PICK i \in Id : tsConns[i] = c BY <3>2, <4>1 DEF IInv, NoGhostViewer
      <4>3. i # e.id BY <4>1, <4>2 DEF prev
      <4> QED BY <1>10, <4>2, <4>3
    <3> QED BY <1>9, <2>1, <3>1, <3>2
  <2>2. ASSUME NEW i \in Id, NEW j \in Id, tsConns'[i] = tsConns'[j], tsConns'[i] # None PROVE i = j
    <3>1. \A k \in Id : tsConns[k] # n BY <1>6 DEF n
    <3> QED BY <1>10, <2>2, <3>1 DEF IInv, NoGhostViewer
  <2> QED BY <2>1, <2>2 DEF NoGhostViewer
<1>13. SavedOnce'
  <2>1. ASSUME NEW c \in Conn' PROVE saves'[c] = IF sockets'[c] = NoRow THEN 1 ELSE 0
    <3>1. CASE c = n BY <1>7, <1>8, <3>1 DEF n
    <3>2. CASE c \in Conn BY <1>9, <3>2 DEF IInv, SavedOnce
    <3> QED BY <1>9, <2>1, <3>1, <3>2
  <2> QED BY <2>1 DEF SavedOnce
<1>14. RowsMatch'
  <2>1. /\ channels'[e.chan] # "unknown"
        /\ \A d \in Channel : channels[d] # "unknown" => channels'[d] = channels[d]
    BY <1>2, <1>3, <1>4, KnownChannels
  <2>2. ASSUME NEW c \in Conn' PROVE Matches(sockets[c])'
    <3>1. CASE c = n
      <4>1. sockets'[c] = Row(e.chan) BY <1>8, <3>1 DEF n
      <4> QED BY <2>1, <4>1 DEF Matches, Row
    <3>2. CASE c \in Conn
      <4>1. Matches(sockets[c]) /\ (sockets[c] # NoRow => sockets[c].chan \in Channel)
        BY <1>4, <3>2, Conns DEF RowsMatch, Rows
      <4> QED BY <1>9, <2>1, <3>2, <4>1 DEF Matches
    <3> QED BY <1>9, <2>2, <3>1, <3>2
  <2>3. ASSUME NEW p \in Player, NEW ch \in Channel PROVE Matches(polls[p][ch])'
    <3>1. Matches(polls[p][ch]) /\ (polls[p][ch] # NoRow => polls[p][ch].chan = ch)
      BY <1>4 DEF RowsMatch, PollsOK
    <3> QED BY <1>3, <2>1, <3>1 DEF Matches
  <2> QED BY <2>2, <2>3 DEF RowsMatch
<1> QED BY <1>1, <1>3, <1>4, <1>5, <1>11, <1>12, <1>13, <1>14 DEF IInv, ServerOK, PollsOK


LEMMA SocketBytesStep ==
    ASSUME IInv, ApplySocketBytes
    PROVE  IInv'
<1> DEFINE e == Head(wire)
           c == tsConns[e.id]
           now(d) == IF d = c /\ sockets[d] # NoRow THEN [sockets[d] EXCEPT !.quiet = 0] ELSE sockets[d]
<1>1. SidecarOK' /\ e \in Events BY TakenTyped DEF ApplySocketBytes, IInv
<1>2. e.chan \in Channel \cup {NoChannel} BY <1>1 DEF Events
<1>3. /\ sockets' = [d \in Conn |-> now(d)]
      /\ states' = IF c # None /\ e.chan # NoChannel
                   THEN [states EXCEPT ![e.chan] = NoteSuccess(states[e.chan])] ELSE states
      /\ UNCHANGED <<tsConns, polls, lastChannel, channels, saves>>
  BY DEF ApplySocketBytes
<1>4. PollsOK /\ PhasesOK /\ SocketsOK /\ ServerOK /\ RowsMatch BY DEF IInv, ServerOK
<1> HIDE DEF e, c
<1>5. PhasesOK'
  <2>1. CASE ~(c # None /\ e.chan # NoChannel) BY <1>3, <1>4, <2>1 DEF PhasesOK
  <2>2. CASE c # None /\ e.chan # NoChannel
    <3>1. e.chan \in Channel /\ states[e.chan] \in States /\ Counted(states[e.chan])
      BY <1>2, <1>4, <2>2 DEF PhasesOK
    <3> QED BY <1>3, <1>4, <2>2, <3>1, Phases, OnePhase DEF PhasesOK
  <2> QED BY <2>1, <2>2
<1>6. \A d \in Conn : /\ now(d) \in Rows(SocketIdle) \cup {NoRow}
                      /\ now(d) = NoRow <=> sockets[d] = NoRow
                      /\ now(d) # NoRow => now(d).chan = sockets[d].chan /\ now(d).marked = sockets[d].marked
  <2> SUFFICES ASSUME NEW d \in Conn
               PROVE  /\ now(d) \in Rows(SocketIdle) \cup {NoRow}
                      /\ now(d) = NoRow <=> sockets[d] = NoRow
                      /\ now(d) # NoRow => now(d).chan = sockets[d].chan /\ now(d).marked = sockets[d].marked
    OBVIOUS
  <2>1. sockets[d] \in Rows(SocketIdle) \cup {NoRow} BY <1>4, Conns
  <2>2. CASE d = c /\ sockets[d] # NoRow
    <3>1. now(d) \in Rows(SocketIdle) /\ now(d).chan = sockets[d].chan /\ now(d).marked = sockets[d].marked
      BY <2>1, <2>2, TelemetryAssumption DEF Rows
    <3> HIDE DEF now
    <3> QED BY <2>2, <3>1, RowIsNotNoRow, TelemetryAssumption
  <2>3. CASE ~(d = c /\ sockets[d] # NoRow) BY <2>1, <2>3
  <2> QED BY <2>2, <2>3
<1> HIDE DEF now
<1>7. /\ Conn = 1..Len(sockets) /\ Len(sockets) \in Nat
      /\ sockets' \in Seq(Rows(SocketIdle) \cup {NoRow}) /\ Len(sockets') = Len(sockets)
  BY <1>3, <1>4, <1>6, Conns, SeqOfFunction
<1>8. Conn' = Conn /\ \A d \in Conn : sockets'[d] = now(d)
  BY <1>3, <1>7 DEF Conn
<1>9. SocketsOK' BY <1>3, <1>4, <1>7 DEF SocketsOK
<1>10. NoGhostViewer' /\ SavedOnce'
  <2>1. \A d \in Conn : sockets'[d] = NoRow <=> sockets[d] = NoRow BY <1>6, <1>8
  <2> QED BY <1>3, <1>8, <2>1 DEF IInv, NoGhostViewer, SavedOnce
<1>11. RowsMatch'
  <2>1. \A d \in Conn : Matches(sockets[d])' BY <1>3, <1>4, <1>6, <1>8 DEF RowsMatch, Matches
  <2>2. \A p \in Player, ch \in Channel : Matches(polls[p][ch])' BY <1>3, <1>4 DEF RowsMatch, Matches
  <2> QED BY <1>3, <1>8, <2>1, <2>2 DEF RowsMatch
<1> QED BY <1>1, <1>3, <1>4, <1>5, <1>9, <1>10, <1>11 DEF IInv, ServerOK, PollsOK

LEMMA CloseStep ==
    ASSUME IInv, ApplyClose
    PROVE  IInv'
<1> DEFINE id == Head(wire).id
           c == tsConns[id]
<1>1. SidecarOK' /\ Head(wire) \in Events /\ Head(wire).kind = "close" BY TakenTyped DEF ApplyClose, IInv
<1>2. id \in Id BY <1>1 DEF Events
<1>3. /\ sockets' = Closed(c) /\ saves' = Saved(c)
      /\ tsConns' = [tsConns EXCEPT ![id] = None]
      /\ UNCHANGED <<polls, lastChannel, channels, states>>
  BY DEF ApplyClose
<1> HIDE DEF id
<1>4. PollsOK /\ PhasesOK /\ SocketsOK /\ ServerOK /\ RowsMatch BY DEF IInv, ServerOK
<1>5. Conn = 1..Len(sockets) /\ Len(sockets) \in Nat /\ tsConns \in [Id -> 0..Len(sockets)]
  BY <1>4, Conns DEF SocketsOK
<1>6. /\ sockets' \in Seq(Rows(SocketIdle) \cup {NoRow}) /\ Len(sockets') = Len(sockets)
      /\ saves' \in Seq(Nat) /\ Len(saves') = Len(sockets)
  BY <1>3, <1>4, ClosedSaved
<1>7. /\ Conn' = Conn
      /\ \A d \in Conn : /\ sockets'[d] = IF d = c THEN NoRow ELSE sockets[d]
                         /\ saves'[d] = IF d = c /\ sockets[d] # NoRow THEN saves[d] + 1 ELSE saves[d]
  BY <1>3, <1>5 DEF Conn, Closed, Saved
<1> HIDE DEF c
<1>8. /\ tsConns' \in [Id -> 0..Len(sockets)]
      /\ \A i \in Id : tsConns'[i] = IF i = id THEN None ELSE tsConns[i]
  BY <1>2, <1>3, <1>5 DEF None
<1>9. SocketsOK' BY <1>6, <1>8 DEF SocketsOK
<1>10. NoGhostViewer'
  <2>1. ASSUME NEW d \in Conn, sockets'[d] # NoRow PROVE \E i \in Id : tsConns'[i] = d
    <3>1. d # c /\ sockets[d] # NoRow BY <1>7, <2>1
    <3>2. PICK i \in Id : tsConns[i] = d BY <3>1 DEF IInv, NoGhostViewer
    <3>3. i # id BY <3>1, <3>2 DEF c
    <3> QED BY <1>8, <3>2, <3>3
  <2>2. ASSUME NEW i \in Id, NEW j \in Id, tsConns'[i] = tsConns'[j], tsConns'[i] # None PROVE i = j
    BY <1>8, <2>2 DEF IInv, NoGhostViewer
  <2> QED BY <1>7, <2>1, <2>2 DEF NoGhostViewer
<1>11. SavedOnce' BY <1>7 DEF IInv, SavedOnce
<1>12. RowsMatch'
  <2>1. \A d \in Conn : Matches(sockets[d])' BY <1>3, <1>4, <1>7 DEF RowsMatch, Matches
  <2>2. \A p \in Player, ch \in Channel : Matches(polls[p][ch])' BY <1>3, <1>4 DEF RowsMatch, Matches
  <2> QED BY <1>3, <1>7, <2>1, <2>2 DEF RowsMatch
<1> QED BY <1>1, <1>3, <1>4, <1>9, <1>10, <1>11, <1>12 DEF IInv, ServerOK, PollsOK, PhasesOK

LEMMA SnapshotStep ==
    ASSUME IInv, Snapshot
    PROVE  IInv'
<1>1. PICK ch \in Channel : states' = [states EXCEPT ![ch] = Forgiven(states[ch])] BY DEF Snapshot
<1>2. PhasesOK BY DEF IInv, ServerOK
<1>3. states[ch] \in States /\ Counted(states[ch]) BY <1>2 DEF PhasesOK
<1>4. Forgiven(states[ch]) \in States /\ Counted(Forgiven(states[ch])) BY <1>3, Phases
<1>5. UNCHANGED <<sidecarVars, tsConns, sockets, polls, lastChannel, channels, saves>> BY DEF Snapshot
<1>6. PhasesOK' BY <1>1, <1>2, <1>4, <1>5, OnePhase DEF PhasesOK
<1> QED BY <1>5, <1>6 DEF IInv, ServerOK, SidecarOK, SocketsOK, PollsOK, NoGhostViewer, SavedOnce,
                          RowsMatch, Matches, Conn, sidecarVars


-----------------------------------------------------------------------------
(* The timer. *)

(* A tick ages a row or takes it off the list; it never moves one. *)
LEMMA RowAges ==
    ASSUME NEW ttl \in Nat, NEW row \in Rows(ttl) \cup {NoRow}
    PROVE  /\ TickRow(row, ttl) \in Rows(ttl) \cup {NoRow}
           /\ TickRow(row, ttl) # NoRow => /\ row # NoRow /\ TickRow(row, ttl).chan = row.chan
                                           /\ TickRow(row, ttl).marked = TickMark(row)
<1>1. CASE row = NoRow \/ Older(row.quiet, ttl) > ttl BY <1>1 DEF TickRow
<1>2. CASE ~(row = NoRow \/ Older(row.quiet, ttl) > ttl)
  <2>1. row \in Rows(ttl) BY <1>2
  <2>2. row.quiet + 1 \in 0..ttl BY <1>2, <2>1 DEF Rows, Older
  <2>3. TickMark(row) \in BOOLEAN BY <2>1 DEF TickMark, Rows
  <2>4. TickRow(row, ttl) = [chan |-> row.chan, quiet |-> row.quiet + 1, marked |-> TickMark(row)]
    BY <1>2 DEF TickRow
  <2> QED BY <1>2, <2>1, <2>2, <2>3, <2>4 DEF Rows
<1> QED BY <1>1, <1>2

LEMMA TickPhases ==
    ASSUME PhasesOK, Tick
    PROVE  PhasesOK'
<1>1. ASSUME NEW ch \in Channel
      PROVE  /\ Aged(ch) \in States /\ Counted(Aged(ch))
             /\ TickChannel(ch) \in {"unknown", "steady", "buffering"}
  <2>1. /\ states[ch].ever \in BOOLEAN /\ states[ch].failures \in 0..MaxRetries
        /\ states[ch].failedFor \in -1..(Cooldown + 1)
        /\ states[ch].failedFor = -1 <=> states[ch].failures < MaxRetries
    BY DEF PhasesOK, States, Counted
  <2>2. Aged(ch) = [ever |-> states[ch].ever, failures |-> states[ch].failures,
                    failedFor |-> Older(states[ch].failedFor, Cooldown)]
    BY DEF Aged, PhasesOK, States
  <2>3. /\ Older(states[ch].failedFor, Cooldown) \in -1..(Cooldown + 1)
        /\ Older(states[ch].failedFor, Cooldown) = -1 <=> states[ch].failedFor = -1
    BY <2>1, TelemetryAssumption DEF Older
  <2>4. Aged(ch) \in States /\ Counted(Aged(ch)) BY <2>1, <2>2, <2>3 DEF States, Counted
  <2> QED BY <2>4 DEF TickChannel
<1>2. channels' \in [Channel -> {"unknown", "steady", "buffering"}] BY <1>1 DEF Tick
<1>3. \A ch \in Channel : Forgiven(Aged(ch)) \in States /\ Counted(Forgiven(Aged(ch)))
  BY <1>1, Phases
<1>4. states' = [ch \in Channel |-> IF Looked(ch) /\ Cooled(Aged(ch)) THEN Forgiven(Aged(ch)) ELSE Aged(ch)]
  BY DEF Tick
<1>5. states' \in [Channel -> States] /\ \A ch \in Channel : Counted(states'[ch])
  BY <1>1, <1>3, <1>4
<1> QED BY <1>2, <1>5 DEF PhasesOK

(* The interval of a channel opens and ends on every row bound to it. *)
LEMMA MarkFollows ==
    ASSUME Tick, NEW row, row # NoRow, row.chan \in Channel, Matches(row), Bound(row.chan)
    PROVE  channels'[row.chan] # "unknown" /\ (TickMark(row) => channels'[row.chan] = "buffering")
<1>1. channels'[row.chan] = TickChannel(row.chan) BY DEF Tick
<1>2. TickChannel(row.chan) # "unknown" BY DEF TickChannel, Looked, Matches
<1>3. TickMark(row) => TickChannel(row.chan) = "buffering" BY DEF TickMark, Matches
<1> QED BY <1>1, <1>2, <1>3

LEMMA TickStep ==
    ASSUME IInv, Tick
    PROVE  IInv'
<1>1. PollsOK /\ PhasesOK /\ SocketsOK /\ RowsMatch /\ SocketIdle \in Nat /\ PollTtl \in Nat
  BY TelemetryAssumption DEF IInv, ServerOK
<1>2. /\ sockets' = [c \in Conn |-> TickSocket(sockets[c])]
      /\ polls' = [p \in Player |-> [ch \in Channel |-> TickRow(polls[p][ch], PollTtl)]]
      /\ saves' = [c \in Conn |-> IF sockets[c] # NoRow /\ sockets'[c] = NoRow
                                  THEN saves[c] + 1 ELSE saves[c]]
      /\ UNCHANGED <<sidecarVars, tsConns, lastChannel>>
  BY DEF Tick
<1>3. /\ Conn = 1..Len(sockets) /\ Len(sockets) \in Nat
      /\ \A c \in Conn : sockets[c] \in Rows(SocketIdle) \cup {NoRow} /\ saves[c] \in Nat
  BY <1>1, Conns
<1>4. \A c \in Conn :
        /\ TickSocket(sockets[c]) \in Rows(SocketIdle) \cup {NoRow}
        /\ TickSocket(sockets[c]) # NoRow =>
             /\ sockets[c] # NoRow /\ TickSocket(sockets[c]).chan = sockets[c].chan
             /\ TickSocket(sockets[c]).marked = TickMark(sockets[c])
  BY <1>1, <1>3, RowAges DEF TickSocket
<1>5. /\ sockets' \in Seq(Rows(SocketIdle) \cup {NoRow}) /\ Len(sockets') = Len(sockets)
      /\ saves' \in Seq(Nat) /\ Len(saves') = Len(sockets)
  <2>1. sockets' \in [1..Len(sockets) -> Rows(SocketIdle) \cup {NoRow}] BY <1>2, <1>3, <1>4
  <2>2. saves' \in [1..Len(sockets) -> Nat] BY <1>2, <1>3
  <2> QED BY <1>3, <2>1, <2>2, SeqOfFunction
<1>6. Conn' = Conn BY <1>2 DEF Conn
<1>7. SocketsOK' BY <1>1, <1>2, <1>5 DEF SocketsOK
<1>8. \A p \in Player, ch \in Channel :
        /\ polls'[p][ch] = TickRow(polls[p][ch], PollTtl)
        /\ polls'[p][ch] \in Rows(PollTtl) \cup {NoRow}
        /\ polls'[p][ch] # NoRow => /\ polls[p][ch] # NoRow /\ polls'[p][ch].chan = polls[p][ch].chan
                                    /\ polls'[p][ch].marked = TickMark(polls[p][ch])
  <2> SUFFICES ASSUME NEW p \in Player, NEW ch \in Channel
               PROVE  /\ polls'[p][ch] = TickRow(polls[p][ch], PollTtl)
                      /\ polls'[p][ch] \in Rows(PollTtl) \cup {NoRow}
                      /\ polls'[p][ch] # NoRow =>
                           /\ polls[p][ch] # NoRow /\ polls'[p][ch].chan = polls[p][ch].chan
                           /\ polls'[p][ch].marked = TickMark(polls[p][ch])
    OBVIOUS
  <2>1. polls[p][ch] \in Rows(PollTtl) \cup {NoRow} BY <1>1 DEF PollsOK
  <2>2. polls'[p][ch] = TickRow(polls[p][ch], PollTtl) BY <1>2
  <2> QED BY <1>1, <2>1, <2>2, RowAges
<1>9. PollsOK'
  <2>1. polls' \in [Player -> [Channel -> Rows(PollTtl) \cup {NoRow}]]
    <3>1. \A p \in Player : \A ch \in Channel : TickRow(polls[p][ch], PollTtl) \in Rows(PollTtl) \cup {NoRow}
      BY <1>8
    <3> QED BY <1>2, <3>1
  <2> QED BY <1>1, <1>2, <1>8, <2>1 DEF PollsOK
<1>10. NoGhostViewer'
  <2>1. \A c \in Conn : sockets'[c] # NoRow => sockets[c] # NoRow BY <1>2, <1>4
  <2> QED BY <1>2, <1>6, <2>1 DEF IInv, NoGhostViewer
<1>11. SavedOnce'
  <2> SUFFICES ASSUME NEW c \in Conn PROVE saves'[c] = IF sockets'[c] = NoRow THEN 1 ELSE 0
    BY <1>6 DEF SavedOnce
  <2>1. saves[c] = IF sockets[c] = NoRow THEN 1 ELSE 0 BY DEF IInv, SavedOnce
  <2>2. sockets'[c] # NoRow => sockets[c] # NoRow BY <1>2, <1>4
  <2> QED BY <1>2, <2>1, <2>2
<1>12. RowsMatch'
  <2>1. ASSUME NEW c \in Conn PROVE Matches(sockets[c])'
    <3> SUFFICES ASSUME sockets'[c] # NoRow
                 PROVE  /\ channels'[sockets'[c].chan] # "unknown"
                        /\ sockets'[c].marked => channels'[sockets'[c].chan] = "buffering"
      BY DEF Matches
    <3>1. /\ sockets[c] # NoRow /\ sockets'[c].chan = sockets[c].chan
          /\ sockets'[c].marked = TickMark(sockets[c])
      BY <1>2, <1>4
    <3>2. Matches(sockets[c]) /\ sockets[c].chan \in Channel BY <1>1, <1>3, <3>1 DEF RowsMatch, Rows
    <3>3. Bound(sockets[c].chan) BY <3>1 DEF Bound
    <3> QED BY <3>1, <3>2, <3>3, MarkFollows
  <2>2. ASSUME NEW p \in Player, NEW ch \in Channel PROVE Matches(polls[p][ch])'
    <3> SUFFICES ASSUME polls'[p][ch] # NoRow
                 PROVE  /\ channels'[polls'[p][ch].chan] # "unknown"
                        /\ polls'[p][ch].marked => channels'[polls'[p][ch].chan] = "buffering"
      BY DEF Matches
    <3>1. /\ polls[p][ch] # NoRow /\ polls'[p][ch].chan = polls[p][ch].chan
          /\ polls'[p][ch].marked = TickMark(polls[p][ch])
      BY <1>8
    <3>2. Matches(polls[p][ch]) /\ polls[p][ch].chan = ch BY <1>1, <3>1 DEF RowsMatch, PollsOK
    <3>3. Bound(polls[p][ch].chan) BY <3>1, <3>2 DEF Bound
    <3> QED BY <3>1, <3>2, <3>3, MarkFollows
  <2> QED BY <1>6, <2>1, <2>2 DEF RowsMatch
<1>13. PhasesOK' BY <1>1, TickPhases
<1>14. SidecarOK' BY <1>2 DEF IInv, SidecarOK, sidecarVars
<1> QED BY <1>7, <1>9, <1>10, <1>11, <1>12, <1>13, <1>14 DEF IInv, ServerOK

-----------------------------------------------------------------------------
LEMMA Initial == Init => IInv
<1> SUFFICES ASSUME Init PROVE IInv OBVIOUS
<1>1. SidecarOK
  <2>1. streams \in [Stream -> [id: Id, chan: Channel] \cup {Off}] BY DEF Init
  <2>2. opens \in 0..MaxOpens /\ nextId \in 0..opens
    <3>1. opens = 0 /\ nextId = 0 BY DEF Init, None
    <3> QED BY <3>1, TelemetryAssumption
  <2>5. up \in BOOLEAN /\ applying \in BOOLEAN BY DEF Init
  <2>3. queue = <<>> /\ wire = <<>> BY DEF Init
  <2>4. <<>> \in Seq(Events) /\ Len(<<>>) = 0 BY EmptySeq
  <2> QED BY <2>1, <2>2, <2>3, <2>4, <2>5, TelemetryAssumption DEF SidecarOK
<1>2. SocketsOK
  <2>1. sockets = <<>> /\ saves = <<>> /\ tsConns = [i \in Id |-> 0] BY DEF Init, None
  <2> QED BY <2>1, EmptySeq DEF SocketsOK
<1>3. Conn = {}
  <2>1. sockets = <<>> BY DEF Init
  <2> QED BY <2>1 DEF Conn
<1>4. PollsOK BY DEF Init, PollsOK
<1>5. PhasesOK BY TelemetryAssumption DEF Init, PhasesOK, States, Counted, Untried
<1>6. NoGhostViewer /\ SavedOnce BY <1>3 DEF Init, NoGhostViewer, SavedOnce
<1>7. RowsMatch BY <1>3 DEF Init, RowsMatch, Matches
<1> QED BY <1>1, <1>2, <1>4, <1>5, <1>6, <1>7 DEF IInv, ServerOK

LEMMA Inductive == IInv /\ [Next]_vars => IInv'
<1> SUFFICES ASSUME IInv, [Next]_vars PROVE IInv' OBVIOUS
<1>1. CASE Sidecar
  <2>1. SidecarOK' /\ UNCHANGED serverVars BY <1>1, SidecarStep DEF IInv
  <2> QED BY <2>1 DEF IInv, ServerOK, SocketsOK, PollsOK, PhasesOK, NoGhostViewer, SavedOnce,
                      RowsMatch, Matches, Conn, serverVars
<1>2. CASE Apply
  BY <1>2, ViewerStep, BytesStep, UpstreamStep, OpenStep, SocketBytesStep, CloseStep DEF Apply
<1>3. CASE Snapshot BY <1>3, SnapshotStep
<1>4. CASE Tick BY <1>4, TickStep
<1>5. CASE UNCHANGED vars
  BY <1>5 DEF IInv, SidecarOK, ServerOK, SocketsOK, PollsOK, PhasesOK, NoGhostViewer, SavedOnce,
              RowsMatch, Matches, Conn, vars, sidecarVars, serverVars
<1> QED BY <1>1, <1>2, <1>3, <1>4, <1>5 DEF Next

(* The inductive invariant holds in every state of every behaviour. *)
THEOREM Invariance == Spec => []IInv
BY Initial, Inductive, PTL DEF Spec

(* The queue and a batch stay within their sizes, no row outlives its time  *)
(* limit, and a channel counts as failed exactly while a failure is timed.  *)
THEOREM TypeCorrect == Spec => []TypeOK
<1>1. IInv => TypeOK
  <2> SUFFICES ASSUME IInv PROVE TypeOK OBVIOUS
  <2>1. /\ SidecarOK /\ SocketsOK /\ PollsOK /\ PhasesOK BY DEF IInv, ServerOK
  <2>2. /\ up \in BOOLEAN /\ nextId \in 0..MaxOpens /\ opens \in 0..MaxOpens
        /\ Len(queue) <= QueueCap /\ Len(wire) <= MaxBatch /\ applying \in BOOLEAN
    BY <2>1, TelemetryAssumption DEF SidecarOK
  <2>3. streams \in [Stream -> [id: Id \cup {None}, chan: Channel \cup {NoChannel}]]
    BY <2>1 DEF SidecarOK, Off
  <2>4. /\ \A c \in Conn : RowOK(sockets[c], SocketIdle) /\ saves[c] \in Nat
        /\ DOMAIN saves = Conn
    <3>1. DOMAIN saves = 1..Len(saves) BY <2>1, LenProperties DEF SocketsOK
    <3> QED BY <2>1, <3>1, Conns DEF RowOK, Rows, SocketsOK
  <2>5. /\ tsConns \in [Id -> Nat]
    BY <2>1, Conns DEF SocketsOK
  <2>6. /\ \A p \in Player : \A ch \in Channel : RowOK(polls[p][ch], PollTtl)
        /\ lastChannel \in [Player -> Channel \cup {NoChannel}]
    BY <2>1 DEF PollsOK, RowOK, Rows
  <2>7. /\ channels \in [Channel -> {"unknown", "steady", "buffering"}]
        /\ states \in [Channel -> States]
        /\ \A ch \in Channel : states[ch].failedFor = -1 <=> states[ch].failures < MaxRetries
    BY <2>1 DEF PhasesOK, Counted
  <2> QED BY <2>2, <2>3, <2>4, <2>5, <2>6, <2>7 DEF TypeOK, States
<1> QED BY <1>1, Invariance, PTL

(* However batches are lost, stream ids are reused by a restarted sidecar or   *)
(* a viewer is swept before its close: every counted raw-TS viewer is named    *)
(* by one stream id, and no two ids name the same viewer.                      *)
THEOREM NoGhost == Spec => []NoGhostViewer
<1>1. IInv => NoGhostViewer BY DEF IInv
<1> QED BY <1>1, Invariance, PTL

(* Sweep, close and reuse never write one session to the history twice, and    *)
(* no viewer leaves the list without being written.                            *)
THEOREM Once == Spec => []SavedOnce
<1>1. IInv => SavedOnce BY DEF IInv
<1> QED BY <1>1, Invariance, PTL

(* No viewer keeps an open buffering interval once its channel's has ended.    *)
THEOREM Intervals == Spec => []IntervalsMatch
<1>1. IInv => IntervalsMatch
  BY DEF IInv, RowsMatch, Matches, IntervalsMatch
<1> QED BY <1>1, Invariance, PTL

=============================================================================
