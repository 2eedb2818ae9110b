------------------------------- MODULE Guides --------------------------------
(* The guide of one EPG source: what is stored of it, and who replaces it.    *)
(*                                                                            *)
(* A guide is rows of three collections: the source (epgsources), its         *)
(* channels (epgchannels, whose _id is the channel, so never two rows of one) *)
(* and its programmes (programs, where nothing is unique).  A sync fetches a  *)
(* snapshot of the upstream's guide and replaces the rows one collection at a *)
(* time; nothing keeps another sync or a deletion from running in between.    *)
(* epg/syncEpgSource.ts, epg/xmltvIngest.ts, epg/fastSelfEpg.ts,              *)
(* epg/<provider>.ts, sources/epgCrosswalk.ts, routes/epgSources.ts.          *)
(* A request is the statements it has left; a step is one of them.            *)
EXTENDS Naturals, Sequences, FiniteSets

CONSTANTS Channel, Version,     \* channels; the snapshots of the upstream a sync may bring back
          Lineup,               \* the channels of each: those of a part that failed are not in it
          NoRow, NoVersion,
          MaxRequests, MaxAtOnce, MaxFaults

ASSUME GuidesAssumption ==
    /\ Lineup \in [Version -> SUBSET Channel] /\ NoVersion \notin Version
    /\ IsFiniteSet(Channel)
    /\ MaxRequests \in Nat /\ MaxAtOnce \in Nat /\ MaxFaults \in Nat

Request == 1..MaxRequests
(* How a kind of source is replaced: a Gracenote grid, an EPG-PW region, an   *)
(* XMLTV url, an uploaded XMLTV file, the guide of a provider's own catalog.  *)
Kind == {"grid", "region", "url", "file", "self"}
Programme == [channel : Channel, version : Version, by : Request]
Row == [status : {"good", "error"}, channels : 0..Cardinality(Channel), programs : 0..Cardinality(Channel)]
ASSUME RowAssumption == NoRow \notin Row

VARIABLES kind, row,     \* EpgSource
          channels,      \* EpgChannel: the snapshot a channel's row is of
          programs,      \* Program
          links,         \* the epg and epgState of the playlist channels
          tasks, begun, faults,
          solo,          \* history: the requests no other writer has run beside
          mess           \* history: a writer was disturbed, and no sync ran alone since
vars == <<kind, row, channels, programs, links, tasks, begun, faults, solo, mess>>
stored == <<row, channels, programs>>
history == <<solo, mess>>

(* chosen: the channels a request has in hand, see each request.              *)
Task == [todo : Seq(STRING), version : Version \cup {NoVersion}, chosen : SUBSET Channel,
         wrote : 0..Cardinality(Channel), marks : BOOLEAN]
Done == [todo |-> <<>>, version |-> NoVersion, chosen |-> {}, wrote |-> 0, marks |-> FALSE]
Running == {r \in Request : tasks[r].todo # <<>>}
Statement(r, s) == tasks[r].todo # <<>> /\ Head(tasks[r].todo) = s
Stored == {c \in Channel : channels[c] # NoVersion}
Linked == {c \in Channel : links[c] = "here"}
-----------------------------------------------------------------------------
(* Mutation: the old guide goes before the new one is in hand.                *)
ReplaceDropsFirst(k) ==
    CASE k \in {"grid", "self"} -> <<"dropChannels", "fetch", "addChannels", "dropPrograms", "addPrograms">>
      [] k = "region" -> <<"fetch", "dropChannels", "addChannels", "fetchEach", "dropPrograms", "addPrograms">>
      [] k = "url"    -> <<"fetch", "dropPrograms", "dropChannels", "batch", "addPrograms", "addChannels">>
      [] k = "file"   -> <<"fetch", "dropChannels", "addChannels", "dropPrograms", "batch", "addPrograms">>
(* What each kind of sync does, in order.                                     *)
Replace(k) ==
    CASE k \in {"grid", "self"} -> <<"fetch", "dropChannels", "addChannels", "dropPrograms", "addPrograms">>
      [] k = "region" -> <<"fetch", "dropChannels", "addChannels", "fetchEach", "dropPrograms", "addPrograms">>
      [] k = "url"    -> <<"fetch", "dropPrograms", "dropChannels", "batch", "addPrograms", "addChannels">>
      [] k = "file"   -> <<"fetch", "dropChannels", "addChannels", "dropPrograms", "batch", "addPrograms">>

Set(r, f) == tasks' = [tasks EXCEPT ![r] = f]
Next1(r) == [tasks[r] EXCEPT !.todo = Tail(tasks[r].todo)]
(* A request that throws: syncEpgSource marks the source, the others do not.  *)
Throws(r) == IF tasks[r].marks THEN [Done EXCEPT !.todo = <<"blame">>, !.marks = TRUE] ELSE Done

Begin(todo, marks) ==
    /\ begun < MaxRequests /\ Cardinality(Running) < MaxAtOnce
    /\ begun' = begun + 1
    /\ Set(begun + 1, [Done EXCEPT !.todo = todo, !.marks = marks])
    /\ solo' = (IF Running = {} THEN {begun'} ELSE {}) /\ mess' = (mess \/ Running # {})
    /\ UNCHANGED <<kind, stored, links, faults>>

(* POST /api/epg-sources: fetch and write first, then the row.                *)
Create == kind # "self" /\ Begin(Replace(kind) \o <<"upsert">>, FALSE)
(* POST /:id/sync and the scheduled job: the row must be there.               *)
Sync == kind # "file" /\ row # NoRow /\ Begin(Replace(kind) \o <<"credit">>, TRUE)
(* POST /:id/upload.                                                          *)
Upload == kind = "file" /\ row # NoRow /\ Begin(Replace(kind) \o <<"credit">>, FALSE)
(* The afterSync hook of a provider's playlist.                               *)
PlaylistSync == kind = "self" /\ Begin(Replace(kind) \o <<"upsert", "link">>, FALSE)
(* DELETE /:id: cascadeDeleteEpgSource.                                       *)
Delete == row # NoRow /\ Begin(<<"unlink", "dropPrograms", "dropChannels", "dropRow">>, FALSE)
(* A provider's committed mapping onto this guide: epgCrosswalk.ts.           *)
Crosswalk == kind = "grid" /\ Begin(<<"present", "link">>, FALSE)
(* PUT /api/playlists/:id/channels/:channelId: the operator's own choice.     *)
Edit(c, l) ==
    /\ l # links[c] /\ (l = "here" => c \in Stored)
    /\ links' = [links EXCEPT ![c] = l]
    /\ begun < MaxRequests /\ begun' = begun + 1
    /\ solo' = {} /\ mess' = (mess \/ Running # {})
    /\ UNCHANGED <<kind, stored, tasks, faults>>
-----------------------------------------------------------------------------
(* The statements.                                                            *)
Quietly == UNCHANGED <<kind, links, begun, faults, history>>

(* A document is fetched whole.  A grid is asked for window by window and the *)
(* guide of a catalog often channel by channel: what fails is skipped, and    *)
(* only a grid without any window, or no catalog, fails the sync.             *)
Fetched(v) == IF kind \in {"grid", "self"} THEN SUBSET Lineup[v] ELSE {Lineup[v]}

(* Every fetch ends before the rows are touched, except where noted.          *)
Fetch(r) ==
    /\ Statement(r, "fetch")
    /\ \/ \E v \in Version : \E aired \in Fetched(v) :
            Set(r, [Next1(r) EXCEPT !.version = v, !.chosen = aired])
       \/ Set(r, Throws(r))
    /\ UNCHANGED stored /\ Quietly

(* EPG-PW: a guide a channel; those that fail are skipped.                    *)
FetchEach(r) ==
    /\ Statement(r, "fetchEach")
    /\ \E some \in SUBSET Lineup[tasks[r].version] : Set(r, [Next1(r) EXCEPT !.chosen = some])
    /\ UNCHANGED stored /\ Quietly

DropChannels(r) ==
    /\ Statement(r, "dropChannels")
    /\ channels' = [c \in Channel |-> NoVersion]
    /\ Set(r, Next1(r)) /\ UNCHANGED <<row, programs>> /\ Quietly

DropPrograms(r) ==
    /\ Statement(r, "dropPrograms")
    /\ programs' = {}
    /\ Set(r, Next1(r)) /\ UNCHANGED <<row, channels>> /\ Quietly

(* Unordered: the rows that are free go in, then a duplicate _id throws.      *)
AddChannels(r) ==
    /\ Statement(r, "addChannels")
    /\ LET mine == Lineup[tasks[r].version] IN
       /\ channels' = [c \in Channel |-> IF c \in mine \ Stored THEN tasks[r].version ELSE channels[c]]
       /\ Set(r, IF mine \cap Stored = {} THEN Next1(r) ELSE Throws(r))
    /\ UNCHANGED <<row, programs>> /\ Quietly

Airings(r, cs) == [channel : cs, version : {tasks[r].version}, by : {r}]
Wrote(r, cs) ==
    [tasks[r] EXCEPT !.chosen = tasks[r].chosen \ cs, !.wrote = tasks[r].wrote + Cardinality(cs)]
AddPrograms(r) ==
    /\ Statement(r, "addPrograms")
    /\ programs' = programs \cup Airings(r, tasks[r].chosen)
    /\ Set(r, [Wrote(r, tasks[r].chosen) EXCEPT !.todo = Tail(tasks[r].todo)])
    /\ UNCHANGED <<row, channels>> /\ Quietly

(* A batch ahead of the last one; the url's stream may break after it, with   *)
(* the old rows gone and part of the new ones in.                             *)
Batch(r) ==
    /\ Statement(r, "batch")
    /\ \E some \in SUBSET tasks[r].chosen :
         /\ programs' = programs \cup Airings(r, some)
         /\ \/ Set(r, [Wrote(r, some) EXCEPT !.todo = Tail(tasks[r].todo)]) /\ UNCHANGED mess
            \/ kind = "url" /\ Set(r, Throws(r)) /\ mess' = (mess \/ ~tasks[r].marks)
    /\ UNCHANGED <<row, channels, kind, links, begun, faults, solo>>

Good(r) == [status |-> "good", channels |-> Cardinality(Lineup[tasks[r].version]), programs |-> tasks[r].wrote]
Upsert(r) ==
    /\ Statement(r, "upsert")
    /\ row' = Good(r) /\ mess' = (r \notin solo) /\ Set(r, Next1(r))
    /\ UNCHANGED <<kind, channels, programs, links, begun, faults, solo>>

(* Neither brings back a row that was deleted meanwhile.                      *)
Credit(r) ==
    /\ Statement(r, "credit")
    /\ row' = (IF row = NoRow THEN NoRow ELSE Good(r)) /\ mess' = (r \notin solo) /\ Set(r, Done)
    /\ UNCHANGED <<kind, channels, programs, links, begun, faults, solo>>

(* Mutation: a failed sync upserts its mark.                                  *)
BlameUpserts(r) ==
    /\ Statement(r, "blame")
    /\ row' = (IF row = NoRow THEN [status |-> "error"] ELSE [row EXCEPT !.status = "error"])
    /\ Set(r, Done) /\ UNCHANGED <<channels, programs>> /\ Quietly
Blame(r) ==
    /\ Statement(r, "blame")
    /\ row' = (IF row = NoRow THEN NoRow ELSE [row EXCEPT !.status = "error"])
    /\ Set(r, Done) /\ UNCHANGED <<channels, programs>> /\ Quietly

DropRow(r) ==
    /\ Statement(r, "dropRow")
    /\ row' = NoRow /\ mess' = (r \notin solo) /\ Set(r, Done)
    /\ UNCHANGED <<kind, channels, programs, links, begun, faults, solo>>

(* linkFastSelfEpg and applyEpgCrosswalk fill the channels nobody has touched.*)
(* Mutation: whatever has no guide now is filled.                             *)
LinkUnlinked(r) ==
    /\ Statement(r, "link")
    /\ LET cs == IF kind = "self" THEN Lineup[tasks[r].version] ELSE tasks[r].chosen IN
       links' = [c \in Channel |-> IF c \in cs /\ links[c] \in {"untouched", "unmatched"} THEN "here" ELSE links[c]]
    /\ Set(r, Done)
    /\ UNCHANGED <<kind, stored, begun, faults, history>>
Link(r) ==
    /\ Statement(r, "link")
    /\ LET cs == IF kind = "self" THEN Lineup[tasks[r].version] ELSE tasks[r].chosen IN
       links' = [c \in Channel |-> IF c \in cs /\ links[c] = "untouched" THEN "here" ELSE links[c]]
    /\ Set(r, Done)
    /\ UNCHANGED <<kind, stored, begun, faults, history>>

(* The crosswalk keeps the channels whose guide row it finds.                 *)
Present(r) ==
    /\ Statement(r, "present")
    /\ Set(r, [Next1(r) EXCEPT !.chosen = Stored])
    /\ UNCHANGED stored /\ Quietly

Unlink(r) ==
    /\ Statement(r, "unlink")
    /\ links' = [c \in Channel |-> IF links[c] = "here" THEN "unmatched" ELSE links[c]]
    /\ Set(r, Next1(r))
    /\ UNCHANGED <<kind, stored, begun, faults, history>>

(* MongoDB fails a statement: an insert may have put some rows in.            *)
Fault(r) ==
    /\ faults < MaxFaults /\ faults' = faults + 1
    /\ r \in Running /\ ~Statement(r, "fetch") /\ ~Statement(r, "fetchEach")
    /\ IF Statement(r, "addPrograms") \/ Statement(r, "batch")
       THEN \E some \in SUBSET tasks[r].chosen : programs' = programs \cup Airings(r, some)
       ELSE UNCHANGED programs
    /\ Set(r, IF Statement(r, "blame") \/ Statement(r, "credit") THEN Done ELSE Throws(r))
    /\ mess' = TRUE
    /\ UNCHANGED <<kind, row, channels, links, begun, solo>>

(* The process ends and comes back: what was running is forgotten.            *)
Restart ==
    /\ faults < MaxFaults /\ faults' = faults + 1
    /\ Running # {}
    /\ tasks' = [r \in Request |-> Done]
    /\ mess' = TRUE
    /\ UNCHANGED <<kind, stored, links, begun, solo>>

Init ==
    /\ kind \in Kind /\ row = NoRow /\ channels = [c \in Channel |-> NoVersion] /\ programs = {}
    /\ links = [c \in Channel |-> "untouched"]
    /\ tasks = [r \in Request |-> Done] /\ begun = 0 /\ faults = 0
    /\ solo = {} /\ mess = FALSE

Step(r) == \/ Fetch(r) \/ FetchEach(r) \/ DropChannels(r) \/ DropPrograms(r)
           \/ AddChannels(r) \/ AddPrograms(r) \/ Batch(r)
           \/ Upsert(r) \/ Credit(r) \/ Blame(r) \/ DropRow(r)
           \/ Link(r) \/ Present(r) \/ Unlink(r)
Next == \/ Create \/ Sync \/ Upload \/ PlaylistSync \/ Delete \/ Crosswalk
        \/ \E c \in Channel, l \in {"untouched", "here", "elsewhere", "unmatched"} : Edit(c, l)
        \/ \E r \in Request : Step(r) \/ Fault(r)
        \/ Restart
Spec == Init /\ [][Next]_vars
-----------------------------------------------------------------------------
(* Every variable is of its type: no mark is ever put on a row that is gone.  *)
TypeOK ==
    /\ kind \in Kind /\ row \in Row \cup {NoRow}
    /\ channels \in [Channel -> Version \cup {NoVersion}] /\ programs \subseteq Programme
    /\ links \in [Channel -> {"untouched", "here", "elsewhere", "unmatched"}]
    /\ \A r \in Request : LET t == tasks[r] IN
         /\ t.version \in Version \cup {NoVersion} /\ t.chosen \subseteq Channel
         /\ t.wrote \in 0..Cardinality(Channel) /\ t.marks \in BOOLEAN
    /\ begun \in 0..MaxRequests /\ faults \in 0..MaxFaults /\ solo \subseteq Request /\ mess \in BOOLEAN

(* The stored guide is what one sync brought back of one snapshot: all its    *)
(* channels, the programmes of those it got any for, each once and none of    *)
(* another sync; of a document those of all.  The row counts what is there.   *)
IsSnapshot ==
    \E v \in Version, r \in Request, aired \in SUBSET Channel :
      /\ Stored = Lineup[v] /\ \A c \in Stored : channels[c] = v
      /\ aired \subseteq Stored /\ (kind \in {"url", "file"} => aired = Stored)
      /\ programs = [channel : aired, version : {v}, by : {r}]
      /\ row.channels = Cardinality(Stored) /\ row.programs = Cardinality(aired)

(* syncEpgSource.ts, fastSelfEpg.ts: "a transient outage should fail loudly,  *)
(* the existing guide is preserved"; xmltvIngest.ts: a url that broke off     *)
(* leaves part of a guide in a source marked 'error', and "the next good sync *)
(* replaces it cleanly"; routes/epgSources.ts: a failed create leaves "no     *)
(* broken source behind" and a deletion "no orphaned linkage".  A window or a *)
(* channel that failed is skipped, and the source is good.  So: whatever      *)
(* faults, restarts and overlaps did before, once a sync or a deletion has    *)
(* run alone, and until the next disturbance, the source is gone with all its *)
(* rows and links, or holds one snapshot, or is marked.                       *)
GuideWhole ==
    Running = {} /\ ~mess =>
      \/ row = NoRow /\ Stored = {} /\ programs = {} /\ Linked = {}
      \/ row # NoRow /\ (IsSnapshot \/ (kind = "url" /\ row.status = "error"))

(* fastSelfEpg.ts, epgCrosswalk.ts: "a user link/unlink is never overwritten".*)
(* A channel once touched changes by an operator's edit, or is unlinked       *)
(* because its source goes.                                                   *)
ChoicesStick ==
    [][\A c \in Channel : links'[c] # links[c] =>
         links[c] = "untouched" \/ UNCHANGED tasks \/ (links[c] = "here" /\ links'[c] = "unmatched")]_links
=============================================================================
