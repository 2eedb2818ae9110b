# A verification of masqueradarr in TLA+

masqueradarr gathers TV channels from many providers into playlists, guides and
emulated tuners. A Node server (`server/`) owns all durable state in MongoDB; a
Rust sidecar (`proxy/`) carries the streams. The modules here are written from
the code of both. They model the parts where something can go wrong that a unit
test hardly reaches: several tasks on one record, a request spread over several
awaits, events that are dropped, a process that dies between two writes.

Paths below are relative to the repository; `routes/`, `services/`, `sources/`,
`scheduler/`, `backup/`, `m3u/`, `proxy/*.ts`, `epg/` and `stats/` are under
`server/src/`, `*.rs` under `proxy/src/`.

## 1. Inventory

| Component | State | Operations | Talks to | What is hard | What makes it correct |
|---|---|---|---|---|---|
| Failover engine (`state.rs`, `proxy.rs`, `tsmux.rs`) | target cache, policy cache, a cursor per stream | entry request, hop, candidate walk, background refresh, raw-TS recovery | Node's resolve seam | every method takes the lock on its own; seconds pass between the cursor that was read and the record that is written | the cached target is the one the cursor names, under its provider's headers; a pin only on what served, or where a late grant put it back; walks try everyone and do not go round for ever |
| Resolve seam (`proxy/resolveSeam.ts`) | who is serving, per channel | name the candidate of an attempt, resolve it | adapters, catalogue | the order it indexes changes every 5 minutes and with every edit | attempt numbers mean something for as long as they are used |
| Tuner sharing (`tuner_share.rs`) | map of live upstreams, a viewer counter per pump | join, start, pump, attach, detach | HDHomeRun device | the counter is read without the map's lock | one upstream per channel, every viewer counted, idle tuners given back |
| Stream telemetry (`state.rs`, `stream.rs`, `proxy/telemetryIngest.ts`, `sources/core/streamTelemetry.ts`, `streamState.ts`) | lossy queue, stream ids; viewers, channel aggregates, phases | report, flush, apply, tick, sweep | stats hub, view history | events dropped, ids reused after a crash, three ways to end one session | nobody counted or saved twice, everybody ended is let go unless a stream that got its id goes on sending, intervals closed |
| Catalogue and failover groups (`routes/playlists.ts`, `services/failover.ts`, `services/tombstones.ts`, `sources/seed.ts`) | PlaylistChannel, Playlist | group save, reorder, disband, reconcile, link edit with cascade, delete, sync, restore defaults | guide sync, resolve seam | no transactions: a request is a list of statements | groups well formed, children mirror the parent, deleted channels stay deleted |
| Guide sync and compose (`epg/syncEpgSource.ts`, `xmltvIngest.ts`, `fastSelfEpg.ts`, `composeGuide.ts`, `routes/epgSources.ts`) | EpgSource, EpgChannel, Program, links, the guide file | create, sync, upload, delete, self-link, crosswalk, edit, compose | scheduler, catalogue | a replace is deletes and inserts over two collections, an XMLTV url is streamed | the rows are those of one fetch, counted by their source, or the source is marked; an operator's link stays |
| Export files (`m3u/`, `routes/users.ts`, `routes/customPlaylists.ts`) | one file per account and surface, a promise chain per path | lock, temporary file, rename, prune; recompose of an account, a playlist, all | accounts, playlists | fan-outs that read, then write; renames and deletions that must take the old file out | readers see whole files; files follow the documents; one recompose heals |
| Scheduler (`scheduler/index.ts`, `routes/cronjobs.ts`) | documents, timers by id | save, delete, boot, tick, run, reset, restore | every job | the document, the timer and the next run are three steps around awaits; overlapping runs | one timer per enabled job, none for a deleted one; an enabled job goes on running |
| Dulo session (`sources/adapters/dulo/`) | the auth row, its copy in memory, keepalive timer | sign in, sign out, refresh, activate, play, beat | Supabase, dulo | one refresh shared by all callers, saves of the whole record from a copy | a session that can be kept alive has its timer; a sign-out is final |
| Sidecar supervision (`proxy/sidecar.ts`) | child process, restart budget, respawn timer | spawn, exit, respawn, stop, kill | the sidecar | exit racing shutdown, the delayed respawn, a spawn that fails | restarts after every run that ended, except in a crash loop; leaves nothing behind a stop |
| Stream authorisation (`state.rs`, `routes/internal.ts`, `middleware/streamGate.ts`) | the edge's 30 s cache of decisions | authorize | Node | answers that arrive out of order, a full cache, a call that fails | no decision outlives its time; the cache is bounded |
| Accounts, imports, backup (`routes/auth.ts`, `routes/import.ts`, `backup/`) | every collection | login, import, build, restore | MongoDB | one collection after the other | what their writes lead to is in Exports and Jobs |
| Dlhd mirrors (`sources/adapters/dlhd/`) | chosen mirror | probe, reprobe | mirrors | single flight with a cooldown | one probe at a time |
| Channel probe (`probe.rs`, `sources/probeAll.ts`) | running flag | sweep, probe one | sidecar | a second trigger during a sweep | one sweep at a time, the flag always cleared |
| Log shipping (`log.rs`, `logs/`) | lossy queue | ship, flush, ingest | Node | the queue pattern of telemetry | order kept, loss bounded to what does not fit |
| Manifest rewriting, muxing, edge listener, provider adapters and parsers, settings, emulated devices, search, web interface | little or none | conversions and pass-through | | data, not control | left out |

`PROJECT.json` lists the same parts with their files and status, and under
`hazards` the places where each one is exposed.

## 2. Modules

| Module | Models | State | Checked by | Proofs |
|---|---|---|---|---|
| `TargetCache` | `TargetEntry` and what each method of `AppState` does to it under the lock | operators only | through `Failover` | through `FailoverProofs` |
| `Failover` (+ `MCFailover`) | one stream: requests, walks, hops, refreshes, raw-TS sessions, the seam | record, policies, child order, config, attribution, tasks | `failover_polls`, `failover_pair` | `FailoverProofs` |
| `PlayerView` (+ `MCPlayerView`) | what the player of that stream is served, on top of `Failover` | target and mark of the last manifest | `failover_lost_mark` | |
| `TunerPromise` | what tuner sharing promises | channels on a tuner, who receives what | as a property of `TunerShare` | |
| `TunerShare` | join, start, pump, detach | map, connections, players | `tuner_share` | `ProxyProofs`, with the refinement |
| `StreamTelemetry` | reports, batches, viewers, phases, the tick | queue, wire, ids, rows, phases | `telemetry` | `StreamTelemetryProofs` |
| `FailoverGroups` (+ `MCFailoverGroups`) | the channels of a playlist and their groups under requests and syncs | documents, tombstones, what each handler still has to write | `failover_groups` | `FailoverGroupsProofs` |
| `FileRegister` | what lock and atomic overwrite promise: a file is a register | what a reader sees, the pending calls | as a property of `AtomicFile` | |
| `AtomicFile` | `withPathLock`, `atomicWrite`, `pruneFile`, call by call | chains, files, temporary files, the directory | `atomic_file` | `ExportsProofs`, with the refinement |
| `Exports` (+ `MCExports`) | which files the requests on accounts and playlists write and remove, and from what | accounts, playlists, files, what each handler still has to do | `exports` | `ExportsProofs` |
| `Guides` (+ `MCGuides`) | one EPG source of each kind | source row, channels, programmes, links, requests | `guides` | `GuidesProofs` |
| `Jobs` (+ `MCJobs`) | job documents, timers, runs | documents, timers, requests, runs | `jobs` | `JobsProofs` |
| `DuloSession` (+ `MCDuloSession`) | the dulo session | row, copy, mirror, timer, processes, the provider | `dulo_session` | `DuloSessionProofs` |
| `Sidecar` | the child process and the edge's decision cache | process, budget, timers; permissions, cache, calls | `sidecar` | `ProxyProofs` |

`ProxyProofs` and `ExportsProofs` each extend two modules, so what those two share a name for
bears the component's name in one of them (`SidecarNext`, `FilesNext`).

How they meet. `Failover` takes the child order and its changes (`NewBucket`,
`Regroup`) as environment; `FailoverGroups` is where that order is written.
`StreamTelemetry` takes "the upstream failed" and "the session ended" as
environment; `Failover` and `TunerShare` are where they come from, and `Sidecar` is
where the restarts of all three come from. `Exports` performs a file operation as one step:
`AtomicFile` refines exactly that. `Guides` and `FailoverGroups` both hold the
guide link of a channel, each with the other's writers as an edit. `Jobs` starts the work
that `Guides` and `Exports` contain; a run of a job is one of their requests.

### Correspondence, and what a step is

* **Failover.** A task's `pc` is the await it is at: `ask` (the post to Node),
  `reply`, `take` (second taking of the lock), `check` (the walk has a grant in
  hand), `fetch`, `prefetched` (a walk handed its error page to the request that
  started it), `ts` (a raw-TS producer). A step is the code between two awaits or
  between two takings of the `targets` lock. Two places are coarser: expiring the
  target and reading the cursor (`proxy.rs:373-374`) are one step, and so are
  filing the policy and inserting the record after a grant. Time is `Tick`, over two
  countdowns of the record. The grant of a walk and the reading of the `enabled` flag it
  filed (`proxy.rs:724-730`) are two steps, and between them another task's grant may file
  another one. A cold hop goes through `resolve_entry` like an entry request and takes
  the pending mark with it. `won` is history: which attempts served since the cursor
  left the channel itself, and which a grant that came late put it back to; so are
  `visited` and `steady` of a walk, and `off`, that its grant was made with failover off while no
  grant that said otherwise was still under way.
* **TunerShare.** A tuner and the connection that occupies it are one element.
  Dropping the losing connection is part of the `start` that loses; the end of a
  pump and the drop of its viewers' guards are one `Close`. The pump's load of the counter and its
  removal from the map are separate steps, as in the code.
* **StreamTelemetry.** The server's event loop is one thread: an event is one step,
  and neither `Tick` nor `Snapshot` runs inside a batch (`applying`). A viewer id
  is the index into `sockets`, since `nextSocketConnId` only counts up; `saves`
  counts how often the session of each was closed.
* **FailoverGroups, Exports, Guides, Jobs.** A request is the sequence of statements
  its handler has left, with what it computed when it read. Each MongoDB statement
  is one step, although MongoDB may yield between the documents of one `updateMany`;
  what follows a statement up to the next await belongs to its step. `Restart`
  (`Crash`) drops every request under way: `shutdown` exits without waiting for handlers.
  `Fault` is a statement that fails, with what the handler's `catch` then does. `mess`,
  `solo`, `calm`, `unhealed` and `touched` are history: which requests overlapped or
  were cut off, and what has run alone since. A property that speaks of rest says by them
  which disturbance it excuses, and what ends the excuse.
* **AtomicFile.** A call is at one of its system calls; `last` is the promise at the
  end of each path's chain and `after` the promise a call waits for. The calls of a
  directory share it: a prune's `rmdir` may come between another file's `mkdir` and `open`.
* **DuloSession.** The processes are the requests, the beat of the keepalive, the
  shared refresh (`Flight`), the shared activation (`Device`) and the one that loads
  at boot or after an invalidation (`Wake`). A token is its session and its place in the rotation;
  Supabase accepts the newest and, for a while, the one before.
* **Sidecar.** `proc` tells a child that runs from one that was told to end and from
  one whose spawn failed: for the last Node gets `error` and never `exit`. `young`
  and `ago` are history: runs in a row that were short, and how long ago Node would last have said
  yes, or no, about a key.

### Left out on purpose

* Failover: header and body forwarding, HEAD, SSRF host lists, the retries inside
  one fetch (one fetch that ends either way), manifest texts other than the
  discontinuity mark.
* Tuners, telemetry: chunks of the broadcast ring, transfer rates, client-side
  buffering, decode metadata.
* Groups: the other editable fields, clones, group names, deletion of a playlist.
* Guides: parsing, time zones, edits of the source row itself, the composed file: a compose
  writes what is in the rows when it reads them, between two statements of a replace too.
* Exports: what a playlist's text looks like, Custom-url rendering, the single-file paths of
  older versions, login and cookies. A file is told by the playlists it lists, so the
  composes of the clones that lost channels when their built-in playlist is deleted
  (`routes/playlists.ts:504-517`) are left out: they change the text, not the list.
* Jobs: expressions croner refuses, `lastRun`, `lastStatus` and `lastError`, the
  merge mode of a restore, collections of a restore other than the jobs.
* Dulo: device ids, backoff and expiry times, the discovery of a rotated key, pairing and
  the login browser (both end in a sign-in), restore.
* Sidecar: a binary missing at start, the child's environment, the level echoed to
  its logger, the per-request middleware of the topology without an edge.

## 3. Runs

| Run | Bounds | Shows |
|---|---|---|
| `failover_polls` | one request slot, two children of two providers, limits of 1 tick, HLS and raw TS | entry polls, hops, refreshes, raw-TS recoveries, the turn of the shuffle bucket, children that come and go, lost answers, with the operator walking on after definite errors: a failed walk un-pins, walks reach everyone, a request ends or waits for one answer |
| `failover_pair` | two slots, one child of another provider, at most 2 attempts, HLS | two requests at once with hops and refreshes between them, failover switched on and off, lost answers, restarts of the sidecar: cursor, target and headers stay together, every walk that ends in vain un-pins, what is pinned has served or was put back by a late grant, a walk whose grant says off fetches no child |
| `failover_lost_mark` | one slot, one child, two urls | a disagreement of code and text, section 6 |
| `tuner_share` | 2 channels, 3 players, 2 tuners, idle time 2 | cold-start races, a refused tuner, abandoned requests, expiry against join; `TunerPromise` is implemented |
| `telemetry` | one channel, a poll viewer and a raw-TS stream opened twice, queue and batch of 1, limits 1 tick | open, bytes and close through losses and a crash that reuses ids; failure, cooldown and forgiveness against the tick |
| `failover_groups` | 3 channels, 2 groups, two handlers at once, 3 requests, 1 crash | every order of two overlapping requests and of their statements, and a third request on what they left |
| `atomic_file` | 3 calls, 2 files | writes and prunes of two files of one directory, with failing system calls and a restart: the files are registers, and every call ends |
| `exports` | 2 accounts, 1 provider playlist, 1 clone, 3 paths, 3 requests, 2 at once, 1 fault | files follow the documents; whatever overlaps and faults leave, one recompose heals |
| `guides` | 2 channels, 2 snapshots, 5 kinds of source, 3 requests, 2 at once, 1 fault | syncs that fetch all of a guide or part of it, uploads, deletions, crosswalks and edits cut into one another |
| `jobs` | 2 jobs, 2 expressions, 2 requests at once, 1 fault or restart | timers against documents; an enabled job goes on running |
| `dulo_session` | 1 account, 2 requests one after the other, 2 rotations, 1 fault | plays, sign-ins, sign-outs and deletions beside the beat |
| `sidecar` | 2 keys, 2 requests, a cache of 1, 2 restarts | crashes, respawns and shutdown; late, lost and outdated decisions |

Why these bounds suffice. Two of what can be confused are there each time: two
candidates of two providers, two tuners and one player more than
tuners, two handlers of one playlist, two names and tokens of an account, two
snapshots, two calls under one key. Where a run has one, of channels in `telemetry` and of
slots in `failover_polls`, it is for the time a liveness property takes; the invariants of
`telemetry` are proved for every number. What is said of a stream at rest or in one step
is checked with two slots in `failover_pair` and proved for any number (its `VIEW` leaves out the
attribution and the history that none of its properties reads); only
`FailedWalkUnpins`, which speaks of the moment after a walk, needs the stream to have one request
at a time (section 6). `jobs` has one run of a job at a time; its safety theorems
hold for any number. A time limit of one tick already has a before, an at and an after.
The races need two tasks, or one task and the environment. Three requests are
enough for the hazards that need a history (group, change heads, ungroup; disturb,
heal, look), and a third meets whatever two overlapping ones leave behind. `dulo_session` has
its requests one after the other, but each of them beside the beat, the shared refresh, the
shared activation and what they leave running; two requests at once exceed what can be
checked. `MaxRequests`, `MaxAtOnce`, `MaxFaults`, `MaxRuns`, `MaxGrants`, `MaxOpens`,
`MaxAttempts` and `Place` are the caps; queue, batch and cache sizes, `MaxRestarts` and the time limits
are constants of the program. `CallMax` of `Sidecar` is an assumption: the
sidecar's client has no request timeout, a call to Node over loopback takes as long as
Node takes. `CHECK_DEADLOCK FALSE` appears where the budget of requests runs out and where a
shutdown really ends everything (`sidecar`).

Where `TypeOK` says no more than that the variables have their types, as in `TunerShare`,
`StreamTelemetry`, `FailoverGroups`, `Exports` and `DuloSession`, it is proved for every value and
not run.

### Fairness

* `Failover`: weak fairness of what a task does by itself (`OwnStep`): Tokio polls ready
  tasks, and inside a walk both the connect and the wait for the headers of a fetch are
  capped (`FAILOVER_CONNECT_CAP_MS`, `FAILOVER_READ_CAP_MS`). Two waits are not bounded by
  the code and get no fairness: Node's answer to a resolve, for which the client has a connect
  timeout only (`state.rs:318-325`), and a request's first fetch, which with `read_timeout_ms` at
  its default 0 "can stall indefinitely" (`proxy.rs:36-48`). So `OnlyAnswersHoldUp`
  says what is left: a request that never ends waits for one of these for ever, and
  not in a loop, a lock or a candidate of a walk. Reading a body after its headers
  (`proxy.rs:460`), which may stall too, is outside the model: a fetch is over with its headers.
* `TunerShare`: weak fairness of each pump, which is woken at least every second,
  and of time; none of the players or the device.
* `StreamTelemetry`: weak fairness of applying a batch, strong fairness of `Tick`:
  batches disable it again and again, yet Node's timer fires between two of them. There is
  none of the sidecar: it may stop at any point.
* `AtomicFile`: weak fairness of each call's steps; a system call returns.
* `Jobs`: weak fairness of requests, of work (each job's work ends, or fails) and of
  every timer; none of operators, faults or restarts.

## 4. Proofs

TLAPS checks, for every value of the constants that meets their assumptions:

* `FailoverProofs`: types, `CachedTargetIsPinned`, `PolicyOfServingProvider`,
  `IdleMeansStale`. The idle reset clears the cursor and leaves the target. That is
  sound only because `ttl + quiet <= TARGET_TTL` while a target is fresh (both start
  at the fill and every access can only lower `quiet`), so a record idle beyond
  `FAILOVER_CURSOR_IDLE >= TARGET_TTL` is stale. The invariant `IInv` carries this sum,
  and what is known of a grant still in flight.
  Also `PinnedServed`, `WalkExitsUnpin`, `WalkTriesEveryone` and `OffIsAuthoritative`, for every
  group, limit and setting and any number of tasks at once, each from what is known of
  every task beside the others. `TaskInv`: which roles come to which point (`RoleOK`), and that while a walk
  with an off grant is under way the config stays off, no grant that says otherwise is in flight, and the
  policy it will look at says off (`OffOK`). `PinInv`: a cursor off the channel names an attempt that
  served or was put back, or some task still owes it an answer: it is a walk at that attempt,
  which un-pins whichever way it ends in vain (`Owing`). `WalkInv`: the attempts a walk has
  behind it were visited, the one in hand exists, and `tried` counts them, so that
  the cap is not met before everyone was asked (`TriedOK`).
* `ProxyProofs`, of tuner sharing: types, `OneUpstreamPerChannel`, `MapIsPumps`,
  `ViewersCounted`, and `Spec => KeepsPromise`. `IInv` adds `HoldersOK`: a connection
  that is open but not in the map has exactly one holder. `TunerPromise` bounds the
  channels on tuners by an injection into the tuners and not by a cardinality: the map itself
  is the witness.
* `StreamTelemetryProofs`: types, `NoGhostViewer`, `SavedOnce`,
  `IntervalsMatch`, whatever the queue drops. `IInv` adds that every event in the queue
  or on the wire names what its kind needs (`SidecarOK`), and that no stream id
  points beyond the last viewer id given out, so that a new viewer's id is nobody's.
* `ExportsProofs`, of one file: types, which say that no reader finds a file half
  written, and `FilesSpec => IsRegister`, the refinement of `FileRegister`: the calls on a
  file take effect whole and in the order they were made. `InvFiles` says that a
  path's chain ends at its latest open call, that a call waits for the latest one before
  it, and that once a call has started nothing that came before it on its path is open.
* `ExportsProofs`, of all files: types, `FilesFollow` and `RecomposeHeals`. Between the write of a
  document and the last file of its fan-out no file need be right, so the invariant looks ahead: of
  a request that runs alone it says (`Ahead`) either that it has changed nothing yet, holds the
  documents as they are and every file is right, or that what it has left (`Laters`) puts the right
  text into every file that is not right and no wrong text into any (`Heals`). `Lone` says what it
  is to run alone, `MarkLast` that the mark of a whole recompose is the last thing it does. The
  steps rest on two tables, `ShouldBe`, what a file should hold, read off the documents, and
  `DoesRight`, which files each kind of statement writes with what; and on one fact for every reader
  (`Led`): the statements a read leads to write what the reader was to write, and nothing else.
* `FailoverGroupsProofs`: types, `GroupsWellFormed`, `NeverTwoHeads`, `ChildrenMirror`,
  `DeletedStaysGone`. No group is well formed at every moment, so the invariant looks
  ahead: a group that is out of order has a reconcile or a disband left, in some request,
  that puts it in order. The other three are for groups whose requests come one at a time, and there
  the invariant plays what the request still has to write upon what is stored
  (`HeadsOK`, `MirrorsOK`, `GravesOK`): with the rest of the request done there is one parent,
  children are like it, and a deleted channel has its tombstone.
* `ProxyProofs`, of the sidecar: types with the bound of the cache, `GivesUpOnLoops`,
  `NoneLeftBehind`, `DecisionsRecent`. The invariant bounds what Node said by what the
  sidecar knows: a call's answer is no older than the call, an entry no older than
  its age and one call; that is what makes answers safe in any order. For the budget it is that
  `restarts <= young + 1`: the count may be one ahead of the short runs, since the end of
  a healthy run counts as a restart too. A spawn that failed is the one other way to stay down.
* `GuidesProofs`: types, `ChoicesStick` and `GuideWhole`. The second follows from the steps alone: a
  link changes by three of them. For `GuideWhole` a request is told by the set of statements
  it has left (`LeftOf`), which are in an order that all kinds of source keep; `WholeInv` says
  that a writer that is alone has left in the rows exactly what that set says of what it fetched
  (`SoFar`), and that one which is not alone has left a mark in `mess`.
* `JobsProofs`: types, `OnlyRequestsWrite` and `TimersMatch`. `IInv` says that a request is on one
  of a few ways through its handler, and that it has a saved document in hand for every job it is
  still to register. `TimersInv` adds that a job nobody disturbed has one request at most,
  which will leave the timer its document wants, and that a job no request touches has it.
* `DuloSessionProofs`: types, `BeatGoesOn` and `SignedOutStays`. What a process has left is a
  sequence of words, and the lemmas come in layers. Which word may follow which: a save is begun by
  a load and ends with the copy or the mirror, the beat, the shared refresh and the boot have their
  own short ways (`Sound`). Who moves beside the one that moves: those who waited for it, none of
  whom is saving (`Moved`). `IInv`: two who save at once both know (`Alone`); a writer whom nobody
  crossed finds its write in the row (`Wrote`); at rest from saves a live session without a timer has a copy that
  is the row, or none (`Copied`); and where there is such a session and no timer, the beat is still on
  a way that ends in arming one (`Beats`, `Owes`, with `Awaited` and `ShellRow`). `LeavingInv` follows a
  sign-out that nobody is beside from its load to its mirror; `OutInv` says what it leaves: row and
  copy hold nothing, nobody under way holds a document, and whatever needs a token comes after a `fresh`
  at which it stops. No bound on requests at once is used, so these theorems also cover what the run
  leaves out.

The assumptions are those named in the modules: `TimeAssumption` (a target lives no
longer than the cursor's idle limit: 60 s against 300 s), finite sets of players,
tuners, keys, jobs, channels, accounts and playlists, that the "nothing" values are not members of the
sets they stand beside, and in `DuloAssumption` that the processes are distinct.

Every safety and action property of the passing runs is a theorem, except `FailedWalkUnpins`: it speaks
of the moment after a walk, when another request may have pinned again, so that it holds only
for a stream with one request at a time, as in its run; what holds for any number is that
the walk's own last step un-pins (`WalkExitsUnpin`). Only model-checked besides: the
liveness properties (`OnlyAnswersHoldUp`, `AbandonedTunerReturns`, `EndedViewersGo`, `CallsEnd`,
`EnabledJobsRun`), since the provers here do not reason about fairness or `ENABLED`.

## 5. Each property and its mutant

Every property of a passing run is paired in `PROJECT.json` with a change of one
definition that a plausible slip in the code would make (`Mutation:` in the
modules): the reset that keeps the target, the map not looked at again under the lock,
the open that does not close the reused id, the parent written before its
children, the chain whose end is not stored, the guide dropped before the new one
is in hand, the outcome written with the whole document, the copy left as it was
read, the respawn that forgets the shutdown. TLC finds the property violated by it.

## 6. Where the code and its texts disagree

`failover_lost_mark` is kept as a run that ends in a counterexample: a switch seen by
two refreshes is marked by the first and unmarked by the second, before any poll has
taken the mark, so a player splices two encoders without a discontinuity
(`NoSilentSwitch`).

Violated when they were run, and kept as definitions or in words only; adding the
named property to the module's cfg shows it again:

* `PinnedServed` without the exception for late grants: "only stays pinned to an attempt that
  actually SERVED 2xx" (`proxy.rs:688`). A refresh, or a request's own resolve, that is under way
  across a failed walk pins again what the walk un-pinned (`Late`).
* `FailedWalkUnpins` in `failover_pair` without its `VIEW`, which hides how a request ended: for the same reason the cursor may be back when the walk
  has ended.
* `OffIsAuthoritative` without its exception: "an operator's knob-off is authoritative"
  (`proxy.rs:691`). Of two overlapping grants the one that says on may be filed after
  the one that says off, and the walk reads the flag which its own grant did not bring. The property
  is about walks begun under such a grant and not about every child: an entry request
  whose cursor is pinned to a child resolves it again whatever the flag says, and only a failure
  makes it look.
* `SticksToWinner`: the README's "sticks to the winning child". The cursor is a number
  into an order that is shuffled again every five minutes.
* `WatchedTunerStays`: the pump closes an upstream that was joined after it looked.
* `BytesKeepLive`: raw-TS bytes never count as a success, since the sidecar does not
  send what the guard at `proxy/telemetryIngest.ts:135` asks for.
* `UngroupedIsItself`: a channel that was a child, then a parent, does not get its own
  guide id back.
* `BlipKeepsSession`: a 401 of dulo followed by a transient failure of Supabase ends in
  `reauth_required` while the refresh token is still good (`dulo/auth.ts:315-318`, `438-440`).

Read in the code, seen by TLC on the way or evident:

* Failover: a hop after a long pause revives a cursor that the idle limit had ended
  (`hop_policy` touches without the reset); a recovery marks its own manifest and leaves the mark
  pending, so that one switch is announced twice; a walk that ends with an error page may be
  followed by a second walk; a walk crossed by a reshuffle, a change of the group or another task
  that moves the cursor may leave candidates out, the channel itself among them
  (`WalkTriesEveryone` excuses it by `steady`); a resolve that Node never answers, and by
  default a first fetch, holds its request up for ever; the README's "in order" against the shuffle.
* Telemetry: a channel aggregate that is buffering when its last viewer leaves stays in
  memory; a raw-TS viewer whose bytes pause for a minute is swept and not listed again. After a
  crash of the sidecar a viewer that is gone stays listed while a new stream uses its id, if that
  stream's `open` was dropped: what it reports counts for the old one, where the text at
  `proxy/telemetryIngest.ts:58-60` expects no more than "a few bytes" (`Kept` in
  `EndedViewersGo`). Sessions shorter than `MIN_SESSION_MS` end once like the others and are
  not written.
* Groups: two requests at once may leave children unlike their parent; a sync that read
  the tombstones before a deletion inserts the channel again (`sources/seed.ts:263`).
* Exports: two Custom playlists whose urls have one path share their files, although
  `m3u/compose.ts:497` calls them exclusively their own; `FilesFollow` and `RecomposeHeals`
  hold as long as no two share one (`PathsOwn`).
* Guides: creating a source again with the url of one that exists, or uploading a file,
  streams into it while its row says `good`; if that breaks off the row goes on saying so
  (`epg/xmltvIngest.ts:16-22`, `567`). A fetch that skipped failing channels or windows replaces
  the guide by what came, and the row says `good` (`epg/roku.ts:114-135`,
  `epg/syncEpgSource.ts:54-64`, `243-262`): a partial guide may take the place of a whole one.
  Rows that a sync inserts after its source was deleted stay. A compose that reads between two
  statements of a replace writes a guide with the channels and without their programmes, and
  nothing composes again before the next schedule or request.
* Jobs: `runJob` "never throws" (`scheduler/index.ts:77`), yet it rejects when the
  write of the failure fails too; the next run is computed before the work and
  overwrites the one a save has noted; disabling leaves the old next run; two
  overlapping saves, or a save and a deletion, may leave the wrong timer or an orphan;
  a reset wipes the documents before it removes the timers.
* Dulo: a refresh or a beat in flight may undo a sign-out; a reset of the workspace deletes the
  rows without the invalidation that `dulo/auth.ts:571-573` asks for; a boot or an
  invalidation whose load fails leaves a live session without a timer, and so does a sign-in
  whose write of the mirror fails; of two overlapping saves the later may undo a rotation. Two loads
  that both go to the row, with a whole save between them: the one that is answered last puts the
  older document into the copy, from which the next beat may find nothing to refresh
  (`dulo/auth.ts:170-173`); `BeatGoesOn` excuses this until the next save (`settled`).
* Sidecar: a spawn that fails is never tried again, after no short run at all and at the edge neither
  (`sidecar.ts:102-104` against "never give up", `112-114`): Node gets `error` and no `exit`, and
  only `exit` respawns. `GivesUpOnLoops` names it as the one exception;
  the end of a healthy run counts as one restart; a revocation takes effect within the
  cache's time and the time of a call, not within the cache's time alone; the fallback
  for synthetic sources at the edge is coarser than the middleware's (`routes/internal.ts:75-88`).

## 7. Plan, and what is not modelled

Done, in this order: `TargetCache`, `Failover`, `TunerPromise`, `TunerShare`,
`StreamTelemetry`, `FailoverGroups`, `FileRegister`, `AtomicFile`, `Exports`, `Guides`,
`Jobs`, `DuloSession`, `Sidecar`; theorems about every component among them.

Next: the parts of the data plane that are left, of which the muxer's continuity counters and the
probe sweep come first.

Not modelled: log shipping, which is the queue of `StreamTelemetry` with other
contents; the probe sweep and the mirror probe, one flag or promise each; the muxer's
timestamps, manifest rewriting and the parsers of some twenty providers, which are data;
the edge listener and the emulated devices, which pass through or only read; the settings
routes and imports, single writes; the web interface, a client of the API and close to
half of the implementation's lines. None of them keeps state that two parties change.

## 8. Running it

`tlc -config <run>.cfg <module>.tla` for a run (module and cfg are paired in
`PROJECT.json`), `tlapm <module>.tla` for the eight proof modules. The largest runs
take two to three minutes on two cores.
