----------------------------- MODULE DuloSession -----------------------------
(* The authenticated session of the dulo playlist: one document in MongoDB,   *)
(* a copy of it in memory, a timer that refreshes it ahead of its expiry.     *)
(*                                                                            *)
(* Everything that changes the document goes through save(), which also       *)
(* mirrors the status onto the playlist and aims the timer.  One refresh and  *)
(* one device activation at a time are shared by all who need them; a beat of *)
(* the timer reads the document again past the copy.                          *)
(* sources/adapters/dulo/auth.ts, routes/sources.ts, routes/playlists.ts,     *)
(* routes/system.ts.  Time is a choice: a token is near its expiry or not.    *)
(* A process is what it has left to do; a step is what it does up to an await.*)
EXTENDS Naturals, Sequences, FiniteSets

CONSTANTS Family, Bare,         \* signed-in sessions; those captured without a refresh token
          NoToken, NoDoc, Keep,
          Tick, Flight, Device, Wake,   \* the beat, the shared refresh and activation, a boot or invalidate
          Saved, Faulty,        \* documents found at the boot; processes MongoDB may fail
          MaxRequests, MaxAtOnce, MaxGrants, MaxFaults

Request == 1..MaxRequests
Proc == Request \cup {Tick, Flight, Device, Wake}
Token == [family : Family, gen : 1..MaxGrants]
Status == {"signed_out", "active", "blocked", "reauth_required"}
Doc == [token : Token \cup {NoToken}, status : Status]
Patch == [token : Token \cup {NoToken, Keep}, status : Status \cup {Keep}]

ASSUME DuloAssumption ==
    /\ Bare \subseteq Family /\ NoToken \notin Token /\ NoDoc \notin Doc
    /\ Keep \notin Token \cup {NoToken} \cup Status
    /\ Saved \subseteq Doc \cup {NoDoc} /\ Faulty \subseteq Proc
    /\ Request \cap {Tick, Flight, Device, Wake} = {}
    /\ Tick \notin {Flight, Device, Wake} /\ Flight \notin {Device, Wake} /\ Device # Wake
    /\ MaxRequests \in Nat /\ MaxAtOnce \in Nat /\ MaxGrants \in Nat \ {0}
    /\ MaxFaults \in Nat

VARIABLES mongo,    \* the row of playlistauths, or NoDoc
          mirror,   \* the playlist's isAuthenticated
          cache,    \* the copy in memory, or NoDoc for null
          timer,    \* keepaliveTimer is set
          procs,    \* who is under way, with what left to do
          newest, spurned, dead,    \* outside: tokens granted, access refused up to, families revoked
          begun, faults,   \* requests begun; statements, refreshes, tokens failed, restarts
          leaving,  \* history: a sign-out is under way and nothing beside it
          out,      \* history: such a sign-out is over, and nobody has signed in since
          crossed,  \* history: who saves beside another writer of the row
          settled   \* history: the last save, or boot, was not crossed and aimed the timer; the copy is no older
outside == <<newest, spurned, dead>>
local == <<mongo, mirror, cache, timer>>
counts == <<begun, faults>>
vars == <<local, procs, outside, counts, leaving, out, crossed, settled>>
history == <<leaving, out, crossed, settled>>

NoPatch == [token |-> Keep, status |-> Keep]
Idle == [todo |-> <<>>, seen |-> NoDoc, patch |-> NoPatch, token |-> NoToken]
Shell == [token |-> NoToken, status |-> "signed_out"]
Busy == {p \in Proc : procs[p].todo # <<>>}
At(p, s) == procs[p].todo # <<>> /\ Head(procs[p].todo) = s
Rest(p) == Tail(procs[p].todo)
Patched(p) == LET q == procs[p].patch IN
    [f \in DOMAIN Shell |-> IF q[f] = Keep THEN procs[p].seen[f] ELSE q[f]]

(* Something a refresh can keep alive.                                        *)
Refreshable(d) == d.token # NoToken /\ d.token.family \notin Bare
                  /\ d.status \notin {"signed_out", "reauth_required"}
(* dulo does not take the access token, whatever its expiry says.             *)
Spurned(t) == t # NoToken => t.gen <= spurned[t.family]

Save(patch) == <<"load", "write", "saved">> \o (IF patch.status = Keep THEN <<>> ELSE <<"mirror">>)
Renew == <<"load", "fresh", "load", "device">>
-----------------------------------------------------------------------------
(* Processes.                                                                 *)

(* Who waits for p goes on when it is done, with its result; ensureFreshToken *)
(* and ensureDevice throw when there is none, the retries after a 401 do not. *)
Waits(x, p) == \/ p = Flight /\ (At(x, "need") \/ At(x, "await"))
               \/ p = Device /\ At(x, "needDevice")
GoesOn(x, p, t) == IF Rest(x) = <<>> THEN Idle
                   ELSE [procs[x] EXCEPT !.todo = Tail(@), !.token = IF p = Flight THEN t ELSE @]
Resumed(x, p, t) ==
    IF ~ Waits(x, p) THEN procs[x]
    ELSE IF t = NoToken /\ ~ At(x, "await") THEN Idle ELSE GoesOn(x, p, t)

Finish(p, t) == procs' = [x \in Proc |-> IF x = p THEN Idle ELSE Resumed(x, p, t)]
Go(p, q) == IF q.todo = <<>> THEN Finish(p, q.token) ELSE procs' = [procs EXCEPT ![p] = q]
SaveOver(p) == Go(p, [Idle EXCEPT !.token = procs[p].token, !.todo = Rest(p)])
Advance(p) == Go(p, [procs[p] EXCEPT !.todo = Tail(@)])
Start(p, q, helper, h) ==
    procs' = [procs EXCEPT ![p] = q, ![helper] = IF @ = Idle THEN h ELSE @]
(* runRefresh: the refresh that is under way, or a new one.                   *)
Join(p, d, todo) == Start(p, [Idle EXCEPT !.seen = d, !.todo = todo],
                       Flight, [Idle EXCEPT !.todo = <<"load", "grant">>])
Store(p, patch, t) == Go(p, [Idle EXCEPT !.patch = patch, !.token = t, !.todo = Save(patch) \o Rest(p)])

(* The server listens when the boot is over; the read of an invalidation is   *)
(* taken to be over, too.                                                     *)
Beginning(q) ==
    /\ procs[Wake] = Idle
    /\ begun < MaxRequests /\ Cardinality(Busy \cap Request) < MaxAtOnce
    /\ begun' = begun + 1
    /\ procs' = [procs EXCEPT ![begun + 1] = q]
    /\ UNCHANGED <<local, outside, faults>>
Begin(q) == Beginning(q) /\ leaving' = FALSE /\ UNCHANGED <<out, crossed, settled>>

SignIn(f) ==
    LET patch == [token |-> [family |-> f, gen |-> newest[f]], status |-> "active"] IN
    /\ Beginning([Idle EXCEPT !.patch = patch, !.todo = Save(patch) \o Renew])
    /\ leaving' = FALSE /\ out' = FALSE /\ UNCHANGED <<crossed, settled>>
SignOut ==
    /\ Beginning([Idle EXCEPT !.patch = Shell, !.todo = Save(Shell)])
    /\ leaving' = (Busy = {}) /\ UNCHANGED <<out, crossed, settled>>
ReactivateDevice == Begin([Idle EXCEPT !.todo = Save(NoPatch) \o Renew])
ResolvePlayback == Begin([Idle EXCEPT !.todo = Renew \o <<"load", "post">>])
DeletePlaylist == Begin([Idle EXCEPT !.todo = <<"erase", "invalidate">>])
ResetWorkspace == Begin([Idle EXCEPT !.todo = <<"erase">>])
-----------------------------------------------------------------------------
(* load and save.  A boot and an invalidation aim the timer at what they load.*)
Saving == {p \in Proc : procs[p].todo # <<>> /\ (p = Wake \/ Head(procs[p].todo) \in {"shell", "write", "saved", "mirror"})}
Crosses(p) == crossed' = IF Saving \ {p} # {} THEN crossed \cup Saving \cup {p}
                         ELSE IF p \in Saving THEN crossed ELSE crossed \ {p}
Saves(p) == settled' = (p \notin crossed) /\ crossed' = crossed \ {p}
(* An answer that is older than the row unsettles the copy it is put into.    *)
Loads(p, isRow) ==
    /\ settled' = (isRow /\ IF p = Wake THEN p \notin crossed ELSE settled)
    /\ IF p # Wake /\ Rest(p) # <<>> /\ Head(Rest(p)) = "write" THEN Crosses(p) ELSE crossed' = crossed \ {p}
Aimed(p, d) == IF p = Wake THEN Refreshable(d) ELSE timer

LoadCached(p) ==
    /\ At(p, "load") /\ cache # NoDoc
    /\ Go(p, [procs[p] EXCEPT !.seen = cache, !.todo = Rest(p)])
    /\ timer' = Aimed(p, cache) /\ Loads(p, p = Wake => cache = mongo)
    /\ UNCHANGED <<mongo, mirror, cache, outside, counts, leaving, out>>
Find(p) ==
    /\ At(p, "load") /\ cache = NoDoc
    /\ Go(p, [procs[p] EXCEPT !.seen = IF mongo = NoDoc THEN Shell ELSE mongo,
                              !.todo = <<IF mongo = NoDoc THEN "shell" ELSE "found">> \o Rest(p)])
    /\ IF mongo = NoDoc THEN Crosses(p) ELSE UNCHANGED crossed
    /\ UNCHANGED <<local, outside, counts, leaving, out, settled>>
Found(p) ==
    /\ At(p, "found") /\ cache' = procs[p].seen /\ Advance(p)
    /\ timer' = Aimed(p, procs[p].seen) /\ Loads(p, procs[p].seen = mongo)
    /\ UNCHANGED <<mongo, mirror, outside, counts, leaving, out>>
InsertShell(p) ==
    /\ At(p, "shell") /\ mongo' = Shell /\ cache' = Shell /\ Advance(p)
    /\ timer' = Aimed(p, Shell) /\ Loads(p, TRUE)
    /\ UNCHANGED <<mirror, outside, counts, leaving, out>>

Write(p) ==
    /\ At(p, "write") /\ mongo' = Patched(p) /\ Advance(p)
    /\ UNCHANGED <<mirror, cache, timer, outside, counts, history>>
(* The copy, and where no mirror follows the timer: scheduleKeepalive.        *)
(* Mutation: the copy is left as it was read.                                 *)
WrittenUncached(p) ==
    /\ At(p, "saved")
    /\ timer' = IF procs[p].patch.status = Keep THEN Refreshable(Patched(p)) ELSE timer
    /\ IF procs[p].patch.status = Keep THEN Saves(p) ELSE UNCHANGED <<crossed, settled>>
    /\ Advance(p)
    /\ UNCHANGED <<mongo, mirror, cache, outside, counts, leaving, out>>
Written(p) ==
    /\ At(p, "saved") /\ cache' = Patched(p)
    /\ timer' = IF procs[p].patch.status = Keep THEN Refreshable(Patched(p)) ELSE timer
    /\ IF procs[p].patch.status = Keep THEN Saves(p) /\ SaveOver(p)
                                       ELSE UNCHANGED <<crossed, settled>> /\ Advance(p)
    /\ UNCHANGED <<mongo, mirror, outside, counts, leaving, out>>
Mirror(p) ==
    /\ At(p, "mirror") /\ mirror' = (procs[p].patch.status = "active")
    /\ timer' = Refreshable(Patched(p))
    /\ SaveOver(p)
    /\ leaving' = FALSE /\ out' = (out \/ leaving) /\ Saves(p)
    /\ UNCHANGED <<mongo, cache, outside, counts>>

(* The row removed from outside; invalidate.                                  *)
Erase(p) ==
    /\ At(p, "erase") /\ mongo' = NoDoc /\ mirror' = FALSE /\ Advance(p)
    /\ crossed' = crossed \cup Saving
    /\ UNCHANGED <<cache, timer, outside, counts, leaving, out, settled>>
Invalidate(p) ==
    /\ At(p, "invalidate") /\ procs[Wake] = Idle
    /\ cache' = NoDoc
    /\ procs' = [procs EXCEPT ![p] = Idle, ![Wake] = [Idle EXCEPT !.todo = <<"load">>]]
    /\ Crosses(Wake)
    /\ UNCHANGED <<mongo, mirror, timer, outside, counts, leaving, out, settled>>
-----------------------------------------------------------------------------
(* Tokens and devices.                                                        *)

(* ensureFreshToken: a token with life left, or within its backoff; else a    *)
(* refresh.  ensureDevice: the activation under way, or a new one.            *)
Fresh(p) ==
    /\ At(p, "fresh")
    /\ LET t == procs[p].seen.token IN
       \/ t = NoToken /\ Finish(p, NoToken)
       \/ t # NoToken /\ Go(p, [procs[p] EXCEPT !.token = t, !.todo = Rest(p)])
       \/ t # NoToken /\ Join(p, NoDoc, <<"need">> \o Rest(p))
    /\ UNCHANGED <<local, outside, counts, history>>
EnsureDevice(p) ==
    /\ At(p, "device")
    /\ \/ Advance(p)
       \/ Start(p, [Idle EXCEPT !.todo = <<"needDevice">> \o Rest(p), !.token = procs[p].token],
                  Device, [Idle EXCEPT !.todo = <<"post">>, !.token = procs[p].token])
    /\ UNCHANGED <<local, outside, counts, history>>

(* The grant.  Supabase rotates the refresh token: the last one and the one   *)
(* before are taken, an older one costs the whole family.                     *)
Stale(t) == t.gen + 1 < newest[t.family]
Grant(p) ==
    /\ At(p, "grant")
    /\ LET t == procs[p].seen.token
           n == [family |-> t.family, gen |-> newest[t.family] + 1] IN
       /\ t # NoToken /\ t.family \notin Bare \cup dead /\ ~Stale(t)
       /\ newest[t.family] < MaxGrants
       /\ newest' = [newest EXCEPT ![t.family] = @ + 1]
       /\ Store(p, [NoPatch EXCEPT !.token = n, !.status = "active"], n)
    /\ UNCHANGED <<local, spurned, dead, counts, history>>
Refuse(p) ==
    /\ At(p, "grant")
    /\ LET t == procs[p].seen.token IN
       /\ t # NoToken => (t.family \in Bare \cup dead \/ Stale(t))
       /\ dead' = IF t # NoToken /\ t.family \notin Bare THEN dead \cup {t.family} ELSE dead
    /\ Store(p, [NoPatch EXCEPT !.status = "reauth_required"], NoToken)
    /\ UNCHANGED <<local, newest, spurned, counts, history>>
(* A network error, 429 or 5xx: the session is kept, and the old token ridden *)
(* if it has life left.  Also what is left once MaxGrants is reached.         *)
Blip(p) ==
    /\ At(p, "grant")
    /\ LET t == procs[p].seen.token IN
       /\ t # NoToken /\ t.family \notin Bare
       /\ IF newest[t.family] = MaxGrants THEN UNCHANGED faults ELSE faults < MaxFaults /\ faults' = faults + 1
       /\ \E r \in {t, NoToken} : Store(p, NoPatch, r)
    /\ UNCHANGED <<local, outside, begun, history>>

(* What dulo answers: an activation (activate-device), a playback session.    *)
(* The first 401 forces a refresh and is tried again.                         *)
Retry(p) ==
    /\ At(p, "post") /\ Spurned(procs[p].token)
    /\ Join(p, procs[p].seen, <<"await", "postAgain">> \o Rest(p))
    /\ UNCHANGED <<local, outside, counts, history>>
GiveUp(p) ==
    /\ At(p, "postAgain") /\ Spurned(procs[p].token)
    /\ Store(p, [NoPatch EXCEPT !.status = "reauth_required"], NoToken)
    /\ UNCHANGED <<local, outside, counts, history>>
Answered(p) ==
    /\ At(p, "post") \/ At(p, "postAgain")
    /\ ~Spurned(procs[p].token)
    /\ LET active == [NoPatch EXCEPT !.status = "active"] IN
       \/ p = Device /\ Store(p, active, procs[p].token)
       \/ p = Device /\ Store(p, NoPatch, NoToken)
       \/ p # Device /\ IF procs[p].seen.status = "active" THEN Advance(p) ELSE Store(p, active, procs[p].token)
       \/ p # Device /\ Store(p, [NoPatch EXCEPT !.status = "blocked"], NoToken)
    /\ UNCHANGED <<local, outside, counts, history>>
(* Any other failure of the call.                                             *)
Unanswered(p) ==
    /\ At(p, "post") \/ At(p, "postAgain")
    /\ Finish(p, NoToken)
    /\ UNCHANGED <<local, outside, counts, history>>
-----------------------------------------------------------------------------
(* The keepalive.                                                             *)
Fire ==
    /\ timer /\ procs[Tick] = Idle
    /\ timer' = FALSE /\ cache' = NoDoc
    /\ procs' = [procs EXCEPT ![Tick] = [Idle EXCEPT !.todo = <<"load", "beat">>]]
    /\ leaving' = FALSE
    /\ UNCHANGED <<mongo, mirror, outside, counts, out, crossed, settled>>

(* Early: aim again.  Near the expiry, or past the ceiling: refresh.          *)
Beat(p) ==
    /\ At(p, "beat")
    /\ LET d == procs[p].seen IN
       \/ ~Refreshable(d) /\ Finish(p, NoToken) /\ UNCHANGED timer
       \/ Refreshable(d) /\ Finish(p, NoToken) /\ timer' = TRUE
       \/ Refreshable(d) /\ Join(p, NoDoc, <<"await", "rearm">>) /\ UNCHANGED timer
    /\ UNCHANGED <<mongo, mirror, cache, outside, counts, history>>
(* The refresh failed, and perhaps wrote nothing: a retry unless it is over.  *)
Rearm(p) ==
    /\ At(p, "rearm")
    /\ timer' = (timer \/ (procs[p].token = NoToken
                           /\ (cache # NoDoc => cache.status \notin {"signed_out", "reauth_required"})))
    /\ Finish(p, NoToken)
    /\ UNCHANGED <<mongo, mirror, cache, outside, counts, history>>
-----------------------------------------------------------------------------
(* MongoDB fails a statement: the call throws.  A beat that could not read    *)
(* arms a retry.  A boot or an invalidation that could not read, and a save   *)
(* that could not mirror, leave the timer unaimed.                            *)
(* Mutation: it does not.                                                     *)
FaultUnarmed(p) ==
    /\ faults < MaxFaults /\ faults' = faults + 1
    /\ p \in Faulty \cap Busy
    /\ Head(procs[p].todo) \in {"shell", "write", "mirror", "erase"} \/ (At(p, "load") /\ cache = NoDoc)
    /\ settled' = (settled /\ ~At(p, "mirror") /\ p # Wake) /\ crossed' = crossed \ {p}
    /\ Finish(p, NoToken) /\ leaving' = FALSE
    /\ UNCHANGED <<local, outside, begun, out>>
Fault(p) ==
    /\ faults < MaxFaults /\ faults' = faults + 1
    /\ p \in Faulty \cap Busy
    /\ Head(procs[p].todo) \in {"shell", "write", "mirror", "erase"} \/ (At(p, "load") /\ cache = NoDoc)
    /\ timer' = (timer \/ p = Tick)
    /\ settled' = (settled /\ ~At(p, "mirror") /\ p # Wake) /\ crossed' = crossed \ {p}
    /\ Finish(p, NoToken) /\ leaving' = FALSE
    /\ UNCHANGED <<mongo, mirror, cache, outside, begun, out>>
Booting == [Idle EXCEPT !.todo = <<"load">>]
Restart ==
    /\ faults < MaxFaults /\ faults' = faults + 1
    /\ cache' = NoDoc /\ timer' = FALSE
    /\ procs' = [p \in Proc |-> IF p = Wake THEN Booting ELSE Idle]
    /\ leaving' = FALSE /\ crossed' = {} /\ settled' = TRUE
    /\ UNCHANGED <<mongo, mirror, outside, begun, out>>

(* Outside: dulo refuses the access tokens of a family, or its user signs out.*)
Spurn(f) ==
    /\ faults < MaxFaults /\ faults' = faults + 1
    /\ spurned[f] # newest[f] /\ spurned' = [spurned EXCEPT ![f] = newest[f]]
    /\ UNCHANGED <<local, procs, newest, dead, begun, history>>
Revoke(f) ==
    /\ faults < MaxFaults /\ faults' = faults + 1
    /\ f \notin dead /\ dead' = dead \cup {f}
    /\ UNCHANGED <<local, procs, newest, spurned, begun, history>>

Init ==
    /\ mongo \in Saved /\ mirror = (mongo # NoDoc /\ mongo.status = "active")
    /\ cache = NoDoc /\ timer = FALSE
    /\ procs = [p \in Proc |-> IF p = Wake THEN Booting ELSE Idle]
    /\ newest = [f \in Family |-> 1] /\ spurned = [f \in Family |-> 0] /\ dead = {}
    /\ begun = 0 /\ faults = 0 /\ leaving = FALSE /\ out = FALSE /\ crossed = {} /\ settled = TRUE

(* What follows an answer without an await comes before anything else does.   *)
InBurst(p) == \/ At(p, "fresh") \/ At(p, "device") \/ At(p, "beat") \/ At(p, "rearm")
              \/ At(p, "load") /\ cache # NoDoc
Burst(p) == LoadCached(p) \/ Fresh(p) \/ EnsureDevice(p) \/ Beat(p) \/ Rearm(p)
Answer(p) == \/ Find(p) \/ Found(p) \/ InsertShell(p) \/ Write(p) \/ Written(p) \/ Mirror(p)
             \/ Erase(p) \/ Invalidate(p) \/ Grant(p) \/ Refuse(p) \/ Blip(p)
             \/ Retry(p) \/ GiveUp(p) \/ Answered(p) \/ Unanswered(p)
Event == \/ \E f \in Family : SignIn(f)
         \/ SignOut \/ ReactivateDevice \/ ResolvePlayback \/ DeletePlaylist \/ ResetWorkspace
         \/ Fire \/ Restart
         \/ \E f \in Family : Spurn(f) \/ Revoke(f)
NoBurst == \A p \in Proc : ~ InBurst(p)
Next == \/ \E p \in Proc : Burst(p)
        \/ NoBurst /\ \E p \in Proc : Answer(p) \/ Fault(p)
        \/ NoBurst /\ Event
Spec == Init /\ [][Next]_vars
-----------------------------------------------------------------------------
(* Every variable is of its type: what is stored is always a whole session.   *)
TypeOK ==
    /\ mongo \in Doc \cup {NoDoc} /\ cache \in Doc \cup {NoDoc}
    /\ mirror \in BOOLEAN /\ timer \in BOOLEAN /\ leaving \in BOOLEAN /\ out \in BOOLEAN /\ settled \in BOOLEAN /\ crossed \subseteq Proc
    /\ \A p \in Proc : /\ procs[p].seen \in Doc \cup {NoDoc} /\ procs[p].patch \in Patch
                        /\ procs[p].token \in Token \cup {NoToken}
    /\ newest \in [Family -> 1..MaxGrants] /\ spurned \in [Family -> 0..MaxGrants] /\ dead \subseteq Family
    /\ begun \in 0..MaxRequests /\ faults \in 0..MaxFaults

(* auth.ts: "or the keepalive dies silently".  Whenever nothing is under way, *)
(* a session a refresh can keep alive has its timer, whatever requests, beats,*)
(* failed refreshes, failed statements and restarts led there, with two       *)
(* exceptions, each until a next save, boot or invalidation runs to its end   *)
(* with no other writer beside it (settled).  The last of these failed before *)
(* it could aim the timer: a boot or an invalidation that could not read, a   *)
(* save that could not mirror.  Or an answer older than the row has been put  *)
(* into the copy since.                                                       *)
BeatGoesOn ==
    Busy = {} /\ settled /\ mongo # NoDoc
        => (Refreshable(mongo) /\ mongo.token.family \notin dead => timer)

(* auth.ts signOut.  After a sign-out that ran alone nothing holds a token of *)
(* the session, and no play, beat, retry, restart or deletion brings it back  *)
(* until somebody signs in.                                                   *)
SignedOutStays ==
    out => \A d \in {mongo, cache} \ {NoDoc} : d.status = "signed_out" /\ d.token = NoToken

(* auth.ts: "This stops a momentary Supabase blip or a rotation-collision     *)
(* from silently logging the user out".  Where a session is to be signed in   *)
(* again its refresh token is no longer good.                                 *)
BlipKeepsSession ==
    mongo # NoDoc /\ mongo.status = "reauth_required" /\ mongo.token # NoToken
        => mongo.token.family \in Bare \cup dead
=============================================================================
