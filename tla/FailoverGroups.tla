--------------------------- MODULE FailoverGroups ---------------------------
(***************************************************************************)
(* The channels of one playlist and the failover groups over them: one     *)
(* parent and ordered children that mirror the parent's guide link         *)
(* (routes/playlists.ts, services/failover.ts), while syncs of the source  *)
(* insert, prune and link channels (sources/seed.ts, epg/fastSelfEpg.ts)   *)
(* and hard-deleted channels must not come back (services/tombstones.ts).  *)
(*                                                                         *)
(* The database has no transactions here: a request is the list of         *)
(* statements its handler still has to run, each atomic, and statements of *)
(* two requests interleave.  Parameters a handler computes from a read are *)
(* fixed when it reads.  A restart of the server drops what is unfinished. *)
(***************************************************************************)
EXTENDS Integers, Sequences, FiniteSets, SequencesExt

CONSTANTS
    Chan,         \* channel ids; a channel's own upstream guide id is its own name
    GroupId, Req,
    Guide,        \* the guide id an operator links by hand
    MaxRequests,  \* bound: requests ever made
    Null, Missing, NoDoc

(* A PlaylistChannel, as far as groups and guide links go.                    *)
Tvg   == Chan \cup {Guide, Null}
Epg   == {"guide", Null}
State == {"matched", "unmatched", Null}
Doc   == [group : GroupId \cup {Null}, role : {"parent", "child", Null}, order : Nat \cup {Null},
          tvg : Tvg, epg : Epg, state : State, orig : Tvg \cup {Missing}]

ASSUME GroupsAssumption ==
    /\ MaxRequests \in Nat /\ IsFiniteSet(Chan)
    /\ Null \notin Chan \cup GroupId \cup {"parent", "child", "guide", "matched", "unmatched"}
    /\ Guide \notin Chan /\ Missing \notin Tvg /\ NoDoc \notin Doc

VARIABLES
    docs,      \* PlaylistChannel
    buried,    \* Playlist.deletedChannelIds
    tasks,     \* Req -> the statements its handler has left
    requests,
    mess,      \* history: "overlap" once two requests overlapped, "crash" once one was cut off
    unhealed,  \* history: cut off, and not reconciled since
    touched    \* history: channels whose own guide link was edited, filled or removed

vars == <<docs, buried, tasks, requests, mess, unhealed, touched>>

Fresh(c) == [group |-> Null, role |-> Null, order |-> Null,
             tvg |-> c, epg |-> Null, state |-> Null, orig |-> Missing]

Init ==
    /\ docs = [c \in Chan |-> Fresh(c)]
    /\ buried = {} /\ tasks = [r \in Req |-> <<>>] /\ requests = 0
    /\ mess = {} /\ unhealed = FALSE /\ touched = {}

Live == {c \in Chan : docs[c] # NoDoc}
Members(g) == {c \in Live : docs[c].group = g}
Parents(g) == {c \in Members(g) : docs[c].role = "parent"}
Children(g) == {c \in Members(g) : docs[c].role = "child"}

-----------------------------------------------------------------------------
(* The guide link a child takes over from its parent. *)

(* Mutation: an unlinked parent's nulls are handed on as they are. *)
InheritedVerbatim(state) == state

Inherited(state) == IF state = Null THEN "unmatched" ELSE state

(* failoverDisbandUpdate: a child gets its own tvg_id back, if it was noted. *)
Disbanded(doc) ==
    [doc EXCEPT !.tvg = IF doc.role = "child" /\ doc.orig # Missing THEN doc.orig ELSE @,
                !.group = Null, !.role = Null, !.order = Null, !.orig = Missing]

Update(cs, Op(_)) == [c \in Chan |-> IF c \in cs THEN Op(docs[c]) ELSE docs[c]]

-----------------------------------------------------------------------------
(* What handlers read and check, and the statements they then run. *)

Begin(r, statements) ==
    /\ requests' = requests + 1
    /\ tasks' = [tasks EXCEPT ![r] = statements]
    /\ mess' = IF \E q \in Req : tasks[q] # <<>> THEN mess \cup {"overlap"} ELSE mess
    /\ UNCHANGED <<docs, buried, unhealed, touched>>

Reconcile == <<[kind |-> "tally"]>>

(* Mutation: a channel that was a child already keeps its place. *)
PutChildInPlace(parent, c, g, i) ==
    [kind |-> "put", chan |-> c, group |-> g, role |-> "child",
     order |-> IF docs[c].order = Null THEN i ELSE docs[c].order,
     tvg |-> docs[parent].tvg, epg |-> docs[parent].epg, state |-> Inherited(docs[parent].state),
     orig |-> IF docs[c].orig = Missing THEN docs[c].tvg ELSE Missing]

PutChild(parent, c, g, i) ==
    [kind |-> "put", chan |-> c, group |-> g, role |-> "child", order |-> i,
     tvg |-> docs[parent].tvg, epg |-> docs[parent].epg, state |-> Inherited(docs[parent].state),
     orig |-> IF docs[c].orig = Missing THEN docs[c].tvg ELSE Missing]

PutParent(parent, g) ==
    [kind |-> "head", chan |-> parent, group |-> g, state |-> Inherited(docs[parent].state),
     orig |-> IF docs[parent].orig = Missing THEN docs[parent].tvg ELSE Missing]

(* Mutation: the parent is written before its children. *)
GroupWritesHeadFirst(parent, children, g) ==
    <<[kind |-> "clear", group |-> g, keep |-> Range(children) \cup {parent}], PutParent(parent, g)>>
    \o [i \in DOMAIN children |-> PutChild(parent, children[i], g, i)]

(* The ordered bulkWrite of a save: who left, the children, the parent last. *)
GroupWrites(parent, children, g) ==
    <<[kind |-> "clear", group |-> g, keep |-> Range(children) \cup {parent}]>>
    \o [i \in DOMAIN children |-> PutChild(parent, children[i], g, i)]
    \o <<PutParent(parent, g)>>

(* PUT failover-groups: refused if a member heads another group. *)
SaveGroup(r, parent, children, g) ==
    LET members == Range(children) \cup {parent} IN
    /\ parent \notin Range(children) /\ members \subseteq Live
    /\ \A m \in members : docs[m].role = "parent" => docs[m].group = g
    /\ Begin(r, GroupWrites(parent, children, g) \o Reconcile)

(* PUT reorder: the ids must be the group's current children. *)
Reorder(r, children, g) ==
    /\ Range(children) = Children(g)
    /\ Begin(r, [i \in DOMAIN children |->
                   [kind |-> "order", chan |-> children[i], group |-> g, order |-> i]])

(* DELETE failover-groups. *)
DisbandGroup(r, g) ==
    /\ Members(g) # {}
    /\ Begin(r, <<[kind |-> "disband", groups |-> {g}]>>)

Links == {[tvg |-> Guide, epg |-> "guide", state |-> "matched"],
          [tvg |-> Null, epg |-> Null, state |-> "unmatched"],
          [tvg |-> Null, epg |-> Null, state |-> Null]}

(* PUT channel: a child's link is locked; a parent never becomes fillable. *)
EditLink(r, c) ==
    /\ c \in Live /\ docs[c].role # "child"
    /\ \E link \in Links :
         LET state == IF docs[c].role = "parent" /\ link.epg = Null /\ link.state = Null
                      THEN "unmatched" ELSE link.state
         IN  Begin(r, <<[kind |-> "link", chan |-> c, link |-> [link EXCEPT !.state = state]]>>)

(* POST channels/delete. *)
DeleteChannel(r, c) ==
    Begin(r, <<[kind |-> "drop", chans |-> {c}], [kind |-> "bury", chans |-> {c}]>> \o Reconcile)

(* syncLive: the listing decides what exists; a snapshot never prunes. *)
SyncStatements(listed, live) ==
    <<[kind |-> "tombstones", listed |-> listed]>>
    \o (IF live THEN <<[kind |-> "drop", chans |-> Chan \ listed]>> \o Reconcile ELSE <<>>)
    \o <<[kind |-> "fill", chans |-> listed]>>

Sync(r) ==
    \E listed \in SUBSET Chan \ {{}}, live \in BOOLEAN : Begin(r, SyncStatements(listed, live))

(* resetSource: clean slate. *)
RestoreDefaults(r) ==
    \E live \in BOOLEAN :
        Begin(r, <<[kind |-> "drop", chans |-> Chan], [kind |-> "exhume"]>> \o SyncStatements(Chan, live))

(* DELETE epg-sources: one statement for the links, whole groups at once. *)
DeleteGuide(r) == Begin(r, <<[kind |-> "unlink"]>>)

-----------------------------------------------------------------------------
(* The statements. *)

At(r, kind) == tasks[r] # <<>> /\ Head(tasks[r]).kind = kind
Now(r) == Head(tasks[r])
Done(r) == tasks' = [tasks EXCEPT ![r] = Tail(@)]
Then(r, statements) == tasks' = [tasks EXCEPT ![r] = statements \o Tail(@)]

Clear(r) ==
    /\ At(r, "clear") /\ Done(r)
    /\ docs' = Update(Members(Now(r).group) \ Now(r).keep, Disbanded)
    /\ UNCHANGED <<buried, requests, mess, unhealed, touched>>

Noted(orig, doc) == IF orig = Missing THEN doc.orig ELSE orig

WriteChild(r) ==
    LET put == Now(r)
        Mirror(doc) == [group |-> put.group, role |-> put.role, order |-> put.order, tvg |-> put.tvg,
                        epg |-> put.epg, state |-> put.state, orig |-> Noted(put.orig, doc)]
    IN  /\ At(r, "put") /\ Done(r)
        /\ docs' = Update({put.chan} \cap Live, Mirror)
        /\ UNCHANGED <<buried, requests, mess, unhealed, touched>>

WriteParent(r) ==
    LET put == Now(r)
        Lead(doc) == [doc EXCEPT !.group = put.group, !.role = "parent", !.order = Null,
                                 !.state = put.state, !.orig = Noted(put.orig, doc)]
    IN  /\ At(r, "head") /\ Done(r)
        /\ docs' = Update({put.chan} \cap Live, Lead)
        /\ UNCHANGED <<buried, requests, mess, unhealed, touched>>

WriteOrder(r) ==
    LET Place(doc) == [doc EXCEPT !.order = Now(r).order] IN
    /\ At(r, "order") /\ Done(r)
    /\ docs' = Update({Now(r).chan} \cap Members(Now(r).group), Place)
    /\ UNCHANGED <<buried, requests, mess, unhealed, touched>>

(* Mutation: two parents are not seen as a fault. *)
DegenerateHeadless(g) == Members(g) # {} /\ (Parents(g) = {} \/ Children(g) = {})

Degenerate(g) == Members(g) # {} /\ (Cardinality(Parents(g)) # 1 \/ Children(g) = {})

(* reconcileFailoverGroups reads, and then disbands what it read as broken. *)
Tally(r) ==
    LET broken == {g \in GroupId : Degenerate(g)} IN
    /\ At(r, "tally")
    /\ IF broken = {} THEN Done(r) ELSE Then(r, <<[kind |-> "disband", groups |-> broken]>>)
    /\ unhealed' = FALSE
    /\ UNCHANGED <<docs, buried, requests, mess, touched>>

Disband(r) ==
    /\ At(r, "disband") /\ Done(r)
    /\ docs' = Update(UNION {Members(g) : g \in Now(r).groups}, Disbanded)
    /\ UNCHANGED <<buried, requests, mess, unhealed, touched>>

(* Mutation: a parent's edit is not passed on. *)
CascadeNothing(c, link) == <<>>

Cascade(c, link) ==
    IF c \in Live /\ docs[c].role = "parent"
    THEN <<[kind |-> "mirror", group |-> docs[c].group, link |-> link]>> ELSE <<>>

WriteLink(r) ==
    LET c == Now(r).chan
        link == Now(r).link
        Set(doc) == [doc EXCEPT !.tvg = link.tvg, !.epg = link.epg, !.state = link.state]
    IN  /\ At(r, "link") /\ Then(r, Cascade(c, link))
        /\ docs' = Update({c} \cap Live, Set)
        /\ touched' = touched \cup {c}
        /\ UNCHANGED <<buried, requests, mess, unhealed>>

WriteMirror(r) ==
    LET link == Now(r).link
        Set(doc) == [doc EXCEPT !.tvg = link.tvg, !.epg = link.epg, !.state = Inherited(link.state)]
    IN  /\ At(r, "mirror") /\ Done(r)
        /\ docs' = Update(Children(Now(r).group), Set)
        /\ UNCHANGED <<buried, requests, mess, unhealed, touched>>

Drop(r) ==
    LET Gone(doc) == NoDoc IN
    /\ At(r, "drop") /\ Done(r)
    /\ docs' = Update(Now(r).chans, Gone)
    /\ touched' = touched \ Now(r).chans
    /\ UNCHANGED <<buried, requests, mess, unhealed>>

Bury(r) ==
    /\ At(r, "bury") /\ Done(r)
    /\ buried' = buried \cup Now(r).chans
    /\ UNCHANGED <<docs, requests, mess, unhealed, touched>>

Exhume(r) ==
    /\ At(r, "exhume") /\ Done(r)
    /\ buried' = {}
    /\ UNCHANGED <<docs, requests, mess, unhealed, touched>>

(* Mutation: the upsert does not consult the tombstones. *)
WantedAll(listed) == listed

Wanted(listed) == listed \ buried

ReadTombstones(r) ==
    /\ At(r, "tombstones")
    /\ Then(r, <<[kind |-> "upsert", chans |-> Wanted(Now(r).listed)]>>)
    /\ UNCHANGED <<docs, buried, requests, mess, unhealed, touched>>

(* $setOnInsert: what is there keeps its guide link and its group. *)
Upsert(r) ==
    /\ At(r, "upsert") /\ Done(r)
    /\ docs' = [c \in Chan |-> IF c \in Now(r).chans \ Live THEN Fresh(c) ELSE docs[c]]
    /\ UNCHANGED <<buried, requests, mess, unhealed, touched>>

Fillable(doc) == doc.epg = Null /\ doc.state = Null

(* linkFastSelfEpg: links what nobody has touched to the source's own guide. *)
Fill(r) ==
    LET chosen == {c \in Now(r).chans \cap Live : Fillable(docs[c])} IN
    /\ At(r, "fill") /\ Done(r)
    /\ docs' = [c \in Chan |-> IF c \in chosen
                  THEN [docs[c] EXCEPT !.tvg = c, !.epg = "guide", !.state = "matched"] ELSE docs[c]]
    /\ touched' = touched \cup chosen
    /\ UNCHANGED <<buried, requests, mess, unhealed>>

Unlink(r) ==
    LET linked == {c \in Live : docs[c].epg = "guide"}
        Off(doc) == [doc EXCEPT !.tvg = Null, !.epg = Null, !.state = "unmatched"]
    IN  /\ At(r, "unlink") /\ Done(r)
        /\ docs' = Update(linked, Off)
        /\ touched' = touched \cup {c \in linked : docs[c].role # "child"}
        /\ UNCHANGED <<buried, requests, mess, unhealed>>

(* The server goes down in the middle of what it is doing. *)
Crash ==
    /\ \E r \in Req : tasks[r] # <<>>
    /\ "crash" \notin mess
    /\ tasks' = [r \in Req |-> <<>>]
    /\ mess' = mess \cup {"crash"} /\ unhealed' = TRUE
    /\ UNCHANGED <<docs, buried, requests, touched>>

Lists == {s \in UNION {[1..n -> Chan] : n \in 1..(Cardinality(Chan) - 1)} : IsInjective(s)}

Request(r) ==
    /\ tasks[r] = <<>> /\ requests < MaxRequests
    /\ \/ \E g \in GroupId, children \in Lists :
             Reorder(r, children, g) \/ \E p \in Chan : SaveGroup(r, p, children, g)
       \/ \E g \in GroupId : DisbandGroup(r, g)
       \/ \E c \in Chan : EditLink(r, c) \/ DeleteChannel(r, c)
       \/ Sync(r) \/ RestoreDefaults(r) \/ DeleteGuide(r)

Statement(r) ==
    \/ Clear(r) \/ WriteChild(r) \/ WriteParent(r) \/ WriteOrder(r) \/ Tally(r) \/ Disband(r)
    \/ WriteLink(r) \/ WriteMirror(r) \/ Drop(r) \/ Bury(r) \/ Exhume(r)
    \/ ReadTombstones(r) \/ Upsert(r) \/ Fill(r) \/ Unlink(r)

Next == (\E r \in Req : Request(r) \/ Statement(r)) \/ Crash

Spec == Init /\ [][Next]_vars

-----------------------------------------------------------------------------
(* Every variable is of its type, and a channel has a role iff it is grouped.  *)
TypeOK ==
    /\ docs \in [Chan -> Doc \cup {NoDoc}]
    /\ \A c \in Live : docs[c].group = Null <=> docs[c].role = Null
    /\ buried \subseteq Chan /\ touched \subseteq Chan /\ requests \in 0..MaxRequests
    /\ DOMAIN tasks = Req /\ mess \subseteq {"overlap", "crash"} /\ unhealed \in BOOLEAN

AtRest == \A r \in Req : tasks[r] = <<>>
OneAtATime == "overlap" \notin mess

(* services/failover.ts: whatever requests overlap, when all have ended every  *)
(* group has one parent and a child; what a restart of the server cut off is   *)
(* healed by the next reconcile.                                               *)
GroupsWellFormed ==
    AtRest /\ ~unhealed =>
        \A g \in GroupId : Members(g) # {} => Cardinality(Parents(g)) = 1 /\ Children(g) # {}

(* playlists.ts: the bulkWrite is ordered so that an interrupted save leaves a *)
(* group without a parent, never one with two.                                 *)
NeverTwoHeads == OneAtATime => \A g \in GroupId : Cardinality(Parents(g)) <= 1

(* failover.ts: a sync that fills untouched links never takes a grouped        *)
(* channel for untouched.                                                      *)
GroupedNeverFillable ==
    OneAtATime => \A c \in Live : docs[c].role # Null => ~Fillable(docs[c])

(* failover.ts: children mirror their parent's guide link (requests one at a   *)
(* time, none cut off).                                                        *)
ChildrenMirror ==
    AtRest /\ mess = {} =>
        \A g \in GroupId : \A p \in Parents(g), c \in Children(g) :
            <<docs[c].tvg, docs[c].epg, docs[c].state>> = <<docs[p].tvg, docs[p].epg, docs[p].state>>

(* resolveSeam.ts walks the children by failoverOrder: no two share a place    *)
(* (requests one at a time, none cut off).                                     *)
OrdersDistinct ==
    AtRest /\ mess = {} =>
        \A g \in GroupId : \A c, d \in Children(g) : docs[c].order = docs[d].order => c = d

(* tombstones.ts: a channel deleted by hand is not brought back by a sync.     *)
DeletedStaysGone == OneAtATime /\ AtRest => buried \cap Live = {}

(* failover.ts: "Parents are never overwritten by failover": a channel whose   *)
(* own link nobody touched has its own guide id again when it is ungrouped.    *)
UngroupedIsItself ==
    AtRest /\ mess = {} =>
        \A c \in Live \ touched : docs[c].group = Null => docs[c].tvg = c

=============================================================================
