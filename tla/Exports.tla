------------------------------- MODULE Exports -------------------------------
(* The per-user .m3u files: who writes them and from what.                    *)
(*                                                                            *)
(* Every account owns one file per surface, the Global union and each Custom  *)
(* playlist, named after its username.  Request handlers change accounts and  *)
(* playlists in MongoDB and then rewrite the files that depend on them from   *)
(* what they read: m3u/compose.ts, routes/users.ts, routes/auth.ts,           *)
(* routes/playlists.ts, routes/customPlaylists.ts, security/adminAccess.ts.   *)
(* A handler is a task: the sequence of statements it still has to run, each  *)
(* with the documents it read.  A step is the code between two awaits.        *)
(* A file operation is atomic: AtomicFile says why.                           *)
EXTENDS Naturals, Sequences, FiniteSets, SequencesExt

CONSTANTS User, Admin0,       \* accounts; the one that setup created, which stays as it is
          Builtin, Clone,     \* playlists of a provider; user-composed ones
          Path, Unknown,      \* custom paths; the one of a url without a path
          OwnPath,            \* the path a clone is created with
          Token, Name,        \* stream tokens, usernames of one account
          NoUser, Deleted, NoList, NoFile,
          Task, MaxRequests, MaxFaults

ASSUME ExportsAssumption ==
    /\ Admin0 \in User /\ Unknown \in Path /\ OwnPath \in [Clone -> Path \ {Unknown}]
    /\ MaxRequests \in Nat /\ MaxFaults \in Nat
    /\ IsFiniteSet(User) /\ IsFiniteSet(Builtin) /\ IsFiniteSet(Clone)
    /\ Token # {} /\ Name # {} /\ Builtin \cap Clone = {}

List == Builtin \cup Clone
Global == "global"
Surface == {Global} \cup Path
(* models/User.ts, models/Playlist.ts, and what a file holds.                 *)
Account == [role : {"admin", "user"}, enabled : BOOLEAN, token : Token, name : Name,
            lists : SUBSET List, customs : SUBSET List, v : Nat]
Playlist == [endpoint : {"global", "custom"}, state : BOOLEAN, path : Path]
Sent == [state : BOOLEAN] \cup [path : Path] \cup [endpoint : {"global", "custom"}]
        \cup [endpoint : {"global", "custom"}, path : Path]
Body == [token : Token, lists : SUBSET List]
File0 == Surface \X User \X Name

(* What a task may still have to do, with the documents it has in hand.       *)
Statement ==
    [do : {"file"}, file : File0, body : Body \cup {NoFile}]
    \cup [do : {"global", "customs", "recomposed"}]
    \cup [do : {"globalFan"}, lists : SUBSET List]
    \cup [do : {"compose", "grant", "drop", "pull", "pullCustom"}, list : List]
    \cup [do : {"create"}, list : Clone]
    \cup [do : {"customFan"}, list : List, target : Playlist]
    \cup [do : {"pruneCustom"}, path : Path]
    \cup [do : {"userGlobal", "userCustoms", "pruneUser", "pruneUserCustoms", "insert"},
          user : User, doc : Account]
    \cup [do : {"edit", "save"}, user : User, doc : Account, new : Account]
    \cup [do : {"set"}, list : List, doc : Playlist, sent : Sent]

ASSUME ValuesAssumption ==
    /\ NoUser \notin Account /\ Deleted \notin Account /\ NoList \notin Playlist
    /\ NoFile \notin Body /\ Global \notin Path

VARIABLES users,     \* the accounts
          playlists, \* the playlists
          files,     \* <<surface, user, name>> -> what is on disk
          work,      \* what each task still has to do
          requests, faults,
          solo,      \* history: the tasks nothing has run beside
          calm       \* history: what is known of the files, see KnownStill
vars == <<users, playlists, files, work, requests, faults, solo, calm>>

Idle == \A t \in Task : work[t] = <<>>
Exists(u) == users[u] \notin {NoUser, Deleted}
GlobalLists == {p \in Builtin : /\ playlists[p] # NoList
                                /\ playlists[p].endpoint = "global" /\ playlists[p].state}
CustomLists == {p \in List : playlists[p] # NoList /\ playlists[p].endpoint = "custom"}

(* No Custom playlist has the path of another one, or of a clone.             *)
PathsOwn == \A p \in CustomLists, q \in List :
    /\ playlists[q] # NoList /\ (q \in CustomLists \/ q \in Clone)
    /\ playlists[q].path = playlists[p].path
    => p = q

Account0(role, ls, cs) == [role |-> role, enabled |-> TRUE, token |-> CHOOSE k \in Token : TRUE,
                           name |-> CHOOSE n \in Name : TRUE, lists |-> ls, customs |-> cs, v |-> 0]
-----------------------------------------------------------------------------
(* What a file holds, given the documents its writer has in hand.             *)
Visible(d, gl) == IF d.role = "admin" THEN gl ELSE gl \cap d.lists
(* Mutation: an account whose token is off gets a file without one.           *)
GlobalBodyTokenless(d, gl) ==
    [token |-> IF d.enabled THEN d.token ELSE NoFile, lists |-> Visible(d, gl)]
GlobalBody(d, gl) ==
    IF d.enabled THEN [token |-> d.token, lists |-> Visible(d, gl)] ELSE NoFile
CustomBody(d, p, l) ==
    IF (d.role = "admin" \/ p \in d.customs) /\ d.enabled /\ l.state
    THEN [token |-> d.token, lists |-> {p}] ELSE NoFile

(* A statement writes a file, or prunes it when there is no body.             *)
File(s, u, name, body) == [do |-> "file", file |-> <<s, u, name>>, body |-> body]
ForEach(S, Op(_)) == [i \in 1..Cardinality(S) |-> Op(SetToSeq(S)[i])]
ForUsers(Op(_)) == ForEach({u \in User : Exists(u)}, Op)

Do(what) == [do |-> what]
OnList(what, p) == [do |-> what, list |-> p]
Prune(path) == [do |-> "pruneCustom", path |-> path]
OfUser(what, u, d) == [do |-> what, user |-> u, doc |-> d]
ComposeUser(u, d) == <<OfUser("userGlobal", u, d), OfUser("userCustoms", u, d)>>

(* Mutation: the files under the old path of a renamed playlist stay.         *)
ReconcileLeavesOld(p, before, after) ==
    IF before.endpoint = "custom" /\ after.endpoint = "custom" THEN <<OnList("compose", p)>>
    ELSE IF after.endpoint = "custom" THEN <<Do("global"), OnList("compose", p)>>
    ELSE <<Prune(before.path), Do("global")>>
(* reconcilePlaylistExport: what an edit of a playlist does to the files.     *)
Reconcile(p, before, after) ==
    CASE before.endpoint = "custom" /\ after.endpoint = "global" ->
           <<Prune(before.path), Do("global")>>
      [] before.endpoint = "global" /\ after.endpoint = "custom" ->
           <<Do("global"), OnList("compose", p)>>
      [] before.endpoint = "custom" /\ after.endpoint = "custom" /\ before.path # after.path ->
           <<Prune(before.path), OnList("compose", p)>>
      [] OTHER -> <<Do("global")>> \o (IF after.endpoint = "custom"
                                       THEN <<OnList("compose", p)>> ELSE <<>>)

(* The statements that only read: each is replaced by what it leads to.       *)
Readers == {"global", "globalFan", "compose", "customFan", "pruneCustom", "customs",
            "userGlobal", "userCustoms", "pruneUser", "pruneUserCustoms"}
Throws(item) == item.do = "compose" /\ playlists[item.list] = NoList   \* unknown_playlist
ComposeLeads(item) ==
    LET l == playlists[item.list] IN
    IF l.endpoint = "global" THEN <<Do("global")>>
    ELSE IF l.state THEN <<[do |-> "customFan", list |-> item.list, target |-> l]>>
    ELSE <<Prune(l.path)>>
Leads(item) ==
    CASE item.do = "global" -> <<[do |-> "globalFan", lists |-> GlobalLists]>>
      [] item.do = "globalFan" ->
           ForUsers(LAMBDA u : File(Global, u, users[u].name, GlobalBody(users[u], item.lists)))
      [] item.do = "compose" -> ComposeLeads(item)
      [] item.do = "customFan" ->
           ForUsers(LAMBDA u : File(item.target.path, u, users[u].name,
                                    CustomBody(users[u], item.list, item.target)))
      [] item.do = "pruneCustom" ->
           ForUsers(LAMBDA u : File(item.path, u, users[u].name, NoFile))
      [] item.do = "customs" -> ForEach(CustomLists, LAMBDA p : OnList("compose", p))
      [] item.do = "userGlobal" ->
           <<File(Global, item.user, item.doc.name, GlobalBody(item.doc, GlobalLists))>>
      [] item.do = "userCustoms" ->
           ForEach(CustomLists, LAMBDA p : File(playlists[p].path, item.user, item.doc.name,
                                                 CustomBody(item.doc, p, playlists[p])))
      [] item.do = "pruneUser" ->
           <<File(Global, item.user, item.doc.name, NoFile),
             OfUser("pruneUserCustoms", item.user, item.doc)>>
      [] item.do = "pruneUserCustoms" ->
           ForEach(CustomLists, LAMBDA p : File(playlists[p].path, item.user, item.doc.name, NoFile))
-----------------------------------------------------------------------------
Init ==
    /\ \E old \in SUBSET (User \ {Admin0}) :
         users = [u \in User |-> IF u = Admin0 THEN Account0("admin", Builtin, {})
                                ELSE IF u \in old THEN Account0("user", Builtin, {}) ELSE NoUser]
    /\ playlists = [p \in List |-> IF p \in Builtin
                      THEN [endpoint |-> "global", state |-> TRUE, path |-> Unknown] ELSE NoList]
    /\ files = [f \in File0 |->
                  IF f[1] = Global /\ Exists(f[2]) /\ f[3] = users[f[2]].name
                  THEN GlobalBody(users[f[2]], GlobalLists) ELSE NoFile]
    /\ work = [t \in Task |-> <<>>]
    /\ requests = 0 /\ faults = 0
    /\ solo = {} /\ calm = "exact"

(* A request arrives.  Only one that finds every task at rest runs alone.     *)
Start(t, todo) ==
    /\ work[t] = <<>> /\ requests < MaxRequests
    /\ requests' = requests + 1
    /\ work' = [work EXCEPT ![t] = todo]
    /\ solo' = IF Idle THEN {t} ELSE {}
    /\ calm' = IF Idle THEN calm ELSE "none"
    /\ UNCHANGED faults

-----------------------------------------------------------------------------
(* Accounts                                                               . *)
AllAccess(d) == [d EXCEPT !.lists = {p \in List : playlists[p] # NoList /\ playlists[p].endpoint = "global"},
                          !.customs = CustomLists]
Renamed(d, n) == [d EXCEPT !.name = n]
Edits(d) ==   \* what a PUT, or a new token, makes of the account it read
    {Renamed(d, n) : n \in Name}
    \cup {[d EXCEPT !.token = k] : k \in Token}
    \cup {[d EXCEPT !.enabled = ~d.enabled]}
    \cup {[d EXCEPT !.role = r] : r \in {"admin", "user"}}
    \cup {[d EXCEPT !.lists = SymDiff(@, {p})] : p \in Builtin}
    \cup {[d EXCEPT !.customs = SymDiff(@, {p})] : p \in List}

CreateUser(t) == \E u \in User, role \in {"admin", "user"}, S \in {{}, List} :
    /\ users[u] = NoUser
    /\ Start(t, <<OfUser("insert", u, IF role = "admin" THEN AllAccess(Account0(role, {}, {}))
                                      ELSE Account0(role, S \cap Builtin, S))>>)
    /\ UNCHANGED <<users, playlists, files>>

EditUser(t) == \E u \in User \ {Admin0} : Exists(u) /\ \E new \in Edits(users[u]) \ {users[u]} :
    /\ Start(t, <<[do |-> "edit", user |-> u, doc |-> users[u], new |-> new]>>)
    /\ UNCHANGED <<users, playlists, files>>

DeleteUser(t) == \E u \in User \ {Admin0} :
    /\ Exists(u)
    /\ users' = [users EXCEPT ![u] = Deleted]
    /\ Start(t, <<OfUser("pruneUser", u, users[u])>>)
    /\ UNCHANGED <<playlists, files>>

-----------------------------------------------------------------------------
(* Playlists                                                              . *)
(* What a PUT sends, as the $set the handler makes of it: given the endpoint  *)
(* it read, a path goes with Custom only.                                     *)
ListEdits(l) ==
    {[state |-> ~l.state], [endpoint |-> "custom"], [endpoint |-> "global", path |-> Unknown]}
    \cup {[endpoint |-> "custom", path |-> x] : x \in Path}
    \cup {[path |-> x] : x \in IF l.endpoint = "custom" THEN Path ELSE {Unknown}}

CreateClone(t) == \E p \in Clone :
    /\ playlists[p] = NoList
    /\ Start(t, <<OnList("create", p)>>)
    /\ UNCHANGED <<users, playlists, files>>

EditList(t) == \E p \in List : playlists[p] # NoList /\ \E sent \in ListEdits(playlists[p]) :
    /\ Start(t, <<[do |-> "set", list |-> p, doc |-> playlists[p], sent |-> sent]>>)
    /\ UNCHANGED <<users, playlists, files>>

(* DELETE of a playlist: the document goes first, then for a built-in one the *)
(* grants and the files, for a clone the files and the grants.  Left out are  *)
(* the composes of the clones that copied its channels, which change the text *)
(* of files and not which playlists a file lists.                             *)
DeleteList(t) == \E p \in List : playlists[p] # NoList /\
    /\ Start(t,
         IF p \in Clone
         THEN <<OnList("drop", p), Prune(playlists[p].path), OnList("pullCustom", p)>>
         ELSE <<OnList("drop", p), OnList("pull", p),
                IF playlists[p].endpoint = "custom" THEN Prune(playlists[p].path) ELSE Do("global")>>)
    /\ UNCHANGED <<users, playlists, files>>

(* A compose job or button, and the change of domain that recomposes all.     *)
Compose(t) == \E p \in List :
    /\ playlists[p] # NoList
    /\ Start(t, <<OnList("compose", p)>>)
    /\ UNCHANGED <<users, playlists, files>>
(* Mutation: the change of domain recomposes the Custom playlists only.       *)
RecomposeCustoms(t) ==
    /\ Start(t, <<Do("customs"), Do("recomposed")>>)
    /\ UNCHANGED <<users, playlists, files>>
RecomposeAll(t) ==
    /\ Start(t, <<Do("global"), Do("customs"), Do("recomposed")>>)
    /\ UNCHANGED <<users, playlists, files>>

Arrive(t) == \/ CreateUser(t) \/ EditUser(t) \/ DeleteUser(t)
             \/ CreateClone(t) \/ EditList(t) \/ DeleteList(t)
             \/ Compose(t) \/ RecomposeAll(t)
-----------------------------------------------------------------------------
(* Statements                                                             . *)
At(t, what) == work[t] # <<>> /\ Head(work[t]).do = what
Item(t) == Head(work[t])
Goes(t, todo) ==
    /\ work' = [work EXCEPT ![t] = todo \o Tail(work[t])]
    /\ UNCHANGED <<requests, faults, solo>>

(* A save writes the fields it changed, and those only; one that replaces an  *)
(* array another save has replaced meanwhile is a VersionError.               *)
Merged(now, doc, new) == [f \in DOMAIN now |-> IF new[f] # doc[f] THEN new[f] ELSE now[f]]
Rearranges(doc, new) == new.lists # doc.lists \/ new.customs # doc.customs

With(now, sent) == [f \in DOMAIN now |-> IF f \in DOMAIN sent THEN sent[f] ELSE now[f]]

(* calm is what is known of the files between requests: exact, all of them    *)
(* are what they should be; live, those of the accounts and surfaces there    *)
(* are; none, nothing, as when playlists come to share a path.                *)
KnownStill == IF PathsOwn' THEN calm ELSE "none"

Insert(t) ==
    /\ At(t, "insert")
    /\ LET u == Item(t).user IN
       IF users[u] = NoUser
       THEN /\ users' = [users EXCEPT ![u] = Item(t).doc]
            /\ Goes(t, ComposeUser(u, Item(t).doc))
       ELSE users' = users /\ Goes(t, <<>>)
    /\ UNCHANGED <<playlists, files, calm>>

(* PUT /users/:id between the read and the save: a change of role wins over   *)
(* the arrays of the request.                                                 *)
Edit(t) ==
    /\ At(t, "edit")
    /\ LET i == Item(t)
           settled == CASE i.new.role = "admin" /\ i.doc.role = "user" -> AllAccess(i.new)
                        [] i.new.role = "user" /\ i.doc.role = "admin" ->
                             [i.new EXCEPT !.lists = {}, !.customs = {}]
                        [] OTHER -> i.new
       IN Goes(t, <<[do |-> "save", user |-> i.user, doc |-> i.doc, new |-> settled]>>)
    /\ UNCHANGED <<users, playlists, files, calm>>

Save(t) ==
    /\ At(t, "save")
    /\ LET i == Item(t)  u == i.user
           Stale == ~Exists(u) \/ (Rearranges(i.doc, i.new) /\ users[u].v # i.doc.v)
           new == IF Rearranges(i.doc, i.new) THEN [i.new EXCEPT !.v = i.doc.v + 1] ELSE i.new
       IN IF Stale THEN users' = users /\ Goes(t, <<>>)
          ELSE /\ users' = [users EXCEPT ![u] = Merged(users[u], i.doc, new)]
               /\ Goes(t, (IF i.doc.name # new.name THEN <<OfUser("pruneUser", u, i.doc)>> ELSE <<>>)
                          \o ComposeUser(u, new))
    /\ UNCHANGED <<playlists, files, calm>>

Create(t) ==
    /\ At(t, "create")
    /\ LET p == Item(t).list IN
       IF playlists[p] # NoList THEN playlists' = playlists /\ Goes(t, <<>>)
       ELSE /\ playlists' = [playlists EXCEPT ![p] =
                 [endpoint |-> "custom", state |-> TRUE, path |-> OwnPath[p]]]
            /\ Goes(t, <<OnList("grant", p), OnList("compose", p)>>)
    /\ calm' = KnownStill
    /\ UNCHANGED <<users, files>>

Grant(t) ==
    /\ At(t, "grant")
    /\ users' = [u \in User |-> IF Exists(u) /\ users[u].role = "admin"
                   THEN [users[u] EXCEPT !.customs = @ \cup {Item(t).list}] ELSE users[u]]
    /\ Goes(t, <<>>)
    /\ UNCHANGED <<playlists, files, calm>>

Set(t) ==
    /\ At(t, "set")
    /\ LET i == Item(t)  p == i.list IN
       IF playlists[p] = NoList THEN playlists' = playlists /\ Goes(t, <<>>)
       ELSE LET after == With(playlists[p], i.sent) IN
            /\ playlists' = [playlists EXCEPT ![p] = after]
            /\ Goes(t, IF after = i.doc THEN <<>> ELSE Reconcile(p, i.doc, after))
    /\ calm' = KnownStill
    /\ UNCHANGED <<users, files>>

Drop(t) ==
    /\ At(t, "drop")
    /\ playlists' = [playlists EXCEPT ![Item(t).list] = NoList]
    /\ Goes(t, <<>>)
    /\ UNCHANGED <<users, files, calm>>

Pull(t) ==
    /\ At(t, "pull") \/ At(t, "pullCustom")
    /\ users' = [u \in User |-> IF ~Exists(u) THEN users[u] ELSE
                   [users[u] EXCEPT !.customs = @ \ {Item(t).list},
                                    !.lists = IF At(t, "pull") THEN @ \ {Item(t).list} ELSE @]]
    /\ Goes(t, <<>>)
    /\ UNCHANGED <<playlists, files, calm>>

(* What a caught error leaves of a task: the grants are still pulled.         *)
Caught(todo) == IF todo # <<>> /\ Last(todo).do = "pullCustom" THEN <<Last(todo)>> ELSE <<>>

Read(t) ==
    /\ work[t] # <<>> /\ Item(t).do \in Readers
    /\ IF Throws(Item(t))
       THEN /\ work' = [work EXCEPT ![t] = Caught(@)]
            /\ UNCHANGED <<requests, faults, solo>>
       ELSE Goes(t, Leads(Item(t)))
    /\ UNCHANGED <<users, playlists, files, calm>>

Write(t) ==
    /\ At(t, "file")
    /\ files' = [files EXCEPT ![Item(t).file] = Item(t).body]
    /\ Goes(t, <<>>)
    /\ UNCHANGED <<users, playlists, calm>>

(* A recompose of everything that ran alone has put every live file right.    *)
Recomposed(t) ==
    /\ At(t, "recomposed")
    /\ work' = [work EXCEPT ![t] = Tail(@)]
    /\ calm' = IF t \in solo /\ calm = "none" /\ PathsOwn THEN "live" ELSE calm
    /\ UNCHANGED <<users, playlists, files, requests, faults, solo>>

(* A write fails (a full disk, a directory that a prune beside it removed):   *)
(* the rest of the compose is abandoned, and logged.                          *)
WriteFails(t) ==
    /\ At(t, "file") /\ faults < MaxFaults
    /\ faults' = faults + 1
    /\ work' = [work EXCEPT ![t] = Caught(Tail(@))]
    /\ solo' = {} /\ calm' = "none"
    /\ UNCHANGED <<users, playlists, files, requests>>

Crash ==
    /\ ~Idle /\ faults < MaxFaults
    /\ faults' = faults + 1
    /\ work' = [t \in Task |-> <<>>]
    /\ solo' = {} /\ calm' = "none"
    /\ UNCHANGED <<users, playlists, files, requests>>

Step(t) == \/ Insert(t) \/ Edit(t) \/ Save(t) \/ Create(t) \/ Grant(t) \/ Set(t)
           \/ Drop(t) \/ Pull(t) \/ Read(t) \/ Write(t) \/ Recomposed(t)
Next == Crash \/ \E t \in Task : Arrive(t) \/ Step(t) \/ WriteFails(t)
Spec == Init /\ [][Next]_vars
-----------------------------------------------------------------------------

(* Documents, files and the statements left have the shapes the code gives    *)
(* them (models/User.ts, models/Playlist.ts).                                 *)
TypeOK ==
    /\ users \in [User -> Account \cup {NoUser, Deleted}]
    /\ playlists \in [List -> Playlist \cup {NoList}]
    /\ files \in [File0 -> Body \cup {NoFile}]
    /\ work \in [Task -> Seq(Statement)]
    /\ requests \in Nat /\ faults \in Nat
    /\ solo \subseteq Task /\ calm \in {"exact", "live", "none"}

(* What the files must hold, computed from the documents alone.               *)
Should(f) ==
    LET s == f[1]  u == f[2]  d == users[u]
        here == {p \in CustomLists : playlists[p].path = s /\ p \in (d.customs \cup
                   (IF d.role = "admin" THEN List ELSE {})) /\ playlists[p].state}
    IN IF ~Exists(u) \/ f[3] # d.name \/ ~d.enabled THEN NoFile
       ELSE IF s = Global THEN [token |-> d.token, lists |-> Visible(d, GlobalLists)]
       ELSE IF here = {} THEN NoFile ELSE [token |-> d.token, lists |-> here]
Live(f) == /\ Exists(f[2]) /\ f[3] = users[f[2]].name
           /\ f[1] = Global \/ \E p \in CustomLists : playlists[p].path = f[1]

(* compose.ts: as long as requests come one at a time, nothing fails and no   *)
(* two Custom playlists share a path, what is on disk between requests is     *)
(* what the accounts and playlists say, for every name and path there ever    *)
(* was: no file missing, stale, or left behind by a rename, a switch of       *)
(* endpoint, a deletion or a loss of access.                                  *)
FilesFollow == Idle /\ calm = "exact" => \A f \in DOMAIN files : files[f] = Should(f)

(* recomposeAllExports: whatever overlapping requests, failed writes and      *)
(* restarts have left, one recompose that runs alone while no two Custom      *)
(* playlists share a path puts the file of every account on every surface     *)
(* right, and requests one at a time keep it so.                              *)
RecomposeHeals == Idle /\ calm # "none" => \A f \in DOMAIN files : Live(f) => files[f] = Should(f)
=============================================================================
