---------------------------- MODULE ExportsProofs ----------------------------
(* The export files: proofs, for what is written (Exports) and for how        *)
(* (AtomicFile).                                                              *)
EXTENDS Exports, AtomicFile, FiniteSetTheorems, SequenceTheorems, TLAPS

(* The files of an account under the name it has.                             *)
Named(f) == Exists(f[2]) /\ f[3] = users[f[2]].name
Custom(s) == \E p \in CustomLists : playlists[p].path = s

(* What a statement will have put into which file, once it and what it leads  *)
(* to have run.                                                               *)
GlobalDoes(gl, f, b) == f[1] = Global /\ Named(f) /\ b = GlobalBody(users[f[2]], gl)
FanDoes(p, l, f, b) == f[1] = l.path /\ Named(f) /\ b = CustomBody(users[f[2]], p, l)
ComposeDoes(p, f, b) == IF playlists[p].endpoint = "global" THEN GlobalDoes(GlobalLists, f, b)
                        ELSE FanDoes(p, playlists[p], f, b)
Of(i, f) == f[2] = i.user /\ f[3] = i.doc.name
Does(i, f, b) ==
    \/ i.do = "file" /\ i.file = f /\ i.body = b
    \/ i.do = "global" /\ GlobalDoes(GlobalLists, f, b)
    \/ i.do = "globalFan" /\ GlobalDoes(i.lists, f, b)
    \/ i.do = "compose" /\ ComposeDoes(i.list, f, b)
    \/ i.do = "customFan" /\ FanDoes(i.list, i.target, f, b)
    \/ i.do = "pruneCustom" /\ f[1] = i.path /\ Named(f) /\ b = NoFile
    \/ i.do = "customs" /\ \E p \in CustomLists : ComposeDoes(p, f, b)
    \/ i.do = "userGlobal" /\ Of(i, f) /\ f[1] = Global /\ b = GlobalBody(i.doc, GlobalLists)
    \/ i.do = "userCustoms" /\ Of(i, f) /\ \E p \in CustomLists :
            f[1] = playlists[p].path /\ b = CustomBody(i.doc, p, playlists[p])
    \/ i.do = "pruneUser" /\ Of(i, f) /\ (f[1] = Global \/ Custom(f[1])) /\ b = NoFile
    \/ i.do = "pruneUserCustoms" /\ Of(i, f) /\ Custom(f[1]) /\ b = NoFile
Will(w, f, b) == \E i \in Range(w) : Does(i, f, b)

(* A statement behind the first change of its task.                           *)
First == {"insert", "edit", "save", "create", "set", "drop"}
Later(i) ==
    /\ i.do \notin First
    /\ i.do \in {"compose", "customFan"} => playlists[i.list] # NoList
    /\ i.do = "globalFan" => \A p \in i.lists : playlists[p] # NoList
    /\ i.do \in {"pull", "pullCustom"} => playlists[i.list] = NoList

(* What is known of the files while the statements w are left: each file in   *)
(* question is right, or will be put right, and is not put wrong.             *)
Scope(f) == calm = "exact" \/ Live(f)
Right(f) == files[f] = Should(f)
AllRight == \A f \in File0 : Scope(f) => Right(f)
Heals(w) == \A f \in File0 : Scope(f) =>
    /\ \A b : Will(w, f, b) => b = Should(f)
    /\ Right(f) \/ \E b : Will(w, f, b)
Laters(w) == \A i \in Range(w) : Later(i)

(* A task before its first change, with the documents it read still current.  *)
Poised(w) == w # <<>> /\ LET i == Head(w) IN
    \/ i.do = "insert" /\ w = <<i>> /\ users[i.user] = NoUser
    \/ i.do \in {"edit", "save"} /\ w = <<i>> /\ Exists(i.user) /\ users[i.user] = i.doc
    \/ i.do = "create" /\ w = <<i>>
    \/ i.do = "set" /\ w = <<i>> /\ playlists[i.list] # NoList /\ playlists[i.list] = i.doc
    \/ /\ i.do = "drop" /\ playlists[i.list] # NoList
       /\ \/ i.list \in Clone /\ w = <<i, Prune(playlists[i.list].path), OnList("pullCustom", i.list)>>
          \/ /\ i.list \notin Clone
             /\ \/ /\ playlists[i.list].endpoint = "custom"
                   /\ w = <<i, OnList("pull", i.list), Prune(playlists[i.list].path)>>
                \/ /\ playlists[i.list].endpoint = "global"
                   /\ w = <<i, OnList("pull", i.list), Do("global")>>
Ahead(w) == (Poised(w) /\ AllRight) \/ (Laters(w) /\ Heals(w))

(* A recompose of everything ends with its mark, and changes no document.     *)
HasMark(w) == \E i \in Range(w) : i.do = "recomposed"
MarkLast(w) == \A n \in DOMAIN w : w[n].do = "recomposed" =>
    n = Len(w) /\ \A i \in Range(w) : i.do \in Readers \cup {"file", "recomposed"}

Lone == /\ \A s \in solo, t \in Task : work[t] # <<>> => t = s
        /\ calm # "none" => \A t \in Task : work[t] # <<>> => t \in solo
Tracked(t) == t \in solo /\ (calm # "none" \/ (PathsOwn /\ HasMark(work[t])))
Follows == /\ calm # "none" => PathsOwn
           /\ Idle /\ calm # "none" => AllRight
           /\ \A t \in Task : Tracked(t) => Ahead(work[t])
IInv == TypeOK /\ Lone /\ (\A t \in Task : MarkLast(work[t])) /\ Follows

-----------------------------------------------------------------------------
(* SetToSeq lists every element of a finite set.                              *)
LEMMA Listed ==
    ASSUME NEW S, IsFiniteSet(S)
    PROVE  /\ Cardinality(S) \in Nat
           /\ \A n \in 1..Cardinality(S) : SetToSeq(S)[n] \in S
           /\ \A x \in S : \E n \in 1..Cardinality(S) : SetToSeq(S)[n] = x
<1>1. Cardinality(S) \in Nat BY FS_CardinalityType
<1>2. \E f \in [1..Cardinality(S) -> S] : IsInjective(f)
  BY FS_CardinalityType DEF ExistsBijection, Bijection, Injection, IsInjective
<1>3. SetToSeq(S) \in [1..Cardinality(S) -> S] /\ IsInjective(SetToSeq(S))
  BY <1>2 DEF SetToSeq
<1>4. IsFiniteSet(1..Cardinality(S)) /\ Cardinality(1..Cardinality(S)) = Cardinality(S)
  BY <1>1, FS_Interval
<1>5. SetToSeq(S) \in Injection(1..Cardinality(S), S)
  BY <1>3 DEF Injection, IsInjective
<1>6. SetToSeq(S) \in Surjection(1..Cardinality(S), S)
  BY <1>4, <1>5, FS_Injection
<1> QED BY <1>1, <1>3, <1>6 DEF Surjection

LEMMA Finite == IsFiniteSet({u \in User : Exists(u)}) /\ IsFiniteSet(CustomLists)
<1>1. IsFiniteSet(List) BY ExportsAssumption, FS_Union DEF List
<1>2. CustomLists \subseteq List BY DEF CustomLists
<1> QED BY <1>1, <1>2, ExportsAssumption, FS_Subset

(* The head of a task is replaced by what it leads to.                        *)
LEMMA Splice ==
    ASSUME NEW w \in Seq(Statement), w # <<>>, NEW todo \in Seq(Statement)
    PROVE  /\ todo \o Tail(w) \in Seq(Statement)
           /\ Head(w) \in Statement /\ Head(w) \in Range(w)
           /\ \A i \in Range(todo \o Tail(w)) : i \in Range(todo) \/ i \in Range(w)
           /\ \A i \in Range(todo) : i \in Range(todo \o Tail(w))
           /\ \A i \in Range(w) : i = Head(w) \/ i \in Range(todo \o Tail(w))
           /\ Range(w) \subseteq Statement /\ Range(todo) \subseteq Statement
<1> DEFINE v == todo \o Tail(w)
<1>1. /\ v \in Seq(Statement) /\ Len(v) = Len(todo) + Len(w) - 1
      /\ Len(todo) \in Nat /\ Len(w) \in Nat /\ Len(w) > 0
      /\ DOMAIN v = 1..Len(v) /\ DOMAIN w = 1..Len(w) /\ DOMAIN todo = 1..Len(todo)
      /\ \A n \in 1..Len(todo) : v[n] = todo[n] /\ todo[n] \in Statement
      /\ \A n \in 2..Len(w) : v[Len(todo) + n - 1] = w[n]
      /\ \A n \in 1..Len(w) : w[n] \in Statement
      /\ Head(w) = w[1]
  OBVIOUS
<1> HIDE DEF v
<1>2. ASSUME NEW n \in DOMAIN v PROVE v[n] \in Range(todo) \/ v[n] \in Range(w)
  <2>1. CASE n \in 1..Len(todo) BY <2>1, <1>1 DEF Range
  <2>2. CASE n \notin 1..Len(todo)
    <3>1. n - Len(todo) + 1 \in 2..Len(w) BY <2>2, <1>1
    <3>2. v[n] = w[n - Len(todo) + 1] BY <3>1, <1>1
    <3> QED BY <3>1, <3>2, <1>1 DEF Range
  <2> QED BY <2>1, <2>2
<1>3. ASSUME NEW n \in DOMAIN todo PROVE todo[n] \in Range(v)
  BY <1>1 DEF Range
<1>4. ASSUME NEW n \in DOMAIN w, n # 1 PROVE w[n] \in Range(v)
  <2>1. n \in 2..Len(w) /\ Len(todo) + n - 1 \in 1..Len(v) BY <1>4, <1>1
  <2> QED BY <2>1, <1>1 DEF Range
<1>5. Head(w) \in Statement /\ Head(w) \in Range(w) BY <1>1 DEF Range
<1>6. \A i \in Range(v) : i \in Range(todo) \/ i \in Range(w) BY <1>2 DEF Range
<1>7. \A i \in Range(todo) : i \in Range(v) BY <1>3 DEF Range
<1>8. \A i \in Range(w) : i = Head(w) \/ i \in Range(v) BY <1>1, <1>4 DEF Range
<1>9. Range(w) \subseteq Statement /\ Range(todo) \subseteq Statement BY <1>1 DEF Range
<1> QED BY <1>1, <1>5, <1>6, <1>7, <1>8, <1>9 DEF v

LEMMA RangeConcat ==
    ASSUME NEW s \in Seq(Statement), NEW r \in Seq(Statement)
    PROVE  Range(s \o r) = Range(s) \cup Range(r)
<1>1. PICK v : v = s \o r OBVIOUS
<1>2. /\ Len(v) = Len(s) + Len(r) /\ Len(s) \in Nat /\ Len(r) \in Nat
      /\ DOMAIN v = 1..Len(v) /\ DOMAIN s = 1..Len(s) /\ DOMAIN r = 1..Len(r)
      /\ \A n \in 1..Len(s) : v[n] = s[n]
      /\ \A n \in 1..Len(r) : v[Len(s) + n] = r[n]
  BY <1>1
<1>3. ASSUME NEW n \in DOMAIN v PROVE v[n] \in Range(s) \cup Range(r)
  <2>1. CASE n \in 1..Len(s) BY <2>1, <1>2 DEF Range
  <2>2. CASE n \notin 1..Len(s)
    <3>1. n - Len(s) \in 1..Len(r) /\ v[Len(s) + (n - Len(s))] = r[n - Len(s)] BY <2>2, <1>2
    <3>2. Len(s) + (n - Len(s)) = n BY <1>2
    <3> QED BY <3>1, <3>2, <1>2 DEF Range
  <2> QED BY <2>1, <2>2
<1>4. \A n \in DOMAIN s : s[n] \in Range(v) BY <1>2 DEF Range
<1>5. ASSUME NEW n \in DOMAIN r PROVE r[n] \in Range(v)
  <2>1. Len(s) + n \in DOMAIN v BY <1>2
  <2> QED BY <2>1, <1>2 DEF Range
<1>6. Range(v) = Range(s) \cup Range(r)
  <2>1. \A x \in Range(v) : x \in Range(s) \cup Range(r) BY <1>3 DEF Range
  <2>2. \A x \in Range(s) \cup Range(r) : x \in Range(v) BY <1>4, <1>5 DEF Range
  <2> QED BY <2>1, <2>2
<1> QED BY <1>1, <1>6

LEMMA Few == /\ Range(<<>>) = {}
             /\ \A x : Range(<<x>>) = {x}
             /\ \A x, y : Range(<<x, y>>) = {x, y}
             /\ \A x, y, z : Range(<<x, y, z>>) = {x, y, z}
<1>1. Range(<<>>) = {} BY DEF Range
<1>2. ASSUME NEW x PROVE Range(<<x>>) = {x}
  <2>1. DOMAIN <<x>> = {1} /\ <<x>>[1] = x OBVIOUS
  <2> QED BY <2>1 DEF Range
<1>3. ASSUME NEW x, NEW y PROVE Range(<<x, y>>) = {x, y}
  <2>1. DOMAIN <<x, y>> = {1, 2} /\ <<x, y>>[1] = x /\ <<x, y>>[2] = y OBVIOUS
  <2> QED BY <2>1 DEF Range
<1>4. ASSUME NEW x, NEW y, NEW z PROVE Range(<<x, y, z>>) = {x, y, z}
  <2>1. DOMAIN <<x, y, z>> = {1, 2, 3} /\ <<x, y, z>>[1] = x /\ <<x, y, z>>[2] = y /\ <<x, y, z>>[3] = z
    OBVIOUS
  <2> QED BY <2>1 DEF Range
<1> QED BY <1>1, <1>2, <1>3, <1>4

(* What the fields of each kind of statement are.                             *)
LEMMA Kinds ==
    ASSUME NEW i \in Statement
    PROVE  /\ i.do = "file" => i.file \in File0 /\ i.body \in Body \cup {NoFile}
           /\ i.do = "globalFan" => i.lists \subseteq List
           /\ i.do \in {"compose", "create", "grant", "drop", "pull", "pullCustom",
                        "customFan", "set"} => i.list \in List
           /\ i.do = "create" => i.list \in Clone
           /\ i.do = "customFan" => i.target \in Playlist
           /\ i.do = "pruneCustom" => i.path \in Path
           /\ i.do \in {"userGlobal", "userCustoms", "pruneUser", "pruneUserCustoms",
                        "insert", "edit", "save"} => i.user \in User /\ i.doc \in Account
           /\ i.do \in {"edit", "save"} => i.new \in Account
           /\ i.do = "set" => i.doc \in Playlist /\ i.sent \in Sent
           /\ i.do \in Readers \cup First \cup {"file", "recomposed", "grant", "pull", "pullCustom"}
BY DEF Statement, Readers, First, List

LEMMA Makes ==
    /\ \A what \in {"global", "customs", "recomposed"} : Do(what) \in Statement
    /\ \A what \in {"compose", "grant", "drop", "pull", "pullCustom"}, p \in List :
          OnList(what, p) \in Statement
    /\ \A p \in Clone : OnList("create", p) \in Statement
    /\ \A x \in Path : Prune(x) \in Statement
    /\ \A what \in {"userGlobal", "userCustoms", "pruneUser", "pruneUserCustoms", "insert"},
          u \in User, d \in Account : OfUser(what, u, d) \in Statement
    /\ \A s \in Surface, u \in User, n \in Name, b \in Body \cup {NoFile} :
          File(s, u, n, b) \in Statement
    /\ \A what \in {"edit", "save"}, u \in User, d \in Account, e \in Account :
          [do |-> what, user |-> u, doc |-> d, new |-> e] \in Statement
    /\ \A p \in List, d \in Playlist, e \in Sent :
          [do |-> "set", list |-> p, doc |-> d, sent |-> e] \in Statement
    /\ \A gl \in SUBSET List : [do |-> "globalFan", lists |-> gl] \in Statement
    /\ \A p \in List, l \in Playlist : [do |-> "customFan", list |-> p, target |-> l] \in Statement
BY DEF Statement, Do, OnList, Prune, OfUser, File, File0

LEMMA Shapes ==
    ASSUME TypeOK
    PROVE  /\ \A u \in User : Exists(u) => users[u] \in Account /\ users[u].name \in Name
           /\ \A p \in List : playlists[p] # NoList => playlists[p] \in Playlist
           /\ \A p \in CustomLists : p \in List /\ playlists[p] \in Playlist /\ playlists[p].path \in Path
           /\ GlobalLists \subseteq List
           /\ \A d \in Account, gl \in SUBSET List : GlobalBody(d, gl) \in Body \cup {NoFile}
           /\ \A d \in Account, p \in List, l \in Playlist : CustomBody(d, p, l) \in Body \cup {NoFile}
           /\ \A d \in Account : d.name \in Name
           /\ Global \in Surface /\ Path \subseteq Surface
BY DEF TypeOK, Exists, CustomLists, GlobalLists, List, Account, Playlist, GlobalBody, CustomBody, Body,
       Visible, Surface
-----------------------------------------------------------------------------
(* What a reader leads to does what the reader does.                          *)
Led(i, todo) ==
    /\ todo \in Seq(Statement)
    /\ \A x \in Range(todo) : x.do \in Readers \cup {"file"} /\ (Later(i) => Later(x))
    /\ \A f \in File0 : \A b : Does(i, f, b) <=> Will(todo, f, b)

LEMMA GlobalLeads ==
    ASSUME TypeOK, NEW i \in Statement, i.do = "global" PROVE Led(i, Leads(i))
<1> DEFINE x == [do |-> "globalFan", lists |-> GlobalLists]
<1>1. Leads(i) = <<x>> BY DEF Leads
<1>2. x \in Statement BY Makes, Shapes
<1>3. Range(<<x>>) = {x} BY Few
<1>4. Later(x) BY DEF Later, First, GlobalLists
<1>5. \A f, b : Does(i, f, b) <=> Does(x, f, b) BY DEF Does
<1>6. x.do \in Readers BY DEF Readers
<1> HIDE DEF x
<1> QED BY <1>1, <1>2, <1>3, <1>4, <1>5, <1>6 DEF Led, Will

LEMMA Each ==
    ASSUME NEW S, IsFiniteSet(S), NEW X, \A u \in S : X[u] \in Statement,
           NEW todo, todo = [n \in 1..Cardinality(S) |-> X[SetToSeq(S)[n]]]
    PROVE  todo \in Seq(Statement) /\ Range(todo) = {X[u] : u \in S}
<1>1. /\ Cardinality(S) \in Nat
      /\ \A n \in 1..Cardinality(S) : SetToSeq(S)[n] \in S
      /\ \A x \in S : \E n \in 1..Cardinality(S) : SetToSeq(S)[n] = x
  BY Listed
<1>2. todo \in Seq(Statement) BY <1>1
<1>3. DOMAIN todo = 1..Cardinality(S) /\ \A n \in DOMAIN todo : todo[n] = X[SetToSeq(S)[n]] OBVIOUS
<1>4. \A y \in Range(todo) : \E u \in S : y = X[u] BY <1>1, <1>3 DEF Range
<1>5. \A u \in S : X[u] \in Range(todo) BY <1>1, <1>3 DEF Range
<1> QED BY <1>2, <1>4, <1>5

LEMMA FanLeads ==
    ASSUME TypeOK, NEW i \in Statement, i.do = "globalFan" PROVE Led(i, Leads(i))
<1> DEFINE S == {u \in User : Exists(u)}
           X == [u \in S |-> File(Global, u, users[u].name, GlobalBody(users[u], i.lists))]
<1>1. \A u \in S : X[u] \in Statement BY Makes, Shapes, Kinds
<1>2. Leads(i) = [n \in 1..Cardinality(S) |-> X[SetToSeq(S)[n]]]
  BY Listed, Finite DEF Leads, ForUsers, ForEach
<1>3. \A u \in S : X[u].do = "file" /\ Later(X[u]) BY DEF File, Later, First
<1>4. ASSUME NEW f \in File0, NEW b PROVE Does(i, f, b) <=> \E u \in S : Does(X[u], f, b)
  <2>1. \A u \in S : Does(X[u], f, b) <=> f = <<Global, u, users[u].name>> /\ b = GlobalBody(users[u], i.lists)
    BY DEF Does, File
  <2>2. Does(i, f, b) <=> GlobalDoes(i.lists, f, b) BY DEF Does
  <2>3. f[2] \in User /\ f = <<f[1], f[2], f[3]>> BY DEF File0
  <2> QED BY <2>1, <2>2, <2>3 DEF GlobalDoes, Named
<1>5. IsFiniteSet(S) BY Finite
<1> HIDE DEF S, X
<1>6. Leads(i) \in Seq(Statement) /\ Range(Leads(i)) = {X[u] : u \in S} BY <1>1, <1>2, <1>5, Each
<1> QED BY <1>3, <1>4, <1>6 DEF Led, Will

LEMMA CustomFanLeads ==
    ASSUME TypeOK, NEW i \in Statement, i.do = "customFan" PROVE Led(i, Leads(i))
<1> DEFINE S == {u \in User : Exists(u)}
           X == [u \in S |-> File(i.target.path, u, users[u].name, CustomBody(users[u], i.list, i.target))]
<1>1. \A u \in S : X[u] \in Statement BY Makes, Shapes, Kinds DEF Playlist
<1>2. Leads(i) = [n \in 1..Cardinality(S) |-> X[SetToSeq(S)[n]]]
  BY Listed, Finite DEF Leads, ForUsers, ForEach
<1>3. \A u \in S : X[u].do = "file" /\ Later(X[u]) BY DEF File, Later, First
<1>4. ASSUME NEW f \in File0, NEW b PROVE Does(i, f, b) <=> \E u \in S : Does(X[u], f, b)
  <2>1. \A u \in S : Does(X[u], f, b) <=>
            f = <<i.target.path, u, users[u].name>> /\ b = CustomBody(users[u], i.list, i.target)
    BY DEF Does, File
  <2>2. Does(i, f, b) <=> FanDoes(i.list, i.target, f, b) BY DEF Does
  <2>3. f[2] \in User /\ f = <<f[1], f[2], f[3]>> BY DEF File0
  <2> QED BY <2>1, <2>2, <2>3 DEF FanDoes, Named
<1>5. IsFiniteSet(S) BY Finite
<1> HIDE DEF S, X
<1>6. Leads(i) \in Seq(Statement) /\ Range(Leads(i)) = {X[u] : u \in S} BY <1>1, <1>2, <1>5, Each
<1> QED BY <1>3, <1>4, <1>6 DEF Led, Will

LEMMA PruneLeads ==
    ASSUME TypeOK, NEW i \in Statement, i.do = "pruneCustom" PROVE Led(i, Leads(i))
<1> DEFINE S == {u \in User : Exists(u)}
           X == [u \in S |-> File(i.path, u, users[u].name, NoFile)]
<1>1. \A u \in S : X[u] \in Statement BY Makes, Shapes, Kinds
<1>2. Leads(i) = [n \in 1..Cardinality(S) |-> X[SetToSeq(S)[n]]]
  BY Listed, Finite DEF Leads, ForUsers, ForEach
<1>3. \A u \in S : X[u].do = "file" /\ Later(X[u]) BY DEF File, Later, First
<1>4. ASSUME NEW f \in File0, NEW b PROVE Does(i, f, b) <=> \E u \in S : Does(X[u], f, b)
  <2>1. \A u \in S : Does(X[u], f, b) <=> f = <<i.path, u, users[u].name>> /\ b = NoFile
    BY DEF Does, File
  <2>2. Does(i, f, b) <=> f[1] = i.path /\ Named(f) /\ b = NoFile BY DEF Does
  <2>3. f[2] \in User /\ f = <<f[1], f[2], f[3]>> BY DEF File0
  <2> QED BY <2>1, <2>2, <2>3 DEF Named
<1>5. IsFiniteSet(S) BY Finite
<1> HIDE DEF S, X
<1>6. Leads(i) \in Seq(Statement) /\ Range(Leads(i)) = {X[u] : u \in S} BY <1>1, <1>2, <1>5, Each
<1> QED BY <1>3, <1>4, <1>6 DEF Led, Will

LEMMA CustomsLeads ==
    ASSUME TypeOK, NEW i \in Statement, i.do = "customs" PROVE Led(i, Leads(i))
<1> DEFINE S == CustomLists
           X == [p \in S |-> OnList("compose", p)]
<1>1. \A p \in S : X[p] \in Statement BY Makes, Shapes
<1>2. Leads(i) = [n \in 1..Cardinality(S) |-> X[SetToSeq(S)[n]]]
  BY Listed, Finite DEF Leads, ForEach
<1>3. \A p \in S : X[p].do = "compose" /\ Later(X[p]) BY DEF OnList, Later, First, CustomLists
<1>4. ASSUME NEW f \in File0, NEW b PROVE Does(i, f, b) <=> \E p \in S : Does(X[p], f, b)
  <2>1. \A p \in S : Does(X[p], f, b) <=> ComposeDoes(p, f, b) BY DEF Does, OnList
  <2>2. Does(i, f, b) <=> \E p \in CustomLists : ComposeDoes(p, f, b) BY DEF Does
  <2> QED BY <2>1, <2>2
<1>5. IsFiniteSet(S) BY Finite
<1> HIDE DEF S, X
<1>6. Leads(i) \in Seq(Statement) /\ Range(Leads(i)) = {X[p] : p \in S} BY <1>1, <1>2, <1>5, Each
<1> QED BY <1>3, <1>4, <1>6 DEF Led, Will, Readers

LEMMA UserCustomsLeads ==
    ASSUME TypeOK, NEW i \in Statement, i.do = "userCustoms" PROVE Led(i, Leads(i))
<1> DEFINE S == CustomLists
           X == [p \in S |-> File(playlists[p].path, i.user, i.doc.name, CustomBody(i.doc, p, playlists[p]))]
<1>1. \A p \in S : X[p] \in Statement
  <2> SUFFICES ASSUME NEW p \in S PROVE X[p] \in Statement OBVIOUS
  <2>1. /\ p \in List /\ playlists[p] \in Playlist /\ playlists[p].path \in Surface
        /\ i.user \in User /\ i.doc \in Account /\ i.doc.name \in Name
    BY Shapes, Kinds
  <2>2. CustomBody(i.doc, p, playlists[p]) \in Body \cup {NoFile} BY <2>1, Shapes
  <2> QED BY <2>1, <2>2, Makes
<1>2. Leads(i) = [n \in 1..Cardinality(S) |-> X[SetToSeq(S)[n]]]
  BY Listed, Finite DEF Leads, ForEach
<1>3. \A p \in S : X[p].do = "file" /\ Later(X[p]) BY DEF File, Later, First
<1>4. ASSUME NEW f \in File0, NEW b PROVE Does(i, f, b) <=> \E p \in S : Does(X[p], f, b)
  <2>1. \A p \in S : Does(X[p], f, b) <=>
            f = <<playlists[p].path, i.user, i.doc.name>> /\ b = CustomBody(i.doc, p, playlists[p])
    BY DEF Does, File
  <2>2. Does(i, f, b) <=> Of(i, f) /\ \E p \in CustomLists :
            f[1] = playlists[p].path /\ b = CustomBody(i.doc, p, playlists[p])
    BY DEF Does
  <2>3. f = <<f[1], f[2], f[3]>> BY DEF File0
  <2> QED BY <2>1, <2>2, <2>3 DEF Of
<1>5. IsFiniteSet(S) BY Finite
<1> HIDE DEF S, X
<1>6. Leads(i) \in Seq(Statement) /\ Range(Leads(i)) = {X[p] : p \in S} BY <1>1, <1>2, <1>5, Each
<1> QED BY <1>3, <1>4, <1>6 DEF Led, Will

LEMMA PruneUserCustomsLeads ==
    ASSUME TypeOK, NEW i \in Statement, i.do = "pruneUserCustoms" PROVE Led(i, Leads(i))
<1> DEFINE S == CustomLists
           X == [p \in S |-> File(playlists[p].path, i.user, i.doc.name, NoFile)]
<1>1. \A p \in S : X[p] \in Statement BY Makes, Shapes, Kinds
<1>2. Leads(i) = [n \in 1..Cardinality(S) |-> X[SetToSeq(S)[n]]]
  BY Listed, Finite DEF Leads, ForEach
<1>3. \A p \in S : X[p].do = "file" /\ Later(X[p]) BY DEF File, Later, First
<1>4. ASSUME NEW f \in File0, NEW b PROVE Does(i, f, b) <=> \E p \in S : Does(X[p], f, b)
  <2>1. \A p \in S : Does(X[p], f, b) <=> f = <<playlists[p].path, i.user, i.doc.name>> /\ b = NoFile
    BY DEF Does, File
  <2>2. Does(i, f, b) <=> Of(i, f) /\ Custom(f[1]) /\ b = NoFile BY DEF Does
  <2>3. f = <<f[1], f[2], f[3]>> BY DEF File0
  <2> QED BY <2>1, <2>2, <2>3 DEF Of, Custom
<1>5. IsFiniteSet(S) BY Finite
<1> HIDE DEF S, X
<1>6. Leads(i) \in Seq(Statement) /\ Range(Leads(i)) = {X[p] : p \in S} BY <1>1, <1>2, <1>5, Each
<1> QED BY <1>3, <1>4, <1>6 DEF Led, Will

LEMMA UserGlobalLeads ==
    ASSUME TypeOK, NEW i \in Statement, i.do = "userGlobal" PROVE Led(i, Leads(i))
<1> DEFINE x == File(Global, i.user, i.doc.name, GlobalBody(i.doc, GlobalLists))
<1>1. Leads(i) = <<x>> BY DEF Leads
<1>2. x \in Statement BY Makes, Shapes, Kinds
<1>3. Range(<<x>>) = {x} BY Few
<1>4. x.do = "file" /\ Later(x) BY DEF File, Later, First
<1>5. ASSUME NEW f \in File0, NEW b PROVE Does(i, f, b) <=> Does(x, f, b)
  <2>1. Does(x, f, b) <=> f = <<Global, i.user, i.doc.name>> /\ b = GlobalBody(i.doc, GlobalLists)
    BY DEF Does, File
  <2>2. Does(i, f, b) <=> Of(i, f) /\ f[1] = Global /\ b = GlobalBody(i.doc, GlobalLists)
    BY DEF Does
  <2>3. f = <<f[1], f[2], f[3]>> BY DEF File0
  <2> QED BY <2>1, <2>2, <2>3 DEF Of
<1> HIDE DEF x
<1> QED BY <1>1, <1>2, <1>3, <1>4, <1>5 DEF Led, Will

LEMMA PruneUserLeads ==
    ASSUME TypeOK, NEW i \in Statement, i.do = "pruneUser" PROVE Led(i, Leads(i))
<1> DEFINE x == File(Global, i.user, i.doc.name, NoFile)
           y == OfUser("pruneUserCustoms", i.user, i.doc)
<1>1. Leads(i) = <<x, y>> BY DEF Leads
<1>2. x \in Statement /\ y \in Statement BY Makes, Shapes, Kinds
<1>3. Range(<<x, y>>) = {x, y} BY Few
<1>4. /\ x.do = "file" /\ Later(x) /\ y.do \in Readers /\ Later(y)
  BY DEF File, OfUser, Readers, Later, First
<1>5. ASSUME NEW f \in File0, NEW b PROVE Does(i, f, b) <=> Does(x, f, b) \/ Does(y, f, b)
  <2>1. Does(x, f, b) <=> f = <<Global, i.user, i.doc.name>> /\ b = NoFile
    BY DEF Does, File
  <2>2. Does(y, f, b) <=> f[2] = i.user /\ f[3] = i.doc.name /\ Custom(f[1]) /\ b = NoFile
    BY DEF Does, OfUser, Of
  <2>3. Does(i, f, b) <=> Of(i, f) /\ (f[1] = Global \/ Custom(f[1])) /\ b = NoFile
    BY DEF Does
  <2>4. f = <<f[1], f[2], f[3]>> BY DEF File0
  <2> QED BY <2>1, <2>2, <2>3, <2>4 DEF Of
<1> HIDE DEF x, y
<1> QED BY <1>1, <1>2, <1>3, <1>4, <1>5 DEF Led, Will

LEMMA ComposeLed ==
    ASSUME TypeOK, NEW i \in Statement, i.do = "compose", ~Throws(i) PROVE Led(i, Leads(i))
<1> DEFINE p == i.list
           l == playlists[p]
<1>1. p \in List /\ l # NoList /\ l \in Playlist BY Kinds, Shapes DEF Throws
<1>2. \A f, b : Does(i, f, b) <=> ComposeDoes(p, f, b) BY DEF Does
<1>3. Leads(i) = ComposeLeads(i) BY DEF Leads
<1>4. CASE l.endpoint = "global"
  <2> DEFINE x == Do("global")
  <2>1. Leads(i) = <<x>> BY <1>3, <1>4 DEF ComposeLeads
  <2>2. x \in Statement BY Makes
  <2>3. x.do \in Readers /\ Later(x) BY DEF Do, Readers, Later, First
  <2>4. \A f, b : Does(i, f, b) <=> Does(x, f, b) BY <1>2, <1>4 DEF ComposeDoes, Does, Do
  <2>5. Range(<<x>>) = {x} BY Few
  <2> HIDE DEF x
  <2> QED BY <2>1, <2>2, <2>3, <2>4, <2>5 DEF Led, Will
<1>5. CASE l.endpoint # "global" /\ l.state
  <2> DEFINE x == [do |-> "customFan", list |-> p, target |-> l]
  <2>1. Leads(i) = <<x>> BY <1>3, <1>5 DEF ComposeLeads
  <2>2. x \in Statement BY <1>1, Makes
  <2>3. x.do \in Readers /\ Later(x) BY <1>1 DEF Readers, Later, First
  <2>4. \A f, b : Does(i, f, b) <=> Does(x, f, b) BY <1>2, <1>5 DEF ComposeDoes, Does
  <2>5. Range(<<x>>) = {x} BY Few
  <2> HIDE DEF x
  <2> QED BY <2>1, <2>2, <2>3, <2>4, <2>5 DEF Led, Will
<1>6. CASE l.endpoint # "global" /\ ~l.state
  <2> DEFINE x == Prune(l.path)
  <2>1. Leads(i) = <<x>> BY <1>3, <1>6 DEF ComposeLeads
  <2>2. x \in Statement BY <1>1, Makes DEF Playlist
  <2>3. x.do \in Readers /\ Later(x) BY DEF Prune, Readers, Later, First
  <2>4. \A f, b : Does(x, f, b) <=> f[1] = l.path /\ Named(f) /\ b = NoFile BY DEF Does, Prune
  <2>5. \A f, b : ComposeDoes(p, f, b) <=> f[1] = l.path /\ Named(f) /\ b = NoFile
    BY <1>6 DEF ComposeDoes, FanDoes, CustomBody
  <2>6. Range(<<x>>) = {x} BY Few
  <2> HIDE DEF x
  <2> QED BY <1>2, <2>1, <2>2, <2>3, <2>4, <2>5, <2>6 DEF Led, Will
<1> QED BY <1>1, <1>4, <1>5, <1>6

LEMMA Leading ==
    ASSUME TypeOK, NEW i \in Statement, i.do \in Readers, ~Throws(i) PROVE Led(i, Leads(i))
BY GlobalLeads, FanLeads, ComposeLed, CustomFanLeads, PruneLeads, CustomsLeads, UserGlobalLeads,
   UserCustomsLeads, PruneUserLeads, PruneUserCustomsLeads DEF Readers
-----------------------------------------------------------------------------
(* Types.                                                                     *)
LEMMA Merges ==
    /\ \A now, doc, new \in Account : Merged(now, doc, new) \in Account
    /\ \A doc, new \in Account : Merged(doc, doc, new) = new
    /\ \A now \in Playlist, sent \in Sent : With(now, sent) \in Playlist
<1>1. ASSUME NEW now \in Account, NEW doc \in Account, NEW new \in Account
      PROVE  Merged(now, doc, new) \in Account
  BY DEF Account, Merged
<1>2. ASSUME NEW doc \in Account, NEW new \in Account PROVE Merged(doc, doc, new) = new
  BY DEF Account, Merged
<1>3. ASSUME NEW now \in Playlist, NEW sent \in Sent PROVE With(now, sent) \in Playlist
  BY DEF Playlist, With, Sent
<1> QED BY <1>1, <1>2, <1>3

LEMMA NewAccount ==
    ASSUME NEW role \in {"admin", "user"}, NEW ls \in SUBSET List, NEW cs \in SUBSET List
    PROVE  Account0(role, ls, cs) \in Account /\ Account0(role, ls, cs).enabled
BY ExportsAssumption DEF Account0, Account

LEMMA AccessAccount ==
    ASSUME NEW d \in Account
    PROVE  AllAccess(d) \in Account /\ AllAccess(d).name = d.name
BY DEF AllAccess, Account, CustomLists

(* A task's work becomes other statements, and nothing but.                   *)
LEMMA WorkKeeps ==
    ASSUME TypeOK, NEW t \in Task, NEW w \in Seq(Statement), work' = [work EXCEPT ![t] = w]
    PROVE  work' \in [Task -> Seq(Statement)] /\ work'[t] = w /\ \A s \in Task \ {t} : work'[s] = work[s]
BY DEF TypeOK

LEMMA GoesKeeps ==
    ASSUME TypeOK, NEW t \in Task, work[t] # <<>>, NEW todo \in Seq(Statement), Goes(t, todo)
    PROVE  /\ work' \in [Task -> Seq(Statement)] /\ work'[t] = todo \o Tail(work[t])
           /\ \A s \in Task \ {t} : work'[s] = work[s]
           /\ requests' = requests /\ faults' = faults /\ solo' = solo
<1>1. work[t] \in Seq(Statement) BY DEF TypeOK
<1>2. todo \o Tail(work[t]) \in Seq(Statement) BY <1>1, Splice
<1> QED BY <1>2, WorkKeeps DEF Goes

LEMMA HeadStatement ==
    ASSUME TypeOK, NEW t \in Task, work[t] # <<>>
    PROVE  Item(t) \in Statement /\ Item(t) \in Range(work[t])
<1>1. work[t] \in Seq(Statement) /\ <<>> \in Seq(Statement) BY DEF TypeOK
<1> QED BY <1>1, Splice DEF Item

LEMMA StartTypes ==
    ASSUME TypeOK, NEW t \in Task, NEW todo \in Seq(Statement), Start(t, todo)
    PROVE  /\ work' \in [Task -> Seq(Statement)] /\ requests' \in Nat /\ faults' \in Nat
           /\ solo' \subseteq Task /\ calm' \in {"exact", "live", "none"}
<1>1. work' \in [Task -> Seq(Statement)] BY WorkKeeps DEF Start
<1> QED BY <1>1 DEF Start, TypeOK

LEMMA OneOfThem ==
    /\ <<>> \in Seq(Statement)
    /\ \A x \in Statement : <<x>> \in Seq(Statement)
    /\ \A x, y \in Statement : <<x, y>> \in Seq(Statement)
    /\ \A x, y, z \in Statement : <<x, y, z>> \in Seq(Statement)
OBVIOUS

LEMMA EditsTyped == ASSUME NEW d \in Account PROVE Edits(d) \subseteq Account
<1>1. \A n \in Name : Renamed(d, n) \in Account BY DEF Renamed, Account
<1>2. \A k \in Token : [d EXCEPT !.token = k] \in Account BY DEF Account
<1>3. [d EXCEPT !.enabled = ~d.enabled] \in Account BY DEF Account
<1>4. \A r \in {"admin", "user"} : [d EXCEPT !.role = r] \in Account BY DEF Account
<1>5. \A p \in Builtin : [d EXCEPT !.lists = SymDiff(@, {p})] \in Account BY DEF Account, SymDiff, List
<1>6. \A p \in List : [d EXCEPT !.customs = SymDiff(@, {p})] \in Account BY DEF Account, SymDiff
<1> QED BY <1>1, <1>2, <1>3, <1>4, <1>5, <1>6 DEF Edits

LEMMA ListEditsTyped ==
    ASSUME NEW l \in Playlist PROVE ListEdits(l) \subseteq Sent
<1>1. [state |-> ~l.state] \in Sent BY DEF Sent, Playlist
<1>2. [endpoint |-> "custom"] \in Sent BY DEF Sent
<1>3. [endpoint |-> "global", path |-> Unknown] \in Sent BY ExportsAssumption DEF Sent
<1>4. \A x \in Path : [endpoint |-> "custom", path |-> x] \in Sent BY DEF Sent
<1>5. \A x \in Path : [path |-> x] \in Sent BY DEF Sent
<1>6. Unknown \in Path BY ExportsAssumption
<1> QED BY <1>1, <1>2, <1>3, <1>4, <1>5, <1>6 DEF ListEdits

LEMMA ReconcileTyped ==
    ASSUME NEW p \in List, NEW before \in Playlist, NEW new \in Playlist
    PROVE  Reconcile(p, before, new) \in Seq(Statement)
<1>1. /\ Prune(before.path) \in Statement /\ Do("global") \in Statement
      /\ OnList("compose", p) \in Statement
  BY Makes DEF Playlist
<1>2. <<Do("global")>> \o <<>> \in Seq(Statement) BY <1>1
<1>3. <<Do("global")>> \o <<OnList("compose", p)>> \in Seq(Statement) BY <1>1
<1> QED BY <1>1, <1>2, <1>3, OneOfThem DEF Reconcile

LEMMA ArriveTypes == ASSUME TypeOK, NEW t \in Task, Arrive(t) PROVE TypeOK'
<1>1. CASE CreateUser(t)
  <2>1. PICK u \in User, role \in {"admin", "user"}, S \in {{}, List} :
           Start(t, <<OfUser("insert", u, IF role = "admin" THEN AllAccess(Account0(role, {}, {}))
                                          ELSE Account0(role, S \cap Builtin, S))>>)
    BY <1>1 DEF CreateUser
  <2>2. AllAccess(Account0(role, {}, {})) \in Account BY NewAccount, AccessAccount
  <2>3. Account0(role, S \cap Builtin, S) \in Account BY NewAccount
  <2>4. (IF role = "admin" THEN AllAccess(Account0(role, {}, {}))
         ELSE Account0(role, S \cap Builtin, S)) \in Account BY <2>2, <2>3
  <2>5. OfUser("insert", u, IF role = "admin" THEN AllAccess(Account0(role, {}, {}))
                            ELSE Account0(role, S \cap Builtin, S)) \in Statement
    BY <2>4, Makes
  <2> QED BY <1>1, <2>1, <2>5, OneOfThem, StartTypes DEF CreateUser, TypeOK
<1>2. CASE EditUser(t)
  <2>0. PICK u \in User : Exists(u) /\ \E new \in Edits(users[u]) :
           Start(t, <<[do |-> "edit", user |-> u, doc |-> users[u], new |-> new]>>)
    BY <1>2 DEF EditUser
  <2>1. PICK new \in Edits(users[u]) :
           Start(t, <<[do |-> "edit", user |-> u, doc |-> users[u], new |-> new]>>)
    BY <2>0
  <2>2. users[u] \in Account /\ new \in Account BY <2>0, <2>1, Shapes, EditsTyped
  <2>3. [do |-> "edit", user |-> u, doc |-> users[u], new |-> new] \in Statement BY <2>2, Makes
  <2> QED BY <1>2, <2>1, <2>3, OneOfThem, StartTypes DEF EditUser, TypeOK
<1>3. CASE DeleteUser(t)
  <2>1. PICK u \in User : /\ Exists(u) /\ users' = [users EXCEPT ![u] = Deleted]
                          /\ Start(t, <<OfUser("pruneUser", u, users[u])>>)
    BY <1>3 DEF DeleteUser
  <2>2. OfUser("pruneUser", u, users[u]) \in Statement BY <2>1, Shapes, Makes
  <2>3. users' \in [User -> Account \cup {NoUser, Deleted}] BY <2>1 DEF TypeOK
  <2> QED BY <1>3, <2>1, <2>2, <2>3, OneOfThem, StartTypes DEF DeleteUser, TypeOK
<1>4. CASE CreateClone(t)
  <2>1. PICK p \in Clone : Start(t, <<OnList("create", p)>>) BY <1>4 DEF CreateClone
  <2>2. OnList("create", p) \in Statement BY Makes DEF List
  <2> QED BY <1>4, <2>1, <2>2, OneOfThem, StartTypes DEF CreateClone, TypeOK
<1>5. CASE EditList(t)
  <2>0. PICK p \in List : playlists[p] # NoList /\ \E sent \in ListEdits(playlists[p]) :
           Start(t, <<[do |-> "set", list |-> p, doc |-> playlists[p], sent |-> sent]>>)
    BY <1>5 DEF EditList
  <2>1. PICK sent \in ListEdits(playlists[p]) :
           Start(t, <<[do |-> "set", list |-> p, doc |-> playlists[p], sent |-> sent]>>)
    BY <2>0
  <2>2. playlists[p] \in Playlist /\ sent \in Sent BY <2>0, <2>1, Shapes, ListEditsTyped
  <2>3. [do |-> "set", list |-> p, doc |-> playlists[p], sent |-> sent] \in Statement BY <2>2, Makes
  <2> QED BY <1>5, <2>1, <2>3, OneOfThem, StartTypes DEF EditList, TypeOK
<1>6. CASE DeleteList(t)
  <2>1. PICK p \in List : /\ playlists[p] # NoList
           /\ Start(t,
                IF p \in Clone
                THEN <<OnList("drop", p), Prune(playlists[p].path), OnList("pullCustom", p)>>
                ELSE <<OnList("drop", p), OnList("pull", p),
                       IF playlists[p].endpoint = "custom" THEN Prune(playlists[p].path) ELSE Do("global")>>)
    BY <1>6 DEF DeleteList
  <2>2. playlists[p].path \in Path BY <2>1, Shapes DEF Playlist
  <2>3. /\ OnList("drop", p) \in Statement /\ OnList("pullCustom", p) \in Statement
        /\ OnList("pull", p) \in Statement /\ Prune(playlists[p].path) \in Statement
        /\ Do("global") \in Statement
    BY <2>2, Makes
  <2>4. CASE p \in Clone
    <3>1. <<OnList("drop", p), Prune(playlists[p].path), OnList("pullCustom", p)>> \in Seq(Statement)
      BY <2>3, OneOfThem
    <3>2. Start(t, <<OnList("drop", p), Prune(playlists[p].path), OnList("pullCustom", p)>>)
      BY <2>1, <2>4
    <3> QED BY <1>6, <3>1, <3>2, StartTypes DEF DeleteList, TypeOK
  <2>5. CASE p \notin Clone
    <3> PICK x : x = IF playlists[p].endpoint = "custom" THEN Prune(playlists[p].path) ELSE Do("global")
      OBVIOUS
    <3>1. x \in Statement BY <2>3
    <3>2. <<OnList("drop", p), OnList("pull", p), x>> \in Seq(Statement) BY <2>3, <3>1, OneOfThem
    <3>3. Start(t, <<OnList("drop", p), OnList("pull", p), x>>) BY <2>1, <2>5
    <3> QED BY <1>6, <3>2, <3>3, StartTypes DEF DeleteList, TypeOK
  <2> QED BY <2>4, <2>5
<1>7. CASE Compose(t)
  <2>1. PICK p \in List : Start(t, <<OnList("compose", p)>>) BY <1>7 DEF Compose
  <2>2. OnList("compose", p) \in Statement BY Makes
  <2> QED BY <1>7, <2>1, <2>2, OneOfThem, StartTypes DEF Compose, TypeOK
<1>8. CASE RecomposeAll(t)
  <2>1. Do("global") \in Statement /\ Do("customs") \in Statement /\ Do("recomposed") \in Statement
    BY Makes
  <2> QED BY <1>8, <2>1, OneOfThem, StartTypes DEF RecomposeAll, TypeOK
<1> QED BY <1>1, <1>2, <1>3, <1>4, <1>5, <1>6, <1>7, <1>8 DEF Arrive

LEMMA CaughtTyped ==
    ASSUME NEW w \in Seq(Statement)
    PROVE  Caught(w) \in Seq(Statement) /\ \A i \in Range(Caught(w)) : i.do = "pullCustom"
<1>1. CASE w # <<>> /\ Last(w).do = "pullCustom"
  <2>1. Last(w) \in Statement BY <1>1 DEF Last
  <2>2. Caught(w) = <<Last(w)>> BY <1>1 DEF Caught
  <2> QED BY <1>1, <2>1, <2>2, OneOfThem, Few
<1>2. CASE ~(w # <<>> /\ Last(w).do = "pullCustom")
  <2>1. Caught(w) = <<>> BY <1>2 DEF Caught
  <2> QED BY <2>1, OneOfThem, Few
<1> QED BY <1>1, <1>2

LEMMA ComposeUserTyped ==
    ASSUME NEW u \in User, NEW d \in Account
    PROVE  /\ ComposeUser(u, d) \in Seq(Statement)
           /\ Range(ComposeUser(u, d)) = {OfUser("userGlobal", u, d), OfUser("userCustoms", u, d)}
<1>1. OfUser("userGlobal", u, d) \in Statement /\ OfUser("userCustoms", u, d) \in Statement BY Makes
<1> QED BY <1>1, OneOfThem, Few DEF ComposeUser

(* What a save makes of the account, and what is left to do then.             *)
Saved(i) == IF Rearranges(i.doc, i.new) THEN [i.new EXCEPT !.v = i.doc.v + 1] ELSE i.new
StaleSave(i) == ~Exists(i.user) \/ (Rearranges(i.doc, i.new) /\ users[i.user].v # i.doc.v)
AfterSave(i) == (IF i.doc.name # Saved(i).name THEN <<OfUser("pruneUser", i.user, i.doc)>> ELSE <<>>)
                \o ComposeUser(i.user, Saved(i))

LEMMA SaveIs ==
    ASSUME NEW t \in Task, Save(t)
    PROVE  LET i == Item(t) IN
           /\ At(t, "save") /\ UNCHANGED <<playlists, files, calm>>
           /\ StaleSave(i) => users' = users /\ Goes(t, <<>>)
           /\ ~StaleSave(i) =>
                /\ users' = [users EXCEPT ![i.user] = Merged(users[i.user], i.doc, Saved(i))]
                /\ Goes(t, AfterSave(i))
BY DEF Save, StaleSave, Saved, AfterSave

LEMMA SavedTyped ==
    ASSUME NEW i \in Statement, i.do = "save"
    PROVE  Saved(i) \in Account /\ Saved(i).name = i.new.name /\ AfterSave(i) \in Seq(Statement)
<1>1. i.user \in User /\ i.doc \in Account /\ i.new \in Account BY Kinds
<1>2. Saved(i) \in Account /\ Saved(i).name = i.new.name BY <1>1 DEF Saved, Account
<1>3. ComposeUser(i.user, Saved(i)) \in Seq(Statement) BY <1>1, <1>2, ComposeUserTyped
<1>4. OfUser("pruneUser", i.user, i.doc) \in Statement BY <1>1, Makes
<1>5. <<>> \in Seq(Statement) /\ <<OfUser("pruneUser", i.user, i.doc)>> \in Seq(Statement)
  BY <1>4, OneOfThem
<1> QED BY <1>2, <1>3, <1>5 DEF AfterSave

Settles(i) == CASE i.new.role = "admin" /\ i.doc.role = "user" -> AllAccess(i.new)
                [] i.new.role = "user" /\ i.doc.role = "admin" ->
                     [i.new EXCEPT !.lists = {}, !.customs = {}]
                [] OTHER -> i.new
LEMMA SettlesTyped ==
    ASSUME NEW i \in Statement, i.do = "edit"
    PROVE  [do |-> "save", user |-> i.user, doc |-> i.doc, new |-> Settles(i)] \in Statement
<1>1. i.user \in User /\ i.doc \in Account /\ i.new \in Account BY Kinds
<1>2. AllAccess(i.new) \in Account BY <1>1, AccessAccount
<1>3. [i.new EXCEPT !.lists = {}, !.customs = {}] \in Account BY <1>1 DEF Account
<1>4. Settles(i) \in Account BY <1>1, <1>2, <1>3 DEF Settles
<1> QED BY <1>1, <1>4, Makes

LEMMA StepTypes == ASSUME TypeOK, NEW t \in Task, Step(t) PROVE TypeOK'
<1> DEFINE i == Item(t)
<1>0. work[t] # <<>> BY DEF Step, Insert, Edit, Save, Create, Grant, Set, Drop, Pull, Read, Write, Recomposed, At
<1>i. i \in Statement BY <1>0, HeadStatement
<1>w. ASSUME NEW todo \in Seq(Statement), Goes(t, todo)
      PROVE  /\ work' \in [Task -> Seq(Statement)] /\ requests' \in Nat /\ faults' \in Nat
             /\ solo' \subseteq Task
  BY <1>0, <1>w, GoesKeeps DEF TypeOK
<1>n. <<>> \in Seq(Statement) BY OneOfThem
<1>1. CASE Insert(t)
  <2>1. i.do = "insert" /\ i.user \in User /\ i.doc \in Account BY <1>1, <1>i, Kinds DEF Insert, At, Item
  <2>2. users' \in [User -> Account \cup {NoUser, Deleted}] BY <1>1, <2>1 DEF Insert, TypeOK
  <2>3. ComposeUser(i.user, i.doc) \in Seq(Statement) BY <2>1, ComposeUserTyped
  <2> QED BY <1>1, <1>w, <1>n, <2>2, <2>3 DEF Insert, TypeOK
<1>2. CASE Edit(t)
  <2>1. i.do = "edit" BY <1>2 DEF Edit, At, Item
  <2>2. <<[do |-> "save", user |-> i.user, doc |-> i.doc, new |-> Settles(i)]>> \in Seq(Statement)
    BY <1>i, <2>1, SettlesTyped, OneOfThem
  <2>3. Goes(t, <<[do |-> "save", user |-> i.user, doc |-> i.doc, new |-> Settles(i)]>>) BY <1>2 DEF Edit, Settles
  <2> QED BY <1>2, <1>w, <2>2, <2>3 DEF Edit, TypeOK
<1>3. CASE Save(t)
  <2>1. i.do = "save" BY <1>3 DEF Save, At, Item
  <2>2. i.user \in User /\ i.doc \in Account BY <1>i, <2>1, Kinds
  <2>3. CASE StaleSave(i) BY <1>3, <2>3, <1>w, <1>n, SaveIs DEF TypeOK
  <2>4. CASE ~StaleSave(i)
    <3>1. users[i.user] \in Account BY <2>2, <2>4, Shapes DEF StaleSave
    <3>2. Merged(users[i.user], i.doc, Saved(i)) \in Account
      BY <1>i, <2>1, <2>2, <3>1, SavedTyped, Merges
    <3>3. users' \in [User -> Account \cup {NoUser, Deleted}] BY <1>3, <2>2, <2>4, <3>2, SaveIs DEF TypeOK
    <3>4. AfterSave(i) \in Seq(Statement) /\ Goes(t, AfterSave(i)) BY <1>3, <1>i, <2>1, <2>4, SavedTyped, SaveIs
    <3>5. UNCHANGED <<playlists, files, calm>> BY <1>3 DEF Save
    <3> QED BY <1>w, <3>3, <3>4, <3>5 DEF TypeOK
  <2> QED BY <2>3, <2>4
<1>4. CASE Create(t)
  <2>1. i.do = "create" /\ i.list \in List /\ i.list \in Clone BY <1>4, <1>i, Kinds DEF Create, At, Item
  <2>2. <<OnList("grant", i.list), OnList("compose", i.list)>> \in Seq(Statement)
    BY <2>1, Makes, OneOfThem
  <2>3. calm' \in {"exact", "live", "none"} BY <1>4 DEF Create, KnownStill, TypeOK
  <2>4. [endpoint |-> "custom", state |-> TRUE, path |-> OwnPath[i.list]] \in Playlist
    BY <2>1, ExportsAssumption DEF Playlist
  <2>5. playlists' \in [List -> Playlist \cup {NoList}] BY <1>4, <2>4 DEF Create, TypeOK
  <2> QED BY <1>4, <1>w, <1>n, <2>2, <2>3, <2>5 DEF Create, TypeOK
<1>5. CASE Grant(t)
  <2>1. i.do = "grant" /\ i.list \in List BY <1>5, <1>i, Kinds DEF Grant, At, Item
  <2>2. \A u \in User : Exists(u) => [users[u] EXCEPT !.customs = @ \cup {i.list}] \in Account
    BY <2>1, Shapes DEF Account
  <2>3. users' \in [User -> Account \cup {NoUser, Deleted}] BY <1>5, <2>2 DEF Grant, TypeOK
  <2> QED BY <1>5, <1>w, <1>n, <2>3 DEF Grant, TypeOK
<1>6. CASE Set(t)
  <2>1. i.do = "set" /\ i.list \in List /\ i.doc \in Playlist /\ i.sent \in Sent
    BY <1>6, <1>i, Kinds DEF Set, At, Item
  <2>2. calm' \in {"exact", "live", "none"} BY <1>6 DEF Set, KnownStill, TypeOK
  <2>3. CASE playlists[i.list] = NoList BY <1>6, <2>3, <2>2, <1>w, <1>n DEF Set, TypeOK
  <2>4. CASE playlists[i.list] # NoList
    <3> DEFINE now == With(playlists[i.list], i.sent)
    <3>1. now \in Playlist BY <2>1, <2>4, Shapes, Merges
    <3>2. playlists' = [playlists EXCEPT ![i.list] = now] BY <1>6, <2>4 DEF Set
    <3>3. playlists' \in [List -> Playlist \cup {NoList}] BY <3>1, <3>2 DEF TypeOK
    <3>4. Goes(t, IF now = i.doc THEN <<>> ELSE Reconcile(i.list, i.doc, now)) BY <1>6, <2>4 DEF Set
    <3>5. Reconcile(i.list, i.doc, now) \in Seq(Statement) BY <2>1, <3>1, ReconcileTyped
    <3> QED BY <1>6, <1>w, <1>n, <2>2, <3>3, <3>4, <3>5 DEF Set, TypeOK
  <2> QED BY <2>3, <2>4
<1>7. CASE Drop(t)
  <2>1. playlists' \in [List -> Playlist \cup {NoList}] BY <1>7 DEF Drop, TypeOK
  <2> QED BY <1>7, <1>w, <1>n, <2>1 DEF Drop, TypeOK
<1>8. CASE Pull(t)
  <2>2. \A u \in User, ls \in SUBSET List : Exists(u) =>
          [users[u] EXCEPT !.customs = @ \ {i.list}, !.lists = ls] \in Account
    BY Shapes DEF Account
  <2>3. \A u \in User : Exists(u) => users[u].lists \in SUBSET List BY Shapes DEF Account
  <2>4. \A u \in User : Exists(u) =>
          [users[u] EXCEPT !.customs = @ \ {i.list},
                           !.lists = IF At(t, "pull") THEN @ \ {i.list} ELSE @] \in Account
    BY Shapes DEF Account
  <2>5. users' \in [User -> Account \cup {NoUser, Deleted}] BY <1>8, <2>4 DEF Pull, TypeOK
  <2> QED BY <1>8, <1>w, <1>n, <2>5 DEF Pull, TypeOK
<1>9. CASE Read(t)
  <2>1. CASE Throws(i)
    <3>1. Caught(work[t]) \in Seq(Statement) BY CaughtTyped DEF TypeOK
    <3>2. work' \in [Task -> Seq(Statement)] BY <1>9, <2>1, <3>1, WorkKeeps DEF Read
    <3> QED BY <1>9, <2>1, <3>2 DEF Read, TypeOK
  <2>2. CASE ~Throws(i)
    <3>1. Leads(i) \in Seq(Statement) BY <1>9, <1>i, <2>2, Leading DEF Read, Led
    <3> QED BY <1>9, <1>w, <2>2, <3>1 DEF Read, TypeOK
  <2> QED BY <2>1, <2>2
<1>10. CASE Write(t)
  <2>1. i.do = "file" /\ i.file \in File0 /\ i.body \in Body \cup {NoFile}
    BY <1>10, <1>i, Kinds DEF Write, At, Item
  <2>2. files' \in [File0 -> Body \cup {NoFile}] BY <1>10, <2>1 DEF Write, TypeOK
  <2> QED BY <1>10, <1>w, <1>n, <2>2 DEF Write, TypeOK
<1>11. CASE Recomposed(t)
  <2>1. Tail(work[t]) \in Seq(Statement) BY <1>0 DEF TypeOK
  <2>2. work' \in [Task -> Seq(Statement)] BY <1>11, <2>1, WorkKeeps DEF Recomposed
  <2> QED BY <1>11, <2>2 DEF Recomposed, TypeOK
<1> QED BY <1>1, <1>2, <1>3, <1>4, <1>5, <1>6, <1>7, <1>8, <1>9, <1>10, <1>11 DEF Step

LEMMA InitTypes == Init => TypeOK
<1> SUFFICES ASSUME Init PROVE TypeOK OBVIOUS
<1>1. users \in [User -> Account \cup {NoUser, Deleted}]
  <2>1. Account0("admin", Builtin, {}) \in Account /\ Account0("user", Builtin, {}) \in Account
    BY NewAccount DEF List
  <2> QED BY <2>1 DEF Init
<1>2. playlists \in [List -> Playlist \cup {NoList}]
  BY ExportsAssumption DEF Init, Playlist
<1>3. GlobalLists \in SUBSET List BY DEF GlobalLists, List
<1>4. files \in [File0 -> Body \cup {NoFile}]
  <2>1. \A u \in User : Exists(u) => users[u] \in Account BY <1>1 DEF Exists
  <2>2. \A u \in User : Exists(u) => GlobalBody(users[u], GlobalLists) \in Body \cup {NoFile}
    BY <1>3, <2>1 DEF GlobalBody, Body, Visible, Account
  <2>3. \A f \in File0 : f[2] \in User BY DEF File0
  <2> QED BY <2>2, <2>3 DEF Init
<1>5. work \in [Task -> Seq(Statement)] BY OneOfThem DEF Init
<1> QED BY <1>1, <1>2, <1>4, <1>5 DEF Init, TypeOK

LEMMA NextTypes == TypeOK /\ [Next]_vars => TypeOK'
<1> SUFFICES ASSUME TypeOK, [Next]_vars PROVE TypeOK' OBVIOUS
<1>1. ASSUME NEW t \in Task, WriteFails(t) PROVE TypeOK'
  <2>1. work[t] \in Seq(Statement) /\ work[t] # <<>> BY <1>1 DEF TypeOK, WriteFails, At
  <2>4. Tail(work[t]) \in Seq(Statement) BY <2>1
  <2>2. Caught(Tail(work[t])) \in Seq(Statement) BY <2>4, CaughtTyped
  <2>3. work' \in [Task -> Seq(Statement)] BY <1>1, <2>2, WorkKeeps DEF WriteFails
  <2> QED BY <1>1, <2>3 DEF WriteFails, TypeOK
<1>2. CASE Crash BY <1>2, OneOfThem DEF Crash, TypeOK
<1>3. CASE UNCHANGED vars BY <1>3 DEF vars, TypeOK
<1> QED BY <1>1, <1>2, <1>3, ArriveTypes, StepTypes DEF Next
-----------------------------------------------------------------------------
(* What a file should hold, read off the documents.                           *)
ShouldBe == TypeOK /\ PathsOwn => \A f \in File0 :
    /\ Live(f) <=> Named(f) /\ (f[1] = Global \/ Custom(f[1]))
    /\ ~Live(f) => Should(f) = NoFile
    /\ Named(f) /\ f[1] = Global => Should(f) = GlobalBody(users[f[2]], GlobalLists)
    /\ \A p \in CustomLists : Named(f) /\ f[1] = playlists[p].path
                               => Should(f) = CustomBody(users[f[2]], p, playlists[p])

LEMMA ShouldBeNow == ShouldBe
<1> SUFFICES ASSUME TypeOK, PathsOwn, NEW f \in File0
             PROVE  /\ Live(f) <=> Named(f) /\ (f[1] = Global \/ Custom(f[1]))
                    /\ ~Live(f) => Should(f) = NoFile
                    /\ Named(f) /\ f[1] = Global => Should(f) = GlobalBody(users[f[2]], GlobalLists)
                    /\ \A p \in CustomLists : Named(f) /\ f[1] = playlists[p].path
                               => Should(f) = CustomBody(users[f[2]], p, playlists[p])
  BY DEF ShouldBe
<1> DEFINE d == users[f[2]]
           here == {p \in CustomLists : playlists[p].path = f[1] /\ p \in (d.customs \cup
                     (IF d.role = "admin" THEN List ELSE {})) /\ playlists[p].state}
<1>1. Should(f) = IF ~Exists(f[2]) \/ f[3] # d.name \/ ~d.enabled THEN NoFile
                  ELSE IF f[1] = Global THEN [token |-> d.token, lists |-> Visible(d, GlobalLists)]
                  ELSE IF here = {} THEN NoFile ELSE [token |-> d.token, lists |-> here]
  BY DEF Should
<1>2. Live(f) <=> Named(f) /\ (f[1] = Global \/ Custom(f[1])) BY DEF Live, Named, Custom
<1>3. ~Live(f) => Should(f) = NoFile
  <2> SUFFICES ASSUME ~Live(f), Named(f) PROVE Should(f) = NoFile BY <1>1 DEF Named
  <2>1. f[1] # Global /\ here = {} BY <1>2 DEF Custom
  <2> HIDE DEF here
  <2> QED BY <1>1, <2>1
<1>4. Named(f) /\ f[1] = Global => Should(f) = GlobalBody(d, GlobalLists)
  BY <1>1 DEF Named, GlobalBody
<1>5. ASSUME NEW p \in CustomLists, Named(f), f[1] = playlists[p].path
      PROVE  Should(f) = CustomBody(d, p, playlists[p])
  <2>1. f[1] # Global /\ p \in List BY <1>5, Shapes, ValuesAssumption
  <2>2. \A q \in CustomLists : playlists[q].path = f[1] => q = p
    BY <1>5, Shapes DEF PathsOwn, CustomLists
  <2>3. CASE (p \in d.customs \/ d.role = "admin") /\ playlists[p].state
    <3>1. here = {p} BY <1>5, <2>1, <2>2, <2>3
    <3>2. here # {} BY <3>1
    <3> HIDE DEF here
    <3> QED BY <1>1, <1>5, <2>1, <2>3, <3>1, <3>2 DEF Named, CustomBody
  <2>4. CASE ~((p \in d.customs \/ d.role = "admin") /\ playlists[p].state)
    <3>1. here = {} BY <2>2, <2>4
    <3> HIDE DEF here
    <3> QED BY <1>1, <1>5, <2>1, <2>4, <3>1 DEF Named, CustomBody
  <2> QED BY <2>3, <2>4
<1> QED BY <1>2, <1>3, <1>4, <1>5

LEMMA ShouldBeNext == ShouldBe'
BY ShouldBeNow, PTL

(* A statement that is put in front does not come behind the mark.            *)
LEMMA MarkSplice ==
    ASSUME NEW w \in Seq(Statement), w # <<>>, NEW todo \in Seq(Statement), MarkLast(w),
           \A x \in Range(todo) : x.do # "recomposed",
           HasMark(w) => \A x \in Range(todo) : x.do \in Readers \cup {"file"}
    PROVE  MarkLast(todo \o Tail(w)) /\ (HasMark(todo \o Tail(w)) => HasMark(w))
<1> DEFINE v == todo \o Tail(w)
<1>1. /\ Len(v) = Len(todo) + Len(w) - 1
      /\ Len(todo) \in Nat /\ Len(w) \in Nat /\ Len(w) > 0
      /\ DOMAIN v = 1..Len(v) /\ DOMAIN w = 1..Len(w) /\ DOMAIN todo = 1..Len(todo)
      /\ \A n \in 1..Len(todo) : v[n] = todo[n]
      /\ \A n \in 2..Len(w) : v[Len(todo) + n - 1] = w[n]
  OBVIOUS
<1>2. \A i \in Range(v) : i \in Range(todo) \/ i \in Range(w) BY Splice
<1> HIDE DEF v
<1>3. ASSUME NEW n \in DOMAIN v, v[n].do = "recomposed"
      PROVE  n = Len(v) /\ HasMark(w)
             /\ \A i \in Range(v) : i.do \in Readers \cup {"file", "recomposed"}
  <2>1. n \notin 1..Len(todo) BY <1>1, <1>3 DEF Range
  <2> DEFINE m == n - Len(todo) + 1
  <2>2. m \in 2..Len(w) /\ n = Len(todo) + m - 1 BY <1>1, <2>1
  <2> HIDE DEF m
  <2>3. w[m].do = "recomposed" /\ m \in DOMAIN w BY <1>1, <1>3, <2>2
  <2>4. HasMark(w) BY <2>3 DEF HasMark, Range
  <2>5. m = Len(w) /\ \A i \in Range(w) : i.do \in Readers \cup {"file", "recomposed"}
    BY <2>3 DEF MarkLast
  <2>6. n = Len(v) BY <1>1, <2>2, <2>5
  <2> QED BY <1>2, <2>4, <2>5, <2>6
<1>4. MarkLast(v) BY <1>3 DEF MarkLast
<1>5. HasMark(v) => HasMark(w) BY <1>3 DEF HasMark, Range
<1> QED BY <1>4, <1>5 DEF v

LEMMA NoMark ==
    ASSUME NEW w, \A x \in Range(w) : x.do # "recomposed" PROVE MarkLast(w) /\ ~HasMark(w)
BY DEF MarkLast, HasMark, Range

(* A step of a task that others see nothing of.                               *)
LEMMA Frame ==
    ASSUME IInv, TypeOK', NEW t \in Task, work[t] # <<>>, solo' = solo,
           \A s \in Task \ {t} : work'[s] = work[s],
           MarkLast(work'[t]),
           calm' # "none" => PathsOwn' /\ (calm # "none" \/ t \in solo),
           Tracked(t)' => Ahead(work[t])'
    PROVE  IInv'
<1>1. \A s \in solo : s = t BY DEF IInv, Lone
<1>2. solo \subseteq Task BY DEF IInv, TypeOK
<1>3. calm # "none" => t \in solo BY DEF IInv, Lone
<1>4. Lone'
  <2>1. ASSUME NEW s \in solo', NEW r \in Task, work'[r] # <<>> PROVE r = s
    <3>1. s = t BY <2>1, <1>1
    <3>2. CASE r # t
      <4>1. work[r] # <<>> BY <2>1, <3>2
      <4> QED BY <4>1, <2>1 DEF IInv, Lone
    <3> QED BY <3>1, <3>2
  <2>2. ASSUME calm' # "none", NEW r \in Task, work'[r] # <<>> PROVE r \in solo'
    <3>1. t \in solo BY <2>2, <1>3
    <3>2. CASE r # t
      <4>1. work[r] # <<>> BY <2>2, <3>2
      <4> QED BY <3>1, <3>2, <4>1 DEF IInv, Lone
    <3> QED BY <3>1, <3>2
  <2> QED BY <2>1, <2>2 DEF Lone
<1>5. \A s \in Task : MarkLast(work'[s]) BY DEF IInv
<1>6. \A s \in Task : Tracked(s)' => s = t BY <1>1 DEF Tracked
<1>7. ASSUME Idle', calm' # "none" PROVE AllRight'
  <2>1. t \in solo BY <1>7, <1>3
  <2>2. Ahead(work[t])' BY <1>7, <2>1 DEF Tracked
  <2>3. work'[t] = <<>> BY <1>7 DEF Idle
  <2>4. Heals(<<>>)' BY <2>2, <2>3 DEF Ahead, Poised
  <2>5. \A f, b : ~Will(<<>>, f, b)' BY Few DEF Will
  <2> QED BY <2>4, <2>5 DEF Heals, AllRight
<1>8. Follows' BY <1>6, <1>7 DEF Follows
<1> QED BY <1>4, <1>5, <1>8 DEF IInv, MarkLast, Range

LEMMA SameDocs ==
    ASSUME UNCHANGED <<users, playlists>>
    PROVE  /\ PathsOwn' <=> PathsOwn
           /\ \A f : Should(f)' = Should(f) /\ (Live(f)' <=> Live(f))
           /\ \A i, f, b : Does(i, f, b)' <=> Does(i, f, b)
           /\ \A i : Later(i)' <=> Later(i)
           /\ \A w : Poised(w)' <=> Poised(w)
<1>1. /\ \A u : Exists(u)' <=> Exists(u)
      /\ CustomLists' = CustomLists /\ GlobalLists' = GlobalLists
  BY DEF Exists, CustomLists, GlobalLists
<1>2. PathsOwn' <=> PathsOwn BY <1>1 DEF PathsOwn
<1>3. \A f : Should(f)' = Should(f) BY <1>1 DEF Should
<1>4. \A f : (Live(f)' <=> Live(f)) /\ (Named(f)' <=> Named(f)) BY <1>1 DEF Live, Named
<1>5. \A x : Custom(x)' <=> Custom(x) BY <1>1 DEF Custom
<1>6. \A gl, f, b : GlobalDoes(gl, f, b)' <=> GlobalDoes(gl, f, b) BY <1>4 DEF GlobalDoes
<1>7. \A p, l, f, b : FanDoes(p, l, f, b)' <=> FanDoes(p, l, f, b) BY <1>4 DEF FanDoes
<1>8. \A p, f, b : ComposeDoes(p, f, b)' <=> ComposeDoes(p, f, b) BY <1>1, <1>6, <1>7 DEF ComposeDoes
<1>9. ASSUME NEW i, NEW f, NEW b PROVE Does(i, f, b)' <=> Does(i, f, b)
  BY <1>1, <1>4, <1>5, <1>6, <1>7, <1>8 DEF Does
<1>10. \A i : Later(i)' <=> Later(i) BY DEF Later
<1>11. \A w : Poised(w)' <=> Poised(w) BY <1>1 DEF Poised
<1> QED BY <1>2, <1>3, <1>4, <1>9, <1>10, <1>11

LEMMA NotPoised ==
    ASSUME NEW t \in Task, work[t] # <<>>, Item(t).do \notin First, Ahead(work[t])
    PROVE  Laters(work[t]) /\ Heals(work[t])
BY DEF Ahead, Poised, Item, First

LEMMA ReadKeeps == ASSUME IInv, NEW t \in Task, Read(t), TypeOK' PROVE IInv'
<1> DEFINE i == Item(t)
           w == work[t]
<1>1. /\ w \in Seq(Statement) /\ w # <<>> /\ i \in Statement /\ i \in Range(w) /\ i = Head(w)
      /\ i.do \in Readers /\ i.do \notin First
  BY HeadStatement DEF IInv, TypeOK, Read, Item, Readers, First
<1>2. /\ UNCHANGED <<users, playlists, files, calm>> /\ solo' = solo
      /\ MarkLast(w) /\ (calm # "none" => PathsOwn /\ t \in solo)
  BY <1>1 DEF Read, Goes, IInv, Follows, Lone
<1>3. Tracked(t) => Laters(w) /\ Heals(w)
  BY <1>1, NotPoised DEF IInv, Follows
<1>4. CASE Throws(i)
  <2>1. Caught(w) \in Seq(Statement) /\ \A x \in Range(Caught(w)) : x.do = "pullCustom"
    BY <1>1, CaughtTyped
  <2>2. work'[t] = Caught(w) /\ \A s \in Task \ {t} : work'[s] = work[s]
    BY <1>4, <2>1, WorkKeeps DEF Read, IInv
  <2>3. MarkLast(work'[t]) /\ ~HasMark(work'[t]) BY <2>1, <2>2, NoMark
  <2>4. ~Tracked(t)'
    <3> SUFFICES ASSUME Tracked(t)' PROVE FALSE OBVIOUS
    <3>1. Tracked(t) BY <1>2, <2>3 DEF Tracked, HasMark, Range
    <3>2. Later(i) BY <1>1, <1>3, <3>1 DEF Laters
    <3> QED BY <1>4, <3>2 DEF Later, Throws
  <2> QED BY <1>1, <1>2, <2>2, <2>3, <2>4, SameDocs, Frame
<1>5. CASE ~Throws(i)
  <2>1. Led(i, Leads(i)) BY <1>1, <1>5, Leading DEF IInv
  <2>2. Goes(t, Leads(i)) BY <1>5 DEF Read
  <2>v. PICK v : v = Leads(i) \o Tail(w) OBVIOUS
  <2>3. work'[t] = v /\ \A s \in Task \ {t} : work'[s] = work[s]
    BY <1>1, <2>v, <2>1, <2>2, GoesKeeps DEF Led, IInv
  <2>4. Leads(i) \in Seq(Statement) BY <2>1 DEF Led
  <2>5. /\ v \in Seq(Statement)
        /\ \A x \in Range(v) : x \in Range(Leads(i)) \/ x \in Range(w)
        /\ \A x \in Range(Leads(i)) : x \in Range(v)
        /\ \A x \in Range(w) : x = i \/ x \in Range(v)
    BY <1>1, <2>v, <2>4, Splice
  <2>6. MarkLast(v) /\ (HasMark(v) => HasMark(w))
    BY <1>1, <1>2, <2>v, <2>1, <2>4, MarkSplice DEF Led, Readers
  <2>7. \A f \in File0 : \A b : Will(v, f, b) <=> Will(w, f, b)
    BY <1>1, <2>1, <2>5 DEF Led, Will
  <2>8. ASSUME Tracked(t)' PROVE Ahead(v)'
    <3>1. Tracked(t) BY <1>2, <2>3, <2>6, <2>8, SameDocs DEF Tracked, HasMark, Range
    <3>2. Laters(v) BY <1>1, <1>3, <3>1, <2>1, <2>5 DEF Laters, Led
    <3>3. Heals(v) BY <1>3, <3>1, <2>7 DEF Heals
    <3>4. \A f, b : Will(v, f, b)' <=> Will(v, f, b) BY SameDocs, <1>2 DEF Will, Range
    <3>5. Laters(v)' BY <1>2, <3>2, SameDocs DEF Laters, Range
    <3>6. Heals(v)' BY <1>2, <3>3, <3>4, SameDocs DEF Heals, Scope, Right
    <3> QED BY <3>5, <3>6 DEF Ahead
  <2> QED BY <1>1, <1>2, <2>3, <2>6, <2>8, SameDocs, Frame
<1> QED BY <1>4, <1>5

(* What each kind of statement does, once no two Custom playlists share a     *)
(* path: it puts what should be there, or prunes.                             *)
Covers(p) == IF playlists[p].endpoint = "global" THEN Global ELSE playlists[p].path
DoesRight == TypeOK /\ PathsOwn => \A f \in File0 : \A b :
    /\ Does(Do("global"), f, b) <=> Live(f) /\ f[1] = Global /\ b = Should(f)
    /\ Does(Do("customs"), f, b) <=> Live(f) /\ f[1] # Global /\ b = Should(f)
    /\ \A p \in List : playlists[p] # NoList =>
         (Does(OnList("compose", p), f, b) <=> Live(f) /\ b = Should(f) /\ f[1] = Covers(p))
    /\ \A u \in User, d \in Account : users[u] = d =>
         /\ Does(OfUser("userGlobal", u, d), f, b)
              <=> Live(f) /\ f[2] = u /\ f[1] = Global /\ b = Should(f)
         /\ Does(OfUser("userCustoms", u, d), f, b)
              <=> Live(f) /\ f[2] = u /\ f[1] # Global /\ b = Should(f)
    /\ \A x \in Path : Does(Prune(x), f, b) <=> f[1] = x /\ Named(f) /\ b = NoFile
    /\ \A u \in User, d \in Account : Does(OfUser("pruneUser", u, d), f, b)
         <=> f[2] = u /\ f[3] = d.name /\ (f[1] = Global \/ Custom(f[1])) /\ b = NoFile

LEMMA DoesRightNow == DoesRight
<1> SUFFICES ASSUME TypeOK, PathsOwn, NEW f \in File0, NEW b
    PROVE
    /\ Does(Do("global"), f, b) <=> Live(f) /\ f[1] = Global /\ b = Should(f)
    /\ Does(Do("customs"), f, b) <=> Live(f) /\ f[1] # Global /\ b = Should(f)
    /\ \A p \in List : playlists[p] # NoList =>
         (Does(OnList("compose", p), f, b) <=> Live(f) /\ b = Should(f) /\ f[1] = Covers(p))
    /\ \A u \in User, d \in Account : users[u] = d =>
         /\ Does(OfUser("userGlobal", u, d), f, b)
              <=> Live(f) /\ f[2] = u /\ f[1] = Global /\ b = Should(f)
         /\ Does(OfUser("userCustoms", u, d), f, b)
              <=> Live(f) /\ f[2] = u /\ f[1] # Global /\ b = Should(f)
    /\ \A x \in Path : Does(Prune(x), f, b) <=> f[1] = x /\ Named(f) /\ b = NoFile
    /\ \A u \in User, d \in Account : Does(OfUser("pruneUser", u, d), f, b)
         <=> f[2] = u /\ f[3] = d.name /\ (f[1] = Global \/ Custom(f[1])) /\ b = NoFile
  BY DEF DoesRight
<1>s. /\ Live(f) <=> Named(f) /\ (f[1] = Global \/ Custom(f[1]))
      /\ Named(f) /\ f[1] = Global => Should(f) = GlobalBody(users[f[2]], GlobalLists)
      /\ \A p \in CustomLists : Named(f) /\ f[1] = playlists[p].path
                               => Should(f) = CustomBody(users[f[2]], p, playlists[p])
  BY ShouldBeNow DEF ShouldBe
<1>g. /\ \A p \in CustomLists : playlists[p].path # Global
      /\ Custom(f[1]) <=> \E p \in CustomLists : f[1] = playlists[p].path
  BY Shapes, ValuesAssumption DEF Custom
<1>1. GlobalDoes(GlobalLists, f, b) <=> Live(f) /\ f[1] = Global /\ b = Should(f)
  BY <1>s DEF GlobalDoes
<1>2. \A p \in CustomLists : FanDoes(p, playlists[p], f, b)
                             <=> Live(f) /\ f[1] = playlists[p].path /\ b = Should(f)
  BY <1>s, <1>g DEF FanDoes
<1>3. \A p \in List : playlists[p] # NoList /\ playlists[p].endpoint # "global" => p \in CustomLists
  BY Shapes DEF CustomLists, Playlist
<1>4. \A p \in CustomLists : playlists[p] # NoList /\ playlists[p].endpoint # "global" BY DEF CustomLists
<1>5. \A p \in List : playlists[p] # NoList =>
         (ComposeDoes(p, f, b) <=>
            /\ Live(f) /\ b = Should(f) /\ f[1] = Covers(p))
  BY <1>1, <1>2, <1>3 DEF ComposeDoes, Covers
<1>6. Does(Do("global"), f, b) <=> GlobalDoes(GlobalLists, f, b) BY DEF Does, Do
<1>7. Does(Do("customs"), f, b) <=> \E p \in CustomLists : ComposeDoes(p, f, b) BY DEF Does, Do
<1>8. \A p : Does(OnList("compose", p), f, b) <=> ComposeDoes(p, f, b) BY DEF Does, OnList
<1>9. (\E p \in CustomLists : ComposeDoes(p, f, b)) <=> Live(f) /\ f[1] # Global /\ b = Should(f)
  BY <1>2, <1>4, <1>g, <1>s DEF ComposeDoes
<1>10. ASSUME NEW u \in User, NEW d \in Account, users[u] = d
       PROVE  /\ Does(OfUser("userGlobal", u, d), f, b)
                   <=> Live(f) /\ f[2] = u /\ f[1] = Global /\ b = Should(f)
              /\ Does(OfUser("userCustoms", u, d), f, b)
                   <=> Live(f) /\ f[2] = u /\ f[1] # Global /\ b = Should(f)
  <2>1. Does(OfUser("userGlobal", u, d), f, b)
          <=> f[2] = u /\ f[3] = d.name /\ f[1] = Global /\ b = GlobalBody(d, GlobalLists)
    BY DEF Does, OfUser, Of
  <2>2. Does(OfUser("userCustoms", u, d), f, b)
          <=> f[2] = u /\ f[3] = d.name /\ \E p \in CustomLists :
                  f[1] = playlists[p].path /\ b = CustomBody(d, p, playlists[p])
    BY DEF Does, OfUser, Of
  <2>3. f[2] = u => (Named(f) <=> f[3] = d.name) /\ users[f[2]] = d
    BY <1>10, ValuesAssumption DEF Named, Exists
  <2>4. Does(OfUser("userGlobal", u, d), f, b)
          <=> Live(f) /\ f[2] = u /\ f[1] = Global /\ b = Should(f)
    BY <2>1, <2>3, <1>s
  <2>5. Does(OfUser("userCustoms", u, d), f, b)
          <=> Live(f) /\ f[2] = u /\ f[1] # Global /\ b = Should(f)
    BY <2>2, <2>3, <1>s, <1>g
  <2> QED BY <2>4, <2>5
<1>11. \A x : Does(Prune(x), f, b) <=> f[1] = x /\ Named(f) /\ b = NoFile BY DEF Does, Prune
<1>12. \A u, d : Does(OfUser("pruneUser", u, d), f, b)
         <=> f[2] = u /\ f[3] = d.name /\ (f[1] = Global \/ Custom(f[1])) /\ b = NoFile
  BY DEF Does, OfUser, Of
<1> QED BY <1>1, <1>5, <1>6, <1>7, <1>8, <1>9, <1>10, <1>11, <1>12

LEMMA DoesRightNext == DoesRight'
BY DoesRightNow, PTL

LEMMA DoesNothing ==
    \A f, b : /\ \A what \in {"grant", "pull", "pullCustom"} : \A p : ~Does(OnList(what, p), f, b)
              /\ ~Does(Do("recomposed"), f, b)
BY DEF Does, OnList, Do

(* A step that replaces the head of a task by other statements.               *)
LEMMA Moves ==
    ASSUME IInv, TypeOK', NEW t \in Task, work[t] # <<>>, NEW todo \in Seq(Statement), Goes(t, todo),
           \A x \in Range(todo) : x.do # "recomposed",
           HasMark(work[t]) => playlists' = playlists /\ \A x \in Range(todo) : x.do \in Readers \cup {"file"},
           calm' # "none" => PathsOwn', calm' \in {calm, "none"}, PathsOwn' => calm' = calm,
           Tracked(t) /\ PathsOwn /\ PathsOwn' /\ calm' = calm /\ Ahead(work[t])
             => \A v : v = todo \o Tail(work[t]) => Ahead(v)'
    PROVE  IInv'
<1> DEFINE w == work[t]
<1>1. w \in Seq(Statement) /\ w # <<>> /\ MarkLast(w) BY DEF IInv, TypeOK
<1>2. PICK v : v = todo \o Tail(w) OBVIOUS
<1>3. /\ work'[t] = v /\ \A s \in Task \ {t} : work'[s] = work[s]
      /\ solo' = solo
  BY <1>2, GoesKeeps DEF IInv
<1>4. MarkLast(v) /\ (HasMark(v) => HasMark(w)) BY <1>1, <1>2, MarkSplice
<1>5. MarkLast(work'[t]) BY <1>3, <1>4
<1>6. calm' # "none" => PathsOwn' /\ (calm # "none" \/ t \in solo)
  OBVIOUS
<1>7. ASSUME Tracked(t)' PROVE Ahead(work[t])'
  <2>1. t \in solo /\ PathsOwn' BY <1>3, <1>7 DEF Tracked
  <2>2. calm' = calm BY <2>1
  <2>3. calm # "none" => PathsOwn BY DEF IInv, Follows
  <2>4. calm # "none" \/ HasMark(w) BY <1>3, <1>4, <1>7, <2>2 DEF Tracked, HasMark, Range
  <2>5. PathsOwn
    <3>1. CASE calm # "none" BY <3>1, <2>3
    <3>2. CASE HasMark(w)
      <4>1. playlists' = playlists BY <3>2
      <4>2. CustomLists' = CustomLists BY <4>1 DEF CustomLists
      <4> QED BY <2>1, <4>1, <4>2 DEF PathsOwn
    <3> QED BY <2>4, <3>1, <3>2
  <2>6. Tracked(t) /\ Ahead(w) BY <2>1, <2>4, <2>5 DEF Tracked, IInv, Follows
  <2>7. Ahead(v)' BY <1>2, <2>1, <2>2, <2>5, <2>6
  <2> QED BY <1>3, <2>7
<1> QED BY <1>1, <1>3, <1>5, <1>6, <1>7, Frame

-----------------------------------------------------------------------------
(* What a change of one document leaves alone.                                *)
LEMMA OtherUser ==
    ASSUME playlists' = playlists, NEW f, users'[f[2]] = users[f[2]]
    PROVE  /\ Should(f)' = Should(f) /\ (Live(f)' <=> Live(f)) /\ (Named(f)' <=> Named(f))
           /\ Custom(f[1])' <=> Custom(f[1])
<1>1. CustomLists' = CustomLists /\ GlobalLists' = GlobalLists BY DEF CustomLists, GlobalLists
<1>2. Exists(f[2])' <=> Exists(f[2]) BY DEF Exists
<1> QED BY <1>1, <1>2 DEF Should, Live, Named, Custom

LEMMA OtherList ==
    ASSUME users' = users, NEW p \in List, \A q \in List \ {p} : playlists'[q] = playlists[q],
           NEW f, f[1] = Global => GlobalLists' = GlobalLists,
           p \in CustomLists => playlists[p].path # f[1],
           p \in CustomLists' => playlists'[p].path # f[1]
    PROVE  Should(f)' = Should(f) /\ (Live(f)' <=> Live(f))
<1>1. \A u : Exists(u)' <=> Exists(u) BY DEF Exists
<1>2. \A q \in List \ {p} : q \in CustomLists' <=> q \in CustomLists BY DEF CustomLists
<1>3. CustomLists \subseteq List /\ CustomLists' \subseteq List BY DEF CustomLists
<1>4. {q \in CustomLists' : playlists'[q].path = f[1] /\ q \in (users[f[2]].customs \cup
          (IF users[f[2]].role = "admin" THEN List ELSE {})) /\ playlists'[q].state}
        = {q \in CustomLists : playlists[q].path = f[1] /\ q \in (users[f[2]].customs \cup
          (IF users[f[2]].role = "admin" THEN List ELSE {})) /\ playlists[q].state}
  BY <1>2, <1>3
<1>5. Should(f)' = Should(f) BY <1>1, <1>4 DEF Should
<1>6. Live(f)' <=> Live(f) BY <1>1, <1>2, <1>3 DEF Live
<1> QED BY <1>5, <1>6

LEMMA SameGlobal ==
    ASSUME NEW p \in List, \A q \in List \ {p} : playlists'[q] = playlists[q],
           p \in GlobalLists' <=> p \in GlobalLists
    PROVE  GlobalLists' = GlobalLists
BY DEF GlobalLists, List

(* Before a task's first change nothing is marked.                            *)
LEMMA Unmarked ==
    ASSUME IInv, NEW t \in Task, work[t] # <<>>,
           Item(t).do \notin Readers \cup {"file", "recomposed"}
    PROVE  ~HasMark(work[t])
<1>1. Item(t) \in Range(work[t]) BY HeadStatement DEF IInv
<1>2. MarkLast(work[t]) BY DEF IInv
<1> QED BY <1>1, <1>2 DEF MarkLast, HasMark, Range

LEMMA WriteKeeps == ASSUME IInv, NEW t \in Task, Write(t), TypeOK' PROVE IInv'
<1> DEFINE i == Item(t)
           w == work[t]
<1>1. /\ w \in Seq(Statement) /\ w # <<>> /\ i \in Statement /\ i \in Range(w) /\ i = Head(w)
      /\ i.do = "file" /\ i.do \notin First /\ i.file \in File0
  BY HeadStatement, Kinds DEF IInv, TypeOK, Write, At, Item, First
<1>2. /\ UNCHANGED <<users, playlists, calm>> /\ Goes(t, <<>>)
      /\ files' = [files EXCEPT ![i.file] = i.body]
  BY DEF Write
<1>3. <<>> \in Seq(Statement) /\ Range(<<>>) = {} BY OneOfThem, Few
<1>4. calm # "none" => PathsOwn BY DEF IInv, Follows
<1>5. ASSUME Ahead(w), NEW v, v = <<>> \o Tail(w) PROVE Ahead(v)'
  <2>1. Laters(w) /\ Heals(w) BY <1>1, <1>5, NotPoised
  <2>2. /\ \A x \in Range(v) : x \in Range(w)
        /\ \A x \in Range(w) : x = i \/ x \in Range(v)
    BY <1>1, <1>3, <1>5, Splice
  <2>3. \A f, b : Does(i, f, b) <=> f = i.file /\ b = i.body BY <1>1 DEF Does
  <2>4. \A f, b : Will(w, f, b) <=> (f = i.file /\ b = i.body) \/ Will(v, f, b)
    BY <1>1, <2>2, <2>3 DEF Will
  <2>5. \A f, b : Will(v, f, b)' <=> Will(v, f, b) BY <1>2, SameDocs DEF Will, Range
  <2>6. ASSUME NEW f \in File0, Scope(f)'
        PROVE  /\ \A b : Will(v, f, b) => b = Should(f)'
               /\ Right(f)' \/ \E b : Will(v, f, b)
    <3>1. Scope(f) /\ Should(f)' = Should(f) BY <1>2, <2>6, SameDocs DEF Scope
    <3>2. \A b : Will(v, f, b) => b = Should(f) BY <2>1, <2>4, <3>1 DEF Heals
    <3>3. CASE f = i.file
      <4>1. files'[f] = i.body BY <1>2, <3>3 DEF IInv, TypeOK
      <4>2. i.body = Should(f) BY <2>1, <2>4, <3>1, <3>3 DEF Heals
      <4> QED BY <3>1, <3>2, <4>1, <4>2 DEF Right
    <3>4. CASE f # i.file
      <4>1. files'[f] = files[f] BY <1>2, <3>4 DEF IInv, TypeOK
      <4>2. Right(f) \/ \E b : Will(w, f, b) BY <2>1, <3>1 DEF Heals
      <4> QED BY <2>4, <3>1, <3>2, <3>4, <4>1, <4>2 DEF Right
    <3> QED BY <3>3, <3>4
  <2>7. Heals(v)' BY <2>5, <2>6 DEF Heals
  <2>8. Laters(v)' BY <1>2, <2>1, <2>2, SameDocs DEF Laters, Range
  <2> QED BY <2>7, <2>8 DEF Ahead
<1> QED BY <1>1, <1>2, <1>3, <1>4, <1>5, SameDocs, Moves

LEMMA EditKeeps == ASSUME IInv, NEW t \in Task, Edit(t), TypeOK' PROVE IInv'
<1> DEFINE i == Item(t)
           w == work[t]
<1>1. /\ w \in Seq(Statement) /\ w # <<>> /\ i \in Statement /\ i = Head(w)
      /\ i.do = "edit"
  BY HeadStatement DEF IInv, TypeOK, Edit, At, Item
<1> DEFINE x == [do |-> "save", user |-> i.user, doc |-> i.doc, new |-> Settles(i)]
<1>2. UNCHANGED <<users, playlists, files, calm>> /\ Goes(t, <<x>>)
  BY DEF Edit, Settles
<1>3. x \in Statement /\ x.do = "save" /\ x.user = i.user /\ x.doc = i.doc BY <1>1, SettlesTyped
<1> HIDE DEF x
<1>4. <<x>> \in Seq(Statement) /\ Range(<<x>>) = {x} BY <1>3, OneOfThem, Few
<1>5. ~HasMark(w) BY <1>1, Unmarked DEF Readers
<1>6. calm # "none" => PathsOwn BY DEF IInv, Follows
<1>7. ASSUME Ahead(w), NEW v, v = <<x>> \o Tail(w) PROVE Ahead(v)'
  <2>1. Poised(w) /\ AllRight
    <3>1. i \in Range(w) BY <1>1, HeadStatement DEF IInv
    <3>2. ~Later(i) BY <1>1 DEF Later, First
    <3> QED BY <1>7, <3>1, <3>2 DEF Ahead, Laters
  <2>2. w = <<i>> /\ Exists(i.user) /\ users[i.user] = i.doc BY <1>1, <2>1 DEF Poised
  <2>3. v = <<x>> BY <1>7, <2>2
  <2>4. Head(v) = x /\ v # <<>> BY <2>3
  <2>5. Poised(v) BY <1>3, <2>2, <2>3, <2>4 DEF Poised
  <2>6. AllRight' BY <1>2, <2>1, SameDocs DEF AllRight, Scope, Right
  <2>7. Poised(v)' BY <1>2, <2>5, SameDocs
  <2> QED BY <2>6, <2>7 DEF Ahead
<1> QED BY <1>1, <1>2, <1>3, <1>4, <1>5, <1>6, <1>7, SameDocs, Moves

LEMMA RecomposedKeeps == ASSUME IInv, NEW t \in Task, Recomposed(t), TypeOK' PROVE IInv'
<1> DEFINE i == Item(t)
           w == work[t]
<1>1. /\ w \in Seq(Statement) /\ w # <<>> /\ i \in Statement /\ i \in Range(w) /\ i = Head(w)
      /\ i.do = "recomposed" /\ i.do \notin First
  BY HeadStatement DEF IInv, TypeOK, Recomposed, At, Item, First
<1>2. /\ UNCHANGED <<users, playlists, files>> /\ solo' = solo
      /\ calm' = IF t \in solo /\ calm = "none" /\ PathsOwn THEN "live" ELSE calm
      /\ work' = [work EXCEPT ![t] = Tail(@)]
  BY DEF Recomposed
<1>3. Tail(w) = <<>> /\ \A x \in Range(w) : x = i
  <2>1. 1 \in DOMAIN w /\ w[1] = i BY <1>1
  <2>2. Len(w) = 1 BY <1>1, <2>1 DEF IInv, MarkLast
  <2>3. Tail(w) \in Seq(Statement) /\ Len(Tail(w)) = 0 BY <1>1, <2>2
  <2>4. DOMAIN w = 1..1 BY <1>1, <2>2
  <2>5. \A n \in DOMAIN w : w[n] = i BY <2>1, <2>4
  <2>6. \A x \in Range(w) : x = i BY <2>5 DEF Range
  <2> QED BY <2>3, <2>6, EmptySeq
<1>4. work'[t] = <<>> /\ \A s \in Task \ {t} : work'[s] = work[s] BY <1>2, <1>3 DEF IInv, TypeOK
<1>5. MarkLast(<<>>) /\ ~HasMark(<<>>) BY Few, NoMark
<1>6. calm # "none" => PathsOwn /\ t \in solo BY <1>1 DEF IInv, Follows, Lone
<1>7. ASSUME Tracked(t)' PROVE Ahead(<<>>)'
  <2>1. t \in solo /\ calm' # "none" BY <1>2, <1>4, <1>5, <1>7 DEF Tracked, HasMark, Range
  <2>2. PathsOwn BY <1>2, <1>6, <2>1
  <2>3. Tracked(t) BY <1>1, <2>1, <2>2 DEF Tracked, HasMark
  <2>4. Heals(w) BY <1>1, <2>3, NotPoised DEF IInv, Follows
  <2>5. \A f, b : ~Will(w, f, b)
    <3>1. \A f, b : ~Does(i, f, b) BY <1>1 DEF Does
    <3> QED BY <1>3, <3>1 DEF Will
  <2>6. \A f \in File0 : Scope(f)' => Scope(f) BY <1>2, SameDocs DEF Scope
  <2>7. \A f \in File0 : Scope(f)' => Right(f)'
    BY <1>2, <2>4, <2>5, <2>6, SameDocs DEF Heals, Right
  <2>8. \A f, b : ~Will(<<>>, f, b)' BY Few DEF Will
  <2>9. Laters(<<>>)' BY Few DEF Laters
  <2> QED BY <2>7, <2>8, <2>9 DEF Ahead, Heals
<1>8. calm' # "none" => PathsOwn' BY <1>2, <1>6, SameDocs
<1>9. calm' # "none" => calm # "none" \/ t \in solo BY <1>2
<1> QED BY <1>1, <1>2, <1>4, <1>5, <1>7, <1>8, <1>9, Frame

LEMMA Alone ==
    ASSUME NEW i \in Statement, NEW todo \in Seq(Statement) PROVE todo \o Tail(<<i>>) = todo
<1>1. Tail(<<i>>) = <<>> OBVIOUS
<1> QED BY <1>1, ConcatEmptySeq

LEMMA IsPoised ==
    ASSUME IInv, NEW t \in Task, work[t] # <<>>, Item(t).do \in First, Ahead(work[t])
    PROVE  Poised(work[t]) /\ AllRight
<1>1. Item(t) \in Range(work[t]) BY HeadStatement DEF IInv
<1>2. ~Later(Item(t)) BY DEF Later
<1> QED BY <1>1, <1>2 DEF Ahead, Laters

LEMMA InsertKeeps == ASSUME IInv, NEW t \in Task, Insert(t), TypeOK' PROVE IInv'
<1>0. work[t] # <<>> BY DEF Insert, At
<1> PICK i : i = Item(t) OBVIOUS
<1>1. /\ i \in Statement /\ i.do = "insert" /\ i.user \in User /\ i.doc \in Account
      /\ Item(t).do \in First
  BY <1>0, HeadStatement, Kinds DEF IInv, Insert, At, Item, First
<1> DEFINE u == i.user
           d == i.doc
<1>2. UNCHANGED <<playlists, files, calm>> BY DEF Insert
<1>3. ~HasMark(work[t]) BY <1>0, <1>1, Unmarked DEF Readers
<1>4. calm # "none" => PathsOwn BY DEF IInv, Follows
<1>5. PathsOwn' <=> PathsOwn
  <2>1. CustomLists' = CustomLists BY <1>2 DEF CustomLists
  <2> QED BY <1>2, <2>1 DEF PathsOwn
<1>6. CASE users[u] # NoUser
  <2>1. users' = users /\ Goes(t, <<>>) BY <1>6 DEF Insert
  <2>2. <<>> \in Seq(Statement) /\ Range(<<>>) = {} BY OneOfThem, Few
  <2>3. ~Ahead(work[t])
    <3> SUFFICES ASSUME Ahead(work[t]) PROVE FALSE OBVIOUS
    <3>1. Poised(work[t]) BY <1>0, <1>1, IsPoised
    <3> QED BY <1>1, <1>6, <3>1 DEF Poised, Item
  <2> QED BY <1>0, <1>2, <1>3, <1>4, <1>5, <2>1, <2>2, <2>3, Moves
<1>7. CASE users[u] = NoUser
  <2>1. users' = [users EXCEPT ![u] = d] /\ Goes(t, ComposeUser(u, d)) BY <1>7 DEF Insert
  <2>2. /\ ComposeUser(u, d) \in Seq(Statement)
        /\ Range(ComposeUser(u, d)) = {OfUser("userGlobal", u, d), OfUser("userCustoms", u, d)}
    BY <1>1, ComposeUserTyped
  <2>3. \A x \in Range(ComposeUser(u, d)) : x.do # "recomposed" BY <2>2 DEF OfUser
  <2>4. ASSUME PathsOwn, Ahead(work[t]), NEW v, v = ComposeUser(u, d) \o Tail(work[t])
        PROVE  Ahead(v)'
    <3>1. Poised(work[t]) /\ AllRight BY <1>0, <1>1, <2>4, IsPoised
    <3>2. work[t] = <<i>> BY <1>1, <3>1 DEF Poised, Item
    <3>3. Range(v) = {OfUser("userGlobal", u, d), OfUser("userCustoms", u, d)}
      BY <1>1, <2>2, <2>4, <3>2, Alone
    <3>4. users'[u] = d /\ \A r \in User \ {u} : users'[r] = users[r] BY <1>1, <2>1 DEF IInv, TypeOK
    <3>5. PathsOwn' BY <1>5, <2>4
    <3>6. Laters(v)' BY <3>3 DEF Laters, Later, OfUser, First
    <3>7. \A f \in File0 : \A b : Will(v, f, b)' <=> Live(f)' /\ f[2] = u /\ b = Should(f)'
      BY <1>1, <3>3, <3>4, <3>5, DoesRightNext DEF Will, DoesRight
    <3>8. ASSUME NEW f \in File0, Scope(f)', ~Live(f)' \/ f[2] # u PROVE Right(f)'
      <4>1. CASE f[2] # u
        <5>1. users'[f[2]] = users[f[2]] BY <3>4, <4>1 DEF File0
        <5> QED BY <1>2, <3>1, <3>8, <5>1, OtherUser DEF AllRight, Right, Scope
      <4>2. CASE f[2] = u
        <5>1. ~Live(f) BY <1>7, <4>2 DEF Live, Exists
        <5>2. Should(f) = NoFile /\ Should(f)' = NoFile
          BY <2>4, <3>5, <3>8, <4>2, <5>1, ShouldBeNow, ShouldBeNext DEF ShouldBe, IInv
        <5>3. Scope(f) BY <1>2, <3>8, <4>2 DEF Scope
        <5> QED BY <1>2, <3>1, <5>2, <5>3 DEF AllRight, Right
      <4> QED BY <4>1, <4>2
    <3>9. Heals(v)' BY <3>7, <3>8 DEF Heals
    <3> QED BY <3>6, <3>9 DEF Ahead
  <2> QED BY <1>0, <1>2, <1>3, <1>4, <1>5, <2>1, <2>2, <2>3, <2>4, Moves
<1> QED BY <1>6, <1>7

LEMMA SaveKeeps == ASSUME IInv, NEW t \in Task, Save(t), TypeOK' PROVE IInv'
<1>0. work[t] # <<>> BY DEF Save, At
<1> PICK i : i = Item(t) OBVIOUS
<1>1. /\ i \in Statement /\ i.do = "save" /\ i.user \in User /\ i.doc \in Account
      /\ Item(t).do \in First
  BY <1>0, HeadStatement, Kinds DEF IInv, Save, At, Item, First
<1> DEFINE u == i.user
           d == Saved(i)
           gone == OfUser("pruneUser", u, i.doc)
<1>d. d \in Account /\ d.name = i.new.name BY <1>1, SavedTyped
<1>2. UNCHANGED <<playlists, files, calm>> BY DEF Save
<1>3. ~HasMark(work[t]) BY <1>0, <1>1, Unmarked DEF Readers
<1>4. calm # "none" => PathsOwn BY DEF IInv, Follows
<1>5. PathsOwn' <=> PathsOwn
  <2>1. CustomLists' = CustomLists BY <1>2 DEF CustomLists
  <2> QED BY <1>2, <2>1 DEF PathsOwn
<1>p. ASSUME Ahead(work[t])
      PROVE  AllRight /\ work[t] = <<i>> /\ Exists(u) /\ users[u] = i.doc
  BY <1>0, <1>1, <1>p, IsPoised DEF Poised, Item
<1>6. CASE StaleSave(i)
  <2>1. users' = users /\ Goes(t, <<>>) BY <1>6, SaveIs
  <2>2. <<>> \in Seq(Statement) /\ Range(<<>>) = {} BY OneOfThem, Few
  <2>3. ~Ahead(work[t]) BY <1>6, <1>p DEF StaleSave
  <2> QED BY <1>0, <1>2, <1>3, <1>4, <1>5, <2>1, <2>2, <2>3, Moves
<1>7. CASE ~StaleSave(i)
  <2>1. users' = [users EXCEPT ![u] = Merged(users[u], i.doc, d)] /\ Goes(t, AfterSave(i))
    BY <1>7, SaveIs
  <2>2. AfterSave(i) \in Seq(Statement) BY <1>1, SavedTyped
  <2>3. Range(AfterSave(i)) = {OfUser("userGlobal", u, d), OfUser("userCustoms", u, d)}
                              \cup (IF i.doc.name # d.name THEN {gone} ELSE {})
    <3>2. gone \in Statement BY <1>1, Makes
    <3>3. <<>> \in Seq(Statement) /\ <<gone>> \in Seq(Statement) BY <3>2, OneOfThem
    <3> PICK c : c = ComposeUser(u, d) OBVIOUS
    <3>4. /\ c \in Seq(Statement)
          /\ Range(c) = {OfUser("userGlobal", u, d), OfUser("userCustoms", u, d)}
      BY <1>1, <1>d, ComposeUserTyped
    <3> HIDE DEF gone
    <3>5. CASE i.doc.name # d.name
      <4>1. AfterSave(i) = <<gone>> \o c BY <3>5 DEF AfterSave, gone
      <4>2. Range(<<gone>> \o c) = Range(<<gone>>) \cup Range(c) BY <3>3, <3>4, RangeConcat
      <4>3. Range(<<gone>>) = {gone} BY Few
      <4> QED BY <3>4, <3>5, <4>1, <4>2, <4>3
    <3>6. CASE i.doc.name = d.name
      <4>1. AfterSave(i) = <<>> \o c BY <3>6 DEF AfterSave
      <4>2. Range(<<>> \o c) = Range(<<>>) \cup Range(c) BY <3>3, <3>4, RangeConcat
      <4> QED BY <3>4, <3>6, <4>1, <4>2, Few
    <3> QED BY <3>5, <3>6
  <2>4. \A x \in Range(AfterSave(i)) : x.do # "recomposed" BY <2>3 DEF OfUser
  <2>5. ASSUME PathsOwn, Ahead(work[t]), NEW v, v = AfterSave(i) \o Tail(work[t])
        PROVE  Ahead(v)'
    <3>1. AllRight /\ work[t] = <<i>> /\ Exists(u) /\ users[u] = i.doc BY <2>5, <1>p
    <3>2. v = AfterSave(i) BY <1>1, <2>2, <2>5, <3>1, Alone
    <3> PICK e : e = d OBVIOUS
    <3>3. Range(v) = {OfUser("userGlobal", u, e), OfUser("userCustoms", u, e)}
                     \cup (IF i.doc.name # e.name THEN {gone} ELSE {})
      BY <2>3, <3>2
    <3>4. users'[u] = e /\ \A r \in User \ {u} : users'[r] = users[r]
      <4>1. Merged(users[u], i.doc, d) = d BY <1>1, <1>d, <3>1, Merges
      <4> QED BY <1>1, <2>1, <4>1 DEF IInv, TypeOK
    <3>5. PathsOwn' BY <1>5, <2>5
    <3>6. Laters(v)' BY <3>3 DEF Laters, Later, OfUser, First
    <3>e. e \in Account /\ Exists(u)' BY <1>d, <3>4, ValuesAssumption DEF Exists
    <3>7. \A f \in File0 : \A b : Will(v, f, b)' <=>
             \/ Live(f)' /\ f[2] = u /\ b = Should(f)'
             \/ /\ i.doc.name # e.name /\ f[2] = u /\ f[3] = i.doc.name
                /\ (f[1] = Global \/ Custom(f[1])') /\ b = NoFile
      <4>1. \A f \in File0 : \A b :
              /\ Does(OfUser("userGlobal", u, e), f, b)' <=> Live(f)' /\ f[2] = u /\ f[1] = Global /\ b = Should(f)'
              /\ Does(OfUser("userCustoms", u, e), f, b)' <=> Live(f)' /\ f[2] = u /\ f[1] # Global /\ b = Should(f)'
              /\ Does(gone, f, b)' <=>
                   f[2] = u /\ f[3] = i.doc.name /\ (f[1] = Global \/ Custom(f[1])') /\ b = NoFile
        BY <1>1, <3>4, <3>5, <3>e, DoesRightNext DEF DoesRight
      <4>2. \A f, b : Will(v, f, b)' <=>
              \/ Does(OfUser("userGlobal", u, e), f, b)' \/ Does(OfUser("userCustoms", u, e), f, b)'
              \/ i.doc.name # e.name /\ Does(gone, f, b)'
        BY <3>3 DEF Will
      <4> HIDE DEF gone
      <4> QED BY <4>1, <4>2
    <3>8. ASSUME NEW f \in File0, Scope(f)'
          PROVE  /\ \A b : Will(v, f, b)' => b = Should(f)'
                 /\ Right(f)' \/ \E b : Will(v, f, b)'
      <4>1. CASE f[2] # u
        <5>1. users'[f[2]] = users[f[2]] BY <3>4, <4>1 DEF File0
        <5>2. Right(f)' BY <1>2, <3>1, <3>8, <5>1, OtherUser DEF AllRight, Right, Scope
        <5> QED BY <3>7, <4>1, <5>2
      <4>2. CASE f[2] = u
        <5>1. /\ Live(f)' <=> f[3] = e.name /\ (f[1] = Global \/ Custom(f[1])')
              /\ ~Live(f)' => Should(f)' = NoFile
          BY <3>4, <3>5, <3>e, <4>2, ShouldBeNext DEF ShouldBe, Named
        <5>2. /\ Live(f) <=> f[3] = i.doc.name /\ (f[1] = Global \/ Custom(f[1]))
              /\ ~Live(f) => Should(f) = NoFile
          BY <2>5, <3>1, <4>2, ShouldBeNow DEF ShouldBe, Named, IInv
        <5>3. Custom(f[1])' <=> Custom(f[1])
          <6>1. CustomLists' = CustomLists BY <1>2 DEF CustomLists
          <6> QED BY <1>2, <6>1 DEF Custom
        <5>4. \A b : Will(v, f, b)' => b = Should(f)' BY <3>7, <5>1
        <5>5. ASSUME ~Live(f)', ~\E b : Will(v, f, b)' PROVE Right(f)'
          <6>1. ~Live(f) BY <3>7, <4>2, <5>1, <5>2, <5>3, <5>5
          <6>2. Scope(f) BY <1>2, <3>8, <5>5 DEF Scope
          <6> QED BY <1>2, <3>1, <5>1, <5>2, <5>5, <6>1, <6>2 DEF AllRight, Right
        <5> QED BY <3>7, <4>2, <5>4, <5>5
      <4> QED BY <4>1, <4>2
    <3>9. Heals(v)' BY <3>8 DEF Heals
    <3> QED BY <3>6, <3>9 DEF Ahead
  <2> QED BY <1>0, <1>2, <1>3, <1>4, <1>5, <2>1, <2>2, <2>4, <2>5, Moves
<1> QED BY <1>6, <1>7

LEMMA CreateKeeps == ASSUME IInv, NEW t \in Task, Create(t), TypeOK' PROVE IInv'
<1>0. work[t] # <<>> BY DEF Create, At
<1> PICK i : i = Item(t) OBVIOUS
<1>1. /\ i \in Statement /\ i.do = "create" /\ i.list \in Clone /\ i.list \in List
      /\ Item(t).do \in First
  BY <1>0, HeadStatement, Kinds DEF IInv, Create, At, Item, First
<1> PICK p : p = i.list OBVIOUS
<1> DEFINE todo == <<OnList("grant", p), OnList("compose", p)>>
<1>2. UNCHANGED <<users, files>> /\ calm' = IF PathsOwn' THEN calm ELSE "none" BY DEF Create, KnownStill
<1>3. ~HasMark(work[t]) BY <1>0, <1>1, Unmarked DEF Readers
<1>4. CASE playlists[p] # NoList
  <2>1. playlists' = playlists /\ Goes(t, <<>>) BY <1>4 DEF Create
  <2>2. <<>> \in Seq(Statement) /\ Range(<<>>) = {} BY OneOfThem, Few
  <2>3. ASSUME Ahead(work[t]), calm' = calm, NEW v, v = <<>> \o Tail(work[t]) PROVE Ahead(v)'
    <3>1. work[t] = <<i>> /\ AllRight BY <1>0, <1>1, <2>3, IsPoised DEF Poised, Item
    <3>2. v = <<>> BY <1>1, <2>2, <2>3, <3>1, Alone
    <3>3. AllRight' BY <1>2, <2>1, <2>3, <3>1, SameDocs DEF AllRight, Scope, Right
    <3>4. \A f, b : ~Will(<<>>, f, b)' BY Few DEF Will
    <3>5. Heals(<<>>)' BY <3>3, <3>4 DEF Heals, AllRight
    <3>6. Laters(<<>>)' BY Few DEF Laters
    <3> QED BY <3>2, <3>5, <3>6 DEF Ahead
  <2> QED BY <1>0, <1>2, <1>3, <2>1, <2>2, <2>3, Moves
<1>5. CASE playlists[p] = NoList
  <2>1. /\ playlists' = [playlists EXCEPT ![p] = [endpoint |-> "custom", state |-> TRUE, path |-> OwnPath[p]]]
        /\ Goes(t, todo)
    BY <1>5 DEF Create
  <2>2. todo \in Seq(Statement) /\ Range(todo) = {OnList("grant", p), OnList("compose", p)}
    BY <1>1, Makes, OneOfThem, Few
  <2>3. \A x \in Range(todo) : x.do # "recomposed" BY <2>2 DEF OnList
  <2>4. /\ playlists'[p] = [endpoint |-> "custom", state |-> TRUE, path |-> OwnPath[p]]
        /\ \A q \in List \ {p} : playlists'[q] = playlists[q]
        /\ playlists'[p] # NoList /\ p \in CustomLists' /\ p \notin CustomLists
        /\ playlists'[p].path = OwnPath[p] /\ playlists'[p].endpoint = "custom"
        /\ OwnPath[p] \in Path
    <3>1. playlists'[p] = [endpoint |-> "custom", state |-> TRUE, path |-> OwnPath[p]]
          /\ \A q \in List \ {p} : playlists'[q] = playlists[q]
      BY <1>1, <2>1 DEF IInv, TypeOK
    <3>2. OwnPath[p] \in Path /\ [endpoint |-> "custom", state |-> TRUE, path |-> OwnPath[p]] \in Playlist
      BY <1>1, ExportsAssumption DEF Playlist
    <3>3. /\ playlists'[p].endpoint = "custom" /\ playlists'[p].path = OwnPath[p]
          /\ playlists'[p] # NoList
      <4>1. playlists'[p] \in Playlist BY <3>1, <3>2
      <4>2. playlists'[p] # NoList BY <4>1, ValuesAssumption
      <4> QED BY <3>1, <4>2
    <3>4. p \in CustomLists' /\ p \notin CustomLists BY <1>1, <1>5, <3>3 DEF CustomLists
    <3> QED BY <3>1, <3>2, <3>3, <3>4
  <2>5. ASSUME PathsOwn, PathsOwn', calm' = calm, Ahead(work[t]), NEW v, v = todo \o Tail(work[t])
        PROVE  Ahead(v)'
    <3>1. work[t] = <<i>> /\ AllRight BY <1>0, <1>1, <2>5, IsPoised DEF Poised, Item
    <3>2. v = todo BY <1>1, <2>2, <2>5, <3>1, Alone
    <3>3. Range(v) = {OnList("grant", p), OnList("compose", p)} BY <2>2, <3>2
    <3>4. Laters(v)' BY <2>4, <3>3 DEF Laters, Later, OnList, First
    <3>5. \A f \in File0 : \A b : Will(v, f, b)' <=> Live(f)' /\ f[1] = OwnPath[p] /\ b = Should(f)'
      <4>1. \A f \in File0 : \A b : Does(OnList("compose", p), f, b)'
                                 <=> Live(f)' /\ b = Should(f)' /\ f[1] = OwnPath[p]
        <5>1. \A f \in File0 : \A b : Does(OnList("compose", p), f, b)'
                 <=> Live(f)' /\ b = Should(f)' /\ f[1] = Covers(p)'
          <6>1. p \in List /\ playlists'[p] # NoList BY <1>1, <2>4
          <6>2. TypeOK' /\ PathsOwn' BY <2>5
          <6>3. \A f \in File0 : \A b : \A q \in List : playlists'[q] # NoList =>
                  (Does(OnList("compose", q), f, b)' <=> Live(f)' /\ b = Should(f)' /\ f[1] = Covers(q)')
            BY <6>2, DoesRightNext DEF DoesRight
          <6> QED BY <6>1, <6>3
        <5>2. Covers(p)' = OwnPath[p] BY <2>4 DEF Covers
        <5> QED BY <5>1, <5>2
      <4>2. \A f, b : ~Does(OnList("grant", p), f, b)' BY DEF Does, OnList
      <4> QED BY <3>3, <4>1, <4>2 DEF Will
    <3>6. GlobalLists' = GlobalLists
      <4>1. p \notin GlobalLists /\ p \notin GlobalLists' BY <1>5, <2>4 DEF GlobalLists
      <4> QED BY <1>1, <2>4, <4>1, SameGlobal
    <3>7. ASSUME NEW f \in File0, Scope(f)', ~Live(f)' \/ f[1] # OwnPath[p] PROVE Right(f)'
      <4>1. CASE f[1] # OwnPath[p]
        <5>1. Should(f)' = Should(f) /\ (Live(f)' <=> Live(f))
          BY <1>1, <1>2, <2>4, <3>6, <4>1, OtherList
        <5> QED BY <1>2, <2>5, <3>1, <3>7, <5>1 DEF AllRight, Right, Scope
      <4>2. CASE f[1] = OwnPath[p] /\ ~Live(f)'
        <5>1. Custom(f[1])' BY <2>4, <4>2 DEF Custom
        <5>2. ~Named(f)' /\ Should(f)' = NoFile BY <2>5, <4>2, <5>1, ShouldBeNext DEF ShouldBe
        <5>3. ~Named(f) BY <1>2, <5>2 DEF Named, Exists
        <5>4. ~Live(f) /\ Should(f) = NoFile BY <2>5, <5>3, ShouldBeNow DEF ShouldBe, IInv
        <5> QED BY <1>2, <2>5, <3>1, <3>7, <4>2, <5>2, <5>4 DEF AllRight, Right, Scope
      <4> QED BY <3>7, <4>1, <4>2
    <3>8. Heals(v)' BY <3>5, <3>7 DEF Heals
    <3> QED BY <3>4, <3>8 DEF Ahead
  <2> QED BY <1>0, <1>2, <1>3, <2>1, <2>2, <2>3, <2>5, Moves
<1> QED BY <1>4, <1>5

(* A task with nothing left, all files right.                                 *)
LEMMA Rested == ASSUME AllRight' PROVE Ahead(<<>>)'
<1>1. \A f, b : ~Will(<<>>, f, b)' BY Few DEF Will
<1>2. Heals(<<>>)' BY <1>1 DEF Heals, AllRight
<1>3. Laters(<<>>)' BY Few DEF Laters
<1> QED BY <1>2, <1>3 DEF Ahead

(* What the files of an edited playlist go through.                           *)
Left(e, a) == e.endpoint = "custom" /\ (a.endpoint = "global" \/ e.path # a.path)
Inside(e, a) == e.endpoint = "custom" /\ a.endpoint = "custom" /\ e.path # a.path
LEMMA Reconciles ==
    ASSUME NEW p \in List, NEW e \in Playlist, NEW a \in Playlist, NEW v, v = Reconcile(p, e, a)
    PROVE  Range(v) = (IF Left(e, a) THEN {Prune(e.path)} ELSE {})
                      \cup (IF Inside(e, a) THEN {} ELSE {Do("global")})
                      \cup (IF a.endpoint = "custom" THEN {OnList("compose", p)} ELSE {})
<1> PICK x : x = Prune(e.path) OBVIOUS
<1> PICK y : y = Do("global") OBVIOUS
<1> PICK z : z = OnList("compose", p) OBVIOUS
<1>0. x \in Statement /\ y \in Statement /\ z \in Statement BY Makes DEF Playlist
<1>1. Range(<<y>> \o <<>>) = {y} /\ Range(<<y>> \o <<z>>) = {y, z}
  <2> PICK ys : ys = <<y>> OBVIOUS
  <2> PICK zs : zs = <<z>> OBVIOUS
  <2> PICK ns : ns = <<>> OBVIOUS
  <2>1. ys \in Seq(Statement) /\ zs \in Seq(Statement) BY <1>0, OneOfThem
  <2>4. ns \in Seq(Statement) BY OneOfThem
  <2>2. Range(ys) = {y} /\ Range(zs) = {z} /\ Range(ns) = {} BY Few
  <2>3. Range(ys \o ns) = Range(ys) \cup Range(ns) BY <2>1, <2>4, RangeConcat
  <2>5. Range(ys \o zs) = Range(ys) \cup Range(zs) BY <2>1, RangeConcat
  <2> QED BY <2>2, <2>3, <2>5
<1>2. e.endpoint \in {"custom", "global"} /\ a.endpoint \in {"custom", "global"} BY DEF Playlist
<1>3. CASE e.endpoint = "custom" /\ a.endpoint = "global"
  <2>1. v = <<x, y>> BY <1>3 DEF Reconcile
  <2>2. Range(v) = {x, y} BY <2>1, Few
  <2> QED BY <1>3, <2>2 DEF Left, Inside
<1>4. CASE e.endpoint = "global" /\ a.endpoint = "custom"
  <2>1. v = <<y, z>> BY <1>4 DEF Reconcile
  <2>2. Range(v) = {y, z} BY <2>1, Few
  <2> QED BY <1>4, <2>2 DEF Left, Inside
<1>5. CASE e.endpoint = "custom" /\ a.endpoint = "custom" /\ e.path # a.path
  <2>1. v = <<x, z>> BY <1>5 DEF Reconcile
  <2>2. Range(v) = {x, z} BY <2>1, Few
  <2> QED BY <1>5, <2>2 DEF Left, Inside
<1>6. CASE e.endpoint = "custom" /\ a.endpoint = "custom" /\ e.path = a.path
  <2>1. v = <<y>> \o <<z>> BY <1>6 DEF Reconcile
  <2>2. Range(v) = {y, z} BY <1>1, <2>1
  <2> QED BY <1>6, <2>2 DEF Left, Inside
<1>7. CASE e.endpoint = "global" /\ a.endpoint = "global"
  <2>1. v = <<y>> \o <<>> BY <1>7 DEF Reconcile
  <2>2. Range(v) = {y} BY <1>1, <2>1
  <2> QED BY <1>7, <2>2 DEF Left, Inside
<1> QED BY <1>2, <1>3, <1>4, <1>5, <1>6, <1>7

LEMMA SetKeeps == ASSUME IInv, NEW t \in Task, Set(t), TypeOK' PROVE IInv'
<1>0. work[t] # <<>> BY DEF Set, At
<1> PICK i : i = Item(t) OBVIOUS
<1>1. /\ i \in Statement /\ i.do = "set" /\ i.list \in List /\ i.doc \in Playlist /\ i.sent \in Sent
      /\ Item(t).do \in First
  BY <1>0, HeadStatement, Kinds DEF IInv, Set, At, Item, First
<1> PICK p : p = i.list OBVIOUS
<1> PICK e : e = i.doc OBVIOUS
<1>2. UNCHANGED <<users, files>> /\ calm' = IF PathsOwn' THEN calm ELSE "none" BY DEF Set, KnownStill
<1>3. ~HasMark(work[t]) BY <1>0, <1>1, Unmarked DEF Readers
<1>n. <<>> \in Seq(Statement) /\ Range(<<>>) = {} BY OneOfThem, Few
<1>p. ASSUME Ahead(work[t])
      PROVE  AllRight /\ work[t] = <<i>> /\ playlists[p] # NoList /\ playlists[p] = e
  BY <1>0, <1>1, <1>p, IsPoised DEF Poised, Item
<1>4. CASE playlists[p] = NoList
  <2>1. playlists' = playlists /\ Goes(t, <<>>) BY <1>4 DEF Set
  <2>2. ~Ahead(work[t]) BY <1>4, <1>p
  <2> QED BY <1>0, <1>2, <1>3, <1>n, <2>1, <2>2, Moves
<1>5. CASE playlists[p] # NoList
  <2> PICK a : a = With(playlists[p], i.sent) OBVIOUS
  <2>1. a \in Playlist BY <1>1, <1>5, Shapes, Merges DEF IInv
  <2>2. playlists' = [playlists EXCEPT ![p] = a] BY <1>5 DEF Set
  <2>3. playlists'[p] = a /\ \A q \in List \ {p} : playlists'[q] = playlists[q]
    BY <1>1, <2>2 DEF IInv, TypeOK
  <2>a. CASE a = e
    <3>1. Goes(t, <<>>) BY <1>5, <2>a DEF Set
    <3>2. ASSUME Ahead(work[t]), calm' = calm, NEW v, v = <<>> \o Tail(work[t]) PROVE Ahead(v)'
      <4>1. AllRight /\ work[t] = <<i>> /\ playlists[p] = e BY <1>p, <3>2
      <4>2. v = <<>> BY <1>1, <1>n, <3>2, <4>1, Alone
      <4>3. playlists' = playlists BY <2>a, <2>2, <4>1 DEF IInv, TypeOK
      <4>4. AllRight' BY <1>2, <3>2, <4>1, <4>3, SameDocs DEF AllRight, Scope, Right
      <4> QED BY <4>2, <4>4, Rested
    <3> QED BY <1>0, <1>2, <1>3, <1>n, <3>1, <3>2, Moves
  <2>b. CASE a # e
    <3> PICK todo : todo = Reconcile(p, e, a) OBVIOUS
    <3>1. Goes(t, todo) /\ todo \in Seq(Statement) BY <1>1, <1>5, <2>1, <2>b, ReconcileTyped DEF Set
    <3>2. Range(todo) = (IF Left(e, a) THEN {Prune(e.path)} ELSE {})
                      \cup (IF Inside(e, a) THEN {} ELSE {Do("global")})
                      \cup (IF a.endpoint = "custom" THEN {OnList("compose", p)} ELSE {})
      BY <1>1, <2>1, Reconciles
    <3>3. \A x \in Range(todo) : x.do # "recomposed"
      BY <3>2 DEF Prune, Do, OnList
    <3>4. ASSUME PathsOwn, PathsOwn', calm' = calm, Ahead(work[t]), NEW v, v = todo \o Tail(work[t])
          PROVE  Ahead(v)'
      <4>1. AllRight /\ work[t] = <<i>> /\ playlists[p] = e BY <1>p, <3>4
      <4>2. v = todo BY <1>1, <3>1, <3>4, <4>1, Alone
      <4>3. /\ p \in List /\ e \in Playlist /\ e.path \in Path /\ a.path \in Path
            /\ e.endpoint \in {"global", "custom"} /\ a.endpoint \in {"global", "custom"}
            /\ playlists'[p] # NoList
            /\ p \in CustomLists <=> e.endpoint = "custom"
            /\ p \in CustomLists' <=> a.endpoint = "custom"
        BY <1>1, <1>5, <2>1, <2>3, <4>1, ValuesAssumption DEF CustomLists, Playlist
      <4>4. Laters(v)'
        <5>1. /\ Later(Prune(e.path))' /\ Later(Do("global"))' /\ Later(OnList("compose", p))'
          BY <4>3 DEF Later, Prune, Do, OnList, First
        <5> QED BY <3>2, <4>2, <5>1 DEF Laters
      <4>5. \A f \in File0 : \A b : Will(v, f, b)' <=>
              \/ Left(e, a) /\ f[1] = e.path /\ Named(f)' /\ b = NoFile
              \/ ~Inside(e, a) /\ Live(f)' /\ f[1] = Global /\ b = Should(f)'
              \/ a.endpoint = "custom" /\ Live(f)' /\ f[1] = a.path /\ b = Should(f)'
        <5>1. TypeOK' /\ PathsOwn' BY <3>4
        <5>2. \A f \in File0 : \A b :
                /\ Does(Prune(e.path), f, b)' <=> f[1] = e.path /\ Named(f)' /\ b = NoFile
                /\ Does(Do("global"), f, b)' <=> Live(f)' /\ f[1] = Global /\ b = Should(f)'
                /\ Does(OnList("compose", p), f, b)' <=> Live(f)' /\ b = Should(f)' /\ f[1] = Covers(p)'
          <6>1. \A f \in File0 : \A b : \A q \in List : playlists'[q] # NoList =>
                  (Does(OnList("compose", q), f, b)' <=> Live(f)' /\ b = Should(f)' /\ f[1] = Covers(q)')
            BY <5>1, DoesRightNext DEF DoesRight
          <6>2. \A f \in File0 : \A b :
                /\ Does(Do("global"), f, b)' <=> Live(f)' /\ f[1] = Global /\ b = Should(f)'
                /\ \A x \in Path : Does(Prune(x), f, b)' <=> f[1] = x /\ Named(f)' /\ b = NoFile
            BY <5>1, DoesRightNext DEF DoesRight
          <6> QED BY <4>3, <6>1, <6>2
        <5>3. a.endpoint = "custom" => Covers(p)' = a.path BY <2>3 DEF Covers
        <5>4. \A f, b : Will(v, f, b)' <=>
                \/ Left(e, a) /\ Does(Prune(e.path), f, b)'
                \/ ~Inside(e, a) /\ Does(Do("global"), f, b)'
                \/ a.endpoint = "custom" /\ Does(OnList("compose", p), f, b)'
          BY <3>2, <4>2 DEF Will
        <5> QED BY <5>2, <5>3, <5>4
      <4>6. ASSUME NEW f \in File0, Left(e, a), f[1] = e.path PROVE ~Live(f)' /\ Should(f)' = NoFile
        <5>1. f[1] # Global BY <4>3, <4>6, ValuesAssumption
        <5>2. ~Custom(f[1])'
          <6> SUFFICES ASSUME NEW q \in CustomLists', playlists'[q].path = e.path PROVE FALSE
            BY <4>6 DEF Custom
          <6>1. q # p BY <2>3, <4>3, <4>6 DEF Left
          <6>2. q \in List /\ q \in CustomLists /\ playlists[q].path = e.path
            BY <2>3, <6>1 DEF CustomLists
          <6>3. p \in CustomLists /\ playlists[p].path = e.path BY <4>1, <4>3, <4>6 DEF Left
          <6> QED BY <3>4, <6>1, <6>2, <6>3 DEF PathsOwn, CustomLists
        <5> QED BY <3>4, <5>1, <5>2, ShouldBeNext DEF ShouldBe
      <4>7. ASSUME NEW f \in File0, Scope(f)', ~\E b : Will(v, f, b)' PROVE Right(f)'
        <5>1. Named(f)' <=> Named(f) BY <1>2 DEF Named, Exists
        <5>2. CASE ~Named(f)
          <6>1. ~Live(f)' /\ Should(f)' = NoFile BY <3>4, <5>1, <5>2, ShouldBeNext DEF ShouldBe
          <6>2. ~Live(f) /\ Should(f) = NoFile BY <3>4, <5>2, ShouldBeNow DEF ShouldBe, IInv
          <6> QED BY <1>2, <3>4, <4>1, <4>7, <6>1, <6>2 DEF AllRight, Right, Scope
        <5>3. CASE Named(f)
          <6>1. Live(f)' <=> f[1] = Global \/ Custom(f[1])' BY <3>4, <5>1, <5>3, ShouldBeNext DEF ShouldBe
          <6>2. f[1] = Global => Inside(e, a) BY <4>5, <4>7, <6>1
          <6>3. ~(Left(e, a) /\ f[1] = e.path) BY <4>5, <4>7, <5>1, <5>3
          <6>4. ~(a.endpoint = "custom" /\ f[1] = a.path)
            <7> SUFFICES ASSUME a.endpoint = "custom", f[1] = a.path PROVE FALSE OBVIOUS
            <7>1. Custom(f[1])' BY <2>3, <4>3 DEF Custom
            <7> QED BY <4>5, <4>7, <6>1, <7>1
          <6>5. p \in CustomLists => playlists[p].path # f[1] BY <4>1, <4>3, <6>3, <6>4 DEF Left
          <6>6. p \in CustomLists' => playlists'[p].path # f[1] BY <2>3, <4>3, <6>4
          <6>7. f[1] = Global => GlobalLists' = GlobalLists
            <7> SUFFICES ASSUME Inside(e, a) PROVE GlobalLists' = GlobalLists BY <6>2
            <7>1. p \notin GlobalLists /\ p \notin GlobalLists' BY <2>3, <4>1 DEF GlobalLists, Inside
            <7> QED BY <2>3, <4>3, <7>1, SameGlobal
          <6>8. Should(f)' = Should(f) /\ (Live(f)' <=> Live(f))
            BY <1>2, <2>3, <4>3, <6>5, <6>6, <6>7, OtherList
          <6> QED BY <1>2, <3>4, <4>1, <4>7, <6>8 DEF AllRight, Right, Scope
        <5> QED BY <5>2, <5>3
      <4>8. Heals(v)' BY <4>5, <4>6, <4>7 DEF Heals
      <4> QED BY <4>4, <4>8 DEF Ahead
    <3> QED BY <1>0, <1>2, <1>3, <3>1, <3>3, <3>4, Moves
  <2> QED BY <2>a, <2>b
<1> QED BY <1>4, <1>5

(* What is left of a task of three statements once the first has run.         *)
LEMMA TwoLeft ==
    ASSUME NEW i \in Statement, NEW a \in Statement, NEW b \in Statement, NEW v, v = <<>> \o Tail(<<i, a, b>>)
    PROVE  Range(v) = {a, b}
<1> PICK s : s = Tail(<<i, a, b>>) OBVIOUS
<1>1. s = <<a, b>> OBVIOUS
<1>2. s \in Seq(Statement) BY <1>1, OneOfThem
<1>3. v = s BY <1>2, ConcatEmptySeq
<1> QED BY <1>1, <1>3, Few

LEMMA DropKeeps == ASSUME IInv, NEW t \in Task, Drop(t), TypeOK' PROVE IInv'
<1>0. work[t] # <<>> BY DEF Drop, At
<1> PICK i : i = Item(t) OBVIOUS
<1>1. i \in Statement /\ i.do = "drop" /\ i.list \in List /\ Item(t).do \in First
  BY <1>0, HeadStatement, Kinds DEF IInv, Drop, At, Item, First
<1> PICK p : p = i.list OBVIOUS
<1> PICK l : l = playlists[p] OBVIOUS
<1>2. /\ UNCHANGED <<users, files, calm>> /\ Goes(t, <<>>)
      /\ playlists'[p] = NoList /\ \A q \in List \ {p} : playlists'[q] = playlists[q]
  BY <1>1 DEF Drop, IInv, TypeOK
<1>3. ~HasMark(work[t]) BY <1>0, <1>1, Unmarked DEF Readers
<1>n. <<>> \in Seq(Statement) /\ Range(<<>>) = {} BY OneOfThem, Few
<1>4. p \notin CustomLists' /\ p \notin GlobalLists' BY <1>2 DEF CustomLists, GlobalLists
<1>5. PathsOwn => PathsOwn'
  <2> SUFFICES ASSUME PathsOwn, NEW x \in CustomLists', NEW q \in List, playlists'[q] # NoList,
                      q \in CustomLists' \/ q \in Clone, playlists'[q].path = playlists'[x].path
               PROVE  x = q
    BY DEF PathsOwn
  <2>1. x # p /\ q # p /\ x \in List BY <1>2, <1>4 DEF CustomLists
  <2>2. playlists'[x] = playlists[x] /\ playlists'[q] = playlists[q] BY <1>2, <2>1
  <2>3. x \in CustomLists /\ (q \in CustomLists' => q \in CustomLists) BY <2>1, <2>2 DEF CustomLists
  <2> QED BY <2>2, <2>3 DEF PathsOwn
<1>6. calm # "none" => PathsOwn BY DEF IInv, Follows
<1>7. ASSUME PathsOwn, PathsOwn', Ahead(work[t]), NEW v, v = <<>> \o Tail(work[t]) PROVE Ahead(v)'
  <2>1. Poised(work[t]) /\ AllRight BY <1>0, <1>1, <1>7, IsPoised
  <2>2. l # NoList /\ l \in Playlist /\ l.path \in Path BY <1>1, <2>1, Shapes DEF Poised, Item, IInv, Playlist
  <2> DEFINE own == p \in Clone \/ l.endpoint = "custom"
             pull == OnList(IF p \in Clone THEN "pullCustom" ELSE "pull", p)
             then == IF own THEN Prune(l.path) ELSE Do("global")
  <2>3. Range(v) = {pull, then}
    <3>1. pull \in Statement /\ then \in Statement BY <1>1, <2>2, Makes
    <3>2. \/ p \in Clone /\ work[t] = <<i, Prune(l.path), OnList("pullCustom", p)>>
          \/ /\ p \notin Clone
             /\ \/ l.endpoint = "custom" /\ work[t] = <<i, OnList("pull", p), Prune(l.path)>>
                \/ l.endpoint = "global" /\ work[t] = <<i, OnList("pull", p), Do("global")>>
      BY <1>1, <2>1 DEF Poised, Item
    <3>3. work[t] = <<i, then, pull>> \/ work[t] = <<i, pull, then>> BY <3>2
    <3> HIDE DEF pull, then
    <3>4. CASE work[t] = <<i, then, pull>>
      <4>1. v = <<>> \o Tail(<<i, then, pull>>) BY <1>7, <3>4
      <4>2. Range(v) = {then, pull} BY <1>1, <3>1, <4>1, TwoLeft
      <4> QED BY <4>2
    <3>5. CASE work[t] = <<i, pull, then>>
      <4>1. v = <<>> \o Tail(<<i, pull, then>>) BY <1>7, <3>5
      <4> QED BY <1>1, <3>1, <4>1, TwoLeft
    <3> QED BY <3>3, <3>4, <3>5
  <2>4. Laters(v)'
    <3>1. Later(pull)' BY <1>2 DEF Later, OnList, First
    <3>2. Later(then)' BY DEF Later, Prune, Do, First
    <3> HIDE DEF pull, then
    <3> QED BY <2>3, <3>1, <3>2 DEF Laters
  <2>5. \A f \in File0 : \A b : Will(v, f, b)' <=>
          \/ own /\ f[1] = l.path /\ Named(f)' /\ b = NoFile
          \/ ~own /\ Live(f)' /\ f[1] = Global /\ b = Should(f)'
    <3>1. TypeOK' /\ PathsOwn' BY <1>7
    <3>2. \A f \in File0 : \A b :
            /\ Does(Do("global"), f, b)' <=> Live(f)' /\ f[1] = Global /\ b = Should(f)'
            /\ \A x \in Path : Does(Prune(x), f, b)' <=> f[1] = x /\ Named(f)' /\ b = NoFile
      BY <3>1, DoesRightNext DEF DoesRight
    <3>3. \A f, b : ~Does(pull, f, b)' BY DEF Does, OnList
    <3>4. \A f \in File0 : \A b : Does(then, f, b)' <=>
          \/ own /\ f[1] = l.path /\ Named(f)' /\ b = NoFile
          \/ ~own /\ Live(f)' /\ f[1] = Global /\ b = Should(f)'
      <4>1. CASE own BY <2>2, <3>2, <4>1
      <4>2. CASE ~own BY <3>2, <4>2
      <4> QED BY <4>1, <4>2
    <3> HIDE DEF pull, then, own
    <3> QED BY <2>3, <3>3, <3>4 DEF Will
  <2>6. ASSUME NEW f \in File0, own, f[1] = l.path PROVE ~Live(f)' /\ Should(f)' = NoFile
    <3>1. f[1] # Global BY <2>2, <2>6, ValuesAssumption
    <3>2. ~Custom(f[1])'
      <4> SUFFICES ASSUME NEW q \in CustomLists', playlists'[q].path = l.path PROVE FALSE
        BY <2>6 DEF Custom
      <4>1. q # p /\ q \in List BY <1>4 DEF CustomLists
      <4>2. q \in CustomLists /\ playlists[q].path = playlists[p].path BY <1>2, <4>1 DEF CustomLists
      <4>3. p \in CustomLists \/ p \in Clone BY <1>1, <2>2, <2>6 DEF CustomLists
      <4> QED BY <1>1, <1>7, <2>2, <4>1, <4>2, <4>3 DEF PathsOwn
    <3> QED BY <1>7, <3>1, <3>2, ShouldBeNext DEF ShouldBe
  <2>7. ASSUME NEW f \in File0, Scope(f)', ~\E b : Will(v, f, b)' PROVE Right(f)'
    <3>1. Named(f)' <=> Named(f) BY <1>2 DEF Named, Exists
    <3>2. CASE ~Named(f)
      <4>1. ~Live(f)' /\ Should(f)' = NoFile BY <1>7, <3>1, <3>2, ShouldBeNext DEF ShouldBe
      <4>2. ~Live(f) /\ Should(f) = NoFile BY <1>7, <3>2, ShouldBeNow DEF ShouldBe, IInv
      <4> QED BY <1>2, <2>1, <2>7, <4>1, <4>2 DEF AllRight, Right, Scope
    <3>3. CASE Named(f)
      <4>1. f[1] = Global => own
        <5>1. f[1] = Global => Live(f)' BY <1>7, <3>1, <3>3, ShouldBeNext DEF ShouldBe
        <5> HIDE DEF own
        <5> QED BY <2>5, <2>7, <5>1
      <4>2. ~(own /\ f[1] = l.path) BY <2>5, <2>7, <3>1, <3>3
      <4>3. p \in CustomLists => playlists[p].path # f[1] BY <4>2 DEF CustomLists
      <4>4. f[1] = Global => GlobalLists' = GlobalLists
        <5> SUFFICES ASSUME own PROVE GlobalLists' = GlobalLists BY <4>1
        <5>1. p \notin GlobalLists BY ExportsAssumption DEF GlobalLists
        <5> QED BY <1>1, <1>2, <1>4, <5>1, SameGlobal
      <4>5. Should(f)' = Should(f) /\ (Live(f)' <=> Live(f))
        BY <1>1, <1>2, <1>4, <4>3, <4>4, OtherList
      <4> QED BY <1>2, <2>1, <2>7, <4>5 DEF AllRight, Right, Scope
    <3> QED BY <3>2, <3>3
  <2>8. Heals(v)' BY <2>5, <2>6, <2>7 DEF Heals
  <2> QED BY <2>4, <2>8 DEF Ahead
<1> QED BY <1>0, <1>2, <1>3, <1>5, <1>6, <1>7, <1>n, Moves

(* A change of grants that the role gives anyway, or to a playlist that is    *)
(* gone, shows in no file and in nothing a task does later.                   *)
LEMMA Grants ==
    ASSUME TypeOK, playlists' = playlists,
           \A u \in User : Exists(u)' <=> Exists(u),
           \A u \in User : Exists(u) =>
             /\ users'[u].name = users[u].name /\ users'[u].token = users[u].token
             /\ users'[u].enabled = users[u].enabled /\ users'[u].role = users[u].role
             /\ \A q \in List : playlists[q] # NoList =>
                  /\ q \in users'[u].lists <=> q \in users[u].lists
                  /\ users[u].role = "admin" \/ q \in users'[u].customs
                       <=> users[u].role = "admin" \/ q \in users[u].customs
    PROVE  \A f \in File0 :
             /\ Should(f)' = Should(f) /\ (Live(f)' <=> Live(f))
             /\ \A i \in Statement : \A b : Later(i) => (Does(i, f, b)' <=> Does(i, f, b))
<1> SUFFICES ASSUME NEW f \in File0
             PROVE  /\ Should(f)' = Should(f) /\ (Live(f)' <=> Live(f))
                    /\ \A i \in Statement : \A b : Later(i) => (Does(i, f, b)' <=> Does(i, f, b))
  OBVIOUS
<1>0. CustomLists' = CustomLists /\ GlobalLists' = GlobalLists BY DEF CustomLists, GlobalLists
<1>1. /\ f[2] \in User
      /\ \A q \in CustomLists : q \in List /\ playlists[q] # NoList
      /\ \A q \in GlobalLists : q \in List /\ playlists[q] # NoList
  BY DEF File0, CustomLists, GlobalLists, List
<1>2. (Named(f)' <=> Named(f)) /\ (Live(f)' <=> Live(f)) BY <1>0, <1>1 DEF Named, Live
<1>3. \A x : Custom(x)' <=> Custom(x) BY <1>0 DEF Custom
<1> PICK d : d = users[f[2]] OBVIOUS
<1> PICK e : e = users'[f[2]] OBVIOUS
<1>4. ASSUME Exists(f[2]), NEW gl \in SUBSET List, \A q \in gl : playlists[q] # NoList
      PROVE  Visible(e, gl) = Visible(d, gl)
  <2>1. e.role = d.role /\ gl \cap e.lists = gl \cap d.lists BY <1>1, <1>4
  <2> QED BY <2>1 DEF Visible
<1>5. ASSUME Exists(f[2]), NEW gl \in SUBSET List, \A q \in gl : playlists[q] # NoList
      PROVE  GlobalBody(e, gl) = GlobalBody(d, gl)
  BY <1>1, <1>4, <1>5 DEF GlobalBody
<1>6. ASSUME Exists(f[2]), NEW q \in List, playlists[q] # NoList, NEW l
      PROVE  CustomBody(e, q, l) = CustomBody(d, q, l)
  <2>1. (e.role = "admin" \/ q \in e.customs) <=> (d.role = "admin" \/ q \in d.customs)
    BY <1>1, <1>6
  <2> QED BY <1>1, <1>6, <2>1 DEF CustomBody
<1>7. Should(f)' = Should(f)
  <2>1. CASE ~Exists(f[2]) BY <1>1, <2>1 DEF Should
  <2>2. CASE Exists(f[2])
    <3>1. {q \in CustomLists : playlists[q].path = f[1] /\ q \in (e.customs \cup
              (IF e.role = "admin" THEN List ELSE {})) /\ playlists[q].state}
          = {q \in CustomLists : playlists[q].path = f[1] /\ q \in (d.customs \cup
              (IF d.role = "admin" THEN List ELSE {})) /\ playlists[q].state}
      BY <1>1, <2>2
    <3>2. Visible(e, GlobalLists) = Visible(d, GlobalLists) BY <1>1, <1>4, <2>2
    <3>3. e.name = d.name /\ e.token = d.token /\ e.enabled = d.enabled /\ Exists(f[2])'
      BY <1>1, <2>2
    <3> QED BY <1>0, <2>2, <3>1, <3>2, <3>3 DEF Should
  <2> QED BY <2>1, <2>2
<1>8. ASSUME NEW gl \in SUBSET List, \A q \in gl : playlists[q] # NoList, NEW b
      PROVE  GlobalDoes(gl, f, b)' <=> GlobalDoes(gl, f, b)
  BY <1>2, <1>5, <1>8 DEF GlobalDoes, Named
<1>9. ASSUME NEW q \in List, playlists[q] # NoList, NEW l, NEW b
      PROVE  FanDoes(q, l, f, b)' <=> FanDoes(q, l, f, b)
  BY <1>2, <1>6, <1>9 DEF FanDoes, Named
<1>10. ASSUME NEW q \in List, playlists[q] # NoList, NEW b
       PROVE  ComposeDoes(q, f, b)' <=> ComposeDoes(q, f, b)
  <2>1. GlobalDoes(GlobalLists, f, b)' <=> GlobalDoes(GlobalLists, f, b) BY <1>0, <1>1, <1>8
  <2>2. FanDoes(q, playlists[q], f, b)' <=> FanDoes(q, playlists[q], f, b) BY <1>9, <1>10
  <2> QED BY <2>1, <2>2 DEF ComposeDoes
<1>11. ASSUME NEW i \in Statement, NEW b, Later(i) PROVE Does(i, f, b)' <=> Does(i, f, b)
  <2>1. /\ i.do = "globalFan" => i.lists \subseteq List /\ \A q \in i.lists : playlists[q] # NoList
        /\ i.do \in {"compose", "customFan"} => i.list \in List /\ playlists[i.list] # NoList
    BY <1>11, Kinds DEF Later
  <2>2. GlobalDoes(GlobalLists, f, b)' <=> GlobalDoes(GlobalLists, f, b) BY <1>0, <1>1, <1>8
  <2>3. i.do = "globalFan" => (GlobalDoes(i.lists, f, b)' <=> GlobalDoes(i.lists, f, b))
    BY <1>8, <2>1
  <2>4. i.do = "compose" => (ComposeDoes(i.list, f, b)' <=> ComposeDoes(i.list, f, b))
    BY <1>10, <2>1
  <2>5. i.do = "customFan" => (FanDoes(i.list, i.target, f, b)' <=> FanDoes(i.list, i.target, f, b))
    BY <1>9, <2>1
  <2>6. \A q \in CustomLists : ComposeDoes(q, f, b)' <=> ComposeDoes(q, f, b) BY <1>1, <1>10
  <2> QED BY <1>0, <1>2, <1>3, <2>2, <2>3, <2>4, <2>5, <2>6 DEF Does
<1> QED BY <1>2, <1>7, <1>11

(* A step that has no effect on files, but on grants of no consequence.       *)
LEMMA Granting ==
    ASSUME IInv, TypeOK', NEW t \in Task, work[t] # <<>>, Item(t).do \in {"grant", "pull", "pullCustom"},
           UNCHANGED <<playlists, files, calm>>, Goes(t, <<>>), NEW p, p = Item(t).list, p \in List,
           \A u \in User : Exists(u)' <=> Exists(u),
           \A u \in User : Exists(u) =>
             /\ users'[u].name = users[u].name /\ users'[u].token = users[u].token
             /\ users'[u].enabled = users[u].enabled /\ users'[u].role = users[u].role
             /\ \A q \in List : q # p \/ Item(t).do = "grant" =>
                  /\ q \in users'[u].lists <=> q \in users[u].lists
                  /\ users[u].role = "admin" \/ q \in users'[u].customs
                       <=> users[u].role = "admin" \/ q \in users[u].customs
    PROVE  IInv'
<1> PICK i : i = Item(t) OBVIOUS
<1> DEFINE w == work[t]
<1>1. /\ w \in Seq(Statement) /\ i \in Statement /\ i \in Range(w) /\ i = Head(w)
      /\ i.do \notin First /\ i.do \notin Readers \cup {"file", "recomposed"}
  BY HeadStatement DEF IInv, TypeOK, Item, First, Readers
<1>2. <<>> \in Seq(Statement) /\ Range(<<>>) = {} BY OneOfThem, Few
<1>3. calm # "none" => PathsOwn BY DEF IInv, Follows
<1>4. PathsOwn' <=> PathsOwn
  <2>1. CustomLists' = CustomLists BY DEF CustomLists
  <2> QED BY <2>1 DEF PathsOwn
<1>5. ASSUME Ahead(w), NEW v, v = <<>> \o Tail(w) PROVE Ahead(v)'
  <2>1. Laters(w) /\ Heals(w) BY <1>1, <1>5, NotPoised
  <2>2. /\ \A x \in Range(v) : x \in Range(w) /\ x \in Statement
        /\ \A x \in Range(w) : x = i \/ x \in Range(v)
    BY <1>1, <1>2, <1>5, Splice
  <2>3. i.do \in {"pull", "pullCustom"} => playlists[p] = NoList BY <1>1, <2>1 DEF Laters, Later
  <2>4. \A f \in File0 :
             /\ Should(f)' = Should(f) /\ (Live(f)' <=> Live(f))
             /\ \A x \in Statement : \A b : Later(x) => (Does(x, f, b)' <=> Does(x, f, b))
    <3>1. \A u \in User : Exists(u) =>
             /\ users'[u].name = users[u].name /\ users'[u].token = users[u].token
             /\ users'[u].enabled = users[u].enabled /\ users'[u].role = users[u].role
             /\ \A q \in List : playlists[q] # NoList =>
                  /\ q \in users'[u].lists <=> q \in users[u].lists
                  /\ users[u].role = "admin" \/ q \in users'[u].customs
                       <=> users[u].role = "admin" \/ q \in users[u].customs
      BY <2>3
    <3> QED BY <3>1, Grants DEF IInv
  <2>5. \A f, b : ~Does(i, f, b) BY <1>1 DEF Does, Readers
  <2>6. \A f \in File0 : \A b : Will(v, f, b)' <=> Will(w, f, b)
    BY <2>1, <2>2, <2>4, <2>5 DEF Will, Laters
  <2>7. Heals(v)' BY <2>1, <2>4, <2>6 DEF Heals, Scope, Right
  <2>8. Laters(v)' BY <2>1, <2>2 DEF Laters, Later
  <2> QED BY <2>7, <2>8 DEF Ahead
<1>6. ~HasMark(w) BY <1>1, Unmarked
<1> QED BY <1>2, <1>3, <1>4, <1>5, <1>6, Moves

LEMMA GrantKeeps == ASSUME IInv, NEW t \in Task, Grant(t), TypeOK' PROVE IInv'
<1>1. work[t] # <<>> /\ Item(t).do = "grant" BY DEF Grant, At, Item
<1> PICK p : p = Item(t).list OBVIOUS
<1>2. p \in List BY <1>1, HeadStatement, Kinds DEF IInv
<1>3. users' = [u \in User |-> IF Exists(u) /\ users[u].role = "admin"
                   THEN [users[u] EXCEPT !.customs = @ \cup {p}] ELSE users[u]]
  BY DEF Grant
<1>4. \A u \in User : Exists(u) => users[u] \in Account BY Shapes DEF IInv
<1>5. ASSUME NEW u \in User
      PROVE  /\ Exists(u)' <=> Exists(u)
             /\ Exists(u) =>
                  /\ users'[u].name = users[u].name /\ users'[u].token = users[u].token
                  /\ users'[u].enabled = users[u].enabled /\ users'[u].role = users[u].role
                  /\ \A q \in List :
                       /\ q \in users'[u].lists <=> q \in users[u].lists
                       /\ users[u].role = "admin" \/ q \in users'[u].customs
                            <=> users[u].role = "admin" \/ q \in users[u].customs
  <2>1. CASE Exists(u) /\ users[u].role = "admin"
    <3>1. users'[u] = [users[u] EXCEPT !.customs = @ \cup {p}] BY <1>3, <2>1
    <3>2. users'[u] \in Account BY <1>2, <1>4, <2>1, <3>1 DEF Account
    <3> QED BY <1>4, <2>1, <3>1, <3>2, ValuesAssumption DEF Exists, Account
  <2>2. CASE ~(Exists(u) /\ users[u].role = "admin")
    <3>1. users'[u] = users[u] BY <1>3, <2>2
    <3> QED BY <3>1 DEF Exists
  <2> QED BY <2>1, <2>2
<1>6. UNCHANGED <<playlists, files, calm>> /\ Goes(t, <<>>) BY DEF Grant
<1> QED BY <1>1, <1>2, <1>5, <1>6, Granting

LEMMA PullKeeps == ASSUME IInv, NEW t \in Task, Pull(t), TypeOK' PROVE IInv'
<1>1. work[t] # <<>> /\ Item(t).do \in {"pull", "pullCustom"} BY DEF Pull, At, Item
<1> PICK p : p = Item(t).list OBVIOUS
<1>2. p \in List BY <1>1, HeadStatement, Kinds DEF IInv
<1>3. users' = [u \in User |-> IF ~Exists(u) THEN users[u] ELSE
                   [users[u] EXCEPT !.customs = @ \ {p}, !.lists = IF At(t, "pull") THEN @ \ {p} ELSE @]]
  BY DEF Pull
<1>4. \A u \in User : Exists(u) => users[u] \in Account BY Shapes DEF IInv
<1>5. ASSUME NEW u \in User
      PROVE  /\ Exists(u)' <=> Exists(u)
             /\ Exists(u) =>
                  /\ users'[u].name = users[u].name /\ users'[u].token = users[u].token
                  /\ users'[u].enabled = users[u].enabled /\ users'[u].role = users[u].role
                  /\ \A q \in List : q # p =>
                       /\ q \in users'[u].lists <=> q \in users[u].lists
                       /\ q \in users'[u].customs <=> q \in users[u].customs
  <2>1. CASE Exists(u)
    <3> PICK ls : ls = IF At(t, "pull") THEN users[u].lists \ {p} ELSE users[u].lists OBVIOUS
    <3>0. users[u] \in Account /\ ls \in {users[u].lists, users[u].lists \ {p}} BY <1>4, <2>1
    <3>1. users'[u] = [users[u] EXCEPT !.customs = @ \ {p}, !.lists = ls]
      <4>1. users'[u] = [users[u] EXCEPT !.customs = @ \ {p}, !.lists = IF At(t, "pull") THEN @ \ {p} ELSE @]
        BY <1>3, <2>1
      <4>2. CASE At(t, "pull")
        <5>1. users'[u] = [users[u] EXCEPT !.customs = @ \ {p}, !.lists = @ \ {p}] BY <4>1, <4>2
        <5> QED BY <3>0, <4>2, <5>1 DEF Account
      <4>3. CASE ~At(t, "pull")
        <5>1. users'[u] = [users[u] EXCEPT !.customs = @ \ {p}, !.lists = @] BY <4>1, <4>3
        <5> QED BY <3>0, <4>3, <5>1 DEF Account
      <4> QED BY <4>2, <4>3
    <3>5. ls \in SUBSET List /\ users[u].customs \ {p} \in SUBSET List BY <3>0 DEF Account
    <3>2. users'[u] \in Account BY <3>0, <3>1, <3>5 DEF Account
    <3>3. /\ users'[u].name = users[u].name /\ users'[u].token = users[u].token
          /\ users'[u].enabled = users[u].enabled /\ users'[u].role = users[u].role
          /\ users'[u].customs = users[u].customs \ {p}
          /\ users'[u].lists \in {users[u].lists, users[u].lists \ {p}}
      BY <3>0, <3>1 DEF Account
    <3>4. Exists(u)' BY <3>2, ValuesAssumption DEF Exists
    <3> QED BY <2>1, <3>3, <3>4
  <2>2. CASE ~Exists(u)
    <3>1. users'[u] = users[u] BY <1>3, <2>2
    <3> QED BY <2>2, <3>1 DEF Exists
  <2> QED BY <2>1, <2>2
<1>6. UNCHANGED <<playlists, files, calm>> /\ Goes(t, <<>>) BY DEF Pull
<1> QED BY <1>1, <1>2, <1>5, <1>6, Granting
-----------------------------------------------------------------------------
(* A request that finds every task at rest runs alone.                        *)
LEMMA Starting ==
    ASSUME IInv, TypeOK', NEW t \in Task, NEW todo \in Seq(Statement), todo # <<>>, Start(t, todo),
           UNCHANGED <<playlists, files>>, MarkLast(todo),
           /\ PathsOwn /\ PathsOwn' /\ calm' = calm /\ (calm # "none" => AllRight)
           /\ calm # "none" \/ HasMark(todo)
           => Ahead(todo)'
    PROVE  IInv'
<1>1. /\ work'[t] = todo /\ \A s \in Task \ {t} : work'[s] = work[s]
      /\ solo' = IF Idle THEN {t} ELSE {}
      /\ calm' = IF Idle THEN calm ELSE "none"
  BY WorkKeeps DEF Start, IInv
<1>2. PathsOwn' <=> PathsOwn
  <2>1. CustomLists' = CustomLists BY DEF CustomLists
  <2> QED BY <2>1 DEF PathsOwn
<1>3. Lone'
  <2>1. CASE Idle BY <1>1, <2>1 DEF Lone, Idle
  <2>2. CASE ~Idle BY <1>1, <2>2 DEF Lone
  <2> QED BY <2>1, <2>2
<1>4. \A s \in Task : MarkLast(work'[s])
  BY <1>1 DEF IInv
<1>5. ~Idle' BY <1>1 DEF Idle
<1>6. calm' # "none" => PathsOwn' BY <1>1, <1>2 DEF IInv, Follows
<1>7. ASSUME NEW s \in Task, Tracked(s)' PROVE Ahead(work[s])'
  <2>1. Idle /\ s = t /\ calm' = calm /\ s \in solo' BY <1>1, <1>7 DEF Tracked
  <2>2. calm # "none" => PathsOwn /\ AllRight BY <2>1 DEF IInv, Follows
  <2>3. calm # "none" \/ (PathsOwn' /\ HasMark(todo))
    BY <1>1, <1>7, <2>1 DEF Tracked, HasMark, Range
  <2>4. Ahead(todo)' BY <1>2, <2>1, <2>2, <2>3
  <2> QED BY <1>1, <2>1, <2>4
<1>8. Follows' BY <1>5, <1>6, <1>7 DEF Follows
<1> QED BY <1>3, <1>4, <1>8 DEF IInv, MarkLast, Range

(* One that has yet to change something holds the documents it has read.      *)
LEMMA StartsPoised ==
    ASSUME IInv, TypeOK', NEW t \in Task, NEW todo \in Seq(Statement), Start(t, todo),
           UNCHANGED <<users, playlists, files>>, Poised(todo),
           \A x \in Range(todo) : x.do # "recomposed"
    PROVE  IInv'
<1>1. todo # <<>> BY DEF Poised
<1>2. MarkLast(todo) /\ ~HasMark(todo) BY NoMark
<1>3. Poised(todo)' BY SameDocs
<1>4. calm' = calm /\ AllRight => AllRight' BY SameDocs DEF AllRight, Scope, Right
<1> QED BY <1>1, <1>2, <1>3, <1>4, Starting DEF Ahead

LEMMA CreateUserKeeps == ASSUME IInv, NEW t \in Task, CreateUser(t), TypeOK' PROVE IInv'
<1>1. PICK u \in User, role \in {"admin", "user"}, S \in {{}, List} :
         /\ users[u] = NoUser
         /\ Start(t, <<OfUser("insert", u, IF role = "admin" THEN AllAccess(Account0(role, {}, {}))
                                          ELSE Account0(role, S \cap Builtin, S))>>)
  BY DEF CreateUser
<1> PICK d : d = IF role = "admin" THEN AllAccess(Account0(role, {}, {}))
                 ELSE Account0(role, S \cap Builtin, S)
  OBVIOUS
<1>2. d \in Account
  <2>1. AllAccess(Account0(role, {}, {})) \in Account BY NewAccount, AccessAccount
  <2>2. Account0(role, S \cap Builtin, S) \in Account BY NewAccount
  <2> QED BY <2>1, <2>2
<1> PICK x : x = OfUser("insert", u, d) OBVIOUS
<1>3. x \in Statement /\ x.do = "insert" /\ x.user = u BY <1>2, Makes DEF OfUser
<1>4. Start(t, <<x>>) BY <1>1
<1>5. <<x>> \in Seq(Statement) /\ Range(<<x>>) = {x} BY <1>3, OneOfThem, Few
<1>6. <<x>> # <<>> /\ Head(<<x>>) = x OBVIOUS
<1>7. Poised(<<x>>) BY <1>1, <1>3, <1>6 DEF Poised
<1> QED BY <1>3, <1>4, <1>5, <1>7, StartsPoised DEF CreateUser

LEMMA EditUserKeeps == ASSUME IInv, NEW t \in Task, EditUser(t), TypeOK' PROVE IInv'
<1>0. PICK u \in User : Exists(u) /\ \E new \in Edits(users[u]) :
         Start(t, <<[do |-> "edit", user |-> u, doc |-> users[u], new |-> new]>>)
  BY DEF EditUser
<1>1. PICK new \in Edits(users[u]) :
         Start(t, <<[do |-> "edit", user |-> u, doc |-> users[u], new |-> new]>>)
  BY <1>0
<1> PICK x : x = [do |-> "edit", user |-> u, doc |-> users[u], new |-> new] OBVIOUS
<1>2. users[u] \in Account /\ new \in Account BY <1>0, Shapes, EditsTyped DEF IInv
<1>3. x \in Statement /\ x.do = "edit" /\ x.user = u /\ x.doc = users[u] BY <1>2, Makes
<1>4. <<x>> \in Seq(Statement) /\ Range(<<x>>) = {x} BY <1>3, OneOfThem, Few
<1>5. <<x>> # <<>> /\ Head(<<x>>) = x OBVIOUS
<1>6. Poised(<<x>>) BY <1>0, <1>3, <1>5 DEF Poised
<1> QED BY <1>1, <1>3, <1>4, <1>6, StartsPoised DEF EditUser

LEMMA CreateCloneKeeps == ASSUME IInv, NEW t \in Task, CreateClone(t), TypeOK' PROVE IInv'
<1>1. PICK p \in Clone : Start(t, <<OnList("create", p)>>) BY DEF CreateClone
<1> PICK x : x = OnList("create", p) OBVIOUS
<1>2. x \in Statement /\ x.do = "create" BY Makes DEF OnList
<1>3. <<x>> \in Seq(Statement) /\ Range(<<x>>) = {x} BY <1>2, OneOfThem, Few
<1>4. <<x>> # <<>> /\ Head(<<x>>) = x OBVIOUS
<1>5. Poised(<<x>>) BY <1>2, <1>4 DEF Poised
<1> QED BY <1>1, <1>2, <1>3, <1>5, StartsPoised DEF CreateClone

LEMMA EditListKeeps == ASSUME IInv, NEW t \in Task, EditList(t), TypeOK' PROVE IInv'
<1>0. PICK p \in List : playlists[p] # NoList /\ \E sent \in ListEdits(playlists[p]) :
         Start(t, <<[do |-> "set", list |-> p, doc |-> playlists[p], sent |-> sent]>>)
  BY DEF EditList
<1>1. PICK sent \in ListEdits(playlists[p]) :
         Start(t, <<[do |-> "set", list |-> p, doc |-> playlists[p], sent |-> sent]>>)
  BY <1>0
<1> PICK x : x = [do |-> "set", list |-> p, doc |-> playlists[p], sent |-> sent] OBVIOUS
<1>2. playlists[p] \in Playlist /\ sent \in Sent BY <1>0, Shapes, ListEditsTyped DEF IInv
<1>3. x \in Statement /\ x.do = "set" /\ x.list = p /\ x.doc = playlists[p] BY <1>2, Makes
<1>4. <<x>> \in Seq(Statement) /\ Range(<<x>>) = {x} BY <1>3, OneOfThem, Few
<1>5. <<x>> # <<>> /\ Head(<<x>>) = x OBVIOUS
<1>6. Poised(<<x>>) BY <1>0, <1>3, <1>5 DEF Poised
<1> QED BY <1>1, <1>3, <1>4, <1>6, StartsPoised DEF EditList

LEMMA DeleteListKeeps == ASSUME IInv, NEW t \in Task, DeleteList(t), TypeOK' PROVE IInv'
<1>1. PICK p \in List : /\ playlists[p] # NoList
         /\ Start(t,
              IF p \in Clone
              THEN <<OnList("drop", p), Prune(playlists[p].path), OnList("pullCustom", p)>>
              ELSE <<OnList("drop", p), OnList("pull", p),
                     IF playlists[p].endpoint = "custom" THEN Prune(playlists[p].path) ELSE Do("global")>>)
  BY DEF DeleteList
<1>2. /\ playlists[p].path \in Path /\ playlists[p].endpoint \in {"global", "custom"}
      /\ UNCHANGED <<users, playlists, files>>
  BY <1>1, Shapes DEF Playlist, IInv, DeleteList
<1> PICK x : x = OnList("drop", p) OBVIOUS
<1> PICK y : y = IF p \in Clone THEN Prune(playlists[p].path) ELSE OnList("pull", p) OBVIOUS
<1> PICK z : z = IF p \in Clone THEN OnList("pullCustom", p)
                 ELSE IF playlists[p].endpoint = "custom" THEN Prune(playlists[p].path) ELSE Do("global")
  OBVIOUS
<1>3. /\ x \in Statement /\ y \in Statement /\ z \in Statement BY <1>2, Makes
<1>4. /\ x.do = "drop" /\ x.list = p /\ y.do # "recomposed" /\ z.do # "recomposed"
  BY DEF OnList, Prune, Do
<1>6. Start(t, <<x, y, z>>)
  <2>1. CASE p \in Clone BY <1>1, <2>1
  <2>2. CASE p \notin Clone BY <1>1, <2>2
  <2> QED BY <2>1, <2>2
<1>7. <<x, y, z>> \in Seq(Statement) /\ Range(<<x, y, z>>) = {x, y, z} BY <1>3, OneOfThem, Few
<1>8. <<x, y, z>> # <<>> /\ Head(<<x, y, z>>) = x OBVIOUS
<1>9. Poised(<<x, y, z>>) BY <1>1, <1>2, <1>4, <1>8 DEF Poised
<1> QED BY <1>2, <1>4, <1>6, <1>7, <1>9, StartsPoised

LEMMA ComposeKeeps == ASSUME IInv, NEW t \in Task, Compose(t), TypeOK' PROVE IInv'
<1>1. PICK p \in List : playlists[p] # NoList /\ Start(t, <<OnList("compose", p)>>) BY DEF Compose
<1> PICK x : x = OnList("compose", p) OBVIOUS
<1>2. x \in Statement /\ x.do = "compose" /\ x.list = p BY Makes DEF OnList
<1>3. <<x>> \in Seq(Statement) /\ Range(<<x>>) = {x} BY <1>2, OneOfThem, Few
<1>4. <<x>> # <<>> /\ UNCHANGED <<users, playlists, files>> BY DEF Compose
<1>5. MarkLast(<<x>>) /\ ~HasMark(<<x>>) BY <1>2, <1>3, NoMark
<1>6. ASSUME PathsOwn', calm' = calm, calm # "none" => AllRight, calm # "none" PROVE Ahead(<<x>>)'
  <2>1. AllRight' BY <1>4, <1>6, SameDocs DEF AllRight, Scope, Right
  <2>2. \A f \in File0 : \A b : Does(x, f, b)' => b = Should(f)'
    BY <1>1, <1>4, <1>6, DoesRightNext DEF DoesRight
  <2>3. Heals(<<x>>)' BY <1>3, <2>1, <2>2 DEF Heals, AllRight, Will
  <2>4. Laters(<<x>>)' BY <1>1, <1>2, <1>3, <1>4 DEF Laters, Later, First
  <2> QED BY <2>3, <2>4 DEF Ahead
<1> QED BY <1>1, <1>3, <1>4, <1>5, <1>6, Starting

LEMMA RecomposeAllKeeps == ASSUME IInv, NEW t \in Task, RecomposeAll(t), TypeOK' PROVE IInv'
<1> PICK x : x = Do("global") OBVIOUS
<1> PICK y : y = Do("customs") OBVIOUS
<1> PICK z : z = Do("recomposed") OBVIOUS
<1> PICK w : w = <<x, y, z>> OBVIOUS
<1>1. /\ x \in Statement /\ y \in Statement /\ z \in Statement
      /\ x.do = "global" /\ y.do = "customs" /\ z.do = "recomposed"
  BY Makes DEF Do
<1>2. Start(t, w) /\ UNCHANGED <<users, playlists, files>> BY DEF RecomposeAll
<1>3. w \in Seq(Statement) /\ Range(w) = {x, y, z} BY <1>1, OneOfThem, Few
<1>4. w # <<>> /\ Len(w) = 3 /\ DOMAIN w = 1..3 /\ w[1] = x /\ w[2] = y /\ w[3] = z OBVIOUS
<1>5. MarkLast(w)
  <2>1. \A i \in Range(w) : i.do \in Readers \cup {"file", "recomposed"} BY <1>1, <1>3 DEF Readers
  <2>2. \A n \in DOMAIN w : w[n].do = "recomposed" => n = Len(w) BY <1>1, <1>4
  <2> QED BY <2>1, <2>2 DEF MarkLast
<1>6. ASSUME PathsOwn', calm' = calm, calm # "none" => AllRight PROVE Ahead(w)'
  <2>1. \A f \in File0 : \A b :
          /\ Does(x, f, b)' <=> Live(f)' /\ f[1] = Global /\ b = Should(f)'
          /\ Does(y, f, b)' <=> Live(f)' /\ f[1] # Global /\ b = Should(f)'
    BY <1>6, DoesRightNext DEF DoesRight
  <2>2. \A f, b : ~Does(z, f, b)' BY DEF Does, Do
  <2>3. \A f \in File0 : \A b : Will(w, f, b)' <=> Live(f)' /\ b = Should(f)'
    BY <1>3, <2>1, <2>2 DEF Will
  <2>4. \A f \in File0 : Scope(f)' /\ ~Live(f)' => Right(f)'
    BY <1>2, <1>6, SameDocs DEF Scope, Right, AllRight
  <2>5. Heals(w)' BY <2>3, <2>4 DEF Heals
  <2>6. Laters(w)' BY <1>1, <1>3 DEF Laters, Later, First
  <2> QED BY <2>5, <2>6 DEF Ahead
<1> QED BY <1>2, <1>3, <1>4, <1>5, <1>6, Starting

LEMMA DeleteUserKeeps == ASSUME IInv, NEW t \in Task, DeleteUser(t), TypeOK' PROVE IInv'
<1>1. PICK u \in User : /\ Exists(u) /\ users' = [users EXCEPT ![u] = Deleted]
                        /\ Start(t, <<OfUser("pruneUser", u, users[u])>>)
  BY DEF DeleteUser
<1> PICK d : d = users[u] OBVIOUS
<1> PICK x : x = OfUser("pruneUser", u, d) OBVIOUS
<1>2. d \in Account /\ x \in Statement /\ x.do = "pruneUser" BY <1>1, Shapes, Makes DEF IInv, OfUser
<1>3. <<x>> \in Seq(Statement) /\ Range(<<x>>) = {x} BY <1>2, OneOfThem, Few
<1>4. <<x>> # <<>> /\ UNCHANGED <<playlists, files>> BY DEF DeleteUser
<1>5. MarkLast(<<x>>) /\ ~HasMark(<<x>>) BY <1>2, <1>3, NoMark
<1>6. /\ users'[u] = Deleted /\ ~Exists(u)' /\ \A r \in User \ {u} : users'[r] = users[r]
  BY <1>1 DEF IInv, TypeOK, Exists
<1>7. ASSUME PathsOwn, PathsOwn', calm' = calm, AllRight PROVE Ahead(<<x>>)'
  <2>1. \A f \in File0 : \A b : Will(<<x>>, f, b)' <=>
          f[2] = u /\ f[3] = d.name /\ (f[1] = Global \/ Custom(f[1])') /\ b = NoFile
    <3>1. \A f \in File0 : \A b : Does(x, f, b)' <=>
            f[2] = u /\ f[3] = d.name /\ (f[1] = Global \/ Custom(f[1])') /\ b = NoFile
      BY <1>2, <1>7, DoesRightNext DEF DoesRight
    <3> QED BY <1>3, <3>1 DEF Will
  <2>2. \A f \in File0 : f[2] = u => ~Live(f)' /\ Should(f)' = NoFile
    BY <1>6 DEF Live, Should
  <2>3. ASSUME NEW f \in File0, Scope(f)', ~\E b : Will(<<x>>, f, b)' PROVE Right(f)'
    <3>1. CASE f[2] # u
      <4>1. users'[f[2]] = users[f[2]] BY <1>6, <3>1 DEF File0
      <4> QED BY <1>4, <1>7, <2>3, <4>1, OtherUser DEF AllRight, Right, Scope
    <3>2. CASE f[2] = u
      <4>1. ~(f[3] = d.name /\ (f[1] = Global \/ Custom(f[1])')) BY <2>1, <2>3, <3>2
      <4>2. Custom(f[1])' <=> Custom(f[1])
        <5>1. CustomLists' = CustomLists BY <1>4 DEF CustomLists
        <5> QED BY <1>4, <5>1 DEF Custom
      <4>3. ~Live(f) /\ Should(f) = NoFile
        BY <1>7, <3>2, <4>1, <4>2, ShouldBeNow DEF ShouldBe, Named, IInv
      <4> QED BY <1>4, <1>7, <2>2, <2>3, <3>2, <4>3 DEF AllRight, Right, Scope
    <3> QED BY <3>1, <3>2
  <2>4. Heals(<<x>>)' BY <2>1, <2>2, <2>3 DEF Heals
  <2>5. Laters(<<x>>)' BY <1>2, <1>3 DEF Laters, Later, First
  <2> QED BY <2>4, <2>5 DEF Ahead
<1>8. Start(t, <<x>>) BY <1>1
<1> QED BY <1>3, <1>4, <1>5, <1>7, <1>8, Starting
-----------------------------------------------------------------------------
(* Failures: nothing more is known of the files.                              *)
LEMMA NothingKnown ==
    ASSUME TypeOK', solo' = {}, calm' = "none", \A t \in Task : MarkLast(work'[t]) PROVE IInv'
<1>1. Lone' BY DEF Lone
<1>2. Follows' BY DEF Follows, Tracked
<1> QED BY <1>1, <1>2 DEF IInv, MarkLast, Range

LEMMA WriteFailsKeeps == ASSUME IInv, NEW t \in Task, WriteFails(t), TypeOK' PROVE IInv'
<1>1. work[t] \in Seq(Statement) /\ work[t] # <<>> BY DEF IInv, TypeOK, WriteFails, At
<1>2. Tail(work[t]) \in Seq(Statement) BY <1>1
<1> PICK w : w = Caught(Tail(work[t])) OBVIOUS
<1>3. w \in Seq(Statement) /\ \A x \in Range(w) : x.do = "pullCustom" BY <1>2, CaughtTyped
<1>4. work'[t] = w /\ \A s \in Task \ {t} : work'[s] = work[s]
  BY <1>3, WorkKeeps DEF WriteFails, IInv
<1>5. MarkLast(w) BY <1>3, NoMark
<1>6. \A s \in Task : MarkLast(work'[s]) BY <1>4, <1>5 DEF IInv
<1> QED BY <1>6, NothingKnown DEF WriteFails

LEMMA CrashKeeps == ASSUME IInv, Crash, TypeOK' PROVE IInv'
<1>1. \A s \in Task : work'[s] = <<>> BY DEF Crash
<1>2. MarkLast(<<>>) BY Few, NoMark
<1> QED BY <1>1, <1>2, NothingKnown DEF Crash

LEMMA InitKeeps == Init => IInv
<1> SUFFICES ASSUME Init PROVE IInv OBVIOUS
<1>1. TypeOK BY InitTypes
<1>2. \A t \in Task : work[t] = <<>> BY DEF Init
<1>3. MarkLast(<<>>) BY Few, NoMark
<1>4. CustomLists = {} BY ExportsAssumption DEF Init, CustomLists, List
<1>5. PathsOwn BY <1>4 DEF PathsOwn
<1>6. ASSUME NEW f \in File0 PROVE Right(f)
  <2>1. files[f] = IF f[1] = Global /\ Named(f) THEN GlobalBody(users[f[2]], GlobalLists) ELSE NoFile
    BY DEF Init, Named
  <2>2. CASE f[1] = Global /\ Named(f) BY <1>1, <1>5, <2>1, <2>2, ShouldBeNow DEF ShouldBe, Right
  <2>3. CASE ~(f[1] = Global /\ Named(f))
    <3>1. ~Live(f) BY <1>1, <1>4, <1>5, <2>3, ShouldBeNow DEF ShouldBe, Custom
    <3> QED BY <1>1, <1>5, <2>1, <2>3, <3>1, ShouldBeNow DEF ShouldBe, Right
  <2> QED BY <2>2, <2>3
<1>7. Lone BY <1>2 DEF Lone, Init
<1>8. Follows BY <1>5, <1>6 DEF Follows, AllRight, Tracked, Init
<1> QED BY <1>1, <1>2, <1>3, <1>7, <1>8 DEF IInv

LEMMA NextKeeps == IInv /\ [Next]_vars => IInv'
<1> SUFFICES ASSUME IInv, [Next]_vars PROVE IInv' OBVIOUS
<1>1. TypeOK' BY NextTypes DEF IInv
<1>2. ASSUME NEW t \in Task, Arrive(t) PROVE IInv'
  BY <1>1, <1>2, CreateUserKeeps, EditUserKeeps, DeleteUserKeeps, CreateCloneKeeps, EditListKeeps,
     DeleteListKeeps, ComposeKeeps, RecomposeAllKeeps DEF Arrive
<1>3. ASSUME NEW t \in Task, Step(t) PROVE IInv'
  BY <1>1, <1>3, InsertKeeps, EditKeeps, SaveKeeps, CreateKeeps, GrantKeeps, SetKeeps, DropKeeps,
     PullKeeps, ReadKeeps, WriteKeeps, RecomposedKeeps DEF Step
<1>4. ASSUME NEW t \in Task, WriteFails(t) PROVE IInv' BY <1>1, <1>4, WriteFailsKeeps
<1>5. CASE Crash BY <1>1, <1>5, CrashKeeps
<1>6. CASE UNCHANGED vars
  <2>1. UNCHANGED <<users, playlists, files, work, solo, calm>> BY <1>6 DEF vars
  <2>2. Lone' BY <2>1 DEF Lone, IInv
  <2>3. \A f \in File0 : (Scope(f)' <=> Scope(f)) /\ (Right(f)' <=> Right(f))
    BY <2>1, SameDocs DEF Scope, Right
  <2>4. \A w : Ahead(w)' <=> Ahead(w)
    BY <2>1, <2>3, SameDocs DEF Ahead, AllRight, Heals, Laters, Will
  <2>5. Follows' BY <2>1, <2>3, <2>4, SameDocs DEF Follows, Tracked, Idle, AllRight, HasMark, IInv
  <2>6. \A s \in Task : MarkLast(work[s])' BY <2>1 DEF IInv, MarkLast
  <2> QED BY <1>1, <2>2, <2>5, <2>6 DEF IInv
<1> QED BY <1>2, <1>3, <1>4, <1>5, <1>6 DEF Next
-----------------------------------------------------------------------------
(* Accounts, playlists, files and what the tasks still have to do keep the    *)
(* shapes the code gives them.                                                *)
THEOREM FilesTyped == Spec => []TypeOK
<1>1. Init => TypeOK BY InitTypes
<1>2. TypeOK /\ [Next]_vars => TypeOK' BY NextTypes
<1> QED BY <1>1, <1>2, PTL DEF Spec

THEOREM Inductive == Spec => []IInv
<1>1. Init => IInv BY InitKeeps
<1>2. IInv /\ [Next]_vars => IInv' BY NextKeeps
<1> QED BY <1>1, <1>2, PTL DEF Spec

(* compose.ts: as long as requests come one at a time, nothing fails and no   *)
(* two Custom playlists share a path, the files between requests are what the *)
(* accounts and playlists say, whatever the accounts, playlists and paths.    *)
THEOREM FilesAlwaysFollow == Spec => []FilesFollow
<1>1. IInv => FilesFollow
  <2> SUFFICES ASSUME IInv, Idle, calm = "exact" PROVE \A f \in DOMAIN files : files[f] = Should(f)
    BY DEF FilesFollow
  <2>1. AllRight /\ DOMAIN files = File0 BY DEF IInv, Follows, TypeOK
  <2> QED BY <2>1 DEF AllRight, Scope, Right
<1> QED BY <1>1, Inductive, PTL

(* recomposeAllExports: one recompose that runs alone puts the files of every *)
(* account on every surface right after anything, and requests one at a time  *)
(* keep them so.                                                              *)
THEOREM RecomposeAlwaysHeals == Spec => []RecomposeHeals
<1>1. IInv => RecomposeHeals
  <2> SUFFICES ASSUME IInv, Idle, calm # "none", NEW f \in DOMAIN files, Live(f) PROVE files[f] = Should(f)
    BY DEF RecomposeHeals
  <2>1. AllRight /\ f \in File0 BY DEF IInv, Follows, TypeOK
  <2> QED BY <2>1 DEF AllRight, Scope, Right
<1> QED BY <1>1, Inductive, PTL
-----------------------------------------------------------------------------
(* AtomicFile: the files are registers, for any calls, files and contents.    *)

Unsettled == {"waiting"} \cup Running
Writing == {"mkdir", "create", "fill", "rename"}

(* Places are those of the calls made, in order.                              *)
Places == /\ \A o \in Op : pc[o] # "new" => place[o] \in 1..count /\ place[o] \in Place
          /\ \A o, q \in Op : pc[o] # "new" /\ pc[q] # "new" /\ place[o] = place[q] => o = q

(* Chains stay within one path and end at the latest call that is not over.   *)
Chains == /\ \A f \in FileName : last[f] # None => arg[last[f]].file = f /\ pc[last[f]] # "new"
          /\ \A o \in Op : after[o] # None =>
                arg[after[o]].file = arg[o].file /\ pc[after[o]] # "new"
          /\ \A o \in Op : pc[o] \in Unsettled =>
                last[arg[o].file] # None /\ place[o] <= place[last[arg[o].file]]

(* A call waits for the latest of the calls of its path that are not over.    *)
Waits == \A o, q \in Op :
            /\ pc[o] = "waiting" /\ pc[q] \in Unsettled
            /\ arg[q].file = arg[o].file /\ place[q] < place[o]
            => after[o] # None /\ place[q] <= place[after[o]]

(* Once a call has started, nothing that came before it on its path is open.  *)
InOrder == \A r, q \in Op :
            /\ pc[r] \in Running \cup Settled /\ pc[q] \in Unsettled
            /\ arg[q].file = arg[r].file
            => place[r] <= place[q]

(* What each system call works on.                                            *)
Bodies == \A o \in Op : /\ pc[o] \in Writing => arg[o].body # Absent
                        /\ pc[o] \in {"rm", "rmdir"} => arg[o].body = Absent
                        /\ pc[o] = "rename" => temp[o] = arg[o].body

InvFiles == FilesTypeOK /\ Places /\ Chains /\ Waits /\ InOrder /\ Bodies

-----------------------------------------------------------------------------
LEMMA InitFiles == FilesInit => InvFiles
<1> SUFFICES ASSUME FilesInit PROVE InvFiles OBVIOUS
<1>1. FilesTypeOK BY DEF FilesInit, FilesTypeOK
<1>2. \A o \in Op : pc[o] = "new" /\ after[o] = None BY DEF FilesInit
<1>3. \A f \in FileName : last[f] = None BY DEF FilesInit
<1>4. Places BY <1>2 DEF Places
<1>5. Chains BY <1>2, <1>3 DEF Chains, Unsettled, Running
<1>6. Waits /\ InOrder BY <1>2 DEF Waits, InOrder, Unsettled, Running
<1>7. Bodies BY <1>2 DEF Bodies, Writing
<1> QED BY <1>1, <1>4, <1>5, <1>6, <1>7 DEF InvFiles

(* A call that has started only goes on, or ends: the order is not touched.   *)
LEMMA Onwards ==
    ASSUME InvFiles, NEW o \in Op, pc[o] \in Running,
           NEW s \in Running \cup Settled, pc' = [pc EXCEPT ![o] = s],
           UNCHANGED <<arg, after, last, place, count>>
    PROVE  Places' /\ Chains' /\ Waits' /\ InOrder'
<1>1. /\ \A q \in Op : pc'[q] = IF q = o THEN s ELSE pc[q]
      /\ \A q \in Op : pc'[q] \in Unsettled => pc[q] \in Unsettled
      /\ \A q \in Op : pc'[q] \in Running \cup Settled => pc[q] \in Running \cup Settled
      /\ \A q \in Op : pc'[q] = "waiting" => pc[q] = "waiting"
      /\ \A q \in Op : pc'[q] # "new" <=> pc[q] # "new"
  BY DEF InvFiles, FilesTypeOK, Unsettled, Running, Settled
<1>2. Places' BY <1>1 DEF InvFiles, Places
<1>3. Chains' BY <1>1 DEF InvFiles, Chains, FilesTypeOK
<1>4. Waits' BY <1>1 DEF InvFiles, Waits
<1>5. InOrder' BY <1>1 DEF InvFiles, InOrder
<1> QED BY <1>2, <1>3, <1>4, <1>5

LEMMA LockKeeps == ASSUME InvFiles, NEW o \in Op, Lock(o) PROVE InvFiles'
<1> DEFINE f == arg[o].file
<1>t. FilesTypeOK'
  BY DEF InvFiles, FilesTypeOK, Lock, Goto, Call0
<1>1. /\ pc[o] = "new" /\ pc'[o] = "waiting" /\ \A q \in Op \ {o} : pc'[q] = pc[q]
      /\ place'[o] = count + 1 /\ \A q \in Op \ {o} : place'[q] = place[q]
      /\ after'[o] = last[f] /\ \A q \in Op \ {o} : after'[q] = after[q]
      /\ last'[f] = o /\ \A g \in FileName \ {f} : last'[g] = last[g]
      /\ count' = count + 1 /\ arg' = arg /\ temp' = temp
      /\ count \in Nat /\ count + 1 \in Place /\ f \in FileName /\ o # None
  BY AtomicFileAssumption DEF InvFiles, FilesTypeOK, Lock, Goto, Call0
<1>p. \A q \in Op \ {o} : pc[q] # "new" => place[q] \in 1..count
  BY DEF InvFiles, Places
<1>2. Places'
  BY <1>1, <1>p DEF InvFiles, Places, FilesTypeOK
<1>3. Chains'
  <2>1. ASSUME NEW g \in FileName, last'[g] # None PROVE arg[last'[g]].file = g /\ pc'[last'[g]] # "new"
    BY <2>1, <1>1 DEF InvFiles, Chains, FilesTypeOK
  <2>2. ASSUME NEW q \in Op, after'[q] # None
        PROVE  arg[after'[q]].file = arg[q].file /\ pc'[after'[q]] # "new"
    <3>1. CASE q = o BY <3>1, <2>2, <1>1 DEF InvFiles, Chains, FilesTypeOK
    <3>2. CASE q # o
      <4>1. after[q] = after'[q] /\ after[q] \in Op BY <3>2, <2>2, <1>1 DEF InvFiles, FilesTypeOK
      <4>2. arg[after[q]].file = arg[q].file /\ pc[after[q]] # "new" BY <4>1, <2>2 DEF InvFiles, Chains
      <4> QED BY <4>1, <4>2, <1>1
    <3> QED BY <3>1, <3>2
  <2>3. ASSUME NEW q \in Op, pc'[q] \in Unsettled
        PROVE  last'[arg[q].file] # None /\ place'[q] <= place'[last'[arg[q].file]]
    <3>1. CASE q = o BY <3>1, <1>1
    <3>2. CASE q # o /\ arg[q].file = f
      <4>1. place'[q] = place[q] /\ place[q] \in 1..count
        BY <3>2, <2>3, <1>1, <1>p DEF Unsettled, Running
      <4> QED BY <4>1, <3>2, <1>1
    <3>3. CASE q # o /\ arg[q].file # f
      <4>0. arg[q].file \in FileName BY DEF InvFiles, FilesTypeOK, Call0
      <4>1. pc[q] \in Unsettled /\ last'[arg[q].file] = last[arg[q].file] /\ place'[q] = place[q]
        BY <3>3, <4>0, <2>3, <1>1
      <4>2. last[arg[q].file] # None /\ place[q] <= place[last[arg[q].file]]
            /\ last[arg[q].file] \in Op /\ pc[last[arg[q].file]] # "new"
        BY <4>0, <4>1 DEF InvFiles, Chains, FilesTypeOK
      <4> QED BY <4>1, <4>2, <1>1
    <3> QED BY <3>1, <3>2, <3>3
  <2> QED BY <2>1, <2>2, <2>3, <1>1 DEF Chains
<1>4. Waits'
  <2> SUFFICES ASSUME NEW q \in Op, NEW r \in Op, pc'[q] = "waiting", pc'[r] \in Unsettled,
                      arg[r].file = arg[q].file, place'[r] < place'[q]
               PROVE  after'[q] # None /\ place'[r] <= place'[after'[q]]
    BY <1>1 DEF Waits
  <2>1. r # o
    <3> SUFFICES ASSUME r = o PROVE FALSE OBVIOUS
    <3>1. q # o BY <1>1
    <3>2. place'[q] \in 1..count BY <3>1, <1>1, <1>p
    <3> QED BY <3>2, <1>1
  <2>2. pc[r] \in Unsettled /\ place'[r] = place[r] BY <2>1, <1>1
  <2>3. CASE q = o
    <3>1. last[f] # None /\ place[r] <= place[last[f]] /\ pc[last[f]] # "new"
      BY <2>2, <2>3, <1>1 DEF InvFiles, Chains
    <3>2. last[f] \in Op /\ last[f] # o BY <3>1, <1>1 DEF InvFiles, FilesTypeOK
    <3> QED BY <3>1, <3>2, <2>2, <2>3, <1>1
  <2>4. CASE q # o
    <3>1. pc[q] = "waiting" /\ place'[q] = place[q] /\ after'[q] = after[q] BY <2>4, <1>1
    <3>2. after[q] # None /\ place[r] <= place[after[q]] BY <3>1, <2>2 DEF InvFiles, Waits
    <3>3. after[q] \in Op /\ after[q] # o BY <3>2, <1>1 DEF InvFiles, FilesTypeOK, Chains
    <3> QED BY <3>1, <3>2, <3>3, <2>2, <1>1
  <2> QED BY <2>3, <2>4
<1>5. InOrder'
  <2> SUFFICES ASSUME NEW r \in Op, NEW q \in Op, pc'[r] \in Running \cup Settled,
                      pc'[q] \in Unsettled, arg[q].file = arg[r].file
               PROVE  place'[r] <= place'[q]
    BY <1>1 DEF InOrder
  <2>1. r # o /\ pc[r] \in Running \cup Settled /\ place'[r] = place[r]
    BY <1>1 DEF Running, Settled
  <2>2. CASE q = o
    <3>1. place[r] \in 1..count BY <2>1, <1>p DEF Running, Settled
    <3> QED BY <3>1, <2>1, <2>2, <1>1
  <2>3. CASE q # o BY <2>1, <2>3, <1>1 DEF InvFiles, InOrder
  <2> QED BY <2>2, <2>3
<1>6. Bodies'
  BY <1>1 DEF InvFiles, Bodies, Writing
<1> QED BY <1>t, <1>2, <1>3, <1>4, <1>5, <1>6 DEF InvFiles

(* A call starts when the one before it is over, hence when all are.          *)
LEMMA StartKeeps == ASSUME InvFiles, NEW o \in Op, Begin(o) PROVE InvFiles'
<1>t. FilesTypeOK'
  BY DEF InvFiles, FilesTypeOK, Begin, Goto, Running
<1>1. /\ pc[o] = "waiting" /\ pc'[o] \in {"rm", "mkdir"} /\ \A q \in Op \ {o} : pc'[q] = pc[q]
      /\ pc'[o] = "rm" <=> arg[o].body = Absent
      /\ UNCHANGED <<arg, after, last, place, count, temp>>
  BY DEF InvFiles, FilesTypeOK, Begin, Goto
<1>2. /\ \A q \in Op : pc'[q] \in Unsettled <=> pc[q] \in Unsettled
      /\ \A q \in Op : pc'[q] # "new" <=> pc[q] # "new"
      /\ \A q \in Op : pc'[q] = "waiting" => pc[q] = "waiting"
  BY <1>1 DEF Unsettled, Running
<1>3. Places' BY <1>1, <1>2 DEF InvFiles, Places
<1>4. Chains' BY <1>1, <1>2 DEF InvFiles, Chains, FilesTypeOK
<1>5. Waits' BY <1>1, <1>2 DEF InvFiles, Waits
<1>6. InOrder'
  <2> SUFFICES ASSUME NEW r \in Op, NEW q \in Op, pc'[r] \in Running \cup Settled,
                      pc'[q] \in Unsettled, arg[q].file = arg[r].file
               PROVE  place[r] <= place[q]
    BY <1>1 DEF InOrder
  <2>1. CASE r # o BY <2>1, <1>1, <1>2 DEF InvFiles, InOrder
  <2>2. CASE r = o
    <3> SUFFICES ASSUME place[q] < place[o] PROVE FALSE
      BY <2>2 DEF InvFiles, FilesTypeOK
    <3>1. pc[q] \in Unsettled BY <1>2
    <3>2. after[o] # None /\ place[q] <= place[after[o]]
      BY <3>1, <2>2, <1>1 DEF InvFiles, Waits
    <3>3. after[o] \in Op /\ pc[after[o]] \in Settled /\ arg[after[o]].file = arg[o].file
          /\ pc[after[o]] # "new"
      BY <3>2 DEF InvFiles, FilesTypeOK, Begin, Chains
    <3>4. place[after[o]] <= place[q] BY <3>1, <3>3, <2>2 DEF InvFiles, InOrder
    <3>5. place[q] = place[after[o]] BY <3>2, <3>3, <3>4 DEF InvFiles, FilesTypeOK
    <3>6. q = after[o] BY <3>1, <3>3, <3>5 DEF InvFiles, Places, Unsettled, Running
    <3> QED BY <3>1, <3>3, <3>6 DEF Unsettled, Running, Settled
  <2> QED BY <2>1, <2>2
<1>7. Bodies' BY <1>1 DEF InvFiles, Bodies, Writing
<1> QED BY <1>t, <1>3, <1>4, <1>5, <1>6, <1>7 DEF InvFiles

(* The system calls of a running call, and their failures.                    *)
LEMMA RunKeeps ==
    ASSUME InvFiles, NEW o \in Op,
           Mkdir(o) \/ CreateTemp(o) \/ NoDirectory(o) \/ Fill(o) \/ Rename(o)
             \/ Rm(o) \/ Rmdir(o) \/ Fails(o)
    PROVE  InvFiles'
<1>1. PICK s \in Running \cup Settled :
        /\ pc[o] \in Running /\ pc' = [pc EXCEPT ![o] = s]
        /\ UNCHANGED <<arg, after, last, place, count>>
        /\ s \in Writing => pc[o] \in Writing
        /\ s \in {"rm", "rmdir"} => pc[o] \in {"rm", "rmdir"}
        /\ s = "rename" => Fill(o)
  BY DEF Mkdir, CreateTemp, NoDirectory, Fill, Rename, Rm, Rmdir, Fails, Goto, Running, Settled, Writing
<1>2. Places' /\ Chains' /\ Waits' /\ InOrder' BY <1>1, Onwards
<1>3. arg[o].file \in FileName /\ arg[o].body \in Contents \cup {Absent}
  BY DEF InvFiles, FilesTypeOK, Call0
<1>4. /\ pc' \in [Op -> {"new", "waiting"} \cup Running \cup Settled]
      /\ arg' \in [Op -> Call0] /\ after' \in [Op -> Op \cup {None}]
      /\ last' \in [FileName -> Op \cup {None}] /\ place' \in [Op -> Nat] /\ count' \in Nat
  BY <1>1 DEF InvFiles, FilesTypeOK
<1>5. /\ temp' \in [Op -> Contents \cup {Absent, Half}]
      /\ \A q \in Op \ {o} : temp'[q] = temp[q]
      /\ Fill(o) => temp'[o] = arg[o].body
  BY <1>3 DEF InvFiles, FilesTypeOK, Mkdir, CreateTemp, NoDirectory, Fill, Rename, Rm, Rmdir, Fails
<1>6. pc[o] = "rename" => temp[o] = arg[o].body /\ arg[o].body \in Contents
  BY <1>3 DEF InvFiles, Bodies, Writing
<1>7. disk' \in [FileName -> Contents \cup {Absent}] /\ dir' \in BOOLEAN
  <2>1. CASE Rename(o) BY <2>1, <1>3, <1>6 DEF InvFiles, FilesTypeOK, Rename
  <2>2. CASE ~Rename(o)
    BY <2>2 DEF InvFiles, FilesTypeOK, Mkdir, CreateTemp, NoDirectory, Fill, Rm, Rmdir, Fails
  <2> QED BY <2>1, <2>2
<1>8. Bodies'
  <2> SUFFICES ASSUME NEW q \in Op
               PROVE  /\ pc'[q] \in Writing => arg[q].body # Absent
                      /\ pc'[q] \in {"rm", "rmdir"} => arg[q].body = Absent
                      /\ pc'[q] = "rename" => temp'[q] = arg[q].body
    BY <1>1 DEF Bodies
  <2>1. CASE q = o
    <3>1. pc'[o] = s BY <1>1 DEF InvFiles, FilesTypeOK
    <3>2. s = "rename" => temp'[o] = arg[o].body BY <1>1, <1>5
    <3> QED BY <2>1, <3>1, <3>2, <1>1 DEF InvFiles, Bodies
  <2>2. CASE q # o
    <3>1. pc'[q] = pc[q] /\ temp'[q] = temp[q] BY <2>2, <1>1, <1>5 DEF InvFiles, FilesTypeOK
    <3> QED BY <3>1 DEF InvFiles, Bodies
  <2> QED BY <2>1, <2>2
<1> QED BY <1>2, <1>4, <1>5, <1>7, <1>8 DEF InvFiles, FilesTypeOK

LEMMA RestartKeeps == InvFiles /\ Restart => InvFiles'
<1> SUFFICES ASSUME InvFiles, Restart PROVE InvFiles' OBVIOUS
<1>1. /\ \A q \in Op : pc'[q] \notin Unsettled
      /\ \A q \in Op : pc'[q] # "new" <=> pc[q] # "new"
      /\ \A f \in FileName : last'[f] = None
      /\ UNCHANGED <<arg, after, disk, temp, dir, place, count>>
  BY DEF InvFiles, FilesTypeOK, Restart, Unsettled, Running, Settled
<1>2. FilesTypeOK' BY DEF InvFiles, FilesTypeOK, Restart, Settled
<1>3. Places' BY <1>1 DEF InvFiles, Places
<1>4. Chains' BY <1>1 DEF InvFiles, Chains, FilesTypeOK
<1>5. Waits' /\ InOrder' BY <1>1 DEF Waits, InOrder
<1>6. Bodies' BY <1>1 DEF Bodies, Unsettled, Running, Writing
<1> QED BY <1>2, <1>3, <1>4, <1>5, <1>6 DEF InvFiles

LEMMA StutterKeeps == InvFiles /\ UNCHANGED filesVars => InvFiles'
BY DEF InvFiles, filesVars, FilesTypeOK, Places, Chains, Waits, InOrder, Bodies

LEMMA Invariance == FilesSafe => []InvFiles
<1>1. InvFiles /\ [FilesNext]_filesVars => InvFiles'
  BY LockKeeps, StartKeeps, RunKeeps, RestartKeeps, StutterKeeps DEF FilesNext, SystemCall
<1> QED BY InitFiles, <1>1, PTL DEF FilesSafe

(* Calls, chains and files are what their types say: no reader of a file ever *)
(* finds it half written (atomicWrite).                                       *)
THEOREM FilesWhole == FilesSpec => []FilesTypeOK
<1>1. InvFiles => FilesTypeOK BY DEF InvFiles
<1> QED BY <1>1, Invariance, PTL DEF FilesSpec

-----------------------------------------------------------------------------
(* Every step is a step of the register, or none.                             *)
LEMMA CallOf ==
    ASSUME InvFiles, NEW o \in Op
    PROVE  /\ Calls[o] # NoCall <=> pc[o] \in Open
           /\ pc[o] \in Open =>
                /\ Calls[o] = [file |-> arg[o].file, body |-> arg[o].body, place |-> place[o]]
                /\ Calls[o].file = arg[o].file /\ Calls[o].body = arg[o].body
                /\ Calls[o].place = place[o]
<1>1. CASE pc[o] \in Open
  <2>1. arg[o].file \in FileName /\ arg[o].body \in Contents \cup {Absent} /\ place[o] \in Place
    BY <1>1 DEF InvFiles, FilesTypeOK, Call0, Places, Open, Running
  <2>2. Calls[o] = [file |-> arg[o].file, body |-> arg[o].body, place |-> place[o]]
    BY <1>1 DEF Calls
  <2>3. Calls[o] \in [file : FileName, body : Contents \cup {Absent}, place : Place] BY <2>1, <2>2
  <2> QED BY <1>1, <2>2, <2>3, AtomicFileAssumption
<1>2. CASE pc[o] \notin Open BY <1>2 DEF Calls
<1> QED BY <1>1, <1>2

(* Where a call stays ahead nothing shows; where it ends, its own call goes.  *)
LEMMA SameCalls ==
    ASSUME InvFiles, UNCHANGED <<arg, place>>, \A q \in Op : pc'[q] \in Open <=> pc[q] \in Open
    PROVE  Calls' = Calls
BY DEF Calls

LEMMA OneCallLess ==
    ASSUME InvFiles, NEW o \in Op, UNCHANGED <<arg, place>>, pc'[o] \notin Open,
           \A q \in Op \ {o} : pc'[q] = pc[q]
    PROVE  Calls' = [Calls EXCEPT ![o] = NoCall]
BY DEF Calls

LEMMA IsFirst ==
    ASSUME InvFiles, NEW o \in Op, pc[o] \in Running \ {"rmdir"}
    PROVE  Register!Pending(o) /\ Register!First(o)
<1>1. Register!Pending(o) BY CallOf DEF Register!Pending, Open
<1>2. ASSUME NEW q \in Op, Calls[q] # NoCall, Calls[q].file = Calls[o].file
      PROVE  Calls[o].place <= Calls[q].place
  <2>1. pc[q] \in Open /\ pc[o] \in Open BY <1>2, CallOf DEF Open
  <2>2. /\ Calls[q].place = place[q] /\ Calls[q].file = arg[q].file
        /\ Calls[o].place = place[o] /\ Calls[o].file = arg[o].file
    BY <2>1, CallOf
  <2>3. pc[q] \in Unsettled BY <2>1 DEF Open, Unsettled
  <2> QED BY <1>2, <2>2, <2>3 DEF InvFiles, InOrder
<1> QED BY <1>1, <1>2 DEF Register!First, Register!Pending

LEMMA LockCalls == ASSUME InvFiles, NEW o \in Op, Lock(o) PROVE Register!Next
<1>1. /\ arg[o].file \in FileName /\ arg[o].body \in Contents \cup {Absent} /\ count + 1 \in Place
      /\ pc[o] = "new" /\ pc' = [pc EXCEPT ![o] = "waiting"]
      /\ arg' = arg /\ disk' = disk /\ place' = [place EXCEPT ![o] = count + 1]
  BY DEF InvFiles, FilesTypeOK, Call0, Lock, Goto
<1>2. Calls' = [Calls EXCEPT ![o] =
                  [file |-> arg[o].file, body |-> arg[o].body, place |-> count + 1]]
  BY <1>1 DEF Calls, Open, InvFiles, FilesTypeOK
<1>3. ~Register!Pending(o) BY <1>1, CallOf DEF Register!Pending, Open, Running
<1>4. ASSUME NEW q \in Op, Register!Pending(q) PROVE Calls[q].place < count + 1
  <2>1. pc[q] \in Open /\ Calls[q].place = place[q] BY <1>4, CallOf DEF Register!Pending
  <2>2. place[q] \in 1..count /\ count \in Nat BY <2>1 DEF InvFiles, FilesTypeOK, Places, Open, Running
  <2> QED BY <2>1, <2>2
<1>5. Register!Call(o, arg[o].file, arg[o].body, count + 1)
  BY <1>1, <1>2, <1>3, <1>4 DEF Register!Call
<1> QED BY <1>1, <1>5 DEF Register!Next

LEMMA StepMaps == ASSUME InvFiles, [FilesNext]_filesVars PROVE [Register!Next]_Register!vars
<1>1. ASSUME NEW o \in Op, Lock(o) PROVE Register!Next BY <1>1, LockCalls
<1>2. ASSUME NEW o \in Op,
             Begin(o) \/ Mkdir(o) \/ CreateTemp(o) \/ Fill(o) \/ Rmdir(o)
      PROVE  UNCHANGED Register!vars
  <2>1. UNCHANGED <<arg, place, disk>>
    BY <1>2 DEF Begin, Mkdir, CreateTemp, Fill, Rmdir
  <2>2. \A q \in Op : pc'[q] \in Open <=> pc[q] \in Open
    BY <1>2 DEF Begin, Mkdir, CreateTemp, Fill, Rmdir, Goto, Open, Running, InvFiles, FilesTypeOK
  <2> QED BY <2>1, <2>2, SameCalls DEF Register!vars
<1>3. ASSUME NEW o \in Op, NoDirectory(o) \/ Fails(o) PROVE Register!Next
  <2>1. /\ pc[o] \in Running \ {"rmdir"} /\ pc' = [pc EXCEPT ![o] = "failed"]
        /\ UNCHANGED <<arg, place, disk>>
    BY <1>3 DEF NoDirectory, Fails, Goto, Running
  <2>2. Calls' = [Calls EXCEPT ![o] = NoCall]
    BY <2>1, OneCallLess DEF InvFiles, FilesTypeOK, Open, Running
  <2>3. Register!Fails(o) BY <2>1, <2>2, IsFirst DEF Register!Fails
  <2> QED BY <2>3 DEF Register!Next
<1>4. ASSUME NEW o \in Op, Rename(o) \/ Rm(o) PROVE Register!Next
  <2>1. /\ pc[o] \in {"rename", "rm"} /\ UNCHANGED <<arg, place>>
        /\ pc'[o] \notin Open /\ \A q \in Op \ {o} : pc'[q] = pc[q]
    BY <1>4 DEF Rename, Rm, Goto, Open, Running, InvFiles, FilesTypeOK
  <2>2. Calls' = [Calls EXCEPT ![o] = NoCall] BY <2>1, OneCallLess
  <2>3. disk' = [disk EXCEPT ![arg[o].file] = arg[o].body]
    BY <1>4 DEF Rename, Rm, InvFiles, Bodies
  <2>4. Calls[o].file = arg[o].file /\ Calls[o].body = arg[o].body
    BY <2>1, CallOf DEF Open, Running
  <2>5. Register!Takes(o)
    BY <2>1, <2>2, <2>3, <2>4, IsFirst DEF Register!Takes, Running
  <2> QED BY <2>5 DEF Register!Next
<1>5. CASE Restart
  <2>1. Calls' = [o \in Op |-> NoCall] /\ disk' = disk
    BY <1>5 DEF Restart, Calls, Open, Running, Settled, InvFiles, FilesTypeOK
  <2> QED BY <2>1 DEF Register!Next, Register!Restart
<1>6. CASE UNCHANGED filesVars
  BY <1>6, SameCalls DEF filesVars, Register!vars
<1> QED BY <1>1, <1>2, <1>3, <1>4, <1>5, <1>6 DEF FilesNext, SystemCall

(* withPathLock, atomicWrite and pruneFile together: the files are registers, *)
(* the calls on each take effect whole and in the order they were made, and a *)
(* call that fails or is lost in a restart has no effect.                     *)
THEOREM FilesAreRegisters == FilesSpec => IsRegister
<1>1. FilesInit => Register!Init
  <2> SUFFICES ASSUME FilesInit PROVE Register!Init OBVIOUS
  <2>1. Calls = [o \in Op |-> NoCall] BY DEF FilesInit, Calls, Open, Running
  <2> QED BY <2>1 DEF FilesInit, Register!Init
<1>2. InvFiles /\ [FilesNext]_filesVars => [Register!Next]_Register!vars BY StepMaps
<1> QED BY <1>1, <1>2, Invariance, PTL DEF FilesSpec, FilesSafe, IsRegister, Register!Spec
=============================================================================
