------------------------ MODULE FailoverGroupsProofs -------------------------
(* What holds of failover groups for any number of channels, groups and       *)
(* requests.  The invariant looks ahead: a group that is not in order has a   *)
(* statement left, in some request, that puts it in order; and while requests *)
(* come one at a time, what a request still has to write is what makes the    *)
(* database right once it has been written.                                   *)
EXTENDS FailoverGroups, FiniteSetTheorems, TLAPS

Link == [tvg : Tvg, epg : Epg, state : State]

Clears  == [kind : {"clear"}, group : GroupId, keep : SUBSET Chan]
Puts    == [kind : {"put"}, chan : Chan, group : GroupId, role : {"child"}, order : Nat,
            tvg : Tvg, epg : Epg, state : State \ {Null}, orig : Tvg \cup {Missing}]
Heads   == [kind : {"head"}, chan : Chan, group : GroupId, state : State \ {Null},
            orig : Tvg \cup {Missing}]
Places  == [kind : {"order"}, chan : Chan, group : GroupId, order : Nat]
Disbands == [kind : {"disband"}, groups : SUBSET GroupId]
Relinks == [kind : {"link"}, chan : Chan, link : Link]
Mirrors == [kind : {"mirror"}, group : GroupId, link : Link]
Sweeps  == [kind : {"drop", "bury", "upsert", "fill"}, chans : SUBSET Chan]
Lookups == [kind : {"tombstones"}, listed : SUBSET Chan]
Plain   == [kind : {"tally", "exhume", "unlink"}]
Statements == Clears \cup Puts \cup Heads \cup Places \cup Disbands \cup Relinks \cup Mirrors
                \cup Sweeps \cup Lookups \cup Plain

TypesOK ==
    /\ TypeOK
    /\ tasks \in [Req -> Seq(Statements)]

-----------------------------------------------------------------------------
(* The shape of what a request has left.                                      *)

Breaks(x) == x.kind \in {"clear", "put", "head"} \/ (x.kind = "drop" /\ x.chans # Chan)

(* A statement that may leave a group in disorder is followed by a tally; a   *)
(* save writes nothing else before its parent; what a statement computed for  *)
(* the next one comes next.                                                   *)
Shaped(s) ==
    /\ \A i \in 1..Len(s) : Breaks(s[i]) => \E k \in i+1..Len(s) : s[k].kind = "tally"
    /\ \A k \in 1..Len(s), i \in 1..Len(s) : s[k].kind \in {"put", "head"} /\ i < k => s[i].kind \in {"clear", "put"}
    /\ \A i \in 1..Len(s) : s[i].kind \in {"link", "mirror", "upsert"} => i = 1
    /\ \A i \in 1..Len(s) : s[i].kind \in {"link", "mirror"} => Len(s) = 1

ShapesOK == \A r \in Req : Shaped(tasks[r])

-----------------------------------------------------------------------------
(* Groups that are not in order will be.                                      *)

WellFormed(g) == Members(g) # {} => Cardinality(Parents(g)) = 1 /\ Children(g) # {}
Heals(x, g) == x.kind = "tally" \/ (x.kind = "disband" /\ g \in x.groups)
Healing ==
    ~unhealed => \A g \in GroupId :
        WellFormed(g) \/ \E r \in Req : \E i \in 1..Len(tasks[r]) : Heals(tasks[r][i], g)

-----------------------------------------------------------------------------
(* One request at a time.                                                     *)

Alone == \A q, r \in Req : tasks[q] # <<>> /\ tasks[r] # <<>> => q = r
OneHead == \A g \in GroupId : \A c, d \in Parents(g) : c = d

(* A member that a save is going to turn out, or to write, before its k-th    *)
(* statement.                                                                 *)
Leaves(s, k, c) ==
    \E i \in 1..Len(s) : /\ i < k
                         /\ \/ s[i].kind = "clear" /\ s[i].group = s[k].group /\ c \notin s[i].keep
                            \/ s[i].kind = "put" /\ s[i].chan = c

(* When the parent is written, no other parent is left, and every child       *)
(* mirrors it.                                                                *)
HeadsOK(s) ==
    \A k \in 1..Len(s) : s[k].kind = "head" =>
        \A c \in Parents(s[k].group) : c = s[k].chan \/ Leaves(s, k, c)

Linked(doc, tvg, epg, state) == doc.tvg = tvg /\ doc.epg = epg /\ doc.state = state
Matching(g) == \A p \in Parents(g), c \in Children(g) : Linked(docs[c], docs[p].tvg, docs[p].epg, docs[p].state)
GroupedTouched == \A c \in Live : docs[c].role # Null => ~Fillable(docs[c])

MirrorsOK(s) ==
    /\ \A k \in 1..Len(s) : s[k].kind = "head" =>
         LET p == s[k].chan IN
         /\ p \in Live
         /\ \A c \in Children(s[k].group) :
              c = p \/ Leaves(s, k, c) \/ Linked(docs[c], docs[p].tvg, docs[p].epg, s[k].state)
         /\ \A i \in 1..Len(s) : i < k /\ s[i].kind = "put" =>
              /\ s[i].chan # p /\ s[i].group = s[k].group
              /\ s[i].tvg = docs[p].tvg /\ s[i].epg = docs[p].epg /\ s[i].state = s[k].state
         /\ \A i \in 1..Len(s) : i < k /\ s[i].kind = "clear" => p \in s[i].keep
    /\ \A k \in 1..Len(s) : s[k].kind = "put" => \E i \in 1..Len(s) : k < i /\ s[i].kind = "head"
    /\ \A i \in 1..Len(s) : s[i].kind = "mirror" =>
         /\ s[i].link.state # Null
         /\ \A p \in Parents(s[i].group) : Linked(docs[p], s[i].link.tvg, s[i].link.epg, s[i].link.state)
    /\ \A i \in 1..Len(s) : s[i].kind = "link" /\ s[i].chan \in Live =>
         /\ docs[s[i].chan].role # "child"
         /\ docs[s[i].chan].role = "parent" => s[i].link.state # Null

MirrorAhead(s, g) == \E i \in 1..Len(s) : s[i].kind \in {"head", "mirror"} /\ s[i].group = g

(* No channel with a tombstone is in the database, or about to be.            *)
GravesOK(s) ==
    /\ \A i \in 1..Len(s) : s[i].kind = "upsert" => s[i].chans \cap buried = {}
    /\ \A i \in 1..Len(s) : s[i].kind = "bury" =>
         \A c \in s[i].chans \cap Live : \E k \in 1..Len(s) : k < i /\ s[k].kind = "drop" /\ c \in s[k].chans
    /\ \A i, k \in 1..Len(s) : s[i].kind = "bury" /\ k < i => s[k].kind = "drop"

HeadsInv  == OneAtATime => Alone /\ OneHead /\ \A r \in Req : HeadsOK(tasks[r])
GravesInv == OneAtATime => buried \cap Live = {} /\ \A r \in Req : GravesOK(tasks[r])
MirrorInv ==
    mess = {} =>
        /\ GroupedTouched /\ \A r \in Req : MirrorsOK(tasks[r])
        /\ \A g \in GroupId : Matching(g) \/ \E r \in Req : MirrorAhead(tasks[r], g)

IInv == TypesOK /\ ShapesOK /\ Healing /\ HeadsInv /\ GravesInv /\ MirrorInv

-----------------------------------------------------------------------------
(* Sequences: one statement done, and one replaced by the next.               *)
LEMMA TailFacts ==
    ASSUME NEW S, NEW s \in Seq(S), s # <<>>
    PROVE  /\ Len(s) \in Nat \ {0} /\ Head(s) = s[1] /\ s[1] \in S
           /\ Tail(s) \in Seq(S) /\ Len(Tail(s)) = Len(s) - 1
           /\ \A i \in 1..Len(Tail(s)) : i + 1 \in 1..Len(s) /\ Tail(s)[i] = s[i + 1]
OBVIOUS

LEMMA SwapFacts ==
    ASSUME NEW S, NEW s \in Seq(S), s # <<>>, NEW x \in S
    PROVE  /\ <<x>> \o Tail(s) \in Seq(S) /\ Len(<<x>> \o Tail(s)) = Len(s)
           /\ (<<x>> \o Tail(s))[1] = x
           /\ \A i \in 2..Len(s) : (<<x>> \o Tail(s))[i] = s[i]
OBVIOUS

LEMMA EmptyFacts ==
    ASSUME NEW S
    PROVE  <<>> \in Seq(S) /\ Len(<<>>) = 0 /\ \A s \in Seq(S) : <<>> \o s = s
OBVIOUS

(* A statement is of its kind. *)
LEMMA Kinds ==
    ASSUME NEW x \in Statements
    PROVE  /\ x.kind = "clear" => x \in Clears
           /\ x.kind = "put" => x \in Puts
           /\ x.kind = "head" => x \in Heads
           /\ x.kind = "order" => x \in Places
           /\ x.kind = "disband" => x \in Disbands
           /\ x.kind = "link" => x \in Relinks
           /\ x.kind = "mirror" => x \in Mirrors
           /\ x.kind \in {"drop", "bury", "upsert", "fill"} => x \in Sweeps
           /\ x.kind = "tombstones" => x \in Lookups
BY DEF Statements, Clears, Puts, Heads, Places, Disbands, Relinks, Mirrors, Sweeps, Lookups, Plain

LEMMA IsStatement ==
    /\ Clears \cup Puts \cup Heads \cup Places \cup Disbands \cup Relinks \cup Mirrors \cup Sweeps
         \cup Lookups \subseteq Statements
    /\ [kind |-> "tally"] \in Statements /\ [kind |-> "exhume"] \in Statements
    /\ [kind |-> "unlink"] \in Statements
    /\ \A cs \in SUBSET Chan : /\ [kind |-> "tombstones", listed |-> cs] \in Statements
                               /\ [kind |-> "drop", chans |-> cs] \in Statements
                               /\ [kind |-> "bury", chans |-> cs] \in Statements
                               /\ [kind |-> "upsert", chans |-> cs] \in Statements
                               /\ [kind |-> "fill", chans |-> cs] \in Statements
    /\ \A gs \in SUBSET GroupId : [kind |-> "disband", groups |-> gs] \in Statements
BY DEF Statements, Disbands, Sweeps, Lookups, Plain

(* The sequences requests start with. *)
Savable(p, n, children, g) ==
    /\ n \in Nat /\ children \in [1..n -> Chan]
    /\ [kind |-> "clear", group |-> g, keep |-> Range(children) \cup {p}] \in Statements
    /\ \A i \in 1..n : PutChild(p, children[i], g, i) \in Statements
    /\ PutParent(p, g) \in Statements

Saves(w, p, n, children, g) ==
    /\ w \in Seq(Statements) /\ Len(w) = n + 3
    /\ w[1] = [kind |-> "clear", group |-> g, keep |-> Range(children) \cup {p}]
    /\ \A i \in 1..n : w[i + 1] = PutChild(p, children[i], g, i)
    /\ w[n + 2] = PutParent(p, g) /\ w[n + 3] = [kind |-> "tally"]

LEMMA SaveWrites ==
    ASSUME NEW p, NEW n, NEW children, NEW g, Savable(p, n, children, g)
    PROVE  Saves(GroupWrites(p, children, g) \o Reconcile, p, n, children, g)
<1> DEFINE c == [kind |-> "clear", group |-> g, keep |-> Range(children) \cup {p}]
           puts == [i \in DOMAIN children |-> PutChild(p, children[i], g, i)]
           h == PutParent(p, g)
           t == [kind |-> "tally"]
<1>1. puts \in Seq(Statements) /\ Len(puts) = n /\ \A i \in 1..n : puts[i] = PutChild(p, children[i], g, i)
    BY DEF Savable
<1>2. GroupWrites(p, children, g) \o Reconcile = (<<c>> \o puts \o <<h>>) \o <<t>>
    BY DEF GroupWrites, Reconcile
<1>3. c \in Statements /\ h \in Statements /\ t \in Statements
    BY IsStatement DEF Savable
<1> HIDE DEF puts, c, h, t
<1>4. /\ <<c>> \o puts \in Seq(Statements) /\ Len(<<c>> \o puts) = n + 1 /\ (<<c>> \o puts)[1] = c
      /\ \A i \in 1..n : (<<c>> \o puts)[i + 1] = puts[i]
    BY <1>1, <1>3
<1>5. ASSUME NEW s \in Seq(Statements)
      PROVE  /\ (s \o <<h>>) \o <<t>> \in Seq(Statements) /\ Len((s \o <<h>>) \o <<t>>) = Len(s) + 2
             /\ \A i \in 1..Len(s) : ((s \o <<h>>) \o <<t>>)[i] = s[i]
             /\ ((s \o <<h>>) \o <<t>>)[Len(s) + 1] = h /\ ((s \o <<h>>) \o <<t>>)[Len(s) + 2] = t
    BY <1>3
<1> DEFINE s == <<c>> \o puts
           w == (s \o <<h>>) \o <<t>>
<1>6. s \in Seq(Statements) /\ Len(s) = n + 1 /\ s[1] = c /\ \A i \in 1..n : s[i + 1] = puts[i]
    BY <1>4
<1> HIDE DEF s
<1>7. /\ w \in Seq(Statements) /\ Len(w) = Len(s) + 2 /\ \A i \in 1..Len(s) : w[i] = s[i]
      /\ w[Len(s) + 1] = h /\ w[Len(s) + 2] = t
    BY <1>5, <1>6, Zenon
<1> HIDE DEF w
<1>8. /\ w \in Seq(Statements) /\ Len(w) = n + 3 /\ w[1] = c /\ w[n + 2] = h /\ w[n + 3] = t
      /\ \A i \in 1..n : w[i + 1] = PutChild(p, children[i], g, i)
    BY <1>1, <1>6, <1>7
<1>9. Saves(w, p, n, children, g)
    BY <1>8 DEF Saves, c, h, t
<1>10. GroupWrites(p, children, g) \o Reconcile = w
    BY <1>2, Zenon DEF w, s
<1> QED BY <1>9, <1>10, Zenon

LEMMA SyncWrites ==
    ASSUME NEW listed \in SUBSET Chan
    PROVE  /\ LET w == SyncStatements(listed, TRUE) IN
              /\ w \in Seq(Statements)
              /\ Len(w) = 4 /\ w[1] = [kind |-> "tombstones", listed |-> listed]
              /\ w[2] = [kind |-> "drop", chans |-> Chan \ listed]
              /\ w[3] = [kind |-> "tally"] /\ w[4] = [kind |-> "fill", chans |-> listed]
           /\ LET w == SyncStatements(listed, FALSE) IN
              /\ w \in Seq(Statements)
              /\ Len(w) = 2 /\ w[1] = [kind |-> "tombstones", listed |-> listed]
              /\ w[2] = [kind |-> "fill", chans |-> listed]
<1> DEFINE a == [kind |-> "tombstones", listed |-> listed]
           b == [kind |-> "drop", chans |-> Chan \ listed]
           c == [kind |-> "tally"]
           d == [kind |-> "fill", chans |-> listed]
<1>1. a \in Statements /\ b \in Statements /\ c \in Statements /\ d \in Statements
    BY IsStatement
<1>2. /\ SyncStatements(listed, TRUE) = <<a>> \o (<<b>> \o <<c>>) \o <<d>>
      /\ SyncStatements(listed, FALSE) = <<a>> \o <<>> \o <<d>>
    BY DEF SyncStatements, Reconcile
<1> HIDE DEF a, b, c, d
<1>3. LET w == <<a>> \o (<<b>> \o <<c>>) \o <<d>> IN
      w \in Seq(Statements) /\ Len(w) = 4 /\ w[1] = a /\ w[2] = b /\ w[3] = c /\ w[4] = d
    BY <1>1
<1>4. LET w == <<a>> \o <<>> \o <<d>> IN w \in Seq(Statements) /\ Len(w) = 2 /\ w[1] = a /\ w[2] = d
    BY <1>1
<1> QED BY <1>2, <1>3, <1>4 DEF a, b, c, d

LEMMA RestoreWrites ==
    LET clean == <<[kind |-> "drop", chans |-> Chan], [kind |-> "exhume"]>> IN
    /\ LET w == clean \o SyncStatements(Chan, TRUE) IN
       /\ w \in Seq(Statements) /\ Len(w) = 6
       /\ w[1] = [kind |-> "drop", chans |-> Chan] /\ w[2] = [kind |-> "exhume"]
       /\ w[3] = [kind |-> "tombstones", listed |-> Chan]
       /\ w[4] = [kind |-> "drop", chans |-> Chan \ Chan]
       /\ w[5] = [kind |-> "tally"] /\ w[6] = [kind |-> "fill", chans |-> Chan]
    /\ LET w == clean \o SyncStatements(Chan, FALSE) IN
       /\ w \in Seq(Statements) /\ Len(w) = 4
       /\ w[1] = [kind |-> "drop", chans |-> Chan] /\ w[2] = [kind |-> "exhume"]
       /\ w[3] = [kind |-> "tombstones", listed |-> Chan]
       /\ w[4] = [kind |-> "fill", chans |-> Chan]
<1> DEFINE s == SyncStatements(Chan, TRUE)
           f == SyncStatements(Chan, FALSE)
           a == [kind |-> "drop", chans |-> Chan]
           b == [kind |-> "exhume"]
<1>1. /\ s \in Seq(Statements) /\ Len(s) = 4 /\ s[1] = [kind |-> "tombstones", listed |-> Chan]
      /\ s[2] = [kind |-> "drop", chans |-> Chan \ Chan]
      /\ s[3] = [kind |-> "tally"] /\ s[4] = [kind |-> "fill", chans |-> Chan]
      /\ f \in Seq(Statements) /\ Len(f) = 2 /\ f[1] = [kind |-> "tombstones", listed |-> Chan]
      /\ f[2] = [kind |-> "fill", chans |-> Chan]
    BY SyncWrites
<1>2. a \in Statements /\ b \in Statements
    BY IsStatement
<1> HIDE DEF s, f, a, b
<1>7. s \in Seq(Statements) /\ Len(s) = 4 /\ f \in Seq(Statements) /\ Len(f) = 2
    BY <1>1
<1>8. ASSUME NEW t \in Seq(Statements)
      PROVE  /\ <<a, b>> \o t \in Seq(Statements) /\ (<<a, b>> \o t)[1] = a /\ (<<a, b>> \o t)[2] = b
             /\ Len(<<a, b>> \o t) = 2 + Len(t)
             /\ Len(t) = 2 \/ Len(t) = 4 => (<<a, b>> \o t)[3] = t[1] /\ (<<a, b>> \o t)[4] = t[2]
             /\ Len(t) = 4 => (<<a, b>> \o t)[5] = t[3] /\ (<<a, b>> \o t)[6] = t[4]
    BY <1>2
<1> DEFINE w == <<a, b>> \o s
           v == <<a, b>> \o f
<1>3. /\ w \in Seq(Statements) /\ w[1] = a /\ w[2] = b /\ Len(w) = 2 + Len(s)
      /\ w[3] = s[1] /\ w[4] = s[2]
      /\ Len(s) = 4 => w[5] = s[3] /\ w[6] = s[4]
    BY <1>7, <1>8, Zenon
<1>4. /\ v \in Seq(Statements) /\ v[1] = a /\ v[2] = b /\ Len(v) = 2 + Len(f)
      /\ v[3] = f[1] /\ v[4] = f[2]
    BY <1>7, <1>8, Zenon
<1> HIDE DEF w, v
<1>5. /\ w \in Seq(Statements) /\ w[1] = a /\ w[2] = b /\ Len(w) = 6
      /\ w[3] = [kind |-> "tombstones", listed |-> Chan]
      /\ w[4] = [kind |-> "drop", chans |-> Chan \ Chan]
      /\ w[5] = [kind |-> "tally"] /\ w[6] = [kind |-> "fill", chans |-> Chan]
    BY <1>1, <1>7, <1>3
<1>6. /\ v \in Seq(Statements) /\ v[1] = a /\ v[2] = b /\ Len(v) = 4
      /\ v[3] = [kind |-> "tombstones", listed |-> Chan]
      /\ v[4] = [kind |-> "fill", chans |-> Chan]
    BY <1>1, <1>7, <1>4
<1> QED BY <1>5, <1>6, Zenon DEF w, v, s, f, a, b

LEMMA DeleteWrites ==
    ASSUME NEW c \in Chan
    PROVE  LET w == <<[kind |-> "drop", chans |-> {c}], [kind |-> "bury", chans |-> {c}]>> \o Reconcile IN
           /\ w \in Seq(Statements)
           /\ Len(w) = 3 /\ w[1] = [kind |-> "drop", chans |-> {c}]
           /\ w[2] = [kind |-> "bury", chans |-> {c}] /\ w[3] = [kind |-> "tally"]
<1> DEFINE a == [kind |-> "drop", chans |-> {c}]
           b == [kind |-> "bury", chans |-> {c}]
           t == [kind |-> "tally"]
<1>1. a \in Statements /\ b \in Statements /\ t \in Statements
    BY IsStatement
<1> HIDE DEF a, b, t
<1>2. LET w == <<a, b>> \o <<t>> IN w \in Seq(Statements) /\ Len(w) = 3 /\ w[1] = a /\ w[2] = b /\ w[3] = t
    BY <1>1
<1> QED BY <1>2 DEF a, b, t, Reconcile

-----------------------------------------------------------------------------
(* One statement: what it does to the tasks, and that it keeps the types.     *)
LEMMA StepFacts ==
    ASSUME TypesOK, NEW r \in Req, tasks[r] # <<>>
    PROVE  LET s == tasks[r] IN
           /\ s \in Seq(Statements) /\ Len(s) \in Nat \ {0} /\ Head(s) = s[1] /\ s[1] \in Statements
           /\ Done(r) => /\ tasks' \in [Req -> Seq(Statements)] /\ tasks'[r] = Tail(s)
                         /\ \A q \in Req \ {r} : tasks'[q] = tasks[q]
           /\ \A y \in Statements : Then(r, <<y>>) =>
                /\ tasks' \in [Req -> Seq(Statements)] /\ tasks'[r] = <<y>> \o Tail(s)
                /\ \A q \in Req \ {r} : tasks'[q] = tasks[q]
           /\ Then(r, <<>>) => Done(r)
<1> DEFINE s == tasks[r]
<1>1. s \in Seq(Statements) /\ s # <<>> /\ tasks \in [Req -> Seq(Statements)]
    BY DEF TypesOK
<1>2. /\ Len(s) \in Nat \ {0} /\ Head(s) = s[1] /\ s[1] \in Statements /\ Tail(s) \in Seq(Statements)
      /\ \A y \in Statements : <<y>> \o Tail(s) \in Seq(Statements)
      /\ <<>> \o Tail(s) = Tail(s)
    BY <1>1, TailFacts, SwapFacts, EmptyFacts
<1>3. Done(r) <=> tasks' = [tasks EXCEPT ![r] = Tail(s)]
    BY DEF Done
<1>4. \A y : Then(r, <<y>>) <=> tasks' = [tasks EXCEPT ![r] = <<y>> \o Tail(s)]
    BY DEF Then
<1>5. Then(r, <<>>) <=> tasks' = [tasks EXCEPT ![r] = <<>> \o Tail(s)]
    BY DEF Then
<1>6. Then(r, <<>>) => Done(r)
    BY <1>2, <1>3, <1>5
<1>7. ASSUME NEW t \in Seq(Statements), tasks' = [tasks EXCEPT ![r] = t]
      PROVE  /\ tasks' \in [Req -> Seq(Statements)] /\ tasks'[r] = t
             /\ \A q \in Req \ {r} : tasks'[q] = tasks[q]
    BY <1>1, <1>7
<1>8. Done(r) => /\ tasks' \in [Req -> Seq(Statements)] /\ tasks'[r] = Tail(s)
                 /\ \A q \in Req \ {r} : tasks'[q] = tasks[q]
    BY <1>2, <1>3, <1>7
<1>9. \A y \in Statements : Then(r, <<y>>) =>
        /\ tasks' \in [Req -> Seq(Statements)] /\ tasks'[r] = <<y>> \o Tail(s)
        /\ \A q \in Req \ {r} : tasks'[q] = tasks[q]
    BY <1>2, <1>4, <1>7
<1> QED BY <1>1, <1>2, <1>6, <1>8, <1>9

LEMMA DocFacts ==
    ASSUME GroupsAssumption, TypeOK
    PROVE  /\ \A d \in Doc : d # NoDoc
           /\ \A c \in Chan : c \in Live <=> docs[c] \in Doc
           /\ \A c \in Live : c \in Chan /\ docs[c] \in Doc
           /\ Null \notin GroupId /\ Null \notin {"parent", "child"} /\ Null \notin Chan
BY DEF GroupsAssumption, TypeOK, Live

LEMMA DisbandedDoc ==
    ASSUME NEW d \in Doc
    PROVE  LET e == Disbanded(d) IN
           e \in Doc /\ e.group = Null /\ e.role = Null /\ e.epg = d.epg /\ e.state = d.state
BY DEF Disbanded, Doc, Tvg, Epg, State

LEMMA ClearEffect ==
    ASSUME GroupsAssumption, TypesOK, NEW r \in Req, Clear(r)
    PROVE  LET x == tasks[r][1] IN
           /\ tasks[r] # <<>> /\ x \in Clears /\ x.kind = "clear" /\ Done(r)
           /\ TypesOK' /\ Live' = Live
           /\ \A c \in Live : IF c \in Members(x.group) \ x.keep
                              THEN docs'[c].group = Null /\ docs'[c].role = Null ELSE docs'[c] = docs[c]
<1> DEFINE x == tasks[r][1]
           gone == Members(x.group) \ x.keep
<1>1. tasks[r] # <<>> /\ Done(r) /\ Head(tasks[r]).kind = "clear"
    BY DEF Clear, At
<1>2. Head(tasks[r]) = x /\ x \in Clears /\ tasks' \in [Req -> Seq(Statements)]
    BY <1>1, StepFacts, Kinds
<1>3. docs' = [c \in Chan |-> IF c \in gone THEN Disbanded(docs[c]) ELSE docs[c]]
    BY <1>2 DEF Clear, Update, Now
<1>4. gone \subseteq Live /\ TypeOK
    BY DEF Members, TypesOK
<1> HIDE DEF gone
<1>5. /\ docs' \in [Chan -> Doc \cup {NoDoc}] /\ Live' = Live
      /\ \A c \in Live : IF c \in gone THEN docs'[c].group = Null /\ docs'[c].role = Null
                                       ELSE docs'[c] = docs[c]
    BY <1>3, <1>4, DocFacts, DisbandedDoc DEF Live, TypeOK
<1>6. TypesOK'
    BY <1>2, <1>4, <1>5 DEF TypesOK, TypeOK, Clear
<1> QED BY <1>1, <1>2, <1>5, <1>6 DEF gone

LEMMA DisbandEffect ==
    ASSUME GroupsAssumption, TypesOK, NEW r \in Req, Disband(r)
    PROVE  LET x == tasks[r][1] IN
           /\ tasks[r] # <<>> /\ x \in Disbands /\ x.kind = "disband" /\ Done(r)
           /\ TypesOK' /\ Live' = Live
           /\ \A c \in Live : IF docs[c].group \in x.groups
                              THEN docs'[c].group = Null /\ docs'[c].role = Null ELSE docs'[c] = docs[c]
<1> DEFINE x == tasks[r][1]
           gone == UNION {Members(g) : g \in x.groups}
<1>1. tasks[r] # <<>> /\ Done(r) /\ Head(tasks[r]).kind = "disband"
    BY DEF Disband, At
<1>2. Head(tasks[r]) = x /\ x \in Disbands /\ tasks' \in [Req -> Seq(Statements)]
    BY <1>1, StepFacts, Kinds
<1>3. docs' = [c \in Chan |-> IF c \in gone THEN Disbanded(docs[c]) ELSE docs[c]]
    BY <1>2 DEF Disband, Update, Now
<1>4. gone \subseteq Live /\ TypeOK /\ \A c \in Live : c \in gone <=> docs[c].group \in x.groups
    BY DEF Members, TypesOK
<1> HIDE DEF gone
<1>5. /\ docs' \in [Chan -> Doc \cup {NoDoc}] /\ Live' = Live
      /\ \A c \in Live : IF c \in gone THEN docs'[c].group = Null /\ docs'[c].role = Null
                                       ELSE docs'[c] = docs[c]
    BY <1>3, <1>4, DocFacts, DisbandedDoc DEF Live, TypeOK
<1>6. TypesOK'
    BY <1>2, <1>4, <1>5 DEF TypesOK, TypeOK, Disband
<1> QED BY <1>1, <1>2, <1>4, <1>5, <1>6

LEMMA PutEffect ==
    ASSUME GroupsAssumption, TypesOK, NEW r \in Req, WriteChild(r)
    PROVE  LET x == tasks[r][1] IN
           /\ tasks[r] # <<>> /\ x \in Puts /\ x.kind = "put" /\ Done(r)
           /\ TypesOK' /\ Live' = Live
           /\ \A c \in Live : IF c = x.chan
                THEN docs'[c].group = x.group /\ docs'[c].role = "child"
                       /\ Linked(docs'[c], x.tvg, x.epg, x.state)
                ELSE docs'[c] = docs[c]
<1> DEFINE x == tasks[r][1]
           new(c) == [group |-> x.group, role |-> x.role, order |-> x.order, tvg |-> x.tvg,
                      epg |-> x.epg, state |-> x.state, orig |-> Noted(x.orig, docs[c])]
<1>1. tasks[r] # <<>> /\ Done(r) /\ Head(tasks[r]).kind = "put"
    BY DEF WriteChild, At
<1>2. Head(tasks[r]) = x /\ x \in Puts /\ tasks' \in [Req -> Seq(Statements)]
    BY <1>1, StepFacts, Kinds
<1>3. docs' = [c \in Chan |-> IF c \in {x.chan} \cap Live THEN new(c) ELSE docs[c]]
    BY <1>2 DEF WriteChild, Update, Now
<1>4. TypeOK
    BY DEF TypesOK
<1>5. \A c \in Live : /\ new(c) \in Doc /\ new(c).group = x.group /\ new(c).role = "child"
                      /\ Linked(new(c), x.tvg, x.epg, x.state)
    BY <1>2, <1>4, DocFacts DEF Noted, Puts, Doc, Linked
<1> HIDE DEF new
<1>6. /\ docs' \in [Chan -> Doc \cup {NoDoc}] /\ Live' = Live
      /\ \A c \in Live : IF c = x.chan THEN docs'[c] = new(c) ELSE docs'[c] = docs[c]
    BY <1>3, <1>4, <1>5, DocFacts DEF Live, TypeOK
<1>7. x.group # Null
    BY <1>2, <1>4, DocFacts DEF Puts
<1>8. \A c \in Live' : docs'[c].group = Null <=> docs'[c].role = Null
    BY <1>4, <1>5, <1>6, <1>7, DocFacts DEF TypeOK
<1>9. TypesOK'
    BY <1>2, <1>4, <1>6, <1>8 DEF TypesOK, TypeOK, WriteChild
<1> QED BY <1>1, <1>2, <1>5, <1>6, <1>9

LEMMA HeadEffect ==
    ASSUME GroupsAssumption, TypesOK, NEW r \in Req, WriteParent(r)
    PROVE  LET x == tasks[r][1] IN
           /\ tasks[r] # <<>> /\ x \in Heads /\ x.kind = "head" /\ Done(r)
           /\ TypesOK' /\ Live' = Live
           /\ \A c \in Live : IF c = x.chan
                THEN docs'[c].group = x.group /\ docs'[c].role = "parent"
                       /\ Linked(docs'[c], docs[c].tvg, docs[c].epg, x.state)
                ELSE docs'[c] = docs[c]
<1> DEFINE x == tasks[r][1]
           new(c) == [docs[c] EXCEPT !.group = x.group, !.role = "parent", !.order = Null,
                                     !.state = x.state, !.orig = Noted(x.orig, docs[c])]
<1>1. tasks[r] # <<>> /\ Done(r) /\ Head(tasks[r]).kind = "head"
    BY DEF WriteParent, At
<1>2. Head(tasks[r]) = x /\ x \in Heads /\ tasks' \in [Req -> Seq(Statements)]
    BY <1>1, StepFacts, Kinds
<1>3. docs' = [c \in Chan |-> IF c \in {x.chan} \cap Live THEN new(c) ELSE docs[c]]
    BY <1>2 DEF WriteParent, Update, Now
<1>4. TypeOK
    BY DEF TypesOK
<1>5. \A c \in Live : /\ new(c) \in Doc /\ new(c).group = x.group /\ new(c).role = "parent"
                      /\ Linked(new(c), docs[c].tvg, docs[c].epg, x.state)
  <2> TAKE c \in Live
  <2> DEFINE d == docs[c]
             g == x.group
             st == x.state
             orig == Noted(x.orig, docs[c])
  <2>1. d \in Doc /\ g \in GroupId /\ st \in State
    BY <1>2, <1>4, DocFacts DEF Heads
  <2>2. orig \in Tvg \cup {Missing}
    BY <1>2, <2>1 DEF Heads, Noted, Doc
  <2> HIDE DEF d, g, st, orig
  <2>3. LET e == [d EXCEPT !.group = g, !.role = "parent", !.order = Null, !.state = st, !.orig = orig]
        IN  e \in Doc /\ e.group = g /\ e.role = "parent" /\ Linked(e, d.tvg, d.epg, st)
    BY <2>1, <2>2 DEF Doc, Linked
  <2> QED BY <2>3 DEF d, g, st, orig
<1> HIDE DEF new
<1>6. /\ docs' \in [Chan -> Doc \cup {NoDoc}] /\ Live' = Live
      /\ \A c \in Live : IF c = x.chan THEN docs'[c] = new(c) ELSE docs'[c] = docs[c]
    BY <1>3, <1>4, <1>5, DocFacts DEF Live, TypeOK
<1>7. x.group # Null
    BY <1>2, <1>4, DocFacts DEF Heads
<1>8. \A c \in Live' : docs'[c].group = Null <=> docs'[c].role = Null
    BY <1>4, <1>5, <1>6, <1>7, DocFacts DEF TypeOK
<1>9. TypesOK'
    BY <1>2, <1>4, <1>6, <1>8 DEF TypesOK, TypeOK, WriteParent
<1> QED BY <1>1, <1>2, <1>5, <1>6, <1>9

LEMMA OrderEffect ==
    ASSUME GroupsAssumption, TypesOK, NEW r \in Req, WriteOrder(r)
    PROVE  LET x == tasks[r][1] IN
           /\ tasks[r] # <<>> /\ x \in Places /\ x.kind = "order" /\ Done(r)
           /\ TypesOK' /\ Live' = Live
           /\ \A c \in Live : /\ docs'[c].group = docs[c].group /\ docs'[c].role = docs[c].role
                              /\ Linked(docs'[c], docs[c].tvg, docs[c].epg, docs[c].state)
<1> DEFINE x == tasks[r][1]
           new(c) == [docs[c] EXCEPT !.order = x.order]
           moved == {x.chan} \cap Members(x.group)
<1>1. tasks[r] # <<>> /\ Done(r) /\ Head(tasks[r]).kind = "order"
    BY DEF WriteOrder, At
<1>2. Head(tasks[r]) = x /\ x \in Places /\ tasks' \in [Req -> Seq(Statements)]
    BY <1>1, StepFacts, Kinds
<1>3. docs' = [c \in Chan |-> IF c \in moved THEN new(c) ELSE docs[c]]
    BY <1>2 DEF WriteOrder, Update, Now
<1>4. TypeOK /\ moved \subseteq Live
    BY DEF TypesOK, Members
<1>5. \A c \in Live : /\ new(c) \in Doc /\ new(c).group = docs[c].group /\ new(c).role = docs[c].role
                      /\ Linked(new(c), docs[c].tvg, docs[c].epg, docs[c].state)
    BY <1>2, <1>4, DocFacts, SMTT(40) DEF Places, Doc, Linked
<1> HIDE DEF new, moved
<1>6. /\ docs' \in [Chan -> Doc \cup {NoDoc}] /\ Live' = Live
      /\ \A c \in Live : docs'[c] = new(c) \/ docs'[c] = docs[c]
    BY <1>3, <1>4, <1>5, DocFacts DEF Live, TypeOK
<1>7. \A c \in Live : /\ docs'[c].group = docs[c].group /\ docs'[c].role = docs[c].role
                      /\ Linked(docs'[c], docs[c].tvg, docs[c].epg, docs[c].state)
    BY <1>5, <1>6 DEF Linked
<1>8. \A c \in Live' : docs'[c].group = Null <=> docs'[c].role = Null
    BY <1>4, <1>6, <1>7 DEF TypeOK
<1>9. TypesOK'
    BY <1>2, <1>4, <1>6, <1>8 DEF TypesOK, TypeOK, WriteOrder
<1> QED BY <1>1, <1>2, <1>6, <1>7, <1>9

(* Another link keeps a document's place in its group. *)
Relinked(doc, tvg, epg, state) == [doc EXCEPT !.tvg = tvg, !.epg = epg, !.state = state]

LEMMA RelinkedDoc ==
    ASSUME NEW d \in Doc, NEW tvg \in Tvg, NEW epg \in Epg, NEW st \in State
    PROVE  LET e == Relinked(d, tvg, epg, st) IN
           e \in Doc /\ e.group = d.group /\ e.role = d.role /\ Linked(e, tvg, epg, st)
BY DEF Doc, Linked, Relinked

Relink(cs, tvg, epg, st) ==
    /\ cs \subseteq Live /\ tvg \in [Chan -> Tvg] /\ epg \in [Chan -> Epg] /\ st \in [Chan -> State]
    /\ \A c \in Chan : docs'[c] = IF c \in cs THEN Relinked(docs[c], tvg[c], epg[c], st[c]) ELSE docs[c]

LEMMA Relinking ==
    ASSUME GroupsAssumption, TypeOK, NEW cs, NEW tvg, NEW epg, NEW st, Relink(cs, tvg, epg, st)
    PROVE  /\ \A c \in Chan : docs'[c] \in Doc \cup {NoDoc}
           /\ Live' = Live
           /\ \A c \in Live : /\ docs'[c].group = docs[c].group /\ docs'[c].role = docs[c].role
                              /\ c \in cs => Linked(docs'[c], tvg[c], epg[c], st[c])
                              /\ c \notin cs => docs'[c] = docs[c]
           /\ \A c \in Live' : docs'[c].group = Null <=> docs'[c].role = Null
<1>1. ASSUME NEW c \in Live
      PROVE  LET e == Relinked(docs[c], tvg[c], epg[c], st[c]) IN
             e \in Doc /\ e.group = docs[c].group /\ e.role = docs[c].role
               /\ Linked(e, tvg[c], epg[c], st[c])
  <2>1. docs[c] \in Doc /\ tvg[c] \in Tvg /\ epg[c] \in Epg /\ st[c] \in State
    BY DocFacts DEF Relink, Live
  <2> QED BY <2>1, RelinkedDoc
<1>2. \A c \in Chan : docs'[c] \in Doc \cup {NoDoc}
    BY <1>1 DEF TypeOK, Relink
<1>4. \A c \in Chan : docs'[c] = NoDoc <=> docs[c] = NoDoc
    BY <1>1, DocFacts DEF Live, Relink
<1>5. Live' = Live
    BY <1>4 DEF Live
<1>6. \A c \in Live : /\ docs'[c].group = docs[c].group /\ docs'[c].role = docs[c].role
                      /\ c \in cs => Linked(docs'[c], tvg[c], epg[c], st[c])
                      /\ c \notin cs => docs'[c] = docs[c]
    BY <1>1 DEF Live, Relink
<1>7. \A c \in Live : docs'[c].group = Null <=> docs'[c].role = Null
    BY <1>6 DEF TypeOK
<1>8. \A c \in Live' : docs'[c].group = Null <=> docs'[c].role = Null
    BY <1>5, <1>7
<1> QED BY <1>2, <1>5, <1>6, <1>8

LEMMA LinkEffect ==
    ASSUME GroupsAssumption, TypesOK, NEW r \in Req, WriteLink(r)
    PROVE  LET x == tasks[r][1]
               m == [kind |-> "mirror", group |-> docs[x.chan].group, link |-> x.link]
           IN
           /\ tasks[r] # <<>> /\ x \in Relinks /\ x.kind = "link"
           /\ IF x.chan \in Live /\ docs[x.chan].role = "parent"
              THEN m \in Mirrors /\ Then(r, <<m>>) ELSE Done(r)
           /\ TypesOK' /\ Live' = Live
           /\ \A c \in Live : /\ docs'[c].group = docs[c].group /\ docs'[c].role = docs[c].role
                              /\ IF c = x.chan THEN Linked(docs'[c], x.link.tvg, x.link.epg, x.link.state)
                                               ELSE docs'[c] = docs[c]
<1> DEFINE x == tasks[r][1]
           m == [kind |-> "mirror", group |-> docs[x.chan].group, link |-> x.link]
           tvg == [c \in Chan |-> x.link.tvg]
           epg == [c \in Chan |-> x.link.epg]
           st == [c \in Chan |-> x.link.state]
           cs == {x.chan} \cap Live
<1>1. tasks[r] # <<>> /\ Head(tasks[r]).kind = "link"
    BY DEF WriteLink, At
<1>2. Head(tasks[r]) = x /\ x \in Relinks
    BY <1>1, StepFacts, Kinds
<1>3. TypeOK
    BY DEF TypesOK
<1>4. docs' = [c \in Chan |-> IF c \in cs
                 THEN Relinked(docs[c], tvg[c], epg[c], st[c]) ELSE docs[c]]
    BY <1>2 DEF WriteLink, Update, Now, Relinked
<1>5. /\ cs \in SUBSET Live
      /\ tvg \in [Chan -> Tvg] /\ epg \in [Chan -> Epg] /\ st \in [Chan -> State]
    BY <1>2 DEF Relinks, Link
<1> HIDE DEF tvg, epg, st, cs
<1>a. Relink(cs, tvg, epg, st)
    BY <1>4, <1>5 DEF Relink
<1>6. /\ \A c \in Chan : docs'[c] \in Doc \cup {NoDoc}
      /\ Live' = Live
      /\ \A c \in Live : /\ docs'[c].group = docs[c].group /\ docs'[c].role = docs[c].role
                         /\ c \in cs => Linked(docs'[c], tvg[c], epg[c], st[c])
                         /\ c \notin cs => docs'[c] = docs[c]
      /\ \A c \in Live' : docs'[c].group = Null <=> docs'[c].role = Null
    BY <1>3, <1>a, Relinking
<1>b. docs' \in [Chan -> Doc \cup {NoDoc}]
    BY <1>4, <1>6
<1>7. ASSUME x.chan \in Live, docs[x.chan].role = "parent"
      PROVE  m \in Mirrors /\ Then(r, <<m>>)
  <2>1. docs[x.chan].group \in GroupId
    BY <1>3, <1>7, DocFacts DEF TypeOK, Doc
  <2>2. m \in Mirrors
    BY <1>2, <2>1 DEF Mirrors, Relinks
  <2> QED BY <1>2, <1>7, <2>2 DEF WriteLink, Cascade, Now
<1>8. ASSUME ~(x.chan \in Live /\ docs[x.chan].role = "parent")
      PROVE  Done(r)
  <2>1. Then(r, <<>>)
    BY <1>2, <1>8 DEF WriteLink, Cascade, Now
  <2> QED BY <1>1, <2>1, StepFacts
<1>9. tasks' \in [Req -> Seq(Statements)]
  <2>1. m \in Mirrors => m \in Statements
    BY IsStatement
  <2> QED BY <1>1, <1>7, <1>8, <2>1, StepFacts
<1>10. touched' \subseteq Chan
    BY <1>2, <1>3 DEF WriteLink, Now, Relinks, TypeOK
<1>11. TypesOK'
    BY <1>3, <1>6, <1>b, <1>9, <1>10 DEF TypesOK, TypeOK, WriteLink
<1>12. \A c \in Live : IF c = x.chan THEN Linked(docs'[c], x.link.tvg, x.link.epg, x.link.state)
                                      ELSE docs'[c] = docs[c]
    BY <1>6 DEF cs, tvg, epg, st, Live
<1> QED BY <1>1, <1>2, <1>6, <1>7, <1>8, <1>11, <1>12

LEMMA MirrorEffect ==
    ASSUME GroupsAssumption, TypesOK, NEW r \in Req, WriteMirror(r)
    PROVE  LET x == tasks[r][1] IN
           /\ tasks[r] # <<>> /\ x \in Mirrors /\ x.kind = "mirror" /\ Done(r)
           /\ TypesOK' /\ Live' = Live
           /\ \A c \in Live : /\ docs'[c].group = docs[c].group /\ docs'[c].role = docs[c].role
                              /\ IF c \in Children(x.group)
                                 THEN Linked(docs'[c], x.link.tvg, x.link.epg, Inherited(x.link.state))
                                 ELSE docs'[c] = docs[c]
<1> DEFINE x == tasks[r][1]
           tvg == [c \in Chan |-> x.link.tvg]
           epg == [c \in Chan |-> x.link.epg]
           st == [c \in Chan |-> Inherited(x.link.state)]
           cs == Children(x.group)
<1>1. tasks[r] # <<>> /\ Head(tasks[r]).kind = "mirror" /\ Done(r)
    BY DEF WriteMirror, At
<1>2. Head(tasks[r]) = x /\ x \in Mirrors /\ tasks' \in [Req -> Seq(Statements)]
    BY <1>1, StepFacts, Kinds
<1>3. TypeOK
    BY DEF TypesOK
<1>4. docs' = [c \in Chan |-> IF c \in cs
                 THEN Relinked(docs[c], tvg[c], epg[c], st[c]) ELSE docs[c]]
    BY <1>2 DEF WriteMirror, Update, Now, Relinked
<1>5. /\ cs \in SUBSET Live
      /\ tvg \in [Chan -> Tvg] /\ epg \in [Chan -> Epg] /\ st \in [Chan -> State]
    BY <1>2 DEF Mirrors, Link, Children, Members, Inherited, State
<1> HIDE DEF tvg, epg, st, cs
<1>a. Relink(cs, tvg, epg, st)
    BY <1>4, <1>5 DEF Relink
<1>6. /\ \A c \in Chan : docs'[c] \in Doc \cup {NoDoc}
      /\ Live' = Live
      /\ \A c \in Live : /\ docs'[c].group = docs[c].group /\ docs'[c].role = docs[c].role
                         /\ c \in cs => Linked(docs'[c], tvg[c], epg[c], st[c])
                         /\ c \notin cs => docs'[c] = docs[c]
      /\ \A c \in Live' : docs'[c].group = Null <=> docs'[c].role = Null
    BY <1>3, <1>a, Relinking
<1>b. docs' \in [Chan -> Doc \cup {NoDoc}]
    BY <1>4, <1>6
<1>7. TypesOK'
    BY <1>2, <1>3, <1>6, <1>b DEF TypesOK, TypeOK, WriteMirror
<1>8. \A c \in Live : IF c \in Children(x.group)
                      THEN Linked(docs'[c], x.link.tvg, x.link.epg, Inherited(x.link.state))
                      ELSE docs'[c] = docs[c]
    BY <1>6 DEF cs, tvg, epg, st, Live
<1> QED BY <1>1, <1>2, <1>6, <1>7, <1>8

LEMMA FillEffect ==
    ASSUME GroupsAssumption, TypesOK, NEW r \in Req, Fill(r)
    PROVE  LET x == tasks[r][1] IN
           /\ tasks[r] # <<>> /\ x \in Sweeps /\ x.kind = "fill" /\ Done(r)
           /\ TypesOK' /\ Live' = Live
           /\ \A c \in Live : /\ docs'[c].group = docs[c].group /\ docs'[c].role = docs[c].role
                              /\ IF c \in x.chans /\ Fillable(docs[c])
                                 THEN Linked(docs'[c], c, "guide", "matched") ELSE docs'[c] = docs[c]
<1> DEFINE x == tasks[r][1]
           tvg == [c \in Chan |-> c]
           epg == [c \in Chan |-> "guide"]
           st == [c \in Chan |-> "matched"]
           cs == {c \in x.chans \cap Live : Fillable(docs[c])}
<1>1. tasks[r] # <<>> /\ Head(tasks[r]).kind = "fill" /\ Done(r)
    BY DEF Fill, At
<1>2. Head(tasks[r]) = x /\ x \in Sweeps /\ tasks' \in [Req -> Seq(Statements)]
    BY <1>1, StepFacts, Kinds
<1>3. TypeOK
    BY DEF TypesOK
<1>4. docs' = [c \in Chan |-> IF c \in cs THEN Relinked(docs[c], tvg[c], epg[c], st[c]) ELSE docs[c]]
    BY <1>2 DEF Fill, Now, Relinked
<1>5. /\ cs \subseteq Live /\ cs \subseteq Chan
      /\ tvg \in [Chan -> Tvg] /\ epg \in [Chan -> Epg] /\ st \in [Chan -> State]
    BY DEF Tvg, Epg, State, Live
<1>6. touched' = touched \cup cs
    BY <1>2 DEF Fill, Now
<1> HIDE DEF tvg, epg, st, cs
<1>7. Relink(cs, tvg, epg, st)
    BY <1>4, <1>5 DEF Relink
<1>8. /\ \A c \in Chan : docs'[c] \in Doc \cup {NoDoc}
      /\ Live' = Live
      /\ \A c \in Live : /\ docs'[c].group = docs[c].group /\ docs'[c].role = docs[c].role
                         /\ c \in cs => Linked(docs'[c], tvg[c], epg[c], st[c])
                         /\ c \notin cs => docs'[c] = docs[c]
      /\ \A c \in Live' : docs'[c].group = Null <=> docs'[c].role = Null
    BY <1>3, <1>7, Relinking
<1>9. docs' \in [Chan -> Doc \cup {NoDoc}]
    BY <1>4, <1>8
<1>10. TypesOK'
    BY <1>2, <1>3, <1>5, <1>6, <1>8, <1>9 DEF TypesOK, TypeOK, Fill
<1>11. \A c \in Live : IF c \in x.chans /\ Fillable(docs[c])
                       THEN Linked(docs'[c], c, "guide", "matched") ELSE docs'[c] = docs[c]
    BY <1>8 DEF cs, tvg, epg, st, Live
<1> QED BY <1>1, <1>2, <1>8, <1>10, <1>11

LEMMA UnlinkEffect ==
    ASSUME GroupsAssumption, TypesOK, NEW r \in Req, Unlink(r)
    PROVE  LET x == tasks[r][1] IN
           /\ tasks[r] # <<>> /\ x.kind = "unlink" /\ Done(r)
           /\ TypesOK' /\ Live' = Live
           /\ \A c \in Live : /\ docs'[c].group = docs[c].group /\ docs'[c].role = docs[c].role
                              /\ IF docs[c].epg = "guide"
                                 THEN Linked(docs'[c], Null, Null, "unmatched") ELSE docs'[c] = docs[c]
<1> DEFINE x == tasks[r][1]
           tvg == [c \in Chan |-> Null]
           epg == [c \in Chan |-> Null]
           st == [c \in Chan |-> "unmatched"]
           cs == {c \in Live : docs[c].epg = "guide"}
<1>1. tasks[r] # <<>> /\ Head(tasks[r]).kind = "unlink" /\ Done(r)
    BY DEF Unlink, At
<1>2. Head(tasks[r]) = x /\ tasks' \in [Req -> Seq(Statements)]
    BY <1>1, StepFacts
<1>3. TypeOK
    BY DEF TypesOK
<1>4. docs' = [c \in Chan |-> IF c \in cs THEN Relinked(docs[c], tvg[c], epg[c], st[c]) ELSE docs[c]]
    BY DEF Unlink, Update, Relinked
<1>5. /\ cs \subseteq Live /\ cs \subseteq Chan
      /\ tvg \in [Chan -> Tvg] /\ epg \in [Chan -> Epg] /\ st \in [Chan -> State]
    BY DEF Tvg, Epg, State, Live
<1>6. touched' \subseteq touched \cup cs
    BY DEF Unlink
<1> HIDE DEF tvg, epg, st, cs
<1>7. Relink(cs, tvg, epg, st)
    BY <1>4, <1>5 DEF Relink
<1>8. /\ \A c \in Chan : docs'[c] \in Doc \cup {NoDoc}
      /\ Live' = Live
      /\ \A c \in Live : /\ docs'[c].group = docs[c].group /\ docs'[c].role = docs[c].role
                         /\ c \in cs => Linked(docs'[c], tvg[c], epg[c], st[c])
                         /\ c \notin cs => docs'[c] = docs[c]
      /\ \A c \in Live' : docs'[c].group = Null <=> docs'[c].role = Null
    BY <1>3, <1>7, Relinking
<1>9. docs' \in [Chan -> Doc \cup {NoDoc}]
    BY <1>4, <1>8
<1>10. TypesOK'
    BY <1>2, <1>3, <1>5, <1>6, <1>8, <1>9 DEF TypesOK, TypeOK, Unlink
<1>11. \A c \in Live : IF docs[c].epg = "guide"
                       THEN Linked(docs'[c], Null, Null, "unmatched") ELSE docs'[c] = docs[c]
    BY <1>8 DEF cs, tvg, epg, st, Live
<1> QED BY <1>1, <1>2, <1>8, <1>10, <1>11

LEMMA DropEffect ==
    ASSUME GroupsAssumption, TypesOK, NEW r \in Req, Drop(r)
    PROVE  LET x == tasks[r][1] IN
           /\ tasks[r] # <<>> /\ x \in Sweeps /\ x.kind = "drop" /\ Done(r)
           /\ TypesOK' /\ Live' = Live \ x.chans /\ \A c \in Live' : docs'[c] = docs[c]
<1> DEFINE x == tasks[r][1]
<1>1. tasks[r] # <<>> /\ Head(tasks[r]).kind = "drop" /\ Done(r)
    BY DEF Drop, At
<1>2. Head(tasks[r]) = x /\ x \in Sweeps /\ tasks' \in [Req -> Seq(Statements)]
    BY <1>1, StepFacts, Kinds
<1>3. TypeOK
    BY DEF TypesOK
<1>4. docs' = [c \in Chan |-> IF c \in x.chans THEN NoDoc ELSE docs[c]]
    BY <1>2 DEF Drop, Update, Now
<1>5. docs' \in [Chan -> Doc \cup {NoDoc}]
    BY <1>3, <1>4 DEF TypeOK
<1>6. Live' = Live \ x.chans /\ \A c \in Live' : docs'[c] = docs[c]
    BY <1>4 DEF Live
<1>7. TypesOK'
    BY <1>2, <1>3, <1>5, <1>6 DEF TypesOK, TypeOK, Drop
<1> QED BY <1>1, <1>2, <1>6, <1>7

LEMMA UpsertEffect ==
    ASSUME GroupsAssumption, TypesOK, NEW r \in Req, Upsert(r)
    PROVE  LET x == tasks[r][1] IN
           /\ tasks[r] # <<>> /\ x \in Sweeps /\ x.kind = "upsert" /\ Done(r)
           /\ TypesOK' /\ Live' = Live \cup x.chans
           /\ \A c \in Live : docs'[c] = docs[c]
           /\ \A c \in Live' \ Live : docs'[c].group = Null /\ docs'[c].role = Null
<1> DEFINE x == tasks[r][1]
<1>1. tasks[r] # <<>> /\ Head(tasks[r]).kind = "upsert" /\ Done(r)
    BY DEF Upsert, At
<1>2. Head(tasks[r]) = x /\ x \in Sweeps /\ tasks' \in [Req -> Seq(Statements)]
    BY <1>1, StepFacts, Kinds
<1>3. TypeOK
    BY DEF TypesOK
<1>4. docs' = [c \in Chan |-> IF c \in x.chans \ Live THEN Fresh(c) ELSE docs[c]]
    BY <1>2 DEF Upsert, Now
<1>5. \A c \in Chan : Fresh(c) \in Doc /\ Fresh(c).group = Null /\ Fresh(c).role = Null
    BY DEF Fresh, Doc, Tvg, Epg, State
<1>6. x.chans \subseteq Chan
    BY <1>2 DEF Sweeps
<1>7. docs' \in [Chan -> Doc \cup {NoDoc}]
    BY <1>3, <1>4, <1>5 DEF TypeOK
<1>8. Live' = Live \cup x.chans /\ \A c \in Live : docs'[c] = docs[c]
    BY <1>3, <1>4, <1>5, <1>6, DocFacts DEF Live
<1>9. \A c \in Live' \ Live : docs'[c].group = Null /\ docs'[c].role = Null
    BY <1>4, <1>5, <1>6, <1>8
<1>10. TypesOK'
    BY <1>2, <1>3, <1>7, <1>8, <1>9 DEF TypesOK, TypeOK, Upsert
<1> QED BY <1>1, <1>2, <1>8, <1>9, <1>10

LEMMA TallyEffect ==
    ASSUME GroupsAssumption, TypesOK, NEW r \in Req, Tally(r)
    PROVE  LET x == tasks[r][1]
               y == [kind |-> "disband", groups |-> {g \in GroupId : Degenerate(g)}]
           IN
           /\ tasks[r] # <<>> /\ x.kind = "tally"
           /\ y \in Statements
           /\ IF {g \in GroupId : Degenerate(g)} = {} THEN Done(r) ELSE Then(r, <<y>>)
           /\ TypesOK' /\ docs' = docs
<1> DEFINE y == [kind |-> "disband", groups |-> {g \in GroupId : Degenerate(g)}]
<1>1. tasks[r] # <<>> /\ Head(tasks[r]).kind = "tally" /\ docs' = docs
    BY DEF Tally, At
<1>2. y \in Statements
    BY IsStatement
<1>3. IF {g \in GroupId : Degenerate(g)} = {} THEN Done(r) ELSE Then(r, <<y>>)
    BY DEF Tally
<1> HIDE DEF y
<1>4. tasks' \in [Req -> Seq(Statements)] /\ Head(tasks[r]) = tasks[r][1]
    BY <1>1, <1>2, <1>3, StepFacts
<1>5. TypesOK'
    BY <1>1, <1>4 DEF TypesOK, TypeOK, Tally, Live
<1> QED BY <1>1, <1>2, <1>3, <1>4, <1>5 DEF y

LEMMA BuryEffect ==
    ASSUME GroupsAssumption, TypesOK, NEW r \in Req, Bury(r)
    PROVE  LET x == tasks[r][1] IN
           /\ tasks[r] # <<>> /\ x \in Sweeps /\ x.kind = "bury" /\ Done(r)
           /\ TypesOK' /\ docs' = docs /\ buried' = buried \cup x.chans
<1>1. tasks[r] # <<>> /\ Head(tasks[r]).kind = "bury" /\ Done(r) /\ docs' = docs
    BY DEF Bury, At
<1>2. Head(tasks[r]) = tasks[r][1] /\ tasks[r][1] \in Sweeps /\ tasks' \in [Req -> Seq(Statements)]
    BY <1>1, StepFacts, Kinds
<1>3. buried' = buried \cup tasks[r][1].chans /\ tasks[r][1].chans \subseteq Chan
    BY <1>2 DEF Bury, Now, Sweeps
<1>4. TypesOK'
    BY <1>1, <1>2, <1>3 DEF TypesOK, TypeOK, Bury, Live
<1> QED BY <1>1, <1>2, <1>3, <1>4

LEMMA ExhumeEffect ==
    ASSUME GroupsAssumption, TypesOK, NEW r \in Req, Exhume(r)
    PROVE  /\ tasks[r] # <<>> /\ tasks[r][1].kind = "exhume" /\ Done(r)
           /\ TypesOK' /\ docs' = docs /\ buried' = {}
<1>1. tasks[r] # <<>> /\ Head(tasks[r]).kind = "exhume" /\ Done(r) /\ docs' = docs /\ buried' = {}
    BY DEF Exhume, At
<1>2. Head(tasks[r]) = tasks[r][1] /\ tasks' \in [Req -> Seq(Statements)]
    BY <1>1, StepFacts
<1>3. TypesOK'
    BY <1>1, <1>2 DEF TypesOK, TypeOK, Exhume, Live
<1> QED BY <1>1, <1>2, <1>3

LEMMA LookupEffect ==
    ASSUME GroupsAssumption, TypesOK, NEW r \in Req, ReadTombstones(r)
    PROVE  LET x == tasks[r][1]
               y == [kind |-> "upsert", chans |-> Wanted(x.listed)]
           IN
           /\ tasks[r] # <<>> /\ x.kind = "tombstones"
           /\ y \in Statements /\ y.chans \cap buried = {} /\ Then(r, <<y>>)
           /\ TypesOK' /\ docs' = docs
<1> DEFINE x == tasks[r][1]
           y == [kind |-> "upsert", chans |-> Wanted(x.listed)]
<1>1. tasks[r] # <<>> /\ Head(tasks[r]).kind = "tombstones" /\ docs' = docs
    BY DEF ReadTombstones, At
<1>2. Head(tasks[r]) = x /\ x \in Lookups
    BY <1>1, StepFacts, Kinds
<1>3. Then(r, <<y>>)
    BY <1>2 DEF ReadTombstones, Now
<1>4. Wanted(x.listed) \in SUBSET Chan /\ y.chans \cap buried = {}
    BY <1>2 DEF Wanted, Lookups
<1>5. y \in Statements
    BY <1>4, IsStatement
<1> HIDE DEF y
<1>6. tasks' \in [Req -> Seq(Statements)]
    BY <1>1, <1>3, <1>5, StepFacts
<1>7. TypesOK'
    BY <1>1, <1>6 DEF TypesOK, TypeOK, ReadTombstones, Live
<1> QED BY <1>1, <1>2, <1>3, <1>4, <1>5, <1>7 DEF y

-----------------------------------------------------------------------------
(* What is left after a statement keeps its shape. *)
LEMMA ShapedTail ==
    ASSUME NEW s \in Seq(Statements), s # <<>>, Shaped(s)
    PROVE  Shaped(Tail(s))
<1> DEFINE t == Tail(s)
<1>1. /\ Len(s) \in Nat \ {0} /\ t \in Seq(Statements) /\ Len(t) = Len(s) - 1
      /\ \A i \in 1..Len(t) : i + 1 \in 1..Len(s) /\ t[i] = s[i + 1]
    BY TailFacts
<1> HIDE DEF t
<1>2. ASSUME NEW i \in 1..Len(t), Breaks(t[i])
      PROVE  \E k \in i+1..Len(t) : t[k].kind = "tally"
  <2>1. PICK k \in (i + 1)+1..Len(s) : s[k].kind = "tally"
    BY <1>1, <1>2 DEF Shaped
  <2>2. k - 1 \in i+1..Len(t) /\ t[k - 1] = s[k]
    BY <1>1, <2>1
  <2> QED BY <2>1, <2>2
<1>3. ASSUME NEW k \in 1..Len(t), NEW i \in 1..Len(t), t[k].kind \in {"put", "head"}, i < k
      PROVE  t[i].kind \in {"clear", "put"}
  <2>1. i + 1 \in 1..Len(s) /\ k + 1 \in 1..Len(s) /\ t[i] = s[i + 1] /\ t[k] = s[k + 1] /\ i + 1 < k + 1
    BY <1>1, <1>3
  <2> QED BY <1>3, <2>1 DEF Shaped
<1>4. \A i \in 1..Len(t) : t[i].kind \notin {"link", "mirror", "upsert"}
  <2> TAKE i \in 1..Len(t)
  <2>1. i + 1 \in 1..Len(s) /\ t[i] = s[i + 1] /\ i + 1 # 1
    BY <1>1
  <2> QED BY <2>1 DEF Shaped
<1> QED BY <1>2, <1>3, <1>4 DEF Shaped, t

LEMMA ShapedSwap ==
    ASSUME NEW s \in Seq(Statements), s # <<>>, Shaped(s), s[1].kind \notin {"clear", "put", "head"},
           NEW y \in Statements, y.kind \in {"disband", "mirror", "upsert"}, y.kind = "mirror" => Len(s) = 1
    PROVE  Shaped(<<y>> \o Tail(s))
<1> DEFINE t == <<y>> \o Tail(s)
<1>1. /\ Len(s) \in Nat \ {0} /\ t \in Seq(Statements) /\ Len(t) = Len(s) /\ t[1] = y
      /\ \A i \in 2..Len(s) : t[i] = s[i]
    BY TailFacts, SwapFacts
<1> HIDE DEF t
<1>2. ASSUME NEW i \in 1..Len(t), Breaks(t[i])
      PROVE  \E k \in i+1..Len(t) : t[k].kind = "tally"
  <2>1. i \in 2..Len(s) /\ t[i] = s[i]
    BY <1>1, <1>2 DEF Breaks
  <2>2. PICK k \in i+1..Len(s) : s[k].kind = "tally"
    BY <1>2, <2>1 DEF Shaped
  <2>3. k \in i+1..Len(t) /\ t[k] = s[k]
    BY <1>1, <2>1, <2>2
  <2> QED BY <2>2, <2>3
<1>3. \A k \in 1..Len(t) : t[k].kind \notin {"put", "head"}
  <2> TAKE k \in 1..Len(t)
  <2>1. CASE k = 1
    BY <1>1, <2>1
  <2>2. CASE k # 1
    <3>1. k \in 2..Len(s) /\ t[k] = s[k] /\ 1 \in 1..Len(s) /\ 1 < k /\ k \in 1..Len(s)
      BY <1>1, <2>2
    <3> QED BY <3>1 DEF Shaped
  <2> QED BY <2>1, <2>2
<1>4. ASSUME NEW i \in 1..Len(t), t[i].kind \in {"link", "mirror", "upsert"}
      PROVE  i = 1
  <2>1. i # 1 => i \in 1..Len(s) /\ t[i] = s[i]
    BY <1>1
  <2> QED BY <1>4, <2>1 DEF Shaped
<1>5. \A i \in 1..Len(t) : t[i].kind \in {"link", "mirror"} => Len(t) = 1
    BY <1>1, <1>4
<1> QED BY <1>2, <1>3, <1>4, <1>5 DEF Shaped, t

(* A request goes on: its first statement is gone, or replaced. *)
Proceeds(r) ==
    /\ tasks' \in [Req -> Seq(Statements)]
    /\ \/ tasks'[r] = Tail(tasks[r])
       \/ \E y \in Statements : tasks'[r] = <<y>> \o Tail(tasks[r])
    /\ \A q \in Req \ {r} : tasks'[q] = tasks[q]

LEMMA Remaining ==
    ASSUME TypesOK, NEW r \in Req, tasks[r] # <<>>, Proceeds(r), NEW q \in Req, NEW i \in 1..Len(tasks[q]),
           ~(q = r /\ i = 1)
    PROVE  \E k \in 1..Len(tasks'[q]) : tasks'[q][k] = tasks[q][i]
<1>1. CASE q # r
    BY <1>1 DEF Proceeds
<1>2. CASE q = r
  <2> DEFINE s == tasks[r]
             t == Tail(s)
  <2>1. /\ s \in Seq(Statements) /\ Len(s) \in Nat \ {0} /\ t \in Seq(Statements) /\ Len(t) = Len(s) - 1
        /\ \A k \in 1..Len(t) : k + 1 \in 1..Len(s) /\ t[k] = s[k + 1]
    BY TailFacts DEF TypesOK
  <2>2. CASE tasks'[r] = t
    <3>1. i - 1 \in 1..Len(t) /\ t[i - 1] = s[i]
      BY <1>2, <2>1
    <3> QED BY <1>2, <2>2, <3>1
  <2>3. ASSUME NEW y \in Statements, tasks'[r] = <<y>> \o t
        PROVE  \E k \in 1..Len(tasks'[q]) : tasks'[q][k] = tasks[q][i]
    <3>1. Len(<<y>> \o t) = Len(s) /\ i \in 2..Len(s) /\ (<<y>> \o t)[i] = s[i]
      BY <1>2, <2>1, SwapFacts
    <3> QED BY <1>2, <2>1, <2>3, <3>1
  <2> QED BY <2>2, <2>3 DEF Proceeds
<1> QED BY <1>1, <1>2

(* Groups that are not in order have a statement left to heal them. *)
LEMMA HealingKept ==
    ASSUME TypesOK, ShapesOK, Healing, NEW r \in Req, tasks[r] # <<>>, Proceeds(r), unhealed' = unhealed,
           \A g \in GroupId : \/ WellFormed(g)' \/ Breaks(tasks[r][1])
                              \/ ~Heals(tasks[r][1], g) /\ ~WellFormed(g)
    PROVE  Healing'
<1> SUFFICES ASSUME ~unhealed', NEW g \in GroupId, ~WellFormed(g)'
             PROVE  \E q \in Req : \E i \in 1..Len(tasks'[q]) : Heals(tasks'[q][i], g)
    BY DEF Healing, Heals
<1>1. CASE Breaks(tasks[r][1])
  <2>1. 1 \in 1..Len(tasks[r]) /\ Len(tasks[r]) \in Nat
    BY StepFacts
  <2>2. PICK k \in 1+1..Len(tasks[r]) : tasks[r][k].kind = "tally"
    BY <1>1, <2>1 DEF ShapesOK, Shaped
  <2>3. PICK i \in 1..Len(tasks'[r]) : tasks'[r][i] = tasks[r][k]
    BY <2>1, <2>2, Remaining
  <2> QED BY <2>2, <2>3 DEF Heals
<1>2. CASE ~Breaks(tasks[r][1])
  <2>1. ~Heals(tasks[r][1], g) /\ ~WellFormed(g)
    BY <1>2
  <2>2. PICK q \in Req : \E i \in 1..Len(tasks[q]) : Heals(tasks[q][i], g)
    BY <2>1 DEF Healing
  <2>3. PICK i \in 1..Len(tasks[q]) : Heals(tasks[q][i], g)
    BY <2>2
  <2>4. PICK k \in 1..Len(tasks'[q]) : tasks'[q][k] = tasks[q][i]
    BY <2>1, <2>3, Remaining
  <2> QED BY <2>3, <2>4
<1> QED BY <1>1, <1>2

LEMMA DoneShaped ==
    ASSUME TypesOK, ShapesOK, NEW r \in Req, tasks[r] # <<>>, Done(r)
    PROVE  Proceeds(r) /\ ShapesOK'
<1>1. /\ tasks' \in [Req -> Seq(Statements)] /\ tasks'[r] = Tail(tasks[r])
      /\ \A q \in Req \ {r} : tasks'[q] = tasks[q]
    BY StepFacts
<1>2. Shaped(Tail(tasks[r]))
    BY ShapedTail DEF ShapesOK, TypesOK
<1>3. \A q \in Req : Shaped(tasks'[q])
    BY <1>1, <1>2 DEF ShapesOK
<1> QED BY <1>1, <1>3 DEF Proceeds, ShapesOK, Shaped, Breaks

LEMMA ThenShaped ==
    ASSUME TypesOK, ShapesOK, NEW r \in Req, tasks[r] # <<>>, NEW y \in Statements, Then(r, <<y>>),
           tasks[r][1].kind \notin {"clear", "put", "head"},
           y.kind \in {"disband", "mirror", "upsert"}, y.kind = "mirror" => tasks[r][1].kind = "link"
    PROVE  Proceeds(r) /\ ShapesOK'
<1>1. /\ tasks' \in [Req -> Seq(Statements)] /\ tasks'[r] = <<y>> \o Tail(tasks[r])
      /\ \A q \in Req \ {r} : tasks'[q] = tasks[q]
      /\ Len(tasks[r]) \in Nat \ {0}
    BY StepFacts
<1>2. y.kind = "mirror" => Len(tasks[r]) = 1
    BY <1>1 DEF ShapesOK, Shaped
<1>3. Shaped(<<y>> \o Tail(tasks[r]))
    BY <1>2, ShapedSwap DEF ShapesOK, TypesOK
<1>4. \A q \in Req : Shaped(tasks'[q])
    BY <1>1, <1>3 DEF ShapesOK
<1> QED BY <1>1, <1>4 DEF Proceeds, ShapesOK, Shaped, Breaks

LEMMA StatementStep ==
    ASSUME GroupsAssumption, TypesOK, ShapesOK, NEW r \in Req, Statement(r)
    PROVE  tasks[r] # <<>> /\ Proceeds(r) /\ TypesOK' /\ ShapesOK'
<1>1. CASE Clear(r)
    BY <1>1, ClearEffect, DoneShaped
<1>2. CASE WriteChild(r)
    BY <1>2, PutEffect, DoneShaped
<1>3. CASE WriteParent(r)
    BY <1>3, HeadEffect, DoneShaped
<1>4. CASE WriteOrder(r)
    BY <1>4, OrderEffect, DoneShaped
<1>5. CASE Tally(r)
    BY <1>5, TallyEffect, DoneShaped, ThenShaped
<1>6. CASE Disband(r)
    BY <1>6, DisbandEffect, DoneShaped
<1>7. CASE WriteLink(r)
    BY <1>7, LinkEffect, IsStatement, DoneShaped, ThenShaped
<1>8. CASE WriteMirror(r)
    BY <1>8, MirrorEffect, DoneShaped
<1>9. CASE Drop(r)
    BY <1>9, DropEffect, DoneShaped
<1>10. CASE Bury(r)
    BY <1>10, BuryEffect, DoneShaped
<1>11. CASE Exhume(r)
    BY <1>11, ExhumeEffect, DoneShaped
<1>12. CASE ReadTombstones(r)
    BY <1>12, LookupEffect, ThenShaped
<1>13. CASE Upsert(r)
    BY <1>13, UpsertEffect, DoneShaped
<1>14. CASE Fill(r)
    BY <1>14, FillEffect, DoneShaped
<1>15. CASE Unlink(r)
    BY <1>15, UnlinkEffect, DoneShaped
<1> QED BY <1>1, <1>2, <1>3, <1>4, <1>5, <1>6, <1>7, <1>8, <1>9, <1>10, <1>11, <1>12, <1>13, <1>14, <1>15
      DEF Statement

-----------------------------------------------------------------------------
(* Groups are put in order. *)

(* Where every channel keeps its place, every group is as it was. *)
LEMMA GroupsKept ==
    ASSUME Live' = Live, \A c \in Live : docs'[c].group = docs[c].group /\ docs'[c].role = docs[c].role
    PROVE  \A g : /\ Members(g)' = Members(g) /\ Parents(g)' = Parents(g) /\ Children(g)' = Children(g)
                  /\ WellFormed(g)' <=> WellFormed(g)
<1> TAKE g
<1>1. Members(g)' = Members(g)
    BY DEF Members
<1>2. Parents(g)' = Parents(g) /\ Children(g)' = Children(g)
    BY <1>1 DEF Parents, Children, Members
<1> QED BY <1>1, <1>2 DEF WellFormed

LEMMA StatementHeals ==
    ASSUME GroupsAssumption, TypesOK, ShapesOK, Healing, NEW r \in Req, Statement(r)
    PROVE  Healing'
<1>a. tasks[r] # <<>> /\ Proceeds(r)
    BY StatementStep
<1>1. CASE Clear(r)
    BY <1>a, <1>1, ClearEffect, HealingKept DEF Breaks, Clear
<1>2. CASE WriteChild(r)
    BY <1>a, <1>2, PutEffect, HealingKept DEF Breaks, WriteChild
<1>3. CASE WriteParent(r)
    BY <1>a, <1>3, HeadEffect, HealingKept DEF Breaks, WriteParent
<1>4. CASE WriteOrder(r)
    BY <1>a, <1>4, OrderEffect, GroupsKept, HealingKept DEF Heals, WriteOrder
<1>7. CASE WriteLink(r)
  <2>1. /\ Live' = Live /\ tasks[r][1].kind = "link"
        /\ \A c \in Live : docs'[c].group = docs[c].group /\ docs'[c].role = docs[c].role
    BY <1>7, LinkEffect
  <2> QED BY <1>a, <1>7, <2>1, GroupsKept, HealingKept DEF Heals, WriteLink
<1>8. CASE WriteMirror(r)
  <2>1. /\ Live' = Live /\ tasks[r][1].kind = "mirror"
        /\ \A c \in Live : docs'[c].group = docs[c].group /\ docs'[c].role = docs[c].role
    BY <1>8, MirrorEffect
  <2> QED BY <1>a, <1>8, <2>1, GroupsKept, HealingKept DEF Heals, WriteMirror
<1>10. CASE Bury(r)
    BY <1>a, <1>10, BuryEffect, GroupsKept, HealingKept DEF Heals, Bury, Live
<1>11. CASE Exhume(r)
    BY <1>a, <1>11, ExhumeEffect, GroupsKept, HealingKept DEF Heals, Exhume, Live
<1>12. CASE ReadTombstones(r)
    BY <1>a, <1>12, LookupEffect, GroupsKept, HealingKept DEF Heals, ReadTombstones, Live
<1>14. CASE Fill(r)
    BY <1>a, <1>14, FillEffect, GroupsKept, HealingKept DEF Heals, Fill
<1>15. CASE Unlink(r)
    BY <1>a, <1>15, UnlinkEffect, GroupsKept, HealingKept DEF Heals, Unlink
<1>5. CASE Tally(r)
  <2> DEFINE y == [kind |-> "disband", groups |-> {g \in GroupId : Degenerate(g)}]
  <2>1. docs' = docs /\ IF {g \in GroupId : Degenerate(g)} = {} THEN Done(r) ELSE Then(r, <<y>>)
    BY <1>5, TallyEffect
  <2>2. Live' = Live
    BY <2>1 DEF Live
  <2>3. ASSUME NEW g \in GroupId, ~WellFormed(g)'
        PROVE  \E q \in Req : \E i \in 1..Len(tasks'[q]) : Heals(tasks'[q][i], g)
    <3>1. ~WellFormed(g)
      BY <2>1, <2>2, <2>3, GroupsKept
    <3>2. Degenerate(g)
      BY <3>1 DEF WellFormed, Degenerate
    <3>3. y \in Statements /\ Then(r, <<y>>)
      BY <1>5, <2>1, <3>2, TallyEffect
    <3>4. tasks'[r] = <<y>> \o Tail(tasks[r]) /\ tasks[r] \in Seq(Statements)
      BY <1>a, <3>3, StepFacts
    <3>5. 1 \in 1..Len(tasks'[r]) /\ tasks'[r][1] = y
      BY <1>a, <3>3, <3>4, SwapFacts, TailFacts
    <3> QED BY <3>2, <3>5 DEF Heals
  <2> QED BY <2>3 DEF Healing, Heals
<1>6. CASE Disband(r)
  <2>1. ASSUME NEW g \in GroupId
        PROVE  WellFormed(g)' \/ (~Heals(tasks[r][1], g) /\ ~WellFormed(g))
    <3>1. /\ Live' = Live /\ tasks[r][1].kind = "disband"
          /\ \A c \in Live : IF docs[c].group \in tasks[r][1].groups
                             THEN docs'[c].group = Null ELSE docs'[c] = docs[c]
      BY <1>6, DisbandEffect
    <3>2. g # Null
      BY DocFacts DEF TypesOK
    <3>3. CASE g \in tasks[r][1].groups
      <4>1. Members(g)' = {}
        BY <3>1, <3>2, <3>3 DEF Members
      <4> QED BY <4>1 DEF WellFormed
    <3>4. CASE g \notin tasks[r][1].groups
      <4>1. Members(g)' = Members(g) /\ \A c \in Members(g) : docs'[c] = docs[c]
        BY <3>1, <3>2, <3>4 DEF Members
      <4>2. Parents(g)' = Parents(g) /\ Children(g)' = Children(g)
        BY <4>1 DEF Parents, Children
      <4> QED BY <3>1, <3>4, <4>1, <4>2 DEF WellFormed, Heals
    <3> QED BY <3>3, <3>4
  <2> QED BY <1>a, <1>6, <2>1, HealingKept DEF Disband
<1>9. CASE Drop(r)
  <2>1. /\ Live' = Live \ tasks[r][1].chans /\ tasks[r][1].kind = "drop"
    BY <1>9, DropEffect
  <2>2. CASE tasks[r][1].chans = Chan
    <3>1. \A g : Members(g)' = {}
      BY <2>1, <2>2 DEF Members, Live
    <3>2. \A g \in GroupId : WellFormed(g)'
      BY <3>1 DEF WellFormed
    <3> QED BY <1>a, <1>9, <3>2, HealingKept DEF Drop
  <2>3. CASE tasks[r][1].chans # Chan
    BY <1>a, <1>9, <2>1, <2>3, HealingKept DEF Drop, Breaks
  <2> QED BY <2>2, <2>3
<1>13. CASE Upsert(r)
  <2>1. /\ Live \subseteq Live' /\ tasks[r][1].kind = "upsert"
        /\ \A c \in Live : docs'[c] = docs[c]
        /\ \A c \in Live' \ Live : docs'[c].group = Null
    BY <1>13, UpsertEffect
  <2>2. ASSUME NEW g \in GroupId
        PROVE  WellFormed(g)' <=> WellFormed(g)
    <3>1. g # Null
      BY DocFacts DEF TypesOK
    <3>2. Members(g)' = Members(g) /\ \A c \in Members(g) : docs'[c] = docs[c]
      BY <2>1, <3>1 DEF Members
    <3>3. Parents(g)' = Parents(g) /\ Children(g)' = Children(g)
      BY <3>2 DEF Parents, Children
    <3> QED BY <3>2, <3>3 DEF WellFormed
  <2> QED BY <1>a, <1>13, <2>1, <2>2, HealingKept DEF Upsert, Heals
<1> QED BY <1>1, <1>2, <1>3, <1>4, <1>5, <1>6, <1>7, <1>8, <1>9, <1>10, <1>11, <1>12, <1>13, <1>14, <1>15
      DEF Statement

-----------------------------------------------------------------------------
(* One request at a time, a statement of the only one that runs. *)

LEMMA AloneKept ==
    ASSUME TypesOK, Alone, NEW r \in Req, tasks[r] # <<>>, Proceeds(r)
    PROVE  Alone' /\ \A q \in Req \ {r} : tasks[q] = <<>> /\ tasks'[q] = <<>>
BY DEF Alone, Proceeds

(* After a statement that is no part of a save, no part of a save is left. *)
LEMMA RestPlain ==
    ASSUME TypesOK, ShapesOK, NEW r \in Req, tasks[r] # <<>>, Proceeds(r)
    PROVE  LET s == tasks[r]
               t == tasks'[r]
           IN  /\ \A k \in 2..Len(s) : /\ s[1].kind \notin {"clear", "put"} => s[k].kind \notin {"put", "head"}
                                       /\ s[k].kind \notin {"link", "mirror", "upsert"}
               /\ t = Tail(s) => /\ Len(t) = Len(s) - 1
                                 /\ \A k \in 1..Len(t) : k + 1 \in 2..Len(s) /\ t[k] = s[k + 1]
               /\ \A y \in Statements : t = <<y>> \o Tail(s) =>
                    /\ Len(t) = Len(s) /\ t[1] = y
                    /\ \A k \in 2..Len(t) : t[k] = s[k]
               /\ Len(s) \in Nat \ {0}
<1> DEFINE s == tasks[r]
           t == tasks'[r]
<1>1. s \in Seq(Statements) /\ s # <<>> /\ Shaped(s)
    BY DEF TypesOK, ShapesOK
<1>2. Len(s) \in Nat \ {0}
    BY <1>1
<1>3. \A k \in 2..Len(s) : /\ s[1].kind \notin {"clear", "put"} => s[k].kind \notin {"put", "head"}
                           /\ s[k].kind \notin {"link", "mirror", "upsert"}
  <2> TAKE k \in 2..Len(s)
  <2>1. k \in 1..Len(s) /\ 1 \in 1..Len(s) /\ 1 < k /\ k # 1
    BY <1>2
  <2> QED BY <1>1, <2>1 DEF Shaped
<1>4. t = Tail(s) => Len(t) = Len(s) - 1 /\ \A k \in 1..Len(t) : k + 1 \in 2..Len(s) /\ t[k] = s[k + 1]
  <2>1. Len(Tail(s)) = Len(s) - 1 /\ \A k \in 1..Len(Tail(s)) : k + 1 \in 1..Len(s) /\ Tail(s)[k] = s[k + 1]
    BY <1>1, TailFacts
  <2> QED BY <1>2, <2>1
<1>5. ASSUME NEW y \in Statements, t = <<y>> \o Tail(s)
      PROVE  Len(t) = Len(s) /\ t[1] = y /\ \A k \in 2..Len(t) : t[k] = s[k]
    BY <1>1, <1>5, SwapFacts
<1> QED BY <1>2, <1>3, <1>4, <1>5

LEMMA ParentsShrink ==
    ASSUME \A c \in Live' : \/ c \in Live /\ docs'[c].group = docs[c].group /\ docs'[c].role = docs[c].role
                            \/ docs'[c].role # "parent"
    PROVE  \A g : Parents(g)' \subseteq Parents(g)
BY DEF Parents, Members

(* Only the last write of a save makes a parent. *)
LEMMA FewerParents ==
    ASSUME GroupsAssumption, TypesOK, NEW r \in Req, Statement(r), ~WriteParent(r)
    PROVE  \A g : Parents(g)' \subseteq Parents(g)
<1>0. Null # "parent"
    BY DEF GroupsAssumption
<1>1. CASE Clear(r)
    BY <1>0, <1>1, ClearEffect, ParentsShrink
<1>2. CASE WriteChild(r)
    BY <1>2, PutEffect, ParentsShrink
<1>4. CASE WriteOrder(r)
    BY <1>4, OrderEffect, ParentsShrink
<1>5. CASE Tally(r)
    BY <1>5, TallyEffect, ParentsShrink DEF Live
<1>6. CASE Disband(r)
    BY <1>0, <1>6, DisbandEffect, ParentsShrink
<1>7. CASE WriteLink(r)
    BY <1>7, LinkEffect, ParentsShrink
<1>8. CASE WriteMirror(r)
    BY <1>8, MirrorEffect, ParentsShrink
<1>9. CASE Drop(r)
    BY <1>9, DropEffect, ParentsShrink
<1>10. CASE Bury(r)
    BY <1>10, BuryEffect, ParentsShrink DEF Live
<1>11. CASE Exhume(r)
    BY <1>11, ExhumeEffect, ParentsShrink DEF Live
<1>12. CASE ReadTombstones(r)
    BY <1>12, LookupEffect, ParentsShrink DEF Live
<1>13. CASE Upsert(r)
    BY <1>0, <1>13, UpsertEffect, ParentsShrink
<1>14. CASE Fill(r)
    BY <1>14, FillEffect, ParentsShrink
<1>15. CASE Unlink(r)
    BY <1>15, UnlinkEffect, ParentsShrink
<1> QED BY <1>1, <1>2, <1>4, <1>5, <1>6, <1>7, <1>8, <1>9, <1>10, <1>11, <1>12, <1>13, <1>14, <1>15
      DEF Statement

(* What a statement put in its own place is the next part of what it began. *)
LEMMA Replaced ==
    ASSUME GroupsAssumption, TypesOK, NEW r \in Req, Statement(r)
    PROVE  \/ tasks'[r] = Tail(tasks[r])
           \/ /\ tasks[r][1].kind \in {"tally", "link", "tombstones"}
              /\ \E y \in Statements : /\ y.kind \in {"disband", "mirror", "upsert"}
                                       /\ y.kind = "mirror" => tasks[r][1].kind = "link"
                                       /\ tasks'[r] = <<y>> \o Tail(tasks[r])
<1>1. CASE Clear(r)
    BY <1>1, ClearEffect, StepFacts
<1>2. CASE WriteChild(r)
    BY <1>2, PutEffect, StepFacts
<1>3. CASE WriteParent(r)
    BY <1>3, HeadEffect, StepFacts
<1>4. CASE WriteOrder(r)
    BY <1>4, OrderEffect, StepFacts
<1>5. CASE Tally(r)
    BY <1>5, TallyEffect, StepFacts
<1>6. CASE Disband(r)
    BY <1>6, DisbandEffect, StepFacts
<1>7. CASE WriteLink(r)
  <2> DEFINE x == tasks[r][1]
             m == [kind |-> "mirror", group |-> docs[x.chan].group, link |-> x.link]
  <2>1. /\ tasks[r] # <<>> /\ x.kind = "link"
        /\ Done(r) \/ (m \in Mirrors /\ Then(r, <<m>>))
    BY <1>7, LinkEffect
  <2>2. m \in Mirrors => m \in Statements
    BY IsStatement
  <2>3. m.kind = "mirror"
    OBVIOUS
  <2> HIDE DEF m
  <2> QED BY <2>1, <2>2, <2>3, StepFacts
<1>8. CASE WriteMirror(r)
    BY <1>8, MirrorEffect, StepFacts
<1>9. CASE Drop(r)
    BY <1>9, DropEffect, StepFacts
<1>10. CASE Bury(r)
    BY <1>10, BuryEffect, StepFacts
<1>11. CASE Exhume(r)
    BY <1>11, ExhumeEffect, StepFacts
<1>12. CASE ReadTombstones(r)
    BY <1>12, LookupEffect, StepFacts
<1>13. CASE Upsert(r)
    BY <1>13, UpsertEffect, StepFacts
<1>14. CASE Fill(r)
    BY <1>14, FillEffect, StepFacts
<1>15. CASE Unlink(r)
    BY <1>15, UnlinkEffect, StepFacts
<1> QED BY <1>1, <1>2, <1>3, <1>4, <1>5, <1>6, <1>7, <1>8, <1>9, <1>10, <1>11, <1>12, <1>13, <1>14, <1>15
      DEF Statement

(* While a part of a save is left, its beginning has just been written. *)
LEMMA SaveGoesOn ==
    ASSUME GroupsAssumption, TypesOK, ShapesOK, NEW r \in Req, Statement(r),
           NEW k \in 1..Len(tasks'[r]), tasks'[r][k].kind \in {"put", "head"}
    PROVE  /\ Clear(r) \/ WriteChild(r)
           /\ Len(tasks'[r]) = Len(tasks[r]) - 1
           /\ \A i \in 1..Len(tasks'[r]) : tasks'[r][i] = tasks[r][i + 1] /\ i + 1 \in 1..Len(tasks[r])
           /\ Len(tasks[r]) \in Nat \ {0}
<1>1. tasks[r] # <<>> /\ Proceeds(r)
    BY StatementStep
<1>2. ASSUME NEW y \in Statements, tasks'[r] = <<y>> \o Tail(tasks[r]), y.kind \in {"disband", "mirror", "upsert"},
             tasks[r][1].kind \in {"tally", "link", "tombstones"}
      PROVE  FALSE
  <2>1. Len(tasks'[r]) = Len(tasks[r]) /\ tasks'[r][1] = y /\ (k \in 2..Len(tasks'[r]) => tasks'[r][k] = tasks[r][k])
    BY <1>1, <1>2, RestPlain
  <2>2. CASE k = 1
    BY <1>2, <2>1, <2>2
  <2>3. CASE k # 1
    <3>1. k \in 2..Len(tasks[r]) /\ tasks'[r][k] = tasks[r][k]
      BY <1>1, <2>1, <2>3
    <3>2. tasks[r][k].kind \notin {"put", "head"}
      BY <1>1, <1>2, <3>1, RestPlain
    <3> QED BY <3>1, <3>2
  <2> QED BY <2>2, <2>3
<1>3. tasks'[r] = Tail(tasks[r])
    BY <1>2, Replaced
<1>4. /\ Len(tasks'[r]) = Len(tasks[r]) - 1 /\ Len(tasks[r]) \in Nat \ {0}
      /\ \A i \in 1..Len(tasks'[r]) : tasks'[r][i] = tasks[r][i + 1] /\ i + 1 \in 2..Len(tasks[r])
    BY <1>1, <1>3, RestPlain
<1>5. tasks[r][1].kind \in {"clear", "put"}
    BY <1>1, <1>4, RestPlain
<1>6. Clear(r) \/ WriteChild(r)
    BY <1>5, HeadEffect, OrderEffect, TallyEffect, DisbandEffect, LinkEffect, MirrorEffect, DropEffect,
       BuryEffect, ExhumeEffect, LookupEffect, UpsertEffect, FillEffect, UnlinkEffect DEF Statement
<1> QED BY <1>4, <1>6

LEMMA StatementHeads ==
    ASSUME GroupsAssumption, TypesOK, ShapesOK, HeadsInv, NEW r \in Req, Statement(r), mess' = mess
    PROVE  HeadsInv'
<1> SUFFICES ASSUME OneAtATime'
             PROVE  Alone' /\ OneHead' /\ \A q \in Req : HeadsOK(tasks[q])'
    BY DEF HeadsInv
<1> DEFINE s == tasks[r]
           t == tasks'[r]
<1>1. tasks[r] # <<>> /\ Proceeds(r) /\ TypesOK'
    BY StatementStep
<1>2. Alone /\ OneHead /\ HeadsOK(s)
    BY DEF HeadsInv, OneAtATime
<1>3. Alone' /\ \A q \in Req \ {r} : tasks'[q] = <<>>
    BY <1>1, <1>2, AloneKept
<1>4. OneHead'
  <2>1. CASE ~WriteParent(r)
    BY <1>2, <2>1, FewerParents DEF OneHead
  <2>2. CASE WriteParent(r)
    <3>1. /\ s[1] \in Heads /\ s[1].kind = "head" /\ Live' = Live
          /\ \A c \in Live : c # s[1].chan => docs'[c] = docs[c]
          /\ \A c \in Live : c = s[1].chan => docs'[c].group = s[1].group
      BY <2>2, HeadEffect
    <3>2. 1 \in 1..Len(s) /\ Len(s) \in Nat
      BY <1>1, StepFacts
    <3>3. \A c \in Parents(s[1].group) : c = s[1].chan
      BY <1>2, <3>1, <3>2 DEF HeadsOK, Leaves
    <3>4. ASSUME NEW g \in GroupId, NEW c \in Parents(g)', NEW d \in Parents(g)'
          PROVE  c = d
      <4>1. \A e \in {c, d} : e \in Live /\ (e # s[1].chan => e \in Parents(g))
                                         /\ (e = s[1].chan => g = s[1].group)
        BY <3>1 DEF Parents, Members
      <4>2. CASE g = s[1].group
        BY <3>3, <4>1, <4>2
      <4>3. CASE g # s[1].group
        BY <1>2, <4>1, <4>3 DEF OneHead
      <4> QED BY <4>2, <4>3
    <3> QED BY <3>4 DEF OneHead
  <2> QED BY <2>1, <2>2
<1>5. ASSUME NEW k \in 1..Len(t), t[k].kind = "head", NEW g, t[k].group = g, NEW c \in Parents(g)'
      PROVE  c = t[k].chan \/ Leaves(t, k, c)
  <2>1. /\ Clear(r) \/ WriteChild(r)
        /\ Len(t) = Len(s) - 1 /\ Len(s) \in Nat \ {0}
        /\ \A i \in 1..Len(t) : t[i] = s[i + 1] /\ i + 1 \in 1..Len(s)
    BY <1>5, SaveGoesOn
  <2>2. k + 1 \in 1..Len(s) /\ t[k] = s[k + 1] /\ s[k + 1].kind = "head"
    BY <1>5, <2>1
  <2>3. c \in Parents(g)
    <3>1. ~WriteParent(r)
      BY <2>1, HeadEffect, ClearEffect, PutEffect
    <3> QED BY <1>5, <3>1, FewerParents
  <2>4. c = t[k].chan \/ Leaves(s, k + 1, c)
    BY <1>2, <1>5, <2>2, <2>3 DEF HeadsOK
  <2>5. ASSUME NEW i \in 1..Len(s), i < k + 1,
               \/ s[i].kind = "clear" /\ s[i].group = s[k + 1].group /\ c \notin s[i].keep
               \/ s[i].kind = "put" /\ s[i].chan = c
        PROVE  Leaves(t, k, c)
    <3>1. i # 1
      <4>1. SUFFICES ASSUME i = 1
                     PROVE  FALSE
        OBVIOUS
      <4>2. CASE Clear(r)
        <5>1. /\ s[1].kind = "clear" /\ c \in Live'
              /\ c \in Live /\ c \in Members(s[1].group) \ s[1].keep => docs'[c].role = Null
          BY <1>5, <4>2, ClearEffect DEF Parents, Members
        <5>2. docs'[c].role = "parent" /\ Null # "parent"
          BY <1>5 DEF Parents, GroupsAssumption
        <5>3. c \in Members(s[1].group) /\ c \notin s[1].keep
          BY <1>5, <2>2, <2>3, <2>5, <4>1, <5>1 DEF Parents
        <5> QED BY <5>1, <5>2, <5>3 DEF Members
      <4>3. CASE WriteChild(r)
        <5>1. s[1].kind = "put" /\ (c \in Live /\ c = s[1].chan => docs'[c].role = "child")
          BY <4>3, PutEffect
        <5>2. docs'[c].role = "parent" /\ c \in Live
          BY <1>5, <2>3 DEF Parents, Members
        <5> QED BY <2>5, <4>1, <5>1, <5>2
      <4> QED BY <2>1, <4>2, <4>3
    <3>2. i - 1 \in 1..Len(t) /\ t[i - 1] = s[i] /\ i - 1 < k
      BY <2>1, <2>5, <3>1
    <3> QED BY <1>5, <2>2, <2>5, <3>2 DEF Leaves
  <2> QED BY <2>4, <2>5 DEF Leaves
<1>6. HeadsOK(tasks[r])'
  <2>1. \A k \in 1..Len(t) : t[k].kind = "head" =>
          \A g : t[k].group = g => \A c \in Parents(g)' : c = t[k].chan \/ Leaves(t, k, c)
    BY <1>5
  <2> QED BY <2>1 DEF HeadsOK, Leaves
<1>7. \A q \in Req \ {r} : HeadsOK(tasks[q])'
    BY <1>3, EmptyFacts DEF HeadsOK, Leaves
<1> QED BY <1>3, <1>4, <1>6, <1>7

-----------------------------------------------------------------------------
(* Tombstones. *)

LEMMA StatementGraves ==
    ASSUME GroupsAssumption, TypesOK, ShapesOK, HeadsInv, GravesInv, NEW r \in Req, Statement(r), mess' = mess
    PROVE  GravesInv'
<1> SUFFICES ASSUME OneAtATime'
             PROVE  buried' \cap Live' = {} /\ \A q \in Req : GravesOK(tasks[q])'
    BY DEF GravesInv
<1> DEFINE s == tasks[r]
           t == tasks'[r]
<1>1. tasks[r] # <<>> /\ Proceeds(r) /\ TypesOK' /\ Len(s) \in Nat \ {0} /\ 1 \in 1..Len(s)
    BY StatementStep, StepFacts
<1>2. buried \cap Live = {} /\ GravesOK(s) /\ Alone
    BY DEF GravesInv, HeadsInv, OneAtATime
<1>3. \A q \in Req \ {r} : GravesOK(tasks[q])'
  <2>1. \A q \in Req \ {r} : tasks'[q] = <<>>
    BY <1>1, <1>2, AloneKept
  <2> QED BY <2>1, EmptyFacts DEF GravesOK
<1>4. \A k \in 2..Len(s) : s[k].kind # "upsert" /\ (s[k].kind = "bury" => s[1].kind = "drop")
  <2>1. \A k \in 2..Len(s) : s[k].kind # "upsert"
    BY <1>1, RestPlain
  <2>2. ASSUME NEW k \in 2..Len(s), s[k].kind = "bury"
        PROVE  s[1].kind = "drop"
    <3>1. k \in 1..Len(s) /\ 1 < k
      BY <1>1
    <3> QED BY <1>1, <1>2, <2>2, <3>1 DEF GravesOK
  <2> QED BY <2>1, <2>2
<1>5. CASE Drop(r)
  <2>1. /\ t = Tail(s) /\ s[1].kind = "drop" /\ Live' = Live \ s[1].chans /\ buried' = buried
    BY <1>5, DropEffect, StepFacts DEF Drop
  <2>2. /\ Len(t) = Len(s) - 1
        /\ \A k \in 1..Len(t) : k + 1 \in 2..Len(s) /\ k + 1 \in 1..Len(s) /\ t[k] = s[k + 1]
    BY <1>1, <2>1, RestPlain
  <2>3. \A i \in 1..Len(t) : t[i].kind # "upsert"
    BY <1>4, <2>2
  <2>4. ASSUME NEW i \in 1..Len(t), t[i].kind = "bury", NEW c \in t[i].chans, c \in Live'
        PROVE  \E k \in 1..Len(t) : k < i /\ t[k].kind = "drop" /\ c \in t[k].chans
    <3>1. i + 1 \in 1..Len(s) /\ s[i + 1] = t[i] /\ c \in Live
      BY <2>1, <2>2, <2>4
    <3>2. PICK k \in 1..Len(s) : k < i + 1 /\ s[k].kind = "drop" /\ c \in s[k].chans
      BY <1>2, <2>4, <3>1 DEF GravesOK
    <3>3. k # 1
      BY <2>1, <2>4, <3>2
    <3>4. k - 1 \in 1..Len(t) /\ k - 1 < i /\ (k - 1) + 1 = k
      BY <1>1, <2>2, <3>2, <3>3
    <3>5. t[k - 1] = s[k]
      BY <2>2, <3>4
    <3> QED BY <3>2, <3>4, <3>5
  <2>5. ASSUME NEW i \in 1..Len(t), NEW k \in 1..Len(t), t[i].kind = "bury", k < i
        PROVE  t[k].kind = "drop"
    <3>1. i + 1 \in 1..Len(s) /\ k + 1 \in 1..Len(s) /\ t[i] = s[i + 1] /\ t[k] = s[k + 1] /\ k + 1 < i + 1
      BY <2>2, <2>5
    <3> QED BY <1>2, <2>5, <3>1 DEF GravesOK
  <2>6. GravesOK(tasks[r])'
    BY <2>3, <2>4, <2>5 DEF GravesOK
  <2> QED BY <1>2, <1>3, <2>1, <2>6
<1>6. CASE ReadTombstones(r)
  <2> DEFINE y == [kind |-> "upsert", chans |-> Wanted(s[1].listed)]
  <2>1. /\ s[1].kind = "tombstones" /\ y \in Statements /\ y.chans \cap buried = {}
        /\ t = <<y>> \o Tail(s) /\ docs' = docs /\ buried' = buried /\ y.kind = "upsert"
    <3>1. /\ s[1].kind = "tombstones" /\ y \in Statements /\ y.chans \cap buried = {}
          /\ Then(r, <<y>>) /\ docs' = docs
      BY <1>6, LookupEffect
    <3>2. y.kind = "upsert" /\ buried' = buried
      BY <1>6 DEF ReadTombstones
    <3> HIDE DEF y
    <3>3. t = <<y>> \o Tail(s)
      BY <1>1, <3>1, StepFacts
    <3> QED BY <3>1, <3>2, <3>3
  <2> HIDE DEF y
  <2>2. Live' = Live
    BY <2>1 DEF Live
  <2>3. Len(t) = Len(s) /\ t[1] = y /\ \A k \in 2..Len(t) : t[k] = s[k]
    BY <1>1, <2>1, RestPlain
  <2>4. \A i \in 1..Len(t) : t[i].kind # "bury" /\ (t[i].kind = "upsert" => i = 1)
    BY <1>1, <1>4, <2>1, <2>3
  <2>5. GravesOK(tasks[r])'
    BY <2>1, <2>3, <2>4 DEF GravesOK
  <2> QED BY <1>2, <1>3, <2>1, <2>2, <2>5
<1>7. ASSUME ~Drop(r), ~ReadTombstones(r)
      PROVE  GravesOK(tasks[r])'
  <2>1. s[1].kind \notin {"drop", "tombstones"}
    BY <1>7, ClearEffect, PutEffect, HeadEffect, OrderEffect, TallyEffect, DisbandEffect, LinkEffect,
       MirrorEffect, BuryEffect, ExhumeEffect, UpsertEffect, FillEffect, UnlinkEffect DEF Statement
  <2>2. CASE t = Tail(s)
    <3>1. Len(t) = Len(s) - 1 /\ \A k \in 1..Len(t) : k + 1 \in 2..Len(s) /\ t[k] = s[k + 1]
      BY <1>1, <2>2, RestPlain
    <3>2. \A i \in 1..Len(t) : t[i].kind \notin {"bury", "upsert"}
      BY <1>4, <2>1, <3>1
    <3> QED BY <3>2 DEF GravesOK
  <2>3. ASSUME NEW y \in Statements, y.kind \in {"disband", "mirror"}, t = <<y>> \o Tail(s)
        PROVE  GravesOK(tasks[r])'
    <3>1. Len(t) = Len(s) /\ t[1] = y /\ \A k \in 2..Len(t) : t[k] = s[k]
      BY <1>1, <2>3, RestPlain
    <3>2. \A i \in 1..Len(t) : t[i].kind \notin {"bury", "upsert"}
      BY <1>1, <1>4, <2>1, <2>3, <3>1
    <3> QED BY <3>2 DEF GravesOK
  <2>4. \/ t = Tail(s)
        \/ \E y \in Statements : y.kind \in {"disband", "mirror"} /\ t = <<y>> \o Tail(s)
    <3>1. CASE Tally(r)
      BY <3>1, TallyEffect, StepFacts
    <3>2. CASE WriteLink(r)
      <4> DEFINE m == [kind |-> "mirror", group |-> docs[s[1].chan].group, link |-> s[1].link]
      <4>1. Done(r) \/ (m \in Mirrors /\ Then(r, <<m>>))
        BY <3>2, LinkEffect
      <4>2. m.kind = "mirror" /\ (m \in Mirrors => m \in Statements)
        BY IsStatement
      <4> HIDE DEF m
      <4> QED BY <1>1, <4>1, <4>2, StepFacts
    <3>3. CASE ~Tally(r) /\ ~WriteLink(r)
      <4>1. s[1].kind \notin {"tally", "link"}
        BY <1>7, <3>3, ClearEffect, PutEffect, HeadEffect, OrderEffect, DisbandEffect,
           MirrorEffect, BuryEffect, ExhumeEffect, UpsertEffect, FillEffect, UnlinkEffect DEF Statement
      <4> QED BY <2>1, <4>1, Replaced
    <3> QED BY <3>1, <3>2, <3>3
  <2> QED BY <2>2, <2>3, <2>4
<1>8. ASSUME ~Drop(r), ~ReadTombstones(r)
      PROVE  buried' \cap Live' = {}
  <2>1. CASE Bury(r)
    <3>1. s[1].kind = "bury" /\ docs' = docs /\ buried' = buried \cup s[1].chans
      BY <2>1, BuryEffect
    <3>2. Live' = Live
      BY <3>1 DEF Live
    <3>3. s[1].chans \cap Live = {}
      BY <1>1, <1>2, <3>1 DEF GravesOK
    <3> QED BY <1>2, <3>1, <3>2, <3>3
  <2>2. CASE Exhume(r)
    BY <2>2, ExhumeEffect
  <2>3. CASE Upsert(r)
    <3>1. s[1].kind = "upsert" /\ Live' = Live \cup s[1].chans /\ buried' = buried
      BY <2>3, UpsertEffect DEF Upsert
    <3>2. s[1].chans \cap buried = {}
      BY <1>1, <1>2, <3>1 DEF GravesOK
    <3> QED BY <1>2, <3>1, <3>2
  <2>4. CASE ~Bury(r) /\ ~Exhume(r) /\ ~Upsert(r)
    <3>1. Live' = Live
      <4>1. CASE Tally(r)
        BY <4>1, TallyEffect DEF Live
      <4>2. CASE WriteLink(r)
        BY <4>2, LinkEffect
      <4>3. CASE WriteMirror(r)
        BY <4>3, MirrorEffect
      <4> QED BY <1>8, <2>4, <4>1, <4>2, <4>3, ClearEffect, PutEffect, HeadEffect, OrderEffect, DisbandEffect,
              FillEffect, UnlinkEffect DEF Statement
    <3>2. buried' = buried
      BY <1>8, <2>4 DEF Statement, Clear, WriteChild, WriteParent, WriteOrder, Tally, Disband, WriteLink,
         WriteMirror, Fill, Unlink
    <3> QED BY <1>2, <3>1, <3>2
  <2> QED BY <2>1, <2>2, <2>3, <2>4
<1> QED BY <1>3, <1>5, <1>6, <1>7, <1>8

-----------------------------------------------------------------------------
(* Children mirror their parent. *)

(* What is grouped after a step was there before, with the same guide link.   *)
Undisturbed ==
    \A c \in Live' :
        \/ docs'[c].group = Null /\ docs'[c].role = Null
        \/ /\ c \in Live /\ docs'[c].group = docs[c].group /\ docs'[c].role = docs[c].role
           /\ Linked(docs'[c], docs[c].tvg, docs[c].epg, docs[c].state)

LEMMA LinksKept ==
    ASSUME GroupsAssumption, Undisturbed
    PROVE  /\ GroupedTouched => GroupedTouched'
           /\ \A g \in GroupId : Matching(g) => Matching(g)'
<1>1. GroupedTouched => GroupedTouched'
    BY DEF GroupedTouched, Undisturbed, Linked, Fillable
<1>2. ASSUME NEW g \in GroupId, Matching(g)
      PROVE  Matching(g)'
  <2>1. g # Null
    BY DEF GroupsAssumption
  <2>2. ASSUME NEW c \in Members(g)'
        PROVE  /\ c \in Members(g) /\ docs'[c].role = docs[c].role
               /\ Linked(docs'[c], docs[c].tvg, docs[c].epg, docs[c].state)
    BY <2>1, <2>2 DEF Members, Undisturbed
  <2>3. SUFFICES ASSUME NEW p \in Parents(g)', NEW c \in Children(g)'
                 PROVE  Linked(docs'[c], docs'[p].tvg, docs'[p].epg, docs'[p].state)
    BY DEF Matching, Linked
  <2>4. p \in Parents(g) /\ c \in Children(g) /\ p \in Members(g)' /\ c \in Members(g)'
    BY <2>2 DEF Parents, Children
  <2> QED BY <1>2, <2>2, <2>4 DEF Matching, Linked
<1> QED BY <1>1, <1>2

LEMMA NoMirrorsLeft ==
    ASSUME GroupsAssumption, TypesOK, ShapesOK, NEW r \in Req, Statement(r),
           ~Clear(r), ~WriteChild(r), ~WriteLink(r)
    PROVE  MirrorsOK(tasks[r])'
<1> DEFINE s == tasks[r]
           t == tasks'[r]
<1>1. tasks[r] # <<>> /\ Proceeds(r)
    BY StatementStep
<1>2. \A k \in 1..Len(t) : t[k].kind \notin {"put", "head"}
    BY SaveGoesOn
<1>3. s[1].kind # "link"
    BY ClearEffect, PutEffect, HeadEffect, OrderEffect, TallyEffect, DisbandEffect, MirrorEffect, DropEffect,
       BuryEffect, ExhumeEffect, LookupEffect, UpsertEffect, FillEffect, UnlinkEffect DEF Statement
<1>4. \A k \in 1..Len(t) : t[k].kind \notin {"mirror", "link"}
  <2>1. CASE t = Tail(s)
    BY <1>1, <2>1, RestPlain
  <2>2. ASSUME NEW y \in Statements, y.kind \in {"disband", "upsert"}, t = <<y>> \o Tail(s)
        PROVE  \A k \in 1..Len(t) : t[k].kind \notin {"mirror", "link"}
    <3>1. Len(s) \in Nat /\ Len(t) = Len(s) /\ t[1] = y /\ \A k \in 2..Len(t) : t[k] = s[k]
      BY <1>1, <2>2, RestPlain
    <3>2. \A k \in 2..Len(s) : s[k].kind \notin {"mirror", "link"}
      BY <1>1, RestPlain
    <3> QED BY <2>2, <3>1, <3>2
  <2> QED BY <1>3, <2>1, <2>2, Replaced
<1> QED BY <1>2, <1>4 DEF MirrorsOK

(* With no save and no mirroring under way, every group matches. *)
LEMMA NothingAhead ==
    ASSUME TypesOK, ShapesOK, Alone, MirrorInv, mess = {}, NEW r \in Req, tasks[r] # <<>>, Proceeds(r),
           tasks[r][1].kind \notin {"clear", "put", "head", "mirror"}
    PROVE  \A g \in GroupId : Matching(g)
<1> DEFINE s == tasks[r]
<1>1. \A k \in 1..Len(s) : s[k].kind \notin {"head", "mirror"}
  <2> TAKE k \in 1..Len(s)
  <2>1. CASE k = 1
    BY <2>1
  <2>2. CASE k # 1
    <3>1. k \in 2..Len(s)
      BY <2>2, RestPlain
    <3> QED BY <3>1, RestPlain
  <2> QED BY <2>1, <2>2
<1>2. \A q \in Req \ {r} : tasks[q] = <<>>
    BY DEF Alone
<1>3. \A q \in Req : \A g : ~MirrorAhead(tasks[q], g)
    BY <1>1, <1>2, EmptyFacts DEF MirrorAhead
<1> QED BY <1>3 DEF MirrorInv

(* What the request that runs owes the groups, besides the empty tasks of the *)
(* others.                                                                    *)
Mirroring(r) ==
    /\ GroupedTouched /\ MirrorsOK(tasks[r])
    /\ \A g \in GroupId : Matching(g) \/ MirrorAhead(tasks[r], g)

(* While a save goes on, what is left of it shifts by one. *)
LEMMA SaveShifts ==
    ASSUME GroupsAssumption, TypesOK, ShapesOK, NEW r \in Req, Clear(r) \/ WriteChild(r)
    PROVE  LET s == tasks[r]
               t == tasks'[r]
           IN  /\ tasks[r] # <<>> /\ Len(s) \in Nat \ {0} /\ Len(t) = Len(s) - 1
               /\ \A i \in 1..Len(t) : i + 1 \in 1..Len(s) /\ t[i] = s[i + 1]
               /\ \A i \in 2..Len(s) : i - 1 \in 1..Len(t) /\ t[i - 1] = s[i] /\ s[i].kind \notin {"mirror", "link"}
<1> DEFINE s == tasks[r]
           t == tasks'[r]
<1>1. Statement(r) /\ tasks[r] # <<>> /\ Done(r)
    BY ClearEffect, PutEffect DEF Statement
<1>2. Proceeds(r) /\ t = Tail(s)
    BY <1>1, StatementStep, StepFacts
<1>3. /\ Len(s) \in Nat \ {0} /\ Len(t) = Len(s) - 1
      /\ \A i \in 1..Len(t) : i + 1 \in 2..Len(s) /\ t[i] = s[i + 1]
      /\ \A i \in 2..Len(s) : s[i].kind \notin {"mirror", "link"}
    BY <1>1, <1>2, RestPlain
<1>4. \A i \in 2..Len(s) : i - 1 \in 1..Len(t) /\ (i - 1) + 1 = i
    BY <1>3
<1>5. \A i \in 2..Len(s) : t[i - 1] = s[i]
    BY <1>3, <1>4
<1>6. \A i \in 1..Len(t) : i + 1 \in 1..Len(s)
    BY <1>3
<1> QED BY <1>1, <1>3, <1>4, <1>5, <1>6

(* A channel that a save turns out, or writes, before its k-th statement but  *)
(* not with its first, it still has to turn out or write.                     *)
LEMMA LeavesShift ==
    ASSUME GroupsAssumption, TypesOK, ShapesOK, NEW r \in Req, Clear(r) \/ WriteChild(r),
           NEW k \in 1..Len(tasks'[r]), NEW c, Leaves(tasks[r], k + 1, c),
           ~(tasks[r][1].kind = "clear" /\ tasks[r][1].group = tasks[r][k + 1].group /\ c \notin tasks[r][1].keep),
           ~(tasks[r][1].kind = "put" /\ tasks[r][1].chan = c)
    PROVE  Leaves(tasks'[r], k, c)
<1> DEFINE s == tasks[r]
           t == tasks'[r]
<1>1. /\ Len(s) \in Nat \ {0} /\ Len(t) = Len(s) - 1
      /\ \A i \in 1..Len(t) : i + 1 \in 1..Len(s) /\ t[i] = s[i + 1]
      /\ \A i \in 2..Len(s) : i - 1 \in 1..Len(t) /\ t[i - 1] = s[i]
    BY SaveShifts
<1>2. PICK i \in 1..Len(s) : /\ i < k + 1
                             /\ \/ s[i].kind = "clear" /\ s[i].group = s[k + 1].group /\ c \notin s[i].keep
                                \/ s[i].kind = "put" /\ s[i].chan = c
    BY DEF Leaves
<1>3. i \in 2..Len(s) /\ i - 1 < k
    BY <1>1, <1>2
<1>4. i - 1 \in 1..Len(t) /\ t[i - 1] = s[i] /\ t[k] = s[k + 1]
    BY <1>1, <1>3
<1> QED BY <1>2, <1>3, <1>4 DEF Leaves

(* What a save writes before its parent fits the parent. *)
LEMMA WritesFit ==
    ASSUME NEW s, MirrorsOK(s), NEW k \in 1..Len(s), s[k].kind = "head", NEW i \in 1..Len(s), i < k
    PROVE  LET p == s[k].chan IN
           /\ s[i].kind = "put" => /\ s[i].chan # p /\ s[i].group = s[k].group
                                   /\ s[i].tvg = docs[p].tvg /\ s[i].epg = docs[p].epg
                                   /\ s[i].state = s[k].state
           /\ s[i].kind = "clear" => p \in s[i].keep
BY DEF MirrorsOK

(* What a save still has to write fits, if its parent is left alone and the   *)
(* group's other members were there before or mirror the parent.              *)
LEMMA SaveMirrors ==
    ASSUME GroupsAssumption, TypesOK, ShapesOK, NEW r \in Req, MirrorsOK(tasks[r]), Clear(r) \/ WriteChild(r),
           \A k \in 2..Len(tasks[r]) : tasks[r][k].kind = "head" =>
               LET x == tasks[r][1]
                   h == tasks[r][k]
               IN  /\ h.chan \in Live' /\ docs'[h.chan] = docs[h.chan]
                   /\ \A c \in Live' : docs'[c].group = h.group /\ docs'[c].role = "child" =>
                        \/ Linked(docs'[c], docs[h.chan].tvg, docs[h.chan].epg, h.state)
                        \/ /\ c \in Children(h.group) /\ docs'[c] = docs[c]
                           /\ ~(x.kind = "clear" /\ x.group = h.group /\ c \notin x.keep)
                           /\ ~(x.kind = "put" /\ x.chan = c)
    PROVE  MirrorsOK(tasks[r])'
<1> DEFINE s == tasks[r]
           t == tasks'[r]
<1>1. /\ Len(s) \in Nat \ {0} /\ Len(t) = Len(s) - 1
      /\ \A i \in 1..Len(t) : i + 1 \in 1..Len(s) /\ t[i] = s[i + 1]
      /\ \A i \in 2..Len(s) : i - 1 \in 1..Len(t) /\ t[i - 1] = s[i] /\ s[i].kind \notin {"mirror", "link"}
    BY SaveShifts
<1>2. \A i \in 1..Len(t) : i + 1 \in 2..Len(s)
    BY <1>1
<1>3. ASSUME NEW k \in 1..Len(t), t[k].kind = "head"
      PROVE  LET p == t[k].chan IN
             /\ p \in Live'
             /\ \A c \in Live' : docs'[c].group = t[k].group /\ docs'[c].role = "child" =>
                  c = p \/ Leaves(t, k, c) \/ Linked(docs'[c], docs'[p].tvg, docs'[p].epg, t[k].state)
             /\ \A i \in 1..Len(t) : i < k /\ t[i].kind = "put" =>
                  /\ t[i].chan # p /\ t[i].group = t[k].group
                  /\ t[i].tvg = docs'[p].tvg /\ t[i].epg = docs'[p].epg /\ t[i].state = t[k].state
             /\ \A i \in 1..Len(t) : i < k /\ t[i].kind = "clear" => p \in t[i].keep
  <2> DEFINE h == t[k]
             p == h.chan
  <2>1. k + 1 \in 2..Len(s) /\ k + 1 \in 1..Len(s) /\ s[k + 1] = h
    BY <1>1, <1>2
  <2>2. p \in Live' /\ docs'[p] = docs[p]
    BY <1>3, <2>1
  <2>3. ASSUME NEW c \in Live', docs'[c].group = h.group, docs'[c].role = "child", c # p, ~Leaves(t, k, c)
        PROVE  Linked(docs'[c], docs'[p].tvg, docs'[p].epg, h.state)
    <3>1. SUFFICES ASSUME c \in Children(h.group), docs'[c] = docs[c],
                          ~(s[1].kind = "clear" /\ s[1].group = h.group /\ c \notin s[1].keep),
                          ~(s[1].kind = "put" /\ s[1].chan = c)
                   PROVE  Linked(docs[c], docs[p].tvg, docs[p].epg, h.state)
      BY <1>3, <2>1, <2>2, <2>3
    <3>2. ~Leaves(s, k + 1, c)
      BY <2>1, <2>3, <3>1, LeavesShift
    <3> QED BY <1>3, <2>1, <2>3, <3>1, <3>2 DEF MirrorsOK
  <2>4. ASSUME NEW i \in 1..Len(t), i < k
        PROVE  /\ t[i].kind = "put" => /\ t[i].chan # p /\ t[i].group = h.group
                                       /\ t[i].tvg = docs[p].tvg /\ t[i].epg = docs[p].epg
                                       /\ t[i].state = h.state
               /\ t[i].kind = "clear" => p \in t[i].keep
    <3> DEFINE j == i + 1
               m == k + 1
    <3>1. /\ j \in 1..Len(s) /\ s[j] = t[i] /\ j < m
          /\ m \in 1..Len(s) /\ s[m] = t[k] /\ s[m].kind = "head"
      BY <1>1, <1>3, <2>1, <2>4
    <3> HIDE DEF j, m
    <3>2. /\ s[j].kind = "put" => /\ s[j].chan # s[m].chan /\ s[j].group = s[m].group
                                  /\ s[j].tvg = docs[s[m].chan].tvg /\ s[j].epg = docs[s[m].chan].epg
                                  /\ s[j].state = s[m].state
          /\ s[j].kind = "clear" => s[m].chan \in s[j].keep
      BY <3>1, WritesFit
    <3> QED BY <3>1, <3>2
  <2> QED BY <2>2, <2>3, <2>4
<1>4. ASSUME NEW k \in 1..Len(t), t[k].kind = "put"
      PROVE  \E i \in 1..Len(t) : k < i /\ t[i].kind = "head"
  <2>1. k + 1 \in 1..Len(s) /\ s[k + 1].kind = "put"
    BY <1>1, <1>4
  <2>2. PICK i \in 1..Len(s) : k + 1 < i /\ s[i].kind = "head"
    BY <2>1 DEF MirrorsOK
  <2>3. i \in 2..Len(s) /\ k < i - 1
    BY <1>1, <2>2
  <2> QED BY <1>1, <2>2, <2>3
<1>5. \A i \in 1..Len(t) : t[i].kind \notin {"mirror", "link"}
    BY <1>1, <1>2
<1> QED BY <1>3, <1>4, <1>5 DEF MirrorsOK, Leaves, Children, Members

(* Who writes or mirrors a group next still does after another statement. *)
LEMMA AheadKept ==
    ASSUME GroupsAssumption, TypesOK, ShapesOK, NEW r \in Req, Clear(r) \/ WriteChild(r),
           NEW g, MirrorAhead(tasks[r], g)
    PROVE  MirrorAhead(tasks'[r], g)
<1>1. /\ tasks[r][1].kind \notin {"head", "mirror"} /\ Len(tasks[r]) \in Nat \ {0}
      /\ \A i \in 2..Len(tasks[r]) : i - 1 \in 1..Len(tasks'[r]) /\ tasks'[r][i - 1] = tasks[r][i]
    BY SaveShifts, ClearEffect, PutEffect
<1>2. PICK i \in 1..Len(tasks[r]) : tasks[r][i].kind \in {"head", "mirror"} /\ tasks[r][i].group = g
    BY DEF MirrorAhead
<1>3. i \in 2..Len(tasks[r])
    BY <1>1, <1>2
<1> QED BY <1>1, <1>2, <1>3 DEF MirrorAhead

(* The first write of a save turns out who left. *)
LEMMA ClearMirrors ==
    ASSUME GroupsAssumption, TypesOK, ShapesOK, NEW r \in Req, Mirroring(r), Clear(r)
    PROVE  Mirroring(r)'
<1> DEFINE s == tasks[r]
           x == s[1]
<1>1. /\ Live' = Live /\ x.kind = "clear"
      /\ \A c \in Live : IF c \in Members(x.group) \ x.keep
                         THEN docs'[c].group = Null /\ docs'[c].role = Null ELSE docs'[c] = docs[c]
    BY ClearEffect
<1>2. Undisturbed
    BY <1>1 DEF Undisturbed, Linked
<1>3. \A g \in GroupId : Matching(g)' \/ MirrorAhead(tasks'[r], g)
    BY <1>2, LinksKept, AheadKept DEF Mirroring
<1>4. ASSUME NEW k \in 2..Len(s), s[k].kind = "head"
      PROVE  LET h == s[k] IN
             /\ h.chan \in Live' /\ docs'[h.chan] = docs[h.chan]
             /\ \A c \in Live' : docs'[c].group = h.group /\ docs'[c].role = "child" =>
                  /\ c \in Children(h.group) /\ docs'[c] = docs[c]
                  /\ ~(x.group = h.group /\ c \notin x.keep)
  <2>1. k \in 1..Len(s) /\ 1 \in 1..Len(s) /\ 1 < k
    BY SaveShifts
  <2>2. s[k].chan \in Live /\ s[k].chan \in x.keep
    BY <1>1, <1>4, <2>1 DEF Mirroring, MirrorsOK
  <2>3. ASSUME NEW c \in Live', docs'[c].role = "child"
        PROVE  docs'[c] = docs[c] /\ c \in Live /\ ~(c \in Members(x.group) \ x.keep)
    BY <1>1, <2>3 DEF GroupsAssumption
  <2> QED BY <1>1, <2>2, <2>3 DEF Children, Members
<1>5. MirrorsOK(tasks[r])'
    BY <1>1, <1>4, SaveMirrors DEF Mirroring
<1>6. GroupedTouched'
    BY <1>2, LinksKept DEF Mirroring
<1> QED BY <1>3, <1>5, <1>6 DEF Mirroring, MirrorAhead

(* A child is written as the parent is going to be. *)
LEMMA PutMirrors ==
    ASSUME GroupsAssumption, TypesOK, ShapesOK, NEW r \in Req, Mirroring(r), WriteChild(r)
    PROVE  Mirroring(r)'
<1> DEFINE s == tasks[r]
           x == s[1]
<1>1. /\ Live' = Live /\ x.kind = "put" /\ x \in Puts
      /\ \A c \in Live : IF c = x.chan
           THEN docs'[c].group = x.group /\ docs'[c].role = "child" /\ Linked(docs'[c], x.tvg, x.epg, x.state)
           ELSE docs'[c] = docs[c]
    BY PutEffect
<1>2. PICK k \in 2..Len(s) : s[k].kind = "head" /\ s[k].group = x.group
  <2>1. Len(s) \in Nat /\ 1 \in 1..Len(s)
    BY SaveShifts
  <2>2. PICK k \in 1..Len(s) : 1 < k /\ s[k].kind = "head"
    BY <1>1, <2>1 DEF Mirroring, MirrorsOK
  <2>3. s[k].group = x.group
    BY <1>1, <2>1, <2>2 DEF Mirroring, MirrorsOK
  <2> QED BY <2>1, <2>2, <2>3
<1>3. MirrorAhead(s, x.group)
  <2>1. k \in 1..Len(s)
    BY SaveShifts
  <2> QED BY <1>2, <2>1 DEF MirrorAhead
<1>4. ASSUME NEW g \in GroupId
      PROVE  Matching(g)' \/ MirrorAhead(tasks'[r], g)
  <2>1. CASE MirrorAhead(s, g)
    BY <2>1, AheadKept
  <2>2. CASE Matching(g) /\ g # x.group
    <3>1. \A c \in Members(g)' : c # x.chan /\ c \in Live /\ docs'[c] = docs[c]
      BY <1>1, <2>2 DEF Members
    <3>2. Parents(g)' \subseteq Parents(g) /\ Children(g)' \subseteq Children(g)
      BY <3>1 DEF Parents, Children, Members
    <3>3. \A c \in Parents(g)' \cup Children(g)' : docs'[c] = docs[c]
      BY <3>1 DEF Parents, Children
    <3> QED BY <2>2, <3>2, <3>3 DEF Matching, Linked
  <2> QED BY <1>3, <2>1, <2>2 DEF Mirroring
<1>5. ASSUME NEW j \in 2..Len(s), s[j].kind = "head"
      PROVE  LET h == s[j] IN
             /\ h.chan \in Live' /\ docs'[h.chan] = docs[h.chan]
             /\ \A c \in Live' : docs'[c].group = h.group /\ docs'[c].role = "child" =>
                  \/ Linked(docs'[c], docs[h.chan].tvg, docs[h.chan].epg, h.state)
                  \/ c \in Children(h.group) /\ docs'[c] = docs[c] /\ x.chan # c
  <2>1. j \in 1..Len(s) /\ 1 \in 1..Len(s) /\ 1 < j
    BY SaveShifts
  <2>2. /\ s[j].chan \in Live /\ s[j].chan # x.chan
        /\ x.tvg = docs[s[j].chan].tvg /\ x.epg = docs[s[j].chan].epg /\ x.state = s[j].state
    BY <1>1, <1>5, <2>1 DEF Mirroring, MirrorsOK
  <2> QED BY <1>1, <2>2 DEF Children, Members
<1>6. MirrorsOK(tasks[r])'
    BY <1>1, <1>5, SaveMirrors DEF Mirroring
<1>7. GroupedTouched'
  <2>1. x.state # Null
    BY <1>1 DEF Puts
  <2>2. \A c \in Live : c = x.chan => ~Fillable(docs'[c])
    BY <1>1, <2>1 DEF Fillable, Linked
  <2> QED BY <1>1, <2>2 DEF Mirroring, GroupedTouched
<1> QED BY <1>4, <1>6, <1>7 DEF Mirroring, MirrorAhead

(* The parent is written last, and then the group matches. *)
LEMMA HeadMirrors ==
    ASSUME GroupsAssumption, TypesOK, ShapesOK, NEW r \in Req, Mirroring(r), HeadsOK(tasks[r]), WriteParent(r)
    PROVE  Mirroring(r)'
<1> DEFINE s == tasks[r]
           x == s[1]
           p == x.chan
<1>1. /\ Live' = Live /\ x.kind = "head" /\ x \in Heads
      /\ \A c \in Live : IF c = p
           THEN docs'[c].group = x.group /\ docs'[c].role = "parent"
                  /\ Linked(docs'[c], docs[c].tvg, docs[c].epg, x.state)
           ELSE docs'[c] = docs[c]
    BY HeadEffect
<1>2. tasks[r] # <<>> /\ Statement(r) /\ Proceeds(r) /\ Len(s) \in Nat \ {0} /\ 1 \in 1..Len(s)
    BY HeadEffect, StatementStep, StepFacts DEF Statement
<1>3. \A k : ~Leaves(s, 1, k)
    BY <1>2 DEF Leaves
<1>4. \A c \in Parents(x.group) : c = p
    BY <1>1, <1>2, <1>3 DEF HeadsOK
<1>5. /\ p \in Live
      /\ \A c \in Children(x.group) : c = p \/ Linked(docs[c], docs[p].tvg, docs[p].epg, x.state)
    BY <1>1, <1>2, <1>3 DEF Mirroring, MirrorsOK
<1>6. ASSUME NEW g \in GroupId
      PROVE  Matching(g)'
  <2>1. CASE g = x.group
    <3>1. ASSUME NEW q \in Parents(g)', NEW c \in Children(g)'
          PROVE  Linked(docs'[c], docs'[q].tvg, docs'[q].epg, docs'[q].state)
      <4>1. q = p
        BY <1>1, <1>4, <2>1, <3>1 DEF Parents, Members
      <4>2. c # p /\ docs'[c] = docs[c] /\ c \in Children(x.group)
        BY <1>1, <2>1, <3>1 DEF Children, Members
      <4>3. Linked(docs'[p], docs[p].tvg, docs[p].epg, x.state)
        BY <1>1, <1>5
      <4> QED BY <1>5, <4>1, <4>2, <4>3 DEF Linked
    <3> QED BY <3>1 DEF Matching, Linked
  <2>2. CASE g # x.group
    <3>1. \A c \in Members(g)' : c # p /\ c \in Live /\ docs'[c] = docs[c]
      BY <1>1, <2>2 DEF Members
    <3>2. Parents(g)' \subseteq Parents(g) /\ Children(g)' \subseteq Children(g)
      BY <3>1 DEF Parents, Children, Members
    <3>3. \A c \in Parents(g)' \cup Children(g)' : docs'[c] = docs[c]
      BY <3>1 DEF Parents, Children
    <3>4. Matching(g)
      <4>1. SUFFICES ASSUME NEW i \in 1..Len(s), s[i].kind \in {"head", "mirror"}, s[i].group = g
                     PROVE  FALSE
        BY DEF Mirroring, MirrorAhead
      <4>2. i \in 2..Len(s)
        BY <1>2, <2>2, <4>1
      <4> QED BY <1>1, <1>2, <4>1, <4>2, RestPlain
    <3> QED BY <3>2, <3>3, <3>4 DEF Matching, Linked
  <2> QED BY <2>1, <2>2
<1>7. MirrorsOK(tasks[r])'
    BY <1>1, <1>2, ClearEffect, PutEffect, LinkEffect, NoMirrorsLeft
<1>8. GroupedTouched'
  <2>1. x.state # Null
    BY <1>1 DEF Heads
  <2>2. ~Fillable(docs'[p])
    BY <1>1, <1>5, <2>1 DEF Fillable, Linked
  <2> QED BY <1>1, <2>2 DEF Mirroring, GroupedTouched
<1> QED BY <1>6, <1>7, <1>8 DEF Mirroring

(* A parent's own link is passed on to its children. *)
LEMMA LinkMirrors ==
    ASSUME GroupsAssumption, TypesOK, ShapesOK, NEW r \in Req, Mirroring(r), OneHead,
           \A g \in GroupId : Matching(g), WriteLink(r)
    PROVE  Mirroring(r)'
<1> DEFINE s == tasks[r]
           x == s[1]
           c0 == x.chan
           m == [kind |-> "mirror", group |-> docs[c0].group, link |-> x.link]
<1>1. /\ Live' = Live /\ x.kind = "link" /\ x \in Relinks /\ tasks[r] # <<>>
      /\ IF c0 \in Live /\ docs[c0].role = "parent" THEN m \in Mirrors /\ Then(r, <<m>>) ELSE Done(r)
      /\ \A c \in Live : /\ docs'[c].group = docs[c].group /\ docs'[c].role = docs[c].role
                         /\ IF c = c0 THEN Linked(docs'[c], x.link.tvg, x.link.epg, x.link.state)
                                      ELSE docs'[c] = docs[c]
    BY LinkEffect
<1>2. Statement(r) /\ Proceeds(r) /\ Len(s) \in Nat \ {0} /\ 1 \in 1..Len(s) /\ TypeOK
    BY <1>1, StatementStep, StepFacts DEF Statement, TypesOK
<1>3. Len(s) = 1
    BY <1>1, <1>2 DEF ShapesOK, Shaped
<1>4. c0 \in Live => docs[c0].role # "child" /\ (docs[c0].role = "parent" => x.link.state # Null)
    BY <1>1, <1>2 DEF Mirroring, MirrorsOK
<1>5. CASE c0 \in Live /\ docs[c0].role = "parent"
  <2>1. m \in Mirrors /\ Then(r, <<m>>) /\ m.kind = "mirror" /\ m.link = x.link
        /\ m.group = docs[c0].group
    BY <1>1, <1>5
  <2>2. m \in Statements
    BY <2>1, IsStatement
  <2> HIDE DEF m
  <2>3. tasks'[r] = <<m>> \o Tail(s)
    BY <1>1, <2>1, <2>2, StepFacts
  <2>4. Len(tasks'[r]) = 1 /\ tasks'[r][1] = m
    BY <1>1, <1>2, <1>3, <2>2, <2>3, RestPlain
  <2>5. m.group \in GroupId /\ c0 \in Parents(m.group)
    <3>1. docs[c0].group # Null
      BY <1>2, <1>5 DEF TypeOK, GroupsAssumption
    <3>2. docs[c0] \in Doc
      BY <1>2, <1>5, DocFacts
    <3> QED BY <1>5, <2>1, <3>1, <3>2 DEF Doc, Parents, Members
  <2>6. \A g : Parents(g)' = Parents(g) /\ Children(g)' = Children(g)
    BY <1>1, GroupsKept
  <2>7. \A g : g = m.group =>
          \A q \in Parents(g)' : Linked(docs'[q], x.link.tvg, x.link.epg, x.link.state)
    <3>1. \A q \in Parents(m.group) : q = c0
      BY <2>5 DEF OneHead
    <3> QED BY <1>1, <1>5, <2>6, <3>1
  <2>8. MirrorsOK(tasks[r])'
    <3>1. /\ \A i \in 1..Len(tasks'[r]) : i = 1 /\ tasks'[r][i] = m
          /\ x.link.state # Null
      BY <1>4, <1>5, <2>4
    <3> QED BY <2>1, <2>7, <3>1 DEF MirrorsOK, Linked
  <2>9. ASSUME NEW g \in GroupId
        PROVE  Matching(g)' \/ MirrorAhead(tasks'[r], g)
    <3>1. CASE g = m.group
      BY <2>1, <2>4, <3>1 DEF MirrorAhead
    <3>2. CASE g # m.group
      <4>1. \A c \in Parents(g) \cup Children(g) : docs'[c] = docs[c]
        BY <1>1, <2>1, <3>2 DEF Parents, Children, Members
      <4> QED BY <2>6, <4>1 DEF Matching, Linked
    <3> QED BY <3>1, <3>2
  <2>10. GroupedTouched'
    <3>1. ~Fillable(docs'[c0])
      BY <1>1, <1>4, <1>5 DEF Fillable, Linked
    <3> QED BY <1>1, <3>1 DEF Mirroring, GroupedTouched
  <2> QED BY <2>8, <2>9, <2>10 DEF Mirroring, MirrorAhead
<1>6. CASE ~(c0 \in Live /\ docs[c0].role = "parent")
  <2>1. c0 \in Live => docs[c0].group = Null /\ docs[c0].role = Null
    <3>1. c0 \in Live => docs[c0] \in Doc
      BY <1>2, DocFacts
    <3> QED BY <1>2, <1>4, <1>6, <3>1 DEF TypeOK, Doc
  <2>2. Undisturbed
    BY <1>1, <2>1 DEF Undisturbed, Linked
  <2>3. tasks'[r] = Tail(s)
    BY <1>1, <1>6, StepFacts
  <2>4. Len(tasks'[r]) = 0
    BY <1>1, <1>2, <1>3, <2>3, RestPlain
  <2>5. MirrorsOK(tasks[r])'
    BY <2>4 DEF MirrorsOK
  <2> QED BY <2>2, <2>5, LinksKept DEF Mirroring
<1> QED BY <1>5, <1>6

LEMMA MirrorMirrors ==
    ASSUME GroupsAssumption, TypesOK, ShapesOK, NEW r \in Req, Mirroring(r), WriteMirror(r)
    PROVE  Mirroring(r)'
<1> DEFINE s == tasks[r]
           x == s[1]
<1>1. /\ Live' = Live /\ x.kind = "mirror" /\ x \in Mirrors /\ tasks[r] # <<>>
      /\ \A c \in Live : /\ docs'[c].group = docs[c].group /\ docs'[c].role = docs[c].role
                         /\ IF c \in Children(x.group)
                            THEN Linked(docs'[c], x.link.tvg, x.link.epg, Inherited(x.link.state))
                            ELSE docs'[c] = docs[c]
    BY MirrorEffect
<1>2. Statement(r) /\ Len(s) \in Nat \ {0} /\ 1 \in 1..Len(s)
    BY <1>1, StepFacts DEF Statement
<1>3. Len(s) = 1
    BY <1>1, <1>2 DEF ShapesOK, Shaped
<1>4. /\ x.link.state # Null
      /\ \A p \in Parents(x.group) : Linked(docs[p], x.link.tvg, x.link.epg, x.link.state)
    BY <1>1, <1>2 DEF Mirroring, MirrorsOK
<1>5. Inherited(x.link.state) = x.link.state
    BY <1>4 DEF Inherited
<1>6. \A g : Parents(g)' = Parents(g) /\ Children(g)' = Children(g)
    BY <1>1, GroupsKept
<1>7. ASSUME NEW g \in GroupId
      PROVE  Matching(g)'
  <2>1. \A p \in Parents(g) : p \in Live /\ docs'[p] = docs[p]
    BY <1>1 DEF Parents, Children, Members
  <2>2. CASE g = x.group
    <3>1. \A c \in Children(g) : Linked(docs'[c], x.link.tvg, x.link.epg, x.link.state)
      BY <1>1, <1>5, <2>2 DEF Children, Members
    <3> QED BY <1>4, <1>6, <2>1, <2>2, <3>1 DEF Matching, Linked
  <2>3. CASE g # x.group
    <3>1. \A c \in Children(g) : docs'[c] = docs[c]
      BY <1>1, <2>3 DEF Children, Members
    <3>2. Matching(g)
      BY <1>3, <2>3 DEF Mirroring, MirrorAhead
    <3> QED BY <1>6, <2>1, <3>1, <3>2 DEF Matching, Linked
  <2> QED BY <2>2, <2>3
<1>8. MirrorsOK(tasks[r])'
    BY <1>1, <1>2, ClearEffect, PutEffect, LinkEffect, NoMirrorsLeft
<1>9. GroupedTouched'
  <2>1. \A c \in Children(x.group) : ~Fillable(docs'[c])
    BY <1>1, <1>4, <1>5 DEF Fillable, Linked, Children, Members
  <2> QED BY <1>1, <2>1 DEF Mirroring, GroupedTouched
<1> QED BY <1>7, <1>8, <1>9 DEF Mirroring

(* A guide that goes away is taken from a parent and its children alike. *)
LEMMA UnlinkMirrors ==
    ASSUME GroupsAssumption, TypesOK, ShapesOK, NEW r \in Req, Mirroring(r),
           \A g \in GroupId : Matching(g), Unlink(r)
    PROVE  Mirroring(r)'
<1>1. /\ Live' = Live /\ tasks[r] # <<>> /\ tasks[r][1].kind = "unlink"
      /\ \A c \in Live : /\ docs'[c].group = docs[c].group /\ docs'[c].role = docs[c].role
                         /\ IF docs[c].epg = "guide"
                            THEN Linked(docs'[c], Null, Null, "unmatched") ELSE docs'[c] = docs[c]
    BY UnlinkEffect
<1>2. \A g : Parents(g)' = Parents(g) /\ Children(g)' = Children(g)
    BY <1>1, GroupsKept
<1>3. ASSUME NEW g \in GroupId
      PROVE  Matching(g)'
  <2>1. ASSUME NEW p \in Parents(g), NEW c \in Children(g)
        PROVE  Linked(docs'[c], docs'[p].tvg, docs'[p].epg, docs'[p].state)
    <3>1. p \in Live /\ c \in Live /\ Linked(docs[c], docs[p].tvg, docs[p].epg, docs[p].state)
      BY DEF Matching, Parents, Children, Members
    <3> QED BY <1>1, <3>1 DEF Linked
  <2> QED BY <1>2, <2>1 DEF Matching, Linked
<1>4. MirrorsOK(tasks[r])'
    BY <1>1, ClearEffect, PutEffect, LinkEffect, NoMirrorsLeft DEF Statement
<1>5. GroupedTouched'
  <2>1. Null # "unmatched"
    BY DEF GroupsAssumption
  <2> QED BY <1>1, <2>1 DEF Mirroring, GroupedTouched, Fillable, Linked
<1> QED BY <1>3, <1>4, <1>5 DEF Mirroring

LEMMA StatementMirrors ==
    ASSUME GroupsAssumption, TypesOK, ShapesOK, HeadsInv, MirrorInv, NEW r \in Req, Statement(r), mess' = mess
    PROVE  MirrorInv'
<1> SUFFICES ASSUME mess' = {}
             PROVE  /\ GroupedTouched' /\ \A q \in Req : MirrorsOK(tasks[q])'
                    /\ \A g \in GroupId : Matching(g)' \/ \E q \in Req : MirrorAhead(tasks'[q], g)
    BY DEF MirrorInv, MirrorAhead
<1> DEFINE s == tasks[r]
<1>1. tasks[r] # <<>> /\ Proceeds(r)
    BY StatementStep
<1>2. Alone /\ OneHead /\ HeadsOK(s)
    BY DEF HeadsInv, OneAtATime
<1>3. \A q \in Req \ {r} : tasks[q] = <<>> /\ tasks'[q] = <<>>
    BY <1>1, <1>2, AloneKept
<1>4. Mirroring(r)
    BY <1>3, EmptyFacts DEF Mirroring, MirrorInv, MirrorAhead
<1>5. s[1].kind \notin {"clear", "put", "head", "mirror"} => \A g \in GroupId : Matching(g)
    BY <1>1, <1>2, NothingAhead
<1>6. ASSUME Undisturbed, s[1].kind \notin {"clear", "put", "head", "mirror", "link"}
      PROVE  Mirroring(r)'
  <2>1. ~Clear(r) /\ ~WriteChild(r) /\ ~WriteLink(r)
    BY <1>6, ClearEffect, PutEffect, LinkEffect
  <2> QED BY <1>4, <1>5, <1>6, <2>1, NoMirrorsLeft, LinksKept DEF Mirroring
<1>7. Mirroring(r)'
  <2>1. CASE Clear(r)
    BY <1>4, <2>1, ClearMirrors
  <2>2. CASE WriteChild(r)
    BY <1>4, <2>2, PutMirrors
  <2>3. CASE WriteParent(r)
    BY <1>2, <1>4, <2>3, HeadMirrors
  <2>4. CASE WriteOrder(r)
    <3>1. Undisturbed /\ s[1].kind = "order"
      BY <2>4, OrderEffect DEF Undisturbed
    <3> QED BY <1>6, <3>1
  <2>5. CASE Tally(r)
    <3>1. Undisturbed /\ s[1].kind = "tally"
      BY <2>5, TallyEffect DEF Undisturbed, Live, Linked
    <3> QED BY <1>6, <3>1
  <2>6. CASE Disband(r)
    <3>1. Undisturbed /\ s[1].kind = "disband"
      BY <2>6, DisbandEffect DEF Undisturbed, Linked
    <3> QED BY <1>6, <3>1
  <2>7. CASE WriteLink(r)
    <3>1. s[1].kind = "link"
      BY <2>7, LinkEffect
    <3> QED BY <1>2, <1>4, <1>5, <2>7, <3>1, LinkMirrors
  <2>8. CASE WriteMirror(r)
    BY <1>4, <2>8, MirrorMirrors
  <2>9. CASE Drop(r)
    <3>1. Undisturbed /\ s[1].kind = "drop"
      BY <2>9, DropEffect DEF Undisturbed, Linked
    <3> QED BY <1>6, <3>1
  <2>10. CASE Bury(r)
    <3>1. Undisturbed /\ s[1].kind = "bury"
      BY <2>10, BuryEffect DEF Undisturbed, Live, Linked
    <3> QED BY <1>6, <3>1
  <2>11. CASE Exhume(r)
    <3>1. Undisturbed /\ s[1].kind = "exhume"
      BY <2>11, ExhumeEffect DEF Undisturbed, Live, Linked
    <3> QED BY <1>6, <3>1
  <2>12. CASE ReadTombstones(r)
    <3>1. Undisturbed /\ s[1].kind = "tombstones"
      BY <2>12, LookupEffect DEF Undisturbed, Live, Linked
    <3> QED BY <1>6, <3>1
  <2>13. CASE Upsert(r)
    <3>1. Undisturbed /\ s[1].kind = "upsert"
      BY <2>13, UpsertEffect DEF Undisturbed, Linked
    <3> QED BY <1>6, <3>1
  <2>14. CASE Fill(r)
    <3>1. /\ Live' = Live /\ s[1].kind = "fill"
          /\ \A c \in Live : /\ docs'[c].group = docs[c].group /\ docs'[c].role = docs[c].role
                             /\ ~Fillable(docs[c]) => docs'[c] = docs[c]
      BY <2>14, FillEffect
    <3>2. \A c \in Live : docs[c].role # Null => ~Fillable(docs[c])
      BY <1>4 DEF Mirroring, GroupedTouched
    <3>3. \A c \in Live : docs[c].group = Null <=> docs[c].role = Null
      BY DEF TypesOK, TypeOK
    <3>4. Undisturbed
      BY <3>1, <3>2, <3>3 DEF Undisturbed, Linked
    <3> QED BY <1>6, <3>1, <3>4
  <2>15. CASE Unlink(r)
    <3>1. s[1].kind = "unlink"
      BY <2>15, UnlinkEffect
    <3> QED BY <1>4, <1>5, <2>15, <3>1, UnlinkMirrors
  <2> QED BY <2>1, <2>2, <2>3, <2>4, <2>5, <2>6, <2>7, <2>8, <2>9, <2>10, <2>11, <2>12, <2>13, <2>14, <2>15
          DEF Statement
<1>8. \A q \in Req \ {r} : MirrorsOK(tasks[q])'
    BY <1>3, EmptyFacts DEF MirrorsOK
<1> QED BY <1>7, <1>8 DEF Mirroring, MirrorAhead

-----------------------------------------------------------------------------
(* A request begins. *)
Fits(w) ==
    /\ w \in Seq(Statements) /\ Shaped(w)
    /\ HeadsOK(w) /\ GravesOK(w) /\ MirrorsOK(w)

LEMMA BeginKeeps ==
    ASSUME GroupsAssumption, IInv, NEW r \in Req, tasks[r] = <<>>, requests < MaxRequests,
           NEW w, Fits(w), Begin(r, w)
    PROVE  IInv'
<1>0. /\ docs' = docs /\ buried' = buried /\ unhealed' = unhealed /\ touched' = touched
      /\ requests' = requests + 1 /\ tasks' = [tasks EXCEPT ![r] = w]
      /\ mess' = IF \E q \in Req : tasks[q] # <<>> THEN mess \cup {"overlap"} ELSE mess
    BY DEF Begin
<1>1. /\ tasks \in [Req -> Seq(Statements)] /\ TypeOK
      /\ w \in Seq(Statements)
    BY DEF IInv, TypesOK, Fits
<1>2. /\ tasks' \in [Req -> Seq(Statements)] /\ tasks'[r] = w
      /\ \A q \in Req \ {r} : tasks'[q] = tasks[q]
    BY <1>0, <1>1
<1>3. Live' = Live
    BY <1>0 DEF Live
<1>4. \A g : Members(g)' = Members(g) /\ Parents(g)' = Parents(g) /\ Children(g)' = Children(g)
             /\ (WellFormed(g)' <=> WellFormed(g))
    BY <1>0, <1>3, GroupsKept
<1>5. TypesOK'
  <2>1. requests' \in 0..MaxRequests
    BY <1>0, <1>1 DEF TypeOK, GroupsAssumption
  <2>2. mess' \subseteq {"overlap", "crash"}
    BY <1>0, <1>1 DEF TypeOK
  <2> QED BY <1>0, <1>1, <1>2, <1>3, <2>1, <2>2 DEF TypesOK, TypeOK
<1>6. ShapesOK'
  <2>1. \A q \in Req : Shaped(tasks'[q])
    BY <1>2 DEF IInv, ShapesOK, Fits
  <2> QED BY <2>1 DEF ShapesOK, Shaped, Breaks
<1>7. Healing'
  <2>1. \A q \in Req : \A i \in 1..Len(tasks[q]) : q # r
    BY EmptyFacts
  <2>2. \A q \in Req : \A i \in 1..Len(tasks[q]) : tasks'[q] = tasks[q]
    BY <1>2, <2>1
  <2>3. ASSUME ~unhealed, NEW g \in GroupId, ~WellFormed(g)
        PROVE  \E q \in Req : \E i \in 1..Len(tasks'[q]) : Heals(tasks'[q][i], g)
    <3>1. PICK q \in Req : \E i \in 1..Len(tasks[q]) : Heals(tasks[q][i], g)
      BY <2>3 DEF IInv, Healing
    <3> QED BY <2>2, <3>1
  <2> QED BY <1>0, <1>4, <2>3 DEF Healing, Heals
<1>8. ASSUME OneAtATime'
      PROVE  OneAtATime /\ \A q \in Req : tasks[q] = <<>>
    BY <1>0, <1>8 DEF OneAtATime
<1>9. HeadsInv'
  <2> SUFFICES ASSUME OneAtATime'
               PROVE  Alone' /\ OneHead' /\ \A q \in Req : HeadsOK(tasks[q])'
    BY DEF HeadsInv
  <2>1. OneAtATime /\ \A q \in Req : tasks[q] = <<>>
    BY <1>8
  <2>2. Alone'
    BY <1>2, <2>1 DEF Alone
  <2>3. OneHead'
    BY <1>4, <2>1 DEF IInv, HeadsInv, OneHead
  <2>4. \A q \in Req : HeadsOK(tasks[q])'
    <3>1. HeadsOK(tasks'[r])
      BY <1>2 DEF Fits
    <3>2. HeadsOK(tasks[r])'
      BY <1>4, <3>1 DEF HeadsOK, Leaves
    <3>3. \A q \in Req \ {r} : HeadsOK(tasks[q])'
      BY <1>2, <2>1, EmptyFacts DEF HeadsOK, Leaves
    <3> QED BY <3>2, <3>3
  <2> QED BY <2>2, <2>3, <2>4
<1>10. GravesInv'
  <2> SUFFICES ASSUME OneAtATime'
               PROVE  buried' \cap Live' = {} /\ \A q \in Req : GravesOK(tasks[q])'
    BY DEF GravesInv
  <2>1. OneAtATime /\ \A q \in Req : tasks[q] = <<>>
    BY <1>8
  <2>2. buried' \cap Live' = {}
    BY <1>0, <1>3, <2>1 DEF IInv, GravesInv
  <2>3. GravesOK(tasks[r])'
    BY <1>0, <1>2, <1>3 DEF GravesOK, Fits
  <2>4. \A q \in Req \ {r} : GravesOK(tasks[q])'
    BY <1>2, <2>1, EmptyFacts DEF GravesOK
  <2> QED BY <2>2, <2>3, <2>4
<1>11. MirrorInv'
  <2> SUFFICES ASSUME mess' = {}
               PROVE  /\ GroupedTouched' /\ \A q \in Req : MirrorsOK(tasks[q])'
                      /\ \A g \in GroupId : Matching(g)'
    BY DEF MirrorInv, MirrorAhead
  <2>1. mess = {} /\ \A q \in Req : tasks[q] = <<>>
    BY <1>0
  <2>2. \A g \in GroupId : Matching(g)
    BY <2>1, EmptyFacts DEF IInv, MirrorInv, MirrorAhead
  <2>3. \A g \in GroupId : Matching(g)'
    BY <1>0, <1>4, <2>2 DEF Matching, Linked
  <2>4. GroupedTouched'
    BY <1>0, <1>3, <2>1 DEF IInv, MirrorInv, GroupedTouched, Fillable
  <2>5. MirrorsOK(tasks[r])'
    <3>1. MirrorsOK(tasks'[r])
      BY <1>2 DEF Fits
    <3> QED BY <1>0, <1>3, <1>4, <3>1 DEF MirrorsOK, Leaves, Linked
  <2>6. \A q \in Req \ {r} : MirrorsOK(tasks[q])'
    BY <1>2, <2>1, EmptyFacts DEF MirrorsOK
  <2> QED BY <2>3, <2>4, <2>5, <2>6
<1> QED BY <1>5, <1>6, <1>7, <1>9, <1>10, <1>11 DEF IInv

LEMMA ListFacts ==
    ASSUME GroupsAssumption, NEW children \in Lists
    PROVE  \E n \in Nat \ {0} : children \in [1..n -> Chan] /\ DOMAIN children = 1..n
<1>1. Cardinality(Chan) \in Nat
    BY FS_CardinalityType DEF GroupsAssumption
<1>2. PICK n \in 1..(Cardinality(Chan) - 1) : children \in [1..n -> Chan]
    BY DEF Lists
<1> QED BY <1>1, <1>2

(* A save: those who left, the children, the parent, and a reconcile. *)
LEMMA SaveFits ==
    ASSUME GroupsAssumption, TypeOK, NEW p \in Chan, NEW children \in Lists, NEW g \in GroupId,
           p \notin Range(children), Range(children) \cup {p} \subseteq Live
    PROVE  Fits(GroupWrites(p, children, g) \o Reconcile)
<1> DEFINE w == GroupWrites(p, children, g) \o Reconcile
           c == [kind |-> "clear", group |-> g, keep |-> Range(children) \cup {p}]
<1>1. PICK n \in Nat \ {0} : children \in [1..n -> Chan] /\ DOMAIN children = 1..n
    BY ListFacts
<1>2. /\ \A i \in 1..n : children[i] \in Range(children) /\ children[i] # p /\ children[i] \in Live
      /\ \A d \in Range(children) : \E i \in 1..n : d = children[i]
      /\ p \in Live
    BY <1>1 DEF Range
<1>3. \A d \in Live : d \in Chan /\ docs[d] \in Doc
    BY DocFacts
<1>4. \A d \in Live : Inherited(docs[d].state) \in State \ {Null}
    BY <1>3 DEF Inherited, Doc, State, GroupsAssumption
<1>5. c \in Statements
  <2>1. c \in Clears
    BY <1>2, <1>3 DEF Clears
  <2> QED BY <2>1, IsStatement
<1>6. \A i \in 1..n : PutChild(p, children[i], g, i) \in Puts
    BY <1>2, <1>3, <1>4 DEF PutChild, Puts, Doc
<1>7. PutParent(p, g) \in Heads
    BY <1>2, <1>3, <1>4 DEF PutParent, Heads, Doc
<1>8. /\ \A i \in 1..n : PutChild(p, children[i], g, i) \in Statements
      /\ PutParent(p, g) \in Statements
    BY <1>6, <1>7, IsStatement
<1>9. /\ w \in Seq(Statements) /\ Len(w) = n + 3 /\ w[1] = c
      /\ \A i \in 1..n : w[i + 1] = PutChild(p, children[i], g, i)
      /\ w[n + 2] = PutParent(p, g) /\ w[n + 3] = [kind |-> "tally"]
  <2>1. Savable(p, n, children, g)
    BY <1>1, <1>5, <1>8 DEF Savable
  <2> HIDE DEF w
  <2>2. Saves(w, p, n, children, g)
    BY <2>1, SaveWrites DEF w
  <2> QED BY <2>2 DEF Saves
<1> HIDE DEF w
<1>10. \A i \in 2..(n + 1) : i - 1 \in 1..n /\ w[i] = PutChild(p, children[i - 1], g, i - 1)
  <2> TAKE i \in 2..(n + 1)
  <2> DEFINE j == i - 1
  <2>1. j \in 1..n /\ j + 1 = i
    OBVIOUS
  <2> HIDE DEF j
  <2>2. w[j + 1] = PutChild(p, children[j], g, j)
    BY <1>9, <2>1
  <2> QED BY <2>1, <2>2 DEF j
<1>11. /\ w[1].kind = "clear" /\ w[1].group = g /\ w[1].keep = Range(children) \cup {p}
       /\ \A i \in 2..(n + 1) : /\ w[i].kind = "put" /\ w[i].chan = children[i - 1] /\ w[i].group = g
                                /\ w[i].tvg = docs[p].tvg /\ w[i].epg = docs[p].epg
                                /\ w[i].state = Inherited(docs[p].state)
       /\ w[n + 2].kind = "head" /\ w[n + 2].chan = p /\ w[n + 2].group = g
       /\ w[n + 2].state = Inherited(docs[p].state)
       /\ w[n + 3].kind = "tally"
  <2>1. w[1].kind = "clear" /\ w[1].group = g /\ w[1].keep = Range(children) \cup {p}
    BY <1>9
  <2>2. ASSUME NEW i \in 2..(n + 1)
        PROVE  /\ w[i].kind = "put" /\ w[i].chan = children[i - 1] /\ w[i].group = g
               /\ w[i].tvg = docs[p].tvg /\ w[i].epg = docs[p].epg
               /\ w[i].state = Inherited(docs[p].state)
    <3>1. w[i] = PutChild(p, children[i - 1], g, i - 1)
      BY <1>10
    <3>2. \A d, j : LET x == PutChild(p, d, g, j) IN
             /\ x.kind = "put" /\ x.chan = d /\ x.group = g /\ x.tvg = docs[p].tvg
             /\ x.epg = docs[p].epg /\ x.state = Inherited(docs[p].state)
      BY DEF PutChild
    <3> QED BY <3>1, <3>2
  <2>3. /\ w[n + 2].kind = "head" /\ w[n + 2].chan = p /\ w[n + 2].group = g
        /\ w[n + 2].state = Inherited(docs[p].state)
    BY <1>9 DEF PutParent
  <2>4. w[n + 3].kind = "tally"
    BY <1>9
  <2> QED BY <2>1, <2>2, <2>3, <2>4
<1>12. \A i \in 1..Len(w) : i = 1 \/ i \in 2..(n + 1) \/ i = n + 2 \/ i = n + 3
    BY <1>9
<1>13. Shaped(w)
  <2>1. ASSUME NEW i \in 1..Len(w), Breaks(w[i])
        PROVE  \E k \in i+1..Len(w) : w[k].kind = "tally"
    <3>1. i # n + 3
      BY <1>11, <2>1 DEF Breaks
    <3>2. n + 3 \in i+1..Len(w)
      BY <1>9, <3>1
    <3> QED BY <1>11, <3>2
  <2>2. ASSUME NEW k \in 1..Len(w), NEW i \in 1..Len(w), w[k].kind \in {"put", "head"}, i < k
        PROVE  w[i].kind \in {"clear", "put"}
    <3>1. k # n + 3
      BY <1>11, <2>2
    <3>2. i = 1 \/ i \in 2..(n + 1)
      BY <1>9, <2>2, <3>1
    <3> QED BY <1>11, <3>2
  <2>3. \A i \in 1..Len(w) : w[i].kind \notin {"link", "mirror", "upsert"}
    BY <1>11, <1>12
  <2> QED BY <2>1, <2>2, <2>3 DEF Shaped
<1>14. \A k \in 1..Len(w) : w[k].kind = "head" => k = n + 2
    BY <1>11, <1>12
<1>15. 1 \in 1..Len(w) /\ 1 < n + 2
    BY <1>9
<1>16. ASSUME NEW d \in Live, d # p
       PROVE  Leaves(w, n + 2, d)
  <2>1. CASE d \notin Range(children)
    BY <1>11, <1>15, <1>16, <2>1 DEF Leaves
  <2>2. CASE d \in Range(children)
    <3>1. PICK i \in 1..n : d = children[i]
      BY <1>2, <2>2
    <3> DEFINE m == i + 1
    <3>2. m \in 1..Len(w) /\ m < n + 2 /\ m \in 2..(n + 1) /\ m - 1 = i
      BY <1>9
    <3> HIDE DEF m
    <3>3. w[m].kind = "put" /\ w[m].chan = d
      BY <1>11, <3>1, <3>2
    <3> QED BY <3>2, <3>3 DEF Leaves
  <2> QED BY <2>1, <2>2
<1>17. HeadsOK(w)
    BY <1>11, <1>14, <1>16 DEF HeadsOK, Parents, Members
<1>18. GravesOK(w)
  <2>1. \A i \in 1..Len(w) : w[i].kind \notin {"upsert", "bury"}
    BY <1>11, <1>12
  <2> QED BY <2>1 DEF GravesOK
<1>19. MirrorsOK(w)
  <2>1. ASSUME NEW i \in 1..Len(w), i < n + 2
        PROVE  /\ w[i].kind = "put" => /\ w[i].chan # p /\ w[i].group = g
                                       /\ w[i].tvg = docs[p].tvg /\ w[i].epg = docs[p].epg
                                       /\ w[i].state = w[n + 2].state
               /\ w[i].kind = "clear" => p \in w[i].keep
    <3>1. i = 1 \/ i \in 2..(n + 1)
      BY <1>9, <2>1
    <3>2. CASE i = 1
      BY <1>11, <3>2
    <3>3. CASE i \in 2..(n + 1)
      BY <1>2, <1>10, <1>11, <3>3
    <3> QED BY <3>1, <3>2, <3>3
  <2>2. \A d \in Children(g) : d = p \/ Leaves(w, n + 2, d)
    BY <1>16 DEF Children, Members
  <2>3. ASSUME NEW k \in 1..Len(w), w[k].kind = "put"
        PROVE  \E i \in 1..Len(w) : k < i /\ w[i].kind = "head"
    <3>1. k \in 2..(n + 1)
      BY <1>11, <1>12, <2>3
    <3>2. n + 2 \in 1..Len(w) /\ k < n + 2
      BY <1>9, <3>1
    <3> QED BY <1>11, <3>2
  <2>4. \A i \in 1..Len(w) : w[i].kind \notin {"mirror", "link"}
    BY <1>11, <1>12
  <2> QED BY <1>2, <1>11, <1>14, <2>1, <2>2, <2>3, <2>4 DEF MirrorsOK
<1> QED BY <1>9, <1>13, <1>17, <1>18, <1>19 DEF Fits, w

(* Requests that write no group, hide no channel and pass on no link. *)
LEMMA PlainFits ==
    ASSUME NEW w \in Seq(Statements), Shaped(w),
           \A i \in 1..Len(w) : w[i].kind \notin {"put", "head", "clear", "mirror", "link", "upsert", "bury"}
    PROVE  Fits(w)
BY DEF Fits, HeadsOK, GravesOK, MirrorsOK

LEMMA ReorderFits ==
    ASSUME GroupsAssumption, NEW children \in Lists, NEW g \in GroupId
    PROVE  Fits([i \in DOMAIN children |-> [kind |-> "order", chan |-> children[i], group |-> g, order |-> i]])
<1> DEFINE w == [i \in DOMAIN children |-> [kind |-> "order", chan |-> children[i], group |-> g, order |-> i]]
<1>1. PICK n \in Nat \ {0} : children \in [1..n -> Chan] /\ DOMAIN children = 1..n
    BY ListFacts
<1>2. ASSUME NEW i \in 1..n
      PROVE  [kind |-> "order", chan |-> children[i], group |-> g, order |-> i] \in Statements
  <2>1. [kind |-> "order", chan |-> children[i], group |-> g, order |-> i] \in Places
    BY <1>1 DEF Places
  <2> QED BY <2>1, IsStatement
<1>3. w \in Seq(Statements) /\ Len(w) = n /\ \A i \in 1..n : w[i].kind = "order"
    BY <1>1, <1>2
<1> HIDE DEF w
<1>4. Shaped(w)
    BY <1>3 DEF Shaped, Breaks
<1> QED BY <1>3, <1>4, PlainFits DEF w

LEMMA OneFits ==
    ASSUME NEW x \in Statements,
           x.kind \notin {"put", "head", "clear", "mirror", "link", "upsert", "bury", "drop"}
    PROVE  Fits(<<x>>)
<1> DEFINE w == <<x>>
<1>1. w \in Seq(Statements) /\ Len(w) = 1 /\ w[1] = x
    OBVIOUS
<1> HIDE DEF w
<1>2. Shaped(w)
    BY <1>1 DEF Shaped, Breaks
<1>3. Fits(w)
    BY <1>1, <1>2, PlainFits
<1> QED BY <1>3 DEF w

LEMMA SyncFits ==
    ASSUME NEW listed \in SUBSET Chan, NEW live \in BOOLEAN
    PROVE  Fits(SyncStatements(listed, live))
<1> DEFINE u == SyncStatements(listed, TRUE)
           v == SyncStatements(listed, FALSE)
<1>1. /\ u \in Seq(Statements) /\ Len(u) = 4
      /\ u[1].kind = "tombstones" /\ u[2].kind = "drop" /\ u[3].kind = "tally" /\ u[4].kind = "fill"
      /\ v \in Seq(Statements) /\ Len(v) = 2 /\ v[1].kind = "tombstones" /\ v[2].kind = "fill"
  <2> HIDE DEF u, v
  <2>1. /\ u \in Seq(Statements) /\ Len(u) = 4 /\ u[1] = [kind |-> "tombstones", listed |-> listed]
        /\ u[2] = [kind |-> "drop", chans |-> Chan \ listed] /\ u[3] = [kind |-> "tally"]
        /\ u[4] = [kind |-> "fill", chans |-> listed]
        /\ v \in Seq(Statements) /\ Len(v) = 2 /\ v[1] = [kind |-> "tombstones", listed |-> listed]
        /\ v[2] = [kind |-> "fill", chans |-> listed]
    BY SyncWrites, Zenon DEF u, v
  <2> QED BY <2>1
<1> HIDE DEF u, v
<1>2. \A i \in 1..4 : i = 1 \/ i = 2 \/ i = 3 \/ i = 4
    OBVIOUS
<1>3. \A i \in 1..2 : i = 1 \/ i = 2
    OBVIOUS
<1>4. Shaped(u)
  <2>1. \A i \in 1..4 : Breaks(u[i]) => i = 2
    BY <1>1, <1>2 DEF Breaks
  <2>2. \A i \in 1..4 : Breaks(u[i]) => \E k \in i+1..4 : u[k].kind = "tally"
    <3>1. 3 \in 2+1..4
      OBVIOUS
    <3> QED BY <1>1, <2>1, <3>1
  <2>3. \A i \in 1..4 : u[i].kind \notin {"put", "head", "link", "mirror", "upsert"}
    BY <1>1, <1>2
  <2> QED BY <1>1, <2>2, <2>3 DEF Shaped
<1>5. Shaped(v)
    BY <1>1, <1>3 DEF Shaped, Breaks
<1>6. Fits(u) /\ Fits(v)
    BY <1>1, <1>2, <1>3, <1>4, <1>5, PlainFits
<1>7. CASE live = TRUE
    BY <1>6, <1>7 DEF u
<1>8. CASE live = FALSE
    BY <1>6, <1>8 DEF v
<1> QED BY <1>7, <1>8

LEMMA RestoreFits ==
    ASSUME NEW live \in BOOLEAN
    PROVE  Fits(<<[kind |-> "drop", chans |-> Chan], [kind |-> "exhume"]>> \o SyncStatements(Chan, live))
<1> DEFINE clean == <<[kind |-> "drop", chans |-> Chan], [kind |-> "exhume"]>>
           u == clean \o SyncStatements(Chan, TRUE)
           v == clean \o SyncStatements(Chan, FALSE)
<1>1. /\ u \in Seq(Statements) /\ Len(u) = 6 /\ u[1].kind = "drop" /\ u[1].chans = Chan
      /\ u[2].kind = "exhume" /\ u[3].kind = "tombstones" /\ u[4].kind = "drop" /\ u[5].kind = "tally"
      /\ u[6].kind = "fill"
      /\ v \in Seq(Statements) /\ Len(v) = 4 /\ v[1].kind = "drop" /\ v[1].chans = Chan
      /\ v[2].kind = "exhume" /\ v[3].kind = "tombstones" /\ v[4].kind = "fill"
  <2> HIDE DEF u, v
  <2>1. /\ u \in Seq(Statements) /\ Len(u) = 6
        /\ u[1] = [kind |-> "drop", chans |-> Chan] /\ u[2] = [kind |-> "exhume"]
        /\ u[3] = [kind |-> "tombstones", listed |-> Chan]
        /\ u[4] = [kind |-> "drop", chans |-> Chan \ Chan]
        /\ u[5] = [kind |-> "tally"] /\ u[6] = [kind |-> "fill", chans |-> Chan]
    BY RestoreWrites, Zenon DEF u
  <2>2. /\ v \in Seq(Statements) /\ Len(v) = 4
        /\ v[1] = [kind |-> "drop", chans |-> Chan] /\ v[2] = [kind |-> "exhume"]
        /\ v[3] = [kind |-> "tombstones", listed |-> Chan]
        /\ v[4] = [kind |-> "fill", chans |-> Chan]
    BY RestoreWrites, Zenon DEF v
  <2> QED BY <2>1, <2>2
<1> HIDE DEF u, v
<1>2. \A i \in 1..6 : i = 1 \/ i = 2 \/ i = 3 \/ i = 4 \/ i = 5 \/ i = 6
    OBVIOUS
<1>3. \A i \in 1..4 : i = 1 \/ i = 2 \/ i = 3 \/ i = 4
    OBVIOUS
<1>4. Shaped(u)
  <2>1. \A i \in 1..6 : Breaks(u[i]) => i = 4
    BY <1>1, <1>2 DEF Breaks
  <2>2. \A i \in 1..6 : Breaks(u[i]) => \E k \in i+1..6 : u[k].kind = "tally"
    <3>1. 5 \in 4+1..6
      OBVIOUS
    <3> QED BY <1>1, <2>1, <3>1
  <2>3. \A i \in 1..6 : u[i].kind \notin {"put", "head", "link", "mirror", "upsert"}
    BY <1>1, <1>2
  <2> QED BY <1>1, <2>2, <2>3 DEF Shaped
<1>5. Shaped(v)
    BY <1>1, <1>3 DEF Shaped, Breaks
<1>6. Fits(u) /\ Fits(v)
    BY <1>1, <1>2, <1>3, <1>4, <1>5, PlainFits
<1>7. CASE live = TRUE
    BY <1>6, <1>7 DEF u
<1>8. CASE live = FALSE
    BY <1>6, <1>8 DEF v
<1> QED BY <1>7, <1>8

LEMMA DeleteFits ==
    ASSUME NEW c \in Chan
    PROVE  Fits(<<[kind |-> "drop", chans |-> {c}], [kind |-> "bury", chans |-> {c}]>> \o Reconcile)
<1> DEFINE w == <<[kind |-> "drop", chans |-> {c}], [kind |-> "bury", chans |-> {c}]>> \o Reconcile
<1>1. /\ w \in Seq(Statements) /\ Len(w) = 3 /\ w[1].kind = "drop" /\ w[1].chans = {c}
      /\ w[2].kind = "bury" /\ w[2].chans = {c} /\ w[3].kind = "tally"
    BY DeleteWrites
<1> HIDE DEF w
<1>2. \A i \in 1..3 : i = 1 \/ i = 2 \/ i = 3
    OBVIOUS
<1>3. Shaped(w)
  <2>1. \A i \in 1..3 : Breaks(w[i]) => i = 1
    BY <1>1, <1>2 DEF Breaks
  <2>2. 3 \in 1+1..3
    OBVIOUS
  <2>3. \A i \in 1..3 : w[i].kind \notin {"put", "head", "link", "mirror", "upsert"}
    BY <1>1, <1>2
  <2> QED BY <1>1, <2>1, <2>2, <2>3 DEF Shaped
<1>4. \A i \in 1..3 : w[i].kind \notin {"put", "head", "clear", "link", "mirror", "upsert"}
    BY <1>1, <1>2
<1>5. HeadsOK(w) /\ MirrorsOK(w)
    BY <1>1, <1>4 DEF HeadsOK, MirrorsOK
<1>6. GravesOK(w)
  <2>1. \A i \in 1..3 : w[i].kind = "bury" => i = 2
    BY <1>1, <1>2
  <2>2. \A k \in 1..3 : k < 2 => k = 1
    OBVIOUS
  <2> QED BY <1>1, <1>4, <2>1, <2>2 DEF GravesOK
<1> QED BY <1>1, <1>3, <1>5, <1>6 DEF Fits, w

LEMMA LinkFits ==
    ASSUME GroupsAssumption, NEW c \in Live, docs[c].role # "child", NEW link \in Link,
           docs[c].role = "parent" => link.state # Null
    PROVE  Fits(<<[kind |-> "link", chan |-> c, link |-> link]>>)
<1> DEFINE x == [kind |-> "link", chan |-> c, link |-> link]
           w == <<x>>
<1>1. x \in Relinks
    BY DEF Relinks, Live
<1>2. x \in Statements
    BY <1>1, IsStatement
<1>3. x.kind = "link" /\ x.chan = c /\ x.link = link
    OBVIOUS
<1> HIDE DEF x
<1>4. w \in Seq(Statements) /\ Len(w) = 1 /\ w[1] = x
    BY <1>2
<1> HIDE DEF w
<1>5. \A i \in 1..Len(w) : i = 1
    BY <1>4
<1>6. Shaped(w)
    BY <1>3, <1>4, <1>5 DEF Shaped, Breaks
<1>7. HeadsOK(w) /\ GravesOK(w) /\ MirrorsOK(w)
    BY <1>3, <1>4, <1>5 DEF HeadsOK, GravesOK, MirrorsOK
<1> QED BY <1>4, <1>6, <1>7 DEF Fits, w, x

(* What a request starts with fits the database it was read from. *)
LEMMA RequestFits ==
    ASSUME GroupsAssumption, IInv, NEW r \in Req, Request(r)
    PROVE  /\ tasks[r] = <<>> /\ requests < MaxRequests
           /\ \E w : Fits(w) /\ Begin(r, w)
<1>0. TypeOK
    BY DocFacts DEF IInv, TypesOK
<1>1. ASSUME NEW g \in GroupId, NEW children \in Lists, Reorder(r, children, g)
      PROVE  \E w : Fits(w) /\ Begin(r, w)
    BY <1>1, ReorderFits DEF Reorder
<1>2. ASSUME NEW g \in GroupId, NEW children \in Lists, NEW p \in Chan, SaveGroup(r, p, children, g)
      PROVE  \E w : Fits(w) /\ Begin(r, w)
  <2>1. p \notin Range(children) /\ Range(children) \cup {p} \subseteq Live
    BY <1>2 DEF SaveGroup
  <2>2. Begin(r, GroupWrites(p, children, g) \o Reconcile)
    BY <1>2 DEF SaveGroup
  <2> QED BY <1>0, <2>1, <2>2, SaveFits
<1>3. ASSUME NEW g \in GroupId, DisbandGroup(r, g)
      PROVE  \E w : Fits(w) /\ Begin(r, w)
  <2> DEFINE x == [kind |-> "disband", groups |-> {g}]
  <2>1. x \in Statements /\ x.kind = "disband"
    BY IsStatement
  <2>2. Begin(r, <<x>>)
    BY <1>3 DEF DisbandGroup
  <2> HIDE DEF x
  <2> QED BY <2>1, <2>2, OneFits
<1>4. ASSUME NEW c \in Chan, EditLink(r, c)
      PROVE  \E w : Fits(w) /\ Begin(r, w)
  <2>1. PICK link \in Links :
            LET state == IF docs[c].role = "parent" /\ link.epg = Null /\ link.state = Null
                         THEN "unmatched" ELSE link.state
            IN  Begin(r, <<[kind |-> "link", chan |-> c, link |-> [link EXCEPT !.state = state]]>>)
    BY <1>4 DEF EditLink
  <2> DEFINE state == IF docs[c].role = "parent" /\ link.epg = Null /\ link.state = Null
                      THEN "unmatched" ELSE link.state
             new == [link EXCEPT !.state = state]
  <2>2. c \in Live /\ docs[c].role # "child"
    BY <1>4 DEF EditLink
  <2>3. link \in Link /\ (link.state = Null => link.epg = Null)
    BY DEF Links, Link, Tvg, Epg, State
  <2>4. state \in State /\ (docs[c].role = "parent" => state # Null)
    BY <2>3 DEF Link, State, GroupsAssumption
  <2>5. Begin(r, <<[kind |-> "link", chan |-> c, link |-> new]>>)
    BY <2>1
  <2> HIDE DEF state
  <2>6. new \in Link /\ new.state = state
    BY <2>3, <2>4 DEF Link
  <2> HIDE DEF new
  <2> QED BY <2>2, <2>4, <2>5, <2>6, LinkFits
<1>5. ASSUME NEW c \in Chan, DeleteChannel(r, c)
      PROVE  \E w : Fits(w) /\ Begin(r, w)
    BY <1>5, DeleteFits DEF DeleteChannel
<1>6. ASSUME Sync(r)
      PROVE  \E w : Fits(w) /\ Begin(r, w)
  <2>1. PICK listed \in SUBSET Chan, live \in BOOLEAN : Begin(r, SyncStatements(listed, live))
    BY <1>6 DEF Sync
  <2> QED BY <2>1, SyncFits
<1>7. ASSUME RestoreDefaults(r)
      PROVE  \E w : Fits(w) /\ Begin(r, w)
    BY <1>7, RestoreFits DEF RestoreDefaults
<1>8. ASSUME DeleteGuide(r)
      PROVE  \E w : Fits(w) /\ Begin(r, w)
  <2> DEFINE x == [kind |-> "unlink"]
  <2>1. x \in Statements /\ x.kind = "unlink"
    BY IsStatement
  <2>2. Begin(r, <<x>>)
    BY <1>8 DEF DeleteGuide
  <2> HIDE DEF x
  <2> QED BY <2>1, <2>2, OneFits
<1>9. tasks[r] = <<>> /\ requests < MaxRequests
    BY DEF Request
<1> QED BY <1>1, <1>2, <1>3, <1>4, <1>5, <1>6, <1>7, <1>8, <1>9 DEF Request

LEMMA StatementKeeps ==
    ASSUME GroupsAssumption, IInv, NEW r \in Req, Statement(r)
    PROVE  IInv'
<1>1. mess' = mess
    BY DEF Statement, Clear, WriteChild, WriteParent, WriteOrder, Tally, Disband, WriteLink, WriteMirror,
           Drop, Bury, Exhume, ReadTombstones, Upsert, Fill, Unlink
<1>2. TypesOK' /\ ShapesOK'
    BY StatementStep DEF IInv
<1>3. Healing'
    BY StatementHeals DEF IInv
<1>4. HeadsInv' /\ GravesInv' /\ MirrorInv'
    BY <1>1, StatementHeads, StatementGraves, StatementMirrors DEF IInv
<1> QED BY <1>2, <1>3, <1>4 DEF IInv

(* Nothing is left to run, and nothing is promised until a reconcile. *)
LEMMA Idle ==
    ASSUME GroupsAssumption, TypeOK, tasks = [r \in Req |-> <<>>]
    PROVE  /\ tasks \in [Req -> Seq(Statements)] /\ ShapesOK /\ Alone
           /\ \A r \in Req : HeadsOK(tasks[r]) /\ GravesOK(tasks[r]) /\ MirrorsOK(tasks[r])
<1>1. \A r \in Req : tasks[r] = <<>> /\ 1..Len(tasks[r]) = {}
    BY EmptyFacts
<1>2. tasks \in [Req -> Seq(Statements)]
    BY EmptyFacts
<1> QED BY <1>1, <1>2 DEF ShapesOK, Shaped, Alone, HeadsOK, GravesOK, MirrorsOK

LEMMA CrashKeeps ==
    ASSUME GroupsAssumption, IInv, Crash
    PROVE  IInv'
<1>1. /\ docs' = docs /\ buried' = buried /\ requests' = requests /\ touched' = touched
      /\ tasks' = [r \in Req |-> <<>>] /\ mess' = mess \cup {"crash"} /\ unhealed' = TRUE
    BY DEF Crash
<1>2. TypeOK'
    BY <1>1 DEF IInv, TypesOK, TypeOK, Live
<1>3. /\ tasks' \in [Req -> Seq(Statements)] /\ ShapesOK' /\ Alone'
      /\ \A r \in Req : HeadsOK(tasks[r])' /\ GravesOK(tasks[r])'
  <2>1. \A r \in Req : tasks'[r] = <<>> /\ 1..Len(tasks'[r]) = {}
    BY <1>1, EmptyFacts
  <2> QED BY <1>1, <2>1, EmptyFacts DEF ShapesOK, Shaped, Alone, HeadsOK, GravesOK
<1>4. HeadsInv'
    BY <1>1, <1>3 DEF IInv, HeadsInv, OneAtATime, OneHead, Parents, Members, Live
<1>5. GravesInv'
    BY <1>1, <1>3 DEF IInv, GravesInv, OneAtATime, Live
<1>6. Healing' /\ MirrorInv'
    BY <1>1 DEF Healing, MirrorInv
<1> QED BY <1>2, <1>3, <1>4, <1>5, <1>6 DEF IInv, TypesOK

LEMMA InitHolds ==
    ASSUME GroupsAssumption, Init
    PROVE  IInv
<1>1. \A c \in Chan : Fresh(c) \in Doc
    BY DEF Fresh, Doc, Tvg, Epg, State
<1>2. \A c \in Chan : docs[c] = Fresh(c) /\ docs[c].group = Null /\ docs[c].role = Null
    BY DEF Init, Fresh
<1>3. TypeOK
  <2>1. docs \in [Chan -> Doc \cup {NoDoc}]
    BY <1>1 DEF Init
  <2>2. 0 \in 0..MaxRequests
    BY DEF GroupsAssumption
  <2> QED BY <1>2, <2>1, <2>2 DEF Init, TypeOK, Live
<1>4. /\ tasks \in [Req -> Seq(Statements)] /\ ShapesOK /\ Alone
      /\ \A r \in Req : HeadsOK(tasks[r]) /\ GravesOK(tasks[r]) /\ MirrorsOK(tasks[r])
    BY <1>3, Idle DEF Init
<1>5. \A g \in GroupId : Members(g) = {}
    BY <1>2 DEF Members, Live, GroupsAssumption
<1>6. \A g \in GroupId : Parents(g) = {} /\ Children(g) = {}
    BY <1>5 DEF Parents, Children
<1>7. Healing
    BY <1>5 DEF Healing, WellFormed
<1>8. HeadsInv
    BY <1>4, <1>6 DEF HeadsInv, OneHead
<1>9. GravesInv
    BY <1>4 DEF GravesInv, Init
<1>10. MirrorInv
    BY <1>2, <1>4, <1>6 DEF MirrorInv, GroupedTouched, Matching, Live
<1> QED BY <1>3, <1>4, <1>7, <1>8, <1>9, <1>10 DEF IInv, TypesOK

LEMMA NextKeeps ==
    ASSUME GroupsAssumption, IInv, [Next]_vars
    PROVE  IInv'
<1>1. ASSUME NEW r \in Req, Request(r)
      PROVE  IInv'
  <2>1. tasks[r] = <<>> /\ requests < MaxRequests
    BY <1>1, RequestFits
  <2>2. PICK w : Fits(w) /\ Begin(r, w)
    BY <1>1, RequestFits
  <2> QED BY <2>1, <2>2, BeginKeeps
<1>2. ASSUME NEW r \in Req, Statement(r)
      PROVE  IInv'
    BY <1>2, StatementKeeps
<1>3. CASE Crash
    BY <1>3, CrashKeeps
<1>4. CASE UNCHANGED vars
  <2>1. /\ docs' = docs /\ buried' = buried /\ tasks' = tasks /\ requests' = requests
        /\ mess' = mess /\ unhealed' = unhealed /\ touched' = touched
    BY <1>4 DEF vars
  <2>2. TypesOK' /\ ShapesOK'
    BY <2>1 DEF IInv, TypesOK, TypeOK, ShapesOK, Live
  <2>3. Live' = Live /\ \A g : Members(g)' = Members(g) /\ Parents(g)' = Parents(g) /\ Children(g)' = Children(g)
    BY <2>1 DEF Live, Members, Parents, Children
  <2>4. Healing'
    BY <2>1, <2>3 DEF IInv, Healing, WellFormed
  <2>5. HeadsInv'
    <3>1. \A s : HeadsOK(s)' = HeadsOK(s)
      BY <2>3 DEF HeadsOK
    <3> QED BY <2>1, <2>3, <3>1 DEF IInv, HeadsInv, OneAtATime, Alone, OneHead
  <2>6. GravesInv'
    <3>1. \A s : GravesOK(s)' = GravesOK(s)
      BY <2>1, <2>3 DEF GravesOK
    <3> QED BY <2>1, <2>3, <3>1 DEF IInv, GravesInv, OneAtATime
  <2>7. MirrorInv'
    <3>1. GroupedTouched' = GroupedTouched /\ \A g \in GroupId : Matching(g)' = Matching(g)
      BY <2>1, <2>3 DEF GroupedTouched, Matching
    <3>2. \A s : MirrorsOK(s)' = MirrorsOK(s)
      BY <2>1, <2>3 DEF MirrorsOK
    <3> QED BY <2>1, <3>1, <3>2 DEF IInv, MirrorInv, MirrorAhead
  <2> QED BY <2>2, <2>4, <2>5, <2>6, <2>7 DEF IInv
<1> QED BY <1>1, <1>2, <1>3, <1>4 DEF Next

-----------------------------------------------------------------------------
(* models/PlaylistChannel.ts: whatever requests and restarts come in, every   *)
(* variable is of its type, and a channel has a role iff it is in a group.    *)
THEOREM TypesHold == Spec => []TypeOK
<1>1. IInv => TypeOK
    BY DEF IInv, TypesOK
<1> QED BY InitHolds, NextKeeps, GroupsAssumption, <1>1, PTL DEF Spec

(* services/failover.ts: however many requests interleave their statements,   *)
(* when all have ended, and what a restart cut off is reconciled, every group *)
(* has one parent and at least one child.                                     *)
THEOREM GroupsSettle == Spec => []GroupsWellFormed
<1>1. IInv => GroupsWellFormed
  <2> SUFFICES ASSUME IInv, AtRest, ~unhealed, NEW g \in GroupId
               PROVE  WellFormed(g)
    BY DEF GroupsWellFormed, WellFormed
  <2>1. \A r \in Req : 1..Len(tasks[r]) = {}
    BY EmptyFacts DEF AtRest
  <2> QED BY <2>1 DEF IInv, Healing
<1> QED BY InitHolds, NextKeeps, GroupsAssumption, <1>1, PTL DEF Spec

(* playlists.ts "parent LAST": while requests do not overlap, no moment of a  *)
(* save, nor a restart in the middle of it, leaves a group with two parents.  *)
THEOREM OneParentEach == Spec => []NeverTwoHeads
<1>1. IInv => NeverTwoHeads
  <2> SUFFICES ASSUME IInv, OneAtATime, NEW g \in GroupId
               PROVE  Cardinality(Parents(g)) <= 1
    BY DEF NeverTwoHeads
  <2>1. \A c, d \in Parents(g) : c = d
    BY DEF IInv, HeadsInv, OneHead
  <2>2. CASE Parents(g) = {}
    BY <2>2, FS_EmptySet
  <2>3. CASE Parents(g) # {}
    <3>1. PICK c : Parents(g) = {c}
      BY <2>1, <2>3
    <3> QED BY <3>1, FS_Singleton
  <2> QED BY <2>2, <2>3
<1> QED BY InitHolds, NextKeeps, GroupsAssumption, <1>1, PTL DEF Spec

(* playlists.ts: what a save copies and what an edit of the parent passes on  *)
(* leave every child of a group with the guide link of its parent.            *)
THEOREM ChildrenFollow == Spec => []ChildrenMirror
<1>1. IInv => ChildrenMirror
  <2> SUFFICES ASSUME IInv, AtRest, mess = {}, NEW g \in GroupId, NEW p \in Parents(g), NEW c \in Children(g)
               PROVE  Linked(docs[c], docs[p].tvg, docs[p].epg, docs[p].state)
    BY DEF ChildrenMirror, Linked
  <2>1. \A r \in Req : 1..Len(tasks[r]) = {}
    BY EmptyFacts DEF AtRest
  <2>2. Matching(g)
    BY <2>1 DEF IInv, MirrorInv, MirrorAhead
  <2> QED BY <2>2 DEF Matching
<1> QED BY InitHolds, NextKeeps, GroupsAssumption, <1>1, PTL DEF Spec

(* tombstones.ts: no sync brings back a channel an operator deleted, however  *)
(* often the server went down between the deletion and the sync.              *)
THEOREM Graves == Spec => []DeletedStaysGone
<1>1. IInv => DeletedStaysGone
    BY DEF IInv, GravesInv, DeletedStaysGone
<1> QED BY InitHolds, NextKeeps, GroupsAssumption, <1>1, PTL DEF Spec
=============================================================================
