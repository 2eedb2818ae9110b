---------------------------- MODULE GuidesProofs -----------------------------
(* What holds of a guide for any number of channels, snapshots, requests and  *)
(* faults: whoever cuts into whom, the operator's links are his own, and a    *)
(* sync or deletion that ran alone leaves a whole guide.                      *)
(*                                                                            *)
(* A request is told by the set of the statements it has left: they come in   *)
(* an order all kinds of sync respect, so the set tells what is done.  The    *)
(* invariant says what rows a writer that is alone must have left so far.     *)
EXTENDS Guides, FiniteSetTheorems, TLAPS

-----------------------------------------------------------------------------
Left(t) == {t[i] : i \in DOMAIN t}
LeftOf(r) == Left(tasks[r].todo)

(* What must not come after what, in any request.                             *)
Before(a, b) ==
    \/ a = "fetch" /\ b # "fetch"
    \/ a = "fetchEach" /\ b = "dropPrograms"
    \/ a = "dropChannels" /\ b = "addChannels"
    \/ a = "dropPrograms" /\ b \in {"batch", "addPrograms"}
    \/ b \in {"upsert", "credit", "dropRow"} /\ a \notin {"upsert", "credit", "dropRow", "link"}
    \/ b = "link" /\ a # b
InOrder(t) == \A i, j \in DOMAIN t : i < j => t[i] # t[j] /\ ~Before(t[j], t[i])

(* The kinds of request, by what they may have left.                          *)
Rows == {"fetch", "dropChannels", "addChannels", "fetchEach", "dropPrograms", "batch", "addPrograms"}
Word == Rows \cup {"upsert", "credit", "link", "present", "unlink", "dropRow", "blame"}
Renewing(w) == "upsert" \in w \/ "credit" \in w
Renewal(w, k) ==
    /\ Renewing(w)
    /\ w \subseteq Rows \cup {"upsert"} \/ w \subseteq Rows \cup {"credit"}
       \/ (k = "self" /\ w \subseteq Rows \cup {"upsert", "link"})
    /\ "fetch" \in w => {"dropChannels", "dropPrograms"} \subseteq w
    /\ "fetchEach" \in w => k = "region" /\ "dropPrograms" \in w
    /\ "dropChannels" \in w => "addChannels" \in w
    /\ "dropPrograms" \in w => "addPrograms" \in w
Role(w, k) ==
    \/ w = {} \/ w = {"blame"}
    \/ Renewal(w, k)
    \/ k = "self" /\ w = {"link"}
    \/ k = "grid" /\ w \subseteq {"present", "link"} /\ "link" \in w
    \/ w \subseteq {"unlink", "dropPrograms", "dropChannels", "dropRow"} /\ "dropRow" \in w

(* A request in hand: its way, and a count within the channels there are.     *)
TaskType == [todo : Seq(Word), version : Version \cup {NoVersion}, chosen : SUBSET Channel,
             wrote : 0..Cardinality(Channel), marks : BOOLEAN]
InHand(q, k) ==
    LET w == Left(q.todo) IN
    /\ q \in TaskType /\ InOrder(q.todo) /\ Role(w, k)
    /\ q.marks => "credit" \in w \/ "blame" \in w
    /\ "fetch" \in w \/ "fetchEach" \in w => q.wrote = 0
    /\ (Renewing(w) /\ "fetch" \notin w) \/ (k = "self" /\ "link" \in w /\ "fetch" \notin w) =>
         q.version \in Version
    /\ Renewing(w) => q.wrote + Cardinality(q.chosen) <= Cardinality(Channel)

StoredOK ==
    /\ kind \in Kind /\ row \in Row \cup {NoRow}
    /\ channels \in [Channel -> Version \cup {NoVersion}] /\ programs \subseteq Programme
    /\ links \in [Channel -> {"untouched", "here", "elsewhere", "unmatched"}]
TasksOK == DOMAIN tasks = Request /\ \A r \in Request : InHand(tasks[r], kind)
CountsOK == begun \in 0..MaxRequests /\ faults \in 0..MaxFaults /\ solo \subseteq Request /\ mess \in BOOLEAN
IInv == StoredOK /\ TasksOK /\ CountsOK

-----------------------------------------------------------------------------
(* What is promised of a source at rest, and what a writer alone has done.    *)
Whole ==
    \/ row = NoRow /\ Stored = {} /\ programs = {} /\ Linked = {}
    \/ row # NoRow /\ (IsSnapshot \/ (kind = "url" /\ row.status = "error"))

(* A sync with its snapshot in hand: the channels are the old ones, gone, or  *)
(* the new ones; the programmes are the old ones or those of the channels     *)
(* written so far, which it has counted.                                      *)
Filled(v) == [c \in Channel |-> IF c \in Lineup[v] THEN v ELSE NoVersion]
ChannelsSoFar(r) ==
    \/ "dropChannels" \in LeftOf(r)
    \/ "addChannels" \in LeftOf(r) /\ Stored = {}
    \/ "addChannels" \notin LeftOf(r) /\ channels = Filled(tasks[r].version)
AiredSoFar(r, aired) ==
    /\ aired \cap tasks[r].chosen = {} /\ aired \cup tasks[r].chosen \subseteq Lineup[tasks[r].version]
    /\ kind \in {"url", "file"} => aired \cup tasks[r].chosen = Lineup[tasks[r].version]
    /\ tasks[r].wrote = Cardinality(aired)
    /\ IF "dropPrograms" \in LeftOf(r) THEN aired = {} ELSE programs = Airings(r, aired)
    /\ "addPrograms" \in LeftOf(r) \/ tasks[r].chosen = {}
RenewedSoFar(r) == ChannelsSoFar(r) /\ \E aired \in SUBSET Channel : AiredSoFar(r, aired)

DeletedSoFar(r) ==
    /\ "unlink" \notin LeftOf(r) => Linked = {}
    /\ "dropPrograms" \notin LeftOf(r) => programs = {}
    /\ "dropChannels" \notin LeftOf(r) => Stored = {}
LinkedSoFar(r) ==
    /\ ~mess => Whole
    /\ IF kind = "self" THEN row # NoRow ELSE "present" \in LeftOf(r) \/ tasks[r].chosen \subseteq Stored

SoFar(r) ==
    /\ Renewing(LeftOf(r)) => IF "fetch" \in LeftOf(r) THEN ~mess => Whole ELSE RenewedSoFar(r)
    /\ "credit" \in LeftOf(r) => row # NoRow
    /\ "dropRow" \in LeftOf(r) => DeletedSoFar(r)
    /\ "link" \in LeftOf(r) /\ ~Renewing(LeftOf(r)) => LinkedSoFar(r)
    /\ "blame" \in LeftOf(r) => (~mess => row # NoRow /\ (IsSnapshot \/ kind = "url"))

(* A writer alone is the only one, and one that is not alone has left a mess. *)
Numbered == \A r \in Request : r > begun => tasks[r].todo = <<>> /\ r \notin solo
OneAlone == \A r \in Running : IF r \in solo THEN Running = {r} /\ SoFar(r) ELSE mess
WholeInv == Numbered /\ OneAlone /\ GuideWhole

-----------------------------------------------------------------------------
(* What a request has left, after its next statement.                         *)
LEMMA LeftOn ==
    ASSUME NEW t \in Seq(Word), t # <<>>, InOrder(t)
    PROVE  /\ Tail(t) \in Seq(Word) /\ InOrder(Tail(t))
           /\ Left(Tail(t)) = Left(t) \ {Head(t)} /\ Head(t) \in Left(t)
           /\ \A a \in Left(t) : ~Before(a, Head(t))
<1>1. Len(t) \in Nat \ {0} /\ DOMAIN t = 1..Len(t) /\ Head(t) = t[1] /\ Tail(t) \in Seq(Word)
    OBVIOUS
<1>2. DOMAIN Tail(t) = 1..(Len(t) - 1) /\ \A i \in DOMAIN Tail(t) : Tail(t)[i] = t[i + 1]
    OBVIOUS
<1>3. InOrder(Tail(t))
  <2> SUFFICES ASSUME NEW i \in DOMAIN Tail(t), NEW j \in DOMAIN Tail(t), i < j
               PROVE  Tail(t)[i] # Tail(t)[j] /\ ~Before(Tail(t)[j], Tail(t)[i])
      BY DEF InOrder
  <2>1. i + 1 \in DOMAIN t /\ j + 1 \in DOMAIN t /\ i + 1 < j + 1
      BY <1>1, <1>2
  <2> QED BY <2>1, <1>2 DEF InOrder
<1>4. Left(Tail(t)) \subseteq Left(t) \ {Head(t)}
  <2> SUFFICES ASSUME NEW i \in DOMAIN Tail(t) PROVE Tail(t)[i] \in Left(t) \ {Head(t)}
      BY DEF Left
  <2>1. 1 \in DOMAIN t /\ i + 1 \in DOMAIN t /\ 1 < i + 1
      BY <1>1, <1>2
  <2> QED BY <2>1, <1>1, <1>2 DEF InOrder, Left
<1>5. Left(t) \ {Head(t)} \subseteq Left(Tail(t))
  <2> SUFFICES ASSUME NEW i \in DOMAIN t, t[i] # Head(t) PROVE t[i] \in Left(Tail(t))
      BY DEF Left
  <2>1. i - 1 \in DOMAIN Tail(t) /\ Tail(t)[i - 1] = t[i]
      BY <1>1, <1>2
  <2> QED BY <2>1 DEF Left
<1>6. \A a \in Left(t) : ~Before(a, Head(t))
  <2> SUFFICES ASSUME NEW i \in DOMAIN t PROVE ~Before(t[i], t[1])
      BY <1>1 DEF Left
  <2>1. CASE i = 1
      BY <2>1 DEF Before
  <2>2. CASE i # 1
      BY <2>2, <1>1 DEF InOrder
  <2> QED BY <2>1, <2>2
<1>7. Head(t) \in Left(t)
    BY <1>1 DEF Left
<1>8. Left(Tail(t)) = Left(t) \ {Head(t)}
    BY <1>4, <1>5
<1> QED BY <1>1, <1>3, <1>6, <1>7, <1>8

LEMMA LeftNone ==
    /\ \A t \in Seq(Word) : Left(t) = {} <=> t = <<>>
    /\ Left(<<>>) = {} /\ InOrder(<<>>)
    /\ <<"blame">> \in Seq(Word) /\ Left(<<"blame">>) = {"blame"} /\ InOrder(<<"blame">>)
<1>1. ASSUME NEW t \in Seq(Word), Left(t) = {} PROVE t = <<>>
  <2>1. 1 \notin DOMAIN t
      BY <1>1 DEF Left
  <2> QED BY <2>1
<1>2. Left(<<>>) = {} /\ InOrder(<<>>) /\ Left(<<"blame">>) = {"blame"} /\ InOrder(<<"blame">>)
    BY DEF Left, InOrder
<1>3. <<"blame">> \in Seq(Word)
    BY DEF Word
<1> QED BY <1>1, <1>2, <1>3

(* The next statement tells what is done and what is still to come.           *)
LEMMA RoleOn ==
    ASSUME NEW w, NEW k, NEW h \in w, Role(w, k), \A a \in w : ~Before(a, h)
    PROVE  Role(w \ {h}, k)
<1>1. CASE w = {"blame"} \/ (k = "self" /\ w = {"link"})
    BY <1>1 DEF Role
<1>2. CASE k = "grid" /\ w \subseteq {"present", "link"} /\ "link" \in w
    BY <1>2 DEF Role, Before
<1>3. CASE w \subseteq {"unlink", "dropPrograms", "dropChannels", "dropRow"} /\ "dropRow" \in w
    BY <1>3 DEF Role, Before
<1>4. CASE Renewal(w, k) /\ h \in {"upsert", "credit"}
  <2>1. w \subseteq {"upsert", "credit", "link"}
      BY <1>4 DEF Before, Renewal, Rows
  <2> QED BY <2>1, <1>4 DEF Role, Renewal, Rows
<1>5. CASE Renewal(w, k) /\ h \notin {"upsert", "credit"}
  <2>1. Renewing(w \ {h})
      BY <1>5 DEF Renewal, Renewing
  <2>2. Renewal(w \ {h}, k)
      BY <2>1, <1>5 DEF Renewal, Rows, Before
  <2> QED BY <2>2 DEF Role
<1> QED BY <1>1, <1>2, <1>3, <1>4, <1>5 DEF Role

LEMMA RoleTells ==
    ASSUME NEW w, NEW k, NEW h \in w, Role(w, k), \A a \in w : ~Before(a, h)
    PROVE  /\ h \in {"fetch", "addChannels", "fetchEach", "batch", "addPrograms", "upsert", "credit"} => Renewing(w)
           /\ h \in {"dropChannels", "dropPrograms"} => Renewing(w) \/ "dropRow" \in w
           /\ h \in {"unlink", "dropRow"} => "dropRow" \in w
           /\ h \in {"blame"} => w = {"blame"}
           /\ h = "present" => w = {"present", "link"} /\ k = "grid"
           /\ h = "link" => w = {"link"} /\ k \in {"self", "grid"}
           /\ "dropRow" \in w => w \subseteq {"unlink", "dropPrograms", "dropChannels", "dropRow"}
           /\ h = "dropRow" => w = {"dropRow"}
           /\ "blame" \in w => w = {"blame"}
<1>1. CASE w = {"blame"} \/ (k = "self" /\ w = {"link"})
    BY <1>1
<1>2. CASE k = "grid" /\ w \subseteq {"present", "link"} /\ "link" \in w
    BY <1>2 DEF Before
<1>3. CASE w \subseteq {"unlink", "dropPrograms", "dropChannels", "dropRow"} /\ "dropRow" \in w
    BY <1>3 DEF Before
<1>4. CASE Renewal(w, k)
  <2>1. Renewing(w) /\ w \subseteq Rows \cup {"upsert", "credit", "link"}
      BY <1>4 DEF Renewal
  <2> QED BY <2>1 DEF Before, Renewing, Rows
<1> QED BY <1>1, <1>2, <1>3, <1>4 DEF Role

(* A renewal that still fetches has all of its replace before it.             *)
LEMMA FetchTells ==
    ASSUME NEW w, NEW k, Role(w, k), Renewing(w), "fetch" \in w
    PROVE  {"dropPrograms", "dropChannels", "addPrograms"} \subseteq w
<1>1. Renewal(w, k)
    BY DEF Role, Renewing
<1> QED BY <1>1 DEF Renewal

LEMMA RenewalTells ==
    ASSUME NEW w, NEW k, NEW h \in w, Role(w, k), \A a \in w : ~Before(a, h), Renewing(w)
    PROVE  /\ w \subseteq Rows \cup {"upsert", "credit", "link"} /\ ("link" \in w => k = "self")
           /\ h # "fetch" => "fetch" \notin w
           /\ h \notin {"upsert", "credit"} => Renewing(w \ {h})
           /\ h \in {"upsert", "credit"} => w \cap Rows = {} /\ ~Renewing(w \ {h})
           /\ h = "credit" => w = {"credit"}
           /\ h = "upsert" => w \ {h} \subseteq {"link"}
           /\ h = "addChannels" => "dropChannels" \notin w
           /\ h \in {"batch", "addPrograms"} => "dropPrograms" \notin w /\ "fetchEach" \notin w
           /\ h = "fetchEach" => k = "region" /\ "dropPrograms" \in w
           /\ h = "fetch" => "dropPrograms" \in w /\ "dropChannels" \in w
           /\ "dropChannels" \in w => "addChannels" \in w
           /\ "dropPrograms" \in w => "addPrograms" \in w
<1>1. Renewal(w, k)
    BY DEF Role, Renewing
<1>2. w \subseteq Rows \cup {"upsert", "credit", "link"} /\ ("link" \in w => k = "self")
    BY <1>1 DEF Renewal, Rows
<1>3. h # "fetch" => "fetch" \notin w
    BY DEF Before
<1>4. h \notin {"upsert", "credit"} => Renewing(w \ {h})
    BY DEF Renewing
<1>5. h \in {"upsert", "credit"} => w \cap Rows = {}
    BY DEF Before, Rows
<1>6. h = "credit" => w = {"credit"}
    BY <1>1, <1>2, <1>5 DEF Renewal, Rows
<1>7. h = "upsert" => w \ {h} \subseteq {"link"}
    BY <1>1, <1>2, <1>5 DEF Renewal, Rows
<1>8. h \in {"upsert", "credit"} => ~Renewing(w \ {h})
    BY <1>6, <1>7 DEF Renewing
<1>9. /\ h = "addChannels" => "dropChannels" \notin w
      /\ h \in {"batch", "addPrograms"} => "dropPrograms" \notin w
    BY DEF Before
<1>10. /\ "fetchEach" \in w => k = "region" /\ "dropPrograms" \in w
       /\ "fetch" \in w => "dropPrograms" \in w /\ "dropChannels" \in w
       /\ "dropChannels" \in w => "addChannels" \in w
       /\ "dropPrograms" \in w => "addPrograms" \in w
    BY <1>1 DEF Renewal
<1> QED BY <1>2, <1>3, <1>4, <1>5, <1>6, <1>7, <1>8, <1>9, <1>10

-----------------------------------------------------------------------------
(* Counting channels.                                                         *)
LEMMA Counting ==
    ASSUME GuidesAssumption, NEW s \in SUBSET Channel, NEW t \in SUBSET s
    PROVE  /\ Cardinality(s) \in 0..Cardinality(Channel) /\ Cardinality(Channel) \in Nat
           /\ Cardinality(t) + Cardinality(s \ t) = Cardinality(s)
<1>1. IsFiniteSet(Channel) /\ IsFiniteSet(s) /\ IsFiniteSet(t) /\ IsFiniteSet(s \ t)
    BY FS_Subset DEF GuidesAssumption
<1>2. /\ Cardinality(Channel) \in Nat /\ Cardinality(s) \in Nat /\ Cardinality(t) \in Nat
      /\ Cardinality(s \ t) \in Nat
    BY <1>1, FS_CardinalityType
<1>3. Cardinality(s) <= Cardinality(Channel)
    BY <1>1, FS_Subset
<1>4. Cardinality(s \ t) = Cardinality(s) - Cardinality(s \cap t)
    BY <1>1, FS_Difference
<1>5. Cardinality(s \ t) = Cardinality(s) - Cardinality(t)
  <2>1. s \cap t = t
      OBVIOUS
  <2> QED BY <2>1, <1>4
<1>6. Cardinality(s) \in 0..Cardinality(Channel)
    BY <1>2, <1>3
<1>7. Cardinality(t) + Cardinality(s \ t) = Cardinality(s)
    BY <1>2, <1>5
<1> QED BY <1>2, <1>6, <1>7

LEMMA CountingType ==
    ASSUME GuidesAssumption, NEW s \in SUBSET Channel
    PROVE  Cardinality(s) \in Nat /\ Cardinality(s) \in 0..Cardinality(Channel) /\ Cardinality(Channel) \in Nat
<1>1. {} \in SUBSET s
    OBVIOUS
<1>2. Cardinality(s) \in 0..Cardinality(Channel) /\ Cardinality(Channel) \in Nat
    BY <1>1, Counting
<1> QED BY <1>2

LEMMA CountingTwo ==
    ASSUME GuidesAssumption, NEW s \in SUBSET Channel, NEW t \in SUBSET Channel, s \cap t = {}
    PROVE  Cardinality(s \cup t) = Cardinality(s) + Cardinality(t)
<1>1. s \in SUBSET (s \cup t) /\ s \cup t \in SUBSET Channel /\ (s \cup t) \ s = t
    OBVIOUS
<1> QED BY <1>1, Counting

(* The requests that nothing is left of, that failed, or that go on.          *)
LEMMA DoneInHand ==
    ASSUME GuidesAssumption, NEW k
    PROVE  InHand(Done, k) /\ Done \in TaskType /\ Done.todo = <<>> /\ Done.wrote = 0 /\ Done.marks = FALSE
<1>1. Cardinality({}) = 0 /\ Cardinality(Channel) \in Nat
    BY Counting, FS_EmptySet
<1>2. Done \in TaskType
    BY <1>1 DEF Done, TaskType
<1> QED BY <1>1, <1>2, LeftNone DEF Done, InHand, Role, Renewing

LEMMA ThrowsInHand ==
    ASSUME GuidesAssumption, NEW r \in Request, NEW k, InHand(tasks[r], k)
    PROVE  /\ InHand(Throws(r), k)
           /\ tasks[r].marks => Throws(r).todo = <<"blame">>
           /\ ~tasks[r].marks => Throws(r) = Done
<1>1. CASE ~tasks[r].marks
    BY <1>1, DoneInHand DEF Throws
<1>2. CASE tasks[r].marks
  <2> DEFINE q == [Done EXCEPT !.todo = <<"blame">>, !.marks = TRUE]
  <2>1. <<"blame">> \in Seq(Word)
      BY LeftNone
  <2>2. Done \in TaskType /\ Done.wrote = 0
      BY DoneInHand
  <2>b. q \in TaskType /\ q.todo = <<"blame">> /\ q.wrote = 0
      BY <2>1, <2>2 DEF TaskType
  <2>3. Left(q.todo) = {"blame"} /\ InOrder(q.todo)
      BY <2>b, LeftNone
  <2> HIDE DEF q
  <2>4. InHand(q, k)
      BY <2>b, <2>3 DEF InHand, Role, Renewing
  <2>5. Throws(r) = q
      BY <1>2 DEF Throws, q
  <2> QED BY <2>b, <2>4, <2>5, <1>2
<1> QED BY <1>1, <1>2 DEF InHand, TaskType

LEMMA GoesOn ==
    ASSUME GuidesAssumption, NEW k, NEW q, InHand(q, k), q.todo # <<>>, NEW p \in TaskType,
           p.todo = Tail(q.todo), p.marks = q.marks, Head(q.todo) \notin {"credit", "blame"},
           p.version \in Version \/ (p.version = q.version /\ Head(q.todo) # "fetch"),
           p.wrote = q.wrote \/ Head(q.todo) \in {"batch", "addPrograms"},
           Renewing(Left(q.todo)) => p.wrote + Cardinality(p.chosen) <= Cardinality(Channel)
    PROVE  InHand(p, k)
<1> DEFINE w == Left(q.todo)
           h == Head(q.todo)
           v == Left(p.todo)
<1>1. q.todo \in Seq(Word) /\ InOrder(q.todo) /\ Role(w, k)
    BY DEF InHand, TaskType
<1>2. /\ v = w \ {h} /\ h \in w /\ InOrder(p.todo) /\ \A a \in w : ~Before(a, h)
    BY <1>1, LeftOn
<1>3. /\ q.marks => "credit" \in w \/ "blame" \in w
      /\ "fetch" \in w \/ "fetchEach" \in w => q.wrote = 0
      /\ (Renewing(w) /\ "fetch" \notin w) \/ (k = "self" /\ "link" \in w /\ "fetch" \notin w) => q.version \in Version
    BY DEF InHand
<1>4. /\ h \notin {"credit", "blame"} /\ (p.version \in Version \/ (p.version = q.version /\ h # "fetch"))
      /\ p.wrote = q.wrote \/ h \in {"batch", "addPrograms"}
      /\ Renewing(w) => p.wrote + Cardinality(p.chosen) <= Cardinality(Channel)
    OBVIOUS
<1> HIDE DEF w, h, v
<1>5. Role(v, k)
    BY <1>1, <1>2, RoleOn
<1>6. p.marks => "credit" \in v \/ "blame" \in v
    BY <1>2, <1>3, <1>4
<1>7. Renewing(v) => Renewing(w)
    BY <1>2 DEF Renewing
<1>8. h # "fetch" => "fetch" \notin w
    BY <1>2 DEF Before
<1>9. "fetch" \in v \/ "fetchEach" \in v => p.wrote = 0
  <2>1. CASE h \in {"batch", "addPrograms"}
    <3>1. Renewing(w)
        BY <2>1, <1>1, <1>2, RoleTells
    <3>2. "fetchEach" \notin w
        BY <2>1, <3>1, <1>1, <1>2, RenewalTells
    <3> QED BY <2>1, <3>2, <1>8, <1>2
  <2>2. CASE p.wrote = q.wrote
      BY <2>2, <1>2, <1>3
  <2> QED BY <2>1, <2>2, <1>4
<1>10. (Renewing(v) /\ "fetch" \notin v) \/ (k = "self" /\ "link" \in v /\ "fetch" \notin v) => p.version \in Version
    BY <1>2, <1>3, <1>4, <1>7, <1>8
<1> QED BY <1>2, <1>4, <1>5, <1>6, <1>7, <1>9, <1>10 DEF InHand, v

(* How each request begins.                                                   *)
LEMMA LeftBoth ==
    ASSUME NEW s \in Seq(Word), NEW t \in Seq(Word)
    PROVE  Left(s \o t) = Left(s) \cup Left(t) /\ s \o t \in Seq(Word)
<1>1. /\ DOMAIN s = 1..Len(s) /\ DOMAIN t = 1..Len(t) /\ Len(s) \in Nat /\ Len(t) \in Nat
      /\ s \o t \in Seq(Word) /\ DOMAIN (s \o t) = 1..(Len(s) + Len(t))
    OBVIOUS
<1>2. /\ \A i \in 1..Len(s) : (s \o t)[i] = s[i]
      /\ \A i \in 1..Len(t) : (s \o t)[Len(s) + i] = t[i]
    OBVIOUS
<1>3. ASSUME NEW i \in DOMAIN (s \o t) PROVE (s \o t)[i] \in Left(s) \cup Left(t)
  <2>1. CASE i <= Len(s)
      BY <2>1, <1>1, <1>2 DEF Left
  <2>2. CASE i > Len(s)
    <3>1. i - Len(s) \in DOMAIN t /\ (s \o t)[i] = t[i - Len(s)]
        BY <2>2, <1>1
    <3> QED BY <3>1 DEF Left
  <2> QED BY <2>1, <2>2, <1>1
<1>4. ASSUME NEW i \in DOMAIN s PROVE s[i] \in Left(s \o t)
  <2>1. i \in DOMAIN (s \o t) /\ (s \o t)[i] = s[i]
      BY <1>1, <1>2
  <2> QED BY <2>1 DEF Left
<1>5. ASSUME NEW i \in DOMAIN t PROVE t[i] \in Left(s \o t)
  <2>1. Len(s) + i \in DOMAIN (s \o t) /\ (s \o t)[Len(s) + i] = t[i]
      BY <1>1, <1>2
  <2> QED BY <2>1 DEF Left
<1>6. Left(s \o t) \subseteq Left(s) \cup Left(t)
    BY <1>3 DEF Left
<1>7. Left(s) \subseteq Left(s \o t) /\ Left(t) \subseteq Left(s \o t)
    BY <1>4, <1>5 DEF Left
<1> QED BY <1>1, <1>6, <1>7

LEMMA OrderBoth ==
    ASSUME NEW s \in Seq(Word), NEW t \in Seq(Word), InOrder(s), InOrder(t),
           \A a \in Left(s), b \in Left(t) : a # b /\ ~Before(b, a)
    PROVE  InOrder(s \o t)
<1>1. /\ DOMAIN s = 1..Len(s) /\ DOMAIN t = 1..Len(t) /\ Len(s) \in Nat /\ Len(t) \in Nat
      /\ DOMAIN (s \o t) = 1..(Len(s) + Len(t))
    OBVIOUS
<1>2. /\ \A i \in 1..Len(s) : (s \o t)[i] = s[i]
      /\ \A i \in DOMAIN (s \o t) : i > Len(s) => i - Len(s) \in DOMAIN t /\ (s \o t)[i] = t[i - Len(s)]
    OBVIOUS
<1> SUFFICES ASSUME NEW i \in DOMAIN (s \o t), NEW j \in DOMAIN (s \o t), i < j
             PROVE  (s \o t)[i] # (s \o t)[j] /\ ~Before((s \o t)[j], (s \o t)[i])
    BY DEF InOrder
<1>3. CASE j <= Len(s)
  <2>1. i \in DOMAIN s /\ j \in DOMAIN s /\ (s \o t)[i] = s[i] /\ (s \o t)[j] = s[j]
      BY <1>3, <1>1, <1>2
  <2> QED BY <2>1 DEF InOrder
<1>4. CASE i > Len(s)
  <2>1. /\ i - Len(s) \in DOMAIN t /\ j - Len(s) \in DOMAIN t /\ i - Len(s) < j - Len(s)
        /\ (s \o t)[i] = t[i - Len(s)] /\ (s \o t)[j] = t[j - Len(s)]
      BY <1>4, <1>1, <1>2
  <2> QED BY <2>1 DEF InOrder
<1>5. CASE i <= Len(s) /\ j > Len(s)
  <2>1. i \in DOMAIN s /\ (s \o t)[i] = s[i] /\ j - Len(s) \in DOMAIN t /\ (s \o t)[j] = t[j - Len(s)]
      BY <1>5, <1>1, <1>2
  <2>2. (s \o t)[i] \in Left(s) /\ (s \o t)[j] \in Left(t)
      BY <2>1 DEF Left
  <2> QED BY <2>2
<1> QED BY <1>1, <1>3, <1>4, <1>5

LEMMA ReplaceIs ==
    ASSUME NEW k \in Kind
    PROVE  /\ Replace(k) \in Seq(Word) /\ InOrder(Replace(k)) /\ Left(Replace(k)) \subseteq Rows
           /\ {"fetch", "dropChannels", "addChannels", "dropPrograms", "addPrograms"} \subseteq Left(Replace(k))
           /\ "fetchEach" \in Left(Replace(k)) => k = "region"
<1>1. CASE k \in {"grid", "self"}
  <2> DEFINE t == <<"fetch", "dropChannels", "addChannels", "dropPrograms", "addPrograms">>
  <2>1. Left(t) = {"fetch", "dropChannels", "addChannels", "dropPrograms", "addPrograms"}
      BY DEF Left
  <2>2. InOrder(t)
      BY DEF InOrder, Before
  <2>3. t \in Seq(Word)
      BY DEF Word, Rows
  <2>4. Replace(k) = t
      BY <1>1 DEF Replace
  <2> QED BY <2>1, <2>2, <2>3, <2>4 DEF Rows
<1>2. CASE k = "region"
  <2> DEFINE t == <<"fetch", "dropChannels", "addChannels", "fetchEach", "dropPrograms", "addPrograms">>
  <2>1. Left(t) = {"fetch", "dropChannels", "addChannels", "fetchEach", "dropPrograms", "addPrograms"}
      BY DEF Left
  <2>2. InOrder(t)
      BY DEF InOrder, Before
  <2>3. t \in Seq(Word)
      BY DEF Word, Rows
  <2>4. Replace(k) = t
      BY <1>2 DEF Replace
  <2> QED BY <1>2, <2>1, <2>2, <2>3, <2>4 DEF Rows
<1>3. CASE k = "url"
  <2> DEFINE t == <<"fetch", "dropPrograms", "dropChannels", "batch", "addPrograms", "addChannels">>
  <2>1. Left(t) = {"fetch", "dropPrograms", "dropChannels", "batch", "addPrograms", "addChannels"}
      BY DEF Left
  <2>2. InOrder(t)
      BY DEF InOrder, Before
  <2>3. t \in Seq(Word)
      BY DEF Word, Rows
  <2>4. Replace(k) = t
      BY <1>3 DEF Replace
  <2> QED BY <2>1, <2>2, <2>3, <2>4 DEF Rows
<1>4. CASE k = "file"
  <2> DEFINE t == <<"fetch", "dropChannels", "addChannels", "dropPrograms", "batch", "addPrograms">>
  <2>1. Left(t) = {"fetch", "dropChannels", "addChannels", "dropPrograms", "batch", "addPrograms"}
      BY DEF Left
  <2>2. InOrder(t)
      BY DEF InOrder, Before
  <2>3. t \in Seq(Word)
      BY DEF Word, Rows
  <2>4. Replace(k) = t
      BY <1>4 DEF Replace
  <2> QED BY <2>1, <2>2, <2>3, <2>4 DEF Rows
<1> QED BY <1>1, <1>2, <1>3, <1>4 DEF Kind

Starts(t, k) ==
    /\ t \in Seq(Word) /\ t # <<>> /\ InOrder(t) /\ Role(Left(t), k)
    /\ Renewing(Left(t)) \/ (k = "self" /\ "link" \in Left(t)) => "fetch" \in Left(t)

LEMMA StartsInHand ==
    ASSUME GuidesAssumption, NEW k, NEW t, Starts(t, k), NEW m \in BOOLEAN, m => "credit" \in Left(t)
    PROVE  InHand([Done EXCEPT !.todo = t, !.marks = m], k)
<1> DEFINE q == [Done EXCEPT !.todo = t, !.marks = m]
<1>1. Done \in TaskType /\ Done.wrote = 0 /\ Done.chosen = {} /\ t \in Seq(Word)
    BY DoneInHand DEF Starts, Done
<1>2. q \in TaskType /\ q.todo = t /\ q.wrote = 0 /\ q.marks = m /\ q.chosen = {}
    BY <1>1 DEF TaskType
<1> HIDE DEF q
<1>3. Cardinality(q.chosen) = 0 /\ Cardinality(Channel) \in Nat
    BY <1>2, Counting, FS_EmptySet
<1>4. InHand(q, k)
    BY <1>2, <1>3 DEF InHand, Starts
<1> QED BY <1>4 DEF q

LEMMA SyncStarts ==
    ASSUME NEW k \in Kind, NEW e \in {<<"upsert">>, <<"credit">>, <<"upsert", "link">>},
           e = <<"upsert", "link">> => k = "self"
    PROVE  /\ Starts(Replace(k) \o e, k)
           /\ "fetch" \in Left(Replace(k) \o e) /\ Renewing(Left(Replace(k) \o e))
           /\ "credit" \in Left(Replace(k) \o e) <=> e = <<"credit">>
           /\ "dropRow" \notin Left(Replace(k) \o e) /\ "blame" \notin Left(Replace(k) \o e)
           /\ Left(Replace(k) \o e) # {}
<1> DEFINE w == Left(Replace(k) \o e)
<1>1. e \in Seq(Word) /\ InOrder(e)
  <2>1. <<"upsert">> \in Seq(Word) /\ <<"credit">> \in Seq(Word) /\ <<"upsert", "link">> \in Seq(Word)
      BY DEF Word
  <2>2. InOrder(<<"upsert">>) /\ InOrder(<<"credit">>) /\ InOrder(<<"upsert", "link">>)
      BY DEF InOrder, Before
  <2> QED BY <2>1, <2>2
<1>2. /\ e = <<"upsert">> => Left(e) = {"upsert"}
      /\ e = <<"credit">> => Left(e) = {"credit"}
      /\ e = <<"upsert", "link">> => Left(e) = {"upsert", "link"}
    BY DEF Left
<1>3. Left(e) \in {{"upsert"}, {"credit"}, {"upsert", "link"}} /\ ("link" \in Left(e) => k = "self")
    BY <1>2
<1>4. w = Left(Replace(k)) \cup Left(e) /\ Replace(k) \o e \in Seq(Word)
    BY <1>1, ReplaceIs, LeftBoth
<1>5. InOrder(Replace(k) \o e)
  <2>1. \A a \in Left(Replace(k)), b \in Left(e) : a # b /\ ~Before(b, a)
      BY <1>3, ReplaceIs DEF Rows, Before
  <2> QED BY <2>1, <1>1, ReplaceIs, OrderBoth
<1>6. Renewal(w, k)
    BY <1>3, <1>4, ReplaceIs DEF Renewal, Renewing, Rows
<1>7. "fetch" \in w /\ "dropRow" \notin w /\ "blame" \notin w
    BY <1>3, <1>4, ReplaceIs DEF Rows
<1>8. "credit" \in w <=> e = <<"credit">>
  <2>1. "credit" \in Left(e) <=> e = <<"credit">>
      BY <1>2
  <2>2. "credit" \notin Left(Replace(k))
      BY ReplaceIs DEF Rows
  <2> QED BY <2>1, <2>2, <1>4
<1>9. Replace(k) \o e # <<>>
    BY <1>7, <1>4, LeftNone
<1> QED BY <1>4, <1>5, <1>6, <1>7, <1>8, <1>9 DEF Starts, Role, Renewal

LEMMA OtherStarts ==
    ASSUME NEW k
    PROVE  /\ Starts(<<"unlink", "dropPrograms", "dropChannels", "dropRow">>, k)
           /\ Left(<<"unlink", "dropPrograms", "dropChannels", "dropRow">>) =
                {"unlink", "dropPrograms", "dropChannels", "dropRow"}
           /\ k = "grid" => Starts(<<"present", "link">>, k)
           /\ Left(<<"present", "link">>) = {"present", "link"}
<1>1. /\ <<"unlink", "dropPrograms", "dropChannels", "dropRow">> \in Seq(Word)
      /\ <<"present", "link">> \in Seq(Word)
    BY DEF Word, Rows
<1>2. /\ InOrder(<<"unlink", "dropPrograms", "dropChannels", "dropRow">>)
      /\ InOrder(<<"present", "link">>)
    BY DEF InOrder, Before
<1>3. Left(<<"unlink", "dropPrograms", "dropChannels", "dropRow">>) =
           {"unlink", "dropPrograms", "dropChannels", "dropRow"}
    BY DEF Left
<1>4. Left(<<"present", "link">>) = {"present", "link"}
    BY DEF Left
<1>5. Starts(<<"unlink", "dropPrograms", "dropChannels", "dropRow">>, k)
    BY <1>1, <1>2, <1>3 DEF Starts, Role, Renewing
<1>6. k = "grid" => Starts(<<"present", "link">>, k)
    BY <1>1, <1>2, <1>4 DEF Starts, Role, Renewing
<1> QED BY <1>3, <1>4, <1>5, <1>6

-----------------------------------------------------------------------------
(* Types.                                                                     *)
LEMMA TasksStep ==
    ASSUME TasksOK, NEW r \in Request, NEW f, Set(r, f), InHand(f, kind), kind' = kind
    PROVE  TasksOK' /\ tasks'[r] = f /\ \A q \in Request : q # r => tasks'[q] = tasks[q]
<1>1. DOMAIN tasks' = Request /\ tasks'[r] = f /\ \A q \in Request : q # r => tasks'[q] = tasks[q]
    BY DEF TasksOK, Set
<1>2. \A q \in Request : InHand(tasks'[q], kind')
    BY <1>1 DEF TasksOK
<1> QED BY <1>1, <1>2 DEF TasksOK

LEMMA InHandNow ==
    ASSUME TasksOK, NEW r \in Request
    PROVE  /\ InHand(tasks[r], kind) /\ tasks[r] \in TaskType /\ tasks[r].chosen \subseteq Channel
           /\ tasks[r].wrote \in 0..Cardinality(Channel) /\ tasks[r].todo \in Seq(Word)
BY DEF TasksOK, InHand, TaskType

(* What a statement tells of the request it is the next of.                   *)
LEMMA StatementTells ==
    ASSUME TasksOK, NEW r \in Request, NEW h, Statement(r, h)
    PROVE  /\ tasks[r].todo # <<>> /\ Head(tasks[r].todo) = h /\ h \in LeftOf(r)
           /\ Role(LeftOf(r), kind) /\ \A a \in LeftOf(r) : ~Before(a, h)
           /\ Left(Tail(tasks[r].todo)) = LeftOf(r) \ {h}
<1>1. tasks[r].todo \in Seq(Word) /\ InOrder(tasks[r].todo) /\ Role(LeftOf(r), kind)
    BY InHandNow DEF InHand, LeftOf
<1>2. tasks[r].todo # <<>> /\ Head(tasks[r].todo) = h
    BY DEF Statement
<1> QED BY <1>1, <1>2, LeftOn DEF LeftOf

LEMMA VersionTells ==
    ASSUME TasksOK, GuidesAssumption, NEW r \in Request,
           NEW h \in {"addChannels", "fetchEach", "batch", "addPrograms", "upsert", "credit"}, Statement(r, h)
    PROVE  /\ tasks[r].version \in Version /\ Renewing(LeftOf(r)) /\ Lineup[tasks[r].version] \subseteq Channel
           /\ tasks[r].wrote + Cardinality(tasks[r].chosen) <= Cardinality(Channel)
<1>1. Renewing(LeftOf(r))
    BY StatementTells, RoleTells
<1>2. "fetch" \notin LeftOf(r)
    BY <1>1, StatementTells, RenewalTells
<1>3. InHand(tasks[r], kind)
    BY InHandNow
<1>4. /\ tasks[r].version \in Version
      /\ tasks[r].wrote + Cardinality(tasks[r].chosen) <= Cardinality(Channel)
    BY <1>1, <1>2, <1>3 DEF InHand, LeftOf
<1>5. Lineup[tasks[r].version] \subseteq Channel
    BY <1>4 DEF GuidesAssumption
<1> QED BY <1>1, <1>4, <1>5

LEMMA Next1InHand ==
    ASSUME TasksOK, GuidesAssumption, NEW r \in Request, NEW h, h \notin {"fetch", "credit", "blame"}, Statement(r, h)
    PROVE  /\ InHand(Next1(r), kind) /\ Next1(r) \in TaskType /\ Next1(r).todo = Tail(tasks[r].todo)
           /\ Next1(r).version = tasks[r].version /\ Next1(r).chosen = tasks[r].chosen
           /\ Next1(r).wrote = tasks[r].wrote /\ Next1(r).marks = tasks[r].marks
<1>1. tasks[r] \in TaskType /\ Tail(tasks[r].todo) \in Seq(Word) /\ InHand(tasks[r], kind)
    BY InHandNow, StatementTells, LeftOn DEF InHand
<1>2. /\ Next1(r) \in TaskType /\ Next1(r).todo = Tail(tasks[r].todo)
      /\ Next1(r).version = tasks[r].version /\ Next1(r).chosen = tasks[r].chosen
      /\ Next1(r).wrote = tasks[r].wrote /\ Next1(r).marks = tasks[r].marks
    BY <1>1 DEF Next1, TaskType
<1>3. Renewing(Left(tasks[r].todo)) => Next1(r).wrote + Cardinality(Next1(r).chosen) <= Cardinality(Channel)
    BY <1>1, <1>2 DEF InHand
<1>4. InHand(Next1(r), kind)
    BY <1>1, <1>2, <1>3, StatementTells, GoesOn
<1> QED BY <1>2, <1>4

(* The guide's rows, when a statement of r writes them.                       *)
LEMMA AiringsTyped ==
    ASSUME TasksOK, GuidesAssumption, NEW r \in Request, NEW h \in {"batch", "addPrograms"}, Statement(r, h),
           NEW cs \in SUBSET tasks[r].chosen
    PROVE  Airings(r, cs) \subseteq Programme
BY VersionTells, InHandNow DEF Airings, Programme

LEMMA WroteInHand ==
    ASSUME TasksOK, GuidesAssumption, NEW r \in Request, NEW h \in {"batch", "addPrograms"}, Statement(r, h),
           NEW cs \in SUBSET tasks[r].chosen, NEW f, f = [Wrote(r, cs) EXCEPT !.todo = Tail(tasks[r].todo)]
    PROVE  /\ InHand(f, kind) /\ f.todo = Tail(tasks[r].todo) /\ f.version = tasks[r].version
           /\ f.chosen = tasks[r].chosen \ cs /\ f.wrote = tasks[r].wrote + Cardinality(cs) /\ f.marks = tasks[r].marks
<1>1. tasks[r] \in TaskType /\ Tail(tasks[r].todo) \in Seq(Word) /\ InHand(tasks[r], kind)
    BY InHandNow, StatementTells, LeftOn DEF InHand
<1>2. tasks[r].chosen \subseteq Channel /\ tasks[r].wrote \in 0..Cardinality(Channel)
    BY InHandNow
<1>3. /\ Cardinality(cs) + Cardinality(tasks[r].chosen \ cs) = Cardinality(tasks[r].chosen)
      /\ Cardinality(cs) \in Nat /\ Cardinality(tasks[r].chosen \ cs) \in Nat /\ Cardinality(Channel) \in Nat
      /\ Cardinality(tasks[r].chosen) \in Nat
  <2>1. cs \in SUBSET Channel /\ tasks[r].chosen \in SUBSET Channel /\ tasks[r].chosen \ cs \in SUBSET Channel
      BY <1>2
  <2>2. Cardinality(cs) + Cardinality(tasks[r].chosen \ cs) = Cardinality(tasks[r].chosen)
      BY <2>1, Counting
  <2>3. /\ Cardinality(cs) \in Nat /\ Cardinality(tasks[r].chosen \ cs) \in Nat /\ Cardinality(Channel) \in Nat
        /\ Cardinality(tasks[r].chosen) \in Nat
      BY <2>1, CountingType
  <2> QED BY <2>2, <2>3
<1>4. tasks[r].wrote + Cardinality(tasks[r].chosen) <= Cardinality(Channel)
    BY VersionTells
<1> DEFINE n == tasks[r].wrote + Cardinality(cs)
           rest == tasks[r].chosen \ cs
<1>5. n \in 0..Cardinality(Channel) /\ n + Cardinality(rest) <= Cardinality(Channel) /\ rest \in SUBSET Channel
  <2>1. rest \in SUBSET Channel /\ tasks[r].wrote \in Nat
      BY <1>2, <1>3
  <2>2. n + Cardinality(rest) = tasks[r].wrote + Cardinality(tasks[r].chosen)
      BY <1>3, <2>1
  <2>3. n \in Nat /\ Cardinality(rest) \in Nat
      BY <1>3, <2>1
  <2> HIDE DEF n, rest
  <2>4. n + Cardinality(rest) <= Cardinality(Channel)
      BY <1>4, <2>2
  <2>5. n <= Cardinality(Channel)
      BY <1>3, <2>3, <2>4
  <2> QED BY <1>3, <2>1, <2>3, <2>4, <2>5
<1>6. f = [[tasks[r] EXCEPT !.chosen = rest, !.wrote = n] EXCEPT !.todo = Tail(tasks[r].todo)]
    BY DEF Wrote
<1>7. n = tasks[r].wrote + Cardinality(cs) /\ rest = tasks[r].chosen \ cs
    OBVIOUS
<1> HIDE DEF n, rest
<1>8. /\ f \in TaskType /\ f.todo = Tail(tasks[r].todo) /\ f.version = tasks[r].version
      /\ f.chosen = rest /\ f.wrote = n /\ f.marks = tasks[r].marks
    BY <1>1, <1>5, <1>6 DEF TaskType
<1>9. InHand(f, kind)
    BY <1>1, <1>5, <1>8, StatementTells, GoesOn
<1> QED BY <1>7, <1>8, <1>9

(* Each step keeps the types.                                                 *)
LEMMA TypesInit ==
    ASSUME GuidesAssumption, Init
    PROVE  IInv
<1>1. StoredOK
  <2>2. /\ kind \in Kind /\ row = NoRow /\ channels = [c \in Channel |-> NoVersion] /\ programs = {}
        /\ links = [c \in Channel |-> "untouched"]
      BY DEF Init
  <2> QED BY <2>2 DEF StoredOK
<1>2. TasksOK
  <2>1. DOMAIN tasks = Request /\ \A r \in Request : tasks[r] = Done
      BY DEF Init
  <2> QED BY <2>1, DoneInHand DEF TasksOK
<1>3. CountsOK
  <2>1. begun = 0 /\ faults = 0 /\ solo = {} /\ mess = FALSE
      BY DEF Init
  <2>2. 0 \in 0..MaxRequests /\ 0 \in 0..MaxFaults
      BY DEF GuidesAssumption
  <2> QED BY <2>1, <2>2 DEF CountsOK
<1> QED BY <1>1, <1>2, <1>3 DEF IInv

LEMMA TypesBegin ==
    ASSUME GuidesAssumption, IInv, NEW t, Starts(t, kind), NEW m \in BOOLEAN, m => "credit" \in Left(t),
           Begin(t, m), solo' \subseteq Request, mess' \in BOOLEAN
    PROVE  IInv'
<1>1. begun + 1 \in Request /\ begun' \in 0..MaxRequests
    BY DEF Begin, IInv, CountsOK, Request, GuidesAssumption
<1>2. InHand([Done EXCEPT !.todo = t, !.marks = m], kind)
    BY StartsInHand
<1>3. TasksOK'
    BY <1>1, <1>2, TasksStep DEF IInv, Begin
<1>4. StoredOK'
    BY DEF Begin, stored, IInv, StoredOK
<1>5. CountsOK'
    BY <1>1 DEF CountsOK, IInv, Begin
<1> QED BY <1>3, <1>4, <1>5 DEF IInv

(* A statement that changes rows, links or the file, and counts nothing.      *)
LEMMA TypesRows ==
    ASSUME IInv, NEW r \in Request, NEW f, Set(r, f), InHand(f, kind), kind' = kind,
           row' \in Row \cup {NoRow}, channels' \in [Channel -> Version \cup {NoVersion}],
           programs' \subseteq Programme,
           links' \in [Channel -> {"untouched", "here", "elsewhere", "unmatched"}],
           begun' = begun, faults' \in 0..MaxFaults, solo' = solo, mess' \in BOOLEAN
    PROVE  IInv'
<1>1. TasksOK'
    BY TasksStep DEF IInv
<1>2. StoredOK'
    BY DEF IInv, StoredOK
<1>3. CountsOK'
    BY DEF IInv, CountsOK
<1> QED BY <1>1, <1>2, <1>3 DEF IInv

LEMMA NowTyped ==
    ASSUME IInv
    PROVE  /\ row \in Row \cup {NoRow} /\ channels \in [Channel -> Version \cup {NoVersion}]
           /\ programs \subseteq Programme
           /\ links \in [Channel -> {"untouched", "here", "elsewhere", "unmatched"}]
                  /\ faults \in 0..MaxFaults /\ mess \in BOOLEAN /\ TasksOK
BY DEF IInv, StoredOK, CountsOK

LEMMA FetchTypes ==
    ASSUME GuidesAssumption, IInv, NEW r \in Request, Fetch(r)
    PROVE  IInv'
<1>1. ASSUME NEW v \in Version, NEW aired \in Fetched(v),
             NEW f, f = [Next1(r) EXCEPT !.version = v, !.chosen = aired]
      PROVE  InHand(f, kind)
  <2>1. aired \in SUBSET Channel
      BY DEF Fetched, GuidesAssumption
  <2>2. tasks[r] \in TaskType /\ Tail(tasks[r].todo) \in Seq(Word) /\ InHand(tasks[r], kind)
      BY NowTyped, InHandNow, StatementTells, LeftOn DEF InHand, Fetch
  <2>3. f = [[tasks[r] EXCEPT !.todo = Tail(tasks[r].todo)] EXCEPT !.version = v, !.chosen = aired]
      BY <1>1 DEF Next1
  <2>4. /\ f \in TaskType /\ f.todo = Tail(tasks[r].todo) /\ f.version = v /\ f.chosen = aired
        /\ f.wrote = tasks[r].wrote /\ f.marks = tasks[r].marks
      BY <2>1, <2>2, <2>3 DEF TaskType
  <2>5. tasks[r].wrote = 0
      BY <2>2, NowTyped, StatementTells DEF InHand, Fetch, LeftOf
  <2>6. Cardinality(aired) \in 0..Cardinality(Channel) /\ Cardinality(Channel) \in Nat
      BY <2>1, CountingType
  <2>7. f.wrote + Cardinality(f.chosen) <= Cardinality(Channel)
      BY <2>4, <2>5, <2>6
  <2>8. Statement(r, "fetch") /\ TasksOK
      BY NowTyped DEF Fetch
  <2>9. tasks[r].todo # <<>> /\ Head(tasks[r].todo) = "fetch"
      BY <2>8, StatementTells
  <2> QED BY <2>2, <2>4, <2>7, <2>9, GoesOn
<1>2. \E f : Set(r, f) /\ InHand(f, kind)
    BY <1>1, NowTyped, InHandNow, ThrowsInHand DEF Fetch
<1> QED BY <1>2, NowTyped, TypesRows DEF Fetch, stored, Quietly, history

LEMMA FetchEachTypes ==
    ASSUME GuidesAssumption, IInv, NEW r \in Request, FetchEach(r)
    PROVE  IInv'
<1>1. PICK some \in SUBSET Lineup[tasks[r].version] : Set(r, [Next1(r) EXCEPT !.chosen = some])
    BY DEF FetchEach
<1>2. Statement(r, "fetchEach") /\ TasksOK
    BY NowTyped DEF FetchEach
<1>3. PICK f : f = [Next1(r) EXCEPT !.chosen = some]
    OBVIOUS
<1>4. some \in SUBSET Channel
    BY <1>2, VersionTells
<1>5. /\ f \in TaskType /\ f.todo = Tail(tasks[r].todo) /\ f.version = tasks[r].version /\ f.chosen = some
      /\ f.wrote = tasks[r].wrote /\ f.marks = tasks[r].marks
    BY <1>2, <1>3, <1>4, Next1InHand DEF TaskType
<1>6. tasks[r].wrote = 0 /\ InHand(tasks[r], kind)
    BY <1>2, InHandNow, StatementTells DEF InHand, LeftOf
<1>7. Cardinality(some) \in 0..Cardinality(Channel) /\ Cardinality(Channel) \in Nat
    BY <1>4, CountingType
<1>8. f.wrote + Cardinality(f.chosen) <= Cardinality(Channel)
    BY <1>5, <1>6, <1>7
<1>9. InHand(f, kind)
    BY <1>2, <1>5, <1>6, <1>8, StatementTells, GoesOn
<1> QED BY <1>1, <1>3, <1>9, NowTyped, TypesRows DEF FetchEach, stored, Quietly, history

LEMMA DropTypes ==
    ASSUME GuidesAssumption, IInv, NEW r \in Request, DropChannels(r) \/ DropPrograms(r)
    PROVE  IInv'
<1>1. Set(r, Next1(r)) /\ InHand(Next1(r), kind)
    BY NowTyped, Next1InHand DEF DropChannels, DropPrograms
<1> QED BY <1>1, NowTyped, TypesRows DEF DropChannels, DropPrograms, Quietly, history

LEMMA AddChannelsTypes ==
    ASSUME GuidesAssumption, IInv, NEW r \in Request, AddChannels(r)
    PROVE  IInv'
<1>1. Statement(r, "addChannels") /\ TasksOK
    BY NowTyped DEF AddChannels
<1>2. InHand(Next1(r), kind) /\ InHand(Throws(r), kind) /\ tasks[r].version \in Version
    BY <1>1, Next1InHand, InHandNow, ThrowsInHand, VersionTells
<1>3. \E f : Set(r, f) /\ InHand(f, kind)
    BY <1>2 DEF AddChannels
<1>4. channels' \in [Channel -> Version \cup {NoVersion}]
    BY <1>2, NowTyped DEF AddChannels
<1> QED BY <1>3, <1>4, NowTyped, TypesRows DEF AddChannels, Quietly, history

LEMMA AddProgramsTypes ==
    ASSUME GuidesAssumption, IInv, NEW r \in Request, AddPrograms(r)
    PROVE  IInv'
<1>1. Statement(r, "addPrograms") /\ TasksOK
    BY NowTyped DEF AddPrograms
<1>2. PICK f : f = [Wrote(r, tasks[r].chosen) EXCEPT !.todo = Tail(tasks[r].todo)]
    OBVIOUS
<1>3. InHand(f, kind)
    BY <1>1, <1>2, WroteInHand
<1>4. programs' \subseteq Programme
    BY <1>1, AiringsTyped, NowTyped DEF AddPrograms
<1> QED BY <1>2, <1>3, <1>4, NowTyped, TypesRows DEF AddPrograms, Quietly, history

LEMMA BatchTypes ==
    ASSUME GuidesAssumption, IInv, NEW r \in Request, Batch(r)
    PROVE  IInv'
<1>1. Statement(r, "batch") /\ TasksOK
    BY NowTyped DEF Batch
<1>2. PICK some \in SUBSET tasks[r].chosen :
         /\ programs' = programs \cup Airings(r, some)
         /\ \/ Set(r, [Wrote(r, some) EXCEPT !.todo = Tail(tasks[r].todo)]) /\ UNCHANGED mess
            \/ kind = "url" /\ Set(r, Throws(r)) /\ mess' = (mess \/ ~tasks[r].marks)
    BY DEF Batch
<1>3. PICK f : f = [Wrote(r, some) EXCEPT !.todo = Tail(tasks[r].todo)]
    OBVIOUS
<1>4. InHand(f, kind) /\ InHand(Throws(r), kind) /\ tasks[r].marks \in BOOLEAN
    BY <1>1, <1>3, WroteInHand, InHandNow, ThrowsInHand DEF TaskType
<1>5. programs' \subseteq Programme
    BY <1>1, <1>2, AiringsTyped, NowTyped
<1>6. \E g : Set(r, g) /\ InHand(g, kind)
    BY <1>2, <1>3, <1>4
<1>7. mess' \in BOOLEAN
    BY <1>2, <1>4, NowTyped
<1> QED BY <1>5, <1>6, <1>7, NowTyped, TypesRows DEF Batch

LEMMA GoodTyped ==
    ASSUME GuidesAssumption, TasksOK, NEW r \in Request, NEW h \in {"upsert", "credit"}, Statement(r, h)
    PROVE  Good(r) \in Row
<1>1. Cardinality(Lineup[tasks[r].version]) \in 0..Cardinality(Channel)
    BY VersionTells, CountingType
<1>2. tasks[r].wrote \in 0..Cardinality(Channel)
    BY InHandNow
<1> QED BY <1>1, <1>2 DEF Good, Row

LEMMA UpsertTypes ==
    ASSUME GuidesAssumption, IInv, NEW r \in Request, Upsert(r) \/ Credit(r)
    PROVE  IInv'
<1>1. PICK h \in {"upsert", "credit"} : Statement(r, h)
    BY DEF Upsert, Credit
<1>2. row' \in Row \cup {NoRow}
    BY <1>1, NowTyped, GoodTyped DEF Upsert, Credit
<1>3. Upsert(r) => InHand(Next1(r), kind)
    BY NowTyped, Next1InHand DEF Upsert
<1>4. \E f : Set(r, f) /\ InHand(f, kind)
    BY <1>3, DoneInHand DEF Upsert, Credit
<1>5. mess' \in BOOLEAN
    BY DEF Upsert, Credit
<1> QED BY <1>2, <1>4, <1>5, NowTyped, TypesRows DEF Upsert, Credit

LEMMA BlameTypes ==
    ASSUME GuidesAssumption, IInv, NEW r \in Request, Blame(r) \/ DropRow(r)
    PROVE  IInv'
<1>1. row' \in Row \cup {NoRow}
    BY NowTyped DEF Blame, DropRow, Row
<1>2. Set(r, Done) /\ InHand(Done, kind)
    BY DoneInHand DEF Blame, DropRow
<1>3. mess' \in BOOLEAN
    BY NowTyped DEF Blame, DropRow, Quietly, history
<1> QED BY <1>1, <1>2, <1>3, NowTyped, TypesRows DEF Blame, DropRow, Quietly, history

LEMMA LinkTypes ==
    ASSUME GuidesAssumption, IInv, NEW r \in Request, Link(r) \/ Unlink(r)
    PROVE  IInv'
<1>1. links' \in [Channel -> {"untouched", "here", "elsewhere", "unmatched"}]
    BY NowTyped DEF Link, Unlink
<1>2. Unlink(r) => InHand(Next1(r), kind)
    BY NowTyped, Next1InHand DEF Unlink
<1>3. \E f : Set(r, f) /\ InHand(f, kind)
    BY <1>2, DoneInHand DEF Link, Unlink
<1> QED BY <1>1, <1>3, NowTyped, TypesRows DEF Link, Unlink, stored, history

LEMMA ReadTypes ==
    ASSUME GuidesAssumption, IInv, NEW r \in Request, Present(r)
    PROVE  IInv'
<1>1. PICK h \in {"present"}, cs \in SUBSET Channel :
         Statement(r, h) /\ Set(r, [Next1(r) EXCEPT !.chosen = cs])
    BY DEF Present, Stored
<1>2. PICK f : f = [Next1(r) EXCEPT !.chosen = cs]
    OBVIOUS
<1>3. /\ f \in TaskType /\ f.todo = Tail(tasks[r].todo) /\ f.version = tasks[r].version
      /\ f.wrote = tasks[r].wrote /\ f.marks = tasks[r].marks
    BY <1>1, <1>2, NowTyped, Next1InHand DEF TaskType
<1>4. ~Renewing(LeftOf(r))
    BY <1>1, NowTyped, StatementTells, RoleTells DEF Renewing
<1>5. InHand(f, kind)
    BY <1>1, <1>3, <1>4, NowTyped, InHandNow, StatementTells, GoesOn DEF LeftOf
<1> QED BY <1>1, <1>2, <1>5, NowTyped, TypesRows DEF Present, stored, Quietly, history

LEMMA FaultTypes ==
    ASSUME GuidesAssumption, IInv, NEW r \in Request, Fault(r)
    PROVE  IInv'
<1>1. InHand(Done, kind) /\ InHand(Throws(r), kind)
    BY DoneInHand, NowTyped, InHandNow, ThrowsInHand
<1>2. \E f : Set(r, f) /\ InHand(f, kind)
    BY <1>1 DEF Fault
<1>3. programs' \subseteq Programme
  <2>1. ASSUME NEW h \in {"batch", "addPrograms"}, Statement(r, h), NEW some \in SUBSET tasks[r].chosen
        PROVE  Airings(r, some) \subseteq Programme
      BY <2>1, NowTyped, AiringsTyped
  <2> QED BY <2>1, NowTyped DEF Fault
<1>4. faults' \in 0..MaxFaults /\ mess' \in BOOLEAN
    BY NowTyped DEF Fault, GuidesAssumption
<1> QED BY <1>2, <1>3, <1>4, NowTyped, TypesRows DEF Fault

LEMMA RestartTypes ==
    ASSUME GuidesAssumption, IInv, Restart
    PROVE  IInv'
<1>1. DOMAIN tasks' = Request /\ \A r \in Request : tasks'[r] = Done
    BY DEF Restart
<1>2. TasksOK'
    BY <1>1, DoneInHand DEF TasksOK
<1>3. StoredOK'
    BY DEF Restart, stored, IInv, StoredOK
<1>4. CountsOK'
    BY DEF Restart, IInv, CountsOK, GuidesAssumption
<1> QED BY <1>2, <1>3, <1>4 DEF IInv

LEMMA EditTypes ==
    ASSUME GuidesAssumption, IInv, NEW c \in Channel, NEW l \in {"untouched", "here", "elsewhere", "unmatched"}, Edit(c, l)
    PROVE  IInv'
<1>1. TasksOK'
    BY DEF Edit, IInv, TasksOK
<1>2. StoredOK'
    BY DEF Edit, stored, IInv, StoredOK
<1>3. CountsOK'
    BY DEF Edit, IInv, CountsOK, GuidesAssumption
<1> QED BY <1>1, <1>2, <1>3 DEF IInv

(* The requests that change history as they begin.                            *)
BeginsAs(t, m) ==
    /\ Starts(t, kind) /\ Left(t) # {} /\ Begin(t, m)
    /\ m => "credit" \in Left(t)
    /\ Renewing(Left(t)) => "fetch" \in Left(t)
    /\ "credit" \in Left(t) => row # NoRow
    /\ "dropRow" \in Left(t) => {"unlink", "dropPrograms", "dropChannels"} \subseteq Left(t)
    /\ "link" \in Left(t) /\ ~Renewing(Left(t)) => kind = "grid" /\ "present" \in Left(t)
    /\ "blame" \notin Left(t)

LEMMA BeginsWell ==
    ASSUME GuidesAssumption, IInv, Create \/ Sync \/ Upload \/ PlaylistSync \/ Delete \/ Crosswalk
    PROVE  \E t, m : m \in BOOLEAN /\ BeginsAs(t, m)
<1>1. kind \in Kind
    BY DEF IInv, StoredOK
<1>2. CASE Create
  <2>1. Begin(Replace(kind) \o <<"upsert">>, FALSE)
      BY <1>2 DEF Create
  <2>2. BeginsAs(Replace(kind) \o <<"upsert">>, FALSE)
      BY <2>1, <1>1, SyncStarts DEF BeginsAs
  <2> QED BY <2>2
<1>3. CASE Sync
  <2>1. Begin(Replace(kind) \o <<"credit">>, TRUE) /\ row # NoRow
      BY <1>3 DEF Sync
  <2>2. BeginsAs(Replace(kind) \o <<"credit">>, TRUE)
      BY <2>1, <1>1, SyncStarts DEF BeginsAs
  <2> QED BY <2>2
<1>4. CASE Upload
  <2>1. Begin(Replace(kind) \o <<"credit">>, FALSE) /\ row # NoRow
      BY <1>4 DEF Upload
  <2>2. BeginsAs(Replace(kind) \o <<"credit">>, FALSE)
      BY <2>1, <1>1, SyncStarts DEF BeginsAs
  <2> QED BY <2>2
<1>5. CASE PlaylistSync
  <2>1. Begin(Replace(kind) \o <<"upsert", "link">>, FALSE) /\ kind = "self"
      BY <1>5 DEF PlaylistSync
  <2>2. BeginsAs(Replace(kind) \o <<"upsert", "link">>, FALSE)
      BY <2>1, <1>1, SyncStarts DEF BeginsAs
  <2> QED BY <2>2
<1>6. CASE Delete
  <2> DEFINE t == <<"unlink", "dropPrograms", "dropChannels", "dropRow">>
  <2>1. Begin(t, FALSE)
      BY <1>6 DEF Delete
  <2>2. Left(t) = {"unlink", "dropPrograms", "dropChannels", "dropRow"} /\ Starts(t, kind)
      BY <2>1, OtherStarts
  <2> HIDE DEF t
  <2>3. BeginsAs(t, FALSE)
      BY <2>1, <2>2 DEF BeginsAs, Renewing
  <2> QED BY <2>3
<1>7. CASE Crosswalk
  <2> DEFINE t == <<"present", "link">>
  <2>1. Begin(t, FALSE) /\ kind = "grid"
      BY <1>7 DEF Crosswalk
  <2>2. Left(t) = {"present", "link"} /\ Starts(t, kind)
      BY <2>1, OtherStarts
  <2> HIDE DEF t
  <2>3. BeginsAs(t, FALSE)
      BY <2>1, <2>2 DEF BeginsAs, Renewing
  <2> QED BY <2>3
<1> QED BY <1>2, <1>3, <1>4, <1>5, <1>6, <1>7

LEMMA TypesNext ==
    ASSUME GuidesAssumption, IInv, [Next]_vars
    PROVE  IInv'
<1>1. CASE Create \/ Sync \/ Upload \/ PlaylistSync \/ Delete \/ Crosswalk
  <2>a. PICK t, m : m \in BOOLEAN /\ BeginsAs(t, m)
      BY <1>1, BeginsWell
  <2>1. Starts(t, kind) /\ Begin(t, m) /\ (m => "credit" \in Left(t)) /\ m \in BOOLEAN
      BY <2>a DEF BeginsAs
  <2>2. begun' \in Request
      BY <2>1 DEF Begin, IInv, CountsOK, Request, GuidesAssumption
  <2>3. solo' \subseteq Request /\ mess' \in BOOLEAN
      BY <2>1, <2>2 DEF Begin, IInv, CountsOK
  <2> QED BY <2>1, <2>3, TypesBegin
<1>3. CASE \E c \in Channel, l \in {"untouched", "here", "elsewhere", "unmatched"} : Edit(c, l)
    BY <1>3, EditTypes
<1>4. ASSUME NEW r \in Request, Step(r) PROVE IInv'
    BY <1>4, FetchTypes, FetchEachTypes, DropTypes, AddChannelsTypes, AddProgramsTypes, BatchTypes,
       UpsertTypes, BlameTypes, LinkTypes, ReadTypes DEF Step
<1>5. ASSUME NEW r \in Request, Fault(r) PROVE IInv'
    BY <1>5, FaultTypes
<1>6. CASE Restart
    BY <1>6, RestartTypes
<1>7. CASE UNCHANGED vars
    BY <1>7 DEF vars, IInv, StoredOK, TasksOK, CountsOK
<1> QED BY <1>1, <1>3, <1>4, <1>5, <1>6, <1>7 DEF Next

LEMMA InvariantTypes == IInv => TypeOK
BY DEF IInv, StoredOK, TasksOK, CountsOK, InHand, TaskType, TypeOK

-----------------------------------------------------------------------------
(* Who writes, and what a step means for the writers.                         *)
LEMMA WritingIs ==
    ASSUME NEW q, NEW k, InHand(q, k)
    PROVE  (q.todo # <<>>) <=> Left(q.todo) # {}
<1>1. q.todo \in Seq(Word) /\ InOrder(q.todo) /\ Role(Left(q.todo), k)
    BY DEF InHand, TaskType
<1>2. CASE q.todo = <<>>
    BY <1>2, LeftNone
<1>3. CASE q.todo # <<>>
    BY <1>1, <1>3, LeftOn, RoleTells
<1> QED BY <1>2, <1>3

LEMMA RunningStep ==
    ASSUME TasksOK, TasksOK', NEW r \in Request, NEW f, Set(r, f)
    PROVE  /\ tasks'[r] = f /\ LeftOf(r)' = Left(f.todo)
           /\ r \in Running <=> LeftOf(r) # {}
           /\ r \in Running' <=> Left(f.todo) # {}
           /\ \A q \in Request : q # r => tasks'[q] = tasks[q] /\ (q \in Running' <=> q \in Running)
           /\ Running \subseteq Request /\ Running' \subseteq Request
<1>1. tasks'[r] = f /\ \A q \in Request : q # r => tasks'[q] = tasks[q]
    BY DEF TasksOK, Set
<1>2. LeftOf(r)' = Left(f.todo)
    BY <1>1 DEF LeftOf
<1>3. Running \subseteq Request /\ Running' \subseteq Request
    BY DEF Running
<1>4. \A q \in Request : /\ q \in Running <=> tasks[q].todo # <<>>
                         /\ q \in Running' <=> tasks'[q].todo # <<>>
    BY DEF Running
<1>5. r \in Running <=> LeftOf(r) # {}
    BY <1>4, WritingIs DEF TasksOK, LeftOf
<1>6. r \in Running' <=> Left(f.todo) # {}
    BY <1>1, <1>4, WritingIs DEF TasksOK
<1>7. \A q \in Request : q # r => (q \in Running' <=> q \in Running)
    BY <1>1, <1>4
<1> QED BY <1>1, <1>2, <1>3, <1>5, <1>6, <1>7

LEMMA RunningBegun ==
    ASSUME IInv, Numbered, NEW r \in Running
    PROVE  r \in Request /\ r \in 1..begun /\ tasks[r].todo # <<>>
<1>1. r \in Request /\ tasks[r].todo # <<>> /\ begun \in Nat /\ r \in Nat /\ r >= 1
    BY DEF Running, IInv, CountsOK, Request
<1> QED BY <1>1 DEF Numbered

(* A writer that is not alone: whatever it does, the mess stays.              *)
LEMMA Disturbed ==
    ASSUME IInv, IInv', WholeInv, NEW r \in Running, r \notin solo, NEW f, Set(r, f),
           solo' = solo, begun' = begun, mess' = TRUE
    PROVE  WholeInv'
<1>1. r \in Request /\ r \in 1..begun
    BY RunningBegun DEF WholeInv
<1>2. TasksOK /\ TasksOK' /\ begun \in Nat /\ Request \subseteq Nat
    BY DEF IInv, CountsOK, Request
<1>3. Numbered'
  <2> SUFFICES ASSUME NEW q \in Request, q > begun' PROVE tasks'[q].todo = <<>> /\ q \notin solo'
      BY DEF Numbered
  <2>1. q # r /\ q > begun
      BY <1>1, <1>2
  <2> QED BY <2>1, <1>1, <1>2, RunningStep DEF WholeInv, Numbered
<1>4. OneAlone'
  <2> SUFFICES ASSUME NEW q \in Running' PROVE q \notin solo'
      BY DEF OneAlone
  <2>1. CASE q = r
      BY <2>1
  <2>2. CASE q # r
    <3>1. q \in Running
        BY <2>2, <1>1, <1>2, RunningStep
    <3> QED BY <3>1, <2>2 DEF WholeInv, OneAlone
  <2> QED BY <2>1, <2>2
<1>5. GuideWhole'
    BY DEF GuideWhole
<1> QED BY <1>3, <1>4, <1>5 DEF WholeInv

(* A writer alone: it goes on, or the guide is whole.                         *)
LEMMA Alone ==
    ASSUME IInv, IInv', WholeInv, NEW r \in Running, r \in solo, NEW f, Set(r, f),
           solo' = solo, begun' = begun,
           Left(f.todo) # {} => SoFar(r)',
           Left(f.todo) = {} => mess' \/ Whole'
    PROVE  WholeInv'
<1>1. r \in Request /\ r \in 1..begun
    BY RunningBegun DEF WholeInv
<1>2. TasksOK /\ TasksOK' /\ begun \in Nat /\ Request \subseteq Nat
    BY DEF IInv, CountsOK, Request
<1>3. Numbered'
  <2> SUFFICES ASSUME NEW q \in Request, q > begun' PROVE tasks'[q].todo = <<>> /\ q \notin solo'
      BY DEF Numbered
  <2>1. q # r /\ q > begun
      BY <1>1, <1>2
  <2> QED BY <2>1, <1>1, <1>2, RunningStep DEF WholeInv, Numbered
<1>4. Running = {r}
    BY DEF WholeInv, OneAlone
<1>5. Running' \subseteq {r}
    BY <1>1, <1>2, <1>4, RunningStep
<1>6. r \in Running' <=> Left(f.todo) # {}
    BY <1>1, <1>2, RunningStep
<1>7. OneAlone'
    BY <1>5, <1>6 DEF OneAlone
<1>8. GuideWhole'
  <2>1. Running' = {} => mess' \/ Whole'
      BY <1>6
  <2> QED BY <2>1 DEF GuideWhole, Whole
<1> QED BY <1>3, <1>7, <1>8 DEF WholeInv

(* What does not write leaves everything as it is.                            *)
LEMMA WholeSame ==
    ASSUME UNCHANGED <<kind, row, channels, programs, links>>
    PROVE  Whole' = Whole /\ IsSnapshot' = IsSnapshot /\ Stored' = Stored /\ Linked' = Linked
<1>1. Stored' = Stored /\ Linked' = Linked
    BY DEF Stored, Linked
<1>2. IsSnapshot' = IsSnapshot
    BY <1>1 DEF IsSnapshot
<1> QED BY <1>1, <1>2 DEF Whole

LEMMA SoFarSame ==
    ASSUME UNCHANGED <<kind, row, channels, programs, links, mess>>, NEW r, tasks'[r] = tasks[r]
    PROVE  SoFar(r)' = SoFar(r)
<1>1. LeftOf(r)' = LeftOf(r) /\ \A cs : Airings(r, cs)' = Airings(r, cs)
    BY DEF LeftOf, Airings
<1>2. \A aired : AiredSoFar(r, aired)' = AiredSoFar(r, aired)
    BY <1>1 DEF AiredSoFar
<1>3. RenewedSoFar(r)' = RenewedSoFar(r)
    BY <1>1, <1>2, WholeSame DEF RenewedSoFar, ChannelsSoFar
<1>4. DeletedSoFar(r)' = DeletedSoFar(r) /\ LinkedSoFar(r)' = LinkedSoFar(r)
    BY <1>1, WholeSame DEF DeletedSoFar, LinkedSoFar
<1> QED BY <1>1, <1>3, <1>4, WholeSame DEF SoFar

-----------------------------------------------------------------------------
(* What a writer alone has done, one statement later.  Each of the following  *)
(* is of a writer r alone that comes to f by the statement h.                 *)
WritesAlone(r, h, f) ==
    /\ GuidesAssumption /\ IInv /\ IInv' /\ WholeInv
    /\ r \in Request /\ r \in solo /\ Statement(r, h)
    /\ Set(r, f) /\ kind' = kind /\ begun' = begun /\ solo' = solo

LEMMA AloneTells ==
    ASSUME NEW r, NEW h, NEW f, WritesAlone(r, h, f)
    PROVE  /\ r \in Running /\ SoFar(r) /\ tasks'[r] = f /\ LeftOf(r)' = Left(f.todo)
           /\ TasksOK /\ TasksOK' /\ h \in LeftOf(r) /\ Role(LeftOf(r), kind)
           /\ \A a \in LeftOf(r) : ~Before(a, h)
           /\ f.todo = Tail(tasks[r].todo) => LeftOf(r)' = LeftOf(r) \ {h}
<1>1. TasksOK /\ TasksOK' /\ r \in Request
    BY DEF WritesAlone, IInv
<1>2. /\ h \in LeftOf(r) /\ Role(LeftOf(r), kind) /\ \A a \in LeftOf(r) : ~Before(a, h)
      /\ Left(Tail(tasks[r].todo)) = LeftOf(r) \ {h} /\ tasks[r].todo # <<>> /\ Head(tasks[r].todo) = h
    BY <1>1, StatementTells DEF WritesAlone
<1>3. r \in Running
    BY <1>1, <1>2 DEF Running, WritesAlone
<1>4. SoFar(r)
    BY <1>3 DEF WritesAlone, WholeInv, OneAlone
<1>5. tasks'[r] = f /\ LeftOf(r)' = Left(f.todo)
    BY <1>1, RunningStep DEF WritesAlone
<1> QED BY <1>1, <1>2, <1>3, <1>4, <1>5

LEMMA AloneEnds ==
    ASSUME NEW r, NEW h, NEW f, WritesAlone(r, h, f),
           LeftOf(r)' # {} => SoFar(r)',
           LeftOf(r)' = {} => mess' \/ Whole'
    PROVE  WholeInv'
BY AloneTells, Alone DEF WritesAlone

LEMMA BlamedSoFar ==
    ASSUME NEW r, LeftOf(r)' = {"blame"}, mess' \/ (row' # NoRow /\ (IsSnapshot' \/ kind' = "url"))
    PROVE  SoFar(r)'
BY DEF SoFar, Renewing

(* A failure is marked by the requests that mark, and leaves a mess unless    *)
(* the guide was not touched or is one of a url.                              *)
LEMMA ThrowsAlone ==
    ASSUME NEW r, NEW h, NEW f, WritesAlone(r, h, f), f = Throws(r),
           mess' \/ (~tasks[r].marks /\ Whole') \/ (tasks[r].marks /\ row' # NoRow /\ (IsSnapshot' \/ kind' = "url"))
    PROVE  WholeInv'
<1>1. InHand(tasks[r], kind) /\ GuidesAssumption /\ r \in Request
    BY AloneTells, InHandNow DEF WritesAlone
<1>2. CASE tasks[r].marks
  <2>1. LeftOf(r)' = {"blame"}
      BY <1>1, <1>2, ThrowsInHand, LeftNone, AloneTells
  <2>2. mess' \/ (row' # NoRow /\ (IsSnapshot' \/ kind' = "url"))
      BY <1>2
  <2>3. SoFar(r)'
      BY <2>1, <2>2, BlamedSoFar
  <2> QED BY <2>1, <2>3, AloneEnds
<1>3. CASE ~tasks[r].marks
  <2>0. f.todo = <<>>
      BY <1>1, <1>3, ThrowsInHand, DoneInHand
  <2>1. LeftOf(r)' = {}
      BY <2>0, LeftNone, AloneTells
  <2> QED BY <2>1, <1>3, AloneEnds
<1> QED BY <1>2, <1>3

(* A sync that goes on.                                                       *)
LEMMA RenewsOn ==
    ASSUME NEW r, NEW h, NEW f, WritesAlone(r, h, f), f.todo = Tail(tasks[r].todo),
           Renewing(LeftOf(r)), h \notin {"upsert", "credit"}, row' = row, RenewedSoFar(r)'
    PROVE  WholeInv'
<1>1. LeftOf(r)' = LeftOf(r) \ {h} /\ SoFar(r)
    BY AloneTells
<1>2. /\ LeftOf(r) \subseteq Rows \cup {"upsert", "credit", "link"} /\ Renewing(LeftOf(r) \ {h})
      /\ h # "fetch" => "fetch" \notin LeftOf(r)
    BY AloneTells, RenewalTells
<1>3. "dropRow" \notin LeftOf(r)' /\ "blame" \notin LeftOf(r)' /\ "fetch" \notin LeftOf(r)' /\ Renewing(LeftOf(r)')
    BY <1>1, <1>2 DEF Rows
<1>4. "credit" \in LeftOf(r)' => row' # NoRow
    BY <1>1 DEF SoFar
<1>5. SoFar(r)'
    BY <1>3, <1>4 DEF SoFar
<1>6. LeftOf(r)' # {}
    BY <1>3 DEF Renewing
<1> QED BY <1>5, <1>6, AloneEnds

(* The programmes, while a sync is at the channels.                           *)
LEMMA AiredStays ==
    ASSUME NEW r, NEW aired, AiredSoFar(r, aired), UNCHANGED <<kind, programs>>,
           tasks'[r].chosen = tasks[r].chosen, tasks'[r].version = tasks[r].version, tasks'[r].wrote = tasks[r].wrote,
           "dropPrograms" \in LeftOf(r)' <=> "dropPrograms" \in LeftOf(r),
           "addPrograms" \in LeftOf(r)' <=> "addPrograms" \in LeftOf(r)
    PROVE  AiredSoFar(r, aired)'
<1>1. Airings(r, aired)' = Airings(r, aired)
    BY DEF Airings
<1> QED BY <1>1 DEF AiredSoFar

(* The channels, while it is at the programmes.                               *)
LEMMA ChannelsStay ==
    ASSUME NEW r, ChannelsSoFar(r), UNCHANGED channels, tasks'[r].version = tasks[r].version,
           "dropChannels" \in LeftOf(r)' <=> "dropChannels" \in LeftOf(r),
           "addChannels" \in LeftOf(r)' <=> "addChannels" \in LeftOf(r)
    PROVE  ChannelsSoFar(r)'
<1>1. Stored' = Stored
    BY DEF Stored
<1> QED BY <1>1 DEF ChannelsSoFar

LEMMA FetchAlone ==
    ASSUME GuidesAssumption, IInv, IInv', WholeInv, NEW r \in Request, r \in solo, Fetch(r)
    PROVE  WholeInv'
<1>1. /\ Statement(r, "fetch") /\ kind' = kind /\ begun' = begun /\ solo' = solo /\ mess' = mess
      /\ row' = row /\ channels' = channels /\ programs' = programs /\ links' = links
    BY DEF Fetch, stored, Quietly, history
<1>2. TasksOK /\ TasksOK'
    BY DEF IInv
<1>3. ASSUME NEW v \in Version, NEW aired \in Fetched(v),
             NEW f, f = [Next1(r) EXCEPT !.version = v, !.chosen = aired], Set(r, f)
      PROVE  WholeInv'
  <2>1. WritesAlone(r, "fetch", f)
      BY <1>1, <1>3 DEF WritesAlone
  <2>2. f.todo = Tail(tasks[r].todo) /\ f.version = v /\ f.chosen = aired /\ f.wrote = tasks[r].wrote
    <3>1. tasks[r] \in TaskType
        BY <1>2, InHandNow
    <3>2. f = [[tasks[r] EXCEPT !.todo = Tail(tasks[r].todo)] EXCEPT !.version = v, !.chosen = aired]
        BY <1>3 DEF Next1
    <3> QED BY <3>1, <3>2 DEF TaskType
  <2>3. /\ Renewing(LeftOf(r)) /\ {"dropPrograms", "dropChannels", "addPrograms"} \subseteq LeftOf(r)
        /\ "fetch" \in LeftOf(r) /\ LeftOf(r)' = LeftOf(r) \ {"fetch"} /\ tasks'[r] = f
    <3>1. /\ "fetch" \in LeftOf(r) /\ LeftOf(r)' = LeftOf(r) \ {"fetch"} /\ tasks'[r] = f
          /\ Role(LeftOf(r), kind) /\ \A a \in LeftOf(r) : ~Before(a, "fetch")
        BY <2>1, <2>2, AloneTells
    <3>2. Renewing(LeftOf(r))
        BY <3>1, RoleTells
    <3>3. {"dropPrograms", "dropChannels", "addPrograms"} \subseteq LeftOf(r)
        BY <3>1, <3>2, FetchTells
    <3> QED BY <3>1, <3>2, <3>3
  <2>4. f.wrote = 0
      BY <1>2, <2>2, <2>3, InHandNow DEF InHand, LeftOf
  <2>5. /\ aired \subseteq Lineup[v] /\ (kind \in {"url", "file"} => aired = Lineup[v])
        /\ Lineup[v] \subseteq Channel /\ Cardinality({}) = 0
      BY FS_EmptySet DEF GuidesAssumption, Fetched
  <2>6. AiredSoFar(r, {})'
      BY <1>1, <2>2, <2>3, <2>4, <2>5 DEF AiredSoFar
  <2>7. RenewedSoFar(r)'
      BY <2>3, <2>6 DEF RenewedSoFar, ChannelsSoFar
  <2> QED BY <1>1, <2>1, <2>2, <2>3, <2>7, RenewsOn
<1>4. ASSUME Set(r, Throws(r)) PROVE WholeInv'
  <2>1. WritesAlone(r, "fetch", Throws(r))
      BY <1>1, <1>4 DEF WritesAlone
  <2>2. Renewing(LeftOf(r)) /\ "fetch" \in LeftOf(r) /\ "blame" \notin LeftOf(r) /\ SoFar(r)
      BY <2>1, AloneTells, RoleTells, RenewalTells DEF Rows
  <2>3. ~mess => Whole
      BY <2>2 DEF SoFar
  <2>4. tasks[r].marks => row # NoRow
      BY <1>2, <2>2, InHandNow DEF InHand, LeftOf, SoFar
  <2>5. mess' \/ (~tasks[r].marks /\ Whole') \/ (tasks[r].marks /\ row' # NoRow /\ (IsSnapshot' \/ kind' = "url"))
      BY <1>1, <2>3, <2>4, WholeSame DEF Whole
  <2> QED BY <2>1, <2>5, ThrowsAlone
<1> QED BY <1>3, <1>4 DEF Fetch

LEMMA MidSync ==
    ASSUME NEW r, NEW h, NEW f, WritesAlone(r, h, f), h # "fetch", Renewing(LeftOf(r))
    PROVE  RenewedSoFar(r) /\ "fetch" \notin LeftOf(r) /\ tasks[r].version \in Version /\ Lineup[tasks[r].version] \subseteq Channel
<1>1. "fetch" \notin LeftOf(r)
    BY AloneTells, RenewalTells
<1>2. RenewedSoFar(r)
    BY <1>1, AloneTells DEF SoFar
<1>3. InHand(tasks[r], kind)
    BY AloneTells, InHandNow DEF WritesAlone
<1>4. tasks[r].version \in Version
    BY <1>1, <1>3 DEF InHand, LeftOf
<1> QED BY <1>1, <1>2, <1>4 DEF WritesAlone, GuidesAssumption

LEMMA FetchEachAlone ==
    ASSUME GuidesAssumption, IInv, IInv', WholeInv, NEW r \in Request, r \in solo, FetchEach(r)
    PROVE  WholeInv'
<1>1. /\ Statement(r, "fetchEach") /\ kind' = kind /\ begun' = begun /\ solo' = solo
      /\ row' = row /\ channels' = channels /\ programs' = programs
    BY DEF FetchEach, stored, Quietly, history
<1>2. PICK some \in SUBSET Lineup[tasks[r].version] : Set(r, [Next1(r) EXCEPT !.chosen = some])
    BY DEF FetchEach
<1>3. PICK f : f = [Next1(r) EXCEPT !.chosen = some]
    OBVIOUS
<1>4. WritesAlone(r, "fetchEach", f) /\ TasksOK
    BY <1>1, <1>2, <1>3 DEF WritesAlone, IInv
<1>5. /\ f.todo = Tail(tasks[r].todo) /\ f.version = tasks[r].version /\ f.chosen = some
      /\ f.wrote = tasks[r].wrote
    BY <1>1, <1>3, <1>4, Next1InHand DEF TaskType
<1>6. /\ "fetchEach" \in LeftOf(r) /\ LeftOf(r)' = LeftOf(r) \ {"fetchEach"} /\ tasks'[r] = f
      /\ Role(LeftOf(r), kind) /\ \A a \in LeftOf(r) : ~Before(a, "fetchEach")
    BY <1>4, <1>5, AloneTells
<1>7. Renewing(LeftOf(r))
    BY <1>6, RoleTells
<1>8. kind = "region" /\ "dropPrograms" \in LeftOf(r) /\ "addPrograms" \in LeftOf(r)
  <2>1. /\ "fetchEach" = "fetchEach" => kind = "region" /\ "dropPrograms" \in LeftOf(r)
        /\ "dropPrograms" \in LeftOf(r) => "addPrograms" \in LeftOf(r)
      BY <1>6, <1>7, RenewalTells
  <2> QED BY <2>1
<1>9. RenewedSoFar(r) /\ tasks[r].version \in Version
    BY <1>4, <1>7, MidSync
<1>10. PICK aired \in SUBSET Channel : AiredSoFar(r, aired)
    BY <1>9 DEF RenewedSoFar
<1>11. aired = {}
    BY <1>8, <1>10 DEF AiredSoFar
<1>12. AiredSoFar(r, aired)'
    BY <1>1, <1>2, <1>5, <1>6, <1>8, <1>10, <1>11 DEF AiredSoFar
<1>13. ChannelsSoFar(r)'
    BY <1>1, <1>5, <1>6, <1>9, ChannelsStay DEF RenewedSoFar
<1>14. RenewedSoFar(r)'
    BY <1>12, <1>13 DEF RenewedSoFar
<1> QED BY <1>1, <1>4, <1>5, <1>7, <1>14, RenewsOn

LEMMA DropChannelsAlone ==
    ASSUME GuidesAssumption, IInv, IInv', WholeInv, NEW r \in Request, r \in solo, DropChannels(r)
    PROVE  WholeInv'
<1>1. /\ Statement(r, "dropChannels") /\ kind' = kind /\ begun' = begun /\ solo' = solo
      /\ row' = row /\ programs' = programs /\ links' = links /\ Set(r, Next1(r))
      /\ channels' = [c \in Channel |-> NoVersion]
    BY DEF DropChannels, Quietly, history
<1>2. PICK f : f = Next1(r)
    OBVIOUS
<1>3. WritesAlone(r, "dropChannels", f) /\ TasksOK
    BY <1>1, <1>2 DEF WritesAlone, IInv
<1>4. /\ f.todo = Tail(tasks[r].todo) /\ f.version = tasks[r].version /\ f.chosen = tasks[r].chosen
      /\ f.wrote = tasks[r].wrote
    BY <1>1, <1>2, <1>3, Next1InHand
<1>5. /\ "dropChannels" \in LeftOf(r) /\ LeftOf(r)' = LeftOf(r) \ {"dropChannels"} /\ tasks'[r] = f
      /\ Role(LeftOf(r), kind) /\ SoFar(r) /\ \A a \in LeftOf(r) : ~Before(a, "dropChannels")
    BY <1>3, <1>4, AloneTells
<1>6. Stored' = {}
    BY <1>1 DEF Stored
<1>7. CASE Renewing(LeftOf(r))
  <2>1. "addChannels" \in LeftOf(r)
      BY <1>5, <1>7, RenewalTells
  <2>2. PICK aired \in SUBSET Channel : AiredSoFar(r, aired)
      BY <1>3, <1>7, MidSync DEF RenewedSoFar
  <2>3. AiredSoFar(r, aired)'
      BY <1>1, <1>4, <1>5, <2>2, AiredStays
  <2>4. RenewedSoFar(r)'
      BY <1>5, <1>6, <2>1, <2>3 DEF RenewedSoFar, ChannelsSoFar
  <2> QED BY <1>1, <1>3, <1>4, <1>7, <2>4, RenewsOn
<1>8. CASE ~Renewing(LeftOf(r))
  <2>1. /\ "dropRow" \in LeftOf(r) /\ LeftOf(r) \subseteq {"unlink", "dropPrograms", "dropChannels", "dropRow"}
      BY <1>5, <1>8, RoleTells
  <2>2. Linked' = Linked
      BY <1>1 DEF Linked
  <2>3. DeletedSoFar(r)'
      BY <1>1, <1>5, <1>6, <2>1, <2>2 DEF DeletedSoFar, SoFar
  <2>4. SoFar(r)'
      BY <1>5, <2>1, <2>3 DEF SoFar, Renewing
  <2>5. LeftOf(r)' # {}
      BY <1>5, <2>1
  <2> QED BY <1>3, <2>4, <2>5, AloneEnds
<1> QED BY <1>7, <1>8

LEMMA DropProgramsAlone ==
    ASSUME GuidesAssumption, IInv, IInv', WholeInv, NEW r \in Request, r \in solo, DropPrograms(r)
    PROVE  WholeInv'
<1>1. /\ Statement(r, "dropPrograms") /\ kind' = kind /\ begun' = begun /\ solo' = solo
      /\ row' = row /\ channels' = channels /\ links' = links /\ Set(r, Next1(r)) /\ programs' = {}
    BY DEF DropPrograms, Quietly, history
<1>2. PICK f : f = Next1(r)
    OBVIOUS
<1>3. WritesAlone(r, "dropPrograms", f) /\ TasksOK
    BY <1>1, <1>2 DEF WritesAlone, IInv
<1>4. /\ f.todo = Tail(tasks[r].todo) /\ f.version = tasks[r].version /\ f.chosen = tasks[r].chosen
      /\ f.wrote = tasks[r].wrote
    BY <1>1, <1>2, <1>3, Next1InHand
<1>5. /\ "dropPrograms" \in LeftOf(r) /\ LeftOf(r)' = LeftOf(r) \ {"dropPrograms"} /\ tasks'[r] = f
      /\ Role(LeftOf(r), kind) /\ SoFar(r) /\ \A a \in LeftOf(r) : ~Before(a, "dropPrograms")
    BY <1>3, <1>4, AloneTells
<1>6. Stored' = Stored /\ Linked' = Linked
    BY <1>1 DEF Stored, Linked
<1>7. CASE Renewing(LeftOf(r))
  <2>1. "addPrograms" \in LeftOf(r)
      BY <1>5, <1>7, RenewalTells
  <2>2. RenewedSoFar(r)
      BY <1>3, <1>7, MidSync
  <2>3. PICK aired \in SUBSET Channel : AiredSoFar(r, aired)
      BY <2>2 DEF RenewedSoFar
  <2>4. aired = {}
      BY <1>5, <2>3 DEF AiredSoFar
  <2>5. programs' = Airings(r, aired)'
      BY <1>1, <2>4 DEF Airings
  <2>6. AiredSoFar(r, aired)'
      BY <1>1, <1>4, <1>5, <2>1, <2>3, <2>5 DEF AiredSoFar
  <2>7. ChannelsSoFar(r)'
      BY <1>1, <1>4, <1>5, <2>2, ChannelsStay DEF RenewedSoFar
  <2>8. RenewedSoFar(r)'
      BY <2>6, <2>7 DEF RenewedSoFar
  <2> QED BY <1>1, <1>3, <1>4, <1>7, <2>8, RenewsOn
<1>8. CASE ~Renewing(LeftOf(r))
  <2>1. /\ "dropRow" \in LeftOf(r) /\ LeftOf(r) \subseteq {"unlink", "dropPrograms", "dropChannels", "dropRow"}
      BY <1>5, <1>8, RoleTells
  <2>2. DeletedSoFar(r)'
      BY <1>1, <1>5, <1>6, <2>1 DEF DeletedSoFar, SoFar
  <2>3. SoFar(r)'
      BY <1>5, <2>1, <2>2 DEF SoFar, Renewing
  <2>4. LeftOf(r)' # {}
      BY <1>5, <2>1
  <2> QED BY <1>3, <2>3, <2>4, AloneEnds
<1> QED BY <1>7, <1>8

LEMMA AddChannelsAlone ==
    ASSUME GuidesAssumption, IInv, IInv', WholeInv, NEW r \in Request, r \in solo, AddChannels(r)
    PROVE  WholeInv'
<1>1. /\ Statement(r, "addChannels") /\ kind' = kind /\ begun' = begun /\ solo' = solo
      /\ row' = row /\ programs' = programs
      /\ Set(r, IF Lineup[tasks[r].version] \cap Stored = {} THEN Next1(r) ELSE Throws(r))
      /\ channels' = [c \in Channel |-> IF c \in Lineup[tasks[r].version] \ Stored THEN tasks[r].version ELSE channels[c]]
    BY DEF AddChannels, Quietly, history
<1>2. PICK f : f = IF Lineup[tasks[r].version] \cap Stored = {} THEN Next1(r) ELSE Throws(r)
    OBVIOUS
<1>3. WritesAlone(r, "addChannels", f) /\ TasksOK
    BY <1>1, <1>2 DEF WritesAlone, IInv
<1>4. /\ "addChannels" \in LeftOf(r) /\ tasks'[r] = f
      /\ Role(LeftOf(r), kind) /\ SoFar(r) /\ \A a \in LeftOf(r) : ~Before(a, "addChannels")
    BY <1>3, AloneTells
<1>5. Renewing(LeftOf(r))
    BY <1>4, RoleTells
<1>6. "dropChannels" \notin LeftOf(r)
    BY <1>4, <1>5, RenewalTells
<1>7. RenewedSoFar(r)
    BY <1>3, <1>5, MidSync
<1>8. Stored = {}
    BY <1>4, <1>6, <1>7 DEF RenewedSoFar, ChannelsSoFar
<1>9. f = Next1(r)
    BY <1>2, <1>8
<1>10. /\ f.todo = Tail(tasks[r].todo) /\ f.version = tasks[r].version /\ f.chosen = tasks[r].chosen
       /\ f.wrote = tasks[r].wrote
    BY <1>1, <1>3, <1>9, Next1InHand
<1>11. LeftOf(r)' = LeftOf(r) \ {"addChannels"}
    BY <1>3, <1>10, AloneTells
<1>12. channels' = Filled(tasks[r].version)
    BY <1>1, <1>8 DEF Stored, Filled
<1>13. PICK aired \in SUBSET Channel : AiredSoFar(r, aired)
    BY <1>7 DEF RenewedSoFar
<1>14. AiredSoFar(r, aired)'
    BY <1>1, <1>4, <1>10, <1>11, <1>13, AiredStays
<1>15. ChannelsSoFar(r)'
    BY <1>4, <1>10, <1>11, <1>12 DEF ChannelsSoFar
<1>16. RenewedSoFar(r)'
    BY <1>14, <1>15 DEF RenewedSoFar
<1> QED BY <1>1, <1>3, <1>5, <1>10, <1>16, RenewsOn

(* A batch, or the last one.                                                  *)
LEMMA WritesOn ==
    ASSUME NEW r, NEW h, h \in {"batch", "addPrograms"}, NEW f, WritesAlone(r, h, f),
           NEW cs \in SUBSET tasks[r].chosen, h = "addPrograms" => cs = tasks[r].chosen,
           f.todo = Tail(tasks[r].todo), f.version = tasks[r].version,
           f.chosen = tasks[r].chosen \ cs, f.wrote = tasks[r].wrote + Cardinality(cs),
           row' = row, channels' = channels, programs' = programs \cup Airings(r, cs)
    PROVE  WholeInv'
<1>1. TasksOK /\ GuidesAssumption /\ r \in Request /\ Statement(r, h) /\ kind' = kind
    BY DEF WritesAlone, IInv
<1>2. /\ f.todo = Tail(tasks[r].todo) /\ f.version = tasks[r].version
      /\ f.chosen = tasks[r].chosen \ cs /\ f.wrote = tasks[r].wrote + Cardinality(cs)
    OBVIOUS
<1>3. /\ h \in LeftOf(r) /\ LeftOf(r)' = LeftOf(r) \ {h} /\ tasks'[r] = f
      /\ Role(LeftOf(r), kind) /\ \A a \in LeftOf(r) : ~Before(a, h)
    BY <1>2, AloneTells
<1>4. Renewing(LeftOf(r))
    BY <1>3, RoleTells
<1>5. "dropPrograms" \notin LeftOf(r)
    BY <1>3, <1>4, RenewalTells
<1>6. RenewedSoFar(r) /\ Lineup[tasks[r].version] \subseteq Channel
    BY <1>4, MidSync
<1>7. PICK aired \in SUBSET Channel : AiredSoFar(r, aired)
    BY <1>6 DEF RenewedSoFar
<1>8. /\ aired \cap tasks[r].chosen = {} /\ aired \cup tasks[r].chosen \subseteq Lineup[tasks[r].version]
      /\ kind \in {"url", "file"} => aired \cup tasks[r].chosen = Lineup[tasks[r].version]
      /\ tasks[r].wrote = Cardinality(aired) /\ programs = Airings(r, aired)
    BY <1>5, <1>7 DEF AiredSoFar
<1>9. aired \cup cs \in SUBSET Channel /\ aired \cap cs = {} /\ cs \in SUBSET Channel
    BY <1>6, <1>8
<1>10. Cardinality(aired \cup cs) = Cardinality(aired) + Cardinality(cs)
    BY <1>1, <1>9, CountingTwo
<1>11. programs' = Airings(r, aired \cup cs)'
  <2>1. \A x : Airings(r, x)' = Airings(r, x)
      BY <1>2, <1>3 DEF Airings
  <2>2. Airings(r, aired \cup cs) = Airings(r, aired) \cup Airings(r, cs)
      BY DEF Airings
  <2> QED BY <2>1, <2>2, <1>8
<1>12. /\ (aired \cup cs) \cap f.chosen = {} /\ (aired \cup cs) \cup f.chosen = aired \cup tasks[r].chosen
    BY <1>2, <1>8
<1>13. "addPrograms" \in LeftOf(r)' \/ f.chosen = {}
  <2>1. CASE h = "addPrograms"
      BY <2>1, <1>2
  <2>2. CASE h = "batch" /\ "addPrograms" \in LeftOf(r)
      BY <2>2, <1>3
  <2>3. CASE h = "batch" /\ "addPrograms" \notin LeftOf(r)
    <3>1. tasks[r].chosen = {}
        BY <2>3, <1>7 DEF AiredSoFar
    <3> QED BY <3>1, <1>2
  <2> QED BY <2>1, <2>2, <2>3
<1>14. AiredSoFar(r, aired \cup cs)'
    BY <1>1, <1>2, <1>3, <1>5, <1>8, <1>10, <1>11, <1>12, <1>13 DEF AiredSoFar
<1>15. ChannelsSoFar(r)'
    BY <1>2, <1>3, <1>6, ChannelsStay DEF RenewedSoFar
<1>16. RenewedSoFar(r)'
    BY <1>9, <1>14, <1>15 DEF RenewedSoFar
<1> QED BY <1>2, <1>4, <1>16, RenewsOn

LEMMA AddProgramsAlone ==
    ASSUME GuidesAssumption, IInv, IInv', WholeInv, NEW r \in Request, r \in solo, AddPrograms(r)
    PROVE  WholeInv'
<1>1. /\ Statement(r, "addPrograms") /\ kind' = kind /\ begun' = begun /\ solo' = solo
      /\ row' = row /\ channels' = channels /\ programs' = programs \cup Airings(r, tasks[r].chosen)
      /\ Set(r, [Wrote(r, tasks[r].chosen) EXCEPT !.todo = Tail(tasks[r].todo)])
    BY DEF AddPrograms, Quietly, history
<1>2. PICK f : f = [Wrote(r, tasks[r].chosen) EXCEPT !.todo = Tail(tasks[r].todo)]
    OBVIOUS
<1>3. WritesAlone(r, "addPrograms", f) /\ TasksOK
    BY <1>1, <1>2 DEF WritesAlone, IInv
<1>4. /\ f.todo = Tail(tasks[r].todo) /\ f.version = tasks[r].version
      /\ f.chosen = tasks[r].chosen \ tasks[r].chosen /\ f.wrote = tasks[r].wrote + Cardinality(tasks[r].chosen)
  <2>1. tasks[r] \in TaskType
      BY <1>3, InHandNow
  <2> QED BY <2>1, <1>2 DEF Wrote, TaskType
<1> QED BY <1>1, <1>3, <1>4, WritesOn

LEMMA BatchAlone ==
    ASSUME GuidesAssumption, IInv, IInv', WholeInv, NEW r \in Request, r \in solo, Batch(r)
    PROVE  WholeInv'
<1>1. /\ Statement(r, "batch") /\ kind' = kind /\ begun' = begun /\ solo' = solo
      /\ row' = row /\ channels' = channels
    BY DEF Batch
<1>2. PICK some \in SUBSET tasks[r].chosen :
         /\ programs' = programs \cup Airings(r, some)
         /\ \/ Set(r, [Wrote(r, some) EXCEPT !.todo = Tail(tasks[r].todo)]) /\ UNCHANGED mess
            \/ kind = "url" /\ Set(r, Throws(r)) /\ mess' = (mess \/ ~tasks[r].marks)
    BY DEF Batch
<1>3. CASE Set(r, [Wrote(r, some) EXCEPT !.todo = Tail(tasks[r].todo)])
  <2>1. PICK f : f = [Wrote(r, some) EXCEPT !.todo = Tail(tasks[r].todo)]
      OBVIOUS
  <2>2. WritesAlone(r, "batch", f) /\ TasksOK
      BY <1>1, <1>3, <2>1 DEF WritesAlone, IInv
  <2>3. /\ f.todo = Tail(tasks[r].todo) /\ f.version = tasks[r].version
        /\ f.chosen = tasks[r].chosen \ some /\ f.wrote = tasks[r].wrote + Cardinality(some)
    <3>1. tasks[r] \in TaskType
        BY <2>2, InHandNow
    <3> QED BY <3>1, <2>1 DEF Wrote, TaskType
  <2> QED BY <1>1, <1>2, <2>2, <2>3, WritesOn
<1>4. CASE kind = "url" /\ Set(r, Throws(r)) /\ mess' = (mess \/ ~tasks[r].marks)
  <2>1. WritesAlone(r, "batch", Throws(r)) /\ TasksOK
      BY <1>1, <1>4 DEF WritesAlone, IInv
  <2>2. SoFar(r) /\ Renewing(LeftOf(r)) /\ "blame" \notin LeftOf(r)
    <3>1. Role(LeftOf(r), kind) /\ "batch" \in LeftOf(r) /\ SoFar(r) /\ \A a \in LeftOf(r) : ~Before(a, "batch")
        BY <2>1, AloneTells
    <3>2. Renewing(LeftOf(r))
        BY <3>1, RoleTells
    <3>3. LeftOf(r) \subseteq Rows \cup {"upsert", "credit", "link"}
        BY <3>1, <3>2, RenewalTells
    <3> QED BY <3>1, <3>2, <3>3 DEF Rows
  <2>3. tasks[r].marks => row # NoRow
      BY <2>1, <2>2, InHandNow DEF InHand, LeftOf, SoFar
  <2>4. mess' \/ (tasks[r].marks /\ row' # NoRow /\ (IsSnapshot' \/ kind' = "url"))
      BY <1>1, <1>4, <2>3
  <2> QED BY <2>1, <2>4, ThrowsAlone
<1> QED BY <1>2, <1>3, <1>4

LEMMA SyncedWhole ==
    ASSUME RowAssumption, NEW r, NEW h \in {"upsert", "credit"}, NEW f, WritesAlone(r, h, f),
           row' = Good(r), channels' = channels, programs' = programs
    PROVE  IsSnapshot' /\ row' # NoRow /\ Whole'
<1> DEFINE v == tasks[r].version
<1>1. GuidesAssumption /\ r \in Request /\ TasksOK /\ Statement(r, h) /\ kind' = kind
    BY DEF WritesAlone, IInv
<1>2. h \in LeftOf(r) /\ Role(LeftOf(r), kind) /\ \A a \in LeftOf(r) : ~Before(a, h)
    BY AloneTells
<1>3. Renewing(LeftOf(r))
    BY <1>2, RoleTells
<1>4. LeftOf(r) \cap Rows = {}
    BY <1>2, <1>3, RenewalTells
<1>5. RenewedSoFar(r) /\ v \in Version /\ Lineup[v] \subseteq Channel
    BY <1>3, MidSync
<1>6. {"dropChannels", "addChannels", "dropPrograms", "addPrograms"} \cap LeftOf(r) = {}
    BY <1>4 DEF Rows
<1>7. channels = Filled(v)
    BY <1>5, <1>6 DEF RenewedSoFar, ChannelsSoFar
<1>8. PICK aired \in SUBSET Channel : AiredSoFar(r, aired)
    BY <1>5 DEF RenewedSoFar
<1>9. /\ aired \subseteq Lineup[v] /\ (kind \in {"url", "file"} => aired = Lineup[v])
      /\ tasks[r].wrote = Cardinality(aired) /\ programs = Airings(r, aired)
    BY <1>6, <1>8 DEF AiredSoFar
<1>10. Stored' = Lineup[v] /\ \A c \in Stored' : channels'[c] = v
  <2>1. Stored' = {c \in Channel : Filled(v)[c] # NoVersion}
      BY <1>7 DEF Stored
  <2>2. \A c \in Channel : Filled(v)[c] = IF c \in Lineup[v] THEN v ELSE NoVersion
      BY DEF Filled
  <2>3. v # NoVersion
      BY <1>1, <1>5 DEF GuidesAssumption
  <2>4. Stored' = Lineup[v]
      BY <2>1, <2>2, <2>3, <1>5
  <2> QED BY <2>2, <2>4, <1>5, <1>7
<1>11. row'.channels = Cardinality(Stored') /\ row'.programs = Cardinality(aired)
    BY <1>9, <1>10 DEF Good
<1>12. programs' = [channel : aired, version : {v}, by : {r}]
    BY <1>9 DEF Airings
<1>13. IsSnapshot'
    BY <1>1, <1>5, <1>9, <1>10, <1>11, <1>12 DEF IsSnapshot
<1>14. row' # NoRow
    BY <1>1, GoodTyped DEF RowAssumption
<1> QED BY <1>13, <1>14 DEF Whole

LEMMA UpsertAlone ==
    ASSUME GuidesAssumption, RowAssumption, IInv, IInv', WholeInv, NEW r \in Request, r \in solo, Upsert(r)
    PROVE  WholeInv'
<1>1. /\ Statement(r, "upsert") /\ kind' = kind /\ begun' = begun /\ solo' = solo
      /\ row' = Good(r) /\ channels' = channels /\ programs' = programs /\ Set(r, Next1(r))
    BY DEF Upsert
<1>2. PICK f : f = Next1(r)
    OBVIOUS
<1>3. WritesAlone(r, "upsert", f) /\ TasksOK
    BY <1>1, <1>2 DEF WritesAlone, IInv
<1>4. Whole' /\ row' # NoRow
    BY <1>1, <1>3, SyncedWhole
<1>5. f.todo = Tail(tasks[r].todo)
    BY <1>1, <1>2, <1>3, Next1InHand
<1>6. /\ "upsert" \in LeftOf(r) /\ LeftOf(r)' = LeftOf(r) \ {"upsert"}
      /\ Role(LeftOf(r), kind) /\ \A a \in LeftOf(r) : ~Before(a, "upsert")
    BY <1>3, <1>5, AloneTells
<1>7. Renewing(LeftOf(r))
    BY <1>6, RoleTells
<1>8. LeftOf(r)' \subseteq {"link"} /\ ("link" \in LeftOf(r)' => kind' = "self")
    BY <1>1, <1>6, <1>7, RenewalTells
<1>9. "link" \in LeftOf(r)' => LinkedSoFar(r)'
    BY <1>4, <1>8 DEF LinkedSoFar
<1>10. SoFar(r)'
    BY <1>8, <1>9 DEF SoFar, Renewing
<1> QED BY <1>3, <1>4, <1>10, AloneEnds

LEMMA CreditAlone ==
    ASSUME GuidesAssumption, RowAssumption, IInv, IInv', WholeInv, NEW r \in Request, r \in solo, Credit(r)
    PROVE  WholeInv'
<1>1. /\ Statement(r, "credit") /\ kind' = kind /\ begun' = begun /\ solo' = solo
      /\ row' = (IF row = NoRow THEN NoRow ELSE Good(r)) /\ channels' = channels /\ programs' = programs
      /\ Set(r, Done)
    BY DEF Credit
<1>2. WritesAlone(r, "credit", Done)
    BY <1>1 DEF WritesAlone
<1>3. row # NoRow
    BY <1>2, AloneTells DEF SoFar
<1>4. Whole'
    BY <1>1, <1>2, <1>3, SyncedWhole
<1>5. LeftOf(r)' = {}
    BY <1>2, AloneTells, LeftNone DEF Done
<1> QED BY <1>2, <1>4, <1>5, AloneEnds

LEMMA BlameAlone ==
    ASSUME GuidesAssumption, RowAssumption, IInv, IInv', WholeInv, NEW r \in Request, r \in solo, Blame(r)
    PROVE  WholeInv'
<1>1. /\ Statement(r, "blame") /\ kind' = kind /\ begun' = begun /\ solo' = solo /\ mess' = mess
      /\ row' = (IF row = NoRow THEN NoRow ELSE [row EXCEPT !.status = "error"])
      /\ channels' = channels /\ programs' = programs /\ links' = links /\ Set(r, Done)
    BY DEF Blame, Quietly, history
<1>2. WritesAlone(r, "blame", Done)
    BY <1>1 DEF WritesAlone
<1>3. LeftOf(r)' = {}
    BY <1>2, AloneTells, LeftNone DEF Done
<1>4. mess \/ (row # NoRow /\ (IsSnapshot \/ kind = "url"))
    BY <1>2, AloneTells DEF SoFar
<1>5. ASSUME row # NoRow, IsSnapshot \/ kind = "url" PROVE Whole'
  <2>1. row \in Row /\ row' = [row EXCEPT !.status = "error"]
      BY <1>1, <1>5 DEF IInv, StoredOK
  <2>2. /\ row'.status = "error" /\ row'.channels = row.channels /\ row'.programs = row.programs
        /\ row' \in Row
      BY <2>1 DEF Row
  <2>3. row' # NoRow
      BY <2>2 DEF RowAssumption
  <2>4. IsSnapshot => IsSnapshot'
    <3>1. Stored' = Stored
        BY <1>1 DEF Stored
    <3>2. kind' = kind /\ channels' = channels /\ programs' = programs
        BY <1>1
    <3>3. row'.channels = row.channels /\ row'.programs = row.programs
        BY <2>2
    <3> SUFFICES ASSUME IsSnapshot PROVE IsSnapshot'
        OBVIOUS
    <3>4. PICK v \in Version, q \in Request, aired \in SUBSET Channel :
            /\ Stored = Lineup[v] /\ \A c \in Stored : channels[c] = v
            /\ aired \subseteq Stored /\ (kind \in {"url", "file"} => aired = Stored)
            /\ programs = [channel : aired, version : {v}, by : {q}]
            /\ row.channels = Cardinality(Stored) /\ row.programs = Cardinality(aired)
        BY DEF IsSnapshot
    <3>5. /\ Stored' = Lineup[v] /\ \A c \in Stored' : channels'[c] = v
          /\ aired \subseteq Stored' /\ (kind' \in {"url", "file"} => aired = Stored')
          /\ programs' = [channel : aired, version : {v}, by : {q}]
        BY <3>1, <3>2, <3>4
    <3>6. row'.channels = Cardinality(Stored') /\ row'.programs = Cardinality(aired)
        BY <3>1, <3>3, <3>4
    <3> QED BY <3>5, <3>6 DEF IsSnapshot
  <2> QED BY <1>1, <1>5, <2>2, <2>3, <2>4 DEF Whole
<1> QED BY <1>1, <1>2, <1>3, <1>4, <1>5, AloneEnds

LEMMA DropRowAlone ==
    ASSUME GuidesAssumption, IInv, IInv', WholeInv, NEW r \in Request, r \in solo, DropRow(r)
    PROVE  WholeInv'
<1>1. /\ Statement(r, "dropRow") /\ kind' = kind /\ begun' = begun /\ solo' = solo
      /\ row' = NoRow /\ channels' = channels /\ programs' = programs /\ links' = links /\ Set(r, Done)
    BY DEF DropRow
<1>2. WritesAlone(r, "dropRow", Done)
    BY <1>1 DEF WritesAlone
<1>3. LeftOf(r)' = {}
    BY <1>2, AloneTells, LeftNone DEF Done
<1>4. LeftOf(r) = {"dropRow"}
    BY <1>2, AloneTells, RoleTells
<1>5. DeletedSoFar(r)
    BY <1>2, <1>4, AloneTells DEF SoFar
<1>6. Stored = {} /\ programs = {} /\ Linked = {}
    BY <1>4, <1>5 DEF DeletedSoFar
<1>7. Whole'
    BY <1>1, <1>6 DEF Whole, Stored, Linked
<1> QED BY <1>2, <1>3, <1>7, AloneEnds

LEMMA UnlinkAlone ==
    ASSUME GuidesAssumption, IInv, IInv', WholeInv, NEW r \in Request, r \in solo, Unlink(r)
    PROVE  WholeInv'
<1>1. /\ Statement(r, "unlink") /\ kind' = kind /\ begun' = begun /\ solo' = solo
      /\ channels' = channels /\ programs' = programs /\ Set(r, Next1(r))
      /\ links' = [c \in Channel |-> IF links[c] = "here" THEN "unmatched" ELSE links[c]]
    BY DEF Unlink, stored, history
<1>2. PICK f : f = Next1(r)
    OBVIOUS
<1>3. WritesAlone(r, "unlink", f) /\ TasksOK
    BY <1>1, <1>2 DEF WritesAlone, IInv
<1>4. f.todo = Tail(tasks[r].todo)
    BY <1>1, <1>2, <1>3, Next1InHand
<1>5. /\ "unlink" \in LeftOf(r) /\ LeftOf(r)' = LeftOf(r) \ {"unlink"} /\ SoFar(r)
      /\ Role(LeftOf(r), kind) /\ \A a \in LeftOf(r) : ~Before(a, "unlink")
    BY <1>3, <1>4, AloneTells
<1>6. "dropRow" \in LeftOf(r) /\ LeftOf(r) \subseteq {"unlink", "dropPrograms", "dropChannels", "dropRow"}
    BY <1>5, RoleTells
<1>7. Linked' = {} /\ Stored' = Stored
    BY <1>1 DEF Linked, Stored
<1>8. DeletedSoFar(r)'
    BY <1>1, <1>5, <1>6, <1>7 DEF DeletedSoFar, SoFar
<1>9. SoFar(r)'
    BY <1>5, <1>6, <1>8 DEF SoFar, Renewing
<1>10. LeftOf(r)' # {}
    BY <1>5, <1>6
<1> QED BY <1>3, <1>9, <1>10, AloneEnds

LEMMA PresentAlone ==
    ASSUME GuidesAssumption, IInv, IInv', WholeInv, NEW r \in Request, r \in solo, Present(r)
    PROVE  WholeInv'
<1>1. /\ Statement(r, "present") /\ kind' = kind /\ begun' = begun /\ solo' = solo /\ mess' = mess
      /\ row' = row /\ channels' = channels /\ programs' = programs /\ links' = links
      /\ Set(r, [Next1(r) EXCEPT !.chosen = Stored])
    BY DEF Present, stored, Quietly, history
<1>2. PICK f : f = [Next1(r) EXCEPT !.chosen = Stored]
    OBVIOUS
<1>3. WritesAlone(r, "present", f) /\ TasksOK
    BY <1>1, <1>2 DEF WritesAlone, IInv
<1>4. f.todo = Tail(tasks[r].todo) /\ f.chosen = Stored
    BY <1>1, <1>2, <1>3, Next1InHand DEF TaskType
<1>5. /\ "present" \in LeftOf(r) /\ LeftOf(r)' = LeftOf(r) \ {"present"} /\ SoFar(r) /\ tasks'[r] = f
      /\ Role(LeftOf(r), kind) /\ \A a \in LeftOf(r) : ~Before(a, "present")
    BY <1>3, <1>4, AloneTells
<1>6. LeftOf(r) = {"present", "link"} /\ kind = "grid"
    BY <1>5, RoleTells
<1>7. mess \/ Whole
    BY <1>5, <1>6 DEF SoFar, LinkedSoFar, Renewing
<1>8. Stored' = Stored /\ Whole' = Whole
    BY <1>1, WholeSame
<1>9. LinkedSoFar(r)'
    BY <1>1, <1>4, <1>5, <1>6, <1>7, <1>8 DEF LinkedSoFar
<1>10. LeftOf(r)' = {"link"}
    BY <1>5, <1>6
<1>11. SoFar(r)'
    BY <1>9, <1>10 DEF SoFar, Renewing
<1> QED BY <1>3, <1>10, <1>11, AloneEnds

LEMMA LinkAlone ==
    ASSUME GuidesAssumption, IInv, IInv', WholeInv, NEW r \in Request, r \in solo, Link(r)
    PROVE  WholeInv'
<1> DEFINE cs == IF kind = "self" THEN Lineup[tasks[r].version] ELSE tasks[r].chosen
<1>1. /\ Statement(r, "link") /\ kind' = kind /\ begun' = begun /\ solo' = solo /\ mess' = mess
      /\ row' = row /\ channels' = channels /\ programs' = programs /\ Set(r, Done)
      /\ links' = [c \in Channel |-> IF c \in cs /\ links[c] = "untouched" THEN "here" ELSE links[c]]
    BY DEF Link, stored, history
<1>2. WritesAlone(r, "link", Done)
    BY <1>1 DEF WritesAlone
<1>3. LeftOf(r)' = {}
    BY <1>2, AloneTells, LeftNone DEF Done
<1>4. LeftOf(r) = {"link"} /\ kind \in {"self", "grid"} /\ SoFar(r)
    BY <1>2, AloneTells, RoleTells
<1>5. LinkedSoFar(r)
    BY <1>4 DEF SoFar, Renewing
<1>6. Stored' = Stored /\ IsSnapshot' = IsSnapshot
  <2>1. Stored' = Stored
      BY <1>1 DEF Stored
  <2> QED BY <1>1, <2>1 DEF IsSnapshot
<1>7. ASSUME ~mess, row # NoRow PROVE Whole'
    BY <1>1, <1>5, <1>6, <1>7 DEF LinkedSoFar, Whole
<1>8. ASSUME ~mess, row = NoRow PROVE Whole'
  <2>1. Stored = {} /\ programs = {} /\ Linked = {}
      BY <1>5, <1>8 DEF LinkedSoFar, Whole
  <2>2. cs = {}
      BY <1>4, <1>5, <1>8, <2>1 DEF LinkedSoFar
  <2>3. Linked' = Linked
      BY <1>1, <2>2 DEF Linked
  <2> QED BY <1>1, <1>6, <1>8, <2>1, <2>3 DEF Whole
<1>9. mess' \/ Whole'
    BY <1>1, <1>7, <1>8
<1> QED BY <1>2, <1>3, <1>9, AloneEnds

-----------------------------------------------------------------------------
(* All that may happen.                                                       *)
LEMMA WholeInit ==
    ASSUME Init
    PROVE  WholeInv
<1>1. Running = {}
    BY DEF Init, Running, Done
<1>2. Numbered
    BY DEF Init, Numbered, Done
<1>3. Stored = {} /\ Linked = {}
    BY DEF Init, Stored, Linked
<1>4. GuideWhole
    BY <1>3 DEF GuideWhole, Init
<1> QED BY <1>1, <1>2, <1>4 DEF WholeInv, OneAlone

(* A request that writes begins: alone, or into the work of another.          *)
LEMMA WholeBegin ==
    ASSUME GuidesAssumption, IInv, IInv', WholeInv, NEW t, NEW m, BeginsAs(t, m)
    PROVE  WholeInv'
<1>1. PICK r : r = begun + 1
    OBVIOUS
<1>2. PICK f : f = [Done EXCEPT !.todo = t, !.marks = m]
    OBVIOUS
<1>3. /\ begun < MaxRequests /\ begun' = r /\ Set(r, f) /\ UNCHANGED <<kind, row, channels, programs, links>>
      /\ solo' = (IF Running = {} THEN {r} ELSE {}) /\ mess' = (mess \/ Running # {})
    BY <1>1, <1>2 DEF BeginsAs, Begin, stored
<1>4. begun \in Nat /\ r \in Request /\ Request \subseteq Nat
    BY <1>1, <1>3 DEF IInv, CountsOK, Request, GuidesAssumption
<1>5. f.todo = t
    BY <1>2 DEF Done
<1>6. TasksOK /\ TasksOK'
    BY DEF IInv
<1>7. /\ r \in Running' /\ LeftOf(r)' = Left(t) /\ r \notin Running
      /\ \A q \in Request : q # r => tasks'[q] = tasks[q] /\ (q \in Running' <=> q \in Running)
      /\ Running' \subseteq Request /\ Running \subseteq Request
  <2>1. Left(t) # {}
      BY DEF BeginsAs
  <2>2. r \notin Running
      BY <1>1, <1>4, RunningBegun DEF WholeInv
  <2> QED BY <2>1, <2>2, <1>3, <1>4, <1>5, <1>6, RunningStep
<1>8. Numbered'
  <2> SUFFICES ASSUME NEW q \in Request, q > begun' PROVE tasks'[q].todo = <<>> /\ q \notin solo'
      BY DEF Numbered
  <2>1. q # r /\ q > begun
      BY <1>1, <1>3, <1>4
  <2> QED BY <2>1, <1>3, <1>7 DEF WholeInv, Numbered
<1>9. GuideWhole'
    BY <1>7 DEF GuideWhole
<1>10. CASE Running # {}
  <2>1. OneAlone'
      BY <1>3, <1>10 DEF OneAlone
  <2> QED BY <1>8, <1>9, <2>1 DEF WholeInv
<1>11. CASE Running = {}
  <2>1. Running' = {r} /\ solo' = {r} /\ mess' = mess
      BY <1>3, <1>7, <1>11 DEF IInv, CountsOK
  <2>2. mess \/ Whole
      BY <1>11 DEF WholeInv, GuideWhole, Whole
  <2>3. mess' \/ Whole'
      BY <1>3, <2>1, <2>2, WholeSame
  <2>4. /\ Renewing(Left(t)) => "fetch" \in Left(t)
        /\ "credit" \in Left(t) => row # NoRow
        /\ "dropRow" \in Left(t) => {"unlink", "dropPrograms", "dropChannels"} \subseteq Left(t)
        /\ "link" \in Left(t) /\ ~Renewing(Left(t)) => kind = "grid" /\ "present" \in Left(t)
        /\ "blame" \notin Left(t)
      BY DEF BeginsAs
  <2>5. "dropRow" \in Left(t) => DeletedSoFar(r)'
      BY <1>7, <2>4 DEF DeletedSoFar
  <2>6. "link" \in Left(t) /\ ~Renewing(Left(t)) => LinkedSoFar(r)'
      BY <1>3, <1>7, <2>3, <2>4 DEF LinkedSoFar
  <2>7. SoFar(r)'
      BY <1>3, <1>7, <2>3, <2>4, <2>5, <2>6 DEF SoFar
  <2>8. OneAlone'
      BY <2>1, <2>7 DEF OneAlone
  <2> QED BY <1>8, <1>9, <2>8 DEF WholeInv
<1> QED BY <1>10, <1>11

LEMMA WholeEdit ==
    ASSUME IInv, WholeInv, NEW c \in Channel, NEW l \in {"untouched", "here", "elsewhere", "unmatched"}, Edit(c, l)
    PROVE  WholeInv'
<1>1. /\ UNCHANGED <<kind, row, channels, programs, tasks>> /\ begun' = begun + 1 /\ solo' = {}
      /\ mess' = (mess \/ Running # {}) /\ links' = [links EXCEPT ![c] = l] /\ (l = "here" => c \in Stored)
    BY DEF Edit, stored
<1>2. Running' = Running /\ begun \in Nat /\ Request \subseteq Nat
  <2>1. Running' = Running
      BY <1>1 DEF Running
  <2>2. begun \in Nat /\ Request \subseteq Nat
      BY DEF IInv, CountsOK, Request
  <2> QED BY <2>1, <2>2
<1>3. Numbered'
  <2> SUFFICES ASSUME NEW q \in Request, q > begun' PROVE tasks'[q].todo = <<>> /\ q \notin solo'
      BY DEF Numbered
  <2>1. q > begun /\ tasks' = tasks /\ solo' = {}
      BY <1>1, <1>2
  <2> QED BY <2>1 DEF WholeInv, Numbered
<1>4. OneAlone'
    BY <1>1, <1>2 DEF OneAlone
<1>5. GuideWhole'
  <2> SUFFICES ASSUME Running = {}, ~mess PROVE Whole'
      BY <1>1, <1>2 DEF GuideWhole, Whole
  <2>1. Whole
      BY DEF WholeInv, GuideWhole, Whole
  <2>2. Stored' = Stored
      BY <1>1 DEF Stored
  <2>3. IsSnapshot' = IsSnapshot
      BY <1>1, <2>2 DEF IsSnapshot
  <2>4. Stored = {} /\ Linked = {} => Linked' = {}
    <3>1. links \in [Channel -> {"untouched", "here", "elsewhere", "unmatched"}]
        BY DEF IInv, StoredOK
    <3> QED BY <1>1, <3>1 DEF Linked
  <2> QED BY <1>1, <2>1, <2>2, <2>3, <2>4 DEF Whole
<1> QED BY <1>3, <1>4, <1>5 DEF WholeInv

LEMMA WholeRestart ==
    ASSUME IInv, WholeInv, Restart
    PROVE  WholeInv'
<1>1. /\ \A r \in Request : tasks'[r].todo = <<>>
      /\ UNCHANGED <<kind, row, channels, programs, links, begun, solo>> /\ mess' = TRUE
    BY DEF Restart, stored, Done
<1>2. Running' = {}
    BY <1>1 DEF Running
<1>3. Numbered'
    BY <1>1 DEF WholeInv, Numbered
<1>4. GuideWhole'
    BY <1>1, WholeSame DEF WholeInv, GuideWhole, Whole
<1> QED BY <1>2, <1>3, <1>4 DEF WholeInv, OneAlone

LEMMA WholeFault ==
    ASSUME GuidesAssumption, IInv, IInv', WholeInv, NEW r \in Request, Fault(r)
    PROVE  WholeInv'
<1>1. /\ r \in Running /\ tasks[r].todo # <<>> /\ mess' = TRUE
      /\ Set(r, IF Statement(r, "blame") \/ Statement(r, "credit") THEN Done ELSE Throws(r))
      /\ UNCHANGED <<kind, row, channels, links, begun, solo>>
    BY DEF Fault, Running
<1>2. PICK f : f = IF Statement(r, "blame") \/ Statement(r, "credit") THEN Done ELSE Throws(r)
    OBVIOUS
<1>3. TasksOK /\ TasksOK' /\ InHand(tasks[r], kind)
    BY InHandNow DEF IInv
<1>4. Left(f.todo) = {} \/ Left(f.todo) = {"blame"}
  <2>1. f = Done \/ f = Throws(r)
      BY <1>2
  <2>2. f.todo = <<>> \/ f.todo = <<"blame">>
      BY <2>1, <1>3, ThrowsInHand, DoneInHand
  <2> QED BY <2>2, LeftNone
<1>5. Set(r, f)
    BY <1>1, <1>2
<1>6. CASE r \notin solo
    BY <1>1, <1>5, <1>6, Disturbed
<1>7. CASE r \in solo
  <2>1. LeftOf(r)' = Left(f.todo)
      BY <1>3, <1>5, RunningStep
  <2>2. Left(f.todo) # {} => SoFar(r)'
      BY <1>1, <1>4, <2>1, BlamedSoFar
  <2> QED BY <1>1, <1>5, <1>7, <2>2, Alone
<1> QED BY <1>6, <1>7

Writes(r) ==
    \/ Fetch(r) \/ FetchEach(r) \/ DropChannels(r) \/ DropPrograms(r) \/ AddChannels(r) \/ AddPrograms(r) \/ Batch(r)
    \/ Upsert(r) \/ Credit(r) \/ Blame(r) \/ DropRow(r) \/ Link(r) \/ Present(r) \/ Unlink(r)

LEMMA WholeDisturbed ==
    ASSUME IInv, IInv', WholeInv, NEW r \in Request, r \notin solo, Writes(r)
    PROVE  WholeInv'
<1>1. PICK h \in Word : Statement(r, h)
    BY DEF Writes, Fetch, FetchEach, DropChannels, DropPrograms, AddChannels, AddPrograms, Batch,
           Upsert, Credit, Blame, DropRow, Link, Present, Unlink, Word, Rows
<1>2. r \in Running
    BY <1>1 DEF Statement, Running
<1>3. mess
    BY <1>2 DEF WholeInv, OneAlone
<1>4. mess' = TRUE
  <2>1. CASE Batch(r)
      BY <1>3, <2>1 DEF Batch
  <2>2. CASE Upsert(r) \/ Credit(r) \/ DropRow(r)
      BY <2>2 DEF Upsert, Credit, DropRow
  <2>3. CASE Fetch(r) \/ FetchEach(r) \/ DropChannels(r) \/ DropPrograms(r) \/ AddChannels(r) \/ AddPrograms(r)
             \/ Blame(r) \/ Link(r) \/ Present(r) \/ Unlink(r)
    <3>1. mess' = mess
        BY <2>3 DEF Fetch, FetchEach, DropChannels, DropPrograms, AddChannels, AddPrograms,
                    Blame, Link, Present, Unlink, Quietly, history
    <3> QED BY <3>1, <1>3 DEF IInv, CountsOK
  <2> QED BY <2>1, <2>2, <2>3 DEF Writes
<1>5. begun' = begun /\ solo' = solo
    BY DEF Writes, Fetch, FetchEach, DropChannels, DropPrograms, AddChannels, AddPrograms, Batch,
           Upsert, Credit, Blame, DropRow, Link, Present, Unlink, Quietly, history
<1>6. \E f : Set(r, f)
    BY DEF Writes, Fetch, FetchEach, DropChannels, DropPrograms, AddChannels, AddPrograms, Batch,
           Upsert, Credit, Blame, DropRow, Link, Present, Unlink
<1> QED BY <1>2, <1>4, <1>5, <1>6, Disturbed

LEMMA WholeNext ==
    ASSUME GuidesAssumption, RowAssumption, IInv, IInv', WholeInv, [Next]_vars
    PROVE  WholeInv'
<1>1. CASE Create \/ Sync \/ Upload \/ PlaylistSync \/ Delete \/ Crosswalk
    BY <1>1, BeginsWell, WholeBegin
<1>3. CASE \E c \in Channel, l \in {"untouched", "here", "elsewhere", "unmatched"} : Edit(c, l)
    BY <1>3, WholeEdit
<1>4. ASSUME NEW r \in Request, Step(r) PROVE WholeInv'
  <2>2. CASE Writes(r) /\ r \notin solo
      BY <2>2, WholeDisturbed
  <2>3. CASE Writes(r) /\ r \in solo
      BY <2>3, FetchAlone, FetchEachAlone, DropChannelsAlone, DropProgramsAlone, AddChannelsAlone,
         AddProgramsAlone, BatchAlone, UpsertAlone, CreditAlone, BlameAlone, DropRowAlone, LinkAlone,
         PresentAlone, UnlinkAlone DEF Writes
  <2> QED BY <1>4, <2>2, <2>3 DEF Step, Writes
<1>5. ASSUME NEW r \in Request, Fault(r) PROVE WholeInv'
    BY <1>5, WholeFault
<1>6. CASE Restart
    BY <1>6, WholeRestart
<1>7. CASE UNCHANGED vars
  <2>1. UNCHANGED <<kind, row, channels, programs, links, mess>> /\ tasks' = tasks /\ begun' = begun /\ solo' = solo
      BY <1>7 DEF vars
  <2>2. Running' = Running /\ Numbered' = Numbered
      BY <2>1 DEF Running, Numbered
  <2>3. \A r : SoFar(r)' = SoFar(r)
      BY <2>1, SoFarSame
  <2>4. OneAlone' = OneAlone
      BY <2>1, <2>2, <2>3 DEF OneAlone
  <2>5. GuideWhole'
      BY <2>1, <2>2, WholeSame DEF WholeInv, GuideWhole, Whole
  <2> QED BY <2>2, <2>4, <2>5 DEF WholeInv
<1> QED BY <1>1, <1>3, <1>4, <1>5, <1>6, <1>7 DEF Next

(* fastSelfEpg, epgCrosswalk: the links change by three statements only.      *)
LEMMA TouchedStays ==
    ASSUME [Next]_vars, NEW c \in Channel, links'[c] # links[c]
    PROVE  links[c] = "untouched" \/ UNCHANGED tasks \/ (links[c] = "here" /\ links'[c] = "unmatched")
<1>1. CASE \E d \in Channel, l \in {"untouched", "here", "elsewhere", "unmatched"} : Edit(d, l)
    BY <1>1 DEF Edit
<1>2. ASSUME NEW r \in Request, Link(r) PROVE links[c] = "untouched"
    BY <1>2 DEF Link
<1>3. ASSUME NEW r \in Request, Unlink(r) PROVE links[c] = "here" /\ links'[c] = "unmatched"
    BY <1>3 DEF Unlink
<1>4. CASE Create \/ Sync \/ Upload \/ PlaylistSync \/ Delete \/ Crosswalk
    BY <1>4 DEF Create, Sync, Upload, PlaylistSync, Delete, Crosswalk, Begin
<1>5. ASSUME NEW r \in Request, Step(r) PROVE Link(r) \/ Unlink(r)
    BY <1>5 DEF Step, Quietly, Fetch, FetchEach, DropChannels, DropPrograms, AddChannels,
                AddPrograms, Batch, Upsert, Credit, Blame, DropRow, Present
<1>6. ASSUME NEW r \in Request, Fault(r) PROVE FALSE
    BY <1>6 DEF Fault
<1>7. CASE Restart
    BY <1>7 DEF Restart
<1>8. CASE UNCHANGED vars
    BY <1>8 DEF vars
<1> QED BY <1>1, <1>2, <1>3, <1>4, <1>5, <1>6, <1>7, <1>8 DEF Next

-----------------------------------------------------------------------------
(* An invariant of the types, as TypeOK is for all: no statement writes a     *)
(* programme of no snapshot, a row that counts more channels than there are,  *)
(* or a mark on a row that is gone.                                           *)
THEOREM TypesHold == Spec => []TypeOK
<1>1. Init => IInv
    BY GuidesAssumption, TypesInit
<1>2. IInv /\ [Next]_vars => IInv'
    BY GuidesAssumption, TypesNext
<1>3. IInv => TypeOK
    BY InvariantTypes
<1> QED BY <1>1, <1>2, <1>3, PTL DEF Spec

(* syncEpgSource.ts, fastSelfEpg.ts, routes/epgSources.ts: whatever faults,   *)
(* restarts and overlaps did before, a sync or a deletion that runs alone     *)
(* leaves what it fetched of one snapshot and nothing else, a marked url, or   *)
(* nothing: rows, counts, links.                                              *)
THEOREM GuideStaysWhole == Spec => []GuideWhole
<1>1. Init => IInv /\ WholeInv
    BY GuidesAssumption, TypesInit, WholeInit
<1>2. IInv /\ [Next]_vars => IInv'
    BY GuidesAssumption, TypesNext
<1>3. IInv /\ IInv' /\ WholeInv /\ [Next]_vars => WholeInv'
    BY GuidesAssumption, RowAssumption, WholeNext
<1>4. WholeInv => GuideWhole
    BY DEF WholeInv
<1> QED BY <1>1, <1>2, <1>3, <1>4, PTL DEF Spec

(* fastSelfEpg.ts "a user link/unlink is never overwritten": a channel an     *)
(* operator has touched changes by another edit, or is unlinked because its   *)
(* source goes.                                                               *)
THEOREM OperatorsChoice == Spec => ChoicesStick
<1>1. [Next]_vars => [\A c \in Channel : links'[c] # links[c] =>
         links[c] = "untouched" \/ UNCHANGED tasks \/ (links[c] = "here" /\ links'[c] = "unmatched")]_links
    BY TouchedStays
<1> QED BY <1>1, PTL DEF Spec, ChoicesStick
=============================================================================
