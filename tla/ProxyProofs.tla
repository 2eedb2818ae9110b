---------------------------- MODULE ProxyProofs ----------------------------
(***************************************************************************)
(* What two parts of the data plane guarantee: the sharing of tuners for   *)
(* any number of channels, players and tuners; the supervisor and the gate *)
(* of the edge for any restart budget, any times, any size of the cache    *)
(* and any number of keys and requests.                                    *)
(*                                                                         *)
(* Tuners.  The inductive invariant IInv adds HoldersOK to the properties: *)
(* who holds a connection that is not in the map yet, and that nobody      *)
(* shares it.  Without it the winner of a cold start could register a      *)
(* connection somebody else is about to drop.                              *)
(*                                                                         *)
(* Sidecar.  The inductive invariant SidecarInv has two parts that share   *)
(* no variable but proc.  SupervisorInv says that the budget is never      *)
(* ahead of the short runs, and that a child that was told to end is one   *)
(* somebody waits for.  GateInv bounds the age of what Node said by the    *)
(* age of what the sidecar knows: a call's answer by the call's, an        *)
(* entry's by the entry's and one call more.                               *)
(***************************************************************************)
EXTENDS TunerShare, Sidecar, FiniteSetTheorems, TLAPS

HoldersOK ==
    /\ \A t \in Tuner : tuners[t].state # "free" => tuners[t].chan \in Channel
    /\ \A c \in Client : clients[c].pc # "away" => clients[c].chan \in Channel
    /\ \A c \in Client : clients[c].pc = "opening" => clients[c].tuner = NoTuner
    /\ \A c \in Client : clients[c].pc \in {"starting", "watching"} => clients[c].tuner \in Tuner
    /\ \A c \in Client : clients[c].pc = "starting" =>
         /\ tuners[clients[c].tuner].state = "opened"
         /\ tuners[clients[c].tuner].chan = clients[c].chan
    /\ \A c, d \in Client : /\ clients[c].pc = "starting" /\ clients[d].pc = "starting"
                            /\ clients[c].tuner = clients[d].tuner
                            => c = d

IInv == TypeOK /\ MapIsPumps /\ HoldersOK /\ ViewersCounted

-----------------------------------------------------------------------------
(* Counting viewers. *)

LEMMA AttachedFinite ==
    ASSUME NEW t
    PROVE  IsFiniteSet(Attached(t)) /\ Cardinality(Attached(t)) \in Nat
<1>1. Attached(t) \in SUBSET Client BY DEF Attached
<1>2. IsFiniteSet(Client) BY TunerAssumption
<1>3. IsFiniteSet(Attached(t)) BY <1>1, <1>2, FS_Subset
<1> QED BY <1>3, FS_CardinalityType

(* One more viewer, one less, none: the three changes a step makes. *)
LEMMA OneMore ==
    ASSUME NEW S, IsFiniteSet(S), NEW c, c \notin S
    PROVE  Cardinality(S \cup {c}) = Cardinality(S) + 1
BY FS_AddElement

LEMMA OneLess ==
    ASSUME NEW S, IsFiniteSet(S), NEW c, c \in S
    PROVE  Cardinality(S \ {c}) = Cardinality(S) - 1
BY FS_RemoveElement

LEMMA NoneAttached ==
    ASSUME IInv, NEW t \in Tuner, tuners[t].state \in {"free", "opened"}
    PROVE  Attached(t) = {} /\ tuners[t].viewers = 0
<1>1. Attached(t) = {} BY DEF IInv, ViewersCounted, Attached
<1>2. tuners[t].viewers = Cardinality(Attached(t)) BY DEF IInv, ViewersCounted
<1> QED BY <1>1, <1>2, FS_EmptySet

(* The map never holds a connection somebody is still about to register. *)
LEMMA LiveIsRegistered ==
    ASSUME IInv, NEW ch \in Channel, live[ch] # NoTuner
    PROVE  live[ch] \in Tuner /\ Registered(live[ch]) /\ tuners[live[ch]].chan = ch
BY DEF IInv, TypeOK, MapIsPumps

-----------------------------------------------------------------------------
(* Types, the map and the holders, one action at a time. *)

Shape == TypeOK /\ MapIsPumps /\ HoldersOK

TunerRec == [state: {"free", "opened", "pumping", "expired", "ended", "closing"},
             chan: Channel \cup {NoChannel}, viewers: Nat, zeroFor: Busy..IdleTicks]

(* A step that rewrites one connection keeps the type of all. *)
LEMMA OneTuner ==
    ASSUME TypeOK, NEW t \in Tuner, NEW r \in TunerRec, tuners' = [tuners EXCEPT ![t] = r]
    PROVE  tuners' \in [Tuner -> TunerRec]
BY DEF TypeOK, TunerRec

LEMMA InitShape == Init => Shape
BY TunerAssumption DEF Init, Shape, TypeOK, MapIsPumps, HoldersOK, Registered, FreeTuner, Away, Busy

LEMMA RequestShape ==
    ASSUME IInv, NEW c \in Client, Request(c)
    PROVE  Shape'
<1> USE TunerAssumption DEF Busy
<1>0. Shape BY DEF IInv, Shape
<1>1. ASSUME NEW ch \in Channel, Join(c, ch) PROVE Shape'
  <2>1. live[ch] \in Tuner /\ Registered(live[ch]) /\ tuners[live[ch]].chan = ch
    BY <1>1, LiveIsRegistered DEF Join
  <2>2. TypeOK' BY <1>0, <1>1, <2>1 DEF Shape, TypeOK, Join, Watch
  <2>3. MapIsPumps' BY <1>0, <1>1, <2>1 DEF Shape, TypeOK, MapIsPumps, Registered, Join, Watch
  <2>4. HoldersOK' BY <1>0, <1>1, <2>1 DEF Shape, TypeOK, HoldersOK, Registered, Join, Watch
  <2> QED BY <2>2, <2>3, <2>4 DEF Shape
<1>2. ASSUME NEW ch \in Channel, JoinMisses(c, ch) PROVE Shape'
  BY <1>0, <1>2 DEF Shape, TypeOK, MapIsPumps, HoldersOK, Registered, JoinMisses
<1>3. CASE Open(c)
  <2>1. PICK t \in Tuner :
            /\ tuners[t].state = "free"
            /\ tuners' = [tuners EXCEPT ![t] = Opened(clients[c].chan)]
            /\ clients' = [clients EXCEPT ![c] =
                   [pc |-> "starting", chan |-> clients[c].chan, tuner |-> t]]
    BY <1>3 DEF Open
  <2>2. clients[c].pc = "opening" /\ clients[c].chan \in Channel /\ live' = live
    BY <1>0, <1>3 DEF Open, Shape, HoldersOK
  <2>3. TypeOK'
    <3>1. Opened(clients[c].chan) \in TunerRec BY <2>2 DEF Opened, TunerRec
    <3>2. tuners' \in [Tuner -> TunerRec] BY <1>0, <2>1, <3>1, OneTuner DEF Shape
    <3> QED BY <1>0, <2>1, <2>2, <3>2 DEF Shape, TypeOK, TunerRec
  <2>4. MapIsPumps' BY <1>0, <2>1, <2>2 DEF Shape, TypeOK, MapIsPumps, Registered, Opened
  <2>5. clients'[c].pc = "starting" /\ clients'[c].tuner = t /\ clients'[c].chan = clients[c].chan
    BY <1>0, <2>1 DEF Shape, TypeOK
  <2>6. \A d \in Client \ {c} : clients'[d] = clients[d]
    BY <1>0, <2>1 DEF Shape, TypeOK
  <2>7. /\ tuners'[t].state = "opened" /\ tuners'[t].chan = clients[c].chan
        /\ \A u \in Tuner \ {t} : tuners'[u] = tuners[u]
    BY <1>0, <2>1 DEF Shape, TypeOK, Opened
  <2>8. \A d \in Client : clients[d].pc \in {"starting", "watching"} => clients[d].tuner # t
    BY <1>0, <2>1 DEF Shape, HoldersOK, IInv, ViewersCounted
  <2>9. HoldersOK' BY <1>0, <2>2, <2>5, <2>6, <2>7, <2>8 DEF Shape, HoldersOK
  <2> QED BY <2>3, <2>4, <2>9 DEF Shape
<1>4. CASE OpenFails(c)
  BY <1>0, <1>4 DEF Shape, TypeOK, MapIsPumps, HoldersOK, Registered, OpenFails, Away
<1>5. CASE JoinsWinner(c)
  <2> DEFINE t == clients[c].tuner
             w == live[clients[c].chan]
  <2>1. clients[c].chan \in Channel /\ t \in Tuner /\ tuners[t].state = "opened"
    BY <1>0, <1>5 DEF JoinsWinner, Shape, HoldersOK
  <2>2. w \in Tuner /\ Registered(w) /\ tuners[w].chan = clients[c].chan /\ w # t
    BY <1>5, <2>1, LiveIsRegistered DEF JoinsWinner, Registered
  <2>3. /\ tuners'[t] = FreeTuner
        /\ tuners'[w] = [tuners[w] EXCEPT !.viewers = @ + 1]
        /\ \A u \in Tuner \ {t, w} : tuners'[u] = tuners[u]
        /\ DOMAIN tuners' = Tuner /\ tuners' = [u \in Tuner |-> tuners'[u]]
    BY <1>0, <1>5, <2>1, <2>2 DEF JoinsWinner, Shape, TypeOK
  <2>4. /\ clients'[c] = [pc |-> "watching", chan |-> clients[c].chan, tuner |-> w]
        /\ \A d \in Client \ {c} : clients'[d] = clients[d]
        /\ clients' = [d \in Client |-> clients'[d]]
    BY <1>0, <1>5 DEF JoinsWinner, Watch, Shape, TypeOK
  <2>5. live' = live BY <1>5 DEF JoinsWinner
  <2> HIDE DEF t, w
  <2>6. TypeOK'
    <3>1. \A u \in Tuner : tuners'[u] \in
              [state: {"free", "opened", "pumping", "expired", "ended", "closing"},
               chan: Channel \cup {NoChannel}, viewers: Nat, zeroFor: Busy..IdleTicks]
      BY <1>0, <2>1, <2>2, <2>3 DEF Shape, TypeOK, FreeTuner
    <3>2. \A d \in Client : clients'[d] \in
              [pc: {"away", "opening", "starting", "watching"},
               chan: Channel \cup {NoChannel}, tuner: Tuner \cup {NoTuner}]
      BY <1>0, <2>1, <2>2, <2>4 DEF Shape, TypeOK
    <3> QED BY <1>0, <3>1, <3>2, <2>3, <2>4, <2>5 DEF Shape, TypeOK
  <2>7. \A u \in Tuner : Registered(u)' <=> Registered(u)
    BY <1>0, <2>1, <2>2, <2>3 DEF Registered, FreeTuner, Shape, TypeOK
  <2>8. \A u \in Tuner \ {t} : tuners'[u].chan = tuners[u].chan /\ tuners'[u].state = tuners[u].state
    BY <1>0, <2>2, <2>3 DEF Shape, TypeOK
  <2>9. MapIsPumps' BY <1>0, <2>1, <2>5, <2>7, <2>8 DEF Shape, MapIsPumps, Registered
  <2>10. \A d \in Client \ {c} : clients[d].pc \in {"starting", "watching"} => clients[d].tuner # t
    BY <1>0, <1>5, <2>1 DEF Shape, HoldersOK, IInv, ViewersCounted, JoinsWinner, t
  <2>11. HoldersOK'
    BY <1>0, <2>1, <2>2, <2>3, <2>4, <2>8, <2>10 DEF Shape, HoldersOK, FreeTuner, Registered
  <2> QED BY <2>6, <2>9, <2>11 DEF Shape
<1>6. CASE clients[c].pc = "starting" /\ live[clients[c].chan] = NoTuner /\ Registers(c)
  <2> DEFINE t == clients[c].tuner
  <2>1. clients[c].chan \in Channel /\ t \in Tuner /\ tuners[t].state = "opened"
        /\ tuners[t].chan = clients[c].chan
    BY <1>0, <1>6 DEF Shape, HoldersOK
  <2>2. TypeOK' BY <1>0, <1>6, <2>1 DEF Shape, TypeOK, Registers, Watch
  <2>3. MapIsPumps' BY <1>0, <1>6, <2>1 DEF Shape, TypeOK, MapIsPumps, Registered, Registers, Watch
  <2>4. HoldersOK'
    BY <1>0, <1>6, <2>1, SMTT(40) DEF Shape, TypeOK, HoldersOK, Registered, Registers, Watch
  <2> QED BY <2>2, <2>3, <2>4 DEF Shape
<1>7. CASE Abandon(c)
  <2>1. CASE clients[c].tuner = NoTuner
    BY <1>0, <1>7, <2>1 DEF Shape, TypeOK, MapIsPumps, HoldersOK, Registered, Abandon, Away
  <2>2. CASE clients[c].tuner # NoTuner
    <3> DEFINE t == clients[c].tuner
    <3>1. clients[c].pc = "starting" /\ t \in Tuner /\ tuners[t].state = "opened"
      BY <1>0, <1>7, <2>2 DEF Shape, HoldersOK, Abandon
    <3>2. /\ tuners' = [tuners EXCEPT ![t] = FreeTuner]
          /\ clients' = [clients EXCEPT ![c] = Away] /\ live' = live
      BY <1>7, <2>2 DEF Abandon
    <3>3. TypeOK' BY <1>0, <3>1, <3>2 DEF Shape, TypeOK, FreeTuner, Away
    <3>4. MapIsPumps' BY <1>0, <3>1, <3>2 DEF Shape, TypeOK, MapIsPumps, Registered, FreeTuner
    <3>5. \A d \in Client \ {c} : clients[d].pc \in {"starting", "watching"} => clients[d].tuner # t
      BY <1>0, <3>1 DEF Shape, HoldersOK, IInv, ViewersCounted
    <3>6. HoldersOK' BY <1>0, <3>1, <3>2, <3>5 DEF Shape, TypeOK, HoldersOK, FreeTuner, Away
    <3> QED BY <3>3, <3>4, <3>6 DEF Shape
  <2> QED BY <2>1, <2>2
<1>8. CASE Leave(c)
  <2> DEFINE t == clients[c].tuner
  <2>1. t \in Tuner /\ clients[c].pc = "watching" BY <1>0, <1>8 DEF Shape, HoldersOK, Leave
  <2>2. tuners[t].viewers \in Nat \ {0}
    <3>1. c \in Attached(t) BY <2>1 DEF Attached
    <3>2. tuners[t].viewers = Cardinality(Attached(t)) BY <2>1 DEF IInv, ViewersCounted
    <3>3. IsFiniteSet(Attached(t)) /\ Cardinality(Attached(t)) \in Nat BY AttachedFinite
    <3> QED BY <3>1, <3>2, <3>3, FS_EmptySet
  <2>3. TypeOK'
    <3> DEFINE r == [tuners[t] EXCEPT !.viewers = @ - 1]
    <3>1. tuners[t] \in TunerRec BY <1>0, <2>1 DEF Shape, TypeOK, TunerRec
    <3>2. tuners[t].viewers - 1 \in Nat BY <2>2
    <3>3. r \in TunerRec BY <3>1, <3>2 DEF TunerRec
    <3>4. tuners' = [tuners EXCEPT ![t] = r] BY <1>8 DEF Leave
    <3>5. tuners' \in [Tuner -> TunerRec] BY <1>0, <2>1, <3>3, <3>4, OneTuner DEF Shape
    <3> QED BY <1>0, <1>8, <3>5 DEF Shape, TypeOK, TunerRec, Leave, Away
  <2>4. MapIsPumps' BY <1>0, <1>8, <2>1 DEF Shape, TypeOK, MapIsPumps, Registered, Leave
  <2>5. HoldersOK' BY <1>0, <1>8, <2>1 DEF Shape, TypeOK, HoldersOK, Leave, Away
  <2> QED BY <2>3, <2>4, <2>5 DEF Shape
<1> QED BY <1>1, <1>2, <1>3, <1>4, <1>5, <1>6, <1>7, <1>8 DEF Request, Start

LEMMA PumpShape ==
    ASSUME IInv, NEW t \in Tuner, Pump(t) \/ UpstreamEnds(t)
    PROVE  Shape'
<1> USE TunerAssumption DEF Busy
<1>0. Shape BY DEF IInv, Shape
<1>1. CASE PumpCheck(t)
  <2> DEFINE zero == IF tuners[t].viewers > 0 THEN Busy
                     ELSE IF tuners[t].zeroFor = Busy THEN 0 ELSE tuners[t].zeroFor
             state == IF zero = IdleTicks THEN "expired" ELSE tuners[t].state
             r == [tuners[t] EXCEPT !.zeroFor = zero, !.state = state]
  <2>1. tuners[t] \in TunerRec /\ tuners[t].state = "pumping"
    BY <1>0, <1>1 DEF Shape, TypeOK, TunerRec, PumpCheck
  <2>2. zero \in Busy..IdleTicks BY <2>1 DEF TunerRec
  <2>3. tuners' = [tuners EXCEPT ![t] = r] /\ live' = live /\ clients' = clients
    BY <1>1 DEF PumpCheck
  <2>4. state \in {"pumping", "expired"} BY <2>1
  <2> HIDE DEF zero, state
  <2>5. r \in TunerRec /\ r.state = state /\ r.chan = tuners[t].chan BY <2>1, <2>2, <2>4 DEF TunerRec
  <2> HIDE DEF r
  <2>6. TypeOK' BY <1>0, <2>3, <2>5, OneTuner DEF Shape, TypeOK, TunerRec
  <2>7. tuners'[t] = r /\ \A u \in Tuner \ {t} : tuners'[u] = tuners[u]
    BY <1>0, <2>3 DEF Shape, TypeOK
  <2>8. MapIsPumps' BY <1>0, <2>1, <2>3, <2>4, <2>5, <2>7 DEF Shape, MapIsPumps, Registered
  <2>9. HoldersOK' BY <1>0, <2>1, <2>3, <2>4, <2>5, <2>7 DEF Shape, HoldersOK
  <2> QED BY <2>6, <2>8, <2>9 DEF Shape
<1>2. CASE UpstreamEnds(t)
  BY <1>0, <1>2 DEF Shape, TypeOK, MapIsPumps, HoldersOK, Registered, UpstreamEnds
<1>3. CASE Remove(t)
  <2>1. TypeOK' BY <1>0, <1>3 DEF Shape, TypeOK, Remove
  <2>2. MapIsPumps' BY <1>0, <1>3 DEF Shape, TypeOK, MapIsPumps, HoldersOK, Registered, Remove
  <2>3. HoldersOK' BY <1>0, <1>3 DEF Shape, TypeOK, HoldersOK, Remove
  <2> QED BY <2>1, <2>2, <2>3 DEF Shape
<1>4. CASE Close(t)
  <2>1. TypeOK' BY <1>0, <1>4 DEF Shape, TypeOK, Close, FreeTuner, Away
  <2>2. MapIsPumps' BY <1>0, <1>4 DEF Shape, TypeOK, MapIsPumps, Registered, Close, FreeTuner
  <2>3. \A d \in Client : \/ clients'[d] = Away
                          \/ clients'[d] = clients[d] /\ d \notin Attached(t)
    <3> DEFINE left(d) == IF d \in Attached(t) THEN Away ELSE clients[d]
    <3>1. clients' = [d \in Client |-> left(d)] BY <1>4 DEF Close
    <3>2. \A d \in Client : clients'[d] = left(d) BY <3>1
    <3> QED BY <3>2
  <2>4. \A d \in Client : clients[d].pc = "starting" => clients[d].tuner # t
    BY <1>0, <1>4 DEF Shape, HoldersOK, Close
  <2>5. /\ tuners'[t] = FreeTuner
        /\ \A u \in Tuner \ {t} : tuners'[u] = tuners[u]
    BY <1>0, <1>4 DEF Shape, TypeOK, Close
  <2>6. HoldersOK' BY <1>0, <2>3, <2>4, <2>5 DEF Shape, HoldersOK, Attached, FreeTuner, Away
  <2> QED BY <2>1, <2>2, <2>6 DEF Shape
<1> QED BY <1>1, <1>2, <1>3, <1>4 DEF Pump

LEMMA TickShape == IInv /\ Tick => Shape'
<1> SUFFICES ASSUME IInv, Tick PROVE Shape'
  OBVIOUS
<1>1. /\ \A t \in Tuner : /\ tuners'[t].state = tuners[t].state
                          /\ tuners'[t].chan = tuners[t].chan
                          /\ tuners'[t].viewers = tuners[t].viewers
      /\ live' = live /\ clients' = clients
  BY DEF Tick, IInv, TypeOK
<1>2. TypeOK' BY TunerAssumption DEF Tick, IInv, TypeOK, Busy
<1>3. MapIsPumps' BY <1>1 DEF IInv, MapIsPumps, Registered
<1>4. HoldersOK' BY <1>1 DEF IInv, HoldersOK
<1> QED BY <1>2, <1>3, <1>4 DEF Shape

-----------------------------------------------------------------------------
(* Who watches what, one action at a time. *)

LEMMA CountFollows ==
    ASSUME IInv, NEW t \in Tuner,
           \/ Attached(t)' = Attached(t) /\ tuners'[t].viewers = tuners[t].viewers
           \/ \E c \in Client \ Attached(t) : /\ Attached(t)' = Attached(t) \cup {c}
                                             /\ tuners'[t].viewers = tuners[t].viewers + 1
           \/ \E c \in Attached(t) : /\ Attached(t)' = Attached(t) \ {c}
                                    /\ tuners'[t].viewers = tuners[t].viewers - 1
           \/ Attached(t)' = {} /\ tuners'[t].viewers = 0
    PROVE  tuners'[t].viewers = Cardinality(Attached(t)')
<1>1. tuners[t].viewers = Cardinality(Attached(t)) BY DEF IInv, ViewersCounted
<1>2. IsFiniteSet(Attached(t)) BY AttachedFinite
<1>3. CASE Attached(t)' = Attached(t) /\ tuners'[t].viewers = tuners[t].viewers
  BY <1>1, <1>3
<1>4. ASSUME NEW c \in Client \ Attached(t), Attached(t)' = Attached(t) \cup {c},
             tuners'[t].viewers = tuners[t].viewers + 1
      PROVE  tuners'[t].viewers = Cardinality(Attached(t)')
  BY <1>1, <1>2, <1>4, OneMore
<1>5. ASSUME NEW c \in Attached(t), Attached(t)' = Attached(t) \ {c},
             tuners'[t].viewers = tuners[t].viewers - 1
      PROVE  tuners'[t].viewers = Cardinality(Attached(t)')
  BY <1>1, <1>2, <1>5, OneLess
<1>6. CASE Attached(t)' = {} /\ tuners'[t].viewers = 0
  BY <1>6, FS_EmptySet
<1> QED BY <1>3, <1>4, <1>5, <1>6

(* A step that changes at most the viewers of t. *)
LEMMA CountsElsewhere ==
    ASSUME IInv, NEW t \in Tuner, tuners'[t].viewers = Cardinality(Attached(t)'),
           \A u \in Tuner \ {t} : Attached(u)' = Attached(u) /\ tuners'[u].viewers = tuners[u].viewers
    PROVE  \A u \in Tuner : tuners'[u].viewers = Cardinality(Attached(u)')
BY CountFollows

(* A player starts to watch w; another connection t may be dropped unheard. *)
LEMMA Watches ==
    ASSUME IInv, NEW c \in Client, clients[c].pc # "watching",
           NEW ch \in Channel, NEW w \in Tuner, Watch(c, ch, w)
    PROVE  /\ Attached(w)' = Attached(w) \cup {c} /\ c \notin Attached(w)
           /\ \A u \in Tuner \ {w} : Attached(u)' = Attached(u)
<1>1. /\ clients'[c] = [pc |-> "watching", chan |-> ch, tuner |-> w]
      /\ \A d \in Client \ {c} : clients'[d] = clients[d]
  BY DEF Watch, IInv, TypeOK
<1> QED BY <1>1 DEF Attached

(* Nobody starts or stops watching. *)
LEMMA SameViewers ==
    ASSUME IInv, NEW c \in Client, clients[c].pc # "watching", clients'[c].pc # "watching",
           \A d \in Client \ {c} : clients'[d] = clients[d]
    PROVE  \A t \in Tuner : Attached(t)' = Attached(t)
BY DEF Attached

LEMMA RequestCounts ==
    ASSUME IInv, NEW c \in Client, Request(c)
    PROVE  \A t \in Tuner : tuners'[t].viewers = Cardinality(Attached(t)')
<1>1. ASSUME NEW ch \in Channel, Join(c, ch)
      PROVE  \A t \in Tuner : tuners'[t].viewers = Cardinality(Attached(t)')
  <2>1. PICK w \in Tuner : w = live[ch] BY <1>1, LiveIsRegistered DEF Join
  <2>2. /\ Attached(w)' = Attached(w) \cup {c} /\ c \notin Attached(w)
        /\ \A u \in Tuner \ {w} : Attached(u)' = Attached(u)
    BY <1>1, <2>1, Watches DEF Join
  <2>3. /\ tuners'[w].viewers = tuners[w].viewers + 1
        /\ \A u \in Tuner \ {w} : tuners'[u].viewers = tuners[u].viewers
    BY <1>1, <2>1 DEF Join, IInv, TypeOK
  <2> QED BY <2>1, <2>2, <2>3, CountFollows
<1>2. ASSUME NEW ch \in Channel, JoinMisses(c, ch)
      PROVE  \A t \in Tuner : tuners'[t].viewers = Cardinality(Attached(t)')
  <2>1. \A t \in Tuner : Attached(t)' = Attached(t)
    BY <1>2, SameViewers DEF JoinMisses, IInv, TypeOK
  <2> QED BY <1>2, <2>1, CountFollows DEF JoinMisses
<1>3. CASE Open(c)
  <2>1. PICK t \in Tuner :
            /\ tuners[t].state = "free"
            /\ tuners' = [tuners EXCEPT ![t] = Opened(clients[c].chan)]
            /\ clients' = [clients EXCEPT ![c] =
                   [pc |-> "starting", chan |-> clients[c].chan, tuner |-> t]]
    BY <1>3 DEF Open
  <2>2. \A u \in Tuner : Attached(u)' = Attached(u)
    BY <1>3, <2>1, SameViewers DEF Open, IInv, TypeOK
  <2>3. \A u \in Tuner : tuners'[u].viewers = tuners[u].viewers
    BY <2>1, NoneAttached DEF IInv, TypeOK, Opened
  <2> QED BY <2>2, <2>3, CountFollows
<1>4. CASE OpenFails(c)
  <2>1. \A t \in Tuner : Attached(t)' = Attached(t)
    BY <1>4, SameViewers DEF OpenFails, IInv, TypeOK, Away
  <2> QED BY <1>4, <2>1, CountFollows DEF OpenFails
<1>5. CASE JoinsWinner(c)
  <2>0. PICK ch \in Channel : ch = clients[c].chan
    BY <1>5 DEF JoinsWinner, IInv, HoldersOK
  <2>1. PICK t \in Tuner : t = clients[c].tuner /\ tuners[t].state = "opened"
    BY <1>5 DEF JoinsWinner, IInv, HoldersOK
  <2>2. PICK w \in Tuner : w = live[ch] /\ w # t
    BY <1>5, <2>0, <2>1, LiveIsRegistered DEF JoinsWinner, Registered
  <2>3. /\ Attached(w)' = Attached(w) \cup {c} /\ c \notin Attached(w)
        /\ \A u \in Tuner \ {w} : Attached(u)' = Attached(u)
    BY <1>5, <2>0, <2>2, Watches DEF JoinsWinner
  <2>4. /\ tuners'[w].viewers = tuners[w].viewers + 1
        /\ tuners'[t].viewers = 0
        /\ \A u \in Tuner \ {t, w} : tuners'[u].viewers = tuners[u].viewers
    BY <1>5, <2>0, <2>1, <2>2 DEF JoinsWinner, IInv, TypeOK, FreeTuner
  <2>5. tuners[t].viewers = 0 BY <2>1, NoneAttached
  <2> QED BY <2>2, <2>3, <2>4, <2>5, CountFollows
<1>6. CASE clients[c].pc = "starting" /\ live[clients[c].chan] = NoTuner /\ Registers(c)
  <2>0. PICK ch \in Channel : ch = clients[c].chan BY <1>6 DEF IInv, HoldersOK
  <2>1. PICK t \in Tuner : t = clients[c].tuner /\ tuners[t].state = "opened"
    BY <1>6 DEF IInv, HoldersOK
  <2>2. /\ Attached(t)' = Attached(t) \cup {c} /\ c \notin Attached(t)
        /\ \A u \in Tuner \ {t} : Attached(u)' = Attached(u)
    BY <1>6, <2>0, <2>1, Watches DEF Registers
  <2>3. /\ tuners'[t].viewers = 1
        /\ \A u \in Tuner \ {t} : tuners'[u].viewers = tuners[u].viewers
    BY <1>6, <2>1 DEF Registers, IInv, TypeOK
  <2>4. tuners[t].viewers = 0 BY <2>1, NoneAttached
  <2> QED BY <2>1, <2>2, <2>3, <2>4, CountFollows
<1>7. CASE Abandon(c)
  <2>1. \A t \in Tuner : Attached(t)' = Attached(t)
    BY <1>7, SameViewers DEF Abandon, IInv, TypeOK, Away
  <2>2. ASSUME clients[c].tuner # NoTuner PROVE tuners[clients[c].tuner].viewers = 0
    <3>1. clients[c].tuner \in Tuner /\ tuners[clients[c].tuner].state = "opened"
      BY <1>7, <2>2 DEF Abandon, IInv, HoldersOK
    <3> QED BY <3>1, NoneAttached
  <2>3. \A t \in Tuner : tuners'[t].viewers = tuners[t].viewers
    BY <1>7, <2>2 DEF Abandon, IInv, TypeOK, FreeTuner
  <2> QED BY <2>1, <2>3, CountFollows
<1>8. CASE Leave(c)
  <2>1. PICK t \in Tuner : t = clients[c].tuner BY <1>8 DEF Leave, IInv, HoldersOK
  <2>2. clients'[c] = Away /\ \A d \in Client \ {c} : clients'[d] = clients[d]
    BY <1>8 DEF Leave, IInv, TypeOK
  <2>3. /\ c \in Attached(t) /\ Attached(t)' = Attached(t) \ {c}
        /\ \A u \in Tuner \ {t} : Attached(u)' = Attached(u)
    BY <1>8, <2>1, <2>2 DEF Leave, Attached, Away
  <2>4. /\ tuners'[t].viewers = tuners[t].viewers - 1
        /\ \A u \in Tuner \ {t} : tuners'[u].viewers = tuners[u].viewers
    BY <1>8, <2>1 DEF Leave, IInv, TypeOK
  <2>5. tuners'[t].viewers = Cardinality(Attached(t)')
    BY <2>3, <2>4, CountFollows
  <2>6. \A u \in Tuner \ {t} : /\ Attached(u)' = Attached(u)
                               /\ tuners'[u].viewers = tuners[u].viewers
    BY <2>3, <2>4
  <2> QED BY <2>5, <2>6, CountsElsewhere
<1> QED BY <1>1, <1>2, <1>3, <1>4, <1>5, <1>6, <1>7, <1>8 DEF Request, Start

LEMMA PumpCounts ==
    ASSUME IInv, NEW t \in Tuner, Pump(t) \/ UpstreamEnds(t)
    PROVE  \A u \in Tuner : tuners'[u].viewers = Cardinality(Attached(u)')
<1>1. CASE PumpCheck(t) \/ UpstreamEnds(t) \/ Remove(t)
  <2>1. clients' = clients BY <1>1 DEF PumpCheck, UpstreamEnds, Remove
  <2>2. \A u \in Tuner : Attached(u)' = Attached(u) BY <2>1 DEF Attached
  <2>3. \A u \in Tuner : tuners'[u].viewers = tuners[u].viewers
    BY <1>1 DEF PumpCheck, UpstreamEnds, Remove, IInv, TypeOK
  <2> QED BY <2>2, <2>3, CountFollows
<1>2. CASE Close(t)
  <2>1. /\ \A d \in Attached(t) : clients'[d] = Away
        /\ \A d \in Client \ Attached(t) : clients'[d] = clients[d]
    BY <1>2 DEF Close, Attached
  <2>2. Attached(t)' = {} BY <2>1 DEF Attached, Away
  <2>3. \A u \in Tuner \ {t} : Attached(u)' = Attached(u) BY <2>1 DEF Attached, Away
  <2>4. /\ tuners'[t].viewers = 0
        /\ \A u \in Tuner \ {t} : tuners'[u].viewers = tuners[u].viewers
    BY <1>2 DEF Close, IInv, TypeOK, FreeTuner
  <2>5. tuners'[t].viewers = Cardinality(Attached(t)') BY <2>2, <2>4, FS_EmptySet
  <2>6. \A u \in Tuner \ {t} : /\ Attached(u)' = Attached(u)
                               /\ tuners'[u].viewers = tuners[u].viewers
    BY <2>3, <2>4
  <2> QED BY <2>5, <2>6, CountsElsewhere
<1> QED BY <1>1, <1>2 DEF Pump

-----------------------------------------------------------------------------
(* A player that watches is on a registered or closing connection of its       *)
(* channel.                                                                    *)

Served(c) == clients[c].pc = "watching" =>
    /\ tuners[clients[c].tuner].state \notin {"free", "opened"}
    /\ tuners[clients[c].tuner].chan = clients[c].chan

LEMMA RequestServes ==
    ASSUME IInv, NEW c \in Client, Request(c), NEW d \in Client
    PROVE  Served(d)'
<1>0. /\ \A e \in Client : Served(e)
      /\ \A e \in Client : clients[e].pc \in {"starting", "watching"} => clients[e].tuner \in Tuner
  BY DEF IInv, ViewersCounted, HoldersOK, Served
<1>1. ASSUME NEW ch \in Channel, Join(c, ch) PROVE Served(d)'
  <2>1. live[ch] \in Tuner /\ Registered(live[ch]) /\ tuners[live[ch]].chan = ch
    BY <1>1, LiveIsRegistered DEF Join
  <2> QED BY <1>0, <1>1, <2>1 DEF Join, Watch, Served, Registered, IInv, TypeOK
<1>2. ASSUME NEW ch \in Channel, JoinMisses(c, ch) PROVE Served(d)'
  BY <1>0, <1>2 DEF JoinMisses, Served, IInv, TypeOK
<1>3. CASE Open(c)
  BY <1>0, <1>3 DEF Open, Opened, Served, IInv, TypeOK
<1>4. CASE OpenFails(c)
  BY <1>0, <1>4 DEF OpenFails, Away, Served, IInv, TypeOK
<1>5. CASE JoinsWinner(c)
  <2>1. /\ clients[c].chan \in Channel /\ clients[c].tuner \in Tuner
        /\ tuners[clients[c].tuner].state = "opened"
    BY <1>5 DEF JoinsWinner, IInv, HoldersOK
  <2>2. PICK w \in Tuner : /\ w = live[clients[c].chan] /\ w # clients[c].tuner
                           /\ Registered(w) /\ tuners[w].chan = clients[c].chan
    BY <1>5, <2>1, LiveIsRegistered DEF JoinsWinner, Registered
  <2>3. /\ clients'[c] = [pc |-> "watching", chan |-> clients[c].chan, tuner |-> w]
        /\ \A e \in Client \ {c} : clients'[e] = clients[e]
    BY <1>5, <2>2 DEF JoinsWinner, Watch, IInv, TypeOK
  <2>4. \A u \in Tuner \ {clients[c].tuner} :
            tuners'[u].state = tuners[u].state /\ tuners'[u].chan = tuners[u].chan
    BY <1>5, <2>1, <2>2 DEF JoinsWinner, IInv, TypeOK
  <2>5. \A e \in Client : clients[e].pc = "watching" => clients[e].tuner # clients[c].tuner
    BY <1>0, <2>1 DEF Served
  <2> QED BY <1>0, <2>2, <2>3, <2>4, <2>5 DEF Served, Registered
<1>6. CASE clients[c].pc = "starting" /\ live[clients[c].chan] = NoTuner /\ Registers(c)
  <2>1. /\ clients[c].tuner \in Tuner /\ tuners[clients[c].tuner].state = "opened"
        /\ tuners[clients[c].tuner].chan = clients[c].chan
    BY <1>6 DEF IInv, HoldersOK
  <2> QED BY <1>0, <1>6, <2>1 DEF Registers, Watch, Served, IInv, TypeOK
<1>7. CASE Abandon(c)
  <2>1. \/ clients[c].tuner = NoTuner
        \/ clients[c].tuner \in Tuner /\ tuners[clients[c].tuner].state = "opened"
    BY <1>7 DEF Abandon, IInv, HoldersOK
  <2> QED BY <1>0, <1>7, <2>1 DEF Abandon, Away, Served, IInv, TypeOK
<1>8. CASE Leave(c)
  BY <1>0, <1>8 DEF Leave, Away, Served, IInv, TypeOK
<1> QED BY <1>1, <1>2, <1>3, <1>4, <1>5, <1>6, <1>7, <1>8 DEF Request, Start

LEMMA PumpServes ==
    ASSUME IInv, NEW t \in Tuner, Pump(t) \/ UpstreamEnds(t), NEW d \in Client
    PROVE  Served(d)'
<1>0. /\ \A e \in Client : Served(e)
      /\ \A e \in Client : clients[e].pc \in {"starting", "watching"} => clients[e].tuner \in Tuner
  BY DEF IInv, ViewersCounted, HoldersOK, Served
<1>1. CASE PumpCheck(t) BY <1>0, <1>1 DEF PumpCheck, Served, IInv, TypeOK
<1>2. CASE UpstreamEnds(t) BY <1>0, <1>2 DEF UpstreamEnds, Served, IInv, TypeOK
<1>3. CASE Remove(t) BY <1>0, <1>3 DEF Remove, Served, IInv, TypeOK
<1>4. CASE Close(t)
  <2>1. /\ \A e \in Attached(t) : clients'[e] = Away
        /\ \A e \in Client \ Attached(t) : clients'[e] = clients[e]
        /\ \A u \in Tuner \ {t} : tuners'[u] = tuners[u]
    BY <1>4 DEF Close, Attached, IInv, TypeOK
  <2> QED BY <1>0, <2>1 DEF Served, Attached, Away
<1> QED BY <1>1, <1>2, <1>3, <1>4 DEF Pump

-----------------------------------------------------------------------------
(* The invariant. *)

LEMMA Initial == Init => IInv
<1> SUFFICES ASSUME Init PROVE IInv
  OBVIOUS
<1>1. Shape BY InitShape
<1>2. \A t \in Tuner : Attached(t) = {} BY DEF Init, Attached, Away
<1>3. \A t \in Tuner : tuners[t].viewers = Cardinality(Attached(t))
  BY <1>2, FS_EmptySet DEF Init, FreeTuner
<1>4. ViewersCounted BY <1>3 DEF Init, Away, ViewersCounted
<1> QED BY <1>1, <1>4 DEF Shape, IInv

LEMMA Inductive == IInv /\ [Next]_vars => IInv'
<1> SUFFICES ASSUME IInv, [Next]_vars PROVE IInv'
  OBVIOUS
<1>1. ASSUME NEW c \in Client, Request(c) PROVE IInv'
  <2>1. Shape' BY <1>1, RequestShape
  <2>2. \A d \in Client : Served(d)' BY <1>1, RequestServes
  <2>3. \A t \in Tuner : tuners'[t].viewers = Cardinality(Attached(t)') BY <1>1, RequestCounts
  <2> QED BY <2>1, <2>2, <2>3 DEF IInv, Shape, ViewersCounted, Served
<1>2. ASSUME NEW t \in Tuner, Pump(t) \/ UpstreamEnds(t) PROVE IInv'
  <2>1. Shape' BY <1>2, PumpShape
  <2>2. \A d \in Client : Served(d)' BY <1>2, PumpServes
  <2>3. \A u \in Tuner : tuners'[u].viewers = Cardinality(Attached(u)') BY <1>2, PumpCounts
  <2> QED BY <2>1, <2>2, <2>3 DEF IInv, Shape, ViewersCounted, Served
<1>3. CASE Tick
  <2>1. Shape' BY <1>3, TickShape
  <2>2. clients' = clients /\ \A t \in Tuner : /\ tuners'[t].state = tuners[t].state
                                              /\ tuners'[t].chan = tuners[t].chan
                                              /\ tuners'[t].viewers = tuners[t].viewers
    BY <1>3 DEF Tick, IInv, TypeOK
  <2>3. \A c \in Client : clients[c].pc = "watching" => clients[c].tuner \in Tuner
    BY DEF IInv, HoldersOK
  <2>4. \A t \in Tuner : Attached(t)' = Attached(t) BY <2>2 DEF Attached
  <2>5. ViewersCounted' BY <2>2, <2>3, <2>4 DEF IInv, ViewersCounted
  <2> QED BY <2>1, <2>5 DEF IInv, Shape
<1>4. CASE UNCHANGED vars
  BY <1>4 DEF vars, IInv, TypeOK, MapIsPumps, HoldersOK, ViewersCounted, Registered, Attached
<1> QED BY <1>1, <1>2, <1>3, <1>4 DEF Next

THEOREM Invariance == Spec => []IInv
BY Initial, Inductive, PTL DEF Spec

(* Every state is well typed. *)
THEOREM TypesHold == Spec => []TypeOK
<1>1. IInv => TypeOK BY DEF IInv
<1> QED BY <1>1, Invariance, PTL

(* tuner_share.rs, start: two pumps never drain one channel.                   *)
THEOREM OneUpstream == Spec => []OneUpstreamPerChannel
<1>1. IInv => OneUpstreamPerChannel
  BY DEF IInv, HoldersOK, MapIsPumps, OneUpstreamPerChannel, Registered
<1> QED BY <1>1, Invariance, PTL

(* tuner_share.rs, pump: the map holds the running pumps and nothing else.     *)
THEOREM MapHoldsPumps == Spec => []MapIsPumps
<1>1. IInv => MapIsPumps BY DEF IInv
<1> QED BY <1>1, Invariance, PTL

(* tuner_share.rs, ViewerGuard: the idle countdown reflects reality.           *)
THEOREM EveryViewerCounted == Spec => []ViewersCounted
<1>1. IInv => ViewersCounted BY DEF IInv
<1> QED BY <1>1, Invariance, PTL

-----------------------------------------------------------------------------
(* Sharing keeps its promise: a request that is served is a TuneIn, a pump     *)
(* that takes out its registration a Release, everything else stutters.        *)

Tuned == {ch \in Channel : live[ch] # NoTuner}
Seen  == [c \in Client |-> IF Receives(c) THEN clients[c].chan ELSE NoChannel]

(* Nobody receives a channel that is not tuned. *)
LEMMA ReceivesTuned ==
    ASSUME IInv, NEW c \in Client, Receives(c)
    PROVE  /\ clients[c].chan \in Tuned /\ live[clients[c].chan] = clients[c].tuner
           /\ clients[c].chan # NoChannel
<1>1. clients[c].chan \in Channel /\ clients[c].tuner \in Tuner
  BY DEF Receives, IInv, HoldersOK
<1>2. Registered(clients[c].tuner) /\ tuners[clients[c].tuner].chan = clients[c].chan
  BY <1>1 DEF Receives, IInv, ViewersCounted, TypeOK, Registered
<1> QED BY <1>1, <1>2, TunerAssumption DEF IInv, MapIsPumps, Tuned

LEMMA InitPromised == Init => Promise!PInit
BY DEF Init, Promise!PInit, Receives, Away

(* A player whose connection neither closes nor changes sees what it saw. *)
LEMMA SameSeen ==
    ASSUME NEW c \in Client, clients'[c] = clients[c],
           clients[c].pc = "watching" =>
               (tuners'[clients[c].tuner].state = "closing"
                    <=> tuners[clients[c].tuner].state = "closing")
    PROVE  Seen'[c] = Seen[c]
BY DEF Seen, Receives

LEMMA TunesIn ==
    ASSUME IInv, IInv', NEW c \in Client, NEW ch \in Channel, NEW w \in Tuner,
           clients[c].pc # "watching",
           clients'[c] = [pc |-> "watching", chan |-> ch, tuner |-> w],
           live' = [live EXCEPT ![ch] = w], tuners'[w].state # "closing",
           \A d \in Client \ {c} : Seen'[d] = Seen[d]
    PROVE  Promise!TuneIn(c, ch)
<1>1. Tuned' = Tuned \cup {ch} BY TunerAssumption DEF Tuned, IInv, TypeOK
<1>2. Seen[c] = NoChannel /\ Seen'[c] = ch BY DEF Seen, Receives
<1>3. Seen' = [Seen EXCEPT ![c] = ch]
  <2>1. Seen = [d \in Client |-> Seen[d]] /\ Seen' = [d \in Client |-> Seen'[d]] BY DEF Seen
  <2> QED BY <1>2, <2>1
<1>4. \A dh \in Tuned' : live'[dh] \in Tuner BY DEF Tuned, IInv, TypeOK
<1>5. \A dh, eh \in Tuned' : live'[dh] = live'[eh] => dh = eh
  BY <1>4 DEF Tuned, IInv, MapIsPumps
<1>6. Promise!Fits(Tuned')
  <2> DEFINE f == [dh \in Tuned' |-> live'[dh]]
  <2>1. f \in [Tuned' -> Tuner] BY <1>4
  <2>2. \A dh, eh \in Tuned' : f[dh] = f[eh] => dh = eh BY <1>5
  <2> QED BY <2>1, <2>2 DEF Promise!Fits
<1> QED BY <1>1, <1>2, <1>3, <1>6 DEF Promise!TuneIn, Tuned, Seen

LEMMA RequestPromised ==
    ASSUME IInv, IInv', NEW c \in Client, Request(c)
    PROVE  Promise!PNext \/ UNCHANGED <<Tuned, Seen>>
<1>1. \A d \in Client : clients[d].pc = "watching" => /\ clients[d].tuner \in Tuner
                                                    /\ tuners[clients[d].tuner].state # "opened"
                                                    /\ tuners[clients[d].tuner].state # "free"
  BY DEF IInv, HoldersOK, ViewersCounted
<1>2. ASSUME NEW ch \in Channel, Join(c, ch) PROVE Promise!PNext
  <2>1. PICK w \in Tuner : w = live[ch] /\ Registered(w) BY <1>2, LiveIsRegistered DEF Join
  <2>2. /\ clients'[c] = [pc |-> "watching", chan |-> ch, tuner |-> w]
        /\ \A d \in Client \ {c} : clients'[d] = clients[d]
    BY <1>2, <2>1 DEF Join, Watch, IInv, TypeOK
  <2>3. \A t \in Tuner : tuners'[t].state = tuners[t].state
    BY <1>2, <2>1 DEF Join, IInv, TypeOK
  <2>4. \A d \in Client \ {c} : Seen'[d] = Seen[d] BY <1>1, <2>2, <2>3, SameSeen
  <2>5. live' = [live EXCEPT ![ch] = w] BY <1>2, <2>1 DEF Join, IInv, TypeOK
  <2>6. tuners'[w].state # "closing" BY <2>1, <2>3 DEF Registered
  <2>7. clients[c].pc # "watching" BY <1>2 DEF Join
  <2>8. Promise!TuneIn(c, ch) BY <2>2, <2>4, <2>5, <2>6, <2>7, TunesIn
  <2> QED BY <2>8 DEF Promise!PNext
<1>3. ASSUME clients[c].pc # "watching", clients'[c].pc # "watching", live' = live,
             \A d \in Client \ {c} : clients'[d] = clients[d],
             \A t \in Tuner : tuners'[t].state = tuners[t].state \/ tuners[t].state \in {"free", "opened"}
      PROVE  UNCHANGED <<Tuned, Seen>>
  <2>1. Seen'[c] = Seen[c] BY <1>3 DEF Seen, Receives
  <2>2. ASSUME NEW d \in Client \ {c} PROVE Seen'[d] = Seen[d] BY <1>1, <1>3, <2>2, SameSeen
  <2>3. Seen' = Seen BY <2>1, <2>2 DEF Seen
  <2> QED BY <1>3, <2>3 DEF Tuned
<1>4. ASSUME NEW ch \in Channel, JoinMisses(c, ch) PROVE UNCHANGED <<Tuned, Seen>>
  BY <1>3, <1>4 DEF JoinMisses, IInv, TypeOK
<1>5. CASE Open(c) BY <1>3, <1>5 DEF Open, IInv, TypeOK
<1>6. CASE OpenFails(c) BY <1>3, <1>6 DEF OpenFails, Away, IInv, TypeOK
<1>7. CASE JoinsWinner(c)
  <2>1. PICK ch \in Channel : ch = clients[c].chan BY <1>7 DEF JoinsWinner, IInv, HoldersOK
  <2>2. PICK t \in Tuner : t = clients[c].tuner /\ tuners[t].state = "opened"
    BY <1>7 DEF JoinsWinner, IInv, HoldersOK
  <2>3. PICK w \in Tuner : w = live[ch] /\ Registered(w) /\ w # t
    BY <1>7, <2>1, <2>2, LiveIsRegistered DEF JoinsWinner, Registered
  <2>4. /\ clients'[c] = [pc |-> "watching", chan |-> ch, tuner |-> w]
        /\ \A d \in Client \ {c} : clients'[d] = clients[d]
    BY <1>7, <2>1, <2>3 DEF JoinsWinner, Watch, IInv, TypeOK
  <2>5. \A u \in Tuner \ {t} : tuners'[u].state = tuners[u].state
    <3>1. tuners' = [[tuners EXCEPT ![t] = FreeTuner] EXCEPT ![w].viewers = @ + 1]
      BY <1>7, <2>1, <2>2, <2>3 DEF JoinsWinner
    <3>2. /\ DOMAIN tuners = Tuner
          /\ DOMAIN tuners[w] = {"state", "chan", "viewers", "zeroFor"}
      BY DEF IInv, TypeOK
    <3>3. \A u \in Tuner \ {t, w} : tuners'[u] = tuners[u]
      BY <3>1, <3>2
    <3>4. tuners'[w] = [tuners[w] EXCEPT !.viewers = @ + 1]
      BY <3>1, <3>2, <2>3
    <3>5. tuners'[w].state = tuners[w].state
      BY <3>2, <3>4
    <3> QED BY <3>3, <3>5
  <2>6. \A d \in Client : clients[d].pc = "watching" => clients[d].tuner # t BY <1>1, <2>2
  <2>7. \A d \in Client \ {c} : Seen'[d] = Seen[d] BY <1>1, <2>4, <2>5, <2>6, SameSeen
  <2>8. live' = [live EXCEPT ![ch] = w] BY <1>7, <2>3 DEF JoinsWinner, IInv, TypeOK
  <2>9. tuners'[w].state # "closing" BY <2>3, <2>5 DEF Registered
  <2>10. clients[c].pc # "watching" BY <1>7 DEF JoinsWinner
  <2>11. Promise!TuneIn(c, ch) BY <2>4, <2>7, <2>8, <2>9, <2>10, TunesIn
  <2> QED BY <2>11 DEF Promise!PNext
<1>8. CASE clients[c].pc = "starting" /\ live[clients[c].chan] = NoTuner /\ Registers(c)
  <2>1. PICK ch \in Channel : ch = clients[c].chan BY <1>8 DEF IInv, HoldersOK
  <2>2. PICK t \in Tuner : t = clients[c].tuner /\ tuners[t].state = "opened"
    BY <1>8 DEF IInv, HoldersOK
  <2>3. /\ clients'[c] = [pc |-> "watching", chan |-> ch, tuner |-> t]
        /\ \A d \in Client \ {c} : clients'[d] = clients[d]
    BY <1>8, <2>1, <2>2 DEF Registers, Watch, IInv, TypeOK
  <2>4. tuners'[t].state = "pumping" /\ \A u \in Tuner \ {t} : tuners'[u].state = tuners[u].state
    BY <1>8, <2>2 DEF Registers, IInv, TypeOK
  <2>5. \A d \in Client : clients[d].pc = "watching" => clients[d].tuner # t BY <1>1, <2>2
  <2>6. \A d \in Client \ {c} : Seen'[d] = Seen[d] BY <1>1, <2>3, <2>4, <2>5, SameSeen
  <2>7. live' = [live EXCEPT ![ch] = t] BY <1>8, <2>1, <2>2 DEF Registers
  <2>8. Promise!TuneIn(c, ch) BY <1>8, <2>3, <2>4, <2>6, <2>7, TunesIn
  <2> QED BY <2>8 DEF Promise!PNext
<1>9. CASE Abandon(c)
  <2>1. \/ clients[c].tuner = NoTuner
        \/ clients[c].tuner \in Tuner /\ tuners[clients[c].tuner].state = "opened"
    BY <1>9 DEF Abandon, IInv, HoldersOK
  <2> QED BY <1>3, <1>9, <2>1 DEF Abandon, Away, IInv, TypeOK
<1>10. CASE Leave(c)
  <2>1. /\ clients'[c] = Away /\ \A d \in Client \ {c} : clients'[d] = clients[d]
        /\ \A t \in Tuner : tuners'[t].state = tuners[t].state
    BY <1>10 DEF Leave, IInv, TypeOK
  <2>2. \A d \in Client \ {c} : Seen'[d] = Seen[d] BY <1>1, <2>1, SameSeen
  <2>3. Seen'[c] = NoChannel BY <2>1 DEF Seen, Receives, Away
  <2>4. Seen' = [Seen EXCEPT ![c] = NoChannel] BY <2>2, <2>3 DEF Seen
  <2>5. Tuned' = Tuned BY <1>10 DEF Leave, Tuned
  <2>6. CASE Seen[c] = NoChannel
    <3>1. Seen' = Seen BY <2>4, <2>6 DEF Seen
    <3> QED BY <2>5, <3>1
  <2>7. CASE Seen[c] # NoChannel
    <3>1. Promise!TuneOut(c) BY <2>4, <2>5, <2>7 DEF Promise!TuneOut, Seen, Tuned
    <3> QED BY <3>1 DEF Promise!PNext
  <2> QED BY <2>6, <2>7
<1> QED BY <1>2, <1>4, <1>5, <1>6, <1>7, <1>8, <1>9, <1>10 DEF Request, Start

LEMMA PumpPromised ==
    ASSUME IInv, NEW t \in Tuner, Pump(t) \/ UpstreamEnds(t)
    PROVE  Promise!PNext \/ UNCHANGED <<Tuned, Seen>>
<1>1. CASE PumpCheck(t) \/ UpstreamEnds(t)
  <2>1. /\ live' = live /\ clients' = clients
        /\ \A u \in Tuner : tuners'[u].state = "closing" <=> tuners[u].state = "closing"
    BY <1>1 DEF PumpCheck, UpstreamEnds, IInv, TypeOK
  <2>2. \A c \in Client : clients[c].pc = "watching" => clients[c].tuner \in Tuner
    BY DEF IInv, HoldersOK
  <2>3. \A c \in Client : Seen'[c] = Seen[c] BY <2>1, <2>2, SameSeen
  <2>4. Seen' = Seen BY <2>3 DEF Seen
  <2> QED BY <2>1, <2>4 DEF Tuned
<1>2. CASE Remove(t)
  <2>1. PICK ch \in Channel : ch = tuners[t].chan BY <1>2 DEF Remove, IInv, HoldersOK
  <2>2. live[ch] = t BY <1>2, <2>1 DEF Remove, IInv, MapIsPumps, Registered
  <2>3. ch \in Tuned /\ Tuned' = Tuned \ {ch}
    BY <1>2, <2>1, <2>2, TunerAssumption DEF Remove, Tuned, IInv, TypeOK
  <2>4. tuners[t].state # "closing" /\ tuners'[t].state = "closing" /\ clients' = clients
        /\ \A u \in Tuner \ {t} : tuners'[u] = tuners[u]
    BY <1>2 DEF Remove, IInv, TypeOK
  <2>5. ASSUME NEW c \in Client PROVE Seen'[c] = IF Seen[c] = ch THEN NoChannel ELSE Seen[c]
    <3>1. CASE Receives(c) /\ clients[c].tuner = t
      <4>1. clients[c].chan = ch BY <2>1, <3>1 DEF Receives, IInv, ViewersCounted
      <4> QED BY <2>4, <3>1, <4>1 DEF Seen, Receives
    <3>2. CASE Receives(c) /\ clients[c].tuner # t
      <4>1. clients[c].chan # ch /\ clients[c].tuner \in Tuner
        BY <2>2, <3>2, ReceivesTuned DEF Receives, IInv, HoldersOK
      <4> QED BY <2>4, <3>2, <4>1 DEF Seen, Receives
    <3>3. CASE ~Receives(c)
      <4>1. ~Receives(c)' BY <2>4, <3>3 DEF Receives, IInv, HoldersOK
      <4> QED BY <3>3, <4>1, TunerAssumption DEF Seen
    <3> QED BY <3>1, <3>2, <3>3
  <2>6. Seen' = [c \in Client |-> IF Seen[c] = ch THEN NoChannel ELSE Seen[c]]
    BY <2>5 DEF Seen
  <2>7. Promise!Release(ch) BY <2>3, <2>6 DEF Promise!Release, Tuned, Seen
  <2> QED BY <2>7 DEF Promise!PNext
<1>3. CASE Close(t)
  <2>1. /\ \A c \in Attached(t) : clients'[c] = Away
        /\ \A c \in Client \ Attached(t) : clients'[c] = clients[c]
        /\ \A u \in Tuner \ {t} : tuners'[u] = tuners[u]
        /\ tuners[t].state = "closing" /\ live' = live
    BY <1>3 DEF Close, Attached, IInv, TypeOK
  <2>2. ASSUME NEW c \in Client PROVE Seen'[c] = Seen[c]
    <3>1. CASE c \in Attached(t) BY <2>1, <3>1 DEF Attached, Seen, Receives, Away
    <3>2. CASE c \notin Attached(t)
      <4>1. clients[c].pc = "watching" => clients[c].tuner \in Tuner \ {t}
        BY <3>2 DEF Attached, IInv, HoldersOK
      <4> QED BY <2>1, <3>2, <4>1, SameSeen
    <3> QED BY <3>1, <3>2
  <2>3. Seen' = Seen BY <2>2 DEF Seen
  <2> QED BY <2>1, <2>3 DEF Tuned
<1> QED BY <1>1, <1>2, <1>3 DEF Pump

LEMMA StepPromised ==
    IInv /\ IInv' /\ [Next]_vars => [Promise!PNext]_(Promise!promiseVars)
<1> SUFFICES ASSUME IInv, IInv', [Next]_vars
             PROVE  Promise!PNext \/ UNCHANGED <<Tuned, Seen>>
  BY DEF Promise!promiseVars, Tuned, Seen
<1>1. CASE Tick
  <2>1. /\ live' = live /\ clients' = clients
        /\ \A t \in Tuner : tuners'[t].state = tuners[t].state
    BY <1>1 DEF Tick, IInv, TypeOK
  <2>2. \A c \in Client : clients[c].pc = "watching" => clients[c].tuner \in Tuner
    BY DEF IInv, HoldersOK
  <2>3. \A c \in Client : Seen'[c] = Seen[c] BY <2>1, <2>2, SameSeen
  <2>4. Seen' = Seen BY <2>3 DEF Seen
  <2> QED BY <2>1, <2>4 DEF Tuned
<1>2. CASE UNCHANGED vars BY <1>2 DEF vars, Tuned, Seen, Receives
<1> QED BY <1>1, <1>2, RequestPromised, PumpPromised DEF Next

(* tuner_share.rs, module comment: however many watch a channel it occupies    *)
(* one tuner, and a tuner given back takes its viewers with it.                *)
THEOREM PromiseKept == Spec => KeepsPromise
BY Initial, InitPromised, Inductive, StepPromised, PTL DEF Spec, KeepsPromise, Promise!PSpec

-----------------------------------------------------------------------------
(* The sidecar. *)

SupervisorType ==
    /\ edge \in BOOLEAN /\ proc \in {"gone", "up", "ending", "unborn"}
    /\ uptime \in 0..(Healthy + 1) /\ restarts \in 0..MaxRestarts /\ respawning \in BOOLEAN
    /\ stopping \in {"no", "waiting", "done"} /\ young \in 0..MaxRestarts

SupervisorInv ==
    /\ SupervisorType
    /\ stopping = "no" => restarts <= young + 1
    /\ proc = "up" => stopping = "no"
    /\ proc = "ending" => stopping = "waiting"
    /\ GivesUpOnLoops

Held(c) == {k \in Key : c[k] # NoEntry}
Call == [pc : {"none", "asked", "answered"}, key : Key \cup {NoKey}, ok : BOOLEAN, age : 0..CallMax]
Entry == [ok : BOOLEAN, age : 0..Ttl]

GateType ==
    /\ permit \in [Key -> BOOLEAN]
    /\ ago \in [Key -> [BOOLEAN -> 0..Bound]]
    /\ cache \in [Key -> Entry \cup {NoEntry}]
    /\ calls \in [Asker -> Call]

AgesMatch ==
    /\ \A k \in Key : ago[k][permit[k]] = 0
    /\ \A k \in Key : Fresh(k) => ago[k][cache[k].ok] <= cache[k].age + CallMax
    /\ \A r \in Asker : IF calls[r].pc = "none" THEN calls[r] = NoCall ELSE calls[r].key \in Key
    /\ \A r \in Asker : calls[r].pc = "answered" => ago[calls[r].key][calls[r].ok] <= calls[r].age

CacheBounded == Cardinality(Held(cache)) <= CacheMax

SidecarInv == SupervisorInv /\ GateType /\ AgesMatch /\ CacheBounded

-----------------------------------------------------------------------------
LEMMA Types == SidecarAssumption => Bound \in Nat /\ Ttl <= Bound /\ CallMax <= Bound
BY DEF SidecarAssumption, Bound

(* The invariant is what the properties need. *)
LEMMA Implied == SidecarInv => SidecarTypeOK /\ GivesUpOnLoops /\ NoneLeftBehind /\ DecisionsRecent
<1> SUFFICES ASSUME SidecarInv PROVE SidecarTypeOK /\ GivesUpOnLoops /\ NoneLeftBehind /\ DecisionsRecent
    OBVIOUS
<1>1. SidecarTypeOK
    BY DEF SidecarInv, SupervisorInv, SupervisorType, GateType, CacheBounded, Held, Call, Entry, SidecarTypeOK
<1>2. GivesUpOnLoops
    BY DEF SidecarInv, SupervisorInv
<1>3. NoneLeftBehind
    BY DEF SidecarInv, SupervisorInv, SupervisorType, NoneLeftBehind
<1>4. DecisionsRecent
  <2>1. ASSUME NEW k \in Key, Fresh(k) PROVE ago[k][cache[k].ok] < Bound
    <3>1. cache[k] \in Entry /\ cache[k].age < Ttl
        BY <2>1 DEF SidecarInv, GateType, Fresh
    <3>2. cache[k].ok \in BOOLEAN /\ cache[k].age \in Nat
        BY <3>1 DEF Entry
    <3>3. ago[k][cache[k].ok] \in 0..Bound
        BY <3>2 DEF SidecarInv, GateType
    <3> QED BY <2>1, <3>1, <3>2, <3>3, SidecarAssumption DEF SidecarInv, AgesMatch, Bound, SidecarAssumption
  <2>2. ASSUME NEW r \in Asker, calls[r].pc = "answered" PROVE ago[calls[r].key][calls[r].ok] <= CallMax
    <3>1. calls[r].key \in Key /\ calls[r].ok \in BOOLEAN /\ calls[r].age \in 0..CallMax
        BY <2>2 DEF SidecarInv, AgesMatch, GateType, Call
    <3>2. ago[calls[r].key][calls[r].ok] \in 0..Bound
        BY <3>1 DEF SidecarInv, GateType
    <3> QED BY <2>2, <3>1, <3>2, SidecarAssumption, Types DEF SidecarInv, AgesMatch, SidecarAssumption
  <2> QED BY <2>1, <2>2 DEF DecisionsRecent
<1> QED BY <1>1, <1>2, <1>3, <1>4

-----------------------------------------------------------------------------
(* The supervisor. *)

LEMMA SupervisorSteps ==
    ASSUME SupervisorInv, Exit \/ Respawn \/ Stop \/ Kill \/ Elapse \/ UNCHANGED supervisor
    PROVE  SupervisorInv'
<1>0. Healthy \in Nat /\ MaxRestarts \in Nat
    BY SidecarAssumption DEF SidecarAssumption
<1>1. CASE Exit
  <2>1. /\ proc' = "gone" /\ UNCHANGED <<edge, uptime>>
        /\ young' = IF uptime > Healthy THEN 0 ELSE IF young + 1 > MaxRestarts THEN MaxRestarts ELSE young + 1
      BY <1>1 DEF Exit, Capped
  <2>2. CASE stopping # "no"
    <3>1. stopping' = "done" /\ UNCHANGED <<restarts, respawning>>
        BY <1>1, <2>2 DEF Exit
    <3> QED BY <1>0, <2>1, <3>1 DEF SupervisorInv, SupervisorType, GivesUpOnLoops
  <2>3. CASE stopping = "no" /\ ~edge /\ Budget >= MaxRestarts
    <3>1. stopping' = "no" /\ restarts' = Budget /\ respawning' = FALSE
        BY <1>0, <1>1, <2>3 DEF Exit, SupervisorInv, SupervisorType, Budget
    <3>2. respawning' \in BOOLEAN
        BY <3>1
    <3> QED BY <1>0, <2>1, <2>3, <3>1, <3>2 DEF SupervisorInv, SupervisorType, GivesUpOnLoops, Budget
  <2>4. CASE stopping = "no" /\ (edge \/ Budget < MaxRestarts)
    <3>1. stopping' = "no" /\ respawning' = TRUE
        BY <1>1, <2>4 DEF Exit
    <3>2. restarts' = IF Budget + 1 > MaxRestarts THEN MaxRestarts ELSE Budget + 1
      <4>1. Budget \in Nat
          BY <1>0 DEF Budget, SupervisorInv, SupervisorType
      <4>2. ~(~edge /\ Budget >= MaxRestarts)
          BY <1>0, <2>4, <4>1
      <4>3. restarts' = IF ~edge /\ Budget >= MaxRestarts THEN Budget ELSE Capped(Budget + 1, MaxRestarts)
          BY <1>1, <2>4 DEF Exit
      <4>4. restarts' = Capped(Budget + 1, MaxRestarts)
          BY <4>2, <4>3
      <4> QED BY <4>4 DEF Capped
    <3>3. respawning' \in BOOLEAN
        BY <3>1
    <3>4. GivesUpOnLoops'
        BY <3>1 DEF GivesUpOnLoops
    <3>5. /\ restarts' \in 0..MaxRestarts /\ young' \in 0..MaxRestarts
          /\ restarts' <= young' + 1
        BY <1>0, <2>1, <2>4, <3>2 DEF SupervisorInv, SupervisorType, Budget
    <3> QED BY <2>1, <3>1, <3>3, <3>4, <3>5 DEF SupervisorInv, SupervisorType
  <2>5. Budget \in Nat
      BY <1>0 DEF Budget, SupervisorInv, SupervisorType
  <2> QED BY <1>0, <2>2, <2>3, <2>4, <2>5
<1>2. CASE Respawn
  <2>1. respawning' \in BOOLEAN /\ UNCHANGED <<edge, restarts, stopping, young>>
      BY <1>2 DEF Respawn
  <2>2. IF stopping = "no" THEN proc' \in {"up", "unborn"} /\ uptime' = 0 ELSE UNCHANGED <<proc, uptime>>
      BY <1>2 DEF Respawn, SpawnOnce
  <2> QED BY <1>0, <2>1, <2>2 DEF SupervisorInv, SupervisorType, GivesUpOnLoops
<1>3. CASE Stop
    BY <1>0, <1>3 DEF SupervisorInv, SupervisorType, GivesUpOnLoops, Stop
<1>4. CASE Kill
    BY <1>0, <1>4 DEF SupervisorInv, SupervisorType, GivesUpOnLoops, Kill
<1>5. CASE Elapse
    BY <1>0, <1>5 DEF SupervisorInv, SupervisorType, GivesUpOnLoops, Elapse, Capped
<1>6. CASE UNCHANGED supervisor
    BY <1>6 DEF SupervisorInv, SupervisorType, GivesUpOnLoops, supervisor
<1> QED BY <1>1, <1>2, <1>3, <1>4, <1>5, <1>6

-----------------------------------------------------------------------------
(* The gate. *)

GateInv == GateType /\ AgesMatch /\ CacheBounded

(* What is held is finite, and dropping entries holds no more. *)
LEMMA HeldFinite ==
    ASSUME NEW c
    PROVE  IsFiniteSet(Held(c)) /\ Cardinality(Held(c)) \in Nat
<1>1. Held(c) \in SUBSET Key BY DEF Held
<1>2. IsFiniteSet(Held(c)) BY <1>1, SidecarAssumption, FS_Subset DEF SidecarAssumption
<1> QED BY <1>2, FS_CardinalityType

LEMMA HeldSubset ==
    ASSUME NEW c, NEW d, Held(c) \subseteq Held(d)
    PROVE  Cardinality(Held(c)) <= Cardinality(Held(d))
BY HeldFinite, FS_Subset

LEMMA NothingHeld == Cardinality(Held(Empty)) = 0
<1>1. Held(Empty) = {} BY DEF Held, Empty
<1> QED BY <1>1, FS_EmptySet

LEMMA GateUntouched ==
    ASSUME GateInv, UNCHANGED gate
    PROVE  GateInv'
BY DEF GateInv, GateType, AgesMatch, CacheBounded, Fresh, gate

LEMMA NoCallType == NoCall \in Call /\ NoCall.pc = "none"
BY SidecarAssumption DEF SidecarAssumption, NoCall, Call

LEMMA ForgetSafe ==
    ASSUME GateInv, Forget
    PROVE  GateInv'
<1>1. GateType'
    BY NoCallType DEF GateInv, GateType, Forget, Empty
<1>2. \A k \in Key : ~Fresh(k)'
    BY DEF Forget, Empty, Fresh
<1>3. AgesMatch'
    BY <1>2, NoCallType DEF GateInv, AgesMatch, Forget
<1>4. CacheBounded'
    BY NothingHeld, SidecarAssumption DEF CacheBounded, Forget, SidecarAssumption
<1> QED BY <1>1, <1>3, <1>4 DEF GateInv

LEMMA AskSafe ==
    ASSUME GateInv, NEW r \in Asker, NEW k \in Key, Ask(r, k)
    PROVE  GateInv'
<1>1. GateType'
    BY SidecarAssumption DEF GateInv, GateType, Ask, Call, SidecarAssumption
<1>2. AgesMatch'
    BY DEF GateInv, GateType, AgesMatch, Ask, Fresh
<1>3. CacheBounded'
    BY DEF GateInv, CacheBounded, Ask
<1> QED BY <1>1, <1>2, <1>3 DEF GateInv

LEMMA DecideSafe ==
    ASSUME GateInv, NEW r \in Asker, Decide(r)
    PROVE  GateInv'
<1>0. calls[r] \in Call /\ calls[r].key \in Key /\ calls[r].age \in Nat
    BY DEF GateInv, GateType, AgesMatch, Decide, Call
<1>1. calls'[r] = [calls[r] EXCEPT !.pc = "answered", !.ok = permit[calls[r].key]]
    BY <1>0 DEF Decide, GateInv, GateType
<1>2. \A q \in Asker : q # r => calls'[q] = calls[q]
    BY DEF Decide, GateInv, GateType
<1>3. GateType'
  <2>1. permit[calls[r].key] \in BOOLEAN
      BY <1>0 DEF GateInv, GateType
  <2> QED BY <1>0, <2>1 DEF GateInv, GateType, Decide, Call
<1>4. AgesMatch'
  <2>1. calls'[r].key \in Key /\ ago[calls'[r].key][calls'[r].ok] <= calls'[r].age
      BY <1>0, <1>1 DEF GateInv, AgesMatch, Call
  <2>2. calls'[r].pc = "answered"
      BY <1>0, <1>1 DEF Call
  <2>3. ASSUME NEW q \in Asker
        PROVE  /\ IF calls'[q].pc = "none" THEN calls'[q] = NoCall ELSE calls'[q].key \in Key
               /\ calls'[q].pc = "answered" => ago[calls'[q].key][calls'[q].ok] <= calls'[q].age
      BY <1>2, <2>1, <2>2 DEF GateInv, AgesMatch
  <2> QED BY <2>3 DEF GateInv, AgesMatch, Decide, Fresh
<1>5. CacheBounded'
    BY DEF GateInv, CacheBounded, Decide
<1> QED BY <1>3, <1>4, <1>5 DEF GateInv

LEMMA LostSafe ==
    ASSUME GateInv, NEW r \in Asker, Lost(r)
    PROVE  GateInv'
<1>1. GateType'
    BY NoCallType DEF GateInv, GateType, Lost
<1>2. AgesMatch'
    BY NoCallType DEF GateInv, GateType, AgesMatch, Lost, Fresh
<1>3. CacheBounded'
    BY DEF GateInv, CacheBounded, Lost
<1> QED BY <1>1, <1>2, <1>3 DEF GateInv

(* A full cache drops entries and changes none. *)
LEMMA PrunedHolds ==
    ASSUME GateType
    PROVE  /\ Pruned \in [Key -> Entry \cup {NoEntry}]
           /\ \A k \in Key : Pruned[k] # NoEntry => Pruned[k] = cache[k]
           /\ Held(Pruned) \subseteq Held(cache)
<1>1. CASE Cardinality({k \in Key : cache[k] # NoEntry}) < CacheMax
    BY <1>1 DEF Pruned, GateType
<1>2. CASE ~(Cardinality({k \in Key : cache[k] # NoEntry}) < CacheMax)
  <2>1. Pruned = [k \in Key |-> IF Fresh(k) THEN cache[k] ELSE NoEntry]
      BY <1>2 DEF Pruned
  <2> QED BY <2>1 DEF GateType, Held
<1> QED BY <1>1, <1>2

LEMMA LandSafe ==
    ASSUME GateInv, NEW r \in Asker, Land(r)
    PROVE  GateInv'
<1> DEFINE k == calls[r].key
           new == [ok |-> calls[r].ok, age |-> 0]
<1>0. calls[r] \in Call /\ k \in Key /\ calls[r].ok \in BOOLEAN /\ calls[r].age \in 0..CallMax
    BY DEF GateInv, GateType, AgesMatch, Land, Call
<1>1. new \in Entry /\ new.ok = calls[r].ok /\ new.age = 0
    BY <1>0, SidecarAssumption DEF Entry, SidecarAssumption
<1>2. calls'[r].pc = "none" /\ \A q \in Asker : q # r => calls'[q] = calls[q]
    BY NoCallType DEF Land, GateInv, GateType
<1>3. /\ Pruned \in [Key -> Entry \cup {NoEntry}]
      /\ \A j \in Key : Pruned[j] # NoEntry => Pruned[j] = cache[j]
      /\ Held(Pruned) \subseteq Held(cache)
    BY PrunedHolds DEF GateInv
<1>4. \/ cache' = Pruned
      \/ cache' = [Pruned EXCEPT ![k] = new] /\ Cardinality(Held(Pruned)) < CacheMax
    BY DEF Land, Held
<1>5. GateType'
  <2>1. cache' \in [Key -> Entry \cup {NoEntry}]
      BY <1>0, <1>1, <1>3, <1>4
  <2>2. calls' \in [Asker -> Call]
      BY NoCallType DEF Land, GateInv, GateType
  <2> QED BY <2>1, <2>2 DEF Land, GateInv, GateType
<1>6. ASSUME NEW j \in Key, Fresh(j)' PROVE ago[j][cache'[j].ok] <= cache'[j].age + CallMax
  <2>1. CASE cache'[j] = new /\ j = k
    <3>1. ago[k][calls[r].ok] <= calls[r].age
        BY DEF GateInv, AgesMatch, Land
    <3>2. ago[k][calls[r].ok] \in 0..Bound
        BY <1>0 DEF GateInv, GateType
    <3> QED BY <1>0, <1>1, <2>1, <3>1, <3>2, SidecarAssumption, Types DEF SidecarAssumption
  <2>2. CASE cache'[j] = Pruned[j]
    <3>1. Pruned[j] # NoEntry
        BY <1>6, <2>2 DEF Fresh
    <3>2. cache'[j] = cache[j] /\ Fresh(j)
        BY <1>3, <1>6, <2>2, <3>1 DEF Fresh
    <3> QED BY <3>2 DEF GateInv, AgesMatch
  <2> QED BY <1>0, <1>3, <1>4, <2>1, <2>2
<1>7. AgesMatch'
    BY <1>2, <1>6 DEF GateInv, AgesMatch, Land
<1>8. CacheBounded'
  <2>1. CASE cache' = Pruned
    <3>1. Cardinality(Held(cache')) <= Cardinality(Held(cache))
        BY <1>3, <2>1, HeldSubset
    <3> QED BY <3>1, HeldFinite, SidecarAssumption DEF GateInv, CacheBounded, SidecarAssumption
  <2>2. CASE cache' = [Pruned EXCEPT ![k] = new] /\ Cardinality(Held(Pruned)) < CacheMax
    <3>1. Held(cache') \subseteq Held(Pruned) \cup {k}
        BY <1>0, <1>3, <2>2 DEF Held
    <3>2. IsFiniteSet(Held(Pruned)) /\ Cardinality(Held(Pruned)) \in Nat
        BY HeldFinite
    <3>3. IsFiniteSet(Held(Pruned) \cup {k})
        BY <3>2, FS_AddElement
    <3>4. Cardinality(Held(Pruned) \cup {k}) <= Cardinality(Held(Pruned)) + 1
        BY <3>2, FS_AddElement
    <3>5. Cardinality(Held(cache')) <= Cardinality(Held(Pruned) \cup {k})
        BY <3>1, <3>3, FS_Subset
    <3>6. Cardinality(Held(Pruned) \cup {k}) \in Nat /\ Cardinality(Held(cache')) \in Nat
        BY <3>3, FS_CardinalityType, HeldFinite
    <3> QED BY <2>2, <3>2, <3>4, <3>5, <3>6, SidecarAssumption DEF CacheBounded, SidecarAssumption
  <2> QED BY <1>4, <2>1, <2>2
<1> QED BY <1>5, <1>7, <1>8 DEF GateInv

LEMMA SetPermitSafe ==
    ASSUME GateInv, NEW k \in Key, SetPermit(k)
    PROVE  GateInv'
<1>1. /\ permit' = [permit EXCEPT ![k] = ~permit[k]] /\ permit'[k] \in BOOLEAN
      /\ permit' \in [Key -> BOOLEAN] /\ UNCHANGED <<cache, calls>>
    BY DEF GateInv, GateType, SetPermit
<1>2. /\ ago' \in [Key -> [BOOLEAN -> 0..Bound]]
      /\ ago'[k][permit'[k]] = 0
      /\ \A j \in Key, b \in BOOLEAN : ago'[j][b] = ago[j][b] \/ ago'[j][b] = 0
      /\ \A j \in Key : j # k => ago'[j] = ago[j]
  <2>1. PICK now \in BOOLEAN : now = permit'[k]
      BY <1>1
  <2>2. ago' = [ago EXCEPT ![k] = [ago[k] EXCEPT ![now] = 0]]
      BY <2>1 DEF SetPermit
  <2>3. ago \in [Key -> [BOOLEAN -> 0..Bound]] /\ 0 \in 0..Bound
      BY Types, SidecarAssumption DEF GateInv, GateType
  <2>4. [ago[k] EXCEPT ![now] = 0] \in [BOOLEAN -> 0..Bound]
      BY <2>3
  <2> QED BY <2>1, <2>2, <2>3, <2>4
<1>3. GateType'
    BY <1>1, <1>2 DEF GateInv, GateType
<1>4. \A j \in Key : ago'[j][permit'[j]] = 0
    BY <1>1, <1>2 DEF GateInv, GateType, AgesMatch
<1>5. ASSUME NEW j \in Key, Fresh(j)' PROVE ago'[j][cache'[j].ok] <= cache'[j].age + CallMax
  <2>1. cache[j] \in Entry /\ Fresh(j)
      BY <1>1, <1>5 DEF GateInv, GateType, Fresh
  <2>2. cache[j].ok \in BOOLEAN /\ cache[j].age \in Nat
      BY <2>1 DEF Entry
  <2> QED BY <1>1, <1>2, <2>1, <2>2, SidecarAssumption DEF GateInv, AgesMatch, SidecarAssumption
<1>6. ASSUME NEW r \in Asker, calls'[r].pc = "answered"
      PROVE  ago'[calls'[r].key][calls'[r].ok] <= calls'[r].age
  <2>1. calls[r].key \in Key /\ calls[r].ok \in BOOLEAN /\ calls[r].age \in Nat
      BY <1>1, <1>6 DEF GateInv, GateType, AgesMatch, Call
  <2> QED BY <1>1, <1>2, <1>6, <2>1 DEF GateInv, AgesMatch
<1>7. AgesMatch'
    BY <1>1, <1>4, <1>5, <1>6 DEF GateInv, AgesMatch
<1>8. CacheBounded'
    BY <1>1 DEF GateInv, CacheBounded
<1> QED BY <1>3, <1>7, <1>8 DEF GateInv

(* A call and an entry that grow older stay what they are. *)
LEMMA CallAges ==
    ASSUME NEW c \in Call
    PROVE  LET d == [c EXCEPT !.age = c.age + 1]
           IN  /\ d.pc = c.pc /\ d.key = c.key /\ d.ok = c.ok /\ d.age = c.age + 1
               /\ c.ok \in BOOLEAN /\ c.age \in Nat
               /\ c.age < CallMax => d \in Call
<1>1. CallMax \in Nat BY SidecarAssumption DEF SidecarAssumption
<1> QED BY <1>1 DEF Call

LEMMA EntryAges ==
    ASSUME NEW e \in Entry
    PROVE  [e EXCEPT !.age = Capped(e.age + 1, Ttl)] \in Entry
<1>1. Ttl \in Nat BY SidecarAssumption DEF SidecarAssumption
<1>2. e.age \in Nat BY <1>1 DEF Entry
<1>3. Capped(e.age + 1, Ttl) \in 0..Ttl BY <1>1, <1>2 DEF Capped
<1> QED BY <1>3 DEF Entry

LEMMA TickSafe ==
    ASSUME GateInv, Elapse
    PROVE  GateInv'
<1>0. Ttl \in Nat /\ CallMax \in Nat /\ Bound \in Nat
    BY SidecarAssumption, Types DEF SidecarAssumption
<1>1. /\ \A k \in Key : cache'[k] = IF cache[k] = NoEntry THEN NoEntry
                                    ELSE [cache[k] EXCEPT !.age = Capped(cache[k].age + 1, Ttl)]
      /\ \A r \in Asker : calls'[r] = IF calls[r] = NoCall THEN NoCall
                                        ELSE [calls[r] EXCEPT !.age = calls[r].age + 1]
      /\ permit' = permit
    BY DEF Elapse
<1>2. ASSUME NEW k \in Key, NEW b \in BOOLEAN
      PROVE  /\ ago[k][b] \in 0..Bound /\ ago'[k][b] \in 0..Bound
             /\ ago'[k][b] <= ago[k][b] + 1
             /\ permit[k] = b => ago'[k][b] = 0
  <2>1. ago[k][b] \in 0..Bound
      BY DEF GateInv, GateType
  <2>2. ago'[k][b] = IF permit[k] = b THEN 0 ELSE Capped(ago[k][b] + 1, Bound)
      BY DEF Elapse, Older
  <2> QED BY <1>0, <2>1, <2>2 DEF Capped
<1>3. GateType'
  <2>1. ago' \in [Key -> [BOOLEAN -> 0..Bound]]
    <3>1. ago' = [k \in Key |-> [b \in BOOLEAN |-> ago'[k][b]]]
        BY DEF Elapse
    <3> QED BY <1>2, <3>1
  <2>2. ASSUME NEW k \in Key PROVE cache'[k] \in Entry \cup {NoEntry}
    <3>1. CASE cache[k] = NoEntry
        BY <1>1, <3>1
    <3>2. CASE cache[k] \in Entry
      <4>1. cache'[k] \in {NoEntry, [cache[k] EXCEPT !.age = Capped(cache[k].age + 1, Ttl)]}
          BY <1>1
      <4> QED BY <1>0, <3>2, <4>1, EntryAges
    <3> QED BY <3>1, <3>2 DEF GateInv, GateType
  <2>3. ASSUME NEW r \in Asker PROVE calls'[r] \in Call
    <3>1. CASE calls[r] = NoCall
        BY <1>1, <3>1, NoCallType
    <3>2. CASE calls[r] # NoCall
      <4>1. calls[r] \in Call /\ calls[r].age < CallMax
          BY <3>2 DEF Elapse, GateInv, GateType, AgesMatch
      <4>2. calls'[r] = [calls[r] EXCEPT !.age = calls[r].age + 1]
          BY <1>1, <3>2
      <4> QED BY <4>1, <4>2, CallAges
    <3> QED BY <3>1, <3>2
  <2>4. cache' \in [Key -> Entry \cup {NoEntry}] /\ calls' \in [Asker -> Call]
    <3>1. cache' = [k \in Key |-> cache'[k]] /\ calls' = [r \in Asker |-> calls'[r]]
        BY DEF Elapse
    <3> QED BY <2>2, <2>3, <3>1
  <2> QED BY <1>1, <2>1, <2>4 DEF GateInv, GateType
<1>4. AgesMatch'
  <2>1. \A k \in Key : ago'[k][permit'[k]] = 0
      BY <1>1, <1>2 DEF GateInv, GateType
  <2>2. ASSUME NEW k \in Key, Fresh(k)' PROVE ago'[k][cache'[k].ok] <= cache'[k].age + CallMax
    <3>1. cache[k] # NoEntry /\ cache[k] \in Entry
        BY <1>1, <2>2 DEF GateInv, GateType, Fresh
    <3>2. /\ cache[k].ok \in BOOLEAN /\ cache[k].age \in 0..Ttl
          /\ cache'[k].ok = cache[k].ok /\ cache'[k].age = Capped(cache[k].age + 1, Ttl)
        BY <1>1, <3>1 DEF Entry
    <3>3. cache'[k].age < Ttl
        BY <2>2 DEF Fresh
    <3>4. cache'[k].age = cache[k].age + 1 /\ Fresh(k)
        BY <1>0, <3>1, <3>2, <3>3 DEF Capped, Fresh
    <3>5. ago[k][cache[k].ok] <= cache[k].age + CallMax
        BY <3>4 DEF GateInv, AgesMatch
    <3> QED BY <1>0, <1>2, <3>2, <3>4, <3>5
  <2>3. ASSUME NEW r \in Asker
        PROVE  IF calls'[r].pc = "none" THEN calls'[r] = NoCall
               ELSE /\ calls'[r].key \in Key
                    /\ calls'[r].pc = "answered" => ago'[calls'[r].key][calls'[r].ok] <= calls'[r].age
    <3>1. CASE calls[r] = NoCall
        BY <1>1, <3>1, NoCallType
    <3>2. CASE calls[r] # NoCall
      <4>1. /\ calls[r] \in Call /\ calls[r].pc # "none" /\ calls[r].key \in Key
            /\ calls[r].pc = "answered" => ago[calls[r].key][calls[r].ok] <= calls[r].age
          BY <3>2 DEF GateInv, GateType, AgesMatch
      <4>2. /\ calls'[r].pc = calls[r].pc /\ calls'[r].key = calls[r].key /\ calls'[r].ok = calls[r].ok
            /\ calls'[r].age = calls[r].age + 1
            /\ calls[r].ok \in BOOLEAN /\ calls[r].age \in Nat
        <5>1. calls'[r] = [calls[r] EXCEPT !.age = calls[r].age + 1]
            BY <1>1, <3>2
        <5> QED BY <4>1, <5>1, CallAges
      <4> QED BY <1>2, <4>1, <4>2
    <3> QED BY <3>1, <3>2
  <2> QED BY <2>1, <2>2, <2>3 DEF AgesMatch
<1>5. CacheBounded'
  <2>1. Held(cache') \subseteq Held(cache)
      BY <1>1 DEF Held
  <2> QED BY <2>1, HeldSubset, HeldFinite, SidecarAssumption DEF GateInv, CacheBounded, SidecarAssumption
<1> QED BY <1>3, <1>4, <1>5 DEF GateInv

-----------------------------------------------------------------------------
LEMMA SidecarInitial == SidecarInit => SidecarInv
<1> SUFFICES ASSUME SidecarInit PROVE SidecarInv
    OBVIOUS
<1>0. Bound \in Nat /\ MaxRestarts \in Nat /\ Healthy \in Nat /\ CacheMax \in Nat
    BY SidecarAssumption, Types DEF SidecarAssumption
<1>1. SupervisorInv
  <2>1. respawning \in BOOLEAN
      BY DEF SidecarInit
  <2>2. /\ edge \in BOOLEAN /\ proc \in {"up", "unborn"} /\ uptime = 0 /\ restarts = 0
        /\ stopping = "no" /\ young = 0
      BY DEF SidecarInit
  <2> QED BY <1>0, <2>1, <2>2 DEF SupervisorInv, SupervisorType, GivesUpOnLoops
<1>2. GateType
  <2>1. ago \in [Key -> [BOOLEAN -> 0..Bound]]
      BY <1>0 DEF SidecarInit
  <2> QED BY <2>1, NoCallType DEF SidecarInit, GateType, Empty
<1>3. AgesMatch
  <2>1. \A k \in Key : ago[k][permit[k]] = 0
      BY DEF SidecarInit
  <2> QED BY <2>1, NoCallType DEF SidecarInit, AgesMatch, Fresh, Empty
<1>4. CacheBounded
    BY <1>0, NothingHeld DEF SidecarInit, CacheBounded
<1> QED BY <1>1, <1>2, <1>3, <1>4 DEF SidecarInv

LEMMA SidecarInductive == SidecarInv /\ [SidecarNext]_sidecarVars => SidecarInv'
<1> SUFFICES ASSUME SidecarInv, [SidecarNext]_sidecarVars PROVE SidecarInv'
    OBVIOUS
<1>0. SupervisorInv /\ GateInv
    BY DEF SidecarInv, GateInv
<1>1. CASE Exit
    BY <1>0, <1>1, SupervisorSteps, ForgetSafe DEF Exit, SidecarInv, GateInv
<1>2. CASE Respawn
    BY <1>0, <1>2, SupervisorSteps, GateUntouched DEF Respawn, SidecarInv, GateInv
<1>3. CASE Stop
    BY <1>0, <1>3, SupervisorSteps, GateUntouched DEF Stop, SidecarInv, GateInv
<1>4. CASE Kill
    BY <1>0, <1>4, SupervisorSteps, ForgetSafe DEF Kill, SidecarInv, GateInv
<1>5. CASE Elapse
    BY <1>0, <1>5, SupervisorSteps, TickSafe DEF SidecarInv, GateInv
<1>6. CASE \E r \in Asker : Decide(r) \/ Land(r) \/ Lost(r) \/ \E k \in Key : Ask(r, k)
  <2>1. PICK r \in Asker : Decide(r) \/ Land(r) \/ Lost(r) \/ \E k \in Key : Ask(r, k)
      BY <1>6
  <2>2. UNCHANGED supervisor
      BY <2>1 DEF Decide, Land, Lost, Ask
  <2>3. GateInv'
      BY <1>0, <2>1, DecideSafe, LandSafe, LostSafe, AskSafe
  <2> QED BY <1>0, <2>2, <2>3, SupervisorSteps DEF SidecarInv, GateInv
<1>7. CASE \E k \in Key : SetPermit(k)
  <2>1. PICK k \in Key : SetPermit(k)
      BY <1>7
  <2>2. UNCHANGED supervisor
      BY <2>1 DEF SetPermit
  <2> QED BY <1>0, <2>1, <2>2, SupervisorSteps, SetPermitSafe DEF SidecarInv, GateInv
<1>8. CASE UNCHANGED sidecarVars
    BY <1>0, <1>8, SupervisorSteps, GateUntouched DEF sidecarVars, SidecarInv, GateInv
<1> QED BY <1>1, <1>2, <1>3, <1>4, <1>5, <1>6, <1>7, <1>8 DEF SidecarNext

LEMMA Invariant == SidecarSpec => []SidecarInv
BY SidecarInitial, SidecarInductive, PTL DEF SidecarSpec

(* state.rs AUTH_CACHE_MAX: every variable is of its type, and however many  *)
(* keys and requests there are the cache never holds more than its bound.    *)
THEOREM SidecarTyped == SidecarSpec => []SidecarTypeOK
BY Invariant, Implied, PTL

(* sidecar.ts: the supervisor stops restarting only after a budget of short  *)
(* runs in a row, and never at the edge.                                     *)
THEOREM GivesUpRightly == SidecarSpec => []GivesUpOnLoops
BY Invariant, Implied, PTL

(* sidecar.ts: when the stop returns no child runs, and none is started.     *)
THEOREM StopIsFinal == SidecarSpec => []NoneLeftBehind
BY Invariant, Implied, PTL

(* state.rs: a decision in use is one Node would have given at most AUTH_TTL *)
(* and one call ago, in whatever order answers arrive.                       *)
THEOREM RevocationLands == SidecarSpec => []DecisionsRecent
BY Invariant, Implied, PTL
=============================================================================
