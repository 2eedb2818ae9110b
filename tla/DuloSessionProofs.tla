-------------------------- MODULE DuloSessionProofs --------------------------
(* The session of the dulo playlist: types, the beat that goes on, the        *)
(* sign-out that stays.                                                       *)
(*                                                                            *)
(* A process is the words it has left, so the lemmas come in four layers:     *)
(* which word may follow which (InOrder, Mirrored, Way: a process is Sound);  *)
(* who else moves when one does (Moved: only those who waited for it, and     *)
(* none of them is saving); the invariant, action by action (IInv); and what  *)
(* is true in addition while, and after, a sign-out runs alone (LeavingInv,   *)
(* OutInv).                                                                   *)
EXTENDS DuloSession, SequenceTheorems, TLAPS

-----------------------------------------------------------------------------
(* Sequences of words.                                                        *)

Word == {"load", "found", "shell", "write", "saved", "mirror", "erase", "invalidate", "fresh", "device",
         "need", "await", "needDevice", "grant", "post", "postAgain", "beat", "rearm"}
Loading == {"load", "found", "shell"}

LEMMA Tails ==
    ASSUME NEW s \in Seq(Word), s # <<>>
    PROVE  /\ Tail(s) \in Seq(Word) /\ Len(s) \in Nat \ {0} /\ Len(Tail(s)) = Len(s) - 1
           /\ Head(s) = s[1] /\ Head(s) \in Word
           /\ \A i \in 1..(Len(s) - 1) : Tail(s)[i] = s[i + 1]
           /\ Tail(s) # <<>> => Len(s) > 1 /\ Head(Tail(s)) = s[2]
BY HeadTailProperties, EmptySeq

LEMMA Conses ==
    ASSUME NEW x \in Word, NEW s \in Seq(Word)
    PROVE  /\ <<x>> \o s \in Seq(Word) /\ <<x>> \o s # <<>>
           /\ Len(<<x>> \o s) = Len(s) + 1 /\ Len(s) \in Nat
           /\ (<<x>> \o s)[1] = x /\ \A i \in 1..Len(s) : (<<x>> \o s)[i + 1] = s[i]
           /\ Head(<<x>> \o s) = x /\ Tail(<<x>> \o s) = s
<1>0. <<x>> \in Seq(Word) /\ Len(<<x>>) = 1 /\ <<x>>[1] = x /\ Len(s) \in Nat
    BY EmptySeq
<1>1. PICK c : c = <<x>> \o s
    OBVIOUS
<1>2. c \in Seq(Word) /\ Len(c) = Len(s) + 1 /\ c[1] = x /\ \A i \in 1..Len(s) : c[i + 1] = s[i]
    BY <1>0, <1>1, ConcatProperties
<1>3. c # <<>>
    BY <1>0, <1>2, EmptySeq
<1>4. Head(c) = x /\ Tail(c) \in Seq(Word) /\ Len(Tail(c)) = Len(s) /\ \A i \in 1..Len(s) : Tail(c)[i] = s[i]
    BY <1>0, <1>2, <1>3, Tails
<1>5. Tail(c) = s
    BY <1>4, SeqEqual
<1> QED BY <1>0, <1>1, <1>2, <1>3, <1>4, <1>5

-----------------------------------------------------------------------------
(* The order in which a process does things.  A save is begun by a load and   *)
(* ends with the copy or the mirror; what looks at a document has loaded it;  *)
(* a call that stores its outcome is the last thing there is to do.           *)
InOrder(s) == \A i \in 1..Len(s) :
    /\ s[i] = "write" => i = 1 \/ (i = 2 /\ s[1] \in Loading)
    /\ s[i] = "saved" => i = 1 \/ s[i - 1] = "write"
    /\ s[i] = "mirror" => i = 1 \/ s[i - 1] = "saved"
    /\ s[i] \in {"fresh", "beat", "grant"} => i = 1 \/ s[i - 1] \in Loading
    /\ s[i] \in {"found", "shell"} => i = 1
    /\ s[i] \in {"grant", "post", "postAgain"} => i = Len(s)

(* What is written is copied; a save that sets the status is mirrored, and no *)
(* other is.                                                                  *)
Mirrored(s, status) == \A i \in 1..Len(s) :
    /\ s[i] = "write" => i < Len(s) /\ s[i + 1] = "saved"
    /\ s[i] = "saved" /\ status # Keep => i < Len(s) /\ s[i + 1] = "mirror"
    /\ s[i] = "mirror" => status # Keep

LEMMA OrderTail ==
    ASSUME NEW s \in Seq(Word), s # <<>>, InOrder(s)
    PROVE  InOrder(Tail(s))
<1>1. PICK t : t = Tail(s)
    OBVIOUS
<1>2. /\ t \in Seq(Word) /\ Len(s) \in Nat \ {0} /\ Len(t) = Len(s) - 1
      /\ \A i \in 1..(Len(s) - 1) : t[i] = s[i + 1]
    BY <1>1, Tails
<1>3. ASSUME NEW i \in 1..Len(t)
      PROVE  /\ t[i] = "write" => i = 1 \/ (i = 2 /\ t[1] \in Loading)
             /\ t[i] = "saved" => i = 1 \/ t[i - 1] = "write"
             /\ t[i] = "mirror" => i = 1 \/ t[i - 1] = "saved"
             /\ t[i] \in {"fresh", "beat", "grant"} => i = 1 \/ t[i - 1] \in Loading
             /\ t[i] \in {"found", "shell"} => i = 1
             /\ t[i] \in {"grant", "post", "postAgain"} => i = Len(t)
  <2>1. i + 1 \in 1..Len(s) /\ t[i] = s[i + 1]
      BY <1>2
  <2>2. i # 1 => i - 1 \in 1..(Len(s) - 1) /\ t[i - 1] = s[i]
      BY <1>2
  <2> QED BY <1>2, <2>1, <2>2 DEF InOrder
<1> QED BY <1>1, <1>3 DEF InOrder

(* One place of a sequence that is in order.                                  *)
LEMMA OrderAt ==
    ASSUME NEW s \in Seq(Word), InOrder(s), NEW i \in 1..Len(s)
    PROVE  /\ s[i] = "write" => i = 1 \/ (i = 2 /\ s[1] \in Loading)
           /\ s[i] = "saved" => i = 1 \/ s[i - 1] = "write"
           /\ s[i] = "mirror" => i = 1 \/ s[i - 1] = "saved"
           /\ s[i] \in {"fresh", "beat", "grant"} => i = 1 \/ s[i - 1] \in Loading
           /\ s[i] \in {"found", "shell"} => i = 1
           /\ s[i] \in {"grant", "post", "postAgain"} => i = Len(s)
BY DEF InOrder

(* The first thing to do is replaced by another of its kind.                  *)
LEMMA OrderSwap ==
    ASSUME NEW s \in Seq(Word), s # <<>>, InOrder(s),
           NEW x \in Word, x \notin {"grant", "post", "postAgain"},
           Head(s) \in Loading => x \in Loading,
           Head(s) \notin {"write", "saved"}
    PROVE  InOrder(<<x>> \o Tail(s))
<1>1. PICK t : t = <<x>> \o Tail(s)
    OBVIOUS
<1>2. /\ Tail(s) \in Seq(Word) /\ Len(s) \in Nat \ {0} /\ Len(Tail(s)) = Len(s) - 1 /\ Head(s) = s[1]
      /\ \A i \in 1..(Len(s) - 1) : Tail(s)[i] = s[i + 1]
    BY Tails
<1>3. /\ Len(t) = Len(s) /\ t[1] = x /\ \A i \in 1..(Len(s) - 1) : t[i + 1] = s[i + 1]
    BY <1>1, <1>2, Conses
<1>4. \A i \in 2..Len(s) : t[i] = s[i]
  <2> TAKE i \in 2..Len(s)
  <2>1. i - 1 \in 1..(Len(s) - 1) /\ (i - 1) + 1 = i
      BY <1>2
  <2> QED BY <1>3, <2>1
<1>5. ASSUME NEW i \in 1..Len(t)
      PROVE  /\ t[i] = "write" => i = 1 \/ (i = 2 /\ t[1] \in Loading)
             /\ t[i] = "saved" => i = 1 \/ t[i - 1] = "write"
             /\ t[i] = "mirror" => i = 1 \/ t[i - 1] = "saved"
             /\ t[i] \in {"fresh", "beat", "grant"} => i = 1 \/ t[i - 1] \in Loading
             /\ t[i] \in {"found", "shell"} => i = 1
             /\ t[i] \in {"grant", "post", "postAgain"} => i = Len(t)
  <2>1. CASE i = 1
      BY <1>3, <2>1
  <2>2. CASE i = 2
    <3>1. t[2] = s[2] /\ i \in 1..Len(s) /\ i - 1 = 1
        BY <1>3, <1>4, <2>2
    <3>2. /\ s[i] = "write" => i = 1 \/ (i = 2 /\ s[1] \in Loading)
          /\ s[i] = "saved" => i = 1 \/ s[i - 1] = "write"
          /\ s[i] = "mirror" => i = 1 \/ s[i - 1] = "saved"
          /\ s[i] \in {"fresh", "beat", "grant"} => i = 1 \/ s[i - 1] \in Loading
          /\ s[i] \in {"found", "shell"} => i = 1
          /\ s[i] \in {"grant", "post", "postAgain"} => i = Len(s)
        BY <3>1, OrderAt
    <3>3. s[1] \in Loading => t[1] \in Loading
        BY <1>2, <1>3
    <3>4. s[1] \notin {"write", "saved"} /\ t[i - 1] = t[1] /\ s[i - 1] = s[1] /\ t[i] = s[i]
        BY <1>2, <2>2, <3>1
    <3> QED BY <1>3, <2>2, <3>2, <3>3, <3>4
  <2>3. CASE i > 2
    <3>1. t[i] = s[i] /\ t[i - 1] = s[i - 1] /\ i \in 1..Len(s)
        BY <1>2, <1>3, <1>4, <2>3
    <3>2. /\ s[i] # "write"
          /\ s[i] = "saved" => s[i - 1] = "write"
          /\ s[i] = "mirror" => s[i - 1] = "saved"
          /\ s[i] \in {"fresh", "beat", "grant"} => s[i - 1] \in Loading
          /\ s[i] \notin {"found", "shell"}
          /\ s[i] \in {"grant", "post", "postAgain"} => i = Len(s)
        BY <2>3, <3>1, OrderAt
    <3> QED BY <1>3, <2>3, <3>1, <3>2
  <2>4. i = 1 \/ i = 2 \/ i > 2
      BY <1>2, <1>3
  <2> QED BY <2>1, <2>2, <2>3, <2>4
<1> QED BY <1>1, <1>5 DEF InOrder

(* Who is not about to save has no save ahead before it loads again.          *)
LEMMA NoSaveAhead ==
    ASSUME NEW s \in Seq(Word), s # <<>>, InOrder(s), Head(s) \notin Loading \cup {"write", "saved"}
    PROVE  \A i \in 2..Len(s) : s[i] \notin {"write", "saved", "mirror"}
<1>1. Len(s) \in Nat \ {0} /\ Head(s) = s[1]
    BY Tails
<1>2. \A i \in 2..Len(s) : s[i] # "write"
    BY <1>1 DEF InOrder
<1>3. \A i \in 2..Len(s) : s[i] # "saved"
  <2> SUFFICES ASSUME NEW i \in 2..Len(s), s[i] = "saved" PROVE FALSE
      OBVIOUS
  <2>1. s[i - 1] = "write" /\ i - 1 \in 1..Len(s)
      BY <1>1 DEF InOrder
  <2> QED BY <1>1, <1>2, <2>1
<1>4. \A i \in 2..Len(s) : s[i] # "mirror"
  <2> SUFFICES ASSUME NEW i \in 2..Len(s), s[i] = "mirror" PROVE FALSE
      OBVIOUS
  <2>1. s[i - 1] = "saved" /\ i - 1 \in 1..Len(s)
      BY <1>1 DEF InOrder
  <2> QED BY <1>1, <1>3, <2>1
<1> QED BY <1>2, <1>3, <1>4

(* The steps of a save.                                                       *)
LEMMA Saves3 ==
    ASSUME NEW patch \in Patch, patch.status = Keep
    PROVE  Save(patch) = <<"load", "write", "saved">>
BY ConcatEmptySeq DEF Save, Word

LEMMA Saves4 ==
    ASSUME NEW patch \in Patch, patch.status # Keep
    PROVE  Save(patch) = <<"load", "write", "saved", "mirror">>
<1>1. PICK c : c = <<"load", "write", "saved">> \o <<"mirror">>
    OBVIOUS
<1>2. c \in Seq(Word) /\ Len(c) = 4 /\ \A i \in 1..4 : c[i] = IF i <= 3 THEN <<"load", "write", "saved">>[i] ELSE <<"mirror">>[i - 3]
  <2>1. <<"load", "write", "saved">> \in Seq(Word) /\ <<"mirror">> \in Seq(Word)
      BY DEF Word
  <2> QED BY <1>1, <2>1, ConcatProperties
<1>3. c[1] = "load" /\ c[2] = "write" /\ c[3] = "saved" /\ c[4] = "mirror"
    BY <1>2
<1>4. PICK d : d = <<"load", "write", "saved", "mirror">>
    OBVIOUS
<1>5. d \in Seq(Word) /\ Len(d) = 4 /\ d[1] = "load" /\ d[2] = "write" /\ d[3] = "saved" /\ d[4] = "mirror"
    BY <1>4 DEF Word
<1>6. c = d
  <2>1. \A i \in 1..4 : i = 1 \/ i = 2 \/ i = 3 \/ i = 4
      OBVIOUS
  <2>2. \A i \in 1..Len(c) : c[i] = d[i]
      BY <1>2, <1>3, <1>5, <2>1
  <2> QED BY <1>2, <1>5, <2>2, SeqEqual
<1> QED BY <1>1, <1>4, <1>6 DEF Save

-----------------------------------------------------------------------------
(* Processes.                                                                 *)
Process == [todo : Seq(Word), seen : Doc \cup {NoDoc}, patch : Patch, token : Token \cup {NoToken}]

(* What is done with a document in hand.                                      *)
Looking == {"found", "shell", "write", "saved", "mirror", "fresh", "grant", "beat"}

(* The shared refresh ends in a save, or without an answer; the beat and the  *)
(* boot have their own short ways.                                            *)
FlightWay(s) == /\ \A i \in 1..Len(s) : s[i] \in Loading \cup {"grant", "write", "saved", "mirror"}
                /\ s # <<>> => s[Len(s)] \in {"grant", "saved", "mirror"}
TickWay(s) == \/ s = <<>>
              \/ Head(s) \in Loading /\ Tail(s) = <<"beat">>
              \/ s = <<"beat">> \/ s = <<"await", "rearm">> \/ s = <<"rearm">>
WakeWay(s) == s # <<>> => Head(s) \in Loading /\ Tail(s) = <<>>
Way(x, s) == /\ x = Flight => FlightWay(s)
             /\ x = Tick => TickWay(s)
             /\ x = Wake => WakeWay(s)

Sound(x, q) ==
    /\ q \in Process /\ (q.todo = <<>> => q = Idle)
    /\ InOrder(q.todo) /\ Mirrored(q.todo, q.patch.status)
    /\ q.todo # <<>> /\ Head(q.todo) \in Looking => q.seen \in Doc
    /\ Way(x, q.todo)

LEMMA Shells == /\ Shell \in Doc /\ Shell \in Patch /\ NoPatch \in Patch
                /\ NoPatch.status = Keep /\ Shell.status # Keep
BY DuloAssumption DEF DuloAssumption, Shell, NoPatch, Doc, Patch, Status

LEMMA Others == /\ Tick \in Proc /\ Flight \in Proc /\ Device \in Proc /\ Wake \in Proc
                /\ Tick # Flight /\ Tick # Wake /\ Flight # Wake /\ Device # Flight /\ Device # Tick /\ Device # Wake
                /\ \A r \in Request : r \in Proc /\ r # Tick /\ r # Flight /\ r # Wake /\ r # Device
BY DuloAssumption DEF DuloAssumption, Proc

LEMMA IdleSound ==
    ASSUME NEW x
    PROVE  Sound(x, Idle) /\ Idle \in Process /\ Idle.todo = <<>>
<1>1. Idle \in Process /\ Idle.todo = <<>>
    BY Shells DEF Idle, Process
<1>2. InOrder(<<>>) /\ Mirrored(<<>>, Idle.patch.status)
    BY DEF InOrder, Mirrored
<1>3. Way(x, <<>>)
    BY DEF Way, FlightWay, TickWay, WakeWay
<1> QED BY <1>1, <1>2, <1>3 DEF Sound

(* The ways of the beat.                                                      *)
LEMMA BeatTails == Tail(<<"beat">>) = <<>> /\ Tail(<<"rearm">>) = <<>> /\ Tail(<<"await", "rearm">>) = <<"rearm">>
                   /\ Head(<<"beat">>) = "beat" /\ Head(<<"rearm">>) = "rearm" /\ Head(<<"await", "rearm">>) = "await"
OBVIOUS

LEMMA WayTail ==
    ASSUME NEW x, NEW s \in Seq(Word), s # <<>>, Tail(s) # <<>>, Way(x, s)
    PROVE  Way(x, Tail(s))
<1>1. ASSUME FlightWay(s) PROVE FlightWay(Tail(s))
  <2>1. PICK t : t = Tail(s)
      OBVIOUS
  <2>2. /\ Len(s) \in Nat \ {0} /\ Len(t) = Len(s) - 1 /\ Len(s) > 1
        /\ \A i \in 1..(Len(s) - 1) : t[i] = s[i + 1]
      BY <2>1, Tails
  <2>3. \A i \in 1..Len(t) : t[i] \in Loading \cup {"grant", "write", "saved", "mirror"}
    <3> TAKE i \in 1..Len(t)
    <3>1. i + 1 \in 1..Len(s) /\ t[i] = s[i + 1]
        BY <2>2
    <3> QED BY <1>1, <3>1 DEF FlightWay
  <2>4. t[Len(t)] = s[Len(s)]
      BY <2>2
  <2> QED BY <1>1, <2>1, <2>3, <2>4 DEF FlightWay
<1>2. ASSUME TickWay(s) PROVE TickWay(Tail(s))
    BY <1>2, BeatTails DEF TickWay
<1>3. ASSUME WakeWay(s) PROVE FALSE
    BY <1>3 DEF WakeWay
<1> QED BY <1>1, <1>2, <1>3 DEF Way

LEMMA MirroredTail ==
    ASSUME NEW s \in Seq(Word), s # <<>>, NEW status, Mirrored(s, status)
    PROVE  Mirrored(Tail(s), status)
<1>1. PICK t : t = Tail(s)
    OBVIOUS
<1>2. /\ Len(s) \in Nat \ {0} /\ Len(t) = Len(s) - 1
      /\ \A i \in 1..(Len(s) - 1) : t[i] = s[i + 1]
    BY <1>1, Tails
<1>3. ASSUME NEW i \in 1..Len(t)
      PROVE  /\ t[i] = "write" => i < Len(t) /\ t[i + 1] = "saved"
             /\ t[i] = "saved" /\ status # Keep => i < Len(t) /\ t[i + 1] = "mirror"
             /\ t[i] = "mirror" => status # Keep
  <2>1. i + 1 \in 1..Len(s) /\ t[i] = s[i + 1]
      BY <1>2
  <2>2. /\ s[i + 1] = "write" => i + 1 < Len(s) /\ s[(i + 1) + 1] = "saved"
        /\ s[i + 1] = "saved" /\ status # Keep => i + 1 < Len(s) /\ s[(i + 1) + 1] = "mirror"
        /\ s[i + 1] = "mirror" => status # Keep
      BY <2>1 DEF Mirrored
  <2>3. i < Len(t) => t[i + 1] = s[(i + 1) + 1]
      BY <1>2
  <2> QED BY <1>2, <2>1, <2>2, <2>3
<1> QED BY <1>1, <1>3 DEF Mirrored

(* The next thing.                                                            *)
LEMMA TailSound ==
    ASSUME NEW x, NEW q, Sound(x, q), q.todo # <<>>,
           NEW r \in Process, r.todo = Tail(q.todo), r.todo # <<>>, r.patch = q.patch,
           Head(q.todo) \in Loading \cup {"write", "saved"} => r.seen \in Doc
    PROVE  Sound(x, r)
<1>1. PICK s : s = q.todo
    OBVIOUS
<1>2. s \in Seq(Word) /\ s # <<>> /\ InOrder(s) /\ Mirrored(s, q.patch.status) /\ Way(x, s) /\ Tail(s) # <<>>
    BY <1>1 DEF Sound, Process
<1>3. InOrder(Tail(s)) /\ Mirrored(Tail(s), q.patch.status) /\ Way(x, Tail(s))
    BY <1>2, OrderTail, MirroredTail, WayTail
<1>4. Head(Tail(s)) \in Looking => Head(s) \in Loading \cup {"write", "saved"}
  <2>1. Head(s) = s[1] /\ Head(Tail(s)) = s[2] /\ 2 \in 1..Len(s)
      BY <1>2, Tails
  <2>2. PICK i \in 1..Len(s) : i = 2 /\ s[i - 1] = s[1]
      BY <2>1
  <2>3. /\ s[i] = "write" => i = 1 \/ (i = 2 /\ s[1] \in Loading)
        /\ s[i] = "saved" => i = 1 \/ s[i - 1] = "write"
        /\ s[i] = "mirror" => i = 1 \/ s[i - 1] = "saved"
        /\ s[i] \in {"fresh", "beat", "grant"} => i = 1 \/ s[i - 1] \in Loading
        /\ s[i] \in {"found", "shell"} => i = 1
      BY <1>2, OrderAt
  <2> QED BY <2>1, <2>2, <2>3 DEF Looking
<1> QED BY <1>1, <1>2, <1>3, <1>4 DEF Sound

(* The answer of a load is awaited: what was a load stays one.                *)
LEMMA AnswerSound ==
    ASSUME NEW x, NEW q, Sound(x, q), q.todo # <<>>, Head(q.todo) = "load", NEW w \in {"found", "shell"},
           NEW r \in Process, r.todo = <<w>> \o Tail(q.todo), r.patch = q.patch, r.seen \in Doc
    PROVE  Sound(x, r)
<1>1. PICK s : s = q.todo
    OBVIOUS
<1>2. /\ s \in Seq(Word) /\ s # <<>> /\ InOrder(s) /\ Mirrored(s, q.patch.status) /\ Way(x, s)
      /\ Tail(s) \in Seq(Word) /\ Len(s) \in Nat \ {0} /\ Head(s) = s[1] /\ Len(Tail(s)) = Len(s) - 1
      /\ w \in Word /\ w \in Loading /\ s[1] \in Loading /\ s[1] = "load"
    BY <1>1, Tails DEF Sound, Process, Word, Loading
<1>3. PICK t : t = <<w>> \o Tail(s)
    OBVIOUS
<1>4. /\ t \in Seq(Word) /\ t # <<>> /\ Len(t) = Len(s) /\ t[1] = w /\ Head(t) = w /\ Tail(t) = Tail(s)
      /\ \A i \in 1..(Len(s) - 1) : t[i + 1] = s[i + 1]
    BY <1>2, <1>3, Conses, Tails
<1>5. \A i \in 2..Len(s) : t[i] = s[i]
  <2> TAKE i \in 2..Len(s)
  <2>1. i - 1 \in 1..(Len(s) - 1) /\ (i - 1) + 1 = i
      BY <1>2
  <2> QED BY <1>4, <2>1
<1>6. InOrder(t)
    BY <1>1, <1>2, <1>3, OrderSwap
<1>7. Mirrored(t, q.patch.status)
  <2> SUFFICES ASSUME NEW i \in 1..Len(t)
               PROVE  /\ t[i] = "write" => i < Len(t) /\ t[i + 1] = "saved"
                      /\ t[i] = "saved" /\ q.patch.status # Keep => i < Len(t) /\ t[i + 1] = "mirror"
                      /\ t[i] = "mirror" => q.patch.status # Keep
      BY DEF Mirrored
  <2>1. CASE i = 1
      BY <1>4, <2>1
  <2>2. CASE i # 1
    <3>1. t[i] = s[i] /\ (i < Len(s) => t[i + 1] = s[i + 1]) /\ i \in 1..Len(s)
        BY <1>2, <1>4, <1>5, <2>2
    <3>2. /\ s[i] = "write" => i < Len(s) /\ s[i + 1] = "saved"
          /\ s[i] = "saved" /\ q.patch.status # Keep => i < Len(s) /\ s[i + 1] = "mirror"
          /\ s[i] = "mirror" => q.patch.status # Keep
        BY <1>2, <3>1 DEF Mirrored
    <3>3. Len(t) = Len(s)
        BY <1>4
    <3> QED BY <3>1, <3>2, <3>3
  <2> QED BY <2>1, <2>2
<1>8. Way(x, t)
  <2>1. ASSUME FlightWay(s) PROVE FlightWay(t)
    <3>1. s[Len(s)] \in {"grant", "saved", "mirror"}
        BY <1>2, <2>1 DEF FlightWay
    <3>2. Len(s) # 1
        BY <1>2, <3>1
    <3>3. t[Len(t)] = s[Len(s)]
        BY <1>2, <1>4, <1>5, <3>2
    <3>4. \A i \in 1..Len(t) : t[i] \in Loading \cup {"grant", "write", "saved", "mirror"}
      <4> TAKE i \in 1..Len(t)
      <4>1. i = 1 \/ (i \in 1..Len(s) /\ t[i] = s[i])
          BY <1>4, <1>5
      <4> QED BY <1>2, <1>4, <2>1, <4>1 DEF FlightWay
    <3> QED BY <3>1, <3>3, <3>4 DEF FlightWay
  <2>2. ASSUME TickWay(s) PROVE TickWay(t)
      BY <1>2, <1>4, <2>2, BeatTails DEF TickWay
  <2>3. ASSUME WakeWay(s) PROVE WakeWay(t)
      BY <1>2, <1>4, <2>3 DEF WakeWay
  <2> QED BY <1>2, <2>1, <2>2, <2>3 DEF Way
<1> QED BY <1>1, <1>3, <1>4, <1>6, <1>7, <1>8 DEF Sound

LEMMA NoneMirrored ==
    ASSUME NEW s, \A i \in 1..Len(s) : s[i] \notin {"write", "saved", "mirror"}, NEW status
    PROVE  Mirrored(s, status)
BY DEF Mirrored

(* Nobody but the refresh, the beat and the boot has a way of his own.        *)
LEMMA NoWay == ASSUME NEW x, NEW s, x \notin {Flight, Tick, Wake} PROVE Way(x, s)
BY DEF Way

LEMMA WaysHeads ==
    ASSUME NEW x, NEW s \in Seq(Word), s # <<>>, Way(x, s)
    PROVE  /\ Head(s) \in {"fresh", "device", "post", "postAgain", "erase", "invalidate", "need", "needDevice"}
                => x \notin {Flight, Tick, Wake}
           /\ Head(s) \in {"saved", "mirror", "write", "grant"} => x \notin {Tick, Wake}
           /\ Head(s) \in {"beat", "await", "rearm"} => x \notin {Flight, Wake}
<1>1. Head(s) = s[1] /\ 1 \in 1..Len(s)
    BY Tails
<1>2. x = Flight => Head(s) \in Loading \cup {"grant", "write", "saved", "mirror"}
    BY <1>1 DEF Way, FlightWay
<1>3. x = Tick => Head(s) \in Loading \cup {"beat", "await", "rearm"}
    BY BeatTails DEF Way, TickWay
<1>4. x = Wake => Head(s) \in Loading
    BY DEF Way, WakeWay
<1> QED BY <1>2, <1>3, <1>4 DEF Loading

(* A process turns to wait for another, with the rest of its way behind it.   *)
LEMMA TurnSound ==
    ASSUME NEW x, NEW q, Sound(x, q), q.todo # <<>>, Head(q.todo) \in {"fresh", "device"},
           NEW w \in {"need", "needDevice"},
           NEW r \in Process, r.todo = <<w>> \o Tail(q.todo)
    PROVE  Sound(x, r)
<1>1. PICK s : s = q.todo
    OBVIOUS
<1>2. /\ s \in Seq(Word) /\ s # <<>> /\ InOrder(s) /\ Way(x, s) /\ Head(s) \in {"fresh", "device"}
      /\ Tail(s) \in Seq(Word) /\ Len(s) \in Nat \ {0} /\ Len(Tail(s)) = Len(s) - 1
      /\ \A i \in 1..(Len(s) - 1) : Tail(s)[i] = s[i + 1]
      /\ w \in Word /\ w \notin {"grant", "post", "postAgain", "write", "saved", "mirror"} /\ w \notin Looking
      /\ Head(s) \notin Loading \cup {"write", "saved"}
    BY <1>1, Tails DEF Sound, Process, Word, Loading, Looking
<1>3. PICK t : t = <<w>> \o Tail(s)
    OBVIOUS
<1>4. /\ t \in Seq(Word) /\ t # <<>> /\ Len(t) = Len(s) /\ t[1] = w /\ Head(t) = w
      /\ \A i \in 1..(Len(s) - 1) : t[i + 1] = s[i + 1]
    BY <1>2, <1>3, Conses
<1>5. InOrder(t)
    BY <1>2, <1>3, OrderSwap
<1>6. \A i \in 1..Len(t) : t[i] \notin {"write", "saved", "mirror"}
  <2> TAKE i \in 1..Len(t)
  <2>1. CASE i = 1
      BY <1>2, <1>4, <2>1
  <2>2. CASE i # 1
    <3>1. i \in 2..Len(s) /\ i - 1 \in 1..(Len(s) - 1) /\ (i - 1) + 1 = i
        BY <1>2, <1>4, <2>2
    <3>2. t[i] = s[i]
        BY <1>4, <3>1
    <3> QED BY <1>2, <3>1, <3>2, NoSaveAhead
  <2> QED BY <2>1, <2>2
<1>7. Mirrored(t, r.patch.status)
    BY <1>6, NoneMirrored
<1>8. Way(x, t)
    BY <1>2, WaysHeads, NoWay
<1> QED BY <1>1, <1>3, <1>4, <1>5, <1>7, <1>8, <1>2 DEF Sound

(* The save is over, and what is left begins with nothing in hand.            *)
LEMMA RestSound ==
    ASSUME NEW x, NEW q, Sound(x, q), q.todo # <<>>,
           Head(q.todo) = "mirror" \/ (Head(q.todo) = "saved" /\ q.patch.status = Keep),
           NEW r \in Process, r.todo = Tail(q.todo), r.todo # <<>>
    PROVE  Sound(x, r)
<1>1. PICK s : s = q.todo
    OBVIOUS
<1>2. /\ s \in Seq(Word) /\ s # <<>> /\ InOrder(s) /\ Mirrored(s, q.patch.status) /\ Way(x, s) /\ Tail(s) # <<>>
      /\ Head(s) \in {"mirror", "saved"} /\ Head(s) \notin Loading \cup {"write"}
    BY <1>1 DEF Sound, Process, Loading
<1>3. PICK t : t = Tail(s)
    OBVIOUS
<1>4. /\ t \in Seq(Word) /\ t # <<>> /\ Len(s) \in Nat \ {0} /\ Len(s) > 1 /\ Len(t) = Len(s) - 1 /\ Head(s) = s[1] /\ Head(t) = s[2]
      /\ \A i \in 1..(Len(s) - 1) : t[i] = s[i + 1]
    BY <1>2, <1>3, Tails
<1>5. \A i \in 2..Len(s) : s[i] \notin {"write", "saved", "mirror"}
  <2>1. CASE Head(s) = "mirror"
      BY <1>2, <2>1, NoSaveAhead
  <2>2. CASE Head(s) = "saved" /\ q.patch.status = Keep
    <3>1. \A i \in 2..Len(s) : s[i] # "mirror"
        BY <1>2, <1>4, <2>2 DEF Mirrored
    <3>2. \A i \in 2..Len(s) : s[i] # "write"
        BY <1>2, <1>4 DEF InOrder
    <3>3. \A i \in 2..Len(s) : s[i] # "saved"
      <4> SUFFICES ASSUME NEW i \in 2..Len(s), s[i] = "saved" PROVE FALSE
          OBVIOUS
      <4>1. s[i - 1] = "write" /\ i - 1 \in 1..Len(s)
          BY <1>2, <1>4 DEF InOrder
      <4>2. i - 1 = 1 \/ i - 1 \in 2..Len(s)
          BY <1>4
      <4> QED BY <1>2, <1>4, <3>2, <4>1, <4>2
    <3> QED BY <3>1, <3>2, <3>3
  <2> QED BY <1>1, <2>1, <2>2
<1>6. Mirrored(t, r.patch.status)
  <2>1. \A i \in 1..Len(t) : t[i] \notin {"write", "saved", "mirror"}
    <3> TAKE i \in 1..Len(t)
    <3>1. i + 1 \in 2..Len(s) /\ t[i] = s[i + 1]
        BY <1>4
    <3> QED BY <1>5, <3>1
  <2> QED BY <2>1, NoneMirrored
<1>7. Head(t) \notin Looking
  <2>1. PICK i \in 2..Len(s) : i = 2 /\ s[i - 1] = s[1] /\ i \in 1..Len(s)
      BY <1>4
  <2>2. /\ s[i] = "write" => i = 1 \/ (i = 2 /\ s[1] \in Loading)
        /\ s[i] \in {"fresh", "beat", "grant"} => i = 1 \/ s[i - 1] \in Loading
        /\ s[i] \in {"found", "shell"} => i = 1
      BY <1>2, <2>1, OrderAt
  <2> QED BY <1>2, <1>4, <1>5, <2>1, <2>2 DEF Looking
<1>8. InOrder(t) /\ Way(x, t)
    BY <1>2, <1>3, <1>4, OrderTail, WayTail
<1> QED BY <1>1, <1>3, <1>4, <1>6, <1>7, <1>8 DEF Sound

LEMMA SaveOrder ==
    ASSUME NEW patch \in Patch
    PROVE  /\ Save(patch) \in Seq(Word) /\ Save(patch) # <<>> /\ Head(Save(patch)) = "load"
           /\ InOrder(Save(patch)) /\ Mirrored(Save(patch), patch.status) /\ FlightWay(Save(patch))
           /\ \A i \in 1..Len(Save(patch)) : Save(patch)[i] \in Loading \cup {"write", "saved", "mirror"}
<1>1. CASE patch.status = Keep
  <2>1. PICK s : s = <<"load", "write", "saved">>
      OBVIOUS
  <2>2. /\ s \in Seq(Word) /\ s # <<>> /\ Head(s) = "load" /\ Len(s) = 3
        /\ s[1] = "load" /\ s[2] = "write" /\ s[3] = "saved"
      BY <2>1 DEF Word
  <2>3. \A i \in 1..Len(s) : i = 1 \/ i = 2 \/ i = 3
      BY <2>2
  <2>4. InOrder(s)
      BY <2>2, <2>3 DEF InOrder, Loading
  <2>5. Mirrored(s, patch.status) /\ FlightWay(s) /\ \A i \in 1..Len(s) : s[i] \in Loading \cup {"write", "saved", "mirror"}
      BY <1>1, <2>2, <2>3 DEF Mirrored, FlightWay, Loading
  <2> QED BY <1>1, <2>1, <2>2, <2>4, <2>5, Saves3
<1>2. CASE patch.status # Keep
  <2>1. PICK s : s = <<"load", "write", "saved", "mirror">>
      OBVIOUS
  <2>2. /\ s \in Seq(Word) /\ s # <<>> /\ Head(s) = "load" /\ Len(s) = 4
        /\ s[1] = "load" /\ s[2] = "write" /\ s[3] = "saved" /\ s[4] = "mirror"
      BY <2>1 DEF Word
  <2>3. \A i \in 1..Len(s) : i = 1 \/ i = 2 \/ i = 3 \/ i = 4
      BY <2>2
  <2>4. InOrder(s)
      BY <2>2, <2>3 DEF InOrder, Loading
  <2>5. Mirrored(s, patch.status) /\ FlightWay(s) /\ \A i \in 1..Len(s) : s[i] \in Loading \cup {"write", "saved", "mirror"}
      BY <1>2, <2>2, <2>3 DEF Mirrored, FlightWay, Loading
  <2> QED BY <1>2, <2>1, <2>2, <2>4, <2>5, Saves4
<1> QED BY <1>1, <1>2

(* A call stores its outcome, and has nothing left to do after that.          *)
LEMMA StoreSound ==
    ASSUME NEW x, NEW q, Sound(x, q), q.todo # <<>>, Head(q.todo) \in {"grant", "post", "postAgain"},
           NEW patch \in Patch, NEW r \in Process, r.patch = patch, r.todo = Save(patch) \o Tail(q.todo)
    PROVE  Sound(x, r) /\ r.todo # <<>> /\ Head(r.todo) = "load" /\ Tail(q.todo) = <<>>
<1>1. PICK s : s = q.todo
    OBVIOUS
<1>2. /\ s \in Seq(Word) /\ s # <<>> /\ InOrder(s) /\ Way(x, s) /\ Tail(s) \in Seq(Word)
      /\ Len(s) \in Nat \ {0} /\ Len(Tail(s)) = Len(s) - 1 /\ Head(s) = s[1] /\ 1 \in 1..Len(s)
    BY <1>1, Tails DEF Sound, Process
<1>3. Len(s) = 1
  <2>1. s[1] \in {"grant", "post", "postAgain"}
      BY <1>1, <1>2
  <2>2. PICK i \in 1..Len(s) : i = 1
      BY <1>2
  <2>3. s[i] \in {"grant", "post", "postAgain"} => i = Len(s)
      BY <1>2, OrderAt
  <2>4. s[i] = s[1]
      BY <2>2
  <2>5. s[i] \in {"grant", "post", "postAgain"}
      BY <2>1, <2>4
  <2>6. i = Len(s)
      BY <2>3, <2>5
  <2> QED BY <2>2, <2>6
<1>4. Tail(s) = <<>>
  <2>1. PICK u : u = Tail(s)
      OBVIOUS
  <2>2. u \in Seq(Word) /\ Len(u) = Len(s) - 1
      BY <1>2, <2>1
  <2>3. Len(u) = 0
      BY <1>3, <2>2
  <2> QED BY <2>1, <2>2, <2>3, EmptySeq
<1>5. r.todo = Save(patch)
    BY <1>1, <1>4, SaveOrder, ConcatEmptySeq
<1>6. x \notin {Tick, Wake}
  <2>1. Head(s) \in {"grant", "post", "postAgain"}
      BY <1>1
  <2> QED BY <1>2, <2>1, WaysHeads
<1>7. Way(x, Save(patch))
    BY <1>6, SaveOrder DEF Way
<1>8. "load" \notin Looking
    BY DEF Looking
<1> QED BY <1>1, <1>4, <1>5, <1>7, <1>8, SaveOrder DEF Sound

(* What a process begins with.                                                *)
LEMMA ConcatOrder ==
    ASSUME NEW s \in Seq(Word), NEW t \in Seq(Word), s # <<>>, t # <<>>, InOrder(s), InOrder(t), t[1] = "load",
           \A i \in 1..Len(s) : s[i] \notin {"grant", "post", "postAgain"},
           \A i \in 1..Len(t) : t[i] \notin {"write", "saved", "mirror"},
           NEW status, Mirrored(s, status)
    PROVE  /\ s \o t \in Seq(Word) /\ s \o t # <<>> /\ Head(s \o t) = s[1]
           /\ InOrder(s \o t) /\ Mirrored(s \o t, status)
<1>1. PICK c : c = s \o t
    OBVIOUS
<1>2. PICK m \in Nat, n \in Nat : m = Len(s) /\ n = Len(t)
    BY LenProperties
<1>3. /\ c \in Seq(Word) /\ Len(c) = m + n /\ m > 0 /\ n > 0
      /\ \A i \in 1..(m + n) : c[i] = IF i <= m THEN s[i] ELSE t[i - m]
    BY <1>1, <1>2, ConcatProperties, EmptySeq
<1>4. \A i \in 1..m : c[i] = s[i]
    BY <1>3
<1>5. \A i \in 1..n : c[m + i] = t[i]
  <2> TAKE i \in 1..n
  <2>1. m + i \in 1..(m + n) /\ ~(m + i <= m) /\ (m + i) - m = i
      BY <1>3
  <2> QED BY <1>3, <2>1
<1>6. c # <<>> /\ Head(c) = s[1] /\ c[1] = s[1]
    BY <1>3, <1>4, Tails, EmptySeq
<1>7. ASSUME NEW i \in 1..Len(c)
      PROVE  /\ c[i] = "write" => i = 1 \/ (i = 2 /\ c[1] \in Loading)
             /\ c[i] = "saved" => i = 1 \/ c[i - 1] = "write"
             /\ c[i] = "mirror" => i = 1 \/ c[i - 1] = "saved"
             /\ c[i] \in {"fresh", "beat", "grant"} => i = 1 \/ c[i - 1] \in Loading
             /\ c[i] \in {"found", "shell"} => i = 1
             /\ c[i] \in {"grant", "post", "postAgain"} => i = Len(c)
  <2>1. CASE i <= m
    <3>1. i \in 1..Len(s) /\ c[i] = s[i] /\ (i # 1 => c[i - 1] = s[i - 1])
        BY <1>2, <1>3, <1>4, <2>1
    <3>2. /\ s[i] = "write" => i = 1 \/ (i = 2 /\ s[1] \in Loading)
          /\ s[i] = "saved" => i = 1 \/ s[i - 1] = "write"
          /\ s[i] = "mirror" => i = 1 \/ s[i - 1] = "saved"
          /\ s[i] \in {"fresh", "beat", "grant"} => i = 1 \/ s[i - 1] \in Loading
          /\ s[i] \in {"found", "shell"} => i = 1
          /\ s[i] \notin {"grant", "post", "postAgain"}
        BY <3>1, OrderAt
    <3> QED BY <1>6, <3>1, <3>2
  <2>2. CASE i = m + 1
    <3>1. c[i] = "load"
        BY <1>3, <1>5, <2>2
    <3> QED BY <3>1
  <2>3. CASE i > m + 1
    <3>0. Len(c) = m + n
        BY <1>3
    <3>1. PICK j \in 1..n : j = i - m /\ j # 1 /\ i = m + j
        BY <3>0, <2>3
    <3>2. c[i] = t[j] /\ c[i - 1] = t[j - 1] /\ j \in 1..Len(t)
      <4>1. m + j = i /\ m + (j - 1) = i - 1 /\ j - 1 \in 1..n
          BY <1>3, <3>1
      <4> QED BY <1>2, <1>5, <4>1
    <3>3. /\ t[j] \notin {"write", "saved", "mirror", "found", "shell"}
          /\ t[j] \in {"fresh", "beat", "grant"} => t[j - 1] \in Loading
          /\ t[j] \in {"grant", "post", "postAgain"} => j = Len(t)
        BY <3>1, <3>2, OrderAt
    <3>4. j = Len(t) => i = Len(c)
        BY <1>2, <3>0, <3>1
    <3>5. /\ c[i] \notin {"write", "saved", "mirror", "found", "shell"}
          /\ c[i] \in {"fresh", "beat", "grant"} => c[i - 1] \in Loading
        BY <3>2, <3>3
    <3>6. c[i] \in {"grant", "post", "postAgain"} => i = Len(c)
        BY <3>2, <3>3, <3>4
    <3> QED BY <3>5, <3>6
  <2>4. i <= m \/ i = m + 1 \/ i > m + 1
      BY <1>3
  <2> QED BY <2>1, <2>2, <2>3, <2>4
<1>8. Mirrored(c, status)
  <2> SUFFICES ASSUME NEW i \in 1..Len(c)
               PROVE  /\ c[i] = "write" => i < Len(c) /\ c[i + 1] = "saved"
                      /\ c[i] = "saved" /\ status # Keep => i < Len(c) /\ c[i + 1] = "mirror"
                      /\ c[i] = "mirror" => status # Keep
      BY DEF Mirrored
  <2>1. CASE i <= m
    <3>1. i \in 1..Len(s) /\ c[i] = s[i] /\ (i < m => c[i + 1] = s[i + 1])
        BY <1>2, <1>3, <1>4, <2>1
    <3>2. /\ s[i] = "write" => i < Len(s) /\ s[i + 1] = "saved"
          /\ s[i] = "saved" /\ status # Keep => i < Len(s) /\ s[i + 1] = "mirror"
          /\ s[i] = "mirror" => status # Keep
        BY <3>1 DEF Mirrored
    <3> QED BY <1>2, <1>3, <3>1, <3>2
  <2>2. CASE i > m
    <3>1. PICK j \in 1..n : m + j = i
        BY <1>3, <2>2
    <3>2. c[i] = t[j] /\ j \in 1..Len(t)
        BY <1>2, <1>5, <3>1
    <3> QED BY <3>2
  <2> QED BY <1>3, <2>1, <2>2
<1> QED BY <1>1, <1>3, <1>6, <1>7, <1>8 DEF InOrder

-----------------------------------------------------------------------------
(* The ways that are begun.                                                   *)

(* A way that saves nothing.                                                  *)
Plain(s) == /\ s \in Seq(Word) /\ s # <<>> /\ InOrder(s)
            /\ \A i \in 1..Len(s) : s[i] \notin {"write", "saved", "mirror"}
            /\ Head(s) \notin Looking

LEMMA PlainSound ==
    ASSUME NEW x, NEW r \in Process, Plain(r.todo), Way(x, r.todo)
    PROVE  Sound(x, r)
BY NoneMirrored DEF Sound, Plain

LEMMA OneWay ==
    ASSUME NEW w \in {"load", "post", "erase"}
    PROVE  Plain(<<w>>) /\ Head(<<w>>) = w /\ Tail(<<w>>) = <<>>
<1>1. PICK s : s = <<w>>
    OBVIOUS
<1>2. s \in Seq(Word) /\ s # <<>> /\ Len(s) = 1 /\ s[1] = w /\ Head(s) = w /\ Tail(s) = <<>>
    BY <1>1 DEF Word
<1>3. \A i \in 1..Len(s) : i = 1
    BY <1>2
<1> QED BY <1>1, <1>2, <1>3 DEF Plain, InOrder, Looking, Loading

LEMMA TwoWays ==
    ASSUME NEW a, NEW b, \/ a = "load" /\ b \in {"grant", "beat", "post"}
                         \/ a = "await" /\ b \in {"rearm", "postAgain"}
                         \/ a = "erase" /\ b = "invalidate"
    PROVE  Plain(<<a, b>>) /\ Head(<<a, b>>) = a /\ Tail(<<a, b>>) = <<b>>
<1>1. PICK s : s = <<a, b>>
    OBVIOUS
<1>2. s \in Seq(Word) /\ s # <<>> /\ Len(s) = 2 /\ s[1] = a /\ s[2] = b /\ Head(s) = a /\ Tail(s) = <<b>>
    BY <1>1 DEF Word
<1>3. \A i \in 1..Len(s) : i = 1 \/ i = 2
    BY <1>2
<1>4. InOrder(s)
    BY <1>2, <1>3 DEF InOrder, Loading
<1> QED BY <1>1, <1>2, <1>3, <1>4 DEF Plain, Looking

LEMMA RenewWay == Plain(Renew) /\ Renew[1] = "load" /\ Head(Renew) = "load"
<1>1. PICK s : s = Renew
    OBVIOUS
<1>2. /\ s \in Seq(Word) /\ s # <<>> /\ Len(s) = 4 /\ Head(s) = "load"
      /\ s[1] = "load" /\ s[2] = "fresh" /\ s[3] = "load" /\ s[4] = "device"
    BY <1>1 DEF Word, Renew
<1>3. \A i \in 1..Len(s) : i = 1 \/ i = 2 \/ i = 3 \/ i = 4
    BY <1>2
<1>4. InOrder(s)
    BY <1>2, <1>3 DEF InOrder, Loading
<1> QED BY <1>1, <1>2, <1>3, <1>4 DEF Plain, Looking

LEMMA FlightsWay == Way(Flight, <<"load", "grant">>)
<1>1. PICK s : s = <<"load", "grant">>
    OBVIOUS
<1>2. s # <<>> /\ Len(s) = 2 /\ s[1] = "load" /\ s[2] = "grant"
    BY <1>1
<1>3. \A i \in 1..Len(s) : i = 1 \/ i = 2
    BY <1>2
<1>4. FlightWay(s)
    BY <1>2, <1>3 DEF FlightWay, Loading
<1> QED BY <1>1, <1>4, Others DEF Way

LEMMA TicksWay == Way(Tick, <<"load", "beat">>) /\ Way(Tick, <<"await", "rearm">>)
BY TwoWays, Others DEF Way, TickWay, Loading

LEMMA WakesWay == Way(Wake, <<"load">>)
BY OneWay, Others DEF Way, WakeWay, Loading

(* What a request begins with.                                                *)
LEMMA SaveBegun ==
    ASSUME NEW x, x \notin {Flight, Tick, Wake}, NEW patch \in Patch,
           NEW r \in Process, r.patch = patch, r.todo \in {Save(patch), Save(patch) \o Renew}
    PROVE  Sound(x, r) /\ r.todo # <<>> /\ Head(r.todo) = "load"
<1>1. PICK s : s = Save(patch)
    OBVIOUS
<1>2. /\ s \in Seq(Word) /\ s # <<>> /\ Head(s) = "load" /\ InOrder(s) /\ Mirrored(s, patch.status)
      /\ \A i \in 1..Len(s) : s[i] \in Loading \cup {"write", "saved", "mirror"}
    BY <1>1, SaveOrder
<1>3. \A i \in 1..Len(s) : s[i] \notin {"grant", "post", "postAgain"}
    BY <1>2 DEF Loading
<1>4. PICK t : t = Renew
    OBVIOUS
<1>5. /\ t \in Seq(Word) /\ t # <<>> /\ InOrder(t) /\ t[1] = "load"
      /\ \A i \in 1..Len(t) : t[i] \notin {"write", "saved", "mirror"}
    BY <1>4, RenewWay DEF Plain
<1>6. s[1] = "load"
    BY <1>2, Tails
<1>7. s \o t \in Seq(Word) /\ s \o t # <<>> /\ Head(s \o t) = s[1] /\ InOrder(s \o t) /\ Mirrored(s \o t, patch.status)
    BY <1>2, <1>3, <1>5, ConcatOrder
<1>8. /\ r.todo \in Seq(Word) /\ r.todo # <<>> /\ Head(r.todo) = "load" /\ InOrder(r.todo) /\ Mirrored(r.todo, r.patch.status)
    BY <1>1, <1>2, <1>4, <1>6, <1>7
<1> QED BY <1>8, NoWay DEF Sound, Looking

LEMMA RenewBegun ==
    ASSUME NEW x, x \notin {Flight, Tick, Wake},
           NEW r \in Process, r.todo = Renew \o <<"load", "post">>
    PROVE  Sound(x, r) /\ r.todo # <<>> /\ Head(r.todo) = "load"
<1>1. PICK s, t : s = Renew /\ t = <<"load", "post">>
    OBVIOUS
<1>2. /\ s \in Seq(Word) /\ s # <<>> /\ s[1] = "load" /\ InOrder(s)
      /\ \A i \in 1..Len(s) : s[i] \notin {"write", "saved", "mirror"}
    BY <1>1, RenewWay DEF Plain
<1>3. \A i \in 1..Len(s) : s[i] \notin {"grant", "post", "postAgain"}
  <2>1. /\ Len(s) = 4 /\ s[1] = "load" /\ s[2] = "fresh" /\ s[3] = "load" /\ s[4] = "device"
      BY <1>1 DEF Renew
  <2>2. \A i \in 1..Len(s) : i = 1 \/ i = 2 \/ i = 3 \/ i = 4
      BY <2>1
  <2> QED BY <2>1, <2>2
<1>4. /\ t \in Seq(Word) /\ t # <<>> /\ InOrder(t) /\ t[1] = "load"
      /\ \A i \in 1..Len(t) : t[i] \notin {"write", "saved", "mirror"}
    BY <1>1, TwoWays, Tails DEF Plain
<1>5. Mirrored(s, r.patch.status)
    BY <1>2, NoneMirrored
<1>6. s \o t \in Seq(Word) /\ s \o t # <<>> /\ Head(s \o t) = s[1] /\ InOrder(s \o t) /\ Mirrored(s \o t, r.patch.status)
    BY <1>2, <1>3, <1>4, <1>5, ConcatOrder
<1>7. /\ r.todo \in Seq(Word) /\ r.todo # <<>> /\ Head(r.todo) = "load" /\ InOrder(r.todo) /\ Mirrored(r.todo, r.patch.status)
    BY <1>1, <1>2, <1>6
<1> QED BY <1>7, NoWay DEF Sound, Looking

(* Whoever fetches nothing first is beside no writer next.                    *)
LEMMA NextHead ==
    ASSUME NEW s \in Seq(Word), s # <<>>, Tail(s) # <<>>, InOrder(s), Head(s) \notin Loading \cup {"write", "saved"}
    PROVE  Head(Tail(s)) \notin Looking
<1>1. Head(s) = s[1] /\ Head(Tail(s)) = s[2] /\ 2 \in 1..Len(s)
    BY Tails
<1>2. PICK i \in 1..Len(s) : i = 2 /\ s[i - 1] = s[1]
    BY <1>1
<1>3. /\ s[i] = "write" => i = 1 \/ (i = 2 /\ s[1] \in Loading)
      /\ s[i] = "saved" => i = 1 \/ s[i - 1] = "write"
      /\ s[i] = "mirror" => i = 1 \/ s[i - 1] = "saved"
      /\ s[i] \in {"fresh", "beat", "grant"} => i = 1 \/ s[i - 1] \in Loading
      /\ s[i] \in {"found", "shell"} => i = 1
    BY <1>2, OrderAt
<1> QED BY <1>1, <1>2, <1>3 DEF Looking

(* What follows a load, a write, and the copy of a save that is mirrored.     *)
LEMMA LoadedNext ==
    ASSUME NEW s \in Seq(Word), s # <<>>, Tail(s) # <<>>, InOrder(s), Head(s) \in Loading
    PROVE  Head(Tail(s)) \notin {"saved", "mirror", "found", "shell"}
<1>1. Head(s) = s[1] /\ Head(Tail(s)) = s[2] /\ 2 \in 1..Len(s)
    BY Tails
<1>2. PICK i \in 1..Len(s) : i = 2 /\ s[i - 1] = s[1]
    BY <1>1
<1>3. /\ s[i] = "saved" => i = 1 \/ s[i - 1] = "write"
      /\ s[i] = "mirror" => i = 1 \/ s[i - 1] = "saved"
      /\ s[i] \in {"found", "shell"} => i = 1
    BY <1>2, OrderAt
<1> QED BY <1>1, <1>2, <1>3 DEF Loading

LEMMA SaveNext ==
    ASSUME NEW s \in Seq(Word), s # <<>>, NEW status, Mirrored(s, status)
    PROVE  /\ Head(s) = "write" => Tail(s) # <<>> /\ Head(Tail(s)) = "saved"
           /\ Head(s) = "saved" /\ status # Keep => Tail(s) # <<>> /\ Head(Tail(s)) = "mirror"
           /\ Head(s) = "mirror" => status # Keep
<1>1. Head(s) = s[1] /\ Len(s) \in Nat \ {0} /\ Len(Tail(s)) = Len(s) - 1 /\ Tail(s) \in Seq(Word)
    BY Tails
<1>2. PICK i \in 1..Len(s) : i = 1
    BY <1>1
<1>3. /\ s[i] = "write" => i < Len(s) /\ s[i + 1] = "saved"
      /\ s[i] = "saved" /\ status # Keep => i < Len(s) /\ s[i + 1] = "mirror"
      /\ s[i] = "mirror" => status # Keep
    BY <1>2 DEF Mirrored
<1>4. s[i] = s[1] /\ s[i + 1] = s[2]
    BY <1>2
<1>5. i < Len(s) => Tail(s) # <<>>
    BY <1>1, <1>2, EmptySeq
<1> QED BY <1>1, <1>3, <1>4, <1>5, Tails

-----------------------------------------------------------------------------
(* Who moves when p does.                                                     *)
Sounds == procs \in [Proc -> Process] /\ \A x \in Proc : Sound(x, procs[x])

Saver(q) == q.todo # <<>> /\ Head(q.todo) \in {"shell", "write", "saved", "mirror"}
Apart(x, q) == x # Wake /\ ~Saver(q)

(* The others stay where they are or are woken, apart from every save; a      *)
(* refresh ends with its own step; the beat waits for nobody but the refresh. *)
Moved(p) ==
    /\ \A x \in Proc \ {p} :
        procs'[x] = procs[x] \/ (Apart(x, procs[x]) /\ Apart(x, procs'[x]) /\ (x \in Request => procs[x] # Idle))
    /\ p # Flight /\ procs[Flight].todo # <<>> => procs'[Flight] = procs[Flight]
    /\ p \notin {Tick, Flight} => procs'[Tick] = procs[Tick]
    /\ p = Flight => procs'[Tick] = procs[Tick] \/ At(Tick, "await")

LEMMA Typed ==
    ASSUME Sounds, NEW x \in Proc
    PROVE  /\ procs[x] \in Process /\ Sound(x, procs[x])
           /\ procs[x].todo \in Seq(Word) /\ InOrder(procs[x].todo) /\ Mirrored(procs[x].todo, procs[x].patch.status)
           /\ Way(x, procs[x].todo) /\ (procs[x].todo = <<>> => procs[x] = Idle)
           /\ procs[x].seen \in Doc \cup {NoDoc} /\ procs[x].patch \in Patch /\ procs[x].token \in Token \cup {NoToken}
BY DEF Sounds, Sound, Process

LEMMA WaiterGoesOn ==
    ASSUME Sounds, NEW x \in Proc, NEW p \in Proc, NEW t \in Token \cup {NoToken}, Waits(x, p)
    PROVE  /\ Sound(x, GoesOn(x, p, t)) /\ ~Saver(GoesOn(x, p, t)) /\ ~Saver(procs[x]) /\ x # Wake /\ x # Flight
           /\ procs[x].todo # <<>> /\ (x = Tick => p = Flight /\ At(Tick, "await"))
<1>1. PICK q : q = procs[x]
    OBVIOUS
<1>2. /\ q \in Process /\ Sound(x, q) /\ q.todo \in Seq(Word) /\ InOrder(q.todo) /\ Way(x, q.todo)
    BY <1>1, Typed
<1>3. q.todo # <<>> /\ Head(q.todo) \in {"need", "await", "needDevice"}
    BY <1>1 DEF Waits, At
<1>4. x \notin {Flight, Wake} /\ (x = Tick => Head(q.todo) = "await")
    BY <1>2, <1>3, WaysHeads
<1>5. Head(q.todo) \notin Loading \cup {"write", "saved"}
    BY <1>3 DEF Loading
<1>6. CASE Tail(q.todo) = <<>>
  <2>1. GoesOn(x, p, t) = Idle
      BY <1>1, <1>6 DEF GoesOn, Rest
  <2> QED BY <1>1, <1>3, <1>4, <2>1, IdleSound DEF Saver, Waits, At
<1>7. CASE Tail(q.todo) # <<>>
  <2>1. PICK r : r = GoesOn(x, p, t)
      OBVIOUS
  <2>2. r = [q EXCEPT !.todo = Tail(@), !.token = IF p = Flight THEN t ELSE @]
      BY <1>1, <1>7, <2>1 DEF GoesOn, Rest
  <2>3. Tail(q.todo) \in Seq(Word)
      BY <1>2, <1>3, Tails
  <2>4. r \in Process /\ r.todo = Tail(q.todo) /\ r.patch = q.patch
      BY <1>2, <2>2, <2>3 DEF Process
  <2>5. Sound(x, r)
      BY <1>2, <1>3, <1>5, <1>7, <2>4, TailSound
  <2>6. Head(Tail(q.todo)) \notin Looking
      BY <1>2, <1>3, <1>5, <1>7, NextHead
  <2> QED BY <1>1, <1>3, <1>4, <2>1, <2>4, <2>5, <2>6 DEF Saver, Waits, At, Looking
<1> QED BY <1>6, <1>7

LEMMA FinishMoves ==
    ASSUME Sounds, NEW p \in Proc, NEW t \in Token \cup {NoToken}, Finish(p, t)
    PROVE  /\ Sounds' /\ Moved(p) /\ procs'[p] = Idle
           /\ p = Flight /\ At(Tick, "await") => procs'[Tick].todo = <<"rearm">> /\ procs'[Tick].token = t
<1>1. procs' = [x \in Proc |-> IF x = p THEN Idle ELSE Resumed(x, p, t)]
    BY DEF Finish
<1>2. procs'[p] = Idle /\ \A x \in Proc \ {p} : procs'[x] = Resumed(x, p, t)
    BY <1>1
<1>3. ASSUME NEW x \in Proc \ {p}, ~Waits(x, p)
      PROVE  procs'[x] = procs[x] /\ Sound(x, procs'[x])
    BY <1>2, <1>3, Typed DEF Resumed
<1>4. ASSUME NEW x \in Proc \ {p}, Waits(x, p)
      PROVE  /\ Sound(x, procs'[x]) /\ ~Saver(procs'[x]) /\ ~Saver(procs[x]) /\ x # Wake /\ x # Flight
             /\ procs[x].todo # <<>> /\ (x = Tick => p = Flight /\ At(Tick, "await"))
  <2>1. procs'[x] = Idle \/ procs'[x] = GoesOn(x, p, t)
      BY <1>2, <1>4 DEF Resumed
  <2> QED BY <1>4, <2>1, WaiterGoesOn, IdleSound DEF Saver
<1>5. \A x \in Proc : Sound(x, procs'[x])
    BY <1>2, <1>3, <1>4, IdleSound
<1>6. Sounds'
  <2>1. procs' \in [Proc -> Process]
      BY <1>1, <1>5 DEF Sound
  <2> QED BY <1>5, <2>1 DEF Sounds
<1>7. Moved(p)
  <2>1. ASSUME NEW x \in Proc \ {p}
        PROVE procs'[x] = procs[x] \/ (Apart(x, procs[x]) /\ Apart(x, procs'[x]) /\ (x \in Request => procs[x] # Idle))
      BY <1>3, <1>4, IdleSound DEF Apart
  <2>2. p # Flight /\ procs[Flight].todo # <<>> => procs'[Flight] = procs[Flight]
      BY <1>3, <1>4, Others
  <2>3. p \notin {Tick, Flight} => procs'[Tick] = procs[Tick]
      BY <1>3, <1>4, Others
  <2>4. p = Flight => procs'[Tick] = procs[Tick] \/ At(Tick, "await")
      BY <1>3, <1>4, Others
  <2> QED BY <2>1, <2>2, <2>3, <2>4 DEF Moved
<1>8. ASSUME p = Flight, At(Tick, "await") PROVE procs'[Tick].todo = <<"rearm">> /\ procs'[Tick].token = t
  <2>1. procs[Tick].todo = <<"await", "rearm">> /\ procs[Tick] \in Process
    <3>1. procs[Tick] \in Process /\ TickWay(procs[Tick].todo) /\ procs[Tick].todo # <<>> /\ Head(procs[Tick].todo) = "await"
        BY <1>8, Typed, Others DEF Way, At
    <3> QED BY <3>1, BeatTails DEF TickWay, Loading
  <2>2. Tail(procs[Tick].todo) = <<"rearm">> /\ <<"rearm">> # <<>>
      BY <2>1
  <2>3. Waits(Tick, p) /\ Tick \in Proc \ {p}
      BY <1>8, Others DEF Waits
  <2>4. procs'[Tick] = GoesOn(Tick, p, t)
      BY <1>2, <1>8, <2>3 DEF Resumed
  <2>5. GoesOn(Tick, p, t) = [procs[Tick] EXCEPT !.todo = Tail(@), !.token = IF p = Flight THEN t ELSE @]
      BY <2>2 DEF GoesOn, Rest
  <2> QED BY <1>8, <2>1, <2>2, <2>4, <2>5 DEF Process
<1> QED BY <1>2, <1>6, <1>7, <1>8

LEMMA GoMoves ==
    ASSUME Sounds, NEW p \in Proc, NEW q \in Process, q.todo # <<>> => Sound(p, q), Go(p, q)
    PROVE  /\ Sounds' /\ Moved(p)
           /\ q.todo # <<>> => procs' = [procs EXCEPT ![p] = q] /\ procs'[p] = q
           /\ q.todo = <<>> => Finish(p, q.token) /\ procs'[p] = Idle
<1>1. CASE q.todo = <<>>
  <2>1. Finish(p, q.token) /\ q.token \in Token \cup {NoToken}
      BY <1>1 DEF Go, Process
  <2> QED BY <1>1, <2>1, FinishMoves
<1>2. CASE q.todo # <<>>
  <2>1. procs' = [procs EXCEPT ![p] = q]
      BY <1>2 DEF Go
  <2>2. procs \in [Proc -> Process]
      BY DEF Sounds
  <2>3. procs' \in [Proc -> Process] /\ procs'[p] = q /\ \A x \in Proc \ {p} : procs'[x] = procs[x]
      BY <2>1, <2>2
  <2>4. Sounds'
      BY <1>2, <2>3, Typed DEF Sounds
  <2>5. Moved(p)
      BY <2>3, Others DEF Moved
  <2> QED BY <1>2, <2>1, <2>3, <2>4, <2>5
<1> QED BY <1>1, <1>2

(* p turns to another, and sets the shared helper off unless it is under way. *)
LEMMA StartMoves ==
    ASSUME Sounds, NEW p \in Proc, NEW h \in {Flight, Device}, NEW q, NEW g, Start(p, q, h, g),
           Sound(p, q), q.todo # <<>>, Sound(h, g), ~Saver(g)
    PROVE  /\ Sounds' /\ Moved(p) /\ procs'[p] = q
           /\ g.todo # <<>> => procs'[h].todo # <<>>
<1>1. h \in Proc /\ h # Tick /\ h # Wake /\ h \notin Request /\ procs \in [Proc -> Process]
    BY Others DEF Sounds
<1>2. procs' = [procs EXCEPT ![p] = q, ![h] = IF @ = Idle THEN g ELSE @]
    BY DEF Start
<1>3. /\ procs'[p] = q /\ \A x \in Proc \ {p, h} : procs'[x] = procs[x]
      /\ procs[h] = Idle /\ h # p => procs'[h] = g
      /\ procs[h] # Idle /\ h # p => procs'[h] = procs[h]
  <2>1. q # Idle
      BY IdleSound
  <2> QED BY <1>1, <1>2, <2>1
<1>4. q \in Process /\ g \in Process
    BY DEF Sound
<1>5. procs' \in [Proc -> Process]
    BY <1>1, <1>2, <1>4
<1>6. Sounds'
    BY <1>3, <1>5, Typed DEF Sounds
<1>7. Moved(p)
  <2>1. ASSUME NEW x \in Proc \ {p}
        PROVE procs'[x] = procs[x] \/ (Apart(x, procs[x]) /\ Apart(x, procs'[x]) /\ (x \in Request => procs[x] # Idle))
      BY <1>1, <1>3, IdleSound DEF Apart, Saver
  <2>2. p # Flight /\ procs[Flight].todo # <<>> => procs'[Flight] = procs[Flight]
      BY <1>3, Others, IdleSound
  <2>3. procs'[Tick] = procs[Tick] \/ p = Tick
      BY <1>1, <1>3, Others
  <2> QED BY <2>1, <2>2, <2>3, Others DEF Moved
<1>8. procs[h] # Idle => procs[h].todo # <<>>
    BY <1>1, Typed
<1> QED BY <1>3, <1>6, <1>7, <1>8

LEMMA NextMoves ==
    ASSUME Sounds, NEW p \in Proc, procs[p].todo # <<>>, NEW r \in Process, Go(p, r),
           r.todo = Rest(p), r.patch = procs[p].patch,
           Head(procs[p].todo) \in Loading \cup {"write", "saved"} => r.seen \in Doc
    PROVE  /\ Sounds' /\ Moved(p)
           /\ Rest(p) # <<>> => procs' = [procs EXCEPT ![p] = r] /\ procs'[p] = r
           /\ Rest(p) = <<>> => Finish(p, r.token) /\ procs'[p] = Idle
           /\ Head(procs[p].todo) \notin Loading \cup {"write", "saved"} => ~Saver(procs'[p])
<1>1. r.todo # <<>> => Sound(p, r)
    BY Typed, TailSound DEF Rest
<1>2. /\ Sounds' /\ Moved(p)
      /\ Rest(p) # <<>> => procs' = [procs EXCEPT ![p] = r] /\ procs'[p] = r
      /\ Rest(p) = <<>> => Finish(p, r.token) /\ procs'[p] = Idle
    BY <1>1, GoMoves
<1>3. ASSUME Head(procs[p].todo) \notin Loading \cup {"write", "saved"} PROVE ~Saver(procs'[p])
  <2>1. CASE Rest(p) = <<>>
      BY <1>2, <2>1, IdleSound DEF Saver
  <2>2. CASE Rest(p) # <<>>
    <3>1. Head(Tail(procs[p].todo)) \notin Looking
        BY <1>3, <2>2, Typed, NextHead DEF Rest
    <3> QED BY <1>2, <2>2, <3>1 DEF Saver, Looking, Rest
  <2> QED BY <2>1, <2>2
<1> QED BY <1>2, <1>3

LEMMA JoinMoves ==
    ASSUME Sounds, NEW p \in Proc, NEW d, NEW todo, NEW r \in Process, r = [Idle EXCEPT !.seen = d, !.todo = todo],
           Sound(p, r), r.todo # <<>>, Join(p, d, todo)
    PROVE  Sounds' /\ Moved(p) /\ procs'[p] = r /\ procs'[Flight].todo # <<>>
<1>1. PICK g : g = [Idle EXCEPT !.todo = <<"load", "grant">>]
    OBVIOUS
<1>2. g.todo = <<"load", "grant">> /\ Plain(g.todo) /\ Head(g.todo) = "load" /\ g \in Process
    BY <1>1, TwoWays, IdleSound DEF Process, Plain
<1>3. Sound(Flight, g)
    BY <1>2, PlainSound, FlightsWay
<1>4. g.todo # <<>> /\ ~Saver(g)
    BY <1>2 DEF Saver, Plain
<1>5. Start(p, r, Flight, g)
    BY <1>1 DEF Join
<1>6. PICK q : q = r
    OBVIOUS
<1>7. PICK h \in {Flight, Device} : h = Flight
    OBVIOUS
<1>8. Start(p, q, h, g) /\ Sound(p, q) /\ q.todo # <<>> /\ Sound(h, g)
    BY <1>3, <1>5, <1>6, <1>7
<1>9. Sounds' /\ Moved(p) /\ procs'[p] = q /\ procs'[h].todo # <<>>
    BY <1>4, <1>8, StartMoves
<1> QED BY <1>6, <1>7, <1>9

LEMMA StoreMoves ==
    ASSUME Sounds, NEW p \in Proc, procs[p].todo # <<>>, Head(procs[p].todo) \in {"grant", "post", "postAgain"},
           NEW patch \in Patch, NEW t \in Token \cup {NoToken}, Store(p, patch, t)
    PROVE  /\ Sounds' /\ Moved(p) /\ procs'[p].todo # <<>> /\ Head(procs'[p].todo) = "load" /\ ~Saver(procs'[p])
           /\ procs'[Tick] = procs[Tick] \/ p = Tick
           /\ procs'[p] = [Idle EXCEPT !.patch = patch, !.token = t, !.todo = Save(patch)]
<1>1. PICK q : q = procs[p]
    OBVIOUS
<1>2. PICK r : r = [Idle EXCEPT !.patch = patch, !.token = t, !.todo = Save(patch) \o Tail(q.todo)]
    OBVIOUS
<1>3. Sound(p, q) /\ q.todo # <<>> /\ q.todo \in Seq(Word) /\ Tail(q.todo) \in Seq(Word)
    BY <1>1, Typed, Tails
<1>4. Save(patch) \o Tail(q.todo) \in Seq(Word)
    BY <1>3, SaveOrder, ConcatProperties
<1>5. r \in Process /\ r.patch = patch /\ r.todo = Save(patch) \o Tail(q.todo)
    BY <1>2, <1>4, IdleSound DEF Process
<1>6. Sound(p, r) /\ r.todo # <<>> /\ Head(r.todo) = "load" /\ Tail(q.todo) = <<>>
    BY <1>1, <1>3, <1>5, StoreSound
<1>7. Go(p, r)
    BY <1>1, <1>2 DEF Store, Rest
<1>8. Sounds' /\ Moved(p) /\ procs'[p] = r /\ procs' = [procs EXCEPT ![p] = r]
    BY <1>5, <1>6, <1>7, GoMoves
<1>9. procs'[Tick] = procs[Tick] \/ p = Tick
    BY <1>8, Others DEF Sounds
<1>10. Save(patch) \o <<>> = Save(patch)
    BY SaveOrder, ConcatEmptySeq
<1> QED BY <1>2, <1>6, <1>8, <1>9, <1>10 DEF Saver

-----------------------------------------------------------------------------
(* Steps that neither save nor end a save.                                    *)
Calm(p) ==
    /\ Sounds' /\ Moved(p) /\ Apart(p, procs[p]) /\ Apart(p, procs'[p])
    /\ UNCHANGED <<mongo, cache, crossed, settled>> /\ (timer => timer')
Elsewhere == /\ procs'[Tick] = procs[Tick]
             /\ procs[Flight].todo # <<>> => procs'[Flight].todo # <<>>

LEMMA AtHead ==
    ASSUME Sounds, NEW p \in Proc, NEW s \in Word, At(p, s)
    PROVE  /\ procs[p].todo # <<>> /\ Head(procs[p].todo) = s
           /\ s \in {"fresh", "device", "post", "postAgain", "erase", "invalidate"} => p \notin {Flight, Tick, Wake}
           /\ s \in {"saved", "mirror", "write", "grant"} => p \notin {Tick, Wake}
           /\ s \in {"beat", "await", "rearm"} => p \notin {Flight, Wake}
           /\ s \in Looking => procs[p].seen \in Doc
           /\ s \notin {"shell", "write", "saved", "mirror"} => ~Saver(procs[p])
<1>1. procs[p].todo # <<>> /\ Head(procs[p].todo) = s
    BY DEF At
<1>2. Sound(p, procs[p]) /\ procs[p].todo \in Seq(Word) /\ Way(p, procs[p].todo)
    BY Typed
<1> QED BY <1>1, <1>2, WaysHeads DEF Sound, Saver

LEMMA MovedElsewhere ==
    ASSUME NEW p, p \notin {Flight, Tick}, Moved(p)
    PROVE  Elsewhere
BY DEF Moved, Elsewhere

LEMMA FreshCalm ==
    ASSUME Sounds, NEW p \in Proc, Fresh(p)
    PROVE  Calm(p) /\ Elsewhere
<1>1. /\ procs[p].todo # <<>> /\ Head(procs[p].todo) = "fresh" /\ p \notin {Flight, Tick, Wake}
      /\ procs[p].seen \in Doc /\ ~Saver(procs[p])
    BY AtHead DEF Fresh, Word, Looking
<1>2. procs[p] \in Process /\ Sound(p, procs[p]) /\ procs[p].todo \in Seq(Word) /\ Tail(procs[p].todo) \in Seq(Word)
    BY <1>1, Typed, Tails
<1>3. PICK t : t = procs[p].seen.token
    OBVIOUS
<1>4. t \in Token \cup {NoToken} /\ NoToken \in Token \cup {NoToken} /\ NoDoc \in Doc \cup {NoDoc}
    BY <1>1, <1>3 DEF Doc
<1>5. Sounds' /\ Moved(p) /\ ~Saver(procs'[p])
  <2>1. CASE Finish(p, NoToken)
      BY <1>4, <2>1, FinishMoves, IdleSound DEF Saver
  <2>2. CASE Go(p, [procs[p] EXCEPT !.token = t, !.todo = Rest(p)])
    <3>1. PICK r : r = [procs[p] EXCEPT !.token = t, !.todo = Rest(p)]
        OBVIOUS
    <3>2. r \in Process /\ r.todo = Rest(p) /\ r.patch = procs[p].patch
        BY <1>2, <1>4, <3>1 DEF Process, Rest
    <3> QED BY <1>1, <2>2, <3>1, <3>2, NextMoves DEF Loading
  <2>3. CASE Join(p, NoDoc, <<"need">> \o Rest(p))
    <3>1. PICK r : r = [Idle EXCEPT !.seen = NoDoc, !.todo = <<"need">> \o Rest(p)]
        OBVIOUS
    <3>2. "need" \in Word
        BY DEF Word
    <3>3. <<"need">> \o Rest(p) \in Seq(Word) /\ <<"need">> \o Rest(p) # <<>> /\ Head(<<"need">> \o Rest(p)) = "need"
        BY <1>2, <3>2, Conses DEF Rest
    <3>4. r \in Process /\ r.todo = <<"need">> \o Rest(p)
        BY <1>4, <3>1, <3>3, IdleSound DEF Process
    <3>5. Sound(p, r)
        BY <1>1, <1>2, <3>4, TurnSound DEF Rest
    <3>6. Sounds' /\ Moved(p) /\ procs'[p] = r
        BY <2>3, <3>1, <3>3, <3>4, <3>5, JoinMoves
    <3> QED BY <3>3, <3>4, <3>6 DEF Saver
  <2> QED BY <1>3, <2>1, <2>2, <2>3 DEF Fresh
<1>6. UNCHANGED <<mongo, cache, crossed, settled>> /\ (timer => timer')
    BY DEF Fresh, local, history
<1> QED BY <1>1, <1>5, <1>6, MovedElsewhere DEF Calm, Apart

LEMMA EnsureDeviceCalm ==
    ASSUME Sounds, NEW p \in Proc, EnsureDevice(p)
    PROVE  Calm(p) /\ Elsewhere
<1>1. /\ procs[p].todo # <<>> /\ Head(procs[p].todo) = "device" /\ p \notin {Flight, Tick, Wake} /\ ~Saver(procs[p])
    BY AtHead DEF EnsureDevice, Word
<1>2. /\ procs[p] \in Process /\ Sound(p, procs[p]) /\ procs[p].todo \in Seq(Word) /\ Tail(procs[p].todo) \in Seq(Word)
      /\ procs[p].token \in Token \cup {NoToken}
    BY <1>1, Typed, Tails
<1>3. Sounds' /\ Moved(p) /\ ~Saver(procs'[p])
  <2>1. CASE Advance(p)
    <3>1. PICK r : r = [procs[p] EXCEPT !.todo = Tail(@)]
        OBVIOUS
    <3>2. r \in Process /\ r.todo = Rest(p) /\ r.patch = procs[p].patch
        BY <1>2, <3>1 DEF Process, Rest
    <3> QED BY <1>1, <2>1, <3>1, <3>2, NextMoves DEF Loading, Advance
  <2>2. CASE Start(p, [Idle EXCEPT !.todo = <<"needDevice">> \o Rest(p), !.token = procs[p].token],
                   Device, [Idle EXCEPT !.todo = <<"post">>, !.token = procs[p].token])
    <3>1. PICK r, g : /\ r = [Idle EXCEPT !.todo = <<"needDevice">> \o Rest(p), !.token = procs[p].token]
                      /\ g = [Idle EXCEPT !.todo = <<"post">>, !.token = procs[p].token]
        OBVIOUS
    <3>2. "needDevice" \in Word
        BY DEF Word
    <3>3. <<"needDevice">> \o Rest(p) \in Seq(Word) /\ <<"needDevice">> \o Rest(p) # <<>> /\ Head(<<"needDevice">> \o Rest(p)) = "needDevice"
        BY <1>2, <3>2, Conses DEF Rest
    <3>4. r \in Process /\ r.todo = <<"needDevice">> \o Rest(p)
        BY <1>2, <3>1, <3>3, IdleSound DEF Process
    <3>5. Sound(p, r)
        BY <1>1, <1>2, <3>4, TurnSound DEF Rest
    <3>6. g.todo = <<"post">> /\ Plain(g.todo) /\ Head(g.todo) = "post" /\ g \in Process
        BY <1>2, <3>1, OneWay, IdleSound DEF Process, Plain
    <3>7. Sound(Device, g) /\ ~Saver(g)
        BY <3>6, PlainSound, NoWay, Others DEF Saver
    <3>8. Start(p, r, Device, g) /\ r.todo # <<>>
        BY <2>2, <3>1, <3>3, <3>4
    <3>9. Sounds' /\ Moved(p) /\ procs'[p] = r
        BY <3>5, <3>7, <3>8, StartMoves
    <3> QED BY <3>3, <3>4, <3>9 DEF Saver
  <2> QED BY <2>1, <2>2 DEF EnsureDevice
<1>4. UNCHANGED <<mongo, cache, crossed, settled>> /\ (timer => timer')
    BY DEF EnsureDevice, local, history
<1> QED BY <1>1, <1>3, <1>4, MovedElsewhere DEF Calm, Apart

LEMMA Patches ==
    ASSUME NEW st \in Status
    PROVE  /\ [NoPatch EXCEPT !.status = st] \in Patch
           /\ \A n \in Token : [NoPatch EXCEPT !.token = n, !.status = st] \in Patch
           /\ \A n \in Token : [token |-> n, status |-> st] \in Patch
           /\ st # Keep
BY DuloAssumption DEF DuloAssumption, NoPatch, Patch

(* A call that stores its outcome.                                            *)
LEMMA StoreCalm ==
    ASSUME Sounds, NEW p \in Proc, NEW s \in {"grant", "post", "postAgain"}, At(p, s),
           NEW patch \in Patch, NEW t \in Token \cup {NoToken}, Store(p, patch, t),
           UNCHANGED <<local, history>>
    PROVE  Calm(p) /\ Elsewhere
<1>1. /\ procs[p].todo # <<>> /\ Head(procs[p].todo) = s /\ p \notin {Tick, Wake} /\ ~Saver(procs[p])
    BY AtHead DEF Word
<1>2. /\ Sounds' /\ Moved(p) /\ procs'[p].todo # <<>> /\ ~Saver(procs'[p])
      /\ procs'[Tick] = procs[Tick] \/ p = Tick
    BY <1>1, StoreMoves
<1>3. Elsewhere
    BY <1>1, <1>2 DEF Moved, Elsewhere
<1> QED BY <1>1, <1>2, <1>3 DEF Calm, Apart, local, history

LEMMA GrantCalm ==
    ASSUME Sounds, TypeOK, NEW p \in Proc, Grant(p) \/ Refuse(p) \/ Blip(p)
    PROVE  Calm(p) /\ Elsewhere
<1>1. At(p, "grant") /\ procs[p].seen \in Doc
    BY AtHead DEF Grant, Refuse, Blip, Word, Looking
<1>2. PICK t : t = procs[p].seen.token
    OBVIOUS
<1>3. t \in Token \cup {NoToken} /\ NoPatch \in Patch
    BY <1>1, <1>2, Shells DEF Doc
<1>4. CASE Grant(p)
  <2>1. PICK n : n = [family |-> t.family, gen |-> newest[t.family] + 1]
      OBVIOUS
  <2>2. t # NoToken /\ newest[t.family] < MaxGrants
      BY <1>2, <1>4 DEF Grant
  <2>3. n \in Token
      BY <1>3, <2>1, <2>2, DuloAssumption DEF Token, TypeOK, DuloAssumption
  <2>4. [NoPatch EXCEPT !.token = n, !.status = "active"] \in Patch
      BY <2>3, Patches DEF Status
  <2>5. Store(p, [NoPatch EXCEPT !.token = n, !.status = "active"], n) /\ UNCHANGED <<local, history>>
      BY <1>2, <1>4, <2>1 DEF Grant
  <2> QED BY <1>1, <2>3, <2>4, <2>5, StoreCalm
<1>5. CASE Refuse(p)
  <2>1. [NoPatch EXCEPT !.status = "reauth_required"] \in Patch
      BY Patches DEF Status
  <2>2. Store(p, [NoPatch EXCEPT !.status = "reauth_required"], NoToken) /\ UNCHANGED <<local, history>>
      BY <1>5 DEF Refuse
  <2> QED BY <1>1, <2>1, <2>2, StoreCalm
<1>6. CASE Blip(p)
  <2>1. PICK r \in {t, NoToken} : Store(p, NoPatch, r)
      BY <1>2, <1>6 DEF Blip
  <2>2. UNCHANGED <<local, history>> /\ r \in Token \cup {NoToken}
      BY <1>3, <1>6 DEF Blip
  <2> QED BY <1>1, <1>3, <2>1, <2>2, StoreCalm
<1> QED BY <1>4, <1>5, <1>6

LEMMA RetryCalm ==
    ASSUME Sounds, NEW p \in Proc, Retry(p)
    PROVE  Calm(p) /\ Elsewhere
<1>1. /\ procs[p].todo # <<>> /\ Head(procs[p].todo) = "post" /\ p \notin {Flight, Tick, Wake} /\ ~Saver(procs[p])
    BY AtHead DEF Retry, Word
<1>2. Sound(p, procs[p]) /\ procs[p].seen \in Doc \cup {NoDoc} /\ procs[p].todo \in Seq(Word)
    BY Typed
<1>3. Rest(p) = <<>>
  <2>1. NoPatch \in Patch /\ Save(NoPatch) \o Tail(procs[p].todo) \in Seq(Word)
      BY <1>1, <1>2, Shells, SaveOrder, Tails, ConcatProperties
  <2>2. PICK r : r = [Idle EXCEPT !.todo = Save(NoPatch) \o Tail(procs[p].todo)]
      OBVIOUS
  <2>3. r \in Process /\ r.patch = NoPatch /\ r.todo = Save(NoPatch) \o Tail(procs[p].todo)
      BY <2>1, <2>2, IdleSound DEF Process, Idle
  <2> QED BY <1>1, <1>2, <2>1, <2>3, StoreSound DEF Rest
<1>4. <<"await", "postAgain">> \o Rest(p) = <<"await", "postAgain">>
  <2>1. <<"await", "postAgain">> \in Seq(Word)
      BY DEF Word
  <2> QED BY <1>3, <2>1, ConcatEmptySeq
<1>5. PICK r, d, todo : /\ d = procs[p].seen /\ todo = <<"await", "postAgain">>
                        /\ r = [Idle EXCEPT !.seen = d, !.todo = todo]
    OBVIOUS
<1>6. r.todo = <<"await", "postAgain">> /\ Plain(r.todo) /\ Head(r.todo) = "await" /\ r \in Process
    BY <1>2, <1>5, TwoWays, IdleSound DEF Process, Plain
<1>7. Sound(p, r) /\ r.todo # <<>> /\ ~Saver(r)
    BY <1>1, <1>6, PlainSound, NoWay DEF Saver, Plain
<1>8. Join(p, d, todo)
    BY <1>4, <1>5 DEF Retry
<1>9. Sounds' /\ Moved(p) /\ procs'[p] = r
  <2>1. r \in Process /\ r = [Idle EXCEPT !.seen = d, !.todo = todo]
      BY <1>5, <1>6
  <2> QED BY <1>7, <1>8, <2>1, JoinMoves
<1>10. UNCHANGED <<mongo, cache, crossed, settled>> /\ (timer => timer')
    BY DEF Retry, local, history
<1> QED BY <1>1, <1>7, <1>9, <1>10, MovedElsewhere DEF Calm, Apart

LEMMA AnswerCalm ==
    ASSUME Sounds, NEW p \in Proc, GiveUp(p) \/ Answered(p) \/ Unanswered(p)
    PROVE  Calm(p) /\ Elsewhere
<1>1. PICK s \in {"post", "postAgain"} : At(p, s)
    BY DEF GiveUp, Answered, Unanswered
<1>2. /\ procs[p].todo # <<>> /\ Head(procs[p].todo) = s /\ p \notin {Flight, Tick, Wake} /\ ~Saver(procs[p])
    BY <1>1, AtHead DEF Word
<1>3. UNCHANGED <<local, history>>
    BY DEF GiveUp, Answered, Unanswered
<1>4. procs[p] \in Process /\ procs[p].token \in Token \cup {NoToken} /\ NoToken \in Token \cup {NoToken} /\ NoPatch \in Patch
    BY Typed, Shells
<1>5. CASE Finish(p, NoToken)
  <2>1. Sounds' /\ Moved(p) /\ ~Saver(procs'[p])
      BY <1>4, <1>5, FinishMoves, IdleSound DEF Saver
  <2> QED BY <1>2, <1>3, <2>1, MovedElsewhere DEF Calm, Apart, local, history
<1>6. CASE Advance(p)
  <2>1. PICK r : r = [procs[p] EXCEPT !.todo = Tail(@)]
      OBVIOUS
  <2>2. procs[p].todo \in Seq(Word) /\ Tail(procs[p].todo) \in Seq(Word)
      BY <1>2, Typed, Tails
  <2>3. r \in Process /\ r.todo = Rest(p) /\ r.patch = procs[p].patch
      BY <1>4, <2>1, <2>2 DEF Process, Rest
  <2>4. Sounds' /\ Moved(p) /\ ~Saver(procs'[p])
      BY <1>2, <1>6, <2>1, <2>3, NextMoves DEF Loading, Advance
  <2> QED BY <1>2, <1>3, <2>4, MovedElsewhere DEF Calm, Apart, local, history
<1>7. ASSUME NEW patch \in Patch, NEW t \in Token \cup {NoToken}, Store(p, patch, t)
      PROVE  Calm(p) /\ Elsewhere
    BY <1>1, <1>3, <1>7, StoreCalm
<1>8. \A st \in Status : [NoPatch EXCEPT !.status = st] \in Patch
    BY Patches
<1>9. \/ Finish(p, NoToken) \/ Advance(p)
      \/ \E st \in Status, t \in {procs[p].token, NoToken} : Store(p, [NoPatch EXCEPT !.status = st], t)
      \/ Store(p, NoPatch, NoToken)
    BY DEF GiveUp, Answered, Unanswered, Status
<1> QED BY <1>4, <1>5, <1>6, <1>7, <1>8, <1>9

(* Who has not begun does nothing.                                            *)
Unbegun == \A r \in Request : r > begun => procs[r] = Idle

LEMMA BeginningMoves ==
    ASSUME Sounds, TypeOK, Unbegun, NEW q \in Process, Beginning(q),
           \A x : x \notin {Flight, Tick, Wake} => Sound(x, q) /\ q.todo # <<>> /\ Head(q.todo) \in {"load", "erase"}
    PROVE  /\ begun + 1 \in Request /\ begun' = begun + 1 /\ procs' = [procs EXCEPT ![begun + 1] = q]
           /\ procs[begun + 1] = Idle /\ procs'[begun + 1] = q
           /\ Sounds' /\ Moved(begun + 1) /\ Apart(begun + 1, Idle) /\ Apart(begun + 1, q)
           /\ Elsewhere /\ UNCHANGED <<local, outside, faults>> /\ q.todo # <<>> /\ Head(q.todo) \in {"load", "erase"}
<1>1. begun \in Nat /\ begun < MaxRequests /\ MaxRequests \in Nat
    BY DuloAssumption DEF TypeOK, Beginning, DuloAssumption
<1>2. PICK p : p = begun + 1
    OBVIOUS
<1>3. p \in Request /\ p > begun
    BY <1>1, <1>2 DEF Request
<1>4. p \in Proc /\ p \notin {Flight, Tick, Wake} /\ procs[p] = Idle /\ procs \in [Proc -> Process]
    BY <1>3, Others DEF Unbegun, Sounds
<1>5. procs' = [procs EXCEPT ![p] = q] /\ begun' = p
    BY <1>2 DEF Beginning
<1>6. Sound(p, q) /\ q.todo # <<>> /\ Head(q.todo) \in {"load", "erase"}
    BY <1>4
<1>7. procs'[p] = q /\ procs' \in [Proc -> Process] /\ \A x \in Proc \ {p} : procs'[x] = procs[x]
    BY <1>4, <1>5
<1>8. Sounds'
    BY <1>6, <1>7, Typed DEF Sounds
<1>9. Moved(p) /\ Elsewhere
    BY <1>4, <1>7, Others DEF Moved, Elsewhere
<1>10. Apart(p, Idle) /\ Apart(p, q)
    BY <1>4, <1>6, IdleSound DEF Apart, Saver
<1> QED BY <1>2, <1>3, <1>4, <1>5, <1>6, <1>7, <1>8, <1>9, <1>10 DEF Beginning

(* A request that begins.                                                     *)
Begins == (\E f \in Family : SignIn(f)) \/ SignOut \/ ReactivateDevice \/ ResolvePlayback \/ DeletePlaylist \/ ResetWorkspace

LEMMA BeginsCalm ==
    ASSUME Sounds, TypeOK, Unbegun, Begins
    PROVE  /\ begun + 1 \in Request /\ begun' = begun + 1 /\ Calm(begun + 1) /\ Elsewhere
           /\ \A x \in Proc : x # begun + 1 => procs'[x] = procs[x]
           /\ UNCHANGED <<local, outside, faults, crossed, settled>> /\ leaving' \in BOOLEAN /\ out' \in {out, FALSE}
<1>1. ASSUME NEW q \in Process, Beginning(q), UNCHANGED <<crossed, settled>>,
             \A x : x \notin {Flight, Tick, Wake} => Sound(x, q) /\ q.todo # <<>> /\ Head(q.todo) \in {"load", "erase"}
      PROVE  /\ begun + 1 \in Request /\ begun' = begun + 1 /\ Calm(begun + 1) /\ Elsewhere
             /\ \A x \in Proc : x # begun + 1 => procs'[x] = procs[x]
             /\ UNCHANGED <<local, outside, faults, crossed, settled>>
  <2>1. /\ begun + 1 \in Request /\ begun' = begun + 1 /\ procs' = [procs EXCEPT ![begun + 1] = q]
        /\ procs[begun + 1] = Idle /\ procs'[begun + 1] = q
        /\ Sounds' /\ Moved(begun + 1) /\ Apart(begun + 1, Idle) /\ Apart(begun + 1, q)
        /\ Elsewhere /\ UNCHANGED <<local, outside, faults>>
      BY <1>1, BeginningMoves
  <2>2. \A x \in Proc : x # begun + 1 => procs'[x] = procs[x]
      BY <2>1 DEF Sounds
  <2> QED BY <1>1, <2>1, <2>2 DEF Calm, local
<1>2. ASSUME NEW q \in Process, NEW patch \in Patch, q.patch = patch, q.todo \in {Save(patch), Save(patch) \o Renew}
      PROVE  \A x : x \notin {Flight, Tick, Wake} => Sound(x, q) /\ q.todo # <<>> /\ Head(q.todo) \in {"load", "erase"}
    BY <1>2, SaveBegun
<1>3. ASSUME NEW patch \in Patch
      PROVE  Save(patch) \in Seq(Word) /\ Save(patch) \o Renew \in Seq(Word)
  <2>1. Save(patch) \in Seq(Word) /\ Renew \in Seq(Word)
      BY SaveOrder, RenewWay DEF Plain
  <2> QED BY <2>1, ConcatProperties
<1>4. ASSUME NEW f \in Family, SignIn(f)
      PROVE  \E q \in Process : /\ Beginning(q) /\ UNCHANGED <<crossed, settled>>
                /\ \A x : x \notin {Flight, Tick, Wake} => Sound(x, q) /\ q.todo # <<>> /\ Head(q.todo) \in {"load", "erase"}
  <2>1. PICK patch : patch = [token |-> [family |-> f, gen |-> newest[f]], status |-> "active"]
      OBVIOUS
  <2>2. [family |-> f, gen |-> newest[f]] \in Token
      BY DEF TypeOK, Token
  <2>3. patch \in Patch
      BY <2>1, <2>2, Patches DEF Status
  <2>4. PICK q : q = [Idle EXCEPT !.patch = patch, !.todo = Save(patch) \o Renew]
      OBVIOUS
  <2>5. q \in Process /\ q.patch = patch /\ q.todo = Save(patch) \o Renew
      BY <1>3, <2>3, <2>4, IdleSound DEF Process
  <2>6. Beginning(q) /\ UNCHANGED <<crossed, settled>>
      BY <1>4, <2>1, <2>4 DEF SignIn
  <2> QED BY <1>2, <2>3, <2>5, <2>6
<1>5. ASSUME SignOut \/ ReactivateDevice
      PROVE  \E q \in Process : /\ Beginning(q) /\ UNCHANGED <<crossed, settled>>
                /\ \A x : x \notin {Flight, Tick, Wake} => Sound(x, q) /\ q.todo # <<>> /\ Head(q.todo) \in {"load", "erase"}
  <2>1. CASE SignOut
    <3>1. PICK q : q = [Idle EXCEPT !.patch = Shell, !.todo = Save(Shell)]
        OBVIOUS
    <3>2. q \in Process /\ q.patch = Shell /\ q.todo = Save(Shell) /\ Shell \in Patch
        BY <1>3, <3>1, Shells, IdleSound DEF Process
    <3>3. Beginning(q) /\ UNCHANGED <<crossed, settled>>
        BY <2>1, <3>1 DEF SignOut
    <3> QED BY <1>2, <3>2, <3>3
  <2>2. CASE ReactivateDevice
    <3>1. PICK q : q = [Idle EXCEPT !.todo = Save(NoPatch) \o Renew]
        OBVIOUS
    <3>2. q \in Process /\ q.patch = NoPatch /\ q.todo = Save(NoPatch) \o Renew /\ NoPatch \in Patch
        BY <1>3, <3>1, Shells, IdleSound DEF Process, Idle
    <3>3. Beginning(q) /\ UNCHANGED <<crossed, settled>>
        BY <2>2, <3>1 DEF ReactivateDevice, Begin
    <3> QED BY <1>2, <3>2, <3>3
  <2> QED BY <1>5, <2>1, <2>2
<1>6. ASSUME ResolvePlayback
      PROVE  \E q \in Process : /\ Beginning(q) /\ UNCHANGED <<crossed, settled>>
                /\ \A x : x \notin {Flight, Tick, Wake} => Sound(x, q) /\ q.todo # <<>> /\ Head(q.todo) \in {"load", "erase"}
  <2>1. PICK q : q = [Idle EXCEPT !.todo = Renew \o <<"load", "post">>]
      OBVIOUS
  <2>2. Renew \in Seq(Word) /\ <<"load", "post">> \in Seq(Word)
      BY RenewWay, TwoWays DEF Plain
  <2>3. Renew \o <<"load", "post">> \in Seq(Word)
      BY <2>2, ConcatProperties
  <2>4. q \in Process /\ q.todo = Renew \o <<"load", "post">>
      BY <2>1, <2>3, IdleSound DEF Process
  <2>5. Beginning(q) /\ UNCHANGED <<crossed, settled>>
      BY <1>6, <2>1 DEF ResolvePlayback, Begin
  <2> QED BY <2>4, <2>5, RenewBegun
<1>7. ASSUME DeletePlaylist \/ ResetWorkspace
      PROVE  \E q \in Process : /\ Beginning(q) /\ UNCHANGED <<crossed, settled>>
                /\ \A x : x \notin {Flight, Tick, Wake} => Sound(x, q) /\ q.todo # <<>> /\ Head(q.todo) \in {"load", "erase"}
  <2>1. PICK todo \in {<<"erase", "invalidate">>, <<"erase">>} :
            Beginning([Idle EXCEPT !.todo = todo]) /\ UNCHANGED <<crossed, settled>>
      BY <1>7 DEF DeletePlaylist, ResetWorkspace, Begin
  <2>2. Plain(todo) /\ todo \in Seq(Word) /\ todo # <<>> /\ Head(todo) = "erase"
    <3>1. Plain(<<"erase">>) /\ Head(<<"erase">>) = "erase"
        BY OneWay
    <3>2. Plain(<<"erase", "invalidate">>) /\ Head(<<"erase", "invalidate">>) = "erase"
        BY TwoWays
    <3>3. Plain(todo) /\ Head(todo) = "erase"
        BY <3>1, <3>2
    <3> QED BY <3>3 DEF Plain
  <2>3. PICK q : q = [Idle EXCEPT !.todo = todo]
      OBVIOUS
  <2>4. q \in Process /\ q.todo = todo
      BY <2>2, <2>3, IdleSound DEF Process
  <2>5. \A x : x \notin {Flight, Tick, Wake} => Sound(x, q)
      BY <2>2, <2>4, PlainSound, NoWay
  <2> QED BY <2>1, <2>2, <2>3, <2>4, <2>5
<1>8. /\ begun + 1 \in Request /\ begun' = begun + 1 /\ Calm(begun + 1) /\ Elsewhere
      /\ \A x \in Proc : x # begun + 1 => procs'[x] = procs[x]
      /\ UNCHANGED <<local, outside, faults, crossed, settled>>
    BY <1>1, <1>4, <1>5, <1>6, <1>7 DEF Begins
<1>9. leaving' \in BOOLEAN /\ out' \in {out, FALSE}
    BY DEF Begins, SignIn, SignOut, ReactivateDevice, ResolvePlayback, DeletePlaylist, ResetWorkspace, Begin
<1> QED BY <1>8, <1>9

-----------------------------------------------------------------------------
(* The inductive invariant.                                                   *)

(* Two who save at once both know; the row is what the writer wrote who was   *)
(* not crossed.                                                               *)
Alone == \A x, y \in Saving : x # y => x \in crossed
Wrote == \A x \in Proc : (At(x, "saved") \/ At(x, "mirror")) /\ x \notin crossed => mongo = Patched(x)

(* Somebody is yet to aim the timer.                                          *)
Aiming == \E x \in Proc : At(x, "saved") \/ At(x, "mirror") \/ (x = Wake /\ procs[x].todo # <<>>)
Quiet == settled /\ ~Aiming
Alive == mongo # NoDoc /\ Refreshable(mongo)

(* Without a timer the copy is the row, or there is none; the beat that did   *)
(* not find the row still finds none, or a shell.                             *)
Copied == Quiet /\ Alive /\ ~timer => cache \in {NoDoc, mongo}
ShellRow == Quiet /\ At(Tick, "shell") => mongo \in {NoDoc, Shell}
Awaited == At(Tick, "await") => procs[Flight].todo # <<>>

(* The beat is yet to arm the timer.                                          *)
Owes == \/ At(Tick, "load") \/ At(Tick, "found") \/ At(Tick, "shell") \/ At(Tick, "await")
        \/ At(Tick, "beat") /\ Refreshable(procs[Tick].seen)
        \/ At(Tick, "rearm") /\ procs[Tick].token = NoToken /\ (cache = NoDoc \/ Refreshable(cache))
Beats == Quiet /\ Alive => timer \/ Owes

IInv == /\ TypeOK /\ Sounds /\ Unbegun
        /\ Alone /\ Wrote /\ Copied /\ ShellRow /\ Awaited /\ Beats

LEMMA OthersSave ==
    ASSUME NEW p, Moved(p), NEW x \in Proc, x # p
    PROVE  /\ (x \in Saving)' <=> x \in Saving
           /\ At(x, "saved")' <=> At(x, "saved")
           /\ At(x, "mirror")' <=> At(x, "mirror")
           /\ At(x, "saved") \/ At(x, "mirror") => Patched(x)' = Patched(x)
           /\ x = Wake => procs'[x] = procs[x]
<1>1. procs'[x] = procs[x] \/ (Apart(x, procs[x]) /\ Apart(x, procs'[x]))
    BY DEF Moved
<1>2. CASE procs'[x] = procs[x]
    BY <1>2 DEF Saving, At, Patched
<1>3. CASE Apart(x, procs[x]) /\ Apart(x, procs'[x])
    BY <1>3 DEF Saving, At, Apart, Saver
<1> QED BY <1>1, <1>2, <1>3

(* p itself saves nothing before or after, and nothing is written.            *)
LEMMA ApartSaves ==
    ASSUME NEW p \in Proc, Moved(p), Apart(p, procs[p]), Apart(p, procs'[p])
    PROVE  Saving' = Saving /\ (Aiming' <=> Aiming)
<1>1. p \notin Saving /\ (p \notin Saving)'
    BY DEF Saving, Apart, Saver
<1>2. \A x \in Proc : (x \in Saving)' <=> x \in Saving
    BY <1>1, OthersSave
<1>3. Saving' = Saving
    BY <1>2 DEF Saving
<1>4. ~At(p, "saved") /\ ~At(p, "mirror") /\ ~At(p, "saved")' /\ ~At(p, "mirror")' /\ p # Wake
    BY DEF Apart, Saver, At
<1>5. Aiming' <=> Aiming
    BY <1>4, OthersSave DEF Aiming
<1> QED BY <1>3, <1>5

LEMMA CalmSaves ==
    ASSUME NEW p \in Proc, Moved(p), Apart(p, procs[p]), Apart(p, procs'[p]),
           UNCHANGED <<mongo, crossed, settled>>, Alone, Wrote
    PROVE  Alone' /\ Wrote' /\ (Aiming' <=> Aiming) /\ (Quiet' <=> Quiet) /\ (Alive' <=> Alive)
<1>1. Saving' = Saving /\ (Aiming' <=> Aiming) /\ mongo' = mongo /\ crossed' = crossed /\ settled' = settled
    BY ApartSaves
<1>2. Alone'
    BY <1>1 DEF Alone
<1>3. Wrote'
  <2> SUFFICES ASSUME NEW x \in Proc, At(x, "saved")' \/ At(x, "mirror")', x \notin crossed PROVE mongo = Patched(x)'
      BY <1>1 DEF Wrote
  <2>1. x # p
      BY DEF Apart, Saver, At
  <2>2. (At(x, "saved") \/ At(x, "mirror")) /\ Patched(x)' = Patched(x)
      BY <1>1, <2>1, OthersSave
  <2> QED BY <2>2 DEF Wrote
<1> QED BY <1>1, <1>2, <1>3 DEF Quiet, Alive, Refreshable

(* The steps of another than the beat leave what it owes.                     *)
LEMMA CalmKeeps ==
    ASSUME NEW p \in Proc, Calm(p), Elsewhere, Alone, Wrote, Copied, ShellRow, Awaited, Beats, TypeOK
    PROVE  Alone' /\ Wrote' /\ Copied' /\ ShellRow' /\ Awaited' /\ Beats'
<1>1. Alone' /\ Wrote' /\ (Quiet' <=> Quiet) /\ (Alive' <=> Alive)
    BY CalmSaves DEF Calm
<1>2. /\ procs'[Tick] = procs[Tick] /\ mongo' = mongo /\ cache' = cache /\ (timer => timer')
      /\ procs[Flight].todo # <<>> => procs'[Flight].todo # <<>>
    BY DEF Calm, Elsewhere
<1>3. Copied'
    BY <1>1, <1>2 DEF Copied
<1>4. ShellRow' /\ Awaited'
    BY <1>1, <1>2 DEF ShellRow, Awaited, At
<1>5. Owes' <=> Owes
    BY <1>2 DEF Owes, At, Refreshable
<1>6. Beats'
    BY <1>1, <1>2, <1>5 DEF Beats
<1> QED BY <1>1, <1>3, <1>4, <1>6

-----------------------------------------------------------------------------
(* The keepalive.                                                             *)
LEMMA FireKeeps ==
    ASSUME IInv, Fire
    PROVE  Sounds' /\ Alone' /\ Wrote' /\ Copied' /\ ShellRow' /\ Awaited' /\ Beats' /\ Moved(Tick)
<1>0. Sounds /\ Alone /\ Wrote /\ TypeOK
    BY DEF IInv
<1>1. PICK q : q = [Idle EXCEPT !.todo = <<"load", "beat">>]
    OBVIOUS
<1>2. q.todo = <<"load", "beat">> /\ Plain(q.todo) /\ Head(q.todo) = "load" /\ q \in Process
    BY <1>1, TwoWays, IdleSound DEF Process, Plain
<1>3. Sound(Tick, q)
    BY <1>2, PlainSound, TicksWay
<1>4. q.todo # <<>> /\ ~Saver(q)
    BY <1>2 DEF Saver, Plain
<1>5. procs' = [procs EXCEPT ![Tick] = q] /\ procs[Tick] = Idle /\ procs \in [Proc -> Process] /\ Tick \in Proc /\ Tick # Wake
    BY <1>0, <1>1, Others DEF Fire, Sounds
<1>6. procs'[Tick] = q /\ procs' \in [Proc -> Process] /\ \A x \in Proc \ {Tick} : procs'[x] = procs[x]
    BY <1>2, <1>5
<1>7. Sounds'
    BY <1>0, <1>3, <1>6, Typed DEF Sounds
<1>8. Moved(Tick) /\ Apart(Tick, procs[Tick]) /\ Apart(Tick, procs'[Tick])
    BY <1>4, <1>5, <1>6, Others, IdleSound DEF Moved, Apart, Saver
<1>9. Alone' /\ Wrote'
    BY <1>0, <1>5, <1>8, CalmSaves DEF Fire
<1>10. Copied'
    BY DEF Fire, Copied
<1>11. At(Tick, "load")' /\ ~At(Tick, "shell")' /\ ~At(Tick, "await")'
    BY <1>2, <1>4, <1>6 DEF At
<1>12. ShellRow' /\ Awaited' /\ Beats'
    BY <1>11 DEF ShellRow, Awaited, Beats, Owes
<1> QED BY <1>7, <1>8, <1>9, <1>10, <1>12

(* Beat and Rearm, of whomever.                                               *)
LEMMA BeatCalm ==
    ASSUME Sounds, NEW p \in Proc, Beat(p) \/ Rearm(p)
    PROVE  /\ Calm(p) /\ p # Flight
           /\ procs'[p] = Idle \/ (Beat(p) /\ procs'[p].todo = <<"await", "rearm">> /\ procs'[Flight].todo # <<>>)
<1>1. /\ procs[p].todo # <<>> /\ p \notin {Flight, Wake} /\ ~Saver(procs[p])
    BY AtHead DEF Beat, Rearm, Word
<1>2. UNCHANGED <<mongo, cache, crossed, settled>> /\ (timer => timer')
  <2>1. UNCHANGED <<mongo, cache, crossed, settled>>
      BY DEF Beat, Rearm, history
  <2>2. CASE Beat(p)
    <3>1. UNCHANGED timer \/ timer' = TRUE
        BY <2>2 DEF Beat
    <3> QED BY <2>1, <3>1
  <2>3. CASE Rearm(p)
    <3>1. PICK late : timer' = (timer \/ late)
        BY <2>3, Zenon DEF Rearm
    <3>2. timer => timer'
        BY <3>1, Zenon
    <3> QED BY <2>1, <3>2
  <2> QED BY <2>2, <2>3
<1>3. NoToken \in Token \cup {NoToken} /\ NoDoc \in Doc \cup {NoDoc}
    OBVIOUS
<1>4. CASE Finish(p, NoToken)
  <2>1. Sounds' /\ Moved(p) /\ procs'[p] = Idle
      BY <1>3, <1>4, FinishMoves
  <2>2. ~Saver(procs'[p])
      BY <2>1, IdleSound DEF Saver
  <2> QED BY <1>1, <1>2, <2>1, <2>2 DEF Calm, Apart
<1>5. CASE Beat(p) /\ Join(p, NoDoc, <<"await", "rearm">>)
  <2>1. PICK r, todo : todo = <<"await", "rearm">> /\ r = [Idle EXCEPT !.seen = NoDoc, !.todo = todo]
      OBVIOUS
  <2>2. r.todo = todo /\ Plain(todo) /\ Head(todo) = "await" /\ r \in Process
      BY <1>3, <2>1, TwoWays, IdleSound DEF Process, Plain
  <2>3. Way(p, todo)
      BY <1>1, <2>1, NoWay, TicksWay
  <2>4. Sound(p, r) /\ r.todo # <<>> /\ ~Saver(r)
      BY <2>2, <2>3, PlainSound DEF Saver, Plain
  <2>5. Join(p, NoDoc, todo) /\ r = [Idle EXCEPT !.seen = NoDoc, !.todo = todo] /\ r \in Process
      BY <1>5, <2>1, <2>2
  <2>6. Sounds' /\ Moved(p) /\ procs'[p] = r /\ procs'[Flight].todo # <<>>
      BY <2>4, <2>5, JoinMoves
  <2> QED BY <1>1, <1>2, <1>5, <2>1, <2>2, <2>4, <2>6 DEF Calm, Apart
<1> QED BY <1>4, <1>5 DEF Beat, Rearm

LEMMA BeatKeeps ==
    ASSUME IInv, NEW p \in Proc, Beat(p) \/ Rearm(p)
    PROVE  Sounds' /\ Alone' /\ Wrote' /\ Copied' /\ ShellRow' /\ Awaited' /\ Beats' /\ Moved(p)
<1>0. Sounds /\ Alone /\ Wrote /\ TypeOK /\ Copied /\ ShellRow /\ Awaited /\ Beats
    BY DEF IInv
<1>1. /\ Calm(p) /\ p # Flight
      /\ procs'[p] = Idle \/ (Beat(p) /\ procs'[p].todo = <<"await", "rearm">> /\ procs'[Flight].todo # <<>>)
    BY <1>0, BeatCalm
<1>2. Sounds' /\ Moved(p)
    BY <1>1 DEF Calm
<1>3. CASE p # Tick
    BY <1>0, <1>1, <1>2, <1>3, MovedElsewhere, CalmKeeps
<1>4. CASE p = Tick
  <2>1. /\ Alone' /\ Wrote' /\ (Quiet' <=> Quiet) /\ (Alive' <=> Alive)
        /\ mongo' = mongo /\ cache' = cache /\ (timer => timer')
      BY <1>0, <1>1, CalmSaves DEF Calm
  <2>2. Copied'
      BY <1>0, <2>1 DEF Copied
  <2>3. \/ procs'[Tick].todo = <<>>
        \/ Beat(Tick) /\ procs'[Tick].todo # <<>> /\ Head(procs'[Tick].todo) = "await" /\ procs'[Flight].todo # <<>>
      BY <1>1, <1>4, IdleSound, BeatTails
  <2>4. ShellRow' /\ Awaited'
      BY <2>3 DEF ShellRow, Awaited, At
  <2>5. ASSUME Quiet', Alive', ~timer' PROVE Owes'
    <3>1. Owes /\ ~timer
        BY <1>0, <2>1, <2>5 DEF Beats
    <3>2. CASE Beat(Tick)
      <4>1. Refreshable(procs[Tick].seen)
          BY <3>1, <3>2 DEF Owes, Beat, At
      <4>2. Join(Tick, NoDoc, <<"await", "rearm">>)
          BY <2>5, <3>2, <4>1 DEF Beat
      <4>3. procs'[Tick].todo # <<>>
        <5>1. procs' = [procs EXCEPT ![Tick] = [Idle EXCEPT !.seen = NoDoc, !.todo = <<"await", "rearm">>],
                                     ![Flight] = IF @ = Idle THEN [Idle EXCEPT !.todo = <<"load", "grant">>] ELSE @]
            BY <4>2 DEF Join, Start
        <5>2. procs'[Tick] = [Idle EXCEPT !.seen = NoDoc, !.todo = <<"await", "rearm">>]
            BY <1>0, <5>1, Others DEF Sounds
        <5> QED BY <5>2 DEF Idle
      <4> QED BY <2>3, <4>3 DEF Owes, At
    <3>3. CASE Rearm(Tick)
      <4>1. procs[Tick].token = NoToken /\ (cache = NoDoc \/ Refreshable(cache))
          BY <3>1, <3>3 DEF Owes, Rearm, At
      <4> QED BY <2>5, <3>3, <4>1 DEF Rearm, Refreshable
    <3> QED BY <1>4, <3>2, <3>3
  <2> QED BY <1>2, <2>1, <2>2, <2>4, <2>5 DEF Beats
<1> QED BY <1>3, <1>4

-----------------------------------------------------------------------------
(* Who crosses whom.                                                          *)
LEMMA Crossing ==
    ASSUME NEW p \in Proc, Alone, Crosses(p), \A x \in Proc : x # p => ((x \in Saving)' <=> x \in Saving)
    PROVE  Alone' /\ crossed \ {p} \subseteq crossed' /\ \A x \in Saving : x # p => x \in crossed'
<1>1. Saving \subseteq Proc /\ Saving' \subseteq Proc
    BY DEF Saving
<1>2. CASE Saving \ {p} # {}
    BY <1>1, <1>2 DEF Crosses, Alone
<1>3. CASE Saving \ {p} = {}
    BY <1>1, <1>3 DEF Crosses, Alone
<1> QED BY <1>2, <1>3

LEMMA NotCrossing ==
    ASSUME NEW p \in Proc, Alone, Moved(p), crossed \ {p} \subseteq crossed',
           (p \notin Saving)' \/ (p \in Saving /\ crossed \subseteq crossed')
    PROVE  Alone'
<1>1. Saving \subseteq Proc /\ Saving' \subseteq Proc
    BY DEF Saving
<1>2. \A x \in Proc : x # p => ((x \in Saving)' <=> x \in Saving)
    BY OthersSave
<1> QED BY <1>1, <1>2 DEF Alone

LEMMA WroteOthers ==
    ASSUME NEW p \in Proc, Moved(p), Wrote, crossed \ {p} \subseteq crossed',
           mongo' = mongo \/ \A x \in Saving : x # p => x \in crossed',
           (At(p, "saved") \/ At(p, "mirror"))' => p \in crossed' \/ mongo' = Patched(p)'
    PROVE  Wrote'
<1> SUFFICES ASSUME NEW x \in Proc, At(x, "saved")' \/ At(x, "mirror")', x \notin crossed' PROVE mongo' = Patched(x)'
    BY DEF Wrote
<1>1. CASE x = p
    BY <1>1
<1>2. CASE x # p
  <2>1. At(x, "saved") \/ At(x, "mirror")
      BY <1>2, OthersSave
  <2>2. Patched(x)' = Patched(x) /\ x \in Saving /\ x \notin crossed
      BY <1>2, <2>1, OthersSave DEF Saving, At
  <2> QED BY <1>2, <2>1, <2>2 DEF Wrote
<1> QED BY <1>1, <1>2

-----------------------------------------------------------------------------
(* A load has its answer.                                                     *)
LEMMA LoadMoves ==
    ASSUME Sounds, NEW p \in Proc, procs[p].todo # <<>>, Head(procs[p].todo) \in Loading,
           NEW r \in Process, Go(p, r), r.todo = Rest(p), r.patch = procs[p].patch, r.seen \in Doc
    PROVE  /\ Sounds' /\ Moved(p) /\ ~At(p, "saved")' /\ ~At(p, "mirror")' /\ ~At(p, "shell")'
           /\ p = Wake => procs'[p] = Idle
           /\ (p \in Saving)' <=> (Rest(p) # <<>> /\ Head(Rest(p)) = "write")
           /\ p = Tick => procs'[Tick].todo = <<"beat">> /\ procs'[Tick].seen = r.seen
           /\ p # Tick => procs'[Tick] = procs[Tick]
           /\ procs[Flight].todo # <<>> => procs'[Flight].todo # <<>>
<1>1. PICK s : s = procs[p].todo
    OBVIOUS
<1>2. s \in Seq(Word) /\ s # <<>> /\ Head(s) \in Loading /\ InOrder(s) /\ Way(p, s) /\ r.todo = Tail(s) /\ Rest(p) = Tail(s)
    BY <1>1, Typed DEF Rest
<1>3. /\ Sounds' /\ Moved(p)
      /\ Rest(p) # <<>> => procs' = [procs EXCEPT ![p] = r] /\ procs'[p] = r
      /\ Rest(p) = <<>> => Finish(p, r.token) /\ procs'[p] = Idle
    BY NextMoves
<1>4. Tail(s) # <<>> => Head(Tail(s)) \notin {"saved", "mirror", "found", "shell"}
    BY <1>2, LoadedNext
<1>5. \/ Tail(s) = <<>> /\ procs'[p] = Idle
      \/ Tail(s) # <<>> /\ procs'[p] = r /\ procs'[p].todo = Tail(s) /\ procs' = [procs EXCEPT ![p] = r]
    BY <1>2, <1>3
<1>6. p = Wake => Tail(s) = <<>>
    BY <1>2 DEF Way, WakeWay
<1>7. p = Tick => Tail(s) = <<"beat">> /\ Tail(s) # <<>>
    BY <1>2, BeatTails DEF Way, TickWay, Loading
<1>8. p = Flight => Tail(s) # <<>>
  <2> SUFFICES ASSUME p = Flight, Tail(s) = <<>> PROVE FALSE
      OBVIOUS
  <2>1. Len(s) = 1 /\ Head(s) = s[1]
    <3>1. Len(s) \in Nat \ {0} /\ Len(Tail(s)) = Len(s) - 1 /\ Head(s) = s[1]
        BY <1>2, Tails
    <3>2. Len(Tail(s)) = 0
      <4>1. Tail(s) = <<>>
          OBVIOUS
      <4>2. Len(<<>>) = 0
          BY EmptySeq
      <4> QED BY <4>1, <4>2
    <3>3. \A n \in Nat : n - 1 = 0 => n = 1
        OBVIOUS
    <3> QED BY <3>1, <3>2, <3>3
  <2>2. s[Len(s)] \in {"grant", "saved", "mirror"}
      BY <1>2 DEF Way, FlightWay
  <2>3. s[Len(s)] = s[1]
      BY <2>1
  <2> QED BY <1>2, <2>1, <2>2, <2>3 DEF Loading
<1>9. ~At(p, "saved")' /\ ~At(p, "mirror")' /\ ~At(p, "shell")'
    BY <1>4, <1>5, IdleSound DEF At
<1>10. (p \in Saving)' <=> (Rest(p) # <<>> /\ Head(Rest(p)) = "write")
    BY <1>2, <1>4, <1>5, <1>6, IdleSound DEF Saving
<1>11. p # Tick => procs'[Tick] = procs[Tick]
  <2>1. CASE p = Flight
      BY <1>5, <1>8, <2>1, Others DEF Sounds
  <2>2. CASE p # Flight
      BY <1>3, <2>2 DEF Moved
  <2> QED BY <2>1, <2>2
<1>12. procs[Flight].todo # <<>> => procs'[Flight].todo # <<>>
    BY <1>3, <1>5, <1>8 DEF Moved
<1> QED BY <1>3, <1>5, <1>6, <1>7, <1>9, <1>10, <1>11, <1>12

LEMMA AimingOthers ==
    ASSUME NEW p \in Proc, p # Wake, Moved(p),
           ~At(p, "saved"), ~At(p, "mirror"), ~At(p, "saved")', ~At(p, "mirror")'
    PROVE  Aiming' <=> Aiming
BY OthersSave DEF Aiming

LEMMA LoadKeeps ==
    ASSUME IInv, NEW p \in Proc, procs[p].todo # <<>>, Head(procs[p].todo) \in Loading,
           NEW r \in Process, Go(p, r), r.todo = Rest(p), r.patch = procs[p].patch, r.seen \in Doc,
           NEW isRow \in BOOLEAN, NEW d \in Doc, Loads(p, isRow), cache' = d, timer' = Aimed(p, d),
           \/ mongo' = mongo /\ r.seen = d /\ (isRow => d = mongo \/ (p # Wake /\ d = cache))
           \/ mongo' = Shell /\ Head(procs[p].todo) = "shell"
    PROVE  Sounds' /\ Moved(p) /\ Alone' /\ Wrote' /\ Copied' /\ ShellRow' /\ Awaited' /\ Beats'
<1>0. Sounds /\ Alone /\ Wrote /\ TypeOK /\ Copied /\ ShellRow /\ Awaited /\ Beats
    BY DEF IInv
<1>1. /\ Sounds' /\ Moved(p) /\ ~At(p, "saved")' /\ ~At(p, "mirror")' /\ ~At(p, "shell")'
      /\ p = Wake => procs'[p] = Idle
      /\ (p \in Saving)' <=> (Rest(p) # <<>> /\ Head(Rest(p)) = "write")
      /\ p = Tick => procs'[Tick].todo = <<"beat">> /\ procs'[Tick].seen = r.seen
      /\ p # Tick => procs'[Tick] = procs[Tick]
      /\ procs[Flight].todo # <<>> => procs'[Flight].todo # <<>>
    BY <1>0, LoadMoves
<1>2. \A x \in Proc : x # p => ((x \in Saving)' <=> x \in Saving)
    BY <1>1, OthersSave
<1>3. crossed \ {p} \subseteq crossed' /\ Alone'
  <2>1. CASE p # Wake /\ Rest(p) # <<>> /\ Head(Rest(p)) = "write"
    <3>1. Crosses(p)
        BY <2>1 DEF Loads
    <3> QED BY <1>0, <1>2, <3>1, Crossing
  <2>2. CASE ~(p # Wake /\ Rest(p) # <<>> /\ Head(Rest(p)) = "write")
    <3>1. crossed' = crossed \ {p}
        BY <2>2 DEF Loads
    <3>2. (p \notin Saving)'
        BY <1>1, <2>2, IdleSound DEF Saving
    <3> QED BY <1>0, <1>1, <3>1, <3>2, NotCrossing
  <2> QED BY <2>1, <2>2
<1>4. Wrote'
  <2>1. mongo' = mongo \/ \A x \in Saving : x # p => x \in crossed'
    <3>1. CASE Head(procs[p].todo) = "shell"
      <4>1. p \in Saving
          BY <3>1 DEF Saving
      <4> QED BY <1>0, <1>3, <4>1 DEF Alone
    <3>2. CASE mongo' = mongo
        BY <3>2
    <3> QED BY <3>1, <3>2
  <2> QED BY <1>0, <1>1, <1>3, <2>1, WroteOthers
<1>5. ASSUME p # Wake PROVE (Aiming' <=> Aiming) /\ timer' = timer /\ (settled' => isRow /\ settled)
  <2>1. ~At(p, "saved") /\ ~At(p, "mirror")
      BY DEF At, Loading
  <2> QED BY <1>1, <1>5, <2>1, AimingOthers DEF Aimed, Loads
<1>6. ASSUME p = Wake PROVE timer' = Refreshable(d) /\ (settled' => isRow /\ p \notin crossed)
    BY <1>6 DEF Aimed, Loads
<1>7. ASSUME mongo' = Shell PROVE ~Alive'
  <2>1. ~Refreshable(Shell)
      BY DEF Refreshable, Shell
  <2> QED BY <1>7, <2>1 DEF Alive, Refreshable
<1>8. ASSUME mongo' = mongo, p # Wake, Quiet', Alive' PROVE Quiet /\ Alive /\ isRow /\ timer' = timer
    BY <1>5, <1>8 DEF Quiet, Alive, Refreshable
<1>9. ASSUME mongo' = mongo, p = Wake, Quiet', Alive' PROVE timer'
  <2>1. d = mongo /\ Refreshable(mongo)
      BY <1>6, <1>7, <1>9 DEF Quiet, Alive, Refreshable
  <2> QED BY <1>6, <1>9, <2>1
<1>10. ASSUME mongo' = mongo, p # Wake, Quiet', Alive', ~timer' PROVE d = mongo /\ r.seen = mongo
  <2>1. Quiet /\ Alive /\ isRow /\ ~timer
      BY <1>8, <1>10
  <2>2. cache \in {NoDoc, mongo} /\ (d = mongo \/ d = cache) /\ r.seen = d
      BY <1>0, <1>7, <1>10, <2>1 DEF Copied
  <2>3. d # NoDoc
      BY DuloAssumption DEF DuloAssumption
  <2> QED BY <2>2, <2>3
<1>11. Copied'
    BY <1>7, <1>9, <1>10 DEF Copied
<1>12. Awaited'
  <2>1. CASE p = Tick
    <3>1. ~At(Tick, "await")'
        BY <1>1, <2>1, BeatTails DEF At
    <3> QED BY <3>1 DEF Awaited
  <2>2. CASE p # Tick
      BY <1>0, <1>1, <2>2 DEF Awaited, At
  <2> QED BY <2>1, <2>2
<1>13. ShellRow'
  <2> SUFFICES ASSUME Quiet', At(Tick, "shell")', mongo' # Shell PROVE mongo' = NoDoc
      BY DEF ShellRow
  <2>1. p # Tick /\ At(Tick, "shell") /\ mongo' = mongo
      BY <1>1 DEF At
  <2>2. CASE p = Wake
    <3>1. Tick \in Saving /\ Wake \in Saving /\ Tick # Wake
        BY <2>1, <2>2, Others DEF Saving, At
    <3>2. Wake \in crossed
        BY <1>0, <3>1 DEF Alone
    <3> QED BY <1>6, <2>2, <3>2 DEF Quiet
  <2>3. CASE p # Wake
    <3>1. Quiet
        BY <1>5, <2>3 DEF Quiet
    <3> QED BY <1>0, <2>1, <3>1 DEF ShellRow
  <2> QED BY <2>2, <2>3
<1>14. Beats'
  <2> SUFFICES ASSUME Quiet', Alive', ~timer' PROVE Owes'
      BY DEF Beats
  <2>1. mongo' = mongo /\ p # Wake
      BY <1>7, <1>9
  <2>2. d = mongo /\ r.seen = mongo /\ Quiet /\ Alive /\ ~timer
      BY <1>8, <1>10, <2>1
  <2>3. CASE p = Tick
    <3>1. At(Tick, "beat")' /\ procs'[Tick].seen = mongo
        BY <1>1, <2>2, <2>3, BeatTails DEF At
    <3>2. Refreshable(mongo)
        BY <2>2 DEF Alive
    <3>3. Refreshable(procs[Tick].seen)'
        BY <3>1, <3>2 DEF Refreshable
    <3> QED BY <3>1, <3>3 DEF Owes
  <2>4. CASE p # Tick
    <3>1. Owes
        BY <1>0, <2>2 DEF Beats
    <3>2. Refreshable(mongo)
        BY <2>2 DEF Alive
    <3>3. Refreshable(cache)'
        BY <2>2, <3>2 DEF Refreshable
    <3>4. procs'[Tick] = procs[Tick]
        BY <1>1, <2>4
    <3> QED BY <3>1, <3>3, <3>4 DEF Owes, At, Refreshable
  <2> QED BY <2>3, <2>4
<1> QED BY <1>1, <1>3, <1>4, <1>11, <1>12, <1>13, <1>14

LEMMA LoadCachedKeeps ==
    ASSUME IInv, NEW p \in Proc, LoadCached(p)
    PROVE  Sounds' /\ Moved(p) /\ Alone' /\ Wrote' /\ Copied' /\ ShellRow' /\ Awaited' /\ Beats'
<1>1. procs[p].todo # <<>> /\ Head(procs[p].todo) = "load" /\ cache \in Doc /\ Sounds
    BY DEF LoadCached, At, IInv, TypeOK
<1>2. procs[p] \in Process /\ procs[p].todo \in Seq(Word) /\ Tail(procs[p].todo) \in Seq(Word)
    BY <1>1, Typed, Tails
<1>3. PICK r : r = [procs[p] EXCEPT !.seen = cache, !.todo = Rest(p)]
    OBVIOUS
<1>4. r \in Process /\ r.todo = Rest(p) /\ r.patch = procs[p].patch /\ r.seen = cache
    BY <1>1, <1>2, <1>3 DEF Process, Rest
<1>5. PICK isRow \in BOOLEAN : isRow <=> (p = Wake => cache = mongo)
    OBVIOUS
<1>6. isRow = (p = Wake => cache = mongo)
    BY <1>5
<1>7. Go(p, r) /\ Loads(p, isRow) /\ cache' = cache /\ timer' = Aimed(p, cache) /\ mongo' = mongo
    BY <1>3, <1>6 DEF LoadCached
<1> QED BY <1>1, <1>4, <1>5, <1>7, LoadKeeps DEF Loading

LEMMA FoundKeeps ==
    ASSUME IInv, NEW p \in Proc, Found(p) \/ InsertShell(p)
    PROVE  Sounds' /\ Moved(p) /\ Alone' /\ Wrote' /\ Copied' /\ ShellRow' /\ Awaited' /\ Beats'
<1>0. Sounds
    BY DEF IInv
<1>1. procs[p].todo # <<>> /\ Head(procs[p].todo) \in Loading /\ procs[p].seen \in Doc
    BY <1>0, AtHead DEF Found, InsertShell, Loading, Word, Looking
<1>2. procs[p] \in Process /\ procs[p].todo \in Seq(Word) /\ Tail(procs[p].todo) \in Seq(Word)
    BY <1>0, <1>1, Typed, Tails
<1>3. PICK r : r = [procs[p] EXCEPT !.todo = Tail(@)]
    OBVIOUS
<1>4. r \in Process /\ r.todo = Rest(p) /\ r.patch = procs[p].patch /\ r.seen = procs[p].seen
    BY <1>2, <1>3 DEF Process, Rest
<1>5. Go(p, r)
    BY <1>3 DEF Found, InsertShell, Advance
<1>6. CASE Found(p)
  <2>1. PICK isRow \in BOOLEAN : isRow = (procs[p].seen = mongo)
      OBVIOUS
  <2>2. Loads(p, isRow) /\ cache' = procs[p].seen /\ timer' = Aimed(p, procs[p].seen) /\ mongo' = mongo
      BY <1>6, <2>1 DEF Found
  <2> QED BY <1>1, <1>4, <1>5, <2>1, <2>2, LoadKeeps
<1>7. CASE InsertShell(p)
  <2>1. Loads(p, TRUE) /\ cache' = Shell /\ timer' = Aimed(p, Shell) /\ mongo' = Shell /\ Head(procs[p].todo) = "shell"
      BY <1>7 DEF InsertShell, At
  <2> QED BY <1>1, <1>4, <1>5, <2>1, LoadKeeps, Shells
<1> QED BY <1>6, <1>7

(* The row is read, and its answer awaited.                                   *)
LEMMA FindKeeps ==
    ASSUME IInv, NEW p \in Proc, Find(p)
    PROVE  Sounds' /\ Moved(p) /\ Alone' /\ Wrote' /\ Copied' /\ ShellRow' /\ Awaited' /\ Beats'
<1>0. Sounds /\ Alone /\ Wrote /\ TypeOK /\ Copied /\ ShellRow /\ Awaited /\ Beats
    BY DEF IInv
<1>1. procs[p].todo # <<>> /\ Head(procs[p].todo) = "load" /\ procs[p] \in Process /\ procs[p].todo \in Seq(Word)
    BY <1>0, Typed DEF Find, At
<1>2. PICK w \in {"found", "shell"}, d \in Doc :
          /\ (mongo = NoDoc /\ w = "shell" /\ d = Shell) \/ (mongo # NoDoc /\ w = "found" /\ d = mongo)
          /\ Go(p, [procs[p] EXCEPT !.seen = d, !.todo = <<w>> \o Rest(p)])
  <2>1. CASE mongo = NoDoc
      BY <2>1, Shells DEF Find
  <2>2. CASE mongo # NoDoc
      BY <1>0, <2>2 DEF Find, TypeOK
  <2> QED BY <2>1, <2>2
<1>3. PICK r : r = [procs[p] EXCEPT !.seen = d, !.todo = <<w>> \o Rest(p)]
    OBVIOUS
<1>4. w \in Word /\ Tail(procs[p].todo) \in Seq(Word)
    BY <1>1, Tails DEF Word
<1>5. <<w>> \o Rest(p) \in Seq(Word) /\ <<w>> \o Rest(p) # <<>> /\ Head(<<w>> \o Rest(p)) = w
    BY <1>4, Conses DEF Rest
<1>6. r \in Process /\ r.todo = <<w>> \o Rest(p) /\ r.patch = procs[p].patch /\ r.seen = d
    BY <1>1, <1>3, <1>5 DEF Process
<1>7. Sound(p, r)
    BY <1>0, <1>1, <1>6, Typed, AnswerSound DEF Rest
<1>8. Sounds' /\ Moved(p) /\ procs' = [procs EXCEPT ![p] = r] /\ procs'[p] = r
    BY <1>0, <1>2, <1>3, <1>5, <1>6, <1>7, GoMoves
<1>9. \A x \in Proc : x # p => procs'[x] = procs[x]
    BY <1>0, <1>8 DEF Sounds
<1>10. procs'[p].todo # <<>> /\ Head(procs'[p].todo) = w /\ (w = "shell" <=> mongo = NoDoc)
    BY <1>2, <1>5, <1>6, <1>8
<1>11. UNCHANGED <<mongo, cache, timer, settled>>
    BY DEF Find, local
<1>12. \A x \in Proc : x # p => ((x \in Saving)' <=> x \in Saving)
    BY <1>8, OthersSave
<1>13. Alone' /\ crossed \ {p} \subseteq crossed'
  <2>1. CASE mongo = NoDoc
    <3>1. Crosses(p)
        BY <2>1 DEF Find
    <3> QED BY <1>0, <1>12, <3>1, Crossing
  <2>2. CASE mongo # NoDoc
    <3>1. crossed' = crossed
        BY <2>2 DEF Find
    <3>2. (p \notin Saving)' \/ p \in Saving
        BY <1>1, <1>2, <1>10, <2>2 DEF Saving
    <3> QED BY <1>0, <1>8, <3>1, <3>2, NotCrossing
  <2> QED BY <2>1, <2>2
<1>14. ~At(p, "saved") /\ ~At(p, "mirror") /\ ~At(p, "saved")' /\ ~At(p, "mirror")'
    BY <1>1, <1>10 DEF At
<1>15. Wrote'
    BY <1>0, <1>8, <1>11, <1>13, <1>14, WroteOthers
<1>16. (Quiet' <=> Quiet) /\ (Alive' <=> Alive)
  <2>1. CASE p = Wake
    <3>1. Aiming /\ Aiming'
        BY <1>1, <1>10, <2>1, Others DEF Aiming
    <3> QED BY <1>11, <3>1 DEF Quiet, Alive, Refreshable
  <2>2. CASE p # Wake
      BY <1>8, <1>11, <1>14, <2>2, AimingOthers DEF Quiet, Alive, Refreshable
  <2> QED BY <2>1, <2>2
<1>17. Copied'
    BY <1>0, <1>11, <1>16 DEF Copied
<1>18. ShellRow' /\ Beats'
  <2>1. CASE p = Tick
    <3>1. At(Tick, "found")' \/ (At(Tick, "shell")' /\ mongo = NoDoc)
        BY <1>2, <1>10, <2>1 DEF At
    <3> QED BY <1>11, <1>10, <2>1, <3>1 DEF ShellRow, Beats, Owes, At
  <2>2. CASE p # Tick
    <3>1. procs'[Tick] = procs[Tick]
        BY <1>9, <2>2, Others
    <3> QED BY <1>0, <1>11, <1>16, <3>1 DEF ShellRow, Beats, Owes, At, Refreshable
  <2> QED BY <2>1, <2>2
<1>19. Awaited'
  <2>1. p = Flight => procs'[Flight].todo # <<>>
      BY <1>10
  <2>2. p = Tick => ~At(Tick, "await")'
      BY <1>10 DEF At
  <2> QED BY <1>0, <1>9, <2>1, <2>2, Others DEF Awaited, At
<1> QED BY <1>8, <1>13, <1>15, <1>17, <1>18, <1>19

-----------------------------------------------------------------------------
(* A save writes, copies, mirrors.                                            *)
LEMMA AdvanceMoves ==
    ASSUME Sounds, NEW p \in Proc, procs[p].todo # <<>>, Advance(p),
           Head(procs[p].todo) \in Loading \cup {"write", "saved"} => procs[p].seen \in Doc
    PROVE  /\ Sounds' /\ Moved(p)
           /\ Rest(p) # <<>> => /\ procs'[p] = [procs[p] EXCEPT !.todo = Tail(@)]
                                /\ procs'[p].todo = Rest(p) /\ Patched(p)' = Patched(p)
                                /\ \A x \in Proc : x # p => procs'[x] = procs[x]
           /\ Rest(p) = <<>> => Finish(p, procs[p].token) /\ procs'[p] = Idle
           /\ Head(procs[p].todo) \notin Loading \cup {"write", "saved"} => ~Saver(procs'[p])
<1>1. procs[p] \in Process /\ Tail(procs[p].todo) \in Seq(Word)
    BY Typed, Tails
<1>2. PICK r : r = [procs[p] EXCEPT !.todo = Tail(@)]
    OBVIOUS
<1>3. /\ r \in Process /\ r.todo = Rest(p) /\ r.patch = procs[p].patch /\ r.seen = procs[p].seen
      /\ r.token = procs[p].token
    BY <1>1, <1>2 DEF Process, Rest
<1>4. Go(p, r)
    BY <1>2 DEF Advance
<1>5. /\ Sounds' /\ Moved(p)
      /\ Rest(p) # <<>> => procs' = [procs EXCEPT ![p] = r] /\ procs'[p] = r
      /\ Rest(p) = <<>> => Finish(p, r.token) /\ procs'[p] = Idle
      /\ Head(procs[p].todo) \notin Loading \cup {"write", "saved"} => ~Saver(procs'[p])
    BY <1>3, <1>4, NextMoves
<1>6. Rest(p) # <<>> => Patched(p)' = Patched(p)
    BY <1>3, <1>5 DEF Patched
<1>7. Rest(p) # <<>> => \A x \in Proc : x # p => procs'[x] = procs[x]
    BY <1>5 DEF Sounds
<1> QED BY <1>2, <1>3, <1>5, <1>6, <1>7

LEMMA WriteKeeps ==
    ASSUME IInv, NEW p \in Proc, Write(p)
    PROVE  Sounds' /\ Moved(p) /\ Alone' /\ Wrote' /\ Copied' /\ ShellRow' /\ Awaited' /\ Beats'
<1>0. Sounds /\ Alone /\ Wrote /\ Awaited
    BY DEF IInv
<1>1. /\ procs[p].todo # <<>> /\ Head(procs[p].todo) = "write" /\ p \notin {Tick, Wake} /\ procs[p].seen \in Doc
      /\ procs[p].todo \in Seq(Word) /\ Mirrored(procs[p].todo, procs[p].patch.status)
    BY <1>0, AtHead, Typed DEF Write, Word, Looking
<1>2. Rest(p) # <<>> /\ Head(Rest(p)) = "saved"
    BY <1>1, SaveNext DEF Rest
<1>3. /\ Sounds' /\ Moved(p) /\ procs'[p].todo = Rest(p) /\ Patched(p)' = Patched(p)
      /\ \A x \in Proc : x # p => procs'[x] = procs[x]
    BY <1>0, <1>1, <1>2, AdvanceMoves DEF Write
<1>4. At(p, "saved")' /\ (p \in Saving)' /\ p \in Saving
    BY <1>1, <1>2, <1>3 DEF At, Saving
<1>5. mongo' = Patched(p) /\ crossed' = crossed
    BY DEF Write, history
<1>6. Alone'
    BY <1>0, <1>3, <1>4, <1>5, NotCrossing
<1>7. \A x \in Saving : x # p => x \in crossed'
    BY <1>0, <1>4, <1>5 DEF Alone
<1>8. Wrote'
    BY <1>0, <1>3, <1>5, <1>7, WroteOthers
<1>9. Copied' /\ ShellRow' /\ Beats'
  <2>1. Aiming'
      BY <1>4 DEF Aiming
  <2> QED BY <2>1 DEF Copied, ShellRow, Beats, Quiet
<1>10. Awaited'
    BY <1>0, <1>1, <1>2, <1>3, Others DEF Awaited, At
<1> QED BY <1>3, <1>6, <1>8, <1>9, <1>10

LEMMA SaveEndKeeps ==
    ASSUME IInv, NEW p \in Proc, At(p, "mirror") \/ (At(p, "saved") /\ procs[p].patch.status = Keep),
           SaveOver(p), timer' = Refreshable(Patched(p)), Saves(p), mongo' = mongo
    PROVE  Sounds' /\ Moved(p) /\ Alone' /\ Wrote' /\ Copied' /\ ShellRow' /\ Awaited' /\ Beats'
<1>0. Sounds /\ Alone /\ Wrote /\ Awaited
    BY DEF IInv
<1>1. /\ procs[p].todo # <<>> /\ Head(procs[p].todo) \in {"saved", "mirror"} /\ p \notin {Tick, Wake} /\ p \in Saving
      /\ Head(procs[p].todo) = "mirror" \/ (Head(procs[p].todo) = "saved" /\ procs[p].patch.status = Keep)
    BY <1>0, AtHead DEF Word, Saving, At
<1>2. /\ Sound(p, procs[p]) /\ procs[p] \in Process /\ procs[p].todo \in Seq(Word) /\ Tail(procs[p].todo) \in Seq(Word)
      /\ procs[p].token \in Token \cup {NoToken}
    BY <1>0, <1>1, Typed, Tails
<1>3. PICK r : r = [Idle EXCEPT !.token = procs[p].token, !.todo = Rest(p)]
    OBVIOUS
<1>4. r \in Process /\ r.todo = Rest(p) /\ r.token = procs[p].token
    BY <1>2, <1>3, IdleSound DEF Process, Rest
<1>5. r.todo # <<>> => Sound(p, r)
    BY <1>1, <1>2, <1>4, RestSound DEF Rest
<1>6. Go(p, r)
    BY <1>3 DEF SaveOver
<1>7. /\ Sounds' /\ Moved(p)
      /\ r.todo # <<>> => procs' = [procs EXCEPT ![p] = r] /\ procs'[p] = r
      /\ r.todo = <<>> => Finish(p, r.token) /\ procs'[p] = Idle
    BY <1>0, <1>4, <1>5, <1>6, GoMoves
<1>8. (p \notin Saving)' /\ ~At(p, "saved")' /\ ~At(p, "mirror")'
  <2>1. CASE r.todo = <<>>
      BY <1>7, <2>1, IdleSound DEF Saving, At
  <2>2. CASE r.todo # <<>>
    <3>1. r.seen = NoDoc /\ NoDoc \notin Doc
        BY <1>3, DuloAssumption DEF Idle, DuloAssumption
    <3>2. Head(r.todo) \notin Looking
        BY <1>5, <2>2, <3>1 DEF Sound
    <3> QED BY <1>1, <1>7, <2>2, <3>2 DEF Saving, At, Looking
  <2> QED BY <2>1, <2>2
<1>9. settled' = (p \notin crossed) /\ crossed' = crossed \ {p}
    BY DEF Saves
<1>10. Alone' /\ Wrote'
    BY <1>0, <1>7, <1>8, <1>9, NotCrossing, WroteOthers
<1>11. Quiet' /\ Alive' => timer'
  <2> SUFFICES ASSUME Quiet', Alive' PROVE timer'
      OBVIOUS
  <2>1. mongo = Patched(p)
      BY <1>0, <1>9 DEF Quiet, Wrote
  <2>2. Refreshable(mongo)
      BY DEF Alive, Refreshable
  <2> QED BY <2>1, <2>2
<1>12. Copied' /\ Beats'
    BY <1>11 DEF Copied, Beats
<1>13. ShellRow'
  <2> SUFFICES ASSUME Quiet', At(Tick, "shell")' PROVE FALSE
      BY DEF ShellRow
  <2>1. (Tick \in Saving)' /\ Tick \in Proc /\ Tick # p
      BY <1>1, Others DEF Saving, At
  <2>2. Tick \in Saving
      BY <1>7, <2>1, OthersSave
  <2> QED BY <1>0, <1>1, <1>9, <2>1, <2>2 DEF Alone, Quiet
<1>14. Awaited'
  <2> SUFFICES ASSUME At(Tick, "await")' PROVE procs'[Flight].todo # <<>>
      BY DEF Awaited
  <2>1. CASE p # Flight
    <3>1. procs'[Tick] = procs[Tick]
        BY <1>1, <1>7, <2>1 DEF Moved
    <3>2. procs[Flight].todo # <<>>
        BY <1>0, <3>1 DEF Awaited, At
    <3> QED BY <1>7, <2>1, <3>2 DEF Moved
  <2>2. CASE p = Flight /\ r.todo # <<>>
      BY <1>7, <2>2
  <2>3. CASE p = Flight /\ r.todo = <<>>
    <3>1. At(Tick, "await")
        BY <1>7, <2>3 DEF Moved, At
    <3>2. procs'[Tick].todo = <<"rearm">>
        BY <1>0, <1>2, <1>4, <1>7, <2>3, <3>1, FinishMoves
    <3> QED BY <3>2, BeatTails DEF At
  <2> QED BY <2>1, <2>2, <2>3
<1> QED BY <1>7, <1>10, <1>12, <1>13, <1>14

LEMMA WrittenKeeps ==
    ASSUME IInv, NEW p \in Proc, Written(p)
    PROVE  Sounds' /\ Moved(p) /\ Alone' /\ Wrote' /\ Copied' /\ ShellRow' /\ Awaited' /\ Beats'
<1>0. Sounds /\ Alone /\ Wrote /\ Awaited
    BY DEF IInv
<1>1. CASE procs[p].patch.status = Keep
  <2>1. /\ At(p, "saved") /\ SaveOver(p) /\ Saves(p) /\ mongo' = mongo /\ timer' = Refreshable(Patched(p))
      BY <1>1 DEF Written
  <2> QED BY <1>1, <2>1, SaveEndKeeps
<1>2. CASE procs[p].patch.status # Keep
  <2>1. /\ procs[p].todo # <<>> /\ Head(procs[p].todo) = "saved" /\ p \notin {Tick, Wake} /\ procs[p].seen \in Doc
        /\ procs[p].todo \in Seq(Word) /\ Mirrored(procs[p].todo, procs[p].patch.status)
      BY <1>0, AtHead, Typed DEF Written, Word, Looking
  <2>2. Rest(p) # <<>> /\ Head(Rest(p)) = "mirror"
      BY <1>2, <2>1, SaveNext DEF Rest
  <2>3. Advance(p) /\ UNCHANGED <<mongo, crossed, settled>>
      BY <1>2 DEF Written
  <2>4. /\ Sounds' /\ Moved(p) /\ procs'[p].todo = Rest(p) /\ Patched(p)' = Patched(p)
        /\ \A x \in Proc : x # p => procs'[x] = procs[x]
      BY <1>0, <2>1, <2>2, <2>3, AdvanceMoves
  <2>5. At(p, "mirror")' /\ At(p, "saved") /\ p \in Saving
      BY <2>1, <2>2, <2>4 DEF At, Saving
  <2>6. Alone'
      BY <1>0, <2>3, <2>4, <2>5, NotCrossing
  <2>7. p \in crossed \/ mongo = Patched(p)
      BY <1>0, <2>5 DEF Wrote
  <2>8. Wrote'
      BY <1>0, <2>3, <2>4, <2>7, WroteOthers
  <2>9. Copied' /\ ShellRow' /\ Beats'
    <3>1. Aiming'
        BY <2>5 DEF Aiming
    <3> QED BY <3>1 DEF Copied, ShellRow, Beats, Quiet
  <2>10. Awaited'
      BY <1>0, <2>1, <2>2, <2>4, Others DEF Awaited, At
  <2> QED BY <2>4, <2>6, <2>8, <2>9, <2>10
<1> QED BY <1>1, <1>2

LEMMA MirrorKeeps ==
    ASSUME IInv, NEW p \in Proc, Mirror(p)
    PROVE  Sounds' /\ Moved(p) /\ Alone' /\ Wrote' /\ Copied' /\ ShellRow' /\ Awaited' /\ Beats'
<1>1. At(p, "mirror") /\ SaveOver(p) /\ Saves(p) /\ mongo' = mongo /\ timer' = Refreshable(Patched(p))
    BY DEF Mirror
<1> QED BY <1>1, SaveEndKeeps

-----------------------------------------------------------------------------
(* The row is removed, a statement fails, the server starts again.            *)
LEMMA EraseKeeps ==
    ASSUME IInv, NEW p \in Proc, Erase(p)
    PROVE  Sounds' /\ Moved(p) /\ Alone' /\ Wrote' /\ Copied' /\ ShellRow' /\ Awaited' /\ Beats'
<1>0. Sounds /\ Alone /\ Wrote /\ Awaited
    BY DEF IInv
<1>1. procs[p].todo # <<>> /\ Head(procs[p].todo) = "erase" /\ p \notin {Flight, Tick, Wake} /\ ~Saver(procs[p])
    BY <1>0, AtHead DEF Erase, Word
<1>2. Sounds' /\ Moved(p) /\ ~Saver(procs'[p])
    BY <1>0, <1>1, AdvanceMoves DEF Erase, Loading
<1>3. Apart(p, procs[p]) /\ Apart(p, procs'[p]) /\ Elsewhere
    BY <1>1, <1>2, MovedElsewhere DEF Apart
<1>4. Saving' = Saving /\ mongo' = NoDoc /\ crossed' = crossed \cup Saving
    BY <1>2, <1>3, ApartSaves DEF Erase
<1>5. Alone'
    BY <1>0, <1>4 DEF Alone
<1>6. Wrote'
  <2>1. ~(At(p, "saved") \/ At(p, "mirror"))'
      BY <1>2 DEF At, Saver
  <2> QED BY <1>0, <1>2, <1>4, <2>1, WroteOthers
<1>7. Copied' /\ ShellRow' /\ Beats'
    BY <1>4 DEF Copied, ShellRow, Beats, Alive
<1>8. Awaited'
    BY <1>0, <1>3 DEF Awaited, Elsewhere, At
<1> QED BY <1>2, <1>5, <1>6, <1>7, <1>8

LEMMA InvalidateKeeps ==
    ASSUME IInv, NEW p \in Proc, Invalidate(p)
    PROVE  Sounds' /\ Moved(Wake) /\ Alone' /\ Wrote' /\ Copied' /\ ShellRow' /\ Awaited' /\ Beats'
<1>0. Sounds /\ Alone /\ Wrote /\ Awaited
    BY DEF IInv
<1>1. procs[p].todo # <<>> /\ p \notin {Flight, Tick, Wake} /\ ~Saver(procs[p])
    BY <1>0, AtHead DEF Invalidate, Word
<1>2. PICK q : q = [Idle EXCEPT !.todo = <<"load">>]
    OBVIOUS
<1>3. q.todo = <<"load">> /\ Plain(q.todo) /\ q \in Process
    BY <1>2, OneWay, IdleSound DEF Process, Plain
<1>4. Sound(Wake, q) /\ q.todo # <<>>
    BY <1>3, PlainSound, WakesWay DEF Plain
<1>5. procs' = [procs EXCEPT ![p] = Idle, ![Wake] = q] /\ procs[Wake] = Idle /\ procs \in [Proc -> Process]
    BY <1>0, <1>2 DEF Invalidate, Sounds
<1>6. /\ procs'[Wake] = q /\ procs'[p] = Idle /\ procs' \in [Proc -> Process]
      /\ \A x \in Proc \ {p, Wake} : procs'[x] = procs[x]
    BY <1>1, <1>3, <1>5, Others, IdleSound
<1>7. Sounds'
    BY <1>0, <1>4, <1>6, Typed, IdleSound DEF Sounds
<1>8. Moved(Wake)
  <2>1. \A x \in Proc \ {Wake} : procs'[x] = procs[x] \/ (x = p /\ Apart(x, procs[x]) /\ Apart(x, procs'[x]) /\ procs[x] # Idle)
      BY <1>1, <1>6, IdleSound DEF Apart, Saver
  <2>2. procs'[Flight] = procs[Flight] /\ procs'[Tick] = procs[Tick]
      BY <1>1, <1>6, Others
  <2> QED BY <2>1, <2>2 DEF Moved
<1>9. Crosses(Wake) /\ mongo' = mongo
    BY DEF Invalidate
<1>10. \A x \in Proc : x # Wake => ((x \in Saving)' <=> x \in Saving)
    BY <1>8, OthersSave
<1>11. Alone' /\ crossed \ {Wake} \subseteq crossed'
    BY <1>0, <1>9, <1>10, Crossing, Others
<1>12. ~(At(Wake, "saved") \/ At(Wake, "mirror"))'
    BY <1>3, <1>6, OneWay DEF At
<1>13. Wrote'
    BY <1>0, <1>8, <1>9, <1>11, <1>12, WroteOthers, Others
<1>14. Copied' /\ ShellRow' /\ Beats'
  <2>1. Aiming'
      BY <1>4, <1>6, Others DEF Aiming
  <2> QED BY <2>1 DEF Copied, ShellRow, Beats, Quiet
<1>15. Awaited'
    BY <1>0, <1>1, <1>6, Others DEF Awaited, At
<1> QED BY <1>7, <1>8, <1>11, <1>13, <1>14, <1>15

LEMMA FaultKeeps ==
    ASSUME IInv, NEW p \in Proc, Fault(p)
    PROVE  Sounds' /\ Moved(p) /\ Alone' /\ Wrote' /\ Copied' /\ ShellRow' /\ Awaited' /\ Beats'
<1>0. Sounds /\ Alone /\ Wrote /\ TypeOK /\ Copied /\ ShellRow /\ Awaited /\ Beats
    BY DEF IInv
<1>1. /\ procs[p].todo # <<>> /\ Head(procs[p].todo) \in {"shell", "write", "mirror", "erase", "load"}
      /\ Finish(p, NoToken) /\ UNCHANGED <<mongo, cache>>
      /\ settled' = (settled /\ ~At(p, "mirror") /\ p # Wake) /\ crossed' = crossed \ {p}
    BY DEF Fault, Busy, At
<1>2. timer' = (timer \/ p = Tick)
    BY DEF Fault
<1>3. (timer => timer') /\ (p = Tick => timer')
    BY <1>2, Zenon
<1>4. /\ Sounds' /\ Moved(p) /\ procs'[p] = Idle
      /\ p = Flight /\ At(Tick, "await") => procs'[Tick].todo = <<"rearm">> /\ procs'[Tick].token = NoToken
    BY <1>0, <1>1, FinishMoves
<1>5. ~At(p, "saved") /\ ~At(p, "saved")' /\ ~At(p, "mirror")' /\ (p \notin Saving)'
    BY <1>1, <1>4, IdleSound DEF At, Saving
<1>6. Alone' /\ Wrote'
    BY <1>0, <1>1, <1>4, <1>5, NotCrossing, WroteOthers
<1>7. Quiet' => Quiet
  <2> SUFFICES ASSUME Quiet', Aiming PROVE FALSE
      BY <1>1 DEF Quiet
  <2>1. ~At(p, "mirror") /\ p # Wake
      BY <1>1 DEF Quiet
  <2>2. Aiming'
      BY <1>1, <1>4, <1>5, <2>1, AimingOthers
  <2> QED BY <2>2 DEF Quiet
<1>8. Alive' <=> Alive
    BY <1>1 DEF Alive, Refreshable
<1>9. Copied'
    BY <1>0, <1>1, <1>3, <1>7, <1>8 DEF Copied
<1>10. \/ procs'[Tick] = procs[Tick]
       \/ p = Tick /\ procs'[Tick].todo = <<>>
       \/ At(Tick, "await") /\ procs'[Tick].todo = <<"rearm">> /\ procs'[Tick].token = NoToken
    BY <1>4, IdleSound DEF Moved
<1>11. ShellRow'
    BY <1>0, <1>1, <1>7, <1>10, BeatTails DEF ShellRow, At
<1>12. Awaited'
  <2> SUFFICES ASSUME At(Tick, "await")' PROVE procs'[Flight].todo # <<>>
      BY DEF Awaited
  <2>1. procs'[Tick] = procs[Tick] /\ At(Tick, "await") /\ p # Flight
      BY <1>4, <1>10, BeatTails DEF At
  <2> QED BY <1>0, <1>4, <2>1 DEF Awaited, Moved
<1>13. Beats'
  <2> SUFFICES ASSUME Quiet', Alive', ~timer' PROVE Owes'
      BY DEF Beats
  <2>1. Owes /\ ~timer /\ p # Tick /\ Quiet /\ Alive
      BY <1>0, <1>3, <1>7, <1>8 DEF Beats
  <2>2. CASE procs'[Tick] = procs[Tick]
      BY <1>1, <2>1, <2>2 DEF Owes, At, Refreshable
  <2>3. CASE procs'[Tick].todo = <<"rearm">> /\ procs'[Tick].token = NoToken
    <3>1. cache \in {NoDoc, mongo} /\ Refreshable(mongo)
        BY <1>0, <2>1 DEF Copied, Alive
    <3>2. cache' = NoDoc \/ Refreshable(cache)'
        BY <1>1, <3>1 DEF Refreshable
    <3>3. At(Tick, "rearm")'
        BY <2>3, BeatTails DEF At
    <3> QED BY <2>3, <3>2, <3>3 DEF Owes
  <2> QED BY <1>10, <2>1, <2>2, <2>3
<1> QED BY <1>4, <1>6, <1>9, <1>11, <1>12, <1>13

LEMMA BootingSound == Sound(Wake, Booting) /\ Booting.todo # <<>> /\ Head(Booting.todo) = "load" /\ Booting \in Process
<1>1. Booting.todo = <<"load">> /\ Plain(Booting.todo) /\ Head(<<"load">>) = "load" /\ Booting \in Process
    BY OneWay, IdleSound DEF Booting, Process, Plain
<1> QED BY <1>1, PlainSound, WakesWay DEF Plain

(* Nothing is under way but the boot.                                         *)
BootingAll == procs = [x \in Proc |-> IF x = Wake THEN Booting ELSE Idle]

LEMMA BootKeeps ==
    BootingAll => Sounds /\ Unbegun /\ Alone /\ Wrote /\ Copied /\ ShellRow /\ Awaited /\ Beats
<1> SUFFICES ASSUME BootingAll
             PROVE  Sounds /\ Unbegun /\ Alone /\ Wrote /\ Copied /\ ShellRow /\ Awaited /\ Beats
    OBVIOUS
<1>1. procs[Wake] = Booting /\ Wake \in Proc /\ \A x \in Proc : x # Wake => procs[x] = Idle
    BY Others DEF BootingAll
<1>2. Sounds
  <2>1. procs \in [Proc -> Process]
      BY BootingSound, IdleSound DEF BootingAll
  <2>2. \A x \in Proc : Sound(x, procs[x])
      BY <1>1, BootingSound, IdleSound
  <2> QED BY <2>1, <2>2 DEF Sounds
<1>3. Unbegun
    BY <1>1, Others DEF Unbegun
<1>4. \A x \in Proc : x # Wake => procs[x].todo = <<>>
    BY <1>1, IdleSound
<1>5. Alone
    BY <1>4 DEF Alone, Saving
<1>6. Wrote
    BY <1>1, <1>4, BootingSound DEF Wrote, At
<1>7. Aiming
    BY <1>1, BootingSound DEF Aiming
<1>8. Copied /\ ShellRow /\ Beats
    BY <1>7 DEF Copied, ShellRow, Beats, Quiet
<1>9. Awaited
    BY <1>4, Others DEF Awaited, At
<1> QED BY <1>2, <1>3, <1>5, <1>6, <1>8, <1>9

LEMMA RestartKeeps ==
    ASSUME Restart
    PROVE  Sounds' /\ Unbegun' /\ Alone' /\ Wrote' /\ Copied' /\ ShellRow' /\ Awaited' /\ Beats'
<1>1. BootingAll'
    BY DEF Restart, BootingAll
<1>2. (BootingAll => Sounds /\ Unbegun /\ Alone /\ Wrote /\ Copied /\ ShellRow /\ Awaited /\ Beats)'
    BY BootKeeps, PTL
<1> QED BY <1>1, <1>2

-----------------------------------------------------------------------------
(* Types.                                                                     *)
RowTyped == mongo \in Doc \cup {NoDoc} /\ cache \in Doc \cup {NoDoc}
FlagsTyped == /\ mirror \in BOOLEAN /\ timer \in BOOLEAN /\ leaving \in BOOLEAN /\ out \in BOOLEAN /\ settled \in BOOLEAN
              /\ crossed \subseteq Proc
OutsideTyped == newest \in [Family -> 1..MaxGrants] /\ spurned \in [Family -> 0..MaxGrants] /\ dead \subseteq Family
CountsTyped == begun \in 0..MaxRequests /\ faults \in 0..MaxFaults

LEMMA TypesOfParts ==
    /\ TypeOK => RowTyped /\ FlagsTyped /\ OutsideTyped /\ CountsTyped
    /\ Sounds /\ RowTyped /\ FlagsTyped /\ OutsideTyped /\ CountsTyped => TypeOK
BY Typed DEF TypeOK, RowTyped, FlagsTyped, OutsideTyped, CountsTyped

LEMMA PatchedDoc ==
    ASSUME NEW p, procs[p].seen \in Doc, procs[p].patch \in Patch
    PROVE  Patched(p) \in Doc
<1>1. DOMAIN Shell = {"token", "status"}
    BY DEF Shell
<1>2. Patched(p) = [f \in {"token", "status"} |-> IF procs[p].patch[f] = Keep THEN procs[p].seen[f] ELSE procs[p].patch[f]]
    BY <1>1 DEF Patched
<1>3. PICK t, s : /\ t = (IF procs[p].patch.token = Keep THEN procs[p].seen.token ELSE procs[p].patch.token)
                  /\ s = (IF procs[p].patch.status = Keep THEN procs[p].seen.status ELSE procs[p].patch.status)
    OBVIOUS
<1>4. t \in Token \cup {NoToken} /\ s \in Status
    BY <1>3 DEF Doc, Patch
<1>5. Patched(p) = [token |-> t, status |-> s]
    BY <1>2, <1>3
<1> QED BY <1>4, <1>5 DEF Doc

LEMMA SaversHold ==
    ASSUME Sounds, NEW p \in Proc, At(p, "write") \/ At(p, "saved") \/ At(p, "mirror")
    PROVE  Patched(p) \in Doc
<1>1. procs[p].seen \in Doc /\ procs[p].patch \in Patch
    BY AtHead, Typed DEF Word, Looking
<1> QED BY <1>1, PatchedDoc

LEMMA RowTypes ==
    ASSUME IInv, Next
    PROVE  RowTyped'
<1>0. Sounds /\ RowTyped
    BY TypesOfParts DEF IInv
<1>1. ASSUME NEW p \in Proc, Found(p) PROVE RowTyped'
    BY <1>0, <1>1, AtHead DEF Found, Word, Looking, RowTyped
<1>2. ASSUME NEW p \in Proc, Write(p) \/ Written(p) PROVE RowTyped'
  <2>1. Patched(p) \in Doc
      BY <1>0, <1>2, SaversHold DEF Write, Written
  <2> QED BY <1>0, <1>2, <2>1 DEF Write, Written, RowTyped
<1>3. ASSUME NEW p \in Proc, InsertShell(p) PROVE RowTyped'
    BY <1>3, Shells DEF InsertShell, RowTyped
<1>4. ASSUME NEW p \in Proc, \/ LoadCached(p) \/ Fresh(p) \/ EnsureDevice(p) \/ Beat(p) \/ Rearm(p)
                             \/ Find(p) \/ Mirror(p) \/ Erase(p) \/ Invalidate(p) \/ Grant(p) \/ Refuse(p) \/ Blip(p)
      PROVE RowTyped'
    BY <1>0, <1>4 DEF LoadCached, Fresh, EnsureDevice, Beat, Rearm, Find, Mirror, Erase, Invalidate, Grant, Refuse, Blip,
                      RowTyped, local
<1>5. ASSUME NEW p \in Proc, Retry(p) \/ GiveUp(p) \/ Answered(p) \/ Unanswered(p) \/ Fault(p) PROVE RowTyped'
    BY <1>0, <1>5 DEF Retry, GiveUp, Answered, Unanswered, Fault, RowTyped, local
<1>6. ASSUME Event PROVE RowTyped'
    BY <1>0, <1>6 DEF Event, SignIn, SignOut, ReactivateDevice, ResolvePlayback, DeletePlaylist, ResetWorkspace, Begin, Beginning,
                      Fire, Restart, Spurn, Revoke, RowTyped, local
<1> QED BY <1>1, <1>2, <1>3, <1>4, <1>5, <1>6 DEF Next, Burst, Answer

LEMMA CountsTypes ==
    ASSUME IInv, Next
    PROVE  CountsTyped'
<1>0. CountsTyped /\ OutsideTyped
    BY TypesOfParts DEF IInv
<1>1. MaxRequests \in Nat /\ MaxFaults \in Nat /\ MaxGrants \in Nat \ {0}
    BY DuloAssumption DEF DuloAssumption
<1>2. begun' = begun \/ (begun < MaxRequests /\ begun' = begun + 1)
    BY DEF Next, Burst, Answer, LoadCached, Fresh, EnsureDevice, Beat, Rearm, Find, Found, InsertShell, Write, Written, Mirror,
           Erase, Invalidate, Grant, Refuse, Blip, Retry, GiveUp, Answered, Unanswered, Fault, counts,
           Event, SignIn, SignOut, ReactivateDevice, ResolvePlayback, DeletePlaylist, ResetWorkspace, Begin, Beginning,
           Fire, Restart, Spurn, Revoke
<1>3. faults' = faults \/ (faults < MaxFaults /\ faults' = faults + 1)
    BY DEF Next, Burst, Answer, LoadCached, Fresh, EnsureDevice, Beat, Rearm, Find, Found, InsertShell, Write, Written, Mirror,
           Erase, Invalidate, Grant, Refuse, Blip, Retry, GiveUp, Answered, Unanswered, Fault, counts,
           Event, SignIn, SignOut, ReactivateDevice, ResolvePlayback, DeletePlaylist, ResetWorkspace, Begin, Beginning,
           Fire, Restart, Spurn, Revoke
<1> QED BY <1>0, <1>1, <1>2, <1>3 DEF CountsTyped

LEMMA OutsideTypes ==
    ASSUME IInv, Next
    PROVE  OutsideTyped'
<1>0. OutsideTyped /\ Sounds /\ MaxGrants \in Nat \ {0}
    BY TypesOfParts, DuloAssumption DEF IInv, DuloAssumption
<1>1. ASSUME NEW p \in Proc, Grant(p) PROVE OutsideTyped'
  <2>1. PICK t : t = procs[p].seen.token
      OBVIOUS
  <2>2. procs[p].seen \in Doc
      BY <1>0, <1>1, AtHead DEF Grant, Word, Looking
  <2>3. /\ t # NoToken /\ newest[t.family] < MaxGrants /\ newest' = [newest EXCEPT ![t.family] = @ + 1]
        /\ UNCHANGED <<spurned, dead>>
      BY <1>1, <2>1 DEF Grant
  <2>4. t \in Token
      BY <2>1, <2>2, <2>3 DEF Doc
  <2>5. t.family \in Family /\ newest[t.family] + 1 \in 1..MaxGrants
      BY <1>0, <2>3, <2>4 DEF Token, OutsideTyped
  <2> QED BY <1>0, <2>3, <2>5 DEF OutsideTyped
<1>2. ASSUME NEW p \in Proc, Refuse(p) PROVE OutsideTyped'
  <2>1. PICK t : t = procs[p].seen.token
      OBVIOUS
  <2>2. procs[p].seen \in Doc
      BY <1>0, <1>2, AtHead DEF Refuse, Word, Looking
  <2>3. t # NoToken => t.family \in Family
      BY <2>1, <2>2 DEF Doc, Token
  <2>4. UNCHANGED <<newest, spurned>> /\ (dead' = dead \/ (t # NoToken /\ dead' = dead \cup {t.family}))
      BY <1>2, <2>1 DEF Refuse
  <2> QED BY <1>0, <2>3, <2>4 DEF OutsideTyped
<1>3. ASSUME NEW f \in Family, Spurn(f) PROVE OutsideTyped'
    BY <1>0, <1>3 DEF Spurn, OutsideTyped
<1>4. ASSUME NEW f \in Family, Revoke(f) PROVE OutsideTyped'
    BY <1>0, <1>4 DEF Revoke, OutsideTyped
<1>5. ASSUME UNCHANGED outside PROVE OutsideTyped'
    BY <1>0, <1>5 DEF OutsideTyped, outside
<1>6. \/ \E p \in Proc : Grant(p) \/ Refuse(p)
      \/ \E f \in Family : Spurn(f) \/ Revoke(f)
      \/ UNCHANGED outside
    BY DEF Next, Burst, Answer, LoadCached, Fresh, EnsureDevice, Beat, Rearm, Find, Found, InsertShell, Write, Written, Mirror,
           Erase, Invalidate, Blip, Retry, GiveUp, Answered, Unanswered, Fault, outside,
           Event, SignIn, SignOut, ReactivateDevice, ResolvePlayback, DeletePlaylist, ResetWorkspace, Begin, Beginning,
           Fire, Restart
<1> QED BY <1>1, <1>2, <1>3, <1>4, <1>5, <1>6

LEMMA CrossesTyped ==
    ASSUME NEW p \in Proc, crossed \subseteq Proc,
           \/ Crosses(p) \/ Saves(p) \/ crossed' \in {crossed, crossed \ {p}, crossed \cup Saving, {}}
           \/ \E isRow : Loads(p, isRow)
    PROVE  crossed' \subseteq Proc
<1>1. Saving \subseteq Proc
    BY DEF Saving
<1>2. ASSUME Crosses(p) PROVE crossed' \subseteq Proc
    BY <1>1, <1>2 DEF Crosses
<1> QED BY <1>1, <1>2 DEF Saves, Loads

LEMMA FlagsTypes ==
    ASSUME IInv, Next
    PROVE  FlagsTyped'
<1>0. FlagsTyped
    BY TypesOfParts DEF IInv
<1>1. crossed' \subseteq Proc
  <2>1. crossed \subseteq Proc
      BY <1>0 DEF FlagsTyped
  <2>2. \/ \E p \in Proc : \/ Crosses(p) \/ Saves(p) \/ crossed' \in {crossed, crossed \ {p}, crossed \cup Saving}
                           \/ \E isRow : Loads(p, isRow)
        \/ crossed' \in {crossed, {}} \/ \E p \in {Wake} : Crosses(p)
      BY DEF Next, Burst, Answer, LoadCached, Fresh, EnsureDevice, Beat, Rearm, Find, Found, InsertShell, Write, Written, Mirror,
             Erase, Invalidate, Grant, Refuse, Blip, Retry, GiveUp, Answered, Unanswered, Fault, history,
             Event, SignIn, SignOut, ReactivateDevice, ResolvePlayback, DeletePlaylist, ResetWorkspace, Begin, Beginning,
             Fire, Restart, Spurn, Revoke
  <2> QED BY <2>1, <2>2, CrossesTyped, Others
<1>2. settled' \in BOOLEAN
  <2>1. settled' = settled \/ \E b \in BOOLEAN : settled' = b
      BY DEF Next, Burst, Answer, LoadCached, Fresh, EnsureDevice, Beat, Rearm, Find, Found, InsertShell, Write, Written, Mirror,
             Erase, Invalidate, Grant, Refuse, Blip, Retry, GiveUp, Answered, Unanswered, Fault, history, Loads, Saves,
             Event, SignIn, SignOut, ReactivateDevice, ResolvePlayback, DeletePlaylist, ResetWorkspace, Begin, Beginning,
             Fire, Restart, Spurn, Revoke
  <2> QED BY <1>0, <2>1 DEF FlagsTyped
<1>3. timer' \in BOOLEAN
    BY <1>0 DEF FlagsTyped, Next, Burst, Answer, LoadCached, Fresh, EnsureDevice, Beat, Rearm, Find, Found, InsertShell, Write, Written, Mirror,
             Erase, Invalidate, Grant, Refuse, Blip, Retry, GiveUp, Answered, Unanswered, Fault, local, Aimed, Refreshable,
             Event, SignIn, SignOut, ReactivateDevice, ResolvePlayback, DeletePlaylist, ResetWorkspace, Begin, Beginning,
             Fire, Restart, Spurn, Revoke
<1>4. mirror' \in BOOLEAN
    BY <1>0 DEF FlagsTyped, Next, Burst, Answer, LoadCached, Fresh, EnsureDevice, Beat, Rearm, Find, Found, InsertShell, Write, Written, Mirror,
             Erase, Invalidate, Grant, Refuse, Blip, Retry, GiveUp, Answered, Unanswered, Fault, local,
             Event, SignIn, SignOut, ReactivateDevice, ResolvePlayback, DeletePlaylist, ResetWorkspace, Begin, Beginning,
             Fire, Restart, Spurn, Revoke
<1>5. leaving' \in BOOLEAN
  <2>1. leaving' = leaving \/ \E b \in BOOLEAN : leaving' = b
      BY DEF Next, Burst, Answer, LoadCached, Fresh, EnsureDevice, Beat, Rearm, Find, Found, InsertShell, Write, Written, Mirror,
             Erase, Invalidate, Grant, Refuse, Blip, Retry, GiveUp, Answered, Unanswered, Fault, history,
             Event, SignIn, SignOut, ReactivateDevice, ResolvePlayback, DeletePlaylist, ResetWorkspace, Begin, Beginning,
             Fire, Restart, Spurn, Revoke
  <2> QED BY <1>0, <2>1 DEF FlagsTyped
<1>6. out' \in BOOLEAN
  <2>1. out' \in {out, FALSE} \/ out' = (out \/ leaving)
      BY DEF Next, Burst, Answer, LoadCached, Fresh, EnsureDevice, Beat, Rearm, Find, Found, InsertShell, Write, Written, Mirror,
             Erase, Invalidate, Grant, Refuse, Blip, Retry, GiveUp, Answered, Unanswered, Fault, history,
             Event, SignIn, SignOut, ReactivateDevice, ResolvePlayback, DeletePlaylist, ResetWorkspace, Begin, Beginning,
             Fire, Restart, Spurn, Revoke
  <2>2. out \in BOOLEAN /\ leaving \in BOOLEAN
      BY <1>0 DEF FlagsTyped
  <2> QED BY <2>1, <2>2
<1> QED BY <1>1, <1>2, <1>3, <1>4, <1>5, <1>6 DEF FlagsTyped

-----------------------------------------------------------------------------
(* The invariant holds from the boot on.                                      *)
LEMMA UnbegunKeeps ==
    ASSUME Sounds, Unbegun, NEW p, Moved(p), p \in Request => procs[p] # Idle, begun' = begun
    PROVE  Unbegun'
BY Others DEF Unbegun, Moved

LEMMA BusyNotIdle ==
    ASSUME NEW p, NEW s, At(p, s)
    PROVE  procs[p] # Idle
BY IdleSound DEF At

Kept == Sounds' /\ Alone' /\ Wrote' /\ Copied' /\ ShellRow' /\ Awaited' /\ Beats'

LEMMA BurstKeeps ==
    ASSUME IInv, NEW p \in Proc, Burst(p)
    PROVE  Kept /\ Unbegun'
<1>0. Sounds /\ Unbegun /\ Alone /\ Wrote /\ TypeOK /\ Copied /\ ShellRow /\ Awaited /\ Beats
    BY DEF IInv
<1>1. procs[p] # Idle /\ begun' = begun
    BY BusyNotIdle DEF Burst, LoadCached, Fresh, EnsureDevice, Beat, Rearm, counts
<1>2. Kept /\ Moved(p)
  <2>1. CASE LoadCached(p)
      BY <2>1, LoadCachedKeeps DEF Kept
  <2>2. CASE Fresh(p) \/ EnsureDevice(p)
    <3>1. Calm(p) /\ Elsewhere
        BY <1>0, <2>2, FreshCalm, EnsureDeviceCalm
    <3> QED BY <1>0, <3>1, CalmKeeps DEF Kept, Calm
  <2>3. CASE Beat(p) \/ Rearm(p)
      BY <2>3, BeatKeeps DEF Kept
  <2> QED BY <2>1, <2>2, <2>3 DEF Burst
<1> QED BY <1>0, <1>1, <1>2, UnbegunKeeps

LEMMA AnswerKeeps ==
    ASSUME IInv, NEW p \in Proc, Answer(p) \/ Fault(p)
    PROVE  Kept /\ Unbegun'
<1>0. Sounds /\ Unbegun /\ Alone /\ Wrote /\ TypeOK /\ Copied /\ ShellRow /\ Awaited /\ Beats
    BY DEF IInv
<1>1. procs[p] # Idle /\ begun' = begun
  <2>1. procs[p] # Idle
    <3>1. CASE Fault(p)
        BY <3>1, IdleSound DEF Fault, Busy
    <3>2. CASE Answer(p)
        BY <3>2, BusyNotIdle DEF Answer, Find, Found, InsertShell, Write, Written, Mirror, Erase, Invalidate, Grant, Refuse, Blip,
                                 Retry, GiveUp, Answered, Unanswered
    <3> QED BY <3>1, <3>2
  <2>2. begun' = begun
      BY DEF Answer, Find, Found, InsertShell, Write, Written, Mirror, Erase, Invalidate, Grant, Refuse, Blip,
             Retry, GiveUp, Answered, Unanswered, Fault, counts
  <2> QED BY <2>1, <2>2
<1>2. CASE Invalidate(p)
  <2>1. Kept /\ Moved(Wake)
      BY <1>2, InvalidateKeeps DEF Kept
  <2>2. Wake \notin Request
      BY Others
  <2> QED BY <1>0, <1>1, <2>1, <2>2, UnbegunKeeps
<1>3. ASSUME ~Invalidate(p) PROVE Kept /\ Moved(p)
  <2>1. CASE Find(p) \/ Found(p) \/ InsertShell(p)
      BY <2>1, FindKeeps, FoundKeeps DEF Kept
  <2>2. CASE Write(p) \/ Written(p) \/ Mirror(p)
      BY <2>2, WriteKeeps, WrittenKeeps, MirrorKeeps DEF Kept
  <2>3. CASE Erase(p) \/ Fault(p)
      BY <2>3, EraseKeeps, FaultKeeps DEF Kept
  <2>4. CASE Grant(p) \/ Refuse(p) \/ Blip(p) \/ Retry(p) \/ GiveUp(p) \/ Answered(p) \/ Unanswered(p)
    <3>1. Calm(p) /\ Elsewhere
        BY <1>0, <2>4, GrantCalm, RetryCalm, AnswerCalm
    <3> QED BY <1>0, <3>1, CalmKeeps DEF Kept, Calm
  <2> QED BY <1>3, <2>1, <2>2, <2>3, <2>4 DEF Answer
<1> QED BY <1>0, <1>1, <1>2, <1>3, UnbegunKeeps

LEMMA EventKeeps ==
    ASSUME IInv, Event
    PROVE  Kept /\ Unbegun'
<1>0. Sounds /\ Unbegun /\ Alone /\ Wrote /\ TypeOK /\ Copied /\ ShellRow /\ Awaited /\ Beats
    BY DEF IInv
<1>1. CASE Begins
  <2>1. /\ begun + 1 \in Request /\ begun' = begun + 1 /\ Calm(begun + 1) /\ Elsewhere
        /\ \A x \in Proc : x # begun + 1 => procs'[x] = procs[x]
      BY <1>0, <1>1, BeginsCalm
  <2>2. begun + 1 \in Proc /\ begun \in Nat /\ \A r \in Request : r \in Proc /\ r \in Nat
      BY <2>1, Others, DuloAssumption DEF IInv, TypeOK, Request, DuloAssumption
  <2>3. Kept
      BY <1>0, <2>1, <2>2, CalmKeeps DEF Kept, Calm
  <2>4. Unbegun'
      BY <1>0, <2>1, <2>2 DEF Unbegun
  <2> QED BY <2>3, <2>4
<1>2. CASE Fire
  <2>1. Kept /\ Moved(Tick) /\ begun' = begun /\ Tick \notin Request
      BY <1>2, FireKeeps, Others DEF Kept, Fire, counts
  <2> QED BY <1>0, <2>1, UnbegunKeeps
<1>3. CASE Restart
    BY <1>3, RestartKeeps DEF Kept
<1>4. CASE \E f \in Family : Spurn(f) \/ Revoke(f)
  <2>1. UNCHANGED <<mongo, mirror, cache, timer, procs, begun, crossed, settled>>
      BY <1>4 DEF Spurn, Revoke, local, history
  <2>2. Sounds' /\ Unbegun'
      BY <1>0, <2>1 DEF Sounds, Unbegun
  <2>3. Alone' /\ Wrote'
      BY <1>0, <2>1 DEF Alone, Wrote, Saving, At, Patched
  <2>4. (Aiming' <=> Aiming) /\ (Owes' <=> Owes) /\ (Alive' <=> Alive)
      BY <2>1 DEF Aiming, Owes, Alive, At, Refreshable
  <2>5. Copied' /\ ShellRow' /\ Awaited' /\ Beats'
      BY <1>0, <2>1, <2>4 DEF Copied, ShellRow, Awaited, Beats, Quiet, At
  <2> QED BY <2>2, <2>3, <2>5 DEF Kept
<1> QED BY <1>1, <1>2, <1>3, <1>4 DEF Event, Begins

LEMMA SessionInitial == Init => IInv
<1> SUFFICES ASSUME Init PROVE IInv
    OBVIOUS
<1>1. BootingAll
    BY DEF Init, BootingAll
<1>2. Sounds /\ Unbegun /\ Alone /\ Wrote /\ Copied /\ ShellRow /\ Awaited /\ Beats
    BY <1>1, BootKeeps
<1>3. RowTyped
    BY DuloAssumption DEF Init, RowTyped, DuloAssumption
<1>4. FlagsTyped
    BY DEF Init, FlagsTyped
<1>5. OutsideTyped /\ CountsTyped
    BY DuloAssumption DEF Init, OutsideTyped, CountsTyped, DuloAssumption
<1> QED BY <1>2, <1>3, <1>4, <1>5, TypesOfParts DEF IInv

LEMMA PartsTyped == (Sounds /\ RowTyped /\ FlagsTyped /\ OutsideTyped /\ CountsTyped => TypeOK)'
BY TypesOfParts, PTL

LEMMA SessionInductive == IInv /\ [Next]_vars => IInv'
<1> SUFFICES ASSUME IInv, [Next]_vars PROVE IInv'
    OBVIOUS
<1>1. CASE Next
  <2>1. Kept /\ Unbegun'
      BY <1>1, BurstKeeps, AnswerKeeps, EventKeeps DEF Next
  <2>2. TypeOK'
      BY <1>1, <2>1, RowTypes, FlagsTypes, OutsideTypes, CountsTypes, PartsTyped DEF Kept
  <2> QED BY <2>1, <2>2 DEF Kept, IInv
<1>2. CASE UNCHANGED vars
  <2>1. /\ UNCHANGED <<mongo, mirror, cache, timer, procs, newest, spurned, dead, begun, faults>>
        /\ UNCHANGED <<leaving, out, crossed, settled>>
      BY <1>2 DEF vars, local, outside, counts
  <2>2. TypeOK' /\ Sounds' /\ Unbegun'
      BY <2>1 DEF IInv, TypeOK, Sounds, Unbegun
  <2>3. Alone' /\ Wrote'
      BY <2>1 DEF IInv, Alone, Wrote, Saving, At, Patched
  <2>4. (Aiming' <=> Aiming) /\ (Owes' <=> Owes) /\ (Alive' <=> Alive)
      BY <2>1 DEF Aiming, Owes, Alive, At, Refreshable
  <2>5. Copied' /\ ShellRow' /\ Awaited' /\ Beats'
      BY <2>1, <2>4 DEF IInv, Copied, ShellRow, Awaited, Beats, Quiet, At
  <2> QED BY <2>2, <2>3, <2>5 DEF IInv
<1> QED BY <1>1, <1>2

-----------------------------------------------------------------------------
(* Signed out: nobody holds a session, and nobody who could bring one back    *)
(* gets as far.  What needs a token comes after "fresh", and stops there.     *)
Gone(d) == d \in {NoDoc, Shell}
Stopped(s) == \A i \in 1..Len(s) :
    /\ s[i] \notin {"need", "await", "needDevice", "grant", "postAgain", "rearm"}
    /\ s[i] \in {"device", "post"} => \E j \in 1..(i - 1) : s[j] = "fresh"
Harmless(q) == Gone(q.seen) /\ q.patch \in {NoPatch, Shell} /\ Stopped(q.todo)
AllHarmless == \A x \in Proc : Harmless(procs[x])
OutInv == out => Gone(mongo) /\ Gone(cache) /\ AllHarmless

(* A sign-out that runs alone.                                                *)
LeaveWay(s) == /\ s # <<>> /\ s[Len(s)] = "mirror"
               /\ \A i \in 1..Len(s) : /\ s[i] \in Loading \cup {"write", "saved", "mirror"}
                                       /\ s[i] = "mirror" => i = Len(s)
Leaver(p) == /\ procs[p].patch = Shell /\ LeaveWay(procs[p].todo)
             /\ At(p, "saved") => mongo = Shell
             /\ At(p, "mirror") => mongo = Shell /\ cache = Shell
LeftAlone(p) == Busy = {p} /\ Leaver(p)
LeavingInv == leaving => \E p \in Request : LeftAlone(p)

LEMMA ShellGone == /\ Gone(Shell) /\ Gone(NoDoc) /\ ~Refreshable(Shell) /\ Shell.token = NoToken
                   /\ \A d \in Doc : Gone(d) => d = Shell
BY DuloAssumption DEF Gone, Refreshable, Shell, DuloAssumption

LEMMA StoppedTail ==
    ASSUME NEW s \in Seq(Word), s # <<>>, Stopped(s), Head(s) # "fresh"
    PROVE  Stopped(Tail(s))
<1>1. PICK t : t = Tail(s)
    OBVIOUS
<1>2. /\ Len(s) \in Nat \ {0} /\ Len(t) = Len(s) - 1 /\ s[1] # "fresh"
      /\ \A i \in 1..(Len(s) - 1) : t[i] = s[i + 1]
    BY <1>1, Tails
<1>3. ASSUME NEW i \in 1..Len(t)
      PROVE  /\ t[i] \notin {"need", "await", "needDevice", "grant", "postAgain", "rearm"}
             /\ t[i] \in {"device", "post"} => \E j \in 1..(i - 1) : t[j] = "fresh"
  <2>1. i + 1 \in 1..Len(s) /\ t[i] = s[i + 1]
      BY <1>2
  <2>2. /\ s[i + 1] \notin {"need", "await", "needDevice", "grant", "postAgain", "rearm"}
        /\ s[i + 1] \in {"device", "post"} => \E j \in 1..i : s[j] = "fresh"
      BY <2>1 DEF Stopped
  <2>3. ASSUME NEW j \in 1..i, s[j] = "fresh" PROVE \E k \in 1..(i - 1) : t[k] = "fresh"
    <3>1. j # 1
        BY <1>2, <2>3
    <3>2. j - 1 \in 1..(i - 1) /\ j - 1 \in 1..(Len(s) - 1) /\ (j - 1) + 1 = j
        BY <1>2, <3>1
    <3>3. t[j - 1] = s[j]
        BY <1>2, <3>2
    <3> QED BY <2>3, <3>2, <3>3
  <2> QED BY <2>1, <2>2, <2>3
<1> QED BY <1>1, <1>3 DEF Stopped

LEMMA StoppedHead ==
    ASSUME NEW s \in Seq(Word), s # <<>>, Stopped(s)
    PROVE  Head(s) \notin {"need", "await", "needDevice", "grant", "postAgain", "rearm", "device", "post"}
<1>1. PICK i \in 1..Len(s) : i = 1 /\ s[i] = Head(s)
    BY Tails
<1>2. /\ s[i] \notin {"need", "await", "needDevice", "grant", "postAgain", "rearm"}
      /\ s[i] \in {"device", "post"} => \E j \in 1..(i - 1) : s[j] = "fresh"
    BY <1>1 DEF Stopped
<1> QED BY <1>1, <1>2

LEMMA StoppedSwap ==
    ASSUME NEW s \in Seq(Word), s # <<>>, Stopped(s), Head(s) # "fresh", NEW w \in {"found", "shell"}
    PROVE  Stopped(<<w>> \o Tail(s))
<1>1. PICK t : t = <<w>> \o Tail(s)
    OBVIOUS
<1>2. /\ Tail(s) \in Seq(Word) /\ Len(s) \in Nat \ {0} /\ Len(Tail(s)) = Len(s) - 1 /\ Head(s) = s[1] /\ w \in Word
      /\ \A i \in 1..(Len(s) - 1) : Tail(s)[i] = s[i + 1]
    BY Tails DEF Word
<1>3. /\ Len(t) = Len(s) /\ t[1] = w /\ \A i \in 1..(Len(s) - 1) : t[i + 1] = s[i + 1]
    BY <1>1, <1>2, Conses
<1>4. \A i \in 2..Len(s) : t[i] = s[i]
  <2> TAKE i \in 2..Len(s)
  <2>1. i - 1 \in 1..(Len(s) - 1) /\ (i - 1) + 1 = i
      BY <1>2
  <2> QED BY <1>3, <2>1
<1>5. ASSUME NEW i \in 1..Len(t)
      PROVE  /\ t[i] \notin {"need", "await", "needDevice", "grant", "postAgain", "rearm"}
             /\ t[i] \in {"device", "post"} => \E j \in 1..(i - 1) : t[j] = "fresh"
  <2>1. CASE i = 1
      BY <1>3, <2>1
  <2>2. CASE i # 1
    <3>1. i \in 1..Len(s) /\ t[i] = s[i]
        BY <1>2, <1>3, <1>4, <2>2
    <3>2. /\ s[i] \notin {"need", "await", "needDevice", "grant", "postAgain", "rearm"}
          /\ s[i] \in {"device", "post"} => \E j \in 1..(i - 1) : s[j] = "fresh"
        BY <3>1 DEF Stopped
    <3>3. \A j \in 1..(i - 1) : s[j] = "fresh" => t[j] = "fresh"
      <4> TAKE j \in 1..(i - 1)
      <4>1. j = 1 \/ j \in 2..Len(s)
          BY <1>2, <3>1
      <4> QED BY <1>2, <1>4, <4>1
    <3> QED BY <3>1, <3>2, <3>3
  <2> QED BY <2>1, <2>2
<1> QED BY <1>1, <1>5 DEF Stopped

LEMMA StoppedConcat ==
    ASSUME NEW s \in Seq(Word), NEW t \in Seq(Word), Stopped(s),
           \A i \in 1..Len(t) : t[i] \notin {"need", "await", "needDevice", "grant", "postAgain", "rearm"},
           Stopped(t) \/ \E j \in 1..Len(s) : s[j] = "fresh"
    PROVE  Stopped(s \o t)
<1>1. PICK c : c = s \o t
    OBVIOUS
<1>2. PICK m \in Nat, n \in Nat : m = Len(s) /\ n = Len(t)
    BY LenProperties
<1>3. /\ c \in Seq(Word) /\ Len(c) = m + n
      /\ \A i \in 1..(m + n) : c[i] = IF i <= m THEN s[i] ELSE t[i - m]
    BY <1>1, <1>2, ConcatProperties
<1>4. \A i \in 1..m : c[i] = s[i]
    BY <1>3
<1>5. \A i \in 1..n : c[m + i] = t[i]
  <2> TAKE i \in 1..n
  <2>1. m + i \in 1..(m + n) /\ ~(m + i <= m) /\ (m + i) - m = i
      BY <1>3
  <2> QED BY <1>3, <2>1
<1>6. ASSUME NEW i \in 1..Len(c)
      PROVE  /\ c[i] \notin {"need", "await", "needDevice", "grant", "postAgain", "rearm"}
             /\ c[i] \in {"device", "post"} => \E j \in 1..(i - 1) : c[j] = "fresh"
  <2>1. CASE i <= m
    <3>1. i \in 1..Len(s) /\ c[i] = s[i]
        BY <1>2, <1>3, <1>4, <2>1
    <3>2. /\ s[i] \notin {"need", "await", "needDevice", "grant", "postAgain", "rearm"}
          /\ s[i] \in {"device", "post"} => \E j \in 1..(i - 1) : s[j] = "fresh"
        BY <3>1 DEF Stopped
    <3>3. \A j \in 1..(i - 1) : c[j] = s[j]
        BY <1>2, <1>4, <3>1
    <3> QED BY <3>1, <3>2, <3>3
  <2>2. CASE i > m
    <3>1. PICK k \in 1..n : m + k = i
        BY <1>3, <2>2
    <3>2. c[i] = t[k] /\ k \in 1..Len(t)
        BY <1>2, <1>5, <3>1
    <3>3. CASE \E j \in 1..Len(s) : s[j] = "fresh"
      <4>1. PICK j \in 1..m : c[j] = "fresh"
          BY <1>2, <1>4, <3>3
      <4>2. j \in 1..(i - 1)
          BY <3>1
      <4> QED BY <3>2, <4>1, <4>2
    <3>4. CASE Stopped(t)
      <4>1. t[k] \in {"device", "post"} => \E j \in 1..(k - 1) : t[j] = "fresh"
          BY <3>2, <3>4 DEF Stopped
      <4>2. \A j \in 1..(k - 1) : m + j \in 1..(i - 1) /\ c[m + j] = t[j]
          BY <1>5, <3>1
      <4> QED BY <3>2, <4>1, <4>2
    <3> QED BY <3>3, <3>4
  <2> QED BY <1>3, <2>1, <2>2
<1> QED BY <1>1, <1>6 DEF Stopped

LEMMA StoppedSave ==
    ASSUME NEW patch \in Patch
    PROVE  Stopped(Save(patch))
<1>1. PICK s : s = Save(patch)
    OBVIOUS
<1>2. \A i \in 1..Len(s) : s[i] \in Loading \cup {"write", "saved", "mirror"}
    BY <1>1, SaveOrder
<1> QED BY <1>1, <1>2 DEF Stopped, Loading

LEMMA StoppedRenew == Stopped(Renew) /\ \E j \in 1..Len(Renew) : Renew[j] = "fresh"
<1>1. PICK s : s = Renew
    OBVIOUS
<1>2. Len(s) = 4 /\ s[1] = "load" /\ s[2] = "fresh" /\ s[3] = "load" /\ s[4] = "device"
    BY <1>1 DEF Renew
<1>3. \A i \in 1..Len(s) : i = 1 \/ i = 2 \/ i = 3 \/ i = 4
    BY <1>2
<1>4. 2 \in 1..(4 - 1) /\ 2 \in 1..Len(s)
    BY <1>2
<1>5. Stopped(s)
    BY <1>2, <1>3, <1>4 DEF Stopped
<1> QED BY <1>1, <1>2, <1>4, <1>5

LEMMA StoppedShort ==
    ASSUME NEW a \in {"load", "erase"}, NEW b \in {"beat", "invalidate"}
    PROVE  Stopped(<<>>) /\ Stopped(<<a>>) /\ Stopped(<<a, b>>)
<1>1. Stopped(<<>>)
    BY DEF Stopped
<1>2. PICK s, t : s = <<a>> /\ t = <<a, b>>
    OBVIOUS
<1>3. Len(s) = 1 /\ s[1] = a /\ Len(t) = 2 /\ t[1] = a /\ t[2] = b
    BY <1>2
<1>4. (\A i \in 1..Len(s) : i = 1) /\ (\A i \in 1..Len(t) : i = 1 \/ i = 2)
    BY <1>3
<1>5. Stopped(s) /\ Stopped(t)
    BY <1>3, <1>4 DEF Stopped
<1> QED BY <1>1, <1>2, <1>5

LEMMA StoppedPlay == Stopped(Renew \o <<"load", "post">>)
<1>1. PICK s, t : s = Renew /\ t = <<"load", "post">>
    OBVIOUS
<1>2. s \in Seq(Word) /\ t \in Seq(Word) /\ Stopped(s) /\ \E j \in 1..Len(s) : s[j] = "fresh"
    BY <1>1, StoppedRenew, RenewWay, TwoWays DEF Plain
<1>3. \A i \in 1..Len(t) : t[i] \notin {"need", "await", "needDevice", "grant", "postAgain", "rearm"}
  <2>1. Len(t) = 2 /\ t[1] = "load" /\ t[2] = "post"
      BY <1>1
  <2>2. \A i \in 1..Len(t) : i = 1 \/ i = 2
      BY <2>1
  <2> QED BY <2>1, <2>2
<1>4. Stopped(s \o t)
    BY <1>2, <1>3, StoppedConcat
<1> QED BY <1>1, <1>4

LEMMA StoppedSaveRenew ==
    ASSUME NEW patch \in Patch
    PROVE  Stopped(Save(patch) \o Renew)
<1>1. PICK s, t : s = Save(patch) /\ t = Renew
    OBVIOUS
<1>2. s \in Seq(Word) /\ t \in Seq(Word) /\ Stopped(s) /\ Stopped(t)
    BY <1>1, StoppedRenew, StoppedSave, SaveOrder, RenewWay DEF Plain
<1>3. \A i \in 1..Len(t) : t[i] \notin {"need", "await", "needDevice", "grant", "postAgain", "rearm"}
    BY <1>2 DEF Stopped
<1>4. Stopped(s \o t)
    BY <1>2, <1>3, StoppedConcat
<1> QED BY <1>1, <1>4

LEMMA HarmlessIdle == Harmless(Idle) /\ Harmless(Booting)
<1>1. Stopped(<<>>) /\ Stopped(<<"load">>)
    BY StoppedShort
<1>2. Idle.todo = <<>> /\ Idle.seen = NoDoc /\ Idle.patch = NoPatch
    BY DEF Idle
<1>3. Booting.todo = <<"load">> /\ Booting.seen = NoDoc /\ Booting.patch = NoPatch
    BY DEF Booting, Idle
<1> QED BY <1>1, <1>2, <1>3, ShellGone DEF Harmless

LEMMA HarmlessFinish ==
    ASSUME Sounds, AllHarmless, NEW p \in Proc, NEW t, Finish(p, t)
    PROVE  AllHarmless'
<1>1. ASSUME NEW x \in Proc PROVE ~Waits(x, p)
  <2>1. procs[x].todo # <<>> => Head(procs[x].todo) \notin {"need", "await", "needDevice"}
      BY Typed, StoppedHead DEF AllHarmless, Harmless
  <2> QED BY <2>1 DEF Waits, At
<1>2. \A x \in Proc : procs'[x] = IF x = p THEN Idle ELSE procs[x]
    BY <1>1 DEF Finish, Resumed
<1> QED BY <1>2, HarmlessIdle DEF AllHarmless

LEMMA HarmlessPut ==
    ASSUME Sounds, AllHarmless, NEW p \in Proc, NEW q, Harmless(q), procs' = [procs EXCEPT ![p] = q]
    PROVE  AllHarmless'
<1>1. \A x \in Proc : procs'[x] = IF x = p THEN q ELSE procs[x]
    BY DEF Sounds
<1> QED BY <1>1 DEF AllHarmless

LEMMA HarmlessGo ==
    ASSUME Sounds, AllHarmless, NEW p \in Proc, NEW q, q.todo # <<>> => Harmless(q), Go(p, q)
    PROVE  AllHarmless'
<1>1. CASE q.todo = <<>>
    BY <1>1, HarmlessFinish DEF Go
<1>2. CASE q.todo # <<>>
    BY <1>2, HarmlessPut DEF Go
<1> QED BY <1>1, <1>2

LEMMA HarmlessAt ==
    ASSUME Sounds, AllHarmless, NEW p \in Proc, NEW s \in Word, At(p, s)
    PROVE  /\ s \notin {"need", "await", "needDevice", "grant", "postAgain", "rearm", "device", "post"}
           /\ s \in Looking => procs[p].seen = Shell
           /\ s # "fresh" => Stopped(Rest(p))
           /\ procs[p].todo # <<>> /\ procs[p].todo \in Seq(Word) /\ Head(procs[p].todo) = s /\ Stopped(procs[p].todo)
           /\ Gone(procs[p].seen) /\ procs[p].patch \in {NoPatch, Shell}
<1>1. /\ procs[p].todo # <<>> /\ Head(procs[p].todo) = s /\ procs[p].todo \in Seq(Word) /\ Stopped(procs[p].todo)
      /\ Gone(procs[p].seen) /\ procs[p].patch \in {NoPatch, Shell}
    BY Typed DEF AllHarmless, Harmless, At
<1>2. s \in Looking => procs[p].seen \in Doc
    BY AtHead
<1> QED BY <1>1, <1>2, StoppedHead, StoppedTail, ShellGone DEF Rest

LEMMA ShellPatched ==
    ASSUME NEW p, procs[p].patch = Shell \/ (procs[p].patch = NoPatch /\ procs[p].seen = Shell)
    PROVE  Patched(p) = Shell
<1>1. DOMAIN Shell = {"token", "status"} /\ Shell.token = NoToken /\ Shell.status = "signed_out"
    BY DEF Shell
<1>2. NoToken # Keep /\ "signed_out" # Keep
    BY DuloAssumption DEF DuloAssumption, Status
<1>3. Patched(p) = [f \in {"token", "status"} |-> IF procs[p].patch[f] = Keep THEN procs[p].seen[f] ELSE procs[p].patch[f]]
    BY <1>1 DEF Patched
<1>4. PICK t, s : /\ t = (IF procs[p].patch.token = Keep THEN procs[p].seen.token ELSE procs[p].patch.token)
                  /\ s = (IF procs[p].patch.status = Keep THEN procs[p].seen.status ELSE procs[p].patch.status)
    OBVIOUS
<1>5. t = NoToken /\ s = "signed_out"
    BY <1>1, <1>2, <1>4 DEF NoPatch
<1>6. Patched(p) = [token |-> t, status |-> s]
    BY <1>3, <1>4
<1> QED BY <1>5, <1>6 DEF Shell

(* The row and the copy hold no session, and nobody will bring one.           *)
OutKept == Gone(mongo') /\ Gone(cache') /\ AllHarmless'

LEMMA OutAdvance ==
    ASSUME Sounds, AllHarmless, NEW p \in Proc, NEW s \in Word, At(p, s), s # "fresh", Advance(p)
    PROVE  AllHarmless'
<1>1. PICK r : r = [procs[p] EXCEPT !.todo = Tail(@)]
    OBVIOUS
<1>2. procs[p] \in Process /\ Stopped(Rest(p)) /\ Gone(procs[p].seen) /\ procs[p].patch \in {NoPatch, Shell}
    BY HarmlessAt, Typed
<1>3. r.todo = Rest(p) /\ r.seen = procs[p].seen /\ r.patch = procs[p].patch
    BY <1>1, <1>2 DEF Process, Rest
<1>4. Harmless(r)
    BY <1>2, <1>3 DEF Harmless
<1>5. Go(p, r)
    BY <1>1 DEF Advance
<1> QED BY <1>4, <1>5, HarmlessGo

LEMMA OutSaveOver ==
    ASSUME Sounds, AllHarmless, NEW p \in Proc, NEW s \in Word, At(p, s), s # "fresh", SaveOver(p)
    PROVE  AllHarmless'
<1>1. PICK r : r = [Idle EXCEPT !.token = procs[p].token, !.todo = Rest(p)]
    OBVIOUS
<1>2. Stopped(Rest(p))
    BY HarmlessAt
<1>3. r.todo = Rest(p) /\ r.seen = NoDoc /\ r.patch = NoPatch
    BY <1>1 DEF Idle
<1>4. Harmless(r)
    BY <1>2, <1>3, ShellGone DEF Harmless
<1>5. Go(p, r)
    BY <1>1 DEF SaveOver
<1> QED BY <1>4, <1>5, HarmlessGo

LEMMA OutBurst ==
    ASSUME IInv, Gone(mongo), Gone(cache), AllHarmless, NEW p \in Proc, Burst(p)
    PROVE  OutKept
<1>0. Sounds /\ TypeOK
    BY DEF IInv
<1>1. CASE LoadCached(p)
  <2>1. cache = Shell /\ Stopped(Rest(p)) /\ procs[p] \in Process /\ procs[p].patch \in {NoPatch, Shell}
      BY <1>0, <1>1, HarmlessAt, Typed DEF LoadCached, Gone, Word
  <2>2. PICK r : r = [procs[p] EXCEPT !.seen = cache, !.todo = Rest(p)]
      OBVIOUS
  <2>3. r.todo = Rest(p) /\ r.seen = cache /\ r.patch = procs[p].patch
      BY <2>1, <2>2 DEF Process
  <2>4. Harmless(r)
      BY <2>1, <2>3, ShellGone DEF Harmless
  <2>5. Go(p, r) /\ UNCHANGED <<mongo, cache>>
      BY <1>1, <2>2 DEF LoadCached
  <2> QED BY <1>0, <2>4, <2>5, HarmlessGo DEF OutKept
<1>2. CASE Fresh(p)
  <2>1. procs[p].seen.token = NoToken
      BY <1>0, <1>2, HarmlessAt, ShellGone DEF Fresh, Word, Looking
  <2>2. Finish(p, NoToken) /\ UNCHANGED <<mongo, cache>>
      BY <1>2, <2>1 DEF Fresh, local
  <2> QED BY <1>0, <2>2, HarmlessFinish DEF OutKept
<1>3. CASE Beat(p)
  <2>1. ~Refreshable(procs[p].seen)
      BY <1>0, <1>3, HarmlessAt, ShellGone DEF Beat, Word, Looking
  <2>2. Finish(p, NoToken) /\ UNCHANGED <<mongo, cache>>
      BY <1>3, <2>1 DEF Beat
  <2> QED BY <1>0, <2>2, HarmlessFinish DEF OutKept
<1>4. ~EnsureDevice(p) /\ ~Rearm(p)
    BY <1>0, HarmlessAt DEF EnsureDevice, Rearm, Word
<1> QED BY <1>1, <1>2, <1>3, <1>4 DEF Burst

LEMMA OutFind ==
    ASSUME IInv, Gone(mongo), Gone(cache), AllHarmless, NEW p \in Proc, Find(p)
    PROVE  OutKept
<1>0. Sounds
    BY DEF IInv
<1>1. /\ procs[p] \in Process /\ procs[p].todo \in Seq(Word) /\ procs[p].todo # <<>> /\ Stopped(procs[p].todo)
      /\ Head(procs[p].todo) = "load" /\ procs[p].patch \in {NoPatch, Shell}
    BY <1>0, HarmlessAt, Typed DEF Find, Word
<1>2. PICK w \in {"found", "shell"} : w = (IF mongo = NoDoc THEN "shell" ELSE "found")
    OBVIOUS
<1>3. PICK d : d = (IF mongo = NoDoc THEN Shell ELSE mongo)
    OBVIOUS
<1>4. PICK t : t = <<w>> \o Rest(p)
    OBVIOUS
<1>5. PICK r : r = [procs[p] EXCEPT !.seen = d, !.todo = t]
    OBVIOUS
<1>6. Stopped(t)
    BY <1>1, <1>4, StoppedSwap DEF Rest
<1>7. r.todo = t /\ r.seen = d /\ r.patch = procs[p].patch
    BY <1>1, <1>5 DEF Process
<1>8. Gone(d)
    BY <1>3, ShellGone
<1>9. Harmless(r)
    BY <1>1, <1>6, <1>7, <1>8 DEF Harmless
<1>10. Go(p, r) /\ UNCHANGED <<mongo, cache>>
    BY <1>2, <1>3, <1>4, <1>5 DEF Find, local
<1> QED BY <1>0, <1>9, <1>10, HarmlessGo DEF OutKept

LEMMA OutSave ==
    ASSUME IInv, Gone(mongo), Gone(cache), AllHarmless, NEW p \in Proc, Write(p) \/ Written(p) \/ Mirror(p)
    PROVE  OutKept
<1>0. Sounds
    BY DEF IInv
<1>1. PICK s \in {"write", "saved", "mirror"} : At(p, s)
    BY DEF Write, Written, Mirror
<1>2. s \in Word /\ s \in Looking /\ s # "fresh"
    BY <1>1 DEF Word, Looking
<1>3. procs[p].seen = Shell /\ procs[p].patch \in {NoPatch, Shell}
    BY <1>0, <1>1, <1>2, HarmlessAt
<1>4. Patched(p) = Shell
    BY <1>3, ShellPatched
<1>5. Gone(mongo') /\ Gone(cache')
    BY <1>4, ShellGone DEF Write, Written, Mirror
<1>6. Advance(p) \/ SaveOver(p)
    BY DEF Write, Written, Mirror
<1>7. AllHarmless'
    BY <1>0, <1>1, <1>2, <1>6, OutAdvance, OutSaveOver
<1> QED BY <1>5, <1>7 DEF OutKept

LEMMA OutErase ==
    ASSUME IInv, Gone(mongo), Gone(cache), AllHarmless, NEW p \in Proc,
           Found(p) \/ InsertShell(p) \/ Erase(p)
    PROVE  OutKept
<1>0. Sounds
    BY DEF IInv
<1>1. PICK s \in {"found", "shell", "erase"} : At(p, s)
    BY DEF Found, InsertShell, Erase
<1>2. s \in Word /\ s # "fresh"
    BY <1>1 DEF Word
<1>3. Gone(procs[p].seen)
    BY <1>0, <1>1, <1>2, HarmlessAt
<1>4. Gone(mongo') /\ Gone(cache')
    BY <1>3, ShellGone DEF Found, InsertShell, Erase
<1>5. Advance(p)
    BY DEF Found, InsertShell, Erase
<1>6. AllHarmless'
    BY <1>0, <1>1, <1>2, <1>5, OutAdvance
<1> QED BY <1>4, <1>6 DEF OutKept

LEMMA OutAnswer ==
    ASSUME IInv, Gone(mongo), Gone(cache), AllHarmless, NEW p \in Proc, Answer(p) \/ Fault(p)
    PROVE  OutKept
<1>0. Sounds
    BY DEF IInv
<1>1. CASE Invalidate(p)
  <2>1. PICK h : h = [Idle EXCEPT !.todo = <<"load">>]
      OBVIOUS
  <2>2. h = Booting
      BY <2>1 DEF Booting
  <2>3. procs' = [procs EXCEPT ![p] = Idle, ![Wake] = h] /\ cache' = NoDoc /\ mongo' = mongo
      BY <1>1, <2>1 DEF Invalidate
  <2>4. \A x \in Proc : procs'[x] \in {procs[x], Idle, h}
      BY <1>0, <2>3 DEF Sounds
  <2>5. AllHarmless'
      BY <2>2, <2>4, HarmlessIdle DEF AllHarmless
  <2> QED BY <2>3, <2>5, ShellGone DEF OutKept
<1>2. CASE Fault(p)
  <2>1. Finish(p, NoToken) /\ UNCHANGED <<mongo, cache>>
      BY <1>2 DEF Fault
  <2> QED BY <1>0, <2>1, HarmlessFinish DEF OutKept
<1>3. ~(Grant(p) \/ Refuse(p) \/ Blip(p) \/ Retry(p) \/ GiveUp(p) \/ Answered(p) \/ Unanswered(p))
  <2>1. \A s \in {"grant", "post", "postAgain"} : s \in Word
      BY DEF Word
  <2>2. ~At(p, "grant") /\ ~At(p, "post") /\ ~At(p, "postAgain")
      BY <1>0, <2>1, HarmlessAt
  <2> QED BY <2>2 DEF Grant, Refuse, Blip, Retry, GiveUp, Answered, Unanswered
<1> QED BY <1>1, <1>2, <1>3, OutFind, OutSave, OutErase DEF Answer

LEMMA OutBegins ==
    ASSUME IInv, Gone(mongo), Gone(cache), AllHarmless, Begins, ~\E f \in Family : SignIn(f)
    PROVE  OutKept
<1>0. Sounds /\ TypeOK /\ Unbegun
    BY DEF IInv
<1>1. begun + 1 \in Proc /\ UNCHANGED <<mongo, cache>>
    BY <1>0, BeginsCalm, Others DEF local
<1>2. ASSUME NEW q, Harmless(q), Beginning(q)
      PROVE  OutKept
  <2>1. procs' = [procs EXCEPT ![begun + 1] = q]
      BY <1>2 DEF Beginning
  <2> QED BY <1>0, <1>1, <1>2, <2>1, HarmlessPut DEF OutKept
<1>3. ASSUME NEW q, Stopped(q.todo), q.patch \in {NoPatch, Shell}, q.seen = NoDoc
      PROVE  Harmless(q)
    BY <1>3, ShellGone DEF Harmless
<1>4. CASE SignOut
  <2>1. PICK q : q = [Idle EXCEPT !.patch = Shell, !.todo = Save(Shell)]
      OBVIOUS
  <2>2. Stopped(Save(Shell))
      BY StoppedSave, Shells
  <2>3. Harmless(q)
    <3>1. q.todo = Save(Shell) /\ q.patch = Shell /\ q.seen = NoDoc
        BY <2>1 DEF Idle
    <3> QED BY <1>3, <2>2, <3>1
  <2>4. Beginning(q)
      BY <1>4, <2>1 DEF SignOut
  <2> QED BY <1>2, <2>3, <2>4
<1>5. ASSUME NEW todo, Stopped(todo), Begin([Idle EXCEPT !.todo = todo])
      PROVE  OutKept
  <2>1. PICK q : q = [Idle EXCEPT !.todo = todo]
      OBVIOUS
  <2>2. q.todo = todo /\ q.patch = NoPatch /\ q.seen = NoDoc
      BY <2>1 DEF Idle
  <2>3. Harmless(q)
      BY <1>3, <1>5, <2>2
  <2>4. Beginning(q)
      BY <1>5, <2>1 DEF Begin
  <2> QED BY <1>2, <2>3, <2>4
<1>6. CASE ReactivateDevice
    BY <1>5, <1>6, StoppedSaveRenew, Shells DEF ReactivateDevice
<1>7. CASE ResolvePlayback
    BY <1>5, <1>7, StoppedPlay DEF ResolvePlayback
<1>8. CASE DeletePlaylist \/ ResetWorkspace
  <2>1. Stopped(<<"erase">>) /\ Stopped(<<"erase", "invalidate">>)
      BY StoppedShort
  <2>2. PICK todo : Stopped(todo) /\ Begin([Idle EXCEPT !.todo = todo])
      BY <1>8, <2>1 DEF DeletePlaylist, ResetWorkspace
  <2> QED BY <1>5, <2>2
<1> QED BY <1>4, <1>6, <1>7, <1>8 DEF Begins

LEMMA OutEvent ==
    ASSUME IInv, Gone(mongo), Gone(cache), AllHarmless, Event, out'
    PROVE  OutKept
<1>0. Sounds
    BY DEF IInv
<1>1. CASE Begins
    BY <1>1, OutBegins DEF SignIn
<1>2. CASE Fire
  <2>1. PICK q : q = [Idle EXCEPT !.todo = <<"load", "beat">>]
      OBVIOUS
  <2>2. q.todo = <<"load", "beat">> /\ q.patch = NoPatch /\ q.seen = NoDoc
      BY <2>1 DEF Idle
  <2>3. Stopped(<<"load", "beat">>)
      BY StoppedShort
  <2>4. Harmless(q)
      BY <2>2, <2>3, ShellGone DEF Harmless
  <2>5. procs' = [procs EXCEPT ![Tick] = q] /\ cache' = NoDoc /\ mongo' = mongo
      BY <1>2, <2>1 DEF Fire
  <2> QED BY <1>0, <2>4, <2>5, Others, HarmlessPut, ShellGone DEF OutKept
<1>3. CASE Restart
  <2>1. \A x \in Proc : procs'[x] \in {Idle, Booting}
      BY <1>3 DEF Restart
  <2>2. cache' = NoDoc /\ mongo' = mongo
      BY <1>3 DEF Restart
  <2> QED BY <2>1, <2>2, HarmlessIdle, ShellGone DEF OutKept, AllHarmless
<1>4. CASE \E f \in Family : Spurn(f) \/ Revoke(f)
  <2>1. UNCHANGED <<mongo, cache, procs>>
      BY <1>4 DEF Spurn, Revoke, local
  <2> QED BY <2>1 DEF OutKept, AllHarmless
<1> QED BY <1>1, <1>2, <1>3, <1>4 DEF Event, Begins

-----------------------------------------------------------------------------
(* The sign-out that runs alone to its end.                                   *)

LEMMA LeaveTail ==
    ASSUME NEW s \in Seq(Word), LeaveWay(s), Head(s) # "mirror"
    PROVE  Tail(s) # <<>> /\ LeaveWay(Tail(s))
<1>1. PICK t : t = Tail(s)
    OBVIOUS
<1>2. s # <<>> /\ Len(s) \in Nat \ {0} /\ Len(t) = Len(s) - 1 /\ Head(s) = s[1] /\ t \in Seq(Word)
      /\ \A i \in 1..(Len(s) - 1) : t[i] = s[i + 1]
    BY <1>1, Tails DEF LeaveWay
<1>3. Len(s) # 1
    BY <1>2 DEF LeaveWay
<1>4. t # <<>>
    BY <1>2, <1>3, EmptySeq
<1>5. Len(s) - 1 \in 1..(Len(s) - 1) /\ (Len(s) - 1) + 1 = Len(s)
    BY <1>2, <1>3
<1>6. t[Len(t)] = "mirror"
    BY <1>2, <1>5 DEF LeaveWay
<1>7. ASSUME NEW i \in 1..Len(t)
      PROVE  t[i] \in Loading \cup {"write", "saved", "mirror"} /\ (t[i] = "mirror" => i = Len(t))
  <2>1. i + 1 \in 1..Len(s) /\ t[i] = s[i + 1]
      BY <1>2
  <2>2. s[i + 1] \in Loading \cup {"write", "saved", "mirror"} /\ (s[i + 1] = "mirror" => i + 1 = Len(s))
      BY <2>1 DEF LeaveWay
  <2> QED BY <1>2, <2>1, <2>2
<1> QED BY <1>1, <1>4, <1>6, <1>7 DEF LeaveWay

LEMMA LeaveSwap ==
    ASSUME NEW s \in Seq(Word), LeaveWay(s), Head(s) # "mirror", NEW w \in {"found", "shell"}
    PROVE  LeaveWay(<<w>> \o Tail(s)) /\ Head(<<w>> \o Tail(s)) = w
<1>1. PICK t, c : t = Tail(s) /\ c = <<w>> \o t
    OBVIOUS
<1>2. t # <<>> /\ LeaveWay(t) /\ t \in Seq(Word) /\ Len(t) \in Nat \ {0} /\ w \in Word
    BY <1>1, LeaveTail, Tails, EmptySeq DEF LeaveWay, Word
<1>3. /\ Len(c) = Len(t) + 1 /\ c[1] = w /\ \A i \in 1..Len(t) : c[i + 1] = t[i]
      /\ Head(c) = w /\ c # <<>>
    BY <1>1, <1>2, Conses
<1>4. c[Len(c)] = "mirror"
    BY <1>2, <1>3 DEF LeaveWay
<1>5. ASSUME NEW i \in 1..Len(c)
      PROVE  c[i] \in Loading \cup {"write", "saved", "mirror"} /\ (c[i] = "mirror" => i = Len(c))
  <2>1. CASE i = 1
      BY <1>3, <2>1 DEF Loading
  <2>2. CASE i # 1
    <3>1. i - 1 \in 1..Len(t) /\ (i - 1) + 1 = i
        BY <1>2, <1>3, <2>2
    <3>2. PICK k \in 1..Len(t) : k + 1 = i
        BY <3>1
    <3>3. c[i] = t[k]
        BY <1>3, <3>2
    <3>4. t[k] \in Loading \cup {"write", "saved", "mirror"} /\ (t[k] = "mirror" => k = Len(t))
        BY <1>2 DEF LeaveWay
    <3>5. k = Len(t) => i = Len(c)
        BY <1>2, <1>3, <3>2
    <3> QED BY <3>3, <3>4, <3>5
  <2> QED BY <2>1, <2>2
<1> QED BY <1>1, <1>3, <1>4, <1>5 DEF LeaveWay

LEMMA LeaveHead ==
    ASSUME NEW s \in Seq(Word), LeaveWay(s)
    PROVE  /\ s # <<>> /\ Head(s) \in Loading \cup {"write", "saved", "mirror"}
           /\ Head(s) = "mirror" => Tail(s) = <<>>
<1>1. s # <<>> /\ Len(s) \in Nat \ {0} /\ Len(Tail(s)) = Len(s) - 1 /\ Head(s) = s[1] /\ Tail(s) \in Seq(Word)
    BY Tails DEF LeaveWay
<1>2. PICK i \in 1..Len(s) : i = 1
    BY <1>1
<1>3. s[i] \in Loading \cup {"write", "saved", "mirror"} /\ (s[i] = "mirror" => i = Len(s))
    BY <1>2 DEF LeaveWay
<1>4. Len(s) = 1 => Len(Tail(s)) = 0
    BY <1>1
<1> QED BY <1>1, <1>2, <1>3, <1>4, EmptySeq

LEMMA LeaveOthers ==
    ASSUME Sounds, NEW p \in Request, Busy = {p}
    PROVE  /\ p \in Proc /\ p # Wake /\ \A x \in Proc : x # p => procs[x] = Idle /\ procs[x].todo = <<>>
           /\ \A x \in Proc : \A s : At(x, s) => x = p
<1>1. \A x \in Proc : x # p => procs[x].todo = <<>>
    BY DEF Busy
<1> QED BY <1>1, Typed, Others DEF At

LEMMA LeavePut ==
    ASSUME Sounds, NEW p \in Request, Busy = {p}, NEW q, procs' = [procs EXCEPT ![p] = q],
           q.patch = Shell, LeaveWay(q.todo),
           Head(q.todo) = "saved" => mongo' = Shell,
           Head(q.todo) = "mirror" => mongo' = Shell /\ cache' = Shell
    PROVE  LeftAlone(p)'
<1>1. p \in Proc /\ procs'[p] = q /\ \A x \in Proc : x # p => procs'[x] = procs[x]
    BY Others DEF Sounds
<1>2. q.todo # <<>>
    BY DEF LeaveWay
<1>3. Busy' = {p}
    BY <1>1, <1>2 DEF Busy
<1>4. Leaver(p)'
    BY <1>1 DEF Leaver, At
<1> QED BY <1>3, <1>4 DEF LeftAlone

LEMMA LeaveGo ==
    ASSUME Sounds, NEW p \in Request, LeftAlone(p), NEW q \in Process, Go(p, q),
           q.patch = Shell, LeaveWay(q.todo),
           Head(q.todo) = "saved" => mongo' = Shell,
           Head(q.todo) = "mirror" => mongo' = Shell /\ cache' = Shell
    PROVE  LeftAlone(p)'
<1>1. procs' = [procs EXCEPT ![p] = q] /\ Busy = {p}
    BY DEF Go, LeaveWay, LeftAlone
<1> QED BY <1>1, LeavePut

LEMMA LeaverIs ==
    ASSUME Sounds, NEW p \in Request, LeftAlone(p)
    PROVE  /\ procs[p] \in Process /\ procs[p].todo \in Seq(Word) /\ LeaveWay(procs[p].todo) /\ procs[p].patch = Shell
           /\ procs[p].todo # <<>> /\ Head(procs[p].todo) \in Loading \cup {"write", "saved", "mirror"}
           /\ Head(procs[p].todo) # "mirror" => Rest(p) # <<>> /\ LeaveWay(Rest(p)) /\ Rest(p) \in Seq(Word)
           /\ Head(procs[p].todo) = "mirror" => Rest(p) = <<>>
           /\ Head(procs[p].todo) \in Loading => Head(Rest(p)) \notin {"saved", "mirror", "found", "shell"}
           /\ Head(procs[p].todo) = "write" => Head(Rest(p)) = "saved"
           /\ Head(procs[p].todo) = "saved" => Head(Rest(p)) = "mirror"
           /\ Patched(p) = Shell
<1>1. procs[p] \in Process /\ procs[p].todo \in Seq(Word) /\ LeaveWay(procs[p].todo) /\ procs[p].patch = Shell
      /\ InOrder(procs[p].todo) /\ Mirrored(procs[p].todo, procs[p].patch.status) /\ procs[p].patch.status # Keep
    BY Typed, Others, Shells DEF LeftAlone, Leaver
<1>2. PICK s : s = procs[p].todo
    OBVIOUS
<1>3. s # <<>> /\ Head(s) \in Loading \cup {"write", "saved", "mirror"} /\ (Head(s) = "mirror" => Tail(s) = <<>>)
    BY <1>1, <1>2, LeaveHead
<1>4. Head(s) # "mirror" => Tail(s) # <<>> /\ LeaveWay(Tail(s)) /\ Tail(s) \in Seq(Word)
    BY <1>1, <1>2, <1>3, LeaveTail, Tails
<1>5. Head(s) \in Loading => Head(Tail(s)) \notin {"saved", "mirror", "found", "shell"}
    BY <1>1, <1>2, <1>3, <1>4, LoadedNext DEF Loading
<1>6. /\ Head(s) = "write" => Head(Tail(s)) = "saved"
      /\ Head(s) = "saved" => Head(Tail(s)) = "mirror"
    BY <1>1, <1>2, <1>3, SaveNext
<1>7. Patched(p) = Shell
    BY <1>1, ShellPatched
<1> QED BY <1>1, <1>2, <1>3, <1>4, <1>5, <1>6, <1>7 DEF Rest

LEMMA LeaveLoads ==
    ASSUME Sounds, TypeOK, NEW p \in Request, LeftAlone(p), LoadCached(p) \/ Find(p)
    PROVE  LeftAlone(p)'
<1>1. /\ procs[p] \in Process /\ procs[p].todo \in Seq(Word) /\ LeaveWay(procs[p].todo) /\ procs[p].patch = Shell
      /\ Head(procs[p].todo) = "load" /\ Rest(p) # <<>> /\ LeaveWay(Rest(p)) /\ Rest(p) \in Seq(Word)
      /\ Head(Rest(p)) \notin {"saved", "mirror", "found", "shell"}
    BY LeaverIs DEF LoadCached, Find, At, Loading
<1>2. mongo \in Doc \cup {NoDoc} /\ cache \in Doc \cup {NoDoc}
    BY DEF TypeOK
<1>3. CASE LoadCached(p)
  <2>1. PICK r : r = [procs[p] EXCEPT !.seen = cache, !.todo = Rest(p)]
      OBVIOUS
  <2>2. r \in Process /\ r.todo = Rest(p) /\ r.patch = Shell
      BY <1>1, <1>2, <2>1 DEF Process
  <2>3. Go(p, r)
      BY <1>3, <2>1 DEF LoadCached
  <2> QED BY <1>1, <2>2, <2>3, LeaveGo
<1>4. CASE Find(p)
  <2>1. PICK w \in {"found", "shell"} : w = (IF mongo = NoDoc THEN "shell" ELSE "found")
      OBVIOUS
  <2>2. PICK d \in Doc : d = (IF mongo = NoDoc THEN Shell ELSE mongo)
      BY <1>2, Shells
  <2>3. PICK t : t = <<w>> \o Rest(p)
      OBVIOUS
  <2>4. LeaveWay(t) /\ Head(t) = w
      BY <1>1, <2>3, LeaveSwap DEF Rest
  <2>5. t \in Seq(Word)
      BY <1>1, <2>3, Conses DEF Word
  <2>6. PICK r : r = [procs[p] EXCEPT !.seen = d, !.todo = t]
      OBVIOUS
  <2>7. r \in Process /\ r.todo = t /\ r.patch = Shell
      BY <1>1, <2>5, <2>6 DEF Process
  <2>8. Go(p, r)
      BY <1>4, <2>1, <2>2, <2>3, <2>6 DEF Find
  <2> QED BY <2>4, <2>7, <2>8, LeaveGo
<1> QED BY <1>3, <1>4

LEMMA LeaveGoesOn ==
    ASSUME Sounds, NEW p \in Request, LeftAlone(p), Found(p) \/ InsertShell(p) \/ Write(p) \/ Written(p)
    PROVE  LeftAlone(p)'
<1>1. PICK s \in {"found", "shell", "write", "saved"} :
          /\ At(p, s)
          /\ s = "write" => mongo' = Patched(p)
          /\ s = "saved" => mongo' = mongo /\ cache' = Patched(p)
    BY DEF Found, InsertShell, Write, Written
<1>2. /\ procs[p] \in Process /\ procs[p].patch = Shell /\ Patched(p) = Shell
      /\ Head(procs[p].todo) = s /\ Rest(p) # <<>> /\ LeaveWay(Rest(p)) /\ Rest(p) \in Seq(Word)
      /\ s \in Loading => Head(Rest(p)) \notin {"saved", "mirror", "found", "shell"}
      /\ s = "write" => Head(Rest(p)) = "saved"
      /\ s = "saved" => Head(Rest(p)) = "mirror"
    BY <1>1, LeaverIs DEF At
<1>3. s = "saved" => mongo = Shell
    BY <1>1 DEF LeftAlone, Leaver
<1>4. /\ Head(Rest(p)) = "saved" => mongo' = Shell
      /\ Head(Rest(p)) = "mirror" => mongo' = Shell /\ cache' = Shell
    BY <1>1, <1>2, <1>3 DEF Loading
<1>5. Advance(p)
    BY <1>2, Shells DEF Found, InsertShell, Write, Written
<1>6. PICK r : r = [procs[p] EXCEPT !.todo = Tail(@)]
    OBVIOUS
<1>7. r \in Process /\ r.todo = Rest(p) /\ r.patch = Shell
    BY <1>2, <1>6 DEF Process, Rest
<1>8. Go(p, r)
    BY <1>5, <1>6 DEF Advance
<1> QED BY <1>2, <1>4, <1>7, <1>8, LeaveGo

LEMMA LeaveEnds ==
    ASSUME Sounds, NEW p \in Request, LeftAlone(p), Mirror(p)
    PROVE  OutKept
<1>1. Rest(p) = <<>> /\ mongo = Shell /\ cache = Shell
    BY LeaverIs DEF Mirror, LeftAlone, Leaver, At
<1>2. UNCHANGED <<mongo, cache>>
    BY DEF Mirror
<1>3. PICK r : r = [Idle EXCEPT !.token = procs[p].token, !.todo = Rest(p)]
    OBVIOUS
<1>4. r.todo = <<>>
    BY <1>1, <1>3 DEF Idle
<1>5. Go(p, r)
    BY <1>3 DEF Mirror, SaveOver
<1>6. Finish(p, r.token)
    BY <1>4, <1>5 DEF Go
<1>7. \A x \in Proc : x # p => procs[x] = Idle /\ procs[x].todo = <<>>
    BY LeaveOthers DEF LeftAlone
<1>8. \A x \in Proc : x # p => Resumed(x, p, r.token) = Idle
    BY <1>7 DEF Resumed, Waits, At
<1>9. \A x \in Proc : procs'[x] = Idle
    BY <1>6, <1>8 DEF Finish
<1> QED BY <1>1, <1>2, <1>9, ShellGone, HarmlessIdle DEF OutKept, AllHarmless

LEMMA LeaveBegins ==
    ASSUME IInv, SignOut, leaving'
    PROVE  \E p \in Request : LeftAlone(p)'
<1>0. Sounds /\ TypeOK /\ Unbegun
    BY DEF IInv
<1>1. begun + 1 \in Request /\ begun + 1 \in Proc
    BY <1>0, BeginsCalm, Others DEF Begins
<1>2. PICK p \in Request : p = begun + 1
    BY <1>1
<1>3. Busy = {} /\ procs \in [Proc -> Process] /\ p \in Proc
    BY <1>0, <1>1, <1>2 DEF SignOut, Sounds
<1>4. PICK q : q = [Idle EXCEPT !.patch = Shell, !.todo = Save(Shell)]
    OBVIOUS
<1>5. q.patch = Shell /\ q.todo = Save(Shell)
    BY <1>4 DEF Idle
<1>6. procs' = [procs EXCEPT ![p] = q]
    BY <1>2, <1>4 DEF SignOut, Beginning
<1>7. PICK s : s = <<"load", "write", "saved", "mirror">>
    OBVIOUS
<1>8. q.todo = s
    BY <1>5, <1>7, Saves4, Shells
<1>9. s # <<>> /\ Len(s) = 4 /\ s[1] = "load" /\ s[2] = "write" /\ s[3] = "saved" /\ s[4] = "mirror" /\ Head(s) = "load"
    BY <1>7
<1>10. \A i \in 1..Len(s) : i = 1 \/ i = 2 \/ i = 3 \/ i = 4
    BY <1>9
<1>11. LeaveWay(s)
    BY <1>9, <1>10 DEF LeaveWay, Loading
<1>12. procs'[p] = q /\ \A x \in Proc : x # p => procs'[x] = procs[x]
    BY <1>3, <1>6
<1>13. Busy' = {p}
    BY <1>3, <1>8, <1>9, <1>12 DEF Busy
<1>14. Leaver(p)'
    BY <1>5, <1>8, <1>9, <1>11, <1>12 DEF Leaver, At
<1> QED BY <1>13, <1>14 DEF LeftAlone

LEMMA LeaveBurst ==
    ASSUME IInv, LeavingInv, OutInv, NEW x \in Proc, Burst(x)
    PROVE  LeavingInv' /\ OutInv'
<1>0. Sounds /\ TypeOK
    BY DEF IInv
<1>1. leaving' = leaving /\ out' = out
    BY DEF Burst, LoadCached, Fresh, EnsureDevice, Beat, Rearm, history
<1>2. OutInv'
    BY <1>1, OutBurst DEF OutInv, OutKept
<1>3. ASSUME NEW p \in Request, LeftAlone(p) PROVE LeftAlone(p)'
  <2>1. \A s : At(x, s) => x = p /\ Head(procs[p].todo) = s
      BY <1>0, <1>3, LeaveOthers DEF LeftAlone, At
  <2>2. Head(procs[p].todo) \in Loading \cup {"write", "saved", "mirror"}
      BY <1>0, <1>3, LeaverIs
  <2>3. ~Fresh(x) /\ ~EnsureDevice(x) /\ ~Beat(x) /\ ~Rearm(x)
      BY <2>1, <2>2 DEF Fresh, EnsureDevice, Beat, Rearm, Loading
  <2>4. LoadCached(p)
      BY <2>1, <2>3 DEF Burst, LoadCached
  <2> QED BY <1>0, <1>3, <2>4, LeaveLoads
<1>4. LeavingInv'
    BY <1>1, <1>3 DEF LeavingInv
<1> QED BY <1>2, <1>4

LEMMA LeaveAnswer ==
    ASSUME IInv, LeavingInv, OutInv, NEW x \in Proc, Answer(x) \/ Fault(x)
    PROVE  LeavingInv' /\ OutInv'
<1>0. Sounds /\ TypeOK
    BY DEF IInv
<1>1. /\ ~Mirror(x) => out' = out
      /\ leaving' => leaving /\ ~Mirror(x) /\ ~Fault(x)
      /\ Mirror(x) => out' = (out \/ leaving)
  <2>1. CASE Mirror(x)
      BY <2>1 DEF Mirror
  <2>2. CASE Fault(x)
    <3>1. leaving' = FALSE /\ out' = out /\ mirror' = mirror
        BY <2>2 DEF Fault
    <3> QED BY <2>1, <2>2, <3>1
  <2>3. ASSUME ~Mirror(x), ~Fault(x) PROVE leaving' = leaving /\ out' = out
      BY <2>3 DEF Answer, Find, Found, InsertShell, Write, Written, Erase, Invalidate, Grant, Refuse, Blip,
             Retry, GiveUp, Answered, Unanswered, history
  <2> QED BY <2>1, <2>2, <2>3
<1>2. ASSUME NEW p \in Request, LeftAlone(p)
      PROVE  (Mirror(x) => x = p) /\ (~Mirror(x) /\ ~Fault(x) => LeftAlone(p)')
  <2>1. \A s : At(x, s) => x = p /\ Head(procs[p].todo) = s
      BY <1>0, <1>2, LeaveOthers DEF LeftAlone, At
  <2>2. Head(procs[p].todo) \in Loading \cup {"write", "saved", "mirror"}
      BY <1>0, <1>2, LeaverIs
  <2>3. Mirror(x) => x = p
      BY <2>1 DEF Mirror
  <2>4. ~At(x, "erase") /\ ~At(x, "invalidate") /\ ~At(x, "grant") /\ ~At(x, "post") /\ ~At(x, "postAgain")
      BY <2>1, <2>2 DEF Loading
  <2>5. ~(Erase(x) \/ Invalidate(x) \/ Grant(x) \/ Refuse(x) \/ Blip(x) \/ Retry(x) \/ GiveUp(x) \/ Answered(x) \/ Unanswered(x))
      BY <2>4 DEF Erase, Invalidate, Grant, Refuse, Blip, Retry, GiveUp, Answered, Unanswered
  <2>6. ASSUME ~Mirror(x), ~Fault(x) PROVE LeftAlone(p)'
    <3>1. Find(x) \/ Found(x) \/ InsertShell(x) \/ Write(x) \/ Written(x)
        BY <2>5, <2>6 DEF Answer
    <3>2. x = p
        BY <2>1, <3>1 DEF Find, Found, InsertShell, Write, Written
    <3> QED BY <1>0, <1>2, <3>1, <3>2, LeaveLoads, LeaveGoesOn
  <2> QED BY <2>3, <2>6
<1>3. LeavingInv'
    BY <1>1, <1>2 DEF LeavingInv
<1>4. CASE out
    BY <1>3, <1>4, OutAnswer DEF OutInv, OutKept
<1>5. CASE ~out /\ out'
  <2>1. Mirror(x) /\ leaving
      BY <1>1, <1>5
  <2>2. PICK p \in Request : LeftAlone(p) /\ x = p
      BY <1>2, <2>1 DEF LeavingInv
  <2>3. OutKept
      BY <1>0, <2>1, <2>2, LeaveEnds
  <2> QED BY <1>3, <2>3 DEF OutInv, OutKept
<1>6. CASE ~out'
    BY <1>3, <1>6 DEF OutInv
<1> QED BY <1>3, <1>4, <1>5, <1>6

LEMMA LeaveEvent ==
    ASSUME IInv, LeavingInv, OutInv, Event
    PROVE  LeavingInv' /\ OutInv'
<1>1. out' => out
    BY DEF Event, SignIn, SignOut, ReactivateDevice, ResolvePlayback, DeletePlaylist, ResetWorkspace, Begin,
           Fire, Restart, Spurn, Revoke, history
<1>2. OutInv'
    BY <1>1, OutEvent DEF OutInv, OutKept
<1>3. CASE SignOut
    BY <1>2, <1>3, LeaveBegins DEF LeavingInv
<1>4. CASE \E f \in Family : Spurn(f) \/ Revoke(f)
  <2>1. UNCHANGED <<mongo, cache, procs, leaving>>
      BY <1>4 DEF Spurn, Revoke, local, history
  <2>2. \A p \in Request : LeftAlone(p) => LeftAlone(p)'
      BY <2>1 DEF LeftAlone, Leaver, Busy, At
  <2> QED BY <1>2, <2>1, <2>2 DEF LeavingInv
<1>5. CASE ~SignOut /\ ~\E f \in Family : Spurn(f) \/ Revoke(f)
  <2>1. ~leaving'
      BY <1>5 DEF Event, SignIn, ReactivateDevice, ResolvePlayback, DeletePlaylist, ResetWorkspace, Begin, Fire, Restart
  <2> QED BY <1>2, <2>1 DEF LeavingInv
<1> QED BY <1>2, <1>3, <1>4, <1>5

LEMMA OutInductive == IInv /\ LeavingInv /\ OutInv /\ [Next]_vars => LeavingInv' /\ OutInv'
<1> SUFFICES ASSUME IInv, LeavingInv, OutInv, [Next]_vars PROVE LeavingInv' /\ OutInv'
    OBVIOUS
<1>1. CASE Next
    BY <1>1, LeaveBurst, LeaveAnswer, LeaveEvent DEF Next
<1>2. CASE UNCHANGED vars
  <2>1. UNCHANGED <<mongo, cache, procs, leaving, out>>
      BY <1>2 DEF vars, local
  <2>2. \A p \in Request : LeftAlone(p) => LeftAlone(p)'
      BY <2>1 DEF LeftAlone, Leaver, Busy, At
  <2>3. LeavingInv'
      BY <2>1, <2>2 DEF LeavingInv
  <2>4. OutInv'
      BY <2>1 DEF OutInv, AllHarmless
  <2> QED BY <2>3, <2>4
<1> QED BY <1>1, <1>2

-----------------------------------------------------------------------------
(* What a reader should know.                                                 *)

(* Every variable is of its type: the row and the copy are whole documents,   *)
(* whatever the patches are that reach them and wherever a statement fails.   *)
THEOREM SessionTyped == Spec => []TypeOK
<1>1. IInv => TypeOK
    BY DEF IInv
<1> QED BY <1>1, SessionInitial, SessionInductive, PTL DEF Spec

(* auth.ts, scheduleKeepalive: a session a refresh can keep alive has its     *)
(* timer whenever nothing is under way, once a save has run to its end with   *)
(* no writer beside it and no old answer has come into the copy since.        *)
THEOREM BeatAlwaysGoesOn == Spec => []BeatGoesOn
<1>1. IInv => BeatGoesOn
  <2> SUFFICES ASSUME Beats, Busy = {}, settled, mongo # NoDoc, Refreshable(mongo) PROVE timer
      BY DEF IInv, BeatGoesOn
  <2>1. \A x \in Proc : procs[x].todo = <<>>
      BY DEF Busy
  <2>2. Quiet /\ Alive
      BY <2>1, Others DEF Quiet, Alive, Aiming, At
  <2>3. ~Owes
      BY <2>1, Others DEF Owes, At
  <2> QED BY <2>2, <2>3 DEF Beats
<1> QED BY <1>1, SessionInitial, SessionInductive, PTL DEF Spec

(* auth.ts, signOut: after a sign-out that ran alone neither the row nor the  *)
(* copy holds a session until somebody signs in: nobody under way holds one,  *)
(* and what needs a token stops before it stores anything.                    *)
THEOREM SignedOutForGood == Spec => []SignedOutStays
<1>1. Init => LeavingInv /\ OutInv
    BY DEF Init, LeavingInv, OutInv
<1>2. OutInv => SignedOutStays
  <2> SUFFICES ASSUME OutInv, out, NEW d \in {mongo, cache} \ {NoDoc}
               PROVE  d.status = "signed_out" /\ d.token = NoToken
      BY DEF SignedOutStays
  <2>1. d = Shell
      BY DEF OutInv, Gone
  <2> QED BY <2>1 DEF Shell
<1> QED BY <1>1, <1>2, SessionInitial, SessionInductive, OutInductive, PTL DEF Spec

=============================================================================
