----------------------------- MODULE JobsProofs ------------------------------
(* What holds of the scheduler for any number of jobs, expressions, requests  *)
(* and runs.  The invariant adds to the types what a request has left: one of *)
(* a few ways through its handler, and a document in hand for every job it is *)
(* still to register.  Without that, a save or a note could write a document  *)
(* nobody saved.                                                              *)
(*                                                                            *)
(* TimersInv is about the timers: a job nobody disturbed has at most one      *)
(* request that touches it, that request is on its way to leave the timer the *)
(* document wants, and a job no request touches has that timer.               *)
EXTENDS Jobs, FiniteSetTheorems, TLAPS

DocOrNone == Doc \cup {NoDoc}
Registering == {<<"save", "apply", "note">>, <<"apply", "note">>, <<"note">>}
Ways == {<<>>, <<"erase", "unschedule">>, <<"unschedule">>, <<"wipe", "unscheduleAll">>, <<"unscheduleAll">>,
         <<"wipe", "fill", "unscheduleAll", "enlist", "apply", "note">>,
         <<"fill", "unscheduleAll", "enlist", "apply", "note">>,
         <<"unscheduleAll", "enlist", "apply", "note">>, <<"enlist", "apply", "note">>} \cup Registering

RequestType == [todo : Ways, queue : Seq(Job), all : BOOLEAN, held : [Job -> DocOrNone]]
RequestOK(q) ==
    /\ q \in RequestType
    /\ q.todo \in Registering =>
         q.queue # <<>> /\ \A i \in DOMAIN q.queue : q.held[q.queue[i]] # NoDoc

DocsOK == docs \in [Job -> DocOrNone] /\ timers \in [Job -> Cron \cup {NoCron}]
RequestsOK == requests \in [Request -> RequestType] /\ \A r \in Request : RequestOK(requests[r])
RunsOK == runs \in [Run -> [pc : {"none", "load", "work"}, nextRun : Cron \cup {NoCron}]]
CountsOK == begun \in 0..MaxRequests /\ faults \in 0..MaxFaults /\ solo \subseteq Request /\ mess \subseteq Job

IInv == DocsOK /\ RequestsOK /\ RunsOK /\ CountsOK

-----------------------------------------------------------------------------
LEMMA InvariantTypes == IInv => TypeOK
BY DEF IInv, DocsOK, RequestsOK, RunsOK, CountsOK, RequestOK, RequestType, DocOrNone, TypeOK

(* What is left after the next statement is a way, too. *)
LEMMA WaysOn ==
    ASSUME NEW t \in Ways, t # <<>>
    PROVE  /\ Tail(t) \in Ways /\ Tail(t) # t
           /\ Tail(t) \in Registering => Head(t) \in {"save", "apply", "enlist"}
           /\ Head(t) \in {"save", "apply", "note"} <=> t \in Registering
           /\ Head(t) = "wipe" /\ Tail(t) # <<"unscheduleAll">> => Tail(Tail(t)) \in Ways \ Registering
<1>1. CASE t = <<"save", "apply", "note">>
    BY <1>1 DEF Ways, Registering
<1>2. CASE t = <<"apply", "note">>
    BY <1>2 DEF Ways, Registering
<1>3. CASE t = <<"note">>
    BY <1>3 DEF Ways, Registering
<1>4. CASE t = <<"erase", "unschedule">>
    BY <1>4 DEF Ways, Registering
<1>5. CASE t = <<"unschedule">>
    BY <1>5 DEF Ways, Registering
<1>6. CASE t = <<"wipe", "unscheduleAll">>
    BY <1>6 DEF Ways, Registering
<1>7. CASE t = <<"unscheduleAll">>
    BY <1>7 DEF Ways, Registering
<1>8. CASE t = <<"wipe", "fill", "unscheduleAll", "enlist", "apply", "note">>
    BY <1>8 DEF Ways, Registering
<1>9. CASE t = <<"fill", "unscheduleAll", "enlist", "apply", "note">>
    BY <1>9 DEF Ways, Registering
<1>10. CASE t = <<"unscheduleAll", "enlist", "apply", "note">>
    BY <1>10 DEF Ways, Registering
<1>11. CASE t = <<"enlist", "apply", "note">>
    BY <1>11 DEF Ways, Registering
<1> QED BY <1>1, <1>2, <1>3, <1>4, <1>5, <1>6, <1>7, <1>8, <1>9, <1>10, <1>11 DEF Ways, Registering

(* SetToSeq lists a finite set of jobs, and nothing else. *)
LEMMA Listing ==
    ASSUME NEW S \in SUBSET Job
    PROVE  /\ SetToSeq(S) \in Seq(Job)
           /\ \A i \in DOMAIN SetToSeq(S) : SetToSeq(S)[i] \in S
           /\ S # {} => SetToSeq(S) # <<>>
<1>1. IsFiniteSet(S)
    BY JobsAssumption, FS_Subset DEF JobsAssumption
<1>2. Cardinality(S) \in Nat
    BY <1>1, FS_CardinalityType
<1>3. PICK n \in Nat : ExistsBijection(1..n, S)
    BY <1>1, FS_NatBijection
<1>4. n = Cardinality(S)
    BY <1>1, <1>3, FS_CountingElements
<1>5. \E f \in [1..Cardinality(S) -> S] : IsInjective(f)
    BY <1>3, <1>4 DEF ExistsBijection, Bijection, Injection, IsInjective
<1>6. SetToSeq(S) \in [1..Cardinality(S) -> S]
    BY <1>5 DEF SetToSeq
<1>7. S # {} => Cardinality(S) # 0
    BY <1>1, FS_EmptySet
<1> QED BY <1>2, <1>6, <1>7

(* A request that never began, or has ended, is in order. *)
LEMMA IdleOK == /\ RequestOK(Idle) /\ Idle \in RequestType
                /\ Idle.queue = <<>> /\ Idle.all = FALSE /\ Idle.held = None
BY DEF RequestOK, RequestType, Ways, Registering, Idle, None, DocOrNone

(* The ways a handler starts. *)
LEMMA Starts ==
    /\ <<"save", "apply", "note">> \in Registering /\ Registering \subseteq Ways
    /\ <<"apply", "note">> \in Registering
    /\ {<<>>, <<"erase", "unschedule">>, <<"wipe", "unscheduleAll">>, <<"enlist", "apply", "note">>,
        <<"wipe", "fill", "unscheduleAll", "enlist", "apply", "note">>} \subseteq Ways \ Registering
BY DEF Ways, Registering

(* A new request leaves the invariant, if it is in order itself. *)
LEMMA BeginKeeps ==
    ASSUME IInv, NEW q, RequestOK(q), JobsOf(q) \subseteq Job, Begin(q)
    PROVE  IInv'
<1>1. begun + 1 \in Request /\ begun' \in 0..MaxRequests
    BY JobsAssumption DEF JobsAssumption, IInv, CountsOK, Begin, Request
<1>2. RequestsOK'
    BY <1>1 DEF IInv, RequestsOK, RequestOK, Begin
<1>3. CountsOK'
    BY <1>1 DEF IInv, CountsOK, Begin
<1> QED BY <1>2, <1>3 DEF IInv, DocsOK, RunsOK, Begin

LEMMA SaveKeeps ==
    ASSUME IInv, NEW j \in Job, NEW c \in Cron, NEW on \in BOOLEAN, Save(j, c, on)
    PROVE  IInv'
<1> DEFINE q == [Idle EXCEPT !.todo = <<"save", "apply", "note">>, !.queue = <<j>>,
                             !.held = [None EXCEPT ![j] = New(c, on)]]
<1>1. New(c, on) \in Doc
    BY DEF New, Doc
<1>2. [None EXCEPT ![j] = New(c, on)] \in [Job -> DocOrNone] /\ [None EXCEPT ![j] = New(c, on)][j] # NoDoc
    BY <1>1, JobsAssumption DEF JobsAssumption, None, DocOrNone
<1>3. /\ q \in RequestType /\ q.todo = <<"save", "apply", "note">> /\ q.queue = <<j>>
      /\ q.all = FALSE /\ q.held = [None EXCEPT ![j] = New(c, on)]
    <2>1. <<j>> \in Seq(Job) /\ <<"save", "apply", "note">> \in Ways
        BY Starts
    <2> QED BY <1>2, <2>1, IdleOK DEF RequestType
<1>4. Begin(q)
    BY DEF Save
<1> HIDE DEF q
<1>5. RequestOK(q) /\ JobsOf(q) \subseteq Job
    BY <1>2, <1>3 DEF RequestOK, JobsOf
<1> QED BY <1>4, <1>5, BeginKeeps

LEMMA DeleteKeeps ==
    ASSUME IInv, NEW j \in Job, Delete(j)
    PROVE  IInv'
<1> DEFINE q == [Idle EXCEPT !.todo = <<"erase", "unschedule">>, !.queue = <<j>>]
<1>1. q \in RequestType /\ q.todo = <<"erase", "unschedule">> /\ q.queue = <<j>> /\ q.all = FALSE
    <2>1. <<j>> \in Seq(Job) /\ <<"erase", "unschedule">> \in Ways
        BY Starts
    <2> QED BY <2>1, IdleOK DEF RequestType
<1>2. Begin(q)
    BY DEF Delete
<1> HIDE DEF q
<1>3. RequestOK(q) /\ JobsOf(q) \subseteq Job
    BY <1>1, Starts DEF RequestOK, JobsOf
<1> QED BY <1>2, <1>3, BeginKeeps

LEMMA ResetKeeps ==
    ASSUME IInv, Reset
    PROVE  IInv'
<1> DEFINE q == [Idle EXCEPT !.todo = <<"wipe", "unscheduleAll">>, !.all = TRUE]
<1>1. q \in RequestType /\ q.todo = <<"wipe", "unscheduleAll">> /\ q.all
    BY IdleOK, Starts DEF RequestType
<1>2. Begin(q)
    BY DEF Reset
<1> HIDE DEF q
<1>3. RequestOK(q) /\ JobsOf(q) \subseteq Job
    BY <1>1, Starts DEF RequestOK, JobsOf
<1> QED BY <1>2, <1>3, BeginKeeps

LEMMA RestoreKeeps ==
    ASSUME IInv, NEW b \in Backup, Restore(b)
    PROVE  IInv'
<1> DEFINE q == [Idle EXCEPT !.todo = <<"wipe", "fill", "unscheduleAll", "enlist", "apply", "note">>,
                             !.all = TRUE, !.held = b]
<1>1. b \in [Job -> DocOrNone]
    BY JobsAssumption DEF JobsAssumption, DocOrNone
<1>2. /\ q \in RequestType /\ q.todo = <<"wipe", "fill", "unscheduleAll", "enlist", "apply", "note">> /\ q.all
    BY <1>1, IdleOK, Starts DEF RequestType
<1>3. Begin(q)
    BY DEF Restore
<1> HIDE DEF q
<1>4. RequestOK(q) /\ JobsOf(q) \subseteq Job
    BY <1>2, Starts DEF RequestOK, JobsOf
<1> QED BY <1>3, <1>4, BeginKeeps
-----------------------------------------------------------------------------
(* What a statement leaves of a request is in order, if what it hands on is.  *)
LEMMA ContinueKeeps ==
    ASSUME IInv, NEW r \in Request, NEW q, RequestOK(q), Continue(r, q)
    PROVE  RequestsOK' /\ CountsOK'
<1>1. RequestsOK'
    BY IdleOK DEF IInv, RequestsOK, RequestOK, Continue
<1>2. CountsOK'
    BY DEF IInv, CountsOK, Continue
<1> QED BY <1>1, <1>2

LEMMA GoKeeps ==
    ASSUME IInv, NEW r \in Request, requests[r].todo # <<>>, Head(requests[r].todo) # "enlist", Go(r)
    PROVE  RequestsOK' /\ CountsOK'
<1> DEFINE q == [requests[r] EXCEPT !.todo = Tail(@)]
<1>1. RequestOK(requests[r])
    BY DEF IInv, RequestsOK
<1>2. /\ Tail(requests[r].todo) \in Ways
      /\ Tail(requests[r].todo) \in Registering => requests[r].todo \in Registering
    BY <1>1, WaysOn DEF RequestOK, RequestType
<1>3. /\ q \in RequestType /\ q.todo = Tail(requests[r].todo)
      /\ q.queue = requests[r].queue /\ q.held = requests[r].held
    BY <1>1, <1>2 DEF RequestOK, RequestType
<1>4. Continue(r, q)
    BY DEF Go
<1> HIDE DEF q
<1>5. RequestOK(q)
    BY <1>1, <1>2, <1>3 DEF RequestOK
<1> QED BY <1>4, <1>5, ContinueKeeps

(* A request that registers has its job at hand, with the document saved. *)
LEMMA InHand ==
    ASSUME IInv, NEW r \in Request, requests[r].todo # <<>>,
           Head(requests[r].todo) \in {"save", "apply", "note"}
    PROVE  /\ This(r) \in Job /\ requests[r].held[This(r)] \in Doc
           /\ requests[r].queue \in Seq(Job) /\ requests[r].queue # <<>>
<1>1. RequestOK(requests[r])
    BY DEF IInv, RequestsOK
<1>2. requests[r].todo \in Registering
    BY <1>1, WaysOn DEF RequestOK, RequestType
<1>3. requests[r].queue \in Seq(Job) /\ requests[r].queue # <<>> /\ 1 \in DOMAIN requests[r].queue
    BY <1>1, <1>2 DEF RequestOK, RequestType
<1>4. This(r) = requests[r].queue[1] /\ This(r) \in Job
    BY <1>3 DEF This
<1> QED BY <1>1, <1>2, <1>3, <1>4 DEF RequestOK, RequestType, DocOrNone

LEMMA UpsertKeeps ==
    ASSUME IInv, NEW r \in Request, Upsert(r)
    PROVE  IInv'
<1>1. This(r) \in Job /\ requests[r].held[This(r)] \in Doc
    BY InHand DEF Upsert, Statement
<1>2. (IF docs[This(r)] = NoDoc THEN NoCron ELSE docs[This(r)].nextRun) \in Cron \cup {NoCron}
    BY <1>1 DEF IInv, DocsOK, DocOrNone, Doc
<1>3. [requests[r].held[This(r)] EXCEPT !.nextRun = IF docs[This(r)] = NoDoc THEN NoCron ELSE docs[This(r)].nextRun] \in Doc
    BY <1>1, <1>2 DEF Doc
<1>4. DocsOK'
    BY <1>1, <1>3 DEF IInv, DocsOK, DocOrNone, Upsert
<1>5. RequestsOK' /\ CountsOK'
    BY GoKeeps DEF Upsert, Statement
<1> QED BY <1>4, <1>5 DEF IInv, RunsOK, Upsert

LEMMA ApplyKeeps ==
    ASSUME IInv, NEW r \in Request, Apply(r)
    PROVE  IInv'
<1> DEFINE on == requests[r].held[This(r)].enabled
           q == [requests[r] EXCEPT !.todo = IF on THEN Tail(@) ELSE <<>>]
<1>1. This(r) \in Job /\ requests[r].held[This(r)] \in Doc
    BY InHand DEF Apply, Statement
<1>2. RequestOK(requests[r])
    BY DEF IInv, RequestsOK
<1>3. Tail(requests[r].todo) \in Ways /\ requests[r].todo \in Registering
    BY <1>2, WaysOn DEF RequestOK, RequestType, Apply, Statement
<1>4. (IF on THEN Tail(requests[r].todo) ELSE <<>>) \in Ways
    BY <1>3, Starts
<1>5. /\ q \in RequestType /\ q.queue = requests[r].queue /\ q.held = requests[r].held
      /\ Continue(r, q)
    BY <1>2, <1>4 DEF RequestOK, RequestType, Apply
<1> HIDE DEF q
<1>6. RequestOK(q)
    BY <1>2, <1>3, <1>5 DEF RequestOK
<1>7. RequestsOK' /\ CountsOK'
    BY <1>5, <1>6, ContinueKeeps
<1>8. DocsOK'
    BY <1>1 DEF IInv, DocsOK, Apply, Doc
<1> QED BY <1>7, <1>8 DEF IInv, RunsOK, Apply

(* Noting a next run keeps every document a document. *)
LEMMA NotedIsDocs ==
    ASSUME IInv, NEW j \in Job, NEW c \in Cron \cup {NoCron}
    PROVE  Noted(j, c) \in [Job -> DocOrNone]
<1>1. docs[j] # NoDoc => [docs[j] EXCEPT !.nextRun = c] \in Doc
    BY DEF IInv, DocsOK, DocOrNone, Doc
<1> QED BY <1>1 DEF IInv, DocsOK, DocOrNone, Noted

LEMMA NoteKeeps ==
    ASSUME IInv, NEW r \in Request, Note(r)
    PROVE  IInv'
<1> DEFINE rest == Tail(requests[r].queue)
<1>1. /\ This(r) \in Job /\ requests[r].held[This(r)] \in Doc
      /\ requests[r].queue \in Seq(Job) /\ requests[r].queue # <<>>
    BY InHand DEF Note, Statement
<1>2. RequestOK(requests[r])
    BY DEF IInv, RequestsOK
<1>3. requests[r].todo \in Registering
    BY <1>2, WaysOn DEF RequestOK, RequestType, Note, Statement
<1>4. rest \in Seq(Job) /\ \A i \in DOMAIN rest : i + 1 \in DOMAIN requests[r].queue /\ rest[i] = requests[r].queue[i + 1]
    BY <1>1
<1>5. \A i \in DOMAIN rest : requests[r].held[rest[i]] # NoDoc
    BY <1>2, <1>3, <1>4 DEF RequestOK
<1>6. /\ NextInQueue(r) \in RequestType
      /\ NextInQueue(r).todo = IF rest = <<>> THEN <<>> ELSE <<"apply", "note">>
      /\ NextInQueue(r).queue = rest /\ NextInQueue(r).held = requests[r].held
    <2>1. (IF rest = <<>> THEN <<>> ELSE <<"apply", "note">>) \in Ways
        BY Starts
    <2> QED BY <2>1, <1>2, <1>4 DEF NextInQueue, RequestOK, RequestType
<1>7. RequestOK(NextInQueue(r))
    BY <1>5, <1>6, Starts DEF RequestOK
<1>8. RequestsOK' /\ CountsOK'
    BY <1>7, ContinueKeeps DEF Note
<1>9. docs' \in [Job -> DocOrNone]
    BY <1>1, NotedIsDocs DEF Note, Doc
<1> QED BY <1>8, <1>9 DEF IInv, DocsOK, RunsOK, Note

LEMMA DocumentsKeep ==
    ASSUME IInv, NEW r \in Request, Erase(r) \/ Wipe(r) \/ Fill(r)
    PROVE  IInv'
<1>1. requests[r].held \in [Job -> DocOrNone]
    BY DEF IInv, RequestsOK, RequestOK, RequestType
<1>2. DocsOK'
    BY <1>1 DEF IInv, DocsOK, DocOrNone, None, Erase, Wipe, Fill
<1>3. RequestsOK' /\ CountsOK'
    BY GoKeeps DEF Erase, Wipe, Fill, Statement
<1> QED BY <1>2, <1>3 DEF IInv, RunsOK, Erase, Wipe, Fill

LEMMA TimersKeep ==
    ASSUME IInv, NEW r \in Request, Unschedule(r) \/ UnscheduleAll(r)
    PROVE  IInv'
<1>1. DocsOK'
    BY DEF IInv, DocsOK, Unschedule, UnscheduleAll
<1>2. RequestsOK' /\ CountsOK'
    BY GoKeeps DEF Unschedule, UnscheduleAll, Statement
<1> QED BY <1>1, <1>2 DEF IInv, RunsOK, Unschedule, UnscheduleAll

LEMMA EnlistKeeps ==
    ASSUME IInv, NEW r \in Request, Enlist(r)
    PROVE  IInv'
<1> DEFINE on == {j \in Job : docs[j] # NoDoc /\ docs[j].enabled}
           todo == IF on = {} THEN <<>> ELSE Tail(requests[r].todo)
           q == [requests[r] EXCEPT !.queue = SetToSeq(on), !.held = docs,
                                    !.todo = IF on = {} THEN <<>> ELSE Tail(@)]
<1>1. requests[r] \in RequestType
    BY DEF IInv, RequestsOK, RequestOK
<1>2. /\ SetToSeq(on) \in Seq(Job)
      /\ \A i \in DOMAIN SetToSeq(on) : SetToSeq(on)[i] \in on
      /\ on # {} => SetToSeq(on) # <<>>
    BY Listing
<1>3. todo \in Ways
    BY <1>1, WaysOn, Starts DEF RequestType, Enlist, Statement
<1>4. docs \in [Job -> DocOrNone]
    BY DEF IInv, DocsOK
<1>5. Continue(r, q)
    BY DEF Enlist
<1>6. q \in RequestType /\ q.todo = todo /\ q.queue = SetToSeq(on) /\ q.held = docs
    <2> HIDE DEF on
    <2> QED BY <1>1, <1>2, <1>3, <1>4 DEF RequestType
<1>7. todo \in Registering => on # {}
    BY Starts
<1>8. \A i \in DOMAIN SetToSeq(on) : docs[SetToSeq(on)[i]] # NoDoc
    BY <1>2
<1>9. RequestOK(q)
    <2> HIDE DEF on, todo, q
    <2> QED BY <1>2, <1>6, <1>7, <1>8 DEF RequestOK
<1>10. RequestsOK' /\ CountsOK'
    <2> HIDE DEF q
    <2> QED BY <1>5, <1>9, ContinueKeeps
<1> QED BY <1>10 DEF IInv, DocsOK, RunsOK, Enlist

(* A statement that fails leaves the request in order: it ends, or a restore  *)
(* goes on, and is not about to register.                                     *)
LEMMA FaultKeeps ==
    ASSUME IInv, NEW r \in Request, Fault(r)
    PROVE  IInv'
<1>1. requests[r] \in RequestType /\ requests[r].todo # <<>>
    BY DEF IInv, RequestsOK, RequestOK, Fault, Running
<1>2. ASSUME NEW t \in Ways \ Registering
      PROVE  RequestOK([requests[r] EXCEPT !.todo = t])
    BY <1>1, <1>2 DEF RequestOK, RequestType
<1>3. Head(requests[r].todo) = "fill" => Tail(requests[r].todo) \in Ways \ Registering
    BY <1>1, WaysOn DEF RequestType
<1>4. Head(requests[r].todo) = "wipe" /\ Tail(requests[r].todo) # <<"unscheduleAll">>
        => Tail(Tail(requests[r].todo)) \in Ways \ Registering
    BY <1>1, WaysOn DEF RequestType
<1>5. RequestsOK'
    <2> DEFINE t == requests[r].todo
               q == IF Head(t) = "wipe" /\ requests[r].all /\ Tail(t) # <<>> /\ Tail(t) # <<"unscheduleAll">>
                    THEN [requests[r] EXCEPT !.todo = Tail(Tail(t))]
                    ELSE IF Head(t) = "fill" THEN [requests[r] EXCEPT !.todo = Tail(t)] ELSE Idle
    <2>1. requests' = [requests EXCEPT ![r] = q]
        BY DEF Fault, Left
    <2>2. RequestOK(q)
        BY <1>2, <1>3, <1>4, IdleOK
    <2> HIDE DEF q
    <2> QED BY <2>1, <2>2 DEF IInv, RequestsOK, RequestOK
<1>6. DocsOK'
    BY <1>1 DEF IInv, DocsOK, DocOrNone, RequestType, Fault
<1>7. CountsOK'
    BY JobsAssumption DEF JobsAssumption, IInv, CountsOK, Fault
<1> QED BY <1>5, <1>6, <1>7 DEF IInv, RunsOK, Fault
-----------------------------------------------------------------------------
(* The runs: a run notes on documents that are there, and only then.          *)
LEMMA RunsKeep ==
    ASSUME IInv, NEW n \in Run, Tick(n) \/ Works(n)
    PROVE  IInv'
<1>1. n[1] \in Job
    BY DEF Run
<1>2. CASE Tick(n)
    BY <1>2 DEF IInv, DocsOK, RequestsOK, RequestOK, RunsOK, CountsOK, Tick
<1>3. CASE Load(n)
    BY <1>1, <1>3 DEF IInv, DocsOK, RequestsOK, RequestOK, RunsOK, CountsOK, Load, NotRunning
<1>4. CASE Record(n)
    <2>1. docs' \in [Job -> DocOrNone]
        BY <1>1, <1>4, NotedIsDocs DEF Record, IInv, RunsOK
    <2> QED BY <1>4, <2>1 DEF IInv, DocsOK, RequestsOK, RequestOK, RunsOK, CountsOK, Record, NotRunning
<1> QED BY <1>2, <1>3, <1>4 DEF Works

LEMMA BootingOK == RequestOK(Booting)
<1>1. <<"enlist", "apply", "note">> \in Ways \ Registering
    BY Starts
<1>2. Booting \in RequestType /\ Booting.todo = <<"enlist", "apply", "note">>
    BY <1>1, IdleOK DEF Booting, RequestType
<1> QED BY <1>1, <1>2 DEF RequestOK

LEMMA RestartKeeps ==
    ASSUME IInv, Restart
    PROVE  IInv'
<1>1. RequestsOK'
    BY BootingOK, IdleOK DEF Restart, RequestsOK, RequestOK
<1>2. CountsOK'
    BY JobsAssumption DEF JobsAssumption, IInv, CountsOK, Restart, Request, Boot
<1> QED BY <1>1, <1>2 DEF IInv, DocsOK, RunsOK, Restart, NotRunning

LEMMA InitHolds == Init => IInv
<1> SUFFICES ASSUME Init PROVE IInv
    OBVIOUS
<1>1. RequestsOK
    BY BootingOK, IdleOK DEF Init, RequestsOK, RequestOK
<1>2. DocsOK
    BY JobsAssumption DEF JobsAssumption, Init, DocsOK, DocOrNone
<1>3. CountsOK
    BY JobsAssumption DEF JobsAssumption, Init, CountsOK, Request, Boot
<1> QED BY <1>1, <1>2, <1>3 DEF IInv, RunsOK, Init, NotRunning

LEMMA NextKeeps == IInv /\ [Next]_vars => IInv'
<1> SUFFICES ASSUME IInv, [Next]_vars PROVE IInv'
    OBVIOUS
<1>1. ASSUME NEW j \in Job, Delete(j) PROVE IInv'
    BY <1>1, DeleteKeeps
<1>2. ASSUME NEW j \in Job, NEW c \in Cron, NEW on \in BOOLEAN, Save(j, c, on) PROVE IInv'
    BY <1>2, SaveKeeps
<1>3. CASE Reset
    BY <1>3, ResetKeeps
<1>4. ASSUME NEW b \in Backup, Restore(b) PROVE IInv'
    BY <1>4, RestoreKeeps
<1>5. ASSUME NEW r \in Request, Step(r) PROVE IInv'
    BY <1>5, UpsertKeeps, ApplyKeeps, NoteKeeps, DocumentsKeep, TimersKeep, EnlistKeeps DEF Step
<1>6. ASSUME NEW r \in Request, Fault(r) PROVE IInv'
    BY <1>6, FaultKeeps
<1>7. ASSUME NEW n \in Run, Tick(n) \/ Works(n) PROVE IInv'
    BY <1>7, RunsKeep
<1>8. CASE Restart
    BY <1>8, RestartKeeps
<1>9. CASE UNCHANGED vars
    BY <1>9 DEF vars, IInv, DocsOK, RequestsOK, RequestOK, RunsOK, CountsOK
<1> QED BY <1>1, <1>2, <1>3, <1>4, <1>5, <1>6, <1>7, <1>8, <1>9 DEF Next

-----------------------------------------------------------------------------
(* Every variable is of its type, whatever requests, runs, faults and         *)
(* restarts do: no outcome is ever written as a document of its own.          *)
THEOREM TypesHold == Spec => []TypeOK
<1>1. IInv => TypeOK
    BY InvariantTypes
<1> QED BY InitHolds, NextKeeps, <1>1, PTL DEF Spec

(* What a step of the scheduler leaves of a document.                         *)
Kept(j) == docs[j] # NoDoc /\ docs'[j] # NoDoc /\ docs'[j].cron = docs[j].cron /\ docs'[j].enabled = docs[j].enabled
Writing(j) == \E r \in Running : Writes(r, j)

(* A request that goes on, or ends, has one statement less to take. *)
LEMMA GoMoves ==
    ASSUME IInv, NEW r \in Request, requests[r].todo # <<>>, Go(r)
    PROVE  requests'[r] # requests[r]
<1>1. requests \in [Request -> RequestType] /\ requests[r] \in RequestType /\ requests[r].todo \in Ways
    BY DEF IInv, RequestsOK, RequestType
<1>2. Tail(requests[r].todo) # requests[r].todo
    BY <1>1, WaysOn
<1>3. requests'[r] = IF Tail(requests[r].todo) = <<>> THEN Idle
                     ELSE [requests[r] EXCEPT !.todo = Tail(requests[r].todo)]
    BY <1>1 DEF Go, Continue, RequestType
<1>4. Idle.todo = <<>>
    BY DEF Idle
<1>5. CASE Tail(requests[r].todo) = <<>>
    BY <1>3, <1>4, <1>5
<1>6. CASE Tail(requests[r].todo) # <<>>
    <2>1. requests'[r].todo = Tail(requests[r].todo)
        BY <1>1, <1>3, <1>6 DEF RequestType
    <2> QED BY <1>2, <2>1
<1> QED BY <1>5, <1>6

LEMMA StatementWrites ==
    ASSUME IInv, NEW r \in Request, NEW j \in Job, docs'[j] # docs[j],
           Upsert(r) \/ Erase(r) \/ Wipe(r) \/ Fill(r)
    PROVE  Writing(j)
<1>1. requests[r].todo # <<>> /\ Go(r)
    BY DEF Upsert, Erase, Wipe, Fill, Statement
<1>2. requests'[r] # requests[r] /\ r \in Running
    BY <1>1, GoMoves DEF Running
<1>3. docs \in [Job -> DocOrNone]
    BY DEF IInv, DocsOK
<1>4. CASE Upsert(r) \/ Erase(r)
    <2>1. j = This(r) /\ Head(requests[r].todo) \in {"save", "erase"}
        BY <1>3, <1>4 DEF Upsert, Erase, Statement
    <2> QED BY <1>2, <2>1 DEF Writing, Writes
<1>5. CASE Wipe(r) \/ Fill(r)
    BY <1>2, <1>5 DEF Wipe, Fill, Statement, Writing, Writes
<1> QED BY <1>4, <1>5

(* Of the statements that fail only a fill writes, and the restore goes on.   *)
LEMMA FaultWrites ==
    ASSUME IInv, NEW r \in Request, Fault(r), NEW j \in Job, docs'[j] # docs[j]
    PROVE  Writing(j)
<1>1. Head(requests[r].todo) = "fill" /\ r \in Running /\ requests[r].todo # <<>>
    BY DEF Fault, Running
<1>2. requests \in [Request -> RequestType] /\ requests[r] \in RequestType /\ requests[r].todo \in Ways
    BY DEF IInv, RequestsOK, RequestType
<1>3. requests'[r] = [requests[r] EXCEPT !.todo = Tail(requests[r].todo)]
    BY <1>1, <1>2 DEF Fault, Left
<1>4. requests'[r].todo = Tail(requests[r].todo)
    BY <1>2, <1>3 DEF RequestType
<1>5. requests'[r] # requests[r]
    BY <1>1, <1>2, <1>4, WaysOn
<1> QED BY <1>1, <1>5 DEF Writing, Writes

LEMMA NotedKeeps ==
    ASSUME IInv, NEW i \in Job, NEW c \in Cron \cup {NoCron}, docs' = Noted(i, c),
           NEW j \in Job, docs'[j] # docs[j]
    PROVE  Kept(j)
<1>1. j = i /\ docs[j] \in Doc /\ docs'[j] = [docs[j] EXCEPT !.nextRun = c]
    BY DEF IInv, DocsOK, DocOrNone, Noted
<1>2. docs'[j] \in Doc
    BY <1>1 DEF Doc
<1> QED BY <1>1, <1>2, JobsAssumption DEF JobsAssumption, Kept, Doc

LEMMA RequestsWrite ==
    ASSUME IInv, [Next]_vars, NEW j \in Job, docs'[j] # docs[j]
    PROVE  Writing(j) \/ Kept(j)
<1>1. ASSUME NEW i \in Job, Delete(i) PROVE FALSE
    BY <1>1 DEF Delete, Begin
<1>2. ASSUME NEW i \in Job, NEW c \in Cron, NEW on \in BOOLEAN, Save(i, c, on) PROVE FALSE
    BY <1>2 DEF Save, Begin
<1>3. ASSUME NEW b \in Backup, Reset \/ Restore(b) PROVE FALSE
    BY <1>3 DEF Reset, Restore, Begin
<1>4. CASE Reset
    BY <1>4 DEF Reset, Begin
<1>5. ASSUME NEW r \in Request, Step(r) PROVE Writing(j) \/ Kept(j)
    <2>1. CASE Upsert(r) \/ Erase(r) \/ Wipe(r) \/ Fill(r)
        BY <2>1, StatementWrites
    <2>2. CASE Note(r)
        <3>1. This(r) \in Job /\ requests[r].held[This(r)].cron \in Cron
            BY <2>2, InHand DEF Note, Statement, Doc
        <3> QED BY <2>2, <3>1, NotedKeeps DEF Note
    <2>3. CASE Apply(r) \/ Unschedule(r) \/ UnscheduleAll(r) \/ Enlist(r)
        BY <2>3 DEF Apply, Unschedule, UnscheduleAll, Enlist
    <2> QED BY <1>5, <2>1, <2>2, <2>3 DEF Step
<1>6. ASSUME NEW r \in Request, Fault(r) PROVE Writing(j)
    BY <1>6, FaultWrites
<1>7. ASSUME NEW n \in Run, Tick(n) \/ Works(n) PROVE Kept(j)
    <2>1. CASE Record(n)
        <3>1. n[1] \in Job /\ runs[n].nextRun \in Cron \cup {NoCron}
            BY DEF Run, IInv, RunsOK
        <3> QED BY <2>1, <3>1, NotedKeeps DEF Record
    <2>2. CASE Tick(n) \/ Load(n)
        BY <2>2 DEF Tick, Load
    <2> QED BY <1>7, <2>1, <2>2 DEF Works
<1>8. CASE Restart
    BY <1>8 DEF Restart
<1>9. CASE UNCHANGED vars
    BY <1>9 DEF vars
<1> QED BY <1>1, <1>2, <1>3, <1>4, <1>5, <1>6, <1>7, <1>8, <1>9 DEF Next

(* scheduler/index.ts "a job disabled/deleted between ticks is honored": a    *)
(* run, a late nextRun or a boot brings no deleted document back and leaves   *)
(* the expression and the switch of every job as they were saved.             *)
THEOREM OnlyOperatorsWrite == Spec => OnlyRequestsWrite
<1>1. IInv /\ [Next]_vars => [\A j \in Job : docs'[j] # docs[j] =>
         \/ \E r \in Running : Writes(r, j)
         \/ /\ docs[j] # NoDoc /\ docs'[j] # NoDoc
            /\ docs'[j].cron = docs[j].cron /\ docs'[j].enabled = docs[j].enabled]_docs
    BY RequestsWrite DEF Writing, Kept
<1> QED BY InitHolds, NextKeeps, <1>1, PTL DEF Spec, OnlyRequestsWrite

-----------------------------------------------------------------------------
(* The timers.  A document and its timer are written one after the other, and *)
(* a request that has the job to itself has, at every statement, what it      *)
(* still needs to bring the two together.                                     *)
Wants(d) == IF d # NoDoc /\ d.enabled THEN d.cron ELSE NoCron
Agree(d, e) == (d = NoDoc <=> e = NoDoc) /\ (d # NoDoc => d.cron = e.cron /\ d.enabled = e.enabled)

Saving      == <<"save", "apply", "note">>
Applying    == <<"apply", "note">>
Noting      == <<"note">>
Erasing     == <<"erase", "unschedule">>
Dropping    == <<"unschedule">>
Resetting   == <<"wipe", "unscheduleAll">>
Silencing   == <<"unscheduleAll">>
Restoring   == <<"wipe", "fill", "unscheduleAll", "enlist", "apply", "note">>
Filling     == <<"fill", "unscheduleAll", "enlist", "apply", "note">>
Rebuilding  == <<"unscheduleAll", "enlist", "apply", "note">>
Enlisting   == <<"enlist", "apply", "note">>

(* What a request with the job j still to write knows of its document d, of   *)
(* its timer t and of what was in disorder (m) before it.                     *)
Ahead(q, j, d, t, m) ==
    /\ q.todo \in {Saving, Erasing} => m \/ t = Wants(d)
    /\ q.todo \in {Dropping, Silencing} => d = NoDoc
    /\ q.todo = Enlisting => t = NoCron
    /\ q.todo = Applying => Agree(q.held[j], d) /\ (j \in Range(q.queue) \/ t = Wants(d))
    /\ q.todo = Noting => Agree(q.held[j], d) /\ (j \in Range(Tail(q.queue)) \/ t = Wants(d))

(* A request about one job has that job alone in its queue; a boot or a       *)
(* restore registers what it read as enabled.                                 *)
Queued(q) ==
    /\ q.todo \in {Saving, Erasing, Dropping} => ~q.all
    /\ q.todo \in {Resetting, Silencing, Restoring, Filling, Rebuilding, Enlisting} => q.all
    /\ ~q.all /\ q.todo # <<>> => Len(q.queue) = 1
    /\ q.all /\ q.todo \in Registering => \A i \in DOMAIN q.queue : q.held[q.queue[i]].enabled

Touch(q) == IF Over(q.todo, q.queue) THEN {} ELSE JobsOf(q)
TouchedBy(j) == {r \in Request : j \in Touch(requests[r])}
Orderly(j, r) == j \notin mess \/ r \in solo

QueuesOK == \A r \in Request : Queued(requests[r]) /\ (r > begun => requests[r].todo = <<>> /\ r \notin solo)
OneWriter == \A j \in Job : \A r, q \in TouchedBy(j) : Orderly(j, r) => q = r
OnTheWay ==
    \A j \in Job : \A r \in TouchedBy(j) :
        Orderly(j, r) => Ahead(requests[r], j, docs[j], timers[j], j \in mess)
Settled == \A j \in Job : j \notin mess /\ TouchedBy(j) = {} => timers[j] = Wants(docs[j])

TimersInv == QueuesOK /\ OneWriter /\ OnTheWay /\ Settled

(* The words of a handler: where it stands tells what it does next.           *)
LEMMA Words ==
    /\ Ways = {<<>>, Saving, Applying, Noting, Erasing, Dropping, Resetting, Silencing, Restoring, Filling,
               Rebuilding, Enlisting}
    /\ Registering = {Saving, Applying, Noting}
    /\ Head(Saving) = "save" /\ Head(Applying) = "apply" /\ Head(Noting) = "note" /\ Head(Erasing) = "erase"
    /\ Head(Dropping) = "unschedule" /\ Head(Resetting) = "wipe" /\ Head(Silencing) = "unscheduleAll"
    /\ Head(Restoring) = "wipe" /\ Head(Filling) = "fill" /\ Head(Rebuilding) = "unscheduleAll"
    /\ Head(Enlisting) = "enlist"
    /\ Resetting # Restoring /\ Silencing # Rebuilding
    /\ Saving # <<>> /\ Applying # <<>> /\ Noting # <<>> /\ Erasing # <<>> /\ Dropping # <<>>
    /\ Resetting # <<>> /\ Silencing # <<>> /\ Restoring # <<>> /\ Filling # <<>>
    /\ Rebuilding # <<>> /\ Enlisting # <<>>
    /\ Tail(Saving) = Applying /\ Tail(Applying) = Noting /\ Tail(Noting) = <<>>
    /\ Tail(Erasing) = Dropping /\ Tail(Dropping) = <<>>
    /\ Tail(Resetting) = Silencing /\ Tail(Silencing) = <<>>
    /\ Tail(Restoring) = Filling /\ Tail(Filling) = Rebuilding /\ Tail(Rebuilding) = Enlisting
    /\ Tail(Enlisting) = Applying
<1>1. /\ Ways = {<<>>, Saving, Applying, Noting, Erasing, Dropping, Resetting, Silencing, Restoring, Filling,
                 Rebuilding, Enlisting}
      /\ Registering = {Saving, Applying, Noting}
    BY DEF Ways, Registering, Saving, Applying, Noting, Erasing, Dropping, Resetting, Silencing, Restoring,
           Filling, Rebuilding, Enlisting
<1>2. /\ Head(Saving) = "save" /\ Head(Applying) = "apply" /\ Head(Noting) = "note" /\ Head(Erasing) = "erase"
      /\ Head(Dropping) = "unschedule" /\ Head(Resetting) = "wipe" /\ Head(Silencing) = "unscheduleAll"
      /\ Head(Restoring) = "wipe" /\ Head(Filling) = "fill" /\ Head(Rebuilding) = "unscheduleAll"
      /\ Head(Enlisting) = "enlist"
    BY DEF Saving, Applying, Noting, Erasing, Dropping, Resetting, Silencing, Restoring, Filling, Rebuilding,
           Enlisting
<1>3. Resetting # Restoring /\ Silencing # Rebuilding
    BY DEF Resetting, Restoring, Silencing, Rebuilding
<1>4. /\ Saving # <<>> /\ Applying # <<>> /\ Noting # <<>> /\ Erasing # <<>> /\ Dropping # <<>>
      /\ Resetting # <<>> /\ Silencing # <<>> /\ Restoring # <<>> /\ Filling # <<>>
      /\ Rebuilding # <<>> /\ Enlisting # <<>>
    BY DEF Saving, Applying, Noting, Erasing, Dropping, Resetting, Silencing, Restoring, Filling, Rebuilding,
           Enlisting
<1>5. /\ Tail(Saving) = Applying /\ Tail(Applying) = Noting /\ Tail(Noting) = <<>>
      /\ Tail(Erasing) = Dropping /\ Tail(Dropping) = <<>>
      /\ Tail(Resetting) = Silencing /\ Tail(Silencing) = <<>>
    BY DEF Saving, Applying, Noting, Erasing, Dropping, Resetting, Silencing
<1>6. Tail(Restoring) = Filling /\ Tail(Filling) = Rebuilding
    BY DEF Restoring, Filling, Rebuilding
<1>7. Tail(Rebuilding) = Enlisting /\ Tail(Enlisting) = Applying
    BY DEF Rebuilding, Enlisting, Applying
<1> QED BY <1>1, <1>2, <1>3, <1>4, <1>5, <1>6, <1>7

LEMMA WordOf ==
    ASSUME NEW t \in Ways, t # <<>>
    PROVE  /\ Head(t) = "save" => t = Saving
           /\ Head(t) = "apply" => t = Applying
           /\ Head(t) = "note" => t = Noting
           /\ Head(t) = "erase" => t = Erasing
           /\ Head(t) = "unschedule" => t = Dropping
           /\ Head(t) = "wipe" => t \in {Resetting, Restoring}
           /\ Head(t) = "fill" => t = Filling
           /\ Head(t) = "unscheduleAll" => t \in {Silencing, Rebuilding}
           /\ Head(t) = "enlist" => t = Enlisting
BY Words

LEMMA TouchIs == \A r : Touching(r) = Touch(requests[r])
BY DEF Touching, Touch

(* What counts of a document is its expression and its switch.                *)
LEMMA AgreeFacts ==
    /\ \A d : Agree(d, d)
    /\ \A d, e : Agree(d, e) => Agree(e, d) /\ Wants(d) = Wants(e)
    /\ \A d, e, f : Agree(d, e) /\ Agree(e, f) => Agree(d, f)
BY DEF Agree, Wants

LEMMA NotedAgrees ==
    ASSUME IInv, NEW i \in Job, NEW c \in Cron \cup {NoCron}, docs' = Noted(i, c), NEW j \in Job
    PROVE  Agree(docs[j], docs'[j])
<1>1. CASE docs'[j] = docs[j]
    BY <1>1, AgreeFacts
<1>2. CASE docs'[j] # docs[j]
    BY <1>2, NotedKeeps DEF Kept, Agree
<1> QED BY <1>1, <1>2

LEMMA AheadAgrees ==
    ASSUME NEW q, NEW j, NEW d, NEW e, NEW t, NEW m, NEW n, Agree(d, e), Ahead(q, j, d, t, m), m => n
    PROVE  Ahead(q, j, e, t, n)
<1>1. Wants(d) = Wants(e) /\ (d = NoDoc <=> e = NoDoc) /\ (Agree(q.held[j], d) => Agree(q.held[j], e))
    BY AgreeFacts DEF Agree
<1> QED BY <1>1 DEF Ahead

(* Nothing a request or a timer has to do with changes.                       *)
LEMMA Undisturbed ==
    ASSUME TimersInv, requests' = requests, begun' = begun, solo' = solo, mess' = mess, timers' = timers,
           \A j \in Job : Agree(docs[j], docs'[j])
    PROVE  TimersInv'
<1>1. \A j : TouchedBy(j)' = TouchedBy(j)
    BY DEF TouchedBy
<1>2. \A j, r : Orderly(j, r)' = Orderly(j, r)
    BY DEF Orderly
<1>3. QueuesOK' /\ OneWriter'
    BY <1>1, <1>2 DEF TimersInv, QueuesOK, OneWriter
<1>4. OnTheWay'
    BY <1>1, <1>2, AheadAgrees DEF TimersInv, OnTheWay
<1>5. Settled'
    BY <1>1, AgreeFacts DEF TimersInv, Settled
<1> QED BY <1>3, <1>4, <1>5 DEF TimersInv

(* A request goes on, or ends, alone: the others keep what they know, and it  *)
(* leaves each of its jobs either on the way or settled.                      *)
Advance(r, q) ==
    /\ requests' = [requests EXCEPT ![r] = q] /\ begun' = begun /\ solo' = solo
    /\ Queued(q) /\ Touch(q) \subseteq Touch(requests[r])
    /\ \A j \in Job \ Touch(requests[r]) : Agree(docs[j], docs'[j]) /\ timers'[j] = timers[j]
    /\ \A j \in Job \cap Touch(requests[r]) :
         Orderly(j, r) /\ Ahead(requests[r], j, docs[j], timers[j], j \in mess) =>
             IF j \in Touch(q) THEN Ahead(q, j, docs'[j], timers'[j], j \in mess')
             ELSE j \in mess' \/ timers'[j] = Wants(docs'[j])
    /\ \A j \in mess \ mess' : r \in solo /\ j \in Touch(requests[r]) /\ j \notin Touch(q)

LEMMA AdvanceKeeps ==
    ASSUME IInv, TimersInv, NEW r \in Request, requests[r].todo # <<>>, NEW q, Advance(r, q)
    PROVE  TimersInv'
<1>1. /\ requests'[r] = q /\ \A s \in Request \ {r} : requests'[s] = requests[s]
      /\ mess \subseteq Job
    BY DEF Advance, IInv, RequestsOK, CountsOK
<1>3. QueuesOK'
    BY <1>1 DEF TimersInv, QueuesOK, Advance
<1>4. ASSUME NEW j \in Job
      PROVE  /\ TouchedBy(j)' \subseteq TouchedBy(j)
             /\ r \in TouchedBy(j) <=> j \in Touch(requests[r])
             /\ r \in TouchedBy(j)' <=> j \in Touch(q)
             /\ \A s \in Request \ {r} : s \in TouchedBy(j)' <=> s \in TouchedBy(j)
    BY <1>1 DEF TouchedBy, Advance
<1>5. ASSUME NEW j \in Job, NEW s \in TouchedBy(j)', Orderly(j, s)'
      PROVE  Orderly(j, s) /\ ~(j \in mess /\ j \notin mess')
  <2>1. CASE j \in mess /\ j \notin mess'
    <3>1. r \in solo /\ r \in TouchedBy(j) /\ r \notin TouchedBy(j)'
      BY <1>4, <2>1 DEF Advance
    <3>2. Orderly(j, r) /\ s \in TouchedBy(j)
      BY <1>4, <3>1 DEF Orderly
    <3>3. s = r
      BY <3>1, <3>2 DEF TimersInv, OneWriter
    <3> QED BY <3>1, <3>3, <1>5
  <2>2. CASE ~(j \in mess /\ j \notin mess')
    BY <1>5, <2>2 DEF Orderly, Advance
  <2> QED BY <2>1, <2>2
<1>6. OneWriter'
  <2> SUFFICES ASSUME NEW j \in Job, NEW s \in TouchedBy(j)', NEW p \in TouchedBy(j)', Orderly(j, s)'
               PROVE  p = s
    BY DEF OneWriter
  <2> QED BY <1>4, <1>5 DEF TimersInv, OneWriter
<1>7. OnTheWay'
  <2> SUFFICES ASSUME NEW j \in Job, NEW s \in TouchedBy(j)', Orderly(j, s)'
               PROVE  Ahead(requests'[s], j, docs'[j], timers'[j], j \in mess')
    BY DEF OnTheWay
  <2>1. /\ s \in TouchedBy(j) /\ s \in Request /\ Orderly(j, s)
        /\ Ahead(requests[s], j, docs[j], timers[j], j \in mess)
    BY <1>4, <1>5 DEF TimersInv, OnTheWay, TouchedBy
  <2>2. CASE s = r
    BY <1>1, <1>4, <2>1, <2>2 DEF Advance
  <2>3. CASE s # r
    <3>1. r \notin TouchedBy(j)
      BY <2>1, <2>3 DEF TimersInv, OneWriter
    <3>2. Agree(docs[j], docs'[j]) /\ timers'[j] = timers[j] /\ requests'[s] = requests[s]
      BY <1>1, <1>4, <2>1, <2>3, <3>1 DEF Advance
    <3>3. j \in mess => j \in mess'
      BY <1>5
    <3> QED BY <2>1, <3>2, <3>3, AheadAgrees
  <2> QED BY <2>2, <2>3
<1>8. Settled'
  <2> SUFFICES ASSUME NEW j \in Job, j \notin mess', TouchedBy(j)' = {}
               PROVE  timers'[j] = Wants(docs'[j])
    BY DEF Settled
  <2>1. CASE r \in TouchedBy(j)
    <3>1. j \in Touch(requests[r]) /\ j \notin Touch(q)
      BY <1>4, <2>1
    <3>2. Orderly(j, r)
      BY DEF Orderly, Advance
    <3>3. Ahead(requests[r], j, docs[j], timers[j], j \in mess)
      BY <2>1, <3>2 DEF TimersInv, OnTheWay
    <3> QED BY <3>1, <3>2, <3>3 DEF Advance
  <2>2. CASE r \notin TouchedBy(j)
    <3>1. TouchedBy(j) = {}
      BY <1>4, <2>2 DEF TouchedBy
    <3>2. j \notin mess
      BY <1>4, <2>2 DEF Advance
    <3>3. Agree(docs[j], docs'[j]) /\ timers'[j] = timers[j]
      BY <1>4, <2>2 DEF Advance
    <3> QED BY <3>1, <3>2, <3>3, AgreeFacts DEF TimersInv, Settled
  <2> QED BY <2>1, <2>2
<1> QED BY <1>3, <1>6, <1>7, <1>8 DEF TimersInv

(* What a request that is over clears is what it had to write.                *)
LEMMA ContinueAdvances ==
    ASSUME IInv, TimersInv, NEW r \in Request, requests[r].todo # <<>>, NEW q, Continue(r, q),
           Queued(q), Touch(q) \subseteq Touch(requests[r]),
           \A j \in Job \ Touch(requests[r]) : Agree(docs[j], docs'[j]) /\ timers'[j] = timers[j],
           \A j \in Job \cap Touch(requests[r]) :
             Orderly(j, r) /\ Ahead(requests[r], j, docs[j], timers[j], j \in mess) =>
                 IF j \in Touch(q) THEN Ahead(q, j, docs'[j], timers'[j], j \in mess)
                 ELSE timers'[j] = Wants(docs'[j])
    PROVE  TimersInv'
<1> DEFINE p == IF q.todo = <<>> THEN Idle ELSE q
<1>1. Idle.todo = <<>> /\ Touch(Idle) = {} /\ Queued(Idle)
    BY Words DEF Idle, Touch, Over, Queued
<1>2. Queued(p) /\ Touch(p) = Touch(q) /\ (p = q \/ Touch(q) = {})
    BY <1>1 DEF Touch, Over
<1>3. /\ requests' = [requests EXCEPT ![r] = p] /\ begun' = begun /\ solo' = solo
      /\ mess' = IF Touch(requests[r]) # {} /\ Over(q.todo, q.queue) /\ r \in solo
                 THEN mess \ JobsOf(requests[r]) ELSE mess
    BY TouchIs DEF Continue
<1> HIDE DEF p
<1>4. Touch(q) # {} => mess' = mess
    BY <1>3 DEF Touch
<1>5. \A j \in mess \ mess' : r \in solo /\ j \in Touch(requests[r]) /\ j \notin Touch(p)
    BY <1>2, <1>3 DEF Touch
<1>6. Advance(r, p)
    BY <1>2, <1>3, <1>4, <1>5 DEF Advance
<1> QED BY <1>6, AdvanceKeeps
-----------------------------------------------------------------------------
(* The statements, one by one.                                                *)
LEMMA AtWork ==
    ASSUME IInv, TimersInv, NEW r \in Request, requests[r].todo # <<>>
    PROVE  LET q == requests[r] IN
           /\ RequestOK(q) /\ q \in RequestType /\ Queued(q) /\ q.todo \in Ways
           /\ q.todo # Noting => Touch(q) = JobsOf(q)
           /\ q.all => JobsOf(q) = Job
           /\ ~q.all => JobsOf(q) = {This(r)} /\ Len(q.queue) = 1
<1>1. RequestOK(requests[r]) /\ requests[r] \in RequestType /\ Queued(requests[r])
    BY DEF IInv, RequestsOK, RequestOK, TimersInv, QueuesOK
<1> QED BY <1>1 DEF RequestType, Queued, Touch, Over, Noting, JobsOf, This

LEMMA GoFacts ==
    ASSUME IInv, TimersInv, NEW r \in Request, requests[r].todo # <<>>, Go(r),
           Tail(requests[r].todo) # Noting
    PROVE  LET t == Tail(requests[r].todo) IN
           \E q : /\ Continue(r, q) /\ q.todo = t /\ q.queue = requests[r].queue
                  /\ q.all = requests[r].all /\ q.held = requests[r].held
                  /\ Touch(q) = IF t = <<>> THEN {} ELSE JobsOf(requests[r])
<1> DEFINE q == [requests[r] EXCEPT !.todo = Tail(@)]
           t == Tail(requests[r].todo)
<1>1. requests[r] \in RequestType
    BY AtWork
<1>2. /\ q.todo = t /\ q.queue = requests[r].queue /\ q.all = requests[r].all /\ q.held = requests[r].held
      /\ Continue(r, q)
    BY <1>1 DEF RequestType, Go
<1> HIDE DEF q
<1>3. Touch(q) = IF t = <<>> THEN {} ELSE JobsOf(requests[r])
    BY <1>2 DEF Touch, Over, JobsOf, Noting
<1> QED BY <1>2, <1>3

LEMMA UpsertTimes ==
    ASSUME IInv, TimersInv, NEW r \in Request, Upsert(r)
    PROVE  TimersInv'
<1> DEFINE i == This(r)
           d == [requests[r].held[i] EXCEPT !.nextRun = IF docs[i] = NoDoc THEN NoCron ELSE docs[i].nextRun]
<1>1. requests[r].todo = Saving /\ requests[r].todo # <<>> /\ Tail(requests[r].todo) = Applying /\ ~requests[r].all
    BY AtWork, WordOf, Words DEF Upsert, Statement, Queued
<1>2. i \in Job /\ requests[r].held[i] \in Doc /\ requests[r].queue \in Seq(Job) /\ requests[r].queue # <<>>
    BY InHand DEF Upsert, Statement
<1>3. Touch(requests[r]) = {i} /\ JobsOf(requests[r]) = {i} /\ Len(requests[r].queue) = 1
    BY <1>1, AtWork, Words
<1>4. i \in Range(requests[r].queue)
    BY <1>2, <1>3 DEF Range, This
<1>5. PICK q : /\ Continue(r, q) /\ q.todo = Applying /\ q.queue = requests[r].queue
               /\ q.all = requests[r].all /\ q.held = requests[r].held /\ Touch(q) = {i}
  <2>1. Tail(requests[r].todo) = Applying /\ Applying # Noting /\ Applying # <<>> /\ Go(r)
    BY <1>1, Words DEF Upsert
  <2> QED BY <1>1, <1>3, <2>1, GoFacts
<1>6. Queued(q)
    BY <1>1, <1>3, <1>5, Words DEF Queued
<1>7. Agree(requests[r].held[i], d)
  <2>1. d # NoDoc /\ d.cron = requests[r].held[i].cron /\ d.enabled = requests[r].held[i].enabled
    <3>1. (IF docs[i] = NoDoc THEN NoCron ELSE docs[i].nextRun) \in Cron \cup {NoCron}
      BY <1>2 DEF IInv, DocsOK, DocOrNone, Doc
    <3>2. d \in Doc
      BY <1>2, <3>1 DEF Doc
    <3> QED BY <1>2, <3>2, JobsAssumption DEF JobsAssumption, Doc
  <2>2. requests[r].held[i] # NoDoc
    BY <1>2, JobsAssumption DEF JobsAssumption
  <2> QED BY <2>1, <2>2 DEF Agree
<1>8. docs' = [docs EXCEPT ![i] = d] /\ timers' = timers
    BY DEF Upsert
<1> HIDE DEF d, i
<1>9. docs'[i] = d /\ \A j \in Job \ {i} : docs'[j] = docs[j]
    BY <1>2, <1>8 DEF IInv, DocsOK
<1>10. Ahead(q, i, docs'[i], timers'[i], i \in mess)
    BY <1>4, <1>5, <1>7, <1>9, Words DEF Ahead
<1> QED BY <1>1, <1>3, <1>5, <1>6, <1>8, <1>9, <1>10, AgreeFacts, ContinueAdvances

LEMMA EraseTimes ==
    ASSUME IInv, TimersInv, NEW r \in Request, Erase(r)
    PROVE  TimersInv'
<1> DEFINE i == This(r)
<1>1. requests[r].todo = Erasing /\ requests[r].todo # <<>> /\ Tail(requests[r].todo) = Dropping /\ ~requests[r].all
    BY AtWork, WordOf, Words DEF Erase, Statement, Queued
<1>2. Touch(requests[r]) = {i} /\ JobsOf(requests[r]) = {i} /\ Len(requests[r].queue) = 1
    BY <1>1, AtWork, Words
<1>3. PICK q : /\ Continue(r, q) /\ q.todo = Dropping /\ q.queue = requests[r].queue
               /\ q.all = requests[r].all /\ q.held = requests[r].held /\ Touch(q) = {i}
  <2>1. Tail(requests[r].todo) = Dropping /\ Dropping # Noting /\ Dropping # <<>> /\ Go(r)
    BY <1>1, Words DEF Erase
  <2> QED BY <1>1, <1>2, <2>1, GoFacts
<1>4. Queued(q)
    BY <1>1, <1>2, <1>3, Words DEF Queued
<1>5. docs' = [docs EXCEPT ![i] = NoDoc] /\ timers' = timers
    BY DEF Erase
<1> HIDE DEF i
<1>6. (i \in Job => docs'[i] = NoDoc) /\ \A j \in Job \ {i} : docs'[j] = docs[j]
    BY <1>5 DEF IInv, DocsOK
<1>7. i \in Job => Ahead(q, i, docs'[i], timers'[i], i \in mess)
    BY <1>3, <1>6, Words DEF Ahead
<1> QED BY <1>1, <1>2, <1>3, <1>4, <1>5, <1>6, <1>7, AgreeFacts, ContinueAdvances

LEMMA UnscheduleTimes ==
    ASSUME IInv, TimersInv, NEW r \in Request, Unschedule(r)
    PROVE  TimersInv'
<1> DEFINE i == This(r)
<1>1. requests[r].todo = Dropping /\ requests[r].todo # <<>> /\ Tail(requests[r].todo) = <<>> /\ ~requests[r].all
    BY AtWork, WordOf, Words DEF Unschedule, Statement, Queued
<1>2. Touch(requests[r]) = {i} /\ Len(requests[r].queue) = 1
    BY <1>1, AtWork, Words
<1>3. PICK q : /\ Continue(r, q) /\ q.todo = <<>> /\ q.queue = requests[r].queue
               /\ q.all = requests[r].all /\ Touch(q) = {}
    BY <1>1, GoFacts, Words DEF Unschedule
<1>4. Queued(q)
    BY <1>3, Words DEF Queued
<1>5. timers' = [timers EXCEPT ![i] = NoCron] /\ docs' = docs
    BY DEF Unschedule
<1> HIDE DEF i
<1>6. (i \in Job => timers'[i] = NoCron) /\ \A j \in Job \ {i} : timers'[j] = timers[j]
    BY <1>5 DEF IInv, DocsOK
<1>7. Ahead(requests[r], i, docs[i], timers[i], i \in mess) => docs[i] = NoDoc
    BY <1>1 DEF Ahead
<1>8. Wants(NoDoc) = NoCron
    BY DEF Wants
<1> QED BY <1>1, <1>2, <1>3, <1>4, <1>5, <1>6, <1>7, <1>8, AgreeFacts, ContinueAdvances

LEMMA WipeTimes ==
    ASSUME IInv, TimersInv, NEW r \in Request, Wipe(r)
    PROVE  TimersInv'
<1>1. requests[r].todo \in {Resetting, Restoring} /\ requests[r].todo # <<>> /\ requests[r].all
    BY AtWork, WordOf, Words DEF Wipe, Statement, Queued
<1>2. Tail(requests[r].todo) \in {Silencing, Filling}
    BY <1>1, Words
<1>3. Touch(requests[r]) = Job /\ JobsOf(requests[r]) = Job
    BY <1>1, AtWork, Words
<1>4. PICK q : /\ Continue(r, q) /\ q.todo = Tail(requests[r].todo) /\ q.queue = requests[r].queue
               /\ q.all = requests[r].all /\ q.held = requests[r].held /\ Touch(q) = Job
  <2>1. Tail(requests[r].todo) # Noting /\ Tail(requests[r].todo) # <<>> /\ Go(r)
    BY <1>2, Words DEF Wipe
  <2> QED BY <1>1, <1>3, <2>1, GoFacts
<1>5. Queued(q)
    BY <1>1, <1>2, <1>4, Words DEF Queued
<1>6. \A j \in Job : docs'[j] = NoDoc
    BY DEF Wipe, None
<1>7. \A j \in Job : Ahead(q, j, docs'[j], timers'[j], j \in mess)
    BY <1>2, <1>4, <1>6, Words DEF Ahead
<1> QED BY <1>1, <1>3, <1>4, <1>5, <1>7, ContinueAdvances

LEMMA FillTimes ==
    ASSUME IInv, TimersInv, NEW r \in Request, Fill(r)
    PROVE  TimersInv'
<1>1. requests[r].todo = Filling /\ requests[r].todo # <<>> /\ Tail(requests[r].todo) = Rebuilding /\ requests[r].all
    BY AtWork, WordOf, Words DEF Fill, Statement, Queued
<1>2. Touch(requests[r]) = Job /\ JobsOf(requests[r]) = Job
    BY <1>1, AtWork, Words
<1>3. PICK q : /\ Continue(r, q) /\ q.todo = Rebuilding /\ q.queue = requests[r].queue
               /\ q.all = requests[r].all /\ q.held = requests[r].held /\ Touch(q) = Job
  <2>1. Tail(requests[r].todo) = Rebuilding /\ Rebuilding # Noting /\ Rebuilding # <<>> /\ Go(r)
    BY <1>1, Words DEF Fill
  <2> QED BY <1>1, <1>2, <2>1, GoFacts
<1>4. Queued(q)
    BY <1>1, <1>3, Words DEF Queued
<1>5. \A j \in Job : Ahead(q, j, docs'[j], timers'[j], j \in mess)
    BY <1>3, Words DEF Ahead
<1> QED BY <1>1, <1>2, <1>3, <1>4, <1>5, ContinueAdvances

LEMMA UnscheduleAllTimes ==
    ASSUME IInv, TimersInv, NEW r \in Request, UnscheduleAll(r)
    PROVE  TimersInv'
<1>1. requests[r].todo \in {Silencing, Rebuilding} /\ requests[r].todo # <<>> /\ requests[r].all
    BY AtWork, WordOf, Words DEF UnscheduleAll, Statement, Queued
<1>2. Touch(requests[r]) = Job /\ JobsOf(requests[r]) = Job
    BY <1>1, AtWork, Words
<1>3. docs' = docs /\ \A j \in Job : timers'[j] = NoCron
    BY DEF UnscheduleAll
<1>4. CASE requests[r].todo = Silencing
  <2>1. PICK q : Continue(r, q) /\ q.todo = <<>> /\ Touch(q) = {}
    BY <1>1, <1>4, GoFacts, Words DEF UnscheduleAll
  <2>2. Queued(q)
    BY <2>1, Words DEF Queued
  <2>3. \A j \in Job : Ahead(requests[r], j, docs[j], timers[j], j \in mess) => docs[j] = NoDoc
    BY <1>4 DEF Ahead
  <2>4. Wants(NoDoc) = NoCron
    BY DEF Wants
  <2> QED BY <1>1, <1>2, <1>3, <2>1, <2>2, <2>3, <2>4, ContinueAdvances
<1>5. CASE requests[r].todo = Rebuilding
  <2>1. PICK q : /\ Continue(r, q) /\ q.todo = Enlisting /\ q.queue = requests[r].queue
                 /\ q.all = requests[r].all /\ q.held = requests[r].held /\ Touch(q) = Job
    <3>1. Tail(requests[r].todo) = Enlisting /\ Enlisting # Noting /\ Enlisting # <<>> /\ Go(r)
      BY <1>5, Words DEF UnscheduleAll
    <3> QED BY <1>1, <1>2, <3>1, GoFacts
  <2>2. Queued(q)
    BY <1>1, <2>1, Words DEF Queued
  <2>3. \A j \in Job : Ahead(q, j, docs'[j], timers'[j], j \in mess)
    BY <1>3, <2>1, Words DEF Ahead
  <2> QED BY <1>1, <1>2, <2>1, <2>2, <2>3, ContinueAdvances
<1> QED BY <1>1, <1>4, <1>5

(* SetToSeq lists every member of a finite set. *)
LEMMA ListsAll ==
    ASSUME NEW S \in SUBSET Job, NEW j \in S
    PROVE  j \in Range(SetToSeq(S))
<1>1. IsFiniteSet(S)
    BY JobsAssumption, FS_Subset DEF JobsAssumption
<1>2. Cardinality(S) \in Nat
    BY <1>1, FS_CardinalityType
<1> DEFINE n == Cardinality(S)
           f == SetToSeq(S)
<1>3. ExistsBijection(1..n, S)
    BY <1>1, FS_CardinalityType
<1>4. \E g \in [1..n -> S] : IsInjective(g)
    BY <1>3 DEF ExistsBijection, Bijection, Injection, IsInjective
<1>5. f \in [1..n -> S] /\ IsInjective(f)
    BY <1>4 DEF SetToSeq
<1>6. Cardinality(1..n) = n
    BY <1>2, FS_Interval
<1> HIDE DEF f, n
<1>7. f \in Injection(1..n, S)
    BY <1>5 DEF Injection, IsInjective
<1>8. f \in Surjection(1..n, S)
    BY <1>1, <1>6, <1>7, FS_Injection DEF n
<1>9. PICK i \in 1..n : f[i] = j
    BY <1>8 DEF Surjection
<1>10. DOMAIN f = 1..n
    BY <1>5
<1>11. j \in Range(f)
    BY <1>9, <1>10 DEF Range
<1> QED BY <1>11 DEF f

LEMMA RangeTail ==
    ASSUME NEW s \in Seq(Job), s # <<>>
    PROVE  /\ Head(s) \in Range(s)
           /\ \A j \in Range(s) : j = Head(s) \/ j \in Range(Tail(s))
           /\ Len(s) = 1 <=> Tail(s) = <<>>
           /\ Len(s) = 1 => Range(Tail(s)) = {}
<1>1. /\ Len(s) \in Nat \ {0} /\ DOMAIN s = 1..Len(s) /\ Head(s) = s[1]
      /\ Tail(s) \in Seq(Job) /\ Len(Tail(s)) = Len(s) - 1 /\ DOMAIN Tail(s) = 1..(Len(s) - 1)
      /\ \A i \in 1..(Len(s) - 1) : Tail(s)[i] = s[i + 1]
    OBVIOUS
<1>2. ASSUME NEW j \in Range(s), j # Head(s)
      PROVE  j \in Range(Tail(s))
  <2>1. PICK k \in 1..Len(s) : s[k] = j
    BY <1>1 DEF Range
  <2> DEFINE i == k - 1
  <2>2. i \in 1..(Len(s) - 1) /\ i + 1 = k
    BY <1>1, <1>2, <2>1
  <2> HIDE DEF i
  <2>3. Tail(s)[i] = j
    BY <1>1, <2>1, <2>2
  <2> QED BY <1>1, <2>2, <2>3 DEF Range
<1>3. Head(s) \in Range(s)
    BY <1>1 DEF Range
<1>4. Len(s) = 1 => Range(Tail(s)) = {}
    BY <1>1 DEF Range
<1>5. Len(s) = 1 <=> Tail(s) = <<>>
  <2>1. \A t \in Seq(Job) : t = <<>> <=> Len(t) = 0
    OBVIOUS
  <2>2. Tail(s) \in Seq(Job) /\ Len(Tail(s)) = Len(s) - 1 /\ Len(s) \in Nat
    BY <1>1
  <2>3. Tail(s) = <<>> <=> Len(Tail(s)) = 0
    BY <2>1, <2>2, Zenon
  <2>4. Len(Tail(s)) = 0 <=> Len(s) = 1
    BY <2>2
  <2> QED BY <2>3, <2>4, Zenon
<1> QED BY <1>2, <1>3, <1>4, <1>5

LEMMA ApplyTimes ==
    ASSUME IInv, TimersInv, NEW r \in Request, Apply(r)
    PROVE  TimersInv'
<1> DEFINE i == This(r)
           p == requests[r]
           d == p.held[i]
           q == [p EXCEPT !.todo = IF d.enabled THEN Tail(@) ELSE <<>>]
<1>1. p.todo = Applying /\ p.todo # <<>> /\ Tail(p.todo) = Noting /\ Queued(p) /\ p \in RequestType
    BY AtWork, WordOf, Words DEF Apply, Statement
<1>2. i \in Job /\ d \in Doc /\ d # NoDoc /\ p.queue \in Seq(Job) /\ p.queue # <<>> /\ i = Head(p.queue)
    BY InHand, JobsAssumption DEF Apply, Statement, This, JobsAssumption
<1>3. /\ Touch(p) = JobsOf(p) /\ (p.all => JobsOf(p) = Job) /\ (~p.all => JobsOf(p) = {i} /\ Len(p.queue) = 1)
    BY <1>1, AtWork, Words
<1>4. /\ q.todo = IF d.enabled THEN Noting ELSE <<>>
      /\ q.queue = p.queue /\ q.all = p.all /\ q.held = p.held /\ Continue(r, q)
    BY <1>1 DEF RequestType, Apply
<1>5. docs' = docs /\ timers' = [timers EXCEPT ![i] = IF d.enabled THEN d.cron ELSE NoCron]
    BY DEF Apply
<1>6. p.all => d.enabled
  <2>1. 1 \in DOMAIN p.queue /\ p.queue[1] = i
    BY <1>2
  <2> QED BY <1>1, <2>1, Words DEF Queued
<1>7. requests[r] = p
    OBVIOUS
<1> HIDE DEF q, d, i, p
<1>8. timers'[i] = Wants(d) /\ \A j \in Job \ {i} : timers'[j] = timers[j]
    BY <1>2, <1>5 DEF IInv, DocsOK, Wants
<1>9. Queued(q)
    BY <1>1, <1>3, <1>4, Words DEF Queued
<1>10. \A j \in Job \ Touch(p) : j # i
    BY <1>2, <1>3
<1>11. Touch(q) = IF d.enabled /\ Len(p.queue) # 1 THEN Touch(p) ELSE {}
    BY <1>3, <1>4, Words DEF Touch, Over, JobsOf, Noting
<1>12. ASSUME NEW j \in Job, j \in Touch(p), Ahead(p, j, docs[j], timers[j], j \in mess)
       PROVE  IF j \in Touch(q) THEN Ahead(q, j, docs'[j], timers'[j], j \in mess)
              ELSE timers'[j] = Wants(docs'[j])
  <2>1. Agree(p.held[j], docs[j]) /\ (j \in Range(p.queue) \/ timers[j] = Wants(docs[j]))
    BY <1>1, <1>12 DEF Ahead
  <2>2. Wants(p.held[j]) = Wants(docs[j])
    BY <2>1, AgreeFacts
  <2>3. j = i => timers'[j] = Wants(docs[j])
    BY <1>8, <2>2 DEF d
  <2>4. j # i => timers'[j] = timers[j] /\ (j \in Range(Tail(p.queue)) \/ timers[j] = Wants(docs[j]))
    BY <1>2, <1>8, <2>1, RangeTail
  <2>5. j \in Range(Tail(p.queue)) \/ timers'[j] = Wants(docs[j])
    BY <2>3, <2>4
  <2>6. CASE j \in Touch(q)
    <3>1. q.todo = Noting
      BY <1>4, <1>11, <2>6
    <3>2. Ahead(q, j, docs'[j], timers'[j], j \in mess)
      BY <1>4, <1>5, <2>1, <2>5, <3>1, Words DEF Ahead
    <3> QED BY <2>6, <3>2
  <2>7. CASE j \notin Touch(q)
    <3>1. ~d.enabled \/ Len(p.queue) = 1
      BY <1>11, <1>12, <2>7
    <3>2. ~d.enabled => Len(p.queue) = 1
      BY <1>3, <1>6
    <3>3. Range(Tail(p.queue)) = {}
      BY <1>2, <3>1, <3>2, RangeTail
    <3> QED BY <1>5, <2>5, <2>7, <3>3
  <2> QED BY <2>6, <2>7
<1> QED BY <1>1, <1>4, <1>5, <1>7, <1>8, <1>9, <1>10, <1>11, <1>12, AgreeFacts, ContinueAdvances

LEMMA NoteTimes ==
    ASSUME IInv, TimersInv, NEW r \in Request, Note(r)
    PROVE  TimersInv'
<1> DEFINE i == This(r)
           p == requests[r]
           rest == Tail(p.queue)
           q == NextInQueue(r)
<1>1. p.todo = Noting /\ p.todo # <<>> /\ Queued(p) /\ p \in RequestType
    BY AtWork, WordOf, Words DEF Note, Statement
<1>2. i \in Job /\ p.held[i] \in Doc /\ p.queue \in Seq(Job) /\ p.queue # <<>>
    BY InHand DEF Note, Statement
<1>3. /\ q.todo = (IF rest = <<>> THEN <<>> ELSE Applying)
      /\ q.queue = rest /\ q.all = p.all /\ q.held = p.held /\ Continue(r, q)
    BY <1>1 DEF RequestType, Note, NextInQueue, Applying
<1>4. timers' = timers /\ \A j \in Job : Agree(docs[j], docs'[j])
    BY <1>2, NotedAgrees DEF Note, Doc
<1>5. rest \in Seq(Job) /\ \A k \in DOMAIN rest : k + 1 \in DOMAIN p.queue /\ rest[k] = p.queue[k + 1]
    BY <1>2
<1>6. requests[r] = p
    OBVIOUS
<1>7. (Len(p.queue) = 1 <=> rest = <<>>) /\ (p.all \/ Len(p.queue) = 1)
    BY <1>1, <1>2, RangeTail DEF Queued
<1> HIDE DEF q, i, p
<1>8. Queued(q)
  <2>1. CASE rest = <<>>
    BY <1>3, <2>1, Words DEF Queued
  <2>2. CASE rest # <<>>
    <3>1. p.all /\ q.all
      BY <1>3, <1>7, <2>2
    <3>2. \A k \in DOMAIN rest : p.held[rest[k]].enabled
      BY <1>1, <1>5, <3>1, Words DEF Queued
    <3> QED BY <1>3, <2>2, <3>1, <3>2, Words DEF Queued
  <2> QED BY <2>1, <2>2
<1>9. /\ Touch(p) = (IF rest = <<>> THEN {} ELSE Job)
      /\ Touch(q) = Touch(p)
    BY <1>1, <1>3, <1>7, Words DEF Touch, Over, JobsOf, Noting
<1>10. ASSUME NEW j \in Job, j \in Touch(p), Ahead(p, j, docs[j], timers[j], j \in mess)
       PROVE  Ahead(q, j, docs'[j], timers'[j], j \in mess)
  <2>1. Agree(p.held[j], docs[j]) /\ (j \in Range(rest) \/ timers[j] = Wants(docs[j]))
    BY <1>1, <1>10 DEF Ahead
  <2>2. Agree(p.held[j], docs'[j]) /\ Wants(docs[j]) = Wants(docs'[j])
    BY <1>4, <2>1, AgreeFacts
  <2>3. q.todo = Applying
    BY <1>3, <1>9, <1>10
  <2> QED BY <1>3, <1>4, <2>1, <2>2, <2>3, Words DEF Ahead
<1> QED BY <1>1, <1>3, <1>4, <1>6, <1>8, <1>9, <1>10, ContinueAdvances

LEMMA EnlistTimes ==
    ASSUME IInv, TimersInv, NEW r \in Request, Enlist(r)
    PROVE  TimersInv'
<1> DEFINE p == requests[r]
           on == {j \in Job : docs[j] # NoDoc /\ docs[j].enabled}
           q == [p EXCEPT !.queue = SetToSeq(on), !.held = docs, !.todo = IF on = {} THEN <<>> ELSE Tail(@)]
<1>1. p.todo = Enlisting /\ p.todo # <<>> /\ Tail(p.todo) = Applying /\ p.all /\ p \in RequestType
    BY AtWork, WordOf, Words DEF Enlist, Statement, Queued
<1>2. Touch(p) = Job
    BY <1>1, AtWork, Words
<1>3. /\ q.todo = (IF on = {} THEN <<>> ELSE Applying)
      /\ q.queue = SetToSeq(on) /\ q.all = p.all /\ q.held = docs /\ Continue(r, q)
    BY <1>1 DEF RequestType, Enlist
<1>4. docs' = docs /\ timers' = timers
    BY DEF Enlist
<1>5. requests[r] = p
    OBVIOUS
<1>6. \A k \in DOMAIN SetToSeq(on) : docs[SetToSeq(on)[k]].enabled
    BY Listing
<1>7. \A j \in on : j \in Range(SetToSeq(on))
    BY ListsAll
<1>8. \A j \in Job \ on : Wants(docs[j]) = NoCron
    BY DEF Wants
<1>9. on \subseteq Job
    OBVIOUS
<1> HIDE DEF q, p, on
<1>10. Queued(q)
    BY <1>1, <1>3, <1>6, Words DEF Queued
<1>11. Touch(q) = IF on = {} THEN {} ELSE Job
    BY <1>1, <1>3, Words DEF Touch, Over, JobsOf, Noting
<1>12. ASSUME NEW j \in Job, Ahead(p, j, docs[j], timers[j], j \in mess)
       PROVE  IF j \in Touch(q) THEN Ahead(q, j, docs'[j], timers'[j], j \in mess)
              ELSE timers'[j] = Wants(docs'[j])
  <2>1. timers[j] = NoCron
    BY <1>1, <1>12 DEF Ahead
  <2>2. CASE on = {}
    BY <1>4, <1>8, <1>11, <2>1, <2>2
  <2>3. CASE on # {}
    <3>1. q.todo = Applying /\ j \in Touch(q)
      BY <1>3, <1>11, <2>3
    <3>2. Agree(docs[j], docs[j])
      BY AgreeFacts
    <3>3. j \in Range(q.queue) \/ timers[j] = Wants(docs[j])
      BY <1>3, <1>7, <1>8, <2>1
    <3>4. Ahead(q, j, docs'[j], timers'[j], j \in mess)
      BY <1>3, <1>4, <3>1, <3>2, <3>3, Words DEF Ahead
    <3> QED BY <3>1, <3>4
  <2> QED BY <2>2, <2>3
<1> QED BY <1>1, <1>2, <1>3, <1>5, <1>10, <1>11, <1>12, ContinueAdvances

(* A statement that fails ends the request and leaves the job as it was, or   *)
(* leaves every job in disorder; a restore goes on, and unschedules them all. *)
LEMMA FaultTimes ==
    ASSUME IInv, TimersInv, NEW r \in Request, Fault(r)
    PROVE  TimersInv'
<1> DEFINE p == requests[r]
           s == Head(p.todo)
           restores == p.all /\ Tail(p.todo) # <<>> /\ s \in {"wipe", "fill"} /\ Tail(p.todo) # <<"unscheduleAll">>
           q == IF s = "wipe" /\ restores THEN [p EXCEPT !.todo = Tail(Tail(p.todo))]
                ELSE IF s = "fill" THEN [p EXCEPT !.todo = Tail(p.todo)] ELSE Idle
<1>1. p.todo # <<>> /\ p.todo \in Ways /\ Queued(p) /\ p \in RequestType
    BY AtWork DEF Fault, Running
<1>2. /\ requests' = [requests EXCEPT ![r] = q] /\ timers' = timers /\ begun' = begun /\ solo' = solo
      /\ mess' = IF p.all /\ ~restores THEN Job ELSE mess
      /\ s # "fill" => docs' = docs
      /\ s \in {"save", "note", "erase", "wipe", "fill", "enlist"} \/ p.todo = Silencing
    BY DEF Fault, Left, Silencing
<1>3. requests[r] = p /\ mess \subseteq Job
    BY DEF IInv, CountsOK
<1>4. Queued(Idle) /\ Touch(Idle) = {}
    BY Words DEF Idle, Touch, Over, Queued
<1>5. restores <=> p.all /\ p.todo \in {Restoring, Filling}
  <2>1. <<"unscheduleAll">> = Silencing
    BY DEF Silencing
  <2> QED BY <1>1, <2>1, Words, WordOf
<1>6. CASE restores
  <2>1. p.todo \in {Restoring, Filling} /\ p.all
    BY <1>5, <1>6
  <2>2. q = [p EXCEPT !.todo = Rebuilding]
    BY <1>6, <2>1, Words
  <2>3. q.todo = Rebuilding /\ q.all /\ q.queue = p.queue
    BY <1>1, <2>1, <2>2 DEF RequestType
  <2> HIDE DEF q, p, s, restores
  <2>4. Queued(q) /\ Touch(q) = Job /\ Touch(p) = Job
    BY <2>1, <2>3, Words DEF Queued, Touch, Over, JobsOf, Noting
  <2>5. \A j \in Job : Ahead(q, j, docs'[j], timers'[j], j \in mess')
    BY <2>3, Words DEF Ahead
  <2>6. mess' = mess
    BY <1>2, <1>6
  <2>7. Advance(r, q)
    BY <1>2, <1>3, <2>4, <2>5, <2>6 DEF Advance
  <2> QED BY <1>1, <1>3, <2>7, AdvanceKeeps
<1>7. CASE ~restores
  <2>1. s # "fill"
    BY <1>1, <1>5, <1>7, Words, WordOf DEF Queued
  <2>2. q = Idle /\ docs' = docs
    BY <1>2, <1>7, <2>1
  <2>3. p.all => mess' = Job
    BY <1>2, <1>7
  <2>4. ~p.all => p.todo \in {Saving, Erasing, Noting} /\ mess' = mess
    BY <1>1, <1>2, Words, WordOf DEF Queued
  <2>5. ~p.all /\ p.todo = Noting => Touch(p) = {}
    BY <1>1 DEF Queued, Touch, Over, Noting
  <2> HIDE DEF q, p, s, restores
  <2>6. ASSUME NEW j \in Job, j \in Touch(p), Ahead(p, j, docs[j], timers[j], j \in mess)
        PROVE  j \in mess' \/ timers'[j] = Wants(docs'[j])
    BY <1>2, <2>2, <2>3, <2>4, <2>5, <2>6 DEF Ahead
  <2>7. mess \ mess' = {}
    BY <1>3, <2>3, <2>4
  <2>8. Advance(r, q)
    BY <1>2, <1>3, <1>4, <2>2, <2>6, <2>7, AgreeFacts DEF Advance
  <2> QED BY <1>1, <1>3, <2>8, AdvanceKeeps
<1> QED BY <1>6, <1>7

(* A request that begins beside another about the same job puts the job into  *)
(* disorder, and neither has it to itself any more.                           *)
LEMMA BeginTimes ==
    ASSUME IInv, TimersInv, NEW q, Queued(q), q.todo \in {Saving, Erasing, Resetting, Restoring}, Begin(q)
    PROVE  TimersInv'
<1>0. PICK n : n = begun + 1
    OBVIOUS
<1> DEFINE beside == {r \in Request : Touch(requests[r]) \cap JobsOf(q) # {}}
<1>1. n \in Request /\ n > begun /\ begun' = n /\ begun \in Nat /\ Request \subseteq Nat
    BY <1>0, JobsAssumption DEF JobsAssumption, IInv, CountsOK, Begin, Request
<1>2. /\ requests' = [requests EXCEPT ![n] = q] /\ docs' = docs /\ timers' = timers
      /\ mess' = mess \cup {j \in JobsOf(q) : \E r \in beside : j \in Touch(requests[r])}
      /\ solo' = (solo \ beside) \cup (IF beside = {} THEN {n} ELSE {})
    BY <1>0, TouchIs DEF Begin
<1>3. requests[n].todo = <<>> /\ n \notin solo /\ Touch(requests[n]) = {}
    BY <1>1 DEF TimersInv, QueuesOK, Touch, Over
<1>4. Touch(q) = JobsOf(q)
    BY Words DEF Touch, Over, Noting
<1>5. \A r \in Request : r > n => r > begun /\ r # n
    BY <1>1
<1>6. beside \subseteq Request
    OBVIOUS
<1>7. \A r \in Request, j \in JobsOf(q) : j \in Touch(requests[r]) => r \in beside
    OBVIOUS
<1> HIDE DEF beside
<1>8. requests'[n] = q /\ \A r \in Request \ {n} : requests'[r] = requests[r]
    BY <1>1, <1>2 DEF IInv, RequestsOK
<1>9. QueuesOK'
  <2> SUFFICES ASSUME NEW r \in Request
               PROVE  Queued(requests'[r]) /\ (r > begun' => requests'[r].todo = <<>> /\ r \notin solo')
    BY DEF QueuesOK
  <2>1. CASE r = n
    BY <1>1, <1>8, <2>1
  <2>2. CASE r # n
    BY <1>1, <1>2, <1>5, <1>8, <2>2 DEF TimersInv, QueuesOK
  <2> QED BY <2>1, <2>2
<1>10. ASSUME NEW j \in Job
       PROVE  /\ n \notin TouchedBy(j) /\ (n \in TouchedBy(j)' <=> j \in JobsOf(q))
              /\ \A r \in Request \ {n} : r \in TouchedBy(j)' <=> r \in TouchedBy(j)
    BY <1>1, <1>3, <1>4, <1>8 DEF TouchedBy
<1>11. ASSUME NEW j \in Job, NEW r \in TouchedBy(j)', r # n, Orderly(j, r)'
       PROVE  j \notin JobsOf(q) /\ r \in TouchedBy(j) /\ Orderly(j, r)
  <2>1. r \in Request /\ r \in TouchedBy(j) /\ j \in Touch(requests[r])
    BY <1>10, <1>11 DEF TouchedBy
  <2>2. j \notin JobsOf(q)
    BY <1>2, <1>7, <1>11, <2>1 DEF Orderly
  <2>3. Orderly(j, r)
    BY <1>2, <1>11 DEF Orderly
  <2> QED BY <2>1, <2>2, <2>3
<1>12. ASSUME NEW j \in Job, n \in TouchedBy(j)', Orderly(j, n)'
       PROVE  TouchedBy(j) = {} /\ (j \notin mess' => j \notin mess)
  <2>1. j \in JobsOf(q)
    BY <1>10, <1>12
  <2>2. CASE beside = {}
    BY <1>2, <1>7, <2>1, <2>2 DEF TouchedBy
  <2>3. CASE beside # {}
    <3>1. j \notin mess'
      BY <1>2, <1>3, <1>12, <2>3 DEF Orderly
    <3> QED BY <1>2, <1>7, <2>1, <3>1 DEF TouchedBy
  <2> QED BY <2>2, <2>3
<1>13. OneWriter'
  <2> SUFFICES ASSUME NEW j \in Job, NEW r \in TouchedBy(j)', NEW s \in TouchedBy(j)', Orderly(j, r)'
               PROVE  s = r
    BY DEF OneWriter
  <2>1. CASE r = n
    BY <1>10, <1>12, <2>1 DEF TouchedBy
  <2>2. CASE r # n
    <3>1. j \notin JobsOf(q) /\ r \in TouchedBy(j) /\ Orderly(j, r)
      BY <1>11, <2>2
    <3>2. s # n /\ s \in TouchedBy(j)
      BY <1>10, <3>1 DEF TouchedBy
    <3> QED BY <3>1, <3>2 DEF TimersInv, OneWriter
  <2> QED BY <2>1, <2>2
<1>14. OnTheWay'
  <2> SUFFICES ASSUME NEW j \in Job, NEW r \in TouchedBy(j)', Orderly(j, r)'
               PROVE  Ahead(requests'[r], j, docs'[j], timers'[j], j \in mess')
    BY DEF OnTheWay
  <2>1. CASE r = n
    <3>1. j \in mess' \/ timers[j] = Wants(docs[j])
      BY <1>12, <2>1 DEF TimersInv, Settled
    <3> QED BY <1>2, <1>8, <2>1, <3>1, Words DEF Ahead
  <2>2. CASE r # n
    <3>1. j \notin JobsOf(q) /\ r \in TouchedBy(j) /\ Orderly(j, r) /\ r \in Request
      BY <1>11, <2>2 DEF TouchedBy
    <3>2. Ahead(requests[r], j, docs[j], timers[j], j \in mess)
      BY <3>1 DEF TimersInv, OnTheWay
    <3>3. (j \in mess => j \in mess') /\ Agree(docs[j], docs'[j]) /\ timers'[j] = timers[j]
      BY <1>2, AgreeFacts
    <3>4. requests'[r] = requests[r]
      BY <1>8, <2>2, <3>1
    <3> QED BY <3>2, <3>3, <3>4, AheadAgrees
  <2> QED BY <2>1, <2>2
<1>15. Settled'
  <2> SUFFICES ASSUME NEW j \in Job, j \notin mess', TouchedBy(j)' = {}
               PROVE  timers'[j] = Wants(docs'[j])
    BY DEF Settled
  <2>1. j \notin mess /\ TouchedBy(j) = {}
    BY <1>2, <1>10 DEF TouchedBy
  <2> QED BY <1>2, <2>1 DEF TimersInv, Settled
<1> QED BY <1>9, <1>13, <1>14, <1>15 DEF TimersInv

LEMMA RequestTimes ==
    ASSUME IInv, TimersInv,
           \/ Reset \/ \E b \in Backup : Restore(b)
           \/ \E j \in Job : Delete(j) \/ \E c \in Cron, on \in BOOLEAN : Save(j, c, on)
    PROVE  TimersInv'
<1>0. Idle = [todo |-> <<>>, queue |-> <<>>, all |-> FALSE, held |-> None]
    BY DEF Idle
<1>1. ASSUME NEW j \in Job, NEW c \in Cron, NEW on \in BOOLEAN, Save(j, c, on)
      PROVE  TimersInv'
  <2> DEFINE q == [Idle EXCEPT !.todo = Saving, !.queue = <<j>>, !.held = [None EXCEPT ![j] = New(c, on)]]
  <2>1. q.todo = Saving /\ q.queue = <<j>> /\ q.all = FALSE
    BY <1>0
  <2>2. Begin(q)
    BY <1>1 DEF Save, Saving
  <2> HIDE DEF q
  <2>3. Queued(q)
    BY <2>1, Words DEF Queued
  <2> QED BY <2>1, <2>2, <2>3, BeginTimes
<1>2. ASSUME NEW j \in Job, Delete(j)
      PROVE  TimersInv'
  <2> DEFINE q == [Idle EXCEPT !.todo = Erasing, !.queue = <<j>>]
  <2>1. q.todo = Erasing /\ q.queue = <<j>> /\ q.all = FALSE
    BY <1>0
  <2>2. Begin(q)
    BY <1>2 DEF Delete, Erasing
  <2> HIDE DEF q
  <2>3. Queued(q)
    BY <2>1, Words DEF Queued
  <2> QED BY <2>1, <2>2, <2>3, BeginTimes
<1>3. ASSUME Reset
      PROVE  TimersInv'
  <2> DEFINE q == [Idle EXCEPT !.todo = Resetting, !.all = TRUE]
  <2>1. q.todo = Resetting /\ q.all = TRUE
    BY <1>0
  <2>2. Begin(q)
    BY <1>3 DEF Reset, Resetting
  <2> HIDE DEF q
  <2>3. Queued(q)
    BY <2>1, Words DEF Queued
  <2> QED BY <2>1, <2>2, <2>3, BeginTimes
<1>4. ASSUME NEW b \in Backup, Restore(b)
      PROVE  TimersInv'
  <2> DEFINE q == [Idle EXCEPT !.todo = Restoring, !.all = TRUE, !.held = b]
  <2>1. q.todo = Restoring /\ q.all = TRUE
    BY <1>0
  <2>2. Begin(q)
    BY <1>4 DEF Restore, Restoring
  <2> HIDE DEF q
  <2>3. Queued(q)
    BY <2>1, Words DEF Queued
  <2> QED BY <2>1, <2>2, <2>3, BeginTimes
<1> QED BY <1>1, <1>2, <1>3, <1>4

(* The only request of a server that starts is the boot, and it finds no      *)
(* timer set.                                                                 *)
Started ==
    /\ \A r \in Request : requests[r] = IF r = Boot THEN Booting ELSE Idle
    /\ \A j \in Job : timers[j] = NoCron
    /\ solo = {Boot} /\ begun \in Nat

LEMMA BootTimes == Started => TimersInv
<1> SUFFICES ASSUME Started PROVE TimersInv
    OBVIOUS
<1> USE DEF Started
<1>1. Booting.todo = Enlisting /\ Booting.all = TRUE /\ Idle.todo = <<>>
    BY DEF Booting, Idle, Enlisting
<1>2. Touch(Booting) = Job /\ Touch(Idle) = {} /\ Queued(Booting) /\ Queued(Idle)
    BY <1>1, Words DEF Touch, Over, JobsOf, Queued, Noting
<1>3. Boot \in Request /\ \A r \in Request : r > begun => r # Boot
    BY JobsAssumption DEF JobsAssumption, Request, Boot
<1>4. \A j \in Job : TouchedBy(j) = {Boot}
    BY <1>2, <1>3 DEF TouchedBy
<1>5. QueuesOK
    BY <1>1, <1>2, <1>3 DEF QueuesOK
<1>6. OneWriter /\ Settled
    BY <1>4 DEF OneWriter, Settled
<1>7. OnTheWay
    BY <1>1, <1>3, <1>4, Words DEF OnTheWay, Ahead
<1> QED BY <1>5, <1>6, <1>7 DEF TimersInv

LEMMA TimersInit == Init => TimersInv
BY BootTimes DEF Init, Started

LEMMA TimersNext == IInv /\ TimersInv /\ [Next]_vars => TimersInv'
<1> SUFFICES ASSUME IInv, TimersInv, [Next]_vars PROVE TimersInv'
    OBVIOUS
<1>1. CASE \/ Reset \/ \E b \in Backup : Restore(b)
           \/ \E j \in Job : Delete(j) \/ \E c \in Cron, on \in BOOLEAN : Save(j, c, on)
    BY <1>1, RequestTimes
<1>2. ASSUME NEW r \in Request, Step(r) PROVE TimersInv'
    BY <1>2, UpsertTimes, ApplyTimes, NoteTimes, EraseTimes, UnscheduleTimes, WipeTimes, FillTimes,
       UnscheduleAllTimes, EnlistTimes DEF Step
<1>3. ASSUME NEW r \in Request, Fault(r) PROVE TimersInv'
    BY <1>3, FaultTimes
<1>4. ASSUME NEW n \in Run, Tick(n) \/ Works(n) PROVE TimersInv'
  <2>1. /\ requests' = requests /\ begun' = begun /\ solo' = solo /\ mess' = mess /\ timers' = timers
        /\ docs' = docs \/ Record(n)
    BY <1>4 DEF Tick, Works, Load, Record
  <2>2. \A j \in Job : Agree(docs[j], docs'[j])
    <3>1. CASE docs' = docs
      BY <3>1, AgreeFacts
    <3>2. CASE Record(n)
      <4>1. n[1] \in Job /\ runs[n].nextRun \in Cron \cup {NoCron}
        BY DEF Run, IInv, RunsOK
      <4> QED BY <3>2, <4>1, NotedAgrees DEF Record
    <3> QED BY <2>1, <3>1, <3>2
  <2> QED BY <2>1, <2>2, Undisturbed
<1>5. CASE Restart
  <2>1. Started'
    BY <1>5 DEF Started, Restart, IInv, CountsOK
  <2> QED BY <2>1, BootTimes, PTL
<1>6. CASE UNCHANGED vars
    BY <1>6, Undisturbed, AgreeFacts DEF vars
<1> QED BY <1>1, <1>2, <1>3, <1>4, <1>5, <1>6 DEF Next

(* scheduler/index.ts "one in-memory Cron per enabled job": for any number of *)
(* jobs and of requests about them, whatever statement of theirs fails and    *)
(* whenever the server restarts, a job whose last request had it to itself,   *)
(* or that a boot has registered, has the timer its document asks for.        *)
THEOREM TimersFollow == Spec => []TimersMatch
<1>1. TimersInv => TimersMatch
  <2> SUFFICES ASSUME TimersInv, NEW j \in Job, j \notin mess, \A r \in Request : j \notin Touching(r)
               PROVE  timers[j] = Wants(docs[j])
    BY DEF TimersMatch, Wants
  <2>1. TouchedBy(j) = {}
    BY TouchIs DEF TouchedBy
  <2> QED BY <2>1 DEF TimersInv, Settled
<1> QED BY InitHolds, NextKeeps, TimersInit, TimersNext, <1>1, PTL DEF Spec
=============================================================================
