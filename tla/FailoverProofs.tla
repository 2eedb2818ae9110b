--------------------------- MODULE FailoverProofs ---------------------------
(***************************************************************************)
(* What Failover guarantees for every group, every number of tasks and     *)
(* every setting of the times.  The inductive invariant is IInv:           *)
(*   - the types;                                                          *)
(*   - EntryOK: while a target is fresh, its life left plus the silence    *)
(*     since the last access is at most TARGET_TTL (both started at the    *)
(*     fill), so a record idle beyond FAILOVER_CURSOR_IDLE >= TARGET_TTL    *)
(*     is stale: this is why the idle reset may clear the cursor without   *)
(*     expiring the target;                                                *)
(*   - PolicyOfServingProvider, and the same of a grant still in flight.   *)
(* The second part is about the walk: TaskInv, PinInv and WalkInv.         *)
(***************************************************************************)
EXTENDS Failover, FiniteSetTheorems, SequenceTheorems, TLAPS

AgeOK(e) == Fresh(e) => e.ttl + e.quiet <= TargetTtl /\ e.resolvedAt = e.attempt

EntryOK(e) == e \in Entry \cup {NoEntry} /\ (e # NoEntry => AgeOK(e))

GrantsOK == \A r \in Req : tasks[r].pc = "reply" /\ tasks[r].reply = "grant"
                => tasks[r].target \in Target /\ tasks[r].key = Provider[tasks[r].target.cand]

IInv == TypeOK /\ EntryOK(entry) /\ PolicyOfServingProvider /\ GrantsOK

-----------------------------------------------------------------------------
(* What each method of AppState leaves of a sound record is sound. *)

LEMMA EntryOps ==
    ASSUME NEW e \in Entry, AgeOK(e)
    PROVE  /\ EntryOK(IdleReset(e)) /\ EntryOK(Touch(e)) /\ EntryOK(Invalidate(e))
           /\ EntryOK(ResetCursor(e)) /\ EntryOK(TakePending(e)) /\ EntryOK(Age(e))
           /\ EntryOK(Touch(IdleReset(e))) /\ EntryOK(Invalidate(IdleReset(e)))
<1> USE TimeAssumption, NoEntryAssumption DEF EntryOK, AgeOK, Entry, Fresh
<1>1. EntryOK(IdleReset(e)) BY DEF IdleReset, Idle
<1>2. EntryOK(Touch(e)) BY DEF Touch
<1>3. EntryOK(Invalidate(e))
  <2>1. Invalidate(e) \in Entry /\ Invalidate(e).ttl = 0 BY DEF Invalidate
  <2> QED BY <2>1
<1>4. EntryOK(ResetCursor(e))
  <2> DEFINE f == [e EXCEPT !.attempt = 0]
  <2>1. f \in Entry /\ ResetCursor(e) = [f EXCEPT !.ttl = 0] BY DEF ResetCursor
  <2> HIDE DEF f
  <2>2. ResetCursor(e) \in Entry /\ ResetCursor(e).ttl = 0 BY <2>1
  <2> QED BY <2>2
<1>5. EntryOK(TakePending(e)) BY DEF TakePending
<1>6. EntryOK(Age(e))
  <2> DEFINE ttl == IF e.ttl > 0 THEN e.ttl - 1 ELSE 0
             quiet == IF e.quiet <= CursorIdle THEN e.quiet + 1 ELSE e.quiet
             f == [e EXCEPT !.ttl = ttl]
  <2>1. ttl \in 0..TargetTtl /\ quiet \in 0..(CursorIdle + 1) OBVIOUS
  <2>2. ttl > 0 => ttl + quiet <= e.ttl + e.quiet /\ e.ttl > 0 OBVIOUS
  <2>3. Age(e) = [f EXCEPT !.quiet = quiet] BY DEF Age
  <2> HIDE DEF ttl, quiet
  <2>4. f \in Entry /\ f.ttl = ttl /\ f.attempt = e.attempt /\ f.resolvedAt = e.resolvedAt
    BY <2>1
  <2> HIDE DEF f
  <2>5. /\ Age(e) \in Entry /\ Age(e).ttl = ttl /\ Age(e).quiet = quiet
        /\ Age(e).attempt = e.attempt /\ Age(e).resolvedAt = e.resolvedAt
    BY <2>1, <2>3, <2>4
  <2>6. Fresh(Age(e)) => AgeOK(Age(e))
    BY <2>2, <2>5, <2>1
  <2> QED BY <2>5, <2>6
<1>7. EntryOK(Touch(IdleReset(e))) BY DEF Touch, IdleReset, Idle
<1>8. EntryOK(Invalidate(IdleReset(e))) BY DEF Invalidate, IdleReset, Idle
<1> QED BY <1>1, <1>2, <1>3, <1>4, <1>5, <1>6, <1>7, <1>8

(* None of them moves the record to another target or another policy. *)
SameTarget(e, f) == f # NoEntry => e # NoEntry /\ f.target = e.target /\ f.policyKey = e.policyKey

LEMMA EntryOpsTarget ==
    ASSUME NEW e \in Entry
    PROVE  /\ SameTarget(e, IdleReset(e)) /\ SameTarget(e, Touch(e))
           /\ SameTarget(e, Invalidate(e)) /\ SameTarget(e, ResetCursor(e))
           /\ SameTarget(e, TakePending(e)) /\ SameTarget(e, Age(e))
           /\ SameTarget(e, Touch(IdleReset(e))) /\ SameTarget(e, Invalidate(IdleReset(e)))
<1> e # NoEntry BY NoEntryAssumption
<1> QED
  BY DEF SameTarget, Entry, IdleReset, Idle, Touch, Invalidate, ResetCursor, TakePending, Age

(* A landed grant is a sound record whatever it replaces. *)
LEMMA FillOK ==
    ASSUME NEW prev \in Entry \cup {NoEntry}, NEW target \in Target,
           NEW key \in Adapter, NEW attempt \in Nat
    PROVE  LET e == Fill(prev, target, key, attempt)
           IN  EntryOK(e) /\ e # NoEntry /\ e.target = target /\ e.policyKey = key
<1> DEFINE e == Fill(prev, target, key, attempt)
<1>1. (prev # NoEntry /\ prev.target # target) \in BOOLEAN
  OBVIOUS
<1>2. e \in Entry
  BY <1>1, TimeAssumption DEF Entry, Fill
<1>3. /\ e.ttl = TargetTtl /\ e.quiet = 0 /\ e.resolvedAt = e.attempt
      /\ e.target = target /\ e.policyKey = key
  BY DEF Fill
<1> QED
  BY <1>2, <1>3, TimeAssumption, NoEntryAssumption DEF EntryOK, AgeOK

-----------------------------------------------------------------------------
(* Every record a task is given is a task. *)

LEMMA CandidateTypes ==
    /\ Mount \in Adapter
    /\ Children \subseteq Cand
    /\ Configs \subseteq Knobs
BY FailoverAssumption DEF Mount, Children

LEMMA NoTaskType == NoTask \in Task
BY CandidateTypes DEF NoTask, Task, Knobs, DefaultKnobs

LEMMA AskingType ==
    ASSUME NEW t \in Task, NEW attempt \in Nat
    PROVE  Asking(t, attempt) \in Task /\ Asking(t, attempt).pc = "ask"
BY DEF Asking, Task

LEMMA EndedType ==
    ASSUME NEW t \in Task, NEW result \in {"served", "forwarded", "dead"}
    PROVE  Ended(t, result) \in Task /\ Ended(t, result).pc = "done"
<1> DEFINE s == [NoTask EXCEPT !.pc = "done"]
           u == [s EXCEPT !.role = t.role]
           v == [u EXCEPT !.mode = t.mode]
           w == [v EXCEPT !.result = result]
           x == [w EXCEPT !.children = t.children, !.visited = t.visited]
<1>1. /\ t.role \in {"entry", "walk", "cold", "refresh"} /\ t.mode \in {"hls", "ts"}
      /\ t.children \in BOOLEAN /\ t.visited \in SUBSET Cand /\ t.steady \in BOOLEAN
  BY DEF Task
<1>2. Ended(t, result) = [x EXCEPT !.steady = t.steady]
  BY DEF Ended, NoTask
<1>3. s \in Task /\ s.pc = "done" BY NoTaskType DEF Task
<1> HIDE DEF s
<1>4. u \in Task /\ u.pc = "done" BY <1>1, <1>3 DEF Task
<1> HIDE DEF u
<1>5. v \in Task /\ v.pc = "done" BY <1>1, <1>4 DEF Task
<1> HIDE DEF v
<1>6. w \in Task /\ w.pc = "done" BY <1>5 DEF Task
<1> HIDE DEF w
<1>7. x \in Task /\ x.pc = "done" BY <1>1, <1>6 DEF Task
<1> HIDE DEF x
<1> QED BY <1>1, <1>2, <1>7 DEF Task

LEMMA AnswerType ==
    ASSUME NEW t \in Task, NEW key \in Adapter
    PROVE  Answer(t, key) \in Task /\ Answer(t, key).pc # "reply"
<1>1. [t EXCEPT !.pc = "prefetched", !.key = key] \in Task
  BY DEF Task
<1>2. [t EXCEPT !.pc = "prefetched", !.key = key].pc = "prefetched"
  BY DEF Task
<1> QED BY <1>1, <1>2, EndedType DEF Answer

LEMMA ExhaustType ==
    ASSUME NEW t \in Task
    PROVE  Exhaust(t) \in Task /\ Exhaust(t).pc # "reply"
<1>1. t.stash # NoPolicy => t.stash \in Adapter
  BY DEF Task
<1> QED BY <1>1, EndedType, AnswerType DEF Exhaust

LEMMA WalkingType ==
    ASSUME NEW t \in Task, NEW start \in Nat, NEW wrap \in BOOLEAN,
           NEW knobs \in Knobs, NEW stash \in Adapter \cup {NoPolicy}
    PROVE  /\ Walking(t, start, wrap, knobs, stash) \in Task
           /\ Walking(t, start, wrap, knobs, stash).pc = "ask"
<1> DEFINE u == [t EXCEPT !.role = "walk", !.start = start, !.wrap = wrap, !.wrapped = FALSE,
                          !.tried = 1]
           v == [u EXCEPT !.children = knobs.enabled, !.definite = knobs.definite]
           w == [v EXCEPT !.stash = stash]
<1>1. knobs.enabled \in BOOLEAN /\ knobs.definite \in BOOLEAN
  BY DEF Knobs
<1>2. Walking(t, start, wrap, knobs, stash) = Asking(w, start)
  BY DEF Walking, Task
<1>3. u \in Task BY DEF Task
<1> HIDE DEF u
<1>4. v \in Task BY <1>1, <1>3 DEF Task
<1> HIDE DEF v
<1>5. w \in Task BY <1>4 DEF Task
<1> HIDE DEF w
<1> QED BY <1>2, <1>5, AskingType

-----------------------------------------------------------------------------
(* The orders the shuffle draws are sequences of children. *)

LEMMA ChildrenFinite == IsFiniteSet(Children)
<1> DEFINE n == Len(ChildOrder)
<1>1. n \in Nat /\ DOMAIN ChildOrder = 1..n /\ ChildOrder \in [1..n -> Cand]
  BY FailoverAssumption
<1>2. ChildOrder \in Surjection(1..n, Children)
  BY <1>1 DEF Surjection, Children
<1>3. IsFiniteSet(1..n)
  BY <1>1, FS_Interval
<1> QED BY <1>2, <1>3, FS_Surjection

LEMMA OrdersType ==
    ASSUME NEW S \in SUBSET Children, NEW o \in Orders(S)
    PROVE  o \in Seq(Children)
<1>1. Cardinality(S) \in Nat
  BY ChildrenFinite, FS_Subset, FS_CardinalityType
<1>2. o \in [1..Cardinality(S) -> S]
  BY DEF Orders
<1>3. o \in Seq(S)
  BY <1>1, <1>2, SeqDef
<1> QED BY <1>3, SeqMonotonic

LEMMA ActiveType ==
    ASSUME order \in Seq(Children)
    PROVE  Active \in SUBSET Children
BY DEF Active

-----------------------------------------------------------------------------
(* A step is taken apart into what it does to the record and what it does to *)
(* the tasks; Frame puts the parts together again.                           *)

EntryMoves == EntryOK(entry') /\ won' \subseteq Nat /\ SameTarget(entry, entry')
TasksMove  == tasks' \in [Req -> Task] /\ GrantsOK'
RestTyped  == /\ order' \in Seq(Children) /\ config' \in Configs
              /\ serving' \in Children \cup {NoChild}

LEMMA Frame ==
    ASSUME IInv, EntryMoves, TasksMove, RestTyped, UNCHANGED policies
    PROVE  IInv'
<1>1. TypeOK'
  BY DEF IInv, TypeOK, EntryMoves, EntryOK, TasksMove, RestTyped
<1>2. PolicyOfServingProvider'
  BY DEF IInv, PolicyOfServingProvider, EntryMoves, SameTarget
<1> QED BY <1>1, <1>2 DEF IInv, EntryMoves, TasksMove, EntryOK

LEMMA RestUnchanged ==
    ASSUME IInv, UNCHANGED <<order, config, serving>>
    PROVE  RestTyped
BY DEF IInv, TypeOK, RestTyped

LEMMA EntryStays ==
    ASSUME IInv, UNCHANGED <<entry, won>>
    PROVE  EntryMoves
BY DEF IInv, TypeOK, EntryMoves, SameTarget, EntryOK

LEMMA CursorType ==
    ASSUME IInv
    PROVE  Cursor(entry) \in Nat /\ Cursor(IdleResetEntry) \in Nat
<1>1. CASE entry = NoEntry BY <1>1 DEF Cursor, IdleResetEntry
<1>2. CASE entry # NoEntry
  <2>1. entry \in Entry /\ AgeOK(entry) BY <1>2 DEF IInv, EntryOK
  <2>2. IdleReset(entry) \in Entry \cup {NoEntry} BY <2>1, EntryOps DEF EntryOK
  <2> QED BY <1>2, <2>1, <2>2 DEF Cursor, IdleResetEntry, Entry
<1> QED BY <1>1, <1>2

(* Whatever a step of the code does to the record, short of a fill. *)
LEMMA EntrySet ==
    ASSUME IInv, NEW served \in SUBSET Nat,
           NEW e \in {entry, IdleResetEntry, TouchEntry(entry), TouchEntry(IdleResetEntry),
                      InvalidEntry(IdleResetEntry), ResetEntry, TakenEntry},
           SetEntry(e, served)
    PROVE  EntryMoves
<1>1. entry' = e /\ won' \subseteq Nat
  BY DEF SetEntry
<1>2. CASE entry = NoEntry
  <2>1. e = NoEntry
    BY <1>2 DEF IdleResetEntry, TouchEntry, InvalidEntry, ResetEntry, TakenEntry
  <2> QED BY <1>1, <2>1 DEF EntryMoves, EntryOK, SameTarget
<1>3. CASE entry # NoEntry
  <2>1. entry \in Entry /\ AgeOK(entry) BY <1>3 DEF IInv, EntryOK
  <2>2. /\ EntryOK(IdleReset(entry)) /\ SameTarget(entry, IdleReset(entry))
        /\ IdleReset(entry) # NoEntry
    BY <2>1, EntryOps, EntryOpsTarget, NoEntryAssumption, <1>3 DEF IdleReset, Entry
  <2>3. e \in {entry, IdleReset(entry), Touch(entry), Touch(IdleReset(entry)),
                Invalidate(IdleReset(entry)), ResetCursor(entry), TakePending(entry)}
    BY <1>3, <2>2 DEF IdleResetEntry, TouchEntry, InvalidEntry, ResetEntry, TakenEntry
  <2>4. EntryOK(e)
    BY <2>1, <2>3, EntryOps DEF EntryOK
  <2>5. SameTarget(entry, e)
    <3>1. SameTarget(entry, entry) BY <1>3 DEF SameTarget
    <3> QED BY <2>1, <2>3, <3>1, EntryOpsTarget
  <2> QED BY <1>1, <2>4, <2>5 DEF EntryMoves
<1> QED BY <1>2, <1>3

LEMMA WonType == IInv => won \in SUBSET Nat
BY DEF IInv, TypeOK

(* A task that becomes anything but a grant keeps the grants sound. *)
LEMMA BecomesOK ==
    ASSUME IInv, NEW r \in Req, NEW t \in Task, t.pc # "reply", Becomes(r, t)
    PROVE  TasksMove
<1>1. tasks \in [Req -> Task] /\ GrantsOK BY DEF IInv, TypeOK
<1>2. tasks' = [tasks EXCEPT ![r] = t] BY DEF Becomes
<1>3. tasks' \in [Req -> Task] BY <1>1, <1>2
<1>4. \A q \in Req : tasks'[q] = IF q = r THEN t ELSE tasks[q] BY <1>1, <1>2
<1>5. GrantsOK' BY <1>1, <1>4 DEF GrantsOK
<1> QED BY <1>3, <1>5 DEF TasksMove

LEMMA TasksStay ==
    ASSUME IInv, UNCHANGED tasks
    PROVE  TasksMove
BY DEF IInv, TypeOK, TasksMove, GrantsOK

-----------------------------------------------------------------------------
(* The walk. *)

LEMMA GiveUpOK ==
    ASSUME IInv, NEW r \in Req, NEW t \in Task, GiveUp(r, t)
    PROVE  EntryMoves /\ TasksMove
<1>1. EntryMoves BY EntrySet, WonType DEF GiveUp
<1>2. TasksMove BY ExhaustType, BecomesOK DEF GiveUp
<1> QED BY <1>1, <1>2

LEMMA LoopHeadOK ==
    ASSUME IInv, NEW r \in Req, NEW t \in Task, NEW attempt \in Nat, LoopHead(r, t, attempt)
    PROVE  EntryMoves /\ TasksMove
<1>1. CASE GiveUp(r, t) BY <1>1, GiveUpOK
<1>2. CASE /\ Becomes(r, Asking([t EXCEPT !.tried = @ + 1], attempt))
           /\ UNCHANGED <<entry, won>>
  <2> DEFINE u == [t EXCEPT !.tried = @ + 1]
  <2>1. u \in Task BY DEF Task
  <2> HIDE DEF u
  <2>2. TasksMove BY <1>2, <2>1, AskingType, BecomesOK DEF u
  <2> QED BY <1>2, <2>2, EntryStays
<1> QED BY <1>1, <1>2 DEF LoopHead

LEMMA AdvanceOK ==
    ASSUME IInv, NEW r \in Req, NEW t \in Task, Advance(r, t)
    PROVE  EntryMoves /\ TasksMove
<1>1. t.attempt + 1 \in Nat BY DEF Task
<1> QED BY <1>1, GiveUpOK, LoopHeadOK DEF Advance

-----------------------------------------------------------------------------
(* One lemma per action. *)

LEMMA EntryRequestOK ==
    ASSUME IInv, NEW r \in Req, EntryRequest(r)
    PROVE  IInv'
<1>1. EntryMoves BY EntrySet, WonType DEF EntryRequest
<1>2. TasksMove
  <2>1. CASE /\ entry # NoEntry
             /\ Becomes(r, [NoTask EXCEPT !.pc = "take", !.attempt = Cursor(IdleResetEntry),
                                          !.target = entry.target, !.key = entry.policyKey])
    <3> DEFINE u == [NoTask EXCEPT !.pc = "take", !.attempt = Cursor(IdleResetEntry)]
               v == [u EXCEPT !.target = entry.target]
               w == [v EXCEPT !.key = entry.policyKey]
    <3>1. entry.target \in Target /\ entry.policyKey \in Adapter
      BY <2>1 DEF IInv, EntryOK, Entry
    <3>2. w = [NoTask EXCEPT !.pc = "take", !.attempt = Cursor(IdleResetEntry),
                             !.target = entry.target, !.key = entry.policyKey]
      BY DEF NoTask
    <3>3. u \in Task /\ u.pc = "take" BY CursorType, NoTaskType DEF Task
    <3> HIDE DEF u
    <3>4. v \in Task /\ v.pc = "take" BY <3>1, <3>3 DEF Task
    <3> HIDE DEF v
    <3>5. w \in Task /\ w.pc = "take" BY <3>1, <3>4 DEF Task
    <3> HIDE DEF w
    <3> QED BY <2>1, <3>2, <3>5, BecomesOK
  <2>2. CASE Becomes(r, Asking(NoTask, Cursor(IdleResetEntry)))
    BY <2>2, NoTaskType, CursorType, AskingType, BecomesOK
  <2> QED BY <2>1, <2>2 DEF EntryRequest
<1>3. RestTyped BY RestUnchanged DEF EntryRequest
<1> QED BY <1>1, <1>2, <1>3, Frame DEF EntryRequest

LEMMA HopOK == IInv /\ Hop => IInv'
<1> SUFFICES ASSUME IInv, Hop PROVE IInv' OBVIOUS
<1>1. EntryMoves BY EntrySet, WonType DEF Hop
<1>2. RestTyped BY RestUnchanged DEF Hop
<1> QED BY <1>1, <1>2, TasksStay, Frame DEF Hop

LEMMA HopRefreshOK ==
    ASSUME IInv, NEW r \in Req, HopRefresh(r)
    PROVE  IInv'
<1> DEFINE u == [NoTask EXCEPT !.role = "refresh"]
<1>1. EntryMoves BY EntrySet, WonType DEF HopRefresh
<1>2. u \in Task BY NoTaskType DEF Task
<1>3. Becomes(r, Asking(u, Cursor(IdleResetEntry))) BY DEF HopRefresh
<1> HIDE DEF u
<1>4. TasksMove BY <1>2, <1>3, CursorType, AskingType, BecomesOK
<1>5. RestTyped BY RestUnchanged DEF HopRefresh
<1> QED BY <1>1, <1>4, <1>5, Frame DEF HopRefresh

LEMMA ColdHopOK ==
    ASSUME IInv, NEW r \in Req, ColdHop(r)
    PROVE  IInv'
<1> DEFINE u == [NoTask EXCEPT !.role = "cold"]
<1>1. u \in Task BY NoTaskType DEF Task
<1>2. Becomes(r, Asking(u, 0)) BY DEF ColdHop
<1> HIDE DEF u
<1>3. TasksMove BY <1>1, <1>2, AskingType, BecomesOK
<1>4. RestTyped /\ EntryMoves BY RestUnchanged, EntryStays DEF ColdHop
<1> QED BY <1>3, <1>4, Frame DEF ColdHop

LEMMA TakeOK ==
    ASSUME IInv, NEW r \in Req, Take(r)
    PROVE  IInv'
<1> DEFINE mark == entry # NoEntry /\ entry.pending
           u == [tasks[r] EXCEPT !.pc = "fetch", !.marked = mark]
<1>1. EntryMoves BY EntrySet, WonType DEF Take
<1>2. mark \in BOOLEAN BY DEF IInv, TypeOK, Entry
<1>3. tasks[r] \in Task /\ (Becomes(r, u) \/ Becomes(r, NoTask)) BY DEF Take, IInv, TypeOK
<1> HIDE DEF mark
<1>4. u \in Task /\ u.pc = "fetch" BY <1>2, <1>3 DEF Task
<1> HIDE DEF u
<1>5. NoTask \in Task /\ NoTask.pc = "idle" BY NoTaskType DEF NoTask
<1>6. TasksMove BY <1>3, <1>4, <1>5, BecomesOK
<1>7. RestTyped BY RestUnchanged DEF Take
<1> QED BY <1>1, <1>6, <1>7, Frame DEF Take

LEMMA CheckOK ==
    ASSUME IInv, NEW r \in Req, Check(r)
    PROVE  IInv'
<1> DEFINE off == [tasks[r] EXCEPT !.children = FALSE]
           go == [tasks[r] EXCEPT !.pc = "fetch"]
           goOff == [off EXCEPT !.pc = "fetch"]
<1>1. tasks[r] \in Task BY DEF IInv, TypeOK
<1>2. off \in Task BY <1>1 DEF Task
<1>3. go \in Task /\ go.pc = "fetch" BY <1>1 DEF Task
<1>4. \/ GiveUp(r, off)
      \/ Becomes(r, go) /\ UNCHANGED <<entry, won>>
      \/ Becomes(r, goOff) /\ UNCHANGED <<entry, won>>
  BY DEF Check
<1> HIDE DEF off, go
<1>5. goOff \in Task /\ goOff.pc = "fetch" BY <1>2 DEF Task
<1> HIDE DEF goOff
<1>6. EntryMoves /\ TasksMove
  BY <1>2, <1>3, <1>4, <1>5, GiveUpOK, BecomesOK, EntryStays
<1>7. RestTyped BY RestUnchanged DEF Check
<1> QED BY <1>6, <1>7, Frame DEF Check

LEMMA FetchOkOK ==
    ASSUME IInv, NEW r \in Req, FetchOk(r)
    PROVE  IInv'
<1> DEFINE t == tasks[r]
           s == [NoTask EXCEPT !.pc = "ts"]
           u == [s EXCEPT !.key = t.key]
<1>1. t \in Task /\ t.attempt \in Nat /\ t.key \in Adapter
  BY DEF IInv, TypeOK, Task
<1>2. PICK mode \in Modes : Serve(r, mode) BY DEF FetchOk
<1>3. won \cup {t.attempt} \in SUBSET Nat BY <1>1, WonType
<1>4. EntryMoves BY <1>3, EntrySet DEF FetchOk
<1>5. Becomes(r, Ended(t, "served")) \/ Becomes(r, u) BY <1>2 DEF Serve, NoTask
<1>6. s \in Task /\ s.pc = "ts" BY NoTaskType DEF Task
<1> HIDE DEF s
<1>7. u \in Task /\ u.pc = "ts" BY <1>1, <1>6 DEF Task
<1> HIDE DEF u
<1>8. TasksMove BY <1>1, <1>7, <1>5, EndedType, BecomesOK
<1>9. RestTyped BY RestUnchanged DEF FetchOk
<1> QED BY <1>4, <1>8, <1>9, Frame DEF FetchOk

LEMMA KnobsType ==
    ASSUME IInv, NEW key \in Adapter
    PROVE  /\ KnobsOf(key) \in Knobs
           /\ KnobsOf(key).enabled \in BOOLEAN /\ KnobsOf(key).definite \in BOOLEAN
BY DEF IInv, TypeOK, KnobsOf, Policy, Knobs, DefaultKnobs

LEMMA MountKnobsType ==
    ASSUME IInv
    PROVE  MountKnobs \in Knobs
BY CandidateTypes DEF IInv, TypeOK, MountKnobs, Policy, Knobs, DefaultKnobs

LEMMA EntryWalkOK ==
    ASSUME IInv, NEW r \in Req, NEW knobs \in Knobs, NEW stash \in Adapter \cup {NoPolicy},
           EntryWalk(r, knobs, stash)
    PROVE  EntryMoves /\ TasksMove
<1> DEFINE u == [tasks[r] EXCEPT !.again = FALSE]
<1>1. tasks[r] \in Task BY DEF IInv, TypeOK
<1>2. EntryMoves BY EntrySet, WonType DEF EntryWalk
<1>3. u \in Task BY <1>1 DEF Task
<1>4. Becomes(r, Walking(u, Cursor(IdleResetEntry), TRUE, knobs, stash)) BY DEF EntryWalk
<1> HIDE DEF u
<1>5. TasksMove BY <1>3, <1>4, CursorType, WalkingType, BecomesOK
<1> QED BY <1>2, <1>5

LEMMA FetchDefiniteOK ==
    ASSUME IInv, NEW r \in Req, FetchDefinite(r)
    PROVE  IInv'
<1> DEFINE t == tasks[r]
           u == [t EXCEPT !.stash = t.key]
<1>1. t \in Task /\ t.key \in Adapter BY DEF IInv, TypeOK, Task
<1>2. u \in Task BY <1>1 DEF Task
<1>3. \/ EntryWalk(r, KnobsOf(t.key), t.key)
      \/ Advance(r, u)
      \/ Forward(r)
  BY DEF FetchDefinite
<1> HIDE DEF u
<1>4. EntryMoves /\ TasksMove
  <2>1. CASE EntryWalk(r, KnobsOf(t.key), t.key)
    BY <1>1, <2>1, KnobsType, EntryWalkOK
  <2>2. CASE Advance(r, u) BY <1>2, <2>2, AdvanceOK
  <2>3. CASE Forward(r)
    <3>1. EntryMoves BY <2>3, EntrySet, EntryStays, WonType DEF Forward
    <3>2. TasksMove BY <1>1, <2>3, EndedType, AnswerType, BecomesOK DEF Forward
    <3> QED BY <3>1, <3>2
  <2> QED BY <1>3, <2>1, <2>2, <2>3
<1>5. RestTyped BY RestUnchanged DEF FetchDefinite
<1> QED BY <1>4, <1>5, Frame DEF FetchDefinite

LEMMA FetchFailsOK ==
    ASSUME IInv, NEW r \in Req, FetchFails(r)
    PROVE  IInv'
<1>1. tasks[r] \in Task /\ tasks[r].key \in Adapter BY DEF IInv, TypeOK, Task
<1>2. EntryMoves /\ TasksMove BY <1>1, KnobsType, EntryWalkOK, AdvanceOK DEF FetchFails
<1>3. RestTyped BY RestUnchanged DEF FetchFails
<1> QED BY <1>2, <1>3, Frame DEF FetchFails

(* The seam: an answer changes the asking task and the attribution. *)

LEMMA NamedType ==
    ASSUME IInv, NEW attempt \in Nat, Exists(attempt)
    PROVE  /\ Named(attempt) \in Cand
           /\ attempt # 0 => Named(attempt) \in Children
<1>1. order \in Seq(Children) BY DEF IInv, TypeOK
<1>2. attempt # 0 => order[attempt] \in Children BY <1>1 DEF Exists
<1> QED BY <1>2, CandidateTypes, FailoverAssumption DEF Named

(* The answer of a grant is of the provider it names. *)
LEMMA AnsweredOK ==
    ASSUME IInv, NEW r \in Req, NEW t \in Task, Becomes(r, t),
           t.reply = "grant" => t.target \in Target /\ t.key = Provider[t.target.cand]
    PROVE  TasksMove
<1>1. tasks \in [Req -> Task] /\ GrantsOK BY DEF IInv, TypeOK
<1>2. tasks' = [tasks EXCEPT ![r] = t] BY DEF Becomes
<1>3. tasks' \in [Req -> Task] BY <1>1, <1>2
<1>4. \A q \in Req : tasks'[q] = IF q = r THEN t ELSE tasks[q] BY <1>1, <1>2
<1>5. GrantsOK' BY <1>1, <1>4 DEF GrantsOK
<1> QED BY <1>3, <1>5 DEF TasksMove

LEMMA GrantOK ==
    ASSUME IInv, NEW r \in Req, Grant(r)
    PROVE  IInv'
<1> DEFINE t == tasks[r]
           c == Named(t.attempt)
<1>1. t \in Task /\ t.attempt \in Nat /\ t.visited \in SUBSET Cand
  BY DEF IInv, TypeOK, Task
<1>2. c \in Cand /\ (t.attempt # 0 => c \in Children)
  BY <1>1, NamedType DEF Grant
<1>3. c # Parent => c \in Children BY <1>2 DEF Named
<1>4. config \in Knobs BY CandidateTypes DEF IInv, TypeOK
<1>5. Provider[c] \in Adapter BY <1>2, FailoverAssumption
<1>6. TasksMove
  <2> HIDE DEF c
  <2>1. PICK url \in Url :
          Becomes(r, [t EXCEPT !.pc = "reply", !.reply = "grant", !.knobs = config,
                               !.target = [cand |-> c, url |-> url], !.key = Provider[c],
                               !.visited = @ \cup {c}, !.off = ~config.enabled /\ ~OnInFlight])
    BY DEF Grant, Grants, c
  <2> DEFINE first == ~config.enabled /\ ~OnInFlight
  <2> DEFINE tg == [cand |-> c, url |-> url]
             a == [t EXCEPT !.pc = "reply", !.reply = "grant"]
             b == [a EXCEPT !.knobs = config]
             d == [b EXCEPT !.target = tg]
             f == [d EXCEPT !.key = Provider[c]]
             g == [f EXCEPT !.visited = t.visited \cup {c}]
             h == [g EXCEPT !.off = first]
  <2>12. first \in BOOLEAN OBVIOUS
  <2>2. tg \in Target /\ tg.cand = c BY <1>2 DEF Target
  <2>3. Becomes(r, h) BY <1>1, <2>1 DEF Task
  <2> HIDE DEF tg, first
  <2>4. a \in Task /\ a.visited = t.visited BY <1>1 DEF Task
  <2> HIDE DEF a
  <2>5. b \in Task /\ b.visited = t.visited BY <1>4, <2>4 DEF Task
  <2> HIDE DEF b
  <2>6. d \in Task /\ d.target = tg BY <2>2, <2>5 DEF Task
  <2> HIDE DEF d
  <2>7. f \in Task /\ f.target = tg /\ f.key = Provider[c] BY <1>5, <2>6 DEF Task
  <2> HIDE DEF f
  <2>8. t.visited \cup {c} \in SUBSET Cand BY <1>1, <1>2
  <2>9. g \in Task /\ g.target = tg /\ g.key = Provider[c] BY <2>7, <2>8 DEF Task
  <2> HIDE DEF g
  <2>10. h \in Task /\ h.target = tg /\ h.key = Provider[c] BY <2>9, <2>12 DEF Task
  <2> HIDE DEF h
  <2> QED BY <2>2, <2>3, <2>10, AnsweredOK
<1>7. RestTyped
  <2>1. serving' \in Children \cup {NoChild} BY <1>3 DEF Grant, Grants
  <2> QED BY <2>1 DEF Grant, IInv, TypeOK, RestTyped
<1>8. EntryMoves BY EntryStays DEF Grant
<1> QED BY <1>6, <1>7, <1>8, Frame DEF Grant

LEMMA GrantExhaustedOK ==
    ASSUME IInv, NEW r \in Req, GrantExhausted(r)
    PROVE  IInv'
<1> DEFINE u == [tasks[r] EXCEPT !.pc = "reply", !.reply = "exhausted"]
<1>1. tasks[r] \in Task BY DEF IInv, TypeOK
<1>2. u \in Task /\ u.reply = "exhausted" BY <1>1 DEF Task
<1>3. Becomes(r, u) BY DEF GrantExhausted
<1> HIDE DEF u
<1>4. TasksMove BY <1>2, <1>3, AnsweredOK
<1>5. EntryMoves /\ RestTyped BY EntryStays, RestUnchanged DEF GrantExhausted
<1> QED BY <1>4, <1>5, Frame DEF GrantExhausted

LEMMA ErrorType ==
    ASSUME NEW t \in Task, NEW more \in SUBSET Cand
    PROVE  LET u == [t EXCEPT !.pc = "reply", !.reply = "error", !.visited = more]
           IN  u \in Task /\ u.reply = "error"
<1> DEFINE a == [t EXCEPT !.pc = "reply", !.reply = "error"]
<1>1. a \in Task /\ a.reply = "error" BY DEF Task
<1>2. [t EXCEPT !.pc = "reply", !.reply = "error", !.visited = more]
        = [a EXCEPT !.visited = more]
  BY DEF Task
<1> HIDE DEF a
<1> QED BY <1>1, <1>2 DEF Task

LEMMA GrantFailsOK ==
    ASSUME IInv, NEW r \in Req, GrantFails(r)
    PROVE  IInv'
<1> DEFINE t == tasks[r]
           more == t.visited \cup {Named(t.attempt)}
           u == [t EXCEPT !.pc = "reply", !.reply = "error", !.visited = more]
<1>1. t \in Task /\ t.attempt \in Nat /\ t.visited \in SUBSET Cand
  BY DEF IInv, TypeOK, Task
<1>2. more \in SUBSET Cand BY <1>1, NamedType DEF GrantFails
<1>3. Becomes(r, u) BY DEF GrantFails
<1>4. u \in Task /\ u.reply = "error" BY <1>1, <1>2, ErrorType
<1> HIDE DEF u
<1>5. TasksMove BY <1>3, <1>4, AnsweredOK
<1>6. EntryMoves /\ RestTyped BY EntryStays, RestUnchanged DEF GrantFails
<1> QED BY <1>5, <1>6, Frame DEF GrantFails

LEMMA SeamLostOK ==
    ASSUME IInv, NEW r \in Req, SeamLost(r)
    PROVE  IInv'
<1> DEFINE t == tasks[r]
           more == IF Exists(t.attempt) THEN t.visited \cup {Named(t.attempt)} ELSE t.visited
           still == t.steady /\ Exists(t.attempt)
           v == [t EXCEPT !.pc = "reply", !.reply = "error", !.visited = more]
           u == [v EXCEPT !.steady = still]
<1>1. t \in Task /\ t.attempt \in Nat /\ t.visited \in SUBSET Cand
  BY DEF IInv, TypeOK, Task
<1>2. more \in SUBSET Cand /\ still \in BOOLEAN BY <1>1, NamedType DEF Task
<1>3. Becomes(r, u) BY <1>1 DEF SeamLost, Task
<1> HIDE DEF still
<1>4. u \in Task /\ u.reply = "error"
  <2>1. v \in Task /\ v.reply = "error" BY <1>1, <1>2, ErrorType
  <2> HIDE DEF v
  <2> QED BY <1>2, <2>1 DEF Task
<1> HIDE DEF u
<1>5. TasksMove BY <1>3, <1>4, AnsweredOK
<1>6. serving' \in Children \cup {NoChild}
  BY <1>1, NamedType DEF SeamLost, IInv, TypeOK
<1>7. EntryMoves BY EntryStays DEF SeamLost
<1>8. RestTyped BY <1>6 DEF SeamLost, IInv, TypeOK, RestTyped
<1> QED BY <1>5, <1>7, <1>8, Frame DEF SeamLost

(* A landed grant: its policy is filed under the provider that granted it. *)
LEMMA LandOK ==
    ASSUME IInv, NEW r \in Req, Land(r)
    PROVE  IInv'
<1> DEFINE t == tasks[r]
           e == Fill(entry, t.target, t.key, t.attempt)
           policy == [owner |-> Provider[t.target.cand], knobs |-> t.knobs]
<1>1. t \in Task /\ t.attempt \in Nat /\ t.key \in Adapter /\ t.knobs \in Knobs
  BY DEF IInv, TypeOK, Task
<1>2. t.target \in Target /\ t.key = Provider[t.target.cand]
  BY DEF Land, IInv, GrantsOK
<1>3. /\ policies' = [policies EXCEPT ![t.key] = policy]
      /\ SetEntry(e, IF Late(t) THEN won \cup {t.attempt} ELSE won)
  BY DEF Land, Landed, FiledUnder
<1>4. entry \in Entry \cup {NoEntry} BY DEF IInv, TypeOK
<1>5. EntryOK(e) /\ e # NoEntry /\ e.target = t.target /\ e.policyKey = t.key
  BY <1>1, <1>2, <1>4, FillOK
<1>6. entry' = e /\ won' \subseteq Nat BY <1>1, <1>3, WonType DEF SetEntry
<1> HIDE DEF e
<1>7. TasksMove
  <2> DEFINE take == [t EXCEPT !.pc = "take"]
             check == [t EXCEPT !.pc = "check"]
  <2>1. take \in Task /\ take.pc = "take" BY <1>1 DEF Task
  <2>2. check \in Task /\ check.pc = "check" BY <1>1 DEF Task
  <2>3. NoTask \in Task /\ NoTask.pc = "idle" BY NoTaskType DEF NoTask
  <2>4. Becomes(r, take) \/ Becomes(r, check) \/ Becomes(r, NoTask) BY DEF Land
  <2> HIDE DEF take, check
  <2> QED BY <2>1, <2>2, <2>3, <2>4, BecomesOK
<1>8. policy \in Policy /\ policy.owner = t.key /\ policy # NoPolicy
  BY <1>1, <1>2, FailoverAssumption DEF Policy
<1> HIDE DEF policy
<1>9. /\ policies' \in [Adapter -> Policy \cup {NoPolicy}]
      /\ \A a \in Adapter : policies'[a] = IF a = t.key THEN policy ELSE policies[a]
  BY <1>1, <1>3, <1>8 DEF IInv, TypeOK
<1>10. PolicyOfServingProvider'
  BY <1>1, <1>2, <1>5, <1>6, <1>8, <1>9 DEF PolicyOfServingProvider, IInv
<1>11. RestTyped BY RestUnchanged DEF Land
<1>12. TypeOK' BY <1>5, <1>6, <1>7, <1>9, <1>11 DEF TypeOK, EntryOK, TasksMove, RestTyped
<1> QED BY <1>5, <1>6, <1>7, <1>10, <1>12 DEF IInv, TasksMove

LEMMA EntryRefusedOK ==
    ASSUME IInv, NEW r \in Req, EntryRefused(r)
    PROVE  EntryMoves /\ TasksMove
<1> DEFINE cursor == Cursor(IdleResetEntry)
           u == [tasks[r] EXCEPT !.again = TRUE]
           same == tasks[r].steady /\ cursor = tasks[r].attempt
           v == [u EXCEPT !.steady = same]
<1>1. tasks[r] \in Task /\ same \in BOOLEAN BY DEF IInv, TypeOK, Task
<1>2. u \in Task BY <1>1 DEF Task
<1>3. cursor + 1 \in Nat /\ (cursor > 0) \in BOOLEAN BY CursorType
<1>4. EntryMoves BY EntrySet, EntryStays, WonType DEF EntryRefused
<1>5. \/ Becomes(r, Ended(tasks[r], "dead"))
      \/ Becomes(r, Walking(u, 0, FALSE, MountKnobs, NoPolicy))
      \/ Becomes(r, Walking(v, cursor + 1, cursor > 0, MountKnobs, NoPolicy))
  BY <1>1 DEF EntryRefused, Task
<1> HIDE DEF u, same
<1>6. v \in Task BY <1>1, <1>2 DEF Task
<1> HIDE DEF v, cursor
<1>7. TasksMove
  BY <1>1, <1>2, <1>3, <1>5, <1>6, EndedType, WalkingType, MountKnobsType, BecomesOK
<1> QED BY <1>4, <1>7

LEMMA WalkRefusedOK ==
    ASSUME IInv, NEW r \in Req, WalkRefused(r)
    PROVE  EntryMoves /\ TasksMove
<1> DEFINE u == [tasks[r] EXCEPT !.wrapped = TRUE]
<1>1. tasks[r] \in Task BY DEF IInv, TypeOK
<1>2. u \in Task BY <1>1 DEF Task
<1>3. LoopHead(r, u, 0) \/ GiveUp(r, tasks[r]) \/ Advance(r, tasks[r])
  BY DEF WalkRefused
<1> HIDE DEF u
<1> QED BY <1>1, <1>2, <1>3, LoopHeadOK, GiveUpOK, AdvanceOK

LEMMA RefusedOK ==
    ASSUME IInv, NEW r \in Req, Refused(r)
    PROVE  IInv'
<1>1. tasks[r] \in Task BY DEF IInv, TypeOK
<1>2. \/ EntryRefused(r)
      \/ WalkRefused(r)
      \/ Becomes(r, Ended(tasks[r], "dead")) /\ UNCHANGED <<entry, won>>
      \/ Becomes(r, NoTask) /\ UNCHANGED <<entry, won>>
  BY DEF Refused
<1>3. NoTask.pc = "idle" BY DEF NoTask
<1>4. EntryMoves /\ TasksMove
  BY <1>1, <1>2, <1>3, EntryRefusedOK, WalkRefusedOK, EndedType, NoTaskType, BecomesOK, EntryStays
<1>5. RestTyped BY RestUnchanged DEF Refused
<1> QED BY <1>4, <1>5, Frame DEF Refused

LEMMA TsHealthyOK ==
    ASSUME IInv, NEW r \in Req, TsHealthy(r)
    PROVE  IInv'
<1>1. EntryMoves BY EntrySet, WonType DEF TsHealthy
<1>2. RestTyped BY RestUnchanged DEF TsHealthy
<1> QED BY <1>1, <1>2, TasksStay, Frame DEF TsHealthy

LEMMA TsRecoversOK ==
    ASSUME IInv, NEW r \in Req, NEW advance \in BOOLEAN, TsRecovers(r, advance)
    PROVE  IInv'
<1> DEFINE knobs == KnobsOf(tasks[r].key)
           u == [NoTask EXCEPT !.mode = "ts"]
           next == advance /\ knobs.enabled
           start == IF next THEN Cursor(IdleResetEntry) + 1 ELSE Cursor(IdleResetEntry)
<1>1. tasks[r].key \in Adapter BY DEF IInv, TypeOK, Task
<1>2. knobs \in Knobs /\ next \in BOOLEAN BY <1>1, KnobsType
<1>3. start \in Nat BY CursorType
<1>4. u \in Task BY NoTaskType DEF Task
<1>5. Becomes(r, Walking(u, start, next, knobs, NoPolicy)) BY DEF TsRecovers
<1> HIDE DEF u, start, next, knobs
<1>6. TasksMove BY <1>2, <1>3, <1>4, <1>5, WalkingType, BecomesOK
<1>7. EntryMoves BY EntrySet, WonType DEF TsRecovers
<1>8. RestTyped BY RestUnchanged DEF TsRecovers
<1> QED BY <1>6, <1>7, <1>8, Frame DEF TsRecovers

LEMMA TsEndsOK ==
    ASSUME IInv, NEW r \in Req, TsEnds(r)
    PROVE  IInv'
<1>1. NoTask.pc = "idle" BY DEF NoTask
<1>2. TasksMove BY <1>1, NoTaskType, BecomesOK DEF TsEnds
<1>3. EntryMoves /\ RestTyped BY EntryStays, RestUnchanged DEF TsEnds
<1> QED BY <1>2, <1>3, Frame DEF TsEnds

LEMMA TickOK == IInv /\ Tick => IInv'
<1> SUFFICES ASSUME IInv, Tick PROVE IInv' OBVIOUS
<1>1. entry \in Entry /\ AgeOK(entry) /\ entry # NoEntry BY DEF Tick, IInv, EntryOK
<1>2. entry' = Age(entry) /\ won' \subseteq Nat BY WonType DEF Tick, SetEntry
<1>3. EntryMoves BY <1>1, <1>2, EntryOps, EntryOpsTarget DEF EntryMoves
<1>4. RestTyped BY RestUnchanged DEF Tick
<1> QED BY <1>3, <1>4, TasksStay, Frame DEF Tick

(* The group changes: no task's answer does. *)
LEMMA UnsteadyOK ==
    ASSUME IInv, Unsteady
    PROVE  TasksMove
<1>1. tasks \in [Req -> Task] /\ GrantsOK BY DEF IInv, TypeOK
<1>2. ASSUME NEW r \in Req
      PROVE  /\ tasks'[r] \in Task
             /\ tasks'[r].pc = tasks[r].pc /\ tasks'[r].reply = tasks[r].reply
             /\ tasks'[r].target = tasks[r].target /\ tasks'[r].key = tasks[r].key
  <2> DEFINE steady == tasks[r].pc = "idle"
  <2>1. tasks[r] \in Task /\ steady \in BOOLEAN BY <1>1
  <2>2. tasks'[r] = [tasks[r] EXCEPT !.steady = steady] BY DEF Unsteady
  <2> HIDE DEF steady
  <2> QED BY <2>1, <2>2 DEF Task
<1>3. tasks' \in [Req -> Task] BY <1>2 DEF Unsteady
<1>4. GrantsOK' BY <1>1, <1>2 DEF GrantsOK
<1> QED BY <1>3, <1>4 DEF TasksMove

LEMMA ReconfigureOK ==
    ASSUME IInv, Reconfigure
    PROVE  TasksMove
<1>1. tasks \in [Req -> Task] /\ GrantsOK BY DEF IInv, TypeOK
<1>2. ASSUME NEW r \in Req
      PROVE  /\ tasks'[r] \in Task
             /\ tasks'[r].pc = tasks[r].pc /\ tasks'[r].reply = tasks[r].reply
             /\ tasks'[r].target = tasks[r].target /\ tasks'[r].key = tasks[r].key
  <2> DEFINE still == tasks[r].off /\ ~config'.enabled
  <2>1. tasks[r] \in Task /\ still \in BOOLEAN BY <1>1 DEF Task
  <2>2. tasks'[r] = [tasks[r] EXCEPT !.off = still] BY DEF Reconfigure
  <2> HIDE DEF still
  <2> QED BY <2>1, <2>2 DEF Task
<1>3. tasks' \in [Req -> Task] BY <1>2 DEF Reconfigure
<1>4. GrantsOK' BY <1>1, <1>2 DEF GrantsOK
<1> QED BY <1>3, <1>4 DEF TasksMove

LEMMA EnvironmentOK ==
    ASSUME IInv, NewBucket \/ Regroup \/ Reconfigure
    PROVE  IInv'
<1>1. Active \in SUBSET Children BY ActiveType DEF IInv, TypeOK
<1>2. CASE NewBucket
  <2>1. order' \in Seq(Children) BY <1>1, <1>2, OrdersType DEF NewBucket
  <2>2. RestTyped BY <1>2, <2>1 DEF NewBucket, IInv, TypeOK, RestTyped
  <2> QED BY <1>2, <2>2, EntryStays, UnsteadyOK, Frame DEF NewBucket
<1>3. CASE Regroup
  <2>1. order' \in Seq(Children) BY <1>3, OrdersType DEF Regroup
  <2>2. RestTyped BY <1>3, <2>1 DEF Regroup, IInv, TypeOK, RestTyped
  <2> QED BY <1>3, <2>2, EntryStays, UnsteadyOK, Frame DEF Regroup
<1>4. CASE Reconfigure
  <2>1. RestTyped BY <1>4 DEF Reconfigure, IInv, TypeOK, RestTyped
  <2> QED BY <1>4, <2>1, EntryStays, ReconfigureOK, Frame DEF Reconfigure
<1> QED BY <1>2, <1>3, <1>4

LEMMA NothingInFlight ==
    ASSUME tasks' = [r \in Req |-> NoTask]
    PROVE  TasksMove
<1>1. NoTask.pc = "idle" BY DEF NoTask
<1> QED BY <1>1, NoTaskType DEF TasksMove, GrantsOK

LEMMA RestartOK == IInv /\ Restart => IInv'
<1> SUFFICES ASSUME IInv, Restart PROVE IInv' OBVIOUS
<1>1. TasksMove BY NothingInFlight DEF Restart
<1>2. TypeOK' BY <1>1 DEF Restart, IInv, TypeOK, TasksMove
<1>3. PolicyOfServingProvider' BY DEF Restart, PolicyOfServingProvider
<1>4. EntryOK(entry)' BY DEF Restart, EntryOK
<1> QED BY <1>1, <1>2, <1>3, <1>4 DEF IInv, TasksMove

-----------------------------------------------------------------------------
(* IInv is inductive. *)

LEMMA Initially == Init => IInv
<1> SUFFICES ASSUME Init PROVE IInv OBVIOUS
<1>1. order \in Seq(Children) BY OrdersType DEF Init
<1>2. tasks \in [Req -> Task] /\ GrantsOK
  BY NoTaskType DEF Init, GrantsOK, NoTask
<1>3. TypeOK BY <1>1, <1>2 DEF Init, TypeOK
<1>4. PolicyOfServingProvider BY DEF Init, PolicyOfServingProvider
<1>5. EntryOK(entry) BY DEF Init, EntryOK
<1> QED BY <1>2, <1>3, <1>4, <1>5 DEF IInv

LEMMA Inductive == IInv /\ [Next]_vars => IInv'
<1> SUFFICES ASSUME IInv, [Next]_vars PROVE IInv' OBVIOUS
<1>1. ASSUME NEW r \in Req, Progress(r) PROVE IInv'
  BY <1>1, GrantOK, GrantExhaustedOK, GrantFailsOK, LandOK, RefusedOK, TakeOK, CheckOK,
     FetchOkOK, FetchDefiniteOK, FetchFailsOK DEF Progress
<1>2. ASSUME NEW r \in Req,
             EntryRequest(r) \/ HopRefresh(r) \/ ColdHop(r) \/ SeamLost(r)
      PROVE  IInv'
  BY <1>2, EntryRequestOK, HopRefreshOK, ColdHopOK, SeamLostOK
<1>3. ASSUME NEW r \in Req,
             TsHealthy(r) \/ TsEnds(r) \/ \E advance \in BOOLEAN : TsRecovers(r, advance)
      PROVE  IInv'
  BY <1>3, TsHealthyOK, TsEndsOK, TsRecoversOK
<1>4. CASE Hop \/ Tick \/ NewBucket \/ Regroup \/ Reconfigure \/ Restart
  BY <1>4, HopOK, TickOK, EnvironmentOK, RestartOK
<1>5. CASE UNCHANGED vars
  <2>1. EntryMoves /\ TasksMove /\ RestTyped
    BY <1>5, EntryStays, TasksStay, RestUnchanged DEF vars
  <2> QED BY <1>5, <2>1, Frame DEF vars
<1> QED BY <1>1, <1>2, <1>3, <1>4, <1>5 DEF Next

LEMMA Invariance == Spec => []IInv
<1> QED BY Initially, Inductive, PTL DEF Spec

-----------------------------------------------------------------------------
(* Every reachable state is of the declared types, for every group and every *)
(* number of concurrent requests of serve_stream and ts_producer.            *)
THEOREM TypesHold == Spec => []TypeOK
<1>1. IInv => TypeOK BY DEF IInv
<1> QED BY <1>1, Invariance, PTL

(* A target that a request may still take from the cache was resolved for the *)
(* attempt the failover cursor names, whatever resets, idle expiries,         *)
(* refreshes and walks interleave (state.rs, resolve_entry and reset_cursor). *)
THEOREM CachedTargetPinned == Spec => []CachedTargetIsPinned
<1>1. IInv => CachedTargetIsPinned BY DEF IInv, EntryOK, AgeOK, CachedTargetIsPinned
<1> QED BY <1>1, Invariance, PTL

(* Hops replay the headers of the provider that resolved the cached target,   *)
(* even when a child of another provider serves the channel's stream          *)
(* (state.rs resolve_at files the policy under the grant's own source).       *)
THEOREM PolicyFollowsTarget == Spec => []PolicyOfServingProvider
<1>1. IInv => PolicyOfServingProvider BY DEF IInv
<1> QED BY <1>1, Invariance, PTL

(* When the idle limit has passed nothing fresh is cached, so resolve_entry   *)
(* and cursor_attempt may reset the cursor and leave the target alone; this   *)
(* is where FAILOVER_CURSOR_IDLE >= TARGET_TTL is needed.                     *)
THEOREM IdleRecordIsStale == Spec => []IdleMeansStale
<1>1. IInv => IdleMeansStale
  <2> SUFFICES ASSUME IInv, entry # NoEntry, Idle(entry), Fresh(entry) PROVE FALSE
    BY DEF IdleMeansStale
  <2>1. entry \in Entry /\ entry.ttl + entry.quiet <= TargetTtl
    BY DEF IInv, EntryOK, AgeOK
  <2> QED BY <2>1, TimeAssumption DEF Idle, Fresh, Entry
<1> QED BY <1>1, Invariance, PTL

-----------------------------------------------------------------------------
(***************************************************************************)
(* The walk, whatever else is at work on the stream: every lemma below is  *)
(* about any number of tasks.                                              *)
(*   - TaskInv, of each task: which roles come to which point (RoleOK),    *)
(*     and that a walk begun under an off grant has no child to fetch from *)
(*     (OffOK): while it is in flight the config stays off and no grant    *)
(*     that says otherwise is under way, so every policy that is filed     *)
(*     where it looks says off;                                            *)
(*   - PinInv: an attempt that the cursor names and that did not serve is  *)
(*     owed by a walk that is trying it, or goes on to move it;            *)
(*   - WalkInv, of each task (TriedOK): what a walk has put behind it was   *)
(*     visited, how many candidates that are, and that its attempts stay   *)
(*     inside the group.                                                   *)
(***************************************************************************)
Kept(e, w)  == Cursor(e) = 0 \/ Cursor(e) \in w
Unpinned(e) == Cursor(e) = 0 /\ (e # NoEntry => ~Fresh(e))
Failed(t)   == t.pc = "done" /\ t.role = "walk" /\ t.result \in {"forwarded", "dead"}

RoleOK(t) ==
    /\ t.pc = "prefetched" => t.role = "walk"
    /\ t.pc = "take" => t.role \in {"entry", "cold"}
    /\ t.pc = "check" => t.role = "walk"
    /\ t.pc = "fetch" => t.role \in {"entry", "walk"}

FlagOn(pol, key) == pol[key] # NoPolicy /\ pol[key].knobs.enabled

OffOK(t, on, pol) ==
    t.off => /\ ~on
             /\ t.pc = "check" => ~FlagOn(pol, t.key)
             /\ t.pc = "fetch" /\ t.role = "walk" => t.attempt = 0

TaskInv == \A r \in Req : /\ RoleOK(tasks[r])
                         /\ OffOK(tasks[r], config.enabled \/ OnInFlight, policies)

Owing(t, e) ==
    /\ t.role = "walk"
    /\ t.pc \in {"ask", "reply"} \/ (t.pc \in {"check", "fetch"} /\ t.attempt = Cursor(e))

PinInv == Kept(entry, won) \/ \E r \in Req : Owing(tasks[r], entry)

(* What a step must show. *)
WalkExits == \A r \in Req : EndsInVain(r) => Unpinned(entry')
StepOK    == TaskInv' /\ PinInv' /\ WalkExits

(* The candidate behind attempt i, and all of them, under the order o. *)
Nth(o, i) == IF i = 0 THEN Parent ELSE o[i]
Everyone(o) == {o[i] : i \in DOMAIN o} \cup {Parent}

(* The attempts a walk has put behind it. *)
Behind(t, i) == IF t.wrapped THEN i < t.attempt \/ t.start <= i
                             ELSE t.start <= i /\ i < t.attempt

(* What a walk asked for before it wrapped. *)
FirstLeg(t, o) == IF t.start <= Len(o) + 1 THEN Len(o) + 2 - t.start ELSE 1

OnWalk(t) == t.role = "walk" /\ t.pc \in {"ask", "reply", "check", "fetch"}
             /\ t.children /\ t.mode = "hls"

WalkOK(t, o) ==
    /\ \A i \in 0..Len(o) : Behind(t, i) => Nth(o, i) \in t.visited
    /\ ~t.wrap /\ t.start > 0 => t.start = 1 /\ Parent \in t.visited
    /\ t.wrapped => t.wrap /\ t.attempt < t.start /\ t.tried <= t.attempt + 1 + FirstLeg(t, o)
    /\ ~t.wrapped => /\ t.start <= t.attempt /\ t.tried = t.attempt - t.start + 1
                     /\ t.attempt <= Len(o) + 1 \/ t.attempt = t.start

Answered(t) == \/ t.pc = "reply" /\ t.reply # "exhausted"
               \/ t.role = "walk" /\ t.pc \in {"check", "fetch"}

TriedOK(t, o) ==
    /\ t.pc = "idle" => t.visited = {}
    /\ t.pc = "reply" => t.reply # "none"
    /\ t.steady =>
        /\ t.visited \subseteq Everyone(o)
        /\ t.pc = "reply" /\ t.reply = "exhausted" => t.attempt > Len(o)
        /\ Answered(t) => t.attempt <= Len(o) /\ Nth(o, t.attempt) \in t.visited
        /\ OnWalk(t) => WalkOK(t, o)
        /\ Failed(t) /\ t.result = "dead" /\ t.children /\ t.mode = "hls"
             /\ Len(o) + 2 <= MaxAttempts
           => t.visited = Everyone(o)

WalkInv == \A r \in Req : TriedOK(tasks[r], order)

-----------------------------------------------------------------------------
(* What the makers of a task leave of its fields. *)

Carried(t, u) == /\ u.role = t.role /\ u.mode = t.mode /\ u.children = t.children
                 /\ u.visited = t.visited /\ u.steady = t.steady

LEMMA AskingFields ==
    ASSUME NEW t \in Task, NEW attempt \in Nat
    PROVE  LET u == Asking(t, attempt)
           IN  /\ u \in Task /\ Carried(t, u) /\ u.pc = "ask" /\ u.attempt = attempt
               /\ u.start = t.start /\ u.wrap = t.wrap /\ u.wrapped = t.wrapped
               /\ u.tried = t.tried /\ u.off = t.off
<1> DEFINE a == [t EXCEPT !.pc = "ask", !.attempt = attempt]
           u == Asking(t, attempt)
           Like(v) == /\ Carried(t, v) /\ v.pc = "ask" /\ v.attempt = attempt
                      /\ v.start = t.start /\ v.wrap = t.wrap /\ v.wrapped = t.wrapped
                      /\ v.tried = t.tried /\ v.off = t.off
<1>1. u \in Task BY AskingType
<1>2. u = [a EXCEPT !.reply = "none", !.target = NoTarget] BY DEF Asking, Task
<1>3. a \in Task BY DEF Task
<1>4. Like(a) BY DEF Task, Carried
<1> HIDE DEF a
<1>5. Like(u) BY <1>2, <1>3, <1>4 DEF Task, Carried
<1> QED BY <1>1, <1>5

LEMMA EndedFields ==
    ASSUME NEW t \in Task, NEW result \in {"served", "forwarded", "dead"}
    PROVE  LET u == Ended(t, result)
           IN  u \in Task /\ Carried(t, u) /\ u.pc = "done" /\ u.result = result /\ ~u.off
<1> DEFINE s == [NoTask EXCEPT !.pc = "done"]
           a == [s EXCEPT !.role = t.role]
           b == [a EXCEPT !.mode = t.mode]
           c == [b EXCEPT !.result = result]
           d == [c EXCEPT !.children = t.children]
           f == [d EXCEPT !.visited = t.visited]
<1>1. /\ t.role \in {"entry", "walk", "cold", "refresh"} /\ t.mode \in {"hls", "ts"}
      /\ t.children \in BOOLEAN /\ t.visited \in SUBSET Cand /\ t.steady \in BOOLEAN
  BY DEF Task
<1>2. Ended(t, result) = [f EXCEPT !.steady = t.steady]
  BY DEF Ended, NoTask
<1>8. ~NoTask.off BY DEF NoTask
<1>3. s \in Task /\ s.pc = "done" /\ ~s.off BY <1>8, NoTaskType DEF Task
<1> HIDE DEF s
<1>4. a \in Task /\ a.pc = "done" /\ a.role = t.role /\ ~a.off BY <1>1, <1>3 DEF Task
<1> HIDE DEF a
<1>5. b \in Task /\ b.pc = "done" /\ b.role = t.role /\ b.mode = t.mode /\ ~b.off
  BY <1>1, <1>4 DEF Task
<1> HIDE DEF b
<1>6. /\ c \in Task /\ c.pc = "done" /\ c.role = t.role /\ c.mode = t.mode
      /\ c.result = result /\ ~c.off
  BY <1>5 DEF Task
<1> HIDE DEF c
<1>7. /\ d \in Task /\ d.pc = "done" /\ d.role = t.role /\ d.mode = t.mode
      /\ d.result = result /\ d.children = t.children /\ ~d.off
  BY <1>1, <1>6 DEF Task
<1> HIDE DEF d
<1>9. /\ f \in Task /\ f.pc = "done" /\ f.role = t.role /\ f.mode = t.mode
      /\ f.result = result /\ f.children = t.children /\ f.visited = t.visited /\ ~f.off
  BY <1>1, <1>7 DEF Task
<1> HIDE DEF f
<1> QED BY <1>1, <1>2, <1>9 DEF Task, Carried

LEMMA AnswerFields ==
    ASSUME NEW t \in Task, NEW key \in Adapter
    PROVE  LET u == Answer(t, key)
           IN  /\ u \in Task /\ Carried(t, u) /\ u.pc \in {"prefetched", "done"}
               /\ u.pc = "done" => u.result = "forwarded"
               /\ u.off => t.off
<1> DEFINE v == [t EXCEPT !.pc = "prefetched", !.key = key]
<1>1. v \in Task /\ Carried(t, v) /\ v.pc = "prefetched" /\ v.off = t.off
  BY DEF Task, Carried
<1> QED BY <1>1, EndedFields DEF Answer

LEMMA ExhaustFields ==
    ASSUME NEW t \in Task
    PROVE  LET u == Exhaust(t)
           IN  /\ u \in Task /\ Carried(t, u) /\ u.pc \in {"prefetched", "done"}
               /\ u.pc = "done" => u.result \in {"forwarded", "dead"}
               /\ u.off => t.off
<1>1. t.stash # NoPolicy => t.stash \in Adapter
  BY DEF Task
<1> QED BY <1>1, EndedFields, AnswerFields DEF Exhaust

(* The task u is t at the head of a walk. *)
Begins(u, t, start, wrap) ==
    /\ u \in Task /\ u.pc = "ask" /\ u.role = "walk" /\ u.mode = t.mode
    /\ u.visited = t.visited /\ u.steady = t.steady
    /\ u.attempt = start /\ u.start = start /\ u.wrap = wrap /\ u.wrapped = FALSE
    /\ u.tried = 1 /\ u.off = t.off

LEMMA WalkingFields ==
    ASSUME NEW t \in Task, NEW start \in Nat, NEW wrap \in BOOLEAN,
           NEW knobs \in Knobs, NEW stash \in Adapter \cup {NoPolicy}
    PROVE  Begins(Walking(t, start, wrap, knobs, stash), t, start, wrap)
<1> DEFINE a == [t EXCEPT !.role = "walk", !.start = start]
           b == [a EXCEPT !.wrap = wrap]
           c == [b EXCEPT !.wrapped = FALSE, !.tried = 1]
           d == [c EXCEPT !.children = knobs.enabled, !.definite = knobs.definite]
           f == [d EXCEPT !.stash = stash]
<1> DEFINE On(u) == /\ u \in Task /\ u.role = "walk" /\ u.mode = t.mode
                    /\ u.visited = t.visited /\ u.steady = t.steady /\ u.start = start
                    /\ u.off = t.off
<1>1. knobs.enabled \in BOOLEAN /\ knobs.definite \in BOOLEAN
  BY DEF Knobs
<1>2. Walking(t, start, wrap, knobs, stash) = Asking(f, start)
  BY DEF Walking, Task
<1>3. On(a) BY DEF Task
<1> HIDE DEF a
<1>4. On(b) /\ b.wrap = wrap BY <1>3 DEF Task
<1> HIDE DEF b
<1>5. On(c) /\ c.wrap = wrap /\ c.wrapped = FALSE /\ c.tried = 1 BY <1>4 DEF Task
<1> HIDE DEF c
<1>6. On(d) /\ d.wrap = wrap /\ d.wrapped = FALSE /\ d.tried = 1 BY <1>1, <1>5 DEF Task
<1> HIDE DEF d
<1>7. On(f) /\ f.wrap = wrap /\ f.wrapped = FALSE /\ f.tried = 1 BY <1>6 DEF Task
<1> HIDE DEF f
<1> QED BY <1>2, <1>7, AskingFields DEF Carried, Begins

(* What the operations of the record do to its cursor. *)
LEMMA RecordOps ==
    ASSUME IInv
    PROVE  /\ Cursor(IdleResetEntry) \in {0, Cursor(entry)}
           /\ Cursor(TouchEntry(IdleResetEntry)) = Cursor(IdleResetEntry)
           /\ Cursor(InvalidEntry(IdleResetEntry)) = Cursor(IdleResetEntry)
           /\ Cursor(TouchEntry(entry)) = Cursor(entry)
           /\ Cursor(TakenEntry) = Cursor(entry)
           /\ Unpinned(ResetEntry)
<1>1. CASE entry = NoEntry
  BY <1>1 DEF Cursor, IdleResetEntry, TouchEntry, InvalidEntry, TakenEntry, ResetEntry, Unpinned
<1>2. CASE entry # NoEntry
  <2>1. entry \in Entry BY <1>2 DEF IInv, EntryOK
  <2> DEFINE e == IdleReset(entry)
  <2>2. /\ e \in Entry /\ e.quiet = entry.quiet
        /\ e.attempt \in {0, entry.attempt}
    BY <2>1 DEF IdleReset, Entry
  <2>3. e # NoEntry /\ IdleResetEntry = e
    BY <1>2, <2>2, NoEntryAssumption DEF IdleResetEntry
  <2> HIDE DEF e
  <2>4. /\ Touch(e) \in Entry /\ Touch(e).attempt = e.attempt
    BY <2>2, TimeAssumption DEF Touch, Entry, Idle
  <2>5. /\ Touch(entry) \in Entry /\ Touch(entry).attempt = entry.attempt
    BY <2>1, TimeAssumption DEF Touch, Entry, Idle
  <2>6. Invalidate(e) \in Entry /\ Invalidate(e).attempt = e.attempt
    BY <2>2, TimeAssumption DEF Invalidate, Entry
  <2>7. TakePending(entry) \in Entry /\ TakePending(entry).attempt = entry.attempt
    BY <2>1 DEF TakePending, Entry
  <2>8. PICK f : f = [entry EXCEPT !.attempt = 0] OBVIOUS
  <2>9. f \in Entry /\ f.attempt = 0 BY <2>1, <2>8 DEF Entry
  <2>10. ResetCursor(entry) = [f EXCEPT !.ttl = 0] BY <2>1, <2>8 DEF ResetCursor, Entry
  <2>11. /\ ResetCursor(entry) \in Entry /\ ResetCursor(entry).attempt = 0
         /\ ResetCursor(entry).ttl = 0
    BY <2>9, <2>10, TimeAssumption DEF Entry
  <2>12. Unpinned(ResetEntry)
    BY <1>2, <2>11, NoEntryAssumption DEF ResetEntry, Unpinned, Cursor, Fresh
  <2>13. TouchEntry(entry) = Touch(entry) /\ Touch(entry) # NoEntry
    BY <1>2, <2>5, NoEntryAssumption DEF TouchEntry
  <2>14. TouchEntry(IdleResetEntry) = Touch(e) /\ Touch(e) # NoEntry
    BY <2>3, <2>4, NoEntryAssumption DEF TouchEntry
  <2>15. InvalidEntry(IdleResetEntry) = Invalidate(e) /\ Invalidate(e) # NoEntry
    BY <2>3, <2>6, NoEntryAssumption DEF InvalidEntry
  <2>16. TakenEntry = TakePending(entry) /\ TakePending(entry) # NoEntry
    BY <1>2, <2>7, NoEntryAssumption DEF TakenEntry
  <2> QED
    BY <1>2, <2>2, <2>3, <2>4, <2>5, <2>6, <2>7, <2>12, <2>13, <2>14, <2>15, <2>16
    DEF Cursor
<1> QED BY <1>1, <1>2

(* A step that gives the task r the record u leaves the others alone. *)
LEMMA OneMoves ==
    ASSUME IInv, NEW r \in Req, NEW u, Becomes(r, u)
    PROVE  \A q \in Req : tasks'[q] = IF q = r THEN u ELSE tasks[q]
BY DEF IInv, TypeOK, Becomes

-----------------------------------------------------------------------------
(* The pin. *)

LEMMA PinReset ==
    ASSUME Cursor(entry') = 0
    PROVE  PinInv'
BY DEF PinInv, Kept

LEMMA PinOwed ==
    ASSUME IInv, NEW r \in Req, NEW u, Becomes(r, u), Owing(u, entry')
    PROVE  PinInv'
<1>1. tasks'[r] = u BY OneMoves
<1> QED BY <1>1 DEF PinInv

(* The cursor goes back to the channel or stays, and the history with it. *)
CursorStays == Cursor(entry') = 0 \/ (Cursor(entry') = Cursor(entry) /\ won \subseteq won')

LEMMA CursorSet ==
    ASSUME NEW e, Cursor(e) \in {0, Cursor(entry)}, SetEntry(e, won)
    PROVE  CursorStays
BY DEF SetEntry, CursorStays

LEMMA PinStays ==
    ASSUME IInv, PinInv, NEW r \in Req, NEW u, Becomes(r, u), CursorStays,
           ~Owing(tasks[r], entry)
    PROVE  PinInv'
<1>1. CASE Cursor(entry') = 0 BY <1>1, PinReset
<1>2. CASE Cursor(entry') = Cursor(entry) /\ won \subseteq won'
  <2>1. CASE Kept(entry, won) BY <1>2, <2>1 DEF Kept, PinInv
  <2>2. CASE \E q \in Req : Owing(tasks[q], entry)
    <3>1. PICK q \in Req : Owing(tasks[q], entry) BY <2>2
    <3>2. q # r /\ tasks'[q] = tasks[q] BY <3>1, OneMoves
    <3>3. Owing(tasks'[q], entry') BY <1>2, <3>1, <3>2 DEF Owing
    <3> QED BY <3>3 DEF PinInv
  <2> QED BY <2>1, <2>2 DEF PinInv
<1> QED BY <1>1, <1>2 DEF CursorStays

LEMMA PinSame ==
    ASSUME PinInv, CursorStays,
           \A q \in Req : /\ tasks'[q].pc = tasks[q].pc /\ tasks'[q].role = tasks[q].role
                          /\ tasks'[q].attempt = tasks[q].attempt
    PROVE  PinInv'
<1>1. CASE Cursor(entry') = 0 BY <1>1, PinReset
<1>2. CASE Cursor(entry') = Cursor(entry) /\ won \subseteq won'
  <2>1. CASE Kept(entry, won) BY <1>2, <2>1 DEF Kept, PinInv
  <2>2. CASE \E q \in Req : Owing(tasks[q], entry)
    <3>1. PICK q \in Req : Owing(tasks[q], entry) BY <2>2
    <3>2. Owing(tasks'[q], entry') BY <1>2, <3>1 DEF Owing
    <3> QED BY <3>2 DEF PinInv
  <2> QED BY <2>1, <2>2 DEF PinInv
<1> QED BY <1>1, <1>2 DEF CursorStays

-----------------------------------------------------------------------------
(* The tasks. *)

LEMMA OthersGoOn ==
    ASSUME IInv, NEW r \in Req, NEW u, Becomes(r, u), EndsInVain(r) => Unpinned(entry')
    PROVE  WalkExits
<1> SUFFICES ASSUME NEW q \in Req, EndsInVain(q), q # r PROVE FALSE
  BY DEF WalkExits
<1>1. tasks'[q] = tasks[q] BY OneMoves
<1> QED BY <1>1 DEF EndsInVain

(* No grant is made: none is under way that was not. *)
LEMMA NoneGranted ==
    ASSUME IInv, NEW r \in Req, NEW u, Becomes(r, u),
           u.pc = "reply" /\ u.reply = "grant" => ~u.knobs.enabled, OnInFlight'
    PROVE  OnInFlight
<1>1. PICK q \in Req : /\ tasks'[q].pc = "reply" /\ tasks'[q].reply = "grant"
                       /\ tasks'[q].knobs.enabled
  BY DEF OnInFlight
<1>2. tasks'[q] = IF q = r THEN u ELSE tasks[q] BY OneMoves
<1> QED BY <1>1, <1>2 DEF OnInFlight

LEMMA TaskMoves ==
    ASSUME IInv, TaskInv, NEW r \in Req, NEW u, Becomes(r, u), UNCHANGED <<policies, config>>,
           RoleOK(u), u.off => tasks[r].off, u.pc # "check",
           ~(u.pc = "reply" /\ u.reply = "grant"),
           u.pc = "fetch" /\ u.role = "walk" /\ u.off => u.attempt = 0
    PROVE  TaskInv'
<1>1. \A q \in Req : tasks'[q] = IF q = r THEN u ELSE tasks[q] BY OneMoves
<1>2. OnInFlight' => OnInFlight BY NoneGranted
<1>3. PICK on : on = (config.enabled \/ OnInFlight) OBVIOUS
<1>4. PICK on1 : on1 = (config.enabled \/ OnInFlight)' OBVIOUS
<1>5. on1 => on BY <1>2, <1>3, <1>4
<1>6. ASSUME NEW q \in Req PROVE RoleOK(tasks'[q]) /\ OffOK(tasks'[q], on1, policies)
  <2>1. RoleOK(tasks[q]) /\ OffOK(tasks[q], on, policies) /\ OffOK(tasks[r], on, policies)
    BY <1>3 DEF TaskInv
  <2>2. CASE q = r
    <3>1. tasks'[q] = u BY <1>1, <2>2
    <3> QED BY <1>5, <2>1, <3>1 DEF OffOK
  <2>3. CASE q # r
    <3>1. tasks'[q] = tasks[q] BY <1>1, <2>3
    <3> QED BY <1>5, <2>1, <3>1 DEF OffOK
  <2> QED BY <2>2, <2>3
<1> QED BY <1>4, <1>6 DEF TaskInv

LEMMA TaskAsks ==
    ASSUME IInv, TaskInv, NEW r \in Req, NEW u, Becomes(r, u), UNCHANGED <<policies, config>>,
           u.pc = "ask", u.off => tasks[r].off
    PROVE  TaskInv' /\ WalkExits
<1>1. TaskInv' BY TaskMoves DEF RoleOK
<1>2. ~EndsInVain(r)
  <2>1. tasks'[r] = u BY OneMoves
  <2> QED BY <2>1 DEF EndsInVain
<1> QED BY <1>1, <1>2, OthersGoOn

LEMMA TaskRests ==
    ASSUME IInv, TaskInv, NEW r \in Req, NEW u, Becomes(r, u), UNCHANGED <<policies, config>>,
           u.pc \in {"idle", "done", "ts"}, u.off => tasks[r].off,
           EndsInVain(r) => Unpinned(entry')
    PROVE  TaskInv' /\ WalkExits
BY TaskMoves, OthersGoOn DEF RoleOK

(* A walk begins, or a recovery. *)
LEMMA WalkingStep ==
    ASSUME IInv, TaskInv, NEW r \in Req, NEW t \in Task, NEW start \in Nat,
           NEW wrap \in BOOLEAN, NEW knobs \in Knobs, NEW stash \in Adapter \cup {NoPolicy},
           Becomes(r, Walking(t, start, wrap, knobs, stash)), t.off => tasks[r].off,
           UNCHANGED <<policies, config>>
    PROVE  StepOK
<1>1. PICK u : u = Walking(t, start, wrap, knobs, stash) OBVIOUS
<1>2. Begins(u, t, start, wrap) BY <1>1, WalkingFields
<1>3. u.pc = "ask" /\ u.role = "walk" /\ u.off = t.off BY <1>2 DEF Begins
<1>4. Becomes(r, u) BY <1>1
<1>5. TaskInv' /\ WalkExits BY <1>3, <1>4, TaskAsks
<1>6. PinInv' BY <1>3, <1>4, PinOwed DEF Owing
<1> QED BY <1>5, <1>6 DEF StepOK

(* What the foot of the loop comes to: the walk is over and nothing is pinned, *)
(* or the next candidate is asked for.                                         *)
GaveUp(r, t) ==
    /\ Unpinned(entry')
    /\ \E u \in Task : /\ Becomes(r, u) /\ u.role = t.role /\ u.pc \in {"prefetched", "done"}
                       /\ u.off => t.off
AskedOn(r, t) ==
    \E u \in Task : Becomes(r, u) /\ u.role = t.role /\ u.pc = "ask" /\ (u.off => t.off)

LEMMA GiveUpOut ==
    ASSUME IInv, NEW r \in Req, NEW t \in Task, GiveUp(r, t)
    PROVE  GaveUp(r, t)
<1>1. Unpinned(entry') BY RecordOps DEF GiveUp, SetEntry
<1>2. PICK u : u = Exhaust(t) OBVIOUS
<1>3. /\ u \in Task /\ u.role = t.role /\ u.pc \in {"prefetched", "done"}
      /\ u.off => t.off
  BY <1>2, ExhaustFields DEF Carried
<1>4. Becomes(r, u) BY <1>2 DEF GiveUp
<1> QED BY <1>1, <1>3, <1>4 DEF GaveUp

LEMMA LoopHeadOut ==
    ASSUME IInv, NEW r \in Req, NEW t \in Task, NEW attempt \in Nat, LoopHead(r, t, attempt)
    PROVE  GaveUp(r, t) \/ AskedOn(r, t)
<1>1. CASE GiveUp(r, t) BY <1>1, GiveUpOut
<1>2. CASE Becomes(r, Asking([t EXCEPT !.tried = @ + 1], attempt))
  <2>1. PICK v : v = [t EXCEPT !.tried = @ + 1] OBVIOUS
  <2>2. v \in Task /\ v.role = t.role /\ v.off = t.off BY <2>1 DEF Task
  <2>3. PICK u : u = Asking(v, attempt) OBVIOUS
  <2>4. u \in Task /\ u.pc = "ask" /\ u.role = t.role /\ u.off = t.off
    BY <2>2, <2>3, AskingFields DEF Carried
  <2>5. Becomes(r, u) BY <1>2, <2>1, <2>3
  <2> QED BY <2>4, <2>5 DEF AskedOn
<1> QED BY <1>1, <1>2 DEF LoopHead

LEMMA AdvanceOut ==
    ASSUME IInv, NEW r \in Req, NEW t \in Task, Advance(r, t)
    PROVE  GaveUp(r, t) \/ AskedOn(r, t)
<1>1. t.attempt + 1 \in Nat BY DEF Task
<1> QED BY <1>1, GiveUpOut, LoopHeadOut DEF Advance

LEMMA WalkOut ==
    ASSUME IInv, TaskInv, NEW r \in Req, NEW t \in Task, t.role = "walk",
           t.off => tasks[r].off, GaveUp(r, t) \/ AskedOn(r, t), UNCHANGED <<policies, config>>
    PROVE  StepOK
<1>1. CASE GaveUp(r, t)
  <2>1. PICK u \in Task : /\ Becomes(r, u) /\ u.role = t.role
                          /\ u.pc \in {"prefetched", "done"} /\ (u.off => t.off)
    BY <1>1 DEF GaveUp
  <2>2. Unpinned(entry') BY <1>1 DEF GaveUp
  <2>3. TaskInv' BY <2>1, TaskMoves DEF RoleOK
  <2>4. WalkExits BY <2>1, <2>2, OthersGoOn
  <2>5. PinInv' BY <2>2, PinReset DEF Unpinned
  <2> QED BY <2>3, <2>4, <2>5 DEF StepOK
<1>2. CASE AskedOn(r, t)
  <2>1. PICK u \in Task : Becomes(r, u) /\ u.role = t.role /\ u.pc = "ask" /\ (u.off => t.off)
    BY <1>2 DEF AskedOn
  <2>2. TaskInv' /\ WalkExits BY <2>1, TaskAsks
  <2>3. PinInv' BY <2>1, PinOwed DEF Owing
  <2> QED BY <2>2, <2>3 DEF StepOK
<1> QED BY <1>1, <1>2

-----------------------------------------------------------------------------
(* StepOK, action by action. *)

LEMMA TaskOf ==
    ASSUME IInv, TaskInv, NEW r \in Req
    PROVE  /\ tasks[r] \in Task /\ RoleOK(tasks[r])
           /\ OffOK(tasks[r], config.enabled \/ OnInFlight, policies)
BY DEF IInv, TypeOK, TaskInv

(* A free slot, a request that ended and a session owe nothing. *)
LEMMA RestedOwesNone ==
    ASSUME NEW t, t.pc \in {"idle", "done", "ts", "take", "prefetched"} \/ t.role # "walk"
    PROVE  ~Owing(t, entry)
BY DEF Owing

LEMMA EntryWalkStep ==
    ASSUME IInv, TaskInv, NEW r \in Req, NEW knobs \in Knobs,
           NEW stash \in Adapter \cup {NoPolicy}, EntryWalk(r, knobs, stash),
           UNCHANGED <<policies, config>>
    PROVE  StepOK
<1>1. PICK u : u = [tasks[r] EXCEPT !.again = FALSE] OBVIOUS
<1>2. tasks[r] \in Task BY TaskOf
<1>3. u \in Task /\ u.off = tasks[r].off BY <1>1, <1>2 DEF Task
<1>4. Becomes(r, Walking(u, Cursor(IdleResetEntry), TRUE, knobs, stash)) BY <1>1 DEF EntryWalk
<1> QED BY <1>3, <1>4, CursorType, WalkingStep

(* Requests and hops begin with an entry resolve or a refresh. *)
LEMMA BeginStep ==
    ASSUME IInv, TaskInv, PinInv, NEW r \in Req,
           EntryRequest(r) \/ HopRefresh(r) \/ ColdHop(r)
    PROVE  StepOK
<1>1. Cursor(IdleResetEntry) \in Nat BY CursorType
<1>2. NoTask \in Task /\ NoTask.role = "entry" /\ ~NoTask.off
  BY NoTaskType DEF NoTask
<1>3. PICK u : Becomes(r, u) /\ ~u.off /\ u.pc \in {"take", "ask"}
               /\ u.role \in {"entry", "refresh", "cold"} /\ (u.pc = "take" => u.role = "entry")
  <2>1. CASE Becomes(r, [NoTask EXCEPT !.pc = "take", !.attempt = Cursor(IdleResetEntry),
                                       !.target = entry.target, !.key = entry.policyKey])
    <3>1. PICK u : u = [NoTask EXCEPT !.pc = "take", !.attempt = Cursor(IdleResetEntry),
                                      !.target = entry.target, !.key = entry.policyKey]
      OBVIOUS
    <3>2. u.pc = "take" /\ u.role = "entry" /\ ~u.off BY <3>1 DEF NoTask
    <3> QED BY <2>1, <3>1, <3>2
  <2>2. CASE Becomes(r, Asking(NoTask, Cursor(IdleResetEntry)))
    BY <1>1, <1>2, <2>2, AskingFields DEF Carried
  <2>3. CASE Becomes(r, Asking([NoTask EXCEPT !.role = "refresh"], Cursor(IdleResetEntry)))
    <3>1. PICK v : v = [NoTask EXCEPT !.role = "refresh"] OBVIOUS
    <3>2. v \in Task /\ v.role = "refresh" /\ ~v.off BY <1>2, <3>1 DEF Task
    <3>3. PICK u : u = Asking(v, Cursor(IdleResetEntry)) OBVIOUS
    <3>4. u.pc = "ask" /\ u.role = "refresh" /\ ~u.off
      BY <1>1, <3>2, <3>3, AskingFields DEF Carried
    <3> QED BY <2>3, <3>1, <3>3, <3>4
  <2>4. CASE Becomes(r, Asking([NoTask EXCEPT !.role = "cold"], 0))
    <3>1. PICK v : v = [NoTask EXCEPT !.role = "cold"] OBVIOUS
    <3>2. v \in Task /\ v.role = "cold" /\ ~v.off BY <1>2, <3>1 DEF Task
    <3>3. PICK u : u = Asking(v, 0) OBVIOUS
    <3>4. u.pc = "ask" /\ u.role = "cold" /\ ~u.off
      BY <3>2, <3>3, AskingFields DEF Carried
    <3> QED BY <2>4, <3>1, <3>3, <3>4
  <2> QED BY <2>1, <2>2, <2>3, <2>4 DEF EntryRequest, HopRefresh, ColdHop
<1>4. UNCHANGED <<policies, config>> /\ tasks[r].pc \in {"idle", "done"}
  BY DEF EntryRequest, HopRefresh, ColdHop, Free
<1>5. TaskInv' BY <1>3, <1>4, TaskMoves DEF RoleOK
<1>6. WalkExits BY <1>3, <1>4, OthersGoOn DEF EndsInVain
<1>7. CursorStays
  <2>1. CASE EntryRequest(r) BY <2>1, RecordOps, CursorSet DEF EntryRequest
  <2>2. CASE HopRefresh(r) BY <2>2, RecordOps, CursorSet DEF HopRefresh
  <2>3. CASE ColdHop(r) BY <2>3 DEF ColdHop, CursorStays, Cursor
  <2> QED BY <2>1, <2>2, <2>3
<1>8. PinInv' BY <1>3, <1>4, <1>7, RestedOwesNone, PinStays
<1> QED BY <1>5, <1>6, <1>8 DEF StepOK

(* Whatever Node answers, the question stands. *)
LEMMA AnswerPin ==
    ASSUME IInv, PinInv, NEW r \in Req, tasks[r].pc = "ask", UNCHANGED <<entry, won>>,
           NEW u, Becomes(r, u), u.pc = "reply", u.role = tasks[r].role
    PROVE  PinInv' /\ WalkExits
<1>1. ~EndsInVain(r)
  <2>1. tasks'[r] = u BY OneMoves
  <2> QED BY <2>1 DEF EndsInVain
<1>2. CursorStays BY DEF CursorStays
<1>3. PinInv'
  <2>1. CASE tasks[r].role = "walk" BY <2>1, PinOwed DEF Owing
  <2>2. CASE tasks[r].role # "walk" BY <1>2, <2>2, RestedOwesNone, PinStays
  <2> QED BY <2>1, <2>2
<1> QED BY <1>1, <1>3, OthersGoOn

LEMMA RefusalStep ==
    ASSUME IInv, TaskInv, PinInv, NEW r \in Req,
           GrantExhausted(r) \/ GrantFails(r) \/ SeamLost(r)
    PROVE  StepOK
<1> DEFINE t == tasks[r]
<1>1. t \in Task BY TaskOf
<1>2. PICK u : /\ Becomes(r, u) /\ u.pc = "reply" /\ u.reply \in {"exhausted", "error"}
               /\ u.role = t.role /\ u.off = t.off
  <2>1. CASE GrantExhausted(r)
    <3>1. PICK u : u = [t EXCEPT !.pc = "reply", !.reply = "exhausted"] OBVIOUS
    <3>2. u.pc = "reply" /\ u.reply = "exhausted" /\ u.role = t.role /\ u.off = t.off
      BY <1>1, <3>1 DEF Task
    <3> QED BY <2>1, <3>1, <3>2 DEF GrantExhausted
  <2>2. CASE GrantFails(r)
    <3>1. PICK u : u = [t EXCEPT !.pc = "reply", !.reply = "error",
                                 !.visited = @ \cup {Named(t.attempt)}]
      OBVIOUS
    <3>2. u.pc = "reply" /\ u.reply = "error" /\ u.role = t.role /\ u.off = t.off
      BY <1>1, <3>1 DEF Task
    <3> QED BY <2>2, <3>1, <3>2 DEF GrantFails
  <2>3. CASE SeamLost(r)
    <3>1. PICK u : u = [t EXCEPT !.pc = "reply", !.reply = "error",
                            !.visited = IF Exists(t.attempt)
                                        THEN t.visited \cup {Named(t.attempt)} ELSE t.visited,
                            !.steady = t.steady /\ Exists(t.attempt)]
      OBVIOUS
    <3>2. u.pc = "reply" /\ u.reply = "error" /\ u.role = t.role /\ u.off = t.off
      BY <1>1, <3>1 DEF Task
    <3> QED BY <2>3, <3>1, <3>2 DEF SeamLost
  <2> QED BY <2>1, <2>2, <2>3
<1>3. UNCHANGED <<entry, won, policies, config>> /\ t.pc = "ask"
  BY DEF GrantExhausted, GrantFails, SeamLost
<1>4. TaskInv' BY <1>2, <1>3, TaskMoves DEF RoleOK
<1>5. PinInv' /\ WalkExits BY <1>2, <1>3, AnswerPin
<1> QED BY <1>4, <1>5 DEF StepOK

(* A grant: an off one is made with the config off and nothing else under way. *)
LEMMA GrantStep ==
    ASSUME IInv, TaskInv, PinInv, NEW r \in Req, Grant(r)
    PROVE  StepOK
<1> DEFINE t == tasks[r]
<1>1. t \in Task /\ t.pc = "ask" /\ UNCHANGED <<entry, won, policies, config>>
  BY TaskOf DEF Grant
<1>2. PICK first \in BOOLEAN : first = (~config.enabled /\ ~OnInFlight) OBVIOUS
<1>3. PICK c \in {Named(t.attempt)}, url \in Url :
        Becomes(r, [t EXCEPT !.pc = "reply", !.reply = "grant", !.knobs = config,
                             !.target = [cand |-> c, url |-> url], !.key = Provider[c],
                             !.visited = @ \cup {c}, !.off = first])
  BY <1>2 DEF Grant, Grants
<1>4. PICK u : u = [t EXCEPT !.pc = "reply", !.reply = "grant", !.knobs = config,
                             !.target = [cand |-> c, url |-> url], !.key = Provider[c],
                             !.visited = @ \cup {c}, !.off = first]
  OBVIOUS
<1>5. u.pc = "reply" /\ u.role = t.role /\ u.off = first /\ u.knobs = config
  BY <1>1, <1>4 DEF Task
<1>6. Becomes(r, u) BY <1>3, <1>4
<1>7. PinInv' /\ WalkExits BY <1>1, <1>5, <1>6, AnswerPin
<1>8. \A q \in Req : tasks'[q] = IF q = r THEN u ELSE tasks[q] BY <1>6, OneMoves
<1>9. OnInFlight' => OnInFlight \/ config.enabled BY <1>5, <1>6, NoneGranted
<1>10. PICK on : on = (config.enabled \/ OnInFlight) OBVIOUS
<1>11. PICK on1 : on1 = (config.enabled \/ OnInFlight)' OBVIOUS
<1>12. on1 => on BY <1>1, <1>9, <1>10, <1>11
<1>13. ASSUME NEW q \in Req PROVE RoleOK(tasks'[q]) /\ OffOK(tasks'[q], on1, policies)
  <2>1. CASE q = r
    <3>1. RoleOK(u) BY <1>5 DEF RoleOK
    <3>2. OffOK(u, on1, policies) BY <1>2, <1>5, <1>10, <1>12 DEF OffOK
    <3> QED BY <1>8, <2>1, <3>1, <3>2
  <2>2. CASE q # r
    <3>1. tasks'[q] = tasks[q] BY <1>8, <2>2
    <3>2. RoleOK(tasks[q]) /\ OffOK(tasks[q], on, policies) BY <1>10, TaskOf
    <3> QED BY <1>12, <3>1, <3>2 DEF OffOK
  <2> QED BY <2>1, <2>2
<1>14. TaskInv' BY <1>1, <1>11, <1>13 DEF TaskInv
<1> QED BY <1>7, <1>14 DEF StepOK

(* A grant lands: the cursor is the attempt it was resolved for, and, unless   *)
(* it is late, a task that is not a walk finds the cursor where it was.        *)
LEMMA LandStep ==
    ASSUME IInv, TaskInv, PinInv, NEW r \in Req, Land(r)
    PROVE  StepOK
<1> DEFINE t == tasks[r]
           e == Fill(entry, t.target, t.key, t.attempt)
           policy == [owner |-> Provider[t.target.cand], knobs |-> t.knobs]
<1>1. t \in Task /\ RoleOK(t) /\ t.pc = "reply" /\ t.reply = "grant" BY TaskOf DEF Land
<1>2. t.attempt \in Nat /\ t.key \in Adapter /\ t.knobs \in Knobs BY <1>1 DEF Task
<1>3. t.target \in Target BY DEF Land, IInv, GrantsOK
<1>4. /\ policies' = [policies EXCEPT ![t.key] = policy] /\ UNCHANGED config
      /\ SetEntry(e, IF Late(t) THEN won \cup {t.attempt} ELSE won)
  BY DEF Land, Landed, FiledUnder
<1>5. e # NoEntry
  <2>1. entry \in Entry \cup {NoEntry} BY DEF IInv, TypeOK
  <2> QED BY <1>2, <1>3, <2>1, FillOK
<1>6. e.attempt = t.attempt BY DEF Fill
<1> HIDE DEF e
<1>7. Cursor(entry') = t.attempt BY <1>4, <1>5, <1>6 DEF SetEntry, Cursor
<1>8. t.role # "walk" => Kept(entry', won') \/ CursorStays
  <2>1. CASE Late(t)
    BY <1>4, <1>5, <1>6, <1>7, <2>1 DEF SetEntry, Kept, Cursor
  <2>2. CASE ~Late(t)
    BY <1>4, <1>5, <1>6, <1>7, <2>2 DEF SetEntry, Late, CursorStays, Cursor
  <2> QED BY <2>1, <2>2
<1>9. PICK u : /\ Becomes(r, u)
               /\ ~u.off \/ (u.off = t.off /\ u.key = t.key)
               /\ u.pc \in {"take", "check", "idle"}
               /\ u.pc = "take" => u.role \in {"entry", "cold"}
               /\ u.pc = "check" => u.role = "walk" /\ u.attempt = t.attempt
               /\ t.role = "walk" => u.pc = "check"
  <2>1. CASE t.role \in {"entry", "cold"} /\ Becomes(r, [t EXCEPT !.pc = "take"])
    <3>1. PICK u : u = [t EXCEPT !.pc = "take"] OBVIOUS
    <3>2. u.pc = "take" /\ u.role = t.role /\ u.off = t.off /\ u.key = t.key
      BY <1>1, <3>1 DEF Task
    <3> QED BY <2>1, <3>1, <3>2
  <2>2. CASE t.role = "walk" /\ Becomes(r, [t EXCEPT !.pc = "check"])
    <3>1. PICK u : u = [t EXCEPT !.pc = "check"] OBVIOUS
    <3>2. /\ u.pc = "check" /\ u.role = t.role /\ u.off = t.off /\ u.key = t.key
          /\ u.attempt = t.attempt
      BY <1>1, <3>1 DEF Task
    <3> QED BY <2>2, <3>1, <3>2
  <2>3. CASE t.role = "refresh" /\ Becomes(r, NoTask)
    <3>1. NoTask.pc = "idle" /\ ~NoTask.off BY DEF NoTask
    <3> QED BY <2>3, <3>1
  <2> QED BY <2>1, <2>2, <2>3 DEF Land
<1>10. PinInv'
  <2>1. CASE t.role = "walk" BY <1>7, <1>9, <2>1, PinOwed DEF Owing
  <2>2. CASE t.role # "walk"
    BY <1>8, <1>9, <2>2, RestedOwesNone, PinStays DEF PinInv
  <2> QED BY <2>1, <2>2
<1>11. \A q \in Req : tasks'[q] = IF q = r THEN u ELSE tasks[q] BY <1>9, OneMoves
<1>12. WalkExits
  <2>1. ~EndsInVain(r) BY <1>9, <1>11 DEF EndsInVain
  <2> QED BY <1>9, <2>1, OthersGoOn
<1>13. OnInFlight' => OnInFlight BY <1>9, NoneGranted
<1>14. t.knobs.enabled => OnInFlight BY <1>1 DEF OnInFlight
<1>15. PICK on : on = (config.enabled \/ OnInFlight) OBVIOUS
<1>16. PICK on1 : on1 = (config.enabled \/ OnInFlight)' OBVIOUS
<1>17. (on1 => on) /\ (t.knobs.enabled => on) BY <1>4, <1>13, <1>14, <1>15, <1>16
<1>18. \A a \in Adapter : FlagOn(policies', a) => FlagOn(policies, a) \/ t.knobs.enabled
  <2>1. policies \in [Adapter -> Policy \cup {NoPolicy}] BY DEF IInv, TypeOK
  <2>2. \A a \in Adapter : policies'[a] = IF a = t.key THEN policy ELSE policies[a]
    BY <1>2, <1>4, <2>1
  <2>3. policy.knobs = t.knobs OBVIOUS
  <2> HIDE DEF policy
  <2> QED BY <2>2, <2>3 DEF FlagOn
<1>19. FlagOn(policies', t.key) => t.knobs.enabled
  <2>1. policies \in [Adapter -> Policy \cup {NoPolicy}] BY DEF IInv, TypeOK
  <2>2. policies'[t.key] = policy BY <1>2, <1>4, <2>1
  <2> QED BY <2>2 DEF FlagOn
<1>20. ASSUME NEW q \in Req PROVE RoleOK(tasks'[q]) /\ OffOK(tasks'[q], on1, policies')
  <2>1. RoleOK(tasks[q]) /\ OffOK(tasks[q], on, policies) /\ OffOK(t, on, policies)
        /\ tasks[q].key \in Adapter
    BY <1>15, TaskOf DEF Task
  <2>2. CASE q = r
    <3>1. tasks'[q] = u BY <1>11, <2>2
    <3>2. RoleOK(u) BY <1>9 DEF RoleOK
    <3>3. OffOK(u, on1, policies') BY <1>9, <1>17, <1>19, <2>1 DEF OffOK
    <3> QED BY <3>1, <3>2, <3>3
  <2>3. CASE q # r
    <3>1. tasks'[q] = tasks[q] BY <1>11, <2>3
    <3>2. OffOK(tasks[q], on1, policies') BY <1>17, <1>18, <2>1 DEF OffOK
    <3> QED BY <2>1, <3>1, <3>2
  <2> QED BY <2>2, <2>3
<1>21. TaskInv' BY <1>16, <1>20 DEF TaskInv
<1> QED BY <1>10, <1>12, <1>21 DEF StepOK

LEMMA TakeStep ==
    ASSUME IInv, TaskInv, PinInv, NEW r \in Req, Take(r)
    PROVE  StepOK
<1> DEFINE t == tasks[r]
<1>1. t \in Task /\ t.pc = "take" /\ UNCHANGED <<policies, config>> BY TaskOf DEF Take
<1>2. PICK mark : mark = (entry # NoEntry /\ entry.pending) OBVIOUS
<1>3. PICK u : /\ Becomes(r, u) /\ u.pc \in {"fetch", "idle"} /\ (u.off => t.off)
               /\ u.pc = "fetch" => u.role = "entry"
  <2>1. CASE t.role = "entry" /\ Becomes(r, [t EXCEPT !.pc = "fetch", !.marked = mark])
    <3>1. PICK u : u = [t EXCEPT !.pc = "fetch", !.marked = mark] OBVIOUS
    <3>2. u.pc = "fetch" /\ u.role = t.role /\ u.off = t.off BY <1>1, <3>1 DEF Task
    <3> QED BY <2>1, <3>1, <3>2
  <2>2. CASE Becomes(r, NoTask)
    <3>1. NoTask.pc = "idle" /\ ~NoTask.off BY DEF NoTask
    <3> QED BY <2>2, <3>1
  <2> QED BY <1>2, <2>1, <2>2 DEF Take
<1>4. TaskInv' BY <1>1, <1>3, TaskMoves DEF RoleOK
<1>5. CursorStays BY RecordOps, CursorSet DEF Take
<1>6. PinInv' BY <1>1, <1>3, <1>5, RestedOwesNone, PinStays
<1>7. WalkExits BY <1>1, <1>3, OthersGoOn DEF EndsInVain
<1> QED BY <1>4, <1>6, <1>7 DEF StepOK

(* The flag that Check reads says off to a walk that was begun under an off    *)
(* grant, whoever filed it.                                                    *)
LEMMA CheckStep ==
    ASSUME IInv, TaskInv, PinInv, NEW r \in Req, Check(r)
    PROVE  StepOK
<1> DEFINE t == tasks[r]
<1>1. /\ t \in Task /\ t.pc = "check" /\ t.role = "walk" /\ UNCHANGED <<policies, config>>
      /\ t.off => ~FlagOn(policies, t.key)
  BY TaskOf DEF Check, RoleOK, OffOK
<1>2. PICK out : out = [t EXCEPT !.children = FALSE] OBVIOUS
<1>3. out \in Task /\ out.role = "walk" /\ out.attempt = t.attempt /\ out.off = t.off
  BY <1>1, <1>2 DEF Task
<1>4. CASE GiveUp(r, out) BY <1>1, <1>3, <1>4, GiveUpOut, WalkOut
<1>5. ASSUME NEW v, v \in {t, out}, Becomes(r, [v EXCEPT !.pc = "fetch"]),
             UNCHANGED <<entry, won>>, FlagOn(policies, t.key) \/ t.attempt = 0
      PROVE  StepOK
  <2>1. PICK u : u = [v EXCEPT !.pc = "fetch"] OBVIOUS
  <2>2. /\ u.pc = "fetch" /\ u.role = "walk" /\ u.attempt = t.attempt /\ u.off = t.off
    BY <1>1, <1>3, <1>5, <2>1 DEF Task
  <2>3. Becomes(r, u) BY <1>5, <2>1
  <2>4. TaskInv' BY <1>1, <1>5, <2>2, <2>3, TaskMoves DEF RoleOK
  <2>5. WalkExits
    <3>1. tasks'[r] = u BY <2>3, OneMoves
    <3>2. ~EndsInVain(r) BY <2>2, <3>1 DEF EndsInVain
    <3> QED BY <2>3, <3>2, OthersGoOn
  <2>6. CursorStays BY <1>5 DEF CursorStays
  <2>7. PinInv'
    <3>1. CASE t.attempt = Cursor(entry) BY <1>5, <2>2, <2>3, <3>1, PinOwed DEF Owing
    <3>2. CASE t.attempt # Cursor(entry)
      <4>1. ~Owing(t, entry) BY <1>1, <3>2 DEF Owing
      <4> QED BY <2>3, <2>6, <4>1, PinStays
    <3> QED BY <3>1, <3>2
  <2> QED BY <2>4, <2>5, <2>7 DEF StepOK
<1>6. \/ GiveUp(r, out)
      \/ \E v \in {t, out} : /\ Becomes(r, [v EXCEPT !.pc = "fetch"]) /\ UNCHANGED <<entry, won>>
                             /\ FlagOn(policies, t.key) \/ t.attempt = 0
  BY <1>2 DEF Check, FlagOn
<1> QED BY <1>4, <1>5, <1>6

LEMMA RefusedStep ==
    ASSUME IInv, TaskInv, PinInv, NEW r \in Req, Refused(r)
    PROVE  StepOK
<1> DEFINE t == tasks[r]
<1>1. t \in Task /\ t.pc = "reply" /\ UNCHANGED <<policies, config>> BY TaskOf DEF Refused
(* The request ends here. *)
<1>2. ASSUME NEW u, Becomes(r, u), u.pc \in {"idle", "done"}, ~u.off, t.role # "walk",
             UNCHANGED <<entry, won>>
      PROVE  StepOK
  <2>1. CursorStays BY <1>2 DEF CursorStays
  <2>2. PinInv' BY <1>2, <2>1, RestedOwesNone, PinStays
  <2>3. TaskInv' /\ WalkExits BY <1>1, <1>2, TaskRests DEF EndsInVain
  <2> QED BY <2>2, <2>3 DEF StepOK
<1>3. ASSUME t.role # "walk", Becomes(r, Ended(t, "dead")), UNCHANGED <<entry, won>>
      PROVE  StepOK
  <2>1. PICK u : u = Ended(t, "dead") OBVIOUS
  <2>2. u.pc = "done" /\ ~u.off BY <1>1, <2>1, EndedFields
  <2> QED BY <1>2, <1>3, <2>1, <2>2
<1>4. CASE t.role = "entry" /\ EntryRefused(r)
  <2> DEFINE cursor == Cursor(IdleResetEntry)
  <2>1. PICK same \in BOOLEAN : same = (t.steady /\ cursor = t.attempt) BY <1>1 DEF Task
  <2>2. cursor \in Nat /\ cursor + 1 \in Nat /\ (cursor > 0) \in BOOLEAN BY CursorType
  <2>3. PICK u : u = [t EXCEPT !.again = TRUE] OBVIOUS
  <2>4. PICK v : v = [t EXCEPT !.again = TRUE, !.steady = same] OBVIOUS
  <2>5. u \in Task /\ u.off = t.off BY <1>1, <2>3 DEF Task
  <2>6. v \in Task /\ v.off = t.off BY <1>1, <2>4 DEF Task
  <2>7. \/ Becomes(r, Ended(t, "dead")) /\ UNCHANGED <<entry, won>>
        \/ Becomes(r, Walking(u, 0, FALSE, MountKnobs, NoPolicy))
        \/ Becomes(r, Walking(v, cursor + 1, cursor > 0, MountKnobs, NoPolicy))
    BY <1>4, <2>1, <2>3, <2>4 DEF EntryRefused
  <2> HIDE DEF cursor
  <2> QED BY <1>1, <1>3, <1>4, <2>2, <2>5, <2>6, <2>7, MountKnobsType, WalkingStep
<1>5. CASE t.role = "walk" /\ WalkRefused(r)
  <2>1. PICK u : u = [t EXCEPT !.wrapped = TRUE] OBVIOUS
  <2>2. u \in Task /\ u.role = t.role /\ u.off = t.off BY <1>1, <2>1 DEF Task
  <2>3. LoopHead(r, u, 0) \/ GiveUp(r, t) \/ Advance(r, t) BY <1>5, <2>1 DEF WalkRefused
  <2>4. CASE LoopHead(r, u, 0) BY <1>1, <1>5, <2>2, <2>4, LoopHeadOut, WalkOut
  <2>5. CASE GiveUp(r, t) BY <1>1, <1>5, <2>5, GiveUpOut, WalkOut
  <2>6. CASE Advance(r, t) BY <1>1, <1>5, <2>6, AdvanceOut, WalkOut
  <2> QED BY <2>3, <2>4, <2>5, <2>6
<1>6. CASE t.role = "cold" /\ Becomes(r, Ended(t, "dead")) /\ UNCHANGED <<entry, won>>
  BY <1>3, <1>6
<1>7. CASE t.role = "refresh" /\ Becomes(r, NoTask) /\ UNCHANGED <<entry, won>>
  <2>1. NoTask.pc = "idle" /\ ~NoTask.off BY DEF NoTask
  <2> QED BY <1>2, <1>7, <2>1
<1> QED BY <1>4, <1>5, <1>6, <1>7 DEF Refused

LEMMA FetchOkStep ==
    ASSUME IInv, TaskInv, PinInv, NEW r \in Req, FetchOk(r)
    PROVE  StepOK
<1> DEFINE t == tasks[r]
<1>1. t \in Task /\ t.pc = "fetch" /\ UNCHANGED <<policies, config>> BY TaskOf DEF FetchOk
<1>2. PICK u : /\ Becomes(r, u) /\ u.pc \in {"done", "ts"} /\ ~u.off
               /\ u.pc = "done" => u.result = "served"
  <2>1. Becomes(r, Ended(t, "served")) \/ Becomes(r, [NoTask EXCEPT !.pc = "ts", !.key = t.key])
    BY DEF FetchOk, Serve
  <2>2. CASE Becomes(r, Ended(t, "served")) BY <1>1, <2>2, EndedFields
  <2>3. CASE Becomes(r, [NoTask EXCEPT !.pc = "ts", !.key = t.key])
    <3>1. PICK u : u = [NoTask EXCEPT !.pc = "ts", !.key = t.key] OBVIOUS
    <3>2. u.pc = "ts" /\ ~u.off BY <3>1 DEF NoTask
    <3> QED BY <2>3, <3>1, <3>2
  <2> QED BY <2>1, <2>2, <2>3
<1>3. entry' = entry /\ won' = IF Cursor(entry) = 0 THEN {} ELSE won \cup {t.attempt}
  BY DEF FetchOk, SetEntry
<1>4. CursorStays BY <1>3 DEF CursorStays
<1>5. PinInv'
  <2>1. CASE t.attempt = Cursor(entry) BY <1>3, <2>1 DEF PinInv, Kept
  <2>2. CASE t.attempt # Cursor(entry)
    <3>1. ~Owing(t, entry) BY <1>1, <2>2 DEF Owing
    <3> QED BY <1>2, <1>4, <3>1, PinStays
  <2> QED BY <2>1, <2>2
<1>6. ~EndsInVain(r)
  <2>1. tasks'[r] = u BY <1>2, OneMoves
  <2> QED BY <1>2, <2>1 DEF EndsInVain
<1>7. TaskInv' /\ WalkExits BY <1>1, <1>2, <1>6, TaskRests
<1> QED BY <1>5, <1>7 DEF StepOK

LEMMA ForwardStep ==
    ASSUME IInv, TaskInv, PinInv, NEW r \in Req, tasks[r].pc \in {"fetch", "prefetched"},
           Forward(r), UNCHANGED <<policies, config>>
    PROVE  StepOK
<1> DEFINE t == tasks[r]
<1>1. t \in Task /\ RoleOK(t) /\ t.key \in Adapter BY TaskOf DEF Task
<1>2. CASE AtEntry(t) /\ UNCHANGED <<entry, won>> /\ Becomes(r, Ended(t, "forwarded"))
  <2>1. PICK u : u = Ended(t, "forwarded") OBVIOUS
  <2>2. u.pc = "done" /\ ~u.off BY <1>1, <2>1, EndedFields
  <2>3. t.pc = "prefetched" \/ t.role # "walk" BY <1>2 DEF AtEntry
  <2>4. CursorStays BY <1>2 DEF CursorStays
  <2>5. PinInv' BY <1>2, <2>1, <2>3, <2>4, RestedOwesNone, PinStays
  <2>6. TaskInv' /\ WalkExits BY <1>2, <2>1, <2>2, <2>3, TaskRests DEF EndsInVain
  <2> QED BY <2>5, <2>6 DEF StepOK
<1>3. CASE ~AtEntry(t) /\ SetEntry(ResetEntry, won) /\ Becomes(r, Answer(t, t.key))
  <2>1. t.role = "walk" BY <1>1, <1>3 DEF RoleOK, AtEntry
  <2>2. PICK u : u = Answer(t, t.key) OBVIOUS
  <2>3. /\ u \in Task /\ u.role = t.role /\ u.pc \in {"prefetched", "done"}
        /\ u.off => t.off
    BY <1>1, <2>2, AnswerFields DEF Carried
  <2>4. Unpinned(entry') BY <1>3, RecordOps DEF SetEntry
  <2>5. GaveUp(r, t) BY <1>3, <2>2, <2>3, <2>4 DEF GaveUp
  <2> QED BY <1>1, <2>1, <2>5, WalkOut
<1> QED BY <1>2, <1>3 DEF Forward

LEMMA FetchDefiniteStep ==
    ASSUME IInv, TaskInv, PinInv, NEW r \in Req, FetchDefinite(r)
    PROVE  StepOK
<1> DEFINE t == tasks[r]
<1>1. /\ t \in Task /\ RoleOK(t) /\ t.key \in Adapter /\ t.pc \in {"fetch", "prefetched"}
      /\ UNCHANGED <<policies, config>>
  BY TaskOf DEF Task, FetchDefinite
<1>2. PICK u : u = [t EXCEPT !.stash = t.key] OBVIOUS
<1>3. u \in Task /\ u.role = t.role /\ u.off = t.off BY <1>1, <1>2 DEF Task
<1>4. \/ EntryWalk(r, KnobsOf(t.key), t.key)
      \/ ~AtEntry(t) /\ Advance(r, u)
      \/ Forward(r)
  BY <1>2 DEF FetchDefinite
<1>5. ~AtEntry(t) => t.role = "walk" BY <1>1 DEF RoleOK, AtEntry
<1>6. KnobsOf(t.key) \in Knobs BY <1>1, KnobsType
<1>7. CASE EntryWalk(r, KnobsOf(t.key), t.key) BY <1>1, <1>6, <1>7, EntryWalkStep
<1>8. CASE ~AtEntry(t) /\ Advance(r, u)
  BY <1>1, <1>3, <1>5, <1>8, AdvanceOut, WalkOut
<1>9. CASE Forward(r) BY <1>1, <1>9, ForwardStep
<1> QED BY <1>4, <1>7, <1>8, <1>9

LEMMA FetchFailsStep ==
    ASSUME IInv, TaskInv, PinInv, NEW r \in Req, FetchFails(r)
    PROVE  StepOK
<1> DEFINE t == tasks[r]
<1>1. t \in Task /\ t.key \in Adapter /\ UNCHANGED <<policies, config>>
  BY TaskOf DEF Task, FetchFails
<1>2. KnobsOf(t.key) \in Knobs BY <1>1, KnobsType
<1>3. CASE EntryWalk(r, KnobsOf(t.key), NoPolicy) BY <1>1, <1>2, <1>3, EntryWalkStep
<1>4. CASE t.role = "walk" /\ Advance(r, t) BY <1>1, <1>4, AdvanceOut, WalkOut
<1> QED BY <1>3, <1>4 DEF FetchFails

LEMMA TsStep ==
    ASSUME IInv, TaskInv, PinInv, NEW r \in Req,
           TsEnds(r) \/ \E advance \in BOOLEAN : TsRecovers(r, advance)
    PROVE  StepOK
<1>1. CASE TsEnds(r)
  <2>1. NoTask.pc = "idle" /\ ~NoTask.off BY DEF NoTask
  <2>2. CursorStays BY <1>1 DEF TsEnds, CursorStays
  <2>3. PinInv' BY <1>1, <2>2, RestedOwesNone, PinStays DEF TsEnds
  <2>4. TaskInv' /\ WalkExits BY <1>1, <2>1, TaskRests DEF TsEnds, EndsInVain
  <2> QED BY <2>3, <2>4 DEF StepOK
<1>2. ASSUME NEW advance \in BOOLEAN, TsRecovers(r, advance) PROVE StepOK
  <2> DEFINE knobs == KnobsOf(tasks[r].key)
             next == advance /\ knobs.enabled
             start == IF next THEN Cursor(IdleResetEntry) + 1 ELSE Cursor(IdleResetEntry)
  <2>1. tasks[r].key \in Adapter BY TaskOf DEF Task
  <2>2. knobs \in Knobs /\ next \in BOOLEAN BY <2>1, KnobsType
  <2>3. start \in Nat BY CursorType
  <2>4. PICK u : u = [NoTask EXCEPT !.mode = "ts"] OBVIOUS
  <2>5. u \in Task /\ ~u.off
    <3>1. ~NoTask.off BY DEF NoTask
    <3> QED BY <2>4, <3>1, NoTaskType DEF Task
  <2>6. Becomes(r, Walking(u, start, next, knobs, NoPolicy)) /\ UNCHANGED <<policies, config>>
    BY <1>2, <2>4 DEF TsRecovers
  <2> HIDE DEF start, next, knobs
  <2> QED BY <2>2, <2>3, <2>5, <2>6, WalkingStep
<1> QED BY <1>1, <1>2

(* No task does anything: nothing is owed or granted that was not. *)
LEMMA StillStep ==
    ASSUME IInv, TaskInv, PinInv, UNCHANGED <<policies, tasks, config>>, CursorStays
    PROVE  StepOK
<1>1. TaskInv' BY DEF TaskInv, OnInFlight
<1>2. PinInv' BY PinSame
<1>3. WalkExits BY DEF WalkExits, EndsInVain
<1> QED BY <1>1, <1>2, <1>3 DEF StepOK

LEMMA AccessStep ==
    ASSUME IInv, TaskInv, PinInv, Hop \/ \E r \in Req : TsHealthy(r)
    PROVE  StepOK
<1>1. SetEntry(TouchEntry(entry), won) /\ UNCHANGED <<policies, tasks, config>>
  BY DEF Hop, TsHealthy
<1>2. CursorStays BY <1>1, RecordOps, CursorSet
<1> QED BY <1>1, <1>2, StillStep

LEMMA TickStep ==
    ASSUME IInv, TaskInv, PinInv, Tick
    PROVE  StepOK
<1>1. entry \in Entry /\ AgeOK(entry) /\ entry # NoEntry BY DEF Tick, IInv, EntryOK
<1>2. EntryOK(Age(entry)) BY <1>1, EntryOps
<1>3. Age(entry).attempt = entry.attempt
  <2>1. PICK ttl : ttl = (IF entry.ttl > 0 THEN entry.ttl - 1 ELSE 0) OBVIOUS
  <2>2. PICK quiet : quiet = (IF entry.quiet <= CursorIdle THEN entry.quiet + 1 ELSE entry.quiet)
    OBVIOUS
  <2>3. Age(entry) = [entry EXCEPT !.ttl = ttl, !.quiet = quiet]
    BY <1>1, <2>1, <2>2 DEF Age, Entry
  <2> QED BY <1>1, <2>3 DEF Entry
<1>4. Cursor(Age(entry)) \in {0, Cursor(entry)} BY <1>1, <1>3 DEF Cursor
<1>5. CursorStays BY <1>4, CursorSet DEF Tick
<1> QED BY <1>5, StillStep DEF Tick

(* The group changes: no task's answer does. *)
LEMMA UnsteadyFields ==
    ASSUME IInv, Unsteady, NEW q \in Req
    PROVE  LET t == tasks[q]  u == tasks'[q]
           IN  /\ u.pc = t.pc /\ u.role = t.role /\ u.attempt = t.attempt /\ u.key = t.key
               /\ u.knobs = t.knobs /\ u.result = t.result /\ u.reply = t.reply
               /\ u.visited = t.visited /\ u.off = t.off /\ (u.steady => t.pc = "idle")
<1> DEFINE steady == tasks[q].pc = "idle"
<1>1. tasks[q] \in Task /\ steady \in BOOLEAN BY DEF IInv, TypeOK
<1>2. tasks'[q] = [tasks[q] EXCEPT !.steady = steady] BY DEF Unsteady
<1>3. (tasks'[q]).steady = steady BY <1>1, <1>2 DEF Task
<1>4. (tasks'[q]).steady => tasks[q].pc = "idle" BY <1>3
<1> HIDE DEF steady
<1> QED BY <1>1, <1>2, <1>4 DEF Task

LEMMA ReconfigureFields ==
    ASSUME IInv, Reconfigure, NEW q \in Req
    PROVE  LET t == tasks[q]  u == tasks'[q]
           IN  /\ Carried(t, u) /\ u.pc = t.pc /\ u.attempt = t.attempt /\ u.key = t.key
               /\ u.knobs = t.knobs /\ u.result = t.result /\ u.reply = t.reply
               /\ u.start = t.start /\ u.wrap = t.wrap /\ u.wrapped = t.wrapped
               /\ u.tried = t.tried /\ (u.off => t.off /\ ~config'.enabled)
<1> DEFINE still == tasks[q].off /\ ~config'.enabled
<1>1. tasks[q] \in Task /\ still \in BOOLEAN BY DEF IInv, TypeOK, Task
<1>2. tasks'[q] = [tasks[q] EXCEPT !.off = still] BY DEF Reconfigure
<1>3. (tasks'[q]).off = still BY <1>1, <1>2 DEF Task
<1>4. (tasks'[q]).off => tasks[q].off /\ ~config'.enabled BY <1>3
<1> HIDE DEF still
<1> QED BY <1>1, <1>2, <1>4 DEF Task, Carried

(* An operator who switches failover on ends every promise that it is off. *)
LEMMA EnvironmentStep ==
    ASSUME IInv, TaskInv, PinInv, NewBucket \/ Regroup \/ Reconfigure
    PROVE  StepOK
<1>1. UNCHANGED <<entry, won, policies>> BY DEF NewBucket, Regroup, Reconfigure
<1>2. Reconfigure \/ (Unsteady /\ UNCHANGED config) BY DEF NewBucket, Regroup
<1>3. ASSUME NEW q \in Req
      PROVE  /\ tasks'[q].pc = tasks[q].pc /\ tasks'[q].role = tasks[q].role
             /\ tasks'[q].attempt = tasks[q].attempt /\ tasks'[q].key = tasks[q].key
             /\ tasks'[q].knobs = tasks[q].knobs /\ tasks'[q].reply = tasks[q].reply
             /\ tasks'[q].result = tasks[q].result
             /\ tasks'[q].off => tasks[q].off /\ (config'.enabled => config.enabled)
  BY <1>2, UnsteadyFields, ReconfigureFields DEF Carried
<1>4. CursorStays BY <1>1 DEF CursorStays
<1>5. PinInv' BY <1>3, <1>4, PinSame
<1>6. WalkExits BY <1>3 DEF WalkExits, EndsInVain
<1>7. OnInFlight' => OnInFlight BY <1>3 DEF OnInFlight
<1>8. PICK on : on = (config.enabled \/ OnInFlight) OBVIOUS
<1>9. PICK on1 : on1 = (config.enabled \/ OnInFlight)' OBVIOUS
<1>10. ASSUME NEW q \in Req PROVE RoleOK(tasks'[q]) /\ OffOK(tasks'[q], on1, policies)
  <2>1. RoleOK(tasks[q]) /\ OffOK(tasks[q], on, policies) BY <1>8, TaskOf
  <2>2. RoleOK(tasks'[q]) BY <1>3, <2>1 DEF RoleOK
  <2>3. tasks'[q].off => tasks[q].off /\ (on1 => on) BY <1>3, <1>7, <1>8, <1>9
  <2>4. OffOK(tasks'[q], on1, policies) BY <1>3, <2>1, <2>3 DEF OffOK
  <2> QED BY <2>2, <2>4
<1>11. TaskInv' BY <1>1, <1>9, <1>10 DEF TaskInv
<1> QED BY <1>5, <1>6, <1>11 DEF StepOK

LEMMA NoTaskOK ==
    ASSUME NEW on, NEW pol
    PROVE  RoleOK(NoTask) /\ OffOK(NoTask, on, pol)
BY DEF NoTask, RoleOK, OffOK

LEMMA RestartStep ==
    ASSUME Restart
    PROVE  StepOK
<1>1. Cursor(entry') = 0 BY DEF Restart, Cursor
<1>2. \A q \in Req : tasks'[q] = NoTask BY DEF Restart
<1>3. PinInv' BY <1>1, PinReset
<1>4. TaskInv' BY <1>2, NoTaskOK DEF TaskInv
<1>5. WalkExits BY <1>1 DEF WalkExits, Unpinned, Restart
<1> QED BY <1>3, <1>4, <1>5 DEF StepOK

LEMMA StepInductive == IInv /\ TaskInv /\ PinInv /\ [Next]_vars => StepOK
<1> SUFFICES ASSUME IInv, TaskInv, PinInv, [Next]_vars PROVE StepOK OBVIOUS
<1>1. ASSUME NEW r \in Req, Progress(r) \/ SeamLost(r) PROVE StepOK
  BY <1>1, GrantStep, RefusalStep, LandStep, RefusedStep, TakeStep, CheckStep, FetchOkStep,
     FetchDefiniteStep, FetchFailsStep DEF Progress
<1>2. ASSUME NEW r \in Req, EntryRequest(r) \/ HopRefresh(r) \/ ColdHop(r) PROVE StepOK
  BY <1>2, BeginStep
<1>3. ASSUME NEW r \in Req, TsEnds(r) \/ \E advance \in BOOLEAN : TsRecovers(r, advance)
      PROVE  StepOK
  BY <1>3, TsStep
<1>4. CASE Hop \/ \E r \in Req : TsHealthy(r) BY <1>4, AccessStep
<1>5. CASE Tick BY <1>5, TickStep
<1>6. CASE NewBucket \/ Regroup \/ Reconfigure BY <1>6, EnvironmentStep
<1>7. CASE Restart BY <1>7, RestartStep
<1>8. CASE UNCHANGED vars
  <2>1. UNCHANGED <<policies, tasks, config>> /\ CursorStays BY <1>8 DEF vars, CursorStays
  <2> QED BY <2>1, StillStep
<1> QED BY <1>1, <1>2, <1>3, <1>4, <1>5, <1>6, <1>7, <1>8 DEF Next

LEMMA StepInvariance == Spec => [](TaskInv /\ PinInv)
<1>1. Init => TaskInv /\ PinInv
  <2> SUFFICES ASSUME Init PROVE TaskInv /\ PinInv OBVIOUS
  <2>1. \A q \in Req : tasks[q] = NoTask BY DEF Init
  <2>2. TaskInv BY <2>1, NoTaskOK DEF TaskInv
  <2>3. PinInv BY DEF Init, PinInv, Kept, Cursor
  <2> QED BY <2>2, <2>3
<1>2. IInv /\ TaskInv /\ PinInv /\ [Next]_vars => (TaskInv /\ PinInv)'
  BY StepInductive DEF StepOK
<1> QED BY <1>1, <1>2, Invariance, PTL DEF Spec

-----------------------------------------------------------------------------
(* WalkInv, action by action. *)

LEMMA WalkTask ==
    ASSUME IInv, WalkInv, NEW r \in Req, NEW u, Becomes(r, u), TriedOK(u, order'),
           UNCHANGED order
    PROVE  WalkInv'
BY OneMoves DEF WalkInv

LEMMA WalkOf ==
    ASSUME IInv, WalkInv, NEW r \in Req
    PROVE  /\ tasks[r] \in Task /\ tasks[r].attempt \in Nat
           /\ TriedOK(tasks[r], order) /\ Len(order) \in Nat
BY DEF IInv, TypeOK, WalkInv, Task

(* Attempts that exist are those up to the length of the order. *)
LEMMA ExistsUpTo ==
    ASSUME IInv, NEW i \in Nat
    PROVE  /\ Exists(i) <=> i <= Len(order)
           /\ Named(i) = Nth(order, i)
           /\ Exists(i) => Nth(order, i) \in Everyone(order)
<1>1. DOMAIN order = 1..Len(order) /\ Len(order) \in Nat BY DEF IInv, TypeOK
<1>2. Exists(i) <=> i <= Len(order) BY <1>1 DEF Exists
<1>3. Exists(i) => Nth(order, i) \in Everyone(order) BY DEF Exists, Nth, Everyone
<1> QED BY <1>2, <1>3 DEF Named, Nth

(* A task that has not visited anyone, or does not ask. *)
LEMMA NewTried ==
    ASSUME NEW u, u.visited = {}, u.pc # "reply", u.role # "walk"
    PROVE  TriedOK(u, order)
BY DEF TriedOK, Answered, OnWalk, Failed

LEMMA NoTaskTried == TriedOK(NoTask, order)
BY NewTried DEF NoTask

(* A request that ends, not by a walk that found nobody left. *)
LEMMA EndedTried ==
    ASSUME NEW t, TriedOK(t, order), NEW u, Carried(t, u), u.pc \in {"done", "prefetched"},
           u.pc = "done" /\ u.result = "dead" => u.role # "walk"
    PROVE  TriedOK(u, order)
BY DEF TriedOK, Carried, Answered, OnWalk, Failed

(* A walk that gives up has been everywhere. *)
LEMMA GiveUpTried ==
    ASSUME IInv, WalkInv, NEW r \in Req, NEW t \in Task, GiveUp(r, t), UNCHANGED order,
           t.steady => t.visited \subseteq Everyone(order),
           t.steady /\ t.children /\ t.mode = "hls" /\ Len(order) + 2 <= MaxAttempts
             => \A i \in 0..Len(order) : Nth(order, i) \in t.visited
    PROVE  WalkInv'
<1> DEFINE u == Exhaust(t)
<1>1. Carried(t, u) /\ u.pc \in {"prefetched", "done"} BY ExhaustFields
<1>2. Becomes(r, u) BY DEF GiveUp
<1> HIDE DEF u
<1>3. DOMAIN order = 1..Len(order) /\ Len(order) \in Nat BY DEF IInv, TypeOK
<1>4. (\A i \in 0..Len(order) : Nth(order, i) \in t.visited)
        => Everyone(order) \subseteq t.visited
  <2> SUFFICES ASSUME \A i \in 0..Len(order) : Nth(order, i) \in t.visited
               PROVE  Everyone(order) \subseteq t.visited
    OBVIOUS
  <2>1. Parent \in t.visited BY <1>3 DEF Nth
  <2>2. \A i \in DOMAIN order : order[i] \in t.visited BY <1>3 DEF Nth
  <2> QED BY <2>1, <2>2 DEF Everyone
<1>5. TriedOK(u, order)
  BY <1>1, <1>4 DEF TriedOK, Carried, Answered, OnWalk
<1> QED BY <1>2, <1>5, WalkTask

(* The loop goes on: v, the task as the foot of the loop left it, may ask for *)
(* the next attempt, or give up at the cap.                                   *)
GoesOn(v, attempt, o) ==
    /\ Len(o) + 2 <= MaxAttempts /\ v.tried >= MaxAttempts
         => \A i \in 0..Len(o) : Nth(o, i) \in v.visited
    /\ \A i \in 0..Len(o) :
         (IF v.wrapped THEN i < attempt \/ v.start <= i
                       ELSE v.start <= i /\ i < attempt) => Nth(o, i) \in v.visited
    /\ ~v.wrap /\ v.start > 0 => v.start = 1 /\ Parent \in v.visited
    /\ v.wrapped => v.wrap /\ attempt < v.start /\ v.tried <= attempt + FirstLeg(v, o)
    /\ ~v.wrapped => /\ v.start <= attempt /\ v.tried = attempt - v.start
                     /\ attempt <= Len(o) + 1

LEMMA LoopHeadTried ==
    ASSUME IInv, WalkInv, NEW r \in Req, NEW v \in Task, NEW attempt \in Nat,
           LoopHead(r, v, attempt), UNCHANGED order,
           v.steady => v.visited \subseteq Everyone(order),
           v.steady /\ v.children /\ v.mode = "hls" => GoesOn(v, attempt, order)
    PROVE  WalkInv'
<1>1. CASE v.tried >= MaxAttempts /\ GiveUp(r, v)
  <2>1. v.steady /\ v.children /\ v.mode = "hls" /\ Len(order) + 2 <= MaxAttempts
          => \A i \in 0..Len(order) : Nth(order, i) \in v.visited
    BY <1>1 DEF GoesOn
  <2> QED BY <1>1, <2>1, GiveUpTried
<1>2. CASE Becomes(r, Asking([v EXCEPT !.tried = @ + 1], attempt))
  <2> DEFINE w == [v EXCEPT !.tried = @ + 1]
             u == Asking(w, attempt)
  <2>1. /\ w \in Task /\ Carried(v, w) /\ w.tried = v.tried + 1
        /\ w.start = v.start /\ w.wrap = v.wrap /\ w.wrapped = v.wrapped
    BY DEF Task, Carried
  <2> HIDE DEF w
  <2>2. /\ Carried(w, u) /\ u.pc = "ask" /\ u.attempt = attempt /\ u.start = w.start
        /\ u.wrap = w.wrap /\ u.wrapped = w.wrapped /\ u.tried = w.tried
    BY <2>1, AskingFields
  <2>3. Becomes(r, u) BY <1>2 DEF w
  <2> HIDE DEF u
  <2>4. /\ u.role = v.role /\ u.mode = v.mode /\ u.children = v.children
        /\ u.visited = v.visited /\ u.steady = v.steady /\ u.start = v.start
        /\ u.wrap = v.wrap /\ u.wrapped = v.wrapped /\ u.tried = v.tried + 1
    BY <2>1, <2>2 DEF Carried
  <2>5. v.tried \in Nat /\ v.start \in Nat /\ Len(order) \in Nat
    BY DEF Task, IInv, TypeOK
  <2>6. FirstLeg(u, order) = FirstLeg(v, order) /\ FirstLeg(v, order) \in Int
    BY <2>4, <2>5 DEF FirstLeg
  <2>7. v.steady /\ v.children /\ v.mode = "hls" => WalkOK(u, order)
    <3> SUFFICES ASSUME v.steady /\ v.children /\ v.mode = "hls" PROVE WalkOK(u, order)
      OBVIOUS
    <3> USE DEF GoesOn
    <3>1. \A i \in 0..Len(order) : Behind(u, i) => Nth(order, i) \in u.visited
      BY <2>2, <2>4 DEF Behind
    <3>2. ~u.wrap /\ u.start > 0 => u.start = 1 /\ Parent \in u.visited
      BY <2>4
    <3>3. u.wrapped => /\ u.wrap /\ u.attempt < u.start
                       /\ u.tried <= u.attempt + 1 + FirstLeg(u, order)
      BY <2>2, <2>4, <2>5, <2>6
    <3>4. ~u.wrapped => /\ u.start <= u.attempt /\ u.tried = u.attempt - u.start + 1
                        /\ u.attempt <= Len(order) + 1 \/ u.attempt = u.start
      BY <2>2, <2>4, <2>5
    <3> QED BY <3>1, <3>2, <3>3, <3>4 DEF WalkOK
  <2>8. TriedOK(u, order)
    BY <2>2, <2>4, <2>7 DEF TriedOK, Answered, OnWalk, Failed
  <2> QED BY <2>3, <2>8, WalkTask
<1> QED BY <1>1, <1>2 DEF LoopHead

(* The candidate at hand was tried in vain: it is behind the walk now. *)
LEMMA AdvanceTried ==
    ASSUME IInv, WalkInv, NEW r \in Req, NEW t \in Task, Advance(r, t), UNCHANGED order,
           t.steady => /\ t.visited \subseteq Everyone(order)
                       /\ t.attempt <= Len(order) /\ Nth(order, t.attempt) \in t.visited
                       /\ t.children /\ t.mode = "hls" => WalkOK(t, order)
    PROVE  WalkInv'
<1> DEFINE n == Len(order)
           on == t.steady /\ t.children /\ t.mode = "hls"
<1>1. t.attempt \in Nat /\ t.start \in Nat /\ t.tried \in Nat /\ n \in Nat /\ t.wrapped \in BOOLEAN
  BY DEF Task, IInv, TypeOK
<1>2. FirstLeg(t, order) = IF t.start <= n + 1 THEN n + 2 - t.start ELSE 1
  BY DEF FirstLeg
<1>3. MaxAttempts \in Nat BY FailoverAssumption
<1>4. CASE ~t.children /\ GiveUp(r, t) BY <1>4, GiveUpTried
<1>5. CASE t.wrapped /\ t.attempt + 1 >= t.start /\ GiveUp(r, t)
  <2>1. on => \A i \in 0..n : Nth(order, i) \in t.visited
    <3> SUFFICES ASSUME on, NEW i \in 0..n PROVE Nth(order, i) \in t.visited
      OBVIOUS
    <3>1. i < t.attempt \/ i = t.attempt \/ t.start <= i BY <1>1, <1>5
    <3> QED BY <1>5, <3>1 DEF WalkOK, Behind
  <2> QED BY <1>5, <2>1, GiveUpTried
<1>6. CASE t.children /\ ~(t.wrapped /\ t.attempt + 1 >= t.start) /\ LoopHead(r, t, t.attempt + 1)
  <2>1. t.attempt + 1 \in Nat BY <1>1
  <2>2. on => \A i \in 0..n :
                (IF t.wrapped THEN i < t.attempt + 1 \/ t.start <= i
                              ELSE t.start <= i /\ i < t.attempt + 1) => Nth(order, i) \in t.visited
    <3> SUFFICES ASSUME on, NEW i \in 0..n,
                        IF t.wrapped THEN i < t.attempt + 1 \/ t.start <= i
                                     ELSE t.start <= i /\ i < t.attempt + 1
                 PROVE  Nth(order, i) \in t.visited
      OBVIOUS
    <3>1. i = t.attempt \/ Behind(t, i) BY <1>1 DEF Behind
    <3> QED BY <3>1 DEF WalkOK
  <2>3. on /\ t.wrapped => /\ t.wrap /\ t.attempt + 1 < t.start
                           /\ t.tried <= t.attempt + 1 + FirstLeg(t, order)
    BY <1>1, <1>6 DEF WalkOK
  <2>4. on /\ ~t.wrapped => /\ t.start <= t.attempt + 1
                            /\ t.tried = (t.attempt + 1) - t.start /\ t.attempt + 1 <= n + 1
    BY <1>1 DEF WalkOK
  <2>5. on /\ ~t.wrap /\ t.start > 0 => t.start = 1 /\ Parent \in t.visited
    BY DEF WalkOK
  <2>6. on /\ n + 2 <= MaxAttempts /\ t.tried >= MaxAttempts
          => \A i \in 0..n : Nth(order, i) \in t.visited
    <3> SUFFICES ASSUME on, n + 2 <= MaxAttempts, t.tried >= MaxAttempts, NEW i \in 0..n
                 PROVE  Nth(order, i) \in t.visited
      OBVIOUS
    <3>1. t.wrapped BY <1>1, <1>3, <2>4
    <3>2. t.attempt <= n OBVIOUS
    <3>3. t.attempt >= n BY <1>1, <1>2, <1>3, <2>3, <3>1
    <3>4. i < t.attempt + 1 BY <1>1, <3>3
    <3> QED BY <2>2, <3>1, <3>4
  <2>7. on => GoesOn(t, t.attempt + 1, order)
    BY <2>2, <2>3, <2>4, <2>5, <2>6 DEF GoesOn
  <2>8. t.steady => t.visited \subseteq Everyone(order) OBVIOUS
  <2>9. PICK next \in Nat : next = t.attempt + 1 BY <2>1
  <2>10. LoopHead(r, t, next) BY <1>6, <2>9
  <2>11. on => GoesOn(t, next, order) BY <2>7, <2>9
  <2> QED BY <2>8, <2>10, <2>11, LoopHeadTried
<1> QED BY <1>4, <1>5, <1>6 DEF Advance

(* A walk begins: it has nothing behind it. *)
LEMMA WalkingTried ==
    ASSUME IInv, WalkInv, NEW r \in Req, NEW t \in Task, NEW start \in Nat,
           NEW wrap \in BOOLEAN, NEW knobs \in Knobs, NEW stash \in Adapter \cup {NoPolicy},
           Becomes(r, Walking(t, start, wrap, knobs, stash)), UNCHANGED order,
           t.steady => t.visited \subseteq Everyone(order),
           t.steady /\ t.mode = "hls" /\ ~wrap /\ start > 0
             => start = 1 /\ Parent \in t.visited
    PROVE  WalkInv'
<1> DEFINE w == Walking(t, start, wrap, knobs, stash)
<1>1. PICK u : u = w OBVIOUS
<1>2. Begins(u, t, start, wrap) BY <1>1, WalkingFields
<1>3. Becomes(r, u) BY <1>1
<1> HIDE DEF w
<1>4. /\ u.pc = "ask" /\ u.role = "walk" /\ u.mode = t.mode
      /\ u.visited = t.visited /\ u.steady = t.steady
      /\ u.attempt = start /\ u.start = start /\ u.wrapped = FALSE /\ u.tried = 1
  BY <1>2 DEF Begins
<1>5. u.wrap = wrap BY <1>2 DEF Begins
<1>6. t.steady /\ t.mode = "hls" => WalkOK(u, order)
  <2> SUFFICES ASSUME t.steady /\ t.mode = "hls" PROVE WalkOK(u, order)
    OBVIOUS
  <2>1. \A i \in 0..Len(order) : ~Behind(u, i) BY <1>4 DEF Behind, IInv, TypeOK
  <2>2. u.tried = u.attempt - u.start + 1 BY <1>4
  <2>3. ~u.wrap /\ u.start > 0 => u.start = 1 /\ Parent \in u.visited BY <1>4, <1>5
  <2> QED BY <1>4, <2>1, <2>2, <2>3 DEF WalkOK
<1>7. TriedOK(u, order)
  BY <1>4, <1>6 DEF TriedOK, Answered, OnWalk, Failed
<1> QED BY <1>3, <1>7, WalkTask

LEMMA EntryWalkTried ==
    ASSUME IInv, WalkInv, NEW r \in Req, NEW knobs \in Knobs,
           NEW stash \in Adapter \cup {NoPolicy}, EntryWalk(r, knobs, stash), UNCHANGED order
    PROVE  WalkInv'
<1> DEFINE t == tasks[r]
           u == [t EXCEPT !.again = FALSE]
<1>1. t \in Task /\ TriedOK(t, order) BY WalkOf
<1>2. u \in Task /\ u.visited = t.visited /\ u.steady = t.steady BY <1>1 DEF Task
<1>3. Becomes(r, Walking(u, Cursor(IdleResetEntry), TRUE, knobs, stash)) BY DEF EntryWalk
<1> HIDE DEF u
<1>4. u.steady => u.visited \subseteq Everyone(order) BY <1>1, <1>2 DEF TriedOK
<1>5. Cursor(IdleResetEntry) \in Nat BY CursorType
<1> QED BY <1>2, <1>3, <1>4, <1>5, WalkingTried

(* Requests, hops and sessions begin with nobody visited. *)
LEMMA BeginTried ==
    ASSUME IInv, WalkInv, NEW r \in Req, EntryRequest(r) \/ HopRefresh(r) \/ ColdHop(r)
    PROVE  WalkInv'
<1>1. Cursor(IdleResetEntry) \in Nat BY CursorType
<1>2. NoTask \in Task /\ NoTask.role = "entry" /\ NoTask.visited = {}
  BY NoTaskType DEF NoTask
<1>3. PICK u : Becomes(r, u) /\ u.visited = {} /\ u.pc # "reply" /\ u.role # "walk"
  <2>1. CASE Becomes(r, [NoTask EXCEPT !.pc = "take", !.attempt = Cursor(IdleResetEntry),
                                       !.target = entry.target, !.key = entry.policyKey])
    <3> DEFINE a == [NoTask EXCEPT !.pc = "take", !.attempt = Cursor(IdleResetEntry),
                                   !.target = entry.target, !.key = entry.policyKey]
    <3>1. a.pc = "take" /\ a.role = "entry" /\ a.visited = {} BY DEF NoTask
    <3> HIDE DEF a
    <3> QED BY <2>1, <3>1 DEF a
  <2>2. CASE Becomes(r, Asking(NoTask, Cursor(IdleResetEntry)))
    BY <1>1, <1>2, <2>2, AskingFields DEF Carried
  <2>3. CASE Becomes(r, Asking([NoTask EXCEPT !.role = "refresh"], Cursor(IdleResetEntry)))
    <3> DEFINE v == [NoTask EXCEPT !.role = "refresh"]
    <3>1. v \in Task /\ v.role = "refresh" /\ v.visited = {} BY <1>2 DEF Task
    <3>2. Becomes(r, Asking(v, Cursor(IdleResetEntry))) BY <2>3
    <3> HIDE DEF v
    <3> QED BY <1>1, <3>1, <3>2, AskingFields DEF Carried
  <2>4. CASE Becomes(r, Asking([NoTask EXCEPT !.role = "cold"], 0))
    <3> DEFINE v == [NoTask EXCEPT !.role = "cold"]
    <3>1. v \in Task /\ v.role = "cold" /\ v.visited = {} BY <1>2 DEF Task
    <3>2. Becomes(r, Asking(v, 0)) BY <2>4
    <3> HIDE DEF v
    <3> QED BY <3>1, <3>2, AskingFields DEF Carried
  <2> QED BY <2>1, <2>2, <2>3, <2>4 DEF EntryRequest, HopRefresh, ColdHop
<1>4. UNCHANGED order BY DEF EntryRequest, HopRefresh, ColdHop
<1> QED BY <1>3, <1>4, NewTried, WalkTask

(* Node was asked for a candidate: it has been visited now. *)
LEMMA AnsweredTried ==
    ASSUME IInv, WalkInv, NEW r \in Req, tasks[r].pc = "ask", UNCHANGED order,
           Exists(tasks[r].attempt), NEW u, Becomes(r, u),
           u.pc = "reply", u.reply \in {"grant", "error"},
           u.attempt = tasks[r].attempt, u.role = tasks[r].role, u.mode = tasks[r].mode,
           u.children = tasks[r].children, u.start = tasks[r].start, u.wrap = tasks[r].wrap,
           u.wrapped = tasks[r].wrapped, u.tried = tasks[r].tried,
           u.visited = tasks[r].visited \cup {Named(tasks[r].attempt)},
           u.steady => tasks[r].steady
    PROVE  WalkInv'
<1> DEFINE t == tasks[r]
<1>1. t \in Task /\ t.attempt \in Nat /\ TriedOK(t, order) BY WalkOf
<1>2. /\ t.attempt <= Len(order) /\ Named(t.attempt) = Nth(order, t.attempt)
      /\ Nth(order, t.attempt) \in Everyone(order)
  BY <1>1, ExistsUpTo
<1>3. WalkOK(t, order) => WalkOK(u, order)
  BY DEF WalkOK, Behind, FirstLeg
<1>4. TriedOK(u, order)
  BY <1>1, <1>2, <1>3 DEF TriedOK, Answered, OnWalk, Failed
<1> QED BY <1>4, WalkTask

LEMMA AnswersTried ==
    ASSUME IInv, WalkInv, NEW r \in Req,
           Grant(r) \/ GrantExhausted(r) \/ GrantFails(r) \/ SeamLost(r)
    PROVE  WalkInv'
<1> DEFINE t == tasks[r]
           Like(u) == /\ u.attempt = t.attempt /\ u.role = t.role /\ u.mode = t.mode
                      /\ u.children = t.children /\ u.start = t.start /\ u.wrap = t.wrap
                      /\ u.wrapped = t.wrapped /\ u.tried = t.tried
<1>1. t \in Task /\ t.attempt \in Nat /\ TriedOK(t, order) BY WalkOf
<1>2. t.pc = "ask" /\ UNCHANGED order BY DEF Grant, GrantExhausted, GrantFails, SeamLost
<1>3. CASE Grant(r)
  <2>1. PICK first \in BOOLEAN : first = (~config.enabled /\ ~OnInFlight) OBVIOUS
  <2>2. PICK c \in {Named(t.attempt)}, url \in Url :
          Becomes(r, [t EXCEPT !.pc = "reply", !.reply = "grant", !.knobs = config,
                               !.target = [cand |-> c, url |-> url], !.key = Provider[c],
                               !.visited = @ \cup {c}, !.off = first])
    BY <1>3, <2>1 DEF Grant, Grants
  <2> DEFINE w == [t EXCEPT !.pc = "reply", !.reply = "grant", !.knobs = config,
                            !.target = [cand |-> c, url |-> url], !.key = Provider[c],
                            !.visited = @ \cup {c}, !.off = first]
  <2>3. PICK u : u = w OBVIOUS
  <2>4. Like(u) BY <1>1, <2>3 DEF Task
  <2>5. /\ u.pc = "reply" /\ u.reply = "grant" /\ u.steady = t.steady
        /\ u.visited = t.visited \cup {Named(t.attempt)}
    BY <1>1, <2>3 DEF Task
  <2>6. Becomes(r, u) BY <2>2, <2>3
  <2> HIDE DEF w
  <2> QED BY <1>2, <1>3, <2>4, <2>5, <2>6, AnsweredTried DEF Grant
<1>4. CASE GrantExhausted(r)
  <2>1. PICK u : u = [t EXCEPT !.pc = "reply", !.reply = "exhausted"] OBVIOUS
  <2>2. Like(u) BY <1>1, <2>1 DEF Task
  <2>3. /\ u.pc = "reply" /\ u.reply = "exhausted" /\ u.steady = t.steady
        /\ u.visited = t.visited
    BY <1>1, <2>1 DEF Task
  <2>4. Becomes(r, u) BY <1>4, <2>1 DEF GrantExhausted
  <2>5. t.attempt > Len(order)
    <3>1. ~Exists(t.attempt) BY <1>4 DEF GrantExhausted
    <3> QED BY <1>1, <3>1, ExistsUpTo, WalkOf
  <2>6. WalkOK(t, order) => WalkOK(u, order) BY <2>2, <2>3 DEF WalkOK, Behind, FirstLeg
  <2>7. TriedOK(u, order)
    BY <1>1, <1>2, <2>2, <2>3, <2>5, <2>6 DEF TriedOK, Answered, OnWalk, Failed
  <2> QED BY <1>2, <2>4, <2>7, WalkTask
<1>5. CASE GrantFails(r)
  <2>1. PICK u : u = [t EXCEPT !.pc = "reply", !.reply = "error",
                               !.visited = @ \cup {Named(t.attempt)}]
    OBVIOUS
  <2>2. Like(u) BY <1>1, <2>1 DEF Task
  <2>3. /\ u.pc = "reply" /\ u.reply = "error" /\ u.steady = t.steady
        /\ u.visited = t.visited \cup {Named(t.attempt)}
    BY <1>1, <2>1 DEF Task
  <2>4. Becomes(r, u) BY <1>5, <2>1 DEF GrantFails
  <2> QED BY <1>2, <1>5, <2>2, <2>3, <2>4, AnsweredTried DEF GrantFails
<1>6. CASE SeamLost(r)
  <2> DEFINE more == IF Exists(t.attempt) THEN t.visited \cup {Named(t.attempt)} ELSE t.visited
             still == t.steady /\ Exists(t.attempt)
  <2>1. PICK u : u = [t EXCEPT !.pc = "reply", !.reply = "error", !.visited = more,
                               !.steady = still]
    OBVIOUS
  <2>2. still \in BOOLEAN BY <1>1 DEF Task
  <2>3. Becomes(r, u) BY <1>6, <2>1 DEF SeamLost
  <2> HIDE DEF more, still
  <2>4. Like(u) BY <1>1, <2>1 DEF Task
  <2>5. u.pc = "reply" /\ u.reply = "error" /\ u.visited = more /\ (u.steady => still)
    BY <1>1, <2>1, <2>2 DEF Task
  <2>6. CASE Exists(t.attempt)
    <3>1. u.visited = t.visited \cup {Named(t.attempt)} /\ (u.steady => t.steady)
      BY <2>5, <2>6 DEF more, still
    <3> QED BY <1>2, <2>3, <2>4, <2>5, <2>6, <3>1, AnsweredTried
  <2>7. CASE ~Exists(t.attempt)
    <3>1. ~u.steady BY <2>5, <2>7 DEF still
    <3>2. TriedOK(u, order) BY <2>5, <3>1 DEF TriedOK
    <3> QED BY <1>2, <2>3, <3>2, WalkTask
  <2> QED BY <2>6, <2>7
<1> QED BY <1>3, <1>4, <1>5, <1>6

LEMMA LandTried ==
    ASSUME IInv, WalkInv, NEW r \in Req, Land(r)
    PROVE  WalkInv'
<1> DEFINE t == tasks[r]
<1>1. t \in Task /\ TriedOK(t, order) BY WalkOf
<1>2. t.pc = "reply" /\ t.reply = "grant" /\ UNCHANGED order BY DEF Land
<1>3. CASE t.role \in {"entry", "cold"} /\ Becomes(r, [t EXCEPT !.pc = "take"])
  <2>1. PICK u : u = [t EXCEPT !.pc = "take"] OBVIOUS
  <2>2. u.pc = "take" /\ u.role # "walk" /\ u.visited = t.visited /\ u.steady = t.steady
    BY <1>1, <1>3, <2>1 DEF Task
  <2>3. TriedOK(u, order) BY <1>1, <2>2 DEF TriedOK, Answered, OnWalk, Failed
  <2> QED BY <1>2, <1>3, <2>1, <2>3, WalkTask
<1>4. CASE t.role = "walk" /\ Becomes(r, [t EXCEPT !.pc = "check"])
  <2>1. PICK u : u = [t EXCEPT !.pc = "check"] OBVIOUS
  <2>2. /\ u.pc = "check" /\ Carried(t, u) /\ u.attempt = t.attempt /\ u.start = t.start
        /\ u.wrap = t.wrap /\ u.wrapped = t.wrapped /\ u.tried = t.tried
    BY <1>1, <2>1 DEF Task, Carried
  <2>3. WalkOK(t, order) => WalkOK(u, order)
    BY <2>2 DEF WalkOK, Behind, FirstLeg, Carried
  <2>4. TriedOK(u, order)
    BY <1>1, <1>2, <1>4, <2>2, <2>3 DEF TriedOK, Answered, OnWalk, Failed, Carried
  <2> QED BY <1>2, <1>4, <2>1, <2>4, WalkTask
<1>5. CASE Becomes(r, NoTask) BY <1>2, <1>5, NoTaskTried, WalkTask
<1> QED BY <1>3, <1>4, <1>5 DEF Land

LEMMA TakeTried ==
    ASSUME IInv, WalkInv, NEW r \in Req, Take(r)
    PROVE  WalkInv'
<1> DEFINE t == tasks[r]
<1>1. t \in Task /\ TriedOK(t, order) /\ UNCHANGED order BY WalkOf DEF Take
<1>2. PICK mark : mark = (entry # NoEntry /\ entry.pending) OBVIOUS
<1>3. CASE t.role = "entry" /\ Becomes(r, [t EXCEPT !.pc = "fetch", !.marked = mark])
  <2>1. PICK u : u = [t EXCEPT !.pc = "fetch", !.marked = mark] OBVIOUS
  <2>2. u.pc = "fetch" /\ u.role = "entry" /\ u.visited = t.visited /\ u.steady = t.steady
    BY <1>1, <1>3, <2>1 DEF Task
  <2>3. TriedOK(u, order) BY <1>1, <2>2 DEF TriedOK, Answered, OnWalk, Failed
  <2> QED BY <1>1, <1>3, <2>1, <2>3, WalkTask
<1>4. CASE Becomes(r, NoTask) BY <1>1, <1>4, NoTaskTried, WalkTask
<1> QED BY <1>2, <1>3, <1>4 DEF Take

LEMMA CheckTried ==
    ASSUME IInv, TaskInv, WalkInv, NEW r \in Req, Check(r)
    PROVE  WalkInv'
<1> DEFINE t == tasks[r]
           off == [t EXCEPT !.children = FALSE]
<1>1. t \in Task /\ TriedOK(t, order) BY WalkOf
<1>2. t.pc = "check" /\ t.role = "walk" /\ UNCHANGED order BY TaskOf DEF Check, RoleOK
<1>3. /\ off \in Task /\ off.pc = "check" /\ off.role = "walk" /\ off.attempt = t.attempt
      /\ off.visited = t.visited /\ off.steady = t.steady /\ off.children = FALSE
  BY <1>1, <1>2 DEF Task
<1>4. \/ Becomes(r, [t EXCEPT !.pc = "fetch"])
      \/ GiveUp(r, off)
      \/ Becomes(r, [off EXCEPT !.pc = "fetch"])
  BY DEF Check
<1> HIDE DEF off
<1>5. CASE Becomes(r, [t EXCEPT !.pc = "fetch"])
  <2>1. PICK u : u = [t EXCEPT !.pc = "fetch"] OBVIOUS
  <2>2. /\ u.pc = "fetch" /\ Carried(t, u) /\ u.attempt = t.attempt /\ u.start = t.start
        /\ u.wrap = t.wrap /\ u.wrapped = t.wrapped /\ u.tried = t.tried
    BY <1>1, <2>1 DEF Task, Carried
  <2>3. WalkOK(t, order) => WalkOK(u, order)
    BY <2>2 DEF WalkOK, Behind, FirstLeg, Carried
  <2>4. TriedOK(u, order)
    BY <1>1, <1>2, <2>2, <2>3 DEF TriedOK, Answered, OnWalk, Failed, Carried
  <2> QED BY <1>2, <1>5, <2>1, <2>4, WalkTask
<1>6. CASE GiveUp(r, off)
  <2>1. off.steady => off.visited \subseteq Everyone(order) BY <1>1, <1>3 DEF TriedOK
  <2> QED BY <1>2, <1>3, <1>6, <2>1, GiveUpTried
<1>7. CASE Becomes(r, [off EXCEPT !.pc = "fetch"])
  <2>1. PICK u : u = [off EXCEPT !.pc = "fetch"] OBVIOUS
  <2>2. /\ u.pc = "fetch" /\ u.role = "walk" /\ u.attempt = t.attempt
        /\ u.visited = t.visited /\ u.steady = t.steady /\ u.children = FALSE
    BY <1>3, <2>1 DEF Task
  <2>3. TriedOK(u, order)
    BY <1>1, <1>2, <2>2 DEF TriedOK, Answered, OnWalk, Failed
  <2> QED BY <1>2, <1>7, <2>1, <2>3, WalkTask
<1> QED BY <1>4, <1>5, <1>6, <1>7

(* The walk behind a refused resolve: the candidate that was asked for is the *)
(* one the cursor names (`steady`), so a walk that starts at attempt 1 has the *)
(* channel itself behind it.                                                   *)
LEMMA EntryRefusedTried ==
    ASSUME IInv, WalkInv, NEW r \in Req, tasks[r].pc = "reply",
           tasks[r].role = "entry", EntryRefused(r), UNCHANGED order
    PROVE  WalkInv'
<1> DEFINE t == tasks[r]
           cursor == Cursor(IdleResetEntry)
<1>1. t \in Task /\ TriedOK(t, order) BY WalkOf
<1>2. PICK same \in BOOLEAN : same = (t.steady /\ cursor = t.attempt) BY <1>1 DEF Task
<1>3. PICK u : u = [t EXCEPT !.again = TRUE] OBVIOUS
<1>4. PICK v : v = [t EXCEPT !.again = TRUE, !.steady = same] OBVIOUS
<1>5. u \in Task /\ u.visited = t.visited /\ u.steady = t.steady BY <1>1, <1>3 DEF Task
<1>6. v \in Task /\ v.visited = t.visited /\ v.steady = same BY <1>1, <1>4 DEF Task
<1>7. t.steady => t.visited \subseteq Everyone(order) BY <1>1 DEF TriedOK
<1>8. cursor \in Nat /\ cursor + 1 \in Nat /\ (cursor > 0) \in BOOLEAN BY CursorType
<1>9. \/ Becomes(r, Ended(t, "dead"))
      \/ Becomes(r, Walking(u, 0, FALSE, MountKnobs, NoPolicy))
      \/ t.reply = "error" /\ Becomes(r, Walking(v, cursor + 1, cursor > 0, MountKnobs, NoPolicy))
  BY <1>2, <1>3, <1>4 DEF EntryRefused
<1> HIDE DEF cursor
<1>10. CASE Becomes(r, Ended(t, "dead"))
  <2>1. PICK w : w = Ended(t, "dead") OBVIOUS
  <2>2. Carried(t, w) /\ w.pc = "done" BY <1>1, <2>1, EndedFields
  <2>3. w.role # "walk" BY <2>2 DEF Carried
  <2>4. TriedOK(w, order) BY <1>1, <2>2, <2>3, EndedTried
  <2> QED BY <1>10, <2>1, <2>4, WalkTask
<1>11. CASE Becomes(r, Walking(u, 0, FALSE, MountKnobs, NoPolicy))
  <2>1. PICK start \in Nat, wrap \in BOOLEAN : start = 0 /\ wrap = FALSE OBVIOUS
  <2>2. Becomes(r, Walking(u, start, wrap, MountKnobs, NoPolicy)) BY <1>11, <2>1
  <2> QED BY <1>5, <1>7, <2>1, <2>2, MountKnobsType, WalkingTried
<1>12. CASE t.reply = "error"
            /\ Becomes(r, Walking(v, cursor + 1, cursor > 0, MountKnobs, NoPolicy))
  <2>1. v.steady /\ ~(cursor > 0) => cursor + 1 = 1 /\ Parent \in v.visited
    <3> SUFFICES ASSUME v.steady, ~(cursor > 0) PROVE cursor + 1 = 1 /\ Parent \in v.visited
      OBVIOUS
    <3>1. cursor = 0 BY <1>8
    <3>2. same BY <1>6
    <3>3. t.steady /\ t.attempt = 0 BY <1>2, <3>1, <3>2
    <3>4. Nth(order, 0) \in t.visited BY <1>1, <1>12, <3>3 DEF TriedOK, Answered
    <3> QED BY <1>6, <3>1, <3>4 DEF Nth
  <2>2. PICK start \in Nat, wrap \in BOOLEAN : start = cursor + 1 /\ wrap = (cursor > 0)
    BY <1>8
  <2>3. Becomes(r, Walking(v, start, wrap, MountKnobs, NoPolicy)) BY <1>12, <2>2
  <2>4. v.steady /\ ~wrap => start = 1 /\ Parent \in v.visited BY <2>1, <2>2
  <2>5. v.steady => v.visited \subseteq Everyone(order) BY <1>2, <1>6, <1>7
  <2> QED BY <1>6, <2>3, <2>4, <2>5, MountKnobsType, WalkingTried
<1> QED BY <1>9, <1>10, <1>11, <1>12

LEMMA WalkRefusedTried ==
    ASSUME IInv, WalkInv, NEW r \in Req, tasks[r].pc = "reply",
           tasks[r].role = "walk", WalkRefused(r), UNCHANGED order
    PROVE  WalkInv'
<1> DEFINE t == tasks[r]
           n == Len(order)
           on == t.steady /\ t.children /\ t.mode = "hls"
           wraps == t.children /\ t.wrap /\ t.start > 0 /\ ~t.wrapped
<1>1. t \in Task /\ TriedOK(t, order) BY WalkOf
<1>2. t.attempt \in Nat /\ t.start \in Nat /\ t.tried \in Nat /\ n \in Nat
  BY <1>1 DEF Task, IInv, TypeOK
<1>3. t.steady => t.visited \subseteq Everyone(order) BY <1>1 DEF TriedOK
<1>4. on => WalkOK(t, order) BY <1>1 DEF TriedOK, OnWalk
<1>5. t.steady /\ t.reply = "exhausted" => t.attempt > n BY <1>1 DEF TriedOK
<1>6. CASE t.reply = "exhausted" /\ wraps /\ LoopHead(r, [t EXCEPT !.wrapped = TRUE], 0)
  <2>1. PICK v : v = [t EXCEPT !.wrapped = TRUE] OBVIOUS
  <2>2. /\ v \in Task /\ Carried(t, v) /\ v.start = t.start /\ v.wrap = t.wrap
        /\ v.wrapped = TRUE /\ v.tried = t.tried
    BY <1>1, <2>1 DEF Task, Carried
  <2>3. LoopHead(r, v, 0) BY <1>6, <2>1
  <2>4. v.steady => v.visited \subseteq Everyone(order) BY <1>3, <2>2 DEF Carried
  <2>5. v.steady /\ v.children /\ v.mode = "hls" => GoesOn(v, 0, order)
    <3> SUFFICES ASSUME on PROVE GoesOn(v, 0, order) BY <2>2 DEF Carried
    <3>1. /\ t.attempt > n /\ t.start <= t.attempt /\ t.tried = t.attempt - t.start + 1
          /\ t.attempt <= n + 1 \/ t.attempt = t.start
      BY <1>4, <1>5, <1>6 DEF WalkOK
    <3>2. \A i \in 0..n : t.start <= i => Nth(order, i) \in v.visited
      <4> SUFFICES ASSUME NEW i \in 0..n, t.start <= i PROVE Nth(order, i) \in v.visited
        OBVIOUS
      <4>1. Behind(t, i) BY <1>2, <1>6, <3>1 DEF Behind
      <4> QED BY <1>4, <2>2, <4>1 DEF WalkOK, Carried
    <3>3. \A i \in 0..n : i < 0 \/ v.start <= i => Nth(order, i) \in v.visited
      BY <2>2, <3>2
    <3>4. v.tried <= 0 + FirstLeg(v, order)
      <4>1. FirstLeg(v, order) = IF t.start <= n + 1 THEN n + 2 - t.start ELSE 1
        BY <2>2 DEF FirstLeg
      <4>2. t.tried <= IF t.start <= n + 1 THEN n + 2 - t.start ELSE 1
        BY <1>2, <3>1
      <4>3. FirstLeg(v, order) \in Int BY <1>2, <4>1
      <4> QED BY <1>2, <2>2, <4>1, <4>2, <4>3
    <3>5. ~(n + 2 <= MaxAttempts /\ v.tried >= MaxAttempts)
      <4>1. MaxAttempts \in Nat BY FailoverAssumption
      <4>2. t.tried < n + 2 BY <1>2, <1>6, <3>1
      <4> QED BY <1>2, <2>2, <4>1, <4>2
    <3>6. v.wrap /\ 0 < v.start BY <1>2, <1>6, <2>2
    <3> QED BY <2>2, <3>3, <3>4, <3>5, <3>6 DEF GoesOn
  <2> QED BY <2>2, <2>3, <2>4, <2>5, LoopHeadTried
<1>7. CASE t.reply = "exhausted" /\ ~wraps /\ GiveUp(r, t)
  <2>1. on => \A i \in 0..n : Nth(order, i) \in t.visited
    <3> SUFFICES ASSUME on, NEW i \in 0..n PROVE Nth(order, i) \in t.visited
      OBVIOUS
    <3>1. WalkOK(t, order) /\ t.attempt > n BY <1>4, <1>5, <1>7
    <3>2. i < t.attempt BY <1>2, <3>1
    <3>3. CASE t.wrapped \/ t.start <= i
      <4>1. Behind(t, i) BY <3>2, <3>3 DEF Behind
      <4> QED BY <3>1, <4>1 DEF WalkOK
    <3>4. CASE ~t.wrapped /\ ~(t.start <= i)
      <4>1. t.start > 0 /\ ~t.wrap BY <1>2, <1>7, <3>4
      <4>2. t.start = 1 /\ Parent \in t.visited BY <3>1, <4>1 DEF WalkOK
      <4>3. i = 0 BY <3>4, <4>2
      <4> QED BY <4>2, <4>3 DEF Nth
    <3> QED BY <3>3, <3>4
  <2> QED BY <1>1, <1>3, <1>7, <2>1, GiveUpTried
<1>8. CASE t.reply = "error" /\ Advance(r, t)
  <2>1. t.steady => t.attempt <= n /\ Nth(order, t.attempt) \in t.visited
    BY <1>1, <1>8 DEF TriedOK, Answered
  <2> QED BY <1>1, <1>3, <1>4, <1>8, <2>1, AdvanceTried
<1> QED BY <1>6, <1>7, <1>8 DEF WalkRefused

LEMMA RefusedTried ==
    ASSUME IInv, TaskInv, WalkInv, NEW r \in Req, Refused(r)
    PROVE  WalkInv'
<1> DEFINE t == tasks[r]
<1>1. t \in Task /\ TriedOK(t, order) BY WalkOf
<1>2. t.pc = "reply" /\ UNCHANGED order BY DEF Refused
<1>3. CASE t.role = "entry" /\ EntryRefused(r) BY <1>2, <1>3, EntryRefusedTried
<1>4. CASE t.role = "walk" /\ WalkRefused(r) BY <1>2, <1>4, WalkRefusedTried
<1>5. CASE t.role = "cold" /\ Becomes(r, Ended(t, "dead"))
  <2>1. PICK v : v = Ended(t, "dead") OBVIOUS
  <2>2. Carried(t, v) /\ v.pc = "done" BY <1>1, <2>1, EndedFields
  <2>3. v.role # "walk" BY <1>5, <2>2 DEF Carried
  <2>4. TriedOK(v, order) BY <1>1, <2>2, <2>3, EndedTried
  <2> QED BY <1>2, <1>5, <2>1, <2>4, WalkTask
<1>6. CASE Becomes(r, NoTask) BY <1>2, <1>6, NoTaskTried, WalkTask
<1> QED BY <1>3, <1>4, <1>5, <1>6 DEF Refused

LEMMA FetchOkTried ==
    ASSUME IInv, WalkInv, NEW r \in Req, FetchOk(r)
    PROVE  WalkInv'
<1> DEFINE t == tasks[r]
           v == [NoTask EXCEPT !.pc = "ts", !.key = t.key]
<1>1. t \in Task /\ TriedOK(t, order) /\ UNCHANGED order BY WalkOf DEF FetchOk
<1>2. Becomes(r, Ended(t, "served")) \/ Becomes(r, v) BY DEF FetchOk, Serve
<1>3. CASE Becomes(r, Ended(t, "served"))
  <2>1. PICK u : u = Ended(t, "served") OBVIOUS
  <2>2. Carried(t, u) /\ u.pc = "done" /\ u.result = "served" BY <1>1, <2>1, EndedFields
  <2>3. TriedOK(u, order) BY <1>1, <2>2, EndedTried
  <2> QED BY <1>1, <1>3, <2>1, <2>3, WalkTask
<1>4. CASE Becomes(r, v)
  <2>1. v.pc = "ts" /\ v.role = "entry" /\ v.visited = {} BY DEF NoTask
  <2> HIDE DEF v
  <2> QED BY <1>1, <1>4, <2>1, NewTried, WalkTask
<1> QED BY <1>2, <1>3, <1>4

(* What an in-hand candidate that failed gives the walk to go on from. *)
LEMMA FetchedOf ==
    ASSUME IInv, TaskInv, WalkInv, NEW r \in Req, tasks[r].pc = "fetch", tasks[r].role = "walk"
    PROVE  tasks[r].steady =>
             /\ tasks[r].visited \subseteq Everyone(order)
             /\ tasks[r].attempt <= Len(order) /\ Nth(order, tasks[r].attempt) \in tasks[r].visited
             /\ tasks[r].children /\ tasks[r].mode = "hls" => WalkOK(tasks[r], order)
<1>1. TriedOK(tasks[r], order) BY WalkOf
<1> QED BY <1>1 DEF TriedOK, Answered, OnWalk

LEMMA FetchDefiniteTried ==
    ASSUME IInv, TaskInv, WalkInv, NEW r \in Req, FetchDefinite(r)
    PROVE  WalkInv'
<1> DEFINE t == tasks[r]
<1>1. t \in Task /\ t.key \in Adapter /\ TriedOK(t, order) BY WalkOf DEF Task
<1>2. t.pc \in {"fetch", "prefetched"} /\ UNCHANGED order BY DEF FetchDefinite
<1>3. KnobsOf(t.key) \in Knobs BY <1>1, KnobsType
<1>4. \/ EntryWalk(r, KnobsOf(t.key), t.key)
      \/ ~AtEntry(t) /\ Advance(r, [t EXCEPT !.stash = t.key])
      \/ Forward(r)
  BY DEF FetchDefinite
<1>5. CASE EntryWalk(r, KnobsOf(t.key), t.key) BY <1>1, <1>2, <1>3, <1>5, EntryWalkTried
<1>6. CASE ~AtEntry(t) /\ Advance(r, [t EXCEPT !.stash = t.key])
  <2>1. t.pc = "fetch" /\ t.role = "walk" BY <1>2, <1>6, TaskOf DEF RoleOK, AtEntry
  <2>2. PICK u : u = [t EXCEPT !.stash = t.key] OBVIOUS
  <2>3. /\ u \in Task /\ Carried(t, u) /\ u.attempt = t.attempt /\ u.start = t.start
        /\ u.wrap = t.wrap /\ u.wrapped = t.wrapped /\ u.tried = t.tried
    BY <1>1, <2>2 DEF Task, Carried
  <2>4. WalkOK(t, order) => WalkOK(u, order)
    BY <2>3 DEF WalkOK, Behind, FirstLeg, Carried
  <2>5. u.steady => /\ u.visited \subseteq Everyone(order)
                    /\ u.attempt <= Len(order) /\ Nth(order, u.attempt) \in u.visited
                    /\ u.children /\ u.mode = "hls" => WalkOK(u, order)
    BY <2>1, <2>3, <2>4, FetchedOf DEF Carried
  <2>6. Advance(r, u) BY <1>6, <2>2
  <2> QED BY <1>2, <2>3, <2>5, <2>6, AdvanceTried
<1>7. CASE Forward(r)
  <2>1. PICK u : /\ Becomes(r, u) /\ Carried(t, u) /\ u.pc \in {"done", "prefetched"}
                 /\ u.pc = "done" => u.result = "forwarded"
    BY <1>1, <1>7, EndedFields, AnswerFields DEF Forward
  <2>2. TriedOK(u, order) BY <1>1, <2>1, EndedTried
  <2> QED BY <1>2, <2>1, <2>2, WalkTask
<1> QED BY <1>4, <1>5, <1>6, <1>7

LEMMA FetchFailsTried ==
    ASSUME IInv, TaskInv, WalkInv, NEW r \in Req, FetchFails(r)
    PROVE  WalkInv'
<1> DEFINE t == tasks[r]
<1>1. t \in Task /\ t.key \in Adapter BY WalkOf DEF Task
<1>2. t.pc = "fetch" /\ UNCHANGED order BY DEF FetchFails
<1>3. KnobsOf(t.key) \in Knobs BY <1>1, KnobsType
<1>4. CASE EntryWalk(r, KnobsOf(t.key), NoPolicy) BY <1>2, <1>3, <1>4, EntryWalkTried
<1>5. CASE t.role = "walk" /\ Advance(r, t)
  BY <1>1, <1>2, <1>5, FetchedOf, AdvanceTried
<1> QED BY <1>4, <1>5 DEF FetchFails

(* A recovery of a raw-TS session is not held to everyone: after a dead media *)
(* playlist it does not wrap.                                                 *)
LEMMA TsTried ==
    ASSUME IInv, WalkInv, NEW r \in Req,
           TsHealthy(r) \/ TsEnds(r) \/ \E advance \in BOOLEAN : TsRecovers(r, advance)
    PROVE  WalkInv'
<1>1. CASE TsHealthy(r) BY <1>1 DEF TsHealthy, WalkInv
<1>2. CASE TsEnds(r) BY <1>2, NoTaskTried, WalkTask DEF TsEnds
<1>3. ASSUME NEW advance \in BOOLEAN, TsRecovers(r, advance) PROVE WalkInv'
  <2> DEFINE knobs == KnobsOf(tasks[r].key)
             u == [NoTask EXCEPT !.mode = "ts"]
             next == advance /\ knobs.enabled
             start == IF next THEN Cursor(IdleResetEntry) + 1 ELSE Cursor(IdleResetEntry)
  <2>1. tasks[r].key \in Adapter BY DEF IInv, TypeOK, Task
  <2>2. knobs \in Knobs /\ next \in BOOLEAN BY <2>1, KnobsType
  <2>3. start \in Nat BY CursorType
  <2>4. u \in Task /\ u.mode = "ts" /\ u.visited = {} BY NoTaskType DEF Task, NoTask
  <2>5. Becomes(r, Walking(u, start, next, knobs, NoPolicy)) /\ UNCHANGED order
    BY <1>3 DEF TsRecovers
  <2> HIDE DEF u, start, next, knobs
  <2>6. u.visited \subseteq Everyone(order) /\ u.mode # "hls" BY <2>4
  <2> QED BY <2>2, <2>3, <2>4, <2>5, <2>6, WalkingTried
<1> QED BY <1>1, <1>2, <1>3

(* The group changes: what was visited under the old one counts no longer. *)
LEMMA EnvironmentTried ==
    ASSUME IInv, WalkInv, NewBucket \/ Regroup \/ Reconfigure
    PROVE  WalkInv'
<1> SUFFICES ASSUME NEW q \in Req PROVE TriedOK(tasks'[q], order')
  BY DEF WalkInv
<1>1. TriedOK(tasks[q], order) BY WalkOf
<1>2. CASE Reconfigure
  <2> DEFINE t == tasks[q]
  <2>1. PICK u : u = tasks'[q] OBVIOUS
  <2>2. /\ Carried(t, u) /\ u.pc = t.pc /\ u.attempt = t.attempt /\ u.result = t.result
        /\ u.reply = t.reply /\ u.start = t.start /\ u.wrap = t.wrap
        /\ u.wrapped = t.wrapped /\ u.tried = t.tried
    BY <1>2, <2>1, ReconfigureFields
  <2>3. WalkOK(t, order) => WalkOK(u, order)
    BY <2>2 DEF WalkOK, Behind, FirstLeg, Carried
  <2>4. TriedOK(u, order)
    BY <1>1, <2>2, <2>3 DEF TriedOK, Answered, OnWalk, Failed, Carried
  <2> QED BY <1>2, <2>1, <2>4 DEF Reconfigure
<1>3. CASE Unsteady
  <2> DEFINE t == tasks[q]
  <2>1. PICK u : u = tasks'[q] OBVIOUS
  <2>2. /\ u.pc = t.pc /\ u.reply = t.reply /\ u.visited = t.visited
        /\ u.steady => t.pc = "idle"
    BY <1>3, <2>1, UnsteadyFields
  <2>3. u.pc = "idle" => u.visited = {} BY <1>1, <2>2 DEF TriedOK
  <2>4. TriedOK(u, order')
    BY <1>1, <2>2, <2>3 DEF TriedOK, Answered, OnWalk, Failed
  <2> QED BY <2>1, <2>4
<1> QED BY <1>2, <1>3 DEF NewBucket, Regroup

LEMMA RestartTried ==
    ASSUME Restart
    PROVE  WalkInv'
<1>1. UNCHANGED order /\ \A q \in Req : tasks'[q] = NoTask BY DEF Restart
<1> QED BY <1>1, NoTaskTried DEF WalkInv

LEMMA WalkInductive == IInv /\ TaskInv /\ WalkInv /\ [Next]_vars => WalkInv'
<1> SUFFICES ASSUME IInv, TaskInv, WalkInv, [Next]_vars PROVE WalkInv' OBVIOUS
<1>1. ASSUME NEW r \in Req, Progress(r) \/ SeamLost(r) PROVE WalkInv'
  BY <1>1, AnswersTried, LandTried, RefusedTried, TakeTried, CheckTried, FetchOkTried,
     FetchDefiniteTried, FetchFailsTried DEF Progress
<1>2. ASSUME NEW r \in Req, EntryRequest(r) \/ HopRefresh(r) \/ ColdHop(r) PROVE WalkInv'
  BY <1>2, BeginTried
<1>3. ASSUME NEW r \in Req,
             TsHealthy(r) \/ TsEnds(r) \/ \E advance \in BOOLEAN : TsRecovers(r, advance)
      PROVE  WalkInv'
  BY <1>3, TsTried
<1>4. CASE Hop BY <1>4 DEF Hop, WalkInv
<1>5. CASE Tick BY <1>5 DEF Tick, WalkInv
<1>6. CASE NewBucket \/ Regroup \/ Reconfigure BY <1>6, EnvironmentTried
<1>7. CASE Restart BY <1>7, RestartTried
<1>8. CASE UNCHANGED vars BY <1>8 DEF vars, WalkInv
<1> QED BY <1>1, <1>2, <1>3, <1>4, <1>5, <1>6, <1>7, <1>8 DEF Next

LEMMA WalkInvariance == Spec => []WalkInv
<1>1. Init => WalkInv
  <2>1. Init => \A q \in Req : tasks[q] = NoTask BY DEF Init
  <2> QED BY <2>1, NoTaskTried DEF WalkInv
<1>2. IInv /\ (TaskInv /\ PinInv) /\ WalkInv /\ [Next]_vars => WalkInv'
  BY WalkInductive
<1> QED BY <1>1, <1>2, StepInvariance, Invariance, PTL DEF Spec

-----------------------------------------------------------------------------
(* Whatever requests, refreshes, walks and sessions share the stream: when    *)
(* they rest, the cursor names a child only after an attempt at it was        *)
(* answered with 2xx, or after a grant that was overtaken put the cursor back *)
(* to it.  A failed walk never leaves a pin that nobody answers for (proxy.rs *)
(* failover_walk, state.rs reset_cursor and resolve_at).                      *)
THEOREM PinsServed == Spec => []PinnedServed
<1>1. PinInv => PinnedServed
  <2> SUFFICES ASSUME PinInv, Quiet PROVE Kept(entry, won)
    BY DEF PinnedServed, Kept
  <2>1. \A r \in Req : ~Owing(tasks[r], entry) BY DEF Quiet, Resting, Owing
  <2> QED BY <2>1 DEF PinInv
<1> QED BY <1>1, StepInvariance, PTL

(* The very step in which a walk ends without having served, whoever else is  *)
(* at work, leaves the cursor at the channel itself and nothing in the cache, *)
(* also when the error page it ended with is still to be forwarded (proxy.rs, *)
(* every way out of failover_walk but the 2xx).                               *)
THEOREM WalksUnpin == Spec => WalkExitsUnpin
<1>1. IInv /\ (TaskInv /\ PinInv) /\ [Next]_vars
        => [\A r \in Req : EndsInVain(r)
              => Cursor(entry') = 0 /\ (entry' # NoEntry => ~Fresh(entry'))]_vars
  BY StepInductive DEF StepOK, WalkExits, Unpinned
<1> QED BY <1>1, Invariance, StepInvariance, PTL DEF Spec, WalkExitsUnpin

(* A walk of a poll that finds nobody to serve has asked for the channel      *)
(* itself and for every Active child, wherever it started, however often it   *)
(* wrapped and whoever else walked meanwhile, if the group stayed, the cursor *)
(* was where its refused resolve had found it and the cap on attempts leaves  *)
(* room for one more than all of them (proxy.rs failover_walk).               *)
THEOREM WalksTryEveryone == Spec => []WalkTriesEveryone
<1>1. WalkInv => WalkTriesEveryone
  <2> SUFFICES ASSUME WalkInv, NEW r \in Req,
                      tasks[r].pc = "done" /\ tasks[r].role = "walk" /\ tasks[r].result = "dead",
                      tasks[r].mode = "hls" /\ tasks[r].children /\ tasks[r].steady,
                      Len(order) + 2 <= MaxAttempts
               PROVE  tasks[r].visited = Active \cup {Parent}
    BY DEF WalkTriesEveryone
  <2>1. tasks[r].visited = Everyone(order) BY DEF WalkInv, TriedOK, Failed
  <2> QED BY <2>1 DEF Everyone, Active
<1> QED BY <1>1, WalkInvariance, PTL

(* A walk that was granted its candidate with failover off fetches from no    *)
(* child, though it reads the flag from the policy that all tasks of the      *)
(* provider share: as long as the operator leaves it off, whatever is filed   *)
(* there meanwhile says off, unless a grant made before he switched it off    *)
(* was still under way (proxy.rs failover_walk, policy.failover_enabled).     *)
THEOREM NoBackupWhenOff == Spec => []OffIsAuthoritative
<1>1. TaskInv => OffIsAuthoritative
  BY DEF TaskInv, OffOK, OffIsAuthoritative
<1> QED BY <1>1, StepInvariance, PTL

=============================================================================
