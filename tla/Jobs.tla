-------------------------------- MODULE Jobs ---------------------------------
(* The scheduler: cron jobs persisted in MongoDB and the timers that run them.*)
(*                                                                            *)
(* Every enabled job has one croner timer in the process.  Requests write the *)
(* document first and the timer after it: save, delete, the wipe of a reset,  *)
(* the replacement of a restore.  A boot, and a restore, register the enabled *)
(* documents one after the other.  A timer that fires reads its document      *)
(* again, works, and notes the outcome in the document, if it is still there. *)
(* scheduler/index.ts, routes/cronjobs.ts, routes/system.ts,                  *)
(* backup/restoreBackup.ts, the deletion cascades, index.ts.                  *)
(* A request is the statements it has left; a step is one of them.            *)
EXTENDS Naturals, Sequences, FiniteSets, SequencesExt

CONSTANTS Job, Cron,         \* jobs; cron expressions
          NoDoc, NoCron,
          Saved, Backup,     \* documents found at the first boot; those a restore may bring
          MaxRequests, MaxAtOnce, MaxRuns, MaxFaults

Doc == [cron : Cron, enabled : BOOLEAN, nextRun : Cron \cup {NoCron}]
ASSUME JobsAssumption ==
    /\ NoDoc \notin Doc /\ NoCron \notin Cron /\ IsFiniteSet(Job)
    /\ Saved \cup Backup \subseteq [Job -> Doc \cup {NoDoc}]
    /\ MaxRequests \in Nat /\ MaxAtOnce \in Nat /\ MaxRuns \in Nat /\ MaxFaults \in Nat

Boot == 0
Request == 0..MaxRequests              \* the boot is a request of its own
Run == Job \X (1..MaxRuns)             \* a job may run again before it is done

VARIABLES docs,      \* the cronjobs collection
          timers,    \* the Map of live timers: the expression each was made of
          requests,  \* what each request has left to do, for which jobs, with which documents
          runs,      \* the runs under way, and the nextRun each will note
          begun, faults,
          solo,      \* history: the requests nothing touched the jobs of beside them
          mess       \* history: jobs whose last writers overlapped or were cut short
vars == <<docs, timers, requests, runs, begun, faults, solo, mess>>

None == [j \in Job |-> NoDoc]
Idle == [todo |-> <<>>, queue |-> <<>>, all |-> FALSE, held |-> None]
NotRunning == [pc |-> "none", nextRun |-> NoCron]
Running == {r \in Request : requests[r].todo # <<>>}
Statement(r, s) == requests[r].todo # <<>> /\ Head(requests[r].todo) = s
This(r) == Head(requests[r].queue)
(* The jobs whose document or timer a request has still to write.             *)
JobsOf(q) == IF q.all THEN Job ELSE {Head(q.queue)}
Over(todo, queue) == todo = <<>> \/ (todo = <<"note">> /\ Len(queue) = 1)
Touching(r) == IF Over(requests[r].todo, requests[r].queue) THEN {} ELSE JobsOf(requests[r])

Begin(q) ==
    /\ Boot \notin Running             \* the server listens when the boot is over
    /\ begun < MaxRequests /\ Cardinality(Running) < MaxAtOnce
    /\ begun' = begun + 1
    /\ requests' = [requests EXCEPT ![begun + 1] = q]
    /\ LET beside == {r \in Request : Touching(r) \cap JobsOf(q) # {}} IN
       /\ mess' = mess \cup {j \in JobsOf(q) : \E r \in beside : j \in Touching(r)}
       /\ solo' = (solo \ beside) \cup (IF beside = {} THEN {begun'} ELSE {})
    /\ UNCHANGED <<docs, timers, runs, faults>>

New(c, on) == [cron |-> c, enabled |-> on, nextRun |-> NoCron]
(* PUT /api/cronjobs/:targetId, and the schedule that comes with a local      *)
(* market's import.                                                           *)
Save(j, c, on) == Begin([Idle EXCEPT !.todo = <<"save", "apply", "note">>, !.queue = <<j>>,
                                     !.held = [None EXCEPT ![j] = New(c, on)]])
(* DELETE /api/cronjobs/:targetId, and the end of every cascading deletion.   *)
Delete(j) == Begin([Idle EXCEPT !.todo = <<"erase", "unschedule">>, !.queue = <<j>>])
(* POST /api/system/reset-workspace.                                          *)
Reset == Begin([Idle EXCEPT !.todo = <<"wipe", "unscheduleAll">>, !.all = TRUE])
(* POST /api/backup/restore.                                                  *)
Restore(b) == Begin([Idle EXCEPT !.todo = <<"wipe", "fill", "unscheduleAll", "enlist", "apply", "note">>,
                                 !.all = TRUE, !.held = b])
-----------------------------------------------------------------------------
(* The statements.                                                            *)
Left(r) == Tail(requests[r].todo)
Continue(r, q) ==
    /\ requests' = [requests EXCEPT ![r] = IF q.todo = <<>> THEN Idle ELSE q]
    /\ mess' = IF Touching(r) # {} /\ Over(q.todo, q.queue) /\ r \in solo THEN mess \ JobsOf(requests[r]) ELSE mess
    /\ UNCHANGED <<begun, faults, solo>>
Go(r) == Continue(r, [requests[r] EXCEPT !.todo = Tail(@)])

(* The upsert of routes/cronjobs.ts sets all but the scheduler's own fields.  *)
Upsert(r) ==
    /\ Statement(r, "save")
    /\ LET j == This(r)
           d == [requests[r].held[j] EXCEPT !.nextRun = IF docs[j] = NoDoc THEN NoCron ELSE docs[j].nextRun] IN
       docs' = [docs EXCEPT ![j] = d]
    /\ Go(r) /\ UNCHANGED <<timers, runs>>

(* applyCronjob up to its await.                                              *)
(* Mutation: a job that is switched off keeps its timer.                      *)
ApplyEnabledOnly(r) ==
    /\ Statement(r, "apply")
    /\ LET d == requests[r].held[This(r)] IN
       /\ timers' = [timers EXCEPT ![This(r)] = IF d.enabled THEN d.cron ELSE @]
       /\ Continue(r, [requests[r] EXCEPT !.todo = IF d.enabled THEN Tail(@) ELSE <<>>])
    /\ UNCHANGED <<docs, runs>>
Apply(r) ==
    /\ Statement(r, "apply")
    /\ LET d == requests[r].held[This(r)] IN
       /\ timers' = [timers EXCEPT ![This(r)] = IF d.enabled THEN d.cron ELSE NoCron]
       /\ Continue(r, [requests[r] EXCEPT !.todo = IF d.enabled THEN Tail(@) ELSE <<>>])
    /\ UNCHANGED <<docs, runs>>

(* The nextRun of a document that is there; then the next one to register.    *)
Noted(j, c) == [docs EXCEPT ![j] = IF @ = NoDoc THEN NoDoc ELSE [@ EXCEPT !.nextRun = c]]
NextInQueue(r) == LET rest == Tail(requests[r].queue) IN
    [requests[r] EXCEPT !.queue = rest, !.todo = IF rest = <<>> THEN <<>> ELSE <<"apply", "note">>]
(* Mutation: the update is an upsert.                                         *)
NoteUpserts(r) ==
    /\ Statement(r, "note")
    /\ LET c == requests[r].held[This(r)].cron IN
       docs' = [docs EXCEPT ![This(r)] = IF @ = NoDoc THEN [nextRun |-> c] ELSE [@ EXCEPT !.nextRun = c]]
    /\ Continue(r, NextInQueue(r)) /\ UNCHANGED <<timers, runs>>
Note(r) ==
    /\ Statement(r, "note")
    /\ docs' = Noted(This(r), requests[r].held[This(r)].cron)
    /\ Continue(r, NextInQueue(r)) /\ UNCHANGED <<timers, runs>>

Erase(r) ==
    /\ Statement(r, "erase")
    /\ docs' = [docs EXCEPT ![This(r)] = NoDoc]
    /\ Go(r) /\ UNCHANGED <<timers, runs>>
Unschedule(r) ==
    /\ Statement(r, "unschedule")
    /\ timers' = [timers EXCEPT ![This(r)] = NoCron]
    /\ Go(r) /\ UNCHANGED <<docs, runs>>

Wipe(r) ==
    /\ Statement(r, "wipe")
    /\ docs' = None
    /\ Go(r) /\ UNCHANGED <<timers, runs>>
(* Unordered: a document that came between stays.                             *)
Fill(r) ==
    /\ Statement(r, "fill")
    /\ docs' = [j \in Job |-> IF docs[j] = NoDoc THEN requests[r].held[j] ELSE docs[j]]
    /\ Go(r) /\ UNCHANGED <<timers, runs>>
UnscheduleAll(r) ==
    /\ Statement(r, "unscheduleAll")
    /\ timers' = [j \in Job |-> NoCron]
    /\ Go(r) /\ UNCHANGED <<docs, runs>>

(* startScheduler: what is enabled, to be registered one after the other.     *)
Enlist(r) ==
    /\ Statement(r, "enlist")
    /\ LET on == {j \in Job : docs[j] # NoDoc /\ docs[j].enabled} IN
       Continue(r, [requests[r] EXCEPT !.queue = SetToSeq(on), !.held = docs,
                                       !.todo = IF on = {} THEN <<>> ELSE Tail(@)])
    /\ UNCHANGED <<docs, timers, runs>>

(* MongoDB fails a statement.  A request ends there, except that a restore    *)
(* notes the error and goes on, with the collection half filled; a boot or a  *)
(* restore that ends there leaves the rest of the jobs without timers, and a  *)
(* reset leaves the timers of the jobs it wiped.                              *)
Fault(r) ==
    /\ faults < MaxFaults /\ faults' = faults + 1
    /\ r \in Running
    /\ LET restores == requests[r].all /\ Left(r) # <<>> /\ Head(requests[r].todo) \in {"wipe", "fill"}
                         /\ Left(r) # <<"unscheduleAll">>
           s == Head(requests[r].todo) IN
       /\ s \in {"save", "note", "erase", "wipe", "fill", "enlist"} \/ requests[r].todo = <<"unscheduleAll">>
       /\ IF s = "fill"
          THEN \E some \in SUBSET {j \in Job : docs[j] = NoDoc} :
                 docs' = [j \in Job |-> IF j \in some THEN requests[r].held[j] ELSE docs[j]]
          ELSE UNCHANGED docs
       /\ requests' = [requests EXCEPT ![r] =
              IF s = "wipe" /\ restores THEN [@ EXCEPT !.todo = Tail(Left(r))]
              ELSE IF s = "fill" THEN [@ EXCEPT !.todo = Left(r)] ELSE Idle]
       /\ mess' = IF requests[r].all /\ ~restores THEN Job ELSE mess
    /\ UNCHANGED <<timers, runs, begun, solo>>
-----------------------------------------------------------------------------
(* A timer fires.                                                             *)
(* Mutation: a timer fires once.                                              *)
TickOnce(n) ==
    /\ runs[n].pc = "none" /\ timers[n[1]] # NoCron
    /\ runs' = [runs EXCEPT ![n].pc = "load"]
    /\ timers' = [timers EXCEPT ![n[1]] = NoCron]
    /\ UNCHANGED <<docs, requests, begun, faults, solo, mess>>
Tick(n) ==
    /\ runs[n].pc = "none" /\ timers[n[1]] # NoCron
    /\ runs' = [runs EXCEPT ![n].pc = "load"]
    /\ UNCHANGED <<docs, timers, requests, begun, faults, solo, mess>>

(* runJob: the document read again, and what the timer says of its next time. *)
Load(n) ==
    /\ runs[n].pc = "load"
    /\ LET d == docs[n[1]] IN
       runs' = [runs EXCEPT ![n] = IF d # NoDoc /\ d.enabled
                                   THEN [pc |-> "work", nextRun |-> timers[n[1]]] ELSE NotRunning]
    /\ UNCHANGED <<docs, timers, requests, begun, faults, solo, mess>>

(* The work is done or has failed: its outcome, with the nextRun of before.   *)
(* Mutation: the document is written back whole.                              *)
RecordWhole(n) ==
    /\ runs[n].pc = "work"
    /\ docs' = [docs EXCEPT ![n[1]] = [cron |-> CHOOSE c \in Cron : TRUE, enabled |-> TRUE, nextRun |-> runs[n].nextRun]]
    /\ runs' = [runs EXCEPT ![n] = NotRunning]
    /\ UNCHANGED <<timers, requests, begun, faults, solo, mess>>
Record(n) ==
    /\ runs[n].pc = "work"
    /\ docs' = Noted(n[1], runs[n].nextRun)
    /\ runs' = [runs EXCEPT ![n] = NotRunning]
    /\ UNCHANGED <<timers, requests, begun, faults, solo, mess>>

(* The process ends, also when the outcome of a run cannot be written: then   *)
(* runJob rejects, and nobody catches it.  The next boot starts over.         *)
Booting == [Idle EXCEPT !.todo = <<"enlist", "apply", "note">>, !.all = TRUE]
Restart ==
    /\ faults < MaxFaults /\ faults' = faults + 1
    /\ timers' = [j \in Job |-> NoCron]
    /\ runs' = [n \in Run |-> NotRunning]
    /\ requests' = [r \in Request |-> IF r = Boot THEN Booting ELSE Idle]
    /\ solo' = {Boot}
    /\ UNCHANGED <<docs, begun, mess>>

Init ==
    /\ docs \in Saved
    /\ timers = [j \in Job |-> NoCron]
    /\ requests = [r \in Request |-> IF r = Boot THEN Booting ELSE Idle]
    /\ runs = [n \in Run |-> NotRunning]
    /\ begun = 0 /\ faults = 0 /\ solo = {Boot} /\ mess = {}

Step(r) == \/ Upsert(r) \/ Apply(r) \/ Note(r) \/ Erase(r) \/ Unschedule(r)
           \/ Wipe(r) \/ Fill(r) \/ UnscheduleAll(r) \/ Enlist(r)
Works(n) == Load(n) \/ Record(n)
Next == \/ \E j \in Job : Delete(j) \/ \E c \in Cron, on \in BOOLEAN : Save(j, c, on)
        \/ Reset \/ \E b \in Backup : Restore(b)
        \/ \E r \in Request : Step(r) \/ Fault(r)
        \/ \E n \in Run : Tick(n) \/ Works(n)
        \/ Restart
Spec == Init /\ [][Next]_vars

(* MongoDB answers or fails, work ends, and a timer that is set goes off.     *)
FairSpec ==
    /\ Spec
    /\ \A r \in Request : WF_vars(Step(r))
    /\ \A n \in Run : WF_vars(Tick(n)) /\ WF_vars(Works(n))
-----------------------------------------------------------------------------
(* Every variable is of its type: no outcome or nextRun is ever written as a  *)
(* document of its own.                                                       *)
TypeOK ==
    /\ docs \in [Job -> Doc \cup {NoDoc}] /\ timers \in [Job -> Cron \cup {NoCron}]
    /\ \A r \in Request : LET q == requests[r] IN
         /\ q.held \in [Job -> Doc \cup {NoDoc}] /\ q.all \in BOOLEAN
         /\ \A i \in DOMAIN q.queue : q.queue[i] \in Job
    /\ runs \in [Run -> [pc : {"none", "load", "work"}, nextRun : Cron \cup {NoCron}]]
    /\ begun \in 0..MaxRequests /\ faults \in 0..MaxFaults /\ solo \subseteq Request /\ mess \subseteq Job

(* scheduler/index.ts: "one in-memory Cron per enabled job", and a change     *)
(* "takes effect immediately".  Whatever runs, restarts and other jobs'       *)
(* requests do meanwhile, and whatever was in disorder before: once the last  *)
(* request about a job has run alone, or a boot is over, the job has the      *)
(* timer its document asks for.                                               *)
TimersMatch ==
    \A j \in Job : j \notin mess /\ (\A r \in Request : j \notin Touching(r)) =>
        timers[j] = IF docs[j] # NoDoc /\ docs[j].enabled THEN docs[j].cron ELSE NoCron

(* scheduler/index.ts: "a job disabled/deleted between ticks is honored".  A  *)
(* job under way, a late nextRun or a boot never brings a deleted document    *)
(* back, and none of them changes what the operator saved.                    *)
(* Only the statement of a request that is taken now may: one that is about   *)
(* this job, or one about all of them.                                        *)
Writes(r, j) == LET s == Head(requests[r].todo) IN
    /\ \/ s \in {"save", "erase"} /\ j = This(r)
       \/ s \in {"wipe", "fill"}
    /\ requests'[r] # requests[r]
OnlyRequestsWrite ==
    [][\A j \in Job : docs'[j] # docs[j] =>
         \/ \E r \in Running : Writes(r, j)
         \/ /\ docs[j] # NoDoc /\ docs'[j] # NoDoc
            /\ docs'[j].cron = docs[j].cron /\ docs'[j].enabled = docs[j].enabled]_docs

(* scheduler/index.ts: "a failing job records lastError and keeps ticking".   *)
(* A job that stays enabled, and whose requests have settled, is run again    *)
(* and again.                                                                 *)
EnabledJobsRun ==
    \A j \in Job :
      <>[](docs[j] # NoDoc /\ docs[j].enabled /\ j \notin mess /\ \A r \in Request : j \notin Touching(r))
        => []<>(\E n \in Run : n[1] = j /\ runs[n].pc = "work")
=============================================================================
