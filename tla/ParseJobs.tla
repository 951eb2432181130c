----------------------------- MODULE ParseJobs -----------------------------
(***************************************************************************)
(* The upload parse queue: ParseJobManager (app/parse_jobs.py) driving the *)
(* worker webapp/app.py gives it (_parse_job_pipeline).                    *)
(*                                                                         *)
(* Three kinds of thread share the manager: request threads (Clients),     *)
(* which create, cancel and retry jobs; pool threads, each running one     *)
(* future of the executor; and retry timers.  A future is one call of      *)
(* executor.submit(_run, job): it is queued, runs through the steps of     *)
(* _run and of the pipeline, and may end as a timer that submits a new     *)
(* future for the same job.  The parse_jobs table survives a restart, the  *)
(* rest of the state is the manager's memory and does not.                 *)
(*                                                                         *)
(* One action is one critical section of manager._lock, one SQLite         *)
(* transaction, or one read of shared state: what another thread can see   *)
(* or change in between is a step of its own.                              *)
(***************************************************************************)
EXTENDS Naturals, FiniteSets

CONSTANTS Jobs,         \* job ids
          NoJob,        \* the job of a future or a request that has none yet
          Clients,      \* request threads
          MaxFutures,   \* bound: executor submissions in one behaviour
          PoolSize,     \* SAM_PARSE_CONCURRENCY
          MaxAttempts,  \* SAM_RUNTIME_RETRIES
          MaxRequests,  \* bound: cancel and retry requests that start
          MaxCrashes,   \* bound: process restarts
          MaxFaults,    \* bound: ledger writes that raise (SQLite busy or full)
          FactsTree     \* settings.SAM_FACTS_TREE

ASSUME ParseJobsAssumption ==
    /\ NoJob \notin Jobs
    /\ MaxFutures \in Nat
    /\ PoolSize \in Nat \ {0}
    /\ MaxAttempts \in Nat \ {0}
    /\ MaxRequests \in Nat /\ MaxCrashes \in Nat /\ MaxFaults \in Nat
    /\ FactsTree \in BOOLEAN

Futures == 1 .. MaxFutures

VARIABLES
    \* columns of parse_jobs
    status, stage,
    resume,     \* l2_committed; with the facts tree on, the saved md-upload-manifest row
    \* memory of the manager; event objects are numbered per job in creation order
    events,     \* _events: the registered event of each job, 0 when there is none
    made,       \* how many events each job has had
    raised,     \* <<job, event>> pairs whose Event is set
    critical,   \* _critical
    attempts,   \* _runtime_retries
    reporter,   \* the future whose callback holds _lock across two ledger accesses, or 0
    \* futures: step, job, event submitted with, event taken in _run, job["l2_committed"]
    \* as read, the failure being handled, and whether an exception escapes _run
    pc, job, submitted, event, seen, failure, escapes,
    \* request threads: step, job, and what the first read of the row returned
    cpc, cjob, sawStatus, sawStage,
    \* bookkeeping of the bounds, and how often each job's facts were committed
    requests, crashes, faults, commits

ledger  == <<status, stage, resume>>
memory  == <<events, made, raised, critical, attempts, reporter>>
runs    == <<pc, job, submitted, event, seen, failure, escapes>>
calls   == <<cpc, cjob, sawStatus, sawStage>>
bounds  == <<requests, crashes, faults>>
vars    == <<ledger, memory, runs, calls, bounds, commits>>

Live      == {"queued", "parsing"}
Terminal  == {"done", "failed", "canceled", "needs_human", "partial"}
Retryable == {"failed", "canceled", "needs_human"} \cup (IF FactsTree THEN {"partial"} ELSE {})
Stages    == {"none", "queued", "starting_engine", "parsing", "reviewing", "reading",
              "consolidating"} \cup Terminal
Failures  == {"none", "runtime", "engine", "document_quality", "mapped_partial", "canceled"}

\* Steps of _run that are inside the worker, before its facts are committed.
Body  == {"engine", "parsing", "reviewing", "reading"}
\* Steps of _run from the moment a pool thread has taken the job's event.
Run   == {"read", "mark"} \cup Body \cup
         {"enter", "stage", "commit", "uncrit", "project", "finish", "tryDone", "tryCanceled",
          "failing", "handleCanceled", "handleTerminal", "requeue", "cleanup"}
\* A future in one of these steps is the one that will run, or is running, its job.
Owning == {"queued", "timer", "resubmit"} \cup Run
Steps == Owning \cup {"unused", "observe", "report", "over"}
CallSteps == {"idle", "register", "submit", "gate", "raise", "writeCanceled", "renew", "writeQueued"}

Init ==
    /\ status = [j \in Jobs |-> "absent"]
    /\ stage = [j \in Jobs |-> "none"]
    /\ resume = [j \in Jobs |-> FALSE]
    /\ events = [j \in Jobs |-> 0]
    /\ made = [j \in Jobs |-> 0]
    /\ raised = {}
    /\ critical = {}
    /\ attempts = [j \in Jobs |-> 0]
    /\ reporter = 0
    /\ pc = [f \in Futures |-> "unused"]
    /\ job = [f \in Futures |-> NoJob]
    /\ submitted = [f \in Futures |-> 0]
    /\ event = [f \in Futures |-> 0]
    /\ seen = [f \in Futures |-> FALSE]
    /\ failure = [f \in Futures |-> "none"]
    /\ escapes = [f \in Futures |-> FALSE]
    /\ cpc = [c \in Clients |-> "idle"]
    /\ cjob = [c \in Clients |-> NoJob]
    /\ sawStatus = [c \in Clients |-> "absent"]
    /\ sawStage = [c \in Clients |-> "none"]
    /\ requests = 0 /\ crashes = 0 /\ faults = 0
    /\ commits = [j \in Jobs |-> 0]

-----------------------------------------------------------------------------
\* Helpers

Unlocked == reporter = 0

\* _update of status and stage together; every terminal write uses one word for both.
Publish(j, s, g) ==
    /\ status' = [status EXCEPT ![j] = s]
    /\ stage' = [stage EXCEPT ![j] = g]

SetStage(j, g) ==
    /\ stage' = [stage EXCEPT ![j] = g]
    /\ UNCHANGED status

\* self._events[job] = Event()
NewEvent(j) ==
    /\ made' = [made EXCEPT ![j] = @ + 1]
    /\ events' = [events EXCEPT ![j] = made[j] + 1]

\* The event self._events.setdefault(job, Event()) returns, and its effect.
Current(j) == IF events[j] = 0 THEN made[j] + 1 ELSE events[j]
SetDefault(j) ==
    IF events[j] = 0 THEN NewEvent(j) ELSE UNCHANGED <<events, made>>

Goto(f, step) == pc' = [pc EXCEPT ![f] = step]
Return(c) == cpc' = [cpc EXCEPT ![c] = "idle"]

Raised(f) == <<job[f], event[f]>> \in raised

\* _submit: the executor runs futures in submission order, so a new future takes the
\* lowest unused number.  base is pc with any other change of the same step.
Submit(j, base) ==
    \E f \in Futures :
        /\ pc[f] = "unused"
        /\ \A g \in Futures : g < f => pc[g] # "unused"
        /\ pc' = [base EXCEPT ![f] = "queued"]
        /\ job' = [job EXCEPT ![f] = j]
        /\ submitted' = [submitted EXCEPT ![f] = events[j]]
        /\ UNCHANGED <<event, seen, failure, escapes>>

-----------------------------------------------------------------------------
\* Request threads

\* create: the row is inserted first, the event registered and the run submitted after.
Create(c, j) ==
    /\ cpc[c] = "idle" /\ status[j] = "absent"
    /\ Publish(j, "queued", "queued")
    /\ cpc' = [cpc EXCEPT ![c] = "register"]
    /\ cjob' = [cjob EXCEPT ![c] = j]
    /\ UNCHANGED <<resume, memory, runs, sawStatus, sawStage, bounds, commits>>

CreateRegister(c) ==
    /\ cpc[c] = "register" /\ Unlocked
    /\ NewEvent(cjob[c])
    /\ cpc' = [cpc EXCEPT ![c] = "submit"]
    /\ UNCHANGED <<ledger, raised, critical, attempts, reporter, runs, cjob, sawStatus, sawStage,
                   bounds, commits>>

\* The last step of create and of retry.
CallSubmit(c) ==
    /\ cpc[c] = "submit" /\ Unlocked
    /\ Submit(cjob[c], pc)
    /\ Return(c)
    /\ UNCHANGED <<ledger, memory, cjob, sawStatus, sawStage, bounds, commits>>

\* A request that reads the row and goes on; requests that the first read rejects or
\* answers at once change nothing and are left out.
Request(c, j, step) ==
    /\ cpc[c] = "idle" /\ requests < MaxRequests
    /\ cpc' = [cpc EXCEPT ![c] = step]
    /\ cjob' = [cjob EXCEPT ![c] = j]
    /\ sawStatus' = [sawStatus EXCEPT ![c] = status[j]]
    /\ sawStage' = [sawStage EXCEPT ![c] = stage[j]]
    /\ requests' = requests + 1
    /\ UNCHANGED <<ledger, memory, runs, crashes, faults, commits>>

Cancel(c, j) == status[j] \in Live /\ Request(c, j, "gate")

\* with self._lock: critical = job_id in self._critical -- the lock is released again.
CancelGate(c) ==
    /\ cpc[c] = "gate" /\ Unlocked
    /\ cpc' = [cpc EXCEPT ![c] =
                  IF sawStage[c] = "consolidating" \/ cjob[c] \in critical THEN "idle" ELSE "raise"]
    /\ UNCHANGED <<ledger, memory, runs, cjob, sawStatus, sawStage, bounds, commits>>

\* The Event is set; a job seen parsing is then left to its worker (and to cancel_parser,
\* which owns no state here).
CancelRaise(c) ==
    LET j == cjob[c] IN
    /\ cpc[c] = "raise" /\ Unlocked
    /\ SetDefault(j)
    /\ raised' = raised \cup {<<j, Current(j)>>}
    /\ cpc' = [cpc EXCEPT ![c] = IF sawStatus[c] = "queued" THEN "writeCanceled" ELSE "idle"]
    /\ UNCHANGED <<ledger, critical, attempts, reporter, runs, cjob, sawStatus, sawStage,
                   bounds, commits>>

\* A job the first read saw queued is marked canceled by the request itself.
CancelWrite(c) ==
    /\ cpc[c] = "writeCanceled"
    /\ Publish(cjob[c], "canceled", "canceled")
    /\ Return(c)
    /\ UNCHANGED <<resume, memory, runs, cjob, sawStatus, sawStage, bounds, commits>>

Retry(c, j) == status[j] \in Retryable /\ Request(c, j, "renew")

\* Mutant of RetryRenew: a retry replaces the event of a run that is still unwinding.
RetryRenewAnyway(c) ==
    /\ cpc[c] = "renew" /\ Unlocked
    /\ NewEvent(cjob[c])
    /\ attempts' = [attempts EXCEPT ![cjob[c]] = 0]
    /\ cpc' = [cpc EXCEPT ![c] = "writeQueued"]
    /\ UNCHANGED <<ledger, raised, critical, reporter, runs, cjob, sawStatus, sawStage,
                   bounds, commits>>

\* A registered event means an earlier run is still unwinding: the retry is refused.
RetryRenew(c) ==
    LET j == cjob[c] IN
    /\ cpc[c] = "renew" /\ Unlocked
    /\ IF events[j] # 0
       THEN Return(c) /\ UNCHANGED <<events, made, attempts>>
       ELSE /\ NewEvent(j)
            /\ attempts' = [attempts EXCEPT ![j] = 0]
            /\ cpc' = [cpc EXCEPT ![c] = "writeQueued"]
    /\ UNCHANGED <<ledger, raised, critical, reporter, runs, cjob, sawStatus, sawStage,
                   bounds, commits>>

RetryWrite(c) ==
    /\ cpc[c] = "writeQueued"
    /\ Publish(cjob[c], "queued", "queued")
    /\ cpc' = [cpc EXCEPT ![c] = "submit"]
    /\ UNCHANGED <<resume, memory, runs, cjob, sawStatus, sawStage, bounds, commits>>

\* A request whose ledger write raises answers with an error; its memory writes stay.
RequestFault(c) ==
    /\ cpc[c] \in {"writeQueued", "writeCanceled"} /\ faults < MaxFaults
    /\ faults' = faults + 1
    /\ Return(c)
    /\ UNCHANGED <<ledger, memory, runs, cjob, sawStatus, sawStage, requests, crashes, commits>>

-----------------------------------------------------------------------------
\* Pool threads: _run and the pipeline

OnPool(f) == pc[f] \in Run \cup {"observe", "report"}

\* A free pool thread takes the oldest future and its job's event, creating it if absent.
Start(f) ==
    /\ pc[f] = "queued"
    /\ \A g \in Futures : g < f => pc[g] # "queued"
    /\ Cardinality({g \in Futures : OnPool(g)}) < PoolSize
    /\ event' = [event EXCEPT ![f] = Current(job[f])]
    /\ SetDefault(job[f])
    /\ Goto(f, "read")
    /\ UNCHANGED <<ledger, raised, critical, attempts, reporter, job, submitted, seen, failure,
                   escapes, calls, bounds, commits>>

\* The row is read once: a job no longer queued is left alone.
Read(f) ==
    /\ pc[f] = "read"
    /\ seen' = [seen EXCEPT ![f] = resume[job[f]]]
    /\ Goto(f, IF status[job[f]] = "queued" THEN "mark" ELSE "cleanup")
    /\ UNCHANGED <<ledger, memory, job, submitted, event, failure, escapes, calls, bounds, commits>>

\* Mutant of Mark: what an earlier run left on record is not looked at.
MarkAfresh(f) ==
    /\ pc[f] = "mark"
    /\ Publish(job[f], "parsing", "starting_engine")
    /\ Goto(f, "engine")
    /\ UNCHANGED <<resume, memory, job, submitted, event, seen, failure, escapes, calls, bounds,
                   commits>>

\* Facts already committed, or a mapping already reviewed, are not produced again.
Mark(f) ==
    /\ pc[f] = "mark"
    /\ Publish(job[f], "parsing", "starting_engine")
    /\ Goto(f, IF ~seen[f] THEN "engine" ELSE IF FactsTree THEN "reading" ELSE "project")
    /\ UNCHANGED <<resume, memory, job, submitted, event, seen, failure, escapes, calls, bounds,
                   commits>>

\* The pipeline up to the facts: engine setup, parsing, review and, with the facts tree
\* on, the checkpointed reading that replaces everything below.
Advance(f) ==
    /\ \/ pc[f] = "engine" /\ Goto(f, "parsing") /\ SetStage(job[f], "parsing") /\ UNCHANGED resume
       \/ pc[f] = "parsing" /\ Goto(f, "reviewing") /\ SetStage(job[f], "reviewing")
          /\ UNCHANGED resume
       \/ /\ pc[f] = "reviewing" /\ FactsTree
          /\ Goto(f, "reading") /\ SetStage(job[f], "reading")
          /\ resume' = [resume EXCEPT ![job[f]] = TRUE]
       \/ pc[f] = "reviewing" /\ ~FactsTree /\ Goto(f, "enter") /\ UNCHANGED ledger
       \/ pc[f] = "reading" /\ Goto(f, "finish") /\ SetStage(job[f], "reading")
          /\ UNCHANGED resume
    /\ UNCHANGED <<memory, job, submitted, event, seen, failure, escapes, calls, bounds, commits>>

\* check_cancel, or any other exception of the pipeline; its last handler turns what was
\* raised into a cancellation when the event is set by then.
Fail(f) ==
    /\ \E kind \in Failures \ {"none"} :
          /\ \/ pc[f] \in Body /\ kind = "canceled" /\ Raised(f)
             \/ pc[f] = "parsing" /\ kind = "runtime"
             \/ pc[f] \in Body \cup {"commit", "project"} /\ kind = "engine"
             \/ pc[f] = "reviewing" /\ kind = "document_quality"
             \/ pc[f] = "reading" /\ kind = "mapped_partial"
             \/ pc[f] = "project" /\ kind = "canceled" /\ seen[f] /\ Raised(f)
          /\ failure' = [failure EXCEPT ![f] = IF Raised(f) THEN "canceled" ELSE kind]
    /\ Goto(f, "failing")
    /\ UNCHANGED <<ledger, memory, job, submitted, event, seen, escapes, calls, bounds, commits>>

\* _progress(critical=True): checked and entered under one hold of the lock.
Enter(f) ==
    LET j == job[f] IN
    /\ pc[f] = "enter" /\ Unlocked
    /\ SetDefault(j)
    /\ IF <<j, Current(j)>> \in raised
       THEN /\ Goto(f, "failing")
            /\ failure' = [failure EXCEPT ![f] = "canceled"]
            /\ UNCHANGED critical
       ELSE /\ Goto(f, "stage")
            /\ critical' = critical \cup {j}
            /\ UNCHANGED failure
    /\ UNCHANGED <<ledger, raised, attempts, reporter, job, submitted, event, seen, escapes,
                   calls, bounds, commits>>

ShowConsolidating(f) ==
    /\ pc[f] = "stage"
    /\ SetStage(job[f], "consolidating")
    /\ Goto(f, "commit")
    /\ UNCHANGED <<resume, memory, job, submitted, event, seen, failure, escapes, calls, bounds,
                   commits>>

\* Mutant of Commit: l2_committed is not part of the facts' transaction.
CommitApart(f) ==
    /\ pc[f] = "commit"
    /\ commits' = [commits EXCEPT ![job[f]] = @ + 1]
    /\ Goto(f, "uncrit")
    /\ UNCHANGED <<ledger, memory, job, submitted, event, seen, failure, escapes, calls, bounds>>

\* L2CompleteFactService.commit: the facts and l2_committed in one transaction.
Commit(f) ==
    /\ pc[f] = "commit"
    /\ commits' = [commits EXCEPT ![job[f]] = @ + 1]
    /\ resume' = [resume EXCEPT ![job[f]] = TRUE]
    /\ Goto(f, "uncrit")
    /\ UNCHANGED <<status, stage, memory, job, submitted, event, seen, failure, escapes, calls,
                   bounds>>

\* _progress(critical_end=True), which writes the stage again.
LeaveCritical(f) ==
    /\ pc[f] = "uncrit" /\ Unlocked
    /\ critical' = critical \ {job[f]}
    /\ SetStage(job[f], "consolidating")
    /\ Goto(f, "project")
    /\ UNCHANGED <<resume, events, made, raised, attempts, reporter, job, submitted, event, seen,
                   failure, escapes, calls, bounds, commits>>

\* Classification, projections and the guide queue: no state of the queue.
Project(f) ==
    /\ pc[f] = "project"
    /\ Goto(f, "finish")
    /\ UNCHANGED <<ledger, memory, job, submitted, event, seen, failure, escapes, calls, bounds,
                   commits>>

\* The worker returned: canceled = event.is_set(), read under the lock, written after it.
Finish(f) ==
    /\ pc[f] = "finish" /\ Unlocked
    /\ Goto(f, IF Raised(f) THEN "tryCanceled" ELSE "tryDone")
    /\ UNCHANGED <<ledger, memory, job, submitted, event, seen, failure, escapes, calls, bounds,
                   commits>>

\* The exception handlers of _run choose the outcome before they write it.
Handle(f) ==
    /\ pc[f] = "failing"
    /\ escapes' = [escapes EXCEPT ![f] = ~(Raised(f) /\ failure[f] = "runtime")]
    /\ \/ Raised(f) /\ Goto(f, "handleCanceled") /\ UNCHANGED attempts
       \/ ~Raised(f) /\ failure[f] # "runtime" /\ Goto(f, "handleTerminal") /\ UNCHANGED attempts
       \/ /\ ~Raised(f) /\ failure[f] = "runtime" /\ Unlocked
          /\ attempts' = [attempts EXCEPT ![job[f]] = @ + 1]
          /\ Goto(f, IF attempts[job[f]] + 1 > MaxAttempts THEN "handleTerminal" ELSE "requeue")
    /\ UNCHANGED <<ledger, events, made, raised, critical, reporter, job, submitted, event, seen,
                   failure, calls, bounds, commits>>

\* The status a failed run ends in.
Outcome(kind) ==
    CASE kind = "mapped_partial"   -> "partial"
      [] kind = "document_quality" -> "needs_human"
      [] OTHER                     -> "failed"

\* The terminal write of a run, whichever branch reached it.
WriteOutcome(f) ==
    /\ \/ pc[f] = "tryDone" /\ Publish(job[f], "done", "done")
       \/ pc[f] \in {"tryCanceled", "handleCanceled"} /\ Publish(job[f], "canceled", "canceled")
       \/ pc[f] = "handleTerminal"
          /\ Publish(job[f], Outcome(failure[f]), Outcome(failure[f]))
    /\ Goto(f, "cleanup")
    /\ UNCHANGED <<resume, memory, job, submitted, event, seen, failure, escapes, calls, bounds,
                   commits>>

\* Mutant of Requeue: the finally clause pops the event of a run that was rescheduled.
RequeueDropsEvent(f) ==
    /\ pc[f] = "requeue" /\ Unlocked
    /\ Publish(job[f], "queued", "starting_engine")
    /\ events' = [events EXCEPT ![job[f]] = 0]
    /\ Goto(f, "timer")
    /\ escapes' = [escapes EXCEPT ![f] = FALSE]
    /\ UNCHANGED <<resume, made, raised, critical, attempts, reporter, job, submitted, event,
                   seen, failure, calls, bounds, commits>>

\* The runtime was not ready: back to queued, with a timer that keeps the event.
Requeue(f) ==
    /\ pc[f] = "requeue" /\ Unlocked
    /\ Publish(job[f], "queued", "starting_engine")
    /\ Goto(f, "timer")
    /\ escapes' = [escapes EXCEPT ![f] = FALSE]
    /\ UNCHANGED <<resume, memory, job, submitted, event, seen, failure, calls, bounds, commits>>

\* The finally clause.
Cleanup(f) ==
    LET j == job[f] IN
    /\ pc[f] = "cleanup" /\ Unlocked
    /\ events' = [events EXCEPT ![j] = IF @ = event[f] THEN 0 ELSE @]
    /\ critical' = critical \ {j}
    /\ attempts' = [attempts EXCEPT ![j] = 0]
    /\ Goto(f, IF escapes[f] THEN "observe" ELSE "over")
    /\ UNCHANGED <<ledger, made, raised, reporter, job, submitted, event, seen, failure, escapes,
                   calls, bounds, commits>>

\* A ledger access of _run raises: inside the try it is handled like any failure of the
\* worker, inside a handler it escapes.
RunFault(f) ==
    /\ faults < MaxFaults
    /\ faults' = faults + 1
    /\ critical' = IF pc[f] = "uncrit" THEN critical \ {job[f]} ELSE critical
    /\ \/ /\ pc[f] \in {"read", "mark", "stage", "uncrit", "tryDone", "tryCanceled"}
          /\ Goto(f, "failing")
          /\ failure' = [failure EXCEPT ![f] = "engine"]
          /\ UNCHANGED escapes
       \/ /\ pc[f] \in {"handleCanceled", "handleTerminal", "requeue"}
          /\ Goto(f, "cleanup")
          /\ escapes' = [escapes EXCEPT ![f] = TRUE]
          /\ UNCHANGED failure
    /\ UNCHANGED <<ledger, events, made, raised, attempts, reporter, job, submitted, event, seen,
                   calls, requests, crashes, commits>>

-----------------------------------------------------------------------------
\* Done-callbacks, timers and restarts

\* _observe_failure: under the lock, unless a newer generation owns the job, the row is
\* read, and written if it is still live.
Observe(f) ==
    LET j == job[f] IN
    /\ pc[f] = "observe" /\ Unlocked
    /\ IF (events[j] # 0 /\ events[j] # submitted[f]) \/ status[j] \notin Live
       THEN Goto(f, "over") /\ UNCHANGED reporter
       ELSE Goto(f, "report") /\ reporter' = f
    /\ UNCHANGED <<ledger, events, made, raised, critical, attempts, job, submitted, event, seen,
                   failure, escapes, calls, bounds, commits>>

Report(f) ==
    /\ pc[f] = "report"
    /\ Publish(job[f], "failed", "failed")
    /\ Goto(f, "over")
    /\ reporter' = 0
    /\ UNCHANGED <<resume, events, made, raised, critical, attempts, job, submitted, event, seen,
                   failure, escapes, calls, bounds, commits>>

\* _submit_retry: a timer whose event was replaced or set only tidies up.
Fire(f) ==
    LET j == job[f] IN
    /\ pc[f] = "timer" /\ Unlocked
    /\ IF events[j] = event[f] /\ ~Raised(f)
       THEN Goto(f, "resubmit") /\ UNCHANGED events
       ELSE /\ Goto(f, "over")
            /\ events' = [events EXCEPT ![j] = IF @ = event[f] THEN 0 ELSE @]
    /\ UNCHANGED <<ledger, made, raised, critical, attempts, reporter, job, submitted, event, seen,
                   failure, escapes, calls, bounds, commits>>

Resubmit(f) ==
    /\ pc[f] = "resubmit" /\ Unlocked
    /\ Submit(job[f], [pc EXCEPT ![f] = "over"])
    /\ UNCHANGED <<ledger, memory, calls, bounds, commits>>

\* The process dies and is started again: __init__ fails every interrupted job.
Restart ==
    /\ crashes < MaxCrashes
    /\ crashes' = crashes + 1
    /\ status' = [j \in Jobs |-> IF status[j] \in Live THEN "failed" ELSE status[j]]
    /\ stage' = [j \in Jobs |-> IF status[j] \in Live THEN "failed" ELSE stage[j]]
    /\ events' = [j \in Jobs |-> 0]
    /\ raised' = {} /\ critical' = {}
    /\ attempts' = [j \in Jobs |-> 0]
    /\ reporter' = 0
    /\ pc' = [f \in Futures |-> IF pc[f] = "unused" THEN "unused" ELSE "over"]
    /\ cpc' = [c \in Clients |-> "idle"]
    /\ UNCHANGED <<resume, made, job, submitted, event, seen, failure, escapes, cjob, sawStatus,
                   sawStage, requests, faults, commits>>

-----------------------------------------------------------------------------
RunStep(f) ==
    \/ Start(f) \/ Read(f) \/ Mark(f) \/ Advance(f) \/ Fail(f) \/ Enter(f)
    \/ ShowConsolidating(f) \/ Commit(f) \/ LeaveCritical(f) \/ Project(f) \/ Finish(f)
    \/ Handle(f) \/ WriteOutcome(f) \/ Requeue(f) \/ Cleanup(f)
    \/ Observe(f) \/ Report(f) \/ Fire(f) \/ Resubmit(f)

CallStep(c) ==
    \/ CreateRegister(c) \/ CallSubmit(c) \/ CancelGate(c) \/ CancelRaise(c) \/ CancelWrite(c)
    \/ RetryRenew(c) \/ RetryWrite(c)

Next ==
    \/ \E c \in Clients, j \in Jobs : Create(c, j) \/ Cancel(c, j) \/ Retry(c, j)
    \/ \E c \in Clients : CallStep(c) \/ RequestFault(c)
    \/ \E f \in Futures : RunStep(f) \/ RunFault(f)
    \/ Restart

Spec == Init /\ [][Next]_vars

\* A thread that can take a step does: nothing in the manager waits for a user.  What a
\* user asks for, a fault and a restart are never owed.
Fairness ==
    /\ \A f \in Futures : WF_vars(RunStep(f))
    /\ \A c \in Clients : WF_vars(CallStep(c))

FairSpec == Spec /\ Fairness

-----------------------------------------------------------------------------
LedgerType ==
    /\ status \in [Jobs -> {"absent"} \cup Live \cup Terminal]
    /\ stage \in [Jobs -> Stages]
    /\ resume \in [Jobs -> BOOLEAN]

EventsType ==
    /\ events \in [Jobs -> Nat] /\ made \in [Jobs -> Nat]
    /\ \A j \in Jobs : events[j] <= made[j]

MemoryType ==
    /\ EventsType
    /\ raised \subseteq Jobs \X Nat
    /\ critical \subseteq Jobs
    /\ attempts \in [Jobs -> Nat]
    /\ reporter \in Futures \cup {0}

RunsType ==
    /\ pc \in [Futures -> Steps]
    /\ job \in [Futures -> Jobs \cup {NoJob}]
    /\ \A f \in Futures : pc[f] # "unused" => job[f] \in Jobs
    /\ submitted \in [Futures -> Nat] /\ event \in [Futures -> Nat]
    /\ seen \in [Futures -> BOOLEAN] /\ escapes \in [Futures -> BOOLEAN]
    /\ failure \in [Futures -> Failures]

CallsType ==
    /\ cpc \in [Clients -> CallSteps]
    /\ cjob \in [Clients -> Jobs \cup {NoJob}]
    /\ \A c \in Clients : cpc[c] # "idle" => cjob[c] \in Jobs
    /\ sawStatus \in [Clients -> {"absent"} \cup Live \cup Terminal]
    /\ sawStage \in [Clients -> Stages]

\* Every variable has its type; a future or request at work has a job.
TypeOK ==
    /\ LedgerType /\ MemoryType /\ RunsType /\ CallsType
    /\ requests \in Nat /\ crashes \in Nat /\ faults \in Nat
    /\ commits \in [Jobs -> Nat]

\* Who will run, or is running, job j: a future, or a request about to submit one.
Owners(j) ==
    {<<"run", f>> : f \in {g \in Futures : pc[g] \in Owning /\ job[g] = j}} \cup
    {<<"request", c>> : c \in {d \in Clients : cpc[d] \in {"submit", "writeQueued"} /\ cjob[d] = j}}

\* However creates, cancels, retries, timers and crashes interleave, a job has at most one
\* run: no two pool threads hold it, and no pending timer or accepted retry would start a
\* second one.
OneRunPerJob == \A j \in Jobs : \A x, y \in Owners(j) : x = y

\* The event a run polls is the one cancel() would set: a cancellation accepted while the
\* job runs cannot be addressed to an event nobody looks at.
CancelReachesRun ==
    \A f \in Futures : pc[f] \in Run \cup {"timer", "resubmit"} => events[job[f]] = event[f]

\* "A process stop after commit must not replay parsing/extraction": whatever crashes and
\* retries happen, the facts of a job are committed at most once.
CommittedOnce == \A j \in Jobs : commits[j] <= 1

\* A job is in the critical section only while its one run is between entering it and
\* leaving it; no failure, fault or restart leaves cancel() refusing forever.
CriticalIsHeld ==
    \A j \in critical :
        \E f \in Futures :
            /\ job[f] = j
            /\ pc[f] \in {"stage", "commit", "uncrit", "failing", "handleTerminal",
                          "handleCanceled", "cleanup"}

\* Parsing and review are not replayed once their result is on record: a run that starts
\* the engine belongs to a job without committed facts and without a saved mapping.
NoReplay ==
    [][\A f \in Futures : pc[f] # "engine" /\ pc'[f] = "engine" => ~resume'[job[f]]]_vars

\* A job reported done has its facts (or its reviewed mapping) on record.
DoneIsCommitted == \A j \in Jobs : status[j] = "done" => resume[j]

\* A job is never left live by a run that ended, unless it was canceled on the way.
LiveJobsEnd ==
    \A j \in Jobs : status[j] \in Live ~>
        (status[j] \in Terminal \/ \E e \in 1 .. made[j] : <<j, e>> \in raised)
-----------------------------------------------------------------------------
\* What the repository says of the queue and its interleavings do not keep.

\* "Once this short local SQLite write starts, cancellation is rejected by the API"
\* (_parse_job_pipeline): no cancel sets the event of a job in the critical section.
CancelRejectedInCommit ==
    [][\A j \in critical : <<j, events[j]>> \in raised' => <<j, events[j]>> \in raised]_vars
=============================================================================
