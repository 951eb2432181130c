----------------------------- MODULE GuideJobs -----------------------------
(***************************************************************************)
(* Single-flight generation of import guides: GuideJobCoordinator          *)
(* (app/guidance/jobs.py) as webapp/app.py uses it.                        *)
(*                                                                         *)
(* A parse job commits its facts and then queues the guide of its company; *)
(* a page visit asks for a guide without new facts.  A GuideJob is one     *)
(* future of a pool of two threads.  Its worker takes a snapshot of the    *)
(* company's facts, writes the guide from it, and starts over when the     *)
(* job was marked dirty meanwhile.  Each action is one hold of the         *)
(* coordinator's lock, one step of the worker, or the executor's own       *)
(* completion of a future, which no lock covers.                           *)
(***************************************************************************)
EXTENDS Naturals, FiniteSets

CONSTANTS Companies,    \* one guide key each
          MaxJobs,      \* bound: GuideJobs started
          MaxUploads,   \* bound: documents whose facts are committed, over all companies
          PoolSize      \* threads of _GUIDE_EXECUTOR

ASSUME GuideJobsAssumption ==
    MaxJobs \in Nat /\ MaxUploads \in Nat /\ PoolSize \in Nat \ {0}

GuideJob == 1 .. MaxJobs

VARIABLES
    facts,      \* how many documents of the company are committed
    toQueue,    \* commits whose parse thread has yet to call queue()
    current,    \* _jobs: the last job of the company, 0 when there is none
    key,        \* the company of a job, in a set of at most one
    revision,   \* GuideJob.revision
    future,     \* the job's Future
    threadAt,   \* where its pool thread is in _run_until_current
    seen,       \* the revision that thread read at the top of its loop
    snapshot,   \* how many documents its last worker() call saw
    marked      \* the committed documents when the job was last started or marked dirty

guideVars == <<facts, toQueue, current, key, revision, future, threadAt, seen, snapshot, marked>>

FutureStates == {"none", "pending", "running", "ready", "failed"}
RunSteps == {"idle", "top", "worker", "written", "failing", "return", "raise"}

GuideInit ==
    /\ facts = [k \in Companies |-> 0]
    /\ toQueue = [k \in Companies |-> 0]
    /\ current = [k \in Companies |-> 0]
    /\ key = [i \in GuideJob |-> {}]
    /\ revision = [i \in GuideJob |-> 0]
    /\ future = [i \in GuideJob |-> "none"]
    /\ threadAt = [i \in GuideJob |-> "idle"]
    /\ seen = [i \in GuideJob |-> 0]
    /\ snapshot = [i \in GuideJob |-> 0]
    /\ marked = [i \in GuideJob |-> 0]

InFlight(i) == future[i] \in {"pending", "running"}
Uploads == Cardinality({u \in Companies \X (1 .. MaxUploads) : u[2] <= facts[u[1]]})

\* _start_locked: a new job becomes the company's, and is submitted.
StartLocked(k) ==
    \E i \in GuideJob :
        /\ future[i] = "none" /\ \A h \in GuideJob : h < i => future[h] # "none"
        /\ current' = [current EXCEPT ![k] = i]
        /\ key' = [key EXCEPT ![i] = {k}]
        /\ revision' = [revision EXCEPT ![i] = 1]
        /\ future' = [future EXCEPT ![i] = "pending"]
        /\ marked' = [marked EXCEPT ![i] = facts[k]]
        /\ UNCHANGED <<threadAt, seen, snapshot>>

-----------------------------------------------------------------------------
\* External: a parse job's facts are committed, then its thread calls queue_import_guide.
CommitFacts(k) ==
    /\ Uploads < MaxUploads
    /\ facts' = [facts EXCEPT ![k] = @ + 1]
    /\ toQueue' = [toQueue EXCEPT ![k] = @ + 1]
    /\ UNCHANGED <<current, key, revision, future, threadAt, seen, snapshot, marked>>

\* Mutant of Queue: only a job that has a thread is marked, a pending one is replaced.
QueueUnlessRunning(k) ==
    /\ toQueue[k] > 0
    /\ toQueue' = [toQueue EXCEPT ![k] = @ - 1]
    /\ LET i == current[k] IN
       IF i # 0 /\ future[i] = "running"
       THEN /\ revision' = [revision EXCEPT ![i] = @ + 1]
            /\ marked' = [marked EXCEPT ![i] = facts[k]]
            /\ UNCHANGED <<current, key, future, threadAt, seen, snapshot>>
       ELSE StartLocked(k)
    /\ UNCHANGED facts

\* queue: an in-flight job is marked dirty, otherwise a new one starts.
Queue(k) ==
    /\ toQueue[k] > 0
    /\ toQueue' = [toQueue EXCEPT ![k] = @ - 1]
    /\ LET i == current[k] IN
       IF i # 0 /\ InFlight(i)
       THEN /\ revision' = [revision EXCEPT ![i] = @ + 1]
            /\ marked' = [marked EXCEPT ![i] = facts[k]]
            /\ UNCHANGED <<current, key, future, threadAt, seen, snapshot>>
       ELSE StartLocked(k)
    /\ UNCHANGED facts

\* get_or_start, when it starts anything: no job yet, or the last one failed.
GetOrStart(k) ==
    /\ current[k] # 0 => future[current[k]] = "failed"
    /\ StartLocked(k)
    /\ UNCHANGED <<facts, toQueue>>

\* A free pool thread takes the oldest pending job (and sleeps the debounce).
Begin(i) ==
    /\ future[i] = "pending" /\ \A h \in GuideJob : h < i => future[h] # "pending"
    /\ Cardinality({h \in GuideJob : future[h] = "running"}) < PoolSize
    /\ future' = [future EXCEPT ![i] = "running"]
    /\ threadAt' = [threadAt EXCEPT ![i] = "top"]
    /\ UNCHANGED <<facts, toQueue, current, key, revision, seen, snapshot, marked>>

\* The top of the loop of _run_until_current.
ReadRevision(i) ==
    /\ threadAt[i] = "top"
    /\ seen' = [seen EXCEPT ![i] = revision[i]]
    /\ threadAt' = [threadAt EXCEPT ![i] = "worker"]
    /\ UNCHANGED <<facts, toQueue, current, key, revision, future, snapshot, marked>>

\* worker(): the facts are read, and the model writes a guide from them or fails.
Work(i) ==
    /\ threadAt[i] = "worker"
    /\ \E k \in key[i] : snapshot' = [snapshot EXCEPT ![i] = facts[k]]
    /\ \E step \in {"written", "failing"} : threadAt' = [threadAt EXCEPT ![i] = step]
    /\ UNCHANGED <<facts, toQueue, current, key, revision, future, seen, marked>>

\* Mutant of Check: what was written is returned, dirty or not.
CheckNothing(i) ==
    /\ threadAt[i] \in {"written", "failing"}
    /\ threadAt' = [threadAt EXCEPT ![i] = IF threadAt[i] = "written" THEN "return" ELSE "raise"]
    /\ UNCHANGED <<facts, toQueue, current, key, revision, future, seen, snapshot, marked>>

\* Mutant of Check: the revision is only compared for a guide that could be written, and a
\* failure starts over.
CheckRetryFailures(i) ==
    /\ threadAt[i] \in {"written", "failing"}
    /\ threadAt' = [threadAt EXCEPT ![i] =
                 IF threadAt[i] = "failing" \/ seen[i] # revision[i] THEN "top" ELSE "return"]
    /\ UNCHANGED <<facts, toQueue, current, key, revision, future, seen, snapshot, marked>>

\* The revision is compared under the lock, for a guide and for a failure alike.
Check(i) ==
    /\ threadAt[i] \in {"written", "failing"}
    /\ threadAt' = [threadAt EXCEPT ![i] = IF seen[i] # revision[i] THEN "top"
                                           ELSE IF threadAt[i] = "written" THEN "return" ELSE "raise"]
    /\ UNCHANGED <<facts, toQueue, current, key, revision, future, seen, snapshot, marked>>

\* The executor completes the Future after _run_until_current has left the lock.
Complete(i) ==
    /\ threadAt[i] \in {"return", "raise"}
    /\ future' = [future EXCEPT ![i] = IF threadAt[i] = "return" THEN "ready" ELSE "failed"]
    /\ threadAt' = [threadAt EXCEPT ![i] = "idle"]
    /\ UNCHANGED <<facts, toQueue, current, key, revision, seen, snapshot, marked>>

-----------------------------------------------------------------------------
RunStep(i) == Begin(i) \/ ReadRevision(i) \/ Work(i) \/ Check(i) \/ Complete(i)

GuideNext ==
    \/ \E k \in Companies : CommitFacts(k) \/ Queue(k) \/ GetOrStart(k)
    \/ \E i \in GuideJob : RunStep(i)

GuideSpec == GuideInit /\ [][GuideNext]_guideVars

\* Pool threads run, and a parse thread that committed facts goes on to queue the guide.
Fairness ==
    /\ \A i \in GuideJob : WF_guideVars(RunStep(i))
    /\ \A k \in Companies : WF_guideVars(Queue(k))

FairSpec == GuideSpec /\ Fairness

-----------------------------------------------------------------------------
\* Every variable has its type; a running future has a thread, and a thread has read no
\* revision that does not exist.
GuideTypeOK ==
    /\ facts \in [Companies -> Nat] /\ toQueue \in [Companies -> Nat]
    /\ current \in [Companies -> GuideJob \cup {0}]
    /\ key \in [GuideJob -> SUBSET Companies]
    /\ revision \in [GuideJob -> Nat]
    /\ future \in [GuideJob -> FutureStates]
    /\ threadAt \in [GuideJob -> RunSteps]
    /\ \A i \in GuideJob : threadAt[i] # "idle" <=> future[i] = "running"
    /\ \A i \in GuideJob : seen[i] <= revision[i]
    /\ seen \in [GuideJob -> Nat] /\ snapshot \in [GuideJob -> Nat] /\ marked \in [GuideJob -> Nat]

\* "Deduplicate a company's guide work": a company never has two guides in the making, and
\* the one in the making is the one its next upload would mark.
SingleFlight ==
    \A i \in GuideJob : InFlight(i) => \E k \in Companies : key[i] = {k} /\ current[k] = i

\* A worker never gives out a guide older than the last upload that was queued by the time
\* it compares revisions.
CheckedIsCurrent ==
    [][\A i \in GuideJob :
          threadAt[i] = "written" /\ threadAt'[i] = "return" => snapshot[i] >= marked[i]]_guideVars

\* Uploads may keep a job going, but once they stop every guide is written or has failed:
\* no waiter of the shared Future waits forever.
JobsEnd == \A i \in GuideJob : InFlight(i) ~> future[i] \in {"ready", "failed"}

\* "the same worker reruns once with a fresh evidence snapshot before completing its shared
\* Future": a completed guide covers every upload queued while the Future was not done.
CompletedIsCurrent == \A i \in GuideJob : future[i] = "ready" => snapshot[i] >= marked[i]
=============================================================================
