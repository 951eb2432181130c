-------------------------- MODULE ParseJobsProofs --------------------------
\* What ParseJobs guarantees for every number of jobs, requests, threads, retries,
\* crashes and faults.
EXTENDS ParseJobs, TLAPS

USE ParseJobsAssumption DEF Futures

-----------------------------------------------------------------------------
\* What registering, defaulting and popping an event do to the registry.

\* Registering a new event gives the job one and leaves the others theirs.
LEMMA NewEventType ==
    ASSUME EventsType, NEW j \in Jobs, NewEvent(j)
    PROVE  EventsType' /\ events'[j] # 0 /\ \A k \in Jobs \ {j} : events'[k] = events[k]
BY DEF EventsType, NewEvent

\* setdefault registers the event it returns, and replaces none.
LEMMA SetDefaultType ==
    ASSUME EventsType, NEW j \in Jobs, SetDefault(j)
    PROVE  /\ EventsType'
           /\ events'[j] = Current(j) /\ Current(j) \in Nat \ {0}
           /\ \A k \in Jobs \ {j} : events'[k] = events[k]
           /\ events[j] # 0 => events' = events
BY NewEventType DEF EventsType, SetDefault, NewEvent, Current

\* Popping an event keeps the registry well formed.
LEMMA PopType ==
    ASSUME EventsType, NEW j \in Jobs, NEW e, made' = made,
           events' = [events EXCEPT ![j] = IF @ = e THEN 0 ELSE @]
    PROVE  EventsType'
BY DEF EventsType

\* An action that leaves the registry alone keeps it well formed.
LEMMA EventsUnchanged ==
    ASSUME EventsType, events' = events, made' = made PROVE EventsType'
BY DEF EventsType

\* A submitted future is queued for the job it is given.
LEMMA SubmitType ==
    ASSUME RunsType, EventsType, NEW j \in Jobs, NEW base \in [Futures -> Steps], Submit(j, base),
           \A f \in Futures : pc[f] = "unused" => base[f] = "unused",
           \A f \in Futures : base[f] = "unused" => pc[f] = "unused"
    PROVE  RunsType'
<1>1. PICK g \in Futures :
        /\ pc' = [base EXCEPT ![g] = "queued"]
        /\ job' = [job EXCEPT ![g] = j]
        /\ submitted' = [submitted EXCEPT ![g] = events[j]]
        /\ UNCHANGED <<event, seen, failure, escapes>>
  BY DEF Submit
<1>2. pc' \in [Futures -> Steps]
  BY <1>1 DEF Steps, Owning
<1>3. submitted' \in [Futures -> Nat]
  BY <1>1 DEF RunsType, EventsType
<1> QED
  BY <1>1, <1>2, <1>3 DEF RunsType

-----------------------------------------------------------------------------
\* Type correctness

\* Every variable starts with its type.
LEMMA TypeInit == Init => TypeOK
BY DEF Init, TypeOK, LedgerType, EventsType, MemoryType, RunsType, CallsType,
       Live, Terminal, Stages, Failures, Steps, Owning, Run, Body, CallSteps

\* Every action of requests, runs, timers and restarts keeps the types.
LEMMA TypeNext == TypeOK /\ [Next]_vars => TypeOK'
<1> SUFFICES ASSUME TypeOK, [Next]_vars PROVE TypeOK'
  OBVIOUS
<1> USE EventsUnchanged
<1> USE DEF TypeOK, ledger, memory, runs, calls, bounds, Publish, SetStage, Goto, Return,
            LedgerType, MemoryType, RunsType, CallsType, Live, Terminal, Stages, Failures,
            Steps, Owning, Run, Body, CallSteps
<1>1. ASSUME NEW c \in Clients, NEW j \in Jobs, Create(c, j) PROVE TypeOK'
  BY <1>1 DEF Create
<1>2. ASSUME NEW c \in Clients, NEW j \in Jobs, Cancel(c, j) PROVE TypeOK'
  BY <1>2 DEF Cancel, Request
<1>3. ASSUME NEW c \in Clients, NEW j \in Jobs, Retry(c, j) PROVE TypeOK'
  BY <1>3 DEF Retry, Request
<1>4. ASSUME NEW c \in Clients, CreateRegister(c) PROVE TypeOK'
  BY <1>4, NewEventType DEF CreateRegister
<1>5. ASSUME NEW c \in Clients, CallSubmit(c) PROVE TypeOK'
  <2>1. RunsType'
    BY <1>5, SubmitType DEF CallSubmit
  <2> QED
    BY <1>5, <2>1 DEF CallSubmit
<1>6. ASSUME NEW c \in Clients, CancelGate(c) PROVE TypeOK'
  BY <1>6 DEF CancelGate
<1>7. ASSUME NEW c \in Clients, CancelRaise(c) PROVE TypeOK'
  BY <1>7, SetDefaultType DEF CancelRaise
<1>8. ASSUME NEW c \in Clients, CancelWrite(c) PROVE TypeOK'
  BY <1>8 DEF CancelWrite
<1>9. ASSUME NEW c \in Clients, RetryRenew(c) PROVE TypeOK'
  <2>1. CASE events[cjob[c]] # 0
    BY <1>9, <2>1 DEF RetryRenew
  <2>2. CASE events[cjob[c]] = 0
    <3>1. EventsType'
      BY <1>9, <2>2, NewEventType DEF RetryRenew
    <3>2. /\ attempts' = [attempts EXCEPT ![cjob[c]] = 0]
          /\ cpc' = [cpc EXCEPT ![c] = "writeQueued"]
      BY <1>9, <2>2 DEF RetryRenew
    <3> QED
      BY <1>9, <2>2, <3>1, <3>2 DEF RetryRenew
  <2> QED
    BY <2>1, <2>2
<1>10. ASSUME NEW c \in Clients, RetryWrite(c) PROVE TypeOK'
  BY <1>10 DEF RetryWrite
<1>11. ASSUME NEW c \in Clients, RequestFault(c) PROVE TypeOK'
  BY <1>11 DEF RequestFault
<1>12. ASSUME NEW f \in Futures, Start(f) PROVE TypeOK'
  BY <1>12, SetDefaultType DEF Start
<1>13. ASSUME NEW f \in Futures, Read(f) PROVE TypeOK'
  BY <1>13 DEF Read
<1>14. ASSUME NEW f \in Futures, Mark(f) PROVE TypeOK'
  BY <1>14 DEF Mark
<1>15. ASSUME NEW f \in Futures, Advance(f) PROVE TypeOK'
  <2>1. pc[f] # "unused" /\ \E w \in {"parsing", "reviewing", "reading", "enter", "finish"} : pc' = [pc EXCEPT ![f] = w]
    BY <1>15 DEF Advance
  <2>2. /\ UNCHANGED stage \/ \E g \in {"parsing", "reviewing", "reading"} : stage' = [stage EXCEPT ![job[f]] = g]
        /\ UNCHANGED resume \/ resume' = [resume EXCEPT ![job[f]] = TRUE]
    BY <1>15 DEF Advance
  <2>3. UNCHANGED <<status, memory, job, submitted, event, seen, failure, escapes, calls, bounds, commits>>
    BY <1>15 DEF Advance
  <2>4. RunsType'
    BY <2>1, <2>3
  <2>5. LedgerType'
    <3>1. stage' \in [Jobs -> Stages]
      <4>1. stage \in [Jobs -> Stages] /\ {"parsing", "reviewing", "reading"} \subseteq Stages
        OBVIOUS
      <4>2. QED
        BY ONLY <2>2, <4>1
    <3>2. resume' \in [Jobs -> BOOLEAN]
      <4>1. resume \in [Jobs -> BOOLEAN]
        OBVIOUS
      <4>2. QED
        BY ONLY <2>2, <4>1
    <3>3. QED
      BY <2>3, <3>1, <3>2
  <2>6. MemoryType' /\ CallsType'
    BY <2>3
  <2> QED
    BY <2>3, <2>4, <2>5, <2>6
<1>16. ASSUME NEW f \in Futures, Fail(f) PROVE TypeOK'
  BY <1>16 DEF Fail
<1>17. ASSUME NEW f \in Futures, Enter(f) PROVE TypeOK'
  <2>1. EventsType' /\ critical' \subseteq Jobs
    BY <1>17, SetDefaultType DEF Enter
  <2>2. CASE <<job[f], Current(job[f])>> \in raised
    BY <1>17, <2>1, <2>2 DEF Enter
  <2>3. CASE <<job[f], Current(job[f])>> \notin raised
    BY <1>17, <2>1, <2>3 DEF Enter
  <2> QED
    BY <2>2, <2>3
<1>18. ASSUME NEW f \in Futures, ShowConsolidating(f) PROVE TypeOK'
  BY <1>18 DEF ShowConsolidating
<1>19. ASSUME NEW f \in Futures, Commit(f) PROVE TypeOK'
  <2>1. commits' \in [Jobs -> Nat]
    BY <1>19 DEF Commit
  <2> QED
    BY <1>19, <2>1 DEF Commit
<1>20. ASSUME NEW f \in Futures, LeaveCritical(f) PROVE TypeOK'
  BY <1>20 DEF LeaveCritical
<1>21. ASSUME NEW f \in Futures, Project(f) PROVE TypeOK'
  BY <1>21 DEF Project
<1>22. ASSUME NEW f \in Futures, Finish(f) PROVE TypeOK'
  BY <1>22 DEF Finish
<1>23. ASSUME NEW f \in Futures, Handle(f) PROVE TypeOK'
  <2>1. PICK s \in {"handleCanceled", "handleTerminal", "requeue"} :
            pc' = [pc EXCEPT ![f] = s]
    BY <1>23 DEF Handle
  <2>2. RunsType'
    BY <1>23, <2>1 DEF Handle, Raised
  <2>3. attempts' = attempts \/ attempts' = [attempts EXCEPT ![job[f]] = attempts[job[f]] + 1]
    BY <1>23 DEF Handle
  <2>4. attempts[job[f]] + 1 \in Nat
    <3>1. job[f] \in Jobs
      BY <1>23 DEF Handle
    <3> QED
      BY <3>1
  <2>5. attempts' \in [Jobs -> Nat]
    BY <2>3, <2>4
  <2> QED
    BY <1>23, <2>2, <2>5 DEF Handle
<1>24. ASSUME NEW f \in Futures, WriteOutcome(f) PROVE TypeOK'
  <2>1. Outcome(failure[f]) \in Terminal
    BY DEF Outcome
  <2>2. PICK s \in Terminal : /\ status' = [status EXCEPT ![job[f]] = s]
                             /\ stage' = [stage EXCEPT ![job[f]] = s]
    BY <1>24, <2>1 DEF WriteOutcome
  <2>3. LedgerType'
    BY <1>24, <2>2 DEF WriteOutcome
  <2> QED
    BY <1>24, <2>3 DEF WriteOutcome
<1>25. ASSUME NEW f \in Futures, Requeue(f) PROVE TypeOK'
  BY <1>25 DEF Requeue
<1>26. ASSUME NEW f \in Futures, Cleanup(f) PROVE TypeOK'
  BY <1>26, PopType DEF Cleanup
<1>27. ASSUME NEW f \in Futures, Observe(f) PROVE TypeOK'
  <2>1. PICK s \in {"over", "report"} : pc' = [pc EXCEPT ![f] = s]
    BY <1>27 DEF Observe
  <2>2. reporter' \in Futures \cup {0}
    BY <1>27 DEF Observe
  <2> QED
    BY <1>27, <2>1, <2>2 DEF Observe
<1>28. ASSUME NEW f \in Futures, Report(f) PROVE TypeOK'
  BY <1>28 DEF Report
<1>29. ASSUME NEW f \in Futures, Fire(f) PROVE TypeOK'
  <2>1. pc[f] = "timer" /\ \E w \in {"resubmit", "over"} : pc' = [pc EXCEPT ![f] = w]
    BY <1>29 DEF Fire
  <2>2. UNCHANGED <<ledger, made, raised, critical, attempts, reporter, job, submitted, event, seen, failure, escapes, calls, bounds, commits>>
    BY <1>29 DEF Fire
  <2>3. EventsType'
    BY <1>29, <2>2, PopType DEF Fire
  <2>4. RunsType'
    BY <2>1, <2>2
  <2>5. LedgerType' /\ MemoryType' /\ CallsType'
    BY <2>2, <2>3
  <2> QED
    BY <2>2, <2>4, <2>5
<1>30. ASSUME NEW f \in Futures, Resubmit(f) PROVE TypeOK'
  <2>1. RunsType'
    <3>1. Submit(job[f], [pc EXCEPT ![f] = "over"]) /\ pc[f] = "resubmit" /\ job[f] \in Jobs
      BY <1>30 DEF Resubmit
    <3> DEFINE base == [pc EXCEPT ![f] = "over"]
    <3>2. base \in [Futures -> Steps] /\ \A g \in Futures : pc[g] = "unused" <=> base[g] = "unused"
      BY <3>1
    <3>3. RunsType /\ EventsType
      OBVIOUS
    <3>4. Submit(job[f], base) /\ job[f] \in Jobs
      BY <3>1
    <3> HIDE DEF base, RunsType, TypeOK
    <3>5. QED
      BY <3>2, <3>3, <3>4, SubmitType
  <2> QED
    BY <1>30, <2>1 DEF Resubmit, Submit
<1>31. ASSUME NEW f \in Futures, RunFault(f) PROVE TypeOK'
  <2>1. PICK s \in {"failing", "cleanup"} : pc' = [pc EXCEPT ![f] = s] /\ pc[f] # "unused"
    BY <1>31 DEF RunFault
  <2>2. /\ failure' = failure \/ failure' = [failure EXCEPT ![f] = "engine"]
        /\ escapes' = escapes \/ escapes' = [escapes EXCEPT ![f] = TRUE]
    BY <1>31 DEF RunFault
  <2>3. /\ UNCHANGED <<ledger, events, made, raised, attempts, reporter, job, submitted, event, seen, calls, requests, crashes, commits>>
        /\ faults' = faults + 1 /\ critical' \subseteq critical
    BY <1>31 DEF RunFault
  <2>4. RunsType'
    <3>1. failure' \in [Futures -> Failures] /\ escapes' \in [Futures -> BOOLEAN]
      BY <2>2
    <3>2. pc' \in [Futures -> Steps] /\ \A g \in Futures : pc'[g] # "unused" => pc[g] # "unused"
      BY <2>1
    <3>3. QED
      BY <2>3, <3>1, <3>2
  <2>5. LedgerType' /\ MemoryType' /\ CallsType'
    BY <2>3
  <2> QED
    BY <2>3, <2>4, <2>5
<1>32. ASSUME Restart PROVE TypeOK'
  <2>1. UNCHANGED <<resume, made, job, submitted, event, seen, failure, escapes, cjob, sawStatus, sawStage, requests, faults, commits>>
    BY <1>32 DEF Restart
  <2>2. LedgerType'
    BY <1>32, <2>1 DEF Restart
  <2>3. MemoryType'
    BY <1>32, <2>1 DEF Restart, EventsType
  <2>4. RunsType'
    BY <1>32, <2>1 DEF Restart
  <2>5. CallsType' /\ crashes' \in Nat
    BY <1>32, <2>1 DEF Restart
  <2> QED
    BY <2>1, <2>2, <2>3, <2>4, <2>5
<1>33. CASE UNCHANGED vars
  BY <1>33 DEF vars
<1> QED
  BY <1>1, <1>2, <1>3, <1>4, <1>5, <1>6, <1>7, <1>8, <1>9, <1>10, <1>11,
     <1>12, <1>13, <1>14, <1>15, <1>16, <1>17, <1>18, <1>19, <1>20, <1>21, <1>22,
     <1>23, <1>24, <1>25, <1>26, <1>27, <1>28, <1>29, <1>30, <1>31, <1>32, <1>33
  DEF Next, CallStep, RunStep

\* The types, and that a future or request at work has a job, hold in every execution.
THEOREM TypeCorrect == Spec => []TypeOK
BY TypeInit, TypeNext, PTL DEF Spec

-----------------------------------------------------------------------------
\* One run per job.  The invariant below is inductive; OneRunPerJob alone is not, because
\* a retry decides by the event registry and a create registers without looking.

Asking  == {"submit", "writeQueued"}
Holding == Run \cup {"timer", "resubmit"}

\* A job that was never created has left no trace.
Fresh ==
    \A j \in Jobs : status[j] = "absent" =>
        /\ events[j] = 0
        /\ \A f \in Futures : job[f] # j
        /\ \A c \in Clients : cpc[c] # "idle" => cjob[c] # j

\* Between the insert of a job and the registration of its event nothing has run it, and
\* another request can only get past the event registry by making an event itself.
Registering ==
    \A c \in Clients : cpc[c] = "register" =>
        /\ \A f \in Futures : job[f] # cjob[c]
        /\ status[cjob[c]] # "queued" => events[cjob[c]] # 0
        /\ \A d \in Clients : d # c /\ cpc[d] # "idle" /\ cjob[d] = cjob[c] =>
              /\ cpc[d] \in {"gate", "raise", "writeCanceled", "renew"}
              /\ cpc[d] \in {"writeCanceled", "renew"} => events[cjob[c]] # 0

\* Whoever will run a job has its event registered: retry() sees it.
OwnedEvent ==
    /\ \A f \in Futures : pc[f] \in Owning => events[job[f]] # 0
    /\ \A c \in Clients : cpc[c] \in Asking => events[cjob[c]] # 0

\* OneRunPerJob, thread by thread.
OneFuture  == \A f, g \in Futures :
                 pc[f] \in Owning /\ pc[g] \in Owning /\ job[f] = job[g] => f = g
OneRequest == \A c, d \in Clients :
                 cpc[c] \in Asking /\ cpc[d] \in Asking /\ cjob[c] = cjob[d] => c = d
NotBoth    == \A f \in Futures, c \in Clients :
                 pc[f] \in Owning /\ cpc[c] \in Asking => job[f] # cjob[c]

RunInv ==
    /\ TypeOK /\ Fresh /\ Registering /\ OwnedEvent
    /\ OneFuture /\ OneRequest /\ NotBoth /\ CancelReachesRun

\* OneRunPerJob says of futures and requests together what the three parts say of each.
LEMMA OneRunFromParts == OneFuture /\ OneRequest /\ NotBoth => OneRunPerJob
BY DEF OneFuture, OneRequest, NotBoth, OneRunPerJob, Owners, Asking

\* Before anything is created nothing runs.
LEMMA RunInvInit == Init => RunInv
<1> SUFFICES ASSUME Init PROVE RunInv
  OBVIOUS
<1>1. TypeOK
  BY TypeInit
<1> QED
  BY <1>1 DEF Init, RunInv, Fresh, Registering, OwnedEvent, OneFuture, OneRequest, NotBoth,
              CancelReachesRun, Owning, Asking, Run, Body

\* How the classes of steps the invariant speaks of lie in each other.
LEMMA Working ==
    ASSUME TypeOK
    PROVE  /\ Holding \subseteq Owning /\ Owning \subseteq Steps
           /\ \A f \in Futures : pc[f] \in Owning => job[f] \in Jobs
           /\ \A c \in Clients : cpc[c] \in Asking => cjob[c] \in Jobs
           /\ \A c \in Clients : cpc[c] # "idle" => cjob[c] \in Jobs
<1>1. "unused" \notin Owning /\ "idle" \notin Asking
  BY DEF Owning, Run, Body, Asking
<1>2. Holding \subseteq Owning /\ Owning \subseteq Steps
  BY DEF Holding, Owning, Steps
<1> QED
  BY <1>1, <1>2 DEF TypeOK, RunsType, CallsType

\* A run that moves from one of its steps to another, or stops, disturbs none of it.
LEMMA RunMoves ==
    ASSUME RunInv, TypeOK', NEW f \in Futures, NEW s \in Steps \ {"unused", "queued"},
           pc' = [pc EXCEPT ![f] = s], pc[f] # "unused",
           s \in Holding => pc[f] \in Holding,
           UNCHANGED <<job, event, cpc, cjob, events>>,
           \A j \in Jobs : status'[j] = "absent" => status[j] = "absent",
           \A j \in Jobs : j # job[f] => status'[j] = status[j]
    PROVE  RunInv'
<1> USE DEF RunInv, TypeOK, RunsType, CallsType
<1>1. job[f] \in Jobs
  OBVIOUS
<1>2. \A g \in Futures : pc'[g] = IF g = f THEN s ELSE pc[g]
  OBVIOUS
<1>3. s \in Owning => s \in Holding /\ pc[f] \in Owning
  BY DEF Steps, Owning, Holding
<1>4. Fresh'
  BY DEF Fresh
<1>5. Registering'
  BY <1>1 DEF Registering
<1>6. OwnedEvent'
  BY <1>2, <1>3 DEF OwnedEvent
<1>7. OneFuture'
  BY <1>2, <1>3 DEF OneFuture
<1>9. OneRequest' /\ NotBoth'
  BY <1>2, <1>3 DEF OneRequest, NotBoth
<1>8. CancelReachesRun'
  BY <1>2 DEF CancelReachesRun, Holding
<1> QED
  BY <1>4, <1>5, <1>6, <1>7, <1>8, <1>9

\* Giving a future to a job that nothing else will run.
LEMMA Submitted ==
    ASSUME RunInv, TypeOK', NEW j \in Jobs, NEW base \in [Futures -> Steps], Submit(j, base),
           events' = events, status' = status, cjob' = cjob, events[j] # 0,
           \A f \in Futures : base[f] = pc[f] \/ (base[f] = "over" /\ pc[f] # "unused"),
           \A f \in Futures : base[f] \in Owning => job[f] # j,
           \A c \in Clients : cpc'[c] = cpc[c] \/ cpc'[c] = "idle",
           \A c \in Clients : cpc'[c] \in Asking => cjob[c] # j,
           \A c \in Clients : cpc[c] = "register" => cjob[c] # j,
           status[j] # "absent"
    PROVE  RunInv'
<1> USE DEF RunInv, TypeOK, RunsType, CallsType
<1>1. PICK g \in Futures :
        /\ pc[g] = "unused"
        /\ pc' = [base EXCEPT ![g] = "queued"]
        /\ job' = [job EXCEPT ![g] = j]
        /\ UNCHANGED event
  BY DEF Submit
<1>2. \A f \in Futures : /\ pc'[f] = IF f = g THEN "queued" ELSE base[f]
                         /\ job'[f] = IF f = g THEN j ELSE job[f]
  BY <1>1
<1>3. \A f \in Futures \ {g} : pc'[f] \in Owning => pc[f] \in Owning /\ pc'[f] = pc[f]
  BY <1>2 DEF Owning, Run, Body
<1>4. Fresh'
  BY <1>2 DEF Fresh
<1>5. Registering'
  BY <1>2 DEF Registering
<1>6. OwnedEvent'
  BY <1>2, <1>3 DEF OwnedEvent, Asking
<1>7. OneFuture'
  BY <1>2, <1>3 DEF OneFuture
<1>8. \A c \in Clients : cpc'[c] \in Asking => cpc[c] \in Asking /\ cjob[c] # j
  BY DEF Asking
<1>9. OneRequest'
  BY <1>8 DEF OneRequest
<1>10. NotBoth'
  BY <1>2, <1>3, <1>8 DEF NotBoth
<1>11. CancelReachesRun'
  <2>1. "queued" \notin Holding
    BY DEF Holding, Run, Body
  <2> QED
    BY <1>1, <1>2, <1>3, <2>1, Working DEF CancelReachesRun, Holding
<1> QED
  BY <1>4, <1>5, <1>6, <1>7, <1>9, <1>10, <1>11

\* A job's event goes when its run gives it up, and only then.
LEMMA Popped ==
    ASSUME RunInv, TypeOK', NEW f \in Futures, NEW s \in {"over", "observe"},
           pc[f] \in Holding, pc' = [pc EXCEPT ![f] = s],
           events' = [events EXCEPT ![job[f]] = IF @ = event[f] THEN 0 ELSE @],
           UNCHANGED <<status, job, event, cpc, cjob>>
    PROVE  RunInv'
<1> USE DEF RunInv, TypeOK, RunsType, CallsType, MemoryType, EventsType
<1>1. job[f] \in Jobs /\ pc[f] \in Owning
  BY DEF Holding, Owning, Run, Body
<1>2. \A g \in Futures : pc'[g] = IF g = f THEN s ELSE pc[g]
  OBVIOUS
<1>3. s \notin Owning
  BY DEF Owning, Run, Body
<1>4. \A j \in Jobs : events'[j] = 0 \/ events'[j] = events[j]
  OBVIOUS
<1>5. \A j \in Jobs \ {job[f]} : events'[j] = events[j]
  OBVIOUS
<1>6. \A g \in Futures :
        pc'[g] \in Owning => pc[g] \in Owning /\ pc'[g] = pc[g] /\ job[g] \in Jobs \ {job[f]}
  <2> SUFFICES ASSUME NEW g \in Futures, pc'[g] \in Owning
               PROVE  pc[g] \in Owning /\ pc'[g] = pc[g] /\ job[g] \in Jobs \ {job[f]}
    OBVIOUS
  <2>1. g # f /\ pc'[g] = pc[g] /\ pc[g] # "unused"
    BY <1>2, <1>3 DEF Owning, Run, Body
  <2> QED
    BY <1>1, <2>1 DEF OneFuture
<1>7. \A c \in Clients : cpc[c] \in Asking \cup {"register"} => cjob[c] # job[f]
  BY <1>1 DEF NotBoth, Registering
<1>8. Fresh'
  BY <1>2, <1>4 DEF Fresh
<1>9. Registering'
  BY <1>2, <1>5, <1>7 DEF Registering
<1>10. OwnedEvent'
  <2>1. \A g \in Futures : pc'[g] \in Owning => events'[job'[g]] # 0
    BY <1>5, <1>6 DEF OwnedEvent
  <2>2. \A c \in Clients : cpc'[c] \in Asking => events'[cjob'[c]] # 0
    BY <1>5, <1>7 DEF OwnedEvent, Asking
  <2> QED
    BY <2>1, <2>2 DEF OwnedEvent
<1>11. OneFuture'
  BY <1>6 DEF OneFuture
<1>13. OneRequest' /\ NotBoth'
  <2>1. OneRequest'
    BY DEF OneRequest
  <2>2. NotBoth'
    BY <1>6 DEF NotBoth
  <2> QED
    BY <2>1, <2>2
<1>12. CancelReachesRun'
  BY <1>2, <1>3, <1>5, <1>6 DEF CancelReachesRun, Owning
<1> QED
  BY <1>8, <1>9, <1>10, <1>11, <1>12, <1>13

\* create inserts a row for a job nobody has touched.
LEMMA RunInvCreate ==
    ASSUME RunInv, TypeOK', NEW c \in Clients, NEW j \in Jobs, Create(c, j) PROVE RunInv'
<1> USE DEF RunInv, TypeOK, RunsType, CallsType, LedgerType, Create, Publish, memory, runs
<1>1. \A d \in Clients : /\ cpc'[d] = IF d = c THEN "register" ELSE cpc[d]
                         /\ cjob'[d] = IF d = c THEN j ELSE cjob[d]
  OBVIOUS
<1>2. \A k \in Jobs : status'[k] = IF k = j THEN "queued" ELSE status[k]
  OBVIOUS
<1>3. Fresh'
  BY <1>1, <1>2 DEF Fresh
<1>4. Registering'
  BY <1>1, <1>2 DEF Registering, Fresh
<1>5. \A d \in Clients : cpc'[d] \in Asking => cpc[d] \in Asking /\ cjob'[d] = cjob[d]
  BY <1>1 DEF Asking
<1>6. OwnedEvent' /\ OneFuture' /\ CancelReachesRun'
  BY <1>5 DEF OwnedEvent, OneFuture, CancelReachesRun
<1>7. OneRequest' /\ NotBoth'
  BY <1>5 DEF OneRequest, NotBoth
<1> QED
  BY <1>3, <1>4, <1>6, <1>7

\* create registers its event while no run and no accepted retry of the job exists.
LEMMA RunInvCreateRegister ==
    ASSUME RunInv, TypeOK', NEW c \in Clients, CreateRegister(c) PROVE RunInv'
<1> USE Working DEF RunInv
<1> DEFINE j == cjob[c]
<1>0. cpc[c] = "register" /\ UNCHANGED <<status, pc, job, event, cjob>>
  BY DEF CreateRegister, ledger, runs
<1>1. j \in Jobs /\ \A f \in Futures : job[f] # j
  BY <1>0 DEF Registering
<1>2. events'[j] # 0 /\ \A k \in Jobs \ {j} : events'[k] = events[k]
  BY <1>1, NewEventType DEF CreateRegister, TypeOK, MemoryType
<1>3. \A d \in Clients : cpc'[d] = IF d = c THEN "submit" ELSE cpc[d]
  BY DEF CreateRegister, TypeOK, CallsType
<1> USE <1>0
<1>4. \A d \in Clients : d # c /\ cpc[d] \in Asking \cup {"register"} => cjob[d] # j
  BY DEF Registering, Asking
<1>5. Fresh'
  BY <1>1, <1>2, <1>3 DEF Fresh
<1>6. Registering'
  BY <1>2, <1>3, <1>4 DEF Registering
<1>7. OwnedEvent'
  BY <1>1, <1>2, <1>3, <1>4 DEF OwnedEvent, Asking
<1>8. OneFuture' /\ OneRequest'
  BY <1>3, <1>4 DEF OneFuture, OneRequest, Asking
<1>9. NotBoth'
  BY <1>1, <1>3 DEF NotBoth, Asking
<1>10. CancelReachesRun'
  BY <1>1, <1>2 DEF CancelReachesRun, Holding
<1> QED
  BY <1>5, <1>6, <1>7, <1>8, <1>9, <1>10

\* A cancel or retry that starts only remembers what it read.
LEMMA RunInvRequest ==
    ASSUME RunInv, TypeOK', NEW c \in Clients, NEW j \in Jobs, Cancel(c, j) \/ Retry(c, j)
    PROVE  RunInv'
<1> USE DEF RunInv, TypeOK, RunsType, CallsType, Request, ledger, memory, runs
<1>1. PICK s \in {"gate", "renew"} :
        /\ cpc[c] = "idle" /\ Request(c, j, s)
        /\ status[j] # "absent" /\ (s = "renew" => status[j] # "queued")
  BY DEF Cancel, Retry, Live, Retryable
<1>2. \A d \in Clients : /\ cpc'[d] = IF d = c THEN s ELSE cpc[d]
                         /\ cjob'[d] = IF d = c THEN j ELSE cjob[d]
  BY <1>1
<1>3. Fresh'
  BY <1>1, <1>2 DEF Fresh
<1>4. Registering'
  BY <1>1, <1>2 DEF Registering
<1>5. \A d \in Clients : cpc'[d] \in Asking => cpc[d] \in Asking /\ cjob'[d] = cjob[d]
  BY <1>1, <1>2 DEF Asking
<1>6. OwnedEvent' /\ OneFuture' /\ CancelReachesRun'
  BY <1>1, <1>5 DEF OwnedEvent, OneFuture, CancelReachesRun
<1>7. OneRequest' /\ NotBoth'
  BY <1>1, <1>5 DEF OneRequest, NotBoth
<1> QED
  BY <1>3, <1>4, <1>6, <1>7

\* cancel sets the registered event, or registers one where no run can miss it.
LEMMA RunInvCancelRaise ==
    ASSUME RunInv, TypeOK', NEW c \in Clients, CancelRaise(c) PROVE RunInv'
<1> USE Working DEF RunInv
<1> DEFINE j == cjob[c]
<1>0. cpc[c] = "raise" /\ UNCHANGED <<status, pc, job, event, cjob>>
  BY DEF CancelRaise, ledger, runs
<1>1. j \in Jobs
  BY <1>0
<1>2. /\ events'[j] # 0 /\ \A k \in Jobs \ {j} : events'[k] = events[k]
      /\ events[j] # 0 => events' = events
  BY <1>1, SetDefaultType DEF CancelRaise, TypeOK, MemoryType
<1>3. PICK s \in {"writeCanceled", "idle"} :
        \A d \in Clients : cpc'[d] = IF d = c THEN s ELSE cpc[d]
  BY DEF CancelRaise, TypeOK, CallsType
<1> USE <1>0
<1>4. Fresh'
  BY <1>1, <1>2, <1>3 DEF Fresh
<1>5. Registering'
  BY <1>1, <1>2, <1>3 DEF Registering
<1>6. \A d \in Clients : cpc'[d] \in Asking => cpc[d] \in Asking
  BY <1>3 DEF Asking
<1>7. OwnedEvent'
  BY <1>1, <1>2, <1>6 DEF OwnedEvent
<1>8. OneFuture' /\ OneRequest' /\ NotBoth'
  BY <1>6 DEF OneFuture, OneRequest, NotBoth
<1>9. CancelReachesRun'
  BY <1>1, <1>2 DEF CancelReachesRun, OwnedEvent, Holding
<1> QED
  BY <1>4, <1>5, <1>7, <1>8, <1>9

\* The steps of a request that touch no event.
LEMMA RunInvCallMoves ==
    ASSUME RunInv, TypeOK', NEW c \in Clients,
           CancelGate(c) \/ CancelWrite(c) \/ RetryWrite(c) \/ RequestFault(c)
    PROVE  RunInv'
<1> USE Working DEF RunInv
<1>1. PICK s \in {"idle", "raise", "submit"} : cpc' = [cpc EXCEPT ![c] = s]
  BY DEF CancelGate, CancelWrite, RetryWrite, RequestFault, Return
<1>2. /\ cpc[c] \in {"gate", "writeCanceled", "writeQueued"}
      /\ s = "submit" => cpc[c] = "writeQueued"
      /\ s = "raise" => cpc[c] = "gate"
      /\ UNCHANGED <<events, pc, job, event, cjob>>
  BY <1>1 DEF CancelGate, CancelWrite, RetryWrite, RequestFault, Return, TypeOK, CallsType,
              memory, runs
<1>3. \/ status' = status
      \/ cpc[c] = "writeCanceled" /\ status' = [status EXCEPT ![cjob[c]] = "canceled"]
      \/ cpc[c] = "writeQueued" /\ status' = [status EXCEPT ![cjob[c]] = "queued"]
  BY DEF CancelGate, CancelWrite, RetryWrite, RequestFault, Publish, ledger
<1>4. \A d \in Clients : cpc'[d] = IF d = c THEN s ELSE cpc[d]
  BY <1>1 DEF TypeOK, CallsType
<1>10. /\ \A k \in Jobs \ {cjob[c]} : status'[k] = status[k]
       /\ status'[cjob[c]] = "absent" => status[cjob[c]] = "absent"
       /\ cpc[c] \in {"gate"} => status' = status
       /\ cjob[c] \in Jobs
  BY <1>2, <1>3 DEF TypeOK, LedgerType
<1>5. Fresh'
  BY <1>2, <1>10, <1>4 DEF Fresh
<1>6. Registering'
  <2> SUFFICES ASSUME NEW d \in Clients, cpc'[d] = "register" PROVE Registering!(d)!2'
    BY DEF Registering
  <2> QED
    BY <1>2, <1>10, <1>4 DEF Registering
<1>7. \A d \in Clients : cpc'[d] \in Asking => cpc[d] \in Asking
  BY <1>2, <1>4 DEF Asking
<1>8. OwnedEvent' /\ OneFuture' /\ CancelReachesRun'
  BY <1>2, <1>7 DEF OwnedEvent, OneFuture, CancelReachesRun
<1>9. OneRequest' /\ NotBoth'
  BY <1>2, <1>7 DEF OneRequest, NotBoth
<1> QED
  BY <1>5, <1>6, <1>8, <1>9

\* A retry goes on only when no event is registered, hence when nothing runs the job.
LEMMA RunInvRetryRenew ==
    ASSUME RunInv, TypeOK', NEW c \in Clients, RetryRenew(c) PROVE RunInv'
<1> USE Working DEF RunInv
<1> DEFINE j == cjob[c]
<1>0. cpc[c] = "renew" /\ UNCHANGED <<status, pc, job, event, cjob>>
  BY DEF RetryRenew, ledger, runs
<1>1. j \in Jobs
  BY <1>0
<1> USE <1>0
<1>2. CASE events[j] # 0
  <2>1. /\ \A d \in Clients : cpc'[d] = IF d = c THEN "idle" ELSE cpc[d]
        /\ events' = events
    BY <1>2 DEF RetryRenew, Return, TypeOK, CallsType
  <2>2. \A d \in Clients : cpc'[d] \in Asking => cpc[d] \in Asking
    BY <2>1 DEF Asking
  <2>3. Fresh' /\ Registering'
    BY <2>1 DEF Fresh, Registering
  <2>4. OwnedEvent' /\ OneFuture' /\ CancelReachesRun'
    BY <2>1, <2>2 DEF OwnedEvent, OneFuture, CancelReachesRun
  <2>5. OneRequest' /\ NotBoth'
    BY <2>2 DEF OneRequest, NotBoth
  <2> QED
    BY <2>3, <2>4, <2>5
<1>3. CASE events[j] = 0
  <2>1. events'[j] # 0 /\ \A k \in Jobs \ {j} : events'[k] = events[k]
    BY <1>1, <1>3, NewEventType DEF RetryRenew, TypeOK, MemoryType
  <2>2. \A d \in Clients : cpc'[d] = IF d = c THEN "writeQueued" ELSE cpc[d]
    BY <1>3 DEF RetryRenew, TypeOK, CallsType
  <2>3. /\ \A f \in Futures : pc[f] \in Owning => job[f] # j
        /\ \A d \in Clients : cpc[d] \in Asking => cjob[d] # j
    BY <1>3 DEF OwnedEvent
  <2>4. \A d \in Clients : cpc[d] = "register" => cjob[d] # j
    BY <1>3 DEF Registering
  <2>5. Fresh'
    BY <1>1, <2>1, <2>2 DEF Fresh
  <2>6. Registering'
    BY <1>1, <2>1, <2>2, <2>4 DEF Registering
  <2>7. OwnedEvent'
    BY <1>1, <2>1, <2>2, <2>3 DEF OwnedEvent, Asking
  <2>8. OneFuture' /\ OneRequest'
    BY <2>2, <2>3 DEF OneFuture, OneRequest, Asking
  <2>9. NotBoth'
    BY <2>2, <2>3 DEF NotBoth, Asking
  <2>10. CancelReachesRun'
    BY <1>1, <2>1, <2>3 DEF CancelReachesRun, Holding
  <2> QED
    BY <2>5, <2>6, <2>7, <2>8, <2>9, <2>10
<1> QED
  BY <1>2, <1>3

\* A create or retry hands its job over to the one future it submits.
LEMMA RunInvCallSubmit ==
    ASSUME RunInv, TypeOK', NEW c \in Clients, CallSubmit(c) PROVE RunInv'
<1> USE Working DEF RunInv
<1> DEFINE j == cjob[c]
<1>0. /\ cpc[c] = "submit" /\ Submit(j, pc)
      /\ events' = events /\ status' = status /\ cjob' = cjob
      /\ cpc' = [cpc EXCEPT ![c] = "idle"]
  BY DEF CallSubmit, Return, ledger, memory
<1> USE <1>0
<1>1. j \in Jobs /\ events[j] # 0
  BY DEF OwnedEvent, Asking
<1>2. \A f \in Futures : pc[f] \in Owning => job[f] # j
  BY DEF NotBoth, Asking
<1>3. \A d \in Clients : d # c /\ cpc[d] \in Asking => cjob[d] # j
  BY DEF OneRequest, Asking
<1>4. \A d \in Clients : cpc'[d] = IF d = c THEN "idle" ELSE cpc[d]
  BY DEF TypeOK, CallsType
<1>5. \A d \in Clients : cpc'[d] \in Asking => cjob[d] # j
  BY <1>3, <1>4 DEF Asking
<1>6. \A d \in Clients : cpc[d] = "register" => cjob[d] # j
  BY DEF Registering
<1>7. status[j] # "absent" /\ pc \in [Futures -> Steps]
  BY <1>1 DEF Fresh, TypeOK, RunsType
<1>8. /\ \A f \in Futures : pc[f] = pc[f] \/ (pc[f] = "over" /\ pc[f] # "unused")
      /\ \A d \in Clients : cpc'[d] = cpc[d] \/ cpc'[d] = "idle"
  BY <1>4
<1> HIDE DEF j, RunInv
<1> QED
  BY <1>1, <1>2, <1>5, <1>6, <1>7, <1>8, Submitted

\* A timer that fired hands its job over to the one future it submits.
LEMMA RunInvResubmit ==
    ASSUME RunInv, TypeOK', NEW f \in Futures, Resubmit(f) PROVE RunInv'
<1> USE Working DEF RunInv
<1> DEFINE j == job[f]
           base == [pc EXCEPT ![f] = "over"]
<1>0. /\ pc[f] = "resubmit" /\ Submit(j, base)
      /\ events' = events /\ status' = status /\ cjob' = cjob /\ cpc' = cpc
  BY DEF Resubmit, ledger, memory, calls
<1> USE <1>0
<1>1. pc[f] \in Owning /\ j \in Jobs
  BY DEF Owning
<1>2. base \in [Futures -> Steps] /\ \A g \in Futures : base[g] = IF g = f THEN "over" ELSE pc[g]
  BY DEF Steps, TypeOK, RunsType
<1>3. \A g \in Futures : base[g] \in Owning => job[g] # j
  BY <1>1, <1>2 DEF OneFuture, Owning, Run, Body
<1>4. \A c \in Clients : cpc[c] \in Asking => cjob[c] # j
  BY <1>1 DEF NotBoth
<1>5. \A c \in Clients : cpc[c] = "register" => cjob[c] # j
  BY DEF Registering
<1>6. events[j] # 0 /\ status[j] # "absent"
  BY <1>1 DEF OwnedEvent, Fresh
<1>7. /\ \A g \in Futures : base[g] = pc[g] \/ (base[g] = "over" /\ pc[g] # "unused")
      /\ \A c \in Clients : cpc'[c] = cpc[c] \/ cpc'[c] = "idle"
      /\ \A c \in Clients : cpc'[c] \in Asking => cjob[c] # j
  BY <1>2, <1>4
<1> HIDE DEF base, j, RunInv
<1> QED
  BY <1>1, <1>2, <1>3, <1>5, <1>6, <1>7, Submitted

\* A pool thread takes the event that is registered, which its future has kept registered.
LEMMA RunInvStart ==
    ASSUME RunInv, TypeOK', NEW f \in Futures, Start(f) PROVE RunInv'
<1> USE Working DEF RunInv
<1>1. /\ pc[f] = "queued" /\ pc[f] \in Owning /\ UNCHANGED <<status, job, cpc, cjob>>
      /\ event' = [event EXCEPT ![f] = Current(job[f])]
      /\ SetDefault(job[f])
  BY DEF Start, Owning, ledger, calls
<1>2. job[f] \in Jobs /\ events[job[f]] # 0
  BY <1>1 DEF OwnedEvent
<1>3. events' = events /\ Current(job[f]) = events[job[f]]
  BY <1>1, <1>2 DEF SetDefault, Current
<1>4. \A g \in Futures : /\ pc'[g] = IF g = f THEN "read" ELSE pc[g]
                         /\ event'[g] = IF g = f THEN events[job[f]] ELSE event[g]
  BY <1>1, <1>3 DEF Start, Goto, TypeOK, RunsType
<1> USE <1>1, <1>2, <1>3
<1>5. Fresh' /\ Registering'
  BY DEF Fresh, Registering
<1>6. \A g \in Futures : pc'[g] \in Owning => pc[g] \in Owning
  BY <1>4
<1>7. OwnedEvent' /\ OneFuture'
  BY <1>6 DEF OwnedEvent, OneFuture
<1>8. OneRequest' /\ NotBoth'
  BY <1>6 DEF OneRequest, NotBoth
<1>9. CancelReachesRun'
  BY <1>4 DEF CancelReachesRun
<1> QED
  BY <1>5, <1>7, <1>8, <1>9

\* A timer that only tidies up pops its own event.
LEMMA RunInvFire ==
    ASSUME RunInv, TypeOK', NEW f \in Futures, Fire(f) PROVE RunInv'
<1>1. /\ pc[f] = "timer" /\ pc[f] \in Holding
      /\ UNCHANGED <<status, job, event, cpc, cjob>>
  BY DEF Fire, Holding, ledger, calls
<1>2. CASE events[job[f]] = event[f] /\ ~Raised(f)
  <2>1. pc' = [pc EXCEPT ![f] = "resubmit"] /\ events' = events
    BY <1>2 DEF Fire, Goto
  <2>2. "resubmit" \in Steps \ {"unused", "queued"}
    BY DEF Steps, Owning
  <2> QED
    BY <1>1, <2>1, <2>2, RunMoves
<1>3. CASE ~(events[job[f]] = event[f] /\ ~Raised(f))
  <2>1. /\ pc' = [pc EXCEPT ![f] = "over"]
        /\ events' = [events EXCEPT ![job[f]] = IF @ = event[f] THEN 0 ELSE @]
    BY <1>3 DEF Fire, Goto
  <2> QED
    BY <1>1, <2>1, Popped
<1> QED
  BY <1>2, <1>3

\* The finally clause of a run pops its own event.
LEMMA RunInvCleanup ==
    ASSUME RunInv, TypeOK', NEW f \in Futures, Cleanup(f) PROVE RunInv'
<1>1. /\ pc[f] \in Holding /\ UNCHANGED <<status, job, event, cpc, cjob>>
      /\ events' = [events EXCEPT ![job[f]] = IF @ = event[f] THEN 0 ELSE @]
  BY DEF Cleanup, Holding, Run, ledger, calls
<1>2. PICK s \in {"over", "observe"} : pc' = [pc EXCEPT ![f] = s]
  BY DEF Cleanup, Goto
<1> QED
  BY <1>1, <1>2, Popped

\* After a restart no future and no request is at work.
LEMMA RunInvRestart == ASSUME RunInv, TypeOK', Restart PROVE RunInv'
<1> USE DEF RunInv
<1>1. /\ \A f \in Futures : pc'[f] \in {"unused", "over"}
      /\ \A c \in Clients : cpc'[c] = "idle"
      /\ \A j \in Jobs : events'[j] = 0 /\ (status'[j] = "absent" => status[j] = "absent")
      /\ job' = job /\ cjob' = cjob
  BY DEF Restart, Live
<1>2. "unused" \notin Owning /\ "over" \notin Owning /\ "idle" \notin Asking
  BY DEF Owning, Run, Body, Asking
<1>3. Fresh' /\ Registering'
  BY <1>1 DEF Fresh, Registering
<1>4. OwnedEvent' /\ OneFuture'
  BY <1>1, <1>2 DEF OwnedEvent, OneFuture
<1>5. OneRequest' /\ NotBoth'
  BY <1>1, <1>2 DEF OneRequest, NotBoth
<1>6. CancelReachesRun'
  BY <1>1, <1>2 DEF CancelReachesRun, Owning
<1> QED
  BY <1>3, <1>4, <1>5, <1>6

\* The steps of _run that only move it along.
RunMove(f) ==
    \/ Read(f) \/ Mark(f) \/ Advance(f) \/ Fail(f) \/ Enter(f) \/ ShowConsolidating(f)
    \/ Commit(f) \/ LeaveCritical(f) \/ Project(f) \/ Finish(f) \/ Handle(f)
    \/ WriteOutcome(f) \/ Requeue(f) \/ Observe(f) \/ Report(f) \/ RunFault(f)

\* The other steps of a run neither register nor pop an event a run depends on.
LEMMA RunInvRunMove ==
    ASSUME RunInv, TypeOK', NEW f \in Futures, RunMove(f) PROVE RunInv'
<1> USE DEF ledger, memory, runs, calls, Goto
<1>1. job[f] \in Jobs /\ pc[f] # "unused"
  BY DEF RunMove, Read, Mark, Advance, Fail, Enter, ShowConsolidating, Commit, LeaveCritical,
         Project, Finish, Handle, WriteOutcome, Requeue, Observe, Report, RunFault, Body,
         RunInv, TypeOK, RunsType
<1>2. UNCHANGED <<job, event, cpc, cjob>>
  BY DEF RunMove, Read, Mark, Advance, Fail, Enter, ShowConsolidating, Commit, LeaveCritical,
         Project, Finish, Handle, WriteOutcome, Requeue, Observe, Report, RunFault
<1>3. events' = events
  <2>1. CASE Enter(f)
    <3>1. pc[f] \in Owning
      BY <2>1 DEF Enter, Owning, Run
    <3>2. events[job[f]] # 0
      BY <3>1 DEF RunInv, OwnedEvent
    <3> QED
      BY <2>1, <3>2 DEF Enter, SetDefault
  <2> QED
    BY <2>1 DEF RunMove, Read, Mark, Advance, Fail, ShowConsolidating, Commit, LeaveCritical,
         Project, Finish, Handle, WriteOutcome, Requeue, Observe, Report, RunFault
<1>4. \E s \in Steps \ {"unused", "queued"} :
        pc' = [pc EXCEPT ![f] = s] /\ (s \in Holding => pc[f] \in Holding)
  BY DEF RunMove, Read, Mark, Advance, Fail, Enter, ShowConsolidating, Commit, LeaveCritical,
         Project, Finish, Handle, WriteOutcome, Requeue, Observe, Report, RunFault, Steps,
         Owning, Holding, Run, Body
<1>5. \/ status' = status
      \/ \E w \in Live \cup Terminal : status' = [status EXCEPT ![job[f]] = w]
  BY DEF RunMove, Read, Mark, Advance, Fail, Enter, ShowConsolidating, Commit, LeaveCritical,
         Project, Finish, Handle, WriteOutcome, Requeue, Observe, Report, RunFault, Publish,
         SetStage, Outcome, Live, Terminal
<1>6. /\ \A j \in Jobs : status'[j] = "absent" => status[j] = "absent"
      /\ \A j \in Jobs : j # job[f] => status'[j] = status[j]
  BY <1>1, <1>5 DEF Live, Terminal, RunInv, TypeOK, LedgerType
<1> QED
  BY <1>1, <1>2, <1>3, <1>4, <1>6, RunMoves

\* Every step keeps the invariant.
LEMMA RunInvNext == RunInv /\ [Next]_vars => RunInv'
<1> SUFFICES ASSUME RunInv, [Next]_vars PROVE RunInv'
  OBVIOUS
<1>1. TypeOK'
  BY TypeNext DEF RunInv
<1>2. ASSUME NEW c \in Clients, NEW j \in Jobs, Create(c, j) \/ Cancel(c, j) \/ Retry(c, j)
      PROVE  RunInv'
  BY <1>1, <1>2, RunInvCreate, RunInvRequest
<1>3. ASSUME NEW c \in Clients, CallStep(c) \/ RequestFault(c) PROVE RunInv'
  BY <1>1, <1>3, RunInvCreateRegister, RunInvCallSubmit, RunInvCancelRaise, RunInvCallMoves,
     RunInvRetryRenew DEF CallStep
<1>4. ASSUME NEW f \in Futures, RunStep(f) \/ RunFault(f) PROVE RunInv'
  BY <1>1, <1>4, RunInvStart, RunInvFire, RunInvCleanup, RunInvResubmit, RunInvRunMove
     DEF RunStep, RunMove
<1>5. CASE Restart
  BY <1>1, <1>5, RunInvRestart
<1>6. CASE UNCHANGED vars
  BY <1>6, <1>1 DEF vars, RunInv, Fresh, Registering, OwnedEvent, OneFuture, OneRequest, NotBoth,
                    CancelReachesRun, ledger, memory, runs, calls
<1> QED
  BY <1>2, <1>3, <1>4, <1>5, <1>6 DEF Next

\* The invariant holds in every execution.
THEOREM RunInvariant == Spec => []RunInv
BY RunInvInit, RunInvNext, PTL DEF Spec

\* Whatever requests, timers, faults and restarts do, a job has at most one run.
THEOREM OneRun == Spec => []OneRunPerJob
<1>1. RunInv => OneRunPerJob
  BY OneRunFromParts DEF RunInv
<1> QED
  BY <1>1, RunInvariant, PTL

\* The event a run polls is the one a cancellation sets.
THEOREM CancelReaches == Spec => []CancelReachesRun
<1>1. RunInv => CancelReachesRun
  BY DEF RunInv
<1> QED
  BY <1>1, RunInvariant, PTL

-----------------------------------------------------------------------------
\* Facts are committed once, and what is on record is not produced again.

Before == {"engine", "parsing", "reviewing", "enter", "stage", "commit"}
After  == {"reading", "uncrit", "project", "finish", "tryDone"}

\* Where a run is tells whether its job has a result on record.
Recorded ==
    /\ \A f \in Futures : pc[f] = "mark" => seen[f] = resume[job[f]]
    /\ \A f \in Futures : pc[f] \in Before => ~resume[job[f]]
    /\ \A f \in Futures : pc[f] \in After => resume[job[f]]
    /\ \A j \in Jobs : commits[j] <= 1 /\ (~resume[j] => commits[j] = 0)
    /\ DoneIsCommitted

RecordInv == RunInv /\ Recorded

\* Nothing is on record at the start.
LEMMA RecordInit == Init => RecordInv
<1> SUFFICES ASSUME Init PROVE Recorded
  BY RunInvInit DEF RecordInv
<1> QED
  BY DEF Init, Recorded, Before, After, DoneIsCommitted

\* A run that moves without adding to the record.
LEMMA RecordMoves ==
    ASSUME RecordInv, NEW f \in Futures, NEW s \in Steps,
           pc' = [pc EXCEPT ![f] = s], UNCHANGED <<job, resume, commits>>,
           \A g \in Futures : g # f => seen'[g] = seen[g],
           s = "mark" => seen'[f] = resume[job[f]],
           s \in Before => ~resume[job[f]],
           s \in After => resume[job[f]],
           \A j \in Jobs : status'[j] = "done" => status[j] = "done" \/ resume[j]
    PROVE  Recorded'
<1>1. \A g \in Futures : pc'[g] = IF g = f THEN s ELSE pc[g]
  BY DEF RecordInv, RunInv, TypeOK, RunsType
<1> QED
  BY <1>1 DEF RecordInv, Recorded, DoneIsCommitted

\* Whatever leaves every future where it is, or only queues, ends or stops some.
LEMMA RecordKept ==
    ASSUME RecordInv, UNCHANGED <<resume, commits, seen>>,
           \A g \in Futures : pc'[g] \in {"unused", "queued", "over", "resubmit"}
                              \/ (pc'[g] = pc[g] /\ job'[g] = job[g]),
           \A j \in Jobs : status'[j] = "done" => status[j] = "done"
    PROVE  Recorded'
BY DEF RecordInv, Recorded, DoneIsCommitted, Before, After

\* The facts enter the record in one transaction with the flag that they did.
LEMMA RecordCommit ==
    ASSUME RecordInv, NEW f \in Futures, Commit(f) PROVE Recorded'
<1> USE Working DEF RecordInv, RunInv
<1>1. /\ pc[f] = "commit" /\ pc[f] \in Owning /\ UNCHANGED <<status, job, seen>>
      /\ pc' = [pc EXCEPT ![f] = "uncrit"]
      /\ commits' = [commits EXCEPT ![job[f]] = commits[job[f]] + 1]
      /\ resume' = [resume EXCEPT ![job[f]] = TRUE]
  BY DEF Commit, Goto, Owning, Run
<1>2. job[f] \in Jobs /\ ~resume[job[f]] /\ commits[job[f]] = 0
  BY <1>1 DEF Recorded, Before
<1>3. \A g \in Futures : pc'[g] = IF g = f THEN "uncrit" ELSE pc[g]
  BY <1>1 DEF TypeOK, RunsType
<1>4. \A j \in Jobs : /\ resume'[j] = IF j = job[f] THEN TRUE ELSE resume[j]
                      /\ commits'[j] = IF j = job[f] THEN 1 ELSE commits[j]
  BY <1>1, <1>2 DEF TypeOK, LedgerType
<1>5. \A g \in Futures \ {f} : pc[g] \in Before \cup {"mark"} => job[g] \in Jobs \ {job[f]}
  BY <1>1 DEF OneFuture, Before, Owning, Run, Body
<1>6. \A g \in Futures : pc[g] \in After => job[g] \in Jobs
  BY DEF After, Owning, Run, Body
<1>7. "uncrit" \notin Before \cup {"mark"}
  BY DEF Before
<1>8. ASSUME NEW g \in Futures, pc'[g] = "mark" PROVE seen'[g] = resume'[job'[g]]
  <2>1. pc[g] = "mark" /\ job[g] \in Jobs \ {job[f]}
    BY <1>3, <1>5, <1>7, <1>8
  <2>2. resume'[job[g]] = resume[job[g]] /\ job' = job /\ seen' = seen
    BY <1>1, <1>4, <2>1
  <2> QED
    BY <2>1, <2>2 DEF Recorded
<1>9. \A g \in Futures : pc'[g] \in Before => ~resume'[job'[g]]
  BY <1>1, <1>3, <1>4, <1>5, <1>7 DEF Recorded
<1>10. ASSUME NEW g \in Futures, pc'[g] \in After PROVE resume'[job'[g]]
  <2>1. CASE job[g] = job[f]
    BY <1>1, <1>2, <1>4, <2>1
  <2>2. CASE job[g] # job[f]
    BY <1>1, <1>3, <1>4, <1>6, <1>10, <2>2 DEF Recorded
  <2> QED
    BY <2>1, <2>2
<1>11. ASSUME NEW j \in Jobs PROVE commits'[j] <= 1 /\ (~resume'[j] => commits'[j] = 0)
  <2>1. CASE j = job[f]
    <3>1. resume'[j] /\ commits'[j] = 1
      BY <1>4, <2>1
    <3> QED
      BY <3>1
  <2>2. CASE j # job[f]
    BY <1>4, <2>2 DEF Recorded
  <2> QED
    BY <2>1, <2>2
<1>12. DoneIsCommitted'
  BY <1>1, <1>4 DEF Recorded, DoneIsCommitted
<1> QED
  BY <1>8, <1>9, <1>10, <1>11, <1>12 DEF Recorded

\* With the facts tree on, the reviewed mapping enters the record before it is read.
LEMMA RecordMapping ==
    ASSUME RecordInv, NEW f \in Futures, Advance(f), resume' # resume PROVE Recorded'
<1> USE Working DEF RecordInv, RunInv
<1>1. /\ pc[f] = "reviewing" /\ pc[f] \in Owning /\ UNCHANGED <<status, job, seen, commits>>
      /\ pc' = [pc EXCEPT ![f] = "reading"]
      /\ resume' = [resume EXCEPT ![job[f]] = TRUE]
  BY DEF Advance, Goto, SetStage, Owning, Run, Body, ledger
<1>2. job[f] \in Jobs
  BY <1>1
<1>3. \A g \in Futures : pc'[g] = IF g = f THEN "reading" ELSE pc[g]
  BY <1>1 DEF TypeOK, RunsType
<1>4. \A j \in Jobs : resume'[j] = IF j = job[f] THEN TRUE ELSE resume[j]
  BY <1>1 DEF TypeOK, LedgerType
<1>5. \A g \in Futures \ {f} : pc[g] \in Before \cup {"mark"} => job[g] \in Jobs \ {job[f]}
  BY <1>1 DEF OneFuture, Before, Owning, Run, Body
<1>6. \A g \in Futures : pc[g] \in After => job[g] \in Jobs
  BY DEF After, Owning, Run, Body
<1>7. "reading" \notin Before \cup {"mark"}
  BY DEF Before
<1>8. ASSUME NEW g \in Futures, pc'[g] = "mark" PROVE seen'[g] = resume'[job'[g]]
  <2>1. pc[g] = "mark" /\ job[g] \in Jobs \ {job[f]}
    BY <1>3, <1>5, <1>7, <1>8
  <2>2. resume'[job[g]] = resume[job[g]] /\ job' = job /\ seen' = seen
    BY <1>1, <1>4, <2>1
  <2> QED
    BY <2>1, <2>2 DEF Recorded
<1>9. \A g \in Futures : pc'[g] \in Before => ~resume'[job'[g]]
  BY <1>1, <1>3, <1>4, <1>5, <1>7 DEF Recorded
<1>10. ASSUME NEW g \in Futures, pc'[g] \in After PROVE resume'[job'[g]]
  <2>1. CASE job[g] = job[f]
    BY <1>1, <1>2, <1>4, <2>1
  <2>2. CASE job[g] # job[f]
    BY <1>1, <1>3, <1>4, <1>6, <1>10, <2>2 DEF Recorded
  <2> QED
    BY <2>1, <2>2
<1>11. \A j \in Jobs : commits'[j] <= 1 /\ (~resume'[j] => commits'[j] = 0)
  BY <1>1, <1>4 DEF Recorded
<1>12. DoneIsCommitted'
  BY <1>1, <1>4 DEF Recorded, DoneIsCommitted
<1> QED
  BY <1>8, <1>9, <1>10, <1>11, <1>12 DEF Recorded

\* A step of a run that adds nothing to the record stays where the record allows it.
LEMMA RecordRun ==
    ASSUME RecordInv, NEW f \in Futures, RunStep(f) \/ RunFault(f),
           resume' = resume, commits' = commits
    PROVE  Recorded'
<1> USE DEF ledger, memory, runs, calls, bounds, Goto, Publish, SetStage, Before, After, Live,
            Terminal
<1> USE Working DEF RecordInv, RunInv
<1>0. pc[f] \in Owning \cup {"observe", "report"}
  BY DEF RunStep, Start, Read, Mark, Advance, Fail, Enter, ShowConsolidating, Commit,
         LeaveCritical, Project, Finish, Handle, WriteOutcome, Requeue, Cleanup, Observe, Report,
         Fire, Resubmit, RunFault, Owning, Run, Body
<1>1. job[f] \in Jobs
  BY <1>0 DEF TypeOK, RunsType
<1>2. CASE Resubmit(f)
  <2>1. UNCHANGED <<status, seen>>
    BY <1>2 DEF Resubmit, Submit
  <2>2. \A g \in Futures : pc'[g] \in {"queued", "over"} \/ (pc'[g] = pc[g] /\ job'[g] = job[g])
    BY <1>2 DEF Resubmit, Submit, TypeOK, RunsType
  <2> QED
    BY <2>1, <2>2, RecordKept
<1>3. CASE Read(f)
  <2>1. PICK s \in {"mark", "cleanup"} : pc' = [pc EXCEPT ![f] = s]
    BY <1>3 DEF Read
  <2>2. /\ UNCHANGED <<job, status>> /\ seen'[f] = resume[job[f]]
        /\ \A g \in Futures : g # f => seen'[g] = seen[g]
    BY <1>3 DEF Read, TypeOK, RunsType
  <2>3. s \in Steps
    BY DEF Steps, Owning, Run
  <2> QED
    BY <2>1, <2>2, <2>3, RecordMoves
<1>4. CASE Mark(f)
  <2>1. pc[f] = "mark" /\ UNCHANGED <<job, seen>> /\ seen[f] = resume[job[f]]
    BY <1>4 DEF Mark, Recorded
  <2>2. PICK s \in {"engine", "reading", "project"} :
          pc' = [pc EXCEPT ![f] = s] /\ (s = "engine" <=> ~seen[f])
    BY <1>4 DEF Mark
  <2>3. \A j \in Jobs : status'[j] = "done" => status[j] = "done"
    BY <1>4, <1>1 DEF Mark, TypeOK, LedgerType
  <2>4. s \in Steps
    BY DEF Steps, Owning, Run, Body
  <2> QED
    BY <2>1, <2>2, <2>3, <2>4, RecordMoves
<1>5. CASE WriteOutcome(f)
  <2>1. UNCHANGED <<job, seen>> /\ pc' = [pc EXCEPT ![f] = "cleanup"]
    BY <1>5 DEF WriteOutcome
  <2>2. \/ pc[f] = "tryDone" /\ status' = [status EXCEPT ![job[f]] = "done"]
        \/ \E w \in Terminal \ {"done"} : status' = [status EXCEPT ![job[f]] = w]
    BY <1>5 DEF WriteOutcome, Outcome
  <2>3. \A j \in Jobs : status'[j] = "done" => status[j] = "done" \/ resume[j]
    BY <1>1, <2>2 DEF Recorded, TypeOK, LedgerType
  <2>4. "cleanup" \in Steps
    BY DEF Steps, Owning, Run
  <2> QED
    BY <2>1, <2>3, <2>4, RecordMoves
<1>6. CASE ~(Resubmit(f) \/ Read(f) \/ Mark(f) \/ WriteOutcome(f))
  <2>1. UNCHANGED <<job, seen>>
    BY <1>6 DEF RunStep, Start, Advance, Fail, Enter, ShowConsolidating, Commit, LeaveCritical,
       Project, Finish, Handle, Requeue, Cleanup, Observe, Report, Fire, RunFault
  <2>2. \E s \in Steps : /\ pc' = [pc EXCEPT ![f] = s] /\ s # "mark"
                         /\ s \in Before => pc[f] \in Before
                         /\ s \in After => pc[f] \in After
    <3>1. ~Commit(f)
      <4> SUFFICES ASSUME Commit(f) PROVE FALSE
        OBVIOUS
      <4>1. resume'[job[f]] /\ ~resume[job[f]]
        BY <1>1 DEF Commit, Recorded, TypeOK, LedgerType
      <4> QED
        BY <4>1
    <3>2. pc[f] = "reviewing" /\ Advance(f) => ~FactsTree
      BY <1>1 DEF Advance, Recorded, TypeOK, LedgerType
    <3> QED
      BY <1>6, <3>1, <3>2 DEF RunStep, Start, Advance, Fail, Enter, ShowConsolidating,
         LeaveCritical, Project, Finish, Handle, Requeue, Cleanup, Observe, Report, Fire, RunFault,
         Steps, Owning, Run, Body
  <2>3. \/ status' = status
        \/ \E w \in {"queued", "failed"} : status' = [status EXCEPT ![job[f]] = w]
    BY <1>6 DEF RunStep, Start, Advance, Fail, Enter, ShowConsolidating, Commit, LeaveCritical,
       Project, Finish, Handle, Requeue, Cleanup, Observe, Report, Fire, RunFault
  <2>4. \A j \in Jobs : status'[j] = "done" => status[j] = "done"
    BY <1>1, <2>3 DEF TypeOK, LedgerType
  <2>5. PICK s \in Steps :
          /\ pc' = [pc EXCEPT ![f] = s] /\ s # "mark"
          /\ s \in Before => ~resume[job[f]]
          /\ s \in After => resume[job[f]]
    BY <2>2 DEF Recorded
  <2>6. \A j \in Jobs : status'[j] = "done" => status[j] = "done" \/ resume[j]
    BY <2>4
  <2>7. \A g \in Futures : g # f => seen'[g] = seen[g]
    BY <2>1
  <2>8. UNCHANGED <<job, resume, commits>>
    BY <2>1
  <2> HIDE DEF Before, After, RecordInv
  <2> QED
    BY <2>5, <2>6, <2>7, <2>8, RecordMoves
<1> QED
  BY <1>2, <1>3, <1>4, <1>5, <1>6

\* Every step keeps the record.
LEMMA RecordNext == RecordInv /\ [Next]_vars => RecordInv'
<1> SUFFICES ASSUME RecordInv, [Next]_vars PROVE Recorded'
  BY RunInvNext DEF RecordInv
<1> USE DEF ledger, memory, runs, calls, Goto, Publish, Return
<1>1. ASSUME NEW c \in Clients, NEW j \in Jobs, Create(c, j) \/ Cancel(c, j) \/ Retry(c, j)
      PROVE  Recorded'
  <2>1. UNCHANGED <<resume, commits, seen, pc, job>>
    BY <1>1 DEF Create, Cancel, Retry, Request
  <2>2. \A k \in Jobs : status'[k] = "done" => status[k] = "done"
    BY <1>1 DEF Create, Cancel, Retry, Request, RecordInv, RunInv, TypeOK, LedgerType
  <2> QED
    BY <2>1, <2>2, RecordKept
<1>2. ASSUME NEW c \in Clients, CallStep(c) \/ RequestFault(c) PROVE Recorded'
  <2>1. UNCHANGED <<resume, commits, seen>>
    BY <1>2 DEF CallStep, CreateRegister, CallSubmit, Submit, CancelGate, CancelRaise, CancelWrite,
       RetryRenew, RetryWrite, RequestFault
  <2>2. \A g \in Futures : pc'[g] = "queued" \/ (pc'[g] = pc[g] /\ job'[g] = job[g])
    BY <1>2 DEF CallStep, CreateRegister, CallSubmit, Submit, CancelGate, CancelRaise, CancelWrite,
       RetryRenew, RetryWrite, RequestFault, RecordInv, RunInv, TypeOK, RunsType
  <2>3. \/ status' = status
        \/ \E w \in {"queued", "canceled"} : status' = [status EXCEPT ![cjob[c]] = w]
    BY <1>2 DEF CallStep, CreateRegister, CallSubmit, CancelGate, CancelRaise, CancelWrite,
       RetryRenew, RetryWrite, RequestFault
  <2>4. \A k \in Jobs : status'[k] = "done" => status[k] = "done"
    BY <2>3 DEF RecordInv, RunInv, TypeOK, LedgerType
  <2> QED
    BY <2>1, <2>2, <2>4, RecordKept
<1>3. ASSUME NEW f \in Futures, RunStep(f) \/ RunFault(f) PROVE Recorded'
  <2>1. CASE Commit(f)
    BY <2>1, RecordCommit
  <2>2. CASE Advance(f) /\ resume' # resume
    BY <2>2, RecordMapping
  <2>3. CASE ~Commit(f) /\ ~(Advance(f) /\ resume' # resume)
    <3>1. resume' = resume /\ commits' = commits
      BY <1>3, <2>3 DEF RunStep, Start, Read, Mark, Advance, Fail, Enter, ShowConsolidating,
         LeaveCritical, Project, Finish, Handle, WriteOutcome, Requeue, Cleanup, Observe, Report,
         Fire, Resubmit, RunFault
    <3> QED
      BY <1>3, <3>1, RecordRun
  <2> QED
    BY <2>1, <2>2, <2>3
<1>4. CASE Restart
  <2>1. /\ UNCHANGED <<resume, commits, seen>>
        /\ \A g \in Futures : pc'[g] \in {"unused", "over"}
        /\ \A k \in Jobs : status'[k] = "done" => status[k] = "done"
    BY <1>4 DEF Restart
  <2> QED
    BY <2>1, RecordKept
<1>5. CASE UNCHANGED vars
  BY <1>5, RecordKept DEF vars
<1> QED
  BY <1>1, <1>2, <1>3, <1>4, <1>5 DEF Next

\* What the record says holds in every execution.
THEOREM RecordInvariant == Spec => []RecordInv
BY RecordInit, RecordNext, PTL DEF Spec

\* A stop after the commit never leads to a second commit of the same job's facts.
THEOREM CommitOnce == Spec => []CommittedOnce
<1>1. RecordInv => CommittedOnce
  BY DEF RecordInv, Recorded, CommittedOnce
<1> QED
  BY <1>1, RecordInvariant, PTL

\* A job reported done has its result on record.
THEOREM DoneCommitted == Spec => []DoneIsCommitted
<1>1. RecordInv => DoneIsCommitted
  BY DEF RecordInv, Recorded
<1> QED
  BY <1>1, RecordInvariant, PTL

\* A future keeps its job.
LEMMA JobKept ==
    ASSUME TypeOK, [Next]_vars, NEW f \in Futures, pc'[f] = "engine"
    PROVE  job'[f] = job[f]
<1> USE DEF runs
<1>1. CASE UNCHANGED job
  BY <1>1
<1>2. ASSUME NEW j, NEW base \in [Futures -> Steps], Submit(j, base) PROVE job'[f] = job[f]
  BY <1>2 DEF Submit, TypeOK, RunsType
<1>3. CASE UNCHANGED vars
  BY <1>3 DEF vars
<1>4. ASSUME NEW c \in Clients, NEW j \in Jobs, Create(c, j) \/ Cancel(c, j) \/ Retry(c, j)
      PROVE  UNCHANGED job
  BY <1>4 DEF Create, Cancel, Retry, Request
<1>5. ASSUME NEW c \in Clients, CallStep(c) \/ RequestFault(c), ~CallSubmit(c) PROVE UNCHANGED job
  BY <1>5 DEF CallStep, CreateRegister, CancelGate, CancelRaise, CancelWrite, RetryRenew,
     RetryWrite, RequestFault
<1>6. ASSUME NEW g \in Futures, RunStep(g) \/ RunFault(g), ~Resubmit(g) PROVE UNCHANGED job
  BY <1>6 DEF RunStep, Start, Read, Mark, Advance, Fail, Enter, ShowConsolidating, Commit,
     LeaveCritical, Project, Finish, Handle, WriteOutcome, Requeue, Cleanup, Observe, Report,
     Fire, RunFault
<1>7. CASE Restart
  BY <1>7 DEF Restart
<1>8. CASE \E c \in Clients : CallSubmit(c)
  BY <1>2, <1>8 DEF CallSubmit, TypeOK, RunsType
<1>9. CASE \E g \in Futures : Resubmit(g)
  <2>1. PICK g \in Futures : Submit(job[g], [pc EXCEPT ![g] = "over"])
    BY <1>9 DEF Resubmit
  <2>2. [pc EXCEPT ![g] = "over"] \in [Futures -> Steps]
    BY DEF TypeOK, RunsType, Steps
  <2> QED
    BY <1>2, <2>1, <2>2
<1> QED
  BY <1>1, <1>3, <1>4, <1>5, <1>6, <1>7, <1>8, <1>9 DEF Next

\* A run that starts the engine belongs to a job with nothing on record.
THEOREM NeverReplayed == Spec => NoReplay
<1>1. RecordInv' => \A f \in Futures : pc'[f] = "engine" => ~resume'[job'[f]]
  BY DEF RecordInv, Recorded, Before
<1>2. RecordInv /\ RecordInv' /\ [Next]_vars =>
        [\A f \in Futures : pc[f] # "engine" /\ pc'[f] = "engine" => ~resume'[job[f]]]_vars
  BY <1>1, JobKept DEF RecordInv, RunInv
<1> QED
  BY <1>2, RecordInvariant, PTL DEF Spec, NoReplay

-----------------------------------------------------------------------------
\* The critical section.  CriticalIsHeld is not inductive: a run whose runtime was not ready
\* would be requeued from "failing" and drop the job, but such a run never got that far.

InSection(g) ==
    /\ pc[g] \in {"stage", "commit", "uncrit", "failing", "handleTerminal", "handleCanceled",
                  "cleanup"}
    /\ pc[g] = "failing" => failure[g] # "runtime"

HeldInv == TypeOK /\ \A j \in critical : \E g \in Futures : job[g] = j /\ InSection(g)

\* A step that moves no run of the section, and adds no job to it.
LEMMA HeldKept ==
    ASSUME HeldInv, TypeOK', critical' \subseteq critical,
           \A g \in Futures : InSection(g) =>
               pc'[g] = pc[g] /\ job'[g] = job[g] /\ failure'[g] = failure[g]
    PROVE  HeldInv'
BY DEF HeldInv, InSection

\* A step of one run, which afterwards is in the section or has taken its job out of it.
LEMMA HeldByRun ==
    ASSUME HeldInv, TypeOK', NEW f \in Futures, NEW s \in Steps,
           pc' = [pc EXCEPT ![f] = s], job' = job,
           \A g \in Futures \ {f} : failure'[g] = failure[g],
           critical' \subseteq critical,
           job[f] \in critical' => InSection(f)'
    PROVE  HeldInv'
<1>1. \A g \in Futures : g # f /\ InSection(g) => InSection(g)'
  BY DEF InSection, HeldInv, TypeOK, RunsType
<1>2. ASSUME NEW j \in critical' PROVE \E g \in Futures : job'[g] = j /\ InSection(g)'
  <2>1. PICK g \in Futures : job[g] = j /\ InSection(g)
    BY <1>2 DEF HeldInv
  <2>2. CASE g = f
    BY <1>2, <2>1, <2>2
  <2>3. CASE g # f
    BY <1>1, <2>1, <2>3
  <2> QED
    BY <2>2, <2>3
<1> QED
  BY <1>2 DEF HeldInv

\* The job a run enters the section with is held by that run.
LEMMA HeldEnter == ASSUME HeldInv, TypeOK', NEW f \in Futures, Enter(f) PROVE HeldInv'
<1> USE DEF ledger, memory, runs, calls, Goto
<1>1. CASE pc' = [pc EXCEPT ![f] = "failing"]
  <2>1. /\ critical' = critical /\ job' = job
        /\ pc[f] = "enter" /\ failure' = [failure EXCEPT ![f] = "canceled"]
    BY <1>1 DEF Enter, HeldInv, TypeOK, RunsType
  <2>2. \A g \in Futures : InSection(g) => g # f
    BY <2>1 DEF InSection
  <2>3. \A g \in Futures : g # f =>
            pc'[g] = pc[g] /\ job'[g] = job[g] /\ failure'[g] = failure[g]
    BY <1>1, <2>1 DEF HeldInv, TypeOK, RunsType
  <2> QED
    BY <2>1, <2>2, <2>3, HeldKept
<1>2. CASE pc' = [pc EXCEPT ![f] = "stage"]
  <2>1. /\ critical' = critical \cup {job[f]} /\ job' = job
        /\ pc[f] = "enter" /\ failure' = failure
    BY <1>2 DEF Enter, HeldInv, TypeOK, RunsType
  <2>2. InSection(f)' /\ \A g \in Futures : InSection(g) => InSection(g)'
    BY <1>2, <2>1 DEF InSection, HeldInv, TypeOK, RunsType
  <2>3. \A j \in critical' : \E g \in Futures : job'[g] = j /\ InSection(g)'
    BY <2>1, <2>2 DEF HeldInv
  <2> QED
    BY <2>3 DEF HeldInv
<1> QED
  BY <1>1, <1>2 DEF Enter

\* The steps of a run after it entered the section, and the failures of the others.
LEMMA HeldSection ==
    ASSUME HeldInv, TypeOK', NEW f \in Futures,
           \/ ShowConsolidating(f) \/ Commit(f) \/ LeaveCritical(f) \/ WriteOutcome(f)
           \/ Cleanup(f) \/ RunFault(f)
           \/ (Fail(f) /\ pc[f] = "commit") \/ (Handle(f) /\ failure[f] # "runtime")
    PROVE  HeldInv'
<1> USE DEF ledger, memory, runs, calls, Goto
<1>1. /\ \E s \in Steps : pc' = [pc EXCEPT ![f] = s]
      /\ job' = job /\ critical' \subseteq critical
  BY DEF ShowConsolidating, Commit, LeaveCritical, WriteOutcome, Cleanup, RunFault, Fail, Handle,
     Steps, Owning, Run
<1>2. \A g \in Futures \ {f} : failure'[g] = failure[g]
  BY DEF ShowConsolidating, Commit, LeaveCritical, WriteOutcome, Cleanup, RunFault, Fail, Handle,
     HeldInv, TypeOK, RunsType
<1>3. job[f] \in critical' => InSection(f)'
  <2>1. CASE LeaveCritical(f) \/ Cleanup(f)
    BY <2>1 DEF LeaveCritical, Cleanup
  <2>2. CASE ShowConsolidating(f)
    BY <2>2 DEF ShowConsolidating, InSection, HeldInv, TypeOK, RunsType
  <2>6. CASE Commit(f)
    BY <2>6 DEF Commit, InSection, HeldInv, TypeOK, RunsType
  <2>7. CASE WriteOutcome(f)
    BY <2>7 DEF WriteOutcome, InSection, HeldInv, TypeOK, RunsType
  <2>3. CASE RunFault(f)
    BY <2>3 DEF RunFault, InSection, HeldInv, TypeOK, RunsType
  <2>4. CASE Fail(f) /\ pc[f] = "commit"
    BY <2>4 DEF Fail, Body, InSection, HeldInv, TypeOK, RunsType
  <2>5. CASE Handle(f) /\ failure[f] # "runtime"
    BY <2>5 DEF Handle, InSection, HeldInv, TypeOK, RunsType
  <2> QED
    BY <2>1, <2>2, <2>3, <2>4, <2>5, <2>6, <2>7
<1> QED
  BY <1>1, <1>2, <1>3, HeldByRun

\* The steps of a run outside the section.
LEMMA HeldOutside ==
    ASSUME HeldInv, TypeOK', NEW f \in Futures,
           \/ Start(f) \/ Read(f) \/ Mark(f) \/ Advance(f) \/ (Fail(f) /\ pc[f] # "commit")
           \/ Project(f) \/ Finish(f) \/ (Handle(f) /\ failure[f] = "runtime") \/ Requeue(f)
           \/ Observe(f) \/ Report(f) \/ Fire(f)
    PROVE  HeldInv'
<1> USE DEF ledger, memory, runs, calls, Goto
<1>1. ~InSection(f)
  BY DEF Start, Read, Mark, Advance, Fail, Body, Project, Finish, Handle, Requeue, Observe, Report,
     Fire, InSection
<1>2. /\ \E s \in Steps : pc' = [pc EXCEPT ![f] = s]
      /\ job' = job /\ \A g \in Futures \ {f} : failure'[g] = failure[g]
      /\ critical' = critical
  BY DEF Start, Read, Mark, Advance, Fail, Project, Finish, Handle, Requeue, Observe, Report, Fire,
     HeldInv, TypeOK, RunsType, Steps, Owning, Run, Body
<1>3. \A g \in Futures : g # f => pc'[g] = pc[g]
  BY <1>2 DEF HeldInv, TypeOK, RunsType
<1> QED
  BY <1>1, <1>2, <1>3, HeldKept

\* Every step leaves each job of the section with a run in it.
LEMMA HeldNext == HeldInv /\ [Next]_vars => HeldInv'
<1> SUFFICES ASSUME HeldInv, [Next]_vars PROVE HeldInv'
  OBVIOUS
<1>0. TypeOK'
  BY TypeNext DEF HeldInv
<1> USE DEF ledger, memory, runs, calls, Goto
<1>1. ASSUME NEW c \in Clients, NEW j \in Jobs, Create(c, j) \/ Cancel(c, j) \/ Retry(c, j)
      PROVE  HeldInv'
  <2>1. UNCHANGED <<pc, job, failure, critical>>
    BY <1>1 DEF Create, Cancel, Retry, Request
  <2> QED
    BY <1>0, <2>1, HeldKept
<1>2. ASSUME NEW c \in Clients, CallStep(c) \/ RequestFault(c) PROVE HeldInv'
  <2>1. UNCHANGED <<failure, critical>>
    BY <1>2 DEF CallStep, CreateRegister, CallSubmit, Submit, CancelGate, CancelRaise, CancelWrite,
       RetryRenew, RetryWrite, RequestFault
  <2>2. \A g \in Futures : pc[g] # "unused" => pc'[g] = pc[g] /\ job'[g] = job[g]
    BY <1>2 DEF CallStep, CreateRegister, CallSubmit, Submit, CancelGate, CancelRaise, CancelWrite,
       RetryRenew, RetryWrite, RequestFault, HeldInv, TypeOK, RunsType
  <2> QED
    BY <1>0, <2>1, <2>2, HeldKept DEF InSection
<1>3. ASSUME NEW f \in Futures, RunStep(f) \/ RunFault(f) PROVE HeldInv'
  <2>1. CASE Enter(f)
    BY <1>0, <2>1, HeldEnter
  <2>2. CASE Resubmit(f)
    <3>1. UNCHANGED <<failure, critical>> /\ pc[f] = "resubmit"
      BY <2>2 DEF Resubmit, Submit
    <3>2. \A g \in Futures : pc[g] \notin {"unused", "resubmit"} =>
              pc'[g] = pc[g] /\ job'[g] = job[g]
      BY <2>2 DEF Resubmit, Submit, HeldInv, TypeOK, RunsType
    <3> QED
      BY <1>0, <3>1, <3>2, HeldKept DEF InSection
  <2>3. CASE \/ ShowConsolidating(f) \/ Commit(f) \/ LeaveCritical(f) \/ WriteOutcome(f)
             \/ Cleanup(f) \/ RunFault(f)
             \/ (Fail(f) /\ pc[f] = "commit") \/ (Handle(f) /\ failure[f] # "runtime")
    BY <1>0, <2>3, HeldSection
  <2>4. CASE \/ Start(f) \/ Read(f) \/ Mark(f) \/ Advance(f) \/ (Fail(f) /\ pc[f] # "commit")
             \/ Project(f) \/ Finish(f) \/ (Handle(f) /\ failure[f] = "runtime") \/ Requeue(f)
             \/ Observe(f) \/ Report(f) \/ Fire(f)
    BY <1>0, <2>4, HeldOutside
  <2> QED
    BY <1>3, <2>1, <2>2, <2>3, <2>4 DEF RunStep
<1>4. CASE Restart
  <2>1. critical' = {}
    BY <1>4 DEF Restart
  <2> QED
    BY <1>0, <2>1 DEF HeldInv
<1>5. CASE UNCHANGED vars
  <2>1. UNCHANGED <<pc, job, failure, critical>>
    BY <1>5 DEF vars
  <2> QED
    BY <1>0, <2>1, HeldKept
<1> QED
  BY <1>1, <1>2, <1>3, <1>4, <1>5 DEF Next

\* No failure, fault or restart leaves a job in the critical section without its run: cancel()
\* does not refuse forever.
THEOREM CriticalHeld == Spec => []CriticalIsHeld
<1>1. Init => HeldInv
  BY TypeInit DEF Init, HeldInv
<1>2. HeldInv => CriticalIsHeld
  BY DEF HeldInv, InSection, CriticalIsHeld
<1> QED
  BY <1>1, <1>2, HeldNext, PTL DEF Spec
=============================================================================
