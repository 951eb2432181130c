---------------------------- MODULE LeafReading ----------------------------
(***************************************************************************)
(* Protocol V3: several documents of one company, each read window by      *)
(* window by a run of its own and written straight into the leaves of the  *)
(* facts tree that all of them share (facts_tree/md_reader.py,             *)
(* facts_tree/md_publish.py, facts_tree/rollup.py and the V3 part of       *)
(* document_read/service.py).                                              *)
(*                                                                         *)
(* The employee compares a window with the leaf it was shown and drafts a  *)
(* new version of it.  The draft is saved in the job's checkpoint before   *)
(* it is submitted.  A submission is one transaction, known by an          *)
(* operation id that depends on the job, the window and the leaf only; its *)
(* receipt is kept for ever, so a run that died before it saved the        *)
(* receipt submits the same draft again and is given the same answer.      *)
(*                                                                         *)
(* A block of a leaf is known by the job and the window it comes from.  A  *)
(* run that lost its lease can write nothing and is one that crashed.      *)
(***************************************************************************)
EXTENDS Integers, FiniteSets

CONSTANTS Jobs, Leaves,
          Last,           \* last window of each job
          Unreadable,     \* windows the host may be unable to show
          Factual,        \* jobs whose windows hold facts
          Legacy,         \* leaves that may be there already, without a structured body
          Limit,          \* calls of each phase, in all runs of each job
          CompareRetries, CorrectionAttempts,
          MaxRetries      \* bound: explicit retries of each job

Phases == {"classify", "attribute", "extract", "plan", "leaf"}
Windows == UNION {1 .. Last[j] : j \in Jobs}

ASSUME LeafReadingAssumption ==
    /\ IsFiniteSet(Jobs) /\ IsFiniteSet(Leaves)
    /\ Last \in [Jobs -> Nat \ {0}]
    /\ Unreadable \subseteq Windows /\ Factual \subseteq Jobs /\ Legacy \subseteq Leaves
    /\ Limit \in [Jobs -> [Phases -> Nat]] /\ MaxRetries \in [Jobs -> Nat]
    /\ CompareRetries \in Nat \ {0} /\ CorrectionAttempts \in Nat

VARIABLES
    refused,    \* windows of each job the host cannot show
    \* the leaves, shared by all jobs
    leaf,       \* the current version and the blocks of each leaf
    operation,  \* of each job, window and leaf: the submission that was committed
    consumed,   \* version of each leaf in the briefs of its trunk
    ledger,     \* windows of each job whose facts are in the fact ledger
    \* the checkpoint of each job
    record,     \* of each window: what was read
    assigned,   \* of each window and leaf: the assignment and its draft
    cursor, calls,
    covered,    \* mapped_md.done: every window was read
    finished,   \* done: the leaves were rolled up too
    retryAsked, \* upload options: an explicit retry no run has applied yet
    \* the runs
    pc, tries, retries,
    report      \* what the upload was last told

leaves     == <<leaf, operation, consumed, ledger>>
checkpoint == <<record, assigned, cursor, calls, covered, finished>>
vars == <<refused, leaves, checkpoint, retryAsked, pc, tries, retries, report>>

NoRecord     == [status |-> "none", prepared |-> "no", facts |-> FALSE,
                 format |-> 0, blocked |-> FALSE]
NoDraft      == [kind |-> "none", blocks |-> {}, conflict |-> FALSE]
NoBase       == [version |-> 0, blocks |-> {}]
NoAssignment == [status |-> "none", base |-> NoBase, draft |-> NoDraft, rounds |-> 0]
NoOperation  == [done |-> FALSE, base |-> NoBase, draft |-> NoDraft, version |-> 0, changed |-> FALSE]

Init ==
    /\ refused \in [Jobs -> SUBSET Unreadable]
    /\ \E old \in SUBSET Legacy :
          leaf = [l \in Leaves |-> [version |-> IF l \in old THEN 1 ELSE 0,
                                    blocks |-> {}, legacy |-> l \in old]]
    /\ operation = [j \in Jobs |-> [w \in Windows |-> [l \in Leaves |-> NoOperation]]]
    /\ consumed = [l \in Leaves |-> 0]
    /\ ledger = [j \in Jobs |-> {}]
    /\ record = [j \in Jobs |-> [w \in Windows |-> NoRecord]]
    /\ assigned = [j \in Jobs |-> [w \in Windows |-> [l \in Leaves |-> NoAssignment]]]
    /\ cursor = [j \in Jobs |-> 1]
    /\ calls = [j \in Jobs |-> [p \in Phases |-> 0]]
    /\ covered = [j \in Jobs |-> FALSE] /\ finished = [j \in Jobs |-> FALSE]
    /\ retryAsked = [j \in Jobs |-> FALSE]
    /\ pc = [j \in Jobs |-> "idle"] /\ tries = [j \in Jobs |-> 0]
    /\ retries = [j \in Jobs |-> 0] /\ report = [j \in Jobs |-> "partial"]
-----------------------------------------------------------------------------
(* Where a run is: all of it follows from the checkpoint. *)

Record(j)      == record[j][cursor[j]]
AtEnd(j)       == cursor[j] > Last[j]
Pending(j)     == ~AtEnd(j) /\ Record(j).status = "read_pending"
LeavesOf(j, w) == {l \in Leaves : assigned[j][w][l].status # "none"}
Open(j)        == {l \in Leaves : assigned[j][cursor[j]][l].status = "allocated"}
Comparing(j)   == ~AtEnd(j) /\ ~Pending(j) /\ Open(j) # {}
\* The assignment being worked on: assignments are taken in one fixed order.
Target(j)      == CHOOSE l \in Open(j) : TRUE
Work(j)        == assigned[j][cursor[j]][Target(j)]

Phase(j) == IF ~Pending(j) THEN "leaf"
            ELSE CASE Record(j).prepared = "no" -> "classify"
                   [] Record(j).prepared = "classified" -> "attribute"
                   [] Record(j).prepared = "attributed" -> "extract"
                   [] Record(j).prepared = "ready" -> "plan"

Goto(j, step) == pc' = [pc EXCEPT ![j] = step] /\ UNCHANGED <<tries, retries, report>>
Stop(j, told) == /\ pc' = [pc EXCEPT ![j] = "idle"]
                 /\ tries' = [tries EXCEPT ![j] = 0]
                 /\ report' = [report EXCEPT ![j] = told]
                 /\ UNCHANGED retries
Partial(j)    == Stop(j, "partial")

Keep(j, r)   == record' = [record EXCEPT ![j][cursor[j]] = r]
KeepWork(j, a) == assigned' = [assigned EXCEPT ![j][cursor[j]][Target(j)] = a]
\* What a step of a run leaves alone, unless it says otherwise.
Reads    == UNCHANGED <<refused, leaf, operation, consumed, retryAsked, covered, finished>>
ReadsOnly == Reads /\ UNCHANGED <<assigned, cursor, calls>>
Compares == Reads /\ UNCHANGED <<ledger, record, cursor, calls>>
-----------------------------------------------------------------------------
(* The run. *)

\* Mutant of Retried: the draft is dropped from every assignment, the settled ones too.
RetryAll(a) == IF a.status = "none" THEN a
               ELSE [a EXCEPT !.status = "allocated", !.rounds = 0, !.draft = NoDraft]
Retried(a) == IF a.status = "unresolved"
              THEN [a EXCEPT !.status = "allocated", !.rounds = 0, !.draft = NoDraft]
              ELSE a

Unresolved(j, w) == \E l \in Leaves : assigned[j][w][l].status = "unresolved"
Unread(j, w)     == record[j][w].status = "unresolved" /\ LeavesOf(j, w) = {}
Reopened(j)      == {w \in 1 .. Last[j] : record[j][w].blocked \/ Unread(j, w) \/ Unresolved(j, w)}

ApplyRetry(j) ==
    /\ record' = [record EXCEPT ![j] = [w \in Windows |->
                    LET r == IF @[w].blocked THEN [@[w] EXCEPT !.blocked = FALSE, !.format = 0] ELSE @[w]
                    IN IF Unread(j, w) THEN [r EXCEPT !.status = "read_pending"]
                       ELSE IF Unresolved(j, w) THEN [r EXCEPT !.status = "allocated"]
                       ELSE r]]
    /\ assigned' = [assigned EXCEPT ![j] = [w \in Windows |-> [l \in Leaves |-> Retried(@[w][l])]]]
    /\ IF Reopened(j) = {} THEN UNCHANGED <<cursor, covered, finished>>
       ELSE /\ cursor' = [cursor EXCEPT ![j] = CHOOSE w \in Reopened(j) : \A v \in Reopened(j) : w <= v]
            /\ covered' = [covered EXCEPT ![j] = FALSE]
            /\ finished' = [finished EXCEPT ![j] = FALSE]

\* The upload runs a job it has not reported done; a document that was read to its end is only
\* rolled up again.
Start(j) ==
    /\ pc[j] = "idle" /\ report[j] = "partial"
    /\ IF retryAsked[j] THEN ApplyRetry(j) ELSE UNCHANGED <<record, assigned, cursor, covered, finished>>
    /\ pc' = [pc EXCEPT ![j] = IF covered'[j] THEN "rollup" ELSE "work"]
    /\ retryAsked' = [retryAsked EXCEPT ![j] = FALSE]
    /\ UNCHANGED <<refused, leaves, calls, tries, retries, report>>

\* The user asks for an explicit retry of a job that is not running.
AskRetry(j) ==
    /\ pc[j] = "idle" /\ ~retryAsked[j] /\ retries[j] < MaxRetries[j]
    /\ report[j] = "partial"
    /\ retryAsked' = [retryAsked EXCEPT ![j] = TRUE]
    /\ retries' = [retries EXCEPT ![j] = @ + 1]
    /\ UNCHANGED <<refused, leaves, checkpoint, pc, tries, report>>

\* The process dies, or the lease of the job is lost.
Crash(j) == pc[j] # "idle" /\ Partial(j) /\ UNCHANGED <<refused, leaves, checkpoint, retryAsked>>

\* A window longer than the bound, or with too much context, is never sent.
RefuseWindow(j) ==
    /\ pc[j] = "work" /\ ~AtEnd(j) /\ cursor[j] \in refused[j]
    /\ Keep(j, [Record(j) EXCEPT !.status = "unresolved"])
    /\ cursor' = [cursor EXCEPT ![j] = @ + 1]
    /\ Goto(j, "work") /\ Reads /\ UNCHANGED <<ledger, assigned, calls>>

OpenWindow(j) ==
    /\ pc[j] = "work" /\ ~AtEnd(j) /\ cursor[j] \notin refused[j]
    /\ Record(j).status = "none"
    /\ Keep(j, [Record(j) EXCEPT !.status = "read_pending"])
    /\ Goto(j, "work") /\ ReadsOnly /\ UNCHANGED ledger

\* Two receipts of the wrong shape block the window until an explicit retry.
BlockFormat(j) ==
    /\ pc[j] = "work" /\ Pending(j) /\ cursor[j] \notin refused[j]
    /\ Record(j).prepared = "ready" /\ Record(j).format >= 2
    /\ Keep(j, [Record(j) EXCEPT !.blocked = TRUE])
    /\ Partial(j) /\ ReadsOnly /\ UNCHANGED ledger

PassWindow(j) ==
    /\ pc[j] = "work" /\ ~AtEnd(j) /\ cursor[j] \notin refused[j]
    /\ Record(j).status \notin {"none", "read_pending"} /\ Open(j) = {}
    /\ Keep(j, [Record(j) EXCEPT !.status = IF LeavesOf(j, cursor[j]) = {} THEN @ ELSE "processed"])
    /\ cursor' = [cursor EXCEPT ![j] = @ + 1]
    /\ Goto(j, "work") /\ Reads /\ UNCHANGED <<ledger, assigned, calls>>

\* Mutant of Cover: the leaves are not rolled up when the last window is read.
CoverAndFinish(j) ==
    /\ pc[j] = "work" /\ AtEnd(j)
    /\ covered' = [covered EXCEPT ![j] = TRUE]
    /\ Goto(j, "finish")
    /\ UNCHANGED <<refused, leaves, record, assigned, cursor, calls, finished, retryAsked>>
\* Every window has a receipt.
Cover(j) ==
    /\ pc[j] = "work" /\ AtEnd(j)
    /\ covered' = [covered EXCEPT ![j] = TRUE]
    /\ Goto(j, "rollup")
    /\ UNCHANGED <<refused, leaves, record, assigned, cursor, calls, finished, retryAsked>>
-----------------------------------------------------------------------------
(* A call of the employee: charged and saved before it leaves. *)

Askable(j) ==
    /\ pc[j] = "work"
    /\ \/ Pending(j) /\ cursor[j] \notin refused[j]
          /\ ~(Record(j).prepared = "ready" /\ Record(j).format >= 2)
       \/ Comparing(j) /\ cursor[j] \notin refused[j] /\ Work(j).draft = NoDraft

\* The leaf is read, and its version and text noted, before it is shown to the employee.
ReadLeaf(j) == IF Pending(j) THEN UNCHANGED assigned
               ELSE KeepWork(j, [Work(j) EXCEPT !.base = [version |-> leaf[Target(j)].version,
                                                          blocks |-> leaf[Target(j)].blocks]])

Ask(j) ==
    /\ Askable(j) /\ calls[j][Phase(j)] < Limit[j][Phase(j)]
    /\ calls' = [calls EXCEPT ![j][Phase(j)] = @ + 1]
    /\ ReadLeaf(j)
    /\ Goto(j, "call") /\ Reads /\ UNCHANGED <<ledger, record, cursor>>

\* No budget left, past the deadline, or a request too large to send.
StopAsking(j) ==
    /\ Askable(j) /\ ReadLeaf(j) /\ Partial(j)
    /\ Reads /\ UNCHANGED <<ledger, record, cursor, calls>>

\* A transport failure, or an answer refused as a whole: the job stops where it is.
NoAnswer(j) == pc[j] = "call" /\ Partial(j) /\ Reads /\ UNCHANGED <<ledger, record, assigned, cursor, calls>>

Answers(j, phase) == pc[j] = "call" /\ Pending(j) /\ Phase(j) = phase

Classify(j) ==
    /\ Answers(j, "classify")
    /\ Keep(j, [Record(j) EXCEPT !.prepared = "classified"])
    /\ Goto(j, "work") /\ ReadsOnly /\ UNCHANGED ledger

Attribute(j) ==
    /\ Answers(j, "attribute")
    /\ Keep(j, [Record(j) EXCEPT !.prepared = "attributed"])
    /\ pc' = [pc EXCEPT ![j] = "work"] /\ tries' = [tries EXCEPT ![j] = 0]
    /\ ReadsOnly /\ UNCHANGED <<ledger, retries, report>>

\* The second malformed attribution of a run stops it.
MalformedAttribution(j) ==
    /\ Answers(j, "attribute")
    /\ IF tries[j] = 1 THEN Partial(j)
       ELSE /\ pc' = [pc EXCEPT ![j] = "work"] /\ tries' = [tries EXCEPT ![j] = 1]
            /\ UNCHANGED <<retries, report>>
    /\ ReadsOnly /\ UNCHANGED <<ledger, record>>

\* The facts of a delivery and the checkpoint that names them are one transaction.
\* A delivery all of whose facts are refused is never the last.
Extract(j) ==
    /\ Answers(j, "extract")
    /\ \E facts \in {FALSE, (j \in Factual)}, complete \in BOOLEAN :
          /\ Keep(j, [Record(j) EXCEPT !.facts = @ \/ facts,
                                       !.prepared = IF complete THEN "ready" ELSE @])
          /\ ledger' = [ledger EXCEPT ![j] = IF facts THEN @ \union {cursor[j]} ELSE @]
    /\ Goto(j, "work") /\ ReadsOnly

\* The window is given to some leaves, or to none.
Plan(j) ==
    /\ Answers(j, "plan")
    /\ \E given \in SUBSET Leaves, outcome \in {"no_content", "unresolved"} :
          /\ Keep(j, [Record(j) EXCEPT !.status = IF given = {} THEN outcome ELSE "allocated"])
          /\ assigned' = [assigned EXCEPT ![j][cursor[j]] =
                            [l \in Leaves |-> IF l \in given
                                              THEN [NoAssignment EXCEPT !.status = "allocated"]
                                              ELSE NoAssignment]]
    /\ Goto(j, "work") /\ Reads /\ UNCHANGED <<ledger, cursor, calls>>

MalformedPlan(j) ==
    /\ Answers(j, "plan")
    /\ Keep(j, [Record(j) EXCEPT !.format = @ + 1])
    /\ Goto(j, "work") /\ ReadsOnly /\ UNCHANGED ledger

\* What the employee can draft against the text it was shown: the whole text or not, with or
\* without a block of its own, and a contradiction with what is there or none.
Drafts(j) ==
    [kind : {"no_content", "unresolved", "refused"}, blocks : {{}}, conflict : {FALSE}]
      \union [kind : {"submit"}, conflict : BOOLEAN,
              blocks : {kept \union own : kept \in {{}, Work(j).base.blocks},
                                          own \in {{}, {<<j, cursor[j]>>}}}]

Draft(j) ==
    /\ pc[j] = "call" /\ ~Pending(j)
    /\ \E d \in Drafts(j) : KeepWork(j, [Work(j) EXCEPT !.draft = d])
    /\ Goto(j, "work") /\ Compares
-----------------------------------------------------------------------------
(* A draft is decided, in this run or in the one that finds it in the checkpoint. *)

Decides(j) == pc[j] = "work" /\ Comparing(j) /\ cursor[j] \notin refused[j] /\ Work(j).draft # NoDraft

\* A leaf too large to be compared is left to an explicit retry.
TooLarge(j) ==
    /\ Askable(j) /\ ~Pending(j) /\ leaf[Target(j)].version > 0
    /\ KeepWork(j, [Work(j) EXCEPT !.status = "unresolved"])
    /\ Goto(j, "work") /\ Compares

NoContent(j) ==
    /\ Decides(j) /\ Work(j).draft.kind \in {"no_content", "unresolved"}
    /\ KeepWork(j, [Work(j) EXCEPT !.status = Work(j).draft.kind])
    /\ Goto(j, "work") /\ Compares

Committed(j) == operation[j][cursor[j]][Target(j)]
Stale(j) == Work(j).base.version # leaf[Target(j)].version

\* Every block of the leaf is sent again as it is; a contradiction names one of them; a leaf
\* without a structured body takes contradictions only.
Acceptable(j) ==
    LET d == Work(j).draft   on == leaf[Target(j)]
    IN IF on.legacy THEN d.conflict /\ d.blocks = {}
       ELSE on.blocks \subseteq d.blocks /\ (d.conflict => on.blocks # {})

Submits(j) == Decides(j) /\ Work(j).draft.kind = "submit"

\* Mutant of Submit: the draft replaces the leaf without being compared with it once more.
SubmitBlind(j) ==
    /\ Submits(j) /\ ~Committed(j).done
    /\ LET d == Work(j).draft   l == Target(j)   changed == d.blocks # leaf[l].blocks
           version == Work(j).base.version + (IF changed THEN 1 ELSE 0)
       IN /\ operation' = [operation EXCEPT ![j][cursor[j]][l] =
                              [done |-> TRUE, base |-> Work(j).base, draft |-> d,
                               version |-> version, changed |-> changed]]
          /\ leaf' = [leaf EXCEPT ![l].version = version, ![l].blocks = d.blocks]
    /\ Goto(j, "receipt")
    /\ UNCHANGED <<refused, consumed, ledger, checkpoint, retryAsked>>
\* The submission: the new version of the leaf, its contradictions and the receipt at once.
Submit(j) ==
    /\ Submits(j) /\ ~Committed(j).done /\ ~Stale(j) /\ Acceptable(j)
    /\ LET d == Work(j).draft   l == Target(j)   changed == d.blocks # leaf[l].blocks
           version == Work(j).base.version + (IF changed THEN 1 ELSE 0)
       IN /\ operation' = [operation EXCEPT ![j][cursor[j]][l] =
                              [done |-> TRUE, base |-> Work(j).base, draft |-> d,
                               version |-> version, changed |-> changed]]
          /\ leaf' = [leaf EXCEPT ![l].version = version, ![l].blocks = d.blocks]
    /\ Goto(j, "receipt")
    /\ UNCHANGED <<refused, consumed, ledger, checkpoint, retryAsked>>

\* The same request was committed before: its receipt is returned.
Replay(j) ==
    /\ Submits(j) /\ Committed(j).done
    /\ Committed(j).draft = Work(j).draft /\ Committed(j).base = Work(j).base
    /\ Goto(j, "receipt")
    /\ UNCHANGED <<refused, leaves, checkpoint, retryAsked>>

SaveReceipt(j) ==
    /\ pc[j] = "receipt"
    /\ KeepWork(j, [Work(j) EXCEPT !.status = "submitted"])
    /\ pc' = [pc EXCEPT ![j] = "work"] /\ tries' = [tries EXCEPT ![j] = 0]
    /\ Compares /\ UNCHANGED <<retries, report>>

\* Another job has changed the leaf: it is read and compared again, a bounded number of times a run.
BaseChanged(j) ==
    /\ Submits(j) /\ ~Committed(j).done /\ Stale(j)
    /\ KeepWork(j, [Work(j) EXCEPT !.draft = NoDraft])
    /\ IF tries[j] + 1 >= CompareRetries THEN Partial(j)
       ELSE /\ tries' = [tries EXCEPT ![j] = @ + 1]
            /\ UNCHANGED <<pc, retries, report>>
    /\ Compares

Refused(j) ==
    \/ Decides(j) /\ Work(j).draft.kind = "refused"
    \/ Submits(j) /\ Committed(j).done
         /\ (Committed(j).draft # Work(j).draft \/ Committed(j).base # Work(j).base)
    \/ Submits(j) /\ ~Committed(j).done /\ ~Stale(j) /\ ~Acceptable(j)

\* The draft is given back to be corrected, and given up when it was often enough.
RejectDraft(j) ==
    /\ Refused(j)
    /\ KeepWork(j, IF Work(j).rounds < CorrectionAttempts
                   THEN [Work(j) EXCEPT !.draft = NoDraft, !.rounds = @ + 1]
                   ELSE [Work(j) EXCEPT !.draft = NoDraft, !.status = "unresolved"])
    /\ Goto(j, "work") /\ Compares
-----------------------------------------------------------------------------
(* The briefs of the trunks and the tree follow the leaves. *)

Noticed(l) == {operation[p[1]][p[2]][l].version :
                 p \in {q \in Jobs \X Windows : operation[q[1]][q[2]][l].changed}}
Behind     == {l \in Leaves : \E v \in Noticed(l) : v > consumed[l]}

\* All briefs are rendered from all leaves and the versions acknowledged in one transaction.
Consume(j) ==
    /\ pc[j] = "rollup"
    /\ consumed' = [l \in Leaves |-> IF l \in Behind THEN leaf[l].version ELSE consumed[l]]
    /\ Goto(j, "finish")
    /\ UNCHANGED <<refused, leaf, operation, ledger, checkpoint, retryAsked>>

\* A brief that cannot be rendered stops the job; it is rendered again by the next run.
ConsumeRefused(j) ==
    /\ pc[j] = "rollup" /\ Behind # {}
    /\ finished' = [finished EXCEPT ![j] = FALSE]
    /\ Partial(j)
    /\ UNCHANGED <<refused, leaves, record, assigned, cursor, calls, covered, retryAsked>>

Settled(j) == \A w \in 1 .. Last[j] :
                 /\ record[j][w].status # "unresolved"
                 /\ \A l \in Leaves : assigned[j][w][l].status # "unresolved"

\* The upload reports success only when no reading is left unresolved.
Finish(j) ==
    /\ pc[j] = "finish"
    /\ finished' = [finished EXCEPT ![j] = TRUE]
    /\ Stop(j, IF Settled(j) THEN "done" ELSE "partial")
    /\ UNCHANGED <<refused, leaves, record, assigned, cursor, calls, covered, retryAsked>>
-----------------------------------------------------------------------------
Step(j) ==
    \/ RefuseWindow(j) \/ OpenWindow(j) \/ BlockFormat(j) \/ PassWindow(j) \/ Cover(j)
    \/ Ask(j) \/ StopAsking(j) \/ NoAnswer(j)
    \/ Classify(j) \/ Attribute(j) \/ MalformedAttribution(j) \/ Extract(j)
    \/ Plan(j) \/ MalformedPlan(j) \/ Draft(j)
    \/ TooLarge(j) \/ NoContent(j) \/ Submit(j) \/ Replay(j) \/ SaveReceipt(j)
    \/ BaseChanged(j) \/ RejectDraft(j)
    \/ Consume(j) \/ ConsumeRefused(j) \/ Finish(j)

Next == \E j \in Jobs : Start(j) \/ AskRetry(j) \/ Crash(j) \/ Step(j)

Spec == Init /\ [][Next]_vars
-----------------------------------------------------------------------------
Bases  == [version : Nat, blocks : SUBSET (Jobs \X Windows)]
Texts == [kind : {"none", "no_content", "unresolved", "refused", "submit"},
             blocks : SUBSET (Jobs \X Windows), conflict : BOOLEAN]
Operations == [done : BOOLEAN, base : Bases, draft : Texts, version : Nat, changed : BOOLEAN]
Records == [status : {"none", "read_pending", "allocated", "processed", "no_content", "unresolved"},
            prepared : {"no", "classified", "attributed", "ready"}, facts : BOOLEAN,
            format : 0 .. 2, blocked : BOOLEAN]
Assignments == [status : {"none", "allocated", "submitted", "no_content", "unresolved"},
                base : Bases, draft : Texts, rounds : 0 .. CorrectionAttempts]
LeafTypes ==
    /\ refused \in [Jobs -> SUBSET Unreadable]
    /\ leaf \in [Leaves -> [version : Nat, blocks : SUBSET (Jobs \X Windows), legacy : BOOLEAN]]
    /\ consumed \in [Leaves -> Nat] /\ \A l \in Leaves : consumed[l] <= leaf[l].version
    /\ ledger \in [Jobs -> SUBSET Windows]
    /\ operation \in [Jobs -> [Windows -> [Leaves -> Operations]]]
CheckpointTypes ==
    /\ record \in [Jobs -> [Windows -> Records]]
    /\ assigned \in [Jobs -> [Windows -> [Leaves -> Assignments]]]
    /\ cursor \in [Jobs -> Nat] /\ \A j \in Jobs : cursor[j] \in 1 .. Last[j] + 1
    /\ calls \in [Jobs -> [Phases -> Nat]] /\ \A j \in Jobs, p \in Phases : calls[j][p] <= Limit[j][p]
    /\ covered \in [Jobs -> BOOLEAN] /\ finished \in [Jobs -> BOOLEAN]
RunTypes ==
    /\ retryAsked \in [Jobs -> BOOLEAN]
    /\ pc \in [Jobs -> {"idle", "work", "call", "receipt", "rollup", "finish"}]
    /\ tries \in [Jobs -> Nat] /\ retries \in [Jobs -> Nat] /\ \A j \in Jobs : retries[j] <= MaxRetries[j]
    /\ report \in [Jobs -> {"partial", "done"}]
TypeOK == LeafTypes /\ CheckpointTypes /\ RunTypes

\* A submission that was committed before its receipt was saved is found again: whatever died in
\* between, the checkpoint still holds the very draft and base that were committed, so the resumed
\* run is given the stored receipt and never writes the leaf, or rejects the draft, a second time.
ReplayMatches ==
    \A j \in Jobs, w \in Windows, l \in Leaves :
       LET o == operation[j][w][l]   a == assigned[j][w][l]
       IN /\ o.done => a.status \in {"allocated", "submitted"} /\ a.draft = o.draft /\ a.base = o.base
          /\ a.status = "submitted" => o.done

\* An upload that reported success has read every window, committed every assigned leaf it did not
\* find empty, has its facts in the ledger, and shows all of its changes in the briefs.
SuccessIsWhole ==
    \A j \in Jobs : report[j] = "done" =>
       \A w \in 1 .. Last[j] :
          /\ record[j][w].status \in {"processed", "no_content"}
          /\ record[j][w].facts <=> w \in ledger[j]
          /\ \A l \in Leaves :
                LET o == operation[j][w][l]
                IN /\ assigned[j][w][l].status # "unresolved" /\ assigned[j][w][l].status # "allocated"
                   /\ o.done /\ o.changed => consumed[l] >= o.version /\ o.draft.blocks \subseteq leaf[l].blocks

\* Whatever the documents do at the same time, and wherever they die, their leaves are shared
\* texts to which every window commits at most once, out of which nothing is lost, and whose
\* versions are made one after the other (SharedLeaves).
Shared == INSTANCE SharedLeaves WITH
             Writers <- Jobs \X Windows,
             version <- [l \in Leaves |-> leaf[l].version],
             text    <- [l \in Leaves |-> leaf[l].blocks],
             written <- {p \in (Jobs \X Windows) \X Leaves : operation[p[1][1]][p[1][2]][p[2]].done}
ImplementsSharedLeaves == Shared!Spec
=============================================================================
