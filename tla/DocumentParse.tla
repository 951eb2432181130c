---------------------------- MODULE DocumentParse ----------------------------
(***************************************************************************)
(* From an uploaded file to a reviewed conversion: run_parse of the        *)
(* adapter (openclaw_adapter.py) hands a task to the agent behind the      *)
(* gateway and collects what it leaves in the outbox; the staging store    *)
(* keeps every conversion and replaces the map of the file (staging.py,    *)
(* mapping_store.py); an employee reviews the conversion against the       *)
(* original and may have it done again (gate.py, service.py); the pipeline *)
(* binds the job to what passed (app.py, dossier.py).                      *)
(*                                                                         *)
(* One file, uploaded by several companies.  Its task, its place in the    *)
(* outbox and its map are named by its hash alone, so the jobs share them; *)
(* and a call the host has given up on may still be answered: the gateway  *)
(* goes on.  A conversion is a number, given in the order they finish.     *)
(*                                                                         *)
(* Left out: the issues in the task of a second conversion and the sidecar *)
(* with the quality of a map (no code reads either), the page snapshots,   *)
(* the extracted objects (written atomically, the same for everyone).      *)
(***************************************************************************)
EXTENDS Naturals, Sequences, FiniteSets

CONSTANTS Jobs,         \* jobs whose file has this hash
          NoJob,
          MaxCalls,     \* model calls of one review (SAM_QC_MAX_MODEL_CALLS)
          MaxReworks,   \* conversions an employee may order (SAM_QC_MAX_REWORKS)
          MaxCrashes,   \* bound: stops of the process
          MaxCanceled,  \* bound: jobs canceled and not started again
          MaxStarts     \* bound: times jobs are started

ASSUME DocumentParseAssumption ==
    /\ NoJob \notin Jobs /\ IsFiniteSet(Jobs)
    /\ MaxCalls \in Nat \ {0} /\ MaxReworks \in 0 .. 3 /\ MaxCrashes \in Nat /\ MaxCanceled \in Nat
    /\ MaxStarts \in Nat \ {0}

VARIABLES
    pc,        \* where the worker of each job is
    round,     \* reworks of its review so far
    calls,     \* model calls of its review
    checked,   \* whether a script of this round has read the original
    verdict,   \* what the review is about to persist
    row,       \* the staging row the job works on
    got,       \* what it took from the outbox
    cancel,    \* jobs whose cancel event is set
    starts,    \* times a job was started
    task,      \* whether inbox/<hash>.json exists
    outbox,    \* the conversion in outbox/<hash>.json
    made,      \* conversions finished so far
    agent,     \* the agent's side of each job's call: "none", "asked", "working" or "done"
    stray,     \* calls the host gave up on that the gateway still works on
    rows,      \* parse_staging
    writer,    \* the job in a transaction that has replaced the map and is not committed
    map,       \* the conversion map/<hash>.md was rendered from
    bound,     \* the manifest each job keeps in memory_kv, and reads: 0 or a staging row
    crashes,
    verified,  \* history: which job ran a script on which conversion
    lost       \* history: the conversion whose staging was last rolled back

review  == <<round, calls, checked, verdict>>
worker  == <<row, got, review>>
handoff == <<task, outbox, made, agent, stray>>
store   == <<rows, writer, map>>
history == <<verified, lost>>
vars    == <<pc, worker, cancel, starts, handoff, store, bound, crashes, history>>

Nothing == [id |-> 0, parsed |-> FALSE]
Unread  == [by |-> NoJob, status |-> "none"]
Ended   == {"bound", "failed", "needs_human", "canceled"}

Init ==
    /\ pc = [j \in Jobs |-> "new"] /\ round = [j \in Jobs |-> 0] /\ calls = [j \in Jobs |-> 0]
    /\ checked = [j \in Jobs |-> FALSE] /\ verdict = [j \in Jobs |-> "none"]
    /\ row = [j \in Jobs |-> 0] /\ got = [j \in Jobs |-> Nothing]
    /\ cancel = {} /\ starts = 0
    /\ task = FALSE /\ outbox = Nothing /\ made = 0 /\ agent = [j \in Jobs |-> "none"] /\ stray = 0
    /\ rows = <<>> /\ writer = NoJob /\ map = 0
    /\ bound = [j \in Jobs |-> 0] /\ crashes = 0 /\ verified = {} /\ lost = 0

Goto(j, where) == pc' = [pc EXCEPT ![j] = where]

\* What the workers of js had in hand is gone.
Forget(js) ==
    /\ row' = [j \in Jobs |-> IF j \in js THEN 0 ELSE row[j]]
    /\ got' = [j \in Jobs |-> IF j \in js THEN Nothing ELSE got[j]]
    /\ round' = [j \in Jobs |-> IF j \in js THEN 0 ELSE round[j]]
    /\ calls' = [j \in Jobs |-> IF j \in js THEN 0 ELSE calls[j]]
    /\ checked' = [j \in Jobs |-> j \notin js /\ checked[j]]
    /\ verdict' = [j \in Jobs |-> IF j \in js THEN "none" ELSE verdict[j]]

\* The cancel event is looked at between the steps; a job that sees it stops there.
Live(j) == j \notin cancel

-----------------------------------------------------------------------------
(* The pipeline.                                                           *)

Binds(j, i) == rows[i].quality = [by |-> j, status |-> "pass"]

\* A job that has a reviewed conversion reads that one again, whatever was staged since.
Start(j) ==
    /\ pc[j] \in {"new", "failed", "needs_human", "canceled"} /\ starts < MaxStarts
    /\ starts' = starts + 1 /\ cancel' = cancel \ {j}
    /\ IF bound[j] = 0 THEN Goto(j, "start")
       ELSE IF Binds(j, bound[j]) THEN Goto(j, "bound") ELSE Goto(j, "failed")
    /\ UNCHANGED <<worker, handoff, store, bound, crashes, history>>

Cancel(j) ==
    /\ pc[j] \notin Ended \cup {"new"} /\ cancel' = cancel \cup {j}
    /\ Cardinality(cancel' \cup {k \in Jobs : pc[k] = "canceled"}) <= MaxCanceled
    /\ UNCHANGED <<pc, worker, starts, handoff, store, bound, crashes, history>>

StopCanceled(j) ==
    /\ pc[j] \in {"start", "staged", "round", "ask", "answer", "reparse", "reviewed"} /\ ~Live(j)
    /\ Goto(j, "canceled") /\ cancel' = cancel \ {j} /\ Forget({j})
    /\ UNCHANGED <<starts, handoff, store, bound, crashes, history>>

\* The gateway is probed before the parser is started.
EnsureReady(j) ==
    /\ pc[j] = "start" /\ Live(j)
    /\ Goto(j, "task") \/ Goto(j, "failed")
    /\ Forget({j})
    /\ UNCHANGED <<cancel, starts, handoff, store, bound, crashes, history>>

\* What the pipeline makes of the staged conversion.
Staged(j) ==
    /\ pc[j] = "staged" /\ Live(j)
    /\ Goto(j, IF rows[row[j]].parsed THEN "round" ELSE "failed")
    /\ UNCHANGED <<worker, cancel, starts, handoff, store, bound, crashes, history>>

\* The proof of quality must be about this job and this conversion; what is bound stays bound.
Bind(j) ==
    /\ pc[j] = "reviewed" /\ Live(j)
    /\ IF Binds(j, row[j]) THEN Goto(j, "bound") /\ bound' = [bound EXCEPT ![j] = IF @ = 0 THEN row[j] ELSE @]
                           ELSE Goto(j, "failed") /\ UNCHANGED bound
    /\ Forget({j})
    /\ UNCHANGED <<cancel, starts, handoff, store, crashes, history>>

\* The reading of what is bound breaks off (DocumentReading); the job may be started again.
ReadingStops(j) ==
    /\ pc[j] = "bound" /\ Goto(j, "failed")
    /\ UNCHANGED <<worker, cancel, starts, handoff, store, bound, crashes, history>>

-----------------------------------------------------------------------------
(* run_parse.                                                              *)

WriteTask(j) ==
    /\ pc[j] = "task" /\ Goto(j, "clear") /\ task' = TRUE
    /\ UNCHANGED <<worker, cancel, starts, outbox, made, agent, stray, store, bound, crashes, history>>

\* Mutant of ClearOutbox: what an earlier run left stays.
KeepOutbox(j) ==
    /\ pc[j] = "clear" /\ Goto(j, "invoke") /\ agent' = [agent EXCEPT ![j] = "asked"]
    /\ got' = [got EXCEPT ![j] = [id |-> made, parsed |-> FALSE]]
    /\ UNCHANGED <<outbox, row, review, cancel, starts, task, made, stray, store, bound, crashes, history>>
\* The output of an earlier run is removed, and the agent is asked; got keeps how many
\* conversions there were.
ClearOutbox(j) ==
    /\ pc[j] = "clear" /\ Goto(j, "invoke") /\ outbox' = Nothing
    /\ agent' = [agent EXCEPT ![j] = "asked"]
    /\ got' = [got EXCEPT ![j] = [id |-> made, parsed |-> FALSE]]
    /\ UNCHANGED <<row, review, cancel, starts, task, made, stray, store, bound, crashes, history>>

\* The tool of the agent reads the task; without one it fails.  The agent may also not call it.
AgentStarts(j) ==
    /\ agent[j] = "asked" /\ (\E a \in {"done"} \cup (IF task THEN {"working"} ELSE {}) : agent' = [agent EXCEPT ![j] = a])
    /\ UNCHANGED <<pc, worker, cancel, starts, task, outbox, made, stray, store, bound, crashes, history>>

Convert == \E p \in BOOLEAN : outbox' = [id |-> made + 1, parsed |-> p]

\* The converted file is renamed into its place; or no engine leaves a file.
AgentEnds(j) ==
    /\ agent[j] = "working" /\ agent' = [agent EXCEPT ![j] = "done"]
    /\ \/ Convert /\ made' = made + 1
       \/ UNCHANGED <<outbox, made>>
    /\ UNCHANGED <<pc, worker, cancel, starts, task, stray, store, bound, crashes, history>>
StrayEnds ==
    /\ stray > 0 /\ stray' = stray - 1
    /\ \/ Convert /\ made' = made + 1
       \/ UNCHANGED <<outbox, made>>
    /\ UNCHANGED <<pc, worker, cancel, starts, task, agent, store, bound, crashes, history>>

\* The call times out or breaks; a tool that has begun may go on.
Begun(j)  == agent[j] = "working" \/ (agent[j] = "asked" /\ task)
Hangup(j) == stray' \in {stray} \cup (IF Begun(j) THEN {stray + 1} ELSE {})
GiveUp(j) ==
    /\ pc[j] = "invoke" /\ Goto(j, "unparsed") /\ Hangup(j) /\ agent' = [agent EXCEPT ![j] = "none"]
    /\ UNCHANGED <<worker, cancel, starts, task, outbox, made, store, bound, crashes, history>>

\* Whatever lies in the outbox now is taken for the answer.
Collect(j) ==
    /\ pc[j] = "invoke" /\ agent[j] = "done" /\ agent' = [agent EXCEPT ![j] = "none"]
    /\ IF outbox = Nothing THEN Goto(j, "unparsed") /\ UNCHANGED got
                           ELSE Goto(j, "insert") /\ got' = [got EXCEPT ![j] = outbox]
    /\ UNCHANGED <<row, review, cancel, starts, task, outbox, made, stray, store, bound, crashes, history>>

\* The task is removed, whoever wrote it.  A second conversion that failed leaves the review
\* with the first one.
EndParse(j) ==
    /\ pc[j] \in {"parsed", "unparsed"} /\ task' = FALSE
    /\ \/ pc[j] = "parsed" /\ round[j] = 0 /\ Goto(j, "staged") /\ UNCHANGED verdict
       \/ pc[j] = "unparsed" /\ round[j] = 0 /\ Goto(j, "failed") /\ UNCHANGED verdict
       \/ pc[j] = "parsed" /\ round[j] > 0 /\ rows[row[j]].parsed /\ Goto(j, "round") /\ UNCHANGED verdict
       \/ /\ round[j] > 0 /\ (pc[j] = "parsed" => ~rows[row[j]].parsed)
          /\ Goto(j, "persist") /\ verdict' = [verdict EXCEPT ![j] = "needs_human"]
    /\ UNCHANGED <<row, got, round, calls, checked, cancel, starts, outbox, made, agent, stray, store, bound,
                   crashes, history>>

-----------------------------------------------------------------------------
(* The staging store.  A writer holds the lock of the database from its    *)
(* first statement on; the files of the map are replaced before it commits.*)

Latest(s) == LET parsed == {i \in DOMAIN s : s[i].parsed} IN
             IF parsed = {} THEN 0 ELSE s[CHOOSE i \in parsed : \A k \in parsed : k <= i].conv

\* The rows as the transaction of job j leaves them.
Inserted(j) == Append(rows, [conv |-> got[j].id, parsed |-> got[j].parsed, quality |-> Unread])
Judged(j)   == [rows EXCEPT ![row[j]].quality = [by |-> j, status |-> verdict[j]]]
After(j)    == IF pc[j] = "insert" THEN Inserted(j) ELSE Judged(j)

\* Mutant of ReplaceMap: the map is rendered from what the job has in hand.
ReplaceMapOwn(j) ==
    /\ pc[j] \in {"insert", "persist"} /\ writer = NoJob /\ writer' = j
    /\ map' = IF pc[j] = "insert" THEN (IF got[j].parsed THEN got[j].id ELSE map) ELSE rows[row[j]].conv
    /\ UNCHANGED <<pc, worker, cancel, starts, handoff, rows, bound, crashes, history>>
ReplaceMap(j) ==
    /\ pc[j] \in {"insert", "persist"} /\ writer = NoJob /\ writer' = j
    /\ map' = IF IF pc[j] = "insert" THEN got[j].parsed ELSE rows[row[j]].parsed THEN Latest(After(j)) ELSE map
    /\ UNCHANGED <<pc, worker, cancel, starts, handoff, rows, bound, crashes, history>>

Commit(j) ==
    /\ writer = j /\ writer' = NoJob /\ rows' = After(j)
    /\ row' = [row EXCEPT ![j] = IF pc[j] = "insert" THEN Len(rows') ELSE @]
    /\ Goto(j, IF pc[j] = "insert" THEN "parsed" ELSE "judged") /\ got' = [got EXCEPT ![j] = Nothing]
    /\ UNCHANGED <<review, cancel, starts, handoff, map, bound, crashes, history>>

\* A correction or a rebuild renders the map of the latest row again.
RebuildMap ==
    /\ writer = NoJob /\ Latest(rows) # 0 /\ map' = Latest(rows)
    /\ UNCHANGED <<pc, worker, cancel, starts, handoff, rows, writer, bound, crashes, history>>

-----------------------------------------------------------------------------
(* The review.                                                             *)

\* Mutant of BeginRound: the script of an earlier round counts.
BeginRoundVerified(j) ==
    /\ pc[j] = "round" /\ Live(j)
    /\ \/ Goto(j, "ask") /\ UNCHANGED verdict
       \/ Goto(j, "persist") /\ verdict' = [verdict EXCEPT ![j] = "needs_human"]
    /\ UNCHANGED <<checked, row, got, round, calls, cancel, starts, handoff, store, bound, crashes, history>>
\* The evidence is laid out, or that fails.
BeginRound(j) ==
    /\ pc[j] = "round" /\ Live(j) /\ checked' = [checked EXCEPT ![j] = FALSE]
    /\ \/ Goto(j, "ask") /\ UNCHANGED verdict
       \/ Goto(j, "persist") /\ verdict' = [verdict EXCEPT ![j] = "needs_human"]
    /\ UNCHANGED <<row, got, round, calls, cancel, starts, handoff, store, bound, crashes, history>>

\* A call is charged before it is made; an exhausted budget or a transport error asks for a person.
AskEmployee(j) ==
    /\ pc[j] = "ask" /\ Live(j)
    /\ \/ /\ calls[j] < MaxCalls /\ calls' = [calls EXCEPT ![j] = @ + 1]
          /\ Goto(j, "answer") /\ UNCHANGED verdict
       \/ Goto(j, "persist") /\ verdict' = [verdict EXCEPT ![j] = "needs_human"] /\ UNCHANGED calls
    /\ UNCHANGED <<row, got, round, checked, cancel, starts, handoff, store, bound, crashes, history>>

\* The employee's script is run on the original and the conversion.
Verify(j) ==
    /\ pc[j] = "answer" /\ Live(j) /\ Goto(j, "ask")
    /\ checked' = [checked EXCEPT ![j] = TRUE]
    /\ verified' = verified \cup {<<j, rows[row[j]].conv>>}
    /\ UNCHANGED <<row, got, round, calls, verdict, cancel, starts, handoff, store, bound, crashes, lost>>
ViewSnapshot(j) ==
    /\ pc[j] = "answer" /\ Live(j) /\ Goto(j, "ask")
    /\ UNCHANGED <<worker, cancel, starts, handoff, store, bound, crashes, history>>

\* A conclusion counts only after a script of this round; a rework beyond the limit, and
\* whatever is no valid answer, asks for a person.
Conclude(j) ==
    /\ pc[j] = "answer" /\ Live(j) /\ Goto(j, "persist")
    /\ \E v \in {"needs_human"} \cup (IF checked[j] THEN {"pass"} ELSE {})
                \cup (IF checked[j] /\ round[j] < MaxReworks THEN {"rework"} ELSE {}) :
          verdict' = [verdict EXCEPT ![j] = v]
    /\ UNCHANGED <<row, got, round, calls, checked, cancel, starts, handoff, store, bound, crashes, history>>

\* After the verdict is stored: a new conversion, the end of the job, or the reading.
Judge(j) ==
    /\ pc[j] = "judged"
    /\ \/ verdict[j] = "rework" /\ Goto(j, "reparse")
       \/ verdict[j] = "needs_human" /\ Goto(j, "needs_human")
       \/ verdict[j] = "pass" /\ Goto(j, "reviewed")
    /\ IF verdict[j] = "needs_human" THEN Forget({j}) ELSE UNCHANGED worker
    /\ UNCHANGED <<cancel, starts, handoff, store, bound, crashes, history>>
Reparse(j) ==
    /\ pc[j] = "reparse" /\ Live(j) /\ Goto(j, "task") /\ round' = [round EXCEPT ![j] = @ + 1]
    /\ UNCHANGED <<row, got, calls, checked, verdict, cancel, starts, handoff, store, bound, crashes, history>>

-----------------------------------------------------------------------------
\* The process stops: open transactions are rolled back, replaced files are not; what a worker
\* had in hand is gone.
Crash ==
    /\ crashes < MaxCrashes /\ crashes' = crashes + 1
    /\ pc' = [j \in Jobs |-> IF pc[j] \in Ended \cup {"new"} THEN pc[j] ELSE "failed"]
    /\ lost' = IF writer # NoJob /\ pc[writer] = "insert" THEN map ELSE lost
    /\ writer' = NoJob /\ cancel' = {} /\ agent' = [j \in Jobs |-> "none"]
    /\ stray' \in stray .. stray + Cardinality({j \in Jobs : Begun(j)})
    /\ Forget(Jobs)
    /\ UNCHANGED <<starts, task, outbox, made, rows, map, bound, verified>>

Work(j) ==
    \/ StopCanceled(j) \/ EnsureReady(j) \/ Staged(j) \/ Bind(j) \/ ReadingStops(j)
    \/ WriteTask(j) \/ ClearOutbox(j) \/ Collect(j) \/ EndParse(j) \/ ReplaceMap(j) \/ Commit(j)
    \/ BeginRound(j) \/ AskEmployee(j) \/ Verify(j) \/ ViewSnapshot(j) \/ Conclude(j) \/ Judge(j) \/ Reparse(j)
Agent(j) == AgentStarts(j) \/ AgentEnds(j)

Next ==
    \/ \E j \in Jobs : Start(j) \/ Cancel(j) \/ Work(j) \/ GiveUp(j) \/ Agent(j)
    \/ StrayEnds \/ RebuildMap \/ Crash

Spec == Init /\ [][Next]_vars

-----------------------------------------------------------------------------
Verdicts == {"none", "pass", "rework", "needs_human"}
Steps == Ended \cup {"new", "start", "task", "clear", "invoke", "insert", "parsed", "unparsed", "staged",
                     "round", "ask", "answer", "persist", "judged", "reparse", "reviewed"}
TypeOK ==
    /\ pc \in [Jobs -> Steps] /\ round \in [Jobs -> Nat] /\ calls \in [Jobs -> Nat]
    /\ checked \in [Jobs -> BOOLEAN] /\ verdict \in [Jobs -> Verdicts]
    /\ row \in [Jobs -> 0 .. Len(rows)] /\ got \in [Jobs -> [id : 0 .. made, parsed : BOOLEAN]]
    /\ cancel \subseteq Jobs /\ starts \in Nat /\ task \in BOOLEAN
    /\ outbox \in [id : 0 .. made, parsed : BOOLEAN] /\ made \in Nat
    /\ agent \in [Jobs -> {"none", "asked", "working", "done"}] /\ stray \in Nat
    /\ rows \in Seq([conv : Nat, parsed : BOOLEAN, quality : [by : Jobs \cup {NoJob}, status : Verdicts]])
    /\ writer \in Jobs \cup {NoJob} /\ map \in Nat /\ bound \in [Jobs -> 0 .. Len(rows)]
    /\ crashes \in Nat /\ verified \subseteq Jobs \X Nat /\ lost \in Nat

(***************************************************************************)
(* Only a conversion that this job's review passed is ever bound to the    *)
(* job and read, and a conversion passes only if a script of that review   *)
(* was run on that very conversion: not on the one before the rework, not  *)
(* on the conversion another job of the same file staged meanwhile.        *)
(***************************************************************************)
ReviewedIsRead ==
    /\ \A j \in Jobs : bound[j] # 0 => Binds(j, bound[j])
    /\ \A i \in DOMAIN rows : rows[i].quality.status = "pass" => <<rows[i].quality.by, rows[i].conv>> \in verified

(***************************************************************************)
(* What a run of run_parse stages was finished after that run began: the   *)
(* output of an earlier run is never taken for its answer.                 *)
(***************************************************************************)
StagedIsFresh ==
    [][ \A j \in Jobs : pc[j] = "invoke" /\ pc'[j] = "insert" => got'[j].id > got[j].id ]_vars

(***************************************************************************)
(* While nobody writes, the map shows the latest parsed row, in whatever   *)
(* order the jobs of the file stage and judge their conversions; a stop    *)
(* between the replacement of the files and the commit leaves the          *)
(* conversion whose staging was rolled back, until the next writer.        *)
(***************************************************************************)
MapFollowsRows == writer = NoJob => map \in {Latest(rows), lost}
=============================================================================
