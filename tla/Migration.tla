----------------------------- MODULE Migration -----------------------------
(***************************************************************************)
(* The migration of a company's facts to another template pack, up to the  *)
(* gate in front of its execution (migration_snapshot.py,                  *)
(* migration_plan_builder.py, migration_plans.py, migration_host.py), with *)
(* the work that goes on in the company meanwhile: uploads, reviews, the   *)
(* registry of sources and the backfill of old facts (source_registry.py,  *)
(* source_backfill.py).                                                    *)
(*                                                                         *)
(* A plan is built from a copy of the company's inputs, taken days before  *)
(* it is approved and days before it is carried out.  Between any two of   *)
(* these steps the company goes on working.  Each step is one transaction  *)
(* that compares the copy with the tables.                                 *)
(*                                                                         *)
(* What the binding, the identities and the placements themselves allow is *)
(* the subject of CompanyTree; here only that they change.                 *)
(***************************************************************************)
EXTENDS Naturals, FiniteSets

CONSTANTS Rows,        \* rows of table facts, in the order they are written
          Misquoted,   \* rows whose source coordinates prove nothing
          Stray,       \* rows of a file that only a parse job can vouch for
          Batches,     \* backfill requests
          Plans,       \* migration plans
          Uploads,        \* parse jobs: uploads to the company
          MaxWrites    \* bound: writes of leaves and placements that involve no new fact

ASSUME MigrationAssumption ==
    /\ Rows \subseteq Nat \ {0} /\ IsFiniteSet(Rows) /\ Misquoted \cup Stray \subseteq Rows
    /\ MaxWrites \in Nat

VARIABLES
    facts,       \* table facts: "none", "open", or "closed" by a successor
    identified,  \* rows the identity ledger knows
    support,     \* fact_evidence_links: statuses of the supporting links of each row
    quarantine,  \* source_backfill_quarantine: unresolved rows of each batch
    batches,     \* finished backfill batches
    todos,       \* open conflict todos, by the fact they are about
    job,         \* parse_jobs: the status of each job
    lease,       \* whether the lease of a job has not run out
    notes,       \* whether a job has verified notes that are not published
    writes,      \* leaf_revisions and fact_placements: how often they were written
    archived,    \* whether the manifest of the target is archived
    vouched,     \* whether the host still vouches that there are no diagnostics
    plan,        \* tree_migration_plans with the state their events lead to
    worked       \* history: jobs a worker was at since the snapshot of a plan was read

work   == <<job, lease, notes>>
ledger == <<facts, identified, writes, todos>>
source == <<support, quarantine, batches>>
host   == <<archived, vouched>>
migrationVars == <<ledger, source, work, host, plan, worked>>

NoPlan == [state |-> "none", copy |-> {}, planned |-> {}, proof |-> FALSE]

MigrationInit ==
    /\ \E old \in SUBSET Rows :
          /\ \A r \in old, q \in Rows : q <= r => q \in old
          /\ facts = [r \in Rows |-> IF r \in old THEN "open" ELSE "none"]
    /\ identified = {} /\ support = [r \in Rows |-> {}] /\ quarantine = {} /\ batches = {}
    /\ todos = {} /\ job = [j \in Uploads |-> "none"]
    /\ lease = [j \in Uploads |-> FALSE] /\ notes = [j \in Uploads |-> FALSE]
    /\ writes = 0 /\ archived = FALSE /\ vouched = TRUE
    /\ plan = [p \in Plans |-> NoPlan] /\ worked = [p \in Plans |-> {}]

-----------------------------------------------------------------------------
(* The company's work.                                                     *)

Written(r) == facts[r] # "none"
Free       == {r \in Rows : ~Written(r)}
NewRow     == CHOOSE r \in Free : \A q \in Free : r <= q

At(j, status)  == job[j] = status
Turn(j, status) == job' = [job EXCEPT ![j] = status]

\* A failed, canceled, partial or unanswered job can be queued again: "failed" stands for them all.
\* An upload is accepted whatever the other jobs of the company are.
Upload(j) ==
    /\ At(j, "none") /\ Turn(j, "queued")
    /\ UNCHANGED <<lease, notes, ledger, source, host, plan, worked>>
\* A worker that finds the lease of another one fails the job.
StartJob(j) ==
    /\ At(j, "queued") /\ Turn(j, IF lease[j] THEN "failed" ELSE "parsing")
    /\ lease' = [lease EXCEPT ![j] = TRUE]
    /\ worked' = [p \in Plans |-> worked[p] \cup IF plan[p].state = "none" THEN {} ELSE {j}]
    /\ UNCHANGED <<notes, ledger, source, host, plan>>
\* A job whose runtime is not ready is queued again by a timer.
EndJob(j) ==
    /\ At(j, "parsing") /\ lease' = [lease EXCEPT ![j] = FALSE]
    /\ \/ ~notes[j] /\ Turn(j, "done")
       \/ Turn(j, "failed")
       \/ Turn(j, "queued")
    /\ UNCHANGED <<notes, ledger, source, host, plan, worked>>
\* The process dies; at start-up its jobs are failed, while their leases have yet to run out.
ProcessDies ==
    LET lost == {j \in Uploads : job[j] \in {"queued", "parsing"}} IN
    /\ lost # {} /\ job' = [j \in Uploads |-> IF j \in lost THEN "failed" ELSE job[j]]
    /\ UNCHANGED <<lease, notes, ledger, source, host, plan, worked>>
LeaseRunsOut(j) ==
    /\ lease[j] /\ ~At(j, "parsing") /\ lease' = [lease EXCEPT ![j] = FALSE]
    /\ UNCHANGED <<job, notes, ledger, source, host, plan, worked>>
RetryJob(j) ==
    /\ At(j, "failed") /\ Turn(j, "queued")
    /\ UNCHANGED <<lease, notes, ledger, source, host, plan, worked>>

VerifyNote(j) ==
    /\ At(j, "parsing") /\ Free # {} /\ notes' = [notes EXCEPT ![j] = TRUE]
    /\ UNCHANGED <<job, lease, ledger, source, host, plan, worked>>
\* A note becomes a fact with evidence, identity, placement and leaf.
PublishNotes(j) ==
    /\ At(j, "parsing") /\ notes[j] /\ Free # {} /\ notes' = [notes EXCEPT ![j] = FALSE]
    /\ facts' = [facts EXCEPT ![NewRow] = "open"]
    /\ identified' = identified \cup {NewRow}
    /\ support' = [support EXCEPT ![NewRow] = @ \cup {"active"}]
    /\ UNCHANGED <<job, lease, writes, todos, quarantine, batches, host, plan, worked>>
\* The earlier protocol writes the fact alone, and may raise a conflict with an open one.
WriteFact(j) ==
    /\ At(j, "parsing") /\ Free # {}
    /\ facts' = [facts EXCEPT ![NewRow] = "open"]
    /\ todos' \in {todos} \cup {todos \cup {r} : r \in {q \in Rows : facts[q] = "open"}}
    /\ UNCHANGED <<identified, writes, source, work, host, plan, worked>>

\* The reviewer keeps the fact, or has a row written that supersedes it.
ResolveTodo(r) ==
    /\ r \in todos /\ todos' = todos \ {r}
    /\ \/ UNCHANGED facts
       \/ Free # {} /\ facts' = [facts EXCEPT ![NewRow] = "open", ![r] = "closed"]
    /\ UNCHANGED <<identified, writes, source, work, host, plan, worked>>

Identify(r) ==
    /\ Written(r) /\ r \notin identified /\ identified' = identified \cup {r}
    /\ UNCHANGED <<facts, writes, todos, source, work, host, plan, worked>>
WriteTree ==
    /\ writes < MaxWrites /\ writes' = writes + 1
    /\ UNCHANGED <<facts, identified, todos, source, work, host, plan, worked>>

\* The host archives the target, or learns of diagnostics it did not know of.
ArchiveTarget ==
    /\ ~archived /\ archived' = TRUE
    /\ UNCHANGED <<vouched, ledger, source, work, plan, worked>>
WithdrawProof ==
    /\ vouched /\ vouched' = FALSE
    /\ UNCHANGED <<archived, ledger, source, work, plan, worked>>

-----------------------------------------------------------------------------
(* Sources, and the backfill of the facts written before there were any.   *)

\* Other rows or a job of the company must vouch for the file of a fact; its own row does not.
InScope(r)  == r \in Stray => \E j \in Uploads : ~At(j, "none")
Provable(r) == r \notin Misquoted /\ InScope(r)
Quarantined(r) == \E b \in Batches : <<b, r>> \in quarantine

\* register_file_source, add_evidence and link_fact for one fact.
LinkFact(r) ==
    /\ Written(r) /\ support' = [support EXCEPT ![r] = @ \cup {"active"}]
    /\ UNCHANGED <<quarantine, batches, ledger, work, host, plan, worked>>

\* One batch goes through every row, closed ones too.  A request that has finished is answered
\* with its receipt and changes nothing.
Backfill(b) ==
    LET all == {r \in Rows : Written(r)} IN
    /\ b \notin batches /\ batches' = batches \cup {b}
    /\ support' = [r \in Rows |-> support[r] \cup IF r \in all /\ Provable(r) THEN {"legacy"} ELSE {}]
    /\ quarantine' = {q \in quarantine : ~Provable(q[2])} \cup {<<b, r>> : r \in {q \in all : ~Provable(q)}}
    /\ UNCHANGED <<ledger, work, host, plan, worked>>

-----------------------------------------------------------------------------
(* The inputs of a plan.                                                   *)

\* The records of the categories a snapshot has, as they are now.  A job that is done has left
\* the manifest of its upload, and is in the records for good.
Inputs ==
    [facts |-> facts, identities |-> identified, tree |-> writes, evidence |-> support,
     todos |-> <<todos, quarantine>>, tasks |-> <<job, lease, notes>>]

PartialLedger == LET rows == {r \in Rows : Written(r)} IN identified # {} /\ ~ rows \subseteq identified
\* Mutant of ActiveTasks: a job that could be retried does not count.
RunningTasks == \E j \in Uploads : job[j] \in {"queued", "parsing"} \/ lease[j] \/ notes[j]
ActiveTasks == \E j \in Uploads : job[j] \in {"queued", "parsing", "failed"} \/ lease[j] \/ notes[j]
\* Whether a category has a status that blocks every plan.
Blocked(proof) == PartialLedger \/ ActiveTasks \/ ~proof

\* The facts a plan may carry into the target tree.
\* Mutant of Eligible: a quarantine does not hold a fact back.
EligibleQuarantined == {r \in Rows : "active" \in support[r]}
Eligible == {r \in Rows : "active" \in support[r] /\ ~Quarantined(r)}

(***************************************************************************)
(* A copy taken under a blocking status is kept as no copy: its statuses   *)
(* are part of the comparison, so it never again agrees with tables that   *)
(* block nothing.                                                          *)
(***************************************************************************)
Copy(proof) == IF Blocked(proof) THEN {} ELSE {Inputs}

\* The host reads a snapshot, with or without a proof that there are no diagnostics, and people
\* begin to decide what becomes of each fact.
ReadSnapshot(p, proof) ==
    /\ plan[p].state = "none"
    /\ plan' = [plan EXCEPT ![p] = [@ EXCEPT !.state = "read", !.copy = Copy(proof),
                                             !.planned = Eligible, !.proof = proof]]
    /\ worked' = [worked EXCEPT ![p] = {j \in Uploads : At(j, "parsing")}]
    /\ UNCHANGED <<ledger, source, work, host>>

\* The plan that is built keeps some of the facts it may keep.
RegisterPlan(p, keep) ==
    /\ plan[p].state = "read" /\ keep \subseteq plan[p].planned
    /\ plan' = [plan EXCEPT ![p].state = "draft", ![p].planned = keep]
    /\ UNCHANGED <<ledger, source, work, host, worked>>

-----------------------------------------------------------------------------
(* Approval, and the gate in front of the execution.                       *)

Fresh(p) == plan[p].copy = {Inputs} /\ ~Blocked(plan[p].proof) /\ (plan[p].proof => vouched)

\* A plan whose inputs have changed is closed for good.
Expire(p) == plan' = [plan EXCEPT ![p].state = "expired"]

\* A draft goes through "validated", which is refused while a status blocks, to the queue of the
\* approver; the host's own validator may refuse it.
RequestApproval(p) ==
    /\ \/ plan[p].state \in {"draft", "awaiting"} /\ ~Fresh(p) /\ Expire(p)
       \/ plan[p].state = "draft" /\ Fresh(p) /\ plan' = [plan EXCEPT ![p].state = "awaiting"]
    /\ UNCHANGED <<ledger, source, work, host, worked>>

Decide(p) ==
    /\ plan[p].state = "awaiting"
    /\ \/ ~Fresh(p) /\ Expire(p)
       \/ /\ Fresh(p)
          /\ \E state \in {"approved", "rejected"} : plan' = [plan EXCEPT ![p].state = state]
    /\ UNCHANGED <<ledger, source, work, host, worked>>

\* A plan that passes the gate changes nothing: whoever carries it out goes on in the same
\* transaction.
Passes(p) == plan[p].state = "approved" /\ archived /\ Fresh(p)
Preflight(p) ==
    /\ plan[p].state = "approved" /\ archived /\ ~Fresh(p) /\ Expire(p)
    /\ UNCHANGED <<ledger, source, work, host, worked>>

MigrationNext ==
    \/ \E j \in Uploads :
          \/ Upload(j) \/ StartJob(j) \/ EndJob(j) \/ LeaseRunsOut(j) \/ RetryJob(j)
          \/ VerifyNote(j) \/ PublishNotes(j) \/ WriteFact(j)
    \/ ProcessDies \/ WriteTree \/ ArchiveTarget \/ WithdrawProof
    \/ \E r \in Rows : ResolveTodo(r) \/ Identify(r) \/ LinkFact(r)
    \/ \E b \in Batches : Backfill(b)
    \/ \E p \in Plans :
          \/ \E proof \in BOOLEAN : ReadSnapshot(p, proof)
          \/ \E keep \in SUBSET Rows : RegisterPlan(p, keep)
          \/ RequestApproval(p) \/ Decide(p) \/ Preflight(p)

MigrationSpec == MigrationInit /\ [][MigrationNext]_migrationVars

-----------------------------------------------------------------------------
Facts    == [Rows -> {"none", "open", "closed"}]
Support  == [Rows -> SUBSET {"active", "legacy"}]
JobStates == {"none", "queued", "parsing", "failed", "done"}
Copies   == [facts : Facts, identities : SUBSET Rows, tree : Nat, evidence : Support,
             todos : (SUBSET Rows) \X (SUBSET (Batches \X Rows)),
             tasks : [Uploads -> JobStates] \X [Uploads -> BOOLEAN] \X [Uploads -> BOOLEAN]]
MigrationTypeOK ==
    /\ facts \in Facts /\ identified \subseteq Rows
    /\ support \in Support /\ quarantine \subseteq Batches \X Rows /\ batches \subseteq Batches
    /\ todos \subseteq Rows /\ job \in [Uploads -> JobStates]
    /\ lease \in [Uploads -> BOOLEAN] /\ notes \in [Uploads -> BOOLEAN] /\ writes \in Nat
    /\ archived \in BOOLEAN /\ vouched \in BOOLEAN
    /\ plan \in [Plans -> [state : {"none", "read", "draft", "awaiting", "approved", "rejected", "expired"},
                           copy : SUBSET Copies, planned : SUBSET Rows, proof : BOOLEAN]]
    /\ worked \in [Plans -> SUBSET Uploads]

(***************************************************************************)
(* Whatever happened since the snapshot was read, a plan that passes the   *)
(* gate carries only facts that a source supports now and that no backfill *)
(* has put aside, although nothing on the way from the gate back to the    *)
(* snapshot looks at the evidence of a planned fact again.                 *)
(***************************************************************************)
PlannedIsSupported ==
    \A p \in Plans : Passes(p) => \A r \in plan[p].planned : "active" \in support[r] /\ ~Quarantined(r)

(***************************************************************************)
(* No worker was at work in the company, under the old pack, between the   *)
(* snapshot of a plan and the gate it passes: not even a job that came and *)
(* went in between, and whether it failed, was taken up again or wrote     *)
(* nothing at all.  The gate compares two states only, and looks at no     *)
(* history.                                                                *)
(***************************************************************************)
PassedUndisturbed == \A p \in Plans : Passes(p) => worked[p] = {}
=============================================================================
