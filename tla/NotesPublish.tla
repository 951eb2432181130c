---------------------------- MODULE NotesPublish ----------------------------
(***************************************************************************)
(* Stage C of a mapped document, the publication of its reviewed notes     *)
(* (app/facts_tree/notes_publish.py, md_publish.py, rollup.py), with the   *)
(* job lease (app/document_read/execution.py) and the checkpoint of the    *)
(* run (app/document_read/service.py).                                     *)
(*                                                                         *)
(* A run of a job asks the employee for a leaf of every verified note, and *)
(* then, leaf by leaf, for the leaf's new text; each leaf is committed in  *)
(* one transaction with its facts and receipts.  No transaction is open    *)
(* while the employee works: another job may change the leaf, the process  *)
(* may die, and the lease may run out, after which a new run of the same   *)
(* job starts while the old one still believes it works.  A run is known   *)
(* by the generation of its lease.  Every write of it is fenced: it checks *)
(* the lease in the transaction that writes.                               *)
(*                                                                         *)
(* A note stands for a group of notes of the same fact: the grouping is    *)
(* checked against the notebook alone, and gives one fact and one leaf.    *)
(* The evidence of a note stands for the blocks of a leaf that cite it.    *)
(* A fact has a place of its own, in the identity and placement ledgers,   *)
(* which others change: a merge may carry only evidence placed on the leaf.*)
(***************************************************************************)
EXTENDS Naturals, FiniteSets

CONSTANTS Jobs, Notes,
          Leaves,          \* codes of the template: a run takes them in order
          Notebooks,       \* what reviews can leave: the verified notes of each job
          Corrections,     \* correction_attempts: bad drafts of a leaf before it is unresolved
          CompareRetries,  \* compare_retries of a job: base changes of a leaf before its run stops
          Budget,          \* the publish phase limit of a job: calls of the employee in all runs
          ViewLimit,       \* evidence of a leaf that the employee can be shown
          Legacy,          \* evidence an earlier protocol wrote: facts without identity or place
          Moves,           \* bound: what others do to the facts, as notes and places
          Runs, MaxRuns    \* bound: generations, and the number of runs of each job

NoLeaf == 0
Places == {"here", "elsewhere", "replaced"}

ASSUME PublishAssumption ==
    /\ Leaves \subseteq Nat \ {NoLeaf}
    /\ Notebooks \subseteq [Jobs -> SUBSET Notes]
    /\ \A book \in Notebooks, j, k \in Jobs : j # k => book[j] \cap book[k] = {}
    /\ Corrections \in Nat /\ CompareRetries \in [Jobs -> Nat \ {0}]
    /\ Budget \in [Jobs -> Nat] /\ ViewLimit \in Nat
    /\ Legacy \subseteq Notes /\ Moves \subseteq Notes \X Places
    /\ Runs \subseteq Nat \ {0} /\ MaxRuns \in [Jobs -> Nat]

VARIABLES
    verified,    \* the reviewed notebooks
    lease,       \* md_job_leases: generation, and whether it has not run out
    checkpoint,  \* the persisted publication progress of each job
    pc, memory,  \* of each run: its step, and its copy of the progress
    leaf,        \* leaf revisions and bodies: version, and the notes the blocks cite
    operations,  \* md_leaf_operations: receipt and request of a job's commit of a leaf
    published,   \* md_note_publications: the leaf of each note
    facts,       \* facts minted for each note
    placed,      \* where the fact of a note is placed: on the leaf that cites it, or not,
                 \* or its row was replaced
    consumed,    \* md_leaf_consumption: the version of each leaf the rollup pages show
    done,        \* parse jobs that ended as done
    spent        \* history: calls of the employee

runs   == <<lease, pc, memory>>
ledger == <<leaf, operations, published, facts, placed>>
vars   == <<verified, runs, checkpoint, ledger, consumed, done, spent>>

NoDraft     == [kind |-> "none", kept |-> {}, carried |-> {}]
NoItem      == [status |-> "none", base |-> 0, old |-> {}, draft |-> NoDraft,
                corrections |-> 0, changes |-> 0]
NoOperation == [version |-> 0, base |-> 0, kept |-> {}, carried |-> {}]
NewProgress == [assigned |-> FALSE, assignments |-> [n \in Notes |-> NoLeaf],
                attempts |-> 0, blocked |-> FALSE, unassigned |-> FALSE,
                items |-> [c \in Leaves |-> NoItem], complete |-> FALSE,
                shown |-> FALSE, calls |-> 0]

Init ==
    /\ verified \in Notebooks
    /\ lease = [j \in Jobs |-> [generation |-> 0, live |-> FALSE]]
    /\ checkpoint = [j \in Jobs |-> NewProgress]
    /\ pc = [j \in Jobs |-> [g \in Runs |-> "off"]]
    /\ memory = [j \in Jobs |-> [g \in Runs |-> NewProgress]]
    /\ \E home \in [Legacy -> Leaves \cup {NoLeaf}] :
          /\ \A n \in Legacy, j \in Jobs : n \in verified[j] => home[n] = NoLeaf
          /\ leaf = [c \in Leaves |-> [version |-> IF \E n \in Legacy : home[n] = c THEN 1 ELSE 0,
                                      notes |-> {n \in Legacy : home[n] = c}]]
    /\ operations = [j \in Jobs |-> [c \in Leaves |-> NoOperation]]
    /\ published = [n \in Notes |-> NoLeaf]
    /\ facts = [n \in Notes |-> 0]
    /\ placed = [n \in Notes |-> "elsewhere"]
    /\ consumed = [c \in Leaves |-> 0]
    /\ done = [j \in Jobs |-> FALSE]
    /\ spent = [j \in Jobs |-> 0]

-----------------------------------------------------------------------------
\* The lease and the checkpoint

\* Mutant of Holds: the generation is not compared.
HoldsAny(j, g) == lease[j].live

\* JobLease.check: the lease is this run's and has not run out.
Holds(j, g) == lease[j].generation = g /\ lease[j].live

\* A step of a run: it is there, it holds the lease, and so may write.
At(j, g, step) == pc[j][g] = step /\ Holds(j, g)

Goto(j, g, step) == pc' = [pc EXCEPT ![j][g] = step]

\* save(): the progress m is the checkpoint and the run goes on.
Save(j, g, m, step) ==
    /\ checkpoint' = [checkpoint EXCEPT ![j] = m]
    /\ memory' = [memory EXCEPT ![j][g] = m]
    /\ Goto(j, g, step)
    /\ UNCHANGED lease

\* _finish and release(): the progress m is saved and the run ends.
Close(j, g, m, step) ==
    /\ checkpoint' = [checkpoint EXCEPT ![j] = m]
    /\ memory' = [memory EXCEPT ![j][g] = NewProgress]
    /\ Goto(j, g, step)
    /\ lease' = [lease EXCEPT ![j].live = FALSE]

Stop(j, g, m) == Close(j, g, m, "off")

\* PublishRejected: a hard stop.
Refuse(j, g, m) == Close(j, g, m, "refused")

\* _call: the call is charged before it is made.
Charge(j, g, m, step) ==
    /\ m.calls < Budget[j]
    /\ Save(j, g, [m EXCEPT !.calls = @ + 1], step)
    /\ spent' = [spent EXCEPT ![j] = @ + 1]

\* The time of a lease runs out, or a dead process's lease does.
Expire(j) ==
    /\ lease[j].live
    /\ lease' = [lease EXCEPT ![j].live = FALSE]
    /\ UNCHANGED <<verified, pc, memory, checkpoint, ledger, consumed, done, spent>>

\* The process dies, or the run finds at its next write that the lease is not its own.
Vanish(j, g) ==
    /\ pc[j][g] \notin {"off", "refused"}
    /\ Goto(j, g, "off")
    /\ memory' = [memory EXCEPT ![j][g] = NewProgress]
    /\ UNCHANGED <<verified, lease, checkpoint, ledger, consumed, done, spent>>

\* An explicit retry: an assignment that was blocked or left open starts again, and
\* unresolved leaves are assigned again.  Submitted leaves are left alone.
Reopened(m) ==
    LET again == ~m.complete /\ (m.blocked \/ m.unassigned)
        next(c) == IF again THEN NoItem
                   ELSE IF m.items[c].status = "unresolved"
                   THEN [NoItem EXCEPT !.status = "assigned", !.changes = m.items[c].changes]
                   ELSE m.items[c]
    IN  IF m.complete THEN m
        ELSE [m EXCEPT !.assigned = @ /\ ~again,
                       !.assignments = IF again THEN NewProgress.assignments ELSE @,
                       !.attempts = IF m.blocked THEN 0 ELSE @,
                       !.blocked = FALSE, !.unassigned = FALSE,
                       !.items = [c \in Leaves |-> next(c)]]

\* A run of the job starts: as an explicit retry, or as a plain one (also the one that
\* follows a crash: a request reopens once).
Start(j, retry) ==
    LET g == lease[j].generation + 1
        m == IF retry THEN Reopened(checkpoint[j]) ELSE checkpoint[j]
    IN  /\ ~done[j] /\ ~lease[j].live /\ g \in Runs /\ g <= MaxRuns[j]
        /\ lease' = [lease EXCEPT ![j] = [generation |-> g, live |-> TRUE]]
        /\ checkpoint' = [checkpoint EXCEPT ![j] = m]
        /\ memory' = [memory EXCEPT ![j][g] = m]
        /\ Goto(j, g, IF m.complete THEN "finish"
                      ELSE IF m.assigned THEN "recheck" ELSE "assign")
        /\ UNCHANGED <<verified, ledger, consumed, done, spent>>

-----------------------------------------------------------------------------
\* The assignment

\* Every verified note of the job has a leaf, and no other note does.
Covers(j, a) == \A n \in Notes : a[n] # NoLeaf <=> n \in verified[j]

\* _check_assignments of an answer: nothing of it is published yet.
Acceptable(j, a) == Covers(j, a) /\ \A n \in verified[j] : published[n] = NoLeaf

\* _check_assignments of a persisted one: what is published is where it was assigned.
StillAcceptable(j, a) ==
    Covers(j, a) /\ \A n \in verified[j] : published[n] \in {NoLeaf, a[n]}

\* The notes of the job that are assigned to leaf c.
Group(m, c) == {n \in Notes : m.assignments[n] = c}

Assigned(m, a) ==
    [m EXCEPT !.assigned = TRUE, !.assignments = a,
              !.items = [c \in Leaves |-> [NoItem EXCEPT !.status =
                            IF \E n \in Notes : a[n] = c THEN "assigned" ELSE "none"]]]

Recheck(j, g) ==
    /\ At(j, g, "recheck")
    /\ IF StillAcceptable(j, memory[j][g].assignments)
       THEN Save(j, g, memory[j][g], "leaf")
       ELSE Refuse(j, g, memory[j][g])
    /\ UNCHANGED <<verified, ledger, consumed, done, spent>>

\* Every note was rejected: nothing to ask.
AssignNothing(j, g) ==
    /\ At(j, g, "assign") /\ verified[j] = {}
    /\ Save(j, g, Assigned(memory[j][g], NewProgress.assignments), "leaf")
    /\ UNCHANGED <<verified, ledger, consumed, done, spent>>

AskAssignment(j, g) ==
    /\ At(j, g, "assign") /\ verified[j] # {}
    /\ memory[j][g].attempts < 2
    /\ Charge(j, g, memory[j][g], "assigning")
    /\ UNCHANGED <<verified, ledger, consumed, done>>

AssignmentBlocked(j, g) ==
    /\ At(j, g, "assign") /\ verified[j] # {}
    /\ memory[j][g].attempts >= 2
    /\ Stop(j, g, [memory[j][g] EXCEPT !.blocked = TRUE])
    /\ UNCHANGED <<verified, ledger, consumed, done, spent>>

\* The employee answers: with leaves, or that it leaves the notes unassigned.
AnswerAssignment(j, g) ==
    /\ At(j, g, "assigning")
    /\ \E a \in [Notes -> Leaves \cup {NoLeaf}] :
          IF Acceptable(j, a)
          THEN Save(j, g, Assigned(memory[j][g], a), "leaf")
          ELSE Save(j, g, [memory[j][g] EXCEPT !.attempts = @ + 1], "assign")
    /\ UNCHANGED <<verified, ledger, consumed, done, spent>>

LeaveUnassigned(j, g) ==
    /\ At(j, g, "assigning")
    /\ Stop(j, g, [memory[j][g] EXCEPT !.unassigned = TRUE])
    /\ UNCHANGED <<verified, ledger, consumed, done, spent>>

-----------------------------------------------------------------------------
\* The loop over the leaves.  The cursor is past submitted and unresolved leaves only,
\* so it is at the first leaf that is still assigned.

Open(m) == {c \in Leaves : m.items[c].status = "assigned"}

IsNext(m, c) == c \in Open(m) /\ \A d \in Open(m) : c <= d

\* The run is at leaf c of the loop.
AtLeaf(j, g, c) == At(j, g, "leaf") /\ IsNext(memory[j][g], c)

Drafted(m, c) == m.items[c].draft # NoDraft

WithItem(m, c, item) == [m EXCEPT !.items[c] = item]

\* The leaf will not be published in this run.
Unresolved(m, c) ==
    WithItem(m, c, [m.items[c] EXCEPT !.status = "unresolved", !.draft = NoDraft])

\* The leaf is too large to be compared.
TooLarge(j, g, c) ==
    /\ AtLeaf(j, g, c) /\ ~Drafted(memory[j][g], c)
    /\ Cardinality(leaf[c].notes) > ViewLimit
    /\ Save(j, g, Unresolved(memory[j][g], c), "leaf")
    /\ UNCHANGED <<verified, ledger, consumed, done, spent>>

\* The leaf as the employee is shown it.
Read(j, g, c) ==
    WithItem(memory[j][g], c, [memory[j][g].items[c] EXCEPT !.base = leaf[c].version,
                                                            !.old = leaf[c].notes])

AskDraft(j, g, c) ==
    /\ AtLeaf(j, g, c) /\ ~Drafted(memory[j][g], c)
    /\ Cardinality(leaf[c].notes) <= ViewLimit
    /\ Charge(j, g, Read(j, g, c), "comparing")
    /\ UNCHANGED <<verified, ledger, consumed, done>>

\* No call is left: the run stops where it would ask.
BudgetStop(j, g) ==
    /\ memory[j][g].calls >= Budget[j]
    /\ \/ /\ At(j, g, "assign") /\ verified[j] # {} /\ memory[j][g].attempts < 2
          /\ Stop(j, g, memory[j][g])
       \/ \E c \in Leaves :
             /\ AtLeaf(j, g, c) /\ ~Drafted(memory[j][g], c)
             /\ Cardinality(leaf[c].notes) <= ViewLimit
             /\ Stop(j, g, Read(j, g, c))
    /\ UNCHANGED <<verified, ledger, consumed, done, spent>>

\* A text keeps some of the old evidence, verbatim or carried into a merge.
Texts(old) ==
    {d \in [kind : {"text"}, kept : SUBSET old, carried : SUBSET old] : d.carried \subseteq d.kept}

\* The employee answers: with a text that also cites the new facts, with a malformed one,
\* or that it leaves the leaf unresolved.
AnswerDraft(j, g) ==
    /\ At(j, g, "comparing")
    /\ \E c \in Leaves :
          /\ IsNext(memory[j][g], c)
          /\ \E d \in Texts(memory[j][g].items[c].old)
                        \cup {[NoDraft EXCEPT !.kind = k] : k \in {"malformed", "unresolved"}} :
                Save(j, g, WithItem(memory[j][g], c,
                                    [memory[j][g].items[c] EXCEPT !.draft = d]), "leaf")
    /\ UNCHANGED <<verified, ledger, consumed, done, spent>>

\* The call fails: transport, deadline.
CallFails(j, g) ==
    /\ At(j, g, "assigning") \/ At(j, g, "comparing")
    /\ Stop(j, g, memory[j][g])
    /\ UNCHANGED <<verified, ledger, consumed, done, spent>>

-----------------------------------------------------------------------------
\* A draft

Draft(j, g, c) == memory[j][g].items[c].draft

GiveUp(j, g, c) ==
    /\ AtLeaf(j, g, c) /\ Draft(j, g, c).kind = "unresolved"
    /\ Save(j, g, Unresolved(memory[j][g], c), "leaf")
    /\ UNCHANGED <<verified, ledger, consumed, done, spent>>

\* The host rebuilds the blocks of the draft, and what it cites, from what the run has read: one
\* that does not fit is refused whatever the leaf is.
Malformed(j, g, c) == Draft(j, g, c).kind = "malformed"

\* The draft is submitted for the first time.
Submits(j, g, c) ==
    AtLeaf(j, g, c) /\ Draft(j, g, c).kind = "text" /\ operations[j][c] = NoOperation

\* No note of the group is published: _commit_leaf refuses one that is.
Unpublished(j, g, c) == \A n \in Group(memory[j][g], c) : published[n] = NoLeaf

\* submit: the leaf is as it was read.
SameBase(j, g, c) == leaf[c].version = memory[j][g].items[c].base

\* Mutant of Retains: the draft is believed.
RetainsAsked(j, g, c) == Draft(j, g, c).kept \subseteq memory[j][g].items[c].old

\* submit: all evidence of the leaf is in the draft, retained or carried, and still valid.
Retains(j, g, c) ==
    /\ leaf[c].notes \subseteq Draft(j, g, c).kept
    /\ \A n \in Draft(j, g, c).kept : placed[n] # "replaced"

\* _verify_carried_placements: what a merge carries is placed on the leaf.
CarriedHere(j, g, c) == \A n \in Draft(j, g, c).carried : placed[n] = "here"

Submitted(m, c) == WithItem(m, c, [m.items[c] EXCEPT !.status = "submitted"])

\* The operation is there already: its receipt is returned if the request is the same.
Replay(j, g, c) ==
    LET op == operations[j][c]
    IN  /\ AtLeaf(j, g, c) /\ Draft(j, g, c).kind = "text" /\ op # NoOperation
        /\ IF /\ op.base = memory[j][g].items[c].base
              /\ op.kept = Draft(j, g, c).kept /\ op.carried = Draft(j, g, c).carried
           THEN Save(j, g, Submitted(memory[j][g], c), "leaf")
           ELSE Refuse(j, g, memory[j][g])
        /\ UNCHANGED <<verified, ledger, consumed, done, spent>>

\* One transaction: facts, their identities and places, receipts, revision and body of the
\* leaf.  The checkpoint is saved after it.
Commit(j, g, c) ==
    /\ Submits(j, g, c) /\ Unpublished(j, g, c)
    /\ SameBase(j, g, c) /\ CarriedHere(j, g, c) /\ Retains(j, g, c)
    /\ leaf' = [leaf EXCEPT ![c] = [version |-> @.version + 1,
                                    notes |-> Draft(j, g, c).kept \cup Group(memory[j][g], c)]]
    /\ operations' = [operations EXCEPT ![j][c] =
          [version |-> leaf[c].version + 1, base |-> leaf[c].version,
           kept |-> Draft(j, g, c).kept, carried |-> Draft(j, g, c).carried]]
    /\ published' = [n \in Notes |-> IF n \in Group(memory[j][g], c) THEN c ELSE published[n]]
    /\ facts' = [n \in Notes |-> IF n \in Group(memory[j][g], c) THEN facts[n] + 1 ELSE facts[n]]
    /\ placed' = [n \in Notes |-> IF n \in Group(memory[j][g], c) THEN "here" ELSE placed[n]]
    /\ memory' = [memory EXCEPT ![j][g] = Submitted(@, c)]
    /\ Goto(j, g, "committed")
    /\ UNCHANGED <<lease, checkpoint, verified, consumed, done, spent>>

\* PublishRejected: a note is published already, or a merge carries evidence that has no
\* identity, no current row or no place here.  The draft stays in the checkpoint, and the next
\* run submits it again.
CommitRefused(j, g, c) ==
    /\ Submits(j, g, c)
    /\ \/ ~Unpublished(j, g, c)
       \/ SameBase(j, g, c) /\ ~CarriedHere(j, g, c)
    /\ Refuse(j, g, memory[j][g])
    /\ UNCHANGED <<verified, ledger, consumed, done, spent>>

SaveCommitted(j, g) ==
    /\ At(j, g, "committed")
    /\ Save(j, g, memory[j][g], "leaf")
    /\ UNCHANGED <<verified, ledger, consumed, done, spent>>

Changed(m, c) == WithItem(m, c, [m.items[c] EXCEPT !.draft = NoDraft, !.changes = @ + 1])

\* Mutant of BaseChanged: the facts are not rolled back.
BaseChangedMinted(j, g, c) ==
    LET m == Changed(memory[j][g], c)
    IN  /\ Submits(j, g, c) /\ Unpublished(j, g, c) /\ ~SameBase(j, g, c)
        /\ IF m.items[c].changes >= CompareRetries[j]
           THEN Stop(j, g, m) ELSE Save(j, g, m, "leaf")
        /\ facts' = [n \in Notes |->
              IF n \in Group(memory[j][g], c) THEN facts[n] + 1 ELSE facts[n]]
        /\ UNCHANGED <<verified, leaf, operations, published, placed, consumed, done, spent>>

\* BaseChanged: the transaction is rolled back and the leaf is read again.
BaseChanged(j, g, c) ==
    LET m == Changed(memory[j][g], c)
    IN  /\ Submits(j, g, c) /\ Unpublished(j, g, c) /\ ~SameBase(j, g, c)
        /\ IF m.items[c].changes >= CompareRetries[j]
           THEN Stop(j, g, m) ELSE Save(j, g, m, "leaf")
        /\ UNCHANGED <<verified, ledger, consumed, done, spent>>

Corrected(m, c) ==
    WithItem(m, c, [m.items[c] EXCEPT !.draft = NoDraft, !.corrections = @ + 1])

\* PublishFormatRejected, LeafRejected: rolled back; the employee corrects the draft, or
\* the leaf is unresolved.
DraftRejected(j, g, c) ==
    /\ \/ AtLeaf(j, g, c) /\ Malformed(j, g, c)
       \/ /\ Submits(j, g, c) /\ Unpublished(j, g, c)
          /\ SameBase(j, g, c) /\ CarriedHere(j, g, c) /\ ~Retains(j, g, c)
    /\ Save(j, g, IF memory[j][g].items[c].corrections < Corrections
                  THEN Corrected(memory[j][g], c) ELSE Unresolved(memory[j][g], c), "leaf")
    /\ UNCHANGED <<verified, ledger, consumed, done, spent>>

\* Others change where a cited fact is placed, or replace its row: a decision about a
\* conflict, a new version of the fact, a reassignment by the host.
Move(n, place) ==
    /\ placed[n] \notin {"replaced", place}
    /\ \E c \in Leaves : n \in leaf[c].notes
    /\ placed' = [placed EXCEPT ![n] = place]
    /\ UNCHANGED <<verified, runs, checkpoint, leaf, operations, published, facts, consumed, done,
                   spent>>

-----------------------------------------------------------------------------
\* The end of a run

AllHandled(j, g) == At(j, g, "leaf") /\ Open(memory[j][g]) = {}

\* Mutant of Covered: the items are believed.
CoveredByItems(j) == Open(checkpoint[j]) = {}

\* The coverage gate asks the database, not the items.
Covered(j) == \A n \in verified[j] : published[n] # NoLeaf

Complete(j, g) ==
    /\ AllHandled(j, g) /\ Covered(j)
    /\ Save(j, g, [memory[j][g] EXCEPT !.complete = TRUE], "consume")
    /\ UNCHANGED <<verified, ledger, consumed, done, spent>>

Incomplete(j, g) ==
    /\ AllHandled(j, g) /\ ~Covered(j)
    /\ Stop(j, g, memory[j][g])
    /\ UNCHANGED <<verified, ledger, consumed, done, spent>>

\* consume_notifications: the pages of the company show every leaf as it is.
Consume(j, g) ==
    /\ At(j, g, "consume")
    /\ consumed' = [c \in Leaves |-> leaf[c].version]
    /\ Goto(j, g, "consumed")
    /\ UNCHANGED <<verified, lease, memory, checkpoint, ledger, done, spent>>

\* Mutant of ConsumeFails: the failure is swallowed.
ConsumeSkipped(j, g) ==
    /\ At(j, g, "consume")
    /\ Goto(j, g, "consumed")
    /\ UNCHANGED <<verified, lease, memory, checkpoint, ledger, consumed, done, spent>>

\* The projection fails and everything of it is rolled back.
ConsumeFails(j, g) ==
    /\ At(j, g, "consume")
    /\ Stop(j, g, memory[j][g])
    /\ UNCHANGED <<verified, ledger, consumed, done, spent>>

SaveConsumed(j, g) ==
    /\ At(j, g, "consumed")
    /\ Save(j, g, [memory[j][g] EXCEPT !.shown = TRUE], "finish")
    /\ UNCHANGED <<verified, ledger, consumed, done, spent>>

Finish(j, g) ==
    /\ At(j, g, "finish")
    /\ Stop(j, g, memory[j][g])
    /\ done' = [done EXCEPT ![j] = TRUE]
    /\ UNCHANGED <<verified, ledger, consumed, spent>>

Step(j, g) ==
    \/ Vanish(j, g) \/ Recheck(j, g)
    \/ AssignNothing(j, g) \/ AskAssignment(j, g) \/ AssignmentBlocked(j, g)
    \/ AnswerAssignment(j, g) \/ LeaveUnassigned(j, g)
    \/ AnswerDraft(j, g) \/ BudgetStop(j, g) \/ CallFails(j, g)
    \/ SaveCommitted(j, g) \/ Complete(j, g) \/ Incomplete(j, g)
    \/ Consume(j, g) \/ ConsumeFails(j, g) \/ SaveConsumed(j, g) \/ Finish(j, g)
    \/ \E c \in Leaves :
          \/ TooLarge(j, g, c) \/ AskDraft(j, g, c) \/ GiveUp(j, g, c) \/ Replay(j, g, c)
          \/ Commit(j, g, c) \/ CommitRefused(j, g, c) \/ BaseChanged(j, g, c)
          \/ DraftRejected(j, g, c)

Next ==
    \/ \E j \in Jobs :
          \/ Expire(j)
          \/ \E retry \in BOOLEAN : Start(j, retry)
          \/ \E g \in Runs : Step(j, g)
    \/ \E move \in Moves : Move(move[1], move[2])

Spec == Init /\ [][Next]_vars

-----------------------------------------------------------------------------
\* Properties

Drafts == [kind : {"none", "text", "malformed", "unresolved"},
           kept : SUBSET Notes, carried : SUBSET Notes]

Item == [status : {"none", "assigned", "submitted", "unresolved"}, base : Nat,
         old : SUBSET Notes, corrections : Nat, changes : Nat,
         draft : Drafts]

Progress == [assigned : BOOLEAN, assignments : [Notes -> Leaves \cup {NoLeaf}],
             attempts : Nat, blocked : BOOLEAN, unassigned : BOOLEAN,
             items : [Leaves -> Item], complete : BOOLEAN, shown : BOOLEAN, calls : Nat]

Steps == {"off", "refused", "recheck", "assign", "assigning", "leaf", "comparing",
          "committed", "consume", "consumed", "finish"}

\* The types of the tables, the checkpoints and the runs.
TypeOK ==
    /\ verified \in Notebooks
    /\ lease \in [Jobs -> [generation : Runs \cup {0}, live : BOOLEAN]]
    /\ checkpoint \in [Jobs -> Progress]
    /\ pc \in [Jobs -> [Runs -> Steps]]
    /\ memory \in [Jobs -> [Runs -> Progress]]
    /\ leaf \in [Leaves -> [version : Nat, notes : SUBSET Notes]]
    /\ operations \in [Jobs -> [Leaves -> [version : Nat, base : Nat, kept : SUBSET Notes,
                                       carried : SUBSET Notes]]]
    /\ published \in [Notes -> Leaves \cup {NoLeaf}]
    /\ facts \in [Notes -> Nat]
    /\ placed \in [Notes -> Places]
    /\ consumed \in [Leaves -> Nat]
    /\ done \in [Jobs -> BOOLEAN]
    /\ spent \in [Jobs -> Nat]

\* A note has one fact if it is published and none otherwise, whatever was replayed,
\* rolled back or taken over (_commit_leaf).
OneFactPerNote == \A n \in Notes : facts[n] = IF published[n] = NoLeaf THEN 0 ELSE 1

\* The evidence of a published note stays in its leaf: no job's draft, made from what it
\* read minutes ago, drops what another job committed (submit).
EvidenceKept == \A n \in Notes : published[n] # NoLeaf => n \in leaf[published[n]].notes

\* The items of the checkpoint agree with the ledger: a submitted leaf is committed, and
\* a leaf is never left unresolved after its commit (run, after a crash or a takeover).
ItemsMatchLedger ==
    \A j \in Jobs, c \in Leaves :
       /\ checkpoint[j].items[c].status = "submitted" => operations[j][c] # NoOperation
       /\ checkpoint[j].items[c].status = "unresolved" => operations[j][c] = NoOperation

\* A complete publication covers the notebook: every verified note is published, also
\* when leaves were given up on the way (the coverage gate of run).
CompleteIsCovered ==
    \A j \in Jobs : checkpoint[j].complete => \A n \in verified[j] : published[n] # NoLeaf

\* A run is refused for one reason only, that its merge carries evidence which has lost its
\* place meanwhile: a resumed assignment is not rejected for what the job itself committed, a
\* leaf committed before a crash is replayed with the very request it was committed with,
\* whatever became of the evidence since, and no note is submitted twice (_check_assignments,
\* _commit_leaf).
RefusedForPlacement ==
    [][\A j \in Jobs, g \in Runs : pc[j][g] # "refused" /\ pc'[j][g] = "refused" =>
          \E c \in Leaves : /\ Submits(j, g, c) /\ SameBase(j, g, c)
                            /\ \E n \in Draft(j, g, c).carried : placed[n] # "here"]_vars

\* The employee is called within the budget, counting the calls of runs that died or lost
\* their lease (_call charges before the transport).
BudgetHolds == \A j \in Jobs : spent[j] <= Budget[j]

\* A receipt of the consumption in the checkpoint means that the pages show the job's leaves
\* (the end of run, consume_notifications).
ReceiptIsShown ==
    \A j \in Jobs : checkpoint[j].shown =>
       \A c \in Leaves : operations[j][c].version <= consumed[c]

\* A checkpoint never goes back, as when a run whose lease was taken over writes its older
\* progress: charges stay, and a complete publication stays complete (_save).
CheckpointForward ==
    [][\A j \in Jobs : /\ checkpoint[j].calls <= checkpoint'[j].calls
                       /\ checkpoint[j].complete => checkpoint'[j].complete]_vars

\* The employee is asked for an assignment only while nothing of the job is published: an
\* explicit retry leaves submitted leaves alone (the reopening in _run).
SubmittedNotAskedAgain ==
    \A j \in Jobs, g \in Runs :
       At(j, g, "assigning") => \A n \in verified[j] : published[n] = NoLeaf
=============================================================================
