# Verification of startup-ai-manager

TLA+ models of SAM, the startup AI manager: a Flask application with an SQLite ledger that
takes uploaded documents through a parser, has model "employees" extract facts from them,
keeps those facts under human review and writes briefs and guides from them.  Each module
translates the code it names; every definition that stands for code is listed with its lines
in `PROJECT.json` ("map").  Paths below are relative to the repository.

## 1. The system

| part | code | state | operations | what makes it hard |
|---|---|---|---|---|
| parse queue | `app/parse_jobs.py` | table `parse_jobs`; in memory: one cancel event per job, the critical set, retry counters, timers | create, cancel, retry; `_run` on pool threads; timers; done-callbacks; start-up | request threads against pool threads, several holds of one lock, process stop, timer retries |
| upload pipeline | `webapp/app.py` 303-505, `app/document_read/upload.py` | `memory_kv` checkpoints, `parse_jobs.l2_committed` | engine, parse, review, extract, commit, project | resuming what an earlier run committed; cancel at every check |
| fact ledger | `app/memory/company_facts/l2_complete_facts.py`, `l2_consolidation.py` | tables `facts`, `todos`, `fact_runs` | prepare, commit, abort; resolve, dismiss | transactions of imports against decisions read before a transaction opens |
| guide coordinator | `app/guidance/jobs.py` | `_jobs`, a revision and a Future per company | queue, get_or_start, rerun loop | single flight, dirty marks, completion outside the lock |
| memory provider | `app/memory/provider.py`, `projection.py` | tables `m1_documents`, `m1_chunks`, `m1_projection_state` | put, rebuild, search | authoritative write and derived index in two transactions |
| briefs, module pages | `app/memory/company_facts/l1_brief.py`, `l0_guide.py`, `module_projection.py` | documents of the provider | publish, update | stale snapshots of facts |
| threads, user memory | `app/thread_manager.py`, `app/memory/user_memory/` | JSON index in `memory_kv` | create, archive | read-modify-write without a lock |
| facts tree: whose it is | `app/facts_tree/company_binding.py`, `manifest_registry.py`, `fact_identity.py`, `fact_placements.py`, `tree_read.py` | the bound pack with its history, identities and revisions of facts, placements, leaves | bind, upgrade, lock; bootstrap, append; place, reassign; publish; read | ledgers that only make sense together, written by operations in any order |
| facts tree: migration | `migration_snapshot.py`, `migration_plan_builder.py`, `migration_plans.py`, `migration_host.py`, `source_registry.py`, `source_backfill.py` | plans with their events, sources and evidence links, quarantine | snapshot, build, request, decide, preflight; link, backfill | days between the steps, while the company works |
| facts tree: reader of older protocols | `md_reader.py`, `md_publish.py`, `rollup.py`, the V3 part of `document_read/service.py` | leaves with revisions, receipts of submissions, the checkpoint of the job | read, plan, draft, submit, replay, roll up | many documents write one leaf; a crash between commit and checkpoint |
| publication of notes | `app/facts_tree/notes_publish.py`, `md_publish.py`, `rollup.py`; `app/document_read/service.py`, `execution.py` | leaf revisions, `md_leaf_operations`, `md_note_publications`, `md_leaf_consumption`, `md_job_leases`, the run's checkpoint | assign, draft, commit a leaf, gate, consume | a lease taken over while an employee works, a crash between commit and checkpoint, leaves changed since they were read |
| document reading | `app/document_read/notes.py`, `service.py`, `upload.py` | the checkpoint (windows, review, budgets), the notebook with its receipts | read a window, review a note, freeze, retry | receipts committed before the checkpoint; limits of every kind; what may be reopened |
| employees | `app/employees/` | a call and time budget | run | one budget shared by nested calls |
| conversion and its review | `app/harness/runtime/openclaw_adapter.py`, the plugin `harness-openclaw/`, `app/harness/staging.py`, `app/storage/mapping_store.py`, `app/document_quality/` | inbox and outbox of a hash, `parse_staging`, the map files, the rounds of a review | run_parse, stage, render, verify, conclude, rework, bind | jobs of one file share all names; calls given up that go on; files and rows written apart |

How they interact: an upload creates a parse job; a pool thread runs the pipeline for it and
reports progress to the queue; the pipeline has the file converted and reviewed, then either
reads it into notes and publishes them to the leaves (with the facts tree) or prepares an
extraction run, enters the critical
section, commits facts, todos and `l2_committed` in one transaction, then classifies the
document, rebuilds the projections and queues the company's guide.  People answer todos and
cancel or retry jobs over HTTP at any moment.

## 2. Modules

| module | what it is |
|---|---|
| `ParseJobs` | the parse queue and the control of the pipeline |
| `MCParseJobs` | symmetry and a view for TLC |
| `ParseJobsProofs` | theorems about `ParseJobs` |
| `FactLedger` | extraction runs, consolidation and decisions over facts and todos |
| `MCFactLedger` | batches, symmetry and a view for TLC |
| `FactLedgerProofs` | theorems about `FactLedger` |
| `GuideJobs` | the import-guide coordinator |
| `Projection` | the memory provider: documents, vector chunks, the company's projection state |
| `MCProjection` | symmetry and a view for TLC |
| `ModulePages` | briefs and guides of the modules, and the company pages copied from them |
| `MCModulePages` | facts, modules and a view for TLC |
| `ModulePagesProofs` | theorems about `ModulePages` |
| `NotesPublish` | the publication of a mapped document's reviewed notes, under a job lease |
| `MCNotesPublish` | notebooks, symmetry and a view for TLC |
| `NotesPublishProofs` | theorems about `NotesPublish` |
| `DocumentParse` | from the uploaded file to a reviewed conversion bound to its job |
| `MCDocumentParse` | symmetry for TLC |
| `DocumentReading` | stages A and B of a mapped document: reading into a notebook and reviewing it |
| `MCDocumentReading` | windows and limits for TLC |
| `LeafReading` | the reader of protocol 3: several documents write into shared leaves |
| `SharedLeaves` | what the leaves promise their writers; `LeafReading` implements it |
| `MCLeafReading` | documents, limits and retries for TLC |
| `LeafReadingProofs` | theorems about `LeafReading`, and that it implements `SharedLeaves` |
| `CompanyTree` | the binding, identities, placements and leaves of a company, and their readers |
| `MCCompanyTree` | packs and releases for TLC |
| `Migration` | a migration plan from its snapshot to the gate, beside the company's work |
| `MCMigration` | the instance of `Migration` |
| `UploadProofs` | theorems about `DocumentReading` and `GuideJobs` |
| `CompanyProofs` | theorems about `CompanyTree` and `Projection` |
| `ParseAndMigrationProofs` | theorems about `DocumentParse` and `Migration` |

### ParseJobs

Threads are explicit.  `Clients` are request threads in `create`, `cancel` or `retry`; a
*future* is one `executor.submit(_run, job)`, numbered in submission order; a future that
rescheduled itself becomes a timer.  An action is one hold of `manager._lock`, one SQLite
transaction, or one read of shared state, so everything another thread can do in between is a
step of its own:

* `cancel` is `Cancel` (read the row), `CancelGate` (read the critical set), `CancelRaise`
  (set the event), `CancelWrite` (the row of a job seen queued);
* `retry` is `Retry`, `RetryRenew` (refuse or register a new event), `RetryWrite`,
  `CallSubmit`; `create` is `Create`, `CreateRegister`, `CallSubmit`;
* `_run` is `Start`, `Read`, `Mark`, the pipeline, `Finish`, `Handle`, `WriteOutcome`,
  `Requeue`, `Cleanup`; its callback is `Observe` and `Report`, which hold the lock over two
  ledger accesses (`reporter`); its timer is `Fire` and `Resubmit`;
* the pipeline is `Advance`, `Enter`, `ShowConsolidating`, `Commit`, `LeaveCritical`,
  `Project`, and `Fail` wherever an exception can be raised;
* `RunFault` and `RequestFault` are ledger writes that raise, `Restart` is a process that
  stops anywhere and runs `__init__` again.

Events are numbers, counted per job by `made`: what `_run` and the timers test is the
*identity* of an `Event`, and that is what the number is.  `resume` is what makes a retry skip
work: `l2_committed`, or with `SAM_FACTS_TREE` the saved manifest row.  Progress counts,
messages, timestamps and delays are left out.  `_submit` reads the event and submits as one
step: while a job has an owner about to submit it nobody replaces its event
(`CancelReachesRun`), so nothing can be seen in between.

### FactLedger

A row's id is its position in `facts` or `todos`; rows are never removed.  One connection at a
time holds SQLite's write lock (`writer`) and works on `wFacts`/`wTodos`; the others read the
committed tables.  An import (`BeginCommit`, `ConsolidateNext`, `FinishCommit`) reads and
writes inside `BEGIN IMMEDIATE`.  `resolve` and `dismiss` do not: they read the todo and its
bundle first (`Decide`), and their first INSERT or UPDATE opens the transaction
(`BeginDecision`); `DecideTarget` writes one todo of the bundle.  `Rollback` is any statement
of the import raising, `Crash` the process stopping.  A fact's coordinate, its value, its unit and
a source file are model values; a source stands for the page and span it cites too; confidence,
module key, suggestion and hand-off text are left out, and `review` stands for "critical or with a
review_reason".  A candidate is a duplicate when value and unit are those of the current fact
(`Says`), but two todos are the same when coordinate, value and source are (`SameKey`): the
handoff key leaves the unit out, so of two candidates of one span that differ in the unit only
one is handed to a person.  `EvidenceOnRecord` therefore asks of a todo that it is of the same
evidence and value; what the documentation says is `NothingLost`, in section 4.

### GuideJobs

One action per hold of the coordinator's lock, per step of the worker loop, and one for the
executor completing the Future, which no lock covers.  `snapshot` and `marked` count the
company's committed documents when the worker read the facts and when the job was last marked:
they are bookkeeping that the properties compare.

### Projection

A client is a provider, an action one SQLite transaction of it: `put` is `Write` and `Project`
or `ProjectFails`, `rebuild_projection` is `RebuildBegin` and `RebuildFinish` or `RebuildFails`,
`Blame` is the transaction every failure handler opens, `search` is `SearchFirst`, perhaps a
rebuild, and `Search`.  A document is its version, its chunks the version they were made from.
The facts ledger changes on its own; the triggers of `initialize.py` are part of the
transactions that change it (`Trigger`).  `published` remembers which facts a pipeline was told
are indexed.  The facts tree is off: with it on the provider neither keeps nor reads the state.
The database is new: a ledger older than the memory's tables is a migration and left out.

### ModulePages

`update` holds the company's `projection_lock` throughout (`holder`), the ledger does not: an
import or a decision can fall between any two of its reads.  `Enter` is the lock and the first
read; per module `Skip`, `NoBrief`, `WriteBrief` (second read and the brief's employee), `Publish`
(the guide's employee and the transaction of the pair) or `Fail`; then `Assemble`, `Refuse` or
`AssembleFails`, with the third read.  What an employee writes is the set of facts it cites: any
set the host's checks let through.  `given` remembers which facts were put before the employees
whose work the published brief contains.  A page's content is its version number.

### NotesPublish

A *run* is one call of `DocumentReadService.run`, known by the generation of its lease; several
runs of one job may believe that they work, one at most holds the lease (`Holds`).  `checkpoint`
is the progress saved in the database, `memory` a run's own copy: `Save` writes the copy, `At` is
the check that every fenced write makes in its transaction.  A run without the lease can only
`Vanish`, which is also a process that dies; `Expire` is a lease that runs out.  `Start` is a
plain run, or an explicit retry that reopens items first (`Reopened`).  Calls of an employee are
two steps with nothing locked in between: `AskAssignment` and `AnswerAssignment` or
`LeaveUnassigned`; `AskDraft` and `AnswerDraft`; each is charged first (`Charge`) and may fail
(`CallFails`).  A draft is then committed (`Commit`: facts, receipts, revision and body in one
transaction; the checkpoint follows in `SaveCommitted`), found committed by an earlier run
(`Replay`), sent back (`BaseChanged`, `DraftRejected`), or refused for good (`CommitRefused`).
A draft keeps the old evidence verbatim or carries it into a merge; what it carries must have its
place on this leaf (`CarriedHere`), and what it keeps must not be replaced.  `placed` is that
place: `Move` is what others do to a fact that a leaf cites, and `Legacy` is evidence of an earlier
protocol, which never had a place.  A `PublishRejected` leaves the draft in the checkpoint, so the
next run submits it again: `RefusedForPlacement` says that lost places are the only reason for
which a run ends so.  `Complete` is the coverage gate, which
asks the database; `Consume` rewrites the company's pages.

A note stands for a group of notes of the same fact, a leaf's evidence for the blocks that cite
it.  An answer of the employee is any answer.  Left out: grants, bindings and fingerprints (all
refuse before a first write), the todos made for conflicts, the second look at notes that need a
check, the cleaning of texts, and what an explicit cancel adds to a run that stops.

### DocumentParse

One file that several companies uploaded, and one job of each.  Nothing the conversion uses is
named by the job: the task is `inbox/<hash>.json`, the answer `outbox/<hash>.json`, the map
`map/<hash>.md`.  `WriteTask`, `ClearOutbox`, `Collect`, `EndParse` and `GiveUp` are `run_parse`;
`AgentStarts`, `AgentEnds` the tool behind the gateway, `StrayEnds` a call the host gave up on
that goes on.  `ReplaceMap` and `Commit` are the two halves of a staging transaction: it holds
the write lock (`writer`), the files change before it commits, and `Crash` may fall in between.
A round of the review is `BeginRound`, `AskEmployee`, `Verify` or `ViewSnapshot`, `Conclude`;
its verdict is persisted like a conversion, and `Judge` leads to the end, to the reading or to
`Reparse`.  `Bind` is the check of the dossier.  A conversion is a number; `verified` and `lost`
are history: which job ran a script on which conversion, and which staging was rolled back.

### DocumentReading

`record` and `item` hold, for each window and each note, exactly the counters by which the code
decides whether to ask again; everything else of a run is the checkpoint (saved with every call)
and `pc`.  `Ask` charges a call and saves, an answer is one of `WindowAnswer` or `NoteAnswer`, and
`CommitReceipt`/`CommitDecision` write the notebook in a transaction of their own, before
`SaveWindow`/`SaveDecision` write the checkpoint.  `Crash` forgets only `pc`.  `AskRetry` is an
upload's explicit retry, `ApplyRetry` what a run makes of it.  A window that cannot be shown is
unresolved at once (`refused`); one whose context of earlier windows is too large (`oversized`,
fixed by what those windows kept) ends the run with an error, and every later one.  After a crash between the two
writes the employee is asked again; the stored receipt wins and its outcome is what the
checkpoint gets (`CommitAgain`).  A receipt whose facts were all rejected still counts as
progress (service.py:1058-1063), and a window left unresolved is never reopened, not even by an
explicit retry: the models say so because the code does.  Left out: the lines no note claims, the
deadline of a run (a run may stop between any two calls) and the flag `done` of other stages.

### LeafReading and SharedLeaves

Each job has one run at a time; what jobs share are the leaves.  `Submit` is the transaction that
compares the draft's base with the leaf (`Stale`, then `BaseChanged`), merges the blocks, and
keeps a receipt under an operation id made of job, window and leaf; `Replay` is the same call
after a run that died before `SaveReceipt`.  `Consume` rolls the changed leaves up into the briefs.
`SharedLeaves` is the contract: a writer commits to a leaf once, what is in it stays, versions are
made one after the other.  `Shared` maps leaf versions, blocks and receipts onto it, and
`ImplementsSharedLeaves` is checked as a property.  `SubmitBlind` is a mutant of `Submit`.
The instance does not reach the stop after too many comparisons (`CompareRetries = 2` needs two
foreign commits between) or a second malformed attribution.  Drafts that cite withdrawn or
superseded facts are among the drafts that are refused; the mark `technical` of a block is left
out, and blocks of one job merge as protocol 4 and later do.

### CompanyTree

Each public operation of the four ledgers is one `BEGIN IMMEDIATE` transaction and one action.
`BindPack` and `Upgrade` move a company to the shipped pack, `MarkLocked` locks it, `Deploy` is a
new release with another pack and `ArchiveOther` a manifest registered by other means; `Register`
archives.  `WriteFact`, `Supersede`, `Identify`, `AppendRevision`, `PlaceInitial`, `Reassign` are
the rows; `SubmitLeaf` (protocol 3), `PublishNotes` (protocol 4) and `PublishLeaf` write leaves.
The readers are operators: `Served` is `tree_read`, `FactsStatus` and `PlacementsStatus` the
snapshot of a migration.  The initial states include companies written before the ledgers.  Found
while modelling, and what `WithheldForAReason` accepts as reasons: a leaf of protocol 3 cites
facts without identity, so `tree_read` always withholds it (by design, DEC-020); a todo resolved
in `l2_consolidation.py:293` closes a cited fact and the identity ledger is never told.  `mark_locked`,
`bind_pack`, `append_revision`, `reassign` and `bootstrap_legacy` have no caller under `app/`: they
are the host's API and may be called in any state.  Left out: `record_lineage`, rows whose digest
source is set and digest missing, and the rebase of an existing history.

### Migration

A plan's `copy` is the set of inputs it was built from, `Inputs` the same set now; every gate
(`RequestApproval`, `Decide`, `Preflight`) compares them and may `Expire` the plan.  Beside it the
company works: any number of uploads, accepted whatever the others are doing, each with a status,
a lease and notes of its own (`job`, `lease`, `notes`); they run, stop and are retried, also an older
one behind a newer; facts are written, closed by todos, linked to a source (`LinkFact`) or put
aside by a backfill (`Backfill`).  "failed" stands for every state from which a job can be retried.
`worked` is history: the jobs a worker was at since the snapshot of a plan was read.
`Passes` is the preflight at any later moment.  A closed fact stays in the copy and stays eligible
(the executor, which the repository does not have, would have to refuse it); a source is always
"active", since nothing ever ends one; "validated" is passed through within one transaction.

## 3. Runs

| run | instance | shows |
|---|---|---|
| `parse_jobs` | 1 job, 2 request threads, 2 pool threads, 5 submissions, 2 requests, 1 restart, 1 failing write | the safety properties of the queue |
| `parse_jobs_tree` | 2 jobs, 1 pool thread, facts tree on, fairness | live jobs end, also those that resume a saved mapping |
| `guide_jobs` | 2 companies, 3 jobs, 3 uploads, 1 thread, fairness | single flight, currency, termination |
| `fact_ledger` | 2 coordinates, 2 values, 2 units, 2 files, 2 runs, 2 people, 2 decisions, 1 fault | the ledger's safety properties |
| `projection` | 2 providers, 2 documents, 2 facts, 3 writes, 2 rebuilds, 2 failures or stops | what is served is current |
| `module_pages` | 2 modules, 2 jobs, 3 facts, 1 decision, 1 retry or rebuild, 2 failures or stops | pages follow the ledger |
| `notes_publish` | 2 jobs, 3 notes (one may be old evidence, and be replaced), 2 leaves, 2 runs of one job, 3 calls, 1 correction | a note is published once, the checkpoint agrees with the ledger, a run is refused only for carried evidence that lost its place |
| `document_parse` | 2 jobs of one file, 4 calls, 1 rework, 1 stop, 1 cancel, 2 starts | only what was reviewed is read; answers are fresh; the map follows the rows |
| `document_reading` | 2 windows, one of which may not be shown or has too much context, 2 or 3 calls a phase, 1 explicit retry, fairness | the review covers the notebook, success is whole, runs end |
| `leaf_reading` | 2 documents, 1 leaf, 1 retry, at most 2 drafts | a replay finds its receipt; the leaves implement `SharedLeaves` |
| `company_tree` | 2 rows, 3 manifests, 2 releases, 2 placements of a row | the ledgers verify, a company with content keeps its pack |
| `migration` | 1 plan, 2 rows, 2 backfills, 2 uploads, 1 other write | a plan that passes the gate is supported, and nobody worked since its snapshot |

Each run stays below five minutes with two workers.

**Bounds.** Jobs of the queue share only the pool, so one job under two requests, a restart
and a fault shows every race on one job's row, event and critical entry; two jobs on one thread
show the waiting.  `MaxAttempts = 1` still runs a retry by timer and its exhaustion.  In the
ledger two runs and two decisions are the smallest number that can interleave; the four batches
are a plain value, a conflicting value over two coordinates (a bundle), that value as a critical
one in another unit, and a file that contradicts itself.  Three guide jobs let one company fail and start again while the
other waits.  Of the projection, two writes of two documents are what a wrong promotion takes; a third
lets a failed one be followed by a good one, and a second fact lets a decision replace one.
Two modules let one fail while its sibling is published, and the second fact of the first job
makes it touch both.  In `notes_publish` the job with two runs meets another job that commits to its
leaf in between; `compare_retries` of 2 and 1 show a leaf read again and a run that stops for it,
and a leaf with more than one note is already too large to be shown (`ViewLimit = 1`).  The second
job's note is at times evidence from before that job (`Legacy`); replacing it is the move that takes
a place away from a note of either kind.
Two jobs of one file are all that can meet in an outbox or a transaction; four calls let a job be
checked, reworked and checked again.  Two windows show a window read again behind one that is
finished; the limits of three calls let a window be asked, refused and asked again before they
run out.  Two documents that write one leaf are what a stale base takes;
two drafts are what a correction, or a comparison with the newer base, takes.  Two rows make a
revision chain, two placements a history of one, and three manifests let one claim the version of
another; with three rows the tree has 3.3 million states, which takes longer than five minutes
and shows nothing new.  One plan is enough, since plans do not see each other; two uploads let
one wait, fail or be retried while the other runs or is done.

Where a cfg says `CHECK_DEADLOCK FALSE`, every request has been answered and
every bound is used up: the real system rests there too, waiting for a user.  Clients, runs, people and files are symmetric in
the runs that only check safety; the `VIEW`s drop what a finished future or an idle request
remembers, which no action reads.  The view of `migration` also takes as one all states in which
the plan can never pass again (closed, without a copy or a proof, or with a copy of tables that only
grow and have grown): the properties say nothing of them, and their successors are of the same kind.

**Fairness.** `RunStep(f)` and `CallStep(c)`: pool threads, timers and request threads take
their next step.  Users, faults and restarts are never owed.  In `GuideJobs` pool threads run
and a parse thread that committed facts goes on to queue the guide (app.py:468-478, straight
line code).  `LiveJobsEnd` says a live job ends unless its event was set: a cancellation set
between the handler's check (parse_jobs.py:212) and the write of "queued" (224) leaves the row
queued with nobody to end it.
In `DocumentReading` the fairness is on `Run`: a run that was neither stopped nor crashed goes on,
since every call of the employee has a timeout; uploads, retries and crashes are never owed.
`RunEnds` is then about the code's counters: every way around the loop must spend one.

## 4. What the code does against what it says

Seven properties state what a comment, a docstring or a document says and the code does not do.
Their configurations are beside the modules and are not among the runs above; each is run by hand
and ends in a counterexample within a minute.

| command | quoted | what TLC shows |
|---|---|---|
| `tlc -config ParseJobs_cancel.cfg MCParseJobs` | webapp/app.py:465-466 "Once this short local SQLite write starts, cancellation is rejected by the API" | `cancel()` reads the critical set under one hold of the lock and sets the event under another: a cancel is accepted inside the critical section |
| `tlc -config GuideJobs_completion.cfg GuideJobs` | guidance/jobs.py:21-24 "If parsing of another document finishes while a guide is running, the same worker reruns once with a fresh evidence snapshot before completing its shared Future." | the Future completes after `_run_until_current` has let go of the lock; an upload in between only raises the revision, and the guide misses it |
| `tlc -config FactLedger_duplicate.cfg MCFactLedger` | l2_consolidation.py:84-86 "Same coordinate/value remains one current fact [...] a second source with equal content also cannot create ambiguity." | two todos of one coordinate, raised before either was decided, are both accepted: `resolve()` does not look at the coordinate's current fact |
| `tlc -config FactLedger_units.cfg MCFactLedger` | docs/architecture/06-2b-l1-l0-design.md:131 "给不出结论 → 不猜不丢，产 unresolved/conflict 待办（原文+坐标+原因 handoff）" (neither guessed nor lost, a todo is made) | the duplicate test compares value and unit (l2_consolidation.py:83), the handoff key leaves the unit out (166-169): of two critical candidates of one span with one value and two units the second todo is not written |
| `tlc -config ModulePages_assembly.cfg MCModulePages` | module_projection.py:111-112 "Rejected modules intentionally retain their previous verified version. Validate against its persisted numeric certificates if its L2 was superseded." | the facts kept with a brief are those of `update`'s first read, the brief is written from a second one, and the assembly refuses a page that was verified |
| `tlc -config NotesPublish_retry.cfg MCNotesPublish` | document_read/service.py:299-303 "Stage C reopen: blocked assignments restart from scratch; [...] Submitted leaves are never replayed" | the mark of an assignment left open outlives the plain run that makes one; an explicit retry throws the assignment away although leaves are committed, and every new answer is rejected |
| `tlc -config DocumentReading_resume.cfg MCDocumentReading` | document_read/service.py:155-157 "Missing review budget is legal at entry: review then stops partial (resumable), nothing crashes." | notes.py:1156 and 1201 save the windows looked at again by the name of their grant, 1073 reads them back as numbers: every resumed run is refused with `NotesFormatRejected` |

Reached by the models, with no property that asks for the contrary:

* `cancel()` of a job whose run just ended registers a fresh event that nothing pops, and retries
  of the job are refused until the process restarts (parse_jobs.py:135-183).
* A saved draft that carries evidence without identity, current row or place on the leaf is refused
  with `PublishRejected` (notes_publish.py:579-631, 775-786), and the checkpoint keeps it: every
  resumed run submits it again and is refused again (`CommitRefused`).
* A context that is too large raises `LeafRejected` (reading_context.py:58-62), of which
  notes.py:875-881 expects only the subclass `NoteRejected`: the run ends partial at that window, and
  so does every resumed one, instead of leaving the window unresolved as protocol 3 does
  (md_reader.py:292-295).
* `complete` is saved before the pages are rewritten (notes_publish.py:1078-1080): after a stop in
  between the resumed job returns at once (service.py:1243) and ends done, its pages unchanged
  until another publication of the company.
* `read_map` serves the map file as it is: after a stop between the replacement of the files and
  the commit it serves a conversion whose staging was rolled back, until the next writer (the
  `lost` of `MapFollowsRows`).
* Two jobs of one file that are converted at the same time remove each other's task and output;
  one may then fail with "produced no output", and both may take the same conversion for their
  answer.  Nothing is read unreviewed for it.  The sidecar `.quality.json` of the map may then be of
  the other job; no code reads it.

## 5. Proofs

All are about the specification (`Spec`, or `GuideSpec`, `ProjectionSpec`, `MigrationSpec` where
two components are proved about in one module) for every value of the constants, under the
modules' named assumptions: the bounds are naturals, the placeholders `NoJob`, `Idle`, `None` and
`Free` are nobody, a fact of `ModulePages` has one module and one job, the jobs of `DocumentParse`
and the windows and rows of the readers, of `CompanyTree` and of `Migration` are finitely many.
Every safety and action property of every run is proved, the refinement and the type invariants
too; liveness is not.  Theorems also cover properties that no run repeats: `CriticalIsHeld`,
`CoordinateKeepsFact`, `AutoFactsHaveRuns`, `BudgetHolds`, `CheckpointForward` and the type
invariants.

**ParseJobs.** `TypeCorrect` first.  `OneRunPerJob` and `CancelReachesRun` are not inductive:
a retry may only start a run when no event is registered, so one must know that *every* owner
of a job (queued future, running future, timer, request about to submit) keeps the job's event
registered, that this event is the one it took, and that a job being created has no owner yet.
`RunInv` is that conjunction; `RunInvariant` proves it action by action and `OneRun` and
`CancelReaches` follow.  `CriticalHeld` adds where a job in the critical set has its run.  `RecordInvariant` relates
a run to the record: what it read in `Read` still holds (`OneRunPerJob` is what makes this
stable), a committed job has `resume`, a run past its commit too.  `CommitOnce`, `DoneCommitted`
and the action property `NeverReplayed` follow.

**GuideJobs.** `GuideTypes`, `GuideSingleFlight` and `GuideChecked` rest on one invariant: an
unstarted job has no company, the current job of a company is its own, a marked revision exists,
and a guide written at the current revision covers `marked`.

**Projection.** "Ready means current" is not inductive, since a provider that has written its
document will later call the company ready on the word of a generation it read.  `ProjectionInv` adds that
a company without a state row is current too and `LastWriter`: while a provider's generation is
still the company's and the company was servable when it wrote, all facts and all documents but
its own have current chunks.  `ProjectionReady`, `ProjectionFacts` and the action property
`ProjectionAnswers` follow.

**FactLedger.** The properties speak of committed tables, but a transaction becomes committed as
a whole, so the invariant is about both pairs.  `Sound` says of a pair of tables that
coordinates have one automatic fact and a current one, that closed facts were closed by later
decisions, and - without which a decision could close the wrong fact - that a todo's
`related_fact_id` is of its coordinate.  Lemmas show it for each way a table changes; `Flow`
adds that the open transaction only added rows and that no row changes what it says, so that a
decision's todos, read before its transaction, are still what it writes.  `Evidence` follows
the batch of the writing run up to its position, as far as the handoff key tells candidates apart;
`LedgerEvidenceOnRecord` and `LedgerAutoFacts` rest on it.

**ModulePages.** `DoneIsProjected` is lost at once without knowing what a retry skips: `Covered`
says that an applied batch was before an employee (`Recorded`), that a staged brief covers the
page it replaces (`StagedCovers`), and that an update without errors has settled the facts of the
modules behind it (`Behind`).  Facts come and go between any two steps; what makes `Covered`
inductive is that one leaves `live` only for `retired`.  `PagesPairs` and `PagesCompany` need the
types and that a working update has a module at hand.

**NotesPublish.** What makes a crash harmless is not in any single table.  `IInv` has three parts.
`Fits` relates a job's checkpoint to the ledger: a submitted leaf has its operation, a leaf with
an operation is submitted or still holds the very draft the operation was made from (so that a
replay is never refused), and what is published of the job's notebook is where its assignment put
it (so that checking a resumed assignment again does not refuse what the job itself did).
`RefusalsAreForPlacement` takes the steps that may refuse one by one: a resumed assignment is still
acceptable, an operation on record is the very request, and a draft with notes that are published
already is never submitted; what is left is carried evidence that lost its place.
`RunFits` says that the run that holds the lease works on the checkpoint itself, but for the one
leaf it has committed and not yet saved.  `LedgerFits` relates operations, receipts and bodies.
Notebooks are disjoint, so other jobs' runs keep all three
(`OthersFit`).  The safety properties follow; `CheckpointsGoForward` needs that calls are never
forgotten (`spent`) and that an incomplete publication is what a run before the gate works on.

**DocumentParse.** Three arguments share one invariant.  `ReviewedIsRead` needs that what a round
has checked is still the conversion at hand when its verdict is written (`ChecksAtHand`), which
others could only disturb if two jobs worked on one row or one worked on a row another had bound
(`Apart`); that a job which judges has a row at all is `HasRow`.  `ParseFresh` needs
`OutboxIsNew`: while a job waits, whatever is in the outbox was made since it asked, because
clearing it empties it for everybody and every conversion gets a higher number.  `ParseMap` needs
`MapIsAhead`: under a writer the map already shows the rows as the transaction will leave them,
`WriterWrites` that nothing else moves the writer meanwhile, and the lemma `SameMap` that a
judgement changes nothing about which row is the latest parsed one.

**DocumentReading.** Each property relates what was said early in a job to what is true much
later, over any number of runs, crashes and explicit retries.  `ReadingInv` has four parts.
`InOrder`: the cursor stands between settled windows and windows that were never opened, and the
counters of a window agree with what was read of it, so that `RetryReopens` can show that an
explicit retry finds at most the window under the cursor to unblock, moves no cursor of the
reading, and reopens nothing of a finished one.  `Noted`: the review holds exactly the notes that
were not discarded when its order was frozen, and only those have decisions.  `Stages`: a stage
begins when the one before it is over, and its summary (`unresolved`, `open`) still counts what it
counted.  `Place`: a run in the middle of an exchange is at a window or a note it may ask about -
without which a decision could be committed for a note that has one.  `ReviewIsComplete`,
`PublicationFollowsReview`, `SuccessIsForAll` and the action property `WhatWasDecidedStands` follow.

**LeafReading.** `ReceiptIsFound` is about a checkpoint and a table that are written in different
transactions.  The invariant `IInv` says where each job is in terms of its checkpoint (`Placed`),
that a draft was compared with the text the leaf still has as long as its version is the same
(`Based`), that what a commit wrote stays in the leaf (`Kept`), and that the facts of a window are
in the ledger when its record says so (`Booked`).  `Ahead` was found on the way: that no window
after the cursor waits for a retry, so that an explicit retry never moves the cursor forward past
a window that was not read.  Jobs meet only in the leaves and the ledger (`OwnDataOnly`), so each
step is proved to keep its own job's part and the leaves (`OwnIsKept`), and the others' parts
follow (`SameIsPlaced`).  `LeavesAreShared` is the refinement: the mapped initial states are those
of `SharedLeaves`; `Submit` of an operation not on record is a `Commit` of the window to the leaf
(`SubmitCommits`), and every other step, a replay included, changes no leaf.

**CompanyTree.** `LedgersVerify` quotes what the readers of the ledgers check, and the invariant
`TreeInv` is what the writers keep: identities are rooted in a written row, their versions are
counted without a gap, two rows never share one and only the last may be open (`Identities`);
placements are traced to a binding on record and the last one belongs to the current binding
(`Placements`); a leaf that cites nothing was written under a proven binding that has it
(`Uncited`).  `LedgersAlwaysVerify`, `WithheldOnlyForAReason` and the action property
`TreeStaysWhereItIs` follow.  A gapless chain is a statement about cardinalities: `LatestCounts`
says that the version of the latest row of an identity is the number of its rows.

**Migration.** A plan that passes the gate is supported because of what it was made from:
`PlansGrounded` says that every fact a plan lists had an active proof in the plan's own copy, and
that no backfill had put it aside there.  The gate compares the copy with the tables
(`InputsAreCopied`), so the present agrees with it: `WhatPassesIsSupported`.
The gate cannot see a job that came and went after the snapshot; that it passes no plan over one
rests on what no step takes back.  `PlansUndisturbed` says that in a copy every job is done or not
there yet, that a job which is done stays so (`JobsGoOn`: it is never taken up again), and that a
job worked at since was not there in the copy and is there now.  The comparison then leaves no such
job: `WhatPassesIsUndisturbed`.

**Induction.** The library's induction theorems take an operator and cannot be used; `Least` gets
the least element of a set of naturals from the well-foundedness of inclusion on finite sets, and
a least counterexample serves where an induction would.

**Left to TLC.** Liveness (`LiveJobsEnd`, `JobsEnd`, `RunEnds`) is outside the prover's reach, and
so are the counterexamples of section 4, which are single behaviours of a small instance.

## 6. Not modelled

* **Who owns the gateway process** (`_ensure_gateway`, the owner record, adoption, orphans).  It
  depends on signals, ports and the process table of the host, which a model would have to
  invent.  Reading it shows what to look at by hand: with a living child the fingerprint is not
  compared again and the owner record is rewritten; the timeout of one waiting call discards a
  gateway that other calls use; two processes that start at once may leave an owner record that
  names a dead child; the search for orphans may stop a gateway whose owner record is not written.
* **Employees.** A call is an answer or a failure wherever a module asks one; prompts, parsing of
  answers and the shared budget of nested calls are left out, the budget of a job is not.
* **Pure checks of numbers and texts** (`numeric_guard.py`, `l2_fact_verifier.py`, `l2_derivation.py`):
  no state, and strings that TLC would only take character by character.  An answer is accepted
  or rejected.
* **Entities, classification, user memory and threads**: one writer, one user, nothing that another
  part reads back.
* **Reads and exports** (dashboards, overviews, context assembly, cloud export and viewer),
  configuration, command-line scripts: they keep no state another part depends on.
* Within the modelled parts: what each module's description above leaves out, and the execution of
  a migration plan, which the repository does not contain.

## 7. Plan

What exists is in section 2.  Next, in this order:

1. A composition of the queue, the ledger, the projection and the guide for one company: a job
   reported done is in the facts, in the index and, at last, in the guide.
2. The index of conversation threads, read, changed and written back without a lock.
