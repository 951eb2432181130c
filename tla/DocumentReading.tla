-------------------------- MODULE DocumentReading --------------------------
(***************************************************************************)
(* Stages A and B of a mapped document: reading it window by window into a *)
(* notebook and reviewing every note (app/document_read/notes.py, the V4   *)
(* part of app/document_read/service.py), up to what the upload reports    *)
(* (app/document_read/upload.py).  Stage C is module NotesPublish.         *)
(*                                                                         *)
(* A run works from the checkpoint of the job: between two calls of the    *)
(* employee it only decides what is next.  A call is charged and saved     *)
(* before it leaves; its answer is applied and saved afterwards.  The      *)
(* notebook is in tables of its own, committed before the checkpoint that  *)
(* says so: a crash in between leaves the notebook ahead.  One run works   *)
(* at a time: a run that lost its lease can write nothing, and is here one *)
(* that crashed.                                                           *)
(*                                                                         *)
(* A window creates at most one note, known by the number of the window.   *)
(***************************************************************************)
EXTENDS Integers, FiniteSets

CONSTANTS Windows,     \* 1 .. n, in the order of the document
          Refusable,   \* windows the host may be unable to show: a line is too long
          Crowded,     \* windows whose context, made of earlier ones, may be too large to show
          Limit,       \* calls of each phase, in all runs of the job
          MaxRetries   \* bound: explicit retries of the job

Phases     == {"classify", "attribute", "extract", "plan", "review"}
ToolPhases == {"attribute", "extract"}

ASSUME ReadingAssumption ==
    /\ IsFiniteSet(Windows) /\ Windows = 1 .. Cardinality(Windows)
    /\ Refusable \subseteq Windows /\ Crowded \subseteq Windows \ {1}
    /\ Limit \in [Phases -> Nat]
    /\ MaxRetries \in Nat

VARIABLES
    refused,    \* windows the host cannot show
    \* the checkpoint of the job
    record,     \* of each window: what was read, and the counters of its corrections
    cursor,     \* the window being read
    reading,    \* the summary written when the last window is read
    item,       \* of each note: the counters of its review
    order,      \* notes to be reviewed, frozen when the review starts
    decided,    \* notes before the review's cursor
    reviewed,   \* the summary written when the last note is decided
    published, calls,
    retryAsked, \* upload options: an explicit retry no run has applied yet
    \* the notebook
    note, windowReceipt, reviewReceipt,
    \* the run
    pc,         \* its step
    tries,      \* malformed attributions it has seen in this window
    said,       \* outcome of the receipt it has just committed
    report,     \* what the upload was last told
    retries

checkpoint == <<record, cursor, reading, item, order, decided, reviewed, published, calls>>
notebook   == <<note, windowReceipt, reviewReceipt>>
vars       == <<refused, checkpoint, retryAsked, retries, notebook, pc, tries, said, report>>

NoRecord == [status |-> "none", prepared |-> "no", candidates |-> FALSE, streak |-> 0,
             refusals |-> [p \in ToolPhases |-> 0],
             format |-> 0, formatBlocked |-> FALSE,
             shown |-> {}, stalls |-> 0, blocked |-> FALSE, oversized |-> FALSE]
NoItem   == [attempts |-> 0, refusals |-> 0, stalls |-> 0, shown |-> 0, blocked |-> FALSE]

Init ==
    /\ refused \in SUBSET Refusable
    /\ record = [w \in Windows |-> NoRecord]
    /\ cursor = 1
    /\ reading = [complete |-> FALSE, unresolved |-> 0]
    /\ item = [n \in Windows |-> NoItem]
    /\ order = {} /\ decided = {}
    /\ reviewed = [complete |-> FALSE, open |-> 0]
    /\ published = FALSE
    /\ calls = [p \in Phases |-> 0]
    /\ retryAsked = FALSE /\ retries = 0
    /\ note = [n \in Windows |-> "none"]
    /\ windowReceipt = [w \in Windows |-> "none"]
    /\ reviewReceipt = [n \in Windows |-> "none"]
    /\ pc = "idle" /\ tries = 0 /\ said = "none" /\ report = "partial"
-----------------------------------------------------------------------------
(* Where a run is: all of it follows from the checkpoint. *)

Reading   == ~reading.complete
AtEnd     == cursor \notin Windows
Pending   == Reading /\ ~AtEnd /\ record[cursor].status = "read_pending"
Reviewing == reading.complete /\ ~reviewed.complete
Undecided == order \ decided
Current   == CHOOSE n \in Undecided : \A m \in Undecided : n <= m
Notes     == {n \in Windows : note[n] # "none"}
NotesIn(status) == {n \in Windows : note[n] = status}

\* The phase of the next call.
PhaseOf(r) == CASE r.prepared = "no" -> "classify"
                [] r.prepared = "classified" -> "attribute"
                [] r.prepared \in {"attributed", "empty"} -> "extract"
                [] r.prepared = "ready" -> "plan"
Phase == IF Reading THEN PhaseOf(record[cursor]) ELSE "review"

Goto(step) == pc' = step /\ UNCHANGED <<tries, said, report>>
Stop(told) == pc' = "idle" /\ tries' = 0 /\ said' = "none" /\ report' = told
\* A run that stops early, or dies.
Partial    == Stop("partial")
\* The run goes on with the next call, or stops because the window or the note is now blocked.
AskOr(blocked) == IF blocked THEN Partial ELSE Goto("ask")

\* What is left alone by a step of the reading, and by a step of the review.
Outside     == UNCHANGED <<refused, retryAsked, retries>>
ReadingOnly == Outside /\ UNCHANGED <<reading, item, order, decided, reviewed, published, reviewReceipt>>
ReviewOnly  == Outside /\ UNCHANGED <<record, cursor, reading, published, windowReceipt>>
Keep(r)     == record' = [record EXCEPT ![cursor] = r]
KeepItem(r) == item' = [item EXCEPT ![Current] = r]
-----------------------------------------------------------------------------
(* The run: opened by the upload, with an explicit retry if one was asked. *)

Blocked(w) == record[w].blocked \/ record[w].formatBlocked

\* A blocked window is unblocked and its counters start again; a read_pending one is kept.
Unblocked(r) ==
    IF r.blocked
    THEN [r EXCEPT !.blocked = FALSE, !.stalls = 0, !.streak = 0, !.formatBlocked = FALSE,
                   !.format = IF r.formatBlocked THEN 0 ELSE @,
                   !.refusals = [p \in DOMAIN @ |-> 0]]
    ELSE IF r.formatBlocked THEN [r EXCEPT !.formatBlocked = FALSE, !.format = 0]
    ELSE r

\* Mutant of ReopenedWindows: unresolved windows are read again, as in protocol V3.
ReopenUnresolved == {w \in Windows : Blocked(w) \/ record[w].status \in {"read_pending", "unresolved"}}
ReopenedWindows == {w \in Windows : Blocked(w) \/ record[w].status = "read_pending"}
ReopenedNotes == {n \in order : ~reviewed.complete /\ item[n].blocked}

ApplyRetry ==
    /\ record' = [w \in Windows |-> Unblocked(record[w])]
    /\ item' = [n \in Windows |->
                  IF n \in ReopenedNotes
                  THEN [item[n] EXCEPT !.attempts = 0, !.refusals = 0, !.stalls = 0, !.blocked = FALSE]
                  ELSE item[n]]
    /\ cursor' = IF ReopenedWindows = {} THEN cursor
                 ELSE CHOOSE w \in ReopenedWindows : \A v \in ReopenedWindows : w <= v
    /\ reading' = [reading EXCEPT !.complete = @ /\ ReopenedWindows = {}]
    /\ decided' = IF ReopenedNotes = {} THEN decided
                  ELSE {n \in decided : \A m \in ReopenedNotes : n < m}

Start ==
    /\ pc = "idle"
    /\ pc' = "load" /\ report' = "partial" /\ retryAsked' = FALSE
    /\ IF retryAsked THEN ApplyRetry ELSE UNCHANGED <<record, item, cursor, reading, decided>>
    /\ UNCHANGED <<refused, order, reviewed, published, calls, retries, notebook, tries, said>>

\* The user asks for an explicit retry of a job that is not running.
AskRetry ==
    /\ pc = "idle" /\ ~retryAsked /\ retries < MaxRetries
    /\ retries' = retries + 1 /\ retryAsked' = TRUE
    /\ UNCHANGED <<refused, checkpoint, notebook, pc, tries, said, report>>

\* The process dies, or the run loses its lease.
Crash ==
    /\ pc # "idle" /\ Partial
    /\ UNCHANGED <<refused, checkpoint, retryAsked, retries, notebook>>
-----------------------------------------------------------------------------
(* Stage A: the windows, in order. *)

\* The record of a new window is added; one the host cannot show is unresolved at once.  The
\* context follows from what earlier windows kept; if it is too large, an error that nobody
\* catches ends this run and every later one.
OpenWindow ==
    /\ pc = "load" /\ Reading /\ ~AtEnd /\ record[cursor].status = "none"
    /\ IF cursor \in refused
       THEN /\ Keep([record[cursor] EXCEPT !.status = "unresolved"])
            /\ cursor' = cursor + 1 /\ Goto("load")
       ELSE \E oversized \in BOOLEAN :
              /\ oversized => cursor \in Crowded
              /\ Keep([record[cursor] EXCEPT !.status = "read_pending", !.oversized = oversized])
              /\ AskOr(oversized) /\ UNCHANGED cursor
    /\ ReadingOnly /\ UNCHANGED <<calls, note, windowReceipt>>

\* An earlier run left the window pending: it goes on where that run stopped.
ResumeWindow ==
    /\ pc = "load" /\ Pending
    /\ AskOr(record[cursor].blocked \/ record[cursor].oversized)
    /\ ReadingOnly /\ UNCHANGED <<record, cursor, calls, note, windowReceipt>>

\* The window was read and its record saved: only the cursor is left.
PassWindow ==
    /\ pc = "load" /\ Reading /\ ~AtEnd /\ record[cursor].status \notin {"none", "read_pending"}
    /\ cursor' = cursor + 1 /\ Goto("load")
    /\ ReadingOnly /\ UNCHANGED <<record, calls, note, windowReceipt>>

\* Two malformed receipts block the window.
BlockFormat ==
    /\ pc = "ask" /\ Pending /\ Phase = "plan" /\ record[cursor].format >= 2
    /\ Keep([record[cursor] EXCEPT !.formatBlocked = TRUE]) /\ Partial
    /\ ReadingOnly /\ UNCHANGED <<cursor, calls, note, windowReceipt>>

Askable ==
    /\ pc = "ask"
    /\ Reading => ~(Phase = "plan" /\ record[cursor].format >= 2)
    /\ Reviewing => item[Current].attempts < 2

\* Mutant of Ask: the call is not charged.
AskFree ==
    /\ Askable /\ calls[Phase] < Limit[Phase]
    /\ Goto("answer") /\ Outside
    /\ UNCHANGED <<record, cursor, reading, item, order, decided, reviewed, published, calls, notebook>>

\* A call within the limit of its phase is charged and saved before it leaves.
Ask ==
    /\ Askable /\ calls[Phase] < Limit[Phase]
    /\ calls' = [calls EXCEPT ![Phase] = @ + 1] /\ Goto("answer")
    /\ Outside
    /\ UNCHANGED <<record, cursor, reading, item, order, decided, reviewed, published, notebook>>

\* Past the limit, or past the deadline of the job, nothing is asked.
StopAsking ==
    /\ Askable /\ Partial
    /\ Outside /\ UNCHANGED <<record, cursor, reading, item, order, decided, reviewed, published, calls, notebook>>

\* No usable answer: a transport error, a timeout, a text that is not JSON.
NoAnswer ==
    /\ pc = "answer" /\ Partial
    /\ Outside
    /\ UNCHANGED <<record, cursor, reading, item, order, decided, reviewed, published, calls, notebook>>

Answered(phase) == pc = "answer" /\ Reading /\ Phase = phase
Prepared(r, blocked) ==
    /\ Keep(r) /\ AskOr(blocked)
    /\ ReadingOnly /\ UNCHANGED <<cursor, calls, note, windowReceipt>>

Classify == Answered("classify") /\ Prepared([record[cursor] EXCEPT !.prepared = "classified"], FALSE)

\* Ranges inside the window, or an explained empty answer.
Attribute ==
    /\ Answered("attribute")
    /\ \E to \in {"attributed", "empty"} : Prepared([record[cursor] EXCEPT !.prepared = to], FALSE)

\* One correction of a malformed attribution in a run.
MalformedAttribution ==
    /\ Answered("attribute")
    /\ IF tries = 1 THEN Partial
                    ELSE pc' = "ask" /\ tries' = tries + 1 /\ UNCHANGED <<said, report>>
    /\ ReadingOnly /\ UNCHANGED <<record, cursor, calls, note, windowReceipt>>

\* A delivery of facts: some verified or none, and a claim that the window is exhausted.  A claim
\* with facts of which none was verified does not exhaust the window, but ends the streak.
Extract ==
    /\ Answered("extract")
    /\ \E accepted, rejected, complete \in BOOLEAN :
         LET r == record[cursor]
             progress == accepted \/ complete
             streak   == IF progress THEN 0 ELSE r.streak + 1
             finished == complete /\ (accepted \/ ~rejected)
         IN  /\ accepted => r.prepared = "attributed"
             /\ Prepared([r EXCEPT !.candidates = @ \/ accepted, !.streak = streak,
                                   !.prepared = IF finished THEN "ready" ELSE @,
                                   !.blocked = streak >= 2],
                         streak >= 2)

\* The context tool, while attributing or extracting: earlier windows shown again.
Readable(w) == record[w].status \notin {"none", "read_pending"} /\ w \notin refused

ShowAgain ==
    /\ pc = "answer" /\ Reading /\ Phase \in ToolPhases
    /\ \E ws \in SUBSET {w \in Windows : w < cursor /\ Readable(w)} :
         LET fresh == ws \ record[cursor].shown IN
         /\ ws # {} /\ Cardinality(ws) <= 2 /\ Cardinality(record[cursor].shown \cup fresh) <= 2
         /\ IF fresh = {}
            THEN LET stalls == record[cursor].stalls + 1 IN
                 Prepared([record[cursor] EXCEPT !.stalls = stalls, !.blocked = stalls >= 2], stalls >= 2)
            ELSE Prepared([record[cursor] EXCEPT !.shown = @ \cup fresh, !.stalls = 0, !.streak = 0], FALSE)

\* A request the tool refuses: malformed, a window not yet read, a third one.
RefuseTool ==
    /\ pc = "answer" /\ Reading /\ Phase \in ToolPhases
    /\ Prepared([record[cursor] EXCEPT !.refusals[Phase] = @ + 1], record[cursor].refusals[Phase] >= 1)

MalformedReceipt ==
    /\ Answered("plan")
    /\ Prepared([record[cursor] EXCEPT !.format = @ + 1], FALSE)

NoRevision == [note |-> 0, to |-> "none"]
Revisions  == [note : Windows, to : {"same", "verified", "needs_check", "rejected"}]
Receipts   == [outcome : {"noted", "unresolved"}, create : {"none", "verified", "needs_check"},
               revise : Revisions \cup {NoRevision}]
              \cup {[outcome |-> "no_content", create |-> "none", revise |-> NoRevision]}

\* What the ledger lets through: a note of a candidate, a revision of a note that is not discarded.
Applicable(receipt) ==
    /\ receipt.outcome = "noted" => receipt.create # "none" \/ receipt.revise # NoRevision
    /\ receipt.create # "none" => record[cursor].candidates
    /\ receipt.revise # NoRevision =>
         note[receipt.revise.note] \notin {"none", "rejected"} /\ receipt.revise.note # cursor

Revised(receipt) ==
    [n \in Windows |->
       IF n = cursor /\ receipt.create # "none"
       THEN IF receipt.outcome = "unresolved" THEN "needs_check" ELSE receipt.create
       ELSE IF n = receipt.revise.note /\ receipt.revise.to # "same" THEN receipt.revise.to
       ELSE note[n]]

\* Mutant of CommitReceipt: the receipt of an earlier run is replaced.
CommitAgain ==
    /\ Answered("plan")
    /\ \E receipt \in Receipts :
         /\ said' = receipt.outcome
         /\ Applicable(receipt)
         /\ note' = Revised(receipt)
         /\ windowReceipt' = [windowReceipt EXCEPT ![cursor] = receipt.outcome]
    /\ pc' = "committed" /\ UNCHANGED <<tries, report>>
    /\ ReadingOnly /\ UNCHANGED <<record, cursor, calls>>

\* The receipt of a window is committed with its notes.  A receipt committed before is kept.
CommitReceipt ==
    /\ Answered("plan")
    /\ \E receipt \in Receipts :
         /\ said' = receipt.outcome
         /\ IF windowReceipt[cursor] = "none"
            THEN /\ Applicable(receipt)
                 /\ note' = Revised(receipt)
                 /\ windowReceipt' = [windowReceipt EXCEPT ![cursor] = receipt.outcome]
            ELSE UNCHANGED <<note, windowReceipt>>
    /\ pc' = "committed" /\ UNCHANGED <<tries, report>>
    /\ ReadingOnly /\ UNCHANGED <<record, cursor, calls>>

\* A receipt the ledger rejects: the window is given up.
RejectReceipt ==
    /\ Answered("plan") /\ windowReceipt[cursor] = "none"
    /\ Keep([record[cursor] EXCEPT !.status = "unresolved"])
    /\ cursor' = cursor + 1
    /\ pc' = "load" /\ tries' = 0 /\ UNCHANGED <<said, report>>
    /\ ReadingOnly /\ UNCHANGED <<calls, note, windowReceipt>>

SaveWindow ==
    /\ pc = "committed"
    /\ Keep([record[cursor] EXCEPT !.status = said])
    /\ pc' = "load" /\ said' = "none" /\ tries' = 0 /\ UNCHANGED report
    /\ ReadingOnly /\ UNCHANGED <<cursor, calls, note, windowReceipt>>

CompleteReading ==
    /\ pc = "load" /\ Reading /\ AtEnd
    /\ reading' = [complete |-> TRUE,
                   unresolved |-> Cardinality({w \in Windows : record[w].status = "unresolved"})]
    /\ reviewed' = [reviewed EXCEPT !.open = Cardinality(NotesIn("needs_check"))]
    /\ Goto("load") /\ Outside
    /\ UNCHANGED <<record, cursor, item, order, decided, published, calls, notebook>>
-----------------------------------------------------------------------------
(* Stage B: the notes, one at a time. *)

\* Mutant of FreezeOrder: only verified notes are reviewed.
FreezeVerified ==
    /\ pc = "load" /\ Reviewing /\ order = {} /\ Notes # NotesIn("rejected")
    /\ order' = IF NotesIn("verified") = {} THEN Notes ELSE NotesIn("verified")
    /\ Goto("load")
    /\ ReviewOnly /\ UNCHANGED <<item, decided, reviewed, calls, note, reviewReceipt>>

\* The notes to be reviewed are fixed: those discarded while reading are not reviewed again.
FreezeOrder ==
    /\ pc = "load" /\ Reviewing /\ order = {} /\ Notes # NotesIn("rejected")
    /\ order' = Notes \ NotesIn("rejected") /\ Goto("load")
    /\ ReviewOnly /\ UNCHANGED <<item, decided, reviewed, calls, note, reviewReceipt>>

AtNote == pc = "load" /\ Reviewing /\ Undecided # {}
NoDecision == UNCHANGED <<order, decided, reviewed, note, reviewReceipt>>

\* A decision committed by a run that did not live to save it is only counted.
PassNote ==
    /\ AtNote /\ ~item[Current].blocked /\ reviewReceipt[Current] # "none"
    /\ decided' = decided \cup {Current} /\ Goto("load")
    /\ ReviewOnly /\ UNCHANGED <<item, order, reviewed, calls, note, reviewReceipt>>

\* The windows a note was shown are saved as texts and read back as numbers: that fails.
Loadable(n) == item[n].shown = 0

\* A blocked note stops the run, and so does, with an error, one that cannot be loaded.
LoadNote ==
    /\ AtNote /\ (reviewReceipt[Current] = "none" \/ item[Current].blocked)
    /\ AskOr(item[Current].blocked \/ ~Loadable(Current))
    /\ ReviewOnly /\ UNCHANGED <<item, calls>> /\ NoDecision

\* Two malformed or rejected decisions block the note.
BlockNote ==
    /\ pc = "ask" /\ Reviewing /\ item[Current].attempts >= 2
    /\ KeepItem([item[Current] EXCEPT !.blocked = TRUE]) /\ Partial
    /\ ReviewOnly /\ UNCHANGED calls /\ NoDecision

Advised == pc = "answer" /\ Reviewing
Judged(r, blocked) ==
    /\ KeepItem(r) /\ AskOr(blocked)
    /\ ReviewOnly /\ UNCHANGED calls /\ NoDecision

\* The context tool of the review.  The window of the note is shown anyway: asking for it alone is
\* a stall.  A window shown before is not recognized, and is granted again.
ReviewShow ==
    /\ Advised
    /\ \E ws \in SUBSET {w \in Windows : Readable(w)} :
         LET granted == Cardinality(ws \ {Current})
             stalls  == item[Current].stalls + 1 IN
         /\ ws # {} /\ Cardinality(ws) <= 2 /\ item[Current].shown + granted <= 2
         /\ IF granted = 0
            THEN Judged([item[Current] EXCEPT !.stalls = stalls, !.blocked = stalls >= 2], stalls >= 2)
            ELSE Judged([item[Current] EXCEPT !.shown = @ + granted, !.stalls = 0], FALSE)

RefuseReviewTool ==
    /\ Advised
    /\ LET refusals == item[Current].refusals + 1 IN
       Judged([item[Current] EXCEPT !.refusals = refusals, !.blocked = refusals >= 2], refusals >= 2)

\* A malformed decision, or one the ledger rejects: nothing of it is kept.
RejectDecision == Advised /\ Judged([item[Current] EXCEPT !.attempts = @ + 1], FALSE)

Actions == {"confirmed", "revise_fact", "relate", "mark_needs_check", "reject"}
StatusAfter(action, status) ==
    CASE action = "revise_fact"      -> "verified"
      [] action = "mark_needs_check" -> "needs_check"
      [] action = "reject"           -> "rejected"
      [] OTHER                       -> status

\* A note that is open is not confirmed without new evidence; a relation needs another note.
Allowed(action) ==
    /\ action = "confirmed" => note[Current] = "verified"
    /\ action = "relate" => Notes # {Current}

\* The decision is committed with the note it changes.
CommitDecision ==
    /\ Advised
    /\ \E action \in Actions :
         /\ Allowed(action)
         /\ note' = [note EXCEPT ![Current] = StatusAfter(action, @)]
         /\ reviewReceipt' = [reviewReceipt EXCEPT ![Current] = action]
    /\ Goto("judged")
    /\ ReviewOnly /\ UNCHANGED <<item, order, decided, reviewed, calls>>

SaveDecision ==
    /\ pc = "judged"
    /\ decided' = decided \cup {Current} /\ Goto("load")
    /\ ReviewOnly /\ UNCHANGED <<item, order, reviewed, calls, note, reviewReceipt>>

CompleteReview ==
    /\ pc = "load" /\ Reviewing /\ Undecided = {} /\ (order = {} => Notes = NotesIn("rejected"))
    /\ reviewed' = [complete |-> TRUE, open |-> Cardinality(NotesIn("needs_check"))]
    /\ Goto("load")
    /\ ReviewOnly /\ UNCHANGED <<item, order, decided, calls, note, reviewReceipt>>
-----------------------------------------------------------------------------
(* The end of a run. *)

\* Mutant of AtPublication: open notes are not asked for.
AtPublicationOpen == pc = "load" /\ reviewed.complete /\ ~published
AtPublication == pc = "load" /\ reviewed.complete /\ reviewed.open = 0 /\ ~published

\* Stage C succeeds or stops (module NotesPublish).
Publish ==
    /\ AtPublication /\ published' = TRUE /\ Goto("load")
    /\ Outside /\ UNCHANGED <<record, cursor, reading, item, order, decided, reviewed, calls, notebook>>

PublicationStops ==
    /\ AtPublication /\ Partial
    /\ Outside
    /\ UNCHANGED <<record, cursor, reading, item, order, decided, reviewed, published, calls, notebook>>

\* Mutant of Finish: unresolved readings are not asked for.
FinishUnread ==
    /\ pc = "load" /\ reviewed.complete /\ (reviewed.open > 0 \/ published)
    /\ Stop(IF reviewed.open = 0 /\ published THEN "success" ELSE "partial")
    /\ Outside
    /\ UNCHANGED <<record, cursor, reading, item, order, decided, reviewed, published, calls, notebook>>

\* The job is done; the upload reports success if nothing was left open on the way.
Finish ==
    /\ pc = "load" /\ reviewed.complete /\ (reviewed.open > 0 \/ published)
    /\ Stop(IF reading.unresolved = 0 /\ reviewed.open = 0 /\ published THEN "success" ELSE "partial")
    /\ Outside
    /\ UNCHANGED <<record, cursor, reading, item, order, decided, reviewed, published, calls, notebook>>
-----------------------------------------------------------------------------
ReadWindow   == OpenWindow \/ ResumeWindow \/ PassWindow \/ BlockFormat \/ SaveWindow \/ CompleteReading
WindowAnswer == \/ Classify \/ Attribute \/ MalformedAttribution \/ Extract \/ ShowAgain \/ RefuseTool
                \/ MalformedReceipt \/ CommitReceipt \/ RejectReceipt
ReviewNote   == FreezeOrder \/ PassNote \/ LoadNote \/ BlockNote \/ SaveDecision \/ CompleteReview
NoteAnswer   == ReviewShow \/ RefuseReviewTool \/ RejectDecision \/ CommitDecision
Conclude     == Publish \/ PublicationStops \/ Finish
Run == ReadWindow \/ Ask \/ StopAsking \/ NoAnswer \/ WindowAnswer \/ ReviewNote \/ NoteAnswer \/ Conclude
Environment  == Start \/ AskRetry \/ Crash

Next == Run \/ Environment

\* A run that is not stopped goes on: every call has a timeout.
Spec == Init /\ [][Next]_vars /\ WF_vars(Run)
-----------------------------------------------------------------------------
RecordTypes ==
    [status : {"none", "read_pending", "noted", "no_content", "unresolved"},
     prepared : {"no", "classified", "attributed", "empty", "ready"},
     candidates : BOOLEAN, streak : 0 .. 2, refusals : [ToolPhases -> Nat], format : 0 .. 2,
     formatBlocked : BOOLEAN, shown : SUBSET Windows, stalls : 0 .. 2, blocked : BOOLEAN, oversized : BOOLEAN]
ItemTypes ==
    [attempts : 0 .. 2, refusals : 0 .. 2, stalls : 0 .. 2, shown : 0 .. 2, blocked : BOOLEAN]

CheckpointTypes ==
    /\ refused \subseteq Windows /\ record \in [Windows -> RecordTypes]
    /\ cursor \in 1 .. Cardinality(Windows) + 1
    /\ reading \in [complete : BOOLEAN, unresolved : Nat]
ReviewTypes ==
    /\ item \in [Windows -> ItemTypes] /\ order \subseteq Windows /\ decided \subseteq order
    /\ reviewed \in [complete : BOOLEAN, open : Nat]
NotebookTypes ==
    /\ note \in [Windows -> {"none", "verified", "needs_check", "rejected"}]
    /\ windowReceipt \in [Windows -> {"none", "noted", "no_content", "unresolved"}]
    /\ reviewReceipt \in [Windows -> {"none"} \cup Actions]
RunTypes ==
    /\ published \in BOOLEAN /\ calls \in [Phases -> Nat]
    /\ retryAsked \in BOOLEAN /\ retries \in Nat
    /\ pc \in {"idle", "load", "ask", "answer", "committed", "judged"}
    /\ tries \in 0 .. 1 /\ said \in {"none", "noted", "no_content", "unresolved"}
    /\ report \in {"partial", "success"}

TypeOK == CheckpointTypes /\ ReviewTypes /\ NotebookTypes /\ RunTypes

\* The review covers the notebook: once it has begun nothing is read any more (an explicit retry
\* reopens the review, never a window), and a finished review has decided every note that was not
\* discarded while it was read.  No note slips in after the order of the review is frozen.
ReviewCoversNotebook ==
    /\ order # {} => reading.complete /\ \A w \in Windows : record[w].status \notin {"none", "read_pending"}
    /\ reviewed.complete => \A n \in Notes : note[n] = "rejected" \/ reviewReceipt[n] # "none"

\* What was decided stands: a receipt is never replaced, a discarded note never comes back and a
\* reviewed note never changes, whatever crashes, retries and repeated answers come later.
DecisionsStand ==
    [][\A n \in Windows :
         /\ windowReceipt[n] # "none" => windowReceipt'[n] = windowReceipt[n]
         /\ note[n] = "rejected" => note'[n] = "rejected"
         /\ reviewReceipt[n] # "none" => reviewReceipt'[n] = reviewReceipt[n] /\ note'[n] = note[n]]_vars

\* Only a notebook without open notes is published, and it stays without: no later run reopens it.
PublishedIsReviewed ==
    published => reviewed.complete /\ NotesIn("needs_check") = {}

\* Success is reported for a document of which every window was read and settled, every note
\* decided, and everything published.
SuccessIsWhole ==
    report = "success" =>
        /\ published
        /\ \A w \in Windows : w \notin refused /\ record[w].status \in {"noted", "no_content"}
        /\ \A n \in Notes : note[n] = "rejected" \/ (note[n] = "verified" /\ reviewReceipt[n] # "none")

\* A run always ends: no exchange with the employee goes on without spending the limits.
RunEnds == pc # "idle" ~> pc = "idle"

\* A review that stopped at a limit goes on later: a note that is neither decided nor blocked can
\* be taken up again by a new run.
ReviewResumes ==
    AtNote /\ reviewReceipt[Current] = "none" /\ ~item[Current].blocked => Loadable(Current)
=============================================================================
