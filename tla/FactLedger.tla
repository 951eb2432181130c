----------------------------- MODULE FactLedger -----------------------------
(***************************************************************************)
(* The fact ledger of a company: extraction runs                           *)
(* (memory/company_facts/l2_complete_facts.py) consolidate what the        *)
(* employee model proposes into facts and review todos, people resolve or  *)
(* dismiss the todos (memory/company_facts/l2_consolidation.py).           *)
(*                                                                         *)
(* Facts and todos are append-only tables of one SQLite file: a row is     *)
(* never removed, a fact is closed by superseded_by, a todo by its status. *)
(* An import reads and writes inside one BEGIN IMMEDIATE transaction.  A   *)
(* decision reads first and opens its transaction with its first write.    *)
(* The transaction of the one writer works on wFacts and wTodos; everyone  *)
(* else reads the committed facts and todos.                               *)
(***************************************************************************)
EXTENDS Integers, Sequences, SequencesExt

CONSTANTS Coordinates,   \* entity, attribute and period of a fact
          Values,        \* the string of a value
          Units,
          Sources,       \* imported files, each with the page and span its candidates cite
          None,          \* neither a coordinate, a value nor a unit
          Batches,       \* what the employee may propose for a file: sequences of Candidate
          Runs,          \* rows of fact_runs
          Deciders,      \* requests that resolve or dismiss a todo
          Idle,          \* no transaction is open
          MaxDecisions,  \* bound: decisions that start
          MaxFaults      \* bound: transactions that raise, and process stops

\* review: the candidate is critical or the employee gave a review_reason.
Candidate == [at : Coordinates, value : Values, unit : Units, review : BOOLEAN]

ASSUME FactLedgerAssumption ==
    /\ Batches \subseteq Seq(Candidate)
    /\ None \notin Coordinates \cup Values \cup Units
    /\ Idle \notin Runs \cup Deciders /\ Runs \cap Deciders = {}
    /\ MaxDecisions \in Nat /\ MaxFaults \in Nat
    /\ {"candidate", "existing", "dismiss"} \cap Values = {}

VARIABLES
    facts, todos,       \* committed rows, a row's id is its position
    wFacts, wTodos,     \* the same tables as the open transaction sees them
    writer,             \* the run or decider whose transaction is open, or Idle
    rpc, source, batch, unresolved, next,   \* extraction runs: step, file, proposal, position
    runStatus,          \* fact_runs.status
    dpc, chosen, choice, targets,           \* decisions: step, todo, choose, todos left to write
    decisions, faults

tables == <<facts, todos>>
open   == <<wFacts, wTodos>>
runs   == <<rpc, source, batch, unresolved, next, runStatus>>
people == <<dpc, chosen, choice, targets>>
vars   == <<tables, open, writer, runs, people, decisions, faults>>

Answers == {"candidate", "existing", "dismiss"} \cup Values
Fact == [at : Coordinates, value : Values, unit : Units, source : Sources,
         mode : {"auto", "manual"}, by : Nat]
Todo == [at : Coordinates \cup {None}, value : Values \cup {None}, unit : Units \cup {None},
         source : Sources, reason : {"review", "conflict", "unresolved"},
         status : {"open", "resolved", "dismissed"}, related : Nat]

Init ==
    /\ facts = <<>> /\ todos = <<>> /\ wFacts = <<>> /\ wTodos = <<>>
    /\ writer = Idle
    /\ rpc = [r \in Runs |-> "out"]
    /\ source \in [Runs -> Sources]
    /\ batch = [r \in Runs |-> <<>>]
    /\ unresolved = [r \in Runs |-> FALSE]
    /\ next = [r \in Runs |-> 1]
    /\ runStatus = [r \in Runs |-> "absent"]
    /\ dpc = [d \in Deciders |-> "idle"]
    /\ chosen = [d \in Deciders |-> 0]
    /\ choice = [d \in Deciders |-> "existing"]
    /\ targets = [d \in Deciders |-> {}]
    /\ decisions = 0 /\ faults = 0

-----------------------------------------------------------------------------
\* Rows

NewFact(c, s, mode) ==
    [at |-> c.at, value |-> c.value, unit |-> c.unit, source |-> s, mode |-> mode, by |-> 0]

\* A row gives a candidate's value in its unit.
Says(row, c) == row.at = c.at /\ row.value = c.value /\ row.unit = c.unit

\* _current_fact: the latest open row of the coordinate, 0 when there is none.
CurrentFact(rows, at) ==
    LET open_rows == {i \in DOMAIN rows : rows[i].at = at /\ rows[i].by = 0}
    IN  IF open_rows = {} THEN 0 ELSE CHOOSE i \in open_rows : \A k \in open_rows : k <= i

\* handoff_key: coordinate, value and evidence, and not the unit; a second todo with it is
\* not written.
SameKey(t, u) == t.at = u.at /\ t.value = u.value /\ t.source = u.source

\* Mutant of Handed: the key leaves the value out.
HandedByCoordinate(rows, t) ==
    IF \E i \in DOMAIN rows : rows[i].at = t.at /\ rows[i].source = t.source
    THEN rows ELSE Append(rows, t)

\* INSERT ... ON CONFLICT(company_id, handoff_key) DO NOTHING, whatever became of the first.
Handed(rows, t) ==
    IF \E i \in DOMAIN rows : SameKey(rows[i], t) THEN rows ELSE Append(rows, t)

ReviewTodo(c, s, existing) ==
    [at |-> c.at, value |-> c.value, unit |-> c.unit, source |-> s,
     reason |-> IF existing = 0 THEN "review" ELSE "conflict", status |-> "open",
     related |-> existing]

UnresolvedTodo(s) ==
    [at |-> None, value |-> None, unit |-> None, source |-> s, reason |-> "unresolved",
     status |-> "open", related |-> 0]

-----------------------------------------------------------------------------
\* Transactions

Begin(x) ==
    /\ writer = Idle
    /\ writer' = x

Commit(f, t) ==
    /\ facts' = f /\ todos' = t /\ wFacts' = f /\ wTodos' = t
    /\ writer' = Idle

Discard ==
    /\ wFacts' = facts /\ wTodos' = todos
    /\ writer' = Idle

-----------------------------------------------------------------------------
\* Extraction runs

\* prepare: the audit row is committed before the employee is called.
StartRun(r) ==
    /\ rpc[r] = "out" /\ writer = Idle
    /\ rpc' = [rpc EXCEPT ![r] = "extracting"]
    /\ runStatus' = [runStatus EXCEPT ![r] = "running"]
    /\ UNCHANGED <<tables, open, writer, source, batch, unresolved, next, people, decisions, faults>>

\* The employee's verified candidates, and whether some block stayed unresolved.
Extract(r) ==
    /\ rpc[r] = "extracting"
    /\ rpc' = [rpc EXCEPT ![r] = "prepared"]
    /\ \E b \in Batches, u \in BOOLEAN :
          /\ batch' = [batch EXCEPT ![r] = b]
          /\ unresolved' = [unresolved EXCEPT ![r] = u]
    /\ UNCHANGED <<tables, open, writer, source, next, runStatus, people, decisions, faults>>

\* abort: by prepare after a transport error, by the pipeline when it was canceled before
\* the commit or when the commit raised.
Abort(r) ==
    /\ rpc[r] \in {"extracting", "prepared", "aborting"} /\ writer = Idle
    /\ rpc' = [rpc EXCEPT ![r] = "over"]
    /\ \E s \in {"canceled", "failed"} :
          /\ rpc[r] = "extracting" => s = "failed"
          /\ runStatus' = [runStatus EXCEPT ![r] = IF @ = "running" THEN s ELSE @]
    /\ UNCHANGED <<tables, open, writer, source, batch, unresolved, next, people, decisions, faults>>

\* commit: BEGIN IMMEDIATE, and the run must still be running.
BeginCommit(r) ==
    /\ rpc[r] = "prepared" /\ runStatus[r] = "running"
    /\ Begin(r)
    /\ rpc' = [rpc EXCEPT ![r] = "writing"]
    /\ UNCHANGED <<tables, open, source, batch, unresolved, next, runStatus, people, decisions, faults>>

\* Mutant of Existing: what is current is read on a connection of its own.
ExistingCommitted(at) == CurrentFact(facts, at)

\* The current fact of a coordinate, as the transaction sees it.
Existing(at) == CurrentFact(wFacts, at)

\* One candidate of consolidate_candidates: an unknown coordinate takes an uncritical value,
\* the current value in its unit is a duplicate, anything else is left to a person.
Consolidate(c, s) ==
    LET i == Existing(c.at) IN
    \/ /\ i = 0 /\ ~c.review
       /\ wFacts' = Append(wFacts, NewFact(c, s, "auto"))
       /\ UNCHANGED wTodos
    \/ /\ i # 0 /\ Says(wFacts[i], c)
       /\ UNCHANGED open
    \/ /\ i = 0 => c.review
       /\ i # 0 => ~Says(wFacts[i], c)
       /\ wTodos' = Handed(wTodos, ReviewTodo(c, s, i))
       /\ UNCHANGED wFacts

ConsolidateNext(r) ==
    /\ rpc[r] = "writing" /\ next[r] <= Len(batch[r])
    /\ Consolidate(batch[r][next[r]], source[r])
    /\ next' = [next EXCEPT ![r] = @ + 1]
    /\ UNCHANGED <<tables, writer, rpc, source, batch, unresolved, runStatus, people, decisions,
                   faults>>

\* The unresolved blocks, the run's status and the job's l2_committed go with the facts.
FinishCommit(r) ==
    /\ rpc[r] = "writing" /\ next[r] > Len(batch[r])
    /\ Commit(wFacts, IF unresolved[r] THEN Handed(wTodos, UnresolvedTodo(source[r])) ELSE wTodos)
    /\ rpc' = [rpc EXCEPT ![r] = "over"]
    /\ runStatus' = [runStatus EXCEPT ![r] = "completed"]
    /\ UNCHANGED <<source, batch, unresolved, next, people, decisions, faults>>

\* Any statement of the transaction raises, or the job is not the one of the run.
Rollback(r) ==
    /\ rpc[r] = "writing" /\ faults < MaxFaults
    /\ Discard
    /\ rpc' = [rpc EXCEPT ![r] = "aborting"]
    /\ faults' = faults + 1
    /\ UNCHANGED <<tables, source, batch, unresolved, next, runStatus, people, decisions>>

-----------------------------------------------------------------------------
\* Decisions

\* The todos one decision closes: for a conflict, every open conflict of the same file.
Bundle(t, c) ==
    IF c \in {"candidate", "existing"} /\ todos[t].reason = "conflict"
    THEN {u \in DOMAIN todos : /\ todos[u].status = "open"
                              /\ todos[u].reason = "conflict"
                              /\ todos[u].source = todos[t].source}
    ELSE {t}

\* resolve and dismiss read the todo, and the bundle, before any transaction is open.
Decide(d, t, c) ==
    /\ dpc[d] = "idle" /\ decisions < MaxDecisions
    /\ todos[t].status = "open"
    /\ todos[t].reason = "unresolved" => c = "dismiss"
    /\ dpc' = [dpc EXCEPT ![d] = "read"]
    /\ chosen' = [chosen EXCEPT ![d] = t]
    /\ choice' = [choice EXCEPT ![d] = c]
    /\ targets' = [targets EXCEPT ![d] = Bundle(t, c)]
    /\ decisions' = decisions + 1
    /\ UNCHANGED <<tables, open, writer, runs, faults>>

\* The first INSERT or UPDATE takes the write lock, and re-reads nothing.
BeginDecision(d) ==
    /\ dpc[d] = "read"
    /\ Begin(d)
    /\ dpc' = [dpc EXCEPT ![d] = "writing"]
    /\ UNCHANGED <<tables, open, runs, chosen, choice, targets, decisions, faults>>

\* Mutant of Superseded: every target supersedes the fact of the chosen todo.
SupersededOfChosen(d, t, rows) ==
    [i \in DOMAIN rows |-> IF i = wTodos[chosen[d]].related /\ rows[i].by = 0
                           THEN [rows[i] EXCEPT !.by = Len(rows)] ELSE rows[i]]

\* rows, the last of which was just inserted for todo t: the fact t was raised against is
\* closed by it, if it still is open.
Superseded(d, t, rows) ==
    [i \in DOMAIN rows |-> IF i = wTodos[t].related /\ rows[i].by = 0
                           THEN [rows[i] EXCEPT !.by = Len(rows)] ELSE rows[i]]

\* The fact a decision for todo t inserts.
DecidedFact(d, t) ==
    NewFact([at |-> wTodos[t].at,
             value |-> IF choice[d] = "candidate" THEN wTodos[t].value ELSE choice[d],
             unit |-> wTodos[t].unit],
            wTodos[t].source, "manual")

\* The todos are taken in the order of their ids.
NextTarget(d) == CHOOSE t \in targets[d] : \A u \in targets[d] : t <= u

\* One todo of a decision: unless the existing value stays, a manual fact is inserted.
DecideTarget(d) ==
    /\ dpc[d] = "writing" /\ targets[d] # {}
    /\ LET t == NextTarget(d) IN
       /\ wTodos' = [wTodos EXCEPT ![t].status =
                       IF choice[d] = "dismiss" THEN "dismissed" ELSE "resolved"]
       /\ wFacts' = IF choice[d] \in {"dismiss", "existing"} THEN wFacts
                    ELSE Superseded(d, t, Append(wFacts, DecidedFact(d, t)))
    /\ targets' = [targets EXCEPT ![d] = @ \ {NextTarget(d)}]
    /\ UNCHANGED <<tables, writer, runs, dpc, chosen, choice, decisions, faults>>

FinishDecision(d) ==
    /\ dpc[d] = "writing" /\ targets[d] = {}
    /\ Commit(wFacts, wTodos)
    /\ dpc' = [dpc EXCEPT ![d] = "idle"]
    /\ UNCHANGED <<runs, chosen, choice, targets, decisions, faults>>

\* The process stops: transactions roll back, prepared batches and requests are gone, and
\* a run that was under way stays "running" in fact_runs.
Crash ==
    /\ faults < MaxFaults
    /\ faults' = faults + 1
    /\ Discard
    /\ rpc' = [r \in Runs |-> IF rpc[r] = "out" THEN "out" ELSE "over"]
    /\ dpc' = [d \in Deciders |-> "idle"]
    /\ UNCHANGED <<tables, source, batch, unresolved, next, runStatus, chosen, choice, targets,
                   decisions>>

-----------------------------------------------------------------------------
RunStep(r) ==
    Extract(r) \/ Abort(r) \/ BeginCommit(r) \/ ConsolidateNext(r) \/ FinishCommit(r)
DecideStep(d) == BeginDecision(d) \/ DecideTarget(d) \/ FinishDecision(d)

Next ==
    \/ \E r \in Runs : StartRun(r) \/ RunStep(r) \/ Rollback(r)
    \/ \E d \in Deciders :
          \/ \E t \in DOMAIN todos, c \in Answers : Decide(d, t, c)
          \/ DecideStep(d)
    \/ Crash

Spec == Init /\ [][Next]_vars

-----------------------------------------------------------------------------
\* Every variable has its type; outside a transaction its tables are the committed ones.
TypeOK ==
    /\ facts \in Seq(Fact) /\ wFacts \in Seq(Fact)
    /\ todos \in Seq(Todo) /\ wTodos \in Seq(Todo)
    /\ writer \in Runs \cup Deciders \cup {Idle}
    /\ writer = Idle => wFacts = facts /\ wTodos = todos
    /\ \A r \in Runs : rpc[r] = "writing" <=> writer = r
    /\ \A d \in Deciders : dpc[d] = "writing" <=> writer = d
    /\ rpc \in [Runs -> {"out", "extracting", "prepared", "writing", "aborting", "over"}]
    /\ source \in [Runs -> Sources]
    /\ batch \in [Runs -> Seq(Candidate)]
    /\ unresolved \in [Runs -> BOOLEAN]
    /\ next \in [Runs -> Nat \ {0}]
    /\ runStatus \in [Runs -> {"absent", "running", "completed", "canceled", "failed"}]
    /\ dpc \in [Deciders -> {"idle", "read", "writing"}]
    /\ chosen \in [Deciders -> Nat]
    /\ choice \in [Deciders -> Answers]
    /\ targets \in [Deciders -> SUBSET Nat]
    /\ decisions \in Nat /\ faults \in Nat

\* Imports never write a coordinate twice on their own: whatever runs commit in whatever
\* order, at most one automatic fact of a coordinate ever exists.
OneAutoPerCoordinate ==
    \A i, k \in DOMAIN facts :
        facts[i].mode = "auto" /\ facts[k].mode = "auto" /\ facts[i].at = facts[k].at => i = k

\* No evidence disappears: every candidate of a completed run is a fact with its value and
\* unit, or there is a todo of its evidence and value, and an unresolved block has its todo.
EvidenceOnRecord ==
    \A r \in Runs : runStatus[r] = "completed" =>
        /\ \A c \in ToSet(batch[r]) :
              \/ \E f \in ToSet(facts) : Says(f, c)
              \/ \E t \in ToSet(todos) : SameKey(t, ReviewTodo(c, source[r], 0))
        /\ unresolved[r] => \E t \in ToSet(todos) : SameKey(t, UnresolvedTodo(source[r]))

\* "Neither guessed nor lost, a todo is made" (06-2b-l1-l0-design.md:131): every candidate of a
\* completed run is a fact or a todo with its value in its unit.  The key leaves the unit out,
\* and the second of two such todos is not written.
NothingLost ==
    \A r \in Runs : runStatus[r] = "completed" =>
        \A c \in ToSet(batch[r]) : \E row \in ToSet(facts) \cup ToSet(todos) : Says(row, c)

\* An automatic fact is an uncritical candidate of a run that completed: what a run wrote
\* before it failed, was canceled or stopped is not in the ledger.
AutoFactsHaveRuns ==
    \A f \in ToSet(facts) : f.mode = "auto" =>
        \E r \in Runs : /\ runStatus[r] = "completed" /\ source[r] = f.source
                        /\ \E c \in ToSet(batch[r]) : Says(f, c) /\ ~c.review

\* "Candidates never override current facts": only a later decision about the same
\* coordinate closes a fact.
SupersededByDecision ==
    \A i \in DOMAIN facts : facts[i].by # 0 =>
        /\ facts[i].by \in DOMAIN facts /\ facts[i].by > i
        /\ facts[facts[i].by].mode = "manual" /\ facts[facts[i].by].at = facts[i].at

\* A coordinate that has a fact keeps a current one: no decision leaves it without a value.
CoordinateKeepsFact ==
    \A i \in DOMAIN facts : CurrentFact(facts, facts[i].at) # 0

\* "Same coordinate/value remains one current fact ... a second source with equal content
\* also cannot create ambiguity" (consolidate_candidates).
OneCurrentPerValue ==
    \A i, k \in DOMAIN facts :
        /\ facts[i].by = 0 /\ facts[k].by = 0
        /\ Says(facts[i], facts[k])
        => i = k
=============================================================================
