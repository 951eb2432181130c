---------------------------- MODULE ModulePages -----------------------------
(***************************************************************************)
(* The module pages of one company (app/memory/company_facts/              *)
(* module_projection.py with l1_brief.py and l0_guide.py): for each module *)
(* a brief an employee writes from facts and a guide another writes from   *)
(* the brief, published together, and the company pages copied from them.  *)
(*                                                                         *)
(* An update holds the company's projection_lock from beginning to end.    *)
(* The ledger does not: imports and decisions change the facts between any *)
(* two reads of one update.  An action is one read of the ledger with what *)
(* is computed from it, one call of an employee, or one transaction of the *)
(* memory.  Threads are the parse jobs that committed their facts and the  *)
(* operator's full rebuild (Rebuild).                                      *)
(***************************************************************************)
EXTENDS Naturals, FiniteSets

CONSTANTS Modules,        \* positions in MODULES: an update takes them in order
          Jobs, Rebuild,  \* threads
          Facts, Decided, \* facts that imports and decisions add
          ModuleOf, JobOf, \* of a fact: its module, and of an imported one its job
          MaxFailures,    \* bound: employees and publications that fail, processes that stop
          MaxRequests     \* bound: retries and rebuilds requested

Threads == Jobs \cup {Rebuild}
Ids     == Facts \cup Decided
Free    == "free"

ASSUME PagesAssumption ==
    /\ Modules \subseteq Nat
    /\ Rebuild \notin Jobs /\ Free \notin Threads
    /\ Facts \cap Decided = {}
    /\ ModuleOf \in [Ids -> Modules] /\ JobOf \in [Facts -> Jobs]
    /\ MaxFailures \in Nat /\ MaxRequests \in Nat

VARIABLES
    live, retired,  \* the ledger: verified facts, superseded facts
    brief, guide,   \* published pages; a guide is the version of the brief it was made from
    company,        \* company pages: the version of each module's brief they were copied from
    holder,         \* the thread that holds projection_lock
    pc, snapshot, todo, failed,  \* threads: step, facts read first, modules left, errors
    staged,         \* the stage of the module at hand
    given,          \* facts an employee saw before the brief that is published was written
    versions, failures, requests

threads == <<pc, snapshot, todo, failed>>
pages   == <<brief, guide, company, given>>
ledger  == <<live, retired>>
vars    == <<ledger, pages, holder, threads, staged, versions, failures, requests>>

NoPage == [version |-> 0, cites |-> {}, sources |-> {}, applied |-> {}]

Init ==
    /\ live = {} /\ retired = {}
    /\ brief = [m \in Modules |-> NoPage]
    /\ guide = [m \in Modules |-> 0]
    /\ company = [m \in Modules |-> 0]
    /\ given = [m \in Modules |-> {}]
    /\ holder = Free
    /\ pc = [t \in Threads |-> IF t = Rebuild THEN "idle" ELSE "parsing"]
    /\ snapshot = [t \in Threads |-> {}]
    /\ todo = [t \in Threads |-> {}]
    /\ failed = [t \in Threads |-> FALSE]
    /\ staged = [page |-> NoPage, given |-> {}]
    /\ versions = 0 /\ failures = 0 /\ requests = 0

-----------------------------------------------------------------------------
\* Helpers

Goto(t, step) == pc' = [pc EXCEPT ![t] = step]

In(facts, m) == {f \in facts : ModuleOf[f] = m}

\* verified_fact_ids: what the job's import verified; none for the full rebuild.
Verified(t) == {f \in Facts : t # Rebuild /\ JobOf[f] = t}

\* The facts of the update in one module, as the first read of the ledger has them.
Batch(t, m) == In(snapshot[t] \cap Verified(t), m)

\* Pages to work on: all in a full rebuild, else those of the update's facts and those
\* that have facts and no pages yet.
Targets(t, facts) ==
    {m \in Modules : \/ t = Rebuild
                     \/ In(facts \cap Verified(t), m) # {}
                     \/ In(facts, m) # {} /\ brief[m].version = 0}

\* The module at hand.
Current(t) == CHOOSE m \in todo[t] : \A n \in todo[t] : m <= n

\* Mutant of Skipped: any page that is there will do.
SkippedIfAny(t, m) == t # Rebuild /\ Batch(t, m) # {} /\ brief[m].version # 0

\* A retry leaves alone what its first run published.
Skipped(t, m) ==
    t # Rebuild /\ brief[m].version # 0 /\ Batch(t, m) # {} /\ brief[m].applied = Batch(t, m)

\* The loop goes to the next module, or to the company pages.
NextModule(t, m, error) ==
    /\ todo' = [todo EXCEPT ![t] = @ \ {m}]
    /\ failed' = [failed EXCEPT ![t] = @ \/ error]
    /\ Goto(t, IF todo[t] = {m} THEN "assemble" ELSE "brief")

Failure == failures < MaxFailures /\ failures' = failures + 1

-----------------------------------------------------------------------------
\* The ledger

\* A job's import commits its facts; from here on its run is about the pages.
Import(t) ==
    /\ pc[t] = "parsing"
    /\ live' = live \cup Verified(t)
    /\ Goto(t, "ready")
    /\ UNCHANGED <<retired, pages, holder, snapshot, todo, failed, staged, versions, failures, requests>>

\* A decision adds a fact, and supersedes the one its todo was raised against.
Decide(new, old) ==
    /\ new \in Decided \ (live \cup retired)
    /\ old \subseteq live /\ Cardinality(old) <= 1
    /\ live' = (live \ old) \cup {new} /\ retired' = retired \cup old
    /\ UNCHANGED <<pages, holder, threads, staged, versions, failures, requests>>

-----------------------------------------------------------------------------
\* update

Request ==
    /\ pc[Rebuild] \in {"idle", "failed"} /\ requests < MaxRequests
    /\ requests' = requests + 1
    /\ Goto(Rebuild, "ready")
    /\ UNCHANGED <<ledger, pages, holder, snapshot, todo, failed, staged, versions, failures>>

Retry(t) ==
    /\ t \in Jobs /\ pc[t] = "failed" /\ requests < MaxRequests
    /\ requests' = requests + 1
    /\ Goto(t, "ready")
    /\ UNCHANGED <<ledger, pages, holder, snapshot, todo, failed, staged, versions, failures>>

\* The lock is taken and the facts are read.
Enter(t) ==
    /\ pc[t] = "ready" /\ holder = Free
    /\ holder' = t
    /\ snapshot' = [snapshot EXCEPT ![t] = live]
    /\ todo' = [todo EXCEPT ![t] = Targets(t, live)]
    /\ failed' = [failed EXCEPT ![t] = FALSE]
    /\ Goto(t, IF Targets(t, live) = {} THEN "assemble" ELSE "brief")
    /\ UNCHANGED <<ledger, pages, staged, versions, failures, requests>>

Skip(t) ==
    /\ pc[t] = "brief" /\ Skipped(t, Current(t))
    /\ NextModule(t, Current(t), FALSE)
    /\ UNCHANGED <<ledger, pages, holder, snapshot, staged, versions, failures, requests>>

\* A page that is new or rebuilt in full is written from all facts of its module.
Anew(t, m) == t = Rebuild \/ brief[m].version = 0

\* What a brief may cite: else the facts of the batch, and those the page cites already.
Known(t, m) ==
    IF Anew(t, m) THEN In(live, m) ELSE In(live, m) \cap (Batch(t, m) \cup brief[m].cites)

\* The ledger is read again, the employee answers, and the brief is staged.
WriteBrief(t) ==
    LET m == Current(t) IN
    /\ pc[t] = "brief" /\ ~Skipped(t, m)
    /\ \E cites \in SUBSET Known(t, m) \ {{}} :
          staged' = [page  |-> [version |-> versions + 1, cites |-> cites,
                                sources |-> In(snapshot[t], m), applied |-> Batch(t, m)],
                     given |-> IF Anew(t, m) THEN In(live, m)
                               ELSE given[m] \cup (In(live, m) \cap Batch(t, m))]
    /\ versions' = versions + 1
    /\ Goto(t, "publish")
    /\ UNCHANGED <<ledger, pages, holder, snapshot, todo, failed, failures, requests>>

\* A module without facts has no pages; it is an error that it had some a moment ago, or that
\* it has only facts the brief may not cite.
NoBrief(t) ==
    LET m == Current(t) IN
    /\ pc[t] = "brief" /\ ~Skipped(t, m) /\ Known(t, m) = {}
    /\ IF In(live, m) # {} \/ In(snapshot[t], m) # {}
       THEN NextModule(t, m, TRUE) /\ UNCHANGED staged
       ELSE /\ staged' = [page |-> NoPage, given |-> {}]
            /\ Goto(t, "publish")
            /\ UNCHANGED <<todo, failed>>
    /\ UNCHANGED <<ledger, pages, holder, snapshot, versions, failures, requests>>

\* Mutant of Publish: the brief alone, its guide follows if nothing fails.
PublishBrief(t) ==
    /\ pc[t] = "publish"
    /\ brief' = [brief EXCEPT ![Current(t)] = staged.page]
    /\ given' = [given EXCEPT ![Current(t)] = staged.given]
    /\ NextModule(t, Current(t), FALSE)
    /\ UNCHANGED <<ledger, guide, company, holder, snapshot, staged, versions, failures, requests>>

\* The guide is made from the staged brief, and the pair is published in one transaction.
Publish(t) ==
    /\ pc[t] = "publish"
    /\ brief' = [brief EXCEPT ![Current(t)] = staged.page]
    /\ guide' = [guide EXCEPT ![Current(t)] = staged.page.version]
    /\ given' = [given EXCEPT ![Current(t)] = staged.given]
    /\ NextModule(t, Current(t), FALSE)
    /\ UNCHANGED <<ledger, company, holder, snapshot, staged, versions, failures, requests>>

\* An employee that answers nothing, is rejected or raises; a publication that fails.  To
\* answer nothing about facts that came after the first read is no error.
Fail(t) ==
    LET m == Current(t) IN
    /\ pc[t] \in {"brief", "publish"} /\ Failure
    /\ pc[t] = "brief" => ~Skipped(t, m) /\ Known(t, m) # {}
    /\ \E error \in BOOLEAN :
          /\ error \/ (pc[t] = "brief" /\ In(snapshot[t], m) = {})
          /\ NextModule(t, m, error)
    /\ UNCHANGED <<ledger, pages, holder, snapshot, staged, versions, requests>>

-----------------------------------------------------------------------------
\* assemble, and the end of the update

\* Every citation is checked against the fact as the brief recorded it, or as it is now, and
\* every guide must be of its brief.
Accepted(m) == brief[m].cites \subseteq brief[m].sources \cup live /\ guide[m] = brief[m].version

End(t, bad) ==
    /\ holder' = Free
    /\ Goto(t, IF bad THEN "failed" ELSE IF t = Rebuild THEN "idle" ELSE "done")

\* Mutant of Assemble: only after an update without errors.
AssembleIfClean(t) ==
    /\ pc[t] = "assemble"
    /\ company' = IF failed[t] THEN company ELSE [m \in Modules |-> brief[m].version]
    /\ End(t, FALSE)
    /\ UNCHANGED <<ledger, brief, guide, given, snapshot, todo, failed, staged, versions, failures, requests>>

Assemble(t) ==
    /\ pc[t] = "assemble" /\ \A m \in Modules : Accepted(m)
    /\ company' = [m \in Modules |-> brief[m].version]
    /\ End(t, failed[t])
    /\ UNCHANGED <<ledger, brief, guide, given, snapshot, todo, failed, staged, versions, failures, requests>>

Refuse(t) ==
    /\ pc[t] = "assemble" /\ \E m \in Modules : ~Accepted(m)
    /\ End(t, TRUE)
    /\ UNCHANGED <<ledger, pages, snapshot, todo, failed, staged, versions, failures, requests>>

AssembleFails(t) ==
    /\ pc[t] = "assemble" /\ Failure
    /\ End(t, TRUE)
    /\ UNCHANGED <<ledger, pages, snapshot, todo, failed, staged, versions, requests>>

\* The process stops; after the restart its jobs can be retried.
Stop ==
    /\ holder # Free /\ Failure
    /\ holder' = Free
    /\ pc' = [t \in Threads |-> IF pc[t] \in {"ready", "brief", "publish", "assemble"}
                                THEN "failed" ELSE pc[t]]
    /\ UNCHANGED <<ledger, pages, snapshot, todo, failed, staged, versions, requests>>

-----------------------------------------------------------------------------
Next ==
    \/ \E t \in Threads :
          \/ Import(t) \/ Retry(t) \/ Enter(t) \/ Skip(t) \/ WriteBrief(t) \/ NoBrief(t)
          \/ Publish(t) \/ Fail(t) \/ Assemble(t) \/ Refuse(t) \/ AssembleFails(t)
    \/ \E new \in Decided : \E old \in SUBSET live : Decide(new, old)
    \/ Request \/ Stop

Spec == Init /\ [][Next]_vars

-----------------------------------------------------------------------------
Page == [version : Nat, cites : SUBSET Ids, sources : SUBSET Ids, applied : SUBSET Facts]

\* Every variable has its type, and the lock is held by the thread that is inside.
TypeOK ==
    /\ live \subseteq Ids /\ retired \subseteq Ids /\ live \cap retired = {}
    /\ brief \in [Modules -> Page] /\ guide \in [Modules -> Nat] /\ company \in [Modules -> Nat]
    /\ given \in [Modules -> SUBSET Ids]
    /\ holder \in Threads \cup {Free}
    /\ pc \in [Threads -> {"idle", "parsing", "ready", "brief", "publish", "assemble", "done", "failed"}]
    /\ \A t \in Threads : pc[t] \in {"brief", "publish", "assemble"} <=> holder = t
    /\ snapshot \in [Threads -> SUBSET Ids] /\ todo \in [Threads -> SUBSET Modules]
    /\ failed \in [Threads -> BOOLEAN]
    /\ staged \in [page : Page, given : SUBSET Ids]
    /\ versions \in Nat /\ failures \in Nat /\ requests \in Nat

\* A guide is always of the brief beside it, whatever fails on the way.
PairsMatch == \A m \in Modules : guide[m] = brief[m].version

\* A job is done only when each of its facts was before an employee whose brief, or a later
\* one made from it, is published, unless the fact was superseded; also after stops, retries
\* that skip what an earlier run published, and requests by others.
DoneIsProjected ==
    \A f \in Facts : pc[JobOf[f]] = "done" => f \in retired \cup given[ModuleOf[f]]

\* When no update is waiting, under way or failed, the company pages are copies of the pages of
\* all modules, whatever was interrupted before.
CompanyIsCurrent ==
    (\A t \in Threads : pc[t] \in {"idle", "parsing", "done"}) =>
        \A m \in Modules : company[m] = brief[m].version

\* The company pages can be assembled from every published brief, also when facts it cites
\* have been superseded since: the brief recorded them (module_projection.py:111).
AssemblyAccepts ==
    \A m \in Modules : brief[m].cites \subseteq brief[m].sources \cup live
=============================================================================
