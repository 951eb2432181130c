----------------------------- MODULE Projection -----------------------------
(***************************************************************************)
(* The memory of one company (app/memory/provider.py): documents, the      *)
(* vector chunks derived from them and from the facts ledger, and the row  *)
(* of m1_projection_state that says whether the chunks can be served.      *)
(*                                                                         *)
(* A document is written in one transaction and projected in another; the  *)
(* embedding of the second may fail, and the process may stop before it.   *)
(* Clients are providers of different threads and processes over the one   *)
(* database: a provider's lock keeps two of its threads apart for a whole  *)
(* operation, nothing keeps two providers apart but SQLite, for one        *)
(* transaction.  An action is one transaction.  SAM_FACTS_TREE is off (its *)
(* default): with it on, search neither reads nor repairs the state.       *)
(***************************************************************************)
EXTENDS Naturals

CONSTANTS Uris,         \* documents: briefs, guides, notes
          Facts,        \* rows of the facts ledger
          Clients,      \* providers
          MaxWrites,    \* bound: documents written
          MaxFailures,  \* bound: embeddings that raise, and processes that stop
          MaxRebuilds   \* bound: rebuilds begun

ASSUME ProjectionAssumption == MaxWrites \in Nat /\ MaxFailures \in Nat /\ MaxRebuilds \in Nat

VARIABLES
    live,          \* facts verified and not superseded
    retired,       \* facts superseded
    docs,          \* m1_documents: the version of each document, 0 when it is not there
    chunks,        \* m1_chunks: the version each document's chunks were made from
    factChunks,    \* m1_chunks: the facts that have chunks
    status, error, generation,   \* m1_projection_state; error is whether it names one
    pc, uri, wasReady, wrote,    \* clients: step, and what _write keeps in local variables
    published,     \* facts whose publication (L2ProjectionService.publish) returned
    writes, failures, rebuilds

index   == <<docs, chunks, factChunks>>
state   == <<status, error, generation>>
clients == <<pc, uri, wasReady, wrote>>
bounds  == <<writes, failures, rebuilds>>
ledger  == <<live, retired>>
projectionVars == <<ledger, index, state, clients, published, bounds>>

ProjectionInit ==
    /\ live = {} /\ retired = {} /\ published = {}
    /\ docs = [u \in Uris |-> 0] /\ chunks = [u \in Uris |-> 0] /\ factChunks = {}
    /\ status = "absent" /\ error = FALSE /\ generation = 0
    /\ pc = [c \in Clients |-> "idle"]
    /\ uri \in [Clients -> Uris]
    /\ wasReady = [c \in Clients |-> FALSE]
    /\ wrote = [c \in Clients |-> 0]
    /\ writes = 0 /\ failures = 0 /\ rebuilds = 0

-----------------------------------------------------------------------------
\* Helpers

Goto(c, step) == pc' = [pc EXCEPT ![c] = step]

Stale(e) == status' = "stale" /\ error' = e /\ generation' = generation + 1

Ready == status' = "ready" /\ error' = FALSE

\* previous in (None, 'ready')
Servable == status \in {"absent", "ready"}

Fail(c) ==
    /\ failures < MaxFailures
    /\ failures' = failures + 1
    /\ Goto(c, "blame")

-----------------------------------------------------------------------------
\* The ledger, as far as the provider reads it.  A trigger on the facts table marks the
\* company stale, once for every row written, in the transaction that writes it.

Trigger(rows) == status' = "stale" /\ generation' = generation + rows /\ UNCHANGED error

CommitFact(f) ==
    /\ f \notin live \cup retired
    /\ live' = live \cup {f}
    /\ Trigger(1)
    /\ UNCHANGED <<retired, index, clients, published, bounds>>

\* A decision inserts the chosen value and supersedes the old one.
SupersedeFact(new, old) ==
    /\ new \notin live \cup retired /\ old \in live
    /\ live' = (live \ {old}) \cup {new} /\ retired' = retired \cup {old}
    /\ Trigger(2)
    /\ UNCHANGED <<index, clients, published, bounds>>

-----------------------------------------------------------------------------
\* put

\* The first transaction of _write: the document, and the company is stale from here on.
Write(c, u) ==
    /\ pc[c] = "idle" /\ writes < MaxWrites
    /\ writes' = writes + 1
    /\ docs' = [docs EXCEPT ![u] = writes + 1]
    /\ Stale(FALSE)
    /\ uri' = [uri EXCEPT ![c] = u]
    /\ wasReady' = [wasReady EXCEPT ![c] = Servable]
    /\ wrote' = [wrote EXCEPT ![c] = generation + 1]
    /\ Goto(c, "project")
    /\ UNCHANGED <<ledger, chunks, factChunks, published, failures, rebuilds>>

\* Mutant of Promote: the generation is not compared.
PromoteAnyway(c) ==
    IF wasReady[c] THEN Ready ELSE UNCHANGED <<status, error>>

\* The company is ready again if it was before and nobody wrote in between.
Promote(c) ==
    IF wasReady[c] /\ wrote[c] = generation THEN Ready ELSE UNCHANGED <<status, error>>

\* The second transaction: the document as it is now is embedded; a document deleted
\* meanwhile is an error like any other.
Project(c) ==
    /\ pc[c] = "project"
    /\ IF docs[uri[c]] = 0
       THEN Goto(c, "blame") /\ UNCHANGED <<chunks, state>>
       ELSE /\ chunks' = [chunks EXCEPT ![uri[c]] = docs[uri[c]]]
            /\ Promote(c) /\ UNCHANGED generation
            /\ Goto(c, "idle")
    /\ UNCHANGED <<ledger, docs, factChunks, uri, wasReady, wrote, published, bounds>>

ProjectFails(c) ==
    /\ pc[c] = "project" /\ Fail(c)
    /\ UNCHANGED <<ledger, index, state, uri, wasReady, wrote, published, writes, rebuilds>>

\* The handler of every failure: stale, with the name of the error.
Blame(c) ==
    /\ pc[c] = "blame"
    /\ Stale(TRUE)
    /\ Goto(c, "idle")
    /\ UNCHANGED <<ledger, index, uri, wasReady, wrote, published, bounds>>

-----------------------------------------------------------------------------
\* publish_documents and delete

\* A bundle of documents, some of which may be removed, with its chunks in one transaction;
\* it neither hides that the company was stale nor keeps an old error.
Publish(c, bundle, gone) ==
    /\ pc[c] = "idle" /\ writes < MaxWrites
    /\ writes' = writes + 1
    /\ docs' = [u \in Uris |-> IF u \in gone THEN 0 ELSE IF u \in bundle THEN writes + 1 ELSE docs[u]]
    /\ chunks' = [u \in Uris |-> IF u \in gone THEN 0 ELSE IF u \in bundle THEN writes + 1 ELSE chunks[u]]
    /\ status' = IF Servable THEN "ready" ELSE "stale"
    /\ error' = FALSE
    /\ generation' = generation + 1
    /\ UNCHANGED <<ledger, factChunks, clients, published, failures, rebuilds>>

\* The transaction of a bundle is rolled back.
PublishFails(c) ==
    /\ pc[c] = "idle" /\ Fail(c)
    /\ UNCHANGED <<ledger, index, state, uri, wasReady, wrote, published, writes, rebuilds>>

\* A document and its chunks go together; the state is left as it is.  (Deleting a whole
\* directory also drops chunks of facts; no caller does.)
Delete(c, u) ==
    /\ pc[c] = "idle" /\ docs[u] # 0
    /\ docs' = [docs EXCEPT ![u] = 0]
    /\ chunks' = [chunks EXCEPT ![u] = 0]
    /\ UNCHANGED <<ledger, factChunks, state, clients, published, bounds>>

-----------------------------------------------------------------------------
\* rebuild_projection and search

\* Mutant of RebuildBegin: the chunks are dropped with the first transaction.
RebuildBeginEmpty(c, step) ==
    /\ rebuilds < MaxRebuilds
    /\ rebuilds' = rebuilds + 1
    /\ chunks' = [u \in Uris |-> 0] /\ factChunks' = {}
    /\ Stale(FALSE)
    /\ Goto(c, step)
    /\ UNCHANGED <<ledger, docs, uri, wasReady, wrote, published, writes, failures>>

\* The first transaction marks the company stale.
RebuildBegin(c, step) ==
    /\ rebuilds < MaxRebuilds
    /\ rebuilds' = rebuilds + 1
    /\ Stale(FALSE)
    /\ Goto(c, step)
    /\ UNCHANGED <<ledger, index, uri, wasReady, wrote, published, writes, failures>>

\* A pipeline publishes the facts it has committed.
PublishFacts(c) == pc[c] = "idle" /\ RebuildBegin(c, "rebuild")

\* search: a company without a state, or stale for no error, is rebuilt first.
SearchFirst(c) ==
    /\ pc[c] = "idle"
    /\ IF status = "absent" \/ (status = "stale" /\ ~error)
       THEN RebuildBegin(c, "searchRebuild")
       ELSE Goto(c, "search") /\ UNCHANGED <<ledger, index, state, uri, wasReady, wrote, published, bounds>>

\* The second transaction projects every document and every live fact.
RebuildFinish(c) ==
    /\ pc[c] \in {"rebuild", "searchRebuild"}
    /\ chunks' = docs /\ factChunks' = live
    /\ Ready /\ UNCHANGED generation
    /\ published' = IF pc[c] = "rebuild" THEN published \cup live ELSE published
    /\ Goto(c, IF pc[c] = "rebuild" THEN "idle" ELSE "search")
    /\ UNCHANGED <<ledger, docs, uri, wasReady, wrote, bounds>>

RebuildFails(c) ==
    /\ pc[c] \in {"rebuild", "searchRebuild"} /\ Fail(c)
    /\ UNCHANGED <<ledger, index, state, uri, wasReady, wrote, published, writes, rebuilds>>

\* Mutant of Search: the state that the first look found is trusted.
SearchAnyway(c) ==
    /\ pc[c] = "search"
    /\ Goto(c, "answered")
    /\ UNCHANGED <<ledger, index, state, uri, wasReady, wrote, published, bounds>>

\* The state is read again in the transaction that reads the chunks; stale is an error.
Search(c) ==
    /\ pc[c] = "search"
    /\ Goto(c, IF status = "stale" THEN "idle" ELSE "answered")
    /\ UNCHANGED <<ledger, index, state, uri, wasReady, wrote, published, bounds>>

Answered(c) ==
    /\ pc[c] = "answered" /\ Goto(c, "idle")
    /\ UNCHANGED <<ledger, index, state, uri, wasReady, wrote, published, bounds>>

\* The client's process stops.
Stop(c) ==
    /\ pc[c] # "idle" /\ failures < MaxFailures
    /\ failures' = failures + 1
    /\ Goto(c, "idle")
    /\ UNCHANGED <<ledger, index, state, uri, wasReady, wrote, published, writes, rebuilds>>

-----------------------------------------------------------------------------
Step(c) ==
    \/ Project(c) \/ Blame(c) \/ RebuildFinish(c) \/ Search(c) \/ Answered(c)

ProjectionNext ==
    \/ \E f \in Facts : CommitFact(f) \/ \E old \in Facts : SupersedeFact(f, old)
    \/ \E c \in Clients :
          \/ \E u \in Uris : Write(c, u) \/ Delete(c, u)
          \/ \E bundle \in SUBSET Uris : \E gone \in SUBSET bundle :
                bundle # {} /\ Publish(c, bundle, gone)
          \/ PublishFacts(c) \/ SearchFirst(c)
          \/ PublishFails(c) \/ ProjectFails(c) \/ RebuildFails(c) \/ Stop(c)
          \/ Step(c)

ProjectionSpec == ProjectionInit /\ [][ProjectionNext]_projectionVars

-----------------------------------------------------------------------------
\* Every variable has its type; no client waits for a generation that has not been.
ProjectionTypeOK ==
    /\ live \subseteq Facts /\ retired \subseteq Facts /\ published \subseteq Facts /\ factChunks \subseteq Facts
    /\ docs \in [Uris -> Nat] /\ chunks \in [Uris -> Nat]
    /\ status \in {"absent", "ready", "stale"} /\ error \in BOOLEAN /\ generation \in Nat
    /\ error => status = "stale"
    /\ pc \in [Clients -> {"idle", "project", "blame", "rebuild", "searchRebuild", "search",
                           "answered"}]
    /\ uri \in [Clients -> Uris]
    /\ wasReady \in [Clients -> BOOLEAN]
    /\ wrote \in [Clients -> Nat] /\ \A c \in Clients : wrote[c] <= generation
    /\ writes \in Nat /\ failures \in Nat /\ rebuilds \in Nat

\* However writes, bundles, decisions, rebuilds, failures and stops interleave, a company that
\* is ready has chunks of the documents and facts it has: a failed projection is never papered
\* over by the success of another.
ReadyIsCurrent == status = "ready" => chunks = docs /\ factChunks = live

\* Once a job has published its facts they can be found until they are superseded, also
\* while a later rebuild is under way or after it failed.
PublishedIsIndexed == published \cap live \subseteq factChunks

\* A search that answers does so from chunks of the current documents and facts, whatever
\* happened since it looked at the state first.
AnswerIsCurrent ==
    [][\A c \in Clients : pc[c] = "search" /\ pc'[c] = "answered" =>
          chunks = docs /\ factChunks = live]_projectionVars
=============================================================================
