---------------------------- MODULE CompanyTree ----------------------------
(***************************************************************************)
(* The facts tree of one company and the ledgers that say whose it is:     *)
(* the template pack the company is bound to, with its history and the     *)
(* archive of manifests (company_binding.py, manifest_registry.py); the    *)
(* identity and the revisions of a fact (fact_identity.py); its placement  *)
(* on a leaf (fact_placements.py); the leaves that cite it; the reader     *)
(* that serves the tree (tree_read.py) and the one that copies it for a    *)
(* migration (migration_snapshot.py).                                      *)
(*                                                                         *)
(* Every operation is one BEGIN IMMEDIATE transaction, and so one action.  *)
(* What makes the ledgers hard is their order: each operation finds the    *)
(* others' rows as they are, not as its caller saw them.                   *)
(*                                                                         *)
(* The text of a leaf, the fact that its numbers follow from the facts,    *)
(* and the projections of the leaves into briefs are left out.             *)
(***************************************************************************)
EXTENDS Integers, Sequences, FiniteSets

CONSTANTS Packs, Version,   \* the manifests ever shipped and the version each one claims
          LeavesOf,         \* leaves a pack defines
          Rows,             \* rows of table facts, in the order they are written
          Releases,         \* bound: the packs the program comes with, one after the other
          MaxPlacements     \* bound: placements of a row

Leaves == UNION {LeavesOf[p] : p \in Packs}

ASSUME CompanyTreeAssumption ==
    /\ IsFiniteSet(Packs) /\ Packs # {}
    /\ Version \in [Packs -> Nat \ {0}]
    /\ DOMAIN LeavesOf = Packs
    /\ IsFiniteSet(Rows) /\ Rows \subseteq Nat \ {0}
    /\ Releases \in Seq(Packs) /\ Releases # <<>>
    /\ MaxPlacements \in Nat \ {0}

VARIABLES
    release,    \* which release of the program is installed
    archived,   \* manifests in the immutable registry
    bound,      \* company_tree_meta: the binding of the company
    history,    \* company_template_binding_history
    facts,      \* table facts: "none", "open", or "closed" by a successor
    revision,   \* fact_revisions: the identity each row belongs to
    placed,     \* fact_placements: the history of each row
    pointer,    \* fact_current_placement
    leaf        \* the format of each leaf, what it cites, and whether every revision of it
                \* was written under a binding on record

shipped == Releases[release]   \* the pack that can be loaded today

binding == <<release, archived, bound, history>>
ledgers == <<revision, placed, pointer>>
vars == <<binding, facts, ledgers, leaf>>

NoRevision  == [uid |-> 0, version |-> 0]
NoPointer   == [seq |-> 0, leaf |-> "", rev |-> 0]
NoLeaf      == [form |-> "none", cites |-> {}, proven |-> TRUE]
Unbound     == [rev |-> 0, pack |-> CHOOSE p \in Packs : TRUE, digest |-> "missing", locked |-> FALSE]

(***************************************************************************)
(* A company may have been bound, and its leaves written, by a version of  *)
(* the program that kept neither digest nor history.                       *)
(***************************************************************************)
Init ==
    /\ release = 1 /\ archived = {}
    /\ \/ bound = Unbound
       \/ \E p \in Packs, d \in {"missing", "unproven"} :
             bound = [rev |-> 1, pack |-> p, digest |-> d, locked |-> FALSE]
    /\ history = <<>>
    /\ \E old \in SUBSET Rows :
          /\ \A r \in old, q \in Rows : q <= r => q \in old
          /\ facts = [r \in Rows |-> IF r \in old THEN "open" ELSE "none"]
          /\ \/ leaf = [l \in Leaves |-> NoLeaf]
             \/ /\ bound.rev > 0 /\ old # {}
                /\ \E k \in LeavesOf[bound.pack], f \in {"page", "blocks"} :
                      leaf = [l \in Leaves |-> IF l = k THEN [form |-> f, cites |-> old, proven |-> FALSE]
                                                         ELSE NoLeaf]
    /\ revision = [r \in Rows |-> NoRevision]
    /\ placed = [r \in Rows |-> <<>>] /\ pointer = [r \in Rows |-> NoPointer]

-----------------------------------------------------------------------------
(* The binding.                                                            *)

\* An archived manifest is never overwritten: another one for the same version is refused.
Archivable(p) == \A q \in archived : Version[q] = Version[p] => q = p

\* The history is a chain that starts with no predecessor and ends with the current binding.
ChainOk ==
    /\ history # <<>> /\ Len(history) = bound.rev /\ history[Len(history)].pack = bound.pack
    /\ \A i \in 1 .. Len(history) : history[i].prev = IF i = 1 THEN {} ELSE {history[i - 1].pack}
Proven     == bound.digest \in {"legacy", "verified"}
LedgerOk   == bound.rev > 0 /\ Proven /\ ChainOk /\ bound.pack \in archived
Verified   == Proven /\ shipped = bound.pack
BindingOk  == LedgerOk /\ Verified

Written(r) == facts[r] # "none"
Published  == {l \in Leaves : leaf[l].form # "none"}
\* Mutant of IsEmpty: a company without leaves counts as empty.
IsEmptyOfLeaves == Published = {}
\* Mutant of IsEmpty: a company without facts counts as empty.
IsEmptyOfFacts == \A r \in Rows : ~Written(r)
IsEmpty    == Published = {} /\ \A r \in Rows : ~Written(r)

\* A version of the program with another pack is installed.
Deploy ==
    /\ release < Len(Releases) /\ release' = release + 1
    /\ UNCHANGED <<archived, bound, history, facts, ledgers, leaf>>

\* Another company is registered: the manifest of the shipped pack is archived.
ArchiveOther ==
    /\ Archivable(shipped) /\ archived' = archived \cup {shipped}
    /\ UNCHANGED <<release, bound, history, facts, ledgers, leaf>>

\* A writable store is opened on a binding without digest or history.  What cannot be proven
\* against today's manifest is refused, and then nothing is written.
Upgrade ==
    LET pack == IF bound.digest = "missing" THEN shipped ELSE bound.pack IN
    /\ bound.rev > 0 /\ history = <<>>
    /\ Version[shipped] = Version[bound.pack]
    /\ bound.digest = "unproven" => bound.pack = shipped
    /\ Archivable(pack)
    /\ bound' = [bound EXCEPT !.pack = pack, !.digest = "legacy"]
    /\ history' = <<[pack |-> pack, prev |-> {}]>>
    /\ archived' = archived \cup {pack}
    /\ UNCHANGED <<release, facts, ledgers, leaf>>

Register ==
    /\ bound.rev = 0 /\ Archivable(shipped)
    /\ archived' = archived \cup {shipped}
    /\ bound' = [rev |-> 1, pack |-> shipped, digest |-> "verified", locked |-> FALSE]
    /\ history' = <<[pack |-> shipped, prev |-> {}]>>
    /\ UNCHANGED <<release, facts, ledgers, leaf>>

\* A binding that no longer verifies may be replaced only by another version, and only while
\* the company is unlocked and empty.
BindPack ==
    /\ bound.rev > 0 /\ history # <<>>
    /\ ~bound.locked /\ IsEmpty
    /\ Version[shipped] # Version[bound.pack] /\ Archivable(shipped)
    /\ archived' = archived \cup {shipped}
    /\ bound' = [bound EXCEPT !.rev = @ + 1, !.pack = shipped, !.digest = "verified"]
    /\ history' = Append(history, [pack |-> shipped, prev |-> {bound.pack}])
    /\ UNCHANGED <<release, facts, ledgers, leaf>>

MarkLocked ==
    /\ BindingOk /\ ~bound.locked
    /\ bound' = [bound EXCEPT !.locked = TRUE]
    /\ UNCHANGED <<release, archived, history, facts, ledgers, leaf>>

-----------------------------------------------------------------------------
(* Facts and their identity.                                               *)

Open(r) == facts[r] = "open"
Free    == {r \in Rows : ~Written(r)}
NewRow  == CHOOSE r \in Free : \A q \in Free : r <= q

Mapped(r)   == revision[r].version > 0
Identity(r) == {q \in Rows : Mapped(q) /\ revision[q].uid = revision[r].uid}
Latest(r)   == Mapped(r) /\ \A q \in Identity(r) : revision[q].version <= revision[r].version

\* The extraction of a document, protocols 1 to 3: no identity is told of the fact.
WriteFact ==
    /\ Free # {} /\ facts' = [facts EXCEPT ![NewRow] = "open"]
    /\ UNCHANGED <<binding, ledgers, leaf>>

\* The review of a conflict, or a later document, has a row written that supersedes row r.
\* The identity ledger is not told of that either.
Supersede(r) ==
    /\ Open(r) /\ Free # {}
    /\ facts' = [facts EXCEPT ![NewRow] = "open", ![r] = "closed"]
    /\ UNCHANGED <<binding, ledgers, leaf>>

\* register_initial and bootstrap_legacy: a row that belongs to an identity is never mapped again.
Identify(r) ==
    /\ Written(r) /\ ~Mapped(r)
    /\ revision' = [revision EXCEPT ![r] = [uid |-> r, version |-> 1]]
    /\ UNCHANGED <<binding, facts, placed, pointer, leaf>>

\* Mutant of AppendRevision: the old row stays open.
AppendOpen(r, n) ==
    /\ Latest(r) /\ Open(r) /\ Open(n) /\ ~Mapped(n)
    /\ revision' = [revision EXCEPT ![n] = [uid |-> revision[r].uid, version |-> revision[r].version + 1]]
    /\ UNCHANGED <<binding, facts, placed, pointer, leaf>>
\* append_revision: row n becomes the current version of the identity of row r, which closes.
AppendRevision(r, n) ==
    /\ Latest(r) /\ Open(r) /\ Open(n) /\ ~Mapped(n)
    /\ revision' = [revision EXCEPT ![n] = [uid |-> revision[r].uid, version |-> revision[r].version + 1]]
    /\ facts' = [facts EXCEPT ![r] = "closed"]
    /\ UNCHANGED <<binding, placed, pointer, leaf>>

-----------------------------------------------------------------------------
(* Placements.                                                             *)

\* The pointer a history of placements should have.
Current(h) == IF h = <<>> THEN NoPointer ELSE [seq |-> Len(h), leaf |-> h[Len(h)].leaf, rev |-> h[Len(h)].rev]

\* What both placement calls check again inside their transaction.
Placeable(r, l) == LedgerOk /\ l \in LeavesOf[bound.pack] /\ Latest(r) /\ Open(r)

WriteCore(r, l) ==
    /\ placed' = [placed EXCEPT ![r] = Append(@, [leaf |-> l, rev |-> bound.rev])]
    /\ pointer' = [pointer EXCEPT ![r] = Current(placed'[r])]

PlaceInitial(r, l) ==
    /\ Placeable(r, l) /\ placed[r] = <<>> /\ pointer[r] = NoPointer
    /\ WriteCore(r, l)
    /\ UNCHANGED <<binding, facts, revision, leaf>>

\* expected is the sequence number the caller saw.
Reassign(r, l, expected) ==
    /\ Placeable(r, l) /\ placed[r] # <<>> /\ pointer[r] = Current(placed[r])
    /\ Len(placed[r]) = expected /\ expected < MaxPlacements
    /\ WriteCore(r, l)
    /\ UNCHANGED <<binding, facts, revision, leaf>>

-----------------------------------------------------------------------------
(* The leaves.                                                             *)

\* Block leaves grow: whatever they cite has to be current still.
Extends(l) == BindingOk /\ l \in LeavesOf[bound.pack] /\ leaf[l].form \in {"none", "blocks"}
                  /\ \A q \in leaf[l].cites : Open(q)
Cite(l, S) == [leaf EXCEPT ![l].form = "blocks", ![l].cites = @ \cup S]

\* Protocol 3: a leaf comes to cite a fact that was extracted before.
SubmitLeaf(l, r) ==
    /\ Extends(l) /\ Open(r)
    /\ leaf' = Cite(l, {r})
    /\ UNCHANGED <<binding, facts, ledgers>>

\* Protocol 4: the fact, its identity, its placement and the leaf are one transaction.
PublishNotes(l) ==
    /\ Extends(l) /\ Free # {}
    /\ facts' = [facts EXCEPT ![NewRow] = "open"]
    /\ revision' = [revision EXCEPT ![NewRow] = [uid |-> NewRow, version |-> 1]]
    /\ WriteCore(NewRow, l)
    /\ leaf' = Cite(l, {NewRow})
    /\ UNCHANGED binding

\* The first protocols write a leaf as a page of its own, anew each time.
PublishLeaf(l, S) ==
    /\ BindingOk /\ l \in LeavesOf[bound.pack] /\ leaf[l].form \in {"none", "page"}
    /\ \A r \in S : Open(r)
    /\ leaf' = [leaf EXCEPT ![l] = [@ EXCEPT !.form = "page", !.cites = S]]
    /\ UNCHANGED <<binding, facts, ledgers>>

Next ==
    \/ Deploy \/ ArchiveOther \/ Upgrade \/ Register \/ BindPack \/ MarkLocked \/ WriteFact
    \/ \E r \in Rows :
          \/ Supersede(r) \/ Identify(r)
          \/ \E n \in Rows : AppendRevision(r, n)
          \/ \E l \in Leaves : PlaceInitial(r, l) \/ \E k \in 1 .. MaxPlacements : Reassign(r, l, k)
    \/ \E l \in Leaves :
          \/ PublishNotes(l)
          \/ \E r \in Rows : SubmitLeaf(l, r)
          \/ \E S \in SUBSET Rows : PublishLeaf(l, S)

Spec == Init /\ [][Next]_vars

-----------------------------------------------------------------------------
(* The readers.                                                            *)

\* A placement can be traced to an archived binding of the company whose pack has the leaf.
Traceable(p) == p.rev \in 1 .. Len(history) /\ history[p.rev].pack \in archived
                    /\ p.leaf \in LeavesOf[history[p.rev].pack]

ChainComplete(r) == {revision[q].version : q \in Identity(r)} = 1 .. Cardinality(Identity(r))
PlacementsAgree(r) == pointer[r] = Current(placed[r]) /\ \A i \in 1 .. Len(placed[r]) : Traceable(placed[r][i])

\* resolve_current_identity answers row r, placed on leaf l under the current binding.
ResolvesTo(r, l) ==
    /\ Latest(r) /\ Open(r) /\ ChainComplete(r) /\ PlacementsAgree(r)
    /\ placed[r] # <<>> /\ placed[r][Len(placed[r])] = [leaf |-> l, rev |-> bound.rev]

\* Each fact that leaf l cites is placed on it and cited by no other leaf.
WellPlaced(l) ==
    \A r \in leaf[l].cites : ResolvesTo(r, l) /\ \A k \in Leaves \ {l} : r \notin leaf[k].cites
Served(l) == BindingOk /\ l \in LeavesOf[bound.pack] /\ WellPlaced(l)

\* How the snapshot of a migration judges the identities, and the placements with the leaves.
FactsStatus ==
    LET rows == {r \in Rows : Written(r)} IN
    IF \A r \in rows : ~Mapped(r) THEN "legacy_bootstrap_derived"
    ELSE IF \E r \in rows : Mapped(r) /\ ~ChainComplete(r) THEN "identity_mismatch"
    ELSE IF \E r \in rows : ~Mapped(r) THEN "partial_identity_ledger" ELSE "ok"
PlacementsStatus ==
    IF \E r \in Rows : ~PlacementsAgree(r) \/ (placed[r] # <<>> /\ ~Mapped(r)) THEN "identity_mismatch"
    ELSE IF \E l \in Leaves : ~leaf[l].proven THEN "ambiguous_provenance" ELSE "ok"

-----------------------------------------------------------------------------
TypeOK ==
    /\ release \in 1 .. Len(Releases) /\ archived \subseteq Packs
    /\ bound \in [rev : Nat, pack : Packs, digest : {"missing", "unproven", "legacy", "verified"}, locked : BOOLEAN]
    /\ history \in Seq([pack : Packs, prev : SUBSET Packs])
    /\ facts \in [Rows -> {"none", "open", "closed"}]
    /\ revision \in [Rows -> [uid : Rows \cup {0}, version : Nat]]
    /\ placed \in [Rows -> Seq([leaf : Leaves, rev : Nat])]
    /\ pointer \in [Rows -> [seq : Nat, leaf : Leaves \cup {""}, rev : Nat]]
    /\ leaf \in [Leaves -> [form : {"none", "page", "blocks"}, cites : SUBSET Rows, proven : BOOLEAN]]

(***************************************************************************)
(* Whatever order the operations of the binding, of the facts and of their *)
(* identities and placements come in, the ledgers can be verified: no      *)
(* snapshot of a migration finds an identity without a complete chain of   *)
(* revisions, a placement that cannot be traced to an archived pack that   *)
(* has its leaf, or a pointer that disagrees with its history; and every   *)
(* placement is one of the current binding.                                *)
(***************************************************************************)
LedgersVerify ==
    /\ "identity_mismatch" \notin {FactsStatus, PlacementsStatus}
    /\ \A r \in Rows : placed[r] # <<>> => LedgerOk /\ pointer[r].rev = bound.rev

(***************************************************************************)
(* Once anything was written for a company that has a proven binding, the  *)
(* company keeps the pack it is bound to: what was attributed to its       *)
(* leaves is never read under the leaves of another pack.                  *)
(***************************************************************************)
HasContent == Published # {} \/ \E r \in Rows : Written(r)
TreeStaysBound == [][ Proven /\ HasContent => bound'.pack = bound.pack /\ history' = history ]_vars

(***************************************************************************)
(* A leaf of a company whose binding is in order stops being served only   *)
(* for a reason its history shows: a fact it cites was closed, was never   *)
(* told to the identity ledger, is placed elsewhere or nowhere, or is      *)
(* cited by a second leaf.  A leaf that only protocol 4 ever wrote, and    *)
(* whose facts nobody touched, is served.                                  *)
(***************************************************************************)
Withheld(l) ==
    \E r \in leaf[l].cites :
        \/ ~Open(r) \/ ~Mapped(r) \/ placed[r] = <<>> \/ pointer[r].leaf # l
        \/ \E k \in Leaves \ {l} : r \in leaf[k].cites
WithheldForAReason == BindingOk => \A l \in Published : Served(l) \/ Withheld(l)
=============================================================================
