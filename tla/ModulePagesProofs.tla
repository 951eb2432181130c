------------------------- MODULE ModulePagesProofs --------------------------
\* Theorems about ModulePages.
EXTENDS ModulePages, FiniteSetTheorems, TLAPS

\* A set of naturals has a least element: the next module of an update exists.
\* Initial segments ordered by inclusion are well founded.
LEMMA Least ==
    ASSUME NEW S, S \subseteq Nat, S # {}
    PROVE  \E m \in S : \A n \in S : m <= n
<1> DEFINE R == StrictSubsetOrdering(Nat)
           Upto(n) == 0 .. n
           T == {Upto(n) : n \in S}
<1>1. IsWellFoundedOn(R, FiniteSubsetsOf(Nat))
  BY FS_StrictSubsetOrderingWellFounded
<1>2. T \subseteq FiniteSubsetsOf(Nat) /\ T # {}
  <2>1. \A n \in S : Upto(n) \in SUBSET Nat /\ IsFiniteSet(Upto(n))
    BY FS_Interval
  <2>2. QED
    BY <2>1 DEF FiniteSubsetsOf
<1> HIDE DEF T, R
<1>3. PICK U \in T : \A V \in T : <<V, U>> \notin R
  BY <1>1, <1>2, WFMin
<1>4. PICK m \in S : U = Upto(m)
  BY <1>3 DEF T
<1>5. ASSUME NEW n \in S, n < m PROVE FALSE
  <2>1. Upto(n) \in T
    BY DEF T
  <2>2. Upto(n) \subseteq Upto(m) /\ Upto(n) # Upto(m)
    BY <1>5
  <2>3. <<Upto(n), Upto(m)>> \in R
    BY <2>2 DEF R, StrictSubsetOrdering
  <2>4. QED
    BY <2>1, <2>3, <1>3, <1>4
<1>6. QED
  BY <1>5

\* A thread that still has modules to do has a next one.
LEMMA CurrentInTodo ==
    ASSUME TypeOK, NEW t \in Threads, todo[t] # {}
    PROVE  Current(t) \in todo[t] /\ Current(t) \in Modules
<1>1. todo[t] \subseteq Nat
  BY PagesAssumption DEF TypeOK
<1>2. \E m \in todo[t] : \A n \in todo[t] : m <= n
  BY <1>1, Least
<1>3. Current(t) \in todo[t]
  BY <1>2 DEF Current
<1>4. QED
  BY <1>3 DEF TypeOK

\* The steps of a thread that is inside update.
InUpdate == {"brief", "publish", "assemble"}

\* Threads at a module have modules left, and none once they assemble; a job's facts are new
\* to the ledger until it imports them.
Working ==
    /\ \A t \in Threads : pc[t] \in {"brief", "publish"} => todo[t] # {}
    /\ \A t \in Threads : pc[t] = "assemble" => todo[t] = {}
    /\ \A t \in Threads : pc[t] = "parsing" => Verified(t) \cap (live \cup retired) = {}

-----------------------------------------------------------------------------
\* Every variable keeps its type, the lock is held by the one thread that is inside, and an
\* update has a module at hand until it assembles.
THEOREM PagesTypes == Spec => [](TypeOK /\ Working)
<1>1. Init => TypeOK /\ Working
  <2> SUFFICES ASSUME Init PROVE TypeOK /\ Working
    OBVIOUS
  <2> USE PagesAssumption DEF Init
  <2>1. NoPage \in Page
    BY DEF NoPage, Page
  <2>2. brief \in [Modules -> Page] /\ staged \in [page : Page, given : SUBSET Ids]
    BY <2>1
  <2>3. guide \in [Modules -> Nat] /\ company \in [Modules -> Nat] /\ given \in [Modules -> SUBSET Ids]
    OBVIOUS
  <2>4. pc \in [Threads -> {"idle", "parsing", "ready", "brief", "publish", "assemble", "done", "failed"}]
    OBVIOUS
  <2>5. \A t \in Threads : pc[t] \in {"idle", "parsing"}
    OBVIOUS
  <2>6. \A t \in Threads : pc[t] \in {"brief", "publish", "assemble"} <=> holder = t
    BY <2>5 DEF Free
  <2>7. snapshot \in [Threads -> SUBSET Ids] /\ todo \in [Threads -> SUBSET Modules]
        /\ failed \in [Threads -> BOOLEAN]
    OBVIOUS
  <2>8. QED
    BY <2>2, <2>3, <2>4, <2>5, <2>6, <2>7 DEF TypeOK, Working
<1>2. TypeOK /\ Working /\ [Next]_vars => (TypeOK /\ Working)'
  <2> SUFFICES ASSUME TypeOK, Working, [Next]_vars PROVE (TypeOK /\ Working)'
    OBVIOUS
  <2> DEFINE Steps == {"idle", "parsing", "ready", "brief", "publish", "assemble", "done", "failed"}
  <2> USE PagesAssumption DEF InUpdate
  <2>0. \A t, u \in Threads : t # u => Verified(t) \cap Verified(u) = {}
    BY DEF Verified
  \* What NextModule leaves.
  <2>a. ASSUME NEW t \in Threads, NEW error \in BOOLEAN, pc[t] \in {"brief", "publish"},
               NextModule(t, Current(t), error), UNCHANGED <<ledger, holder>>
        PROVE  /\ todo' \in [Threads -> SUBSET Modules] /\ failed' \in [Threads -> BOOLEAN]
               /\ pc' \in [Threads -> Steps]
               /\ \A u \in Threads : pc'[u] \in InUpdate <=> holder' = u
               /\ Working'
    <3>1. Current(t) \in todo[t] /\ Current(t) \in Modules
      BY <2>a, CurrentInTodo DEF Working
    <3>2. todo' \in [Threads -> SUBSET Modules] /\ failed' \in [Threads -> BOOLEAN]
      BY <2>a DEF NextModule, TypeOK
    <3>3. pc' \in [Threads -> Steps]
      BY <2>a DEF NextModule, Goto, TypeOK
    <3>4. \A u \in Threads : pc'[u] \in InUpdate <=> holder' = u
      BY <2>a DEF NextModule, Goto, TypeOK
    <3>5. todo' = [todo EXCEPT ![t] = @ \ {Current(t)}]
          /\ pc' = [pc EXCEPT ![t] = IF todo[t] = {Current(t)} THEN "assemble" ELSE "brief"]
      BY <2>a DEF NextModule, Goto
    <3>6. Working'
      BY <2>a, <3>1, <3>5 DEF TypeOK, Working, Verified, ledger
    <3>7. QED
      BY <3>2, <3>3, <3>4, <3>6
  \* What the end of an update leaves.
  <2>b. ASSUME NEW t \in Threads, NEW step \in {"idle", "done", "failed"}, pc[t] = "assemble",
               holder' = Free, Goto(t, step), UNCHANGED <<ledger, todo>>
        PROVE  /\ holder' \in Threads \cup {Free} /\ pc' \in [Threads -> Steps]
               /\ \A u \in Threads : pc'[u] \in InUpdate <=> holder' = u
               /\ Working'
    BY <2>b DEF Goto, TypeOK, Working, Verified, ledger
  <2>1. ASSUME NEW t \in Threads, Import(t) PROVE (TypeOK /\ Working)'
    <3>1. live' \subseteq Ids /\ retired' = retired /\ live' \cap retired' = {}
      BY <2>1 DEF Import, TypeOK, Working, Verified, Ids
    <3>2. pc' = [pc EXCEPT ![t] = "ready"]
      BY <2>1 DEF Import, Goto
    <3>3. pc' \in [Threads -> Steps] /\ \A u \in Threads : pc'[u] \in InUpdate <=> holder' = u
      BY <2>1, <3>2 DEF Import, TypeOK
    <3>4. \A u \in Threads : pc'[u] = "parsing" => Verified(u)' \cap (live' \cup retired') = {}
      <4> SUFFICES ASSUME NEW u \in Threads, pc'[u] = "parsing"
                   PROVE  Verified(u) \cap (live' \cup retired') = {}
        BY DEF Verified
      <4>1. u # t /\ pc[u] = "parsing"
        BY <3>2 DEF TypeOK
      <4>2. Verified(u) \cap (live \cup retired) = {} /\ Verified(u) \cap Verified(t) = {}
        BY <4>1, <2>0 DEF Working
      <4>3. live' = live \cup Verified(t) /\ retired' = retired
        BY <2>1 DEF Import
      <4>4. QED
        BY <4>2, <4>3
    <3>5. Working'
      BY <2>1, <3>2, <3>4 DEF Import, Working, TypeOK
    <3>6. TypeOK'
      BY <2>1, <3>1, <3>3 DEF Import, TypeOK, pages
    <3>7. QED
      BY <3>5, <3>6
  <2>2. ASSUME NEW new \in Decided, NEW old \in SUBSET live, Decide(new, old)
        PROVE  (TypeOK /\ Working)'
    <3>1. live' = (live \ old) \cup {new} /\ retired' = retired \cup old /\ new \notin live \cup retired
      BY <2>2 DEF Decide
    <3>2. live' \subseteq Ids /\ retired' \subseteq Ids /\ live' \cap retired' = {}
      BY <3>1 DEF TypeOK, Ids
    <3>3. \A u \in Threads : new \notin Verified(u)
      BY DEF Verified
    <3>4. Working'
      BY <2>2, <3>1, <3>3 DEF Decide, Working, threads, Verified
    <3>5. TypeOK'
      BY <2>2, <3>2 DEF Decide, TypeOK, pages, threads
    <3>6. QED
      BY <3>4, <3>5
  <2>3. ASSUME NEW t \in Threads, (Request /\ t = Rebuild) \/ Retry(t) PROVE (TypeOK /\ Working)'
    <3>1. pc[t] \in {"idle", "failed"} /\ pc' = [pc EXCEPT ![t] = "ready"] /\ requests' = requests + 1
      BY <2>3 DEF Request, Retry, Goto
    <3>2. UNCHANGED <<ledger, pages, holder, snapshot, todo, failed, staged, versions, failures>>
      BY <2>3 DEF Request, Retry
    <3>3. TypeOK'
      BY <3>1, <3>2 DEF TypeOK, ledger, pages
    <3>4. Working'
      BY <3>1, <3>2 DEF TypeOK, Working, ledger, Verified
    <3>5. QED
      BY <3>3, <3>4
  <2>4. ASSUME NEW t \in Threads, Enter(t) PROVE (TypeOK /\ Working)'
    <3>1. Targets(t, live) \in SUBSET Modules
      BY DEF Targets
    <3>2. pc' = [pc EXCEPT ![t] = IF Targets(t, live) = {} THEN "assemble" ELSE "brief"]
          /\ todo' = [todo EXCEPT ![t] = Targets(t, live)] /\ holder = Free /\ holder' = t
      BY <2>4 DEF Enter, Goto
    <3>3. todo' \in [Threads -> SUBSET Modules] /\ pc' \in [Threads -> Steps]
          /\ \A u \in Threads : pc'[u] \in InUpdate <=> holder' = u
      BY <3>1, <3>2 DEF TypeOK
    <3>4. snapshot' \in [Threads -> SUBSET Ids] /\ failed' \in [Threads -> BOOLEAN]
      BY <2>4 DEF Enter, TypeOK
    <3>5. TypeOK'
      BY <2>4, <3>3, <3>4 DEF Enter, TypeOK, ledger, pages
    <3>6. Working'
      BY <2>4, <3>2 DEF Enter, TypeOK, Working, ledger, Verified
    <3>7. QED
      BY <3>5, <3>6
  <2>5. ASSUME NEW t \in Threads, Skip(t) PROVE (TypeOK /\ Working)'
    BY <2>5, <2>a DEF Skip, TypeOK, ledger, pages
  <2>6. ASSUME NEW t \in Threads, WriteBrief(t) PROVE (TypeOK /\ Working)'
    <3>1. pc[t] = "brief" /\ pc' = [pc EXCEPT ![t] = "publish"]
      BY <2>6 DEF WriteBrief, Goto
    <3>2. Current(t) \in Modules
      BY <3>1, CurrentInTodo DEF Working
    <3>3. Known(t, Current(t)) \subseteq Ids /\ In(live, Current(t)) \subseteq Ids
          /\ In(snapshot[t], Current(t)) \subseteq Ids /\ Batch(t, Current(t)) \subseteq Facts
      BY DEF Known, In, Batch, Verified, TypeOK
    <3>4. staged' \in [page : Page, given : SUBSET Ids]
      <4>1. PICK cites \in SUBSET Known(t, Current(t)) \ {{}} :
              staged' = [page  |-> [version |-> versions + 1, cites |-> cites,
                                    sources |-> In(snapshot[t], Current(t)),
                                    applied |-> Batch(t, Current(t))],
                         given |-> IF Anew(t, Current(t)) THEN In(live, Current(t))
                                   ELSE given[Current(t)] \cup (In(live, Current(t)) \cap Batch(t, Current(t)))]
        BY <2>6 DEF WriteBrief
      <4>2. given[Current(t)] \subseteq Ids
        BY <3>2 DEF TypeOK
      <4>3. staged'.page \in Page
        BY <4>1, <3>3 DEF Page, TypeOK
      <4>4. staged'.given \in SUBSET Ids
        BY <4>1, <4>2, <3>3
      <4>5. QED
        BY <4>1, <4>3, <4>4
    <3>5. TypeOK'
      BY <2>6, <3>1, <3>4 DEF WriteBrief, TypeOK, ledger, pages
    <3>6. Working'
      BY <2>6, <3>1 DEF WriteBrief, TypeOK, Working, ledger, Verified
    <3>7. QED
      BY <3>5, <3>6
  <2>7. ASSUME NEW t \in Threads, NoBrief(t) PROVE (TypeOK /\ Working)'
    <3>1. CASE NextModule(t, Current(t), TRUE) /\ UNCHANGED staged
      BY <2>7, <3>1, <2>a DEF NoBrief, TypeOK, ledger, pages
    <3>2. CASE /\ staged' = [page |-> NoPage, given |-> {}]
               /\ Goto(t, "publish") /\ UNCHANGED <<todo, failed>>
      <4>1. staged' \in [page : Page, given : SUBSET Ids]
        BY <3>2 DEF NoPage, Page
      <4>2. pc[t] = "brief" /\ pc' = [pc EXCEPT ![t] = "publish"]
        BY <2>7, <3>2 DEF NoBrief, Goto
      <4>3. TypeOK'
        BY <2>7, <3>2, <4>1, <4>2 DEF NoBrief, TypeOK, ledger, pages
      <4>4. Working'
        BY <2>7, <3>2, <4>2 DEF NoBrief, TypeOK, Working, ledger, Verified
      <4>5. QED
        BY <4>3, <4>4
    <3>3. QED
      BY <2>7, <3>1, <3>2 DEF NoBrief
  <2>8. ASSUME NEW t \in Threads, Publish(t) PROVE (TypeOK /\ Working)'
    <3>1. staged.page \in Page /\ staged.page.version \in Nat /\ staged.given \in SUBSET Ids
      BY DEF TypeOK, Page
    <3>2. brief' \in [Modules -> Page] /\ guide' \in [Modules -> Nat] /\ given' \in [Modules -> SUBSET Ids]
      BY <2>8, <3>1 DEF Publish, TypeOK
    <3>3. pc[t] \in {"brief", "publish"} /\ NextModule(t, Current(t), FALSE) /\ UNCHANGED <<ledger, holder>>
      BY <2>8 DEF Publish
    <3>4. QED
      BY <2>8, <2>a, <3>2, <3>3 DEF Publish, TypeOK, ledger
  <2>9. ASSUME NEW t \in Threads, Fail(t) PROVE (TypeOK /\ Working)'
    <3>1. PICK error \in BOOLEAN : NextModule(t, Current(t), error)
      BY <2>9 DEF Fail
    <3>2. pc[t] \in {"brief", "publish"} /\ UNCHANGED <<ledger, holder>> /\ failures' = failures + 1
      BY <2>9 DEF Fail, Failure
    <3>3. QED
      BY <2>9, <2>a, <3>1, <3>2 DEF Fail, TypeOK, ledger, pages
  <2>10. ASSUME NEW t \in Threads, Assemble(t) PROVE (TypeOK /\ Working)'
    <3>1. company' \in [Modules -> Nat]
      BY <2>10 DEF Assemble, TypeOK, Page
    <3>2. pc[t] = "assemble" /\ holder' = Free /\ UNCHANGED <<ledger, todo>>
          /\ \E step \in {"idle", "done", "failed"} : Goto(t, step)
      BY <2>10 DEF Assemble, End
    <3>3. QED
      BY <2>10, <2>b, <3>1, <3>2 DEF Assemble, TypeOK, ledger
  <2>11. ASSUME NEW t \in Threads, Refuse(t) \/ AssembleFails(t) PROVE (TypeOK /\ Working)'
    <3>1. pc[t] = "assemble" /\ holder' = Free /\ Goto(t, "failed")
      BY <2>11 DEF Refuse, AssembleFails, End
    <3>2. failures' = failures \/ failures' = failures + 1
      BY <2>11 DEF Refuse, AssembleFails, Failure
    <3>3. UNCHANGED <<ledger, pages, snapshot, todo, failed, staged, versions, requests>>
      BY <2>11 DEF Refuse, AssembleFails
    <3>4. QED
      BY <2>b, <3>1, <3>2, <3>3 DEF TypeOK, ledger, pages
  <2>12. ASSUME Stop PROVE (TypeOK /\ Working)'
    <3>1. pc' = [t \in Threads |-> IF pc[t] \in {"ready", "brief", "publish", "assemble"}
                                   THEN "failed" ELSE pc[t]]
      BY <2>12 DEF Stop
    <3>2. holder' = Free /\ failures' = failures + 1
          /\ UNCHANGED <<ledger, pages, snapshot, todo, failed, staged, versions, requests>>
      BY <2>12 DEF Stop, Failure
    <3>3. TypeOK'
      BY <3>1, <3>2 DEF TypeOK, ledger, pages
    <3>4. Working'
      BY <3>1, <3>2 DEF TypeOK, Working, ledger, Verified
    <3>5. QED
      BY <3>3, <3>4
  <2>13. CASE UNCHANGED vars
    BY <2>13 DEF vars, ledger, pages, threads, TypeOK, Working, Verified
  <2>14. QED
    BY <2>1, <2>2, <2>3, <2>4, <2>5, <2>6, <2>7, <2>8, <2>9, <2>10, <2>11, <2>12, <2>13
    DEF Next, Threads
<1>3. QED
  BY <1>1, <1>2, PTL DEF Spec

-----------------------------------------------------------------------------
\* A guide is always of the brief beside it, for any modules, threads and failures.
THEOREM PagesPairs == Spec => []PairsMatch
<1>1. Init => PairsMatch
  BY DEF Init, PairsMatch, NoPage
<1>2. TypeOK /\ Working /\ PairsMatch /\ [Next]_vars => PairsMatch'
  <2> SUFFICES ASSUME TypeOK, PairsMatch, [Next]_vars PROVE PairsMatch'
    OBVIOUS
  <2>1. ASSUME NEW t \in Threads, Publish(t) PROVE PairsMatch'
    BY <2>1 DEF Publish, PairsMatch, TypeOK
  <2>2. CASE UNCHANGED pages
    BY <2>2 DEF pages, PairsMatch
  <2>3. ASSUME NEW t \in Threads, Assemble(t) PROVE PairsMatch'
    BY <2>3 DEF Assemble, PairsMatch
  <2>4. ASSUME NEW t \in Threads,
               \/ Import(t) \/ Retry(t) \/ Enter(t) \/ Skip(t) \/ WriteBrief(t) \/ NoBrief(t)
               \/ Fail(t) \/ Refuse(t) \/ AssembleFails(t)
        PROVE  UNCHANGED pages
    BY <2>4 DEF Import, Retry, Enter, Skip, WriteBrief, NoBrief, Fail, Refuse, AssembleFails
  <2>5. ASSUME NEW new \in Decided, NEW old \in SUBSET live, Decide(new, old) PROVE UNCHANGED pages
    BY <2>5 DEF Decide
  <2>6. ASSUME Request \/ Stop PROVE UNCHANGED pages
    BY <2>6 DEF Request, Stop
  <2>7. QED
    BY <2>1, <2>2, <2>3, <2>4, <2>5, <2>6 DEF Next, vars
<1>3. QED
  BY <1>1, <1>2, PagesTypes, PTL DEF Spec

-----------------------------------------------------------------------------
\* A company page that is not a copy has a thread that will assemble it or can be retried: when
\* none waits, works or has failed, all are copies.
THEOREM PagesCompany == Spec => []CompanyIsCurrent
<1> DEFINE Busy == {"ready", "brief", "publish", "assemble", "failed"}
<1>1. Init => CompanyIsCurrent
  BY DEF Init, CompanyIsCurrent, NoPage
<1>2. TypeOK /\ Working /\ CompanyIsCurrent /\ [Next]_vars => CompanyIsCurrent'
  <2> SUFFICES ASSUME TypeOK, Working, CompanyIsCurrent, [Next]_vars PROVE CompanyIsCurrent'
    OBVIOUS
  \* A step that copies nothing, changes no brief and leaves nobody at rest who was busy.
  <2>a. ASSUME UNCHANGED <<company, brief>>,
               \A t \in Threads : pc[t] \in Busy => pc'[t] \in Busy
        PROVE  CompanyIsCurrent'
    BY <2>a DEF CompanyIsCurrent, TypeOK
  \* A step after which some thread is busy.
  <2>b. ASSUME NEW t \in Threads, pc'[t] \in Busy PROVE CompanyIsCurrent'
    BY <2>b DEF CompanyIsCurrent
  <2>1. ASSUME NEW t \in Threads, Import(t) \/ Retry(t) \/ Enter(t) \/ WriteBrief(t)
        PROVE  CompanyIsCurrent'
    <3>1. pc'[t] \in Busy
      BY <2>1 DEF Import, Retry, Enter, WriteBrief, Goto, TypeOK
    <3>2. QED
      BY <3>1, <2>b
  <2>2. ASSUME NEW t \in Threads, Skip(t) \/ NoBrief(t) \/ Publish(t) \/ Fail(t)
        PROVE  CompanyIsCurrent'
    <3>1. pc'[t] \in Busy
      BY <2>2 DEF Skip, NoBrief, Publish, Fail, NextModule, Goto, TypeOK
    <3>2. QED
      BY <3>1, <2>b
  <2>3. ASSUME NEW t \in Threads, Assemble(t) PROVE CompanyIsCurrent'
    BY <2>3 DEF Assemble, CompanyIsCurrent, TypeOK
  <2>4. ASSUME NEW t \in Threads, Refuse(t) \/ AssembleFails(t) PROVE CompanyIsCurrent'
    <3>1. pc'[t] = "failed"
      BY <2>4 DEF Refuse, AssembleFails, End, Goto, TypeOK
    <3>2. QED
      BY <3>1, <2>b
  <2>5. ASSUME NEW new \in Decided, NEW old \in SUBSET live, Decide(new, old)
        PROVE  CompanyIsCurrent'
    BY <2>5, <2>a DEF Decide, pages, threads
  <2>6. CASE Request
    <3>1. pc'[Rebuild] \in Busy
      BY <2>6 DEF Request, Goto, TypeOK, Threads
    <3>2. QED
      BY <3>1, <2>b DEF Threads
  <2>7. CASE Stop
    BY <2>7, <2>a DEF Stop, pages
  <2>8. CASE UNCHANGED vars
    BY <2>8, <2>a DEF vars, pages, threads
  <2>9. QED
    BY <2>1, <2>2, <2>3, <2>4, <2>5, <2>6, <2>7, <2>8 DEF Next
<1>3. QED
  BY <1>1, <1>2, PagesTypes, PTL DEF Spec

-----------------------------------------------------------------------------
\* Facts that are or were in the ledger.
Written == live \cup retired
\* A fact is settled: superseded, or before the employee of a page that is published.
Settled(f) == f \in retired \cup given[ModuleOf[f]]

\* What pages record is of the ledger, and applied facts were before the employee.
Recorded ==
    \A m \in Modules : /\ given[m] \subseteq In(Written, m)
                       /\ brief[m].applied \subseteq retired \cup given[m]

\* A staged brief is as good as the page it will replace, and covers the batch.
StagedCovers ==
    \A t \in Threads : pc[t] = "publish" =>
        /\ staged.given \subseteq In(Written, Current(t))
        /\ given[Current(t)] \cup Batch(t, Current(t)) \cup staged.page.applied
             \subseteq retired \cup staged.given

\* An update without errors has seen all facts of its job, and settled those of the modules
\* that are behind it.
Behind ==
    \A t \in Threads : pc[t] \in InUpdate =>
        /\ snapshot[t] \subseteq Written
        /\ Verified(t) \subseteq snapshot[t] \cup retired
        /\ ~failed[t] => \A f \in Verified(t) : ModuleOf[f] \notin todo[t] => Settled(f)

Landed == \A t \in Threads : pc[t] # "parsing" => Verified(t) \subseteq Written

Finished == \A t \in Threads : pc[t] = "done" => \A f \in Verified(t) : Settled(f)

Covered == Recorded /\ StagedCovers /\ Behind /\ Landed /\ Finished

\* The inductive invariant behind DoneIsProjected.
THEOREM PagesInvariant == Spec => []Covered
<1>1. Init => Covered
  BY DEF Init, Covered, Recorded, StagedCovers, Behind, Landed, Finished, NoPage, InUpdate, Verified
<1>2. TypeOK /\ Working /\ Covered /\ [Next]_vars => Covered'
  <2> SUFFICES ASSUME TypeOK, Working, Covered, [Next]_vars PROVE Covered'
    OBVIOUS
  <2> USE PagesAssumption
  <2>0. /\ Facts \subseteq Ids /\ \A i \in Ids : ModuleOf[i] \in Modules
        /\ \A u \in Threads : Verified(u) \subseteq Facts
    BY DEF Ids, Verified
  \* Only the holder is inside.
  <2>1. ASSUME NEW t \in Threads, pc[t] \in InUpdate
        PROVE  \A u \in Threads : u # t => pc[u] \notin InUpdate
    BY <2>1 DEF TypeOK, InUpdate
  \* A step that goes to the next module and publishes nothing: either an error is on record or
  \* the facts of the module are settled.
  <2>a. ASSUME NEW t \in Threads, NEW error \in BOOLEAN, pc[t] \in {"brief", "publish"},
               NextModule(t, Current(t), error), UNCHANGED <<ledger, pages, snapshot, staged>>,
               error \/ \A f \in Verified(t) : ModuleOf[f] = Current(t) => Settled(f)
        PROVE  Covered'
    <3>1. pc' = [pc EXCEPT ![t] = IF todo[t] = {Current(t)} THEN "assemble" ELSE "brief"]
          /\ todo' = [todo EXCEPT ![t] = @ \ {Current(t)}]
      BY <2>a DEF NextModule, Goto
    <3>2. ~failed'[t] => ~failed[t] /\ ~error
      BY <2>a, Zenon DEF NextModule, TypeOK
    <3>3. \A u \in Threads : u # t => pc'[u] = pc[u] /\ pc'[u] \notin InUpdate
      BY <3>1, <2>1, <2>a DEF InUpdate, TypeOK
    <3>4. pc'[t] \in {"assemble", "brief"} /\ todo'[t] = todo[t] \ {Current(t)}
      BY <3>1 DEF TypeOK
    <3>5. Recorded'
      BY <2>a DEF Covered, Recorded, ledger, pages, Written, In
    <3>6. StagedCovers'
      BY <3>3, <3>4 DEF StagedCovers, InUpdate
    <3>7. Behind'
      <4>1. ASSUME ~failed'[t], NEW f \in Verified(t), ModuleOf[f] \notin todo'[t] PROVE Settled(f)
        <5>1. CASE ModuleOf[f] = Current(t)
          BY <5>1, <4>1, <3>2, <2>a
        <5>2. CASE ModuleOf[f] \notin todo[t]
          BY <5>2, <4>1, <3>2, <2>a DEF Covered, Behind, InUpdate
        <5>3. QED
          BY <4>1, <3>4, <5>1, <5>2
      <4>2. snapshot[t] \subseteq Written /\ Verified(t) \subseteq snapshot[t] \cup retired
        BY <2>a DEF Covered, Behind, InUpdate
      <4>3. QED
        BY <4>1, <4>2, <3>3, <2>a DEF Behind, Written, Settled, ledger, pages, Verified
    <3>8. Landed'
      BY <3>3, <3>4, <2>a DEF Covered, Landed, ledger, Written, Verified
    <3>9. Finished'
      BY <3>3, <3>4, <2>a DEF Covered, Finished, Settled, ledger, pages, Verified
    <3>10. QED
      BY <3>5, <3>6, <3>7, <3>8, <3>9 DEF Covered
  \* A step that only moves threads between steps outside, and lets none finish.
  <2>b. ASSUME UNCHANGED <<ledger, given, brief>>,
               \A u \in Threads : /\ pc'[u] \notin InUpdate
                                  /\ pc'[u] = "parsing" <=> pc[u] = "parsing"
                                  /\ pc'[u] = "done" => pc[u] = "done"
        PROVE  Covered'
    <3>1. Recorded'
      BY <2>b DEF Covered, Recorded, ledger, Written, In
    <3>2. StagedCovers' /\ Behind'
      BY <2>b DEF StagedCovers, Behind, InUpdate
    <3>3. Landed'
      BY <2>b DEF Covered, Landed, ledger, Written, Verified
    <3>4. Finished'
      BY <2>b DEF Covered, Finished, Settled, ledger, Verified
    <3>5. QED
      BY <3>1, <3>2, <3>3, <3>4 DEF Covered
  \* A step of the ledger: nothing leaves it, and what is superseded stays so.
  <2>c. ASSUME live \cup retired \subseteq live' \cup retired', retired \subseteq retired',
               UNCHANGED <<pages, snapshot, todo, failed, staged>>,
               \A u \in Threads : /\ pc'[u] = pc[u] \/ pc'[u] = "ready"
                                  /\ pc'[u] # "parsing" /\ pc[u] = "parsing"
                                       => Verified(u) \subseteq live' \cup retired'
        PROVE  Covered'
    <3>1. Written \subseteq Written' /\ \A f : Settled(f) => Settled(f)'
      BY <2>c DEF Written, Settled, pages
    <3>2. Recorded'
      BY <2>c, <3>1 DEF Covered, Recorded, pages, In
    <3>3. StagedCovers'
      <4> SUFFICES ASSUME NEW t \in Threads, pc'[t] = "publish"
                   PROVE  /\ staged.given \subseteq In(Written', Current(t))
                          /\ given[Current(t)] \cup Batch(t, Current(t)) \cup staged.page.applied
                               \subseteq retired' \cup staged.given
        BY <2>c DEF StagedCovers, pages, Current, Batch, Verified, In
      <4>1. pc[t] = "publish"
        BY <2>c
      <4>2. QED
        BY <4>1, <2>c, <3>1 DEF Covered, StagedCovers, In
    <3>4. Behind'
      <4> SUFFICES ASSUME NEW t \in Threads, pc'[t] \in InUpdate
                   PROVE  /\ snapshot[t] \subseteq Written'
                          /\ Verified(t) \subseteq snapshot[t] \cup retired'
                          /\ ~failed[t] => \A f \in Verified(t) :
                                              ModuleOf[f] \notin todo[t] => Settled(f)'
        BY <2>c DEF Behind, Verified
      <4>1. pc[t] \in InUpdate
        BY <2>c DEF InUpdate
      <4>2. QED
        BY <4>1, <2>c, <3>1 DEF Covered, Behind
    <3>5. Landed'
      BY <2>c, <3>1 DEF Covered, Landed, Written, Verified
    <3>6. Finished'
      BY <2>c, <3>1 DEF Covered, Finished, Verified
    <3>7. QED
      BY <3>2, <3>3, <3>4, <3>5, <3>6 DEF Covered
  <2>2. ASSUME NEW t \in Threads, Import(t) PROVE Covered'
    <3>1. pc' = [pc EXCEPT ![t] = "ready"] /\ live' = live \cup Verified(t) /\ retired' = retired
      BY <2>2 DEF Import, Goto
    <3>2. QED
      BY <2>2, <2>c, <3>1 DEF Import, TypeOK
  <2>3. ASSUME NEW new \in Decided, NEW old \in SUBSET live, Decide(new, old) PROVE Covered'
    BY <2>3, <2>c DEF Decide, threads
  <2>4. ASSUME NEW t \in Threads, (Request /\ t = Rebuild) \/ Retry(t) PROVE Covered'
    <3>1. pc[t] \in {"idle", "failed"} /\ pc' = [pc EXCEPT ![t] = "ready"]
          /\ UNCHANGED <<ledger, pages, snapshot, todo, failed, staged>>
      BY <2>4 DEF Request, Retry, Goto
    <3>2. QED
      BY <2>c, <3>1 DEF TypeOK, ledger
  <2>5. ASSUME NEW t \in Threads, Enter(t) PROVE Covered'
    <3>1. pc' = [pc EXCEPT ![t] = IF Targets(t, live) = {} THEN "assemble" ELSE "brief"]
          /\ todo' = [todo EXCEPT ![t] = Targets(t, live)]
          /\ snapshot' = [snapshot EXCEPT ![t] = live]
          /\ holder = Free /\ pc[t] = "ready" /\ UNCHANGED <<ledger, pages, staged>>
      BY <2>5 DEF Enter, Goto
    <3>2. \A u \in Threads : u # t => pc'[u] = pc[u] /\ pc'[u] \notin InUpdate
      BY <3>1 DEF TypeOK, InUpdate
    <3>3. pc'[t] \in {"assemble", "brief"} /\ todo'[t] = Targets(t, live) /\ snapshot'[t] = live
      BY <3>1 DEF TypeOK
    <3>4. Recorded' /\ StagedCovers'
      BY <3>1, <3>2, <3>3 DEF Covered, Recorded, StagedCovers, InUpdate, ledger, pages, Written, In
    <3>5. Verified(t) \subseteq live \cup retired
      BY <3>1 DEF Covered, Landed, Written
    <3>6. ASSUME NEW f \in Verified(t), ModuleOf[f] \notin Targets(t, live) PROVE f \in retired
      <4>1. ModuleOf[f] \in Modules
        BY <2>0
      <4>2. f \notin live
        BY <3>6, <4>1 DEF Targets, In
      <4>3. QED
        BY <4>2, <3>5
    <3>7. Behind'
      BY <3>1, <3>2, <3>3, <3>5, <3>6 DEF Behind, Written, Settled, ledger, Verified
    <3>8. Landed' /\ Finished'
      BY <3>1, <3>2, <3>3 DEF Covered, Landed, Finished, Written, Settled, ledger, pages, Verified
    <3>9. QED
      BY <3>4, <3>7, <3>8 DEF Covered
  <2>6. ASSUME NEW t \in Threads, Skip(t) PROVE Covered'
    <3>1. Current(t) \in Modules /\ pc[t] = "brief" /\ brief[Current(t)].applied = Batch(t, Current(t))
      BY <2>6, CurrentInTodo DEF Skip, Skipped, Working
    <3>2. ASSUME NEW f \in Verified(t), ModuleOf[f] = Current(t) PROVE Settled(f)
      <4>1. f \in snapshot[t] \cup retired
        BY <3>1 DEF Covered, Behind, InUpdate
      <4>2. f \in snapshot[t] => f \in brief[Current(t)].applied
        BY <3>1, <3>2 DEF Batch, In
      <4>3. QED
        BY <3>1, <3>2, <4>1, <4>2 DEF Covered, Recorded, Settled
    <3>3. QED
      BY <2>6, <2>a, <3>1, <3>2 DEF Skip
  <2>7. ASSUME NEW t \in Threads, NoBrief(t), NextModule(t, Current(t), TRUE), UNCHANGED staged
        PROVE  Covered'
    BY <2>7, <2>a DEF NoBrief
  <2>8. ASSUME NEW t \in Threads, Fail(t) PROVE Covered'
    <3>1. PICK error \in BOOLEAN : /\ error \/ (pc[t] = "brief" /\ In(snapshot[t], Current(t)) = {})
                                   /\ NextModule(t, Current(t), error)
      BY <2>8 DEF Fail
    <3>2. pc[t] \in {"brief", "publish"} /\ UNCHANGED <<ledger, pages, snapshot, staged>>
      BY <2>8 DEF Fail
    <3>3. ASSUME In(snapshot[t], Current(t)) = {}, NEW f \in Verified(t), ModuleOf[f] = Current(t)
          PROVE  Settled(f)
      <4>1. f \in snapshot[t] \cup retired
        BY <3>2 DEF Covered, Behind, InUpdate
      <4>2. QED
        BY <3>3, <4>1 DEF In, Settled
    <3>4. QED
      BY <2>a, <3>1, <3>2, <3>3
  \* A page is staged.
  <2>d. ASSUME NEW t \in Threads, pc[t] = "brief", Goto(t, "publish"),
               UNCHANGED <<ledger, pages, snapshot, todo, failed>>,
               staged'.given \subseteq In(Written, Current(t)),
               given[Current(t)] \cup Batch(t, Current(t)) \cup staged'.page.applied
                 \subseteq retired \cup staged'.given
        PROVE  Covered'
    <3>1. pc' = [pc EXCEPT ![t] = "publish"]
      BY <2>d DEF Goto
    <3>2. \A u \in Threads : u # t => pc'[u] = pc[u] /\ pc'[u] \notin InUpdate
      BY <3>1, <2>1, <2>d DEF InUpdate, TypeOK
    <3>3. pc'[t] = "publish"
      BY <3>1 DEF TypeOK
    <3>4. StagedCovers'
      BY <3>2, <2>d DEF StagedCovers, InUpdate, Written, ledger, pages, Current, Batch, In, Verified
    <3>5. Behind'
      BY <3>2, <2>d DEF Covered, Behind, InUpdate, Written, Settled, ledger, pages, Verified
    <3>6. Recorded' /\ Landed' /\ Finished'
      BY <3>2, <3>3, <2>d
      DEF Covered, Recorded, Landed, Finished, Written, Settled, ledger, pages, Verified, In
    <3>7. QED
      BY <3>4, <3>5, <3>6 DEF Covered
  <2>9. ASSUME NEW t \in Threads, WriteBrief(t) PROVE Covered'
    <3> DEFINE m == Current(t)
    <3>1. pc[t] = "brief" /\ Goto(t, "publish") /\ UNCHANGED <<ledger, pages, snapshot, todo, failed>>
      BY <2>9 DEF WriteBrief
    <3>2. m \in Modules
      BY <3>1, CurrentInTodo DEF Working
    <3>3. staged'.page.applied = Batch(t, m)
          /\ staged'.given = IF Anew(t, m) THEN In(live, m)
                             ELSE given[m] \cup (In(live, m) \cap Batch(t, m))
      BY <2>9 DEF WriteBrief
    <3>4. given[m] \subseteq In(Written, m) /\ Batch(t, m) \subseteq In(Written, m)
      BY <3>1, <3>2 DEF Covered, Recorded, Behind, InUpdate, Batch, In
    <3>5. In(Written, m) \subseteq In(live, m) \cup retired /\ In(live, m) \subseteq In(Written, m)
      BY DEF Written, In
    <3> HIDE DEF m
    <3>6. staged'.given \subseteq In(Written, m)
          /\ given[m] \cup Batch(t, m) \cup staged'.page.applied \subseteq retired \cup staged'.given
      BY <3>3, <3>4, <3>5
    <3>7. QED
      BY <2>d, <3>1, <3>6 DEF m
  <2>10. ASSUME NEW t \in Threads, NoBrief(t), staged' = [page |-> NoPage, given |-> {}],
                Goto(t, "publish"), UNCHANGED <<todo, failed>>,
                In(live, Current(t)) = {}, In(snapshot[t], Current(t)) = {}
         PROVE  Covered'
    <3>1. pc[t] = "brief" /\ UNCHANGED <<ledger, pages, snapshot, todo, failed>>
      BY <2>10 DEF NoBrief
    <3>2. Current(t) \in Modules
      BY <3>1, CurrentInTodo DEF Working
    <3>3. given[Current(t)] \subseteq In(Written, Current(t))
      BY <3>2 DEF Covered, Recorded
    <3>4. given[Current(t)] \subseteq retired /\ Batch(t, Current(t)) = {}
      BY <3>3, <2>10 DEF Written, In, Batch
    <3>5. staged'.given = {} /\ staged'.page.applied = {}
      BY <2>10 DEF NoPage
    <3>6. QED
      BY <2>d, <2>10, <3>1, <3>4, <3>5
  <2>11. ASSUME NEW t \in Threads, NoBrief(t) PROVE Covered'
    BY <2>11, <2>7, <2>10 DEF NoBrief
  <2>12. ASSUME NEW t \in Threads, Publish(t) PROVE Covered'
    <3> DEFINE m == Current(t)
    <3>1. pc[t] = "publish" /\ NextModule(t, m, FALSE) /\ UNCHANGED <<ledger, snapshot>>
      BY <2>12 DEF Publish
    <3>2. m \in Modules /\ m \in todo[t]
      BY <3>1, CurrentInTodo DEF Working
    <3>3. given' = [given EXCEPT ![m] = staged.given] /\ brief' = [brief EXCEPT ![m] = staged.page]
      BY <2>12 DEF Publish
    <3>4. /\ staged.given \subseteq In(Written, m)
          /\ given[m] \cup Batch(t, m) \cup staged.page.applied \subseteq retired \cup staged.given
      BY <3>1 DEF Covered, StagedCovers
    <3>5. pc' = [pc EXCEPT ![t] = IF todo[t] = {m} THEN "assemble" ELSE "brief"]
          /\ todo' = [todo EXCEPT ![t] = @ \ {m}]
      BY <3>1 DEF NextModule, Goto
    <3>6. ~failed'[t] => ~failed[t]
      BY <3>1, Zenon DEF NextModule, TypeOK
    <3> HIDE DEF m
    <3>7. \A u \in Threads : u # t => pc'[u] = pc[u] /\ pc'[u] \notin InUpdate
      BY <3>5, <3>1, <2>1 DEF InUpdate, TypeOK
    <3>8. pc'[t] \in {"assemble", "brief"} /\ todo'[t] = todo[t] \ {m}
      BY <3>5 DEF TypeOK
    <3>9. ASSUME NEW f \in Facts, Settled(f) PROVE Settled(f)'
      <4>1. ModuleOf[f] \in Modules
        BY <2>0
      <4>2. QED
        BY <4>1, <3>1, <3>3, <3>4, <3>9 DEF Settled, TypeOK, ledger
    <3>10. Recorded'
      BY <3>1, <3>3, <3>4 DEF Covered, Recorded, TypeOK, ledger, Written, In
    <3>11. StagedCovers'
      BY <3>7, <3>8 DEF StagedCovers, InUpdate
    <3>12. Behind'
      <4>1. snapshot[t] \subseteq Written /\ Verified(t) \subseteq snapshot[t] \cup retired
        BY <3>1 DEF Covered, Behind, InUpdate
      <4>2. ASSUME ~failed'[t], NEW f \in Verified(t), ModuleOf[f] \notin todo'[t] PROVE Settled(f)'
        <5>1. CASE ModuleOf[f] = m
          <6>1. f \in snapshot[t] => f \in Batch(t, m)
            BY <5>1 DEF Batch, In
          <6>2. f \in retired \cup staged.given
            BY <4>1, <6>1, <3>4
          <6>3. QED
            BY <5>1, <6>2, <3>1, <3>2, <3>3 DEF Settled, TypeOK, ledger
        <5>2. CASE ModuleOf[f] \notin todo[t]
          <6>1. Settled(f)
            BY <5>2, <4>2, <3>1, <3>6 DEF Covered, Behind, InUpdate
          <6>2. QED
            BY <6>1, <3>9, <2>0
        <5>3. QED
          BY <4>2, <3>8, <5>1, <5>2
      <4>3. QED
        BY <4>1, <4>2, <3>1, <3>7 DEF Behind, Written, ledger, Verified
    <3>13. Landed'
      BY <3>1, <3>7, <3>8 DEF Covered, Landed, ledger, Written, Verified
    <3>14. Finished'
      <4> SUFFICES ASSUME NEW u \in Threads, pc'[u] = "done", NEW f \in Verified(u)
                   PROVE  Settled(f)'
        BY DEF Finished, Verified
      <4>1. pc[u] = "done"
        BY <3>7, <3>8
      <4>2. Settled(f)
        BY <4>1 DEF Covered, Finished
      <4>3. QED
        BY <4>2, <3>9, <2>0
    <3>15. QED
      BY <3>10, <3>11, <3>12, <3>13, <3>14 DEF Covered
  <2>13. ASSUME NEW t \in Threads, Assemble(t) PROVE Covered'
    <3>1. pc[t] = "assemble" /\ UNCHANGED <<ledger, given, brief>>
      BY <2>13 DEF Assemble
    <3>2. \E step \in {"idle", "done", "failed"} : pc' = [pc EXCEPT ![t] = step]
      BY <2>13 DEF Assemble, End, Goto
    <3>3. pc'[t] = "done" => ~failed[t]
      BY <2>13 DEF Assemble, End, Goto, TypeOK
    <3>4. \A u \in Threads : u # t => pc'[u] = pc[u] /\ pc'[u] \notin InUpdate
      BY <3>2, <3>1, <2>1 DEF InUpdate, TypeOK
    <3>5. pc'[t] \in {"idle", "done", "failed"}
      BY <3>2 DEF TypeOK
    <3>6. ~failed[t] => \A f \in Verified(t) : Settled(f)
      BY <3>1 DEF Covered, Behind, InUpdate, Working
    <3>7. Recorded' /\ Landed'
      BY <3>1, <3>4 DEF Covered, Recorded, Landed, ledger, Written, In, Verified
    <3>8. StagedCovers' /\ Behind'
      BY <3>4, <3>5 DEF StagedCovers, Behind, InUpdate
    <3>9. Finished'
      BY <3>1, <3>3, <3>4, <3>6 DEF Covered, Finished, Settled, ledger, Verified
    <3>10. QED
      BY <3>7, <3>8, <3>9 DEF Covered
  <2>14. ASSUME NEW t \in Threads, Refuse(t) \/ AssembleFails(t) PROVE Covered'
    <3>1. pc[t] = "assemble" /\ pc' = [pc EXCEPT ![t] = "failed"] /\ UNCHANGED <<ledger, given, brief>>
      BY <2>14 DEF Refuse, AssembleFails, End, Goto, pages
    <3>2. \A u \in Threads : u # t => pc'[u] = pc[u] /\ pc'[u] \notin InUpdate
      BY <3>1, <2>1 DEF InUpdate, TypeOK
    <3>3. pc'[t] = "failed"
      BY <3>1 DEF TypeOK
    <3>4. QED
      BY <2>b, <3>1, <3>2, <3>3 DEF InUpdate
  <2>15. CASE Stop
    <3>1. UNCHANGED <<ledger, given, brief>>
          /\ pc' = [t \in Threads |-> IF pc[t] \in {"ready", "brief", "publish", "assemble"}
                                      THEN "failed" ELSE pc[t]]
      BY <2>15 DEF Stop, pages
    <3>2. QED
      BY <2>b, <3>1 DEF InUpdate
  <2>16. CASE UNCHANGED vars
    BY <2>16, <2>c DEF vars, ledger, threads
  <2>17. QED
    BY <2>2, <2>3, <2>4, <2>5, <2>6, <2>8, <2>9, <2>11, <2>12, <2>13, <2>14, <2>15, <2>16
    DEF Next, Threads
<1>3. QED
  BY <1>1, <1>2, PagesTypes, PTL DEF Spec

\* Once a job is done each of its facts was before an employee whose brief, or a later one made
\* from it, is published, unless the fact was superseded.
THEOREM PagesProjected == Spec => []DoneIsProjected
<1>1. Covered => DoneIsProjected
  BY PagesAssumption DEF Covered, Finished, Settled, DoneIsProjected, Verified, Threads
<1>2. QED
  BY <1>1, PagesInvariant, PTL
=============================================================================
