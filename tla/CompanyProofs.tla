---------------------------- MODULE CompanyProofs -----------------------------
(*****************************************************************************)
(* Theorems about the facts tree of a company (CompanyTree) and about the    *)
(* index its documents and facts are searched in (Projection).               *)
(*****************************************************************************)
EXTENDS CompanyTree, Projection, FiniteSetTheorems, TLAPS

(* The facts tree. *)

\* A set of naturals has a least element: initial segments ordered by inclusion are well founded.
LEMMA Least ==
    ASSUME NEW S, S \subseteq Nat, S # {}
    PROVE  \E m \in S : \A n \in S : m <= n
<1> DEFINE R == StrictSubsetOrdering(Nat)
           Upto(n) == 0 .. n
           T == {Upto(n) : n \in S}
<1>1. IsWellFoundedOn(R, FiniteSubsetsOf(Nat))
  BY FS_StrictSubsetOrderingWellFounded
<1>2. T \subseteq FiniteSubsetsOf(Nat) /\ T # {}
  <2>1. \A n \in S : Upto(n) \in SUBSET Nat /\ IsFiniteSet(Upto(n))
    BY FS_Interval
  <2>2. QED
    BY <2>1 DEF FiniteSubsetsOf
<1> HIDE DEF T, R
<1>3. PICK U \in T : \A V \in T : <<V, U>> \notin R
  BY <1>1, <1>2, WFMin
<1>4. PICK m \in S : U = Upto(m)
  BY <1>3 DEF T
<1>5. ASSUME NEW n \in S, n < m PROVE FALSE
  <2>1. Upto(n) \in T
    BY DEF T
  <2>2. Upto(n) \subseteq Upto(m) /\ Upto(n) # Upto(m)
    BY <1>5
  <2>3. <<Upto(n), Upto(m)>> \in R
    BY <2>2 DEF R, StrictSubsetOrdering
  <2>4. QED
    BY <2>1, <2>3, <1>3, <1>4
<1>6. QED
  BY <1>5

-----------------------------------------------------------------------------
\* The invariant.

\* An identity is named after its first row, which belongs to it.
Rooted == \A q \in Rows : Mapped(q) => revision[q].uid \in Rows /\ Mapped(revision[q].uid) /\ Written(q)

\* Its versions are counted from 1 without a gap, each is one row, and only the last may be open.
Complete     == \A r \in Rows : Mapped(r) => ChainComplete(r)
OneVersion   == \A q, r \in Rows : Mapped(q) /\ Mapped(r) /\ revision[q] = revision[r] => q = r
OpenIsLatest == \A r \in Rows : Mapped(r) /\ Open(r) => Latest(r)

Identities == Rooted /\ Complete /\ OneVersion /\ OpenIsLatest

\* A placement is of a row with an identity, and can be traced to a binding on record; the last one
\* is of the current binding.
PlacedWell(r) ==
    /\ PlacementsAgree(r)
    /\ placed[r] # <<>> => Mapped(r) /\ LedgerOk /\ pointer[r].rev = bound.rev
Placements == \A r \in Rows : PlacedWell(r)

\* A binding is proven when it is recorded, and a leaf that cites nothing was written under it.
Recorded == Proven => bound.rev > 0 /\ history # <<>>
Uncited  == \A l \in Published : leaf[l].cites = {} => Proven /\ l \in LeavesOf[bound.pack]

TreeInv == TypeOK /\ Identities /\ Placements /\ Recorded /\ Uncited

-----------------------------------------------------------------------------
\* The operators.

LEMMA NewRowIsFree ==
    ASSUME Free # {}
    PROVE  NewRow \in Rows /\ ~Written(NewRow)
<1>1. Free \subseteq Rows /\ Rows \subseteq Nat
  BY CompanyTreeAssumption DEF Free
<1>2. PICK r \in Free : \A q \in Free : r <= q
  BY <1>1, Least
<1>3. QED
  BY <1>1, <1>2 DEF NewRow, Free

\* The release at hand ships one of the packs.
LEMMA ShippedIsPack ==
    ASSUME TypeOK
    PROVE  shipped \in Packs
<1>1. Releases \in Seq(Packs) /\ release \in 1 .. Len(Releases)
  BY CompanyTreeAssumption DEF TypeOK
<1>2. QED
  BY ONLY <1>1 DEF shipped

\* The leaves of a pack are leaves.
LEMMA LeavesOfPack ==
    ASSUME NEW p \in Packs
    PROVE  LeavesOf[p] \subseteq Leaves
BY CompanyTreeAssumption DEF Leaves

\* The version of the latest row of an identity is the number of its rows.
LEMMA LatestCounts ==
    ASSUME TypeOK, NEW r \in Rows, Latest(r), ChainComplete(r)
    PROVE  /\ IsFiniteSet(Identity(r)) /\ r \in Identity(r)
           /\ revision[r].version = Cardinality(Identity(r))
<1> DEFINE n == Cardinality(Identity(r))
<1>1. IsFiniteSet(Identity(r)) /\ n \in Nat
  <2>1. IsFiniteSet(Rows) /\ Identity(r) \subseteq Rows
    BY CompanyTreeAssumption DEF Identity
  <2>2. QED
    BY <2>1, FS_Subset, FS_CardinalityType
<1>2. r \in Identity(r)
  BY DEF Latest, Identity
<1>3. revision[r].version \in 1 .. n
  BY <1>2 DEF ChainComplete
<1>4. PICK q \in Identity(r) : revision[q].version = n
  BY <1>1, <1>3 DEF ChainComplete
<1>5. n <= revision[r].version
  BY <1>4 DEF Latest
<1>6. QED
  BY <1>1, <1>2, <1>3, <1>5

\* An element of a sequence over a set is in the set.
LEMMA ElementOfSeq ==
    ASSUME NEW S, NEW s \in Seq(S), NEW i \in 1 .. Len(s)
    PROVE  s[i] \in S
OBVIOUS

-----------------------------------------------------------------------------
\* The identities.

\* What is the same of each identity when no revision was written.
LEMMA IdentitiesKept ==
    ASSUME Identities, UNCHANGED revision,
           \A r \in Rows : Written(r) => Written(r)',
           \A r \in Rows : Mapped(r) /\ Open(r)' => Open(r)
    PROVE  Identities'
<1>1. \A r \in Rows : Mapped(r)' = Mapped(r) /\ Identity(r)' = Identity(r)
  BY DEF Mapped, Identity
<1>2. \A r \in Rows : Latest(r)' = Latest(r) /\ ChainComplete(r)' = ChainComplete(r)
  BY <1>1 DEF Latest, ChainComplete
<1>3. QED
  BY <1>1, <1>2 DEF Identities, Rooted, Complete, OneVersion, OpenIsLatest, Mapped

\* A row that has no identity gets one of its own.
LEMMA IdentityAdded ==
    ASSUME TypeOK, Identities, NEW x \in Rows, ~Mapped(x),
           revision' = [revision EXCEPT ![x] = [uid |-> x, version |-> 1]],
           Written(x)', \A r \in Rows : Written(r) => Written(r)',
           \A r \in Rows : r # x /\ Open(r)' => Open(r)
    PROVE  Identities'
<1>1. /\ \A q \in Rows : revision'[q] = IF q = x THEN [uid |-> x, version |-> 1] ELSE revision[q]
      /\ \A q \in Rows : Mapped(q)' <=> q = x \/ Mapped(q)
  <2>1. \A q \in Rows : revision'[q] = IF q = x THEN [uid |-> x, version |-> 1] ELSE revision[q]
    BY DEF TypeOK
  <2>2. QED
    BY ONLY <2>1, x \in Rows DEF Mapped
<1>2. \A q \in Rows : Mapped(q) => q # x /\ revision[q].uid # x
  BY DEF Identities, Rooted
<1>3. \A r \in Rows : Mapped(r) => Identity(r)' = Identity(r) /\ x \notin Identity(r)
  BY <1>1, <1>2 DEF Identity
<1>4. Identity(x)' = {x}
  BY <1>1, <1>2 DEF Identity
<1>5. Rooted'
  <2> SUFFICES ASSUME NEW q \in Rows, Mapped(q)'
               PROVE  revision'[q].uid \in Rows /\ Mapped(revision[q].uid)' /\ Written(q)'
    BY DEF Rooted
  <2>1. CASE q = x
    BY <1>1, <2>1
  <2>2. CASE q # x
    BY <1>1, <2>2 DEF Identities, Rooted
  <2>3. QED
    BY <2>1, <2>2
<1>6. Complete'
  <2> SUFFICES ASSUME NEW r \in Rows, Mapped(r)' PROVE ChainComplete(r)'
    BY DEF Complete
  <2>1. CASE r = x
    <3>1. {revision'[q].version : q \in {x}} = {1} /\ Cardinality({x}) = 1 /\ {1} = 1 .. 1
      BY <1>1, FS_Singleton
    <3>2. QED
      BY <1>4, <2>1, <3>1 DEF ChainComplete
  <2>2. CASE r # x
    <3>1. Mapped(r) /\ Identity(r)' = Identity(r) /\ \A q \in Identity(r) : revision'[q] = revision[q]
      BY <1>1, <1>3, <2>2 DEF Identity
    <3>2. ChainComplete(r)
      BY <3>1 DEF Identities, Complete
    <3>3. QED
      BY <3>1, <3>2 DEF ChainComplete
  <2>3. QED
    BY <2>1, <2>2
<1>7. OneVersion'
  BY <1>1, <1>2 DEF Identities, OneVersion
<1>8. OpenIsLatest'
  <2> SUFFICES ASSUME NEW r \in Rows, Mapped(r)', Open(r)' PROVE Latest(r)'
    BY DEF OpenIsLatest
  <2>1. CASE r = x
    BY <1>1, <1>4, <2>1 DEF Latest
  <2>2. CASE r # x
    <3>1. Mapped(r) /\ Open(r) /\ Identity(r)' = Identity(r) /\ \A q \in Identity(r) : revision'[q] = revision[q]
      BY <1>1, <1>3, <2>2 DEF Identity
    <3>2. Latest(r)
      BY <3>1 DEF Identities, OpenIsLatest
    <3>3. QED
      BY <1>1, <2>2, <3>1, <3>2 DEF Latest
  <2>3. QED
    BY <2>1, <2>2
<1>9. QED
  BY <1>5, <1>6, <1>7, <1>8 DEF Identities

\* A new row becomes the last version of an identity, whose old row closes.
LEMMA RevisionAppended ==
    ASSUME TypeOK, Identities, NEW r \in Rows, NEW n \in Rows, AppendRevision(r, n)
    PROVE  Identities'
<1> DEFINE v == revision[r].version
           u == revision[r].uid
<1>1. Mapped(r) /\ Latest(r) /\ Open(r) /\ Open(n) /\ ~Mapped(n) /\ r # n /\ v \in Nat
  BY DEF AppendRevision, Latest, TypeOK
<1>2. /\ revision'[n] = [uid |-> u, version |-> v + 1]
      /\ \A q \in Rows : q # n => revision'[q] = revision[q]
      /\ \A q \in Rows : Mapped(q)' <=> q = n \/ Mapped(q)
      /\ facts' = [facts EXCEPT ![r] = "closed"]
  <2>1. /\ revision' = [revision EXCEPT ![n] = [uid |-> u, version |-> v + 1]]
        /\ facts' = [facts EXCEPT ![r] = "closed"] /\ revision \in [Rows -> [uid : Rows \cup {0}, version : Nat]]
    BY DEF AppendRevision, TypeOK
  <2>2. /\ revision'[n] = [uid |-> u, version |-> v + 1]
        /\ \A q \in Rows : q # n => revision'[q] = revision[q]
    BY <2>1
  <2>3. v + 1 > 0
    BY <1>1
  <2>4. \A q \in Rows : Mapped(q)' <=> q = n \/ Mapped(q)
    BY <2>2, <2>3 DEF Mapped
  <2>5. QED
    BY <2>1, <2>2, <2>4
<1>3. \A q \in Rows : (Written(q)' <=> Written(q)) /\ (Open(q)' <=> Open(q) /\ q # r)
  BY <1>2, <1>1 DEF TypeOK, Written, Open
<1>4. \A q \in Rows : Mapped(q) => revision[q].version \in Nat /\ (revision[q].uid = u => revision[q].version <= v)
  BY <1>1 DEF Latest, Identity, TypeOK
<1> HIDE DEF u, v
<1>5. \A q \in Rows : Mapped(q) /\ revision[q].uid = u => Identity(q)' = Identity(r) \union {n} /\ Identity(q) = Identity(r)
  BY <1>1, <1>2 DEF Identity, u
<1>6. \A q \in Rows : Mapped(q) /\ revision[q].uid # u => Identity(q)' = Identity(q) /\ n \notin Identity(q)
  BY <1>1, <1>2 DEF Identity
<1>7. Identity(n)' = Identity(r) \union {n} /\ n \notin Identity(r)
  BY <1>1, <1>2 DEF Identity, u
<1>8. IsFiniteSet(Identity(r)) /\ v = Cardinality(Identity(r))
      /\ {revision[q].version : q \in Identity(r)} = 1 .. v
  <2>1. ChainComplete(r)
    BY <1>1 DEF Identities, Complete
  <2>2. QED
    BY <1>1, <2>1, LatestCounts DEF ChainComplete, v
<1>9. {revision'[q].version : q \in Identity(r) \union {n}} = 1 .. Cardinality(Identity(r) \union {n})
  <2>1. Cardinality(Identity(r) \union {n}) = v + 1
    BY <1>7, <1>8, FS_AddElement
  <2>2. \A q \in Identity(r) : revision'[q].version = revision[q].version
    BY <1>2, <1>7 DEF Identity
  <2>3. {revision'[q].version : q \in Identity(r) \union {n}} = (1 .. v) \union {v + 1}
    BY <1>2, <1>8, <2>2
  <2>4. (1 .. v) \union {v + 1} = 1 .. v + 1
    BY <1>1 DEF v
  <2>5. QED
    BY <2>1, <2>3, <2>4
<1>10. Rooted'
  <2> SUFFICES ASSUME NEW q \in Rows, Mapped(q)'
               PROVE  revision'[q].uid \in Rows /\ Mapped(revision[q].uid)' /\ Written(q)'
    BY DEF Rooted
  <2>1. CASE q = n
    <3>1. u \in Rows /\ Mapped(u)
      BY <1>1 DEF Identities, Rooted, u
    <3>2. Written(n)
      BY <1>1 DEF Written, Open
    <3>3. QED
      BY <1>2, <1>3, <2>1, <3>1, <3>2
  <2>2. CASE q # n
    BY <1>2, <1>3, <2>2 DEF Identities, Rooted
  <2>3. QED
    BY <2>1, <2>2
<1>11. Complete'
  <2> SUFFICES ASSUME NEW q \in Rows, Mapped(q)' PROVE ChainComplete(q)'
    BY DEF Complete
  <2>1. CASE q = n
    BY <1>7, <1>9, <2>1 DEF ChainComplete
  <2>2. CASE q # n /\ revision[q].uid = u
    BY <1>2, <1>5, <1>9, <2>2 DEF ChainComplete
  <2>3. CASE q # n /\ revision[q].uid # u
    <3>1. Mapped(q) /\ Identity(q)' = Identity(q) /\ \A p \in Identity(q) : revision'[p] = revision[p]
      BY <1>2, <1>6, <2>3 DEF Identity
    <3>2. ChainComplete(q)
      BY <3>1 DEF Identities, Complete
    <3>3. QED
      BY <3>1, <3>2 DEF ChainComplete
  <2>4. QED
    BY <2>1, <2>2, <2>3
<1>12. OneVersion'
  <2>1. \A q \in Rows : Mapped(q) => revision[q] # [uid |-> u, version |-> v + 1]
    BY <1>1, <1>4 DEF v
  <2>2. QED
    BY <1>2, <2>1 DEF Identities, OneVersion
<1>13. OpenIsLatest'
  <2> SUFFICES ASSUME NEW q \in Rows, Mapped(q)', Open(q)' PROVE Latest(q)'
    BY DEF OpenIsLatest
  <2>1. CASE q = n
    <3>1. \A p \in Identity(r) : revision'[p].version <= v + 1
      BY <1>1, <1>2, <1>4, <1>7 DEF Identity, v, u
    <3>2. v + 1 <= v + 1
      BY <1>1 DEF v
    <3>3. QED
      BY <1>2, <1>7, <2>1, <3>1, <3>2 DEF Latest
  <2>2. CASE q # n /\ revision[q].uid = u
    <3>1. Mapped(q) /\ Open(q) /\ q # r
      BY <1>2, <1>3, <2>2
    <3>2. Latest(q)
      BY <3>1 DEF Identities, OpenIsLatest
    <3>3. r \in Identity(q) /\ q \in Identity(r)
      BY <1>1, <2>2, <3>1 DEF Identity, u
    <3>4. revision[q].version = revision[r].version /\ revision[q].uid = revision[r].uid
      BY <1>1, <1>4, <2>2, <3>1, <3>2, <3>3 DEF Latest, u, v
    <3>5. revision[q] = revision[r]
      <4>1. revision[q] \in [uid : Rows \cup {0}, version : Nat] /\ revision[r] \in [uid : Rows \cup {0}, version : Nat]
        BY DEF TypeOK
      <4>2. QED
        BY <3>4, <4>1
    <3>6. QED
      BY <1>1, <3>1, <3>5 DEF Identities, OneVersion
  <2>3. CASE q # n /\ revision[q].uid # u
    <3>1. Mapped(q) /\ Open(q) /\ Identity(q)' = Identity(q) /\ \A p \in Identity(q) : revision'[p] = revision[p]
      BY <1>2, <1>3, <1>6, <2>3 DEF Identity
    <3>2. Latest(q)
      BY <3>1 DEF Identities, OpenIsLatest
    <3>3. QED
      BY <1>2, <2>3, <3>1, <3>2 DEF Latest
  <2>4. QED
    BY <2>1, <2>2, <2>3
<1>14. QED
  BY <1>10, <1>11, <1>12, <1>13 DEF Identities

-----------------------------------------------------------------------------
\* The placements.

\* A history stays good while the binding it was written under is the current one, or it is empty.
LEMMA PlacementKept ==
    ASSUME NEW r \in Rows, PlacedWell(r), UNCHANGED <<placed[r], pointer[r]>>, Mapped(r) => Mapped(r)',
           \/ placed[r] = <<>>
           \/ /\ bound'.rev = bound.rev /\ bound'.pack = bound.pack /\ bound'.digest = bound.digest
              /\ history' = history /\ archived \subseteq archived'
    PROVE  PlacedWell(r)'
<1>1. CASE placed[r] = <<>>
  BY <1>1 DEF PlacedWell, PlacementsAgree
<1>2. CASE /\ bound'.rev = bound.rev /\ bound'.pack = bound.pack /\ bound'.digest = bound.digest
           /\ history' = history /\ archived \subseteq archived'
  <2>1. PlacementsAgree(r)'
    BY <1>2 DEF PlacedWell, PlacementsAgree, Traceable
  <2>2. LedgerOk => LedgerOk'
    BY <1>2 DEF LedgerOk, Proven, ChainOk
  <2>3. QED
    BY <1>2, <2>1, <2>2 DEF PlacedWell
<1>3. QED
  BY <1>1, <1>2

\* A placement is appended to the history of its row, and the pointer follows.
LEMMA PlacementWritten ==
    ASSUME TypeOK, Placements, NEW r \in Rows, NEW l \in Leaves, LedgerOk, l \in LeavesOf[bound.pack],
           WriteCore(r, l), UNCHANGED binding, Mapped(r)', \A q \in Rows : Mapped(q) => Mapped(q)'
    PROVE  /\ Placements'
           /\ placed' \in [Rows -> Seq([leaf : Leaves, rev : Nat])]
           /\ pointer' \in [Rows -> [seq : Nat, leaf : Leaves \cup {""}, rev : Nat]]
<1> DEFINE h == placed[r]
           new == [leaf |-> l, rev |-> bound.rev]
           longer == Append(h, new)
           S == [leaf : Leaves, rev : Nat]
<1>1. /\ placed \in [Rows -> Seq(S)] /\ h \in Seq(S) /\ bound.rev \in Nat /\ new \in S
      /\ pointer \in [Rows -> [seq : Nat, leaf : Leaves \cup {""}, rev : Nat]]
      /\ history \in Seq([pack : Packs, prev : SUBSET Packs])
  BY DEF TypeOK
<1>2. /\ longer \in Seq(S) /\ Len(longer) = Len(h) + 1 /\ longer[Len(longer)] = new
      /\ \A i \in 1 .. Len(h) : longer[i] = h[i]
      /\ Len(h) \in Nat
  <2>1. h \in Seq(S) /\ new \in S
    BY <1>1
  <2> HIDE DEF h, new, S
  <2>2. longer \in Seq(S) /\ Len(longer) = Len(h) + 1 /\ Len(h) \in Nat
    BY ONLY <2>1
  <2>3. longer[Len(h) + 1] = new /\ \A i \in 1 .. Len(h) : longer[i] = h[i]
    BY ONLY <2>1
  <2>4. QED
    BY ONLY <2>2, <2>3
<1>3. placed' = [placed EXCEPT ![r] = longer]
  BY DEF WriteCore
<1>4. placed'[r] = longer /\ \A q \in Rows : q # r => placed'[q] = placed[q]
  BY <1>1, <1>3
<1>5. pointer' = [pointer EXCEPT ![r] = Current(longer)]
  BY <1>4 DEF WriteCore
<1>6. pointer'[r] = Current(longer) /\ \A q \in Rows : q # r => pointer'[q] = pointer[q]
  BY <1>1, <1>5
<1> HIDE DEF longer, new, S
<1>7. Current(longer) = [seq |-> Len(longer), leaf |-> l, rev |-> bound.rev]
  BY <1>2 DEF Current, new
<1>8. PlacedWell(r)'
  <2>1. bound.rev \in 1 .. Len(history) /\ history[bound.rev].pack = bound.pack /\ bound.pack \in archived
    <3>1. bound.rev > 0 /\ Len(history) = bound.rev /\ history[Len(history)].pack = bound.pack
          /\ bound.pack \in archived
      BY DEF LedgerOk, ChainOk
    <3>2. bound.rev \in Nat
      BY <1>1
    <3>3. QED
      BY ONLY <3>1, <3>2
  <2>2. Traceable(new)
    BY <2>1 DEF Traceable, new
  <2>3. ASSUME NEW i \in 1 .. Len(longer) PROVE Traceable(longer[i])
    <3>1. CASE i = Len(longer)
      <4>1. longer[i] = new
        BY <1>2, <3>1
      <4>2. QED
        BY <2>2, <4>1
    <3>2. CASE i # Len(longer)
      <4>1. i \in 1 .. Len(h) /\ longer[i] = h[i]
        BY <1>2, <3>2
      <4>2. Traceable(h[i])
        BY <4>1 DEF Placements, PlacedWell, PlacementsAgree
      <4>3. QED
        BY <4>1, <4>2
    <3>3. QED
      BY <3>1, <3>2
  <2>4. PlacementsAgree(r)'
    <3>1. UNCHANGED <<history, archived>>
      BY DEF binding
    <3>2. \A i \in 1 .. Len(placed'[r]) : Traceable(placed[r][i])'
      BY <1>4, <2>3, <3>1 DEF Traceable
    <3>3. pointer'[r] = Current(placed[r])'
      BY <1>4, <1>6
    <3>4. QED
      BY <3>2, <3>3 DEF PlacementsAgree
  <2>5. LedgerOk'
    BY DEF LedgerOk, Proven, ChainOk, binding
  <2>6. pointer'[r].rev = bound'.rev
    BY <1>6, <1>7 DEF binding
  <2>7. QED
    BY <2>4, <2>5, <2>6 DEF PlacedWell
<1>9. ASSUME NEW q \in Rows, q # r PROVE PlacedWell(q)'
  BY <1>4, <1>6, <1>9, PlacementKept DEF Placements, binding
<1>10. Current(longer) \in [seq : Nat, leaf : Leaves \cup {""}, rev : Nat]
  <2>1. Len(longer) \in Nat
    BY <1>2
  <2>2. bound.rev \in Nat
    BY <1>1
  <2>3. l \in Leaves
    OBVIOUS
  <2>4. l \in Leaves \cup {""}
    BY <2>3
  <2>5. [seq |-> Len(longer), leaf |-> l, rev |-> bound.rev] \in [seq : Nat, leaf : Leaves \cup {""}, rev : Nat]
    BY ONLY <2>1, <2>2, <2>4
  <2>6. QED
    BY ONLY <1>7, <2>5
<1>11. QED
  BY <1>1, <1>2, <1>3, <1>5, <1>8, <1>9, <1>10 DEF Placements, S

\* No row is placed under a binding that is not in order.
LEMMA PlacedNeedsLedger ==
    ASSUME TreeInv, NEW r \in Rows, placed[r] # <<>>
    PROVE  Written(r) /\ LedgerOk /\ history # <<>> /\ bound.rev > 0 /\ Proven
BY DEF TreeInv, Placements, PlacedWell, Identities, Rooted, LedgerOk, ChainOk

-----------------------------------------------------------------------------
\* The steps.

\* Another program, another archive entry or the lock of the company change nothing that is on record.
LEMMA AroundOK ==
    ASSUME TreeInv, Deploy \/ ArchiveOther \/ MarkLocked
    PROVE  TreeInv'
<1>1. /\ UNCHANGED <<history, facts, revision, placed, pointer, leaf>> /\ archived \subseteq archived'
      /\ bound'.rev = bound.rev /\ bound'.pack = bound.pack /\ bound'.digest = bound.digest
  <2>1. bound \in [rev : Nat, pack : Packs, digest : {"missing", "unproven", "legacy", "verified"}, locked : BOOLEAN]
    BY DEF TreeInv, TypeOK
  <2>2. CASE Deploy \/ ArchiveOther
    BY <2>2 DEF Deploy, ArchiveOther, ledgers
  <2>3. CASE MarkLocked
    BY <2>1, <2>3 DEF MarkLocked, ledgers
  <2>4. QED
    BY <2>2, <2>3
<1>2. TypeOK'
  <2>1. TypeOK /\ shipped \in Packs
    BY ShippedIsPack DEF TreeInv
  <2>2. CASE Deploy
    <3>1. Len(Releases) \in Nat
      BY CompanyTreeAssumption
    <3>2. release' \in 1 .. Len(Releases)
      <4>1. release \in 1 .. Len(Releases) /\ release < Len(Releases) /\ release' = release + 1
        BY <2>1, <2>2 DEF Deploy, TypeOK
      <4>2. QED
        BY ONLY <3>1, <4>1
    <3>3. QED
      BY <2>1, <2>2, <3>2 DEF Deploy, TypeOK, ledgers
  <2>3. CASE ArchiveOther
    BY <2>1, <2>3 DEF ArchiveOther, TypeOK, ledgers
  <2>4. CASE MarkLocked
    <3>1. bound' \in [rev : Nat, pack : Packs, digest : {"missing", "unproven", "legacy", "verified"}, locked : BOOLEAN]
      BY <2>1, <2>4 DEF MarkLocked, TypeOK
    <3>2. QED
      BY <2>1, <2>4, <3>1 DEF MarkLocked, TypeOK, ledgers
  <2>5. QED
    BY <2>2, <2>3, <2>4
<1>3. Identities'
  BY <1>1, IdentitiesKept DEF TreeInv, Written, Open
<1>4. Placements'
  BY <1>1, PlacementKept DEF TreeInv, Placements, Mapped
<1>5. Recorded' /\ Uncited'
  BY <1>1 DEF TreeInv, Recorded, Uncited, Proven, Published
<1>6. QED
  BY <1>2, <1>3, <1>4, <1>5 DEF TreeInv

\* A binding is only replaced while nothing is placed, and no leaf was written under a proven one.
LEMMA RebindOK ==
    ASSUME TreeInv, Upgrade \/ Register \/ BindPack
    PROVE  TreeInv'
<1> DEFINE B == [rev : Nat, pack : Packs, digest : {"missing", "unproven", "legacy", "verified"}, locked : BOOLEAN]
           H == [pack : Packs, prev : SUBSET Packs]
<1>0. /\ TypeOK /\ shipped \in Packs /\ bound \in B /\ history \in Seq(H) /\ archived \subseteq Packs
      /\ UNCHANGED <<release, facts, revision, placed, pointer, leaf>>
  BY ShippedIsPack DEF TreeInv, TypeOK, Upgrade, Register, BindPack, ledgers
<1>1. /\ bound' \in B /\ history' \in Seq(H) /\ archived' \subseteq Packs
      /\ bound'.rev > 0 /\ history' # <<>>
  <2>1. CASE Upgrade
    <3>1. PICK pack \in Packs : /\ bound' = [bound EXCEPT !.pack = pack, !.digest = "legacy"]
                                /\ history' = <<[pack |-> pack, prev |-> {}]>>
                                /\ archived' = archived \cup {pack} /\ bound.rev > 0
      BY <1>0, <2>1 DEF Upgrade
    <3>2. [pack |-> pack, prev |-> {}] \in H
      OBVIOUS
    <3>3. bound' = [[bound EXCEPT !.pack = pack] EXCEPT !.digest = "legacy"]
      BY <1>0, <3>1
    <3>4. bound' \in B /\ bound'.rev = bound.rev
      BY <1>0, <3>3
    <3>5. history' \in Seq(H) /\ history' # <<>>
      BY <3>1, <3>2
    <3>6. QED
      BY <1>0, <3>1, <3>4, <3>5
  <2>2. CASE Register
    <3>1. [pack |-> shipped, prev |-> {}] \in H
      BY <1>0
    <3>2. QED
      BY <1>0, <2>2, <3>1 DEF Register
  <2>3. CASE BindPack
    <3>1. [pack |-> shipped, prev |-> {bound.pack}] \in H
      BY <1>0
    <3>2. history' \in Seq(H) /\ history' # <<>>
      BY <1>0, <2>3, <3>1 DEF BindPack
    <3>3. bound' \in B /\ bound'.rev > 0
      <4>1. bound' = [[[bound EXCEPT !.rev = bound.rev + 1] EXCEPT !.pack = shipped] EXCEPT !.digest = "verified"]
        BY <1>0, <2>3 DEF BindPack
      <4>2. bound.rev + 1 \in Nat /\ bound.rev + 1 > 0
        BY <1>0
      <4>3. QED
        BY <1>0, <4>1, <4>2
    <3>4. QED
      BY <1>0, <2>3, <3>2, <3>3 DEF BindPack
  <2>4. QED
    BY <2>1, <2>2, <2>3
<1>2. TypeOK'
  BY <1>0, <1>1 DEF TypeOK
<1>3. Identities'
  BY <1>0, IdentitiesKept DEF TreeInv, Written, Open
<1>4. \A r \in Rows : placed[r] = <<>>
  <2> SUFFICES ASSUME NEW r \in Rows, placed[r] # <<>> PROVE FALSE
    OBVIOUS
  <2>1. Written(r) /\ history # <<>> /\ bound.rev > 0
    BY PlacedNeedsLedger
  <2>2. QED
    BY <2>1 DEF Upgrade, Register, BindPack, IsEmpty
<1>5. Placements'
  BY <1>0, <1>4, PlacementKept DEF TreeInv, Placements, Mapped
<1>6. Recorded'
  BY <1>1 DEF Recorded
<1>7. Uncited'
  <2> SUFFICES ASSUME NEW l \in Published, leaf[l].cites = {} PROVE FALSE
    BY <1>0 DEF Uncited, Published
  <2>1. Proven /\ history # <<>> /\ bound.rev > 0
    BY DEF TreeInv, Uncited, Recorded
  <2>2. QED
    BY <2>1 DEF Upgrade, Register, BindPack, IsEmpty
<1>8. QED
  BY <1>2, <1>3, <1>5, <1>6, <1>7 DEF TreeInv

\* Writing and superseding facts keeps the invariant.
LEMMA FactsOK ==
    ASSUME TreeInv, WriteFact \/ \E r \in Rows : Supersede(r)
    PROVE  TreeInv'
<1>1. /\ UNCHANGED <<binding, revision, placed, pointer, leaf>> /\ TypeOK
      /\ NewRow \in Rows /\ ~Written(NewRow) /\ ~Mapped(NewRow)
  <2>1. Free # {}
    BY DEF WriteFact, Supersede
  <2>2. QED
    BY <2>1, NewRowIsFree DEF WriteFact, Supersede, ledgers, TreeInv, Identities, Rooted
<1>2. facts' \in [Rows -> {"none", "open", "closed"}]
      /\ \A q \in Rows : (Written(q) => Written(q)') /\ (q # NewRow /\ Open(q)' => Open(q))
  BY <1>1 DEF WriteFact, Supersede, TypeOK, Written, Open
<1>3. TypeOK'
  BY <1>1, <1>2 DEF TypeOK, binding
<1>4. Identities'
  BY <1>1, <1>2, IdentitiesKept DEF TreeInv
<1>5. Placements'
  BY <1>1, PlacementKept DEF TreeInv, Placements, Mapped, binding
<1>6. Recorded' /\ Uncited'
  BY <1>1 DEF TreeInv, Recorded, Uncited, Proven, Published, binding
<1>7. QED
  BY <1>3, <1>4, <1>5, <1>6 DEF TreeInv

\* Identifying a fact, or appending a revision to its identity, keeps the invariant.
LEMMA RevisionsOK ==
    ASSUME TreeInv, NEW r \in Rows, Identify(r) \/ \E n \in Rows : AppendRevision(r, n)
    PROVE  TreeInv'
<1>0. TypeOK /\ Identities /\ UNCHANGED <<binding, placed, pointer, leaf>>
  BY DEF TreeInv, Identify, AppendRevision
<1>1. Identities' /\ TypeOK' /\ \A q \in Rows : Mapped(q) => Mapped(q)'
  <2>1. CASE Identify(r)
    <3>1. Identities'
      BY <1>0, <2>1, IdentityAdded DEF Identify, Written, Open
    <3>2. revision' \in [Rows -> [uid : Rows \cup {0}, version : Nat]]
          /\ \A q \in Rows : q # r => revision'[q] = revision[q]
      BY <1>0, <2>1 DEF Identify, TypeOK
    <3>3. QED
      BY <1>0, <2>1, <3>1, <3>2 DEF Identify, TypeOK, binding, Mapped
  <2>2. ASSUME NEW n \in Rows, AppendRevision(r, n)
        PROVE  Identities' /\ TypeOK' /\ \A q \in Rows : Mapped(q) => Mapped(q)'
    <3>1. Identities'
      BY <1>0, <2>2, RevisionAppended
    <3>2. /\ revision[r].uid \in Rows \cup {0} /\ revision[r].version \in Nat /\ ~Mapped(n)
          /\ revision \in [Rows -> [uid : Rows \cup {0}, version : Nat]]
      BY <1>0, <2>2 DEF AppendRevision, TypeOK
    <3>3. revision' \in [Rows -> [uid : Rows \cup {0}, version : Nat]]
          /\ \A q \in Rows : q # n => revision'[q] = revision[q]
      BY <2>2, <3>2 DEF AppendRevision
    <3>4. facts' \in [Rows -> {"none", "open", "closed"}]
      BY <1>0, <2>2 DEF AppendRevision, TypeOK
    <3>5. TypeOK'
      BY <1>0, <3>3, <3>4 DEF TypeOK, binding
    <3>6. \A q \in Rows : Mapped(q) => Mapped(q)'
      BY <3>2, <3>3 DEF Mapped
    <3>7. QED
      BY <3>1, <3>5, <3>6
  <2>3. QED
    BY <2>1, <2>2
<1>2. Placements'
  BY <1>0, <1>1, PlacementKept DEF TreeInv, Placements, binding
<1>3. Recorded' /\ Uncited'
  BY <1>0 DEF TreeInv, Recorded, Uncited, Proven, Published, binding
<1>4. QED
  BY <1>1, <1>2, <1>3 DEF TreeInv

\* Placing an identity for the first time, or again, keeps the invariant.
LEMMA PlaceOK ==
    ASSUME TreeInv, NEW r \in Rows, NEW l \in Leaves,
           PlaceInitial(r, l) \/ \E k \in 1 .. MaxPlacements : Reassign(r, l, k)
    PROVE  TreeInv'
<1>1. /\ Placeable(r, l) /\ WriteCore(r, l) /\ UNCHANGED <<binding, facts, revision, leaf>>
  BY DEF PlaceInitial, Reassign
<1>2. TypeOK /\ Placements /\ LedgerOk /\ l \in LeavesOf[bound.pack] /\ \A q \in Rows : Mapped(q)' = Mapped(q)
      /\ Mapped(r)
  BY <1>1 DEF TreeInv, Placeable, Mapped, Latest
<1>3. /\ Placements' /\ placed' \in [Rows -> Seq([leaf : Leaves, rev : Nat])]
      /\ pointer' \in [Rows -> [seq : Nat, leaf : Leaves \cup {""}, rev : Nat]]
  BY <1>1, <1>2, PlacementWritten
<1>4. TypeOK'
  BY <1>1, <1>2, <1>3 DEF TypeOK, binding
<1>5. Identities'
  BY <1>1, IdentitiesKept DEF TreeInv, Written, Open
<1>6. Recorded' /\ Uncited'
  BY <1>1 DEF TreeInv, Recorded, Uncited, Proven, Published, binding
<1>7. QED
  BY <1>3, <1>4, <1>5, <1>6 DEF TreeInv

LeafRecords == [form : {"none", "page", "blocks"}, cites : SUBSET Rows, proven : BOOLEAN]

\* A leaf is only written under a binding that is in order.
LEMMA LeafWritten ==
    ASSUME TypeOK, Uncited, NEW l \in Leaves, BindingOk, l \in LeavesOf[bound.pack], UNCHANGED binding,
           NEW new \in LeafRecords, new.form # "none", leaf' = [leaf EXCEPT ![l] = new]
    PROVE  Uncited' /\ leaf' \in [Leaves -> LeafRecords]
<1>1. leaf \in [Leaves -> LeafRecords]
  BY DEF TypeOK, LeafRecords
<1>2. leaf' \in [Leaves -> LeafRecords] /\ \A k \in Leaves : k # l => leaf'[k] = leaf[k]
  BY <1>1
<1>3. Uncited'
  BY <1>2 DEF Uncited, Published, binding, Proven, BindingOk, LedgerOk
<1>4. QED
  BY <1>2, <1>3

\* What a leaf cites is replaced or extended, and it takes a form.
LEMMA LeafRewritten ==
    ASSUME TypeOK, NEW l \in Leaves, NEW f \in {"page", "blocks"}, NEW S \in SUBSET Rows,
           leaf' = [leaf EXCEPT ![l] = [[leaf[l] EXCEPT !.form = f] EXCEPT !.cites = S]]
    PROVE  \E new \in LeafRecords : new.form # "none" /\ leaf' = [leaf EXCEPT ![l] = new]
<1>1. leaf[l] \in LeafRecords
  BY DEF TypeOK, LeafRecords
<1>2. [[leaf[l] EXCEPT !.form = f] EXCEPT !.cites = S] \in LeafRecords
  BY <1>1 DEF LeafRecords
<1>3. [[leaf[l] EXCEPT !.form = f] EXCEPT !.cites = S].form = f
  BY <1>1 DEF LeafRecords
<1>4. QED
  BY <1>2, <1>3

\* A leaf that cites more facts, as a change of one field at a time.
LEMMA CiteRewrites ==
    ASSUME TypeOK, NEW l \in Leaves, NEW S \in SUBSET Rows
    PROVE  /\ leaf[l].cites \cup S \in SUBSET Rows
           /\ Cite(l, S) = [leaf EXCEPT ![l] = [[leaf[l] EXCEPT !.form = "blocks"] EXCEPT !.cites = leaf[l].cites \cup S]]
<1>1. leaf[l] \in LeafRecords /\ leaf \in [Leaves -> LeafRecords]
  BY DEF TypeOK, LeafRecords
<1>2. leaf[l].cites \cup S \in SUBSET Rows
  BY <1>1 DEF LeafRecords
<1>3. Cite(l, S) = [leaf EXCEPT ![l] = [[leaf[l] EXCEPT !.form = "blocks"] EXCEPT !.cites = leaf[l].cites \cup S]]
  BY <1>1 DEF Cite, LeafRecords
<1>4. QED
  BY <1>2, <1>3

\* A submitted or published leaf keeps the invariant.
LEMMA LeavesOK ==
    ASSUME TreeInv, NEW l \in Leaves,
           (\E r \in Rows : SubmitLeaf(l, r)) \/ (\E S \in SUBSET Rows : PublishLeaf(l, S))
    PROVE  TreeInv'
<1>1. /\ UNCHANGED <<binding, facts, revision, placed, pointer>> /\ BindingOk /\ l \in LeavesOf[bound.pack]
      /\ TypeOK /\ Uncited
  BY DEF SubmitLeaf, PublishLeaf, Extends, ledgers, TreeInv
<1>2. PICK f \in {"page", "blocks"}, S \in SUBSET Rows :
         leaf' = [leaf EXCEPT ![l] = [[leaf[l] EXCEPT !.form = f] EXCEPT !.cites = S]]
  <2>1. leaf \in [Leaves -> LeafRecords] /\ leaf[l] \in LeafRecords
    BY <1>1 DEF TypeOK, LeafRecords
  <2>2. ASSUME NEW r \in Rows, SubmitLeaf(l, r)
        PROVE  leaf' = [leaf EXCEPT ![l] = [[leaf[l] EXCEPT !.form = "blocks"] EXCEPT !.cites = leaf[l].cites \cup {r}]]
               /\ leaf[l].cites \cup {r} \in SUBSET Rows
    BY <1>1, <2>2, CiteRewrites DEF SubmitLeaf
  <2>3. ASSUME NEW S \in SUBSET Rows, PublishLeaf(l, S)
        PROVE  leaf' = [leaf EXCEPT ![l] = [[leaf[l] EXCEPT !.form = "page"] EXCEPT !.cites = S]]
    BY <2>1, <2>3 DEF PublishLeaf, LeafRecords
  <2>4. QED
    BY <2>2, <2>3
<1>3. Uncited' /\ leaf' \in [Leaves -> LeafRecords]
  BY <1>1, <1>2, LeafRewritten, LeafWritten
<1>4. TypeOK'
  BY <1>1, <1>3 DEF TypeOK, binding, LeafRecords
<1>5. Identities'
  BY <1>1, IdentitiesKept DEF TreeInv, Written, Open
<1>6. Placements'
  BY <1>1, PlacementKept DEF TreeInv, Placements, Mapped, binding
<1>7. Recorded'
  BY <1>1 DEF TreeInv, Recorded, Proven, binding
<1>8. QED
  BY <1>3, <1>4, <1>5, <1>6, <1>7 DEF TreeInv

\* The publication of a note writes all five ledgers at once, and keeps the invariant.
LEMMA PublishNotesOK ==
    ASSUME TreeInv, NEW l \in Leaves, PublishNotes(l)
    PROVE  TreeInv'
<1>1. PICK n \in Rows : n = NewRow /\ ~Written(n) /\ ~Mapped(n)
  BY NewRowIsFree DEF PublishNotes, TreeInv, Identities, Rooted
<1>2. /\ TypeOK /\ Identities /\ Placements /\ Uncited /\ UNCHANGED binding
      /\ BindingOk /\ LedgerOk /\ l \in LeavesOf[bound.pack] /\ WriteCore(n, l)
      /\ facts' = [facts EXCEPT ![n] = "open"] /\ revision' = [revision EXCEPT ![n] = [uid |-> n, version |-> 1]]
      /\ leaf' = Cite(l, {n})
  BY <1>1 DEF PublishNotes, Extends, BindingOk, TreeInv
<1>3. facts' \in [Rows -> {"none", "open", "closed"}] /\ facts'[n] = "open"
      /\ \A q \in Rows : q # n => facts'[q] = facts[q]
  BY <1>1, <1>2 DEF TypeOK
<1>4. revision' \in [Rows -> [uid : Rows \cup {0}, version : Nat]] /\ revision'[n].version = 1
      /\ \A q \in Rows : q # n => revision'[q] = revision[q]
  BY <1>1, <1>2 DEF TypeOK
<1>5. Identities'
  BY <1>1, <1>2, <1>3, IdentityAdded DEF Written, Open
<1>6. Mapped(n)' /\ \A q \in Rows : Mapped(q) => Mapped(q)'
  BY <1>1, <1>4 DEF Mapped
<1>7. /\ Placements' /\ placed' \in [Rows -> Seq([leaf : Leaves, rev : Nat])]
      /\ pointer' \in [Rows -> [seq : Nat, leaf : Leaves \cup {""}, rev : Nat]]
  BY <1>1, <1>2, <1>6, PlacementWritten
<1>8. Uncited' /\ leaf' \in [Leaves -> LeafRecords]
  <2>1. leaf \in [Leaves -> LeafRecords] /\ leaf[l] \in LeafRecords
    BY <1>2 DEF TypeOK, LeafRecords
  <2>2. leaf' = [leaf EXCEPT ![l] = [[leaf[l] EXCEPT !.form = "blocks"] EXCEPT !.cites = leaf[l].cites \cup {n}]]
        /\ leaf[l].cites \cup {n} \in SUBSET Rows
    BY <1>2, CiteRewrites
  <2>3. QED
    BY <1>2, <2>2, LeafRewritten, LeafWritten
<1>9. TypeOK'
  BY <1>2, <1>3, <1>4, <1>7, <1>8 DEF TypeOK, binding, LeafRecords
<1>10. Recorded'
  BY <1>2 DEF TreeInv, Recorded, Proven, binding
<1>11. QED
  BY <1>5, <1>7, <1>8, <1>9, <1>10 DEF TreeInv

\* Every step keeps the invariant.
LEMMA TreeInvKept == TreeInv /\ [Next]_vars => TreeInv'
<1> SUFFICES ASSUME TreeInv, [Next]_vars PROVE TreeInv'
  OBVIOUS
<1>1. CASE UNCHANGED vars
  <2>1. UNCHANGED <<release, archived, bound, history, facts, revision, placed, pointer, leaf>>
    BY <1>1 DEF vars, binding, ledgers
  <2>2. TypeOK' /\ Recorded' /\ Uncited'
    BY <2>1 DEF TreeInv, TypeOK, Recorded, Uncited, Proven, Published
  <2>3. Identities'
    BY <2>1, IdentitiesKept DEF TreeInv, Written, Open
  <2>4. Placements'
    BY <2>1, PlacementKept DEF TreeInv, Placements, Mapped
  <2>5. QED
    BY <2>2, <2>3, <2>4 DEF TreeInv
<1>2. CASE Deploy \/ ArchiveOther \/ MarkLocked
  BY <1>2, AroundOK
<1>3. CASE Upgrade \/ Register \/ BindPack
  BY <1>3, RebindOK
<1>4. CASE WriteFact \/ \E r \in Rows : Supersede(r)
  BY <1>4, FactsOK
<1>5. ASSUME NEW r \in Rows, Identify(r) \/ \E n \in Rows : AppendRevision(r, n)
      PROVE  TreeInv'
  BY <1>5, RevisionsOK
<1>6. ASSUME NEW r \in Rows, NEW l \in Leaves,
             PlaceInitial(r, l) \/ \E k \in 1 .. MaxPlacements : Reassign(r, l, k)
      PROVE  TreeInv'
  BY <1>6, PlaceOK
<1>7. ASSUME NEW l \in Leaves, PublishNotes(l) PROVE TreeInv'
  BY <1>7, PublishNotesOK
<1>8. ASSUME NEW l \in Leaves, (\E r \in Rows : SubmitLeaf(l, r)) \/ \E S \in SUBSET Rows : PublishLeaf(l, S)
      PROVE  TreeInv'
  BY <1>8, LeavesOK
<1>9. QED
  BY <1>1, <1>2, <1>3, <1>4, <1>5, <1>6, <1>7, <1>8 DEF Next

\* The invariant holds of a company nothing was written for yet.
LEMMA InitIsBound == Init => TreeInv
<1> SUFFICES ASSUME Init PROVE TreeInv
  OBVIOUS
<1>1. /\ revision = [r \in Rows |-> NoRevision] /\ placed = [r \in Rows |-> <<>>]
      /\ pointer = [r \in Rows |-> NoPointer] /\ history = <<>> /\ archived = {} /\ release = 1
  BY DEF Init
<1>2. /\ bound \in [rev : Nat, pack : Packs, digest : {"missing", "unproven", "legacy", "verified"}, locked : BOOLEAN]
      /\ bound.digest \in {"missing", "unproven"}
  <2>1. CASE bound = Unbound
    <3>1. (CHOOSE p \in Packs : TRUE) \in Packs
      BY CompanyTreeAssumption
    <3>2. QED
      BY <2>1, <3>1 DEF Unbound
  <2>2. ASSUME NEW p \in Packs, NEW d \in {"missing", "unproven"},
               bound = [rev |-> 1, pack |-> p, digest |-> d, locked |-> FALSE]
        PROVE  /\ bound \in [rev : Nat, pack : Packs, digest : {"missing", "unproven", "legacy", "verified"},
                              locked : BOOLEAN]
               /\ bound.digest \in {"missing", "unproven"}
    BY <2>2
  <2>3. QED
    BY <2>1, <2>2 DEF Init
<1>3. PICK old \in SUBSET Rows :
          /\ facts = [r \in Rows |-> IF r \in old THEN "open" ELSE "none"]
          /\ \/ leaf = [l \in Leaves |-> NoLeaf]
             \/ /\ old # {}
                /\ \E k \in LeavesOf[bound.pack], f \in {"page", "blocks"} :
                      leaf = [l \in Leaves |-> IF l = k THEN [form |-> f, cites |-> old, proven |-> FALSE]
                                                         ELSE NoLeaf]
  BY DEF Init
<1>4. leaf \in [Leaves -> LeafRecords] /\ \A l \in Leaves : leaf[l].form # "none" => leaf[l].cites # {}
  <2>1. NoLeaf \in LeafRecords /\ NoLeaf.form = "none"
    BY DEF NoLeaf, LeafRecords
  <2>2. CASE leaf = [l \in Leaves |-> NoLeaf]
    BY <2>1, <2>2
  <2>3. ASSUME old # {}, NEW k \in LeavesOf[bound.pack], NEW f \in {"page", "blocks"},
               leaf = [l \in Leaves |-> IF l = k THEN [form |-> f, cites |-> old, proven |-> FALSE] ELSE NoLeaf]
        PROVE  leaf \in [Leaves -> LeafRecords] /\ \A l \in Leaves : leaf[l].form # "none" => leaf[l].cites # {}
    <3>1. [form |-> f, cites |-> old, proven |-> FALSE] \in LeafRecords
      BY DEF LeafRecords
    <3>2. QED
      BY <2>1, <2>3, <3>1
  <2>4. QED
    BY <1>3, <2>2, <2>3
<1>5. TypeOK
  <2>1. 1 \in 1 .. Len(Releases)
    <3>1. Releases \in Seq(Packs) /\ Releases # <<>>
      BY CompanyTreeAssumption
    <3>2. Len(Releases) \in Nat /\ Len(Releases) # 0
      BY ONLY <3>1
    <3>3. QED
      BY ONLY <3>2
  <2>2. revision \in [Rows -> [uid : Rows \cup {0}, version : Nat]]
    BY <1>1 DEF NoRevision
  <2>3. placed \in [Rows -> Seq([leaf : Leaves, rev : Nat])]
    BY <1>1
  <2>4. pointer \in [Rows -> [seq : Nat, leaf : Leaves \cup {""}, rev : Nat]]
    BY <1>1 DEF NoPointer
  <2>5. facts \in [Rows -> {"none", "open", "closed"}]
    BY <1>3
  <2>6. history \in Seq([pack : Packs, prev : SUBSET Packs]) /\ archived \subseteq Packs
    BY <1>1
  <2>7. QED
    BY <1>1, <1>2, <1>4, <2>1, <2>2, <2>3, <2>4, <2>5, <2>6 DEF TypeOK, LeafRecords
<1>6. \A r \in Rows : ~Mapped(r)
  BY <1>1 DEF Mapped, NoRevision
<1>7. Identities
  BY <1>6 DEF Identities, Rooted, Complete, OneVersion, OpenIsLatest
<1>8. Placements
  <2> SUFFICES ASSUME NEW r \in Rows PROVE PlacedWell(r)
    BY DEF Placements
  <2>1. placed[r] = <<>> /\ pointer[r] = NoPointer
    BY <1>1
  <2>2. QED
    BY <2>1 DEF PlacedWell, PlacementsAgree, Current
<1>9. Recorded /\ Uncited
  BY <1>2, <1>4 DEF Recorded, Proven, Uncited, Published
<1>10. QED
  BY <1>5, <1>7, <1>8, <1>9 DEF TreeInv

-----------------------------------------------------------------------------
\* The binding, the ledgers and the leaves keep what they say of each other: a placement is traced
\* to the binding it was made under, and an identity counts its revisions without a gap.
THEOREM TreeIsInOrder == Spec => []TreeInv
BY InitIsBound, TreeInvKept, PTL DEF Spec

\* The tables of the company tree keep their types.
THEOREM TreeTypes == Spec => []TypeOK
<1>1. TreeInv => TypeOK
  BY DEF TreeInv
<1>2. QED
  BY <1>1, TreeIsInOrder, PTL

\* The ledgers of identities and placements can be verified at any time (snapshot_records and the
\* verification of migration_snapshot.py), in whatever order facts, revisions, placements, bindings
\* and upgrades came.
THEOREM LedgersAlwaysVerify == Spec => []LedgersVerify
<1>1. TreeInv => LedgersVerify
  <2> SUFFICES ASSUME TreeInv PROVE LedgersVerify
    OBVIOUS
  <2>1. \A r \in Rows : Mapped(r) => ChainComplete(r)
    BY DEF TreeInv, Identities, Complete
  <2>2. FactsStatus # "identity_mismatch"
    BY <2>1 DEF FactsStatus
  <2>3. \A r \in Rows : PlacementsAgree(r) /\ (placed[r] # <<>> => Mapped(r) /\ LedgerOk /\ pointer[r].rev = bound.rev)
    BY DEF TreeInv, Placements, PlacedWell
  <2>4. PlacementsStatus # "identity_mismatch"
    BY <2>3 DEF PlacementsStatus
  <2>5. QED
    BY <2>2, <2>3, <2>4 DEF LedgersVerify
<1>2. QED
  BY <1>1, TreeIsInOrder, PTL

\* A leaf that is withheld from a reader (tree_read.py) is withheld for one of the reasons the
\* reader can name: whatever else is in order follows from the ledgers.
THEOREM WithheldOnlyForAReason == Spec => []WithheldForAReason
<1>1. TreeInv => WithheldForAReason
  <2> SUFFICES ASSUME TreeInv, BindingOk, NEW l \in Published, ~Withheld(l)
               PROVE  Served(l)
    BY DEF WithheldForAReason
  <2>1. \A r \in leaf[l].cites :
           /\ Open(r) /\ Mapped(r) /\ placed[r] # <<>> /\ pointer[r].leaf = l
           /\ \A k \in Leaves \ {l} : r \notin leaf[k].cites
    BY DEF Withheld
  <2>2. l \in Leaves /\ leaf[l].cites \subseteq Rows
    BY DEF Published, TreeInv, TypeOK
  <2>3. ASSUME NEW r \in leaf[l].cites
        PROVE  ResolvesTo(r, l) /\ l \in LeavesOf[bound.pack]
    <3>1. r \in Rows /\ Open(r) /\ Mapped(r) /\ placed[r] # <<>> /\ pointer[r].leaf = l
      BY <2>1, <2>2
    <3>2. Latest(r) /\ ChainComplete(r)
      BY <3>1 DEF TreeInv, Identities, OpenIsLatest, Complete
    <3>3. PlacementsAgree(r) /\ LedgerOk /\ pointer[r].rev = bound.rev
      BY <3>1 DEF TreeInv, Placements, PlacedWell
    <3> DEFINE n == Len(placed[r])
    <3>4. placed[r] \in Seq([leaf : Leaves, rev : Nat]) /\ n \in Nat /\ n > 0
      <4>1. placed[r] \in Seq([leaf : Leaves, rev : Nat])
        BY <3>1 DEF TreeInv, TypeOK
      <4>2. QED
        BY ONLY <3>1, <4>1
    <3>5. placed[r][n] \in [leaf : Leaves, rev : Nat] /\ placed[r][n].leaf = l /\ placed[r][n].rev = bound.rev
      <4>1. placed[r][n] \in [leaf : Leaves, rev : Nat]
        <5>1. n \in 1 .. Len(placed[r])
          BY <3>4
        <5>2. QED
          BY <3>4, <5>1, ElementOfSeq
      <4>2. pointer[r] = [seq |-> n, leaf |-> placed[r][n].leaf, rev |-> placed[r][n].rev]
        BY <3>1, <3>3 DEF PlacementsAgree, Current
      <4>3. QED
        BY ONLY <3>1, <3>3, <4>1, <4>2
    <3>6. placed[r][n] = [leaf |-> l, rev |-> bound.rev]
      BY ONLY <3>5
    <3>7. Traceable(placed[r][n])
      BY <3>3, <3>4 DEF PlacementsAgree
    <3>8. l \in LeavesOf[bound.pack]
      <4>1. l \in LeavesOf[history[bound.rev].pack]
        BY <3>5, <3>7 DEF Traceable
      <4>2. history[bound.rev].pack = bound.pack
        BY <3>3 DEF LedgerOk, ChainOk
      <4>3. QED
        BY <4>1, <4>2
    <3>9. QED
      BY <3>1, <3>2, <3>3, <3>6, <3>8 DEF ResolvesTo
  <2>4. l \in LeavesOf[bound.pack]
    BY <2>3 DEF TreeInv, Uncited
  <2>5. QED
    BY <2>1, <2>3, <2>4 DEF Served, WellPlaced
<1>2. QED
  BY <1>1, TreeIsInOrder, PTL

\* Once a company has a proven binding and content, no operation, release or upgrade gives it
\* another pack (company_binding.py).
THEOREM TreeStaysWhereItIs == Spec => TreeStaysBound
<1>1. TreeInv /\ [Next]_vars => [Proven /\ HasContent => bound'.pack = bound.pack /\ history' = history]_vars
  <2> SUFFICES ASSUME TreeInv, Next, Proven, HasContent PROVE bound'.pack = bound.pack /\ history' = history
    OBVIOUS
  <2>1. history # <<>> /\ bound.rev > 0 /\ ~IsEmpty
    BY DEF TreeInv, Recorded, HasContent, IsEmpty
  <2>2. bound \in [rev : Nat, pack : Packs, digest : {"missing", "unproven", "legacy", "verified"}, locked : BOOLEAN]
    BY DEF TreeInv, TypeOK
  <2>3. ~Upgrade /\ ~Register /\ ~BindPack
    BY <2>1 DEF Upgrade, Register, BindPack
  <2>4. CASE MarkLocked
    BY <2>2, <2>4 DEF MarkLocked
  <2>5. CASE UNCHANGED <<bound, history>>
    BY <2>5
  <2>6. MarkLocked \/ UNCHANGED <<bound, history>>
    BY <2>3 DEF Next, Deploy, ArchiveOther, WriteFact, Supersede, Identify, AppendRevision, PlaceInitial, Reassign,
                PublishNotes, SubmitLeaf, PublishLeaf, binding
  <2>7. QED
    BY <2>4, <2>5, <2>6
<1>2. QED
  BY <1>1, TreeIsInOrder, PTL DEF Spec, TreeStaysBound
-----------------------------------------------------------------------------
(* The index of the memory. *)

\* A client whose write is still the latest and was made to a servable company: every other
\* document and every fact has current chunks, so projecting its own makes the company current.
LastWriter ==
    \A c \in Clients :
        pc[c] = "project" /\ wasReady[c] /\ wrote[c] = generation =>
            factChunks = live /\ \A u \in Uris : u # uri[c] => chunks[u] = docs[u]

\* The inductive invariant: a company without a state row is current too, and only facts that
\* have been in the ledger are published.
ProjectionInv ==
    /\ ProjectionTypeOK
    /\ Servable => chunks = docs /\ factChunks = live
    /\ LastWriter
    /\ published \cap live \subseteq factChunks /\ published \subseteq live \cup retired

\* Every variable keeps its type.
THEOREM ProjectionTypes == ProjectionSpec => []ProjectionTypeOK
<1>1. ProjectionInit => ProjectionTypeOK
  <2> SUFFICES ASSUME ProjectionInit PROVE ProjectionTypeOK
    OBVIOUS
  <2> USE DEF ProjectionInit
  <2>1. docs \in [Uris -> Nat] /\ chunks \in [Uris -> Nat]
    OBVIOUS
  <2>2. wasReady \in [Clients -> BOOLEAN]
    OBVIOUS
  <2>3. wrote \in [Clients -> Nat] /\ \A c \in Clients : wrote[c] <= generation
    OBVIOUS
  <2>4. pc \in [Clients -> {"idle", "project", "blame", "rebuild", "searchRebuild", "search",
                            "answered"}]
    OBVIOUS
  <2>5. QED
    BY <2>1, <2>2, <2>3, <2>4 DEF ProjectionTypeOK
<1>2. ProjectionTypeOK /\ [ProjectionNext]_projectionVars => ProjectionTypeOK'
  <2> SUFFICES ASSUME ProjectionTypeOK, [ProjectionNext]_projectionVars PROVE ProjectionTypeOK'
    OBVIOUS
  <2> USE DEF ProjectionTypeOK, ledger
  <2>1. ASSUME NEW f \in Facts, NEW old \in Facts, CommitFact(f) \/ SupersedeFact(f, old)
        PROVE  ProjectionTypeOK'
    <3>1. live' \subseteq Facts /\ retired' \subseteq Facts
      BY <2>1 DEF CommitFact, SupersedeFact
    <3>2. PICK rows \in {1, 2} : generation' = generation + rows /\ status' = "stale" /\ error' = error
      BY <2>1 DEF CommitFact, SupersedeFact, Trigger
    <3>3. UNCHANGED <<docs, chunks, factChunks, pc, uri, wasReady, wrote, published, writes,
                      failures, rebuilds>>
      BY <2>1 DEF CommitFact, SupersedeFact, index, clients, bounds
    <3>4. \A d \in Clients : wrote'[d] <= generation'
      BY <3>2, <3>3
    <3>5. QED
      BY <3>1, <3>2, <3>3, <3>4
  <2>2. ASSUME NEW c \in Clients, NEW u \in Uris, Write(c, u) PROVE ProjectionTypeOK'
    <3>1. docs' \in [Uris -> Nat] /\ uri' \in [Clients -> Uris] /\ writes' \in Nat
      BY <2>2 DEF Write
    <3>2. generation' = generation + 1 /\ status' = "stale" /\ error' = FALSE
      BY <2>2 DEF Write, Stale
    <3>3. wasReady' \in [Clients -> BOOLEAN]
      BY <2>2 DEF Write, Servable
    <3>4. wrote' \in [Clients -> Nat] /\ \A d \in Clients : wrote'[d] <= generation'
      BY <2>2, <3>2 DEF Write
    <3>5. pc' \in [Clients -> {"idle", "project", "blame", "rebuild", "searchRebuild", "search",
                               "answered"}]
      BY <2>2 DEF Write, Goto
    <3>6. QED
      BY <2>2, <3>1, <3>2, <3>3, <3>4, <3>5 DEF Write
  <2>3. ASSUME NEW c \in Clients, NEW u \in Uris, Delete(c, u) PROVE ProjectionTypeOK'
    BY <2>3 DEF Delete, state, clients, bounds
  <2>4. ASSUME NEW c \in Clients, NEW bundle \in SUBSET Uris, NEW gone \in SUBSET bundle,
               Publish(c, bundle, gone)
        PROVE  ProjectionTypeOK'
    <3>1. docs' \in [Uris -> Nat] /\ chunks' \in [Uris -> Nat] /\ writes' \in Nat
      BY <2>4 DEF Publish
    <3>2. generation' = generation + 1 /\ error' = FALSE /\ status' \in {"ready", "stale"}
      BY <2>4 DEF Publish
    <3>3. \A d \in Clients : wrote'[d] <= generation'
      BY <2>4, <3>2 DEF Publish, clients
    <3>4. error' \in BOOLEAN /\ (error' => status' = "stale")
      BY <3>2, Zenon
    <3>5. UNCHANGED <<live, retired, published, factChunks, pc, uri, wasReady, wrote, failures, rebuilds>>
      BY <2>4 DEF Publish, clients
    <3>6. QED
      BY <3>1, <3>2, <3>3, <3>4, <3>5
  <2>5. ASSUME NEW c \in Clients, PublishFacts(c) \/ SearchFirst(c) PROVE ProjectionTypeOK'
    <3>1. ASSUME NEW step \in {"rebuild", "searchRebuild"}, RebuildBegin(c, step) PROVE ProjectionTypeOK'
      <4>1. UNCHANGED <<live, retired, docs, chunks, factChunks, uri, wasReady, wrote, published>>
        BY <3>1 DEF RebuildBegin, index
      <4>2. generation' = generation + 1 /\ status' = "stale"
        BY <3>1 DEF RebuildBegin, Stale
      <4>3. \A d \in Clients : wrote'[d] <= generation'
        BY <4>1, <4>2
      <4>4. pc' \in [Clients -> {"idle", "project", "blame", "rebuild", "searchRebuild",
                                 "search", "answered"}]
        BY <3>1 DEF RebuildBegin, Goto
      <4>5. writes' \in Nat /\ failures' \in Nat /\ rebuilds' \in Nat
        BY <3>1 DEF RebuildBegin
      <4>6. error' \in BOOLEAN
        BY <3>1, Zenon DEF RebuildBegin, Stale
      <4>7. QED
        BY <4>1, <4>2, <4>3, <4>4, <4>5, <4>6
    <3>2. CASE Goto(c, "search") /\ UNCHANGED <<live, retired, index, state, uri, wasReady, wrote, published, bounds>>
      BY <3>2 DEF Goto, ledger, index, state, bounds
    <3>3. QED
      BY <2>5, <3>1, <3>2 DEF PublishFacts, SearchFirst
  <2>6. ASSUME NEW c \in Clients, PublishFails(c) \/ ProjectFails(c) \/ RebuildFails(c) \/ Stop(c)
        PROVE  ProjectionTypeOK'
    BY <2>6 DEF PublishFails, ProjectFails, RebuildFails, Stop, Fail, Goto, ledger, index, state
  <2>7. ASSUME NEW c \in Clients, Project(c) PROVE ProjectionTypeOK'
    BY <2>7 DEF Project, Promote, Ready, Goto, state, bounds
  <2>8. ASSUME NEW c \in Clients, Blame(c) PROVE ProjectionTypeOK'
    BY <2>8 DEF Blame, Stale, Goto, ledger, index, bounds
  <2>9. ASSUME NEW c \in Clients, RebuildFinish(c) PROVE ProjectionTypeOK'
    BY <2>9 DEF RebuildFinish, Ready, Goto, bounds
  <2>10. ASSUME NEW c \in Clients, Search(c) \/ Answered(c) PROVE ProjectionTypeOK'
    BY <2>10 DEF Search, Answered, Goto, ledger, index, state, bounds
  <2>11. CASE UNCHANGED projectionVars
    BY <2>11 DEF projectionVars, ledger, index, state, clients, bounds
  <2>12. QED
    BY <2>1, <2>2, <2>3, <2>4, <2>5, <2>6, <2>7, <2>8, <2>9, <2>10, <2>11 DEF ProjectionNext, Step
<1>3. QED
  BY <1>1, <1>2, PTL DEF ProjectionSpec

-----------------------------------------------------------------------------
\* What a step of put keeps of the invariant.
LEMMA PutKeeps ==
    ASSUME ProjectionInv, ProjectionTypeOK', NEW c \in Clients,
           \/ \E u \in Uris : Write(c, u)
           \/ Project(c) \/ ProjectFails(c) \/ Blame(c)
    PROVE  ProjectionInv'
<1> USE DEF ProjectionInv, ProjectionTypeOK, ledger
<1>1. ASSUME NEW u \in Uris, Write(c, u) PROVE ProjectionInv'
  <2>1. ~Servable' /\ published' \cap live' \subseteq factChunks' /\ published' \subseteq live' \cup retired'
    BY <1>1 DEF Write, Stale, Servable, ledger
  <2>2. ASSUME NEW d \in Clients, (pc[d] = "project" /\ wasReady[d] /\ wrote[d] = generation)'
        PROVE  factChunks' = live' /\ \A v \in Uris : v # uri'[d] => chunks'[v] = docs'[v]
    <3>1. d = c
      BY <1>1, <2>2 DEF Write, Stale, Goto
    <3>2. uri'[d] = u /\ Servable
      BY <1>1, <2>2, <3>1 DEF Write, Stale, Goto
    <3>3. QED
      BY <1>1, <3>2 DEF Write, ledger
  <2>3. QED
    BY <2>1, <2>2 DEF LastWriter
<1>2. CASE Project(c) /\ docs[uri[c]] = 0
  BY <1>2 DEF Project, Goto, Servable, LastWriter, state, bounds
<1>3. CASE Project(c) /\ docs[uri[c]] # 0
  <2>1. chunks' = [chunks EXCEPT ![uri[c]] = docs[uri[c]]] /\ docs' = docs
    BY <1>3 DEF Project
  <2>2. \A v \in Uris : chunks[v] = docs[v] => chunks'[v] = docs'[v]
    BY <2>1
  <2>3. LastWriter'
    BY <1>3, <2>1, <2>2 DEF LastWriter, Project, Goto
  <2>4. Servable' => chunks' = docs'
    <3>1. CASE wasReady[c] /\ wrote[c] = generation
      <4>1. \A v \in Uris : chunks'[v] = docs'[v]
        BY <1>3, <3>1, <2>1 DEF LastWriter, Project
      <4>2. QED
        BY <4>1, <2>1
    <3>2. CASE ~(wasReady[c] /\ wrote[c] = generation)
      <4>1. Servable' => Servable
        BY <1>3, <3>2 DEF Project, Promote, Servable
      <4>2. Servable' => \A v \in Uris : chunks'[v] = docs'[v]
        BY <4>1, <2>2
      <4>3. QED
        BY <4>2, <2>1
    <3>3. QED
      BY <3>1, <3>2
  <2>5. published' \cap live' \subseteq factChunks' /\ published' \subseteq live' \cup retired'
    BY <1>3 DEF Project
  <2>6. Servable' => factChunks' = live'
    BY <1>3 DEF LastWriter, Project, Promote, Servable
  <2>7. QED
    BY <2>3, <2>4, <2>5, <2>6
<1>4. CASE ProjectFails(c)
  BY <1>4 DEF ProjectFails, Fail, Goto, Servable, LastWriter, ledger, index, state
<1>5. CASE Blame(c)
  <2>1. ~Servable' /\ published' \cap live' \subseteq factChunks' /\ published' \subseteq live' \cup retired'
    BY <1>5 DEF Blame, Stale, Servable, index
  <2>2. LastWriter'
    BY <1>5 DEF Blame, Stale, Goto, LastWriter, ledger, index
  <2>3. QED
    BY <2>1, <2>2
<1>6. QED
  BY <1>1, <1>2, <1>3, <1>4, <1>5

\* What a bundle or a deletion keeps of the invariant.
LEMMA BundleKeeps ==
    ASSUME ProjectionInv, ProjectionTypeOK', NEW c \in Clients,
           \/ \E bundle \in SUBSET Uris : \E gone \in SUBSET bundle : Publish(c, bundle, gone)
           \/ PublishFails(c)
           \/ \E u \in Uris : Delete(c, u)
    PROVE  ProjectionInv'
<1> USE DEF ProjectionInv, ProjectionTypeOK, ledger
<1>1. ASSUME NEW bundle \in SUBSET Uris, NEW gone \in SUBSET bundle, Publish(c, bundle, gone)
      PROVE  ProjectionInv'
  <2>1. LastWriter'
    BY <1>1 DEF Publish, LastWriter, clients
  <2>2. \A v \in Uris : chunks[v] = docs[v] => chunks'[v] = docs'[v]
    BY <1>1 DEF Publish
  <2>3. Servable' => Servable
    BY <1>1 DEF Publish, Servable
  <2>4. Servable' => \A v \in Uris : chunks'[v] = docs'[v]
    BY <2>2, <2>3
  <2>5. Servable' => chunks' = docs'
    BY <2>4
  <2>6. Servable' => factChunks' = live'
    BY <1>1, <2>3 DEF Publish
  <2>7. published' \cap live' \subseteq factChunks' /\ published' \subseteq live' \cup retired'
    BY <1>1 DEF Publish
  <2>8. QED
    BY <2>1, <2>5, <2>6, <2>7
<1>2. CASE PublishFails(c)
  BY <1>2 DEF PublishFails, Fail, Goto, Servable, LastWriter, ledger, index, state
<1>3. ASSUME NEW u \in Uris, Delete(c, u) PROVE ProjectionInv'
  <2>1. \A v \in Uris : chunks[v] = docs[v] => chunks'[v] = docs'[v]
    BY <1>3 DEF Delete
  <2>2. LastWriter'
    BY <1>3, <2>1 DEF Delete, LastWriter, state, clients
  <2>3. Servable' => \A v \in Uris : chunks'[v] = docs'[v]
    BY <1>3, <2>1 DEF Delete, Servable, state
  <2>4. Servable' => chunks' = docs'
    BY <2>3
  <2>5. Servable' => factChunks' = live'
    BY <1>3 DEF Delete, Servable, state
  <2>6. published' \cap live' \subseteq factChunks' /\ published' \subseteq live' \cup retired'
    BY <1>3 DEF Delete
  <2>7. QED
    BY <2>2, <2>4, <2>5, <2>6
<1>4. QED
  BY <1>1, <1>2, <1>3

\* What rebuilding, searching and a stop keep of the invariant.
LEMMA RebuildKeeps ==
    ASSUME ProjectionInv, ProjectionTypeOK', NEW c \in Clients,
           \/ PublishFacts(c) \/ SearchFirst(c) \/ RebuildFinish(c) \/ RebuildFails(c)
           \/ Search(c) \/ Answered(c) \/ Stop(c)
    PROVE  ProjectionInv'
<1> USE DEF ProjectionInv, ProjectionTypeOK, ledger
<1>1. ASSUME NEW step \in {"rebuild", "searchRebuild"}, RebuildBegin(c, step) PROVE ProjectionInv'
  <2>1. ~Servable' /\ published' \cap live' \subseteq factChunks' /\ published' \subseteq live' \cup retired'
    BY <1>1 DEF RebuildBegin, Stale, Servable, index
  <2>2. LastWriter'
    BY <1>1 DEF RebuildBegin, Stale, Goto, LastWriter, ledger, index
  <2>3. QED
    BY <2>1, <2>2
<1>2. CASE SearchFirst(c) /\ ~RebuildBegin(c, "searchRebuild")
  BY <1>2 DEF SearchFirst, Goto, Servable, LastWriter, ledger, index, state, bounds
<1>3. CASE RebuildFinish(c)
  <2>1. chunks' = docs'
    BY <1>3 DEF RebuildFinish
  <2>2. published' \cap live' \subseteq factChunks' /\ published' \subseteq live' \cup retired'
    BY <1>3 DEF RebuildFinish
  <2>3. factChunks' = live'
    BY <1>3 DEF RebuildFinish
  <2>4. LastWriter'
    BY <2>1, <2>3 DEF LastWriter
  <2>5. QED
    BY <2>1, <2>2, <2>3, <2>4
<1>4. CASE RebuildFails(c) \/ Search(c) \/ Answered(c) \/ Stop(c)
  BY <1>4 DEF RebuildFails, Search, Answered, Stop, Fail, Goto, Servable, LastWriter, ledger, index,
              state, bounds
<1>5. QED
  BY <1>1, <1>2, <1>3, <1>4 DEF PublishFacts

\* The invariant is inductive.
THEOREM ProjectionInvariant == ProjectionSpec => []ProjectionInv
<1>1. ProjectionInit /\ ProjectionTypeOK => ProjectionInv
  BY DEF ProjectionInit, ProjectionInv, LastWriter
<1>2. ProjectionInv /\ ProjectionTypeOK' /\ [ProjectionNext]_projectionVars => ProjectionInv'
  <2> SUFFICES ASSUME ProjectionInv, ProjectionTypeOK', [ProjectionNext]_projectionVars PROVE ProjectionInv'
    OBVIOUS
  <2>1. ASSUME NEW f \in Facts, NEW old \in Facts, CommitFact(f) \/ SupersedeFact(f, old)
        PROVE  ProjectionInv'
    <3>1. ~Servable' /\ generation' > generation
      BY <2>1 DEF CommitFact, SupersedeFact, Trigger, Servable, ProjectionInv, ProjectionTypeOK
    <3>2. UNCHANGED <<docs, chunks, factChunks, pc, uri, wasReady, wrote, published>>
      BY <2>1 DEF CommitFact, SupersedeFact, index, clients
    <3>3. LastWriter'
      BY <3>1, <3>2 DEF LastWriter, ProjectionInv, ProjectionTypeOK
    <3>4. published' \cap live' \subseteq factChunks' /\ published' \subseteq live' \cup retired'
      BY <2>1, <3>2 DEF CommitFact, SupersedeFact, ProjectionInv
    <3>5. QED
      BY <3>1, <3>3, <3>4 DEF ProjectionInv
  <2>2. CASE UNCHANGED projectionVars
    BY <2>2 DEF projectionVars, ProjectionInv, LastWriter, Servable, ledger, index, state, clients, bounds
  <2>3. QED
    BY <2>1, <2>2, PutKeeps, BundleKeeps, RebuildKeeps DEF ProjectionNext, Step
<1>3. QED
  BY <1>1, <1>2, ProjectionTypes, PTL DEF ProjectionSpec

\* For any number of providers, documents, failures and stops: a ready company has chunks of
\* the documents and facts it has.
THEOREM ProjectionReady == ProjectionSpec => []ReadyIsCurrent
<1>1. ProjectionInv => ReadyIsCurrent
  BY DEF ProjectionInv, Servable, ReadyIsCurrent
<1>2. QED
  BY <1>1, ProjectionInvariant, PTL

\* Published facts stay indexed until they are superseded.
THEOREM ProjectionFacts == ProjectionSpec => []PublishedIsIndexed
<1>1. ProjectionInv => PublishedIsIndexed
  BY DEF ProjectionInv, PublishedIsIndexed
<1>2. QED
  BY <1>1, ProjectionInvariant, PTL

\* A search that answers reads current chunks: the state it reads in the same transaction
\* is not stale, and Search is the only step that answers.
THEOREM ProjectionAnswers == ProjectionSpec => AnswerIsCurrent
<1> DEFINE Answers(c) == pc[c] = "search" /\ pc'[c] = "answered"
           UpToDate == chunks = docs /\ factChunks = live
<1>1. ProjectionInv /\ [ProjectionNext]_projectionVars => [\A c \in Clients : Answers(c) => UpToDate]_projectionVars
  <2> SUFFICES ASSUME ProjectionInv, ProjectionNext, NEW c \in Clients, Answers(c) PROVE UpToDate
    OBVIOUS
  <2> USE DEF ProjectionInv, ProjectionTypeOK, ledger
  <2>1. ASSUME NEW d \in Clients, Search(d) PROVE UpToDate
    <3>1. d = c
      BY <2>1 DEF Search, Goto
    <3>2. status # "stale"
      BY <2>1, <3>1 DEF Search, Goto
    <3>3. QED
      BY <3>2 DEF Servable
  <2>2. ASSUME NEW f \in Facts, NEW old \in Facts, CommitFact(f) \/ SupersedeFact(f, old)
        PROVE  FALSE
    BY <2>2 DEF CommitFact, SupersedeFact, clients
  <2>3. ASSUME NEW d \in Clients, NEW u \in Uris, Write(d, u) \/ Delete(d, u) PROVE FALSE
    BY <2>3 DEF Write, Delete, Goto, clients
  <2>4. ASSUME NEW d \in Clients, NEW bundle \in SUBSET Uris, NEW gone \in SUBSET bundle,
               Publish(d, bundle, gone)
        PROVE  FALSE
    BY <2>4 DEF Publish, clients
  <2>5. ASSUME NEW d \in Clients, PublishFacts(d) \/ SearchFirst(d) PROVE FALSE
    BY <2>5 DEF PublishFacts, SearchFirst, RebuildBegin, Goto
  <2>6. ASSUME NEW d \in Clients, PublishFails(d) \/ ProjectFails(d) \/ RebuildFails(d) \/ Stop(d)
        PROVE  FALSE
    BY <2>6 DEF PublishFails, ProjectFails, RebuildFails, Stop, Fail, Goto
  <2>7. ASSUME NEW d \in Clients, Project(d) \/ Blame(d) PROVE FALSE
    BY <2>7 DEF Project, Blame, Goto
  <2>8. ASSUME NEW d \in Clients, RebuildFinish(d) \/ Answered(d) PROVE FALSE
    BY <2>8 DEF RebuildFinish, Answered, Goto
  <2>9. QED
    BY <2>1, <2>2, <2>3, <2>4, <2>5, <2>6, <2>7, <2>8 DEF ProjectionNext, Step
<1>2. QED
  BY <1>1, ProjectionInvariant, PTL DEF ProjectionSpec, AnswerIsCurrent
=============================================================================
