------------------------- MODULE LeafReadingProofs --------------------------
\* Theorems about LeafReading.
EXTENDS LeafReading, FiniteSetTheorems, TLAPS

\* A set of naturals has a least element: the window a retry returns to exists.
\* Initial segments ordered by inclusion are well founded.
LEMMA Least ==
    ASSUME NEW S, S \subseteq Nat, S # {}
    PROVE  \E m \in S : \A n \in S : m <= n
<1> DEFINE R == StrictSubsetOrdering(Nat)
           Upto(n) == 0 .. n
           T == {Upto(n) : n \in S}
<1>1. IsWellFoundedOn(R, FiniteSubsetsOf(Nat))
  BY FS_StrictSubsetOrderingWellFounded
<1>2. T \subseteq FiniteSubsetsOf(Nat) /\ T # {}
  <2>1. \A n \in S : Upto(n) \in SUBSET Nat /\ IsFiniteSet(Upto(n))
    BY FS_Interval
  <2>2. QED
    BY <2>1 DEF FiniteSubsetsOf
<1> HIDE DEF T, R
<1>3. PICK U \in T : \A V \in T : <<V, U>> \notin R
  BY <1>1, <1>2, WFMin
<1>4. PICK m \in S : U = Upto(m)
  BY <1>3 DEF T
<1>5. ASSUME NEW n \in S, n < m PROVE FALSE
  <2>1. Upto(n) \in T
    BY DEF T
  <2>2. Upto(n) \subseteq Upto(m) /\ Upto(n) # Upto(m)
    BY <1>5
  <2>3. <<Upto(n), Upto(m)>> \in R
    BY <2>2 DEF R, StrictSubsetOrdering
  <2>4. QED
    BY <2>1, <2>3, <1>3, <1>4
<1>6. QED
  BY <1>5

\* A leaf without a version, and one without a structured body, holds no blocks.
Bare == \A l \in Leaves : leaf[l].version = 0 \/ leaf[l].legacy => leaf[l].blocks = {}

\* A window has assignments once it was planned, and never when the host cannot show it.
Planned ==
    \A j \in Jobs, w \in Windows :
       /\ record[j][w].status \in {"none", "read_pending"} \/ w \in refused[j]
             => \A l \in Leaves : assigned[j][w][l].status = "none"
       /\ record[j][w].status \in {"allocated", "processed"} => LeavesOf(j, w) # {}

\* A window before the cursor was read, and its assignments were settled.
Passed ==
    \A j \in Jobs, w \in Windows : w < cursor[j] =>
       /\ record[j][w].status \in {"processed", "no_content", "unresolved"}
       /\ \A l \in Leaves : assigned[j][w][l].status # "allocated"

\* No window after the cursor waits for a retry: a retry never moves the cursor forward.
Ahead == \A j \in Jobs, w \in Windows : w > cursor[j] => w \notin Reopened(j)

\* The facts of a window are in the ledger when its record says so.
Booked == \A j \in Jobs, w \in Windows : record[j][w].facts <=> w \in ledger[j]

\* The text an assignment was compared with is that of the leaf, as long as its version is; the
\* draft adds at most the block of the window.
Based ==
    \A j \in Jobs, w \in Windows, l \in Leaves :
       LET a == assigned[j][w][l]
       IN /\ a.base.version <= leaf[l].version
          /\ a.base.version = leaf[l].version => a.base.blocks = leaf[l].blocks
          /\ a.draft.blocks \subseteq a.base.blocks \union {<<j, w>>}

\* What a commit wrote is in the leaf.
Kept ==
    \A j \in Jobs, w \in Windows, l \in Leaves :
       LET o == operation[j][w][l]
       IN /\ o.done => /\ o.draft.kind = "submit" /\ o.version <= leaf[l].version
                       /\ o.draft.blocks \subseteq leaf[l].blocks
          /\ o.changed => o.done

Shown(j) == \A w \in Windows, l \in Leaves :
               operation[j][w][l].changed => consumed[l] >= operation[j][w][l].version

\* Where a run is, in terms of its checkpoint.
PlacedAt(j) ==
    /\ covered[j] => AtEnd(j)
    /\ pc[j] \in {"rollup", "finish"} => covered[j]
    /\ pc[j] = "call" => /\ ~AtEnd(j) /\ cursor[j] \notin refused[j]
                         /\ Pending(j) => ~(Record(j).prepared = "ready" /\ Record(j).format >= 2)
                         /\ ~Pending(j) => Open(j) # {} /\ Work(j).draft = NoDraft
    /\ pc[j] = "receipt" => ~AtEnd(j) /\ Open(j) # {} /\ Committed(j).done
    /\ pc[j] = "finish" => Shown(j)
    /\ report[j] = "done" => pc[j] = "idle" /\ covered[j] /\ Settled(j) /\ Shown(j)
Placed == \A j \in Jobs : PlacedAt(j)

\* What the checkpoints and the leaves say of each other.
Data == Bare /\ Planned /\ Passed /\ Ahead /\ Booked /\ Based /\ Kept /\ ReplayMatches

\* What is kept by every step.  A draft is committed at most once because a draft that was
\* committed is still the one in the checkpoint, and a leaf loses nothing because a draft was
\* compared with the very text it replaces.
IInv == TypeOK /\ Data /\ Placed

-----------------------------------------------------------------------------
\* What the helpers write.

LEMMA WindowsAreNumbers == Windows \subseteq Nat
BY LeafReadingAssumption DEF Windows

\* A cursor that is not at the end is on a window of the job.
LEMMA CursorInWindows ==
    ASSUME CheckpointTypes, NEW j \in Jobs, ~AtEnd(j)
    PROVE  cursor[j] \in Windows /\ cursor[j] \in 1 .. Last[j]
BY LeafReadingAssumption DEF CheckpointTypes, AtEnd, Windows

\* The leaf a run works on is one of those that are open.
LEMMA TargetIsOpen ==
    ASSUME NEW j \in Jobs, Open(j) # {}
    PROVE  Target(j) \in Open(j) /\ Target(j) \in Leaves
BY DEF Target, Open

\* Keep changes the record of the window under the cursor, and no other.
LEMMA RecordKept ==
    ASSUME CheckpointTypes, NEW j \in Jobs, ~AtEnd(j), NEW r \in Records, Keep(j, r)
    PROVE  /\ record' \in [Jobs -> [Windows -> Records]]
           /\ record'[j][cursor[j]] = r
           /\ \A k \in Jobs, w \in Windows : k # j \/ w # cursor[j] => record'[k][w] = record[k][w]
BY CursorInWindows DEF CheckpointTypes, Keep

\* KeepWork changes the assignment at hand, and no other.
LEMMA WorkKept ==
    ASSUME CheckpointTypes, NEW j \in Jobs, ~AtEnd(j), Open(j) # {}, NEW a \in Assignments, KeepWork(j, a)
    PROVE  /\ assigned' \in [Jobs -> [Windows -> [Leaves -> Assignments]]]
           /\ assigned'[j][cursor[j]][Target(j)] = a
           /\ \A k \in Jobs, w \in Windows, l \in Leaves :
                 k # j \/ w # cursor[j] \/ l # Target(j) => assigned'[k][w][l] = assigned[k][w][l]
BY CursorInWindows, TargetIsOpen DEF CheckpointTypes, KeepWork

\* A step of one job touches no other job's checkpoint.
Same(k) == UNCHANGED <<refused[k], operation[k], ledger[k], record[k], assigned[k], cursor[k], calls[k],
                       covered[k], finished[k], retryAsked[k], pc[k], tries[k], retries[k], report[k]>>

\* A job of which nothing changed stays where it was, whatever other jobs commit to the leaves.
LEMMA SameIsPlaced ==
    ASSUME NEW k \in Jobs, Same(k), PlacedAt(k), TypeOK,
           \A l \in Leaves : consumed'[l] \in Nat /\ consumed'[l] >= consumed[l]
    PROVE  PlacedAt(k)'
<1>1. AtEnd(k)' = AtEnd(k) /\ Pending(k)' = Pending(k) /\ Record(k)' = Record(k) /\ Open(k)' = Open(k)
  BY DEF Same, AtEnd, Pending, Record, Open
<1>2. Target(k)' = Target(k)
  BY <1>1 DEF Target
<1>3. Work(k)' = Work(k) /\ Committed(k)' = Committed(k)
  BY <1>2 DEF Work, Committed, Same
<1>4. Settled(k)' = Settled(k)
  BY DEF Settled, Same
<1>5. Shown(k) => Shown(k)'
  BY DEF Shown, Same, TypeOK, LeafTypes, Operations
<1>6. QED
  BY <1>1, <1>3, <1>4, <1>5 DEF PlacedAt, Same

-----------------------------------------------------------------------------
\* The two ways a run writes its checkpoint keep what the checkpoints and the leaves say.

\* The record of the window at the cursor.
LEMMA RecordStep ==
    ASSUME IInv, NEW j \in Jobs, ~AtEnd(j), NEW r \in Records, Keep(j, r),
           UNCHANGED <<refused, leaf, operation, consumed, assigned>>,
           r.status \in {"none", "read_pending"} => Record(j).status \in {"none", "read_pending"},
           r.status \in {"allocated", "processed"} => LeavesOf(j, cursor[j]) # {},
           \A k \in Jobs \ {j} : cursor'[k] = cursor[k],
           \/ cursor'[j] = cursor[j]
           \/ cursor'[j] = cursor[j] + 1 /\ Open(j) = {} /\ r.status \in {"processed", "no_content", "unresolved"},
           \A k \in Jobs, w \in Windows :
              k # j \/ w # cursor[j] => (w \in ledger'[k] <=> w \in ledger[k]),
           cursor[j] \in ledger'[j] <=> r.facts
    PROVE  Data'
<1> USE DEF IInv, Data
<1>0. CheckpointTypes /\ cursor[j] \in Windows
  BY CursorInWindows DEF TypeOK
<1>1. /\ record'[j][cursor[j]] = r
      /\ \A k \in Jobs, w \in Windows : k # j \/ w # cursor[j] => record'[k][w] = record[k][w]
  BY <1>0, RecordKept
<1>2. \A k \in Jobs, w \in Windows : LeavesOf(k, w)' = LeavesOf(k, w)
  BY DEF LeavesOf
<1>3. Planned'
  BY <1>0, <1>1, <1>2 DEF Planned, Record
<1>4. Passed'
  <2> SUFFICES ASSUME NEW k \in Jobs, NEW w \in Windows, w < cursor'[k]
               PROVE  /\ record'[k][w].status \in {"processed", "no_content", "unresolved"}
                      /\ \A l \in Leaves : assigned[k][w][l].status # "allocated"
    BY DEF Passed
  <2>1. CASE k = j /\ w = cursor[j]
    BY <1>0, <1>1, <2>1 DEF Open, CheckpointTypes
  <2>2. CASE ~(k = j /\ w = cursor[j])
    <3>1. w < cursor[k]
      <4>1. w \in Nat /\ cursor[j] \in Nat
        BY <1>0, WindowsAreNumbers DEF CheckpointTypes
      <4>2. QED
        BY <4>1, <2>2
    <3>2. QED
      BY <1>1, <2>2, <3>1 DEF Passed
  <2>3. QED
    BY <2>1, <2>2
<1>5. Booked'
  BY <1>0, <1>1 DEF Booked
<1>6. Bare' /\ Based' /\ Kept' /\ ReplayMatches'
  BY DEF Bare, Based, Kept, ReplayMatches
<1>7. Ahead'
  <2> SUFFICES ASSUME NEW k \in Jobs, NEW w \in Windows, w > cursor'[k]
               PROVE  w \notin Reopened(k)'
    BY DEF Ahead
  <2>1. w > cursor[k] /\ (k = j => w # cursor[j])
    <3>1. w \in Nat /\ cursor[j] \in Nat
      BY <1>0, WindowsAreNumbers DEF CheckpointTypes
    <3>2. QED
      BY <3>1
  <2>2. record'[k][w] = record[k][w] /\ LeavesOf(k, w)' = LeavesOf(k, w)
    BY <1>1, <1>2, <2>1
  <2>3. w \notin Reopened(k)
    BY <2>1 DEF Ahead
  <2>4. QED
    BY <2>2, <2>3 DEF Reopened, Unread, Unresolved
<1>8. QED
  BY <1>3, <1>4, <1>5, <1>6, <1>7

\* The assignment being worked on.
LEMMA WorkStep ==
    ASSUME IInv, NEW j \in Jobs, ~AtEnd(j), Open(j) # {}, NEW a \in Assignments, KeepWork(j, a),
           UNCHANGED <<refused, leaf, operation, consumed, ledger, record, cursor>>,
           a.status # "none",
           a.base.version <= leaf[Target(j)].version,
           a.base.version = leaf[Target(j)].version => a.base.blocks = leaf[Target(j)].blocks,
           a.draft.blocks \subseteq a.base.blocks \union {<<j, cursor[j]>>},
           Committed(j).done => a.status \in {"allocated", "submitted"} /\ a.draft = Committed(j).draft
                                  /\ a.base = Committed(j).base,
           a.status = "submitted" => Committed(j).done
    PROVE  Data'
<1> USE DEF IInv, Data
<1>0. /\ CheckpointTypes /\ cursor[j] \in Windows /\ Target(j) \in Leaves
      /\ assigned[j][cursor[j]][Target(j)].status = "allocated"
  BY CursorInWindows, TargetIsOpen DEF TypeOK, Open
<1>1. /\ assigned'[j][cursor[j]][Target(j)] = a
      /\ \A k \in Jobs, w \in Windows, l \in Leaves :
            k # j \/ w # cursor[j] \/ l # Target(j) => assigned'[k][w][l] = assigned[k][w][l]
  BY <1>0, WorkKept
<1> HIDE DEF Data
<1>2. \A k \in Jobs, w \in Windows : LeavesOf(k, w) # {} => LeavesOf(k, w)' # {}
  BY <1>0, <1>1 DEF LeavesOf
<1>3. /\ record[j][cursor[j]].status \notin {"none", "read_pending"}
      /\ cursor[j] \notin refused[j]
  BY <1>0 DEF Planned, Data
<1>4. Planned'
  <2>1. ASSUME NEW k \in Jobs, NEW w \in Windows, record[k][w].status \in {"none", "read_pending"} \/ w \in refused[k],
               NEW l \in Leaves
        PROVE  assigned'[k][w][l].status = "none"
    BY <1>1, <1>3, <2>1 DEF Planned, Data
  <2>2. QED
    BY <1>2, <2>1 DEF Planned, Data
<1>5. Passed'
  <2>1. ~(cursor[j] < cursor[j])
    BY <1>0 DEF CheckpointTypes
  <2>2. QED
    BY <1>1, <2>1 DEF Passed, Data
<1>6. Based'
  <2> SUFFICES ASSUME NEW k \in Jobs, NEW w \in Windows, NEW l \in Leaves
               PROVE  LET b == assigned'[k][w][l]
                      IN /\ b.base.version <= leaf[l].version
                         /\ b.base.version = leaf[l].version => b.base.blocks = leaf[l].blocks
                         /\ b.draft.blocks \subseteq b.base.blocks \union {<<k, w>>}
    BY DEF Based
  <2>1. CASE k = j /\ w = cursor[j] /\ l = Target(j)
    BY <1>1, <2>1
  <2>2. CASE ~(k = j /\ w = cursor[j] /\ l = Target(j))
    BY <1>1, <2>2 DEF Based, Data
  <2>3. QED
    BY <2>1, <2>2
<1>7. ReplayMatches'
  <2> SUFFICES ASSUME NEW k \in Jobs, NEW w \in Windows, NEW l \in Leaves
               PROVE  LET o == operation[k][w][l]   b == assigned'[k][w][l]
                      IN /\ o.done => b.status \in {"allocated", "submitted"} /\ b.draft = o.draft /\ b.base = o.base
                         /\ b.status = "submitted" => o.done
    BY DEF ReplayMatches
  <2>1. CASE k = j /\ w = cursor[j] /\ l = Target(j)
    BY <1>1, <2>1 DEF Committed
  <2>2. CASE ~(k = j /\ w = cursor[j] /\ l = Target(j))
    BY <1>1, <2>2 DEF ReplayMatches, Data
  <2>3. QED
    BY <2>1, <2>2
<1>8. Bare' /\ Booked' /\ Kept'
  BY DEF Bare, Booked, Kept, Data
<1>9. Ahead'
  <2> SUFFICES ASSUME NEW k \in Jobs, NEW w \in Windows, w > cursor[k]
               PROVE  w \notin Reopened(k)'
    BY DEF Ahead
  <2>1. k = j => w # cursor[j]
    BY <1>0 DEF CheckpointTypes
  <2>2. \A l \in Leaves : assigned'[k][w][l] = assigned[k][w][l]
    BY <1>1, <2>1
  <2>3. w \notin Reopened(k)
    BY DEF Ahead, Data
  <2>4. QED
    BY <2>2, <2>3 DEF Reopened, Unread, Unresolved, LeavesOf
<1>10. QED
  BY <1>4, <1>5, <1>6, <1>7, <1>8, <1>9 DEF Data

-----------------------------------------------------------------------------
\* A step of one job leaves every other job's data alone.

LEMMA OwnDataOnly ==
    ASSUME TypeOK, NEW j \in Jobs, Start(j) \/ AskRetry(j) \/ Crash(j) \/ Step(j),
           NEW k \in Jobs, k # j
    PROVE  Same(k)
<1> USE DEF TypeOK, LeafTypes, CheckpointTypes, RunTypes, Same, leaves, checkpoint, Goto, Stop, Partial, Reads
<1>1. CASE Start(j)
  <2>1. CASE ApplyRetry(j)
    BY <1>1, <2>1 DEF Start, ApplyRetry
  <2>2. CASE UNCHANGED <<record, assigned, cursor, covered, finished>>
    BY <1>1, <2>2 DEF Start
  <2>3. QED
    BY <1>1, <2>1, <2>2 DEF Start
<1>2. CASE AskRetry(j) \/ Crash(j)
  BY <1>2 DEF AskRetry, Crash
<1>3. CASE RefuseWindow(j) \/ PassWindow(j) \/ OpenWindow(j) \/ BlockFormat(j) \/ Cover(j)
  BY <1>3 DEF RefuseWindow, PassWindow, OpenWindow, BlockFormat, Cover, Keep, ReadsOnly
<1>4. CASE Ask(j) \/ StopAsking(j) \/ NoAnswer(j)
  BY <1>4 DEF Ask, StopAsking, NoAnswer, ReadLeaf, KeepWork
<1>5. CASE Classify(j) \/ Attribute(j) \/ MalformedAttribution(j) \/ Extract(j)
  BY <1>5 DEF Classify, Attribute, MalformedAttribution, Extract, Keep, ReadsOnly
<1>6. CASE Plan(j) \/ MalformedPlan(j)
  BY <1>6 DEF Plan, MalformedPlan, Keep, ReadsOnly
<1>7. CASE Draft(j) \/ TooLarge(j) \/ NoContent(j) \/ SaveReceipt(j) \/ BaseChanged(j) \/ RejectDraft(j)
  <2>1. CASE Draft(j) \/ TooLarge(j) \/ NoContent(j)
    BY <2>1 DEF Draft, TooLarge, NoContent, KeepWork, Compares
  <2>2. CASE SaveReceipt(j)
    BY <2>2 DEF SaveReceipt, KeepWork, Compares
  <2>3. CASE BaseChanged(j)
    BY <2>3 DEF BaseChanged, KeepWork, Compares
  <2>4. CASE RejectDraft(j)
    BY <2>4 DEF RejectDraft, KeepWork, Compares
  <2>5. QED
    BY <1>7, <2>1, <2>2, <2>3, <2>4
<1>8. CASE Submit(j) \/ Replay(j)
  BY <1>8 DEF Submit, Replay
<1>9. CASE Consume(j) \/ ConsumeRefused(j) \/ Finish(j)
  BY <1>9 DEF Consume, ConsumeRefused, Finish
<1>10. QED
  BY <1>1, <1>2, <1>3, <1>4, <1>5, <1>6, <1>7, <1>8, <1>9 DEF Step

-----------------------------------------------------------------------------
\* Types.

LEMMA RunTypesStep ==
    ASSUME TypeOK, NEW j \in Jobs, Start(j) \/ AskRetry(j) \/ Crash(j) \/ Step(j)
    PROVE  RunTypes'
<1> USE DEF TypeOK, RunTypes, checkpoint, Goto, Stop, Partial, Reads
<1>0. CASE Start(j)
  <2>1. \E step \in {"rollup", "work"} : pc' = [pc EXCEPT ![j] = step]
    BY <1>0 DEF Start
  <2>2. QED
    BY <1>0, <2>1 DEF Start
<1>1. CASE AskRetry(j) \/ Crash(j)
  <2>1. CASE AskRetry(j)
    <3>1. MaxRetries[j] \in Nat
      BY LeafReadingAssumption
    <3>2. retries[j] \in Nat /\ retries[j] < MaxRetries[j] /\ retries' = [retries EXCEPT ![j] = @ + 1]
      BY <2>1 DEF AskRetry
    <3>3. retries' \in [Jobs -> Nat] /\ \A k \in Jobs : retries'[k] <= MaxRetries[k]
      BY <3>1, <3>2
    <3>4. QED
      BY <2>1, <3>3 DEF AskRetry
  <2>2. CASE Crash(j)
    BY <2>2 DEF Crash
  <2>3. QED
    BY <1>1, <2>1, <2>2
<1>2. CASE RefuseWindow(j) \/ PassWindow(j) \/ OpenWindow(j) \/ BlockFormat(j) \/ Cover(j)
  BY <1>2 DEF RefuseWindow, PassWindow, OpenWindow, BlockFormat, Cover, ReadsOnly
<1>3. CASE Ask(j) \/ StopAsking(j) \/ NoAnswer(j)
  BY <1>3 DEF Ask, StopAsking, NoAnswer
<1>4. CASE Classify(j) \/ Attribute(j) \/ MalformedAttribution(j) \/ Extract(j)
  <2>1. CASE Classify(j)
    BY <2>1 DEF Classify, ReadsOnly
  <2>2. CASE Attribute(j)
    BY <2>2 DEF Attribute, ReadsOnly
  <2>3. CASE MalformedAttribution(j)
    BY <2>3 DEF MalformedAttribution, ReadsOnly
  <2>4. CASE Extract(j)
    BY <2>4 DEF Extract, ReadsOnly
  <2>5. QED
    BY <1>4, <2>1, <2>2, <2>3, <2>4
<1>5. CASE Plan(j) \/ MalformedPlan(j)
  BY <1>5 DEF Plan, MalformedPlan, ReadsOnly
<1>6. CASE Draft(j) \/ TooLarge(j) \/ NoContent(j) \/ SaveReceipt(j) \/ BaseChanged(j) \/ RejectDraft(j)
  BY <1>6 DEF Draft, TooLarge, NoContent, SaveReceipt, BaseChanged, RejectDraft, Compares
<1>7. CASE Submit(j) \/ Replay(j)
  BY <1>7 DEF Submit, Replay
<1>8. CASE Consume(j) \/ ConsumeRefused(j) \/ Finish(j)
  BY <1>8 DEF Consume, ConsumeRefused, Finish
<1>9. QED
  BY <1>0, <1>1, <1>2, <1>3, <1>4, <1>5, <1>6, <1>7, <1>8 DEF Step

\* What a call is about.
LEMMA AskableAt ==
    ASSUME NEW j \in Jobs, Askable(j)
    PROVE  ~AtEnd(j) /\ cursor[j] \notin refused[j] /\ (~Pending(j) => Comparing(j) /\ Open(j) # {})
BY DEF Askable, Pending, Comparing

\* What lies under the cursor is typed.
LEMMA WorkIsAssignment ==
    ASSUME CheckpointTypes, NEW j \in Jobs, ~AtEnd(j)
    PROVE  Record(j) \in Records /\ (Open(j) # {} => Work(j) \in Assignments)
BY CursorInWindows, TargetIsOpen DEF CheckpointTypes, Record, Work

\* The empty base, draft and assignment are typed.
LEMMA EmptyIsTyped == NoBase \in Bases /\ NoDraft \in Texts /\ NoAssignment \in Assignments
BY LeafReadingAssumption DEF NoBase, NoDraft, NoAssignment, Bases, Texts, Assignments

\* A draft adds to the text it was made from at most the block of its window.
LEMMA DraftIsTyped ==
    ASSUME CheckpointTypes, NEW j \in Jobs, ~AtEnd(j), Open(j) # {}, NEW d \in Drafts(j)
    PROVE  d \in Texts /\ d.blocks \subseteq Work(j).base.blocks \union {<<j, cursor[j]>>}
<1> DEFINE A == [kind : {"no_content", "unresolved", "refused"}, blocks : {{}}, conflict : {FALSE}]
           B == [kind : {"submit"}, conflict : BOOLEAN,
                 blocks : {kept \union own : kept \in {{}, Work(j).base.blocks},
                                             own \in {{}, {<<j, cursor[j]>>}}}]
<1>1. Work(j).base.blocks \subseteq Jobs \X Windows
  BY WorkIsAssignment DEF Assignments, Bases
<1>2. <<j, cursor[j]>> \in Jobs \X Windows
  BY CursorInWindows
<1>3. Drafts(j) = A \union B
  BY DEF Drafts, A, B
<1>4. CASE d \in A
  BY <1>4 DEF Texts
<1>5. CASE d \in B
  BY <1>1, <1>2, <1>5 DEF Texts
<1> HIDE DEF A, B
<1>6. QED
  BY <1>3, <1>4, <1>5

-----------------------------------------------------------------------------
\* What a step of job j has to keep besides the types of its run: the data, and its own place.
OwnOK(j) == LeafTypes /\ CheckpointTypes /\ Data /\ PlacedAt(j)

\* While a document is being read it was not covered before, and success was not reported.
LEMMA NotDone ==
    ASSUME IInv, NEW j \in Jobs, ~AtEnd(j)
    PROVE  ~covered[j] /\ report[j] # "done"
BY DEF IInv, Placed, PlacedAt, TypeOK, CheckpointTypes, RunTypes

\* A step that changes the record under the cursor and leaves every assignment alone.
LEMMA RecordAction ==
    ASSUME IInv, NEW j \in Jobs, ~AtEnd(j), NEW r \in Records, Keep(j, r),
           Reads, UNCHANGED <<assigned, calls>>,
           pc'[j] \in {"idle", "work"}, report'[j] \in {report[j], "partial"},
           r.status \in {"none", "read_pending"} => Record(j).status \in {"none", "read_pending"},
           r.status \in {"allocated", "processed"} => LeavesOf(j, cursor[j]) # {},
           \/ cursor' = cursor
           \/ cursor' = [cursor EXCEPT ![j] = @ + 1] /\ Open(j) = {}
                /\ r.status \in {"processed", "no_content", "unresolved"},
           \/ ledger' = ledger
           \/ ledger' = [ledger EXCEPT ![j] = @ \union {cursor[j]}],
           cursor[j] \in ledger'[j] <=> r.facts
    PROVE  OwnOK(j)'
<1>0. TypeOK /\ LeafTypes /\ CheckpointTypes
  BY DEF IInv, TypeOK
<1>1. cursor[j] \in Windows /\ cursor[j] \in 1 .. Last[j] /\ cursor[j] \in Nat
  BY <1>0, CursorInWindows DEF CheckpointTypes
<1>2. ledger' \in [Jobs -> SUBSET Windows]
      /\ \A k \in Jobs, w \in Windows : k # j \/ w # cursor[j] => (w \in ledger'[k] <=> w \in ledger[k])
  <2>1. CASE ledger' = ledger
    BY <1>0, <2>1 DEF LeafTypes
  <2>2. CASE ledger' = [ledger EXCEPT ![j] = @ \union {cursor[j]}]
    BY <1>0, <1>1, <2>2 DEF LeafTypes
  <2>3. QED
    BY <2>1, <2>2
<1>3. LeafTypes'
  BY <1>0, <1>2 DEF LeafTypes, Reads
<1>4. /\ cursor' \in [Jobs -> Nat] /\ \A k \in Jobs : cursor'[k] \in 1 .. Last[k] + 1
      /\ \A k \in Jobs \ {j} : cursor'[k] = cursor[k]
      /\ cursor'[j] \in {cursor[j], cursor[j] + 1}
  <2>1. Last[j] \in Nat
    BY LeafReadingAssumption
  <2>2. CASE cursor' = cursor
    BY <1>0, <2>2 DEF CheckpointTypes
  <2>3. CASE cursor' = [cursor EXCEPT ![j] = @ + 1]
    BY <1>0, <1>1, <2>1, <2>3 DEF CheckpointTypes
  <2>4. QED
    BY <2>2, <2>3
<1>5. record' \in [Jobs -> [Windows -> Records]]
  BY <1>0, RecordKept
<1>6. CheckpointTypes'
  BY <1>0, <1>4, <1>5 DEF CheckpointTypes, Reads
<1>7. \/ cursor'[j] = cursor[j]
      \/ cursor'[j] = cursor[j] + 1 /\ Open(j) = {} /\ r.status \in {"processed", "no_content", "unresolved"}
  BY <1>0 DEF CheckpointTypes
<1>8. Data'
  BY <1>2, <1>4, <1>7, RecordStep DEF Reads
<1>9. PlacedAt(j)'
  BY NotDone DEF PlacedAt, Reads
<1>10. QED
  BY <1>3, <1>6, <1>8, <1>9 DEF OwnOK

\* A step that changes the assignment at hand and leaves leaves and records alone.
LEMMA WorkAction ==
    ASSUME IInv, NEW j \in Jobs, ~AtEnd(j), Open(j) # {}, NEW a \in Assignments, KeepWork(j, a),
           Reads, UNCHANGED <<ledger, record, cursor>>,
           calls' \in [Jobs -> [Phases -> Nat]], \A k \in Jobs, p \in Phases : calls'[k][p] <= Limit[k][p],
           a.status # "none",
           a.base.version <= leaf[Target(j)].version,
           a.base.version = leaf[Target(j)].version => a.base.blocks = leaf[Target(j)].blocks,
           a.draft.blocks \subseteq a.base.blocks \union {<<j, cursor[j]>>},
           Committed(j).done => a.status \in {"allocated", "submitted"} /\ a.draft = Committed(j).draft
                                  /\ a.base = Committed(j).base,
           a.status = "submitted" => Committed(j).done
    PROVE  /\ LeafTypes' /\ CheckpointTypes' /\ Data'
           /\ pc'[j] \in {"idle", "work"} /\ report'[j] \in {report[j], "partial"} => OwnOK(j)'
<1>0. TypeOK /\ LeafTypes /\ CheckpointTypes
  BY DEF IInv, TypeOK
<1>1. LeafTypes'
  BY <1>0 DEF LeafTypes, Reads
<1>2. assigned' \in [Jobs -> [Windows -> [Leaves -> Assignments]]]
  BY <1>0, WorkKept
<1>3. CheckpointTypes'
  BY <1>0, <1>2 DEF CheckpointTypes, Reads
<1>4. Data'
  BY WorkStep DEF Reads
<1>5. pc'[j] \in {"idle", "work"} /\ report'[j] \in {report[j], "partial"} => PlacedAt(j)'
  BY NotDone DEF PlacedAt, Reads
<1>6. QED
  BY <1>1, <1>3, <1>4, <1>5 DEF OwnOK

-----------------------------------------------------------------------------
\* The steps that write the record of a window.

LEMMA RecordIsBooked ==
    ASSUME IInv, NEW j \in Jobs, ~AtEnd(j)
    PROVE  /\ cursor[j] \in Windows /\ Record(j) \in Records /\ CheckpointTypes
           /\ cursor[j] \in ledger[j] <=> Record(j).facts
           /\ pc[j] \in {"idle", "work", "call", "receipt", "rollup", "finish"}
           /\ pc \in [Jobs -> {"idle", "work", "call", "receipt", "rollup", "finish"}]
           /\ report \in [Jobs -> {"partial", "done"}]
BY CursorInWindows, WorkIsAssignment DEF IInv, TypeOK, RunTypes, Data, Booked, Record

LEMMA RefuseWindowOK ==
    ASSUME IInv, NEW j \in Jobs, RefuseWindow(j)
    PROVE  OwnOK(j)'
<1> DEFINE r == [Record(j) EXCEPT !.status = "unresolved"]
<1>1. ~AtEnd(j) /\ Keep(j, r) /\ cursor[j] \in refused[j]
  BY DEF RefuseWindow
<1>2. r \in Records /\ r.status = "unresolved" /\ r.facts = Record(j).facts
  BY <1>1, RecordIsBooked DEF Records
<1>3. Open(j) = {}
  BY <1>1, RecordIsBooked DEF IInv, Data, Planned, Open
<1> HIDE DEF r
<1>4. QED
  BY <1>1, <1>2, <1>3, RecordIsBooked, RecordAction DEF RefuseWindow, Goto

LEMMA OpenWindowOK ==
    ASSUME IInv, NEW j \in Jobs, OpenWindow(j) \/ BlockFormat(j)
    PROVE  OwnOK(j)'
<1>1. CASE OpenWindow(j)
  <2> DEFINE r == [Record(j) EXCEPT !.status = "read_pending"]
  <2>1. ~AtEnd(j) /\ Keep(j, r) /\ Record(j).status = "none"
    BY <1>1 DEF OpenWindow
  <2>2. r \in Records /\ r.status = "read_pending" /\ r.facts = Record(j).facts
    BY <2>1, RecordIsBooked DEF Records
  <2> HIDE DEF r
  <2>3. QED
    BY <1>1, <2>1, <2>2, RecordIsBooked, RecordAction DEF OpenWindow, Goto, ReadsOnly
<1>2. CASE BlockFormat(j)
  <2> DEFINE r == [Record(j) EXCEPT !.blocked = TRUE]
  <2>1. ~AtEnd(j) /\ Keep(j, r) /\ Record(j).status = "read_pending"
    BY <1>2 DEF BlockFormat, Pending
  <2>2. r \in Records /\ r.status = Record(j).status /\ r.facts = Record(j).facts
    BY <2>1, RecordIsBooked DEF Records
  <2> HIDE DEF r
  <2>3. pc'[j] = "idle" /\ report'[j] = "partial"
    BY <1>2, <2>1, RecordIsBooked DEF BlockFormat, Partial, Stop
  <2>4. QED
    BY <1>2, <2>1, <2>2, <2>3, RecordIsBooked, RecordAction DEF BlockFormat, ReadsOnly
<1>3. QED
  BY <1>1, <1>2

LEMMA PassWindowOK ==
    ASSUME IInv, NEW j \in Jobs, PassWindow(j)
    PROVE  OwnOK(j)'
<1> DEFINE r == [Record(j) EXCEPT !.status = IF LeavesOf(j, cursor[j]) = {} THEN @ ELSE "processed"]
<1>1. ~AtEnd(j) /\ Keep(j, r) /\ Record(j).status \notin {"none", "read_pending"} /\ Open(j) = {}
  BY DEF PassWindow
<1>2. r \in Records /\ r.facts = Record(j).facts
      /\ r.status = IF LeavesOf(j, cursor[j]) = {} THEN Record(j).status ELSE "processed"
  BY <1>1, RecordIsBooked DEF Records
<1>3. LeavesOf(j, cursor[j]) = {} => Record(j).status \in {"no_content", "unresolved"}
  BY <1>1, RecordIsBooked DEF IInv, Data, Planned, Record, Records
<1> HIDE DEF r
<1>4. pc'[j] = "work" /\ report'[j] = report[j]
  BY <1>1, RecordIsBooked DEF PassWindow, Goto
<1>5. QED
  BY <1>1, <1>2, <1>3, <1>4, RecordIsBooked, RecordAction DEF PassWindow

\* A call that is answered for a window being read was sent for one.
LEMMA AnswersAt ==
    ASSUME IInv, NEW j \in Jobs, NEW phase, Answers(j, phase)
    PROVE  ~AtEnd(j) /\ Record(j).status = "read_pending"
           /\ (phase = "plan" => Record(j).prepared = "ready" /\ Record(j).format < 2)
<1>1. ~AtEnd(j) /\ Record(j).status = "read_pending" /\ Pending(j) /\ pc[j] = "call" /\ Phase(j) = phase
  BY DEF Answers, Pending
<1>2. Record(j) \in Records
  BY <1>1, RecordIsBooked
<1>3. Phase(j) = "plan" => Record(j).prepared = "ready"
  BY <1>1, <1>2 DEF Phase, Records
<1>4. ~(Record(j).prepared = "ready" /\ Record(j).format >= 2)
  BY <1>1 DEF IInv, Placed, PlacedAt
<1>5. QED
  BY <1>1, <1>2, <1>3, <1>4 DEF Records

LEMMA AnswerOK ==
    ASSUME IInv, NEW j \in Jobs, Classify(j) \/ Attribute(j) \/ MalformedPlan(j)
    PROVE  OwnOK(j)'
<1>1. ~AtEnd(j) /\ Record(j).status = "read_pending"
  BY AnswersAt DEF Classify, Attribute, MalformedPlan
<1>2. ASSUME NEW r \in Records, Keep(j, r), r.status = Record(j).status, r.facts = Record(j).facts,
             ReadsOnly, UNCHANGED ledger, pc' = [pc EXCEPT ![j] = "work"], UNCHANGED report
      PROVE  OwnOK(j)'
  BY <1>1, <1>2, RecordIsBooked, RecordAction DEF ReadsOnly
<1>3. CASE Classify(j)
  <2>1. [Record(j) EXCEPT !.prepared = "classified"] \in Records
    BY <1>1, RecordIsBooked DEF Records
  <2>2. QED
    BY <1>1, <1>2, <1>3, <2>1, RecordIsBooked DEF Classify, Goto, Records
<1>4. CASE Attribute(j)
  <2>1. [Record(j) EXCEPT !.prepared = "attributed"] \in Records
    BY <1>1, RecordIsBooked DEF Records
  <2>2. QED
    BY <1>1, <1>2, <1>4, <2>1, RecordIsBooked DEF Attribute, Records
<1>5. CASE MalformedPlan(j)
  <2>1. [Record(j) EXCEPT !.format = @ + 1] \in Records
    BY <1>1, <1>5, RecordIsBooked, AnswersAt DEF Records, MalformedPlan
  <2>2. QED
    BY <1>1, <1>2, <1>5, <2>1, RecordIsBooked DEF MalformedPlan, Goto, Records
<1>6. QED
  BY <1>3, <1>4, <1>5

LEMMA ExtractOK ==
    ASSUME IInv, NEW j \in Jobs, Extract(j)
    PROVE  OwnOK(j)'
<1>1. ~AtEnd(j) /\ Record(j).status = "read_pending"
  BY AnswersAt DEF Extract
<1>2. PICK facts \in {FALSE, (j \in Factual)}, complete \in BOOLEAN :
         /\ Keep(j, [Record(j) EXCEPT !.facts = @ \/ facts,
                                      !.prepared = IF complete THEN "ready" ELSE @])
         /\ ledger' = [ledger EXCEPT ![j] = IF facts THEN @ \union {cursor[j]} ELSE @]
  BY DEF Extract
<1> DEFINE r == [Record(j) EXCEPT !.facts = @ \/ facts, !.prepared = IF complete THEN "ready" ELSE @]
<1>3. r \in Records /\ r.status = Record(j).status /\ (r.facts <=> Record(j).facts \/ facts)
  BY <1>1, RecordIsBooked DEF Records
<1> HIDE DEF r
<1>4. Keep(j, r) /\ pc'[j] = "work" /\ report'[j] = report[j]
  BY <1>1, <1>2, RecordIsBooked DEF r, Extract, Goto
<1>5. ledger \in [Jobs -> SUBSET Windows]
  BY DEF IInv, TypeOK, LeafTypes
<1>6. CASE facts
  BY <1>1, <1>2, <1>3, <1>4, <1>5, <1>6, RecordIsBooked, RecordAction DEF Extract, ReadsOnly
<1>7. CASE ~facts
  <2>1. ledger' = ledger
    BY <1>2, <1>5, <1>7
  <2>2. QED
    BY <1>1, <2>1, <1>3, <1>4, <1>5, <1>7, RecordIsBooked, RecordAction DEF Extract, ReadsOnly
<1>8. QED
  BY <1>6, <1>7

-----------------------------------------------------------------------------
\* The steps that write an assignment.

\* What is known of the assignment at hand.
LEMMA WorkIsSound ==
    ASSUME IInv, NEW j \in Jobs, ~AtEnd(j), Open(j) # {}
    PROVE  LET a == Work(j)   o == Committed(j)   l == Target(j)
           IN /\ l \in Leaves /\ cursor[j] \in Windows
              /\ a \in Assignments /\ a.status = "allocated"
              /\ a.base.version <= leaf[l].version
              /\ a.base.version = leaf[l].version => a.base.blocks = leaf[l].blocks
              /\ a.draft.blocks \subseteq a.base.blocks \union {<<j, cursor[j]>>}
              /\ o.done => a.draft = o.draft /\ a.base = o.base /\ o.draft.kind = "submit"
              /\ leaf[l].version \in Nat /\ leaf[l].blocks \subseteq Jobs \X Windows
<1>1. CheckpointTypes /\ LeafTypes
  BY DEF IInv, TypeOK
<1>2. cursor[j] \in Windows /\ Target(j) \in Leaves /\ Work(j) \in Assignments /\ Work(j).status = "allocated"
  BY <1>1, CursorInWindows, TargetIsOpen, WorkIsAssignment DEF Open, Work
<1>3. leaf[Target(j)].version \in Nat /\ leaf[Target(j)].blocks \subseteq Jobs \X Windows
  BY <1>1, <1>2 DEF LeafTypes
<1>4. QED
  BY <1>2, <1>3 DEF IInv, Data, Based, Kept, ReplayMatches, Work, Committed

\* A step that writes neither leaves nor checkpoint data.
LEMMA NothingKept ==
    ASSUME IInv, NEW j \in Jobs, UNCHANGED <<refused, leaf, operation, consumed, ledger, record, assigned, cursor>>
    PROVE  /\ LeafTypes' /\ Data'
           /\ AtEnd(j)' = AtEnd(j) /\ Record(j)' = Record(j) /\ Pending(j)' = Pending(j)
           /\ Open(j)' = Open(j) /\ Work(j)' = Work(j) /\ Committed(j)' = Committed(j)
           /\ Settled(j)' = Settled(j) /\ Shown(j)' = Shown(j)
<1>1. LeafTypes'
  BY DEF IInv, TypeOK, LeafTypes
<1>2. Data'
  <2>1. \A k \in Jobs : Reopened(k)' = Reopened(k)
    BY DEF Reopened, Unread, Unresolved, LeavesOf
  <2>2. QED
    BY <2>1 DEF IInv, Data, Bare, Planned, Passed, Ahead, Booked, Based, Kept, ReplayMatches, LeavesOf
<1>3. AtEnd(j)' = AtEnd(j) /\ Record(j)' = Record(j) /\ Pending(j)' = Pending(j) /\ Open(j)' = Open(j)
  BY DEF AtEnd, Record, Pending, Open
<1>4. Target(j)' = Target(j)
  BY <1>3 DEF Target
<1>5. Work(j)' = Work(j) /\ Committed(j)' = Committed(j)
  BY <1>4 DEF Work, Committed
<1>6. Settled(j)' = Settled(j) /\ Shown(j)' = Shown(j)
  BY DEF Settled, Shown
<1>7. QED
  BY <1>1, <1>2, <1>3, <1>5, <1>6

\* The leaf is read, and the call that shows it sent or not.
LEMMA ReadLeafKeeps ==
    ASSUME IInv, NEW j \in Jobs, Askable(j), ReadLeaf(j), Reads, UNCHANGED <<ledger, record, cursor>>,
           calls' \in [Jobs -> [Phases -> Nat]], \A k \in Jobs, p \in Phases : calls'[k][p] <= Limit[k][p]
    PROVE  /\ LeafTypes' /\ CheckpointTypes' /\ Data'
           /\ AtEnd(j)' = AtEnd(j) /\ Record(j)' = Record(j) /\ Pending(j)' = Pending(j)
           /\ ~Pending(j) => Open(j)' # {} /\ Work(j)'.draft = NoDraft
<1>0. TypeOK /\ CheckpointTypes /\ ~AtEnd(j) /\ cursor[j] \in Windows
  BY AskableAt, CursorInWindows DEF IInv, TypeOK
<1>1. CASE Pending(j)
  <2>1. UNCHANGED <<refused, leaf, operation, consumed, ledger, record, assigned, cursor>>
    BY <1>1 DEF ReadLeaf, Reads
  <2>2. CheckpointTypes'
    BY <1>0, <2>1 DEF CheckpointTypes, Reads
  <2>3. QED
    BY <1>1, <2>1, <2>2, NothingKept
<1>2. CASE ~Pending(j)
  <2> DEFINE base == [version |-> leaf[Target(j)].version, blocks |-> leaf[Target(j)].blocks]
             a == [Work(j) EXCEPT !.base = base]
  <2>1. KeepWork(j, a) /\ Open(j) # {} /\ Work(j).draft = NoDraft
    BY <1>2, AskableAt DEF ReadLeaf, Askable
  <2>2. /\ base \in Bases /\ a \in Assignments
        /\ a.base = base /\ a.status = "allocated" /\ a.draft = NoDraft
    BY <1>0, <2>1, WorkIsSound DEF Assignments, Bases
  <2>3. ~Committed(j).done
    BY <1>0, <2>1, WorkIsSound DEF NoDraft
  <2>4. a.base.version = leaf[Target(j)].version /\ a.base.blocks = leaf[Target(j)].blocks
    BY <2>2
  <2>5. a.draft.blocks = {} /\ leaf[Target(j)].version \in Nat
    BY <1>0, <2>1, <2>2, WorkIsSound DEF NoDraft
  <2> HIDE DEF a, base
  <2>6. LeafTypes' /\ CheckpointTypes' /\ Data'
    BY <1>0, <2>1, <2>2, <2>3, <2>4, <2>5, WorkAction
  <2>7. /\ assigned'[j][cursor[j]][Target(j)] = a
        /\ \A l \in Leaves : l # Target(j) => assigned'[j][cursor[j]][l] = assigned[j][cursor[j]][l]
    BY <1>0, <2>1, <2>2, WorkKept
  <2>8. Target(j) \in Leaves /\ Target(j) \in Open(j)
    BY <2>1, TargetIsOpen
  <2>9. Open(j)' = Open(j)
    BY <2>2, <2>7, <2>8 DEF Open
  <2>10. Target(j)' = Target(j)
    BY <2>9 DEF Target
  <2>11. Work(j)' = a
    BY <2>7, <2>10 DEF Work
  <2>12. AtEnd(j)' = AtEnd(j) /\ Record(j)' = Record(j) /\ Pending(j)' = Pending(j)
    BY DEF AtEnd, Record, Pending
  <2>13. QED
    BY <1>2, <2>1, <2>2, <2>6, <2>9, <2>11, <2>12
<1>3. QED
  BY <1>1, <1>2

LEMMA AskOK ==
    ASSUME IInv, NEW j \in Jobs, Ask(j) \/ StopAsking(j)
    PROVE  OwnOK(j)'
<1>0. /\ CheckpointTypes /\ Askable(j) /\ ReadLeaf(j) /\ Reads /\ UNCHANGED <<ledger, record, cursor>>
      /\ ~AtEnd(j) /\ cursor[j] \notin refused[j]
  BY AskableAt DEF Ask, StopAsking, IInv, TypeOK
<1>1. calls' \in [Jobs -> [Phases -> Nat]] /\ \A k \in Jobs, p \in Phases : calls'[k][p] <= Limit[k][p]
  <2>1. CASE Ask(j)
    <3>1. Record(j) \in Records
      BY <1>0, WorkIsAssignment
    <3>2. Phase(j) \in Phases
      BY <3>1 DEF Phase, Phases, Records
    <3>3. calls[j][Phase(j)] < Limit[j][Phase(j)] /\ calls' = [calls EXCEPT ![j][Phase(j)] = @ + 1]
      BY <2>1 DEF Ask
    <3>4. Limit[j][Phase(j)] \in Nat
      BY <3>2, LeafReadingAssumption
    <3>5. QED
      BY <1>0, <3>2, <3>3, <3>4 DEF CheckpointTypes
  <2>2. CASE StopAsking(j)
    BY <1>0, <2>2 DEF StopAsking, CheckpointTypes
  <2>3. QED
    BY <2>1, <2>2
<1>2. /\ LeafTypes' /\ CheckpointTypes' /\ Data'
      /\ AtEnd(j)' = AtEnd(j) /\ Record(j)' = Record(j) /\ Pending(j)' = Pending(j)
      /\ ~Pending(j) => Open(j)' # {} /\ Work(j)'.draft = NoDraft
  BY <1>0, <1>1, ReadLeafKeeps
<1>3. ~covered'[j] /\ cursor'[j] \notin refused'[j]
  BY <1>0, NotDone DEF Reads
<1>4. /\ pc'[j] \in {"call", "idle"} /\ report'[j] # "done"
  BY <1>0, NotDone, RecordIsBooked DEF Ask, StopAsking, Goto, Partial, Stop
<1>5. PlacedAt(j)'
  BY <1>0, <1>2, <1>3, <1>4 DEF PlacedAt, Askable, Comparing
<1>6. QED
  BY <1>2, <1>5 DEF OwnOK

LEMMA NoAnswerOK ==
    ASSUME IInv, NEW j \in Jobs, NoAnswer(j) \/ MalformedAttribution(j) \/ Crash(j)
    PROVE  OwnOK(j)'
<1>1. /\ UNCHANGED <<refused, leaf, operation, consumed, ledger, record, assigned, cursor, covered>>
      /\ UNCHANGED <<calls, finished>>
  BY DEF NoAnswer, MalformedAttribution, Crash, ReadsOnly, Reads, leaves, checkpoint
<1>2. LeafTypes' /\ Data' /\ AtEnd(j)' = AtEnd(j)
  BY <1>1, NothingKept
<1>3. CheckpointTypes'
  BY <1>1 DEF IInv, TypeOK, CheckpointTypes
<1>4. pc'[j] \in {"idle", "work"} /\ report'[j] # "done"
  <2>1. CASE NoAnswer(j) \/ Crash(j)
    BY <2>1 DEF NoAnswer, Crash, Partial, Stop, IInv, TypeOK, RunTypes
  <2>2. CASE MalformedAttribution(j)
    <3>1. report[j] # "done" 
      BY <2>2, AnswersAt, NotDone DEF MalformedAttribution
    <3>2. QED
      BY <2>2, <3>1 DEF MalformedAttribution, Partial, Stop, IInv, TypeOK, RunTypes
  <2>3. QED
    BY <2>1, <2>2
<1>5. PlacedAt(j)'
  BY <1>1, <1>2, <1>4 DEF PlacedAt, IInv, Placed
<1>6. QED
  BY <1>2, <1>3, <1>5 DEF OwnOK

\* The form of the steps that write the assignment at hand and call nobody.
LEMMA ComparesOK ==
    ASSUME IInv, NEW j \in Jobs, ~AtEnd(j), Open(j) # {}, NEW a \in Assignments, KeepWork(j, a), Compares,
           pc'[j] \in {"idle", "work"}, report'[j] \in {report[j], "partial"},
           a.status # "none", a.base = Work(j).base,
           a.draft.blocks \subseteq a.base.blocks \union {<<j, cursor[j]>>},
           Committed(j).done => a.status \in {"allocated", "submitted"} /\ a.draft = Committed(j).draft,
           a.status = "submitted" => Committed(j).done
    PROVE  OwnOK(j)'
<1>1. CheckpointTypes
  BY DEF IInv, TypeOK
<1>2. calls' \in [Jobs -> [Phases -> Nat]] /\ \A k \in Jobs, p \in Phases : calls'[k][p] <= Limit[k][p]
  BY <1>1 DEF CheckpointTypes, Compares
<1>3. /\ a.base.version <= leaf[Target(j)].version
      /\ a.base.version = leaf[Target(j)].version => a.base.blocks = leaf[Target(j)].blocks
      /\ Committed(j).done => a.base = Committed(j).base
  BY WorkIsSound
<1>4. QED
  BY <1>2, <1>3, WorkAction DEF Compares

LEMMA DraftOK ==
    ASSUME IInv, NEW j \in Jobs, Draft(j)
    PROVE  OwnOK(j)'
<1>1. /\ ~AtEnd(j) /\ Open(j) # {} /\ Work(j).draft = NoDraft
      /\ pc[j] = "call" /\ ~Pending(j) /\ CheckpointTypes
  BY DEF Draft, IInv, TypeOK, Placed, PlacedAt
<1>2. PICK d \in Drafts(j) : KeepWork(j, [Work(j) EXCEPT !.draft = d])
  BY DEF Draft
<1> DEFINE a == [Work(j) EXCEPT !.draft = d]
<1>3. d \in Texts /\ d.blocks \subseteq Work(j).base.blocks \union {<<j, cursor[j]>>}
  BY <1>1, DraftIsTyped
<1>4. ~Committed(j).done
  BY <1>1, WorkIsSound DEF NoDraft
<1>5. a \in Assignments /\ a.draft = d /\ a.base = Work(j).base /\ a.status = "allocated"
  BY <1>1, <1>3, WorkIsSound DEF Assignments
<1> HIDE DEF a
<1>6. KeepWork(j, a)
  BY <1>2 DEF a
<1>7. pc'[j] = "work" /\ report'[j] = report[j] /\ Compares
  BY <1>1, RecordIsBooked DEF Draft, Goto
<1>8. QED
  BY <1>1, <1>3, <1>4, <1>5, <1>6, <1>7, ComparesOK

LEMMA GiveUpOK ==
    ASSUME IInv, NEW j \in Jobs, TooLarge(j) \/ NoContent(j)
    PROVE  OwnOK(j)'
<1>1. ~AtEnd(j) /\ Open(j) # {}
  BY AskableAt DEF TooLarge, NoContent, Decides, Comparing
<1>2. /\ pc'[j] = "work" /\ report'[j] = report[j] /\ Compares
  BY <1>1, RecordIsBooked DEF TooLarge, NoContent, Goto
<1>3. CASE TooLarge(j)
  <2> DEFINE a == [Work(j) EXCEPT !.status = "unresolved"]
  <2>1. Work(j).draft = NoDraft /\ KeepWork(j, a)
    BY <1>3 DEF TooLarge, Askable
  <2>2. /\ a \in Assignments /\ a.draft = Work(j).draft /\ a.base = Work(j).base /\ a.status = "unresolved"
        /\ ~Committed(j).done
    BY <1>1, <2>1, WorkIsSound DEF Assignments, NoDraft
  <2> HIDE DEF a
  <2>3. QED
    BY <1>1, <1>2, <2>1, <2>2, WorkIsSound, ComparesOK
<1>4. CASE NoContent(j)
  <2> DEFINE a == [Work(j) EXCEPT !.status = Work(j).draft.kind]
  <2>1. Work(j).draft.kind \in {"no_content", "unresolved"} /\ KeepWork(j, a)
    BY <1>4 DEF NoContent
  <2>2. /\ a \in Assignments /\ a.draft = Work(j).draft /\ a.base = Work(j).base
        /\ a.status \in {"no_content", "unresolved"} /\ ~Committed(j).done
    BY <1>1, <2>1, WorkIsSound DEF Assignments
  <2> HIDE DEF a
  <2>3. QED
    BY <1>1, <1>2, <2>1, <2>2, WorkIsSound, ComparesOK
<1>5. QED
  BY <1>3, <1>4

LEMMA SaveReceiptOK ==
    ASSUME IInv, NEW j \in Jobs, SaveReceipt(j)
    PROVE  OwnOK(j)'
<1>1. ~AtEnd(j) /\ Open(j) # {} /\ Committed(j).done
  BY DEF SaveReceipt, IInv, Placed, PlacedAt
<1> DEFINE a == [Work(j) EXCEPT !.status = "submitted"]
<1>2. KeepWork(j, a) /\ pc'[j] = "work" /\ report'[j] = report[j] /\ Compares
  BY <1>1, RecordIsBooked DEF SaveReceipt
<1>3. a \in Assignments /\ a.draft = Work(j).draft /\ a.base = Work(j).base /\ a.status = "submitted"
  BY <1>1, WorkIsSound DEF Assignments
<1> HIDE DEF a
<1>4. QED
  BY <1>1, <1>2, <1>3, WorkIsSound, ComparesOK

\* A draft that is compared again or given back was not committed.
LEMMA BackOK ==
    ASSUME IInv, NEW j \in Jobs, BaseChanged(j) \/ RejectDraft(j)
    PROVE  OwnOK(j)'
<1>1. ~AtEnd(j) /\ Open(j) # {}
  BY DEF BaseChanged, RejectDraft, Refused, Submits, Decides, Comparing
<1>2. ~Committed(j).done
  BY <1>1, WorkIsSound DEF BaseChanged, RejectDraft, Refused
<1>3. ASSUME NEW a \in Assignments, KeepWork(j, a), a.draft = NoDraft, a.base = Work(j).base,
             a.status \in {"allocated", "unresolved"}, Compares,
             pc'[j] \in {"idle", "work"}, report'[j] \in {report[j], "partial"}
      PROVE  OwnOK(j)'
  <2>1. a.draft.blocks = {}
    BY <1>3 DEF NoDraft
  <2>2. QED
    BY <1>1, <1>2, <1>3, <2>1, ComparesOK
<1>4. CASE BaseChanged(j)
  <2>1. [Work(j) EXCEPT !.draft = NoDraft] \in Assignments
    BY <1>1, WorkIsSound, EmptyIsTyped DEF Assignments
  <2>2. pc'[j] \in {"idle", "work"} /\ report'[j] \in {report[j], "partial"}
    BY <1>1, <1>4, RecordIsBooked DEF BaseChanged, Submits, Decides, Partial, Stop
  <2>3. [Work(j) EXCEPT !.draft = NoDraft].status = "allocated"
    BY <1>1, WorkIsSound DEF Assignments
  <2>4. QED
    BY <1>1, <1>3, <1>4, <2>1, <2>2, <2>3, WorkIsSound DEF BaseChanged, Assignments
<1>5. CASE RejectDraft(j)
  <2>1. pc'[j] = "work" /\ report'[j] = report[j] /\ Compares
    BY <1>1, <1>5, RecordIsBooked DEF RejectDraft, Goto
  <2>2. CASE Work(j).rounds < CorrectionAttempts
    <3>0. CorrectionAttempts \in Nat
      BY LeafReadingAssumption
    <3>1. [Work(j) EXCEPT !.draft = NoDraft, !.rounds = @ + 1] \in Assignments
      <4>1. Work(j).rounds + 1 \in 0 .. CorrectionAttempts
        BY <1>1, <2>2, <3>0, WorkIsSound DEF Assignments
      <4>2. QED
        BY <1>1, <4>1, WorkIsSound, EmptyIsTyped DEF Assignments
    <3>2. QED
      BY <1>1, <1>3, <1>5, <2>1, <2>2, <3>1, WorkIsSound DEF RejectDraft, Assignments
  <2>3. CASE ~(Work(j).rounds < CorrectionAttempts)
    <3>1. [Work(j) EXCEPT !.draft = NoDraft, !.status = "unresolved"] \in Assignments
      BY <1>1, WorkIsSound, EmptyIsTyped DEF Assignments
    <3>2. QED
      BY <1>1, <1>3, <1>5, <2>1, <2>3, <3>1, WorkIsSound DEF RejectDraft, Assignments
  <2>4. QED
    BY <2>2, <2>3
<1>6. QED
  BY <1>4, <1>5

-----------------------------------------------------------------------------
\* The beginning and the end of a run.

LEMMA CursorBack ==
    ASSUME TypeOK, NEW j \in Jobs, ApplyRetry(j), Reopened(j) # {}
    PROVE  \E m \in Reopened(j) : cursor' = [cursor EXCEPT ![j] = m] /\ \A v \in Reopened(j) : m <= v
<1> DEFINE m == CHOOSE w \in Reopened(j) : \A v \in Reopened(j) : w <= v
<1>1. Reopened(j) \subseteq Nat
  BY LeafReadingAssumption DEF Reopened
<1>2. \E w \in Reopened(j) : \A v \in Reopened(j) : w <= v
  BY <1>1, Least
<1>3. m \in Reopened(j) /\ \A v \in Reopened(j) : m <= v
  BY <1>2
<1>4. cursor' = [cursor EXCEPT ![j] = m]
  BY DEF ApplyRetry
<1> HIDE DEF m
<1>5. QED
  BY <1>3, <1>4

\* What a retry does to each window.
LEMMA RetryEffect ==
    ASSUME TypeOK, NEW j \in Jobs, ApplyRetry(j)
    PROVE  /\ record' \in [Jobs -> [Windows -> Records]]
           /\ assigned' \in [Jobs -> [Windows -> [Leaves -> Assignments]]]
           /\ \A w \in Windows :
                 /\ record'[j][w].facts = record[j][w].facts /\ ~record'[j][w].blocked
                 /\ record'[j][w].status = IF Unread(j, w) THEN "read_pending"
                                           ELSE IF Unresolved(j, w) THEN "allocated"
                                           ELSE record[j][w].status
                 /\ \A l \in Leaves : assigned'[j][w][l] = Retried(assigned[j][w][l])
           /\ \A k \in Jobs \ {j} : record'[k] = record[k] /\ assigned'[k] = assigned[k]
<1> DEFINE U(w) == IF record[j][w].blocked THEN [record[j][w] EXCEPT !.blocked = FALSE, !.format = 0]
                   ELSE record[j][w]
           R(w) == IF Unread(j, w) THEN [U(w) EXCEPT !.status = "read_pending"]
                   ELSE IF Unresolved(j, w) THEN [U(w) EXCEPT !.status = "allocated"]
                   ELSE U(w)
<1>1. record' = [record EXCEPT ![j] = [w \in Windows |-> R(w)]]
  BY DEF ApplyRetry, TypeOK, CheckpointTypes
<1>2. assigned' = [assigned EXCEPT ![j] = [w \in Windows |-> [l \in Leaves |-> Retried(assigned[j][w][l])]]]
  BY DEF ApplyRetry, TypeOK, CheckpointTypes
<1>3. ASSUME NEW w \in Windows
      PROVE  /\ R(w) \in Records /\ R(w).facts = record[j][w].facts /\ ~R(w).blocked
             /\ R(w).status = IF Unread(j, w) THEN "read_pending"
                              ELSE IF Unresolved(j, w) THEN "allocated" ELSE record[j][w].status
  <2>1. record[j][w] \in Records
    BY DEF TypeOK, CheckpointTypes
  <2>2. /\ U(w) \in Records /\ U(w).facts = record[j][w].facts /\ ~U(w).blocked
        /\ U(w).status = record[j][w].status
    <3>0. ASSUME NEW q \in Records
          PROVE  LET u == [q EXCEPT !.blocked = FALSE, !.format = 0]
                 IN u \in Records /\ u.facts = q.facts /\ ~u.blocked /\ u.status = q.status
      <4> DEFINE v == [q EXCEPT !.blocked = FALSE]
      <4>1. v \in Records /\ v.facts = q.facts /\ ~v.blocked /\ v.status = q.status
        BY DEF Records
      <4>2. [q EXCEPT !.blocked = FALSE, !.format = 0] = [v EXCEPT !.format = 0]
        OBVIOUS
      <4> HIDE DEF v
      <4>3. QED
        BY <4>1, <4>2 DEF Records
    <3>1. CASE record[j][w].blocked
      BY <2>1, <3>0, <3>1
    <3>2. CASE ~record[j][w].blocked
      BY <2>1, <3>2
    <3>3. QED
      BY <3>1, <3>2
  <2> HIDE DEF U
  <2>3. QED
    BY <2>2 DEF Records
<1>4. ASSUME NEW a \in Assignments PROVE Retried(a) \in Assignments
  <2>1. 0 \in 0 .. CorrectionAttempts
    BY LeafReadingAssumption
  <2>2. QED
    BY <2>1, EmptyIsTyped DEF Retried, Assignments
<1> HIDE DEF R, U
<1>5. record' \in [Jobs -> [Windows -> Records]] /\ \A w \in Windows : record'[j][w] = R(w)
  BY <1>1, <1>3 DEF TypeOK, CheckpointTypes
<1>6. /\ assigned' \in [Jobs -> [Windows -> [Leaves -> Assignments]]]
      /\ \A w \in Windows, l \in Leaves : assigned'[j][w][l] = Retried(assigned[j][w][l])
  BY <1>2, <1>4 DEF TypeOK, CheckpointTypes
<1>7. \A k \in Jobs \ {j} : record'[k] = record[k] /\ assigned'[k] = assigned[k]
  BY <1>1, <1>2 DEF TypeOK, CheckpointTypes
<1>8. QED
  BY <1>3, <1>5, <1>6, <1>7

\* An explicit retry keeps what the checkpoint and the leaves say of each other.
LEMMA RetryKeeps ==
    ASSUME IInv, NEW j \in Jobs, ApplyRetry(j),
           UNCHANGED <<refused, leaf, operation, consumed, ledger, calls>>
    PROVE  /\ LeafTypes' /\ CheckpointTypes' /\ Data'
           /\ covered'[j] => AtEnd(j)'
<1> DEFINE back == Reopened(j) # {}
<1>0. TypeOK /\ Data /\ CheckpointTypes /\ PlacedAt(j)
  BY DEF IInv, TypeOK, Placed
<1>1. /\ record' \in [Jobs -> [Windows -> Records]]
      /\ assigned' \in [Jobs -> [Windows -> [Leaves -> Assignments]]]
      /\ \A w \in Windows :
            /\ record'[j][w].facts = record[j][w].facts /\ ~record'[j][w].blocked
            /\ record'[j][w].status = IF Unread(j, w) THEN "read_pending"
                                      ELSE IF Unresolved(j, w) THEN "allocated"
                                      ELSE record[j][w].status
            /\ \A l \in Leaves : assigned'[j][w][l] = Retried(assigned[j][w][l])
      /\ \A k \in Jobs \ {j} : record'[k] = record[k] /\ assigned'[k] = assigned[k]
  BY <1>0, RetryEffect
<1>2. ASSUME NEW w \in Windows, NEW l \in Leaves
      PROVE  LET a == assigned[j][w][l]   b == assigned'[j][w][l]
             IN /\ b.status = IF a.status = "unresolved" THEN "allocated" ELSE a.status
                /\ b.base = a.base /\ (b.draft = a.draft \/ b.draft = NoDraft)
                /\ a.status # "unresolved" => b = a
  <2>1. assigned[j][w][l] \in Assignments
    BY <1>0 DEF CheckpointTypes
  <2>2. QED
    BY <1>1, <2>1 DEF Retried, Assignments
<1>3. \A w \in Windows : (LeavesOf(j, w) = {} <=> LeavesOf(j, w)' = {})
  BY <1>2 DEF LeavesOf
<1>4. \A k \in Jobs \ {j}, w \in Windows : LeavesOf(k, w)' = LeavesOf(k, w)
  BY <1>1 DEF LeavesOf
<1>5. /\ cursor' \in [Jobs -> Nat] /\ \A k \in Jobs : cursor'[k] \in 1 .. Last[k] + 1
      /\ \A k \in Jobs \ {j} : cursor'[k] = cursor[k]
      /\ \A w \in Windows : w < cursor'[j] => w < cursor[j] /\ w \notin Reopened(j)
      /\ Reopened(j) = {} => cursor' = cursor
  <2>1. Reopened(j) \subseteq Windows /\ Reopened(j) \subseteq 1 .. Last[j] /\ Last[j] \in Nat
    BY LeafReadingAssumption DEF Reopened, Windows
  <2>2. CASE Reopened(j) = {}
    <3>1. cursor' = cursor
      BY <2>2 DEF ApplyRetry
    <3>2. QED
      BY <1>0, <2>2, <3>1 DEF CheckpointTypes
  <2>3. CASE Reopened(j) # {}
    <3>1. PICK m \in Reopened(j) : cursor' = [cursor EXCEPT ![j] = m] /\ \A v \in Reopened(j) : m <= v
      BY <1>0, <2>3, CursorBack
    <3>2. m \in Nat /\ m \in 1 .. Last[j] /\ m \in 1 .. Last[j] + 1 /\ m \in Windows
      BY <2>1
    <3>3. m <= cursor[j] /\ cursor[j] \in Nat
      BY <1>0, <3>2 DEF Data, Ahead, CheckpointTypes
    <3>4. /\ cursor' \in [Jobs -> Nat] /\ \A k \in Jobs : cursor'[k] \in 1 .. Last[k] + 1
          /\ \A k \in Jobs \ {j} : cursor'[k] = cursor[k]
          /\ cursor'[j] = m
      BY <1>0, <3>1, <3>2 DEF CheckpointTypes
    <3>5. ASSUME NEW w \in Windows, w < m PROVE w < cursor[j] /\ w \notin Reopened(j)
      <4>1. w \in Nat
        BY WindowsAreNumbers
      <4>2. QED
        BY <3>1, <3>2, <3>3, <3>5, <4>1
    <3>6. QED
      BY <2>3, <3>4, <3>5
  <2>4. QED
    BY <2>2, <2>3
<1>6. LeafTypes'
  BY <1>0 DEF TypeOK, LeafTypes
<1>7. CheckpointTypes'
  <2>1. covered' \in [Jobs -> BOOLEAN] /\ finished' \in [Jobs -> BOOLEAN]
    BY <1>0 DEF CheckpointTypes, ApplyRetry
  <2>2. QED
    BY <1>0, <1>1, <1>5, <2>1 DEF CheckpointTypes
<1>own. \A k \in Jobs \ {j} : record'[k] = record[k] /\ assigned'[k] = assigned[k]
  BY <1>1
<1>data. Planned /\ Passed /\ Ahead /\ Booked /\ Based /\ Kept /\ ReplayMatches
  BY <1>0 DEF Data
<1>8. Planned'
  <2> SUFFICES ASSUME NEW k \in Jobs, NEW w \in Windows
               PROVE  /\ record'[k][w].status \in {"none", "read_pending"} \/ w \in refused[k]
                            => \A l \in Leaves : assigned'[k][w][l].status = "none"
                      /\ record'[k][w].status \in {"allocated", "processed"} => LeavesOf(k, w)' # {}
    BY DEF Planned
  <2>1. CASE k # j
    BY <1>data, <1>own, <1>4, <2>1 DEF Planned
  <2>2. CASE k = j
    <3>1. Unresolved(j, w) => LeavesOf(j, w) # {}
      BY DEF Unresolved, LeavesOf
    <3>2. Unread(j, w) => \A l \in Leaves : assigned[j][w][l].status = "none"
      BY DEF Unread, LeavesOf
    <3>3. \A l \in Leaves : assigned[j][w][l].status = "none" => assigned'[j][w][l].status = "none"
      BY <1>2
    <3>4. QED
      BY <1>0, <1>1, <1>3, <2>2, <3>1, <3>2, <3>3 DEF Data, Planned
  <2>3. QED
    BY <2>1, <2>2
<1>9. Passed'
  <2> SUFFICES ASSUME NEW k \in Jobs, NEW w \in Windows, w < cursor'[k]
               PROVE  /\ record'[k][w].status \in {"processed", "no_content", "unresolved"}
                      /\ \A l \in Leaves : assigned'[k][w][l].status # "allocated"
    BY DEF Passed
  <2>1. CASE k # j
    BY <1>data, <1>own, <1>5, <2>1 DEF Passed
  <2>2. CASE k = j
    <3>1. w < cursor[j] /\ w \notin Reopened(j)
      BY <1>5, <2>2
    <3>2. w \in 1 .. Last[j]
      <4>1. w \in Nat /\ w >= 1
        BY LeafReadingAssumption DEF Windows
      <4>2. QED
        BY <1>0, <3>1, <4>1, LeafReadingAssumption DEF CheckpointTypes
    <3>3. ~Unread(j, w) /\ ~Unresolved(j, w)
      BY <3>1, <3>2 DEF Reopened
    <3>4. \A l \in Leaves : assigned[j][w][l].status # "unresolved"
      BY <3>3 DEF Unresolved
    <3>5. record'[j][w].status = record[j][w].status
      BY <1>1, <3>3
    <3>6. \A l \in Leaves : assigned'[j][w][l].status = assigned[j][w][l].status
      BY <1>2, <3>4
    <3>7. QED
      BY <1>data, <2>2, <3>1, <3>5, <3>6 DEF Passed
  <2>3. QED
    BY <2>1, <2>2
<1>10. Ahead'
  <2> SUFFICES ASSUME NEW k \in Jobs, NEW w \in Windows, w > cursor'[k]
               PROVE  w \notin Reopened(k)'
    BY DEF Ahead
  <2>1. CASE k # j
    <3>1. w \notin Reopened(k)
      BY <1>0, <1>5, <2>1 DEF Data, Ahead
    <3>2. QED
      BY <1>1, <2>1, <3>1 DEF Reopened, Unread, Unresolved, LeavesOf
  <2>2. CASE k = j
    <3>1. ~Unresolved(j, w)'
      BY <1>2 DEF Unresolved
    <3>2. ~Unread(j, w)'
      BY <1>1, <1>3 DEF Unread
    <3>3. QED
      BY <1>1, <2>2, <3>1, <3>2 DEF Reopened
  <2>3. QED
    BY <2>1, <2>2
<1>11. Booked'
  BY <1>0, <1>1 DEF Data, Booked
<1>12. Based'
  <2> SUFFICES ASSUME NEW k \in Jobs, NEW w \in Windows, NEW l \in Leaves
               PROVE  LET b == assigned'[k][w][l]
                      IN /\ b.base.version <= leaf[l].version
                         /\ b.base.version = leaf[l].version => b.base.blocks = leaf[l].blocks
                         /\ b.draft.blocks \subseteq b.base.blocks \union {<<k, w>>}
    BY DEF Based
  <2>1. CASE k # j
    BY <1>data, <1>own, <2>1 DEF Based
  <2>2. CASE k = j
    BY <1>data, <1>2, <2>2 DEF Based, NoDraft
  <2>3. QED
    BY <2>1, <2>2
<1>13. ReplayMatches'
  <2> SUFFICES ASSUME NEW k \in Jobs, NEW w \in Windows, NEW l \in Leaves
               PROVE  LET o == operation[k][w][l]   b == assigned'[k][w][l]
                      IN /\ o.done => b.status \in {"allocated", "submitted"} /\ b.draft = o.draft /\ b.base = o.base
                         /\ b.status = "submitted" => o.done
    BY DEF ReplayMatches
  <2>1. CASE k # j
    BY <1>data, <1>own, <2>1 DEF ReplayMatches
  <2>2. CASE k = j
    BY <1>data, <1>2, <2>2 DEF ReplayMatches
  <2>3. QED
    BY <2>1, <2>2
<1>14. Bare' /\ Kept'
  BY <1>0 DEF Data, Bare, Kept
<1>15. covered'[j] => AtEnd(j)'
  <2>1. CASE Reopened(j) = {}
    BY <1>0, <1>5, <2>1 DEF ApplyRetry, PlacedAt, AtEnd
  <2>2. CASE Reopened(j) # {}
    BY <1>0, <2>2 DEF ApplyRetry, CheckpointTypes
  <2>3. QED
    BY <2>1, <2>2
<1>16. QED
  BY <1>6, <1>7, <1>8, <1>9, <1>10, <1>11, <1>12, <1>13, <1>14, <1>15 DEF Data

LEMMA StartOK ==
    ASSUME IInv, NEW j \in Jobs, Start(j)
    PROVE  OwnOK(j)'
<1>0. TypeOK /\ PlacedAt(j) /\ report[j] = "partial"
  BY DEF IInv, Placed, Start
<1>1. UNCHANGED <<refused, leaf, operation, consumed, ledger, calls>>
  BY DEF Start, leaves
<1>2. LeafTypes' /\ CheckpointTypes' /\ Data' /\ (covered'[j] => AtEnd(j)')
  <2>1. CASE ApplyRetry(j)
    BY <1>1, <2>1, RetryKeeps
  <2>2. CASE UNCHANGED <<record, assigned, cursor, covered, finished>>
    <3>1. LeafTypes' /\ Data' /\ AtEnd(j)' = AtEnd(j)
      BY <1>1, <2>2, NothingKept
    <3>2. CheckpointTypes'
      BY <1>0, <1>1, <2>2 DEF TypeOK, CheckpointTypes
    <3>3. QED
      BY <1>0, <2>2, <3>1, <3>2 DEF PlacedAt
  <2>3. QED
    BY <2>1, <2>2 DEF Start
<1>3. /\ report'[j] = "partial"
      /\ pc'[j] = IF covered'[j] THEN "rollup" ELSE "work"
  BY <1>0 DEF Start, TypeOK, RunTypes
<1>4. PlacedAt(j)'
  BY <1>2, <1>3 DEF PlacedAt
<1>5. QED
  BY <1>2, <1>4 DEF OwnOK

LEMMA AskRetryOK ==
    ASSUME IInv, NEW j \in Jobs, AskRetry(j)
    PROVE  OwnOK(j)'
<1>1. /\ UNCHANGED <<refused, leaf, operation, consumed, ledger, record, assigned, cursor>>
      /\ UNCHANGED <<covered, calls, finished, pc, report>> /\ pc[j] = "idle" /\ report[j] = "partial"
  BY DEF AskRetry, leaves, checkpoint
<1>2. LeafTypes' /\ Data' /\ AtEnd(j)' = AtEnd(j)
  BY <1>1, NothingKept
<1>3. CheckpointTypes'
  BY <1>1 DEF IInv, TypeOK, CheckpointTypes
<1>4. QED
  BY <1>1, <1>2, <1>3 DEF OwnOK, PlacedAt, IInv, Placed

LEMMA CoverOK ==
    ASSUME IInv, NEW j \in Jobs, Cover(j)
    PROVE  OwnOK(j)'
<1>1. /\ UNCHANGED <<refused, leaf, operation, consumed, ledger, record, assigned, cursor>>
      /\ UNCHANGED <<calls, finished, report>> /\ covered' = [covered EXCEPT ![j] = TRUE]
      /\ pc[j] = "work" /\ AtEnd(j) /\ pc' = [pc EXCEPT ![j] = "rollup"]
  BY DEF Cover, leaves, Goto
<1>2. LeafTypes' /\ Data' /\ AtEnd(j)' = AtEnd(j)
  BY <1>1, NothingKept
<1>3. CheckpointTypes' /\ covered'[j] /\ pc'[j] = "rollup"
  BY <1>1 DEF IInv, TypeOK, CheckpointTypes, RunTypes
<1>4. report'[j] # "done"
  BY <1>1 DEF IInv, Placed, PlacedAt
<1>5. PlacedAt(j)'
  BY <1>1, <1>2, <1>3, <1>4 DEF PlacedAt
<1>6. QED
  BY <1>2, <1>3, <1>5 DEF OwnOK

LEMMA ConsumeRefusedOK ==
    ASSUME IInv, NEW j \in Jobs, ConsumeRefused(j)
    PROVE  OwnOK(j)'
<1>1. /\ UNCHANGED <<refused, leaf, operation, consumed, ledger, record, assigned, cursor>>
      /\ UNCHANGED <<covered, calls>> /\ finished' = [finished EXCEPT ![j] = FALSE]
      /\ pc' = [pc EXCEPT ![j] = "idle"] /\ report' = [report EXCEPT ![j] = "partial"]
  BY DEF ConsumeRefused, leaves, Partial, Stop
<1>2. LeafTypes' /\ Data' /\ AtEnd(j)' = AtEnd(j)
  BY <1>1, NothingKept
<1>3. CheckpointTypes' /\ pc'[j] = "idle" /\ report'[j] = "partial"
  BY <1>1 DEF IInv, TypeOK, CheckpointTypes, RunTypes
<1>4. PlacedAt(j)'
  BY <1>1, <1>2, <1>3 DEF PlacedAt, IInv, Placed
<1>5. QED
  BY <1>2, <1>3, <1>4 DEF OwnOK

LEMMA FinishOK ==
    ASSUME IInv, NEW j \in Jobs, Finish(j)
    PROVE  OwnOK(j)'
<1>1. /\ UNCHANGED <<refused, leaf, operation, consumed, ledger, record, assigned, cursor>>
      /\ UNCHANGED <<covered, calls>> /\ finished' = [finished EXCEPT ![j] = TRUE] /\ pc[j] = "finish"
      /\ pc' = [pc EXCEPT ![j] = "idle"]
      /\ report' = [report EXCEPT ![j] = IF Settled(j) THEN "done" ELSE "partial"]
  BY DEF Finish, leaves, Stop
<1>2. /\ LeafTypes' /\ Data' /\ AtEnd(j)' = AtEnd(j)
      /\ Settled(j)' = Settled(j) /\ Shown(j)' = Shown(j)
  BY <1>1, NothingKept
<1>3. CheckpointTypes' /\ pc'[j] = "idle" /\ (report'[j] = "done" => Settled(j))
  BY <1>1 DEF IInv, TypeOK, CheckpointTypes, RunTypes
<1>4. PlacedAt(j)'
  BY <1>1, <1>2, <1>3 DEF PlacedAt, IInv, Placed
<1>5. QED
  BY <1>2, <1>3, <1>4 DEF OwnOK

\* All changes of the leaves are shown once the briefs were rendered.
LEMMA ConsumeOK ==
    ASSUME IInv, NEW j \in Jobs, Consume(j)
    PROVE  OwnOK(j)' /\ \A l \in Leaves : consumed'[l] \in Nat /\ consumed'[l] >= consumed[l]
<1>0. TypeOK /\ LeafTypes /\ CheckpointTypes /\ RunTypes /\ Data /\ PlacedAt(j)
  BY DEF IInv, TypeOK, Placed
<1>1. /\ UNCHANGED <<refused, leaf, operation, ledger, record, assigned, cursor, calls, covered, finished, report>>
      /\ pc[j] = "rollup" /\ pc' = [pc EXCEPT ![j] = "finish"]
      /\ consumed' = [l \in Leaves |-> IF l \in Behind THEN leaf[l].version ELSE consumed[l]]
  BY DEF Consume, checkpoint, Goto
<1>2. \A l \in Leaves : /\ leaf[l].version \in Nat /\ consumed[l] \in Nat /\ consumed[l] <= leaf[l].version
                        /\ consumed'[l] \in {leaf[l].version, consumed[l]}
  BY <1>0, <1>1 DEF LeafTypes
<1>3. consumed' \in [Leaves -> Nat]
      /\ \A l \in Leaves : consumed'[l] <= leaf[l].version /\ consumed'[l] >= consumed[l] /\ consumed'[l] \in Nat
  BY <1>1, <1>2
<1>4. LeafTypes'
  BY <1>0, <1>1, <1>3 DEF LeafTypes
<1>5. CheckpointTypes'
  BY <1>0, <1>1 DEF CheckpointTypes
<1>6. Data'
  <2>1. \A k \in Jobs : Reopened(k)' = Reopened(k)
    BY <1>1 DEF Reopened, Unread, Unresolved, LeavesOf
  <2>2. QED
    BY <1>0, <1>1, <2>1 DEF Data, Bare, Planned, Passed, Ahead, Booked, Based, Kept, ReplayMatches, LeavesOf
<1>7. Shown(j)'
  <2> SUFFICES ASSUME NEW w \in Windows, NEW l \in Leaves, operation[j][w][l].changed
               PROVE  consumed'[l] >= operation[j][w][l].version
    BY <1>1 DEF Shown
  <2>1. operation[j][w][l].version \in Noticed(l)
    <3>1. <<j, w>> \in {q \in Jobs \X Windows : operation[q[1]][q[2]][l].changed}
      OBVIOUS
    <3>2. operation[<<j, w>>[1]][<<j, w>>[2]][l].version = operation[j][w][l].version
      OBVIOUS
    <3>3. QED
      BY ONLY <3>1, <3>2 DEF Noticed
  <2>2. operation[j][w][l].version \in Nat /\ operation[j][w][l].version <= leaf[l].version
    BY <1>0 DEF LeafTypes, Operations, Data, Kept
  <2>3. CASE l \in Behind
    BY <1>1, <1>2, <2>2, <2>3
  <2>4. CASE l \notin Behind
    BY <1>1, <1>2, <2>1, <2>2, <2>4 DEF Behind
  <2>5. QED
    BY <2>3, <2>4
<1>8. PlacedAt(j)'
  <2>1. covered'[j] /\ pc'[j] = "finish" /\ report'[j] # "done" /\ (AtEnd(j) => AtEnd(j)')
    BY <1>0, <1>1 DEF PlacedAt, RunTypes, AtEnd
  <2>2. QED
    BY <1>0, <1>1, <1>7, <2>1 DEF PlacedAt
<1>9. QED
  BY <1>3, <1>4, <1>5, <1>6, <1>8 DEF OwnOK

-----------------------------------------------------------------------------
\* The plan of a window, and the submission of a draft.

LEMMA PlanOK ==
    ASSUME IInv, NEW j \in Jobs, Plan(j)
    PROVE  OwnOK(j)'
<1>0. /\ ~AtEnd(j) /\ Record(j).status = "read_pending" /\ cursor[j] \in Windows /\ cursor[j] \notin refused[j]
      /\ CheckpointTypes /\ TypeOK /\ Record(j) \in Records
  BY AnswersAt, RecordIsBooked DEF Plan, Answers, IInv, TypeOK, Placed, PlacedAt
<1>1. Bare /\ Planned /\ Passed /\ Ahead /\ Booked /\ Based /\ Kept /\ ReplayMatches /\ PlacedAt(j)
  BY DEF IInv, Data, Placed
<1>2. PICK given \in SUBSET Leaves, outcome \in {"no_content", "unresolved"} :
          /\ Keep(j, [Record(j) EXCEPT !.status = IF given = {} THEN outcome ELSE "allocated"])
          /\ assigned' = [assigned EXCEPT ![j][cursor[j]] =
                            [l \in Leaves |-> IF l \in given
                                              THEN [NoAssignment EXCEPT !.status = "allocated"]
                                              ELSE NoAssignment]]
  BY DEF Plan
<1>3. /\ UNCHANGED <<refused, leaf, operation, consumed, covered, finished, ledger, cursor, calls, report>>
      /\ pc'[j] = "work"
  BY <1>0, RecordIsBooked DEF Plan, Reads, Goto
<1> DEFINE r == [Record(j) EXCEPT !.status = IF given = {} THEN outcome ELSE "allocated"]
           A(l) == IF l \in given THEN [NoAssignment EXCEPT !.status = "allocated"] ELSE NoAssignment
<1>4. /\ r \in Records /\ r.facts = Record(j).facts /\ r.blocked = Record(j).blocked
      /\ r.status = IF given = {} THEN outcome ELSE "allocated"
  BY <1>0 DEF Records
<1>5. ASSUME NEW l \in Leaves
      PROVE  /\ A(l) \in Assignments /\ A(l).base = NoBase /\ A(l).draft = NoDraft
             /\ A(l).status = IF l \in given THEN "allocated" ELSE "none"
  <2>1. NoAssignment \in Assignments /\ NoAssignment.base = NoBase /\ NoAssignment.draft = NoDraft
        /\ NoAssignment.status = "none"
    BY EmptyIsTyped DEF NoAssignment
  <2>2. QED
    BY <2>1 DEF Assignments
<1>6. Keep(j, r) /\ assigned' = [assigned EXCEPT ![j][cursor[j]] = [l \in Leaves |-> A(l)]]
  BY <1>2
<1> HIDE DEF r, A
<1>7. /\ record' \in [Jobs -> [Windows -> Records]] /\ record'[j][cursor[j]] = r
      /\ \A k \in Jobs, w \in Windows : k # j \/ w # cursor[j] => record'[k][w] = record[k][w]
  BY <1>0, <1>4, <1>6, RecordKept
<1>8. [l \in Leaves |-> A(l)] \in [Leaves -> Assignments]
  BY <1>5
<1>9. /\ assigned' \in [Jobs -> [Windows -> [Leaves -> Assignments]]]
      /\ \A l \in Leaves : assigned'[j][cursor[j]][l] = A(l)
      /\ \A k \in Jobs, w \in Windows : k # j \/ w # cursor[j] => assigned'[k][w] = assigned[k][w]
  BY <1>0, <1>6, <1>8 DEF CheckpointTypes
<1>10. LeafTypes'
  BY <1>0, <1>3 DEF TypeOK, LeafTypes
<1>11. CheckpointTypes'
  BY <1>0, <1>3, <1>7, <1>9 DEF CheckpointTypes
<1>12. \A k \in Jobs, w \in Windows : k # j \/ w # cursor[j] => LeavesOf(k, w)' = LeavesOf(k, w)
  BY <1>9 DEF LeavesOf
<1>13. /\ \A k \in Jobs, w \in Windows :
             k # j \/ w # cursor[j] => record'[k][w] = record[k][w] /\ assigned'[k][w] = assigned[k][w]
       /\ record'[j][cursor[j]].status = IF given = {} THEN outcome ELSE "allocated"
  BY <1>4, <1>7, <1>9
<1>14. \A l \in Leaves :
          /\ assigned'[j][cursor[j]][l].base = NoBase /\ assigned'[j][cursor[j]][l].draft = NoDraft
          /\ assigned'[j][cursor[j]][l].status = IF l \in given THEN "allocated" ELSE "none"
  <2> TAKE l \in Leaves
  <2>1. assigned'[j][cursor[j]][l] = A(l)
    BY <1>9
  <2>2. QED
    BY <1>5, <2>1
<1>15. Planned'
  <2> SUFFICES ASSUME NEW k \in Jobs, NEW w \in Windows
               PROVE  /\ record'[k][w].status \in {"none", "read_pending"} \/ w \in refused[k]
                            => \A l \in Leaves : assigned'[k][w][l].status = "none"
                      /\ record'[k][w].status \in {"allocated", "processed"} => LeavesOf(k, w)' # {}
    BY <1>3 DEF Planned
  <2>1. CASE k = j /\ w = cursor[j]
    <3>1. record'[k][w].status = "allocated" => given # {}
      BY ONLY <1>13, <2>1, outcome \in {"no_content", "unresolved"}
    <3>2. record'[k][w].status \notin {"none", "read_pending", "processed"}
      BY ONLY <1>13, <2>1, outcome \in {"no_content", "unresolved"}
    <3>3. \A l \in given : l \in LeavesOf(k, w)'
      BY ONLY <1>14, <2>1, given \in SUBSET Leaves DEF LeavesOf
    <3>4. QED
      BY <1>0, <2>1, <3>1, <3>2, <3>3
  <2>2. CASE ~(k = j /\ w = cursor[j])
    <3>1. LeavesOf(k, w)' = LeavesOf(k, w) /\ record'[k][w] = record[k][w] /\ assigned'[k][w] = assigned[k][w]
      BY <1>12, <1>13, <2>2
    <3>2. QED
      BY <1>1, <3>1 DEF Planned
  <2>3. QED
    BY <2>1, <2>2
<1>16. Passed'
  <2> SUFFICES ASSUME NEW k \in Jobs, NEW w \in Windows, w < cursor[k]
               PROVE  /\ record'[k][w].status \in {"processed", "no_content", "unresolved"}
                      /\ \A l \in Leaves : assigned'[k][w][l].status # "allocated"
    BY <1>3 DEF Passed
  <2>1. k = j => w # cursor[j]
    BY <1>0 DEF CheckpointTypes
  <2>2. record'[k][w] = record[k][w] /\ assigned'[k][w] = assigned[k][w]
    BY <1>13, <2>1
  <2>3. QED
    BY <1>1, <2>2 DEF Passed
<1>17. Ahead'
  <2> SUFFICES ASSUME NEW k \in Jobs, NEW w \in Windows, w > cursor[k]
               PROVE  w \notin Reopened(k)'
    BY <1>3 DEF Ahead
  <2>1. k = j => w # cursor[j]
    BY <1>0 DEF CheckpointTypes
  <2>2. w \notin Reopened(k)
    BY <1>1 DEF Ahead
  <2>3. assigned'[k][w] = assigned[k][w] /\ record'[k][w] = record[k][w]
    BY <1>7, <1>9, <2>1
  <2>4. QED
    BY <2>2, <2>3 DEF Reopened, Unread, Unresolved, LeavesOf
<1>18. Booked'
  BY <1>1, <1>3, <1>4, <1>7 DEF Booked, Record
<1>19. Based'
  <2> SUFFICES ASSUME NEW k \in Jobs, NEW w \in Windows, NEW l \in Leaves
               PROVE  LET b == assigned'[k][w][l]
                      IN /\ b.base.version <= leaf[l].version
                         /\ b.base.version = leaf[l].version => b.base.blocks = leaf[l].blocks
                         /\ b.draft.blocks \subseteq b.base.blocks \union {<<k, w>>}
    BY <1>3 DEF Based
  <2>1. CASE k = j /\ w = cursor[j]
    <3>1. leaf[l].version \in Nat
      BY <1>0 DEF TypeOK, LeafTypes
    <3>2. assigned'[k][w][l].base = NoBase /\ assigned'[k][w][l].draft = NoDraft
      BY <1>14, <2>1
    <3>3. 0 = leaf[l].version => leaf[l].blocks = {}
      BY <1>1 DEF Bare
    <3>4. QED
      BY <3>1, <3>2, <3>3 DEF NoBase, NoDraft
  <2>2. CASE ~(k = j /\ w = cursor[j])
    <3>1. assigned'[k][w] = assigned[k][w]
      BY <1>13, <2>2
    <3>2. QED
      BY <1>1, <3>1 DEF Based
  <2>3. QED
    BY <2>1, <2>2
<1>20. ReplayMatches'
  <2> SUFFICES ASSUME NEW k \in Jobs, NEW w \in Windows, NEW l \in Leaves
               PROVE  LET o == operation[k][w][l]   b == assigned'[k][w][l]
                      IN /\ o.done => b.status \in {"allocated", "submitted"} /\ b.draft = o.draft /\ b.base = o.base
                         /\ b.status = "submitted" => o.done
    BY <1>3 DEF ReplayMatches
  <2>1. CASE k = j /\ w = cursor[j]
    <3>1. assigned[j][w][l].status = "none"
      BY <1>0, <1>1, <2>1 DEF Planned, Record
    <3>2. ~operation[j][w][l].done
      BY <1>1, <3>1 DEF ReplayMatches
    <3>3. assigned'[k][w][l].status # "submitted"
      BY <1>14, <2>1
    <3>4. QED
      BY <2>1, <3>2, <3>3
  <2>2. CASE ~(k = j /\ w = cursor[j])
    <3>1. assigned'[k][w] = assigned[k][w]
      BY <1>13, <2>2
    <3>2. QED
      BY <1>1, <3>1 DEF ReplayMatches
  <2>3. QED
    BY <2>1, <2>2
<1>21. Bare' /\ Kept'
  BY <1>1, <1>3 DEF Bare, Kept
<1>22. PlacedAt(j)'
  BY <1>0, <1>3, NotDone DEF PlacedAt
<1>23. QED
  BY <1>10, <1>11, <1>15, <1>16, <1>17, <1>18, <1>19, <1>20, <1>21, <1>22 DEF OwnOK, Data

LEMMA ReplayOK ==
    ASSUME IInv, NEW j \in Jobs, Replay(j)
    PROVE  OwnOK(j)'
<1>1. /\ UNCHANGED <<refused, leaf, operation, consumed, ledger, record, assigned, cursor>>
      /\ UNCHANGED <<covered, calls, finished, report>> /\ pc' = [pc EXCEPT ![j] = "receipt"]
      /\ ~AtEnd(j) /\ Open(j) # {} /\ Committed(j).done
  BY DEF Replay, leaves, checkpoint, Goto, Submits, Decides, Comparing
<1>2. /\ LeafTypes' /\ Data' /\ AtEnd(j)' = AtEnd(j) /\ Open(j)' = Open(j)
      /\ Committed(j)' = Committed(j)
  BY <1>1, NothingKept
<1>3. CheckpointTypes' /\ pc'[j] = "receipt"
  BY <1>1 DEF IInv, TypeOK, CheckpointTypes, RunTypes
<1>4. PlacedAt(j)'
  BY <1>1, <1>2, <1>3, NotDone DEF PlacedAt
<1>5. QED
  BY <1>2, <1>3, <1>4 DEF OwnOK

\* A submission makes of the leaf the text it was shown, with at most the block of the window.
LEMMA SubmitEffect ==
    ASSUME IInv, NEW j \in Jobs, Submit(j)
    PROVE  LET l == Target(j)   w == cursor[j]   a == Work(j)   o == operation'[j][w][l]
           IN /\ ~AtEnd(j) /\ Open(j) # {} /\ l \in Leaves /\ w \in Windows /\ ~operation[j][w][l].done
              /\ leaf' \in [Leaves -> [version : Nat, blocks : SUBSET (Jobs \X Windows), legacy : BOOLEAN]]
              /\ operation' \in [Jobs -> [Windows -> [Leaves -> Operations]]]
              /\ o.done /\ o.base = a.base /\ o.draft = a.draft /\ o.draft.kind = "submit"
              /\ o.version = leaf'[l].version
              /\ leaf'[l].blocks = a.draft.blocks /\ leaf'[l].legacy = leaf[l].legacy
              /\ \/ leaf'[l].version = leaf[l].version /\ leaf'[l].blocks = leaf[l].blocks
                 \/ /\ leaf'[l].version = leaf[l].version + 1 /\ ~leaf[l].legacy
                    /\ leaf'[l].blocks = leaf[l].blocks \union {<<j, w>>}
              /\ \A m \in Leaves : m # l => leaf'[m] = leaf[m]
              /\ \A k \in Jobs, v \in Windows, m \in Leaves :
                    k # j \/ v # w \/ m # l => operation'[k][v][m] = operation[k][v][m]
<1> DEFINE l == Target(j)
           w == cursor[j]
           a == Work(j)
           d == Work(j).draft
           changed == d.blocks # leaf[l].blocks
           version == a.base.version + (IF changed THEN 1 ELSE 0)
           o == [done |-> TRUE, base |-> a.base, draft |-> d, version |-> version, changed |-> changed]
<1>1. /\ ~AtEnd(j) /\ Open(j) # {} /\ d.kind = "submit" /\ ~operation[j][w][l].done
      /\ a.base.version = leaf[l].version /\ Acceptable(j)
  BY DEF Submit, Submits, Decides, Comparing, Stale, Committed
<1>2. /\ l \in Leaves /\ w \in Windows /\ a \in Assignments
      /\ a.base.blocks = leaf[l].blocks /\ d.blocks \subseteq leaf[l].blocks \union {<<j, w>>}
      /\ leaf[l].version \in Nat
  BY <1>1, WorkIsSound
<1>3. IF leaf[l].legacy THEN d.blocks = {} /\ leaf[l].blocks = {} ELSE leaf[l].blocks \subseteq d.blocks
  BY <1>1, <1>2 DEF Acceptable, IInv, Data, Bare
<1>4. changed => ~leaf[l].legacy /\ d.blocks = leaf[l].blocks \union {<<j, w>>}
  BY <1>2, <1>3
<1>5. version \in Nat /\ version = IF changed THEN leaf[l].version + 1 ELSE leaf[l].version
  BY <1>1, <1>2
<1>6. o \in Operations
  BY <1>2, <1>5 DEF Operations, Assignments
<1>7. d.blocks \subseteq Jobs \X Windows
  BY <1>2 DEF Assignments, Texts
<1>8. /\ operation' = [operation EXCEPT ![j][w][l] = o]
      /\ leaf' = [leaf EXCEPT ![l].version = version, ![l].blocks = d.blocks]
  BY DEF Submit
<1>9. leaf \in [Leaves -> [version : Nat, blocks : SUBSET (Jobs \X Windows), legacy : BOOLEAN]]
      /\ operation \in [Jobs -> [Windows -> [Leaves -> Operations]]]
  BY DEF IInv, TypeOK, LeafTypes
<1>10. o.done /\ o.base = a.base /\ o.draft = d /\ o.version = version
  OBVIOUS
<1> HIDE DEF o, version, changed, d, a, w, l
<1>11. /\ leaf' \in [Leaves -> [version : Nat, blocks : SUBSET (Jobs \X Windows), legacy : BOOLEAN]]
       /\ leaf'[l].version = version /\ leaf'[l].blocks = d.blocks /\ leaf'[l].legacy = leaf[l].legacy
       /\ \A m \in Leaves : m # l => leaf'[m] = leaf[m]
  BY <1>2, <1>5, <1>7, <1>8, <1>9
<1>12. /\ operation' \in [Jobs -> [Windows -> [Leaves -> Operations]]]
       /\ operation'[j][w][l] = o
       /\ \A k \in Jobs, v \in Windows, m \in Leaves :
             k # j \/ v # w \/ m # l => operation'[k][v][m] = operation[k][v][m]
  BY <1>2, <1>6, <1>8, <1>9
<1>13. CASE changed
  BY <1>1, <1>2, <1>4, <1>5, <1>10, <1>11, <1>12, <1>13 DEF l, w, a, d
<1>14. CASE ~changed
  <2>1. d.blocks = leaf[l].blocks
    BY <1>14 DEF changed
  <2>2. QED
    BY <1>1, <1>2, <1>5, <1>10, <1>11, <1>12, <1>14, <2>1 DEF l, w, a, d
<1>15. QED
  BY <1>13, <1>14

LEMMA SubmitOK ==
    ASSUME IInv, NEW j \in Jobs, Submit(j)
    PROVE  OwnOK(j)'
<1> DEFINE t == Target(j)
           c == cursor[j]
           a == Work(j)
           o == operation'[j][c][t]
<1>1. /\ ~AtEnd(j) /\ Open(j) # {} /\ t \in Leaves /\ c \in Windows /\ ~operation[j][c][t].done
      /\ leaf' \in [Leaves -> [version : Nat, blocks : SUBSET (Jobs \X Windows), legacy : BOOLEAN]]
      /\ operation' \in [Jobs -> [Windows -> [Leaves -> Operations]]]
  BY SubmitEffect
<1>2. o.done /\ o.base = a.base /\ o.draft = a.draft /\ o.draft.kind = "submit" /\ o.version = leaf'[t].version
  BY SubmitEffect
<1>3. /\ leaf'[t].blocks = a.draft.blocks /\ leaf'[t].legacy = leaf[t].legacy
      /\ \/ leaf'[t].version = leaf[t].version /\ leaf'[t].blocks = leaf[t].blocks
         \/ /\ leaf'[t].version = leaf[t].version + 1 /\ ~leaf[t].legacy
            /\ leaf'[t].blocks = leaf[t].blocks \union {<<j, c>>}
  BY SubmitEffect
<1>4. \A m \in Leaves : m # t => leaf'[m] = leaf[m]
  BY SubmitEffect
<1>5. \A k \in Jobs, v \in Windows, m \in Leaves :
         k # j \/ v # c \/ m # t => operation'[k][v][m] = operation[k][v][m]
  BY SubmitEffect
<1>6. /\ UNCHANGED <<refused, consumed, ledger, record, assigned, cursor, calls, covered, finished, report>>
      /\ pc' = [pc EXCEPT ![j] = "receipt"] /\ pc[j] = "work"
  BY DEF Submit, Submits, Decides, checkpoint, Goto
<1>7. /\ Bare /\ Planned /\ Passed /\ Ahead /\ Booked /\ Based /\ Kept /\ ReplayMatches /\ PlacedAt(j)
      /\ TypeOK /\ LeafTypes /\ CheckpointTypes
  BY DEF IInv, Data, Placed, TypeOK
<1>8. a = assigned[j][c][t] /\ a.status = "allocated"
  BY <1>1, TargetIsOpen DEF Work, Open
<1> HIDE DEF t, c, a, o
\* A leaf only grows.
<1>9. \A m \in Leaves : /\ leaf[m].version \in Nat /\ leaf'[m].version \in Nat
                        /\ leaf[m].version <= leaf'[m].version
                        /\ leaf[m].blocks \subseteq leaf'[m].blocks
                        /\ leaf'[m].version = leaf[m].version => leaf'[m].blocks = leaf[m].blocks
  <2> SUFFICES ASSUME NEW m \in Leaves
               PROVE  /\ leaf[m].version \in Nat /\ leaf'[m].version \in Nat
                      /\ leaf[m].version <= leaf'[m].version
                      /\ leaf[m].blocks \subseteq leaf'[m].blocks
                      /\ leaf'[m].version = leaf[m].version => leaf'[m].blocks = leaf[m].blocks
    OBVIOUS
  <2>1. leaf[m].version \in Nat /\ leaf'[m].version \in Nat
    BY <1>1, <1>7 DEF LeafTypes
  <2>2. CASE m = t
    BY <1>3, <2>1, <2>2
  <2>3. CASE m # t
    BY <1>4, <2>1, <2>3
  <2>4. QED
    BY <2>1, <2>2, <2>3
<1>10. LeafTypes'
  <2>1. \A m \in Leaves : consumed[m] \in Nat /\ consumed[m] <= leaf[m].version
    BY <1>7 DEF LeafTypes
  <2>2. \A m \in Leaves : consumed[m] <= leaf'[m].version
    BY <1>9, <2>1
  <2>3. QED
    BY <1>1, <1>6, <1>7, <2>2 DEF LeafTypes
<1>11. CheckpointTypes'
  BY <1>6, <1>7 DEF CheckpointTypes
<1>12. Bare'
  <2> SUFFICES ASSUME NEW m \in Leaves, leaf'[m].version = 0 \/ leaf'[m].legacy
               PROVE  leaf'[m].blocks = {}
    BY DEF Bare
  <2>1. CASE m = t
    <3>1. leaf'[t].version # leaf[t].version + 1 \/ leaf[t].legacy
      BY <1>1, <1>3, <1>9, <2>1
    <3>2. leaf'[t].version = leaf[t].version /\ leaf'[t].blocks = leaf[t].blocks
      BY <1>3, <3>1
    <3>3. QED
      BY <1>1, <1>3, <1>7, <2>1, <3>2 DEF Bare
  <2>2. CASE m # t
    BY <1>4, <1>7, <2>2 DEF Bare
  <2>3. QED
    BY <2>1, <2>2
<1>13. Planned' /\ Passed' /\ Booked'
  BY <1>6, <1>7 DEF Planned, Passed, Booked, LeavesOf
<1>14. Ahead'
  BY <1>6, <1>7 DEF Ahead, Reopened, Unread, Unresolved, LeavesOf
<1>15. Based'
  <2> SUFFICES ASSUME NEW k \in Jobs, NEW w \in Windows, NEW l \in Leaves
               PROVE  LET b == assigned[k][w][l]
                      IN /\ b.base.version <= leaf'[l].version
                         /\ b.base.version = leaf'[l].version => b.base.blocks = leaf'[l].blocks
                         /\ b.draft.blocks \subseteq b.base.blocks \union {<<k, w>>}
    BY <1>6 DEF Based
  <2>1. assigned[k][w][l].base.version \in Nat
    BY <1>7 DEF CheckpointTypes, Assignments, Bases
  <2>2. /\ assigned[k][w][l].base.version <= leaf[l].version
        /\ assigned[k][w][l].base.version = leaf[l].version => assigned[k][w][l].base.blocks = leaf[l].blocks
        /\ assigned[k][w][l].draft.blocks \subseteq assigned[k][w][l].base.blocks \union {<<k, w>>}
    BY <1>7 DEF Based
  <2>3. QED
    BY <1>9, <2>1, <2>2
<1>16. Kept'
  <2> SUFFICES ASSUME NEW k \in Jobs, NEW w \in Windows, NEW l \in Leaves
               PROVE  LET p == operation'[k][w][l]
                      IN /\ p.done => /\ p.draft.kind = "submit" /\ p.version <= leaf'[l].version
                                      /\ p.draft.blocks \subseteq leaf'[l].blocks
                         /\ p.changed => p.done
    BY DEF Kept
  <2>1. CASE k = j /\ w = c /\ l = t
    BY <1>1, <1>2, <1>3, <1>9, <2>1 DEF o
  <2>2. CASE ~(k = j /\ w = c /\ l = t)
    <3>1. operation'[k][w][l] = operation[k][w][l]
      BY <1>5, <2>2
    <3>2. operation[k][w][l].version \in Nat
      BY <1>7 DEF LeafTypes, Operations
    <3>3. QED
      BY <1>7, <1>9, <3>1, <3>2 DEF Kept
  <2>3. QED
    BY <2>1, <2>2
<1>17. ReplayMatches'
  <2> SUFFICES ASSUME NEW k \in Jobs, NEW w \in Windows, NEW l \in Leaves
               PROVE  LET p == operation'[k][w][l]   b == assigned[k][w][l]
                      IN /\ p.done => b.status \in {"allocated", "submitted"} /\ b.draft = p.draft /\ b.base = p.base
                         /\ b.status = "submitted" => p.done
    BY <1>6 DEF ReplayMatches
  <2>1. CASE k = j /\ w = c /\ l = t
    BY <1>2, <1>8, <2>1 DEF o
  <2>2. CASE ~(k = j /\ w = c /\ l = t)
    BY <1>5, <1>7, <2>2 DEF ReplayMatches
  <2>3. QED
    BY <2>1, <2>2
<1>18. PlacedAt(j)'
  <2>1. /\ pc'[j] = "receipt" /\ AtEnd(j)' = AtEnd(j) /\ Open(j)' = Open(j)
        /\ report'[j] # "done" /\ covered'[j] = covered[j]
    BY <1>6, <1>7 DEF TypeOK, RunTypes, AtEnd, Open, PlacedAt
  <2>2. Target(j)' = Target(j)
    BY <2>1 DEF Target
  <2>3. Committed(j)'.done
    BY <1>2, <1>6, <2>2 DEF Committed, o, c, t
  <2>4. QED
    BY <1>1, <1>7, <2>1, <2>3 DEF PlacedAt
<1>19. QED
  BY <1>10, <1>11, <1>12, <1>13, <1>14, <1>15, <1>16, <1>17, <1>18 DEF OwnOK, Data

-----------------------------------------------------------------------------
\* The steps together.

\* Only a submission writes a leaf, and only a rollup acknowledges one.
LEMMA WhoWrites ==
    ASSUME NEW j \in Jobs, Start(j) \/ AskRetry(j) \/ Crash(j) \/ Step(j)
    PROVE  /\ Submit(j) \/ UNCHANGED <<leaf, operation>>
           /\ Consume(j) \/ UNCHANGED consumed
<1> USE DEF leaves, Reads
<1>1. CASE Start(j) \/ AskRetry(j) \/ Crash(j)
  BY <1>1 DEF Start, AskRetry, Crash
<1>2. CASE RefuseWindow(j) \/ PassWindow(j) \/ OpenWindow(j) \/ BlockFormat(j) \/ Cover(j)
  BY <1>2 DEF RefuseWindow, PassWindow, OpenWindow, BlockFormat, Cover, ReadsOnly
<1>3. CASE Ask(j) \/ StopAsking(j) \/ NoAnswer(j)
  BY <1>3 DEF Ask, StopAsking, NoAnswer
<1>4. CASE Classify(j) \/ Attribute(j) \/ MalformedAttribution(j) \/ Extract(j) \/ Plan(j) \/ MalformedPlan(j)
  BY <1>4 DEF Classify, Attribute, MalformedAttribution, Extract, Plan, MalformedPlan, ReadsOnly
<1>5. CASE Draft(j) \/ TooLarge(j) \/ NoContent(j) \/ SaveReceipt(j) \/ BaseChanged(j) \/ RejectDraft(j)
  BY <1>5 DEF Draft, TooLarge, NoContent, SaveReceipt, BaseChanged, RejectDraft, Compares
<1>6. CASE Submit(j) \/ Replay(j)
  BY <1>6 DEF Submit, Replay
<1>7. CASE Consume(j) \/ ConsumeRefused(j) \/ Finish(j)
  BY <1>7 DEF Consume, ConsumeRefused, Finish
<1>8. QED
  BY <1>1, <1>2, <1>3, <1>4, <1>5, <1>6, <1>7 DEF Step

\* Every step keeps the invariant of the job it belongs to.
LEMMA OwnIsKept ==
    ASSUME IInv, NEW j \in Jobs, Start(j) \/ AskRetry(j) \/ Crash(j) \/ Step(j)
    PROVE  OwnOK(j)'
<1>1. CASE Start(j) \/ AskRetry(j) \/ Crash(j)
  BY <1>1, StartOK, AskRetryOK, NoAnswerOK
<1>2. CASE RefuseWindow(j) \/ OpenWindow(j) \/ BlockFormat(j) \/ PassWindow(j) \/ Cover(j)
  BY <1>2, RefuseWindowOK, OpenWindowOK, PassWindowOK, CoverOK
<1>3. CASE Ask(j) \/ StopAsking(j) \/ NoAnswer(j) \/ MalformedAttribution(j)
  BY <1>3, AskOK, NoAnswerOK
<1>4. CASE Classify(j) \/ Attribute(j) \/ MalformedPlan(j) \/ Extract(j) \/ Plan(j)
  BY <1>4, AnswerOK, ExtractOK, PlanOK
<1>5. CASE Draft(j) \/ TooLarge(j) \/ NoContent(j) \/ SaveReceipt(j) \/ BaseChanged(j) \/ RejectDraft(j)
  BY <1>5, DraftOK, GiveUpOK, SaveReceiptOK, BackOK
<1>6. CASE Submit(j) \/ Replay(j)
  BY <1>6, SubmitOK, ReplayOK
<1>7. CASE Consume(j) \/ ConsumeRefused(j) \/ Finish(j)
  BY <1>7, ConsumeOK, ConsumeRefusedOK, FinishOK
<1>8. QED
  BY <1>1, <1>2, <1>3, <1>4, <1>5, <1>6, <1>7 DEF Step

LEMMA InitIsSafe == Init => IInv
<1> SUFFICES ASSUME Init PROVE IInv
  OBVIOUS
<1> USE DEF Init
<1>1. /\ \A j \in Jobs, w \in Windows : record[j][w] = NoRecord
      /\ \A j \in Jobs, w \in Windows, l \in Leaves :
            assigned[j][w][l] = NoAssignment /\ operation[j][w][l] = NoOperation
      /\ \A l \in Leaves : leaf[l].blocks = {} /\ leaf[l].version \in {0, 1} /\ consumed[l] = 0
  OBVIOUS
<1>2. NoRecord \in Records /\ NoOperation \in Operations
  BY EmptyIsTyped DEF NoRecord, Records, NoOperation, Operations
<1>3. LeafTypes
  <2>1. leaf \in [Leaves -> [version : Nat, blocks : SUBSET (Jobs \X Windows), legacy : BOOLEAN]]
    OBVIOUS
  <2>2. operation \in [Jobs -> [Windows -> [Leaves -> Operations]]]
    BY <1>2
  <2>3. refused \in [Jobs -> SUBSET Unreadable] /\ ledger \in [Jobs -> SUBSET Windows]
    OBVIOUS
  <2>4. consumed \in [Leaves -> Nat] /\ \A l \in Leaves : consumed[l] <= leaf[l].version
    BY <1>1
  <2>5. QED
    BY <2>1, <2>2, <2>3, <2>4 DEF LeafTypes
<1>4. CheckpointTypes
  <2>1. record \in [Jobs -> [Windows -> Records]] /\ assigned \in [Jobs -> [Windows -> [Leaves -> Assignments]]]
    BY <1>2, EmptyIsTyped
  <2>2. cursor \in [Jobs -> Nat] /\ \A j \in Jobs : cursor[j] \in 1 .. Last[j] + 1
    BY LeafReadingAssumption
  <2>3. calls \in [Jobs -> [Phases -> Nat]] /\ \A j \in Jobs, p \in Phases : calls[j][p] <= Limit[j][p]
    <3>1. \A j \in Jobs, p \in Phases : Limit[j][p] \in Nat
      BY LeafReadingAssumption
    <3>2. QED
      BY <3>1
  <2>4. covered \in [Jobs -> BOOLEAN] /\ finished \in [Jobs -> BOOLEAN]
    OBVIOUS
  <2>5. QED
    BY <2>1, <2>2, <2>3, <2>4 DEF CheckpointTypes
<1>5. RunTypes
  <2>1. \A j \in Jobs : MaxRetries[j] \in Nat
    BY LeafReadingAssumption
  <2>2. QED
    BY <2>1 DEF RunTypes
<1>6. Bare /\ Kept /\ Booked
  BY <1>1 DEF Bare, Kept, Booked, NoOperation, NoRecord
<1>7. Planned
  BY <1>1 DEF Planned, NoRecord, NoAssignment
<1>8. Passed
  <2>1. \A j \in Jobs, w \in Windows : ~(w < cursor[j])
    BY LeafReadingAssumption DEF Windows
  <2>2. QED
    BY <2>1 DEF Passed
<1>9. Ahead
  BY <1>1 DEF Ahead, Reopened, Unread, Unresolved, NoRecord, NoAssignment
<1>10. Based
  <2> SUFFICES ASSUME NEW k \in Jobs, NEW w \in Windows, NEW l \in Leaves
               PROVE  LET a == assigned[k][w][l]
                      IN /\ a.base.version <= leaf[l].version
                         /\ a.base.version = leaf[l].version => a.base.blocks = leaf[l].blocks
                         /\ a.draft.blocks \subseteq a.base.blocks \union {<<k, w>>}
    BY DEF Based
  <2>1. leaf[l].version \in Nat /\ leaf[l].blocks = {} /\ assigned[k][w][l] = NoAssignment
    BY <1>1
  <2>2. NoAssignment.base.version = 0 /\ NoAssignment.base.blocks = {} /\ NoAssignment.draft.blocks = {}
    BY ONLY TRUE DEF NoAssignment, NoBase, NoDraft
  <2>3. QED
    BY ONLY <2>1, <2>2
<1>11. ReplayMatches
  BY <1>1 DEF ReplayMatches, NoOperation, NoAssignment
<1>12. Placed
  BY DEF Placed, PlacedAt
<1>13. QED
  BY <1>3, <1>4, <1>5, <1>6, <1>7, <1>8, <1>9, <1>10, <1>11, <1>12 DEF IInv, TypeOK, Data

\* Every step of a job keeps the invariant.
LEMMA StepKeeps ==
    ASSUME IInv, NEW j \in Jobs, Start(j) \/ AskRetry(j) \/ Crash(j) \/ Step(j)
    PROVE  IInv'
<1>1. OwnOK(j)'
  BY OwnIsKept
<1>2. TypeOK'
  BY <1>1, RunTypesStep DEF OwnOK, TypeOK, IInv
<1>3. \A l \in Leaves : consumed'[l] \in Nat /\ consumed'[l] >= consumed[l]
  <2>1. CASE Consume(j)
    BY <2>1, ConsumeOK
  <2>2. CASE UNCHANGED consumed
    BY <2>2 DEF IInv, TypeOK, LeafTypes
  <2>3. QED
    BY <2>1, <2>2, WhoWrites
<1>4. ASSUME NEW k \in Jobs PROVE PlacedAt(k)'
  <2>1. CASE k = j
    BY <1>1, <2>1 DEF OwnOK
  <2>2. CASE k # j
    <3>1. Same(k) /\ PlacedAt(k) /\ TypeOK
      BY <2>2, OwnDataOnly DEF IInv, Placed
    <3>2. QED
      BY <1>3, <3>1, SameIsPlaced
  <2>3. QED
    BY <2>1, <2>2
<1>5. QED
  BY <1>1, <1>2, <1>4 DEF IInv, OwnOK, Placed

LEMMA NextKeeps == IInv /\ [Next]_vars => IInv'
<1> SUFFICES ASSUME IInv, [Next]_vars PROVE IInv'
  OBVIOUS
<1>1. CASE Next
  BY <1>1, StepKeeps DEF Next
<1>2. CASE UNCHANGED vars
  <2> USE <1>2 DEF vars, leaves, checkpoint
  <2>1. TypeOK'
    BY DEF IInv, TypeOK, LeafTypes, CheckpointTypes, RunTypes
  <2>2. Data'
    BY DEF IInv, Data, Bare, Planned, Passed, Ahead, Booked, Based, Kept, ReplayMatches, LeavesOf, Reopened,
           Unread, Unresolved
  <2>3. Placed'
    <3>1. \A k \in Jobs : Same(k) /\ PlacedAt(k)
      BY DEF Same, IInv, Placed
    <3>2. \A l \in Leaves : consumed'[l] \in Nat /\ consumed'[l] >= consumed[l]
      BY DEF IInv, TypeOK, LeafTypes
    <3>3. TypeOK
      BY DEF IInv
    <3>4. QED
      BY <3>1, <3>2, <3>3, SameIsPlaced DEF Placed
  <2>4. QED
    BY <2>1, <2>2, <2>3 DEF IInv
<1>3. QED
  BY <1>1, <1>2

-----------------------------------------------------------------------------
\* A retry never moves the cursor forward, a passed window stays read, and what the checkpoints say
\* of the leaves is true: every reachable state satisfies the inductive invariant.
THEOREM Invariant == Spec => []IInv
BY InitIsSafe, NextKeeps, PTL DEF Spec

\* The leaves, their operations, the checkpoints and the runs keep their types.
THEOREM TypesAreRight == Spec => []TypeOK
<1>1. IInv => TypeOK
  BY DEF IInv
<1>2. QED
  BY <1>1, Invariant, PTL

\* A run that died between the commit of a draft and the saving of its receipt finds the very
\* draft and base that were committed (_load_operation and submit in md_publish.py), whatever the
\* other documents did to the leaf since.
THEOREM ReceiptIsFound == Spec => []ReplayMatches
<1>1. IInv => ReplayMatches
  BY DEF IInv, Data
<1>2. QED
  BY <1>1, Invariant, PTL

\* The upload is told a document is done only when every window was read, nothing is left to a
\* retry, the facts are in the ledger and the changes are in the leaves and in the briefs.
THEOREM DoneIsWhole == Spec => []SuccessIsWhole
<1>1. IInv => SuccessIsWhole
  <2> SUFFICES ASSUME IInv, NEW j \in Jobs, report[j] = "done", NEW w \in 1 .. Last[j]
               PROVE  /\ record[j][w].status \in {"processed", "no_content"}
                      /\ record[j][w].facts <=> w \in ledger[j]
                      /\ \A l \in Leaves :
                            LET o == operation[j][w][l]
                            IN /\ assigned[j][w][l].status # "unresolved" /\ assigned[j][w][l].status # "allocated"
                               /\ o.done /\ o.changed => consumed[l] >= o.version /\ o.draft.blocks \subseteq leaf[l].blocks
    BY DEF SuccessIsWhole
  <2>1. w \in Windows
    BY LeafReadingAssumption DEF Windows
  <2>2. AtEnd(j) /\ Settled(j) /\ Shown(j)
    BY DEF IInv, Placed, PlacedAt
  <2>3. w < cursor[j]
    <3>1. w \in Nat /\ Last[j] \in Nat /\ cursor[j] \in Nat /\ w <= Last[j]
      BY LeafReadingAssumption DEF IInv, TypeOK, CheckpointTypes
    <3>2. QED
      BY <2>2, <3>1 DEF AtEnd
  <2>4. /\ record[j][w].status \in {"processed", "no_content", "unresolved"}
        /\ \A l \in Leaves : assigned[j][w][l].status # "allocated"
    BY <2>1, <2>3 DEF IInv, Data, Passed
  <2>5. record[j][w].status # "unresolved" /\ \A l \in Leaves : assigned[j][w][l].status # "unresolved"
    BY <2>2 DEF Settled
  <2>6. record[j][w].facts <=> w \in ledger[j]
    BY <2>1 DEF IInv, Data, Booked
  <2>7. \A l \in Leaves : operation[j][w][l].done /\ operation[j][w][l].changed =>
           consumed[l] >= operation[j][w][l].version /\ operation[j][w][l].draft.blocks \subseteq leaf[l].blocks
    BY <2>1, <2>2 DEF IInv, Data, Kept, Shown
  <2>8. QED
    BY <2>4, <2>5, <2>6, <2>7
<1>2. QED
  BY <1>1, Invariant, PTL

-----------------------------------------------------------------------------
\* The refinement: a submission is a commit of the shared leaves, every other step a stutter.

Version == [l \in Leaves |-> leaf[l].version]
Text    == [l \in Leaves |-> leaf[l].blocks]
Written == {p \in (Jobs \X Windows) \X Leaves : operation[p[1][1]][p[1][2]][p[2]].done}

\* A submission that was not on record is a commit to the shared leaf; no other step is.
LEMMA SubmitCommits ==
    ASSUME IInv, NEW j \in Jobs, Submit(j)
    PROVE  \E w \in Jobs \X Windows, l \in Leaves : Shared!Commit(w, l)
<1> DEFINE t == Target(j)
           c == cursor[j]
<1>1. /\ t \in Leaves /\ c \in Windows /\ ~operation[j][c][t].done /\ operation'[j][c][t].done
      /\ \A k \in Jobs, v \in Windows, m \in Leaves :
            k # j \/ v # c \/ m # t => operation'[k][v][m] = operation[k][v][m]
  BY SubmitEffect
<1>2. /\ \/ leaf'[t].version = leaf[t].version /\ leaf'[t].blocks = leaf[t].blocks
         \/ /\ leaf'[t].version = leaf[t].version + 1
            /\ leaf'[t].blocks = leaf[t].blocks \union {<<j, c>>}
      /\ \A m \in Leaves : m # t => leaf'[m] = leaf[m]
  BY SubmitEffect
<1> HIDE DEF t, c
<1>3. <<j, c>> \in Jobs \X Windows /\ <<<<j, c>>, t>> \notin Written
  BY <1>1 DEF Written
<1>4. Written' = Written \union {<<<<j, c>>, t>>}
  <2>1. ASSUME NEW p \in (Jobs \X Windows) \X Leaves
        PROVE  p \in Written' <=> p \in Written \/ p = <<<<j, c>>, t>>
    <3>1. PICK k \in Jobs, v \in Windows, m \in Leaves : p = <<<<k, v>>, m>>
      OBVIOUS
    <3>2. p \in Written <=> operation[k][v][m].done
      BY <3>1 DEF Written
    <3>3. p \in Written' <=> operation'[k][v][m].done
      BY <3>1 DEF Written
    <3>4. p = <<<<j, c>>, t>> <=> k = j /\ v = c /\ m = t
      BY <3>1
    <3>5. QED
      BY <1>1, <3>2, <3>3, <3>4
  <2>2. Written \subseteq (Jobs \X Windows) \X Leaves /\ Written' \subseteq (Jobs \X Windows) \X Leaves
        /\ <<<<j, c>>, t>> \in (Jobs \X Windows) \X Leaves
    BY <1>1 DEF Written
  <2>3. QED
    BY <2>1, <2>2
<1>5. \/ UNCHANGED <<Version, Text>>
      \/ /\ Text' = [Text EXCEPT ![t] = @ \union {<<j, c>>}]
         /\ Version' = [Version EXCEPT ![t] = @ + 1]
  <2>1. CASE leaf'[t].version = leaf[t].version /\ leaf'[t].blocks = leaf[t].blocks
    <3>1. \A m \in Leaves : leaf'[m].version = leaf[m].version /\ leaf'[m].blocks = leaf[m].blocks
      BY <1>2, <2>1
    <3>2. QED
      BY <3>1 DEF Version, Text
  <2>2. CASE leaf'[t].version = leaf[t].version + 1 /\ leaf'[t].blocks = leaf[t].blocks \union {<<j, c>>}
    BY <1>1, <1>2, <2>2 DEF Version, Text
  <2>3. QED
    BY <1>2, <2>1, <2>2
<1>6. /\ <<<<j, c>>, t>> \notin Written /\ Written' = Written \union {<<<<j, c>>, t>>}
      /\ \/ UNCHANGED <<Version, Text>>
         \/ /\ Text' = [Text EXCEPT ![t] = @ \union {<<j, c>>}]
            /\ Version' = [Version EXCEPT ![t] = @ + 1]
  BY <1>3, <1>4, <1>5
<1>7. \E w \in Jobs \X Windows, l \in Leaves :
         /\ <<w, l>> \notin Written /\ Written' = Written \union {<<w, l>>}
         /\ \/ UNCHANGED <<Version, Text>>
            \/ /\ Text' = [Text EXCEPT ![l] = @ \union {w}]
               /\ Version' = [Version EXCEPT ![l] = @ + 1]
  BY <1>1, <1>3, <1>6
<1>8. QED
  BY <1>7 DEF Shared!Commit, Version, Text, Written

\* Whatever the documents do at the same time, and wherever their runs die, every window commits to a
\* leaf at most once, a leaf loses nothing, and its versions follow one another: Protocol V3
\* implements the shared leaves.
THEOREM LeavesAreShared == Spec => ImplementsSharedLeaves
<1>1. Init => Shared!Init
  <2> SUFFICES ASSUME Init PROVE Shared!Init
    OBVIOUS
  <2>1. Version \in [Leaves -> {0, 1}] /\ Text = [l \in Leaves |-> {}]
    BY DEF Init, Version, Text
  <2>2. Written = {}
    <3>1. \A p \in (Jobs \X Windows) \X Leaves : ~operation[p[1][1]][p[1][2]][p[2]].done
      BY DEF Init, NoOperation
    <3>2. QED
      BY <3>1 DEF Written
  <2>3. QED
    BY <2>1, <2>2 DEF Shared!Init, Version, Text, Written
<1>2. IInv /\ [Next]_vars => [Shared!Next]_Shared!vars
  <2> SUFFICES ASSUME IInv, [Next]_vars PROVE Shared!Next \/ UNCHANGED Shared!vars
    OBVIOUS
  <2>1. ASSUME UNCHANGED <<leaf, operation>> PROVE UNCHANGED Shared!vars
    BY <2>1 DEF Shared!vars
  <2>2. CASE UNCHANGED vars
    BY <2>1, <2>2 DEF vars, leaves
  <2>3. ASSUME NEW j \in Jobs, Start(j) \/ AskRetry(j) \/ Crash(j) \/ Step(j)
        PROVE  Shared!Next \/ UNCHANGED Shared!vars
    <3>1. CASE Submit(j)
      BY <3>1, SubmitCommits DEF Shared!Next
    <3>2. CASE UNCHANGED <<leaf, operation>>
      BY <2>1, <3>2
    <3>3. QED
      BY <2>3, <3>1, <3>2, WhoWrites
  <2>4. QED
    BY <2>2, <2>3 DEF Next
<1>3. QED
  BY <1>1, <1>2, Invariant, PTL DEF Spec, ImplementsSharedLeaves, Shared!Spec
=============================================================================
