------------------------- MODULE NotesPublishProofs -------------------------
(***************************************************************************)
(* Proofs about NotesPublish: the safety properties of the publication for *)
(* any number of jobs, notes, leaves and runs.                             *)
(*                                                                         *)
(* The inductive invariant says that the run that holds the lease has the  *)
(* checkpoint in its memory, but for the one leaf it has committed and not *)
(* saved; and that whatever checkpoint a run starts from agrees with the   *)
(* ledger: a leaf with an operation is submitted in it, or still has the   *)
(* very draft that was committed.                                          *)
(***************************************************************************)
EXTENDS NotesPublish, TLAPS

\* The progress m of job j agrees with the ledger.
ItemFits(j, m, c) ==
    LET op == operations[j][c]
        item == m.items[c]
    IN  /\ item.status # "none" => \E n \in Notes : m.assignments[n] = c
        /\ item.status # "none" => m.assigned
        /\ item.status = "submitted" => op # NoOperation
        /\ m.assigned /\ op # NoOperation =>
              \/ item.status = "submitted"
              \/ /\ item.status = "assigned" /\ item.draft.kind = "text"
                 /\ item.draft.kept = op.kept /\ item.draft.carried = op.carried
                 /\ item.base = op.base

Shown(j) == \A c \in Leaves : operations[j][c].version <= consumed[c]

Fits(j, m) ==
    /\ m.assigned => StillAcceptable(j, m.assignments)
    /\ \A c \in Leaves : ItemFits(j, m, c)
    /\ m.complete => Covered(j)
    /\ m.shown => m.complete /\ Shown(j)
    /\ m.calls <= Budget[j]

\* A run that holds the lease is at step s with r in its memory, when the checkpoint is m.
RunFits(j, s, r, m) ==
    /\ s \notin {"off", "refused", "committed"} => r = m
    /\ s \in {"recheck", "leaf", "comparing", "committed"} => m.assigned /\ ~m.complete
    /\ s \in {"assign", "assigning"} => ~m.assigned /\ ~m.complete
    /\ s \in {"consume", "consumed", "finish"} => m.complete
    /\ s = "comparing" => \A c \in Leaves : IsNext(m, c) => ~Drafted(m, c)
    /\ s = "consumed" => Shown(j)
    /\ s = "committed" =>
          \E c \in Leaves : /\ operations[j][c] # NoOperation
                            /\ m.items[c].status = "assigned"
                            /\ r = Submitted(m, c)

\* The tables of the ledger agree with one another.
LedgerFits ==
    /\ \A j \in Jobs, n \in Notes :
          n \in verified[j] /\ published[n] # NoLeaf => operations[j][published[n]] # NoOperation
    /\ \A j \in Jobs, c \in Leaves :
          /\ operations[j][c] # NoOperation => \E n \in verified[j] : published[n] = c
          /\ operations[j][c].version <= leaf[c].version
    /\ \A c \in Leaves : consumed[c] <= leaf[c].version

IInv ==
    /\ TypeOK /\ LedgerFits /\ OneFactPerNote /\ EvidenceKept
    /\ \A j \in Jobs : Fits(j, checkpoint[j]) /\ spent[j] = checkpoint[j].calls
    /\ \A j \in Jobs, g \in Runs :
          Holds(j, g) => RunFits(j, pc[j][g], memory[j][g], checkpoint[j])

-----------------------------------------------------------------------------
\* Records

\* The initial records have their types.
LEMMA InitialTypes ==
    /\ NoDraft \in Drafts
    /\ NoItem \in Item
    /\ NewProgress \in Progress
BY PublishAssumption DEF NoDraft, NoItem, NewProgress, Drafts, Item, Progress, NoLeaf

\* A progress with one item replaced.
LEMMA WithItemType ==
    ASSUME NEW m \in Progress, NEW c \in Leaves, NEW i \in Item
    PROVE  /\ WithItem(m, c, i) \in Progress
           /\ WithItem(m, c, i).items = [m.items EXCEPT ![c] = i]
           /\ WithItem(m, c, i).assigned = m.assigned
           /\ WithItem(m, c, i).assignments = m.assignments
           /\ WithItem(m, c, i).attempts = m.attempts
           /\ WithItem(m, c, i).blocked = m.blocked
           /\ WithItem(m, c, i).unassigned = m.unassigned
           /\ WithItem(m, c, i).complete = m.complete
           /\ WithItem(m, c, i).shown = m.shown
           /\ WithItem(m, c, i).calls = m.calls
BY DEF WithItem, Progress

\* A replaced item that fits leaves a progress that fits.
LEMMA WithItemFits ==
    ASSUME NEW j \in Jobs, NEW m \in Progress, NEW c \in Leaves, NEW i \in Item,
           Fits(j, m), ItemFits(j, WithItem(m, c, i), c)
    PROVE  Fits(j, WithItem(m, c, i))
<1> DEFINE w == WithItem(m, c, i)
<1>1. /\ w.items = [m.items EXCEPT ![c] = i] /\ w.assigned = m.assigned
      /\ w.assignments = m.assignments /\ w.complete = m.complete
      /\ w.shown = m.shown /\ w.calls = m.calls
  BY WithItemType
<1>2. m.items \in [Leaves -> Item]
  BY DEF Progress
<1>3. ItemFits(j, w, c)
  OBVIOUS
<1> HIDE DEF w
<1>4. ASSUME NEW d \in Leaves PROVE ItemFits(j, w, d)
  <2>1. CASE d = c
    BY <2>1, <1>3
  <2>2. CASE d # c
    <3>1. w.items[d] = m.items[d]
      BY <1>1, <1>2, <2>2
    <3>2. ItemFits(j, m, d)
      BY DEF Fits
    <3>3. QED
      BY <1>1, <3>1, <3>2 DEF ItemFits
  <2>3. QED
    BY <2>1, <2>2
<1>5. Fits(j, w)
  BY <1>1, <1>4 DEF Fits
<1>6. QED
  BY <1>5 DEF w

-----------------------------------------------------------------------------
\* Steps that write the checkpoint and leave the ledger alone

\* The checkpoint of a job is replaced by one that fits.
LEMMA PutCheckpoint ==
    ASSUME IInv, NEW j \in Jobs, NEW m \in Progress, Fits(j, m),
           UNCHANGED <<verified, ledger, consumed>>,
           checkpoint' = [checkpoint EXCEPT ![j] = m],
           spent' = [spent EXCEPT ![j] = m.calls]
    PROVE  /\ LedgerFits' /\ OneFactPerNote' /\ EvidenceKept'
           /\ checkpoint' \in [Jobs -> Progress] /\ spent' \in [Jobs -> Nat]
           /\ \A k \in Jobs : Fits(k, checkpoint[k])' /\ spent'[k] = checkpoint'[k].calls
<1> USE DEF ledger
<1>1. LedgerFits' /\ OneFactPerNote' /\ EvidenceKept'
  BY DEF IInv, LedgerFits, OneFactPerNote, EvidenceKept
<1>2. m.calls \in Nat
  BY DEF Progress
<1>3. checkpoint' \in [Jobs -> Progress] /\ spent' \in [Jobs -> Nat]
  BY <1>2 DEF IInv, TypeOK
<1>4. ASSUME NEW k \in Jobs, NEW r
      PROVE  Fits(k, r)' <=> Fits(k, r)
  BY DEF Fits, ItemFits, StillAcceptable, Covers, Covered, Shown
<1>5. ASSUME NEW k \in Jobs
      PROVE  Fits(k, checkpoint[k])' /\ spent'[k] = checkpoint'[k].calls
  <2>1. CASE k = j
    <3>1. checkpoint'[k] = m /\ spent'[k] = m.calls
      BY <2>1 DEF IInv, TypeOK
    <3>2. QED
      BY <3>1, <2>1, <1>4 DEF Fits, ItemFits, StillAcceptable, Covers, Covered, Shown
  <2>2. CASE k # j
    <3>1. checkpoint'[k] = checkpoint[k] /\ spent'[k] = spent[k]
      BY <2>2 DEF IInv, TypeOK
    <3>2. Fits(k, checkpoint[k]) /\ spent[k] = checkpoint[k].calls
      BY DEF IInv
    <3>3. QED
      BY <3>1, <3>2 DEF Fits, ItemFits, StillAcceptable, Covers, Covered, Shown
  <2>3. QED
    BY <2>1, <2>2
<1>6. QED
  BY <1>1, <1>3, <1>5

\* The other runs, those of other jobs and the older ones of this job, fit as before.
OthersKept(j) ==
    /\ lease'[j].generation = lease[j].generation
    /\ \A i \in Jobs \ {j} : /\ lease'[i] = lease[i] /\ pc'[i] = pc[i]
                             /\ memory'[i] = memory[i] /\ checkpoint'[i] = checkpoint[i]

\* A run that another one takes nothing from fits as before.
LEMMA OthersFit ==
    ASSUME IInv, NEW j \in Jobs, NEW g \in Runs, Holds(j, g),
           OthersKept(j), UNCHANGED <<verified, ledger, consumed>>,
           NEW k \in Jobs, NEW h \in Runs, k # j \/ h # g, Holds(k, h)'
    PROVE  RunFits(k, pc[k][h], memory[k][h], checkpoint[k])'
<1> USE DEF OthersKept
<1>1. k # j
  BY DEF Holds, IInv, TypeOK
<1>2. Holds(k, h)
  BY <1>1 DEF Holds
<1>3. RunFits(k, pc[k][h], memory[k][h], checkpoint[k])
  BY <1>2 DEF IInv
<1>4. QED
  BY <1>1, <1>3 DEF RunFits, Shown, ledger

\* save(): the progress fits, and the run at its next step fits it.
LEMMA SaveStep ==
    ASSUME IInv, NEW j \in Jobs, NEW g \in Runs, Holds(j, g),
           NEW m \in Progress, Fits(j, m),
           NEW step \in Steps \ {"refused"}, RunFits(j, step, m, m),
           Save(j, g, m, step),
           spent' = [spent EXCEPT ![j] = m.calls],
           UNCHANGED <<verified, ledger, consumed, done>>
    PROVE  IInv'
<1> USE DEF Save, Goto
<1>1. /\ LedgerFits' /\ OneFactPerNote' /\ EvidenceKept'
      /\ checkpoint' \in [Jobs -> Progress] /\ spent' \in [Jobs -> Nat]
      /\ \A k \in Jobs : Fits(k, checkpoint[k])' /\ spent'[k] = checkpoint'[k].calls
  BY PutCheckpoint
<1>2. /\ memory' \in [Jobs -> [Runs -> Progress]] /\ memory'[j][g] = m
      /\ pc' \in [Jobs -> [Runs -> Steps]] /\ pc'[j][g] = step
  BY DEF IInv, TypeOK
<1>3. TypeOK'
  BY <1>1, <1>2 DEF IInv, TypeOK, ledger
<1>4. ASSUME NEW k \in Jobs, NEW h \in Runs, Holds(k, h)'
      PROVE  RunFits(k, pc[k][h], memory[k][h], checkpoint[k])'
  <2>1. CASE k = j /\ h = g
    <3>1. checkpoint'[j] = m
      BY DEF IInv, TypeOK
    <3>2. QED
      BY <2>1, <1>2, <3>1 DEF RunFits, Shown, ledger
  <2>2. CASE k # j \/ h # g
    <3>1. OthersKept(j)
      BY DEF OthersKept, IInv, TypeOK
    <3>2. QED
      BY <1>4, <2>2, <3>1, OthersFit
  <2>3. QED
    BY <2>1, <2>2
<1>5. QED
  BY <1>1, <1>3, <1>4 DEF IInv

\* The end of a run: the progress fits, and nobody holds the lease.
LEMMA CloseStep ==
    ASSUME IInv, NEW j \in Jobs, NEW g \in Runs, Holds(j, g),
           NEW m \in Progress, Fits(j, m),
           Stop(j, g, m) \/ Refuse(j, g, m),
           spent' = [spent EXCEPT ![j] = m.calls],
           done' \in [Jobs -> BOOLEAN],
           UNCHANGED <<verified, ledger, consumed>>
    PROVE  IInv'
<1>0. PICK step \in {"off", "refused"} : Close(j, g, m, step)
  BY DEF Stop, Refuse
<1> USE DEF Close, Goto
<1>1. /\ LedgerFits' /\ OneFactPerNote' /\ EvidenceKept'
      /\ checkpoint' \in [Jobs -> Progress] /\ spent' \in [Jobs -> Nat]
      /\ \A k \in Jobs : Fits(k, checkpoint[k])' /\ spent'[k] = checkpoint'[k].calls
  BY <1>0, PutCheckpoint
<1>2. /\ memory' \in [Jobs -> [Runs -> Progress]]
      /\ pc' \in [Jobs -> [Runs -> Steps]]
  BY <1>0, InitialTypes DEF IInv, TypeOK, Steps
<1>3. /\ lease' \in [Jobs -> [generation : Runs \cup {0}, live : BOOLEAN]]
      /\ ~lease'[j].live /\ lease'[j].generation = lease[j].generation
      /\ \A k \in Jobs \ {j} : lease'[k] = lease[k]
  BY <1>0 DEF IInv, TypeOK
<1>4. TypeOK'
  BY <1>1, <1>2, <1>3 DEF IInv, TypeOK, ledger
<1>5. ASSUME NEW k \in Jobs, NEW h \in Runs, Holds(k, h)'
      PROVE  RunFits(k, pc[k][h], memory[k][h], checkpoint[k])'
  <2>1. k # j
    BY <1>3, <1>5 DEF Holds
  <2>2. OthersKept(j)
    BY <1>0, <1>3 DEF OthersKept, IInv, TypeOK
  <2>3. QED
    BY <1>3, <1>5, <2>1, <2>2, OthersFit
<1>6. QED
  BY <1>1, <1>4, <1>5 DEF IInv

\* What a run that holds the lease has in its memory.
LEMMA HeldRun ==
    ASSUME IInv, NEW j \in Jobs, NEW g \in Runs,
           NEW s \in Steps \ {"off", "refused", "committed"}, At(j, g, s)
    PROVE  /\ Holds(j, g)
           /\ memory[j][g] \in Progress /\ Fits(j, memory[j][g])
           /\ RunFits(j, s, memory[j][g], memory[j][g])
           /\ spent = [spent EXCEPT ![j] = memory[j][g].calls]
<1>1. Holds(j, g) /\ pc[j][g] = s
  BY DEF At
<1>2. memory[j][g] \in Progress
  BY DEF IInv, TypeOK
<1>3. RunFits(j, s, memory[j][g], checkpoint[j])
  BY <1>1 DEF IInv
<1>4. memory[j][g] = checkpoint[j]
  BY <1>3 DEF RunFits
<1>5. QED
  BY <1>1, <1>2, <1>3, <1>4 DEF IInv, TypeOK

-----------------------------------------------------------------------------
\* The assignment

\* What a checkpoint assigns is still acceptable, so the recheck does not refuse it.
LEMMA RecheckStep ==
    ASSUME IInv, NEW j \in Jobs, NEW g \in Runs, Recheck(j, g)
    PROVE  IInv'
<1> DEFINE m == memory[j][g]
<1>1. "recheck" \in Steps \ {"off", "refused", "committed"} /\ "leaf" \in Steps \ {"refused"}
  BY DEF Steps
<1>2. /\ Holds(j, g) /\ m \in Progress /\ Fits(j, m) /\ RunFits(j, "recheck", m, m)
      /\ spent = [spent EXCEPT ![j] = m.calls]
  BY <1>1, HeldRun DEF Recheck
<1>3. StillAcceptable(j, m.assignments)
  BY <1>2 DEF Fits, RunFits
<1>4. RunFits(j, "leaf", m, m)
  BY <1>2 DEF RunFits
<1>5. Save(j, g, m, "leaf") /\ UNCHANGED <<verified, ledger, consumed, done, spent>>
  BY <1>3 DEF Recheck
<1> HIDE DEF m
<1>6. QED
  BY <1>1, <1>2, <1>4, <1>5, SaveStep

\* An assignment that is accepted fits: nothing of the job is committed yet.
LEMMA AssignedFits ==
    ASSUME IInv, NEW j \in Jobs, NEW m \in Progress, Fits(j, m), ~m.complete,
           NEW a \in [Notes -> Leaves \cup {NoLeaf}], Acceptable(j, a)
    PROVE  /\ Assigned(m, a) \in Progress /\ Fits(j, Assigned(m, a))
           /\ Assigned(m, a).assigned /\ ~Assigned(m, a).complete
           /\ Assigned(m, a).calls = m.calls
<1> DEFINE w == Assigned(m, a)
           items == [c \in Leaves |-> [NoItem EXCEPT !.status =
                            IF \E n \in Notes : a[n] = c THEN "assigned" ELSE "none"]]
<1>1. \A c \in Leaves : /\ items[c] \in Item
                        /\ items[c].status = IF \E n \in Notes : a[n] = c THEN "assigned" ELSE "none"
  BY InitialTypes DEF Item
<1>2. items \in [Leaves -> Item]
  BY <1>1
<1> HIDE DEF items
<1>3. /\ w \in Progress /\ w.assigned /\ w.assignments = a /\ w.items = items
      /\ w.complete = m.complete /\ w.shown = m.shown /\ w.calls = m.calls
  BY <1>2 DEF Assigned, Progress, items
<1> HIDE DEF w
<1>4. \A c \in Leaves : operations[j][c] = NoOperation
  <2>1. \A c \in Leaves : operations[j][c] # NoOperation => \E n \in verified[j] : published[n] = c
    BY DEF IInv, LedgerFits
  <2>2. \A c \in Leaves : c # NoLeaf
    BY PublishAssumption
  <2>3. QED
    BY <2>1, <2>2 DEF Acceptable
<1>5. \A c \in Leaves : ItemFits(j, w, c)
  BY <1>1, <1>3, <1>4 DEF ItemFits
<1>6. StillAcceptable(j, a)
  BY DEF Acceptable, StillAcceptable
<1>7. Fits(j, w)
  BY <1>3, <1>5, <1>6 DEF Fits
<1>8. QED
  BY <1>3, <1>7 DEF w

\* Nothing to assign: the empty assignment is acceptable.
LEMMA AssignNothingStep ==
    ASSUME IInv, NEW j \in Jobs, NEW g \in Runs, AssignNothing(j, g)
    PROVE  IInv'
<1> DEFINE m == memory[j][g]
           a == NewProgress.assignments
           w == Assigned(m, a)
<1>1. "assign" \in Steps \ {"off", "refused", "committed"} /\ "leaf" \in Steps \ {"refused"}
  BY DEF Steps
<1>2. /\ Holds(j, g) /\ m \in Progress /\ Fits(j, m) /\ RunFits(j, "assign", m, m)
      /\ spent = [spent EXCEPT ![j] = m.calls]
  BY <1>1, HeldRun DEF AssignNothing
<1>3. a \in [Notes -> Leaves \cup {NoLeaf}] /\ Acceptable(j, a)
  BY DEF NewProgress, Acceptable, Covers, AssignNothing
<1>4. Save(j, g, w, "leaf") /\ UNCHANGED <<verified, ledger, consumed, done, spent>>
  BY DEF AssignNothing
<1>5. ~m.complete
  BY <1>2 DEF RunFits
<1> HIDE DEF m, a
<1>6. w \in Progress /\ Fits(j, w) /\ w.assigned /\ ~w.complete /\ w.calls = m.calls
  BY <1>2, <1>3, <1>5, AssignedFits
<1> HIDE DEF w
<1>7. RunFits(j, "leaf", w, w)
  BY <1>6 DEF RunFits
<1>8. QED
  BY <1>1, <1>2, <1>4, <1>6, <1>7, SaveStep

\* The fields that do not decide whether a progress fits.
LEMMA FitsAlike ==
    ASSUME NEW j \in Jobs, NEW m \in Progress, NEW w \in Progress, Fits(j, m),
           w.assigned = m.assigned, w.assignments = m.assignments, w.items = m.items,
           w.complete = m.complete, w.shown = m.shown, w.calls <= Budget[j]
    PROVE  Fits(j, w)
<1>1. \A c \in Leaves : ItemFits(j, m, c) => ItemFits(j, w, c)
  BY DEF ItemFits
<1>2. QED
  BY <1>1 DEF Fits

\* A charge.
LEMMA ChargeStep ==
    ASSUME IInv, NEW j \in Jobs, NEW g \in Runs, Holds(j, g),
           NEW m \in Progress, Fits(j, m), m.calls = spent[j],
           NEW step \in Steps \ {"refused"}, Charge(j, g, m, step),
           RunFits(j, step, [m EXCEPT !.calls = @ + 1], [m EXCEPT !.calls = @ + 1]),
           UNCHANGED <<verified, ledger, consumed, done>>
    PROVE  IInv'
<1> DEFINE w == [m EXCEPT !.calls = @ + 1]
<1>1. /\ w \in Progress /\ w.calls = m.calls + 1 /\ w.assigned = m.assigned
      /\ w.assignments = m.assignments /\ w.items = m.items
      /\ w.complete = m.complete /\ w.shown = m.shown
  BY DEF Progress
<1>2. w.calls <= Budget[j]
  BY <1>1, PublishAssumption DEF Charge, Progress
<1>3. Save(j, g, w, step) /\ RunFits(j, step, w, w)
  BY DEF Charge
<1>4. spent' = [spent EXCEPT ![j] = w.calls]
  BY <1>1 DEF Charge
<1> HIDE DEF w
<1>5. Fits(j, w)
  BY <1>1, <1>2, FitsAlike
<1>6. QED
  BY <1>1, <1>3, <1>4, <1>5, SaveStep

\* A call for an assignment is a charge.
LEMMA AskAssignmentStep ==
    ASSUME IInv, NEW j \in Jobs, NEW g \in Runs, AskAssignment(j, g)
    PROVE  IInv'
<1> DEFINE m == memory[j][g]
           w == [m EXCEPT !.calls = @ + 1]
<1>1. "assign" \in Steps \ {"off", "refused", "committed"} /\ "assigning" \in Steps \ {"refused"}
  BY DEF Steps
<1>2. /\ Holds(j, g) /\ m \in Progress /\ Fits(j, m) /\ RunFits(j, "assign", m, m)
      /\ spent = [spent EXCEPT ![j] = m.calls]
  BY <1>1, HeldRun DEF AskAssignment
<1>3. m.calls = spent[j]
  BY <1>2 DEF IInv, TypeOK
<1>4. w.assigned = m.assigned /\ w.complete = m.complete
  BY <1>2 DEF Progress
<1>5. RunFits(j, "assigning", w, w)
  BY <1>2, <1>4 DEF RunFits
<1>6. Charge(j, g, m, "assigning") /\ UNCHANGED <<verified, ledger, consumed, done>>
  BY DEF AskAssignment
<1> HIDE DEF m
<1>7. QED
  BY <1>1, <1>2, <1>3, <1>5, <1>6, ChargeStep

\* A blocked assignment changes no item.
LEMMA AssignmentBlockedStep ==
    ASSUME IInv, NEW j \in Jobs, NEW g \in Runs, AssignmentBlocked(j, g)
    PROVE  IInv'
<1> DEFINE m == memory[j][g]
           w == [m EXCEPT !.blocked = TRUE]
<1>1. "assign" \in Steps \ {"off", "refused", "committed"}
  BY DEF Steps
<1>2. /\ Holds(j, g) /\ m \in Progress /\ Fits(j, m) /\ RunFits(j, "assign", m, m)
      /\ spent = [spent EXCEPT ![j] = m.calls]
  BY <1>1, HeldRun DEF AssignmentBlocked
<1>3. /\ w \in Progress /\ w.calls = m.calls /\ w.assigned = m.assigned
      /\ w.assignments = m.assignments /\ w.items = m.items
      /\ w.complete = m.complete /\ w.shown = m.shown
  BY <1>2 DEF Progress
<1>4. Stop(j, g, w) /\ UNCHANGED <<verified, ledger, consumed, done, spent>>
  BY DEF AssignmentBlocked
<1>5. done' \in [Jobs -> BOOLEAN]
  BY <1>4 DEF IInv, TypeOK
<1> HIDE DEF m, w
<1>6. Fits(j, w)
  BY <1>2, <1>3, FitsAlike DEF Fits
<1>7. QED
  BY <1>2, <1>3, <1>4, <1>5, <1>6, CloseStep

\* Neither does one that is left open.
LEMMA LeaveUnassignedStep ==
    ASSUME IInv, NEW j \in Jobs, NEW g \in Runs, LeaveUnassigned(j, g)
    PROVE  IInv'
<1> DEFINE m == memory[j][g]
           w == [m EXCEPT !.unassigned = TRUE]
<1>1. "assigning" \in Steps \ {"off", "refused", "committed"}
  BY DEF Steps
<1>2. /\ Holds(j, g) /\ m \in Progress /\ Fits(j, m) /\ RunFits(j, "assigning", m, m)
      /\ spent = [spent EXCEPT ![j] = m.calls]
  BY <1>1, HeldRun DEF LeaveUnassigned
<1>3. /\ w \in Progress /\ w.calls = m.calls /\ w.assigned = m.assigned
      /\ w.assignments = m.assignments /\ w.items = m.items
      /\ w.complete = m.complete /\ w.shown = m.shown
  BY <1>2 DEF Progress
<1>4. Stop(j, g, w) /\ UNCHANGED <<verified, ledger, consumed, done, spent>>
  BY DEF LeaveUnassigned
<1>5. done' \in [Jobs -> BOOLEAN]
  BY <1>4 DEF IInv, TypeOK
<1> HIDE DEF m, w
<1>6. Fits(j, w)
  BY <1>2, <1>3, FitsAlike DEF Fits
<1>7. QED
  BY <1>2, <1>3, <1>4, <1>5, <1>6, CloseStep

\* An answer is accepted and fits, or it is only counted.
LEMMA AnswerAssignmentStep ==
    ASSUME IInv, NEW j \in Jobs, NEW g \in Runs, AnswerAssignment(j, g)
    PROVE  IInv'
<1> DEFINE m == memory[j][g]
           w == [m EXCEPT !.attempts = @ + 1]
<1>1. /\ "assigning" \in Steps \ {"off", "refused", "committed"}
      /\ "assign" \in Steps \ {"refused"} /\ "leaf" \in Steps \ {"refused"}
  BY DEF Steps
<1>2. /\ Holds(j, g) /\ m \in Progress /\ Fits(j, m) /\ RunFits(j, "assigning", m, m)
      /\ spent = [spent EXCEPT ![j] = m.calls]
  BY <1>1, HeldRun DEF AnswerAssignment
<1>3. ~m.assigned /\ ~m.complete
  BY <1>2 DEF RunFits
<1>4. UNCHANGED <<verified, ledger, consumed, done, spent>>
  BY DEF AnswerAssignment
<1>5. PICK a \in [Notes -> Leaves \cup {NoLeaf}] :
         IF Acceptable(j, a) THEN Save(j, g, Assigned(m, a), "leaf") ELSE Save(j, g, w, "assign")
  BY DEF AnswerAssignment
<1>6. CASE Acceptable(j, a)
  <2> DEFINE v == Assigned(m, a)
  <2> HIDE DEF m
  <2>1. Save(j, g, v, "leaf")
    BY <1>5, <1>6
  <2>2. v \in Progress /\ Fits(j, v) /\ v.assigned /\ ~v.complete /\ v.calls = m.calls
    BY <1>2, <1>3, <1>6, AssignedFits
  <2> HIDE DEF v
  <2>3. RunFits(j, "leaf", v, v)
    BY <2>2 DEF RunFits
  <2>4. QED
    BY <1>1, <1>2, <1>4, <2>1, <2>2, <2>3, SaveStep
<1>7. CASE ~Acceptable(j, a)
  <2>1. Save(j, g, w, "assign")
    BY <1>5, <1>7
  <2>2. /\ w \in Progress /\ w.calls = m.calls /\ w.assigned = m.assigned
        /\ w.assignments = m.assignments /\ w.items = m.items
        /\ w.complete = m.complete /\ w.shown = m.shown
    BY <1>2 DEF Progress
  <2> HIDE DEF m, w
  <2>3. Fits(j, w)
    BY <1>2, <2>2, FitsAlike DEF Fits
  <2>4. RunFits(j, "assign", w, w)
    BY <1>3, <2>2 DEF RunFits
  <2>5. QED
    BY <1>1, <1>2, <1>4, <2>1, <2>2, <2>3, <2>4, SaveStep
<1>8. QED
  BY <1>6, <1>7

-----------------------------------------------------------------------------
\* The loop over the leaves

\* The run is at leaf c, or the employee compares it.
AtItem(j, g, c) ==
    /\ At(j, g, "leaf") \/ At(j, g, "comparing")
    /\ IsNext(memory[j][g], c)

\* A run at a leaf is at its item.
LEMMA AtLeafItem ==
    ASSUME NEW j \in Jobs, NEW g \in Runs, NEW c \in Leaves, AtLeaf(j, g, c)
    PROVE  AtItem(j, g, c)
BY DEF AtLeaf, AtItem

\* Then its progress fits and the leaf is assigned.
LEMMA LeafRun ==
    ASSUME IInv, NEW j \in Jobs, NEW g \in Runs, NEW c \in Leaves, AtItem(j, g, c)
    PROVE  /\ Holds(j, g)
           /\ memory[j][g] \in Progress /\ Fits(j, memory[j][g])
           /\ spent = [spent EXCEPT ![j] = memory[j][g].calls]
           /\ memory[j][g].assigned /\ ~memory[j][g].complete
           /\ memory[j][g].items[c] \in Item /\ memory[j][g].items[c].status = "assigned"
           /\ ItemFits(j, memory[j][g], c)
<1> DEFINE m == memory[j][g]
<1>1. /\ "leaf" \in Steps \ {"off", "refused", "committed"}
      /\ "comparing" \in Steps \ {"off", "refused", "committed"}
  BY DEF Steps
<1>2. /\ Holds(j, g) /\ m \in Progress /\ Fits(j, m)
      /\ RunFits(j, "leaf", m, m) \/ RunFits(j, "comparing", m, m)
      /\ spent = [spent EXCEPT ![j] = m.calls]
  BY <1>1, HeldRun DEF AtItem
<1>3. m.assigned /\ ~m.complete
  BY <1>2 DEF RunFits
<1>4. m.items[c] \in Item /\ m.items[c].status = "assigned"
  BY <1>2 DEF Progress, AtItem, IsNext, Open
<1>5. ItemFits(j, m, c)
  BY <1>2 DEF Fits
<1>6. QED
  BY <1>2, <1>3, <1>4, <1>5

\* A leaf whose draft is not the one of an operation is not committed.
LEMMA NotCommitted ==
    ASSUME NEW j \in Jobs, NEW m, NEW c \in Leaves, ItemFits(j, m, c), m.assigned,
           m.items[c].status = "assigned", m.items[c].draft.kind # "text"
    PROVE  operations[j][c] = NoOperation
BY DEF ItemFits

\* A leaf without a draft has no text.
LEMMA NotDrafted ==
    ASSUME NEW m, NEW c \in Leaves, ~Drafted(m, c)
    PROVE  m.items[c].draft.kind # "text"
BY DEF Drafted, NoDraft

\* While the leaf is not committed, its item may change.
LEMMA PlainItem ==
    ASSUME NEW j \in Jobs, NEW m \in Progress, NEW c \in Leaves, NEW i \in Item,
           Fits(j, m), m.items[c].status = "assigned", operations[j][c] = NoOperation,
           i.status \in {"assigned", "unresolved"}
    PROVE  /\ WithItem(m, c, i) \in Progress /\ Fits(j, WithItem(m, c, i))
           /\ WithItem(m, c, i).assigned = m.assigned
           /\ WithItem(m, c, i).complete = m.complete
           /\ WithItem(m, c, i).calls = m.calls
<1> DEFINE w == WithItem(m, c, i)
<1>1. /\ w \in Progress /\ w.items = [m.items EXCEPT ![c] = i] /\ w.assigned = m.assigned
      /\ w.assignments = m.assignments /\ w.complete = m.complete /\ w.calls = m.calls
  BY WithItemType
<1>2. w.items[c] = i
  BY <1>1 DEF Progress
<1>3. ItemFits(j, m, c)
  BY DEF Fits
<1>4. ItemFits(j, w, c)
  <2> HIDE DEF w
  <2>1. QED
    BY <1>1, <1>2, <1>3 DEF ItemFits
<1>5. Fits(j, w)
  BY <1>4, WithItemFits
<1>6. QED
  BY <1>1, <1>5

\* A save with one item changed, back to the loop.
LEMMA ItemStep ==
    ASSUME IInv, NEW j \in Jobs, NEW g \in Runs, NEW c \in Leaves, NEW i \in Item,
           AtItem(j, g, c), operations[j][c] = NoOperation,
           i.status \in {"assigned", "unresolved"},
           Save(j, g, WithItem(memory[j][g], c, i), "leaf"),
           UNCHANGED <<verified, ledger, consumed, done, spent>>
    PROVE  IInv'
<1> DEFINE m == memory[j][g]
           w == WithItem(m, c, i)
<1>1. /\ Holds(j, g) /\ m \in Progress /\ Fits(j, m) /\ m.assigned /\ ~m.complete
      /\ spent = [spent EXCEPT ![j] = m.calls]
      /\ m.items[c].status = "assigned"
  BY LeafRun
<1>2. Save(j, g, w, "leaf")
  OBVIOUS
<1> HIDE DEF m
<1>3. w \in Progress /\ Fits(j, w) /\ w.assigned = m.assigned /\ w.complete = m.complete /\ w.calls = m.calls
  <2>1. m \in Progress /\ Fits(j, m) /\ m.items[c].status = "assigned"
    BY <1>1
  <2>2. QED
    BY <2>1, PlainItem
<1> HIDE DEF w
<1>4. RunFits(j, "leaf", w, w)
  BY <1>1, <1>3 DEF RunFits
<1>5. "leaf" \in Steps \ {"refused"}
  BY DEF Steps
<1>6. QED
  BY <1>1, <1>2, <1>3, <1>4, <1>5, SaveStep

\* The run ends with one item changed.
LEMMA ItemStop ==
    ASSUME IInv, NEW j \in Jobs, NEW g \in Runs, NEW c \in Leaves, NEW i \in Item,
           AtItem(j, g, c), operations[j][c] = NoOperation,
           i.status \in {"assigned", "unresolved"},
           Stop(j, g, WithItem(memory[j][g], c, i)),
           UNCHANGED <<verified, ledger, consumed, done, spent>>
    PROVE  IInv'
<1> DEFINE m == memory[j][g]
           w == WithItem(m, c, i)
<1>1. /\ Holds(j, g) /\ m \in Progress /\ Fits(j, m)
      /\ spent = [spent EXCEPT ![j] = m.calls]
      /\ m.items[c].status = "assigned"
  BY LeafRun
<1>2. Stop(j, g, w) /\ done' \in [Jobs -> BOOLEAN]
  BY DEF IInv, TypeOK
<1> HIDE DEF m
<1>3. w \in Progress /\ Fits(j, w) /\ w.calls = m.calls
  BY <1>1, PlainItem
<1> HIDE DEF w
<1>4. QED
  BY <1>1, <1>2, <1>3, CloseStep

\* Another draft, and one more correction or change.
LEMMA NoDraftItem ==
    ASSUME NEW i \in Item, i.status = "assigned"
    PROVE  LET w == [i EXCEPT !.draft = NoDraft, !.corrections = @ + 1]
               v == [i EXCEPT !.draft = NoDraft, !.changes = @ + 1]
           IN  w \in Item /\ w.status = "assigned" /\ v \in Item /\ v.status = "assigned"
<1>1. i.corrections + 1 \in Nat /\ i.changes + 1 \in Nat
  BY DEF Item
<1>2. NoDraft \in Drafts
  BY InitialTypes
<1> DEFINE n == i.corrections + 1
           k == i.changes + 1
<1> HIDE DEF n, k
<1>3. n \in Nat /\ k \in Nat
  BY <1>1 DEF n, k
<1> HIDE DEF NoDraft
<1>4. /\ [i EXCEPT !.draft = NoDraft, !.corrections = n] \in Item
      /\ [i EXCEPT !.draft = NoDraft, !.corrections = n].status = "assigned"
  BY <1>2, <1>3 DEF Item
<1>5. /\ [i EXCEPT !.draft = NoDraft, !.changes = k] \in Item
      /\ [i EXCEPT !.draft = NoDraft, !.changes = k].status = "assigned"
  BY <1>2, <1>3 DEF Item
<1>6. QED
  BY <1>4, <1>5 DEF n, k

\* Giving up a leaf that is not committed.
LEMMA UnresolvedStep ==
    ASSUME IInv, NEW j \in Jobs, NEW g \in Runs, NEW c \in Leaves,
           AtItem(j, g, c), operations[j][c] = NoOperation,
           Save(j, g, Unresolved(memory[j][g], c), "leaf"),
           UNCHANGED <<verified, ledger, consumed, done, spent>>
    PROVE  IInv'
<1> DEFINE i == [memory[j][g].items[c] EXCEPT !.status = "unresolved", !.draft = NoDraft]
<1>1. memory[j][g].items[c] \in Item
  BY LeafRun
<1>2. i \in Item /\ i.status = "unresolved"
  BY <1>1, InitialTypes DEF Item
<1>3. Save(j, g, WithItem(memory[j][g], c, i), "leaf")
  BY DEF Unresolved
<1> HIDE DEF i
<1>4. QED
  BY <1>2, <1>3, ItemStep

\* A leaf that is too large has no draft and is not committed.
LEMMA TooLargeStep ==
    ASSUME IInv, NEW j \in Jobs, NEW g \in Runs, NEW c \in Leaves, TooLarge(j, g, c)
    PROVE  IInv'
<1>1. AtItem(j, g, c) /\ ~Drafted(memory[j][g], c)
  BY AtLeafItem DEF TooLarge
<1>2. operations[j][c] = NoOperation
  BY <1>1, LeafRun, NotDrafted, NotCommitted
<1>3. QED
  BY <1>1, <1>2, UnresolvedStep DEF TooLarge

\* A leaf that the employee gives up has no text and is not committed.
LEMMA GiveUpStep ==
    ASSUME IInv, NEW j \in Jobs, NEW g \in Runs, NEW c \in Leaves, GiveUp(j, g, c)
    PROVE  IInv'
<1>1. AtItem(j, g, c) /\ memory[j][g].items[c].draft.kind = "unresolved"
  BY AtLeafItem DEF GiveUp, Draft
<1>2. operations[j][c] = NoOperation
  BY <1>1, LeafRun, NotCommitted
<1>3. QED
  BY <1>1, <1>2, UnresolvedStep DEF GiveUp

\* A rejected draft was not committed.
LEMMA DraftRejectedStep ==
    ASSUME IInv, NEW j \in Jobs, NEW g \in Runs, NEW c \in Leaves, DraftRejected(j, g, c)
    PROVE  IInv'
<1> DEFINE m == memory[j][g]
           i == [m.items[c] EXCEPT !.draft = NoDraft, !.corrections = @ + 1]
<1>1. AtItem(j, g, c)
  BY AtLeafItem DEF DraftRejected, Submits
<1>2. operations[j][c] = NoOperation
  <2>1. CASE Malformed(j, g, c)
    BY <1>1, <2>1, LeafRun, NotCommitted DEF Malformed, Draft
  <2>2. CASE Submits(j, g, c)
    BY <2>2 DEF Submits
  <2>3. QED
    BY <2>1, <2>2 DEF DraftRejected
<1>3. UNCHANGED <<verified, ledger, consumed, done, spent>>
  BY DEF DraftRejected
<1>4. CASE m.items[c].corrections < Corrections
  <2>1. Save(j, g, WithItem(m, c, i), "leaf")
    BY <1>4 DEF DraftRejected, Corrected
  <2>2. m.items[c] \in Item /\ m.items[c].status = "assigned"
    BY <1>1, LeafRun
  <2>3. i \in Item /\ i.status = "assigned"
    BY <2>2, NoDraftItem
  <2> HIDE DEF i
  <2>4. QED
    BY <1>1, <1>2, <1>3, <2>1, <2>3, ItemStep
<1>5. CASE ~(m.items[c].corrections < Corrections)
  <2>1. Save(j, g, Unresolved(m, c), "leaf")
    BY <1>5 DEF DraftRejected
  <2>2. QED
    BY <1>1, <1>2, <1>3, <2>1, UnresolvedStep
<1>6. QED
  BY <1>4, <1>5

\* Nor was one whose base has changed.
LEMMA BaseChangedStep ==
    ASSUME IInv, NEW j \in Jobs, NEW g \in Runs, NEW c \in Leaves, BaseChanged(j, g, c)
    PROVE  IInv'
<1> DEFINE m == memory[j][g]
           i == [m.items[c] EXCEPT !.draft = NoDraft, !.changes = @ + 1]
<1>1. AtItem(j, g, c) /\ operations[j][c] = NoOperation
  BY AtLeafItem DEF BaseChanged, Submits
<1>2. UNCHANGED <<verified, ledger, consumed, done, spent>>
  BY DEF BaseChanged
<1>3. m.items[c] \in Item /\ m.items[c].status = "assigned"
  BY <1>1, LeafRun
<1>4. i \in Item /\ i.status = "assigned"
  BY <1>3, NoDraftItem
<1>5. Stop(j, g, WithItem(m, c, i)) \/ Save(j, g, WithItem(m, c, i), "leaf")
  BY DEF BaseChanged, Changed
<1> HIDE DEF i
<1>6. QED
  BY <1>1, <1>2, <1>4, <1>5, ItemStep, ItemStop

\* The item of a leaf as it was read.
LEMMA ReadItem ==
    ASSUME IInv, NEW j \in Jobs, NEW g \in Runs, NEW c \in Leaves,
           AtLeaf(j, g, c), ~Drafted(memory[j][g], c)
    PROVE  \E i \in Item :
              /\ Read(j, g, c) = WithItem(memory[j][g], c, i)
              /\ i.status = "assigned" /\ i.draft = NoDraft
<1> DEFINE i == [memory[j][g].items[c] EXCEPT !.base = leaf[c].version, !.old = leaf[c].notes]
<1>1. memory[j][g].items[c] \in Item /\ memory[j][g].items[c].status = "assigned"
  BY AtLeafItem, LeafRun
<1>2. leaf[c].version \in Nat /\ leaf[c].notes \in SUBSET Notes
  BY DEF IInv, TypeOK
<1>3. i \in Item /\ i.status = "assigned" /\ i.draft = memory[j][g].items[c].draft
  BY <1>1, <1>2 DEF Item
<1>4. Read(j, g, c) = WithItem(memory[j][g], c, i)
  BY DEF Read
<1>5. memory[j][g].items[c].draft = NoDraft
  BY DEF Drafted
<1> HIDE DEF i
<1>6. QED
  BY <1>3, <1>4, <1>5

\* A progress with the same open leaves has the same next leaf.
LEMMA SameNext ==
    ASSUME NEW m, NEW c \in Leaves, NEW w, NEW d \in Leaves, IsNext(m, c), IsNext(w, d),
           \A e \in Leaves : w.items[e].status = m.items[e].status
    PROVE  d = c
BY PublishAssumption DEF IsNext, Open

\* A leaf is compared only while it has no draft.
LEMMA AskDraftStep ==
    ASSUME IInv, NEW j \in Jobs, NEW g \in Runs, NEW c \in Leaves, AskDraft(j, g, c)
    PROVE  IInv'
<1> DEFINE m == memory[j][g]
           x == [Read(j, g, c) EXCEPT !.calls = @ + 1]
<1>1. AtLeaf(j, g, c) /\ ~Drafted(m, c) /\ IsNext(m, c)
  BY DEF AskDraft, AtLeaf
<1>2. Charge(j, g, Read(j, g, c), "comparing") /\ UNCHANGED <<verified, ledger, consumed, done>>
  BY DEF AskDraft
<1>3. PICK i \in Item : /\ Read(j, g, c) = WithItem(m, c, i)
                        /\ i.status = "assigned" /\ i.draft = NoDraft
  BY <1>1, ReadItem
<1> DEFINE w == WithItem(m, c, i)
<1>4. operations[j][c] = NoOperation
  BY <1>1, AtLeafItem, LeafRun, NotDrafted, NotCommitted
<1>5. /\ Holds(j, g) /\ m \in Progress /\ Fits(j, m) /\ m.assigned /\ ~m.complete
      /\ m.items[c].status = "assigned" /\ m.calls = spent[j]
  <2>1. spent = [spent EXCEPT ![j] = m.calls]
    BY <1>1, AtLeafItem, LeafRun
  <2>2. m.calls = spent[j]
    BY <2>1 DEF IInv, TypeOK
  <2>3. QED
    BY <1>1, <2>2, AtLeafItem, LeafRun
<1> HIDE DEF m
<1>6. /\ w \in Progress /\ Fits(j, w) /\ w.assigned = m.assigned /\ w.complete = m.complete
      /\ w.calls = m.calls
  BY <1>3, <1>4, <1>5, PlainItem
<1>7. w.items = [m.items EXCEPT ![c] = i]
  BY <1>5, WithItemType
<1> HIDE DEF w
<1>8. /\ x.assigned = w.assigned /\ x.complete = w.complete /\ x.items = w.items
  BY <1>3, <1>6 DEF w, Progress
<1>9. x.items[c] = i /\ \A e \in Leaves : x.items[e].status = m.items[e].status
  BY <1>3, <1>5, <1>7, <1>8 DEF Progress
<1> HIDE DEF x
<1>10. ASSUME NEW d \in Leaves, IsNext(x, d) PROVE ~Drafted(x, d)
  <2>1. d = c
    BY <1>1, <1>9, <1>10, SameNext
  <2>2. QED
    BY <2>1, <1>3, <1>9 DEF Drafted
<1>11. RunFits(j, "comparing", x, x)
  BY <1>5, <1>6, <1>8, <1>10 DEF RunFits
<1>12. Charge(j, g, w, "comparing") /\ RunFits(j, "comparing", [w EXCEPT !.calls = @ + 1], [w EXCEPT !.calls = @ + 1])
  BY <1>2, <1>3, <1>11 DEF w, x
<1>13. "comparing" \in Steps \ {"refused"}
  BY DEF Steps
<1>14. w.calls = spent[j]
  BY <1>5, <1>6
<1>15. QED
  BY <1>2, <1>5, <1>6, <1>12, <1>13, <1>14, ChargeStep

\* A run that has no call left stops with what it has read.
LEMMA BudgetStopStep ==
    ASSUME IInv, NEW j \in Jobs, NEW g \in Runs, BudgetStop(j, g)
    PROVE  IInv'
<1> DEFINE m == memory[j][g]
<1>1. UNCHANGED <<verified, ledger, consumed, done, spent>> /\ done' \in [Jobs -> BOOLEAN]
  BY DEF BudgetStop, IInv, TypeOK
<1>2. CASE At(j, g, "assign") /\ Stop(j, g, m)
  <2>1. "assign" \in Steps \ {"off", "refused", "committed"}
    BY DEF Steps
  <2>2. /\ Holds(j, g) /\ m \in Progress /\ Fits(j, m)
        /\ spent = [spent EXCEPT ![j] = m.calls]
    BY <1>2, <2>1, HeldRun
  <2> HIDE DEF m
  <2>3. QED
    BY <1>1, <1>2, <2>2, CloseStep
<1>3. ASSUME NEW c \in Leaves, AtLeaf(j, g, c), ~Drafted(m, c), Stop(j, g, Read(j, g, c))
      PROVE  IInv'
  <2>1. PICK i \in Item : /\ Read(j, g, c) = WithItem(m, c, i)
                          /\ i.status = "assigned" /\ i.draft = NoDraft
    BY <1>3, ReadItem
  <2>2. operations[j][c] = NoOperation
    BY <1>3, AtLeafItem, LeafRun, NotDrafted, NotCommitted
  <2>3. AtItem(j, g, c) /\ Stop(j, g, WithItem(m, c, i))
    BY <1>3, <2>1, AtLeafItem
  <2>4. QED
    BY <1>1, <2>1, <2>2, <2>3, ItemStop
<1>4. QED
  BY <1>2, <1>3 DEF BudgetStop

\* The draft is for a leaf that is not committed.
LEMMA AnswerDraftStep ==
    ASSUME IInv, NEW j \in Jobs, NEW g \in Runs, AnswerDraft(j, g)
    PROVE  IInv'
<1> DEFINE m == memory[j][g]
           Answers(c) == Texts(m.items[c].old)
                            \cup {[NoDraft EXCEPT !.kind = k] : k \in {"malformed", "unresolved"}}
<1>1. At(j, g, "comparing") /\ UNCHANGED <<verified, ledger, consumed, done, spent>>
  BY DEF AnswerDraft
<1>2. PICK c \in Leaves :
         /\ IsNext(m, c)
         /\ \E d \in Answers(c) :
               Save(j, g, WithItem(m, c, [m.items[c] EXCEPT !.draft = d]), "leaf")
  BY DEF AnswerDraft
<1>3. PICK d \in Answers(c) : Save(j, g, WithItem(m, c, [m.items[c] EXCEPT !.draft = d]), "leaf")
  BY <1>2
<1> DEFINE i == [m.items[c] EXCEPT !.draft = d]
<1>4. AtItem(j, g, c)
  BY <1>1, <1>2 DEF AtItem
<1>5. m.items[c] \in Item /\ m.items[c].status = "assigned"
  BY <1>4, LeafRun
<1>6. d \in Drafts
  <2>1. m.items[c].old \subseteq Notes
    BY <1>5 DEF Item
  <2>2. CASE d \in Texts(m.items[c].old)
    BY <2>1, <2>2 DEF Texts, Drafts
  <2>3. CASE d \notin Texts(m.items[c].old)
    BY <1>3, <2>3 DEF NoDraft, Drafts
  <2>4. QED
    BY <2>2, <2>3
<1>7. i \in Item /\ i.status = "assigned"
  BY <1>5, <1>6 DEF Item
<1>8. operations[j][c] = NoOperation
  <2>1. "comparing" \in Steps \ {"off", "refused", "committed"}
    BY DEF Steps
  <2>2. RunFits(j, "comparing", m, m)
    BY <1>1, <2>1, HeldRun
  <2>3. ~Drafted(m, c)
    BY <1>2, <2>2 DEF RunFits
  <2>4. QED
    BY <1>4, <2>3, LeafRun, NotDrafted, NotCommitted
<1>9. Save(j, g, WithItem(m, c, i), "leaf")
  BY <1>3
<1> HIDE DEF i
<1>10. QED
  BY <1>1, <1>4, <1>7, <1>8, <1>9, ItemStep

\* A failed call changes nothing.
LEMMA CallFailsStep ==
    ASSUME IInv, NEW j \in Jobs, NEW g \in Runs, CallFails(j, g)
    PROVE  IInv'
<1> DEFINE m == memory[j][g]
<1>1. /\ "assigning" \in Steps \ {"off", "refused", "committed"}
      /\ "comparing" \in Steps \ {"off", "refused", "committed"}
  BY DEF Steps
<1>2. /\ Holds(j, g) /\ m \in Progress /\ Fits(j, m)
      /\ spent = [spent EXCEPT ![j] = m.calls]
  BY <1>1, HeldRun DEF CallFails
<1>3. Stop(j, g, m) /\ UNCHANGED <<verified, ledger, consumed, done, spent>>
  BY DEF CallFails
<1>4. done' \in [Jobs -> BOOLEAN]
  BY <1>3 DEF IInv, TypeOK
<1> HIDE DEF m
<1>5. QED
  BY <1>2, <1>3, <1>4, CloseStep

-----------------------------------------------------------------------------
\* The commit of a leaf

\* A committed leaf may be submitted in the progress.
LEMMA SubmittedFits ==
    ASSUME NEW j \in Jobs, NEW m \in Progress, NEW c \in Leaves, Fits(j, m),
           m.items[c].status = "assigned", operations[j][c] # NoOperation
    PROVE  /\ Submitted(m, c) \in Progress /\ Fits(j, Submitted(m, c))
           /\ Submitted(m, c).assigned = m.assigned
           /\ Submitted(m, c).complete = m.complete
           /\ Submitted(m, c).calls = m.calls
<1> DEFINE i == [m.items[c] EXCEPT !.status = "submitted"]
           w == WithItem(m, c, i)
<1>1. i \in Item /\ i.status = "submitted"
  BY DEF Progress, Item
<1>2. w = Submitted(m, c)
  BY DEF Submitted
<1> HIDE DEF i
<1>3. /\ w \in Progress /\ w.items = [m.items EXCEPT ![c] = i] /\ w.assigned = m.assigned
      /\ w.assignments = m.assignments /\ w.complete = m.complete /\ w.calls = m.calls
  BY <1>1, WithItemType
<1>4. w.items[c] = i
  BY <1>3 DEF Progress
<1>5. ItemFits(j, m, c)
  BY DEF Fits
<1>6. ItemFits(j, w, c)
  <2> HIDE DEF w
  <2>1. QED
    BY <1>1, <1>3, <1>4, <1>5 DEF ItemFits
<1>7. Fits(j, w)
  BY <1>1, <1>6, WithItemFits
<1>8. QED
  BY <1>2, <1>3, <1>7

\* A replay finds the request of the operation, and so is not refused.
LEMMA ReplayStep ==
    ASSUME IInv, NEW j \in Jobs, NEW g \in Runs, NEW c \in Leaves, Replay(j, g, c)
    PROVE  IInv'
<1> DEFINE m == memory[j][g]
           w == Submitted(m, c)
<1>1. AtItem(j, g, c) /\ operations[j][c] # NoOperation
  BY AtLeafItem DEF Replay
<1>2. /\ Holds(j, g) /\ m \in Progress /\ Fits(j, m) /\ m.assigned /\ ~m.complete
      /\ m.items[c].status = "assigned" /\ ItemFits(j, m, c)
      /\ spent = [spent EXCEPT ![j] = m.calls]
  BY <1>1, LeafRun
<1>3. /\ m.items[c].draft.kept = operations[j][c].kept
      /\ m.items[c].draft.carried = operations[j][c].carried
      /\ m.items[c].base = operations[j][c].base
  BY <1>1, <1>2 DEF ItemFits
<1>4. Save(j, g, w, "leaf") /\ UNCHANGED <<verified, ledger, consumed, done, spent>>
  BY <1>3 DEF Replay, Draft
<1> HIDE DEF m
<1>5. /\ w \in Progress /\ Fits(j, w) /\ w.assigned = m.assigned /\ w.complete = m.complete
      /\ w.calls = m.calls
  BY <1>1, <1>2, SubmittedFits
<1> HIDE DEF w
<1>6. RunFits(j, "leaf", w, w)
  BY <1>2, <1>5 DEF RunFits
<1>7. "leaf" \in Steps \ {"refused"}
  BY DEF Steps
<1>8. QED
  BY <1>2, <1>4, <1>5, <1>6, <1>7, SaveStep

\* The committed leaf is saved as submitted.
LEMMA SaveCommittedStep ==
    ASSUME IInv, NEW j \in Jobs, NEW g \in Runs, SaveCommitted(j, g)
    PROVE  IInv'
<1> DEFINE m == checkpoint[j]
           w == memory[j][g]
<1>1. Holds(j, g) /\ pc[j][g] = "committed"
  BY DEF SaveCommitted, At
<1>2. RunFits(j, "committed", w, m)
  BY <1>1 DEF IInv
<1>3. m \in Progress /\ Fits(j, m) /\ spent = [spent EXCEPT ![j] = m.calls]
  BY DEF IInv, TypeOK
<1>4. Save(j, g, w, "leaf") /\ UNCHANGED <<verified, ledger, consumed, done, spent>>
  BY DEF SaveCommitted
<1> HIDE DEF m, w
<1>5. m.assigned /\ ~m.complete
  BY <1>2 DEF RunFits
<1>c. PICK c \in Leaves : /\ operations[j][c] # NoOperation
                          /\ m.items[c].status = "assigned"
                          /\ w = Submitted(m, c)
  BY <1>2 DEF RunFits
<1>6. /\ w \in Progress /\ Fits(j, w) /\ w.assigned = m.assigned /\ w.complete = m.complete
      /\ w.calls = m.calls
  BY <1>3, <1>c, SubmittedFits
<1>7. RunFits(j, "leaf", w, w)
  BY <1>5, <1>6 DEF RunFits
<1>8. "leaf" \in Steps \ {"refused"}
  BY DEF Steps
<1>9. QED
  BY <1>1, <1>3, <1>4, <1>6, <1>7, <1>8, SaveStep

\* What a commit finds: the notes of the leaf are the job's own and unpublished, so that
\* it is not refused for one that is published.
LEMMA CommitFinds ==
    ASSUME IInv, NEW j \in Jobs, NEW g \in Runs, NEW c \in Leaves, Submits(j, g, c)
    PROVE  /\ Unpublished(j, g, c)
           /\ Group(memory[j][g], c) \subseteq verified[j]
           /\ \E n \in Notes : n \in Group(memory[j][g], c)
           /\ memory[j][g] = checkpoint[j]
<1> DEFINE m == memory[j][g]
<1>1. AtItem(j, g, c) /\ operations[j][c] = NoOperation /\ c # NoLeaf
  BY AtLeafItem, PublishAssumption DEF Submits
<1>2. /\ m \in Progress /\ Fits(j, m) /\ m.assigned /\ ItemFits(j, m, c)
      /\ m.items[c].status = "assigned"
  BY <1>1, LeafRun
<1>3. StillAcceptable(j, m.assignments)
  BY <1>2 DEF Fits
<1>4. Group(m, c) \subseteq verified[j]
  BY <1>1, <1>3 DEF StillAcceptable, Covers, Group
<1>5. Unpublished(j, g, c)
  <2> SUFFICES ASSUME NEW n \in Group(m, c) PROVE published[n] = NoLeaf
    BY DEF Unpublished
  <2>1. n \in Notes /\ n \in verified[j] /\ m.assignments[n] = c
    BY <1>4 DEF Group
  <2>2. published[n] \in {NoLeaf, c}
    BY <1>3, <2>1 DEF StillAcceptable
  <2>3. published[n] # c
    BY <1>1, <2>1 DEF IInv, LedgerFits
  <2>4. QED
    BY <2>2, <2>3
<1>6. \E n \in Notes : n \in Group(m, c)
  BY <1>2 DEF ItemFits, Group
<1>7. m = checkpoint[j]
  <2>1. Holds(j, g) /\ pc[j][g] = "leaf"
    BY DEF Submits, AtLeaf, At
  <2>2. RunFits(j, "leaf", m, checkpoint[j])
    BY <2>1 DEF IInv
  <2>3. QED
    BY <2>2 DEF RunFits
<1>8. QED
  BY <1>4, <1>5, <1>6, <1>7

\* What a commit of the notes G leaves, point by point.
LEMMA CommitWrites ==
    ASSUME IInv, NEW j \in Jobs, NEW g \in Runs, NEW c \in Leaves, Commit(j, g, c),
           NEW G, G = Group(memory[j][g], c)
    PROVE  /\ SameBase(j, g, c) /\ Retains(j, g, c)
           /\ \A n \in Notes :
                 /\ n \in G => published[n] = NoLeaf /\ published'[n] = c /\ facts'[n] = facts[n] + 1
                 /\ n \notin G => published'[n] = published[n] /\ facts'[n] = facts[n]
           /\ operations'[j][c] = [version |-> leaf[c].version + 1, base |-> leaf[c].version,
                                   kept |-> Draft(j, g, c).kept,
                                   carried |-> Draft(j, g, c).carried]
           /\ \A k \in Jobs, d \in Leaves :
                 k # j \/ d # c => operations'[k][d] = operations[k][d]
           /\ leaf'[c].version = leaf[c].version + 1
           /\ leaf'[c].notes = Draft(j, g, c).kept \cup G
           /\ \A d \in Leaves : d # c => leaf'[d] = leaf[d]
           /\ pc' = [pc EXCEPT ![j][g] = "committed"]
           /\ memory' = [memory EXCEPT ![j][g] = Submitted(@, c)]
           /\ UNCHANGED <<lease, checkpoint, verified, consumed, done, spent>>
<1>1. Submits(j, g, c)
  BY DEF Commit
<1>2. Unpublished(j, g, c)
  BY <1>1, CommitFinds
<1>3. /\ SameBase(j, g, c) /\ Retains(j, g, c)
      /\ pc' = [pc EXCEPT ![j][g] = "committed"]
      /\ memory' = [memory EXCEPT ![j][g] = Submitted(@, c)]
      /\ UNCHANGED <<lease, checkpoint, verified, consumed, done, spent>>
  BY <1>2 DEF Commit, Goto
<1>4. \A n \in Notes :
         /\ n \in G => published[n] = NoLeaf /\ published'[n] = c /\ facts'[n] = facts[n] + 1
         /\ n \notin G => published'[n] = published[n] /\ facts'[n] = facts[n]
  <2>1. /\ published' = [n \in Notes |-> IF n \in G THEN c ELSE published[n]]
        /\ facts' = [n \in Notes |-> IF n \in G THEN facts[n] + 1 ELSE facts[n]]
    BY <1>2 DEF Commit
  <2>2. \A n \in G : published[n] = NoLeaf
    BY <1>2 DEF Unpublished
  <2>3. QED
    BY <2>1, <2>2
<1> DEFINE op == [version |-> leaf[c].version + 1, base |-> leaf[c].version,
                  kept |-> Draft(j, g, c).kept, carried |-> Draft(j, g, c).carried]
<1>5. /\ operations'[j][c] = op
      /\ \A k \in Jobs, d \in Leaves : k # j \/ d # c => operations'[k][d] = operations[k][d]
  <2>1. operations' = [operations EXCEPT ![j][c] = op]
    BY <1>2 DEF Commit
  <2> HIDE DEF op
  <2>2. QED
    BY <2>1 DEF IInv, TypeOK
<1> DEFINE body == [version |-> leaf[c].version + 1, notes |-> Draft(j, g, c).kept \cup G]
<1>6. leaf'[c] = body /\ \A d \in Leaves : d # c => leaf'[d] = leaf[d]
  <2>1. leaf' = [leaf EXCEPT ![c] = body]
    BY <1>2 DEF Commit
  <2> HIDE DEF body
  <2>2. QED
    BY <2>1 DEF IInv, TypeOK
<1>7. QED
  BY <1>3, <1>4, <1>5, <1>6

\* A commit keeps the types.
LEMMA CommitTypes ==
    ASSUME IInv, NEW j \in Jobs, NEW g \in Runs, NEW c \in Leaves, Commit(j, g, c)
    PROVE  TypeOK'
<1> DEFINE m == memory[j][g]
           kept == Draft(j, g, c).kept
           carried == Draft(j, g, c).carried
<1>1. Submits(j, g, c)
  BY DEF Commit
<1>2. AtItem(j, g, c) /\ operations[j][c] = NoOperation
  BY <1>1, AtLeafItem DEF Submits
<1>3. leaf[c].version \in Nat /\ leaf[c].version + 1 \in Nat
  BY DEF IInv, TypeOK
<1>4. kept \in SUBSET Notes /\ carried \in SUBSET Notes /\ Group(m, c) \in SUBSET Notes
  <2>1. m.items[c] \in Item
    BY <1>2, LeafRun
  <2>2. QED
    BY <2>1 DEF Item, Drafts, Draft, Group
<1>5. leaf' \in [Leaves -> [version : Nat, notes : SUBSET Notes]]
  <2>1. leaf' = [leaf EXCEPT ![c] = [version |-> leaf[c].version + 1, notes |-> kept \cup Group(m, c)]]
    BY <1>1 DEF Commit
  <2> HIDE DEF kept, m
  <2>2. kept \cup Group(m, c) \in SUBSET Notes
    BY <1>4
  <2>3. QED
    BY <1>3, <2>1, <2>2 DEF IInv, TypeOK
<1>6. operations' \in [Jobs -> [Leaves -> [version : Nat, base : Nat, kept : SUBSET Notes,
                                         carried : SUBSET Notes]]]
  <2>1. operations' = [operations EXCEPT ![j][c] =
            [version |-> leaf[c].version + 1, base |-> leaf[c].version, kept |-> kept,
             carried |-> carried]]
    BY <1>1 DEF Commit
  <2> HIDE DEF kept, carried
  <2>2. QED
    BY <1>3, <1>4, <2>1 DEF IInv, TypeOK
<1>7. /\ published' \in [Notes -> Leaves \cup {NoLeaf}] /\ facts' \in [Notes -> Nat]
      /\ placed' \in [Notes -> Places]
  <2>1. /\ published' = [n \in Notes |-> IF n \in Group(m, c) THEN c ELSE published[n]]
        /\ facts' = [n \in Notes |-> IF n \in Group(m, c) THEN facts[n] + 1 ELSE facts[n]]
        /\ placed' = [n \in Notes |-> IF n \in Group(m, c) THEN "here" ELSE placed[n]]
    BY <1>1 DEF Commit
  <2>2. QED
    BY <2>1 DEF IInv, TypeOK, Places
<1>8. memory' \in [Jobs -> [Runs -> Progress]] /\ pc' \in [Jobs -> [Runs -> Steps]]
  <2>1. memory' = [memory EXCEPT ![j][g] = Submitted(m, c)] /\ pc' = [pc EXCEPT ![j][g] = "committed"]
    BY <1>1 DEF Commit, Goto
  <2>2. Submitted(m, c) \in Progress
    <3>1. m \in Progress /\ m.items[c] \in Item
      BY <1>2, LeafRun
    <3>2. [m.items[c] EXCEPT !.status = "submitted"] \in Item
      BY <3>1 DEF Item
    <3>3. QED
      BY <3>1, <3>2, WithItemType DEF Submitted
  <2> HIDE DEF m
  <2>3. QED
    BY <2>1, <2>2 DEF IInv, TypeOK, Steps
<1>9. QED
  BY <1>1, <1>5, <1>6, <1>7, <1>8 DEF Commit, IInv, TypeOK

\* A commit keeps the tables in agreement: one fact per note, the evidence in the leaf.
LEMMA CommitLedger ==
    ASSUME IInv, NEW j \in Jobs, NEW g \in Runs, NEW c \in Leaves, Commit(j, g, c)
    PROVE  LedgerFits' /\ OneFactPerNote' /\ EvidenceKept'
<1> DEFINE G == Group(memory[j][g], c)
           kept == Draft(j, g, c).kept
<1>1. /\ SameBase(j, g, c) /\ Retains(j, g, c)
      /\ \A n \in Notes :
            /\ n \in G => published[n] = NoLeaf /\ published'[n] = c /\ facts'[n] = facts[n] + 1
            /\ n \notin G => published'[n] = published[n] /\ facts'[n] = facts[n]
      /\ operations'[j][c] = [version |-> leaf[c].version + 1, base |-> leaf[c].version,
                              kept |-> kept, carried |-> Draft(j, g, c).carried]
      /\ \A k \in Jobs, d \in Leaves :
            k # j \/ d # c => operations'[k][d] = operations[k][d]
      /\ leaf'[c].version = leaf[c].version + 1
      /\ leaf'[c].notes = kept \cup G
      /\ \A d \in Leaves : d # c => leaf'[d] = leaf[d]
      /\ UNCHANGED <<verified, consumed>>
  BY CommitWrites
<1>2. G \subseteq verified[j] /\ (\E n \in Notes : n \in G)
  BY CommitFinds DEF Commit
<1> HIDE DEF G, kept
<1>3. /\ \A d \in Leaves : leaf[d].version \in Nat /\ consumed[d] \in Nat
      /\ \A k \in Jobs, d \in Leaves : operations[k][d].version \in Nat
      /\ \A n \in Notes : published[n] \in Leaves \cup {NoLeaf}
      /\ \A k \in Jobs : verified[k] \subseteq Notes
      /\ \A k \in Jobs : k # j => verified[k] \cap verified[j] = {}
      /\ \A d \in Leaves : d # NoLeaf
  BY PublishAssumption DEF IInv, TypeOK
<1>4. operations'[j][c] # NoOperation
  BY <1>1, <1>3 DEF NoOperation
<1>5. OneFactPerNote'
  BY <1>1, <1>3 DEF IInv, OneFactPerNote
<1>6. EvidenceKept'
  BY <1>1, <1>3 DEF IInv, EvidenceKept, Retains, kept
<1>7. ASSUME NEW k \in Jobs, NEW n \in Notes, n \in verified'[k], published'[n] # NoLeaf
      PROVE  operations'[k][published'[n]] # NoOperation
  <2>1. CASE n \in G
    BY <1>1, <1>2, <1>3, <1>4, <1>7, <2>1
  <2>2. CASE n \notin G
    <3>1. operations[k][published[n]] # NoOperation
      BY <1>1, <1>7, <2>2 DEF IInv, LedgerFits
    <3>2. QED
      BY <1>1, <1>3, <1>4, <1>7, <2>2, <3>1
  <2>3. QED
    BY <2>1, <2>2
<1>8. ASSUME NEW k \in Jobs, NEW d \in Leaves, operations'[k][d] # NoOperation
      PROVE  \E n \in verified'[k] : published'[n] = d
  <2>1. CASE k = j /\ d = c
    BY <1>1, <1>2, <2>1
  <2>2. CASE ~(k = j /\ d = c)
    <3>1. PICK n \in verified[k] : published[n] = d
      BY <1>1, <1>8, <2>2 DEF IInv, LedgerFits
    <3>2. QED
      BY <1>1, <1>3, <3>1
  <2>3. QED
    BY <2>1, <2>2
<1>9. ASSUME NEW k \in Jobs, NEW d \in Leaves
      PROVE  operations'[k][d].version <= leaf'[d].version /\ consumed'[d] <= leaf'[d].version
  <2>1. operations[k][d].version <= leaf[d].version /\ consumed[d] <= leaf[d].version
    BY DEF IInv, LedgerFits
  <2>2. leaf[d].version <= leaf'[d].version
    BY <1>1, <1>3
  <2>3. leaf'[d].version \in Nat
    BY <1>1, <1>3
  <2>4. CASE k = j /\ d = c
    BY <1>1, <1>3, <2>1, <2>2, <2>3, <2>4
  <2>5. CASE ~(k = j /\ d = c)
    <3>1. operations'[k][d] = operations[k][d] /\ consumed'[d] = consumed[d]
      BY <1>1, <2>5
    <3>2. QED
      BY <1>3, <2>1, <2>2, <2>3, <3>1
  <2>6. QED
    BY <2>4, <2>5
<1>10. LedgerFits'
  BY <1>7, <1>8, <1>9 DEF LedgerFits
<1>11. QED
  BY <1>5, <1>6, <1>10

\* The checkpoints fit after a commit, although none is written by it.
LEMMA CommitFits ==
    ASSUME IInv, NEW j \in Jobs, NEW g \in Runs, NEW c \in Leaves, Commit(j, g, c),
           NEW k \in Jobs
    PROVE  Fits(k, checkpoint[k])'
<1> DEFINE G == Group(memory[j][g], c)
           op == [version |-> leaf[c].version + 1, base |-> leaf[c].version,
                  kept |-> Draft(j, g, c).kept, carried |-> Draft(j, g, c).carried]
<1>1. /\ SameBase(j, g, c)
      /\ \A n \in Notes :
            /\ n \in G => published[n] = NoLeaf /\ published'[n] = c /\ facts'[n] = facts[n] + 1
            /\ n \notin G => published'[n] = published[n] /\ facts'[n] = facts[n]
      /\ operations'[j][c] = op
      /\ \A i \in Jobs, d \in Leaves :
            i # j \/ d # c => operations'[i][d] = operations[i][d]
      /\ UNCHANGED <<checkpoint, verified, consumed>>
  BY CommitWrites
<1> DEFINE m == checkpoint[k]
<1>2. /\ G \subseteq verified[j] /\ memory[j][g] = checkpoint[j]
      /\ verified[k] \subseteq Notes /\ c # NoLeaf
  BY CommitFinds, PublishAssumption DEF Commit, IInv, TypeOK
<1>3. Fits(k, m)
  BY DEF IInv
<1>4. \A n \in Notes : published[n] # NoLeaf => published'[n] = published[n]
  BY <1>1
<1>5. m.complete => Covered(k)'
  BY <1>1, <1>2, <1>3, <1>4 DEF Fits, Covered
<1>6. m.calls <= Budget[k]
  BY <1>3 DEF Fits
<1>7. CASE k # j
  <2>1. \A n \in verified[k] : n \notin G
    BY <1>2, <1>7, PublishAssumption DEF IInv, TypeOK
  <2>2. m.assigned => StillAcceptable(k, m.assignments)'
    BY <1>1, <1>2, <1>3, <2>1 DEF Fits, StillAcceptable, Covers
  <2>3. \A d \in Leaves : ItemFits(k, m, d)'
    BY <1>1, <1>3, <1>7 DEF Fits, ItemFits
  <2>4. m.shown => m.complete /\ Shown(k)'
    BY <1>1, <1>3, <1>7 DEF Fits, Shown
  <2>5. QED
    BY <1>1, <1>5, <1>6, <2>2, <2>3, <2>4 DEF Fits, StillAcceptable, Covers, ItemFits
<1>8. CASE k = j
  <2>1. AtItem(j, g, c) /\ Draft(j, g, c).kind = "text"
    BY AtLeafItem DEF Commit, Submits
  <2>2. /\ m.assigned /\ ~m.complete /\ m.items[c].status = "assigned"
        /\ m.items[c].draft.kind = "text"
    BY <1>2, <1>8, <2>1, LeafRun DEF Draft
  <2>3. \A n \in G : m.assignments[n] = c
    BY <1>2, <1>8 DEF Group
  <2>4. StillAcceptable(j, m.assignments)'
    BY <1>1, <1>2, <1>3, <1>8, <2>2, <2>3 DEF Fits, StillAcceptable, Covers
  <2>5. /\ operations'[j][c].kept = m.items[c].draft.kept
        /\ operations'[j][c].carried = m.items[c].draft.carried
        /\ operations'[j][c].base = m.items[c].base
    BY <1>1, <1>2, <1>8 DEF SameBase, Draft
  <2>6. \E n \in Notes : m.assignments[n] = c
    BY <1>3, <2>2 DEF Fits, ItemFits
  <2>7. ItemFits(j, m, c)'
    BY <1>1, <1>8, <2>2, <2>5, <2>6 DEF ItemFits
  <2>8. \A d \in Leaves : d # c => ItemFits(j, m, d)'
    BY <1>1, <1>3, <1>8 DEF Fits, ItemFits
  <2>9. ~m.shown
    BY <1>3, <2>2 DEF Fits
  <2>10. QED
    BY <1>1, <1>6, <1>8, <2>2, <2>4, <2>7, <2>8, <2>9 DEF Fits, StillAcceptable, Covers, ItemFits
<1>9. QED
  BY <1>7, <1>8

\* A commit keeps the invariant.
LEMMA CommitStep ==
    ASSUME IInv, NEW j \in Jobs, NEW g \in Runs, NEW c \in Leaves, Commit(j, g, c)
    PROVE  IInv'
<1>1. /\ operations'[j][c] = [version |-> leaf[c].version + 1, base |-> leaf[c].version,
                              kept |-> Draft(j, g, c).kept, carried |-> Draft(j, g, c).carried]
      /\ \A k \in Jobs, d \in Leaves :
            k # j \/ d # c => operations'[k][d] = operations[k][d]
      /\ pc' = [pc EXCEPT ![j][g] = "committed"]
      /\ memory' = [memory EXCEPT ![j][g] = Submitted(@, c)]
      /\ UNCHANGED <<lease, checkpoint, verified, consumed, done, spent>>
  BY CommitWrites
<1>2. Holds(j, g) /\ memory[j][g] = checkpoint[j]
  BY CommitFinds DEF Commit, Submits, AtLeaf, At
<1>3. TypeOK' /\ LedgerFits' /\ OneFactPerNote' /\ EvidenceKept'
  BY CommitTypes, CommitLedger
<1>4. \A k \in Jobs : Fits(k, checkpoint[k])' /\ spent'[k] = checkpoint'[k].calls
  BY <1>1, CommitFits DEF IInv
<1>5. ASSUME NEW k \in Jobs, NEW h \in Runs, Holds(k, h)'
      PROVE  RunFits(k, pc[k][h], memory[k][h], checkpoint[k])'
  <2>1. Holds(k, h)
    BY <1>1, <1>5 DEF Holds
  <2>2. RunFits(k, pc[k][h], memory[k][h], checkpoint[k])
    BY <2>1 DEF IInv
  <2>3. CASE k # j
    <3>1. pc'[k] = pc[k] /\ memory'[k] = memory[k]
      BY <1>1, <2>3 DEF IInv, TypeOK
    <3>2. Shown(k)' <=> Shown(k)
      BY <1>1, <2>3 DEF Shown
    <3>3. QED
      BY <1>1, <2>2, <2>3, <3>1, <3>2 DEF RunFits
  <2>4. CASE k = j
    <3>1. h = g
      BY <1>2, <2>1, <2>4 DEF Holds
    <3>2. pc'[j][g] = "committed" /\ memory'[j][g] = Submitted(checkpoint[j], c)
      BY <1>1, <1>2 DEF IInv, TypeOK
    <3>3. operations'[j][c] # NoOperation
      BY <1>1 DEF IInv, TypeOK, NoOperation
    <3>4. /\ checkpoint[j].assigned /\ ~checkpoint[j].complete
          /\ checkpoint[j].items[c].status = "assigned"
      BY <1>2, AtLeafItem, LeafRun DEF Commit, Submits
    <3>5. QED
      BY <1>1, <2>4, <3>1, <3>2, <3>3, <3>4 DEF RunFits
  <2>5. QED
    BY <2>3, <2>4
<1>6. QED
  BY <1>3, <1>4, <1>5 DEF IInv

\* A refused commit ends the run, with its draft in the checkpoint.
LEMMA CommitRefusedStep ==
    ASSUME IInv, NEW j \in Jobs, NEW g \in Runs, NEW c \in Leaves, CommitRefused(j, g, c)
    PROVE  IInv'
<1> DEFINE m == memory[j][g]
<1>1. AtItem(j, g, c)
  BY AtLeafItem DEF CommitRefused, Submits
<1>2. /\ Holds(j, g) /\ m \in Progress /\ Fits(j, m)
      /\ spent = [spent EXCEPT ![j] = m.calls]
  BY <1>1, LeafRun
<1>3. Refuse(j, g, m) /\ UNCHANGED <<verified, ledger, consumed, done, spent>>
  BY DEF CommitRefused
<1>4. done' \in [Jobs -> BOOLEAN]
  BY <1>3 DEF IInv, TypeOK
<1> HIDE DEF m
<1>5. QED
  BY <1>2, <1>3, <1>4, CloseStep

\* Where a fact is placed is in no checkpoint.
LEMMA MoveStep ==
    ASSUME IInv, NEW n, NEW place \in Places, Move(n, place)
    PROVE  IInv'
<1>1. UNCHANGED <<verified, lease, pc, memory, checkpoint, leaf, operations, published, facts,
                  consumed, done, spent>>
  BY DEF Move, runs
<1>2. TypeOK'
  BY <1>1 DEF Move, IInv, TypeOK
<1>3. LedgerFits' /\ OneFactPerNote' /\ EvidenceKept'
  BY <1>1 DEF IInv, LedgerFits, OneFactPerNote, EvidenceKept
<1>4. ASSUME NEW k \in Jobs
      PROVE  Fits(k, checkpoint[k])' /\ spent'[k] = checkpoint'[k].calls
  BY <1>1 DEF IInv, Fits, ItemFits, StillAcceptable, Covers, Covered, Shown
<1>5. ASSUME NEW k \in Jobs, NEW h \in Runs, Holds(k, h)'
      PROVE  RunFits(k, pc[k][h], memory[k][h], checkpoint[k])'
  <2>1. RunFits(k, pc[k][h], memory[k][h], checkpoint[k])
    BY <1>1, <1>5 DEF IInv, Holds
  <2>2. QED
    BY <1>1, <2>1 DEF RunFits, Shown
<1>6. QED
  BY <1>2, <1>3, <1>4, <1>5 DEF IInv

-----------------------------------------------------------------------------
\* The end of a run

\* The coverage gate has asked the database.
LEMMA CompleteStep ==
    ASSUME IInv, NEW j \in Jobs, NEW g \in Runs, Complete(j, g)
    PROVE  IInv'
<1> DEFINE m == memory[j][g]
           w == [m EXCEPT !.complete = TRUE]
<1>1. "leaf" \in Steps \ {"off", "refused", "committed"} /\ "consume" \in Steps \ {"refused"}
  BY DEF Steps
<1>2. /\ Holds(j, g) /\ m \in Progress /\ Fits(j, m) /\ spent = [spent EXCEPT ![j] = m.calls]
  BY <1>1, HeldRun DEF Complete, AllHandled
<1>3. /\ w \in Progress /\ w.calls = m.calls /\ w.assigned = m.assigned
      /\ w.assignments = m.assignments /\ w.items = m.items /\ w.complete /\ w.shown = m.shown
  BY <1>2 DEF Progress
<1>4. Save(j, g, w, "consume") /\ UNCHANGED <<verified, ledger, consumed, done, spent>> /\ Covered(j)
  BY DEF Complete
<1> HIDE DEF m, w
<1>5. \A c \in Leaves : ItemFits(j, m, c) => ItemFits(j, w, c)
  BY <1>3 DEF ItemFits
<1>6. Fits(j, w)
  BY <1>2, <1>3, <1>4, <1>5 DEF Fits
<1>7. RunFits(j, "consume", w, w)
  BY <1>3 DEF RunFits
<1>8. QED
  BY <1>1, <1>2, <1>3, <1>4, <1>6, <1>7, SaveStep

\* A run that does not pass the gate stops.
LEMMA IncompleteStep ==
    ASSUME IInv, NEW j \in Jobs, NEW g \in Runs, Incomplete(j, g)
    PROVE  IInv'
<1> DEFINE m == memory[j][g]
<1>1. "leaf" \in Steps \ {"off", "refused", "committed"}
  BY DEF Steps
<1>2. /\ Holds(j, g) /\ m \in Progress /\ Fits(j, m) /\ spent = [spent EXCEPT ![j] = m.calls]
  BY <1>1, HeldRun DEF Incomplete, AllHandled
<1>3. Stop(j, g, m) /\ UNCHANGED <<verified, ledger, consumed, done, spent>>
  BY DEF Incomplete
<1>4. done' \in [Jobs -> BOOLEAN]
  BY <1>3 DEF IInv, TypeOK
<1> HIDE DEF m
<1>5. QED
  BY <1>2, <1>3, <1>4, CloseStep

\* A failed projection leaves the progress complete and without a receipt.
LEMMA ConsumeFailsStep ==
    ASSUME IInv, NEW j \in Jobs, NEW g \in Runs, ConsumeFails(j, g)
    PROVE  IInv'
<1> DEFINE m == memory[j][g]
<1>1. "consume" \in Steps \ {"off", "refused", "committed"}
  BY DEF Steps
<1>2. /\ Holds(j, g) /\ m \in Progress /\ Fits(j, m) /\ spent = [spent EXCEPT ![j] = m.calls]
  BY <1>1, HeldRun DEF ConsumeFails
<1>3. Stop(j, g, m) /\ UNCHANGED <<verified, ledger, consumed, done, spent>>
  BY DEF ConsumeFails
<1>4. done' \in [Jobs -> BOOLEAN]
  BY <1>3 DEF IInv, TypeOK
<1> HIDE DEF m
<1>5. QED
  BY <1>2, <1>3, <1>4, CloseStep

\* The end of a complete run.
LEMMA FinishStep ==
    ASSUME IInv, NEW j \in Jobs, NEW g \in Runs, Finish(j, g)
    PROVE  IInv'
<1> DEFINE m == memory[j][g]
<1>1. "finish" \in Steps \ {"off", "refused", "committed"}
  BY DEF Steps
<1>2. /\ Holds(j, g) /\ m \in Progress /\ Fits(j, m) /\ spent = [spent EXCEPT ![j] = m.calls]
  BY <1>1, HeldRun DEF Finish
<1>3. Stop(j, g, m) /\ UNCHANGED <<verified, ledger, consumed, spent>>
  BY DEF Finish
<1>4. done' \in [Jobs -> BOOLEAN]
  BY DEF Finish, IInv, TypeOK
<1> HIDE DEF m
<1>5. QED
  BY <1>2, <1>3, <1>4, CloseStep

\* After the consumption the pages show every leaf.
LEMMA ConsumeStep ==
    ASSUME IInv, NEW j \in Jobs, NEW g \in Runs, Consume(j, g)
    PROVE  IInv'
<1>1. /\ \A c \in Leaves : consumed'[c] = leaf[c].version
      /\ pc' = [pc EXCEPT ![j][g] = "consumed"]
      /\ UNCHANGED <<verified, lease, memory, checkpoint, ledger, done, spent>>
  BY DEF Consume, Goto
<1>2. Holds(j, g) /\ pc[j][g] = "consume"
  BY DEF Consume, At
<1>3. \A c \in Leaves : /\ consumed[c] \in Nat /\ leaf[c].version \in Nat
                        /\ \A k \in Jobs : operations[k][c].version \in Nat
  BY DEF IInv, TypeOK
<1>4. /\ \A c \in Leaves : consumed[c] <= leaf[c].version
      /\ \A k \in Jobs, c \in Leaves : operations[k][c].version <= leaf[c].version
  BY DEF IInv, LedgerFits
<1>5. TypeOK'
  <2>1. consumed' \in [Leaves -> Nat]
    BY DEF Consume, IInv, TypeOK
  <2>2. pc' \in [Jobs -> [Runs -> Steps]]
    BY <1>1 DEF IInv, TypeOK, Steps
  <2>3. QED
    BY <1>1, <2>1, <2>2 DEF IInv, TypeOK, ledger
<1>6. LedgerFits' /\ OneFactPerNote' /\ EvidenceKept'
  BY <1>1, <1>3 DEF IInv, LedgerFits, OneFactPerNote, EvidenceKept, ledger
<1>7. \A k \in Jobs : Shown(k)'
  BY <1>1, <1>4 DEF Shown, ledger
<1>8. ASSUME NEW k \in Jobs
      PROVE  Fits(k, checkpoint[k])' /\ spent'[k] = checkpoint'[k].calls
  <2>1. Fits(k, checkpoint[k]) /\ spent[k] = checkpoint[k].calls
    BY DEF IInv
  <2>2. checkpoint[k].assigned => StillAcceptable(k, checkpoint[k].assignments)'
    BY <1>1, <2>1 DEF Fits, StillAcceptable, Covers, ledger
  <2>3. \A c \in Leaves : ItemFits(k, checkpoint[k], c)'
    BY <1>1, <2>1 DEF Fits, ItemFits, ledger
  <2>4. checkpoint[k].complete => Covered(k)'
    BY <1>1, <2>1 DEF Fits, Covered, ledger
  <2>5. QED
    BY <1>1, <1>7, <2>1, <2>2, <2>3, <2>4 DEF Fits, StillAcceptable, Covers, ItemFits
<1>9. ASSUME NEW k \in Jobs, NEW h \in Runs, Holds(k, h)'
       PROVE  RunFits(k, pc[k][h], memory[k][h], checkpoint[k])'
  <2>1. Holds(k, h)
    BY <1>1, <1>9 DEF Holds
  <2>2. RunFits(k, pc[k][h], memory[k][h], checkpoint[k])
    BY <2>1 DEF IInv
  <2>3. CASE k = j /\ h = g
    <3>1. pc'[k][h] = "consumed"
      BY <1>1, <2>3 DEF IInv, TypeOK
    <3>2. QED
      BY <1>1, <1>2, <1>7, <2>2, <2>3, <3>1 DEF RunFits
  <2>4. CASE k # j \/ h # g
    <3>1. pc'[k][h] = pc[k][h]
      BY <1>1, <2>4 DEF IInv, TypeOK
    <3>2. QED
      BY <1>1, <1>7, <2>2, <3>1 DEF RunFits, ledger
  <2>5. QED
    BY <2>3, <2>4
<1>10. QED
  BY <1>5, <1>6, <1>8, <1>9 DEF IInv

\* The receipt is saved after the consumption.
LEMMA SaveConsumedStep ==
    ASSUME IInv, NEW j \in Jobs, NEW g \in Runs, SaveConsumed(j, g)
    PROVE  IInv'
<1> DEFINE m == memory[j][g]
           w == [m EXCEPT !.shown = TRUE]
<1>1. "consumed" \in Steps \ {"off", "refused", "committed"} /\ "finish" \in Steps \ {"refused"}
  BY DEF Steps
<1>2. /\ Holds(j, g) /\ m \in Progress /\ Fits(j, m) /\ spent = [spent EXCEPT ![j] = m.calls]
      /\ RunFits(j, "consumed", m, m)
  BY <1>1, HeldRun DEF SaveConsumed
<1>3. /\ w \in Progress /\ w.calls = m.calls /\ w.assigned = m.assigned
      /\ w.assignments = m.assignments /\ w.items = m.items /\ w.complete = m.complete
  BY <1>2 DEF Progress
<1>4. Save(j, g, w, "finish") /\ UNCHANGED <<verified, ledger, consumed, done, spent>>
  BY DEF SaveConsumed
<1>5. m.complete /\ Shown(j)
  BY <1>2 DEF RunFits
<1> HIDE DEF m, w
<1>6. \A c \in Leaves : ItemFits(j, m, c) => ItemFits(j, w, c)
  BY <1>3 DEF ItemFits
<1>7. Fits(j, w)
  BY <1>2, <1>3, <1>5, <1>6 DEF Fits
<1>8. RunFits(j, "finish", w, w)
  BY <1>3, <1>5 DEF RunFits
<1>9. QED
  BY <1>1, <1>2, <1>3, <1>4, <1>7, <1>8, SaveStep

-----------------------------------------------------------------------------
\* The start of a run, and its sudden end

\* A progress that is reopened still fits: only leaves that are not committed are
\* assigned again, unless the assignment itself starts again.
LEMMA ReopenedFits ==
    ASSUME NEW j \in Jobs, NEW m \in Progress, Fits(j, m)
    PROVE  /\ Reopened(m) \in Progress /\ Fits(j, Reopened(m))
           /\ Reopened(m).calls = m.calls
<1>1. CASE m.complete
  BY <1>1 DEF Reopened
<1>2. CASE ~m.complete
  <2> DEFINE again == m.blocked \/ m.unassigned
             again0 == ~m.complete /\ (m.blocked \/ m.unassigned)
             fresh(c) == [NoItem EXCEPT !.status = "assigned", !.changes = m.items[c].changes]
             next(c) == IF again0 THEN NoItem
                        ELSE IF m.items[c].status = "unresolved" THEN fresh(c)
                        ELSE m.items[c]
             items == [c \in Leaves |-> next(c)]
             w == Reopened(m)
  <2>1. \A c \in Leaves : fresh(c) \in Item /\ fresh(c).status = "assigned"
    <3>1. \A c \in Leaves : m.items[c].changes \in Nat
      BY DEF Progress, Item
    <3>2. QED
      BY <3>1, InitialTypes DEF Item
  <2> HIDE DEF fresh
  <2>2. items \in [Leaves -> Item]
    BY <2>1, InitialTypes DEF Progress
  <2>3. w = [m EXCEPT !.assigned = @ /\ ~again0,
                      !.assignments = IF again0 THEN NewProgress.assignments ELSE @,
                      !.attempts = IF m.blocked THEN 0 ELSE @,
                      !.blocked = FALSE, !.unassigned = FALSE,
                      !.items = items]
    BY <1>2 DEF Reopened, fresh
  <2>4. \A c \in Leaves :
           /\ again => items[c].status = "none"
           /\ ~again /\ m.items[c].status = "unresolved" => items[c].status = "assigned"
           /\ ~again /\ m.items[c].status # "unresolved" => items[c] = m.items[c]
    BY <1>2, <2>1 DEF NoItem
  <2> HIDE DEF items, w, again0
  <2>5. NewProgress.assignments \in [Notes -> Leaves \cup {NoLeaf}]
    BY InitialTypes DEF Progress
  <2>6. /\ w \in Progress /\ w.assigned = (m.assigned /\ ~again0)
        /\ w.assignments = (IF again0 THEN NewProgress.assignments ELSE m.assignments)
        /\ w.items = items /\ w.complete = m.complete /\ w.shown = m.shown
        /\ w.calls = m.calls
    BY <2>2, <2>3, <2>5 DEF Progress
  <2>7. again0 <=> again
    BY <1>2 DEF again0
  <2>8. \A c \in Leaves : ItemFits(j, m, c)
    BY DEF Fits
  <2>9. ~m.complete /\ ~w.complete /\ ~w.shown
    BY <1>2, <2>6 DEF Fits
  <2>10. CASE again
    <3>1. ~w.assigned
      BY <2>6, <2>7, <2>10
    <3>2. \A c \in Leaves : ItemFits(j, w, c)
      BY <2>4, <2>6, <2>10, <3>1 DEF ItemFits
    <3>3. Fits(j, w)
      BY <2>6, <2>9, <3>1, <3>2 DEF Fits
    <3>4. QED
      BY <2>6, <3>3 DEF w
  <2>11. CASE ~again
    <3>1. w.assigned = m.assigned /\ w.assignments = m.assignments
      BY <2>6, <2>7, <2>11 DEF Progress
    <3>2. ASSUME NEW c \in Leaves PROVE ItemFits(j, w, c)
      <4>1. CASE m.items[c].status = "unresolved"
        <5>1. items[c].status = "assigned"
          BY <2>4, <2>11, <4>1
        <5>2. operations[j][c] = NoOperation /\ m.assigned /\ \E n \in Notes : m.assignments[n] = c
          BY <2>8, <4>1 DEF ItemFits
        <5>3. QED
          BY <2>6, <3>1, <5>1, <5>2 DEF ItemFits
      <4>2. CASE m.items[c].status # "unresolved"
        <5>1. w.items[c] = m.items[c]
          BY <2>4, <2>6, <2>11, <4>2
        <5>2. QED
          BY <2>8, <3>1, <5>1 DEF ItemFits
      <4>3. QED
        BY <4>1, <4>2
    <3>3. Fits(j, w)
      BY <2>6, <2>9, <3>1, <3>2 DEF Fits
    <3>4. QED
      BY <2>6, <3>3 DEF w
  <2>12. QED
    BY <2>10, <2>11
<1>3. QED
  BY <1>1, <1>2

\* A new run has a new generation, so no older one holds the lease.
LEMMA StartStep ==
    ASSUME IInv, NEW j \in Jobs, NEW retry \in BOOLEAN, Start(j, retry)
    PROVE  IInv'
<1> DEFINE g == lease[j].generation + 1
           m == IF retry THEN Reopened(checkpoint[j]) ELSE checkpoint[j]
           s == IF m.complete THEN "finish" ELSE IF m.assigned THEN "recheck" ELSE "assign"
<1>1. /\ g \in Runs
      /\ lease' = [lease EXCEPT ![j] = [generation |-> g, live |-> TRUE]]
      /\ checkpoint' = [checkpoint EXCEPT ![j] = m]
      /\ memory' = [memory EXCEPT ![j][g] = m]
      /\ pc' = [pc EXCEPT ![j][g] = s]
      /\ UNCHANGED <<verified, ledger, consumed, done, spent>>
  BY DEF Start, Goto
<1>2. m \in Progress /\ Fits(j, m) /\ m.calls = spent[j]
  <2>1. checkpoint[j] \in Progress /\ Fits(j, checkpoint[j]) /\ checkpoint[j].calls = spent[j]
    BY DEF IInv, TypeOK
  <2>2. QED
    BY <2>1, ReopenedFits
<1>3. s \in Steps \ {"off", "refused", "committed"} /\ RunFits(j, s, m, m)
  BY DEF RunFits, Steps
<1> HIDE DEF m, s, g
<1>4. spent' = [spent EXCEPT ![j] = m.calls]
  BY <1>1, <1>2 DEF IInv, TypeOK
<1>5. /\ LedgerFits' /\ OneFactPerNote' /\ EvidenceKept'
      /\ checkpoint' \in [Jobs -> Progress] /\ spent' \in [Jobs -> Nat]
      /\ \A k \in Jobs : Fits(k, checkpoint[k])' /\ spent'[k] = checkpoint'[k].calls
  BY <1>1, <1>2, <1>4, PutCheckpoint
<1>6. /\ memory' \in [Jobs -> [Runs -> Progress]] /\ memory'[j][g] = m
      /\ pc' \in [Jobs -> [Runs -> Steps]] /\ pc'[j][g] = s
      /\ lease' \in [Jobs -> [generation : Runs \cup {0}, live : BOOLEAN]]
      /\ lease'[j].generation = g
      /\ \A k \in Jobs : k # j => lease'[k] = lease[k]
      /\ checkpoint'[j] = m
  BY <1>1, <1>2, <1>3 DEF IInv, TypeOK
<1>7. TypeOK'
  BY <1>1, <1>5, <1>6 DEF IInv, TypeOK, ledger
<1>8. ASSUME NEW k \in Jobs, NEW h \in Runs, Holds(k, h)'
      PROVE  RunFits(k, pc[k][h], memory[k][h], checkpoint[k])'
  <2>1. CASE k = j
    <3>1. h = g
      BY <1>6, <1>8, <2>1 DEF Holds
    <3>2. QED
      BY <1>1, <1>3, <1>6, <2>1, <3>1 DEF RunFits, Shown, ledger
  <2>2. CASE k # j
    <3>1. Holds(k, h)
      BY <1>6, <1>8, <2>2 DEF Holds
    <3>2. RunFits(k, pc[k][h], memory[k][h], checkpoint[k])
      BY <3>1 DEF IInv
    <3>3. pc'[k] = pc[k] /\ memory'[k] = memory[k] /\ checkpoint'[k] = checkpoint[k]
      BY <1>1, <2>2 DEF IInv, TypeOK
    <3>4. QED
      BY <1>1, <3>2, <3>3 DEF RunFits, Shown, ledger
  <2>3. QED
    BY <2>1, <2>2
<1>9. QED
  BY <1>5, <1>7, <1>8 DEF IInv

\* A step that writes no table.
LEMMA TablesKept ==
    ASSUME IInv, UNCHANGED <<verified, checkpoint, ledger, consumed, spent>>
    PROVE  /\ LedgerFits' /\ OneFactPerNote' /\ EvidenceKept'
           /\ \A k \in Jobs : Fits(k, checkpoint[k])' /\ spent'[k] = checkpoint'[k].calls
BY DEF IInv, LedgerFits, OneFactPerNote, EvidenceKept, Fits, ItemFits, StillAcceptable, Covers,
       Covered, Shown, ledger

\* A lease that has run out is held by nobody.
LEMMA ExpireStep ==
    ASSUME IInv, NEW j \in Jobs, Expire(j)
    PROVE  IInv'
<1>1. /\ lease' = [lease EXCEPT ![j].live = FALSE]
      /\ UNCHANGED <<verified, pc, memory, checkpoint, ledger, consumed, done, spent>>
  BY DEF Expire
<1>2. TypeOK'
  BY <1>1 DEF IInv, TypeOK, ledger
<1>3. ASSUME NEW k \in Jobs, NEW h \in Runs, Holds(k, h)'
      PROVE  RunFits(k, pc[k][h], memory[k][h], checkpoint[k])'
  <2>1. Holds(k, h)
    BY <1>1, <1>3 DEF Holds, IInv, TypeOK
  <2>2. RunFits(k, pc[k][h], memory[k][h], checkpoint[k])
    BY <2>1 DEF IInv
  <2>3. QED
    BY <1>1, <2>2 DEF RunFits, Shown, ledger
<1>4. QED
  BY <1>1, <1>2, <1>3, TablesKept DEF IInv

\* A run that vanishes leaves the tables alone.
LEMMA VanishStep ==
    ASSUME IInv, NEW j \in Jobs, NEW g \in Runs, Vanish(j, g)
    PROVE  IInv'
<1>1. /\ pc' = [pc EXCEPT ![j][g] = "off"]
      /\ memory' = [memory EXCEPT ![j][g] = NewProgress]
      /\ UNCHANGED <<verified, lease, checkpoint, ledger, consumed, done, spent>>
  BY DEF Vanish, Goto
<1>2. TypeOK'
  BY <1>1, InitialTypes DEF IInv, TypeOK, ledger, Steps
<1>3. ASSUME NEW k \in Jobs, NEW h \in Runs, Holds(k, h)'
      PROVE  RunFits(k, pc[k][h], memory[k][h], checkpoint[k])'
  <2>1. Holds(k, h)
    BY <1>1, <1>3 DEF Holds
  <2>2. RunFits(k, pc[k][h], memory[k][h], checkpoint[k])
    BY <2>1 DEF IInv
  <2>3. CASE k = j /\ h = g
    <3>1. pc'[k][h] = "off"
      BY <1>1, <2>3 DEF IInv, TypeOK
    <3>2. QED
      BY <3>1 DEF RunFits
  <2>4. CASE k # j \/ h # g
    <3>1. pc'[k][h] = pc[k][h] /\ memory'[k][h] = memory[k][h]
      BY <1>1, <2>4 DEF IInv, TypeOK
    <3>2. QED
      BY <1>1, <2>2, <3>1 DEF RunFits, Shown, ledger
  <2>5. QED
    BY <2>3, <2>4
<1>4. QED
  BY <1>1, <1>2, <1>3, TablesKept DEF IInv

-----------------------------------------------------------------------------
\* The invariant

\* The invariant holds at the start.
LEMMA InitFits == Init => IInv
<1> SUFFICES ASSUME Init PROVE IInv
  OBVIOUS
<1>1. TypeOK
  <2>1. leaf \in [Leaves -> [version : Nat, notes : SUBSET Notes]]
    BY PublishAssumption DEF Init
  <2>2. QED
    BY <2>1, InitialTypes, PublishAssumption DEF Init, TypeOK, Steps, Places, NoOperation, NoLeaf
<1>2. LedgerFits /\ OneFactPerNote /\ EvidenceKept
  BY <1>1 DEF Init, LedgerFits, OneFactPerNote, EvidenceKept, NoOperation, TypeOK
<1>3. \A j \in Jobs : checkpoint[j] = NewProgress /\ spent[j] = 0
  BY DEF Init
<1>4. /\ ~NewProgress.assigned /\ ~NewProgress.complete /\ ~NewProgress.shown
      /\ NewProgress.calls = 0
      /\ \A c \in Leaves : NewProgress.items[c].status = "none"
  BY DEF NewProgress, NoItem
<1>5. ASSUME NEW j \in Jobs PROVE Fits(j, checkpoint[j])
  <2>1. \A c \in Leaves : ItemFits(j, checkpoint[j], c)
    BY <1>3, <1>4 DEF ItemFits
  <2>2. QED
    BY <1>3, <1>4, <2>1, PublishAssumption DEF Fits
<1>6. \A j \in Jobs, g \in Runs : ~Holds(j, g)
  BY DEF Init, Holds
<1>7. QED
  BY <1>1, <1>2, <1>3, <1>4, <1>5, <1>6 DEF IInv

\* Every step keeps the invariant.
LEMMA Inductive == IInv /\ [Next]_vars => IInv'
<1> SUFFICES ASSUME IInv, [Next]_vars PROVE IInv'
  OBVIOUS
<1>1. CASE UNCHANGED vars
  <2>1. UNCHANGED <<verified, lease, pc, memory, checkpoint, ledger, consumed, done, spent>>
    BY <1>1 DEF vars, runs
  <2>2. TypeOK'
    BY <2>1 DEF IInv, TypeOK, ledger
  <2>3. ASSUME NEW k \in Jobs, NEW h \in Runs, Holds(k, h)'
        PROVE  RunFits(k, pc[k][h], memory[k][h], checkpoint[k])'
    <3>1. RunFits(k, pc[k][h], memory[k][h], checkpoint[k])
      BY <2>1, <2>3 DEF IInv, Holds
    <3>2. QED
      BY <2>1, <3>1 DEF RunFits, Shown, ledger
  <2>4. QED
    BY <2>1, <2>2, <2>3, TablesKept DEF IInv
<1>2. ASSUME NEW j \in Jobs, Expire(j) PROVE IInv'
  BY <1>2, ExpireStep
<1>3. ASSUME NEW j \in Jobs, NEW retry \in BOOLEAN, Start(j, retry) PROVE IInv'
  BY <1>3, StartStep
<1>4. ASSUME NEW j \in Jobs, NEW g \in Runs, Step(j, g) PROVE IInv'
  <2>1. CASE Vanish(j, g)             BY <2>1, VanishStep
  <2>2. CASE Recheck(j, g)            BY <2>2, RecheckStep
  <2>3. CASE AssignNothing(j, g)      BY <2>3, AssignNothingStep
  <2>4. CASE AskAssignment(j, g)      BY <2>4, AskAssignmentStep
  <2>5. CASE AssignmentBlocked(j, g)  BY <2>5, AssignmentBlockedStep
  <2>6. CASE AnswerAssignment(j, g)   BY <2>6, AnswerAssignmentStep
  <2>7. CASE LeaveUnassigned(j, g)    BY <2>7, LeaveUnassignedStep
  <2>8. CASE AnswerDraft(j, g)        BY <2>8, AnswerDraftStep
  <2>9. CASE BudgetStop(j, g)         BY <2>9, BudgetStopStep
  <2>10. CASE CallFails(j, g)         BY <2>10, CallFailsStep
  <2>11. CASE SaveCommitted(j, g)     BY <2>11, SaveCommittedStep
  <2>12. CASE Complete(j, g)          BY <2>12, CompleteStep
  <2>13. CASE Incomplete(j, g)        BY <2>13, IncompleteStep
  <2>14. CASE Consume(j, g)           BY <2>14, ConsumeStep
  <2>15. CASE ConsumeFails(j, g)      BY <2>15, ConsumeFailsStep
  <2>16. CASE SaveConsumed(j, g)      BY <2>16, SaveConsumedStep
  <2>17. CASE Finish(j, g)            BY <2>17, FinishStep
  <2>18. ASSUME NEW c \in Leaves,
                \/ TooLarge(j, g, c) \/ AskDraft(j, g, c) \/ GiveUp(j, g, c) \/ Replay(j, g, c)
                \/ Commit(j, g, c) \/ CommitRefused(j, g, c) \/ BaseChanged(j, g, c)
                \/ DraftRejected(j, g, c)
         PROVE  IInv'
    BY <2>18, TooLargeStep, AskDraftStep, GiveUpStep, ReplayStep, CommitStep, CommitRefusedStep,
       BaseChangedStep, DraftRejectedStep
  <2>19. QED
    BY <1>4, <2>1, <2>2, <2>3, <2>4, <2>5, <2>6, <2>7, <2>8, <2>9, <2>10, <2>11, <2>12, <2>13,
       <2>14, <2>15, <2>16, <2>17, <2>18 DEF Step
<1>5. ASSUME NEW move \in Moves, Move(move[1], move[2]) PROVE IInv'
  BY <1>5, MoveStep, PublishAssumption
<1>6. QED
  BY <1>1, <1>2, <1>3, <1>4, <1>5 DEF Next

\* IInv is an invariant of the publication.
LEMMA AlwaysFits == Spec => []IInv
BY InitFits, Inductive, PTL DEF Spec

-----------------------------------------------------------------------------
\* What the invariant gives

\* The tables, checkpoints and runs have their types (all of stage C).
THEOREM TypesCorrect == Spec => []TypeOK
<1>1. IInv => TypeOK
  BY DEF IInv
<1>2. QED
  BY <1>1, AlwaysFits, PTL

\* Replays, rollbacks and takeovers mint no second fact of a note (_commit_leaf).
THEOREM FactsAreSingle == Spec => []OneFactPerNote
<1>1. IInv => OneFactPerNote
  BY DEF IInv
<1>2. QED
  BY <1>1, AlwaysFits, PTL

\* No draft drops the evidence that another job committed while it was written (submit).
THEOREM EvidenceIsKept == Spec => []EvidenceKept
<1>1. IInv => EvidenceKept
  BY DEF IInv
<1>2. QED
  BY <1>1, AlwaysFits, PTL

\* Whatever checkpoint a crash or a takeover leaves, its items agree with the ledger (run).
THEOREM ItemsAgree == Spec => []ItemsMatchLedger
<1>1. IInv => ItemsMatchLedger
  <2> SUFFICES ASSUME IInv, NEW j \in Jobs, NEW c \in Leaves
               PROVE  /\ checkpoint[j].items[c].status = "submitted" => operations[j][c] # NoOperation
                      /\ checkpoint[j].items[c].status = "unresolved" => operations[j][c] = NoOperation
    BY DEF ItemsMatchLedger
  <2>1. ItemFits(j, checkpoint[j], c)
    BY DEF IInv, Fits
  <2>2. QED
    BY <2>1 DEF ItemFits
<1>2. QED
  BY <1>1, AlwaysFits, PTL

\* A publication that is complete has published every verified note (the coverage gate).
THEOREM CompleteCovers == Spec => []CompleteIsCovered
<1>1. IInv => CompleteIsCovered
  BY DEF IInv, Fits, Covered, CompleteIsCovered
<1>2. QED
  BY <1>1, AlwaysFits, PTL

\* All runs of a job together stay within the budget of calls (_call).
THEOREM BudgetIsKept == Spec => []BudgetHolds
<1>1. IInv => BudgetHolds
  BY DEF IInv, Fits, BudgetHolds
<1>2. QED
  BY <1>1, AlwaysFits, PTL

\* The pages show what a receipt of the consumption says (consume_notifications).
THEOREM ReceiptsAreTrue == Spec => []ReceiptIsShown
<1>1. IInv => ReceiptIsShown
  BY DEF IInv, Fits, Shown, ReceiptIsShown
<1>2. QED
  BY <1>1, AlwaysFits, PTL

-----------------------------------------------------------------------------
\* What a step may not do

\* Job k's checkpoint has not gone back.
Forward(k) == /\ spent[k] <= spent'[k]
              /\ checkpoint[k].complete => checkpoint'[k].complete

\* A step writes the checkpoint of its own job only.
OthersForward(j) == \A k \in Jobs : k # j => Forward(k)

\* A write of a run leaves the other jobs alone and takes back no charge.
LEMMA WriteForward ==
    ASSUME IInv, NEW j \in Jobs, NEW g, NEW m, NEW step,
           Save(j, g, m, step) \/ Stop(j, g, m) \/ Refuse(j, g, m) \/ Charge(j, g, m, step),
           spent' = spent \/ Charge(j, g, m, step)
    PROVE  OthersForward(j) /\ spent[j] <= spent'[j]
<1>1. \A k \in Jobs : k # j => checkpoint'[k] = checkpoint[k]
  BY DEF IInv, TypeOK, Save, Stop, Refuse, Close, Charge
<1>2. ASSUME NEW k \in Jobs PROVE spent[k] <= spent'[k]
  <2>1. spent \in [Jobs -> Nat] /\ spent[k] \in Nat
    BY DEF IInv, TypeOK
  <2>2. spent' = spent \/ spent' = [spent EXCEPT ![j] = @ + 1]
    BY DEF Charge
  <2>3. spent'[k] = spent[k] \/ spent'[k] = spent[k] + 1
    BY <2>1, <2>2
  <2>4. QED
    BY <2>1, <2>3
<1>3. QED
  BY <1>1, <1>2 DEF OthersForward, Forward

\* A complete publication is left alone by every step but those after its completion.
LEMMA UncompleteForward ==
    ASSUME IInv, NEW j \in Jobs, NEW g \in Runs,
           NEW s \in {"recheck", "assign", "assigning", "leaf", "comparing", "committed"},
           At(j, g, s)
    PROVE  ~checkpoint[j].complete
<1>1. RunFits(j, s, memory[j][g], checkpoint[j])
  BY DEF IInv, At
<1>2. QED
  BY <1>1 DEF RunFits

\* The steps of a run before the completion.
LEMMA EarlyForward ==
    ASSUME IInv, NEW j \in Jobs, NEW g \in Runs, NEW m, NEW step,
           NEW s \in {"recheck", "assign", "assigning", "leaf", "comparing", "committed"},
           At(j, g, s),
           Save(j, g, m, step) \/ Stop(j, g, m) \/ Refuse(j, g, m) \/ Charge(j, g, m, step),
           spent' = spent \/ Charge(j, g, m, step)
    PROVE  \A k \in Jobs : Forward(k)
<1>1. OthersForward(j) /\ spent[j] <= spent'[j]
  BY WriteForward
<1>2. ~checkpoint[j].complete
  BY UncompleteForward
<1>3. QED
  BY <1>1, <1>2 DEF OthersForward, Forward

\* The last steps of a run write a progress that is as complete as the checkpoint.
LEMMA LateForward ==
    ASSUME IInv, NEW j \in Jobs, NEW m, m.complete \/ ~checkpoint[j].complete,
           checkpoint' = [checkpoint EXCEPT ![j] = m], spent' = spent
    PROVE  \A k \in Jobs : Forward(k)
<1>1. \A k \in Jobs : checkpoint'[k] = IF k = j THEN m ELSE checkpoint[k]
  BY DEF IInv, TypeOK
<1>2. \A k \in Jobs : spent[k] <= spent'[k]
  BY DEF IInv, TypeOK
<1>3. QED
  BY <1>1, <1>2 DEF Forward

\* A step that writes neither.
LEMMA StillForward ==
    ASSUME IInv, UNCHANGED <<checkpoint, spent>>
    PROVE  \A k \in Jobs : Forward(k)
BY DEF IInv, TypeOK, Forward

\* Every step of a run.
LEMMA StepForward ==
    ASSUME IInv, NEW j \in Jobs, NEW g \in Runs, Step(j, g)
    PROVE  \A k \in Jobs : Forward(k)
<1> DEFINE m == memory[j][g]
<1>1. CASE Vanish(j, g) \/ Consume(j, g)
  BY <1>1, StillForward DEF Vanish, Consume
<1>2. CASE Recheck(j, g)
  BY <1>2, EarlyForward DEF Recheck
<1>3. CASE AssignNothing(j, g) \/ AskAssignment(j, g) \/ AssignmentBlocked(j, g)
  BY <1>3, EarlyForward DEF AssignNothing, AskAssignment, AssignmentBlocked
<1>4. CASE AnswerAssignment(j, g)
  BY <1>4, EarlyForward DEF AnswerAssignment
<1>5. CASE LeaveUnassigned(j, g) \/ CallFails(j, g)
  BY <1>5, EarlyForward DEF LeaveUnassigned, CallFails
<1>6. CASE AnswerDraft(j, g)
  BY <1>6, EarlyForward DEF AnswerDraft
<1>7. CASE BudgetStop(j, g)
  BY <1>7, EarlyForward DEF BudgetStop, AtLeaf
<1>8. CASE SaveCommitted(j, g)
  BY <1>8, EarlyForward DEF SaveCommitted
<1>9. CASE Complete(j, g) \/ Incomplete(j, g)
  BY <1>9, EarlyForward DEF Complete, Incomplete, AllHandled
<1>10. CASE ConsumeFails(j, g) \/ SaveConsumed(j, g) \/ Finish(j, g)
  <2>1. PICK s \in {"consume", "consumed", "finish"} : At(j, g, s)
    BY <1>10 DEF ConsumeFails, SaveConsumed, Finish
  <2>2. m \in Progress /\ m.complete
    <3>1. s \in Steps \ {"off", "refused", "committed"}
      BY DEF Steps
    <3>2. m \in Progress /\ RunFits(j, s, m, m)
      BY <2>1, <3>1, HeldRun
    <3>3. QED
      BY <3>2 DEF RunFits
  <2>3. [m EXCEPT !.shown = TRUE].complete
    BY <2>2 DEF Progress
  <2>4. /\ spent' = spent
        /\ \/ checkpoint' = [checkpoint EXCEPT ![j] = m]
           \/ checkpoint' = [checkpoint EXCEPT ![j] = [m EXCEPT !.shown = TRUE]]
    BY <1>10 DEF ConsumeFails, SaveConsumed, Finish, Save, Stop, Close
  <2> HIDE DEF m
  <2>5. QED
    BY <2>2, <2>3, <2>4, LateForward
<1>11. ASSUME NEW c \in Leaves,
              \/ TooLarge(j, g, c) \/ AskDraft(j, g, c) \/ GiveUp(j, g, c) \/ Replay(j, g, c)
              \/ CommitRefused(j, g, c) \/ BaseChanged(j, g, c) \/ DraftRejected(j, g, c)
       PROVE  \A k \in Jobs : Forward(k)
  <2>1. At(j, g, "leaf")
    BY <1>11 DEF TooLarge, AskDraft, GiveUp, Replay, CommitRefused, BaseChanged, DraftRejected,
                 Submits, AtLeaf
  <2>2. CASE TooLarge(j, g, c) \/ AskDraft(j, g, c) \/ GiveUp(j, g, c)
    BY <2>1, <2>2, EarlyForward DEF TooLarge, AskDraft, GiveUp
  <2>3. CASE Replay(j, g, c) \/ CommitRefused(j, g, c)
    BY <2>1, <2>3, EarlyForward DEF Replay, CommitRefused
  <2>4. CASE BaseChanged(j, g, c) \/ DraftRejected(j, g, c)
    BY <2>1, <2>4, EarlyForward DEF BaseChanged, DraftRejected
  <2>5. QED
    BY <1>11, <2>2, <2>3, <2>4
<1>12. ASSUME NEW c \in Leaves, Commit(j, g, c)
       PROVE  \A k \in Jobs : Forward(k)
  <2>1. UNCHANGED <<checkpoint, spent>>
    BY <1>12, CommitWrites
  <2>2. QED
    BY <2>1, StillForward
<1>13. QED
  BY <1>1, <1>2, <1>3, <1>4, <1>5, <1>6, <1>7, <1>8, <1>9, <1>10, <1>11, <1>12 DEF Step

\* A run whose lease was taken over writes nothing: charges and completion are never undone
\* (_save under JobLease.check).
THEOREM CheckpointsGoForward == Spec => CheckpointForward
<1>1. IInv /\ IInv' /\ [Next]_vars =>
         [\A j \in Jobs : /\ checkpoint[j].calls <= checkpoint'[j].calls
                          /\ checkpoint[j].complete => checkpoint'[j].complete]_vars
  <2> SUFFICES ASSUME IInv, IInv', Next
               PROVE  \A j \in Jobs : /\ checkpoint[j].calls <= checkpoint'[j].calls
                                      /\ checkpoint[j].complete => checkpoint'[j].complete
    OBVIOUS
  <2>1. \A j \in Jobs : Forward(j)
    <3>1. ASSUME NEW j \in Jobs, Expire(j) PROVE \A k \in Jobs : Forward(k)
      BY <3>1, StillForward DEF Expire
    <3>2. ASSUME NEW j \in Jobs, NEW retry \in BOOLEAN, Start(j, retry)
          PROVE  \A k \in Jobs : Forward(k)
      <4> DEFINE m == IF retry THEN Reopened(checkpoint[j]) ELSE checkpoint[j]
      <4>1. m.complete \/ ~checkpoint[j].complete
        BY DEF Reopened
      <4>2. checkpoint' = [checkpoint EXCEPT ![j] = m] /\ spent' = spent
        BY <3>2 DEF Start
      <4> HIDE DEF m
      <4>3. QED
        BY <4>1, <4>2, LateForward
    <3>3. ASSUME NEW n, NEW place, Move(n, place) PROVE \A k \in Jobs : Forward(k)
      BY <3>3, StillForward DEF Move
    <3>4. QED
      BY <3>1, <3>2, <3>3, StepForward DEF Next
  <2>2. \A j \in Jobs : spent[j] = checkpoint[j].calls /\ spent'[j] = checkpoint'[j].calls
    BY DEF IInv
  <2>3. QED
    BY <2>1, <2>2 DEF Forward
<1>2. QED
  BY <1>1, AlwaysFits, PTL DEF Spec, CheckpointForward
-----------------------------------------------------------------------------
\* What a run is refused for

\* The merge of a submitted draft carries evidence that is not placed on its leaf.
Displaced(j, g) ==
    \E c \in Leaves : /\ Submits(j, g, c) /\ SameBase(j, g, c)
                      /\ \E n \in Draft(j, g, c).carried : placed[n] # "here"

\* A step of a run refuses no other run.
LEMMA OthersNotRefused ==
    ASSUME IInv, NEW j \in Jobs, NEW g \in Runs, NEW step, pc' = [pc EXCEPT ![j][g] = step],
           NEW k \in Jobs, NEW h \in Runs, pc[k][h] # "refused", pc'[k][h] = "refused"
    PROVE  k = j /\ h = g /\ step = "refused"
BY DEF IInv, TypeOK

\* A run that may be refused is at the recheck, at a replay or at a commit.
LEMMA WhereRefused ==
    ASSUME IInv, NEW j \in Jobs, NEW g \in Runs, Step(j, g),
           NEW k \in Jobs, NEW h \in Runs, pc[k][h] # "refused", pc'[k][h] = "refused"
    PROVE  /\ k = j /\ h = g
           /\ \/ Recheck(j, g)
              \/ \E c \in Leaves : Replay(j, g, c) \/ CommitRefused(j, g, c)
<1> USE DEF Save, Stop, Refuse, Close, Goto
<1>1. CASE Recheck(j, g)
  BY <1>1, OthersNotRefused DEF Recheck
<1>2. ASSUME NEW c \in Leaves, Replay(j, g, c) \/ CommitRefused(j, g, c)
      PROVE  k = j /\ h = g
  BY <1>2, OthersNotRefused DEF Replay, CommitRefused
<1>3. ASSUME \E step \in Steps \ {"refused"} : pc' = [pc EXCEPT ![j][g] = step]
      PROVE  FALSE
  BY <1>3, OthersNotRefused
<1>4. ASSUME \/ Vanish(j, g) \/ AssignNothing(j, g) \/ AskAssignment(j, g)
             \/ AssignmentBlocked(j, g) \/ AnswerAssignment(j, g) \/ LeaveUnassigned(j, g)
             \/ AnswerDraft(j, g) \/ BudgetStop(j, g) \/ CallFails(j, g)
      PROVE  FALSE
  BY <1>3, <1>4 DEF Vanish, AssignNothing, AskAssignment, AssignmentBlocked, AnswerAssignment,
     LeaveUnassigned, AnswerDraft, BudgetStop, CallFails, Charge, Steps
<1>5. ASSUME \/ SaveCommitted(j, g) \/ Complete(j, g) \/ Incomplete(j, g)
             \/ Consume(j, g) \/ ConsumeFails(j, g) \/ SaveConsumed(j, g) \/ Finish(j, g)
      PROVE  FALSE
  BY <1>3, <1>5 DEF SaveCommitted, Complete, Incomplete, Consume, ConsumeFails, SaveConsumed,
     Finish, Steps
<1>6. ASSUME NEW c \in Leaves,
             \/ TooLarge(j, g, c) \/ AskDraft(j, g, c) \/ GiveUp(j, g, c) \/ Commit(j, g, c)
             \/ BaseChanged(j, g, c) \/ DraftRejected(j, g, c)
      PROVE  FALSE
  BY <1>3, <1>6 DEF TooLarge, AskDraft, GiveUp, Commit, BaseChanged, DraftRejected, Charge, Steps
<1>7. QED
  BY <1>1, <1>2, <1>4, <1>5, <1>6 DEF Step

\* The recheck of an assignment refuses nothing, and neither does a replay.
LEMMA NotRefusedThere ==
    ASSUME IInv, NEW j \in Jobs, NEW g \in Runs,
           Recheck(j, g) \/ \E c \in Leaves : Replay(j, g, c)
    PROVE  pc'[j][g] # "refused"
<1>1. CASE Recheck(j, g)
  <2>1. "recheck" \in Steps \ {"off", "refused", "committed"}
    BY DEF Steps
  <2>2. Fits(j, memory[j][g]) /\ RunFits(j, "recheck", memory[j][g], memory[j][g])
    BY <1>1, <2>1, HeldRun DEF Recheck
  <2>3. StillAcceptable(j, memory[j][g].assignments)
    BY <2>2 DEF Fits, RunFits
  <2>4. pc' = [pc EXCEPT ![j][g] = "leaf"]
    BY <1>1, <2>3 DEF Recheck, Save, Goto
  <2>5. QED
    BY <2>4 DEF IInv, TypeOK
<1>2. ASSUME NEW c \in Leaves, Replay(j, g, c) PROVE pc'[j][g] # "refused"
  <2>1. AtItem(j, g, c) /\ operations[j][c] # NoOperation
    BY <1>2, AtLeafItem DEF Replay
  <2>2. /\ memory[j][g].assigned /\ memory[j][g].items[c].status = "assigned"
        /\ ItemFits(j, memory[j][g], c)
    BY <2>1, LeafRun
  <2>3. /\ operations[j][c].base = memory[j][g].items[c].base
        /\ operations[j][c].kept = Draft(j, g, c).kept
        /\ operations[j][c].carried = Draft(j, g, c).carried
    BY <2>1, <2>2 DEF ItemFits, Draft
  <2>4. pc' = [pc EXCEPT ![j][g] = "leaf"]
    BY <1>2, <2>3 DEF Replay, Save, Goto
  <2>5. QED
    BY <2>4 DEF IInv, TypeOK
<1>3. QED
  BY <1>1, <1>2

\* A run is refused for evidence that lost its place and for nothing else: not for what the job
\* itself committed before a crash, and not at a replay, whatever became of the evidence since
\* (_check_assignments, _commit_leaf).
THEOREM RefusalsAreForPlacement == Spec => RefusedForPlacement
<1>1. IInv /\ [Next]_vars =>
         [\A j \in Jobs, g \in Runs : pc[j][g] # "refused" /\ pc'[j][g] = "refused" =>
             Displaced(j, g)]_vars
  <2> SUFFICES ASSUME IInv, Next, NEW k \in Jobs, NEW h \in Runs,
                      pc[k][h] # "refused", pc'[k][h] = "refused"
               PROVE  Displaced(k, h)
    OBVIOUS
  <2>1. ASSUME NEW j \in Jobs, Expire(j) PROVE FALSE
    BY <2>1 DEF Expire
  <2>2. ASSUME NEW j \in Jobs, NEW retry \in BOOLEAN, Start(j, retry) PROVE FALSE
    <3> DEFINE g == lease[j].generation + 1
               m == IF retry THEN Reopened(checkpoint[j]) ELSE checkpoint[j]
               s == IF m.complete THEN "finish" ELSE IF m.assigned THEN "recheck" ELSE "assign"
    <3>1. g \in Runs /\ pc' = [pc EXCEPT ![j][g] = s] /\ s # "refused"
      BY <2>2 DEF Start, Goto
    <3> HIDE DEF s, g, m
    <3>2. QED
      BY <3>1, OthersNotRefused
  <2>3. ASSUME NEW n, NEW place, Move(n, place) PROVE FALSE
    BY <2>3 DEF Move, runs
  <2>4. ASSUME NEW j \in Jobs, NEW g \in Runs, Step(j, g) PROVE Displaced(k, h)
    <3>1. /\ k = j /\ h = g
          /\ \/ Recheck(j, g)
             \/ \E c \in Leaves : Replay(j, g, c) \/ CommitRefused(j, g, c)
      BY <2>4, WhereRefused
    <3>2. PICK c \in Leaves : CommitRefused(j, g, c)
      BY <3>1, NotRefusedThere
    <3>3. Submits(j, g, c) /\ SameBase(j, g, c) /\ ~CarriedHere(j, g, c)
      BY <3>2, CommitFinds DEF CommitRefused
    <3>4. QED
      BY <3>1, <3>3 DEF Displaced, CarriedHere
  <2>5. QED
    BY <2>1, <2>2, <2>3, <2>4 DEF Next
<1>2. QED
  BY <1>1, AlwaysFits, PTL DEF Spec, RefusedForPlacement, Displaced
=============================================================================
