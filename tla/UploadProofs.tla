----------------------------- MODULE UploadProofs -----------------------------
(*****************************************************************************)
(* Theorems about what an upload sets going: the reading and the review of   *)
(* its document (DocumentReading), and the import guide of its company       *)
(* (GuideJobs).                                                              *)
(*****************************************************************************)
EXTENDS DocumentReading, GuideJobs, FiniteSetTheorems, TLAPS

(* The reading and the review of a document. *)

Settled == {"noted", "no_content", "unresolved"}

\* The counters of a window agree with what was read of it.
RecordOK(r) ==
    /\ r.status # "read_pending" => ~r.blocked /\ ~r.formatBlocked
    /\ r.formatBlocked => r.format = 2
    /\ r.format > 0 => r.prepared = "ready"
    /\ ~r.blocked => r.streak <= 1 /\ r.stalls <= 1

ItemOK(r) == ~r.blocked => r.refusals <= 1 /\ r.stalls <= 1

\* The cursor stands between the windows that are settled and those that were never opened.
InOrder == \A w \in Windows :
    /\ w < cursor => record[w].status \in Settled
    /\ w > cursor => record[w].status = "none"
    /\ w \in refused => record[w].status \in {"none", "unresolved"}
    /\ RecordOK(record[w])
    /\ ItemOK(item[w])

\* Which notes the review holds, and what was decided of them.
Noted == \A n \in Windows :
    /\ note[n] # "none" => windowReceipt[n] # "none"
    /\ reviewReceipt[n] # "none" => n \in order
    /\ n \in order /\ reviewReceipt[n] = "none" => note[n] \notin {"none", "rejected"}
    /\ order # {} /\ n \in Notes \ order => note[n] = "rejected"
    /\ n \in decided => reviewReceipt[n] # "none"

\* Every stage begins when the one before it is over, and its summary stays true of the notebook.
Stages ==
    /\ order # {} => reading.complete
    /\ reading.complete => AtEnd /\ reading.unresolved = Cardinality({w \in Windows : record[w].status = "unresolved"})
    /\ reviewed.complete => /\ reading.complete /\ order = decided /\ reviewed.open = Cardinality(NotesIn("needs_check"))
                            /\ order = {} => Notes = NotesIn("rejected")
    /\ published => reviewed.complete /\ reviewed.open = 0
    /\ report = "success" => published /\ reading.unresolved = 0

\* Where a run is in the middle of an exchange, the window or the note is one it may ask about.
Place ==
    /\ pc \in {"ask", "answer", "committed"} /\ Reading =>
          ~AtEnd /\ record[cursor].status = "read_pending" /\ ~record[cursor].blocked
    /\ pc \in {"answer", "committed"} /\ Reading => ~(record[cursor].prepared = "ready" /\ record[cursor].format >= 2)
    /\ pc = "committed" => Reading /\ said # "none"
    /\ pc = "judged" => ~Reading /\ reviewReceipt[Current] # "none"
    /\ pc \in {"ask", "answer", "judged"} /\ ~Reading => Reviewing /\ Undecided # {}
    /\ pc \in {"ask", "answer"} /\ ~Reading => ~item[Current].blocked /\ reviewReceipt[Current] = "none"
    /\ pc = "answer" /\ ~Reading => item[Current].attempts < 2

ReadingInv == TypeOK /\ InOrder /\ Noted /\ Stages /\ Place

\* A set of naturals has a least element: initial segments ordered by inclusion are well founded.
LEMMA Least ==
    ASSUME NEW S, S \subseteq Nat, S # {}
    PROVE  \E m \in S : \A n \in S : m <= n
<1> DEFINE R == StrictSubsetOrdering(Nat)
           Upto(n) == 0 .. n
           T == {Upto(n) : n \in S}
<1>1. IsWellFoundedOn(R, FiniteSubsetsOf(Nat))
  BY FS_StrictSubsetOrderingWellFounded
<1>2. T \subseteq FiniteSubsetsOf(Nat) /\ T # {}
  <2>1. \A n \in S : Upto(n) \in SUBSET Nat /\ IsFiniteSet(Upto(n))
    BY FS_Interval
  <2>2. QED
    BY <2>1 DEF FiniteSubsetsOf
<1> HIDE DEF T, R
<1>3. PICK U \in T : \A V \in T : <<V, U>> \notin R
  BY <1>1, <1>2, WFMin
<1>4. PICK m \in S : U = Upto(m)
  BY <1>3 DEF T
<1>5. ASSUME NEW n \in S, n < m PROVE FALSE
  <2>1. Upto(n) \in T
    BY DEF T
  <2>2. Upto(n) \subseteq Upto(m) /\ Upto(n) # Upto(m)
    BY <1>5
  <2>3. <<Upto(n), Upto(m)>> \in R
    BY <2>2 DEF R, StrictSubsetOrdering
  <2>4. QED
    BY <2>1, <2>3, <1>3, <1>4
<1>6. QED
  BY <1>5

\* The windows are the numbers from 1; a set of them is finite, and has a size.
LEMMA WindowsAreNumbers ==
    /\ Windows \subseteq Nat /\ Cardinality(Windows) \in Nat /\ Windows = 1 .. Cardinality(Windows)
    /\ \A S \in SUBSET Windows : Cardinality(S) \in Nat /\ (Cardinality(S) = 0 => S = {})
<1>1. IsFiniteSet(Windows) /\ Windows = 1 .. Cardinality(Windows)
  BY ReadingAssumption
<1>2. Cardinality(Windows) \in Nat
  BY <1>1, FS_CardinalityType
<1>3. \A S \in SUBSET Windows : IsFiniteSet(S)
  BY <1>1, FS_Subset
<1>4. \A S \in SUBSET Windows : Cardinality(S) \in Nat /\ (Cardinality(S) = 0 => S = {})
  BY <1>3, FS_CardinalityType, FS_EmptySet
<1>5. Windows \subseteq Nat
  BY <1>1, <1>2
<1>6. QED
  BY <1>1, <1>2, <1>4, <1>5

\* The note under review is one of the order that is not decided.
LEMMA CurrentIsUndecided ==
    ASSUME ReviewTypes, Undecided # {}
    PROVE  Current \in order /\ Current \notin decided /\ Current \in Windows
<1>1. Undecided \subseteq Nat /\ Undecided \subseteq order \ decided /\ order \subseteq Windows
  BY WindowsAreNumbers DEF ReviewTypes, Undecided
<1>2. PICK n \in Undecided : \A m \in Undecided : n <= m
  BY <1>1, Least
<1>3. Current \in Undecided
  BY <1>2 DEF Current
<1>4. QED
  BY <1>1, <1>3

\* The phase of the next call follows from what is prepared of the window.
LEMMA PhaseIsKnown ==
    ASSUME NEW r \in RecordTypes
    PROVE  /\ PhaseOf(r) \in Phases \ {"review"}
           /\ PhaseOf(r) = "classify" <=> r.prepared = "no"
           /\ PhaseOf(r) = "attribute" <=> r.prepared = "classified"
           /\ PhaseOf(r) = "extract" <=> r.prepared \in {"attributed", "empty"}
           /\ PhaseOf(r) = "plan" <=> r.prepared = "ready"
<1>1. CASE r.prepared = "no"
  BY <1>1 DEF PhaseOf, Phases
<1>2. CASE r.prepared = "classified"
  BY <1>2 DEF PhaseOf, Phases
<1>3. CASE r.prepared = "attributed"
  BY <1>3 DEF PhaseOf, Phases
<1>4. CASE r.prepared = "empty"
  BY <1>4 DEF PhaseOf, Phases
<1>5. CASE r.prepared = "ready"
  BY <1>5 DEF PhaseOf, Phases
<1>6. QED
  BY <1>1, <1>2, <1>3, <1>4, <1>5 DEF RecordTypes
-----------------------------------------------------------------------------
(* The reading. *)

\* Only the record under the cursor changes, and the cursor passes it only when it is settled.
LEMMA WindowChanges ==
    ASSUME CheckpointTypes, InOrder, cursor \in Windows,
           NEW r \in RecordTypes, RecordOK(r), Keep(r),
           cursor' = cursor \/ (cursor' = cursor + 1 /\ r.status \in Settled),
           cursor \in refused => r.status \in {"none", "unresolved"},
           UNCHANGED <<refused, reading, item>>
    PROVE  CheckpointTypes' /\ InOrder'
<1>1. \A w \in Windows : record'[w] = IF w = cursor THEN r ELSE record[w]
  BY DEF CheckpointTypes, Keep
<1>2. record' \in [Windows -> RecordTypes]
  BY DEF CheckpointTypes, Keep
<1>3. cursor' \in 1 .. Cardinality(Windows) + 1 /\ cursor \in Nat
  BY WindowsAreNumbers DEF CheckpointTypes
<1>4. CheckpointTypes'
  BY <1>2, <1>3 DEF CheckpointTypes
<1>5. InOrder'
  <2> SUFFICES ASSUME NEW w \in Windows
               PROVE  /\ w < cursor' => record'[w].status \in Settled
                      /\ w > cursor' => record'[w].status = "none"
                      /\ w \in refused => record'[w].status \in {"none", "unresolved"}
                      /\ RecordOK(record'[w])
                      /\ ItemOK(item[w])
    BY DEF InOrder
  <2>1. w \in Nat
    BY WindowsAreNumbers
  <2>2. CASE w = cursor
    BY <1>1, <1>3, <2>1, <2>2 DEF InOrder
  <2>3. CASE w # cursor
    <3>1. record'[w] = record[w]
      BY <1>1, <2>3
    <3>2. (w < cursor' => w < cursor) /\ (w > cursor' => w > cursor)
      BY <1>3, <2>1, <2>3
    <3>3. QED
      BY <3>1, <3>2 DEF InOrder
  <2>4. QED
    BY <2>2, <2>3
<1>6. QED
  BY <1>4, <1>5

\* While windows are read there is no review, nothing is published, and success is not reported.
LEMMA NothingLater ==
    ASSUME TypeOK, Stages, Noted, Reading
    PROVE  /\ order = {} /\ decided = {} /\ ~reviewed.complete /\ ~published /\ report = "partial"
           /\ \A n \in Windows : reviewReceipt[n] = "none"
<1>1. order = {} /\ decided = {} /\ ~reviewed.complete /\ ~published
  BY DEF Stages, Reading, TypeOK, ReviewTypes
<1>2. report = "partial"
  BY <1>1 DEF Stages, TypeOK, RunTypes
<1>3. QED
  BY <1>1, <1>2 DEF Noted

\* A step of the reading that touches neither notes nor receipts leaves every later stage as it is.
LEMMA ReadingKeepsStages ==
    ASSUME TypeOK, Stages, Noted, Reading, ReadingOnly,
           UNCHANGED <<note, windowReceipt>>, report' \in {report, "partial"}
    PROVE  ReviewTypes' /\ NotebookTypes' /\ Noted' /\ Stages'
<1>1. UNCHANGED <<reading, item, order, decided, reviewed, published, reviewReceipt, note, windowReceipt>>
  BY DEF ReadingOnly
<1>2. ReviewTypes' /\ NotebookTypes'
  BY <1>1 DEF TypeOK, ReviewTypes, NotebookTypes
<1>3. Noted'
  BY <1>1 DEF Noted, Notes
<1>4. Stages'
  BY <1>1, NothingLater DEF Stages, Reading
<1>5. QED
  BY <1>2, <1>3, <1>4

\* Where a run is between two windows.
LEMMA BetweenCalls ==
    ASSUME pc' \in {"idle", "load"}
    PROVE  Place'
BY DEF Place

\* An answer of the reading is about the pending, unblocked window under the cursor.
LEMMA AnsweredWindow ==
    ASSUME ReadingInv, pc = "answer", Reading
    PROVE  /\ cursor \in Windows /\ record[cursor] \in RecordTypes /\ RecordOK(record[cursor])
           /\ record[cursor].status = "read_pending" /\ ~record[cursor].blocked /\ ~record[cursor].formatBlocked
           /\ record[cursor].prepared = "ready" => record[cursor].format < 2
           /\ cursor \notin refused
<1>1. cursor \in Windows /\ record[cursor].status = "read_pending" /\ ~record[cursor].blocked
  BY DEF ReadingInv, Place, AtEnd
<1>2. record[cursor] \in RecordTypes
  BY <1>1 DEF ReadingInv, TypeOK, CheckpointTypes
<1>3. RecordOK(record[cursor]) /\ cursor \notin refused
  BY <1>1 DEF ReadingInv, InOrder
<1>4. record[cursor].prepared = "ready" => record[cursor].format < 2
  BY <1>2 DEF ReadingInv, Place, RecordTypes
<1>5. ~record[cursor].formatBlocked
  BY <1>2, <1>3, <1>4 DEF RecordOK, RecordTypes
<1>6. QED
  BY <1>1, <1>2, <1>3, <1>4, <1>5

\* An answer that leaves the window pending, and the run goes on only if it is not blocked.
LEMMA PreparedKeepsInv ==
    ASSUME ReadingInv, pc = "answer", Reading,
           NEW r \in RecordTypes, RecordOK(r), r.status = "read_pending",
           NEW b, b \in BOOLEAN, ~b => ~r.blocked, Prepared(r, b)
    PROVE  ReadingInv'
<1>1. /\ Keep(r) /\ UNCHANGED <<refused, cursor, reading, item, calls, note, windowReceipt>> /\ ReadingOnly
      /\ AskOr(b)
  BY DEF Prepared, ReadingOnly, Outside
<1>2. /\ pc' \in {"idle", "ask"} /\ tries' \in {tries, 0} /\ said' \in {said, "none"} /\ report' \in {report, "partial"}
      /\ pc' = "ask" => ~b
  BY <1>1 DEF AskOr, Partial, Stop, Goto
<1>3. CheckpointTypes' /\ InOrder'
  BY <1>1, AnsweredWindow, WindowChanges DEF ReadingInv, TypeOK
<1>4. ReviewTypes' /\ NotebookTypes' /\ Noted' /\ Stages'
  BY <1>1, <1>2, ReadingKeepsStages DEF ReadingInv
<1>5. RunTypes'
  BY <1>1, <1>2 DEF ReadingInv, TypeOK, RunTypes, ReadingOnly, Outside
<1>6. Place'
  <2>1. record'[cursor] = r /\ cursor \in Windows
    BY <1>1, AnsweredWindow DEF Keep, ReadingInv, TypeOK, CheckpointTypes
  <2>2. QED
    BY <1>1, <1>2, <2>1 DEF Place, AtEnd, Reading
<1>7. QED
  BY <1>3, <1>4, <1>5, <1>6 DEF ReadingInv, TypeOK

\* The answers that only prepare the window: each keeps its counters in agreement.
LEMMA AnswersKeepInv ==
    ASSUME ReadingInv,
           Classify \/ Attribute \/ Extract \/ ShowAgain \/ RefuseTool \/ MalformedReceipt
    PROVE  ReadingInv'
<1>1. pc = "answer" /\ Reading
  BY DEF Classify, Attribute, Extract, ShowAgain, RefuseTool, MalformedReceipt, Answered
<1>2. PICK s : s = record[cursor]
  OBVIOUS
<1>3. /\ s \in RecordTypes /\ RecordOK(s) /\ s.status = "read_pending" /\ ~s.blocked /\ ~s.formatBlocked
      /\ s.prepared = "ready" => s.format < 2
  BY <1>1, <1>2, AnsweredWindow
<1>4. Phase = PhaseOf(s)
  BY <1>1, <1>2 DEF Phase
<1>5. CASE Classify
  <2>1. s.prepared = "no" /\ Prepared([s EXCEPT !.prepared = "classified"], FALSE)
    BY <1>2, <1>3, <1>4, <1>5, PhaseIsKnown DEF Classify, Answered
  <2>2. /\ [s EXCEPT !.prepared = "classified"] \in RecordTypes
        /\ RecordOK([s EXCEPT !.prepared = "classified"])
    BY <1>3, <2>1 DEF RecordTypes, RecordOK
  <2>3. QED
    BY <1>1, <1>3, <2>1, <2>2, PreparedKeepsInv DEF RecordTypes
<1>6. CASE Attribute
  <2>1. PICK to \in {"attributed", "empty"} : Prepared([s EXCEPT !.prepared = to], FALSE)
    BY <1>2, <1>6 DEF Attribute
  <2>2. s.prepared = "classified"
    BY <1>3, <1>4, <1>6, PhaseIsKnown DEF Attribute, Answered
  <2>3. PICK t : t = [s EXCEPT !.prepared = to]
    OBVIOUS
  <2>4. t \in RecordTypes /\ RecordOK(t) /\ t.status = "read_pending" /\ ~t.blocked
    BY <1>3, <2>2, <2>3 DEF RecordTypes, RecordOK
  <2>5. QED
    BY <1>1, <2>1, <2>3, <2>4, PreparedKeepsInv
<1>7. CASE Extract
  <2>1. PICK accepted \in BOOLEAN, rejected \in BOOLEAN, complete \in BOOLEAN :
          LET progress == accepted \/ complete
              streak   == IF progress THEN 0 ELSE s.streak + 1
              finished == complete /\ (accepted \/ ~rejected)
          IN  Prepared([s EXCEPT !.candidates = @ \/ accepted, !.streak = streak,
                                 !.prepared = IF finished THEN "ready" ELSE @,
                                 !.blocked = streak >= 2],
                       streak >= 2)
    BY <1>2, <1>7, Zenon DEF Extract
  <2>2. s.prepared \in {"attributed", "empty"}
    BY <1>3, <1>4, <1>7, PhaseIsKnown DEF Extract, Answered
  <2>3. PICK k : k = IF accepted \/ complete THEN 0 ELSE s.streak + 1
    OBVIOUS
  <2>4. k \in 0 .. 2 /\ (k >= 2) \in BOOLEAN
    BY <1>3, <2>3 DEF RecordTypes, RecordOK
  <2>5. PICK p : p = IF complete /\ (accepted \/ ~rejected) THEN "ready" ELSE s.prepared
    OBVIOUS
  <2>6. PICK t : t = [s EXCEPT !.candidates = @ \/ accepted, !.streak = k, !.prepared = p, !.blocked = (k >= 2)]
    OBVIOUS
  <2>7. Prepared(t, k >= 2)
    BY <2>1, <2>3, <2>5, <2>6
  <2>8. t \in RecordTypes
    <3>1. p \in {"attributed", "empty", "ready"}
      BY <2>2, <2>5
    <3>2. (s.candidates \/ accepted) \in BOOLEAN
      BY <1>3 DEF RecordTypes
    <3>3. QED
      BY <1>3, <2>4, <2>6, <3>1, <3>2 DEF RecordTypes
  <2>9. /\ t.status = "read_pending" /\ (t.blocked <=> k >= 2) /\ t.streak = k /\ t.stalls = s.stalls
        /\ t.format = s.format /\ ~t.formatBlocked
    BY <1>3, <2>6 DEF RecordTypes
  <2>10. s.format = 0 /\ s.stalls <= 1
    BY <1>3, <2>2 DEF RecordOK, RecordTypes
  <2>11. RecordOK(t)
    BY <1>3, <2>4, <2>9, <2>10 DEF RecordOK
  <2>12. QED
    BY <1>1, <2>4, <2>7, <2>8, <2>9, <2>11, PreparedKeepsInv
<1>8. CASE ShowAgain
  <2>1. PICK ws \in SUBSET {w \in Windows : w < cursor /\ Readable(w)} :
          LET fresh == ws \ s.shown IN
          IF fresh = {}
          THEN LET stalls == s.stalls + 1 IN
               Prepared([s EXCEPT !.stalls = stalls, !.blocked = stalls >= 2], stalls >= 2)
          ELSE Prepared([s EXCEPT !.shown = @ \cup fresh, !.stalls = 0, !.streak = 0], FALSE)
    BY <1>2, <1>8, Zenon DEF ShowAgain
  <2>2. CASE ws \ s.shown = {}
    <3>1. PICK k : k = s.stalls + 1
      OBVIOUS
    <3>2. k \in 0 .. 2 /\ (k >= 2) \in BOOLEAN /\ s.streak <= 1
      BY <1>3, <3>1 DEF RecordTypes, RecordOK
    <3>3. PICK t : t = [s EXCEPT !.stalls = k, !.blocked = (k >= 2)]
      OBVIOUS
    <3>4. Prepared(t, k >= 2)
      BY <2>1, <2>2, <3>1, <3>3
    <3>5. /\ t \in RecordTypes /\ t.status = "read_pending" /\ (t.blocked <=> k >= 2)
          /\ t.stalls = k /\ t.streak = s.streak /\ t.format = s.format
          /\ ~t.formatBlocked /\ t.prepared = s.prepared
      BY <1>3, <3>2, <3>3 DEF RecordTypes
    <3>6. RecordOK(t)
      BY <1>3, <3>2, <3>5 DEF RecordOK
    <3>7. QED
      BY <1>1, <3>2, <3>4, <3>5, <3>6, PreparedKeepsInv
  <2>3. CASE ws \ s.shown # {}
    <3>1. PICK v : v = s.shown \cup (ws \ s.shown)
      OBVIOUS
    <3>2. PICK t : t = [s EXCEPT !.shown = v, !.stalls = 0, !.streak = 0]
      OBVIOUS
    <3>3. Prepared(t, FALSE)
      BY <2>1, <2>3, <3>2, <3>1
    <3>4. v \in SUBSET Windows
      BY <1>3, <3>1 DEF RecordTypes
    <3>5. t \in RecordTypes /\ t.status = "read_pending" /\ ~t.blocked
      <4>1. PICK u : u = [s EXCEPT !.shown = v]
        OBVIOUS
      <4>2. u \in RecordTypes /\ u.status = "read_pending" /\ ~u.blocked
        BY <1>3, <3>4, <4>1 DEF RecordTypes
      <4>3. t = [u EXCEPT !.stalls = 0, !.streak = 0]
        BY <1>3, <3>2, <4>1 DEF RecordTypes
      <4>4. [u EXCEPT !.stalls = 0] \in RecordTypes
        BY <4>2 DEF RecordTypes
      <4>5. t = [[u EXCEPT !.stalls = 0] EXCEPT !.streak = 0]
        BY <4>2, <4>3 DEF RecordTypes
      <4>6. QED
        BY <4>2, <4>4, <4>5 DEF RecordTypes
    <3>6. RecordOK(t)
      BY <1>3, <3>2 DEF RecordTypes, RecordOK
    <3>7. QED
      BY <1>1, <3>3, <3>5, <3>6, PreparedKeepsInv
  <2>4. QED
    BY <2>2, <2>3
<1>9. CASE RefuseTool
  <2>1. PICK f : f = [s.refusals EXCEPT ![Phase] = @ + 1]
    OBVIOUS
  <2>2. PICK t : t = [s EXCEPT !.refusals = f]
    OBVIOUS
  <2>3. /\ Phase \in ToolPhases /\ s.refusals \in [ToolPhases -> Nat]
        /\ Prepared([s EXCEPT !.refusals[Phase] = @ + 1], s.refusals[Phase] >= 1)
    BY <1>2, <1>3, <1>9 DEF RefuseTool, RecordTypes
  <2>4. f \in [ToolPhases -> Nat] /\ (s.refusals[Phase] >= 1) \in BOOLEAN
    BY <2>1, <2>3
  <2>5. [s EXCEPT !.refusals[Phase] = @ + 1] = t
    BY <1>3, <2>1, <2>2 DEF RecordTypes
  <2>6. t \in RecordTypes /\ t.status = "read_pending" /\ ~t.blocked /\ RecordOK(t)
    BY <1>3, <2>2, <2>4 DEF RecordTypes, RecordOK
  <2>7. QED
    BY <1>1, <2>3, <2>4, <2>5, <2>6, PreparedKeepsInv
<1>10. CASE MalformedReceipt
  <2>1. s.prepared = "ready" /\ Prepared([s EXCEPT !.format = @ + 1], FALSE)
    BY <1>2, <1>3, <1>4, <1>10, PhaseIsKnown DEF MalformedReceipt, Answered
  <2>2. PICK t : t = [s EXCEPT !.format = @ + 1]
    OBVIOUS
  <2>3. s.format + 1 \in 0 .. 2
    BY <1>3, <2>1 DEF RecordTypes
  <2>4. t \in RecordTypes /\ t.status = "read_pending" /\ ~t.blocked
    BY <1>3, <2>2, <2>3 DEF RecordTypes
  <2>5. RecordOK(t)
    BY <1>3, <2>1, <2>2 DEF RecordTypes, RecordOK
  <2>6. QED
    BY <1>1, <2>1, <2>2, <2>4, <2>5, PreparedKeepsInv
<1>11. QED
  BY <1>5, <1>6, <1>7, <1>8, <1>9, <1>10

\* The steps that open, save, pass or give up a window, and the commit of a receipt.
LEMMA WindowsKeepInv ==
    ASSUME ReadingInv, ReadWindow \/ MalformedAttribution \/ CommitReceipt \/ RejectReceipt
    PROVE  ReadingInv'
<1> USE DEF ReadingInv
<1>1. ASSUME NEW r \in RecordTypes, RecordOK(r), Keep(r), cursor \in Windows, Reading, ReadingOnly,
             cursor' = cursor \/ (cursor' = cursor + 1 /\ r.status \in Settled),
             cursor \in refused => r.status \in {"none", "unresolved"},
             UNCHANGED <<calls, note, windowReceipt>>,
             pc' \in {"idle", "load", "ask"}, tries' \in {tries, 0}, said' \in {said, "none"},
             report' \in {report, "partial"},
             pc' = "ask" => cursor' = cursor /\ r.status = "read_pending" /\ ~r.blocked
      PROVE  ReadingInv'
  <2>1. UNCHANGED <<refused, reading, item, calls, note, windowReceipt, retryAsked, retries, published>>
    BY <1>1 DEF ReadingOnly, Outside
  <2>2. CheckpointTypes' /\ InOrder'
    BY <1>1, <2>1, WindowChanges DEF TypeOK
  <2>3. ReviewTypes' /\ NotebookTypes' /\ Noted' /\ Stages'
    BY <1>1, ReadingKeepsStages
  <2>4. RunTypes'
    BY <1>1, <2>1 DEF TypeOK, RunTypes
  <2>5. record'[cursor] = r
    BY <1>1 DEF Keep, TypeOK, CheckpointTypes
  <2>6. Place'
    BY <1>1, <2>1, <2>5 DEF Place, AtEnd, Reading
  <2>7. QED
    BY <2>2, <2>3, <2>4, <2>6 DEF TypeOK
\* A step that leaves every record as it is.
<1>2. ASSUME Reading, ReadingOnly, UNCHANGED <<record, calls, note, windowReceipt>>,
             cursor' = cursor \/ (cursor \in Windows /\ cursor' = cursor + 1 /\ record[cursor].status \in Settled),
             pc' \in {"idle", "load", "ask"}, tries' \in 0 .. 1, said' \in {said, "none"},
             report' \in {report, "partial"},
             pc' = "ask" => cursor' = cursor /\ ~AtEnd /\ record[cursor].status = "read_pending"
                            /\ ~record[cursor].blocked
      PROVE  ReadingInv'
  <2>1. UNCHANGED <<refused, reading, item, calls, note, windowReceipt, retryAsked, retries, published>>
    BY <1>2 DEF ReadingOnly, Outside
  <2>2. CheckpointTypes' /\ InOrder'
    <3>1. CASE cursor' = cursor
      BY <1>2, <2>1, <3>1 DEF TypeOK, CheckpointTypes, InOrder
    <3>2. CASE cursor \in Windows /\ cursor' = cursor + 1 /\ record[cursor].status \in Settled
      <4>1. record[cursor] \in RecordTypes
        BY <3>2 DEF TypeOK, CheckpointTypes
      <4>2. RecordOK(record[cursor]) /\ (cursor \in refused => record[cursor].status \in {"none", "unresolved"})
        BY <3>2 DEF InOrder
      <4>3. Keep(record[cursor])
        BY <1>2 DEF Keep, TypeOK, CheckpointTypes
      <4>4. QED
        BY <2>1, <3>2, <4>1, <4>2, <4>3, WindowChanges DEF TypeOK
    <3>3. QED
      BY <1>2, <3>1, <3>2
  <2>3. ReviewTypes' /\ NotebookTypes' /\ Noted' /\ Stages'
    BY <1>2, ReadingKeepsStages
  <2>4. RunTypes'
    BY <1>2, <2>1 DEF TypeOK, RunTypes
  <2>5. Place'
    BY <1>2, <2>1 DEF Place, AtEnd, Reading
  <2>6. QED
    BY <2>2, <2>3, <2>4, <2>5 DEF TypeOK
<1>3. CASE OpenWindow
  <2>1. cursor \in Windows /\ record[cursor].status = "none" /\ Reading /\ ReadingOnly
        /\ UNCHANGED <<calls, note, windowReceipt>>
    BY <1>3 DEF OpenWindow, AtEnd
  <2>2. record[cursor] \in RecordTypes /\ RecordOK(record[cursor])
    BY <2>1 DEF TypeOK, CheckpointTypes, InOrder
  <2>3. CASE cursor \in refused
    <3>1. PICK t : t = [record[cursor] EXCEPT !.status = "unresolved"]
      OBVIOUS
    <3>2. t \in RecordTypes /\ RecordOK(t) /\ t.status = "unresolved"
      BY <2>1, <2>2, <3>1 DEF RecordTypes, RecordOK
    <3>3. Keep(t) /\ cursor' = cursor + 1 /\ pc' = "load" /\ UNCHANGED <<tries, said, report>>
      BY <1>3, <2>3, <3>1 DEF OpenWindow, Goto
    <3>4. QED
      BY <1>1, <2>1, <3>2, <3>3 DEF Settled
  <2>4. CASE cursor \notin refused
    <3>1. PICK b \in BOOLEAN : /\ Keep([record[cursor] EXCEPT !.status = "read_pending", !.oversized = b])
                             /\ AskOr(b) /\ UNCHANGED cursor
      BY <1>3, <2>4 DEF OpenWindow
    <3>2. PICK t : t = [record[cursor] EXCEPT !.status = "read_pending", !.oversized = b]
      OBVIOUS
    <3>3. t \in RecordTypes /\ RecordOK(t) /\ t.status = "read_pending" /\ ~t.blocked
      BY <2>1, <2>2, <3>2 DEF RecordTypes, RecordOK
    <3>4. /\ Keep(t) /\ cursor' = cursor /\ pc' \in {"idle", "ask"}
          /\ tries' \in {tries, 0} /\ said' \in {said, "none"} /\ report' \in {report, "partial"}
      BY <3>1, <3>2 DEF AskOr, Partial, Stop, Goto
    <3>5. QED
      BY <1>1, <2>1, <2>4, <3>3, <3>4
  <2>5. QED
    BY <2>3, <2>4
<1>4. CASE ResumeWindow
  <2>1. Reading /\ ~AtEnd /\ record[cursor].status = "read_pending" /\ AskOr(record[cursor].blocked \/ record[cursor].oversized)
        /\ ReadingOnly /\ UNCHANGED <<record, cursor, calls, note, windowReceipt>>
    BY <1>4 DEF ResumeWindow, Pending
  <2>2. pc' \in {"idle", "ask"} /\ tries' \in {tries, 0} /\ said' \in {said, "none"} /\ report' \in {report, "partial"}
        /\ (pc' = "ask" => ~record[cursor].blocked)
    BY <2>1 DEF AskOr, Partial, Stop, Goto
  <2>3. QED
    BY <1>2, <2>1, <2>2 DEF TypeOK, RunTypes
<1>5. CASE PassWindow
  <2>1. cursor \in Windows /\ record[cursor].status \notin {"none", "read_pending"} /\ Reading
        /\ cursor' = cursor + 1 /\ ReadingOnly /\ UNCHANGED <<record, calls, note, windowReceipt>>
    BY <1>5 DEF PassWindow, AtEnd
  <2>2. record[cursor].status \in Settled
    BY <2>1 DEF TypeOK, CheckpointTypes, RecordTypes, Settled
  <2>3. pc' = "load" /\ UNCHANGED <<tries, said, report>>
    BY <1>5 DEF PassWindow, Goto
  <2>4. QED
    BY <1>2, <2>1, <2>2, <2>3 DEF TypeOK, RunTypes
<1>6. CASE BlockFormat
  <2>1. /\ Reading /\ cursor \in Windows /\ record[cursor].status = "read_pending" /\ record[cursor].format >= 2
        /\ Partial /\ ReadingOnly /\ UNCHANGED <<cursor, calls, note, windowReceipt>>
        /\ Keep([record[cursor] EXCEPT !.formatBlocked = TRUE])
    BY <1>6 DEF BlockFormat, Pending, AtEnd
  <2>2. /\ record[cursor] \in RecordTypes /\ RecordOK(record[cursor])
        /\ (cursor \in refused => record[cursor].status \in {"none", "unresolved"})
    BY <2>1 DEF TypeOK, CheckpointTypes, InOrder
  <2>3. PICK t : t = [record[cursor] EXCEPT !.formatBlocked = TRUE]
    OBVIOUS
  <2>4. t \in RecordTypes /\ RecordOK(t) /\ t.status = "read_pending"
    <3>1. t \in RecordTypes /\ t.status = "read_pending" /\ t.format = 2
      <4>1. record[cursor].format = 2
        BY <2>1, <2>2 DEF RecordTypes
      <4>2. t \in RecordTypes
        BY <2>2, <2>3 DEF RecordTypes
      <4>3. QED
        BY <2>1, <2>2, <2>3, <4>1 DEF RecordTypes
    <3>2. /\ t.prepared = record[cursor].prepared /\ t.blocked = record[cursor].blocked
          /\ t.streak = record[cursor].streak /\ t.stalls = record[cursor].stalls
      BY <2>2, <2>3 DEF RecordTypes
    <3>3. record[cursor].prepared = "ready" /\ (~record[cursor].blocked => record[cursor].streak <= 1 /\ record[cursor].stalls <= 1)
      BY <2>1, <2>2 DEF RecordTypes, RecordOK
    <3>4. QED
      BY <3>1, <3>2, <3>3 DEF RecordOK
  <2>5. pc' = "idle" /\ tries' = 0 /\ said' = "none" /\ report' = "partial"
    BY <2>1 DEF Partial, Stop
  <2>6. QED
    BY <1>1, <2>1, <2>2, <2>3, <2>4, <2>5
<1>7. CASE SaveWindow
  <2>1. /\ Keep([record[cursor] EXCEPT !.status = said]) /\ ReadingOnly
        /\ UNCHANGED <<cursor, calls, note, windowReceipt, report>> /\ pc' = "load" /\ said' = "none" /\ tries' = 0
    BY <1>7 DEF SaveWindow
  <2>2. /\ Reading /\ cursor \in Windows /\ record[cursor].status = "read_pending" /\ ~record[cursor].blocked
        /\ said # "none" /\ ~(record[cursor].prepared = "ready" /\ record[cursor].format >= 2)
    BY <1>7 DEF SaveWindow, Place, AtEnd
  <2>3. /\ record[cursor] \in RecordTypes /\ RecordOK(record[cursor]) /\ cursor \notin refused
        /\ said \in Settled
    BY <2>2 DEF TypeOK, CheckpointTypes, InOrder, RunTypes, Settled
  <2>4. ~record[cursor].formatBlocked
    BY <2>2, <2>3 DEF RecordOK, RecordTypes
  <2>5. PICK t : t = [record[cursor] EXCEPT !.status = said]
    OBVIOUS
  <2>6. t \in RecordTypes /\ RecordOK(t)
    BY <2>2, <2>3, <2>4, <2>5 DEF RecordTypes, RecordOK, Settled
  <2>7. QED
    BY <1>1, <2>1, <2>2, <2>3, <2>5, <2>6
<1>8. CASE CompleteReading
  <2>1. /\ Reading /\ AtEnd /\ pc' = "load"
        /\ UNCHANGED <<record, cursor, item, order, decided, published, calls, note, windowReceipt, reviewReceipt,
                       refused, retryAsked, retries, tries, said, report>>
        /\ reading' = [complete |-> TRUE, unresolved |-> Cardinality({w \in Windows : record[w].status = "unresolved"})]
        /\ reviewed' = [reviewed EXCEPT !.open = Cardinality(NotesIn("needs_check"))]
    BY <1>8 DEF CompleteReading, Goto, Outside, notebook
  <2>2. {w \in Windows : record[w].status = "unresolved"} \in SUBSET Windows /\ NotesIn("needs_check") \in SUBSET Windows
    BY DEF NotesIn
  <2>3. reading' \in [complete : BOOLEAN, unresolved : Nat]
    BY <2>1, <2>2, WindowsAreNumbers
  <2>4. Cardinality(NotesIn("needs_check")) \in Nat
    BY <2>2, WindowsAreNumbers
  <2>5. reviewed' \in [complete : BOOLEAN, open : Nat] /\ ~reviewed'.complete
    BY <2>1, <2>4, NothingLater DEF TypeOK, ReviewTypes
  <2>6. CheckpointTypes' /\ InOrder'
    BY <2>1, <2>3 DEF TypeOK, CheckpointTypes, InOrder
  <2>7. ReviewTypes' /\ NotebookTypes' /\ RunTypes'
    BY <2>1, <2>5 DEF TypeOK, ReviewTypes, NotebookTypes, RunTypes
  <2>8. Noted'
    BY <2>1 DEF Noted, Notes
  <2>9. Stages'
    BY <2>1, <2>5, NothingLater DEF Stages, AtEnd
  <2>10. Place'
    BY <2>1, BetweenCalls
  <2>11. QED
    BY <2>6, <2>7, <2>8, <2>9, <2>10 DEF TypeOK
<1>9. CASE MalformedAttribution
  <2>1. pc = "answer" /\ Reading /\ ReadingOnly /\ UNCHANGED <<record, cursor, calls, note, windowReceipt>>
    BY <1>9 DEF MalformedAttribution, Answered
  <2>2. /\ pc' \in {"idle", "ask"} /\ tries' \in 0 .. 1 /\ said' \in {said, "none"} /\ report' \in {report, "partial"}
    BY <1>9 DEF MalformedAttribution, Partial, Stop, TypeOK, RunTypes
  <2>3. ~AtEnd /\ record[cursor].status = "read_pending" /\ ~record[cursor].blocked
    BY <2>1 DEF Place
  <2>4. QED
    BY <1>2, <2>1, <2>2, <2>3
<1>10. CASE CommitReceipt
  <2>1. /\ pc = "answer" /\ Reading /\ ReadingOnly /\ pc' = "committed"
        /\ UNCHANGED <<record, cursor, calls, tries, report>>
    BY <1>10 DEF CommitReceipt, Answered
  <2>2. PICK receipt \in Receipts :
           /\ said' = receipt.outcome
           /\ IF windowReceipt[cursor] = "none"
              THEN /\ Applicable(receipt)
                   /\ note' = Revised(receipt)
                   /\ windowReceipt' = [windowReceipt EXCEPT ![cursor] = receipt.outcome]
              ELSE UNCHANGED <<note, windowReceipt>>
    BY <1>10 DEF CommitReceipt
  <2>3. UNCHANGED <<refused, reading, item, order, decided, reviewed, published, reviewReceipt, retryAsked, retries>>
    BY <2>1 DEF ReadingOnly, Outside
  <2>4. receipt.outcome \in Settled /\ receipt.create \in {"none", "verified", "needs_check"}
        /\ receipt.revise \in Revisions \cup {NoRevision}
    BY DEF Receipts, Settled
  <2>5. /\ cursor \in Windows /\ order = {} /\ decided = {} /\ ~reviewed.complete /\ ~published /\ report = "partial"
        /\ \A n \in Windows : reviewReceipt[n] = "none"
    BY <2>1, AnsweredWindow, NothingLater
  <2>6. /\ \A n \in Windows : note'[n] \in {"none", "verified", "needs_check", "rejected"}
        /\ \A n \in Windows : note'[n] # "none" => windowReceipt'[n] # "none"
        /\ NotebookTypes'
    <3>1. CASE windowReceipt[cursor] = "none"
      <4>1. Applicable(receipt) /\ note' = Revised(receipt)
            /\ windowReceipt' = [windowReceipt EXCEPT ![cursor] = receipt.outcome]
        BY <2>2, <3>1
      <4>2. \A n \in Windows : windowReceipt'[n] = IF n = cursor THEN receipt.outcome ELSE windowReceipt[n]
        BY <4>1, <2>5 DEF TypeOK, NotebookTypes
      <4>3. receipt.revise.to \in {"none", "same", "verified", "needs_check", "rejected"}
        BY <2>4 DEF Revisions, NoRevision
      <4>4. \A n \in Windows : n = receipt.revise.note => receipt.revise \in Revisions
        BY <2>4, WindowsAreNumbers DEF NoRevision
      <4>5. \A n \in Windows : n = receipt.revise.note => receipt.revise # NoRevision /\ receipt.revise.to # "none"
        BY <4>4, WindowsAreNumbers DEF Revisions, NoRevision
      <4>6. \A n \in Windows : n = receipt.revise.note => note[n] # "none"
        BY <4>1, <4>5 DEF Applicable
      <4>7. note' \in [Windows -> {"none", "verified", "needs_check", "rejected"}]
        <5>1. ASSUME NEW n \in Windows
              PROVE  (IF n = cursor /\ receipt.create # "none"
                      THEN IF receipt.outcome = "unresolved" THEN "needs_check" ELSE receipt.create
                      ELSE IF n = receipt.revise.note /\ receipt.revise.to # "same" THEN receipt.revise.to
                      ELSE note[n]) \in {"none", "verified", "needs_check", "rejected"}
          BY <2>4, <4>3, <4>5 DEF TypeOK, NotebookTypes
        <5>2. QED
          BY <4>1, <5>1 DEF Revised
      <4>8. \A n \in Windows : note'[n] # "none" => n = cursor \/ note[n] # "none"
        BY <4>1, <4>6 DEF Revised
      <4>9. \A n \in Windows : note'[n] # "none" => windowReceipt'[n] # "none"
        BY <2>4, <4>2, <4>8 DEF Noted, Settled
      <4>10. windowReceipt' \in [Windows -> {"none", "noted", "no_content", "unresolved"}]
        BY <2>4, <4>1 DEF TypeOK, NotebookTypes, Settled
      <4>11. QED
        BY <2>3, <4>7, <4>9, <4>10 DEF TypeOK, NotebookTypes
    <3>2. CASE windowReceipt[cursor] # "none"
      BY <2>2, <2>3, <3>2 DEF TypeOK, NotebookTypes, Noted
    <3>3. QED
      BY <3>1, <3>2
  <2>7. Noted'
    BY <2>3, <2>5, <2>6 DEF Noted
  <2>8. Stages'
    BY <2>1, <2>3, <2>5 DEF Stages, Reading
  <2>9. CheckpointTypes' /\ InOrder' /\ ReviewTypes'
    BY <2>1, <2>3 DEF TypeOK, CheckpointTypes, InOrder, ReviewTypes
  <2>10. RunTypes'
    BY <2>1, <2>2, <2>3, <2>4 DEF TypeOK, RunTypes, Settled
  <2>11. Place'
    <3>1. said' # "none"
      BY <2>2, <2>4 DEF Settled
    <3>2. /\ ~AtEnd /\ record[cursor].status = "read_pending" /\ ~record[cursor].blocked
          /\ ~(record[cursor].prepared = "ready" /\ record[cursor].format >= 2)
      BY <2>1 DEF Place
    <3>3. QED
      BY <2>1, <2>3, <3>1, <3>2 DEF Place, Reading, AtEnd
  <2>12. QED
    BY <2>6, <2>7, <2>8, <2>9, <2>10, <2>11 DEF TypeOK
<1>11. CASE RejectReceipt
  <2>1. /\ pc = "answer" /\ Reading /\ ReadingOnly /\ UNCHANGED <<calls, note, windowReceipt, said, report>>
        /\ Keep([record[cursor] EXCEPT !.status = "unresolved"]) /\ cursor' = cursor + 1
        /\ pc' = "load" /\ tries' = 0
    BY <1>11 DEF RejectReceipt, Answered
  <2>2. PICK t : t = [record[cursor] EXCEPT !.status = "unresolved"]
    OBVIOUS
  <2>3. t \in RecordTypes /\ RecordOK(t) /\ t.status = "unresolved" /\ cursor \in Windows
    BY <2>1, <2>2, AnsweredWindow DEF RecordTypes, RecordOK
  <2>4. QED
    BY <1>1, <2>1, <2>2, <2>3 DEF Settled
<1>12. QED
  BY <1>3, <1>4, <1>5, <1>6, <1>7, <1>8, <1>9, <1>10, <1>11 DEF ReadWindow
-----------------------------------------------------------------------------
(* The review. *)

\* What the invariant says of one note of the review.
LEMMA ItemsAreTyped ==
    ASSUME ReadingInv, NEW n \in Windows
    PROVE  item[n] \in ItemTypes /\ ItemOK(item[n])
BY DEF ReadingInv, TypeOK, ReviewTypes, InOrder

\* The note under review is the same while nothing is decided.
LEMMA CurrentStays ==
    ASSUME UNCHANGED <<order, decided>>
    PROVE  Current' = Current /\ Undecided' = Undecided
<1>1. Undecided' = Undecided
  BY DEF Undecided
<1>2. QED
  BY <1>1 DEF Current

\* A step that only counts something of the note under review.
LEMMA JudgedKeepsInv ==
    ASSUME ReadingInv, ~Reading, Reviewing, Undecided # {},
           NEW r \in ItemTypes, ItemOK(r), KeepItem(r), ReviewOnly, UNCHANGED calls, NoDecision,
           tries' \in {tries, 0}, said' \in {said, "none"}, report' \in {report, "partial"},
           pc' \in {"idle", "ask"}, pc' = "ask" => ~r.blocked /\ reviewReceipt[Current] = "none"
    PROVE  ReadingInv'
<1> USE DEF ReadingInv
<1>1. /\ UNCHANGED <<refused, retryAsked, retries, record, cursor, reading, published, windowReceipt,
                     order, decided, reviewed, note, reviewReceipt>>
      /\ Current \in Windows
  BY CurrentIsUndecided DEF ReviewOnly, Outside, NoDecision, TypeOK
<1>2. \A n \in Windows : item'[n] = IF n = Current THEN r ELSE item[n]
  BY DEF KeepItem, TypeOK, ReviewTypes
<1>3. item' \in [Windows -> ItemTypes]
  BY DEF KeepItem, TypeOK, ReviewTypes
<1>4. CheckpointTypes' /\ InOrder'
  BY <1>1, <1>2 DEF TypeOK, CheckpointTypes, InOrder
<1>5. ReviewTypes' /\ NotebookTypes' /\ RunTypes'
  BY <1>1, <1>3 DEF TypeOK, ReviewTypes, NotebookTypes, RunTypes
<1>6. Noted'
  BY <1>1 DEF Noted, Notes
<1>7. Stages'
  BY <1>1 DEF Stages, AtEnd, NotesIn, Notes
<1>8. Place'
  <2>1. Current' = Current /\ Undecided' = Undecided
    BY <1>1, CurrentStays
  <2>2. item'[Current] = r
    BY <1>1, <1>2
  <2>3. QED
    BY <1>1, <2>1, <2>2 DEF Place, Reading, Reviewing
<1>9. QED
  BY <1>4, <1>5, <1>6, <1>7, <1>8 DEF TypeOK

\* An answer of the review is about a note that is undecided, open to decisions and not blocked.
LEMMA AdvisedNote ==
    ASSUME ReadingInv, Advised
    PROVE  /\ ~Reading /\ Undecided # {} /\ Current \in Windows /\ Current \in order /\ Current \notin decided
           /\ item[Current] \in ItemTypes /\ ItemOK(item[Current])
           /\ ~item[Current].blocked /\ reviewReceipt[Current] = "none" /\ item[Current].attempts < 2
           /\ note[Current] \notin {"none", "rejected"}
<1>1. pc = "answer" /\ ~Reading /\ Reviewing
  BY DEF Advised, Reviewing, Reading
<1>2. Undecided # {} /\ ~item[Current].blocked /\ reviewReceipt[Current] = "none" /\ item[Current].attempts < 2
  BY <1>1 DEF ReadingInv, Place
<1>3. Current \in Windows /\ Current \in order /\ Current \notin decided
  BY <1>2, CurrentIsUndecided DEF ReadingInv, TypeOK
<1>4. QED
  BY <1>1, <1>2, <1>3, ItemsAreTyped DEF ReadingInv, Noted

\* The answers of the review that only count against the limits of the note.
LEMMA JudgementsKeepInv ==
    ASSUME ReadingInv, ReviewShow \/ RefuseReviewTool \/ RejectDecision
    PROVE  ReadingInv'
<1>1. Advised /\ Reviewing
  BY DEF ReviewShow, RefuseReviewTool, RejectDecision, Advised
<1>2. PICK s : s = item[Current]
  OBVIOUS
<1>3. /\ ~Reading /\ Undecided # {} /\ s \in ItemTypes /\ ItemOK(s) /\ ~s.blocked /\ s.attempts < 2
      /\ reviewReceipt[Current] = "none" /\ Current \in Windows
  BY <1>1, <1>2, AdvisedNote
<1>4. ASSUME NEW r \in ItemTypes, ItemOK(r), NEW b \in BOOLEAN, ~b => ~r.blocked, Judged(r, b)
      PROVE  ReadingInv'
  <2>1. KeepItem(r) /\ AskOr(b) /\ ReviewOnly /\ UNCHANGED calls /\ NoDecision
    BY <1>4 DEF Judged
  <2>2. /\ pc' \in {"idle", "ask"} /\ tries' \in {tries, 0} /\ said' \in {said, "none"} /\ report' \in {report, "partial"}
        /\ pc' = "ask" => ~b
    BY <2>1 DEF AskOr, Partial, Stop, Goto
  <2>3. QED
    BY <1>1, <1>3, <1>4, <2>1, <2>2, JudgedKeepsInv
<1>5. CASE ReviewShow
  <2>1. PICK ws \in SUBSET {w \in Windows : Readable(w)} :
          LET granted == Cardinality(ws \ {Current})
              stalls  == s.stalls + 1 IN
          /\ s.shown + granted <= 2
          /\ IF granted = 0
             THEN Judged([s EXCEPT !.stalls = stalls, !.blocked = stalls >= 2], stalls >= 2)
             ELSE Judged([s EXCEPT !.shown = @ + granted, !.stalls = 0], FALSE)
    BY <1>2, <1>5, Zenon DEF ReviewShow
  <2>2. PICK g : g = Cardinality(ws \ {Current})
    OBVIOUS
  <2>3. g \in Nat /\ s.shown + g <= 2
    BY <2>1, <2>2, WindowsAreNumbers
  <2>4. PICK k : k = s.stalls + 1
    OBVIOUS
  <2>5. k \in 0 .. 2 /\ (k >= 2) \in BOOLEAN
    BY <1>3, <2>4 DEF ItemTypes, ItemOK
  <2>6. CASE g = 0
    <3>1. PICK t : t = [s EXCEPT !.stalls = k, !.blocked = (k >= 2)]
      OBVIOUS
    <3>2. Judged(t, k >= 2)
      BY <2>1, <2>2, <2>4, <2>6, <3>1
    <3>3. t \in ItemTypes /\ (t.blocked <=> k >= 2) /\ t.stalls = k /\ t.refusals = s.refusals
      BY <1>3, <2>5, <3>1 DEF ItemTypes
    <3>4. ItemOK(t)
      BY <1>3, <2>5, <3>3 DEF ItemOK
    <3>5. QED
      BY <1>4, <2>5, <3>2, <3>3, <3>4
  <2>7. CASE g # 0
    <3>1. PICK v : v = s.shown + g
      OBVIOUS
    <3>2. PICK t : t = [s EXCEPT !.shown = v, !.stalls = 0]
      OBVIOUS
    <3>3. Judged(t, FALSE)
      BY <2>1, <2>2, <2>7, <3>1, <3>2
    <3>4. v \in 0 .. 2
      BY <1>3, <2>3, <3>1 DEF ItemTypes
    <3>5. t \in ItemTypes /\ ~t.blocked /\ t.stalls = 0 /\ t.refusals = s.refusals
      <4>1. PICK u : u = [s EXCEPT !.shown = v]
        OBVIOUS
      <4>2. u \in ItemTypes
        BY <1>3, <3>4, <4>1 DEF ItemTypes
      <4>3. t = [u EXCEPT !.stalls = 0]
        BY <1>3, <3>2, <4>1 DEF ItemTypes
      <4>4. t \in ItemTypes
        BY <4>2, <4>3 DEF ItemTypes
      <4>5. QED
        BY <1>3, <3>2, <4>4 DEF ItemTypes
    <3>6. ItemOK(t)
      BY <1>3, <3>5 DEF ItemOK
    <3>7. QED
      BY <1>4, <3>3, <3>5, <3>6
  <2>8. QED
    BY <2>6, <2>7
<1>6. CASE RefuseReviewTool
  <2>1. PICK k : k = s.refusals + 1
    OBVIOUS
  <2>2. k \in 0 .. 2 /\ (k >= 2) \in BOOLEAN
    BY <1>3, <2>1 DEF ItemTypes, ItemOK
  <2>3. PICK t : t = [s EXCEPT !.refusals = k, !.blocked = (k >= 2)]
    OBVIOUS
  <2>4. Judged(t, k >= 2)
    BY <1>2, <1>6, <2>1, <2>3 DEF RefuseReviewTool
  <2>5. t \in ItemTypes /\ (t.blocked <=> k >= 2) /\ t.refusals = k /\ t.stalls = s.stalls
    BY <1>3, <2>2, <2>3 DEF ItemTypes
  <2>6. ItemOK(t)
    BY <1>3, <2>2, <2>5 DEF ItemOK
  <2>7. QED
    BY <1>4, <2>2, <2>4, <2>5, <2>6
<1>7. CASE RejectDecision
  <2>1. PICK t : t = [s EXCEPT !.attempts = @ + 1]
    OBVIOUS
  <2>2. Judged(t, FALSE)
    BY <1>2, <1>7, <2>1 DEF RejectDecision
  <2>3. s.attempts + 1 \in 0 .. 2
    BY <1>3 DEF ItemTypes
  <2>4. t \in ItemTypes /\ ~t.blocked /\ t.refusals = s.refusals /\ t.stalls = s.stalls
    BY <1>3, <2>1, <2>3 DEF ItemTypes
  <2>5. ItemOK(t)
    BY <1>3, <2>4 DEF ItemOK
  <2>6. QED
    BY <1>4, <2>2, <2>4, <2>5
<1>8. QED
  BY <1>5, <1>6, <1>7

\* A decision changes its own note, and only one that had no receipt.
LEMMA DecisionKeepsInv ==
    ASSUME ReadingInv, CommitDecision
    PROVE  ReadingInv'
<1> USE DEF ReadingInv
<1>1. Advised /\ pc' = "judged" /\ ReviewOnly /\ UNCHANGED <<item, order, decided, reviewed, calls, tries, said, report>>
  BY DEF CommitDecision, Goto
<1>2. PICK action \in Actions :
         /\ note' = [note EXCEPT ![Current] = StatusAfter(action, @)]
         /\ reviewReceipt' = [reviewReceipt EXCEPT ![Current] = action]
  BY DEF CommitDecision
<1>3. UNCHANGED <<refused, retryAsked, retries, record, cursor, reading, published, windowReceipt>>
  BY <1>1 DEF ReviewOnly, Outside
<1>4. /\ ~Reading /\ Undecided # {} /\ Current \in Windows /\ Current \in order /\ Current \notin decided
      /\ note[Current] \notin {"none", "rejected"} /\ Reviewing /\ pc = "answer"
  BY <1>1, AdvisedNote DEF Advised
<1>5. StatusAfter(action, note[Current]) \in {"none", "verified", "needs_check", "rejected"}
  BY <1>4 DEF StatusAfter, Actions, TypeOK, NotebookTypes
<1>6. \A n \in Windows : /\ note'[n] = IF n = Current THEN StatusAfter(action, note[n]) ELSE note[n]
                         /\ reviewReceipt'[n] = IF n = Current THEN action ELSE reviewReceipt[n]
  BY <1>2 DEF TypeOK, NotebookTypes
<1>7. action # "none"
  BY DEF Actions
<1>8. NotebookTypes'
  BY <1>2, <1>3, <1>4, <1>5 DEF TypeOK, NotebookTypes
<1>9. CheckpointTypes' /\ ReviewTypes' /\ RunTypes' /\ InOrder'
  BY <1>1, <1>3 DEF TypeOK, CheckpointTypes, ReviewTypes, RunTypes, InOrder
<1>10. Noted'
  <2> SUFFICES ASSUME NEW n \in Windows
               PROVE  /\ note'[n] # "none" => windowReceipt[n] # "none"
                      /\ reviewReceipt'[n] # "none" => n \in order
                      /\ n \in order /\ reviewReceipt'[n] = "none" => note'[n] \notin {"none", "rejected"}
                      /\ order # {} /\ n \in Windows /\ note'[n] # "none" /\ n \notin order => note'[n] = "rejected"
                      /\ n \in decided => reviewReceipt'[n] # "none"
    BY <1>1, <1>3 DEF Noted, Notes
  <2>1. CASE n = Current
    BY <1>4, <1>6, <1>7, <2>1 DEF Noted
  <2>2. CASE n # Current
    BY <1>6, <2>2 DEF Noted, Notes
  <2>3. QED
    BY <2>1, <2>2
<1>11. Stages'
  BY <1>1, <1>3, <1>4 DEF Stages, AtEnd, Reviewing
<1>12. Place'
  <2>1. Current' = Current /\ Undecided' = Undecided
    BY <1>1, CurrentStays
  <2>2. reviewReceipt'[Current] # "none"
    BY <1>4, <1>6, <1>7
  <2>3. QED
    BY <1>1, <1>3, <1>4, <2>1, <2>2 DEF Place, Reading, Reviewing
<1>13. QED
  BY <1>8, <1>9, <1>10, <1>11, <1>12 DEF TypeOK

\* The steps between two answers of the review.
LEMMA ReviewKeepsInv ==
    ASSUME ReadingInv, ReviewNote
    PROVE  ReadingInv'
<1> USE DEF ReadingInv
\* The note under review is decided: the cursor passes it.
<1>1. ASSUME Undecided # {}, Reviewing, reviewReceipt[Current] # "none", decided' = decided \cup {Current},
             Goto("load"), ReviewOnly, UNCHANGED <<item, order, reviewed, calls, note, reviewReceipt>>
      PROVE  ReadingInv'
  <2>1. UNCHANGED <<refused, retryAsked, retries, record, cursor, reading, published, windowReceipt, tries, said, report>>
        /\ pc' = "load"
    BY <1>1 DEF ReviewOnly, Outside, Goto
  <2>2. Current \in order /\ Current \in Windows
    BY <1>1, CurrentIsUndecided DEF TypeOK
  <2>3. decided' \subseteq order
    BY <1>1, <2>2 DEF TypeOK, ReviewTypes
  <2>4. CheckpointTypes' /\ ReviewTypes' /\ NotebookTypes' /\ RunTypes' /\ InOrder'
    BY <1>1, <2>1, <2>3 DEF TypeOK, CheckpointTypes, ReviewTypes, NotebookTypes, RunTypes, InOrder
  <2>5. Noted'
    BY <1>1, <2>1 DEF Noted, Notes
  <2>6. Stages'
    BY <1>1, <2>1 DEF Stages, AtEnd, Reviewing
  <2>7. Place'
    BY <2>1, BetweenCalls
  <2>8. QED
    BY <2>4, <2>5, <2>6, <2>7 DEF TypeOK
<1>2. CASE FreezeOrder
  <2>1. /\ UNCHANGED <<refused, retryAsked, retries, record, cursor, reading, published, windowReceipt, tries, said,
                       report, item, decided, reviewed, calls, note, reviewReceipt>>
        /\ pc' = "load" /\ order = {} /\ order' = Notes \ NotesIn("rejected") /\ Reviewing
    BY <1>2 DEF FreezeOrder, ReviewOnly, Outside, Goto
  <2>2. decided = {} /\ order' \subseteq Windows
    BY <2>1 DEF TypeOK, ReviewTypes, Notes
  <2>3. CheckpointTypes' /\ ReviewTypes' /\ NotebookTypes' /\ RunTypes' /\ InOrder'
    BY <2>1, <2>2 DEF TypeOK, CheckpointTypes, ReviewTypes, NotebookTypes, RunTypes, InOrder
  <2>4. Noted'
    BY <2>1, <2>2 DEF Noted, Notes, NotesIn
  <2>5. Stages'
    BY <2>1 DEF Stages, AtEnd, Reviewing
  <2>6. Place'
    BY <2>1, BetweenCalls
  <2>7. QED
    BY <2>3, <2>4, <2>5, <2>6 DEF TypeOK
<1>3. CASE PassNote
  BY <1>1, <1>3 DEF PassNote, AtNote
<1>4. CASE SaveDecision
  <2>1. reviewReceipt[Current] # "none" /\ Reviewing /\ Undecided # {}
    BY <1>4 DEF SaveDecision, Place
  <2>2. QED
    BY <1>1, <1>4, <2>1 DEF SaveDecision
<1>5. CASE LoadNote
  <2>1. /\ Reviewing /\ Undecided # {} /\ (reviewReceipt[Current] = "none" \/ item[Current].blocked)
        /\ AskOr(item[Current].blocked \/ ~Loadable(Current)) /\ ReviewOnly /\ UNCHANGED <<item, calls>> /\ NoDecision
    BY <1>5 DEF LoadNote, AtNote
  <2>2. /\ pc' \in {"idle", "ask"} /\ tries' \in {tries, 0} /\ said' \in {said, "none"} /\ report' \in {report, "partial"}
        /\ pc' = "ask" => ~item[Current].blocked
    BY <2>1 DEF AskOr, Partial, Stop, Goto
  <2>3. Current \in Windows
    BY <2>1, CurrentIsUndecided DEF TypeOK
  <2>4. item[Current] \in ItemTypes /\ ItemOK(item[Current])
    BY <2>3, ItemsAreTyped
  <2>5. KeepItem(item[Current])
    BY <2>1 DEF KeepItem, TypeOK, ReviewTypes
  <2>6. QED
    BY <2>1, <2>2, <2>4, <2>5, JudgedKeepsInv DEF Reading, Reviewing
<1>6. CASE BlockNote
  <2>1. /\ pc = "ask" /\ Reviewing /\ Partial /\ ReviewOnly /\ UNCHANGED calls /\ NoDecision
        /\ KeepItem([item[Current] EXCEPT !.blocked = TRUE])
    BY <1>6 DEF BlockNote
  <2>2. Undecided # {} /\ ~Reading
    BY <2>1 DEF Place, Reading, Reviewing
  <2>3. Current \in Windows
    BY <2>2, CurrentIsUndecided DEF TypeOK
  <2>4. item[Current] \in ItemTypes
    BY <2>3, ItemsAreTyped
  <2>5. PICK t : t = [item[Current] EXCEPT !.blocked = TRUE]
    OBVIOUS
  <2>6. t \in ItemTypes /\ ItemOK(t)
    BY <2>4, <2>5 DEF ItemTypes, ItemOK
  <2>7. pc' = "idle" /\ tries' = 0 /\ said' = "none" /\ report' = "partial"
    BY <2>1 DEF Partial, Stop
  <2>8. QED
    BY <2>1, <2>2, <2>5, <2>6, <2>7, JudgedKeepsInv
<1>7. CASE CompleteReview
  <2>1. /\ UNCHANGED <<refused, retryAsked, retries, record, cursor, reading, published, windowReceipt, tries, said,
                       report, item, order, decided, calls, note, reviewReceipt>>
        /\ pc' = "load" /\ Undecided = {} /\ (order = {} => Notes = NotesIn("rejected")) /\ Reviewing
        /\ reviewed' = [complete |-> TRUE, open |-> Cardinality(NotesIn("needs_check"))]
    BY <1>7 DEF CompleteReview, ReviewOnly, Outside, Goto
  <2>2. Cardinality(NotesIn("needs_check")) \in Nat
    BY WindowsAreNumbers DEF NotesIn
  <2>3. order = decided
    BY <2>1 DEF TypeOK, ReviewTypes, Undecided
  <2>4. CheckpointTypes' /\ ReviewTypes' /\ NotebookTypes' /\ RunTypes' /\ InOrder'
    BY <2>1, <2>2 DEF TypeOK, CheckpointTypes, ReviewTypes, NotebookTypes, RunTypes, InOrder
  <2>5. Noted'
    BY <2>1 DEF Noted, Notes
  <2>6. ~published /\ report # "success"
    BY <2>1 DEF Stages, Reviewing
  <2>7. Stages'
    BY <2>1, <2>3, <2>6 DEF Stages, AtEnd, Reviewing, Notes, NotesIn
  <2>8. Place'
    BY <2>1, BetweenCalls
  <2>9. QED
    BY <2>4, <2>5, <2>7, <2>8 DEF TypeOK
<1>8. QED
  BY <1>2, <1>3, <1>4, <1>5, <1>6, <1>7 DEF ReviewNote
-----------------------------------------------------------------------------
(* Calls, the end of a run, and what happens around it. *)

\* A step that changes nothing but the run's own step, the charge of a call and the publication.
LEMMA CallsKeepInv ==
    ASSUME ReadingInv, Ask \/ StopAsking \/ NoAnswer \/ Conclude \/ AskRetry \/ Crash
    PROVE  ReadingInv'
<1> USE DEF ReadingInv
<1>1. UNCHANGED <<refused, record, cursor, reading, item, order, decided, reviewed, note, windowReceipt, reviewReceipt>>
  BY DEF Ask, StopAsking, NoAnswer, Conclude, Publish, PublicationStops, Finish, AskRetry, Crash, Outside,
         checkpoint, notebook
<1>2. CheckpointTypes' /\ ReviewTypes' /\ NotebookTypes' /\ InOrder' /\ Noted'
  BY <1>1 DEF TypeOK, CheckpointTypes, ReviewTypes, NotebookTypes, InOrder, Noted, Notes
<1>3. CASE Ask
  <2>1. /\ pc = "ask" /\ pc' = "answer" /\ UNCHANGED <<tries, said, report, retryAsked, retries, published>>
        /\ calls' = [calls EXCEPT ![Phase] = @ + 1]
        /\ Reading => ~(Phase = "plan" /\ record[cursor].format >= 2)
        /\ Reviewing => item[Current].attempts < 2
    BY <1>3 DEF Ask, Askable, Goto, Outside
  <2>2. Reading => cursor \in Windows /\ record[cursor] \in RecordTypes
    BY <2>1 DEF Place, AtEnd, TypeOK, CheckpointTypes
  <2>3. Reading => Phase \in Phases /\ (Phase = "plan" <=> record[cursor].prepared = "ready")
    BY <2>2, PhaseIsKnown DEF Phase
  <2>4. Phase \in Phases
    BY <2>3 DEF Phase, Phases
  <2>5. RunTypes'
    BY <2>1, <2>4 DEF TypeOK, RunTypes
  <2>6. Stages'
    BY <1>1, <2>1 DEF Stages, AtEnd, Notes, NotesIn
  <2>7. Place'
    <3>1. Current' = Current /\ Undecided' = Undecided
      BY <1>1, CurrentStays
    <3>2. CASE Reading
      BY <1>1, <2>1, <2>3, <3>2 DEF Place, Reading, AtEnd
    <3>3. CASE ~Reading
      BY <1>1, <2>1, <3>1, <3>3 DEF Place, Reading, Reviewing
    <3>4. QED
      BY <3>2, <3>3
  <2>8. QED
    BY <1>2, <2>5, <2>6, <2>7 DEF TypeOK
<1>4. CASE StopAsking \/ NoAnswer \/ PublicationStops \/ Crash
  <2>1. /\ pc' = "idle" /\ tries' = 0 /\ said' = "none" /\ report' = "partial"
        /\ UNCHANGED <<retryAsked, retries, published, calls>>
    BY <1>4 DEF StopAsking, NoAnswer, PublicationStops, Crash, Partial, Stop, Outside, checkpoint
  <2>2. RunTypes' /\ Stages'
    BY <1>1, <2>1 DEF TypeOK, RunTypes, Stages, AtEnd, Notes, NotesIn
  <2>3. QED
    BY <1>2, <2>1, <2>2, BetweenCalls DEF TypeOK
<1>5. CASE Publish
  <2>1. /\ pc' = "load" /\ published' = TRUE /\ reviewed.complete /\ reviewed.open = 0 /\ ~published
        /\ UNCHANGED <<retryAsked, retries, calls, tries, said, report>>
    BY <1>5 DEF Publish, AtPublication, Goto, Outside
  <2>2. RunTypes' /\ Stages'
    BY <1>1, <2>1 DEF TypeOK, RunTypes, Stages, AtEnd, Notes, NotesIn
  <2>3. QED
    BY <1>2, <2>1, <2>2, BetweenCalls DEF TypeOK
<1>6. CASE Finish
  <2>1. /\ pc' = "idle" /\ tries' = 0 /\ said' = "none" /\ report' \in {"success", "partial"}
        /\ report' = "success" => reading.unresolved = 0 /\ published
        /\ UNCHANGED <<retryAsked, retries, calls, published>>
    BY <1>6 DEF Finish, Stop, Outside
  <2>2. RunTypes' /\ Stages'
    BY <1>1, <2>1 DEF TypeOK, RunTypes, Stages, AtEnd, Notes, NotesIn
  <2>3. QED
    BY <1>2, <2>1, <2>2, BetweenCalls DEF TypeOK
<1>7. CASE AskRetry
  <2>1. /\ pc' = "idle" /\ retries' = retries + 1 /\ retryAsked' = TRUE
        /\ UNCHANGED <<published, calls, tries, said, report>>
    BY <1>7 DEF AskRetry, checkpoint
  <2>2. RunTypes' /\ Stages'
    BY <1>1, <2>1 DEF TypeOK, RunTypes, Stages, AtEnd, Notes, NotesIn
  <2>3. QED
    BY <1>2, <2>1, <2>2, BetweenCalls DEF TypeOK
<1>8. QED
  BY <1>3, <1>4, <1>5, <1>6, <1>7 DEF Conclude

\* An unblocked window is as it was, but for its counters.
LEMMA UnblockedIsTyped ==
    ASSUME NEW r \in RecordTypes, RecordOK(r)
    PROVE  /\ Unblocked(r) \in RecordTypes /\ RecordOK(Unblocked(r)) /\ Unblocked(r).status = r.status
           /\ r.status # "read_pending" => Unblocked(r) = r
<1>1. CASE r.blocked
  <2>1. PICK z : z = 0
    OBVIOUS
  <2>2. PICK f : f = IF r.formatBlocked THEN 0 ELSE r.format
    OBVIOUS
  <2>3. PICK g : g = [p \in DOMAIN r.refusals |-> 0]
    OBVIOUS
  <2>4. PICK t : t = [r EXCEPT !.blocked = FALSE, !.stalls = z, !.streak = z, !.formatBlocked = FALSE,
                               !.format = f, !.refusals = g]
    OBVIOUS
  <2>5. Unblocked(r) = t
    BY <1>1, <2>1, <2>2, <2>3, <2>4 DEF Unblocked, RecordTypes
  <2>6. f \in 0 .. 2 /\ z \in 0 .. 2 /\ g \in [ToolPhases -> Nat]
    BY <2>1, <2>2, <2>3 DEF RecordTypes
  <2>7. t \in RecordTypes
    <3>1. PICK u : u = [r EXCEPT !.blocked = FALSE, !.stalls = z, !.streak = z]
      OBVIOUS
    <3>2. u \in RecordTypes
      BY <2>6, <3>1 DEF RecordTypes
    <3>3. t = [u EXCEPT !.formatBlocked = FALSE, !.format = f, !.refusals = g]
      BY <2>4, <3>1 DEF RecordTypes
    <3>4. QED
      BY <2>6, <3>2, <3>3 DEF RecordTypes
  <2>8. /\ ~t.blocked /\ ~t.formatBlocked /\ t.status = r.status /\ t.prepared = r.prepared
        /\ t.streak = 0 /\ t.stalls = 0 /\ t.format = f
    BY <2>1, <2>4 DEF RecordTypes
  <2>9. RecordOK(t)
    BY <2>2, <2>8 DEF RecordOK
  <2>10. r.status = "read_pending"
    BY <1>1 DEF RecordOK
  <2>11. QED
    BY <2>5, <2>7, <2>8, <2>9, <2>10
<1>2. CASE ~r.blocked /\ r.formatBlocked
  <2>1. PICK t : t = [r EXCEPT !.formatBlocked = FALSE, !.format = 0]
    OBVIOUS
  <2>2. Unblocked(r) = t /\ r.status = "read_pending"
    BY <1>2, <2>1 DEF Unblocked, RecordOK
  <2>3. t \in RecordTypes
    <3>1. PICK u : u = [r EXCEPT !.formatBlocked = FALSE]
      OBVIOUS
    <3>2. u \in RecordTypes
      BY <3>1 DEF RecordTypes
    <3>3. t = [u EXCEPT !.format = 0]
      BY <2>1, <3>1 DEF RecordTypes
    <3>4. QED
      BY <3>2, <3>3 DEF RecordTypes
  <2>4. /\ t.blocked = r.blocked /\ ~t.formatBlocked /\ t.status = r.status
        /\ t.streak = r.streak /\ t.stalls = r.stalls /\ t.format = 0
    BY <2>1 DEF RecordTypes
  <2>5. QED
    BY <1>2, <2>2, <2>3, <2>4 DEF RecordOK
<1>3. CASE ~r.blocked /\ ~r.formatBlocked
  BY <1>3 DEF Unblocked
<1>4. QED
  BY <1>1, <1>2, <1>3

\* An explicit retry unblocks the window under the cursor and the notes of the review: it moves no
\* cursor of the reading, and reopens no window that was settled.
LEMMA RetryReopens ==
    ASSUME ReadingInv, ApplyRetry
    PROVE  /\ record' \in [Windows -> RecordTypes]
           /\ \A w \in Windows : RecordOK(record'[w]) /\ record'[w].status = record[w].status
           /\ item' \in [Windows -> ItemTypes] /\ \A n \in Windows : ItemOK(item'[n])
           /\ cursor' = cursor /\ reading' = reading
           /\ decided' \subseteq decided /\ (reviewed.complete => decided' = decided)
<1> USE DEF ReadingInv
<1>1. \A w \in Windows : record[w] \in RecordTypes /\ RecordOK(record[w])
  BY DEF TypeOK, CheckpointTypes, InOrder
<1>2. record' = [w \in Windows |-> Unblocked(record[w])]
  BY DEF ApplyRetry
<1>3. record' \in [Windows -> RecordTypes]
  BY <1>1, <1>2, UnblockedIsTyped
<1>4. \A w \in Windows : RecordOK(record'[w]) /\ record'[w].status = record[w].status
  BY <1>1, <1>2, UnblockedIsTyped
<1>5. item' \in [Windows -> ItemTypes] /\ \A n \in Windows : ItemOK(item'[n])
  <2>1. ASSUME NEW n \in Windows
        PROVE  LET t == [item[n] EXCEPT !.attempts = 0, !.refusals = 0, !.stalls = 0, !.blocked = FALSE] IN
               t \in ItemTypes /\ ItemOK(t)
    <3>1. PICK s : s = item[n]
      OBVIOUS
    <3>2. s \in ItemTypes
      BY <3>1, ItemsAreTyped
    <3>3. PICK z : z = 0
      OBVIOUS
    <3>4. PICK t : t = [s EXCEPT !.attempts = z, !.refusals = z, !.stalls = z, !.blocked = FALSE]
      OBVIOUS
    <3>5. z \in 0 .. 2
      BY <3>3
    <3>6. t \in ItemTypes
      BY <3>2, <3>4, <3>5 DEF ItemTypes
    <3>7. t.refusals = 0 /\ t.stalls = 0
      BY <3>2, <3>3, <3>4 DEF ItemTypes
    <3>8. QED
      BY <3>1, <3>3, <3>4, <3>6, <3>7 DEF ItemOK
  <2>2. \A n \in Windows : item[n] \in ItemTypes /\ ItemOK(item[n])
    BY ItemsAreTyped
  <2>3. item' = [n \in Windows |->
                   IF n \in ReopenedNotes
                   THEN [item[n] EXCEPT !.attempts = 0, !.refusals = 0, !.stalls = 0, !.blocked = FALSE]
                   ELSE item[n]]
    BY DEF ApplyRetry
  <2>4. \A n \in Windows : item'[n] \in ItemTypes /\ ItemOK(item'[n])
    BY <2>1, <2>2, <2>3
  <2>5. QED
    BY <2>3, <2>4
<1>6. cursor' = cursor /\ reading' = reading
  <2>1. ReopenedWindows \subseteq {cursor}
    <3>1. ASSUME NEW w \in ReopenedWindows PROVE w = cursor
      <4>1. w \in Windows /\ record[w].status = "read_pending"
        BY <1>1 DEF ReopenedWindows, Blocked, RecordOK
      <4>2. w \in Nat /\ cursor \in Nat
        BY <4>1, WindowsAreNumbers DEF TypeOK, CheckpointTypes
      <4>3. ~(w < cursor) /\ ~(w > cursor)
        BY <4>1 DEF InOrder, Settled
      <4>4. QED
        BY <4>2, <4>3
    <3>2. QED
      BY <3>1
  <2>2. reading.complete => ReopenedWindows = {}
    BY <2>1 DEF Stages, AtEnd, ReopenedWindows
  <2>3. reading' = reading
    BY <2>2 DEF ApplyRetry, TypeOK, CheckpointTypes
  <2>4. CASE ReopenedWindows = {}
    BY <2>3, <2>4 DEF ApplyRetry
  <2>5. CASE ReopenedWindows # {}
    <3>1. cursor \in Nat
      BY WindowsAreNumbers DEF TypeOK, CheckpointTypes
    <3>2. ReopenedWindows = {cursor}
      BY <2>1, <2>5
    <3>3. \E w \in ReopenedWindows : \A v \in ReopenedWindows : w <= v
      BY <3>1, <3>2
    <3>4. (CHOOSE w \in ReopenedWindows : \A v \in ReopenedWindows : w <= v) \in ReopenedWindows
      BY <3>3
    <3>5. cursor' = CHOOSE w \in ReopenedWindows : \A v \in ReopenedWindows : w <= v
      BY <2>5, Zenon DEF ApplyRetry
    <3>6. cursor' = cursor
      <4>1. cursor' \in ReopenedWindows
        BY ONLY <3>4, <3>5, Zenon
      <4>2. QED
        BY <2>1, <4>1
    <3>7. QED
      BY <2>3, <3>6
  <2>6. QED
    BY <2>4, <2>5
<1>7. decided' \subseteq decided /\ (reviewed.complete => decided' = decided)
  <2>1. reviewed.complete => ReopenedNotes = {}
    BY DEF ReopenedNotes
  <2>2. QED
    BY <2>1 DEF ApplyRetry
<1>8. QED
  BY <1>3, <1>4, <1>5, <1>6, <1>7

\* A run starts where the checkpoint stands, with or without an explicit retry.
LEMMA StartKeepsInv ==
    ASSUME ReadingInv, Start
    PROVE  ReadingInv'
<1> USE DEF ReadingInv
<1>1. /\ pc' = "load" /\ report' = "partial" /\ retryAsked' = FALSE
      /\ UNCHANGED <<refused, order, reviewed, published, calls, retries, note, windowReceipt, reviewReceipt, tries, said>>
  BY DEF Start, notebook
<1>2. /\ record' \in [Windows -> RecordTypes]
      /\ \A w \in Windows : RecordOK(record'[w]) /\ record'[w].status = record[w].status
      /\ item' \in [Windows -> ItemTypes] /\ \A n \in Windows : ItemOK(item'[n])
      /\ cursor' = cursor /\ reading' = reading
      /\ decided' \subseteq decided /\ (reviewed.complete => decided' = decided)
  <2>1. CASE retryAsked
    BY <2>1, RetryReopens DEF Start
  <2>2. CASE ~retryAsked
    BY <2>2, ItemsAreTyped DEF Start, TypeOK, CheckpointTypes, ReviewTypes, InOrder
  <2>3. QED
    BY <2>1, <2>2
<1>3. CheckpointTypes' /\ ReviewTypes' /\ NotebookTypes' /\ RunTypes'
  BY <1>1, <1>2 DEF TypeOK, CheckpointTypes, ReviewTypes, NotebookTypes, RunTypes
<1>4. InOrder'
  BY <1>1, <1>2 DEF InOrder
<1>5. Noted'
  BY <1>1, <1>2 DEF Noted, Notes
<1>6. {w \in Windows : record'[w].status = "unresolved"} = {w \in Windows : record[w].status = "unresolved"}
  BY <1>2
<1>7. Stages'
  BY <1>1, <1>2, <1>6 DEF Stages, AtEnd, Notes, NotesIn
<1>8. QED
  BY <1>1, <1>3, <1>4, <1>5, <1>7, BetweenCalls DEF TypeOK
-----------------------------------------------------------------------------
\* Every step keeps the invariant.
LEMMA NextKeepsInv ==
    ASSUME ReadingInv, Next
    PROVE  ReadingInv'
<1>1. CASE ReadWindow
  BY <1>1, WindowsKeepInv
<1>2. CASE Ask \/ StopAsking \/ NoAnswer \/ Conclude
  BY <1>2, CallsKeepInv
<1>3. CASE WindowAnswer
  BY <1>3, AnswersKeepInv, WindowsKeepInv DEF WindowAnswer
<1>4. CASE ReviewNote
  BY <1>4, ReviewKeepsInv
<1>5. CASE NoteAnswer
  BY <1>5, JudgementsKeepInv, DecisionKeepsInv DEF NoteAnswer
<1>6. CASE Environment
  BY <1>6, StartKeepsInv, CallsKeepInv DEF Environment
<1>7. QED
  BY <1>1, <1>2, <1>3, <1>4, <1>5, <1>6 DEF Next, Run

\* In every reachable state the checkpoint, the notebook and the run agree (a run's cursor stands
\* where its windows say, a review holds the notes it was frozen with): what the properties rest on.
THEOREM ReadingIsInStep == Spec => []ReadingInv
<1>1. Init => ReadingInv
  <2> SUFFICES ASSUME Init PROVE ReadingInv
    OBVIOUS
  <2> USE DEF Init
  <2>1. NoRecord \in RecordTypes /\ RecordOK(NoRecord) /\ NoRecord.status = "none"
    BY DEF NoRecord, RecordTypes, RecordOK
  <2>2. NoItem \in ItemTypes /\ ItemOK(NoItem)
    BY DEF NoItem, ItemTypes, ItemOK
  <2>3. CheckpointTypes /\ ReviewTypes /\ NotebookTypes /\ RunTypes
    <3>1. CheckpointTypes
      BY <2>1, WindowsAreNumbers, ReadingAssumption DEF CheckpointTypes
    <3>2. ReviewTypes
      BY <2>2 DEF ReviewTypes
    <3>3. NotebookTypes
      BY DEF NotebookTypes
    <3>4. published \in BOOLEAN /\ retryAsked \in BOOLEAN
      BY Zenon
    <3>5. calls \in [Phases -> Nat]
      OBVIOUS
    <3>6. RunTypes
      BY <3>4, <3>5 DEF RunTypes
    <3>7. QED
      BY <3>1, <3>2, <3>3, <3>6
  <2>4. InOrder
    BY <2>1, <2>2, WindowsAreNumbers DEF InOrder
  <2>5. Noted /\ Stages /\ Place
    BY DEF Noted, Stages, Place, Notes
  <2>6. QED
    BY <2>3, <2>4, <2>5 DEF ReadingInv, TypeOK
<1>2. ReadingInv /\ [Next]_vars => ReadingInv'
  <2>1. ReadingInv /\ Next => ReadingInv'
    BY NextKeepsInv
  <2>2. ReadingInv /\ UNCHANGED vars => ReadingInv'
    <3> SUFFICES ASSUME ReadingInv, UNCHANGED vars PROVE ReadingInv'
      OBVIOUS
    <3>1. UNCHANGED <<refused, record, cursor, reading, item, order, decided, reviewed, published, calls,
                      retryAsked, retries, note, windowReceipt, reviewReceipt, pc, tries, said, report>>
      BY DEF vars, checkpoint, notebook
    <3>2. TypeOK'
      BY <3>1 DEF ReadingInv, TypeOK, CheckpointTypes, ReviewTypes, NotebookTypes, RunTypes
    <3>3. InOrder' /\ Noted' /\ Stages'
      BY <3>1 DEF ReadingInv, InOrder, Noted, Stages, AtEnd, Notes, NotesIn
    <3>4. Current' = Current /\ Undecided' = Undecided
      BY <3>1, CurrentStays
    <3>5. Place'
      BY <3>1, <3>4 DEF ReadingInv, Place, Reading, Reviewing, AtEnd
    <3>6. QED
      BY <3>2, <3>3, <3>5 DEF ReadingInv
  <2>3. QED
    BY <2>1, <2>2
<1>3. QED
  BY <1>1, <1>2, PTL DEF Spec

\* Type correctness of the reading and the review (app/document_read/notes.py).
THEOREM ReadingTypes == Spec => []TypeOK
<1>1. ReadingInv => TypeOK
  BY DEF ReadingInv
<1>2. QED
  BY <1>1, ReadingIsInStep, PTL

\* A finished reading has settled every window.
LEMMA ReadToTheEnd ==
    ASSUME ReadingInv, reading.complete
    PROVE  \A w \in Windows : record[w].status \in Settled
<1>1. cursor \notin Windows /\ cursor \in 1 .. Cardinality(Windows) + 1
  BY DEF ReadingInv, Stages, AtEnd, TypeOK, CheckpointTypes
<1>2. \A w \in Windows : w < cursor
  BY <1>1, WindowsAreNumbers
<1>3. QED
  BY <1>2 DEF ReadingInv, InOrder

\* A review begins when every window is settled, and a finished one has decided every note that was
\* not discarded while it was read, whatever retries and crashes came between.
THEOREM ReviewIsComplete == Spec => []ReviewCoversNotebook
<1>1. ReadingInv => ReviewCoversNotebook
  <2> SUFFICES ASSUME ReadingInv PROVE ReviewCoversNotebook
    OBVIOUS
  <2>1. order # {} => reading.complete /\ \A w \in Windows : record[w].status \notin {"none", "read_pending"}
    BY ReadToTheEnd DEF ReadingInv, Stages, Settled
  <2>2. ASSUME reviewed.complete, NEW n \in Notes PROVE note[n] = "rejected" \/ reviewReceipt[n] # "none"
    <3>1. n \in Windows /\ order = decided /\ (order = {} => Notes = NotesIn("rejected"))
      BY <2>2 DEF ReadingInv, Stages, Notes
    <3>2. QED
      BY <3>1 DEF ReadingInv, Noted, NotesIn
  <2>3. QED
    BY <2>1, <2>2 DEF ReviewCoversNotebook
<1>2. QED
  BY <1>1, ReadingIsInStep, PTL

\* Only a notebook without open notes is published, and it stays without.
THEOREM PublicationFollowsReview == Spec => []PublishedIsReviewed
<1>1. ReadingInv => PublishedIsReviewed
  <2> SUFFICES ASSUME ReadingInv, published PROVE reviewed.complete /\ NotesIn("needs_check") = {}
    BY DEF PublishedIsReviewed
  <2>1. reviewed.complete /\ Cardinality(NotesIn("needs_check")) = 0
    BY DEF ReadingInv, Stages
  <2>2. QED
    BY <2>1, WindowsAreNumbers DEF NotesIn
<1>2. QED
  BY <1>1, ReadingIsInStep, PTL

\* The upload reports success only for a document read, reviewed and published to the end.
THEOREM SuccessIsForAll == Spec => []SuccessIsWhole
<1>1. ReadingInv => SuccessIsWhole
  <2> SUFFICES ASSUME ReadingInv, report = "success"
               PROVE  /\ published
                      /\ \A w \in Windows : w \notin refused /\ record[w].status \in {"noted", "no_content"}
                      /\ \A n \in Notes : note[n] = "rejected" \/ (note[n] = "verified" /\ reviewReceipt[n] # "none")
    BY DEF SuccessIsWhole
  <2>1. /\ published /\ reviewed.complete /\ reading.complete /\ order = decided
        /\ Cardinality({w \in Windows : record[w].status = "unresolved"}) = 0
        /\ Cardinality(NotesIn("needs_check")) = 0
        /\ order = {} => Notes = NotesIn("rejected")
    BY DEF ReadingInv, Stages
  <2>2. {w \in Windows : record[w].status = "unresolved"} = {} /\ NotesIn("needs_check") = {}
    BY <2>1, WindowsAreNumbers DEF NotesIn
  <2>3. \A w \in Windows : record[w].status \in {"noted", "no_content"}
    BY <2>1, <2>2, ReadToTheEnd DEF Settled
  <2>4. \A w \in Windows : w \notin refused
    BY <2>3 DEF ReadingInv, InOrder
  <2>5. ASSUME NEW n \in Notes PROVE note[n] = "rejected" \/ (note[n] = "verified" /\ reviewReceipt[n] # "none")
    <3>1. n \in Windows /\ note[n] \in {"verified", "rejected"}
      BY <2>2 DEF ReadingInv, TypeOK, NotebookTypes, Notes, NotesIn
    <3>2. QED
      BY <2>1, <3>1 DEF ReadingInv, Noted, NotesIn
  <2>6. QED
    BY <2>1, <2>3, <2>4, <2>5
<1>2. QED
  BY <1>1, ReadingIsInStep, PTL

\* What a step may not do to what was decided.
Stands == \A n \in Windows :
    /\ windowReceipt[n] # "none" => windowReceipt'[n] = windowReceipt[n]
    /\ note[n] = "rejected" => note'[n] = "rejected"
    /\ reviewReceipt[n] # "none" => reviewReceipt'[n] = reviewReceipt[n] /\ note'[n] = note[n]

\* No step takes back a receipt, a discarded note or a reviewed one.
LEMMA DecisionsAreKept ==
    ASSUME ReadingInv, Next
    PROVE  Stands
<1>1. CASE CommitReceipt
  <2>1. /\ pc = "answer" /\ Reading /\ UNCHANGED reviewReceipt
    BY <1>1 DEF CommitReceipt, Answered, ReadingOnly
  <2>2. \A n \in Windows : reviewReceipt[n] = "none"
    BY <2>1, NothingLater DEF ReadingInv
  <2>3. PICK receipt \in Receipts :
           IF windowReceipt[cursor] = "none"
           THEN /\ Applicable(receipt)
                /\ note' = Revised(receipt)
                /\ windowReceipt' = [windowReceipt EXCEPT ![cursor] = receipt.outcome]
           ELSE UNCHANGED <<note, windowReceipt>>
    BY <1>1 DEF CommitReceipt
  <2>4. CASE windowReceipt[cursor] = "none"
    <3>1. Applicable(receipt) /\ note' = Revised(receipt)
          /\ windowReceipt' = [windowReceipt EXCEPT ![cursor] = receipt.outcome]
      BY <2>3, <2>4
    <3>2. \A n \in Windows : windowReceipt[n] # "none" => windowReceipt'[n] = windowReceipt[n]
      BY <2>4, <3>1 DEF ReadingInv, TypeOK, NotebookTypes
    <3>3. ASSUME NEW n \in Windows, note[n] = "rejected" PROVE note'[n] = "rejected"
      <4>1. n # cursor
        BY <2>4, <3>3 DEF ReadingInv, Noted
      <4>2. n = receipt.revise.note => receipt.revise = NoRevision
        BY <3>1, <3>3 DEF Applicable
      <4>3. n # receipt.revise.note
        BY <4>2, WindowsAreNumbers DEF NoRevision
      <4>4. QED
        BY <3>1, <3>3, <4>1, <4>3 DEF Revised
    <3>4. QED
      BY <2>2, <3>2, <3>3 DEF Stands
  <2>5. CASE windowReceipt[cursor] # "none"
    BY <2>1, <2>3, <2>5 DEF Stands
  <2>6. QED
    BY <2>4, <2>5
<1>2. CASE CommitDecision
  <2>1. Advised /\ UNCHANGED windowReceipt
    BY <1>2 DEF CommitDecision, ReviewOnly
  <2>2. /\ Current \in Windows /\ reviewReceipt[Current] = "none" /\ note[Current] \notin {"none", "rejected"}
    BY <2>1, AdvisedNote
  <2>3. \A n \in Windows : n # Current => note'[n] = note[n] /\ reviewReceipt'[n] = reviewReceipt[n]
    BY <1>2 DEF CommitDecision, ReadingInv, TypeOK, NotebookTypes
  <2>4. QED
    BY <2>1, <2>2, <2>3 DEF Stands
<1>3. CASE UNCHANGED <<note, windowReceipt, reviewReceipt>>
  BY <1>3 DEF Stands
<1>4. CASE ReadWindow \/ MalformedAttribution \/ RejectReceipt
  <2>1. UNCHANGED <<note, windowReceipt, reviewReceipt>>
    BY <1>4 DEF ReadWindow, OpenWindow, ResumeWindow, PassWindow, BlockFormat, SaveWindow, CompleteReading,
                MalformedAttribution, RejectReceipt, ReadingOnly, notebook
  <2>2. QED
    BY <1>3, <2>1
<1>5. CASE Classify \/ Attribute \/ Extract \/ ShowAgain \/ RefuseTool \/ MalformedReceipt
  <2>1. UNCHANGED <<note, windowReceipt, reviewReceipt>>
    BY <1>5 DEF Classify, Attribute, Extract, ShowAgain, RefuseTool, MalformedReceipt, Prepared, ReadingOnly
  <2>2. QED
    BY <1>3, <2>1
<1>6. CASE ReviewNote \/ ReviewShow \/ RefuseReviewTool \/ RejectDecision
  <2>1. UNCHANGED <<note, windowReceipt, reviewReceipt>>
    BY <1>6 DEF ReviewNote, FreezeOrder, PassNote, LoadNote, BlockNote, SaveDecision, CompleteReview,
                ReviewShow, RefuseReviewTool, RejectDecision, Judged, NoDecision, ReviewOnly
  <2>2. QED
    BY <1>3, <2>1
<1>7. CASE Ask \/ StopAsking \/ NoAnswer \/ Conclude \/ Environment
  <2>1. UNCHANGED <<note, windowReceipt, reviewReceipt>>
    BY <1>7 DEF Ask, StopAsking, NoAnswer, Conclude, Publish, PublicationStops, Finish, Environment, Start,
                AskRetry, Crash, notebook
  <2>2. QED
    BY <1>3, <2>1
<1>8. QED
  BY <1>1, <1>2, <1>4, <1>5, <1>6, <1>7 DEF Next, Run, WindowAnswer, NoteAnswer

\* A receipt is never replaced, a discarded note never comes back and a reviewed note never changes,
\* whatever crashes, retries and repeated answers come later.
THEOREM WhatWasDecidedStands == Spec => DecisionsStand
<1>1. ReadingInv /\ [Next]_vars => [Stands]_vars
  BY DecisionsAreKept
<1>2. Spec => [][Stands]_vars
  BY <1>1, ReadingIsInStep, PTL DEF Spec
<1>3. QED
  BY <1>2 DEF DecisionsStand, Stands
-----------------------------------------------------------------------------
(* The import guide of a company. *)

USE GuideJobsAssumption DEF GuideJob

\* A job that was never started has no revision yet.
Unstarted == \A i \in GuideJob : future[i] = "none" => revision[i] = 0

\* The last job of a company was started for it.
LastIsOwn ==
    \A k \in Companies : current[k] # 0 => key[current[k]] = {k} /\ future[current[k]] # "none"

\* A job was not marked with facts its company does not have.
MarkedExist == \A i \in GuideJob, k \in Companies : k \in key[i] => marked[i] <= facts[k]

\* A guide just written without a dirty mark in between covers what the job was marked with.
WrittenCovers ==
    \A i \in GuideJob : threadAt[i] = "written" /\ seen[i] = revision[i] => snapshot[i] >= marked[i]

GuideInv == GuideTypeOK /\ Unstarted /\ LastIsOwn /\ SingleFlight /\ MarkedExist /\ WrittenCovers

\* The invariant holds before anything is queued.
LEMMA GuideInvInit == GuideInit => GuideInv
BY DEF GuideInit, GuideInv, GuideTypeOK, Unstarted, LastIsOwn, SingleFlight, MarkedExist, WrittenCovers, InFlight,
       FutureStates, RunSteps

\* A new guide of a company none of whose jobs is in flight.
LEMMA GuideStartKeeps ==
    ASSUME GuideInv, NEW k \in Companies, StartLocked(k), facts' = facts,
           toQueue' \in [Companies -> Nat],
           current[k] # 0 => ~InFlight(current[k])
    PROVE  GuideInv'
<1>1. PICK i \in GuideJob :
        /\ future[i] = "none"
        /\ current' = [current EXCEPT ![k] = i] /\ key' = [key EXCEPT ![i] = {k}]
        /\ revision' = [revision EXCEPT ![i] = 1] /\ future' = [future EXCEPT ![i] = "pending"]
        /\ marked' = [marked EXCEPT ![i] = facts[k]]
        /\ UNCHANGED <<threadAt, seen, snapshot>>
  BY DEF StartLocked
<1>2. threadAt[i] = "idle" /\ seen[i] = 0
  BY <1>1 DEF GuideInv, GuideTypeOK, Unstarted
<1>3. GuideTypeOK'
  <2>1. /\ current' \in [Companies -> GuideJob \cup {0}] /\ key' \in [GuideJob -> SUBSET Companies]
        /\ revision' \in [GuideJob -> Nat] /\ future' \in [GuideJob -> FutureStates]
    BY <1>1 DEF GuideInv, GuideTypeOK, FutureStates
  <2>2. marked' \in [GuideJob -> Nat]
    BY <1>1 DEF GuideInv, GuideTypeOK
  <2>3. \A h \in GuideJob : threadAt'[h] # "idle" <=> future'[h] = "running"
    BY <1>1, <1>2 DEF GuideInv, GuideTypeOK
  <2>4. ASSUME NEW h \in GuideJob PROVE seen'[h] <= revision'[h]
    <3>1. seen[h] <= revision[h] /\ revision \in [GuideJob -> Nat]
      BY DEF GuideInv, GuideTypeOK
    <3>2. CASE h = i
      BY <1>1, <1>2, <3>1, <3>2
    <3>3. CASE h # i
      BY <1>1, <3>1, <3>3
    <3> QED
      BY <3>2, <3>3
  <2> QED
    BY <1>1, <2>1, <2>2, <2>3, <2>4 DEF GuideInv, GuideTypeOK
<1>4. Unstarted' /\ LastIsOwn'
  BY <1>1 DEF GuideInv, GuideTypeOK, Unstarted, LastIsOwn
<1>5. SingleFlight'
  <2> SUFFICES ASSUME NEW h \in GuideJob, InFlight(h)'
               PROVE  \E c \in Companies : key'[h] = {c} /\ current'[c] = h
    BY DEF SingleFlight
  <2>1. CASE h = i
    BY <1>1, <2>1 DEF GuideInv, GuideTypeOK
  <2>2. CASE h # i
    <3>1. InFlight(h) /\ key'[h] = key[h]
      BY <1>1, <2>2 DEF GuideInv, GuideTypeOK, InFlight
    <3>2. PICK c \in Companies : key[h] = {c} /\ current[c] = h
      BY <3>1 DEF GuideInv, SingleFlight
    <3>3. c # k
      BY <3>1, <3>2
    <3> QED
      BY <1>1, <3>1, <3>2, <3>3 DEF GuideInv, GuideTypeOK
  <2> QED
    BY <2>1, <2>2
<1>6. MarkedExist'
  <2> SUFFICES ASSUME NEW h \in GuideJob, NEW c \in Companies, c \in key'[h]
               PROVE  marked'[h] <= facts'[c]
    BY DEF MarkedExist
  <2>1. facts[c] \in Nat
    BY DEF GuideInv, GuideTypeOK
  <2>2. CASE h = i
    BY <1>1, <2>1, <2>2 DEF GuideInv, GuideTypeOK
  <2>3. CASE h # i
    BY <1>1, <2>3 DEF GuideInv, GuideTypeOK, MarkedExist
  <2> QED
    BY <2>2, <2>3
<1>7. WrittenCovers'
  BY <1>1, <1>2 DEF GuideInv, GuideTypeOK, WrittenCovers
<1> QED
  BY <1>3, <1>4, <1>5, <1>6, <1>7 DEF GuideInv

\* An upload for a guide in flight marks it dirty, and what it has seen is then out of date.
LEMMA GuideMarkKeeps ==
    ASSUME GuideInv, NEW k \in Companies, NEW i \in GuideJob, current[k] = i, InFlight(i),
           revision' = [revision EXCEPT ![i] = @ + 1], marked' = [marked EXCEPT ![i] = facts[k]],
           toQueue' \in [Companies -> Nat],
           UNCHANGED <<facts, current, key, future, threadAt, seen, snapshot>>
    PROVE  GuideInv'
<1>1. key[i] = {k} /\ facts[k] \in Nat
  <2>1. i # 0
    OBVIOUS
  <2> QED
    BY <2>1 DEF GuideInv, LastIsOwn, GuideTypeOK
<1>2. /\ revision' \in [GuideJob -> Nat] /\ marked' \in [GuideJob -> Nat]
      /\ revision'[i] = revision[i] + 1 /\ marked'[i] = facts[k]
      /\ \A h \in GuideJob \ {i} : revision'[h] = revision[h] /\ marked'[h] = marked[h]
  BY <1>1 DEF GuideInv, GuideTypeOK
<1>3. ASSUME NEW h \in GuideJob PROVE seen[h] <= revision'[h]
  <2>1. seen[h] <= revision[h] /\ seen[h] \in Nat /\ revision[h] \in Nat
    BY DEF GuideInv, GuideTypeOK
  <2>2. revision'[h] = revision[h] \/ revision'[h] = revision[h] + 1
    BY <1>2
  <2> QED
    BY <2>1, <2>2
<1>4. GuideTypeOK'
  BY <1>2, <1>3 DEF GuideInv, GuideTypeOK
<1>5. Unstarted' /\ LastIsOwn' /\ SingleFlight'
  BY <1>2 DEF GuideInv, GuideTypeOK, Unstarted, LastIsOwn, SingleFlight, InFlight
<1>6. MarkedExist'
  BY <1>1, <1>2 DEF GuideInv, GuideTypeOK, MarkedExist
<1>7. WrittenCovers'
  <2> SUFFICES ASSUME NEW h \in GuideJob, threadAt[h] = "written", seen[h] = revision'[h]
               PROVE  snapshot[h] >= marked'[h]
    BY DEF WrittenCovers
  <2>1. h # i
    BY <1>2 DEF GuideInv, GuideTypeOK
  <2> QED
    BY <1>2, <2>1 DEF GuideInv, WrittenCovers
<1> QED
  BY <1>4, <1>5, <1>6, <1>7 DEF GuideInv

\* A step of a pool thread.
LEMMA GuideRunKeeps == ASSUME GuideInv, NEW i \in GuideJob, RunStep(i) PROVE GuideInv'
<1> USE DEF GuideInv, GuideTypeOK, FutureStates, RunSteps
<1>1. CASE Begin(i)
  <2>1. /\ future[i] = "pending" /\ future' = [future EXCEPT ![i] = "running"]
        /\ threadAt' = [threadAt EXCEPT ![i] = "top"]
        /\ UNCHANGED <<facts, toQueue, current, key, revision, seen, snapshot, marked>>
    BY <1>1 DEF Begin
  <2>2. GuideTypeOK'
    BY <2>1
  <2>3. Unstarted' /\ LastIsOwn' /\ MarkedExist' /\ WrittenCovers'
    BY <2>1 DEF Unstarted, LastIsOwn, MarkedExist, WrittenCovers
  <2>4. SingleFlight'
    BY <2>1 DEF SingleFlight, InFlight
  <2> QED
    BY <2>2, <2>3, <2>4
<1>2. CASE ReadRevision(i)
  <2>1. /\ threadAt[i] = "top" /\ seen' = [seen EXCEPT ![i] = revision[i]]
        /\ threadAt' = [threadAt EXCEPT ![i] = "worker"]
        /\ UNCHANGED <<facts, toQueue, current, key, revision, future, snapshot, marked>>
    BY <1>2 DEF ReadRevision
  <2>2. seen' \in [GuideJob -> Nat] /\ \A h \in GuideJob : seen'[h] <= revision'[h]
    <3>1. revision \in [GuideJob -> Nat] /\ seen \in [GuideJob -> Nat] /\ revision' = revision
          /\ \A h \in GuideJob : seen[h] <= revision[h]
      BY <2>1
    <3>2. seen' = [seen EXCEPT ![i] = revision[i]]
      BY <2>1
    <3>3. \A h \in GuideJob : seen'[h] = IF h = i THEN revision[i] ELSE seen[h]
      BY ONLY <3>1, <3>2
    <3>4. seen' \in [GuideJob -> Nat]
      BY ONLY <3>1, <3>2
    <3>5. QED
      BY ONLY <3>1, <3>3, <3>4
  <2>3. GuideTypeOK'
    BY <2>1, <2>2
  <2>4. Unstarted' /\ LastIsOwn' /\ SingleFlight' /\ MarkedExist'
    BY <2>1 DEF Unstarted, LastIsOwn, SingleFlight, MarkedExist, InFlight
  <2>5. WrittenCovers'
    BY <2>1 DEF WrittenCovers
  <2> QED
    BY <2>3, <2>4, <2>5
<1>3. CASE Work(i)
  <2>1. PICK k \in key[i] : snapshot' = [snapshot EXCEPT ![i] = facts[k]]
    BY <1>3 DEF Work
  <2>2. PICK step \in {"written", "failing"} : threadAt' = [threadAt EXCEPT ![i] = step]
    BY <1>3 DEF Work
  <2>3. threadAt[i] = "worker" /\ k \in Companies
        /\ UNCHANGED <<facts, toQueue, current, key, revision, future, seen, marked>>
    BY <1>3, <2>1 DEF Work
  <2>4. GuideTypeOK'
    BY <2>1, <2>2, <2>3
  <2>5. Unstarted' /\ LastIsOwn' /\ SingleFlight' /\ MarkedExist'
    BY <2>3 DEF Unstarted, LastIsOwn, SingleFlight, MarkedExist, InFlight
  <2>6. WrittenCovers'
    BY <2>1, <2>2, <2>3 DEF WrittenCovers, MarkedExist
  <2> QED
    BY <2>4, <2>5, <2>6
<1>4. CASE Check(i)
  BY <1>4 DEF Check, Unstarted, LastIsOwn, SingleFlight, MarkedExist, WrittenCovers,
     InFlight
<1>5. CASE Complete(i)
  <2>1. PICK end \in {"ready", "failed"} : future' = [future EXCEPT ![i] = end]
    BY <1>5 DEF Complete
  <2>2. /\ threadAt[i] \in {"return", "raise"} /\ threadAt' = [threadAt EXCEPT ![i] = "idle"]
        /\ UNCHANGED <<facts, toQueue, current, key, revision, seen, snapshot, marked>>
    BY <1>5 DEF Complete
  <2>3. GuideTypeOK'
    BY <2>1, <2>2
  <2>4. Unstarted' /\ MarkedExist' /\ WrittenCovers'
    <3>1. \A h \in GuideJob : future'[h] = "none" => future[h] = "none"
      BY <2>1
    <3> QED
      BY <2>2, <3>1 DEF Unstarted, MarkedExist, WrittenCovers
  <2>5. LastIsOwn'
    <3>1. \A h \in GuideJob : future'[h] = "none" => future[h] = "none"
      BY <2>1
    <3>2. ASSUME NEW k \in Companies, current[k] # 0
          PROVE  key[current[k]] = {k} /\ future'[current[k]] # "none"
      <4>1. current[k] \in GuideJob
        BY <3>2
      <4> QED
        BY <3>1, <3>2, <4>1 DEF LastIsOwn
    <3> QED
      BY <2>2, <3>2 DEF LastIsOwn
  <2>6. SingleFlight'
    BY <2>1, <2>2 DEF SingleFlight, InFlight
  <2> QED
    BY <2>3, <2>4, <2>5, <2>6
<1> QED
  BY <1>1, <1>2, <1>3, <1>4, <1>5 DEF RunStep

\* Every step keeps the invariant.
LEMMA GuideNextKeeps == GuideInv /\ [GuideNext]_guideVars => GuideInv'
<1> SUFFICES ASSUME GuideInv, [GuideNext]_guideVars PROVE GuideInv'
  OBVIOUS
<1>1. ASSUME NEW k \in Companies, CommitFacts(k) PROVE GuideInv'
  <2>1. /\ facts' = [facts EXCEPT ![k] = @ + 1] /\ toQueue' = [toQueue EXCEPT ![k] = @ + 1]
        /\ UNCHANGED <<current, key, revision, future, threadAt, seen, snapshot, marked>>
    BY <1>1 DEF CommitFacts
  <2>2. GuideTypeOK'
    <3>1. facts' \in [Companies -> Nat] /\ toQueue' \in [Companies -> Nat]
      BY <2>1 DEF GuideInv, GuideTypeOK
    <3> QED
      BY <2>1, <3>1 DEF GuideInv, GuideTypeOK
  <2>3. Unstarted' /\ LastIsOwn' /\ SingleFlight' /\ WrittenCovers'
    BY <2>1 DEF GuideInv, Unstarted, LastIsOwn, SingleFlight, WrittenCovers, InFlight
  <2>4. \A c \in Companies : facts[c] <= facts'[c] /\ facts[c] \in Nat /\ facts'[c] \in Nat
    BY <2>1 DEF GuideInv, GuideTypeOK
  <2>5. MarkedExist'
    <3> SUFFICES ASSUME NEW h \in GuideJob, NEW c \in Companies, c \in key[h]
                 PROVE  marked[h] <= facts'[c]
      BY <2>1 DEF MarkedExist
    <3>1. marked[h] <= facts[c] /\ marked[h] \in Nat
      BY DEF GuideInv, GuideTypeOK, MarkedExist
    <3> QED
      BY <2>4, <3>1
  <2> QED
    BY <2>2, <2>3, <2>5 DEF GuideInv
<1>2. ASSUME NEW k \in Companies, Queue(k) PROVE GuideInv'
  <2>1. facts' = facts /\ toQueue' \in [Companies -> Nat]
    <3>1. facts' = facts /\ toQueue[k] > 0 /\ toQueue' = [toQueue EXCEPT ![k] = @ - 1]
      BY <1>2 DEF Queue
    <3>2. toQueue \in [Companies -> Nat]
      BY DEF GuideInv, GuideTypeOK
    <3> QED
      BY <3>1, <3>2
  <2>2. CASE current[k] # 0 /\ InFlight(current[k])
    <3>1. current[k] \in GuideJob
      BY <2>2 DEF GuideInv, GuideTypeOK
    <3> QED
      BY <1>2, <2>1, <2>2, <3>1, GuideMarkKeeps DEF Queue
  <2>3. CASE ~(current[k] # 0 /\ InFlight(current[k]))
    BY <1>2, <2>1, <2>3, GuideStartKeeps DEF Queue
  <2> QED
    BY <2>2, <2>3
<1>3. ASSUME NEW k \in Companies, GetOrStart(k) PROVE GuideInv'
  <2>1. facts' = facts /\ toQueue' \in [Companies -> Nat] /\ StartLocked(k)
    BY <1>3 DEF GetOrStart, GuideInv, GuideTypeOK
  <2>2. current[k] # 0 => ~InFlight(current[k])
    BY <1>3 DEF GetOrStart, InFlight
  <2> QED
    BY <2>1, <2>2, GuideStartKeeps
<1>4. ASSUME NEW i \in GuideJob, RunStep(i) PROVE GuideInv'
  BY <1>4, GuideRunKeeps
<1>5. CASE UNCHANGED guideVars
  BY <1>5 DEF guideVars, GuideInv, GuideTypeOK, Unstarted, LastIsOwn, SingleFlight, MarkedExist, WrittenCovers,
     InFlight
<1> QED
  BY <1>1, <1>2, <1>3, <1>4, <1>5 DEF GuideNext

\* The types hold in every execution; a running future has a thread.
THEOREM GuideTypes == GuideSpec => []GuideTypeOK
<1>1. GuideInv => GuideTypeOK
  BY DEF GuideInv
<1> QED
  BY <1>1, GuideInvInit, GuideNextKeeps, PTL DEF GuideSpec

\* A company never has two guides in the making, whatever uploads and visits arrive.
THEOREM GuideSingleFlight == GuideSpec => []SingleFlight
<1>1. GuideInv => SingleFlight
  BY DEF GuideInv
<1> QED
  BY <1>1, GuideInvInit, GuideNextKeeps, PTL DEF GuideSpec

\* No worker gives out a guide older than the last upload queued when it compared revisions.
THEOREM GuideChecked == GuideSpec => CheckedIsCurrent
<1> DEFINE Gives(i) == threadAt[i] = "written" /\ threadAt'[i] = "return"
<1>1. ASSUME GuideInv, [GuideNext]_guideVars, NEW i \in GuideJob, Gives(i) PROVE snapshot[i] >= marked[i]
  <2>1. seen[i] = revision[i]
    BY <1>1 DEF GuideNext, guideVars, CommitFacts, Queue, GetOrStart, StartLocked, RunStep, Begin,
       ReadRevision, Work, Check, Complete, GuideInv, GuideTypeOK
  <2> QED
    BY <1>1, <2>1 DEF GuideInv, WrittenCovers
<1>2. GuideInv /\ [GuideNext]_guideVars => [\A i \in GuideJob : Gives(i) => snapshot[i] >= marked[i]]_guideVars
  BY <1>1
<1> QED
  BY <1>2, GuideInvInit, GuideNextKeeps, PTL DEF GuideSpec, CheckedIsCurrent
=============================================================================
