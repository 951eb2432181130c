----------------------- MODULE ParseAndMigrationProofs ------------------------
(*****************************************************************************)
(* Theorems about the conversion and review of a file (DocumentParse), and   *)
(* about the migration of a company's facts into the tree (Migration).       *)
(*****************************************************************************)
EXTENDS DocumentParse, Migration, FiniteSetTheorems, TLAPS

(* The conversion of a file. *)

\* A set of naturals has a least element: the latest parsed row of a content is found with it.
\* Initial segments ordered by inclusion are well founded.
LEMMA Least ==
    ASSUME NEW S, S \subseteq Nat, S # {}
    PROVE  \E m \in S : \A n \in S : m <= n
<1> DEFINE R == StrictSubsetOrdering(Nat)
           Upto(n) == 0 .. n
           T == {Upto(n) : n \in S}
<1>1. IsWellFoundedOn(R, FiniteSubsetsOf(Nat))
  BY FS_StrictSubsetOrderingWellFounded
<1>2. T \subseteq FiniteSubsetsOf(Nat) /\ T # {}
  <2>1. \A n \in S : Upto(n) \in SUBSET Nat /\ IsFiniteSet(Upto(n))
    BY FS_Interval
  <2>2. QED
    BY <2>1 DEF FiniteSubsetsOf
<1> HIDE DEF T, R
<1>3. PICK U \in T : \A V \in T : <<V, U>> \notin R
  BY <1>1, <1>2, WFMin
<1>4. PICK m \in S : U = Upto(m)
  BY <1>3 DEF T
<1>5. ASSUME NEW n \in S, n < m PROVE FALSE
  <2>1. Upto(n) \in T
    BY DEF T
  <2>2. Upto(n) \subseteq Upto(m) /\ Upto(n) # Upto(m)
    BY <1>5
  <2>3. <<Upto(n), Upto(m)>> \in R
    BY <2>2 DEF R, StrictSubsetOrdering
  <2>4. QED
    BY <2>1, <2>3, <1>3, <1>4
<1>6. QED
  BY <1>5

\* A job whose conversion is staged has its row; until it stages one it is in its first round.
HasRow ==
    \A j \in Jobs :
        round[j] > 0 \/ pc[j] \in {"parsed", "staged", "round", "ask", "answer", "persist", "judged", "reparse", "reviewed"}
            => row[j] > 0

\* No row is worked on by one job and bound, or worked on, by another; a job that has bound a row
\* is done with it.
Apart ==
    /\ \A j, k \in Jobs : j # k => /\ row[j] > 0 => row[j] # row[k] /\ row[j] # bound[k]
                                   /\ bound[j] > 0 => bound[j] # bound[k]
    /\ \A j \in Jobs : bound[j] > 0 => pc[j] \in {"bound", "failed"}

\* The writer of the store is a job about to commit.
WriterWrites == writer # NoJob => pc[writer] \in {"insert", "persist"}

Examined(j) == <<j, rows[row[j]].conv>> \in verified

\* What a round has checked, and what a review is about to pass, is the conversion at hand.
ChecksAtHand ==
    \A j \in Jobs :
        /\ pc[j] \in {"ask", "answer"} /\ checked[j] => Examined(j)
        /\ pc[j] = "persist" /\ verdict[j] = "pass" => Examined(j)

\* What lies in the outbox while a job waits was put there since it asked.
OutboxIsNew == \A j \in Jobs : pc[j] = "invoke" => outbox = Nothing \/ outbox.id > got[j].id

\* Between the replacement of the map and the commit the map is ahead of the rows.
MapIsAhead == map \in {lost, Latest(IF writer = NoJob THEN rows ELSE After(writer))}

Inv == TypeOK /\ HasRow /\ Apart /\ WriterWrites /\ ReviewedIsRead /\ ChecksAtHand /\ OutboxIsNew /\ MapIsAhead

-----------------------------------------------------------------------------
\* Types.

\* The latest parsed row of a sequence: a nonempty set of indices has a greatest one.
LEMMA Greatest ==
    ASSUME NEW n \in Nat, NEW P, P \subseteq 1 .. n, P # {}
    PROVE  \E i \in P : \A k \in P : k <= i
<1> DEFINE U == {m \in Nat : \A k \in P : k <= m}
<1>1. n \in U
  OBVIOUS
<1>2. PICK m \in U : \A u \in U : m <= u
  BY <1>1, Least
<1>3. ASSUME m \notin P PROVE FALSE
  <2>1. \A k \in P : k <= m - 1
    BY <1>3
  <2>2. PICK k \in P : k \in 1 .. n
    OBVIOUS
  <2>3. m - 1 \in Nat
    BY <2>1, <2>2
  <2>4. QED
    BY <1>2, <2>1, <2>3
<1>4. QED
  BY <1>2, <1>3

Row == [conv : Nat, parsed : BOOLEAN, quality : [by : Jobs \cup {NoJob}, status : Verdicts]]
ParsedRows(s) == {i \in DOMAIN s : s[i].parsed}

\* What Latest is of: the conversion of one of the rows, or none.
LEMMA LatestOf ==
    ASSUME NEW s \in Seq(Row)
    PROVE  /\ Latest(s) \in Nat
           /\ ParsedRows(s) # {} => \E i \in ParsedRows(s) :
                 /\ Latest(s) = s[i].conv
                 /\ i = CHOOSE m \in ParsedRows(s) : \A k \in ParsedRows(s) : k <= m
<1> DEFINE P == ParsedRows(s)
           m == CHOOSE i \in P : \A k \in P : k <= i
<1>1. CASE P = {}
  BY <1>1 DEF Latest, ParsedRows
<1>2. CASE P # {}
  <2>1. P \subseteq 1 .. Len(s) /\ Len(s) \in Nat
    BY DEF ParsedRows
  <2>2. \E i \in P : \A k \in P : k <= i
    <3> HIDE DEF P
    <3> QED
      BY <1>2, <2>1, Greatest
  <2>3. m \in P
    BY <2>2
  <2>4. Latest(s) = s[m].conv
    BY <1>2 DEF Latest, ParsedRows
  <2>5. s[m] \in Row
    BY <2>1, <2>3
  <2>6. QED
    BY <2>3, <2>4, <2>5 DEF Row
<1>3. QED
  BY <1>1, <1>2

\* Sequences with the same parsed rows have the same latest one.
LEMMA LatestSame ==
    ASSUME NEW s \in Seq(Row), NEW t \in Seq(Row), ParsedRows(s) = ParsedRows(t),
           \A i \in ParsedRows(s) : s[i].conv = t[i].conv
    PROVE  Latest(s) = Latest(t)
<1>1. CASE ParsedRows(s) = {}
  BY <1>1 DEF Latest, ParsedRows
<1>2. CASE ParsedRows(s) # {}
  BY <1>2, LatestOf
<1>3. QED
  BY <1>1, <1>2

\* What a transaction leaves are rows again: one more, or one with another judgement.
LEMMA AfterRows ==
    ASSUME TypeOK, NEW j \in Jobs, pc[j] = "insert" \/ row[j] > 0
    PROVE  /\ After(j) \in Seq(Row)
           /\ pc[j] = "insert" => /\ Len(After(j)) = Len(rows) + 1
                                  /\ \A i \in DOMAIN rows : After(j)[i] = rows[i]
                                  /\ After(j)[Len(rows) + 1] = [conv |-> got[j].id, parsed |-> got[j].parsed, quality |-> Unread]
           /\ pc[j] # "insert" => /\ Len(After(j)) = Len(rows)
                                  /\ \A i \in DOMAIN rows \ {row[j]} : After(j)[i] = rows[i]
                                  /\ After(j)[row[j]] = [rows[row[j]] EXCEPT !.quality = [by |-> j, status |-> verdict[j]]]
<1> DEFINE new == [conv |-> got[j].id, parsed |-> got[j].parsed, quality |-> Unread]
           judged == [rows[row[j]] EXCEPT !.quality = [by |-> j, status |-> verdict[j]]]
<1>1. rows \in Seq(Row) /\ row[j] \in 0 .. Len(rows) /\ verdict[j] \in Verdicts
  BY DEF TypeOK, Row
<1>2. CASE pc[j] = "insert"
  <2>1. got[j] \in [id : Nat, parsed : BOOLEAN]
    BY DEF TypeOK
  <2>2. new \in Row
    BY <2>1 DEF Row, Unread, Verdicts
  <2>3. After(j) = Append(rows, new)
    BY <1>2 DEF After, Inserted
  <2> HIDE DEF new
  <2>4. After(j) \in Seq(Row) /\ Len(After(j)) = Len(rows) + 1
    BY <1>1, <2>2, <2>3
  <2>5. \A i \in DOMAIN rows : After(j)[i] = rows[i]
    BY <1>1, <2>3
  <2>6. After(j)[Len(rows) + 1] = new
    BY <1>1, <2>3
  <2>7. QED
    BY <1>2, <2>4, <2>5, <2>6 DEF new
<1>3. CASE pc[j] # "insert"
  <2>1. row[j] \in DOMAIN rows
    BY <1>1, <1>3
  <2>2. judged \in Row
    <3>1. rows[row[j]] \in Row
      BY <1>1, <2>1
    <3>2. [by |-> j, status |-> verdict[j]] \in [by : Jobs \cup {NoJob}, status : Verdicts]
      BY <1>1
    <3>3. QED
      BY <3>1, <3>2 DEF Row
  <2>3. After(j) = [rows EXCEPT ![row[j]] = judged]
    BY <1>3 DEF After, Judged
  <2> HIDE DEF judged
  <2>4. After(j) \in Seq(Row) /\ Len(After(j)) = Len(rows)
    BY <1>1, <2>1, <2>2, <2>3
  <2>5. QED
    BY <1>1, <1>3, <2>1, <2>3, <2>4 DEF judged
<1>4. QED
  BY <1>2, <1>3

\* The writer commits into its row.
LEMMA CommitRows ==
    ASSUME TypeOK, HasRow, WriterWrites, NEW j \in Jobs, writer = j
    PROVE  pc[j] \in {"insert", "persist"} /\ (pc[j] = "insert" \/ row[j] > 0)
  BY DocumentParseAssumption DEF TypeOK, HasRow, WriterWrites

\* The types, by what they are about.
ControlTypes == pc \in [Jobs -> Steps] /\ cancel \subseteq Jobs /\ starts \in Nat /\ crashes \in Nat
ReviewTypes  == /\ round \in [Jobs -> Nat] /\ calls \in [Jobs -> Nat]
                /\ checked \in [Jobs -> BOOLEAN] /\ verdict \in [Jobs -> Verdicts]
RowTypes     == row \in [Jobs -> 0 .. Len(rows)] /\ bound \in [Jobs -> 0 .. Len(rows)]
GotTypes     == got \in [Jobs -> [id : 0 .. made, parsed : BOOLEAN]]
HandoffTypes == /\ task \in BOOLEAN /\ outbox \in [id : 0 .. made, parsed : BOOLEAN] /\ made \in Nat
                /\ agent \in [Jobs -> {"none", "asked", "working", "done"}] /\ stray \in Nat
StoreTypes   == rows \in Seq(Row) /\ writer \in Jobs \cup {NoJob} /\ map \in Nat
HistoryTypes == verified \subseteq Jobs \X Nat /\ lost \in Nat

\* Type correctness, part by part.
LEMMA TypesByPart ==
    TypeOK <=> ControlTypes /\ ReviewTypes /\ RowTypes /\ GotTypes /\ HandoffTypes /\ StoreTypes /\ HistoryTypes
  BY Zenon DEF TypeOK, ControlTypes, ReviewTypes, RowTypes, GotTypes, HandoffTypes, StoreTypes, HistoryTypes, Row

LEMMA StoreStays ==
    ASSUME StoreTypes, RowTypes, HistoryTypes, UNCHANGED <<store, row, bound, history>>
    PROVE  StoreTypes' /\ RowTypes' /\ HistoryTypes'
  BY DEF StoreTypes, RowTypes, HistoryTypes, store, history

LEMMA HandoffStays ==
    ASSUME HandoffTypes, GotTypes, UNCHANGED <<handoff, got>>
    PROVE  HandoffTypes' /\ GotTypes'
  BY DEF HandoffTypes, GotTypes, handoff

LEMMA ReviewStays ==
    ASSUME ReviewTypes, UNCHANGED review
    PROVE  ReviewTypes'
  BY DEF ReviewTypes, review

\* A worker that drops what it has in hand keeps the types.
LEMMA ForgetTypes ==
    ASSUME ReviewTypes, RowTypes, GotTypes, NEW js \in SUBSET Jobs, Forget(js), UNCHANGED <<rows, bound, made>>, made \in Nat
    PROVE  ReviewTypes' /\ RowTypes' /\ GotTypes'
<1>1. ReviewTypes'
  BY DEF ReviewTypes, Forget, Verdicts
<1>2. RowTypes'
  BY DEF RowTypes, Forget
<1>3. GotTypes'
  BY DEF GotTypes, Forget, Nothing
<1>4. QED
  BY <1>1, <1>2, <1>3

LEMMA TypesStep ==
    ASSUME TypeOK, HasRow, WriterWrites, [Next]_vars
    PROVE  TypeOK'
<1>a. ControlTypes /\ ReviewTypes /\ RowTypes /\ GotTypes /\ HandoffTypes /\ StoreTypes /\ HistoryTypes
  BY TypesByPart
<1> DEFINE Kept == ControlTypes' /\ ReviewTypes' /\ RowTypes' /\ GotTypes' /\ HandoffTypes' /\ StoreTypes' /\ HistoryTypes'
<1> SUFFICES Kept
  BY Zenon DEF TypeOK, ControlTypes, ReviewTypes, RowTypes, GotTypes, HandoffTypes, StoreTypes, HistoryTypes, Row
<1>b. UNCHANGED got /\ UNCHANGED handoff => HandoffTypes' /\ GotTypes'
  BY <1>a, HandoffStays
<1>c. UNCHANGED <<store, row, bound, history>> => StoreTypes' /\ RowTypes' /\ HistoryTypes'
  BY <1>a, StoreStays
<1>d. UNCHANGED review => ReviewTypes'
  BY <1>a, ReviewStays
<1>e. ASSUME NEW js \in SUBSET Jobs, Forget(js), UNCHANGED <<rows, bound, made>>
      PROVE  ReviewTypes' /\ RowTypes' /\ GotTypes'
  BY <1>a, <1>e, ForgetTypes DEF HandoffTypes
<1>1. ASSUME NEW j \in Jobs, Start(j) \/ Cancel(j) PROVE Kept
  <2>1. ControlTypes'
    BY <1>a, <1>1 DEF Start, Cancel, ControlTypes, Goto, Steps, Ended
  <2>2. UNCHANGED <<review, row, got, handoff, store, bound, history>>
    BY <1>1 DEF Start, Cancel, worker
  <2>3. QED
    BY <2>1, <2>2, <1>b, <1>c, <1>d
<1>3. ASSUME NEW j \in Jobs, Staged(j) \/ ReadingStops(j) \/ ViewSnapshot(j) PROVE Kept
  <2>1. ControlTypes'
    BY <1>a, <1>3 DEF Staged, ReadingStops, ViewSnapshot, ControlTypes, Goto, Steps, Ended
  <2>2. UNCHANGED <<review, row, got, handoff, store, bound, history>>
    BY <1>3 DEF Staged, ReadingStops, ViewSnapshot, worker
  <2>3. QED
    BY <2>1, <2>2, <1>b, <1>c, <1>d
<1>2. ASSUME NEW j \in Jobs, StopCanceled(j) \/ EnsureReady(j) PROVE Kept
  <2>1. ControlTypes'
    BY <1>a, <1>2 DEF StopCanceled, EnsureReady, ControlTypes, Goto, Steps, Ended
  <2>2. Forget({j}) /\ UNCHANGED <<handoff, store, bound, history>>
    BY <1>2 DEF StopCanceled, EnsureReady
  <2>3. ReviewTypes' /\ RowTypes' /\ GotTypes'
    BY <2>2, <1>e DEF handoff, store
  <2>4. HandoffTypes' /\ StoreTypes' /\ HistoryTypes'
    BY <2>2, <1>a DEF HandoffTypes, StoreTypes, HistoryTypes, handoff, store, history
  <2>5. QED
    BY <2>1, <2>3, <2>4
<1>4. ASSUME NEW j \in Jobs, Bind(j) PROVE Kept
  <2>1. ControlTypes'
    BY <1>a, <1>4 DEF Bind, ControlTypes, Goto, Steps, Ended
  <2>2. Forget({j}) /\ UNCHANGED <<handoff, store, history>>
    BY <1>4 DEF Bind
  <2>3. ReviewTypes' /\ GotTypes'
    <3>1. ReviewTypes'
      BY <2>2, <1>a DEF ReviewTypes, Forget, Verdicts
    <3>2. GotTypes'
      BY <2>2, <1>a DEF GotTypes, HandoffTypes, Forget, Nothing, handoff
    <3>3. QED
      BY <3>1, <3>2
  <2>4. RowTypes'
    <3>1. row' \in [Jobs -> 0 .. Len(rows)]
      BY <2>2, <1>a DEF Forget, RowTypes
    <3>2. bound' \in [Jobs -> 0 .. Len(rows)]
      BY <1>4, <1>a DEF Bind, RowTypes
    <3>3. QED
      BY <3>1, <3>2, <2>2 DEF RowTypes, store
  <2>5. HandoffTypes' /\ StoreTypes' /\ HistoryTypes'
    BY <2>2, <1>a DEF HandoffTypes, StoreTypes, HistoryTypes, handoff, store, history
  <2>6. QED
    BY <2>1, <2>3, <2>4, <2>5
<1>5. ASSUME NEW j \in Jobs, WriteTask(j) \/ ClearOutbox(j) \/ GiveUp(j) \/ Collect(j) PROVE Kept
  <2>1. ControlTypes'
    BY <1>a, <1>5 DEF WriteTask, ClearOutbox, GiveUp, Collect, ControlTypes, Goto, Steps, Ended
  <2>2. UNCHANGED <<review, row, store, bound, history, made>>
    BY <1>5 DEF WriteTask, ClearOutbox, GiveUp, Collect, worker
  <2>3. HandoffTypes'
    <3>1. task' \in BOOLEAN /\ stray' \in Nat /\ agent' \in [Jobs -> {"none", "asked", "working", "done"}]
      <4>1. CASE WriteTask(j)
        BY <4>1, <1>a DEF WriteTask, HandoffTypes
      <4>2. CASE ClearOutbox(j)
        BY <4>2, <1>a DEF ClearOutbox, HandoffTypes
      <4>3. CASE GiveUp(j)
        BY <4>3, <1>a DEF GiveUp, Hangup, HandoffTypes
      <4>4. CASE Collect(j)
        BY <4>4, <1>a DEF Collect, HandoffTypes
      <4>5. QED
        BY <1>5, <4>1, <4>2, <4>3, <4>4
    <3>2. outbox' \in [id : 0 .. made, parsed : BOOLEAN]
      <4>1. outbox' \in {outbox, Nothing}
        BY <1>5 DEF WriteTask, ClearOutbox, GiveUp, Collect
      <4>2. Nothing \in [id : 0 .. made, parsed : BOOLEAN]
        BY <1>a DEF HandoffTypes, Nothing
      <4>3. QED
        BY <4>1, <4>2, <1>a DEF HandoffTypes
    <3>3. QED
      BY <3>1, <3>2, <2>2, <1>a DEF HandoffTypes
  <2>4. GotTypes'
    <3>1. \/ UNCHANGED got \/ got' = [got EXCEPT ![j] = [id |-> made, parsed |-> FALSE]] \/ got' = [got EXCEPT ![j] = outbox]
      BY <1>5 DEF WriteTask, ClearOutbox, GiveUp, Collect, worker
    <3>2. [id |-> made, parsed |-> FALSE] \in [id : 0 .. made, parsed : BOOLEAN]
      BY <1>a DEF HandoffTypes
    <3>3. PICK x \in [id : 0 .. made, parsed : BOOLEAN] : UNCHANGED got \/ got' = [got EXCEPT ![j] = x]
      BY <3>1, <3>2, <1>a DEF HandoffTypes
    <3>4. QED
      BY <3>3, <2>2, <1>a DEF GotTypes
  <2>5. QED
    BY <2>1, <2>2, <2>3, <2>4, <1>c, <1>d
<1>6. CASE StrayEnds \/ \E j \in Jobs : Agent(j)
  <2>1. UNCHANGED <<pc, review, row, got, cancel, starts, store, bound, crashes, history>>
    BY <1>6 DEF Agent, AgentStarts, AgentEnds, StrayEnds, worker
  <2>2. HandoffTypes' /\ made <= made'
    <3>1. task' \in BOOLEAN /\ stray' \in Nat /\ agent' \in [Jobs -> {"none", "asked", "working", "done"}]
      <4>1. ASSUME NEW j \in Jobs, AgentStarts(j)
            PROVE  task' \in BOOLEAN /\ stray' \in Nat /\ agent' \in [Jobs -> {"none", "asked", "working", "done"}]
        BY <4>1, <1>a DEF AgentStarts, HandoffTypes
      <4>2. ASSUME NEW j \in Jobs, AgentEnds(j)
            PROVE  task' \in BOOLEAN /\ stray' \in Nat /\ agent' \in [Jobs -> {"none", "asked", "working", "done"}]
        BY <4>2, <1>a DEF AgentEnds, HandoffTypes
      <4>3. CASE StrayEnds
        BY <4>3, <1>a DEF StrayEnds, HandoffTypes
      <4>4. QED
        BY <1>6, <4>1, <4>2, <4>3 DEF Agent
    <3>2. UNCHANGED <<outbox, made>> \/ (Convert /\ made' = made + 1)
      BY <1>6 DEF Agent, AgentStarts, AgentEnds, StrayEnds
    <3>3. made' \in Nat /\ made <= made' /\ outbox' \in [id : 0 .. made', parsed : BOOLEAN]
      BY <3>2, <1>a DEF HandoffTypes, Convert
    <3>4. QED
      BY <3>1, <3>3 DEF HandoffTypes
  <2>3. GotTypes'
    BY <2>1, <2>2, <1>a DEF GotTypes, HandoffTypes
  <2>4. ControlTypes'
    BY <2>1, <1>a DEF ControlTypes
  <2>5. QED
    BY <2>1, <2>2, <2>3, <2>4, <1>c, <1>d
<1>7. ASSUME NEW j \in Jobs, EndParse(j) PROVE Kept
  <2>1. ControlTypes'
    BY <1>a, <1>7 DEF EndParse, ControlTypes, Goto, Steps, Ended
  <2>2. UNCHANGED <<row, got, store, bound, history, outbox, made, agent, stray, round, calls, checked>> /\ task' = FALSE
    BY <1>7 DEF EndParse
  <2>3. ReviewTypes'
    BY <1>7, <2>2, <1>a DEF EndParse, ReviewTypes, Verdicts
  <2>4. HandoffTypes' /\ GotTypes'
    BY <2>2, <1>a DEF HandoffTypes, GotTypes
  <2>5. QED
    BY <2>1, <2>2, <2>3, <2>4, <1>c
<1>8. ASSUME NEW j \in Jobs, ReplaceMap(j) PROVE Kept
  <2>1. After(j) \in Seq(Row)
    BY <1>8, AfterRows DEF ReplaceMap, HasRow
  <2>2. map' \in Nat
    BY <1>8, <2>1, <1>a, LatestOf DEF ReplaceMap, StoreTypes
  <2>3. UNCHANGED <<pc, review, row, got, cancel, starts, handoff, rows, bound, crashes, history>> /\ writer' = j
    BY <1>8 DEF ReplaceMap, worker
  <2>4. StoreTypes' /\ ControlTypes' /\ RowTypes' /\ HistoryTypes'
    BY <2>2, <2>3, <1>a DEF StoreTypes, ControlTypes, RowTypes, HistoryTypes, history
  <2>5. QED
    BY <2>3, <2>4, <1>b, <1>d
<1>9. ASSUME NEW j \in Jobs, Commit(j) PROVE Kept
  <2>1. pc[j] \in {"insert", "persist"} /\ (pc[j] = "insert" \/ row[j] > 0)
    BY <1>9, CommitRows DEF Commit
  <2>2. rows' = After(j) /\ writer' = NoJob /\ UNCHANGED <<review, cancel, starts, handoff, map, bound, crashes, history>>
    BY <1>9 DEF Commit
  <2>3. rows' \in Seq(Row) /\ Len(rows) \in Nat /\ Len(rows') \in Nat /\ Len(rows) <= Len(rows')
    <3>1. After(j) \in Seq(Row) /\ Len(After(j)) \in {Len(rows), Len(rows) + 1}
      BY <2>1, AfterRows
    <3>2. QED
      BY <3>1, <2>2, <1>a DEF StoreTypes
  <2>4. RowTypes'
    <3>1. row' = [row EXCEPT ![j] = IF pc[j] = "insert" THEN Len(rows') ELSE @]
      BY <1>9 DEF Commit
    <3>2. QED
      BY <3>1, <2>2, <2>3, <1>a DEF RowTypes
  <2>5. StoreTypes' /\ HistoryTypes'
    BY <2>2, <2>3, <1>a DEF StoreTypes, HistoryTypes, history
  <2>6. ControlTypes'
    BY <1>9, <2>2, <1>a DEF Commit, ControlTypes, Goto, Steps
  <2>7. GotTypes' /\ HandoffTypes'
    <3>1. got' = [got EXCEPT ![j] = Nothing] /\ UNCHANGED handoff
      BY <1>9 DEF Commit
    <3>2. QED
      BY <3>1, <1>a DEF GotTypes, HandoffTypes, handoff, Nothing
  <2>8. QED
    BY <2>2, <2>4, <2>5, <2>6, <2>7, <1>d
<1>10. CASE RebuildMap
  <2>1. map' \in Nat
    BY <1>10, <1>a, LatestOf DEF RebuildMap, StoreTypes
  <2>2. UNCHANGED <<pc, review, row, got, cancel, starts, handoff, rows, writer, bound, crashes, history>>
    BY <1>10 DEF RebuildMap, worker
  <2>3. StoreTypes' /\ ControlTypes' /\ RowTypes' /\ HistoryTypes'
    BY <2>1, <2>2, <1>a DEF StoreTypes, ControlTypes, RowTypes, HistoryTypes, history
  <2>4. QED
    BY <2>2, <2>3, <1>b, <1>d
<1>11. ASSUME NEW j \in Jobs, BeginRound(j) \/ AskEmployee(j) \/ Reparse(j) \/ Conclude(j) PROVE Kept
  <2>1. ControlTypes'
    BY <1>a, <1>11 DEF BeginRound, AskEmployee, Reparse, Conclude, ControlTypes, Goto, Steps, Ended
  <2>2. UNCHANGED <<row, got, handoff, store, bound, history>>
    BY <1>11 DEF BeginRound, AskEmployee, Reparse, Conclude
  <2>3. ReviewTypes'
    <3>1. CASE BeginRound(j)
      BY <3>1, <1>a DEF BeginRound, ReviewTypes, Verdicts
    <3>2. CASE AskEmployee(j)
      BY <3>2, <1>a DEF AskEmployee, ReviewTypes, Verdicts
    <3>3. CASE Reparse(j)
      BY <3>3, <1>a DEF Reparse, ReviewTypes
    <3>4. CASE Conclude(j)
      BY <3>4, <1>a DEF Conclude, ReviewTypes, Verdicts
    <3>5. QED
      BY <1>11, <3>1, <3>2, <3>3, <3>4
  <2>4. QED
    BY <2>1, <2>2, <2>3, <1>b, <1>c
<1>12. ASSUME NEW j \in Jobs, Verify(j) PROVE Kept
  <2>1. rows[row[j]].conv \in Nat
    <3>1. row[j] \in DOMAIN rows
      BY <1>12, <1>a DEF Verify, HasRow, RowTypes, StoreTypes
    <3>2. rows[row[j]] \in Row
      BY <3>1, <1>a DEF StoreTypes
    <3>3. QED
      BY <3>2 DEF Row
  <2>2. HistoryTypes'
    BY <1>12, <2>1, <1>a DEF Verify, HistoryTypes
  <2>3. ControlTypes' /\ ReviewTypes'
    BY <1>a, <1>12 DEF Verify, ControlTypes, ReviewTypes, Goto, Steps, Ended
  <2>4. UNCHANGED <<row, got, handoff, store, bound>>
    BY <1>12 DEF Verify
  <2>5. StoreTypes' /\ RowTypes'
    BY <2>4, <1>a DEF StoreTypes, RowTypes, store
  <2>6. QED
    BY <2>2, <2>3, <2>4, <2>5, <1>b
<1>13. ASSUME NEW j \in Jobs, Judge(j) PROVE Kept
  <2>1. ControlTypes'
    BY <1>a, <1>13 DEF Judge, ControlTypes, Goto, Steps, Ended
  <2>2. UNCHANGED <<handoff, store, bound, history>> /\ (Forget({j}) \/ UNCHANGED <<row, got, review>>)
    BY <1>13 DEF Judge, worker
  <2>3. ReviewTypes' /\ RowTypes' /\ GotTypes'
    <3>1. CASE Forget({j})
      BY <3>1, <2>2, <1>e DEF handoff, store
    <3>2. CASE UNCHANGED <<row, got, review>>
      BY <3>2, <2>2, <1>b, <1>c, <1>d
    <3>3. QED
      BY <2>2, <3>1, <3>2
  <2>4. HandoffTypes' /\ StoreTypes' /\ HistoryTypes'
    BY <2>2, <1>a DEF HandoffTypes, StoreTypes, HistoryTypes, handoff, store, history
  <2>5. QED
    BY <2>1, <2>3, <2>4
<1>14. CASE Crash
  <2>1. Forget(Jobs) /\ UNCHANGED <<starts, task, outbox, made, rows, map, bound, verified>>
    BY <1>14 DEF Crash
  <2>2. ReviewTypes' /\ RowTypes' /\ GotTypes'
    BY <2>1, <1>e
  <2>3. ControlTypes'
    BY <1>14, <1>a DEF Crash, ControlTypes, Steps, Ended
  <2>4. StoreTypes' /\ HistoryTypes'
    BY <1>14, <1>a DEF Crash, StoreTypes, HistoryTypes
  <2>5. stray' \in Nat
    <3>1. Cardinality({j \in Jobs : Begun(j)}) \in Nat
      BY DocumentParseAssumption, FS_Subset, FS_CardinalityType
    <3>2. QED
      BY <1>14, <3>1, <1>a DEF Crash, HandoffTypes
  <2>6. HandoffTypes'
    BY <1>14, <2>5, <1>a DEF Crash, HandoffTypes
  <2>7. QED
    BY <2>2, <2>3, <2>4, <2>6
<1>15. CASE UNCHANGED vars
  <2>1. UNCHANGED <<pc, cancel, starts, crashes, review, row, got, handoff, store, bound, history>>
    BY <1>15 DEF vars, worker
  <2>2. ControlTypes'
    BY <2>1, <1>a DEF ControlTypes
  <2>3. QED
    BY <2>1, <2>2, <1>b, <1>c, <1>d
<1>16. CASE Next
  BY Zenon, <1>16, <1>1, <1>2, <1>3, <1>4, <1>5, <1>6, <1>7, <1>8, <1>9, <1>10, <1>11, <1>12, <1>13, <1>14 DEF Next, Work
<1>17. QED
  BY <1>15, <1>16

-----------------------------------------------------------------------------
\* The rows the jobs work on.

\* A step leaves every job that needs one with its row.
LEMMA HasRowStep ==
    ASSUME TypeOK, HasRow, WriterWrites, [Next]_vars
    PROVE  HasRow'
<1> DEFINE Late == {"parsed", "staged", "round", "ask", "answer", "persist", "judged", "reparse", "reviewed"}
           Has(k) == (round[k] > 0 \/ pc[k] \in Late) => row[k] > 0
<1>a. pc \in [Jobs -> Steps] /\ round \in [Jobs -> Nat] /\ row \in [Jobs -> 0 .. Len(rows)] /\ rows \in Seq(Row)
  BY DEF TypeOK, Row
<1>b. \A k \in Jobs : Has(k)
  BY DEF HasRow
<1> SUFFICES \A k \in Jobs : Has(k)'
  BY DEF HasRow
<1>1. ASSUME NEW j \in Jobs, Start(j) \/ Cancel(j) \/ ReadingStops(j) \/ WriteTask(j) \/ ClearOutbox(j) \/ GiveUp(j) \/ Collect(j)
      PROVE  \A k \in Jobs : Has(k)'
  <2>1. UNCHANGED <<row, round>>
    BY <1>1 DEF Start, Cancel, ReadingStops, WriteTask, ClearOutbox, GiveUp, Collect, worker, review
  <2>2. UNCHANGED pc \/ \E w \in {"start", "bound", "failed", "clear", "invoke", "unparsed", "insert"} : pc' = [pc EXCEPT ![j] = w]
    BY <1>1 DEF Start, Cancel, ReadingStops, WriteTask, ClearOutbox, GiveUp, Collect, Goto
  <2>3. QED
    BY <1>a, <1>b, <2>1, <2>2
<1>2. ASSUME NEW j \in Jobs, Staged(j) \/ EndParse(j) \/ ReplaceMap(j) \/ BeginRound(j) \/ AskEmployee(j)
                             \/ Verify(j) \/ ViewSnapshot(j) \/ Conclude(j)
      PROVE  \A k \in Jobs : Has(k)'
  <2>1. UNCHANGED <<row, round>>
    BY <1>2 DEF Staged, EndParse, ReplaceMap, BeginRound, AskEmployee, Verify, ViewSnapshot, Conclude, worker, review
  <2>2. UNCHANGED pc \/ \E w \in Steps : pc' = [pc EXCEPT ![j] = w] /\ (pc[j] \in Late \/ round[j] > 0 \/ w = "failed")
    BY <1>2 DEF Staged, EndParse, ReplaceMap, BeginRound, AskEmployee, Verify, ViewSnapshot, Conclude, Goto, Steps, Ended
  <2>3. QED
    BY <1>a, <1>b, <2>1, <2>2
<1>3. ASSUME NEW j \in Jobs, StopCanceled(j) \/ EnsureReady(j) \/ Bind(j)
      PROVE  \A k \in Jobs : Has(k)'
  <2>1. Forget({j}) /\ \E w \in {"canceled", "task", "failed", "bound"} : pc' = [pc EXCEPT ![j] = w]
    BY <1>3 DEF StopCanceled, EnsureReady, Bind, Goto
  <2>2. QED
    BY <1>a, <1>b, <2>1 DEF Forget
<1>4. ASSUME NEW j \in Jobs, Judge(j)
      PROVE  \A k \in Jobs : Has(k)'
  <2>1. CASE Forget({j})
    <3>1. \E w \in {"reparse", "needs_human", "reviewed"} : pc' = [pc EXCEPT ![j] = w]
      BY <1>4 DEF Judge, Goto
    <3>2. pc'[j] = "needs_human" \/ UNCHANGED <<row, round>>
      BY <1>4, <1>a DEF Judge, Goto, worker, review
    <3>3. pc[j] = "judged"
      BY <1>4 DEF Judge
    <3>4. QED
      BY <1>a, <1>b, <2>1, <3>1, <3>2, <3>3 DEF Forget
  <2>2. CASE UNCHANGED <<row, round>>
    <3>1. pc[j] = "judged" /\ \E w \in {"reparse", "needs_human", "reviewed"} : pc' = [pc EXCEPT ![j] = w]
      BY <1>4 DEF Judge, Goto
    <3>2. QED
      BY <1>a, <1>b, <2>2, <3>1
  <2>3. QED
    BY <1>4, <2>1, <2>2 DEF Judge, worker, review
<1>5. ASSUME NEW j \in Jobs, Reparse(j)
      PROVE  \A k \in Jobs : Has(k)'
  BY <1>5, <1>a, <1>b DEF Reparse, Goto
<1>6. ASSUME NEW j \in Jobs, Commit(j)
      PROVE  \A k \in Jobs : Has(k)'
  <2>1. pc[j] \in {"insert", "persist"} /\ (pc[j] = "insert" \/ row[j] > 0)
    BY <1>6, CommitRows DEF Commit
  <2>2. rows' = After(j) /\ UNCHANGED round /\ row' = [row EXCEPT ![j] = IF pc[j] = "insert" THEN Len(rows') ELSE @]
    BY <1>6 DEF Commit, review
  <2>3. pc[j] = "insert" => Len(rows') > 0
    <3>1. pc[j] = "insert" => Len(After(j)) = Len(rows) + 1
      BY AfterRows
    <3>2. Len(rows) \in Nat
      BY <1>a
    <3>3. QED
      BY <2>2, <3>1, <3>2
  <2>4. row'[j] > 0
    BY <2>1, <2>2, <2>3, <1>a
  <2>5. \A k \in Jobs \ {j} : pc'[k] = pc[k]
    BY <1>6, <1>a DEF Commit, Goto
  <2>6. QED
    BY <1>a, <1>b, <2>2, <2>4, <2>5
<1>7. CASE Crash
  BY <1>7, <1>a DEF Crash, Forget, Ended
<1>8. CASE RebuildMap \/ StrayEnds \/ (\E j \in Jobs : Agent(j)) \/ UNCHANGED vars
  <2>1. UNCHANGED <<pc, row, round>>
    BY <1>8 DEF RebuildMap, StrayEnds, Agent, AgentStarts, AgentEnds, vars, worker, review
  <2>2. QED
    BY <2>1, <1>b
<1>9. CASE Next
  BY Zenon, <1>9, <1>1, <1>2, <1>3, <1>4, <1>5, <1>6, <1>7, <1>8 DEF Next, Work
<1>10. QED
  BY <1>8, <1>9

\* An action of a job that does not write leaves alone what the writer commits.
Quiet(j) == Start(j) \/ Cancel(j) \/ StopCanceled(j) \/ EnsureReady(j) \/ Staged(j) \/ Bind(j) \/ ReadingStops(j) \/ WriteTask(j)
            \/ ClearOutbox(j) \/ Collect(j) \/ EndParse(j) \/ BeginRound(j) \/ AskEmployee(j) \/ Verify(j) \/ ViewSnapshot(j)
            \/ Conclude(j) \/ Judge(j) \/ Reparse(j) \/ GiveUp(j) \/ Agent(j)

LEMMA QuietMoves ==
    ASSUME TypeOK, NEW j \in Jobs, Quiet(j), NEW k \in Jobs, k # j \/ pc[k] \in {"insert", "persist"}
    PROVE  pc'[k] = pc[k] /\ row'[k] = row[k] /\ got'[k] = got[k] /\ verdict'[k] = verdict[k] /\ checked'[k] = checked[k]
<1>a. /\ pc \in [Jobs -> Steps] /\ verdict \in [Jobs -> Verdicts] /\ row \in [Jobs -> 0 .. Len(rows)]
      /\ checked \in [Jobs -> BOOLEAN]
      /\ DOMAIN got = Jobs
  BY DEF TypeOK
<1> DEFINE Same == pc'[k] = pc[k] /\ row'[k] = row[k] /\ got'[k] = got[k] /\ verdict'[k] = verdict[k] /\ checked'[k] = checked[k]
<1>1. CASE Start(j) \/ Cancel(j) \/ Staged(j) \/ ReadingStops(j) \/ WriteTask(j) \/ ViewSnapshot(j) \/ GiveUp(j)
  <2>1. UNCHANGED worker
    BY <1>1 DEF Start, Cancel, Staged, ReadingStops, WriteTask, ViewSnapshot, GiveUp
  <2>2. pc'[k] = pc[k]
    BY <1>1, <1>a DEF Start, Cancel, Staged, ReadingStops, WriteTask, ViewSnapshot, GiveUp, Goto, Ended
  <2>3. QED
    BY <2>1, <2>2 DEF worker, review
<1>2. CASE StopCanceled(j) \/ EnsureReady(j) \/ Bind(j)
  <2>1. Forget({j}) /\ j # k /\ \E w \in Steps : pc' = [pc EXCEPT ![j] = w]
    BY <1>2 DEF StopCanceled, EnsureReady, Bind, Goto, Steps, Ended
  <2>2. QED
    BY <2>1, <1>a DEF Forget
<1>3. CASE ClearOutbox(j) \/ Collect(j)
  <2>1. UNCHANGED <<row, review>> /\ j # k
    BY <1>3 DEF ClearOutbox, Collect
  <2>2. pc'[k] = pc[k]
    BY <1>3, <1>a, <2>1 DEF ClearOutbox, Collect, Goto
  <2>3. UNCHANGED got \/ \E x \in {outbox, [id |-> made, parsed |-> FALSE]} : got' = [got EXCEPT ![j] = x]
    BY <1>3 DEF ClearOutbox, Collect
  <2>4. QED
    BY <2>1, <2>2, <2>3, <1>a DEF review
<1>4. CASE EndParse(j) \/ BeginRound(j) \/ AskEmployee(j) \/ Verify(j) \/ Conclude(j) \/ Reparse(j)
  <2>1. j # k /\ UNCHANGED <<row, got>>
    BY <1>4 DEF EndParse, BeginRound, AskEmployee, Verify, Conclude, Reparse
  <2>2. \E w \in Steps : pc' = [pc EXCEPT ![j] = w]
    BY <1>4 DEF EndParse, BeginRound, AskEmployee, Verify, Conclude, Reparse, Goto, Steps, Ended
  <2>3. UNCHANGED verdict \/ \E v \in Verdicts : verdict' = [verdict EXCEPT ![j] = v]
    BY <1>4 DEF EndParse, BeginRound, AskEmployee, Verify, Conclude, Reparse, Verdicts
  <2>4. UNCHANGED checked \/ \E b \in BOOLEAN : checked' = [checked EXCEPT ![j] = b]
    BY <1>4 DEF EndParse, BeginRound, AskEmployee, Verify, Conclude, Reparse
  <2>5. QED
    BY <2>1, <2>2, <2>3, <2>4, <1>a
<1>5. CASE Judge(j)
  <2>1. j # k /\ \E w \in Steps : pc' = [pc EXCEPT ![j] = w]
    BY <1>5 DEF Judge, Goto, Steps, Ended
  <2>2. Forget({j}) \/ UNCHANGED worker
    BY <1>5 DEF Judge
  <2>3. pc'[k] = pc[k]
    BY <2>1, <1>a
  <2>4. CASE Forget({j})
    BY <2>1, <2>3, <2>4, <1>a DEF Forget
  <2>5. CASE UNCHANGED worker
    BY <2>3, <2>5 DEF worker, review
  <2>6. QED
    BY <2>2, <2>4, <2>5
<1>6. CASE Agent(j)
  BY <1>6 DEF Agent, AgentStarts, AgentEnds, worker, review
<1>7. QED
  BY Zenon, <1>1, <1>2, <1>3, <1>4, <1>5, <1>6 DEF Quiet

LEMMA WriterStep ==
    ASSUME TypeOK, WriterWrites, [Next]_vars
    PROVE  WriterWrites'
<1>a. writer \in Jobs \cup {NoJob} /\ NoJob \notin Jobs
  BY DocumentParseAssumption DEF TypeOK
<1>1. ASSUME NEW j \in Jobs, Quiet(j) PROVE WriterWrites'
  <2>1. UNCHANGED writer
    BY <1>1 DEF Quiet, Start, Cancel, StopCanceled, EnsureReady, Staged, Bind, ReadingStops, WriteTask, ClearOutbox, Collect,
           EndParse, BeginRound, AskEmployee, Verify, ViewSnapshot, Conclude, Judge, Reparse, GiveUp, Agent, AgentStarts, AgentEnds, store
  <2>2. writer # NoJob => pc'[writer] = pc[writer]
    BY <1>1, <1>a, QuietMoves DEF WriterWrites
  <2>3. QED
    BY <2>1, <2>2 DEF WriterWrites
<1>2. ASSUME NEW j \in Jobs, ReplaceMap(j) PROVE WriterWrites'
  BY <1>2 DEF ReplaceMap, WriterWrites
<1>3. CASE Crash \/ \E j \in Jobs : Commit(j)
  BY <1>3 DEF Crash, Commit, WriterWrites
<1>4. CASE RebuildMap \/ StrayEnds \/ UNCHANGED vars
  BY <1>4 DEF RebuildMap, StrayEnds, vars, store, WriterWrites
<1>5. CASE Next
  BY Zenon, <1>5, <1>1, <1>2, <1>3, <1>4 DEF Next, Work, Quiet
<1>6. QED
  BY <1>4, <1>5

LEMMA ApartStep ==
    ASSUME TypeOK, HasRow, Apart, WriterWrites, [Next]_vars
    PROVE  Apart'
<1>a. /\ pc \in [Jobs -> Steps] /\ row \in [Jobs -> 0 .. Len(rows)] /\ bound \in [Jobs -> 0 .. Len(rows)]
      /\ rows \in Seq(Row) /\ Len(rows) \in Nat
  BY DEF TypeOK, Row
<1> DEFINE Lone == \A j, k \in Jobs : j # k => /\ row[j] > 0 => row[j] # row[k] /\ row[j] # bound[k]
                                               /\ bound[j] > 0 => bound[j] # bound[k]
           Done(k) == bound[k] > 0 => pc[k] \in {"bound", "failed"}
<1>b. Lone /\ \A k \in Jobs : Done(k)
  BY DEF Apart
<1> SUFFICES Lone' /\ \A k \in Jobs : Done(k)'
  BY DEF Apart
<1>1. ASSUME NEW j \in Jobs, Start(j) \/ Cancel(j) \/ Staged(j) \/ ReadingStops(j) \/ WriteTask(j) \/ ViewSnapshot(j) \/ GiveUp(j)
                             \/ ClearOutbox(j) \/ Collect(j) \/ EndParse(j) \/ ReplaceMap(j) \/ BeginRound(j) \/ AskEmployee(j)
                             \/ Verify(j) \/ Conclude(j) \/ Reparse(j) \/ Agent(j)
      PROVE  Lone' /\ \A k \in Jobs : Done(k)'
  <2>1. UNCHANGED <<row, bound>>
    BY <1>1 DEF Start, Cancel, Staged, ReadingStops, WriteTask, ViewSnapshot, GiveUp, ClearOutbox, Collect, EndParse, ReplaceMap,
           BeginRound, AskEmployee, Verify, Conclude, Reparse, Agent, AgentStarts, AgentEnds, worker
  <2>2. UNCHANGED pc \/ \E w \in Steps : pc' = [pc EXCEPT ![j] = w] /\ (bound[j] = 0 \/ w \in {"bound", "failed"} \/ pc[j] \notin {"bound", "failed"})
    <3>1. CASE Start(j)
      BY <3>1 DEF Start, Goto, Steps, Ended
    <3>2. CASE ReadingStops(j)
      BY <3>2 DEF ReadingStops, Goto, Steps, Ended
    <3>3. QED
      BY <1>1, <3>1, <3>2 DEF Cancel, Staged, WriteTask, ViewSnapshot, GiveUp, ClearOutbox, Collect, EndParse, ReplaceMap,
         BeginRound, AskEmployee, Verify, Conclude, Reparse, Agent, AgentStarts, AgentEnds, Goto, Steps, Ended
  <2>3. \A k \in Jobs : Done(k)'
    BY <1>a, <1>b, <2>1, <2>2
  <2>4. QED
    BY <1>b, <2>1, <2>3
<1>2. ASSUME NEW j \in Jobs, StopCanceled(j) \/ EnsureReady(j) \/ Judge(j)
      PROVE  Lone' /\ \A k \in Jobs : Done(k)'
  <2>1. UNCHANGED bound /\ pc[j] \notin {"bound", "failed"}
    BY <1>2 DEF StopCanceled, EnsureReady, Judge
  <2>2. \A k \in Jobs : row'[k] \in {0, row[k]}
    BY <1>2, <1>a DEF StopCanceled, EnsureReady, Judge, Forget, worker
  <2>3. \E w \in Steps : pc' = [pc EXCEPT ![j] = w]
    BY <1>2 DEF StopCanceled, EnsureReady, Judge, Goto, Steps, Ended
  <2>4. \A k \in Jobs : Done(k)'
    BY <1>a, <1>b, <2>1, <2>3
  <2>5. Lone'
    BY <1>a, <1>b, <2>1, <2>2
  <2>6. QED
    BY <2>4, <2>5
<1>3. ASSUME NEW j \in Jobs, Bind(j)
      PROVE  Lone' /\ \A k \in Jobs : Done(k)'
  <2>1. bound[j] = 0
    BY <1>3, <1>a, <1>b DEF Bind
  <2>2. Forget({j}) /\ (UNCHANGED bound \/ bound' = [bound EXCEPT ![j] = row[j]])
    BY <1>3, <2>1, <1>a DEF Bind
  <2>3. \A k \in Jobs : row'[k] = IF k = j THEN 0 ELSE row[k]
    BY <2>2 DEF Forget
  <2>4. pc' = [pc EXCEPT ![j] = pc'[j]] /\ pc'[j] \in {"bound", "failed"}
    BY <1>3, <1>a DEF Bind, Goto
  <2>5. \A k \in Jobs : Done(k)'
    BY <1>a, <1>b, <2>2, <2>4
  <2>6. Lone'
    BY <1>a, <1>b, <2>1, <2>2, <2>3
  <2>7. QED
    BY <2>5, <2>6
<1>4. ASSUME NEW j \in Jobs, Commit(j)
      PROVE  Lone' /\ \A k \in Jobs : Done(k)'
  <2>1. pc[j] \in {"insert", "persist"} /\ (pc[j] = "insert" \/ row[j] > 0)
    BY <1>4, CommitRows DEF Commit
  <2>2. UNCHANGED bound /\ row' = [row EXCEPT ![j] = IF pc[j] = "insert" THEN Len(After(j)) ELSE @]
    BY <1>4 DEF Commit
  <2>3. pc[j] = "insert" => Len(After(j)) = Len(rows) + 1
    BY AfterRows
  <2>4. \A k \in Jobs : row'[k] = row[k] \/ (k = j /\ row'[k] = Len(rows) + 1)
    BY <2>2, <2>3, <1>a
  <2>5. \A k \in Jobs : k # j => row'[k] = row[k]
    BY <2>2, <1>a
  <2>6. Lone'
    BY <2>2, <2>4, <2>5, <1>a, <1>b
  <2>7. \A k \in Jobs : Done(k)'
    <3>1. bound[j] = 0
      BY <2>1, <1>a, <1>b
    <3>2. \A k \in Jobs \ {j} : pc'[k] = pc[k]
      BY <1>4, <1>a DEF Commit, Goto
    <3>3. QED
      BY <3>1, <3>2, <2>2, <1>b
  <2>8. QED
    BY <2>6, <2>7
<1>5. CASE Crash
  <2>1. UNCHANGED bound /\ \A k \in Jobs : row'[k] = 0
    BY <1>5 DEF Crash, Forget
  <2>2. \A k \in Jobs : pc[k] \in {"bound", "failed"} => pc'[k] = pc[k]
    BY <1>5 DEF Crash, Ended
  <2>3. QED
    BY <1>b, <2>1, <2>2
<1>6. CASE RebuildMap \/ StrayEnds \/ UNCHANGED vars
  <2>1. UNCHANGED <<pc, row, bound>>
    BY <1>6 DEF RebuildMap, StrayEnds, vars, worker
  <2>2. QED
    BY <2>1, <1>b
<1>7. CASE Next
  BY Zenon, <1>7, <1>1, <1>2, <1>3, <1>4, <1>5, <1>6 DEF Next, Work
<1>8. QED
  BY <1>6, <1>7

-----------------------------------------------------------------------------
\* What is read was reviewed.

\* Actions that leave the rows and the bindings alone.
LEMMA RowsStay ==
    ASSUME NEW j \in Jobs, Quiet(j)
    PROVE  UNCHANGED rows /\ verified \subseteq verified' /\ (UNCHANGED bound \/ Bind(j))
  BY DEF Quiet, Start, Cancel, StopCanceled, EnsureReady, Staged, Bind, ReadingStops, WriteTask, ClearOutbox, Collect,
         EndParse, BeginRound, AskEmployee, Verify, ViewSnapshot, Conclude, Judge, Reparse, GiveUp, Agent, AgentStarts, AgentEnds,
         store, history

\* A commit leaves the bound rows, and the conversions of all rows, as they were.
LEMMA CommitKeeps ==
    ASSUME TypeOK, HasRow, Apart, WriterWrites, NEW j \in Jobs, Commit(j)
    PROVE  /\ \A i \in DOMAIN rows : i \in DOMAIN rows' /\ rows'[i].conv = rows[i].conv
           /\ \A i \in DOMAIN rows \ {row[j]} : rows'[i] = rows[i]
           /\ \A i \in DOMAIN rows' \ DOMAIN rows : rows'[i].quality = Unread
           /\ pc[j] = "persist" => /\ row[j] \in DOMAIN rows /\ bound[j] = 0
                                   /\ rows'[row[j]].quality = [by |-> j, status |-> verdict[j]]
           /\ pc[j] = "insert" => rows'[Len(rows')].conv = got[j].id
<1>1. pc[j] \in {"insert", "persist"} /\ (pc[j] = "insert" \/ row[j] > 0)
  BY CommitRows DEF Commit
<1>2. rows' = After(j)
  BY DEF Commit
<1>3. /\ rows \in Seq(Row) /\ row[j] \in 0 .. Len(rows) /\ bound[j] \in 0 .. Len(rows)
      /\ After(j) \in Seq(Row)
  BY <1>1, AfterRows DEF TypeOK, Row
<1>4. CASE pc[j] = "insert"
  <2>1. /\ Len(After(j)) = Len(rows) + 1 /\ \A i \in DOMAIN rows : After(j)[i] = rows[i]
        /\ After(j)[Len(rows) + 1] = [conv |-> got[j].id, parsed |-> got[j].parsed, quality |-> Unread]
    BY <1>4, AfterRows
  <2>2. DOMAIN After(j) = DOMAIN rows \cup {Len(rows) + 1}
    BY <2>1, <1>3
  <2>3. QED
    BY <1>2, <1>4, <2>1, <2>2
<1>5. CASE pc[j] # "insert"
  <2>1. /\ Len(After(j)) = Len(rows) /\ \A i \in DOMAIN rows \ {row[j]} : After(j)[i] = rows[i]
        /\ After(j)[row[j]] = [rows[row[j]] EXCEPT !.quality = [by |-> j, status |-> verdict[j]]]
    BY <1>1, <1>5, AfterRows
  <2>2. row[j] \in DOMAIN rows /\ DOMAIN After(j) = DOMAIN rows
    BY <1>1, <1>3, <1>5, <2>1
  <2>3. rows[row[j]] \in Row
    BY <1>3, <2>2
  <2>4. After(j)[row[j]].conv = rows[row[j]].conv /\ After(j)[row[j]].quality = [by |-> j, status |-> verdict[j]]
    BY <2>1, <2>3 DEF Row
  <2>5. bound[j] = 0
    BY <1>1, <1>3, <1>5 DEF Apart
  <2>6. QED
    BY <1>2, <1>5, <2>1, <2>2, <2>4, <2>5
<1>6. QED
  BY <1>4, <1>5

\* What the job that acts has checked is the conversion at hand.
LEMMA ActorChecks ==
    ASSUME TypeOK, ChecksAtHand, NEW j \in Jobs, Quiet(j)
    PROVE  /\ pc'[j] \in {"ask", "answer"} /\ checked'[j] => row'[j] = row[j] /\ (Examined(j) \/ <<j, rows[row[j]].conv>> \in verified')
           /\ pc'[j] = "persist" /\ verdict'[j] = "pass" => row'[j] = row[j] /\ Examined(j)
<1>a. /\ pc \in [Jobs -> Steps] /\ verdict \in [Jobs -> Verdicts] /\ checked \in [Jobs -> BOOLEAN]
  BY DEF TypeOK
<1>b. /\ pc[j] \in {"ask", "answer"} /\ checked[j] => Examined(j)
      /\ pc[j] = "persist" /\ verdict[j] = "pass" => Examined(j)
  BY DEF ChecksAtHand
<1> DEFINE Goal == /\ pc'[j] \in {"ask", "answer"} /\ checked'[j] => row'[j] = row[j] /\ (Examined(j) \/ <<j, rows[row[j]].conv>> \in verified')
                   /\ pc'[j] = "persist" /\ verdict'[j] = "pass" => row'[j] = row[j] /\ Examined(j)
<1>1. CASE Cancel(j) \/ Agent(j)
  <2>1. UNCHANGED <<pc, checked, verdict, row>>
    BY <1>1 DEF Cancel, Agent, AgentStarts, AgentEnds, worker, review
  <2>2. QED
    BY <2>1, <1>b
<1>2. CASE Start(j) \/ StopCanceled(j) \/ EnsureReady(j) \/ Staged(j) \/ Bind(j) \/ ReadingStops(j) \/ WriteTask(j) \/ ClearOutbox(j)
           \/ Collect(j) \/ Judge(j) \/ Reparse(j) \/ GiveUp(j)
  <2>1. pc'[j] \notin {"ask", "answer", "persist"}
    BY <1>2, <1>a DEF Start, StopCanceled, EnsureReady, Staged, Bind, ReadingStops, WriteTask, ClearOutbox, Collect, Judge, Reparse,
       GiveUp, Goto
  <2>2. QED
    BY <2>1
<1>3. CASE EndParse(j)
  <2>1. pc'[j] \notin {"ask", "answer"} /\ (pc'[j] = "persist" => verdict'[j] = "needs_human")
    BY <1>3, <1>a DEF EndParse, Goto
  <2>2. QED
    BY <2>1
<1>4. CASE BeginRound(j)
  <2>1. ~checked'[j] /\ (pc'[j] = "persist" => verdict'[j] = "needs_human")
    BY <1>4, <1>a DEF BeginRound, Goto
  <2>2. QED
    BY <2>1
<1>5. CASE AskEmployee(j)
  <2>1. UNCHANGED <<checked, row>> /\ pc[j] = "ask" /\ (pc'[j] = "persist" => verdict'[j] = "needs_human")
    BY <1>5, <1>a DEF AskEmployee, Goto
  <2>2. QED
    BY <2>1, <1>b
<1>6. CASE Verify(j) \/ ViewSnapshot(j)
  <2>1. UNCHANGED row /\ pc[j] = "answer" /\ pc'[j] = "ask"
    BY <1>6, <1>a DEF Verify, ViewSnapshot, Goto, worker
  <2>2. <<j, rows[row[j]].conv>> \in verified' \/ UNCHANGED checked
    BY <1>6 DEF Verify, ViewSnapshot, worker, review
  <2>3. QED
    BY <2>1, <2>2, <1>b
<1>7. CASE Conclude(j)
  <2>1. UNCHANGED <<checked, row>> /\ pc[j] = "answer" /\ pc'[j] = "persist"
    BY <1>7, <1>a DEF Conclude, Goto
  <2>2. verdict'[j] = "pass" => checked[j]
    BY <1>7, <1>a DEF Conclude
  <2>3. QED
    BY <2>1, <2>2, <1>b
<1>8. QED
  BY Zenon, <1>1, <1>2, <1>3, <1>4, <1>5, <1>6, <1>7 DEF Quiet

LEMMA ReadStep ==
    ASSUME TypeOK, HasRow, Apart, WriterWrites, ReviewedIsRead, ChecksAtHand, [Next]_vars
    PROVE  ReviewedIsRead' /\ ChecksAtHand'
<1> DEFINE Bound(k) == bound[k] # 0 => Binds(k, bound[k])
           Passed(i) == rows[i].quality.status = "pass" => <<rows[i].quality.by, rows[i].conv>> \in verified
           Checks(k) == /\ pc[k] \in {"ask", "answer"} /\ checked[k] => Examined(k)
                        /\ pc[k] = "persist" /\ verdict[k] = "pass" => Examined(k)
<1>a. /\ \A k \in Jobs : Bound(k) /\ Checks(k)
      /\ \A i \in DOMAIN rows : Passed(i)
  BY DEF ReviewedIsRead, ChecksAtHand
<1>b. /\ pc \in [Jobs -> Steps] /\ row \in [Jobs -> 0 .. Len(rows)] /\ bound \in [Jobs -> 0 .. Len(rows)] /\ rows \in Seq(Row)
  BY DEF TypeOK, Row
<1> DEFINE Goal == (\A k \in Jobs : Bound(k)') /\ (\A k \in Jobs : Checks(k)') /\ (\A i \in DOMAIN rows' : Passed(i)')
<1> SUFFICES Goal
  BY DEF ReviewedIsRead, ChecksAtHand
<1>1. ASSUME NEW j \in Jobs, Quiet(j) PROVE Goal
  <2>1. UNCHANGED rows /\ verified \subseteq verified' /\ (UNCHANGED bound \/ Bind(j))
    BY <1>1, RowsStay
  <2>2. \A k \in Jobs : Bound(k)'
    <3>1. CASE UNCHANGED bound
      BY <2>1, <3>1, <1>a DEF Binds
    <3>2. CASE Bind(j)
      <4>1. UNCHANGED bound \/ (Binds(j, row[j]) /\ \E x \in {row[j], bound[j]} : bound' = [bound EXCEPT ![j] = x])
        BY <3>2 DEF Bind
      <4>2. \A k \in Jobs : bound'[k] = bound[k] \/ (k = j /\ bound'[k] = row[j] /\ Binds(j, row[j]))
        BY <4>1, <1>b
      <4>3. QED
        BY <2>1, <4>2, <1>a DEF Binds
    <3>3. QED
      BY <2>1, <3>1, <3>2
  <2>3. \A i \in DOMAIN rows' : Passed(i)'
    BY <2>1, <1>a
  <2>4. ASSUME NEW k \in Jobs PROVE Checks(k)'
    <3>1. CASE k = j
      BY <1>1, <2>1, <3>1, ActorChecks DEF Examined
    <3>2. CASE k # j
      <4>1. pc'[k] = pc[k] /\ row'[k] = row[k] /\ verdict'[k] = verdict[k] /\ checked'[k] = checked[k]
        BY <1>1, <3>2, QuietMoves
      <4>2. Checks(k)
        BY <1>a
      <4>3. QED
        BY <2>1, <4>1, <4>2 DEF Examined
    <3>3. QED
      BY <3>1, <3>2
  <2>5. QED
    BY <2>2, <2>3, <2>4
<1>2. CASE RebuildMap \/ StrayEnds \/ UNCHANGED vars \/ \E j \in Jobs : ReplaceMap(j)
  <2>1. UNCHANGED <<pc, row, checked, verdict, rows, bound, verified>>
    BY <1>2 DEF RebuildMap, StrayEnds, ReplaceMap, vars, worker, review, store, history
  <2>2. QED
    BY <2>1, <1>a DEF Binds, Examined
<1>3. ASSUME NEW j \in Jobs, Commit(j) PROVE Goal
  <2>1. /\ \A i \in DOMAIN rows : i \in DOMAIN rows' /\ rows'[i].conv = rows[i].conv
        /\ \A i \in DOMAIN rows \ {row[j]} : rows'[i] = rows[i]
        /\ \A i \in DOMAIN rows' \ DOMAIN rows : rows'[i].quality = Unread
        /\ pc[j] = "persist" => /\ row[j] \in DOMAIN rows /\ bound[j] = 0
                                /\ rows'[row[j]].quality = [by |-> j, status |-> verdict[j]]
    BY <1>3, CommitKeeps
  <2>2. pc[j] \in {"insert", "persist"} /\ UNCHANGED <<bound, verified, checked, verdict>>
    BY <1>3, CommitRows DEF Commit, review, history
  <2>3. \A k \in Jobs \ {j} : pc'[k] = pc[k] /\ row'[k] = row[k]
    BY <1>3, <1>b DEF Commit, Goto
  <2>4. pc'[j] \in {"parsed", "judged"}
    BY <1>3, <1>b DEF Commit, Goto
  <2>5. ASSUME NEW k \in Jobs, bound[k] # 0 PROVE bound[k] \in DOMAIN rows /\ rows'[bound[k]] = rows[bound[k]]
    <3>1. bound[k] \in DOMAIN rows
      BY <1>b, <2>5
    <3>2. row[j] # bound[k]
      <4>1. CASE pc[j] = "persist"
        <5>1. row[j] > 0 /\ k # j
          BY <2>1, <2>5, <4>1, <1>b
        <5>2. QED
          BY <5>1 DEF Apart
      <4>2. CASE pc[j] = "insert"
        <5>1. bound[j] = 0
          BY <4>2, <1>b DEF Apart
        <5>2. k # j
          BY <5>1, <2>5
        <5>3. CASE row[j] > 0
          BY <5>2, <5>3 DEF Apart
        <5>4. CASE row[j] = 0
          BY <5>4, <2>5
        <5>5. QED
          BY <5>3, <5>4, <1>b
      <4>3. QED
        BY <2>2, <4>1, <4>2
    <3>3. QED
      BY <3>1, <3>2, <2>1
  <2>6. \A k \in Jobs : Bound(k)'
    BY <2>2, <2>5, <1>a DEF Binds
  <2>7. ASSUME NEW k \in Jobs PROVE Checks(k)'
    <3>1. CASE k = j
      BY <3>1, <2>4
    <3>2. CASE k # j
      <4>1. pc'[k] = pc[k] /\ row'[k] = row[k] /\ verdict'[k] = verdict[k] /\ checked'[k] = checked[k]
        BY <2>2, <2>3, <3>2
      <4>2. Checks(k) /\ (pc[k] \in {"ask", "answer", "persist"} => row[k] \in DOMAIN rows)
        BY <1>a, <1>b DEF HasRow
      <4>3. QED
        BY <2>1, <2>2, <4>1, <4>2 DEF Examined
    <3>3. QED
      BY <3>1, <3>2
  <2>8. ASSUME NEW i \in DOMAIN rows' PROVE Passed(i)'
    <3>1. CASE i \notin DOMAIN rows
      BY <2>1, <3>1 DEF Unread
    <3>2. CASE i \in DOMAIN rows \ {row[j]}
      BY <2>1, <2>2, <3>2, <1>a
    <3>3. CASE i \in DOMAIN rows /\ i = row[j] /\ pc[j] = "persist"
      <4>1. rows'[i].quality = [by |-> j, status |-> verdict[j]] /\ rows'[i].conv = rows[i].conv
        BY <2>1, <3>3
      <4>2. verdict[j] = "pass" => <<j, rows[i].conv>> \in verified
        BY <1>a, <3>3 DEF Examined
      <4>3. QED
        BY <4>1, <4>2, <2>2
    <3>4. CASE i \in DOMAIN rows /\ i = row[j] /\ pc[j] = "insert"
      <4>1. rows'[i] = rows[i]
        <5>1. /\ \A m \in DOMAIN rows : After(j)[m] = rows[m]
          BY <3>4, AfterRows
        <5>2. QED
          BY <5>1, <3>4, <1>3 DEF Commit
      <4>2. QED
        BY <4>1, <2>2, <3>4, <1>a
    <3>5. QED
      BY <2>2, <3>1, <3>2, <3>3, <3>4
  <2>9. QED
    BY <2>6, <2>7, <2>8
<1>4. CASE Crash
  <2>1. UNCHANGED <<rows, bound, verified>> /\ \A k \in Jobs : pc'[k] \in Ended \cup {"new"}
    BY <1>4, <1>b DEF Crash, Ended
  <2>2. \A k \in Jobs : Checks(k)'
    BY <2>1 DEF Ended
  <2>3. QED
    BY <2>1, <2>2, <1>a DEF Binds
<1>5. CASE Next
  BY Zenon, <1>5, <1>1, <1>2, <1>3, <1>4 DEF Next, Work, Quiet
<1>6. QED
  BY <1>2, <1>5

-----------------------------------------------------------------------------
\* What is staged is fresh.

LEMMA FreshStep ==
    ASSUME TypeOK, OutboxIsNew, [Next]_vars
    PROVE  OutboxIsNew' /\ \A j \in Jobs : pc[j] = "invoke" /\ pc'[j] = "insert" => got'[j].id > got[j].id
<1>a. /\ pc \in [Jobs -> Steps] /\ made \in Nat
      /\ got \in [Jobs -> [id : 0 .. made, parsed : BOOLEAN]]
  BY DEF TypeOK
<1> DEFINE New(k)    == pc[k] = "invoke" => outbox = Nothing \/ outbox.id > got[k].id
           Taken(k)  == pc[k] = "invoke" /\ pc'[k] = "insert" => got'[k].id > got[k].id
           Waits(k)  == pc'[k] = "invoke" => pc[k] = "invoke" /\ got'[k] = got[k]
           Goal      == \A k \in Jobs : New(k)' /\ Taken(k)
<1>b. \A k \in Jobs : New(k)
  BY DEF OutboxIsNew
<1> SUFFICES Goal
  BY DEF OutboxIsNew
<1>1. ASSUME NEW j \in Jobs, ClearOutbox(j) PROVE Goal
  <2>1. outbox' = Nothing /\ pc' = [pc EXCEPT ![j] = "invoke"]
    BY <1>1 DEF ClearOutbox, Goto
  <2>2. QED
    BY <2>1, <1>a
<1>2. ASSUME NEW j \in Jobs, Collect(j) PROVE Goal
  <2>1. pc[j] = "invoke" /\ UNCHANGED outbox /\ \E w \in {"unparsed", "insert"} : pc' = [pc EXCEPT ![j] = w]
    BY <1>2 DEF Collect, Goto
  <2>2. got' = got \/ got' = [got EXCEPT ![j] = outbox]
    BY <1>2 DEF Collect
  <2>3. pc'[j] = "insert" => outbox # Nothing /\ got'[j] = outbox
    BY <1>2, <1>a DEF Collect, Goto
  <2>4. \A k \in Jobs \ {j} : pc'[k] = pc[k] /\ got'[k] = got[k]
    BY <2>1, <2>2, <1>a
  <2>5. New(j)' /\ Taken(j)
    BY <2>1, <2>3, <1>a, <1>b
  <2>6. QED
    BY <2>1, <2>4, <2>5, <1>b
<1>3. ASSUME NEW j \in Jobs,
             \/ Start(j) \/ Cancel(j) \/ Staged(j) \/ ReadingStops(j) \/ WriteTask(j) \/ ViewSnapshot(j) \/ GiveUp(j)
             \/ EndParse(j) \/ BeginRound(j) \/ AskEmployee(j) \/ Verify(j) \/ Conclude(j) \/ Reparse(j) \/ ReplaceMap(j)
      PROVE  Goal
  <2>1. UNCHANGED <<outbox, got>>
    BY <1>3 DEF Start, Cancel, Staged, ReadingStops, WriteTask, ViewSnapshot, GiveUp, EndParse, BeginRound, AskEmployee, Verify,
       Conclude, Reparse, ReplaceMap, worker, handoff
  <2>2. UNCHANGED pc \/ (pc' = [pc EXCEPT ![j] = pc'[j]] /\ pc'[j] \notin {"invoke", "insert"})
    BY <1>3, <1>a DEF Start, Cancel, Staged, ReadingStops, WriteTask, ViewSnapshot, GiveUp, EndParse, BeginRound, AskEmployee, Verify,
       Conclude, Reparse, ReplaceMap, Goto
  <2>3. \A k \in Jobs : pc'[k] \in {"invoke", "insert"} => pc'[k] = pc[k]
    BY <2>2, <1>a
  <2>4. QED
    BY <2>1, <2>3, <1>b
<1>4. ASSUME NEW j \in Jobs, StopCanceled(j) \/ EnsureReady(j) \/ Bind(j) \/ Judge(j) \/ Commit(j)
      PROVE  Goal
  <2>1. UNCHANGED outbox /\ pc' = [pc EXCEPT ![j] = pc'[j]] /\ pc'[j] \notin {"invoke", "insert"}
    BY <1>4, <1>a DEF StopCanceled, EnsureReady, Bind, Judge, Commit, Goto, handoff
  <2>2. \A k \in Jobs \ {j} : got'[k] = got[k] /\ pc'[k] = pc[k]
    <3>1. \A k \in Jobs \ {j} : pc'[k] = pc[k]
      BY <2>1, <1>a
    <3>2. \A k \in Jobs \ {j} : got'[k] = got[k]
      BY <1>4, <1>a DEF StopCanceled, EnsureReady, Bind, Judge, Commit, Forget, worker
    <3>3. QED
      BY <3>1, <3>2
  <2>3. QED
    BY <2>1, <2>2, <1>b
<1>5. CASE StrayEnds \/ \E j \in Jobs : Agent(j)
  <2>1. UNCHANGED <<pc, got>>
    BY <1>5 DEF StrayEnds, Agent, AgentStarts, AgentEnds, worker
  <2>2. UNCHANGED outbox \/ outbox'.id = made + 1
    BY <1>5 DEF StrayEnds, Agent, AgentStarts, AgentEnds, Convert
  <2>3. \A k \in Jobs : got[k].id <= made /\ got[k].id \in Nat
    BY <1>a
  <2>4. QED
    BY <2>1, <2>2, <2>3, <1>a, <1>b
<1>6. CASE Crash
  <2>1. \A k \in Jobs : pc'[k] \notin {"invoke", "insert"}
    BY <1>6, <1>a DEF Crash, Ended
  <2>2. QED
    BY <2>1
<1>7. CASE RebuildMap \/ UNCHANGED vars
  <2>1. UNCHANGED <<pc, got, outbox>>
    BY <1>7 DEF RebuildMap, vars, worker, handoff
  <2>2. QED
    BY <2>1, <1>b
<1>8. CASE Next
  BY Zenon, <1>8, <1>1, <1>2, <1>3, <1>4, <1>5, <1>6, <1>7 DEF Next, Work
<1>9. QED
  BY <1>7, <1>8

-----------------------------------------------------------------------------
\* The map follows the rows.

\* A judgement, and a row that has no conversion, change nothing about the latest one.
LEMMA SameMap ==
    ASSUME TypeOK, NEW j \in Jobs,
           (pc[j] = "insert" /\ ~got[j].parsed) \/ (pc[j] # "insert" /\ row[j] > 0)
    PROVE  Latest(After(j)) = Latest(rows)
<1>1. rows \in Seq(Row) /\ row[j] \in 0 .. Len(rows) /\ After(j) \in Seq(Row)
  <2>1. pc[j] = "insert" \/ row[j] > 0
    OBVIOUS
  <2>2. After(j) \in Seq(Row)
    BY <2>1, AfterRows
  <2>3. QED
    BY <2>2 DEF TypeOK, Row
<1>2. CASE pc[j] = "insert"
  <2>1. /\ Len(After(j)) = Len(rows) + 1 /\ \A i \in DOMAIN rows : After(j)[i] = rows[i]
        /\ After(j)[Len(rows) + 1] = [conv |-> got[j].id, parsed |-> got[j].parsed, quality |-> Unread]
    BY <1>2, AfterRows
  <2>2. DOMAIN After(j) = DOMAIN rows \cup {Len(rows) + 1}
    BY <2>1, <1>1
  <2>3. ~After(j)[Len(rows) + 1].parsed
    BY <1>2, <2>1
  <2>4. ParsedRows(After(j)) = ParsedRows(rows) /\ \A i \in ParsedRows(rows) : rows[i].conv = After(j)[i].conv
    BY <2>1, <2>2, <2>3 DEF ParsedRows
  <2>5. QED
    BY <1>1, <2>4, LatestSame
<1>3. CASE pc[j] # "insert"
  <2>1. /\ Len(After(j)) = Len(rows) /\ \A i \in DOMAIN rows \ {row[j]} : After(j)[i] = rows[i]
        /\ After(j)[row[j]] = [rows[row[j]] EXCEPT !.quality = [by |-> j, status |-> verdict[j]]]
    BY <1>3, AfterRows
  <2>2. row[j] \in DOMAIN rows /\ DOMAIN After(j) = DOMAIN rows
    BY <1>1, <1>3, <2>1
  <2>3. rows[row[j]] \in Row
    BY <1>1, <2>2
  <2>4. \A i \in DOMAIN rows : After(j)[i].parsed = rows[i].parsed /\ After(j)[i].conv = rows[i].conv
    BY <2>1, <2>3 DEF Row
  <2>5. ParsedRows(After(j)) = ParsedRows(rows) /\ \A i \in ParsedRows(rows) : rows[i].conv = After(j)[i].conv
    BY <2>2, <2>4 DEF ParsedRows
  <2>6. QED
    BY <1>1, <2>5, LatestSame
<1>4. QED
  BY <1>2, <1>3

LEMMA MapStep ==
    ASSUME TypeOK, HasRow, WriterWrites, MapIsAhead, [Next]_vars
    PROVE  MapIsAhead'
<1>a. writer \in Jobs \cup {NoJob} /\ NoJob \notin Jobs
  BY DocumentParseAssumption DEF TypeOK
<1>b. writer # NoJob => pc[writer] \in {"insert", "persist"} /\ (pc[writer] = "insert" \/ row[writer] > 0)
  BY <1>a, CommitRows
<1>1. ASSUME UNCHANGED <<map, lost, writer, rows>>,
             writer # NoJob => UNCHANGED <<pc[writer], got[writer], row[writer], verdict[writer]>>
      PROVE  MapIsAhead'
  <2>1. writer # NoJob => After(writer)' = After(writer)
    BY <1>1 DEF After, Inserted, Judged
  <2>2. QED
    BY <1>1, <2>1 DEF MapIsAhead
<1>2. ASSUME NEW j \in Jobs, Quiet(j) PROVE MapIsAhead'
  <2>1. UNCHANGED <<map, lost, writer, rows>>
    BY <1>2 DEF Quiet, Start, Cancel, StopCanceled, EnsureReady, Staged, Bind, ReadingStops, WriteTask, ClearOutbox, Collect,
           EndParse, BeginRound, AskEmployee, Verify, ViewSnapshot, Conclude, Judge, Reparse, GiveUp, Agent, AgentStarts, AgentEnds,
           store, history
  <2>2. writer # NoJob => UNCHANGED <<pc[writer], got[writer], row[writer], verdict[writer]>>
    BY <1>2, <1>a, <1>b, <2>1, QuietMoves
  <2>3. QED
    BY <1>1, <2>1, <2>2
<1>3. ASSUME NEW j \in Jobs, ReplaceMap(j) PROVE MapIsAhead'
  <2>1. /\ writer = NoJob /\ writer' = j /\ pc[j] \in {"insert", "persist"}
        /\ UNCHANGED <<pc, got, row, verdict, rows, lost>>
    BY <1>3 DEF ReplaceMap, worker, review, history
  <2>2. After(j)' = After(j)
    BY <2>1 DEF After, Inserted, Judged
  <2>3. map' \in {map, Latest(After(j))}
    BY <1>3 DEF ReplaceMap
  <2>4. map' = map /\ map # Latest(After(j)) => Latest(After(j)) = Latest(rows)
    <3>1. CASE pc[j] = "insert" /\ got[j].parsed
      BY <1>3, <3>1 DEF ReplaceMap
    <3>2. CASE pc[j] = "insert" /\ ~got[j].parsed
      <4>1. (pc[j] = "insert" /\ ~got[j].parsed) \/ (pc[j] # "insert" /\ row[j] > 0)
        BY <3>2
      <4>2. QED
        BY <4>1, SameMap
    <3>3. CASE pc[j] = "persist"
      <4>1. row[j] > 0
        BY <3>3 DEF HasRow
      <4>2. QED
        BY <3>3, <4>1, SameMap
    <3>4. QED
      BY <2>1, <3>1, <3>2, <3>3
  <2>5. map \in {lost, Latest(rows)}
    BY <2>1 DEF MapIsAhead
  <2>6. j # NoJob
    BY <1>a
  <2>7. map' \in {lost, Latest(After(j))}
    BY <2>3, <2>4, <2>5
  <2>8. QED
    BY <2>1, <2>2, <2>6, <2>7 DEF MapIsAhead
<1>4. ASSUME NEW j \in Jobs, Commit(j) PROVE MapIsAhead'
  <2>1. writer = j /\ writer' = NoJob /\ rows' = After(j) /\ UNCHANGED <<map, lost>> /\ j # NoJob
    BY <1>4, <1>a DEF Commit, history
  <2>2. QED
    BY <2>1 DEF MapIsAhead
<1>5. CASE RebuildMap
  <2>1. writer = NoJob /\ map' = Latest(rows) /\ UNCHANGED <<writer, rows>>
    BY <1>5 DEF RebuildMap
  <2>2. QED
    BY <2>1 DEF MapIsAhead
<1>6. CASE Crash
  <2>1. /\ writer' = NoJob /\ UNCHANGED <<rows, map>>
        /\ lost' = IF writer # NoJob /\ pc[writer] = "insert" THEN map ELSE lost
    BY <1>6 DEF Crash
  <2>2. CASE writer # NoJob /\ pc[writer] = "insert"
    BY <2>1, <2>2 DEF MapIsAhead
  <2>3. CASE writer # NoJob /\ pc[writer] # "insert"
    <3>1. Latest(After(writer)) = Latest(rows)
      BY <2>3, <1>a, <1>b, SameMap
    <3>2. QED
      BY <2>1, <2>3, <3>1 DEF MapIsAhead
  <2>4. CASE writer = NoJob
    BY <2>1, <2>4 DEF MapIsAhead
  <2>5. QED
    BY <2>2, <2>3, <2>4
<1>7. CASE StrayEnds \/ UNCHANGED vars
  <2>1. UNCHANGED <<map, lost, writer, rows, pc, got, row, verdict>>
    BY <1>7 DEF StrayEnds, vars, worker, review, store, history
  <2>2. QED
    BY <1>1, <2>1
<1>8. CASE Next
  BY Zenon, <1>8, <1>2, <1>3, <1>4, <1>5, <1>6, <1>7 DEF Next, Work, Quiet
<1>9. QED
  BY <1>7, <1>8

-----------------------------------------------------------------------------
\* The invariant holds before any job starts.
LEMMA InvInit ==
    ASSUME Init
    PROVE  Inv
<1>1. TypeOK
  <2>1. rows = <<>> /\ Len(rows) = 0
    BY DEF Init
  <2>2. ControlTypes /\ ReviewTypes /\ HistoryTypes
    BY DEF Init, ControlTypes, ReviewTypes, HistoryTypes, Steps, Ended, Verdicts
  <2>5. HandoffTypes
    <3>1. outbox = [id |-> 0, parsed |-> FALSE] /\ made = 0
      BY DEF Init, Nothing
    <3>2. outbox \in [id : 0 .. made, parsed : BOOLEAN]
      BY <3>1
    <3>3. task = FALSE /\ stray = 0 /\ agent = [j \in Jobs |-> "none"]
      BY DEF Init
    <3>4. QED
      BY <3>1, <3>2, <3>3 DEF HandoffTypes
  <2>6. StoreTypes
    BY DEF Init, StoreTypes
  <2>3. RowTypes
    BY <2>1 DEF Init, RowTypes
  <2>4. GotTypes
    BY DEF Init, GotTypes, Nothing
  <2>7. QED
    BY <2>2, <2>3, <2>4, <2>5, <2>6, TypesByPart
<1>2. HasRow /\ Apart /\ WriterWrites /\ OutboxIsNew
  BY DEF Init, HasRow, Apart, WriterWrites, OutboxIsNew
<1>3. DOMAIN rows = {} /\ rows = <<>>
  BY DEF Init
<1>4. ReviewedIsRead /\ ChecksAtHand
  BY <1>3 DEF Init, ReviewedIsRead, ChecksAtHand
<1>5. Latest(rows) = 0
  BY <1>3 DEF Latest
<1>6. MapIsAhead
  BY <1>5 DEF Init, MapIsAhead
<1>7. QED
  BY <1>1, <1>2, <1>4, <1>6 DEF Inv

\* Every step keeps the invariant.
LEMMA InvStep ==
    ASSUME Inv, [Next]_vars
    PROVE  Inv'
<1>1. TypeOK /\ HasRow /\ Apart /\ WriterWrites /\ ReviewedIsRead /\ ChecksAtHand /\ OutboxIsNew /\ MapIsAhead
  BY DEF Inv
<1>2. TypeOK'
  BY <1>1, TypesStep
<1>3. HasRow' /\ Apart' /\ WriterWrites'
  BY <1>1, HasRowStep, ApartStep, WriterStep
<1>4. ReviewedIsRead' /\ ChecksAtHand'
  BY <1>1, ReadStep
<1>5. OutboxIsNew' /\ MapIsAhead'
  BY <1>1, FreshStep, MapStep
<1>6. QED
  BY <1>2, <1>3, <1>4, <1>5 DEF Inv

(***************************************************************************)
(* The inductive invariant holds in every state.                           *)
(***************************************************************************)
THEOREM ParseInvariant == Spec => []Inv
<1>1. Init => Inv
  BY InvInit
<1>2. Inv /\ [Next]_vars => Inv'
  BY InvStep
<1>3. QED
  BY <1>1, <1>2, PTL DEF Spec

(***************************************************************************)
(* Every variable keeps its type.                                          *)
(***************************************************************************)
THEOREM ParseTypes == Spec => []TypeOK
<1>1. Inv => TypeOK
  BY DEF Inv
<1>2. QED
  BY <1>1, ParseInvariant, PTL

(***************************************************************************)
(* However many jobs share a file, and however often the process stops, a  *)
(* job reads only a conversion that its own review passed, after a script  *)
(* of that review had read that conversion (gate.py, dossier.py).          *)
(***************************************************************************)
THEOREM ParseReviewed == Spec => []ReviewedIsRead
<1>1. Inv => ReviewedIsRead
  BY DEF Inv
<1>2. QED
  BY <1>1, ParseInvariant, PTL

(***************************************************************************)
(* run_parse takes for the answer to its call only a conversion finished   *)
(* since the call was made, whoever wrote it (openclaw_adapter.py).        *)
(***************************************************************************)
THEOREM ParseFresh == Spec => StagedIsFresh
<1>1. Inv /\ [Next]_vars =>
        [\A j \in Jobs : pc[j] = "invoke" /\ pc'[j] = "insert" => got'[j].id > got[j].id]_vars
  BY FreshStep DEF Inv
<1>2. QED
  BY <1>1, ParseInvariant, PTL DEF Spec, StagedIsFresh

(***************************************************************************)
(* Whenever no transaction is open the map of the file is the latest       *)
(* staged conversion, or the one whose staging a stop has rolled back      *)
(* (staging.py, mapping_store.py).                                         *)
(***************************************************************************)
THEOREM ParseMap == Spec => []MapFollowsRows
<1>1. Inv => MapFollowsRows
  BY DEF Inv, MapIsAhead, MapFollowsRows
<1>2. QED
  BY <1>1, ParseInvariant, PTL
-----------------------------------------------------------------------------
(* The migration of a company. *)

\* What a plan has copied is what it was made from: each planned fact was supported in the copy, and
\* no backfill had put it aside.
Grounded(q) ==
    \A i \in q.copy : \A r \in q.planned :
       "active" \in i.evidence[r] /\ \A b \in Batches : <<b, r>> \notin i.todos[2]

PlansGrounded == \A p \in Plans : Grounded(plan[p])

\* In a copy every job is done or was not there yet; and a job that was worked at since is still
\* there, and was not there in the copy.
Undisturbed(copy, W) ==
    \A i \in copy :
       /\ \A j \in Uploads : i.tasks[1][j] = "none" \/ (i.tasks[1][j] = "done" /\ At(j, "done"))
       /\ \A j \in W : i.tasks[1][j] = "none" /\ ~At(j, "none")

PlansUndisturbed == \A p \in Plans : Undisturbed(plan[p].copy, worked[p])

MigrationInv == MigrationTypeOK /\ PlansGrounded /\ PlansUndisturbed

\* A fact that is written takes a row nothing has.
LEMMA NewRowIsFree ==
    ASSUME Free # {}
    PROVE  NewRow \in Free /\ NewRow \in Rows
<1>1. Free \subseteq Rows /\ Rows \subseteq Nat
  BY MigrationAssumption DEF Free
<1>2. PICK r \in Free : \A q \in Free : r <= q
  BY <1>1, Least
<1>3. QED
  BY <1>1, <1>2 DEF NewRow

\* A comparison that agrees finds the tables as they were copied.
LEMMA InputsAreCopied ==
    ASSUME MigrationTypeOK
    PROVE  /\ Inputs \in Copies
           /\ Inputs.evidence = support /\ Inputs.todos[2] = quarantine /\ Inputs.tasks[1] = job
BY DEF MigrationTypeOK, Inputs, Copies

\* What goes on in the company while a plan waits.
Company ==
    \/ \E j \in Uploads :
          \/ Upload(j) \/ StartJob(j) \/ EndJob(j) \/ LeaseRunsOut(j) \/ RetryJob(j)
          \/ VerifyNote(j) \/ PublishNotes(j) \/ WriteFact(j)
    \/ ProcessDies \/ WriteTree \/ ArchiveTarget \/ WithdrawProof
    \/ \E r \in Rows : ResolveTodo(r) \/ Identify(r) \/ LinkFact(r)
    \/ \E b \in Batches : Backfill(b)

\* It touches no plan.
LEMMA CompanyKeepsTypes ==
    ASSUME MigrationTypeOK, Company
    PROVE  MigrationTypeOK' /\ UNCHANGED plan
<1> USE DEF MigrationTypeOK, work, ledger, source, host
<1>1. ASSUME NEW j \in Uploads, Upload(j) \/ EndJob(j) \/ LeaseRunsOut(j) \/ RetryJob(j)
      PROVE  MigrationTypeOK' /\ UNCHANGED plan
  BY <1>1 DEF Upload, EndJob, LeaseRunsOut, RetryJob, Turn, JobStates
<1>2. ASSUME NEW j \in Uploads, StartJob(j) PROVE MigrationTypeOK' /\ UNCHANGED plan
  <2>1. job' \in [Uploads -> JobStates] /\ lease' \in [Uploads -> BOOLEAN]
    BY <1>2 DEF StartJob, Turn, JobStates
  <2>2. worked' \in [Plans -> SUBSET Uploads]
    BY <1>2 DEF StartJob
  <2>3. QED
    BY <1>2, <2>1, <2>2 DEF StartJob
<1>3. CASE ProcessDies
  BY <1>3 DEF ProcessDies, JobStates
<1>4. ASSUME NEW j \in Uploads, VerifyNote(j) PROVE MigrationTypeOK' /\ UNCHANGED plan
  BY <1>4 DEF VerifyNote
<1>5. CASE WriteTree \/ ArchiveTarget \/ WithdrawProof
  <2>1. CASE WriteTree
    BY <2>1 DEF WriteTree
  <2>2. CASE ArchiveTarget \/ WithdrawProof
    BY <2>2 DEF ArchiveTarget, WithdrawProof
  <2>3. QED
    BY <1>5, <2>1, <2>2
<1>6. ASSUME NEW j \in Uploads, PublishNotes(j) PROVE MigrationTypeOK' /\ UNCHANGED plan
  <2>1. NewRow \in Rows
    BY <1>6, NewRowIsFree DEF PublishNotes
  <2>2. facts' \in Facts /\ identified' \subseteq Rows
    BY <1>6, <2>1 DEF PublishNotes, Facts
  <2>3. support' \in Support
    BY <1>6, <2>1 DEF PublishNotes, Support
  <2>4. QED
    BY <1>6, <2>2, <2>3 DEF PublishNotes
<1>7. ASSUME NEW j \in Uploads, WriteFact(j) PROVE MigrationTypeOK' /\ UNCHANGED plan
  <2>1. NewRow \in Rows
    BY <1>7, NewRowIsFree DEF WriteFact
  <2>2. facts' \in Facts
    BY <1>7, <2>1 DEF WriteFact, Facts
  <2>3. todos' \subseteq Rows
    BY <1>7 DEF WriteFact
  <2>4. QED
    BY <1>7, <2>2, <2>3 DEF WriteFact
<1>8. ASSUME NEW r \in Rows, ResolveTodo(r) PROVE MigrationTypeOK' /\ UNCHANGED plan
  <2>1. facts' \in Facts
    <3>1. CASE UNCHANGED facts
      BY <3>1
    <3>2. CASE Free # {} /\ facts' = [facts EXCEPT ![NewRow] = "open", ![r] = "closed"]
      BY <3>2, NewRowIsFree DEF Facts
    <3>3. QED
      BY <1>8, <3>1, <3>2 DEF ResolveTodo
  <2>2. QED
    BY <1>8, <2>1 DEF ResolveTodo
<1>9. ASSUME NEW r \in Rows, Identify(r) \/ LinkFact(r) PROVE MigrationTypeOK' /\ UNCHANGED plan
  BY <1>9 DEF Identify, LinkFact, Support
<1>10. ASSUME NEW b \in Batches, Backfill(b) PROVE MigrationTypeOK' /\ UNCHANGED plan
  <2>1. support' \in Support
    BY <1>10 DEF Backfill, Support
  <2>2. quarantine' \subseteq Batches \X Rows
    BY <1>10 DEF Backfill
  <2>3. QED
    BY <1>10, <2>1, <2>2 DEF Backfill
<1>11. QED
  BY <1>1, <1>2, <1>3, <1>4, <1>5, <1>6, <1>7, <1>8, <1>9, <1>10 DEF Company

\* A job stays, and one that is done stays done.
JobsGoOn == \A j \in Uploads : /\ At(j, "done") => At(j, "done")'
                               /\ ~At(j, "none") => ~At(j, "none")'

\* Apart from the start of a worker nothing in the company is anybody's being at work.
LEMMA CompanyGoesOn ==
    ASSUME MigrationTypeOK, Company
    PROVE  /\ JobsGoOn
           /\ \/ UNCHANGED worked
              \/ \E j \in Uploads : StartJob(j)
<1> USE DEF MigrationTypeOK, JobsGoOn, At
<1>1. ASSUME NEW j \in Uploads, Upload(j) \/ EndJob(j) \/ RetryJob(j) PROVE JobsGoOn /\ UNCHANGED worked
  BY <1>1 DEF Upload, EndJob, RetryJob, Turn
<1>2. ASSUME NEW j \in Uploads, StartJob(j) PROVE JobsGoOn
  BY <1>2 DEF StartJob, Turn
<1>3. CASE ProcessDies
  BY <1>3 DEF ProcessDies
<1>4. ASSUME UNCHANGED <<job, worked>> PROVE JobsGoOn /\ UNCHANGED worked
  BY <1>4
<1>5. ASSUME NEW j \in Uploads, LeaseRunsOut(j) \/ VerifyNote(j) \/ PublishNotes(j) \/ WriteFact(j)
      PROVE  JobsGoOn /\ UNCHANGED worked
  BY <1>4, <1>5 DEF LeaseRunsOut, VerifyNote, PublishNotes, WriteFact, work
<1>6. CASE \/ WriteTree \/ ArchiveTarget \/ WithdrawProof
           \/ \E r \in Rows : ResolveTodo(r) \/ Identify(r) \/ LinkFact(r)
           \/ \E b \in Batches : Backfill(b)
  BY <1>4, <1>6 DEF WriteTree, ArchiveTarget, WithdrawProof, ResolveTodo, Identify, LinkFact,
     Backfill, work
<1>7. QED
  BY <1>1, <1>2, <1>3, <1>5, <1>6 DEF Company

\* What the company does keeps what was copied undisturbed: a worker starts at a job that is queued,
\* which was not there in a copy.
LEMMA CompanyKeepsCopies ==
    ASSUME MigrationInv, Company
    PROVE  PlansUndisturbed'
<1>1. UNCHANGED plan /\ JobsGoOn
  BY CompanyKeepsTypes, CompanyGoesOn DEF MigrationInv
<1>2. SUFFICES ASSUME NEW p \in Plans, NEW i \in plan[p].copy
               PROVE  /\ \A j \in Uploads : i.tasks[1][j] = "none" \/ (i.tasks[1][j] = "done" /\ At(j, "done")')
                      /\ \A j \in worked'[p] : i.tasks[1][j] = "none" /\ ~At(j, "none")'
  BY <1>1 DEF PlansUndisturbed, Undisturbed, At
<1>3. /\ \A j \in Uploads : i.tasks[1][j] = "none" \/ (i.tasks[1][j] = "done" /\ At(j, "done"))
      /\ \A j \in worked[p] : i.tasks[1][j] = "none" /\ ~At(j, "none")
      /\ worked[p] \subseteq Uploads
  BY DEF MigrationInv, PlansUndisturbed, Undisturbed, MigrationTypeOK
<1>4. \A j \in Uploads : i.tasks[1][j] = "none" \/ (i.tasks[1][j] = "done" /\ At(j, "done")')
  BY <1>1, <1>3 DEF JobsGoOn, At
<1>5. \A j \in worked[p] : i.tasks[1][j] = "none" /\ ~At(j, "none")'
  BY <1>1, <1>3 DEF JobsGoOn, At
<1>6. CASE UNCHANGED worked
  BY <1>4, <1>5, <1>6
<1>7. ASSUME NEW k \in Uploads, StartJob(k)
      PROVE  \A j \in worked'[p] : i.tasks[1][j] = "none" /\ ~At(j, "none")'
  <2>1. worked'[p] \subseteq worked[p] \cup {k}
    BY <1>7 DEF StartJob
  <2>2. At(k, "queued")
    BY <1>7 DEF StartJob
  <2>3. i.tasks[1][k] = "none" /\ ~At(k, "none")
    BY <1>3, <2>2 DEF At
  <2>4. ~At(k, "none")'
    BY <1>1, <2>3 DEF JobsGoOn, At
  <2>5. QED
    BY <1>5, <2>1, <2>3, <2>4
<1>8. (UNCHANGED worked) \/ \E k \in Uploads : StartJob(k)
  BY CompanyGoesOn DEF MigrationInv
<1>9. QED
  BY <1>4, <1>6, <1>7, <1>8

PlanType == [state : {"none", "read", "draft", "awaiting", "approved", "rejected", "expired"},
             copy : SUBSET Copies, planned : SUBSET Rows, proof : BOOLEAN]

\* A step of the coordinator changes one plan, and nothing of the company.
LEMMA PlanChanged ==
    ASSUME MigrationInv, NEW p \in Plans, NEW q \in PlanType, NEW W \in SUBSET Uploads,
           plan' = [plan EXCEPT ![p] = q], worked' = [worked EXCEPT ![p] = W],
           UNCHANGED <<ledger, source, work, host>>,
           Grounded(q), Undisturbed(q.copy, W)
    PROVE  MigrationInv'
<1>1. MigrationTypeOK'
  BY DEF MigrationInv, MigrationTypeOK, PlanType, work, ledger, source, host
<1>2. /\ \A k \in Plans : plan'[k] = IF k = p THEN q ELSE plan[k]
      /\ \A k \in Plans : worked'[k] = IF k = p THEN W ELSE worked[k]
      /\ job' = job
  BY DEF MigrationInv, MigrationTypeOK, work
<1>3. PlansGrounded'
  BY <1>2 DEF MigrationInv, PlansGrounded
<1>4. PlansUndisturbed'
  BY <1>2 DEF MigrationInv, PlansUndisturbed, Undisturbed, At
<1>5. QED
  BY <1>1, <1>3, <1>4 DEF MigrationInv

\* A step that keeps the copy, and plans no more than before.
LEMMA CopyKept ==
    ASSUME MigrationInv, NEW p \in Plans, NEW q \in PlanType,
           q.copy = plan[p].copy, q.planned \subseteq plan[p].planned,
           plan' = [plan EXCEPT ![p] = q], UNCHANGED <<ledger, source, work, host, worked>>
    PROVE  MigrationInv'
<1>1. worked[p] \in SUBSET Uploads /\ worked' = [worked EXCEPT ![p] = worked[p]]
  BY DEF MigrationInv, MigrationTypeOK
<1>2. Grounded(q)
  BY DEF MigrationInv, PlansGrounded, Grounded
<1>3. Undisturbed(q.copy, worked[p])
  BY DEF MigrationInv, PlansUndisturbed
<1>4. QED
  BY <1>1, <1>2, <1>3, PlanChanged

\* A snapshot that is copied finds nobody at work.
LEMMA ReadKeepsInv ==
    ASSUME MigrationInv, NEW p \in Plans, NEW proof \in BOOLEAN, ReadSnapshot(p, proof)
    PROVE  MigrationInv'
<1> DEFINE q == plan[p]
           n == [q EXCEPT !.state = "read", !.copy = Copy(proof), !.planned = Eligible, !.proof = proof]
           W == {j \in Uploads : At(j, "parsing")}
<1>1. q \in PlanType /\ MigrationTypeOK
  BY DEF MigrationInv, MigrationTypeOK, PlanType
<1>2. /\ Inputs \in Copies /\ Inputs.evidence = support /\ Inputs.todos[2] = quarantine
      /\ Inputs.tasks[1] = job
  BY <1>1, InputsAreCopied
<1>3. Copy(proof) \in SUBSET Copies /\ \A i \in Copy(proof) : i = Inputs /\ ~ActiveTasks
  BY <1>2 DEF Copy, Blocked
<1>4. Eligible \in SUBSET Rows
  BY DEF Eligible
<1>5. n \in PlanType /\ n.copy = Copy(proof) /\ n.planned = Eligible
  BY <1>1, <1>3, <1>4 DEF PlanType
<1>6. \A r \in Eligible : "active" \in support[r] /\ \A b \in Batches : <<b, r>> \notin quarantine
  BY DEF Eligible, Quarantined
<1>7. Grounded(n)
  BY ONLY <1>2, <1>3, <1>5, <1>6 DEF Grounded
<1>8. ~ActiveTasks => \A j \in Uploads : At(j, "none") \/ At(j, "done")
  BY <1>1 DEF ActiveTasks, MigrationTypeOK, JobStates, At
<1>9. Undisturbed(Copy(proof), W)
  BY <1>2, <1>3, <1>8 DEF Undisturbed, At
<1>10. /\ plan' = [plan EXCEPT ![p] = n] /\ worked' = [worked EXCEPT ![p] = W]
       /\ UNCHANGED <<ledger, source, work, host>>
  BY DEF ReadSnapshot
<1> HIDE DEF n, W
<1>11. W \in SUBSET Uploads
  BY DEF W
<1>12. QED
  BY <1>5, <1>7, <1>9, <1>10, <1>11, PlanChanged

\* The other steps of the coordinator keep the copy.
LEMMA PlansKeepInv ==
    ASSUME MigrationInv, NEW p \in Plans,
           \/ \E keep \in SUBSET Rows : RegisterPlan(p, keep)
           \/ RequestApproval(p) \/ Decide(p) \/ Preflight(p)
    PROVE  MigrationInv'
<1> DEFINE q == plan[p]
<1>1. q \in PlanType /\ plan \in [Plans -> PlanType]
  BY DEF MigrationInv, MigrationTypeOK, PlanType
<1>2. ASSUME NEW keep \in SUBSET Rows, RegisterPlan(p, keep) PROVE MigrationInv'
  <2> DEFINE n == [[q EXCEPT !.state = "draft"] EXCEPT !.planned = keep]
  <2>1. /\ keep \subseteq q.planned /\ UNCHANGED <<ledger, source, work, host, worked>>
        /\ plan' = [plan EXCEPT ![p] = n]
    BY <1>1, <1>2 DEF RegisterPlan
  <2>2. n \in PlanType /\ n.copy = q.copy /\ n.planned = keep
    BY <1>1 DEF PlanType
  <2> HIDE DEF n
  <2>3. QED
    BY <2>1, <2>2, CopyKept
<1>3. ASSUME NEW s \in {"awaiting", "expired", "approved", "rejected"},
             plan' = [plan EXCEPT ![p].state = s], UNCHANGED <<ledger, source, work, host, worked>>
      PROVE  MigrationInv'
  <2> DEFINE n == [q EXCEPT !.state = s]
  <2>1. plan' = [plan EXCEPT ![p] = n]
    BY <1>3
  <2>2. n \in PlanType /\ n.copy = q.copy /\ n.planned = q.planned
    BY <1>1 DEF PlanType
  <2> HIDE DEF n
  <2>3. QED
    BY <1>3, <2>1, <2>2, CopyKept
<1>4. QED
  BY <1>2, <1>3 DEF RequestApproval, Decide, Preflight, Expire

\* A plan names what it was made from, and no job of its copy is worked at again, for any number of
\* rows, jobs, batches and plans (MigrationApprovalCoordinator._fresh).
THEOREM MigrationIsGrounded == MigrationSpec => []MigrationInv
<1>1. MigrationInit => MigrationInv
  <2> SUFFICES ASSUME MigrationInit PROVE MigrationInv
    OBVIOUS
  <2>1. NoPlan \in [state : {"none", "read", "draft", "awaiting", "approved", "rejected", "expired"},
                    copy : SUBSET Copies, planned : SUBSET Rows, proof : BOOLEAN]
        /\ NoPlan.copy = {}
    BY DEF NoPlan
  <2>2. plan \in [Plans -> {NoPlan}] /\ PlansGrounded /\ PlansUndisturbed
    BY <2>1 DEF MigrationInit, PlansGrounded, Grounded, PlansUndisturbed, Undisturbed
  <2>3. facts \in Facts /\ support \in Support /\ job \in [Uploads -> JobStates]
    BY DEF MigrationInit, Facts, Support, JobStates
  <2>4. MigrationTypeOK
    BY <2>1, <2>2, <2>3 DEF MigrationInit, MigrationTypeOK
  <2>5. QED
    BY <2>2, <2>4 DEF MigrationInv
<1>2. MigrationInv /\ [MigrationNext]_migrationVars => MigrationInv'
  <2> SUFFICES ASSUME MigrationInv, [MigrationNext]_migrationVars PROVE MigrationInv'
    OBVIOUS
  <2>1. CASE UNCHANGED migrationVars
    BY <2>1 DEF MigrationInv, MigrationTypeOK, PlansGrounded, PlansUndisturbed, Undisturbed, At,
                migrationVars, ledger, source, work, host
  <2>2. CASE Company
    <3>1. MigrationTypeOK' /\ UNCHANGED plan /\ PlansUndisturbed'
      BY <2>2, CompanyKeepsTypes, CompanyKeepsCopies DEF MigrationInv
    <3>2. QED
      BY <3>1 DEF MigrationInv, PlansGrounded
  <2>3. ASSUME NEW p \in Plans,
               \/ \E proof \in BOOLEAN : ReadSnapshot(p, proof)
               \/ \E keep \in SUBSET Rows : RegisterPlan(p, keep)
               \/ RequestApproval(p) \/ Decide(p) \/ Preflight(p)
        PROVE  MigrationInv'
    BY <2>3, ReadKeepsInv, PlansKeepInv
  <2>4. QED
    BY <2>1, <2>2, <2>3 DEF MigrationNext, Company
<1>3. QED
  BY <1>1, <1>2, PTL DEF MigrationSpec

\* Type correctness of the migration plans and of the company around them.
THEOREM MigrationTypes == MigrationSpec => []MigrationTypeOK
<1>1. MigrationInv => MigrationTypeOK
  BY DEF MigrationInv
<1>2. QED
  BY <1>1, MigrationIsGrounded, PTL

\* What passes the last check before the migration is still supported by an active proof, whatever
\* was uploaded, put aside or withdrawn since the plan was made.
THEOREM WhatPassesIsSupported == MigrationSpec => []PlannedIsSupported
<1>1. MigrationInv => PlannedIsSupported
  <2> SUFFICES ASSUME MigrationInv, NEW p \in Plans, Passes(p), NEW r \in plan[p].planned
               PROVE  "active" \in support[r] /\ ~Quarantined(r)
    BY DEF PlannedIsSupported
  <2>1. Inputs \in plan[p].copy
    BY DEF Passes, Fresh
  <2>2. "active" \in Inputs.evidence[r] /\ \A b \in Batches : <<b, r>> \notin Inputs.todos[2]
    BY <2>1 DEF MigrationInv, PlansGrounded, Grounded
  <2>3. QED
    BY <2>2, InputsAreCopied DEF MigrationInv, Quarantined
<1>2. QED
  BY <1>1, MigrationIsGrounded, PTL

\* No worker was at work between the snapshot of a plan and the gate it passes: a job that came
\* since blocks the gate while it runs or could be retried, and is in the records once it is done
\* (MigrationSnapshotReader._active_tasks).
THEOREM WhatPassesIsUndisturbed == MigrationSpec => []PassedUndisturbed
<1>1. MigrationInv => PassedUndisturbed
  <2> SUFFICES ASSUME MigrationInv, NEW p \in Plans, Passes(p), NEW j \in worked[p]
               PROVE  FALSE
    BY DEF PassedUndisturbed
  <2>1. Inputs \in plan[p].copy
    BY DEF Passes, Fresh
  <2>2. Inputs.tasks[1][j] = "none" /\ ~At(j, "none")
    BY <2>1 DEF MigrationInv, PlansUndisturbed, Undisturbed
  <2>3. QED
    BY <2>2, InputsAreCopied DEF MigrationInv, At
<1>2. QED
  BY <1>1, MigrationIsGrounded, PTL
=============================================================================
