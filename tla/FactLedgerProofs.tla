-------------------------- MODULE FactLedgerProofs --------------------------
\* Theorems about FactLedger.
EXTENDS FactLedger, FiniteSetTheorems, TLAPS

\* A set of naturals has a least element: the current fact of a coordinate and the next todo
\* of a decision are found with it.
\* Initial segments ordered by inclusion are well founded.
LEMMA Least ==
    ASSUME NEW S, S \subseteq Nat, S # {}
    PROVE  \E m \in S : \A n \in S : m <= n
<1> DEFINE R == StrictSubsetOrdering(Nat)
           Upto(n) == 0 .. n
           T == {Upto(n) : n \in S}
<1>1. IsWellFoundedOn(R, FiniteSubsetsOf(Nat))
  BY FS_StrictSubsetOrderingWellFounded
<1>2. T \subseteq FiniteSubsetsOf(Nat) /\ T # {}
  <2>1. \A n \in S : Upto(n) \in SUBSET Nat /\ IsFiniteSet(Upto(n))
    BY FS_Interval
  <2>2. QED
    BY <2>1 DEF FiniteSubsetsOf
<1> HIDE DEF T, R
<1>3. PICK U \in T : \A V \in T : <<V, U>> \notin R
  BY <1>1, <1>2, WFMin
<1>4. PICK m \in S : U = Upto(m)
  BY <1>3 DEF T
<1>5. ASSUME NEW n \in S, n < m PROVE FALSE
  <2>1. Upto(n) \in T
    BY DEF T
  <2>2. Upto(n) \subseteq Upto(m) /\ Upto(n) # Upto(m)
    BY <1>5
  <2>3. <<Upto(n), Upto(m)>> \in R
    BY <2>2 DEF R, StrictSubsetOrdering
  <2>4. QED
    BY <2>1, <2>3, <1>3, <1>4
<1>6. QED
  BY <1>5

-----------------------------------------------------------------------------
\* Tables: what holds of every pair of tables, committed or in a transaction.

\* What a row says never changes; only superseded_by and status do.
FactsGrow(f, g) ==
    /\ Len(f) <= Len(g)
    /\ \A i \in 1 .. Len(f) : /\ g[i].at = f[i].at /\ g[i].value = f[i].value
                              /\ g[i].unit = f[i].unit
                              /\ g[i].source = f[i].source /\ g[i].mode = f[i].mode
TodosGrow(t, u) ==
    /\ Len(t) <= Len(u)
    /\ \A k \in 1 .. Len(t) : /\ u[k].at = t[k].at /\ u[k].value = t[k].value
                              /\ u[k].unit = t[k].unit
                              /\ u[k].source = t[k].source /\ u[k].reason = t[k].reason
                              /\ u[k].related = t[k].related

\* A todo of a candidate names its coordinate, value and unit, and the fact it was raised against is
\* of that coordinate.
TodoFits(f, u) ==
    /\ u.reason # "unresolved" => u.at \in Coordinates /\ u.value \in Values /\ u.unit \in Units
    /\ u.related # 0 => u.related \in 1 .. Len(f) /\ f[u.related].at = u.at

OneAuto(f) ==
    \A i, k \in 1 .. Len(f) : f[i].mode = "auto" /\ f[k].mode = "auto" /\ f[i].at = f[k].at => i = k
Replaced(f) ==
    \A i \in 1 .. Len(f) : f[i].by # 0 =>
        f[i].by \in 1 .. Len(f) /\ f[i].by > i /\ f[f[i].by].mode = "manual" /\ f[f[i].by].at = f[i].at
HasCurrent(f) ==
    \A i \in 1 .. Len(f) : \E k \in 1 .. Len(f) : f[k].at = f[i].at /\ f[k].by = 0

Sound(f, t) ==
    /\ f \in Seq(Fact) /\ t \in Seq(Todo)
    /\ \A k \in 1 .. Len(t) : TodoFits(f, t[k])
    /\ OneAuto(f) /\ Replaced(f) /\ HasCurrent(f)

\* A candidate is on record: a fact has its value, or a todo its evidence.
Kept(f, t, c, s) ==
    \/ \E i \in 1 .. Len(f) : Says(f[i], c)
    \/ \E k \in 1 .. Len(t) : SameKey(t[k], ReviewTodo(c, s, 0))

\* Growth of the facts over two steps.
LEMMA FactsGrowFurther ==
    ASSUME NEW f, NEW g, NEW h, f \in Seq(Fact), g \in Seq(Fact), h \in Seq(Fact),
           FactsGrow(f, g), FactsGrow(g, h)
    PROVE  FactsGrow(f, h)
BY DEF FactsGrow

\* Growth of the todos over two steps.
LEMMA TodosGrowFurther ==
    ASSUME NEW t, NEW u, NEW v, t \in Seq(Todo), u \in Seq(Todo), v \in Seq(Todo),
           TodosGrow(t, u), TodosGrow(u, v)
    PROVE  TodosGrow(t, v)
BY DEF TodosGrow

\* The current fact is the latest open row of the coordinate, 0 if there is none.
LEMMA CurrentFactIs ==
    ASSUME NEW f, f \in Seq(Fact), NEW at
    PROVE  /\ CurrentFact(f, at) = 0 => \A i \in 1 .. Len(f) : f[i].at = at => f[i].by # 0
           /\ CurrentFact(f, at) # 0 => /\ CurrentFact(f, at) \in 1 .. Len(f)
                                        /\ f[CurrentFact(f, at)].at = at
                                        /\ f[CurrentFact(f, at)].by = 0
<1> DEFINE rows == {i \in DOMAIN f : f[i].at = at /\ f[i].by = 0}
           negated == {Len(f) - i : i \in rows}
<1>1. DOMAIN f = 1 .. Len(f) /\ Len(f) \in Nat
  OBVIOUS
<1>2. CASE rows = {}
  <2>1. CurrentFact(f, at) = 0
    BY <1>2 DEF CurrentFact
  <2>2. QED
    BY <2>1, <1>1, <1>2
<1>3. CASE rows # {}
  <2>1. negated \subseteq Nat /\ negated # {}
    BY <1>1, <1>3
  <2>2. PICK m \in negated : \A n \in negated : m <= n
    BY <2>1, Least
  <2>3. PICK i \in rows : m = Len(f) - i
    BY <2>2
  <2>4. \A k \in rows : k <= i
    <3> SUFFICES ASSUME NEW k \in rows PROVE k <= i
      OBVIOUS
    <3>1. Len(f) - k \in negated
      OBVIOUS
    <3>2. m <= Len(f) - k
      BY <2>2, <3>1
    <3>3. i \in Nat /\ k \in Nat
      BY <1>1
    <3>4. QED
      BY <3>2, <3>3, <2>3, <1>1
  <2>5. CurrentFact(f, at) \in rows
    BY <1>3, <2>3, <2>4 DEF CurrentFact
  <2>6. QED
    BY <2>5, <1>1
<1>4. QED
  BY <1>2, <1>3

\* A fact is added to a coordinate that has none.
LEMMA AutoFactIsSound ==
    ASSUME NEW f, NEW t, Sound(f, t), NEW x \in Fact, x.mode = "auto", x.by = 0,
           \A i \in 1 .. Len(f) : f[i].at = x.at => f[i].by # 0
    PROVE  Sound(Append(f, x), t) /\ FactsGrow(f, Append(f, x))
<1> DEFINE g == Append(f, x)
<1>1. f \in Seq(Fact) /\ t \in Seq(Todo) /\ g \in Seq(Fact)
  BY DEF Sound
<1>2. Len(g) = Len(f) + 1 /\ Len(f) \in Nat /\ g[Len(f) + 1] = x /\ \A i \in 1 .. Len(f) : g[i] = f[i]
  BY <1>1
<1> HIDE DEF g
<1>3. \A i \in 1 .. Len(f) : f[i].at # x.at
  BY DEF Sound, HasCurrent
<1>4. FactsGrow(f, g)
  BY <1>2 DEF FactsGrow
<1>5. \A k \in 1 .. Len(t) : TodoFits(g, t[k])
  BY <1>1, <1>2 DEF Sound, TodoFits
<1>6. OneAuto(g)
  BY <1>2, <1>3 DEF Sound, OneAuto
<1>7. Replaced(g)
  <2> SUFFICES ASSUME NEW i \in 1 .. Len(g), g[i].by # 0
               PROVE  g[i].by \in 1 .. Len(g) /\ g[i].by > i /\ g[g[i].by].mode = "manual"
                      /\ g[g[i].by].at = g[i].at
    BY DEF Replaced
  <2>1. i \in 1 .. Len(f) /\ g[i] = f[i]
    BY <1>2
  <2>2. f[i].by \in 1 .. Len(f) /\ f[i].by > i /\ f[f[i].by].mode = "manual" /\ f[f[i].by].at = f[i].at
    BY <2>1 DEF Sound, Replaced
  <2>3. QED
    BY <1>2, <2>1, <2>2
<1>8. HasCurrent(g)
  <2> SUFFICES ASSUME NEW i \in 1 .. Len(g) PROVE \E n \in 1 .. Len(g) : g[n].at = g[i].at /\ g[n].by = 0
    BY DEF HasCurrent
  <2>1. CASE i = Len(f) + 1
    BY <1>2, <2>1
  <2>2. CASE i \in 1 .. Len(f)
    <3>1. PICK n \in 1 .. Len(f) : f[n].at = f[i].at /\ f[n].by = 0
      BY <2>2 DEF Sound, HasCurrent
    <3>2. n \in 1 .. Len(g) /\ g[n] = f[n] /\ g[i] = f[i]
      BY <1>2, <2>2
    <3>3. QED
      BY <3>1, <3>2
  <2>3. QED
    BY <1>2, <2>1, <2>2
<1>9. QED
  BY <1>1, <1>4, <1>5, <1>6, <1>7, <1>8 DEF Sound, g

\* A todo is handed over once.
LEMMA HandedIsSound ==
    ASSUME NEW f, NEW t, Sound(f, t), NEW u \in Todo, TodoFits(f, u)
    PROVE  /\ Sound(f, Handed(t, u)) /\ TodosGrow(t, Handed(t, u))
           /\ \E k \in 1 .. Len(Handed(t, u)) : SameKey(Handed(t, u)[k], u)
<1>1. t \in Seq(Todo) /\ DOMAIN t = 1 .. Len(t) /\ Len(t) \in Nat
  BY DEF Sound
<1>2. CASE \E k \in DOMAIN t : SameKey(t[k], u)
  BY <1>1, <1>2 DEF Handed, TodosGrow
<1>3. CASE ~ \E k \in DOMAIN t : SameKey(t[k], u)
  <2> DEFINE v == Append(t, u)
  <2>1. Handed(t, u) = v
    BY <1>3 DEF Handed
  <2>2. v \in Seq(Todo) /\ Len(v) = Len(t) + 1 /\ v[Len(t) + 1] = u /\ \A k \in 1 .. Len(t) : v[k] = t[k]
    BY <1>1
  <2> HIDE DEF v
  <2>3. Sound(f, v)
    BY <1>1, <2>2 DEF Sound
  <2>4. TodosGrow(t, v)
    BY <1>1, <2>2 DEF TodosGrow
  <2>5. SameKey(v[Len(v)], u) /\ Len(v) \in 1 .. Len(v)
    BY <1>1, <2>2 DEF SameKey
  <2>6. QED
    BY <2>1, <2>3, <2>4, <2>5
<1>4. QED
  BY <1>2, <1>3

\* A todo is closed.
LEMMA ClosedIsSound ==
    ASSUME NEW f, NEW t, Sound(f, t), NEW k \in 1 .. Len(t), NEW s \in {"resolved", "dismissed"}
    PROVE  Sound(f, [t EXCEPT ![k].status = s]) /\ TodosGrow(t, [t EXCEPT ![k].status = s])
<1> DEFINE u == [t EXCEPT ![k].status = s]
<1>1. t \in Seq(Todo) /\ DOMAIN t = 1 .. Len(t) /\ Len(t) \in Nat
  BY DEF Sound
<1>2. t[k] \in Todo
  BY <1>1
<1>3. [t[k] EXCEPT !.status = s] \in Todo
  BY <1>2 DEF Todo
<1>4. u \in Seq(Todo) /\ Len(u) = Len(t)
  BY <1>1, <1>3
<1>5. \A n \in 1 .. Len(t) : u[n] = IF n = k THEN [t[k] EXCEPT !.status = s] ELSE t[n]
  BY <1>1
<1> HIDE DEF u
<1>6. TodosGrow(t, u)
  BY <1>1, <1>2, <1>4, <1>5 DEF TodosGrow, Todo
<1>7. \A n \in 1 .. Len(u) : TodoFits(f, u[n])
  <2> SUFFICES ASSUME NEW n \in 1 .. Len(u) PROVE TodoFits(f, u[n])
    OBVIOUS
  <2>1. TodoFits(f, t[n])
    BY <1>4 DEF Sound
  <2>2. u[n].at = t[n].at /\ u[n].value = t[n].value /\ u[n].unit = t[n].unit /\ u[n].reason = t[n].reason /\ u[n].related = t[n].related
    BY <1>4, <1>6 DEF TodosGrow
  <2>3. QED
    BY <2>1, <2>2 DEF TodoFits
<1>8. QED
  BY <1>4, <1>6, <1>7 DEF Sound, u

\* A decision adds a manual fact, which closes the fact its todo was raised against.
LEMMA DecidedIsSound ==
    ASSUME NEW d, NEW t, Sound(wFacts, wTodos), NEW k \in 1 .. Len(wTodos), NEW x \in Fact,
           x.mode = "manual", x.by = 0, x.at = wTodos[k].at
    PROVE  /\ Sound(Superseded(d, k, Append(wFacts, x)), wTodos)
           /\ FactsGrow(wFacts, Superseded(d, k, Append(wFacts, x)))
           /\ \A i \in 1 .. Len(Superseded(d, k, Append(wFacts, x))) :
                 i \in 1 .. Len(wFacts) \/ Superseded(d, k, Append(wFacts, x))[i].mode = "manual"
<1> DEFINE f == wFacts
           g == Append(f, x)
           r == wTodos[k].related
           h == Superseded(d, k, g)
<1>1. f \in Seq(Fact) /\ wTodos \in Seq(Todo) /\ g \in Seq(Fact) /\ Len(f) \in Nat
  BY DEF Sound
<1>2. Len(g) = Len(f) + 1 /\ g[Len(f) + 1] = x /\ DOMAIN g = 1 .. Len(g)
      /\ \A i \in 1 .. Len(f) : g[i] = f[i]
  BY <1>1
<1>3. r # 0 => r \in 1 .. Len(f) /\ f[r].at = x.at
  BY DEF Sound, TodoFits
<1> HIDE DEF g
<1>4. h = [i \in 1 .. Len(g) |-> IF i = r /\ g[i].by = 0 THEN [g[i] EXCEPT !.by = Len(g)] ELSE g[i]]
  BY <1>2 DEF Superseded
<1> HIDE DEF h, r, f
<1>5. \A i \in 1 .. Len(g) : h[i] \in Fact
  <2> SUFFICES ASSUME NEW i \in 1 .. Len(g) PROVE h[i] \in Fact
    OBVIOUS
  <2>1. g[i] \in Fact /\ Len(g) \in Nat
    BY <1>1, <1>2
  <2>2. [g[i] EXCEPT !.by = Len(g)] \in Fact
    BY <2>1 DEF Fact
  <2>3. QED
    BY <1>4, <2>1, <2>2
<1>6. h \in Seq(Fact) /\ Len(h) = Len(g)
  <2>1. h \in [1 .. Len(g) -> Fact] /\ Len(g) \in Nat
    BY <1>1, <1>2, <1>4, <1>5
  <2>2. QED
    BY <2>1
<1>7. \A i \in 1 .. Len(f) : /\ h[i].at = f[i].at /\ h[i].value = f[i].value /\ h[i].unit = f[i].unit
                             /\ h[i].source = f[i].source /\ h[i].mode = f[i].mode
                             /\ h[i].by = IF i = r /\ f[i].by = 0 THEN Len(g) ELSE f[i].by
  <2> SUFFICES ASSUME NEW i \in 1 .. Len(f)
               PROVE  /\ h[i].at = f[i].at /\ h[i].value = f[i].value /\ h[i].unit = f[i].unit
                      /\ h[i].source = f[i].source /\ h[i].mode = f[i].mode
                      /\ h[i].by = IF i = r /\ f[i].by = 0 THEN Len(g) ELSE f[i].by
    OBVIOUS
  <2>1. f[i] \in Fact /\ g[i] = f[i] /\ i \in 1 .. Len(g)
    BY <1>1, <1>2
  <2>2. h[i] = IF i = r /\ f[i].by = 0 THEN [f[i] EXCEPT !.by = Len(g)] ELSE f[i]
    BY <1>4, <2>1
  <2>3. QED
    BY <2>1, <2>2 DEF Fact
<1>8. h[Len(g)] = x
  BY <1>1, <1>2, <1>3, <1>4
<1>9. FactsGrow(f, h)
  BY <1>1, <1>2, <1>6, <1>7 DEF FactsGrow
<1>10. \A n \in 1 .. Len(wTodos) : TodoFits(h, wTodos[n])
  <2> SUFFICES ASSUME NEW n \in 1 .. Len(wTodos) PROVE TodoFits(h, wTodos[n])
    OBVIOUS
  <2>1. TodoFits(f, wTodos[n])
    BY DEF Sound, f
  <2>2. \A i \in 1 .. Len(f) : i \in 1 .. Len(h) /\ h[i].at = f[i].at
    BY <1>1, <1>2, <1>6, <1>7
  <2>3. QED
    BY <2>1, <2>2 DEF TodoFits
<1>11. OneAuto(h)
  BY <1>1, <1>2, <1>6, <1>7, <1>8 DEF Sound, OneAuto, f
<1>12. Replaced(h)
  <2>1. Replaced(f)
    BY DEF Sound, f
  <2> SUFFICES ASSUME NEW i \in 1 .. Len(h), h[i].by # 0
               PROVE  /\ h[i].by \in 1 .. Len(h) /\ h[i].by > i
                      /\ h[h[i].by].mode = "manual" /\ h[h[i].by].at = h[i].at
    BY DEF Replaced
  <2>2. i \in 1 .. Len(f)
    BY <1>1, <1>2, <1>6, <1>8
  <2>3. CASE i = r /\ f[i].by = 0
    BY <1>1, <1>2, <1>3, <1>6, <1>7, <1>8, <2>2, <2>3
  <2>4. CASE ~(i = r /\ f[i].by = 0)
    <3>1. h[i].by = f[i].by /\ h[i].at = f[i].at
      BY <1>7, <2>2, <2>4
    <3>2. f[i].by \in 1 .. Len(f) /\ f[i].by > i /\ f[f[i].by].mode = "manual" /\ f[f[i].by].at = f[i].at
      BY <2>1, <2>2, <3>1 DEF Replaced
    <3>3. h[f[i].by].mode = "manual" /\ h[f[i].by].at = f[i].at
      BY <1>7, <3>2
    <3>4. QED
      BY <1>1, <1>2, <1>6, <3>1, <3>2, <3>3
  <2>5. QED
    BY <2>3, <2>4
<1>13. HasCurrent(h)
  <2> SUFFICES ASSUME NEW i \in 1 .. Len(h) PROVE \E n \in 1 .. Len(h) : h[n].at = h[i].at /\ h[n].by = 0
    BY DEF HasCurrent
  <2>1. Len(g) \in 1 .. Len(h) /\ h[Len(g)].by = 0 /\ h[Len(g)].at = x.at
    BY <1>1, <1>2, <1>6, <1>8
  <2>2. CASE h[i].at = x.at
    BY <2>1, <2>2
  <2>3. CASE h[i].at # x.at
    <3>1. i \in 1 .. Len(f) /\ f[i].at # x.at
      BY <1>1, <1>2, <1>6, <1>7, <1>8, <2>3
    <3>2. PICK n \in 1 .. Len(f) : f[n].at = f[i].at /\ f[n].by = 0
      BY <3>1 DEF Sound, HasCurrent, f
    <3>3. n # r
      BY <1>3, <3>1, <3>2
    <3>4. h[n].at = h[i].at /\ h[n].by = 0
      BY <1>7, <3>1, <3>2, <3>3
    <3>5. QED
      BY <1>1, <1>2, <1>6, <3>4
  <2>4. QED
    BY <2>2, <2>3
<1>14. \A i \in 1 .. Len(h) : i \in 1 .. Len(f) \/ h[i].mode = "manual"
  BY <1>1, <1>2, <1>6, <1>8
<1>15. QED
  BY <1>1, <1>6, <1>9, <1>10, <1>11, <1>12, <1>13, <1>14 DEF Sound, f, g, h

-----------------------------------------------------------------------------
\* The state: both pairs of tables are sound, a transaction only adds, a decision that inserts
\* facts has todos of candidates before it, and a run stays in its steps.
Flow ==
    /\ Sound(facts, todos) /\ Sound(wFacts, wTodos)
    /\ FactsGrow(facts, wFacts) /\ TodosGrow(todos, wTodos)
    /\ \A d \in Deciders : dpc[d] # "idle" =>
          \A k \in targets[d] : /\ k \in 1 .. Len(todos)
                                /\ choice[d] = "dismiss" \/ todos[k].reason # "unresolved"
    /\ \A r \in Runs : runStatus[r] = "completed" => rpc[r] = "over"
    /\ \A r \in Runs : rpc[r] \in {"out", "extracting", "prepared"} => next[r] = 1

TableTypes == facts \in Seq(Fact) /\ wFacts \in Seq(Fact) /\ todos \in Seq(Todo) /\ wTodos \in Seq(Todo)
WriterTypes ==
    /\ writer \in Runs \cup Deciders \cup {Idle}
    /\ writer = Idle => wFacts = facts /\ wTodos = todos
    /\ \A r \in Runs : rpc[r] = "writing" <=> writer = r
    /\ \A d \in Deciders : dpc[d] = "writing" <=> writer = d
RunTypes ==
    /\ rpc \in [Runs -> {"out", "extracting", "prepared", "writing", "aborting", "over"}]
    /\ source \in [Runs -> Sources]
    /\ batch \in [Runs -> Seq(Candidate)]
    /\ unresolved \in [Runs -> BOOLEAN]
    /\ next \in [Runs -> Nat \ {0}]
    /\ runStatus \in [Runs -> {"absent", "running", "completed", "canceled", "failed"}]
PeopleTypes ==
    /\ dpc \in [Deciders -> {"idle", "read", "writing"}]
    /\ chosen \in [Deciders -> Nat]
    /\ choice \in [Deciders -> Answers]
    /\ targets \in [Deciders -> SUBSET Nat]

\* The types of the tables, one by one.
LEMMA TypeParts ==
    TypeOK <=> TableTypes /\ WriterTypes /\ RunTypes /\ PeopleTypes /\ decisions \in Nat /\ faults \in Nat
BY DEF TypeOK, TableTypes, WriterTypes, RunTypes, PeopleTypes

\* The todos of the open transaction are those a decision read, as far as its targets go.
LEMMA TargetIs ==
    ASSUME TypeOK, Flow, NEW d \in Deciders, dpc[d] # "idle", targets[d] # {}
    PROVE  /\ NextTarget(d) \in targets[d] /\ NextTarget(d) \in 1 .. Len(wTodos)
           /\ choice[d] = "dismiss" \/ wTodos[NextTarget(d)].reason # "unresolved"
<1>1. \E t \in targets[d] : \A u \in targets[d] : t <= u
  BY Least DEF TypeOK
<1>2. NextTarget(d) \in targets[d]
  BY <1>1 DEF NextTarget
<1>3. /\ NextTarget(d) \in 1 .. Len(todos)
      /\ choice[d] = "dismiss" \/ todos[NextTarget(d)].reason # "unresolved"
  BY <1>2 DEF Flow
<1>4. Len(todos) \in Nat /\ Len(wTodos) \in Nat
  BY DEF TypeOK
<1>5. QED
  BY <1>2, <1>3, <1>4 DEF Flow, TodosGrow

\* A todo raised for a candidate fits the facts.
LEMMA ReviewTodoFits ==
    ASSUME TypeOK, NEW c \in Candidate, NEW s \in Sources
    PROVE  LET u == ReviewTodo(c, s, Existing(c.at)) IN u \in Todo /\ TodoFits(wFacts, u)
<1> DEFINE i == Existing(c.at)
           u == ReviewTodo(c, s, i)
<1>1. i \in Nat /\ (i # 0 => i \in 1 .. Len(wFacts) /\ wFacts[i].at = c.at)
  <2>1. wFacts \in Seq(Fact) /\ Len(wFacts) \in Nat
    BY DEF TypeOK
  <2>2. QED
    BY <2>1, CurrentFactIs DEF Existing
<1>2. c.at \in Coordinates /\ c.value \in Values /\ c.unit \in Units
  BY DEF Candidate
<1> HIDE DEF i
<1>3. u \in Todo
  BY <1>1, <1>2 DEF ReviewTodo, Todo
<1>4. TodoFits(wFacts, u)
  BY <1>1, <1>2 DEF ReviewTodo, TodoFits
<1>5. QED
  BY <1>3, <1>4 DEF i

\* So does one for an unresolved candidate.
LEMMA UnresolvedTodoFits ==
    ASSUME NEW f, NEW s \in Sources
    PROVE  UnresolvedTodo(s) \in Todo /\ TodoFits(f, UnresolvedTodo(s))
BY DEF UnresolvedTodo, Todo, TodoFits

\* One candidate keeps the tables sound, and is a fact or a todo afterwards.
LEMMA ConsolidateIsSound ==
    ASSUME TypeOK, Flow, NEW r \in Runs, ConsolidateNext(r)
    PROVE  /\ Sound(wFacts', wTodos') /\ FactsGrow(wFacts, wFacts') /\ TodosGrow(wTodos, wTodos')
           /\ Kept(wFacts', wTodos', batch[r][next[r]], source[r])
           /\ \A i \in 1 .. Len(wFacts') : i \in 1 .. Len(wFacts) \/
                 /\ Says(wFacts'[i], batch[r][next[r]])
                 /\ wFacts'[i].source = source[r] /\ ~batch[r][next[r]].review
<1> DEFINE c == batch[r][next[r]]
           s == source[r]
<1>0. TableTypes /\ RunTypes
  BY TypeParts
<1>1. c \in Candidate /\ s \in Sources
  BY <1>0 DEF ConsolidateNext, RunTypes
<1>2. Consolidate(c, s)
  BY DEF ConsolidateNext
<1> HIDE DEF c, s
<1>3. Sound(wFacts, wTodos) /\ wFacts \in Seq(Fact) /\ wTodos \in Seq(Todo) /\ Len(wFacts) \in Nat
  BY <1>0 DEF Flow, TableTypes
<1>4. CASE /\ Existing(c.at) = 0 /\ ~c.review /\ wFacts' = Append(wFacts, NewFact(c, s, "auto"))
           /\ UNCHANGED wTodos
  <2> DEFINE x == NewFact(c, s, "auto")
  <2>1. x \in Fact /\ x.mode = "auto" /\ x.by = 0 /\ x.at = c.at /\ Says(x, c) /\ x.source = s
    BY <1>1 DEF NewFact, Fact, Candidate, Says
  <2>2. \A i \in 1 .. Len(wFacts) : wFacts[i].at = x.at => wFacts[i].by # 0
    BY <1>3, <1>4, <2>1, CurrentFactIs DEF Existing
  <2>3. wFacts' = Append(wFacts, x)
    BY <1>4
  <2> HIDE DEF x
  <2>4. Sound(wFacts', wTodos) /\ FactsGrow(wFacts, wFacts')
    BY <1>3, <2>1, <2>2, <2>3, AutoFactIsSound
  <2>5. TodosGrow(wTodos, wTodos')
    BY <1>3, <1>4 DEF TodosGrow
  <2>6. Len(wFacts') = Len(wFacts) + 1 /\ wFacts'[Len(wFacts) + 1] = x
    BY <1>3, <2>1, <2>3
  <2>7. Kept(wFacts', wTodos', c, s)
    BY <1>3, <2>1, <2>6 DEF Kept
  <2>8. QED
    BY <1>3, <1>4, <2>1, <2>4, <2>5, <2>6, <2>7 DEF c, s
<1>5. CASE /\ Existing(c.at) # 0 /\ Says(wFacts[Existing(c.at)], c) /\ UNCHANGED open
  <2>1. Existing(c.at) \in 1 .. Len(wFacts) /\ wFacts[Existing(c.at)].at = c.at
    BY <1>3, <1>5, CurrentFactIs DEF Existing
  <2>2. wFacts' = wFacts /\ wTodos' = wTodos
    BY <1>5 DEF open
  <2>3. Kept(wFacts, wTodos, c, s)
    BY <1>5, <2>1 DEF Kept
  <2>4. FactsGrow(wFacts, wFacts) /\ TodosGrow(wTodos, wTodos)
    BY <1>3 DEF FactsGrow, TodosGrow
  <2>5. QED
    BY <1>3, <2>2, <2>3, <2>4 DEF c, s
<1>6. CASE wTodos' = Handed(wTodos, ReviewTodo(c, s, Existing(c.at))) /\ UNCHANGED wFacts
  <2>1. /\ Sound(wFacts, wTodos') /\ TodosGrow(wTodos, wTodos')
        /\ \E k \in 1 .. Len(wTodos') : SameKey(wTodos'[k], ReviewTodo(c, s, Existing(c.at)))
    BY <1>1, <1>3, <1>6, ReviewTodoFits, HandedIsSound
  <2>2. FactsGrow(wFacts, wFacts)
    BY <1>3 DEF FactsGrow
  <2>3. Kept(wFacts, wTodos', c, s)
    BY <2>1 DEF Kept, SameKey, ReviewTodo
  <2>4. QED
    BY <1>6, <2>1, <2>2, <2>3 DEF c, s
<1>7. QED
  BY <1>2, <1>4, <1>5, <1>6 DEF Consolidate

\* One todo of a decision keeps the tables sound, and what it inserts is manual.
LEMMA DecideTargetIsSound ==
    ASSUME TypeOK, Flow, NEW d \in Deciders, DecideTarget(d)
    PROVE  /\ Sound(wFacts', wTodos') /\ FactsGrow(wFacts, wFacts') /\ TodosGrow(wTodos, wTodos')
           /\ \A i \in 1 .. Len(wFacts') : i \in 1 .. Len(wFacts) \/ wFacts'[i].mode = "manual"
<1> USE FactLedgerAssumption
<1> DEFINE t == NextTarget(d)
           s == IF choice[d] = "dismiss" THEN "dismissed" ELSE "resolved"
<1>0. TableTypes /\ PeopleTypes
  BY TypeParts
<1>1. /\ dpc[d] = "writing" /\ targets[d] # {} /\ wTodos' = [wTodos EXCEPT ![t].status = s]
      /\ wFacts' = IF choice[d] \in {"dismiss", "existing"} THEN wFacts
                   ELSE Superseded(d, t, Append(wFacts, DecidedFact(d, t)))
  BY DEF DecideTarget
<1>2. t \in 1 .. Len(wTodos) /\ (choice[d] = "dismiss" \/ wTodos[t].reason # "unresolved")
  BY <1>1, TargetIs
<1> HIDE DEF t
<1>3. Sound(wFacts, wTodos) /\ wTodos[t] \in Todo /\ TodoFits(wFacts, wTodos[t])
  BY <1>0, <1>2 DEF Flow, Sound, TableTypes
<1>4. /\ Sound(wFacts', wTodos) /\ FactsGrow(wFacts, wFacts')
      /\ \A i \in 1 .. Len(wFacts') : i \in 1 .. Len(wFacts) \/ wFacts'[i].mode = "manual"
  <2>1. CASE choice[d] \in {"dismiss", "existing"}
    BY <1>0, <1>1, <1>3, <2>1 DEF FactsGrow, TableTypes
  <2>2. CASE choice[d] \notin {"dismiss", "existing"}
    <3> DEFINE x == DecidedFact(d, t)
    <3>1. wTodos[t].at \in Coordinates /\ wTodos[t].value \in Values /\ wTodos[t].unit \in Units
      BY <1>2, <1>3, <2>2 DEF TodoFits
    <3>2. choice[d] \in Answers /\ wTodos[t].source \in Sources
      BY <1>0, <1>3 DEF PeopleTypes, Todo
    <3>3. x \in Fact /\ x.mode = "manual" /\ x.by = 0 /\ x.at = wTodos[t].at
      BY <2>2, <3>1, <3>2 DEF DecidedFact, NewFact, Fact, Answers
    <3>4. wFacts' = Superseded(d, t, Append(wFacts, x))
      BY <1>1, <2>2
    <3> HIDE DEF x
    <3>5. QED
      BY <1>2, <1>3, <3>3, <3>4, DecidedIsSound
  <2>3. QED
    BY <2>1, <2>2
<1>5. Sound(wFacts', wTodos') /\ TodosGrow(wTodos, wTodos')
  <2>1. s \in {"resolved", "dismissed"}
    OBVIOUS
  <2> HIDE DEF s
  <2>2. QED
    BY <1>1, <1>2, <1>4, <2>1, ClosedIsSound
<1>6. QED
  BY <1>4, <1>5

\* The last todo of a run keeps the tables sound, and stands for its unresolved blocks.
LEMMA FinishIsSound ==
    ASSUME TypeOK, Flow, NEW r \in Runs
    PROVE  LET t == IF unresolved[r] THEN Handed(wTodos, UnresolvedTodo(source[r])) ELSE wTodos
           IN  /\ Sound(wFacts, t) /\ TodosGrow(wTodos, t)
               /\ unresolved[r] => \E k \in 1 .. Len(t) : SameKey(t[k], UnresolvedTodo(source[r]))
<1>1. source[r] \in Sources /\ wTodos \in Seq(Todo)
  BY DEF TypeOK
<1>2. CASE unresolved[r]
  BY <1>1, <1>2, UnresolvedTodoFits, HandedIsSound DEF Flow
<1>3. CASE ~unresolved[r]
  BY <1>1, <1>3 DEF Flow, TodosGrow
<1>4. QED
  BY <1>2, <1>3

\* Every variable has its type, and both pairs of tables are sound at all times.
THEOREM LedgerInvariant == Spec => [](TypeOK /\ Flow)
<1>1. Init => TypeOK /\ Flow
  <2> SUFFICES ASSUME Init PROVE TypeOK /\ Flow
    OBVIOUS
  <2> USE FactLedgerAssumption DEF Init
  <2>1. TableTypes /\ Len(facts) = 0 /\ Len(todos) = 0 /\ wFacts = facts /\ wTodos = todos
    BY DEF TableTypes
  <2>2. WriterTypes
    BY DEF WriterTypes
  <2>3. RunTypes
    BY DEF RunTypes
  <2>4. PeopleTypes
    BY DEF PeopleTypes, Answers
  <2>5. Flow
    BY <2>1 DEF Flow, Sound, FactsGrow, TodosGrow, OneAuto, Replaced, HasCurrent, TableTypes
  <2>6. QED
    BY <2>1, <2>2, <2>3, <2>4, <2>5, TypeParts
<1>2. TypeOK /\ Flow /\ [Next]_vars => (TypeOK /\ Flow)'
  <2> SUFFICES ASSUME TypeOK, Flow, [Next]_vars PROVE (TypeOK /\ Flow)'
    OBVIOUS
  <2> USE FactLedgerAssumption
  <2>0. TableTypes /\ WriterTypes /\ RunTypes /\ PeopleTypes /\ decisions \in Nat /\ faults \in Nat
    BY TypeParts
  <2>a. TableTypes' /\ WriterTypes' /\ RunTypes' /\ PeopleTypes' /\ decisions' \in Nat /\ faults' \in Nat
          => TypeOK'
    BY DEF TypeOK, TableTypes, WriterTypes, RunTypes, PeopleTypes
  <2>1. ASSUME NEW r \in Runs, StartRun(r) \/ Extract(r) \/ Abort(r) \/ BeginCommit(r)
        PROVE  (TypeOK /\ Flow)'
    <3>1. UNCHANGED <<tables, open, source, next, people, decisions, faults>>
      BY <2>1 DEF StartRun, Extract, Abort, BeginCommit
    <3>2. \E step \in {"extracting", "prepared", "writing", "over"} : rpc' = [rpc EXCEPT ![r] = step]
      BY <2>1 DEF StartRun, Extract, Abort, BeginCommit
    <3>3. WriterTypes'
      BY <2>0, <2>1, <3>1 DEF StartRun, Extract, Abort, BeginCommit, Begin, WriterTypes, RunTypes,
                              PeopleTypes, tables, open, people
    <3>4. batch' \in [Runs -> Seq(Candidate)] /\ unresolved' \in [Runs -> BOOLEAN]
      BY <2>0, <2>1 DEF StartRun, Extract, Abort, BeginCommit, RunTypes
    <3>5. runStatus' \in [Runs -> {"absent", "running", "completed", "canceled", "failed"}]
      BY <2>0, <2>1 DEF StartRun, Extract, Abort, BeginCommit, RunTypes
    <3>6. RunTypes'
      BY <2>0, <3>1, <3>2, <3>4, <3>5 DEF RunTypes
    <3>7. TableTypes' /\ PeopleTypes'
      BY <2>0, <3>1 DEF TableTypes, PeopleTypes, tables, open, people
    <3>8. \A q \in Runs : runStatus'[q] = "completed" => rpc'[q] = "over"
      BY <2>0, <2>1 DEF StartRun, Extract, Abort, BeginCommit, RunTypes, Flow
    <3>9. \A q \in Runs : rpc'[q] \in {"out", "extracting", "prepared"} => next'[q] = 1
      BY <2>0, <2>1, <3>1 DEF StartRun, Extract, Abort, BeginCommit, RunTypes, Flow
    <3>10. Flow'
      BY <3>1, <3>8, <3>9 DEF Flow, tables, open, people
    <3>11. QED
      BY <2>0, <2>a, <3>1, <3>3, <3>6, <3>7, <3>10
  <2>2. ASSUME NEW r \in Runs, ConsolidateNext(r) PROVE (TypeOK /\ Flow)'
    <3>1. rpc[r] = "writing" /\ next' = [next EXCEPT ![r] = @ + 1]
          /\ UNCHANGED <<tables, writer, rpc, source, batch, unresolved, runStatus, people, decisions, faults>>
      BY <2>2 DEF ConsolidateNext
    <3>2. writer = r /\ writer # Idle
      BY <2>0, <3>1 DEF WriterTypes
    <3>3. Sound(wFacts', wTodos') /\ FactsGrow(wFacts, wFacts') /\ TodosGrow(wTodos, wTodos')
      BY <2>2, ConsolidateIsSound
    <3>4. TableTypes'
      BY <2>0, <3>1, <3>3 DEF Sound, TableTypes, tables
    <3>5. FactsGrow(facts, wFacts') /\ TodosGrow(todos, wTodos')
      BY <2>0, <3>3, <3>4, <3>1, FactsGrowFurther, TodosGrowFurther DEF Flow, TableTypes, tables
    <3>6. RunTypes' /\ PeopleTypes' /\ WriterTypes'
      BY <2>0, <3>1, <3>2 DEF RunTypes, PeopleTypes, WriterTypes, people
    <3>7. Flow'
      BY <2>0, <3>1, <3>3, <3>5 DEF Flow, RunTypes, tables, people
    <3>8. QED
      BY <2>0, <2>a, <3>1, <3>4, <3>6, <3>7
  \* What a commit or a roll-back leaves: both pairs are the tables f and t, which grew from the
  \* committed ones.
  <2>b. ASSUME NEW f, NEW t, Sound(f, t), FactsGrow(facts, f), TodosGrow(todos, t),
               facts' = f, wFacts' = f, todos' = t, wTodos' = t,
               \A d \in Deciders : dpc'[d] # "idle" =>
                   dpc[d] # "idle" /\ targets'[d] = targets[d] /\ choice'[d] = choice[d]
        PROVE  /\ TableTypes'
               /\ Sound(facts, todos)' /\ Sound(wFacts, wTodos)'
               /\ FactsGrow(facts, wFacts)' /\ TodosGrow(todos, wTodos)'
               /\ \A d \in Deciders : dpc'[d] # "idle" =>
                     \A k \in targets'[d] : /\ k \in 1 .. Len(todos')
                                            /\ choice'[d] = "dismiss" \/ todos'[k].reason # "unresolved"
    <3>1. f \in Seq(Fact) /\ t \in Seq(Todo) /\ Len(f) \in Nat /\ Len(t) \in Nat /\ Len(todos) \in Nat
      BY <2>0, <2>b DEF Sound, TableTypes
    <3>2. TableTypes' /\ Sound(facts, todos)' /\ Sound(wFacts, wTodos)'
      BY <2>b, <3>1 DEF TableTypes, Sound, TodoFits, OneAuto, Replaced, HasCurrent
    <3>3. FactsGrow(facts, wFacts)' /\ TodosGrow(todos, wTodos)'
      BY <2>b, <3>1 DEF FactsGrow, TodosGrow
    <3>4. ASSUME NEW d \in Deciders, dpc'[d] # "idle", NEW k \in targets'[d]
          PROVE  /\ k \in 1 .. Len(todos')
                 /\ choice'[d] = "dismiss" \/ todos'[k].reason # "unresolved"
      <4>1. k \in 1 .. Len(todos) /\ (choice[d] = "dismiss" \/ todos[k].reason # "unresolved")
        BY <2>b, <3>4 DEF Flow
      <4>2. k \in 1 .. Len(t) /\ t[k].reason = todos[k].reason
        BY <2>b, <3>1, <4>1 DEF TodosGrow
      <4>3. QED
        BY <2>b, <3>4, <4>1, <4>2
    <3>5. QED
      BY <3>2, <3>3, <3>4
  <2>3. ASSUME NEW r \in Runs, FinishCommit(r) PROVE (TypeOK /\ Flow)'
    <3> DEFINE t == IF unresolved[r] THEN Handed(wTodos, UnresolvedTodo(source[r])) ELSE wTodos
    <3>1. /\ rpc[r] = "writing" /\ Commit(wFacts, t)
          /\ rpc' = [rpc EXCEPT ![r] = "over"] /\ runStatus' = [runStatus EXCEPT ![r] = "completed"]
          /\ UNCHANGED <<source, batch, unresolved, next, people, decisions, faults>>
      BY <2>3 DEF FinishCommit
    <3>2. writer = r
      BY <2>0, <3>1 DEF WriterTypes
    <3>3. Sound(wFacts, t) /\ TodosGrow(wTodos, t)
      BY FinishIsSound
    <3> HIDE DEF t
    <3>4. TodosGrow(todos, t)
      BY <2>0, <3>3, TodosGrowFurther DEF Flow, TableTypes, Sound
    <3>5. FactsGrow(facts, wFacts)
      BY DEF Flow
    <3>6. facts' = wFacts /\ wFacts' = wFacts /\ todos' = t /\ wTodos' = t /\ writer' = Idle
      BY <3>1 DEF Commit
    <3>7. TableTypes' /\ WriterTypes' /\ RunTypes' /\ PeopleTypes'
      <4>1. TableTypes'
        BY <3>3, <3>6 DEF TableTypes, Sound
      <4>2. WriterTypes'
        BY <2>0, <3>1, <3>2, <3>6 DEF WriterTypes, RunTypes, PeopleTypes, people
      <4>3. RunTypes' /\ PeopleTypes'
        BY <2>0, <3>1 DEF RunTypes, PeopleTypes, people
      <4>4. QED
        BY <4>1, <4>2, <4>3
    <3>8. Flow'
      <4>1. /\ \A q \in Runs : runStatus'[q] = "completed" => rpc'[q] = "over"
            /\ \A q \in Runs : rpc'[q] \in {"out", "extracting", "prepared"} => next'[q] = 1
        BY <2>0, <3>1 DEF Flow, RunTypes
      <4>2. \A d \in Deciders : dpc'[d] = dpc[d] /\ targets'[d] = targets[d] /\ choice'[d] = choice[d]
        BY <3>1 DEF people
      <4>3. QED
        BY <2>b, <3>3, <3>4, <3>5, <3>6, <4>1, <4>2 DEF Flow
    <3>9. QED
      BY <2>0, <2>a, <3>1, <3>7, <3>8
  <2>4. ASSUME NEW r \in Runs, Rollback(r) PROVE (TypeOK /\ Flow)'
    <3>1. /\ rpc[r] = "writing" /\ rpc' = [rpc EXCEPT ![r] = "aborting"] /\ faults' = faults + 1
          /\ wFacts' = facts /\ wTodos' = todos /\ writer' = Idle
          /\ UNCHANGED <<tables, source, batch, unresolved, next, runStatus, people, decisions>>
      BY <2>4 DEF Rollback, Discard
    <3>2. writer = r
      BY <2>0, <3>1 DEF WriterTypes
    <3>3. TableTypes' /\ RunTypes' /\ PeopleTypes' /\ WriterTypes'
      BY <2>0, <3>1, <3>2 DEF TableTypes, RunTypes, PeopleTypes, WriterTypes, tables, people
    <3>4. FactsGrow(facts, facts) /\ TodosGrow(todos, todos)
      BY <2>0 DEF FactsGrow, TodosGrow, TableTypes
    <3>5. /\ \A q \in Runs : runStatus'[q] = "completed" => rpc'[q] = "over"
          /\ \A q \in Runs : rpc'[q] \in {"out", "extracting", "prepared"} => next'[q] = 1
      BY <2>0, <3>1 DEF Flow, RunTypes
    <3>6. Flow'
      BY <2>b, <3>1, <3>4, <3>5 DEF Flow, tables, people
    <3>7. QED
      BY <2>0, <2>a, <3>1, <3>3, <3>6
  <2>5. ASSUME Crash PROVE (TypeOK /\ Flow)'
    <3>1. /\ rpc' = [r \in Runs |-> IF rpc[r] = "out" THEN "out" ELSE "over"]
          /\ dpc' = [d \in Deciders |-> "idle"] /\ faults' = faults + 1
          /\ wFacts' = facts /\ wTodos' = todos /\ writer' = Idle
          /\ UNCHANGED <<tables, source, batch, unresolved, next, runStatus, chosen, choice, targets, decisions>>
      BY <2>5 DEF Crash, Discard
    <3>2. TableTypes' /\ RunTypes' /\ PeopleTypes' /\ WriterTypes'
      BY <2>0, <3>1 DEF TableTypes, RunTypes, PeopleTypes, WriterTypes, tables
    <3>3. FactsGrow(facts, facts) /\ TodosGrow(todos, todos)
      BY <2>0 DEF FactsGrow, TodosGrow, TableTypes
    <3>4. /\ \A q \in Runs : runStatus'[q] = "completed" => rpc'[q] = "over"
          /\ \A q \in Runs : rpc'[q] \in {"out", "extracting", "prepared"} => next'[q] = 1
      BY <2>0, <3>1 DEF Flow, RunTypes
    <3>5. Flow'
      BY <2>b, <3>1, <3>3, <3>4 DEF Flow, tables
    <3>6. QED
      BY <2>0, <2>a, <3>1, <3>2, <3>5
  <2>6. ASSUME NEW d \in Deciders, NEW t \in DOMAIN todos, NEW c \in Answers, Decide(d, t, c)
        PROVE  (TypeOK /\ Flow)'
    <3>1. /\ dpc[d] = "idle" /\ (todos[t].reason = "unresolved" => c = "dismiss")
          /\ dpc' = [dpc EXCEPT ![d] = "read"] /\ chosen' = [chosen EXCEPT ![d] = t]
          /\ choice' = [choice EXCEPT ![d] = c] /\ targets' = [targets EXCEPT ![d] = Bundle(t, c)]
          /\ decisions' = decisions + 1 /\ UNCHANGED <<tables, open, writer, runs, faults>>
      BY <2>6 DEF Decide
    <3>2. DOMAIN todos = 1 .. Len(todos) /\ Len(todos) \in Nat
      BY <2>0 DEF TableTypes
    <3>3. Bundle(t, c) \subseteq 1 .. Len(todos)
          /\ \A k \in Bundle(t, c) : c = "dismiss" \/ todos[k].reason # "unresolved"
      BY <3>1, <3>2 DEF Bundle
    <3>4. TableTypes' /\ RunTypes' /\ WriterTypes'
      BY <2>0, <3>1 DEF TableTypes, RunTypes, WriterTypes, PeopleTypes, tables, open, runs
    <3>5. PeopleTypes'
      BY <2>0, <3>1, <3>2, <3>3 DEF PeopleTypes
    <3>6. \A e \in Deciders : dpc'[e] # "idle" =>
             \A k \in targets'[e] : /\ k \in 1 .. Len(todos)
                                    /\ choice'[e] = "dismiss" \/ todos[k].reason # "unresolved"
      BY <2>0, <3>1, <3>3 DEF Flow, PeopleTypes
    <3>7. Flow'
      BY <3>1, <3>6 DEF Flow, tables, open, runs
    <3>8. QED
      BY <2>0, <2>a, <3>1, <3>4, <3>5, <3>7
  <2>7. ASSUME NEW d \in Deciders, BeginDecision(d) PROVE (TypeOK /\ Flow)'
    <3>1. /\ dpc[d] = "read" /\ dpc' = [dpc EXCEPT ![d] = "writing"]
          /\ writer = Idle /\ writer' = d
          /\ UNCHANGED <<tables, open, runs, chosen, choice, targets, decisions, faults>>
      BY <2>7 DEF BeginDecision, Begin
    <3>2. TableTypes' /\ RunTypes' /\ PeopleTypes' /\ WriterTypes'
      BY <2>0, <3>1 DEF TableTypes, RunTypes, PeopleTypes, WriterTypes, tables, open, runs
    <3>3. Flow'
      BY <2>0, <3>1 DEF Flow, PeopleTypes, tables, open, runs
    <3>4. QED
      BY <2>0, <2>a, <3>1, <3>2, <3>3
  <2>8. ASSUME NEW d \in Deciders, DecideTarget(d) PROVE (TypeOK /\ Flow)'
    <3>1. /\ dpc[d] = "writing" /\ targets' = [targets EXCEPT ![d] = @ \ {NextTarget(d)}]
          /\ UNCHANGED <<tables, writer, runs, dpc, chosen, choice, decisions, faults>>
      BY <2>8 DEF DecideTarget
    <3>2. writer = d
      BY <2>0, <3>1 DEF WriterTypes
    <3>3. Sound(wFacts', wTodos') /\ FactsGrow(wFacts, wFacts') /\ TodosGrow(wTodos, wTodos')
      BY <2>8, DecideTargetIsSound
    <3>4. TableTypes'
      BY <2>0, <3>1, <3>3 DEF TableTypes, Sound, tables
    <3>5. FactsGrow(facts, wFacts') /\ TodosGrow(todos, wTodos')
      BY <2>0, <3>1, <3>3, <3>4, FactsGrowFurther, TodosGrowFurther DEF Flow, TableTypes, tables
    <3>6. WriterTypes' /\ RunTypes' /\ PeopleTypes'
      BY <2>0, <3>1, <3>2 DEF WriterTypes, RunTypes, PeopleTypes, runs
    <3>7. Flow'
      BY <2>0, <3>1, <3>3, <3>5 DEF Flow, PeopleTypes, tables, runs
    <3>8. QED
      BY <2>0, <2>a, <3>1, <3>4, <3>6, <3>7
  <2>9. ASSUME NEW d \in Deciders, FinishDecision(d) PROVE (TypeOK /\ Flow)'
    <3>1. /\ dpc[d] = "writing" /\ dpc' = [dpc EXCEPT ![d] = "idle"]
          /\ facts' = wFacts /\ wFacts' = wFacts /\ todos' = wTodos /\ wTodos' = wTodos /\ writer' = Idle
          /\ UNCHANGED <<runs, chosen, choice, targets, decisions, faults>>
      BY <2>9 DEF FinishDecision, Commit
    <3>2. writer = d
      BY <2>0, <3>1 DEF WriterTypes
    <3>3. TableTypes' /\ RunTypes' /\ PeopleTypes' /\ WriterTypes'
      BY <2>0, <3>1, <3>2 DEF TableTypes, RunTypes, PeopleTypes, WriterTypes, runs
    <3>4. \A e \in Deciders : dpc'[e] # "idle" => dpc[e] # "idle"
      BY <2>0, <3>1 DEF PeopleTypes
    <3>5. Flow'
      BY <2>b, <3>1, <3>4 DEF Flow, runs
    <3>6. QED
      BY <2>0, <2>a, <3>1, <3>3, <3>5
  <2>10. CASE UNCHANGED vars
    <3>1. TypeOK'
      BY <2>10 DEF vars, tables, open, runs, people, TypeOK
    <3>2. Flow'
      BY <2>10 DEF vars, tables, open, runs, people, Flow
    <3>3. QED
      BY <3>1, <3>2
  <2>11. QED
    BY <2>1, <2>2, <2>3, <2>4, <2>5, <2>6, <2>7, <2>8, <2>9, <2>10 DEF Next, RunStep, DecideStep
<1>3. QED
  BY <1>1, <1>2, PTL DEF Spec

\* At most one automatic fact of a coordinate ever exists, whatever runs commit in what order.
THEOREM LedgerOneAuto == Spec => []OneAutoPerCoordinate
<1>1. TypeOK => DOMAIN facts = 1 .. Len(facts)
  BY DEF TypeOK
<1>2. TypeOK /\ Flow => OneAutoPerCoordinate
  BY <1>1 DEF Flow, Sound, OneAuto, OneAutoPerCoordinate
<1>3. QED
  BY <1>2, LedgerInvariant, PTL

\* Only a later decision about the same coordinate closes a fact.
THEOREM LedgerReplaced == Spec => []SupersededByDecision
<1>1. TypeOK => DOMAIN facts = 1 .. Len(facts)
  BY DEF TypeOK
<1>2. TypeOK /\ Flow => SupersededByDecision
  BY <1>1 DEF Flow, Sound, Replaced, SupersededByDecision
<1>3. QED
  BY <1>2, LedgerInvariant, PTL

\* A coordinate that has a fact keeps a current one.
THEOREM LedgerHasCurrent == Spec => []CoordinateKeepsFact
<1>1. TypeOK /\ Flow => CoordinateKeepsFact
  <2> SUFFICES ASSUME TypeOK, Flow, NEW i \in DOMAIN facts PROVE CurrentFact(facts, facts[i].at) # 0
    BY DEF CoordinateKeepsFact
  <2>1. facts \in Seq(Fact) /\ i \in 1 .. Len(facts)
    BY DEF TypeOK
  <2>2. PICK k \in 1 .. Len(facts) : facts[k].at = facts[i].at /\ facts[k].by = 0
    BY <2>1 DEF Flow, Sound, HasCurrent
  <2>3. QED
    BY <2>1, <2>2, CurrentFactIs
<1>2. QED
  BY <1>1, LedgerInvariant, PTL

-----------------------------------------------------------------------------
\* What is on record stays on record when the tables grow.
LEMMA KeptFurther ==
    ASSUME NEW f, NEW g, NEW t, NEW u, NEW c, NEW s, f \in Seq(Fact), g \in Seq(Fact),
           t \in Seq(Todo), u \in Seq(Todo), FactsGrow(f, g), TodosGrow(t, u), Kept(f, t, c, s)
    PROVE  Kept(g, u, c, s)
<1>1. Len(f) \in Nat /\ Len(g) \in Nat /\ Len(t) \in Nat /\ Len(u) \in Nat
  OBVIOUS
<1>2. ASSUME NEW i \in 1 .. Len(f), Says(f[i], c) PROVE Kept(g, u, c, s)
  <2>1. i \in 1 .. Len(g) /\ Says(g[i], c)
    BY <1>1, <1>2 DEF FactsGrow, Says
  <2>2. QED
    BY <2>1 DEF Kept
<1>3. ASSUME NEW k \in 1 .. Len(t), SameKey(t[k], ReviewTodo(c, s, 0)) PROVE Kept(g, u, c, s)
  <2>1. k \in 1 .. Len(u) /\ SameKey(u[k], ReviewTodo(c, s, 0))
    BY <1>1, <1>3 DEF TodosGrow, SameKey
  <2>2. QED
    BY <2>1 DEF Kept
<1>4. QED
  BY <1>2, <1>3 DEF Kept

\* A fact x comes from the batch of run r.
From(x, r) ==
    /\ source[r] = x.source
    /\ \E n \in 1 .. Len(batch[r]) :
          Says(x, batch[r][n]) /\ ~batch[r][n].review

\* All evidence of run r is on record in tables f and t.
Accounted(f, t, r) ==
    /\ \A n \in 1 .. Len(batch[r]) : Kept(f, t, batch[r][n], source[r])
    /\ unresolved[r] => \E k \in 1 .. Len(t) : SameKey(t[k], UnresolvedTodo(source[r]))

\* Completed runs are accounted for, the one that writes up to its position, and automatic
\* facts come from either; the committed ones from completed runs only.
Evidence ==
    /\ \A r \in Runs : runStatus[r] = "completed" => Accounted(facts, todos, r)
    /\ \A r \in Runs : rpc[r] = "writing" =>
          \A n \in 1 .. Len(batch[r]) : n < next[r] => Kept(wFacts, wTodos, batch[r][n], source[r])
    /\ \A i \in 1 .. Len(facts) : facts[i].mode = "auto" =>
          \E r \in Runs : runStatus[r] = "completed" /\ From(facts[i], r)
    /\ \A i \in 1 .. Len(wFacts) : wFacts[i].mode = "auto" =>
          \E r \in Runs : (runStatus[r] = "completed" \/ rpc[r] = "writing") /\ From(wFacts[i], r)

\* The invariant behind EvidenceOnRecord and AutoFactsHaveRuns.
THEOREM LedgerEvidence == Spec => []Evidence
<1>1. Init => Evidence
  BY DEF Init, Evidence
<1>2. TypeOK /\ Flow /\ (TypeOK /\ Flow)' /\ Evidence /\ [Next]_vars => Evidence'
  <2> SUFFICES ASSUME TypeOK, Flow, (TypeOK /\ Flow)', Evidence, [Next]_vars PROVE Evidence'
    OBVIOUS
  <2> USE FactLedgerAssumption
  <2>0. /\ TableTypes /\ WriterTypes /\ RunTypes /\ PeopleTypes
        /\ facts' \in Seq(Fact) /\ wFacts' \in Seq(Fact) /\ todos' \in Seq(Todo) /\ wTodos' \in Seq(Todo)
    BY TypeParts DEF TypeOK
  \* Tables that grow keep what is on record of runs whose batch stays.
  <2>a. ASSUME NEW f, NEW g, NEW t, NEW u, f \in Seq(Fact), g \in Seq(Fact), t \in Seq(Todo),
               u \in Seq(Todo), FactsGrow(f, g), TodosGrow(t, u), NEW r \in Runs, Accounted(f, t, r)
        PROVE  Accounted(g, u, r)
    <3>1. \A n \in 1 .. Len(batch[r]) : Kept(g, u, batch[r][n], source[r])
      BY <2>a, KeptFurther DEF Accounted
    <3>2. ASSUME NEW k \in 1 .. Len(t), SameKey(t[k], UnresolvedTodo(source[r]))
          PROVE  \E n \in 1 .. Len(u) : SameKey(u[n], UnresolvedTodo(source[r]))
      <4>1. k \in 1 .. Len(u) /\ SameKey(u[k], UnresolvedTodo(source[r]))
        BY <2>a, <3>2 DEF TodosGrow, SameKey
      <4>2. QED
        BY <4>1
    <3>3. QED
      BY <2>a, <3>1, <3>2 DEF Accounted
  \* A step that leaves tables, transaction and finished runs alone.
  <2>b. ASSUME UNCHANGED <<tables, open, source, next>>,
               \A r \in Runs : /\ runStatus'[r] = "completed" <=> runStatus[r] = "completed"
                               /\ rpc'[r] = "writing" => rpc[r] = "writing" \/ next[r] = 1
                               /\ rpc[r] = "writing" => rpc'[r] = "writing"
                               /\ rpc[r] \in {"writing", "over"} =>
                                    batch'[r] = batch[r] /\ unresolved'[r] = unresolved[r]
        PROVE  Evidence'
    <3>1. \A r \in Runs : runStatus[r] = "completed" => batch'[r] = batch[r] /\ unresolved'[r] = unresolved[r]
      BY <2>b DEF Flow
    <3>2. \A r \in Runs : runStatus'[r] = "completed" => Accounted(facts, todos, r)'
      BY <2>b, <3>1 DEF Evidence, Accounted, tables
    <3>3. \A r \in Runs : rpc'[r] = "writing" =>
            \A n \in 1 .. Len(batch'[r]) : n < next'[r] => Kept(wFacts', wTodos', batch'[r][n], source'[r])
      BY <2>b DEF Evidence, open
    <3>4. \A i \in 1 .. Len(facts') : facts'[i].mode = "auto" =>
            \E r \in Runs : runStatus'[r] = "completed" /\ From(facts[i], r)'
      <4> SUFFICES ASSUME NEW i \in 1 .. Len(facts), facts[i].mode = "auto"
                   PROVE  \E r \in Runs : runStatus'[r] = "completed" /\ From(facts[i], r)'
        BY <2>b DEF tables
      <4>1. PICK r \in Runs : runStatus[r] = "completed" /\ From(facts[i], r)
        BY DEF Evidence
      <4>2. From(facts[i], r)'
        BY <2>b, <3>1, <4>1 DEF From, tables
      <4>3. QED
        BY <2>b, <4>1, <4>2
    <3>5. \A i \in 1 .. Len(wFacts') : wFacts'[i].mode = "auto" =>
            \E r \in Runs : (runStatus'[r] = "completed" \/ rpc'[r] = "writing") /\ From(wFacts[i], r)'
      <4> SUFFICES ASSUME NEW i \in 1 .. Len(wFacts), wFacts[i].mode = "auto"
                   PROVE  \E r \in Runs : (runStatus'[r] = "completed" \/ rpc'[r] = "writing")
                                          /\ From(wFacts[i], r)'
        BY <2>b DEF open
      <4>1. PICK r \in Runs : (runStatus[r] = "completed" \/ rpc[r] = "writing") /\ From(wFacts[i], r)
        BY DEF Evidence
      <4>2. From(wFacts[i], r)'
        BY <2>b, <3>1, <4>1 DEF From, open
      <4>3. QED
        BY <2>b, <4>1, <4>2
    <3>6. QED
      BY <2>b, <3>2, <3>3, <3>4, <3>5 DEF Evidence, tables, open
  <2>1. ASSUME NEW r \in Runs, StartRun(r) \/ Extract(r) \/ Abort(r) \/ BeginCommit(r) PROVE Evidence'
    <3>1. UNCHANGED <<tables, open, source, next>>
      BY <2>1 DEF StartRun, Extract, Abort, BeginCommit
    <3>2. ASSUME NEW q \in Runs
          PROVE  /\ runStatus'[q] = "completed" <=> runStatus[q] = "completed"
                 /\ rpc'[q] = "writing" => rpc[q] = "writing" \/ next[q] = 1
                 /\ rpc[q] = "writing" => rpc'[q] = "writing"
                 /\ rpc[q] \in {"writing", "over"} => batch'[q] = batch[q] /\ unresolved'[q] = unresolved[q]
      BY <2>0, <2>1 DEF StartRun, Extract, Abort, BeginCommit, RunTypes, Flow
    <3>3. QED
      BY <2>b, <3>1, <3>2
  <2>2. ASSUME NEW d \in Deciders, (\E t \in DOMAIN todos, c \in Answers : Decide(d, t, c)) \/ BeginDecision(d)
        PROVE  Evidence'
    <3>1. UNCHANGED <<tables, open, runs>>
      BY <2>2 DEF Decide, BeginDecision
    <3>2. QED
      BY <2>b, <3>1 DEF runs
  <2>3. ASSUME NEW r \in Runs, ConsolidateNext(r) PROVE Evidence'
    <3> DEFINE c == batch[r][next[r]]
    <3>1. /\ rpc[r] = "writing" /\ next[r] <= Len(batch[r]) /\ next' = [next EXCEPT ![r] = @ + 1]
          /\ UNCHANGED <<tables, writer, rpc, source, batch, unresolved, runStatus>>
      BY <2>3 DEF ConsolidateNext
    <3>2. /\ FactsGrow(wFacts, wFacts') /\ TodosGrow(wTodos, wTodos') /\ Kept(wFacts', wTodos', c, source[r])
          /\ \A i \in 1 .. Len(wFacts') : i \in 1 .. Len(wFacts) \/
                 /\ Says(wFacts'[i], c)
                 /\ wFacts'[i].source = source[r] /\ ~c.review
      BY <2>3, ConsolidateIsSound
    <3>3. \A q \in Runs : rpc[q] = "writing" => q = r
      BY <2>0, <3>1 DEF WriterTypes
    <3>4. next[r] \in 1 .. Len(batch[r]) /\ next'[r] = next[r] + 1 /\ Len(batch[r]) \in Nat
      BY <2>0, <3>1 DEF RunTypes
    <3>5. ASSUME NEW n \in 1 .. Len(batch[r]), n < next'[r] PROVE Kept(wFacts', wTodos', batch[r][n], source[r])
      <4>1. CASE n = next[r]
        BY <3>2, <4>1
      <4>2. CASE n < next[r]
        <5>1. Kept(wFacts, wTodos, batch[r][n], source[r])
          BY <3>1, <4>2 DEF Evidence
        <5>2. QED
          BY <5>1, <2>0, <3>2, KeptFurther DEF TableTypes
      <4>3. QED
        BY <3>4, <3>5, <4>1, <4>2
    <3>6. ASSUME NEW i \in 1 .. Len(wFacts'), wFacts'[i].mode = "auto"
          PROVE  \E q \in Runs : (runStatus[q] = "completed" \/ rpc[q] = "writing") /\ From(wFacts'[i], q)
      <4>1. CASE i \in 1 .. Len(wFacts)
        <5>1. PICK q \in Runs : (runStatus[q] = "completed" \/ rpc[q] = "writing") /\ From(wFacts[i], q)
          BY <3>2, <3>6, <4>1 DEF Evidence, FactsGrow
        <5>2. From(wFacts'[i], q)
          BY <3>2, <4>1, <5>1 DEF From, FactsGrow, Says
        <5>3. QED
          BY <5>1, <5>2
      <4>2. CASE i \notin 1 .. Len(wFacts)
        BY <3>1, <3>2, <3>4, <4>2 DEF From
      <4>3. QED
        BY <4>1, <4>2
    <3>7. QED
      BY <3>1, <3>3, <3>5, <3>6 DEF Evidence, Accounted, From, tables
  <2>4. ASSUME NEW d \in Deciders, DecideTarget(d) PROVE Evidence'
    <3>1. dpc[d] = "writing" /\ UNCHANGED <<tables, writer, runs>>
      BY <2>4 DEF DecideTarget
    <3>2. /\ FactsGrow(wFacts, wFacts') /\ TodosGrow(wTodos, wTodos')
          /\ \A i \in 1 .. Len(wFacts') : i \in 1 .. Len(wFacts) \/ wFacts'[i].mode = "manual"
      BY <2>4, DecideTargetIsSound
    <3>3. \A q \in Runs : rpc[q] # "writing"
      BY <2>0, <3>1 DEF WriterTypes
    <3>4. ASSUME NEW i \in 1 .. Len(wFacts'), wFacts'[i].mode = "auto"
          PROVE  \E q \in Runs : runStatus[q] = "completed" /\ From(wFacts'[i], q)
      <4>1. i \in 1 .. Len(wFacts)
        BY <3>2, <3>4
      <4>2. PICK q \in Runs : runStatus[q] = "completed" /\ From(wFacts[i], q)
        BY <3>2, <3>3, <3>4, <4>1 DEF Evidence, FactsGrow
      <4>3. From(wFacts'[i], q)
        BY <3>2, <4>1, <4>2 DEF From, FactsGrow, Says
      <4>4. QED
        BY <4>2, <4>3
    <3>5. QED
      BY <3>1, <3>3, <3>4 DEF Evidence, Accounted, From, tables, runs
  \* A roll-back: the transaction's tables are the committed ones again and nobody writes.
  <2>c. ASSUME UNCHANGED <<tables, source, batch, unresolved, runStatus>>, wFacts' = facts, wTodos' = todos,
               \A r \in Runs : rpc'[r] # "writing"
        PROVE  Evidence'
    BY <2>c DEF Evidence, Accounted, From, tables
  <2>5. ASSUME NEW r \in Runs, Rollback(r) PROVE Evidence'
    <3>1. \A q \in Runs : rpc'[q] # "writing"
      BY <2>0, <2>5 DEF Rollback, WriterTypes, RunTypes
    <3>2. QED
      BY <2>5, <2>c, <3>1 DEF Rollback, Discard
  <2>6. CASE Crash
    <3>1. \A q \in Runs : rpc'[q] # "writing"
      BY <2>6 DEF Crash
    <3>2. QED
      BY <2>6, <2>c, <3>1 DEF Crash, Discard
  <2>7. ASSUME NEW r \in Runs, FinishCommit(r) PROVE Evidence'
    <3> DEFINE t == IF unresolved[r] THEN Handed(wTodos, UnresolvedTodo(source[r])) ELSE wTodos
    <3>1. /\ rpc[r] = "writing" /\ next[r] > Len(batch[r])
          /\ rpc' = [rpc EXCEPT ![r] = "over"] /\ runStatus' = [runStatus EXCEPT ![r] = "completed"]
          /\ facts' = wFacts /\ wFacts' = wFacts /\ todos' = t /\ wTodos' = t
          /\ UNCHANGED <<source, batch, unresolved, next>>
      BY <2>7 DEF FinishCommit, Commit
    <3>2. /\ TodosGrow(wTodos, t)
          /\ unresolved[r] => \E k \in 1 .. Len(t) : SameKey(t[k], UnresolvedTodo(source[r]))
      BY FinishIsSound
    <3> HIDE DEF t
    <3>3. \A q \in Runs : rpc[q] = "writing" => q = r
      BY <2>0, <3>1 DEF WriterTypes
    <3>4. t \in Seq(Todo) /\ FactsGrow(wFacts, wFacts) /\ FactsGrow(facts, wFacts) /\ TodosGrow(todos, t)
      BY <2>0, <3>1, <3>2, TodosGrowFurther DEF Flow, FactsGrow, TableTypes
    <3>5. Accounted(wFacts, t, r)
      <4>1. ASSUME NEW n \in 1 .. Len(batch[r]) PROVE Kept(wFacts, t, batch[r][n], source[r])
        <5>1. n < next[r]
          BY <2>0, <3>1 DEF RunTypes
        <5>2. Kept(wFacts, wTodos, batch[r][n], source[r])
          BY <3>1, <5>1 DEF Evidence
        <5>3. QED
          BY <5>2, <2>0, <3>2, <3>4, KeptFurther DEF TableTypes
      <4>2. QED
        BY <3>2, <4>1 DEF Accounted
    <3>6. \A q \in Runs : runStatus'[q] = "completed" => Accounted(wFacts, t, q)
      <4> SUFFICES ASSUME NEW q \in Runs, runStatus'[q] = "completed", q # r
                   PROVE  Accounted(wFacts, t, q)
        BY <3>5
      <4>1. Accounted(facts, todos, q)
        BY <2>0, <3>1 DEF Evidence, RunTypes
      <4>2. QED
        BY <4>1, <2>0, <2>a, <3>4 DEF TableTypes
    <3>7. \A q \in Runs : rpc'[q] # "writing"
      BY <2>0, <3>1, <3>3 DEF RunTypes
    <3>8. \A i \in 1 .. Len(wFacts) : wFacts[i].mode = "auto" =>
             \E q \in Runs : runStatus'[q] = "completed" /\ From(wFacts[i], q)
      BY <2>0, <3>1, <3>3 DEF Evidence, RunTypes
    <3>9. QED
      BY <3>1, <3>6, <3>7, <3>8 DEF Evidence, Accounted, From
  <2>8. ASSUME NEW d \in Deciders, FinishDecision(d) PROVE Evidence'
    <3>1. /\ dpc[d] = "writing" /\ UNCHANGED runs
          /\ facts' = wFacts /\ wFacts' = wFacts /\ todos' = wTodos /\ wTodos' = wTodos
      BY <2>8 DEF FinishDecision, Commit
    <3>2. \A q \in Runs : rpc[q] # "writing"
      BY <2>0, <3>1 DEF WriterTypes
    <3>3. \A q \in Runs : runStatus[q] = "completed" => Accounted(wFacts, wTodos, q)
      BY <2>0, <2>a DEF Evidence, Flow, TableTypes
    <3>4. QED
      BY <3>1, <3>2, <3>3 DEF Evidence, Accounted, From, runs
  <2>9. CASE UNCHANGED vars
    BY <2>9, <2>b DEF vars, runs
  <2>10. QED
    BY <2>1, <2>2, <2>3, <2>4, <2>5, <2>6, <2>7, <2>8, <2>9 DEF Next, RunStep, DecideStep
<1>3. QED
  BY <1>1, <1>2, LedgerInvariant, PTL DEF Spec

\* No evidence disappears: every candidate of a completed run is a fact with its value and
\* unit, or there is a todo of its evidence and value, and an unresolved block has its todo.
THEOREM LedgerEvidenceOnRecord == Spec => []EvidenceOnRecord
<1>1. TypeOK => /\ \A x : x \in ToSet(facts) <=> \E i \in 1 .. Len(facts) : x = facts[i]
                /\ \A x : x \in ToSet(todos) <=> \E k \in 1 .. Len(todos) : x = todos[k]
                /\ \A r \in Runs : \A c : c \in ToSet(batch[r]) <=> \E n \in 1 .. Len(batch[r]) : c = batch[r][n]
  BY DEF TypeOK, ToSet
<1>2. TypeOK /\ Evidence => EvidenceOnRecord
  <2> SUFFICES ASSUME TypeOK, Evidence, NEW r \in Runs, runStatus[r] = "completed"
               PROVE  /\ \A c \in ToSet(batch[r]) :
                            \/ \E f \in ToSet(facts) : Says(f, c)
                            \/ \E t \in ToSet(todos) : SameKey(t, ReviewTodo(c, source[r], 0))
                      /\ unresolved[r] => \E t \in ToSet(todos) : SameKey(t, UnresolvedTodo(source[r]))
    BY DEF EvidenceOnRecord
  <2>1. Accounted(facts, todos, r)
    BY DEF Evidence
  <2>2. ASSUME NEW c \in ToSet(batch[r])
        PROVE  \/ \E f \in ToSet(facts) : Says(f, c)
               \/ \E t \in ToSet(todos) : SameKey(t, ReviewTodo(c, source[r], 0))
    <3>1. PICK n \in 1 .. Len(batch[r]) : c = batch[r][n]
      BY <1>1, <2>2
    <3>2. Kept(facts, todos, c, source[r])
      BY <2>1, <3>1 DEF Accounted
    <3>3. QED
      BY <1>1, <3>2 DEF Kept
  <2>3. unresolved[r] => \E t \in ToSet(todos) : SameKey(t, UnresolvedTodo(source[r]))
    BY <1>1, <2>1 DEF Accounted
  <2>4. QED
    BY <2>2, <2>3
<1>3. QED
  BY <1>2, LedgerInvariant, LedgerEvidence, PTL

\* What a run wrote before it failed, was canceled or stopped is not in the ledger: automatic
\* facts are uncritical candidates of completed runs.
THEOREM LedgerAutoFacts == Spec => []AutoFactsHaveRuns
<1>1. TypeOK => /\ \A x : x \in ToSet(facts) <=> \E i \in 1 .. Len(facts) : x = facts[i]
                /\ \A r \in Runs : \A c : c \in ToSet(batch[r]) <=> \E n \in 1 .. Len(batch[r]) : c = batch[r][n]
  BY DEF TypeOK, ToSet
<1>2. TypeOK /\ Evidence => AutoFactsHaveRuns
  <2> SUFFICES ASSUME TypeOK, Evidence, NEW x \in ToSet(facts), x.mode = "auto"
               PROVE  \E r \in Runs : /\ runStatus[r] = "completed" /\ source[r] = x.source
                                      /\ \E c \in ToSet(batch[r]) : Says(x, c) /\ ~c.review
    BY DEF AutoFactsHaveRuns
  <2>1. PICK r \in Runs : runStatus[r] = "completed" /\ From(x, r)
    BY <1>1 DEF Evidence
  <2>2. PICK n \in 1 .. Len(batch[r]) :
            Says(x, batch[r][n]) /\ ~batch[r][n].review
    BY <2>1 DEF From
  <2>3. batch[r][n] \in ToSet(batch[r])
    BY <1>1
  <2>4. QED
    BY <2>1, <2>2, <2>3 DEF From
<1>3. QED
  BY <1>2, LedgerInvariant, LedgerEvidence, PTL
=============================================================================
