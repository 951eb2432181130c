---------------------------- MODULE MCFactLedger ----------------------------
\* Instances of FactLedger for TLC.
EXTENDS FactLedger, TLC

CONSTANTS c1, c2, v1, v2, u1, u2

Plain(at, v, u)  == [at |-> at, value |-> v, unit |-> u, review |-> FALSE]
Review(at, v, u) == [at |-> at, value |-> v, unit |-> u, review |-> TRUE]

\* A new value, the other value twice over two coordinates, that value as a critical one in
\* another unit, a file that contradicts itself.
ImportBatches ==
    {<<Plain(c1, v1, u1)>>, <<Plain(c1, v2, u1), Plain(c2, v2, u1)>>, <<Review(c1, v2, u2)>>,
     <<Plain(c1, v1, u1), Plain(c1, v2, u1), Review(c2, v1, u1)>>}

CriticalBatches == {<<Review(c1, v1, u1)>>}

\* One value that a span gives in two units.
TwoUnits == {<<Review(c1, v1, u1), Review(c1, v1, u2)>>}

Symmetric == Permutations(Runs) \cup Permutations(Deciders) \cup Permutations(Sources)

\* What an idle request remembers cannot influence a later step.
LiveState ==
    <<tables, open, writer, runs,
      [d \in Deciders |-> IF dpc[d] = "idle" THEN <<>> ELSE <<dpc[d], chosen[d], choice[d], targets[d]>>],
      decisions, faults>>
=============================================================================
