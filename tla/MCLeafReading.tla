--------------------------- MODULE MCLeafReading ---------------------------
\* Two documents and one leaf.  The calls of the second are few; the first can use up every
\* kind of correction and be retried.
EXTENDS LeafReading, TLC
CONSTANTS doc1, doc2
MCLast == (doc1 :> 1) @@ (doc2 :> 1)
MCLimit == (doc1 :> [p \in Phases |-> IF p \in {"leaf", "plan"} THEN 2 ELSE 1])
             @@ (doc2 :> [p \in Phases |-> 1])
MCMaxRetries == (doc1 :> 1) @@ (doc2 :> 0)
=============================================================================
