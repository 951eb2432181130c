---------------------------- MODULE MCProjection ----------------------------
\* An instance of Projection for TLC.
EXTENDS Projection, TLC

Symmetric == Permutations(Uris) \cup Permutations(Clients) \cup Permutations(Facts)

\* What _write keeps is only read while its document waits to be projected.
LiveState ==
    <<ledger, index, state, published, bounds,
      [c \in Clients |-> IF pc[c] = "project" THEN <<pc[c], uri[c], wasReady[c], wrote[c]>>
                         ELSE <<pc[c]>>]>>
=============================================================================
