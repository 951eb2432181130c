--------------------------- MODULE MCNotesPublish ---------------------------
\* Two jobs, three notes, two leaves; the second job may have nothing to publish, and its note is
\* then evidence from before.
EXTENDS NotesPublish, TLC

CONSTANTS j1, j2, n1, n2, n3

MCJobs  == {j1, j2}
MCNotes == {n1, n2, n3}
MCNotebooks == {j1 :> {n1, n2} @@ j2 :> {n3}, j1 :> {n1, n2} @@ j2 :> {}}

MCLegacy == {n3}
MCMoves  == {<<n3, "replaced">>}

MCBudget == j1 :> 3 @@ j2 :> 2
MCFiveCalls == [j \in MCJobs |-> 5]

MCCompareRetries == j1 :> 2 @@ j2 :> 1

MCMaxRuns == j1 :> 2 @@ j2 :> 1
MCThreeRuns == j1 :> 3 @@ j2 :> 0

\* A run without the lease can only vanish: states that differ in such runs are taken as one.
Held(j, g) == IF Holds(j, g) \/ pc[j][g] = "refused" THEN <<pc[j][g], memory[j][g]>> ELSE <<"off">>
LiveView == <<verified, lease, checkpoint, ledger, consumed, done, spent,
              [j \in Jobs |-> [g \in Runs |-> Held(j, g)]]>>

NoteSymmetry == Permutations({n1, n2})
=============================================================================
