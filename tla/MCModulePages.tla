--------------------------- MODULE MCModulePages ----------------------------
\* Instances of ModulePages for TLC.
EXTENDS ModulePages, TLC

\* Two modules, a fact of each job in the first and one more of the first job in the second.
TwoModules == {1, 2}
Imported   == {"f1", "f2", "h1"}
InModule   == [f \in {"f1", "f2", "h1", "g1"} |-> IF f = "h1" THEN 2 ELSE 1]
InJob      == [f \in Imported |-> IF f = "f2" THEN "j2" ELSE "j1"]

\* What an update keeps in local variables is gone when it has returned.
LiveState ==
    <<ledger, pages, holder, pc, versions, failures, requests,
      IF holder = Free THEN <<>>
      ELSE <<snapshot[holder], todo[holder], failed[holder],
             IF pc[holder] = "publish" THEN <<staged>> ELSE <<>> >> >>
=============================================================================
