---------------------------- MODULE MCParseJobs ----------------------------
\* Instances of ParseJobs for TLC.
EXTENDS ParseJobs, TLC

ThreadSymmetry == Permutations(Clients)

\* What a finished or unused future and an idle request remember, and events nobody can
\* reach any more, cannot influence a later step: states that differ only in that are one.
ReachableEvents == {<<j, events[j]>> : j \in Jobs} \cup
                   {<<job[f], event[f]>> : f \in {g \in Futures : pc[g] \notin {"over", "unused"}}}
LiveState ==
    <<ledger, events, made, critical, attempts, reporter, raised \cap ReachableEvents,
      [f \in Futures |-> IF pc[f] \in {"over", "unused"} THEN <<pc[f]>>
                         ELSE <<pc[f], job[f], submitted[f], event[f], seen[f], failure[f],
                                escapes[f]>>],
      [c \in Clients |-> IF cpc[c] = "idle" THEN <<"idle">>
                         ELSE <<cpc[c], cjob[c], sawStatus[c], sawStage[c]>>],
      bounds, commits>>
=============================================================================
