---------------------------- MODULE MCMigration ----------------------------
(***************************************************************************)
(* One plan, made while two documents are uploaded to the company, one     *)
(* behind the other or at once.  The first fact is of a file nothing       *)
(* vouches for before an upload.                                           *)
(***************************************************************************)
EXTENDS Migration, TLC

(***************************************************************************)
(* A plan that is closed never passes, and neither does one that has no    *)
(* copy, has lost its proof, or has a copy of tables that only grow and    *)
(* have grown since.  States without another plan differ in nothing the    *)
(* properties look at, and are taken as one for each state of the plans.   *)
(***************************************************************************)
Grown(i) == i.facts # facts \/ i.identities # identified \/ i.tree # writes \/ i.evidence # support
Lost(p) ==
    \/ plan[p].state \in {"expired", "rejected"} \/ ~vouched
    \/ plan[p].state # "none" /\ \A i \in plan[p].copy : Grown(i)
LiveView == IF \A p \in Plans : Lost(p) THEN <<[p \in Plans |-> plan[p].state]>> ELSE migrationVars

JobSymmetry == Permutations(Uploads)
=============================================================================
