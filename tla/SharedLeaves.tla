---------------------------- MODULE SharedLeaves ----------------------------
(***************************************************************************)
(* What the leaves of a company promise the documents that write into them *)
(* (the contract of MDLeafPublisher.submit, facts_tree/md_publish.py):     *)
(* each writer commits to a leaf at most once; what is in a leaf stays in  *)
(* it; a commit that adds something is exactly one more version.           *)
(***************************************************************************)
EXTENDS Integers

CONSTANTS Writers,    \* windows of documents
          Leaves

VARIABLES version,    \* of each leaf
          text,       \* writers with a block in each leaf
          written     \* <<writer, leaf>> that were committed

vars == <<version, text, written>>

\* A leaf is empty, or has one version from before.
Init ==
    /\ version \in [Leaves -> {0, 1}]
    /\ text = [l \in Leaves |-> {}]
    /\ written = {}

Commit(w, l) ==
    /\ <<w, l>> \notin written
    /\ written' = written \union {<<w, l>>}
    /\ \/ UNCHANGED <<version, text>>
       \/ /\ text' = [text EXCEPT ![l] = @ \union {w}]
          /\ version' = [version EXCEPT ![l] = @ + 1]

Next == \E w \in Writers, l \in Leaves : Commit(w, l)

Spec == Init /\ [][Next]_vars
=============================================================================
