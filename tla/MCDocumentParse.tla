--------------------------- MODULE MCDocumentParse ---------------------------
(***************************************************************************)
(* Two companies upload the same file; which of them is which does not     *)
(* matter.                                                                 *)
(***************************************************************************)
EXTENDS DocumentParse, TLC

Companies == Permutations(Jobs)
=============================================================================
