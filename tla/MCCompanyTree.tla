--------------------------- MODULE MCCompanyTree ---------------------------
(***************************************************************************)
(* Two versions of one template pack, and another manifest that claims the *)
(* version of the first.  The second version has a leaf the first lacks.   *)
(***************************************************************************)
EXTENDS CompanyTree

MCVersion  == [p \in Packs |-> IF p = "v2" THEN 2 ELSE 1]
MCLeavesOf == [p \in Packs |-> IF p = "v2" THEN {"l1", "l2"} ELSE {"l1"}]
MCReleases == <<"v1", "v2">>
=============================================================================
