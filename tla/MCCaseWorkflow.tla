--------------------------- MODULE MCCaseWorkflow ---------------------------
(***************************************************************************)
(* Instances of CaseViews for TLC.                                         *)
(***************************************************************************)
EXTENDS CaseViews, TLC

Symmetry == Permutations(Case) \cup Permutations(Report) \cup Permutations(Request)
=============================================================================
