---------------------------- MODULE MCEmployment ----------------------------
(***************************************************************************)
(* Small instances of Employment for TLC.                                  *)
(***************************************************************************)
EXTENDS EmploymentInv, TLC

CONSTANTS e1, h1, h2

OneEmployee == {e1}
Swap == Permutations(Handlers)
=============================================================================
