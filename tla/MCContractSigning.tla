------------------------- MODULE MCContractSigning -------------------------
(***************************************************************************)
(* Small instances of ContractSigning for TLC.                             *)
(***************************************************************************)
EXTENDS ContractSigningInv, TLC

CONSTANTS e1, c1, c2, h1, h2

OneEmployee == {e1}
OneContract == {c1}
TwoContracts == {c1, c2}
OwnerOfAll == [c \in Contracts |-> e1]
Swap == Permutations(Contracts) \union Permutations(Handlers)
=============================================================================
