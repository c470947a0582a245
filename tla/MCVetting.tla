----------------------------- MODULE MCVetting -----------------------------
(***************************************************************************)
(* Small instances of Vetting for TLC.                                     *)
(***************************************************************************)
EXTENDS VettingInv, TLC

CONSTANTS a1, a2, h1, h2

TwoApps == {a1, a2}
\* a2 fits the job better.
Scores == a1 :> 1 @@ a2 :> 2
=============================================================================
