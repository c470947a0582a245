---------------------------- MODULE MCPiiUnlock ----------------------------
(***************************************************************************)
(* Instances of PiiUnlock for TLC.                                         *)
(***************************************************************************)
EXTENDS PiiUnlockInv, TLC

CONSTANTS a1, a2, j1, j2

\* Each application has a job of its own.
TwoJobs == a1 :> j1 @@ a2 :> j2
\* The slots, payment rows and references are interchangeable, and so are the
\* two applications taken with their jobs.
Swap == a1 :> a2 @@ a2 :> a1 @@ j1 :> j2 @@ j2 :> j1
Symmetry == Permutations(Handlers) \union Permutations(Pays)
                \union Permutations(Refs) \union {Swap}

\* All applications are for the same job.
OneJob == [a \in Apps |-> j1]
=============================================================================
