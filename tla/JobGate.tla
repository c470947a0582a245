------------------------------ MODULE JobGate ------------------------------
(***************************************************************************)
(* The abstract promise of the payment gate: the contact details of an     *)
(* application are shown to the employer only on a job whose commission    *)
(* the payment gateway has charged.  It says nothing of requests, payment  *)
(* rows or webhooks; PiiUnlock implements it.                              *)
(***************************************************************************)
CONSTANTS
    Apps,   \* job applications
    Jobs,   \* jobs
    JobOf   \* the job of each application

VARIABLES
    charged,   \* jobs with a successful charge at the gateway
    open       \* applications whose contact details are unlocked

vars == <<charged, open>>

Init == charged = {} /\ open = {}

\* The gateway charges an employer for a job.
Charge(j) ==
    /\ charged' = charged \union {j}
    /\ UNCHANGED open

\* Applications of charged jobs are unlocked.
Open(S) ==
    /\ S \subseteq {a \in Apps : JobOf[a] \in charged}
    /\ open' = open \union S
    /\ UNCHANGED charged

\* An application is locked again: the promise does not exclude it.
Close(a) ==
    /\ open' = open \ {a}
    /\ UNCHANGED charged

Next ==
    \/ \E j \in Jobs : Charge(j)
    \/ \E S \in SUBSET Apps : Open(S)
    \/ \E a \in Apps : Close(a)

Spec == Init /\ [][Next]_vars
=============================================================================
