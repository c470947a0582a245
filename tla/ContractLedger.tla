--------------------------- MODULE ContractLedger ---------------------------
(***************************************************************************)
(* The abstract promise of contract signing: a contract is in force or it  *)
(* is not, and executed is to be in force with every party's signature.    *)
(* A signature is stored once, on its party's demand; an executed contract *)
(* ends only on an administrator's demand; an application is signed when   *)
(* every party has asked to sign one and the same contract of it.  Each of *)
(* these happens at once: there is no request, no copy of a row and no     *)
(* status to keep in step with the signatures.  ContractSigning implements *)
(* it while no two requests work on one contract.                          *)
(***************************************************************************)
CONSTANTS
    Contracts,   \* contracts
    Employees,   \* placements, each with its one application
    OwnerOf,     \* the placement of each contract
    Party        \* those who have to sign

VARIABLES
    phase,    \* "absent", "inForce", "cancelled" or "deleted"
    signed,   \* the parties whose signatures a contract carries
    asked,    \* the parties that have asked to sign it
    voiding,  \* contracts an administrator is having cancelled
    app       \* the applications

vars == <<phase, signed, asked, voiding, app>>

Init ==
    /\ phase = [c \in Contracts |-> "absent"]
    /\ signed = [c \in Contracts |-> {}]
    /\ asked = [c \in Contracts |-> {}]
    /\ voiding = {}
    /\ app = [e \in Employees |-> "PAYMENT_COMPLETE"]

Executed(c) == phase[c] = "inForce" /\ signed[c] = Party

Generate(c) ==
    /\ phase[c] = "absent"
    /\ phase' = [phase EXCEPT ![c] = "inForce"]
    /\ UNCHANGED <<signed, asked, voiding, app>>

\* A party asks to sign a contract that lacks its signature ...
Ask(c, party) ==
    /\ phase[c] \in {"inForce", "cancelled"}
    /\ party \notin signed[c]
    /\ asked' = [asked EXCEPT ![c] = @ \union {party}]
    /\ UNCHANGED <<phase, signed, voiding, app>>

\* ... and may come to sign it, which puts a cancelled one in force again.
Sign(c, party) ==
    /\ phase[c] \in {"inForce", "cancelled"}
    /\ party \in asked[c] \ signed[c]
    /\ signed' = [signed EXCEPT ![c] = @ \union {party}]
    /\ phase' = [phase EXCEPT ![c] = "inForce"]
    /\ UNCHANGED <<asked, voiding, app>>

\* An administrator begins to have a contract cancelled, or gives up.
StartVoid(c) ==
    /\ phase[c] = "inForce"
    /\ voiding' = voiding \union {c}
    /\ UNCHANGED <<phase, signed, asked, app>>

GiveUpVoid(S) ==
    /\ voiding' = voiding \ S
    /\ UNCHANGED <<phase, signed, asked, app>>

\* The employer may cancel a contract that is not executed.
Cancel(c) ==
    /\ phase[c] = "inForce"
    /\ Executed(c) => c \in voiding
    /\ phase' = [phase EXCEPT ![c] = "cancelled"]
    /\ voiding' = voiding \ {c}
    /\ UNCHANGED <<signed, asked, app>>

\* The hire deletes a contract that never came to be executed.
Delete(c) ==
    /\ phase[c] = "inForce" /\ ~Executed(c)
    /\ phase' = [phase EXCEPT ![c] = "deleted"]
    /\ UNCHANGED <<signed, asked, voiding, app>>

Agreed(e) ==
    /\ \E c \in Contracts : OwnerOf[c] = e /\ asked[c] = Party
    /\ app' = [app EXCEPT ![e] = "CONTRACT_SIGNED"]
    /\ UNCHANGED <<phase, signed, asked, voiding>>

Hire(e) ==
    /\ app' = [app EXCEPT ![e] = "HIRED"]
    /\ UNCHANGED <<phase, signed, asked, voiding>>

Next ==
    \/ \E c \in Contracts : Generate(c) \/ StartVoid(c) \/ Cancel(c) \/ Delete(c)
    \/ \E c \in Contracts, party \in Party : Ask(c, party) \/ Sign(c, party)
    \/ \E S \in SUBSET Contracts : GiveUpVoid(S)
    \/ \E e \in Employees : Agreed(e) \/ Hire(e)

Spec == Init /\ [][Next]_vars
=============================================================================
