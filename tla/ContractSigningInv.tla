------------------------ MODULE ContractSigningInv -------------------------
(***************************************************************************)
(* The strengthenings of the safety properties of ContractSigning that are *)
(* inductive: when requests overlap, whatever a request holds in memory    *)
(* was asked for (IInv), and who makes an application HIRED is on his way  *)
(* to the employee (HiringIInv); while no two requests work on one         *)
(* contract, what a request relies on is still so when it writes           *)
(* (ApartIInv).  TLC checks them (MCContractSigning),                      *)
(* ContractSigningProofs proves them.                                      *)
(***************************************************************************)
EXTENDS ContractSigning

BothAsked(e) == \E c \in Contracts : OwnerOf[c] = e /\ asked[c] = Party

Editing == {"mark", "reload", "write"}
Hiring == {"hireReload", "hireWrite", "find", "remove", "activate"}

\* What the steps of a request rely on.
RequestOK(h) ==
    LET r == req[h] IN
    /\ r.pc \in Editing =>
         /\ r.contract \in Contracts
         /\ r.mem \in ContractRow
         /\ r.mem.signed \subseteq asked[r.contract]
    /\ r.pc = "write" =>
         /\ r.snap \in ContractRow
         /\ r.snap.signed \subseteq asked[r.contract]
    /\ r.pc \in Hiring \union {"insert"} => r.employee \in Employees
    /\ r.pc = "remove" => r.contract \in Contracts
    /\ r.pc = "hireWrite" => r.appSnap \in AppStatus

\* A listener call in progress was caused by two signatures asked for.
EventsOK == \A e \in Employees : events[e] > 0 => BothAsked(e)

IInv ==
    /\ TypeOK
    /\ SignatureWasAsked
    /\ EventsOK
    /\ SignedOnlyIfBothAsked
    /\ \A h \in Handlers : RequestOK(h)

-----------------------------------------------------------------------------
\* A request that has made the application of e HIRED and has yet to come to e.
Activating(e, r) == r.pc \in {"find", "remove", "activate"} /\ r.employee = e

HiringIInv ==
    faults = 0 =>
        \A e \in Schedulable : app[e] = "HIRED" =>
            employee[e] = "ACTIVE" \/ \E h \in Handlers : Activating(e, req[h])

-----------------------------------------------------------------------------
\* No two requests work on one contract.
Apart ==
    \A g, h \in Handlers :
        req[g].contract = req[h].contract /\ req[g].contract # None => g = h

\* The status of a row is the one its signatures call for.
Agrees(row) ==
    row.status \in Uncompleted \union {"FULLY_EXECUTED"} =>
        row.status = CASE row.signed = {} -> "PENDING_SIGNATURES"
                       [] row.signed = {"employer"} -> "EMPLOYER_SIGNED"
                       [] row.signed = {"employee"} -> "EMPLOYEE_SIGNED"
                       [] OTHER -> "FULLY_EXECUTED"

\* What r makes of the row it has to itself.
Changes(r, row) ==
    \/ r.op = "sign" /\ \E party \in Party \ row.signed : r.mem = Signed(row, party)
    \/ /\ r.op \in {"void", "cancel"} /\ row.status # "CANCELLED"
       /\ r.op = "cancel" => row.status # "FULLY_EXECUTED"
       /\ r.mem = [row EXCEPT !.status = "CANCELLED"]

\* The request r has the row it works on to itself.
ApartOK(r) ==
    /\ r.pc \in Editing => Exists(r.contract) /\ Changes(r, contract[r.contract])
    /\ r.pc = "write" => r.snap = contract[r.contract]
    /\ r.pc = "remove" => contract[r.contract].status \in Uncompleted
    /\ r.op = "void" => r.pc \in Editing

ApartIInv ==
    /\ \A c \in Contracts : Agrees(contract[c])
    /\ \A c \in Contracts : contract[c].status = "NONE" => contract[c].signed = {}
    /\ \A h \in Handlers : ApartOK(req[h])
=============================================================================
