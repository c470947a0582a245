-------------------------- MODULE ContractSigning --------------------------
(***************************************************************************)
(* From a paid placement to the confirmed hire: ContractsService           *)
(* (generateEmploymentContract, signContract, cancelContract,              *)
(* cancelContractForEmployer), the 'contract.fully-executed' listener and  *)
(* JobApplicationsService.confirmHire.                                     *)
(*                                                                         *)
(* Every handler loads a contracts row, decides on that copy, waits (for   *)
(* an upload, a rendering) and saves the copy; nothing locks the row.      *)
(* An action is the code between two awaits.  The application has been     *)
(* paid for (PiiUnlock models how), so confirmHire's piiUnlocked check     *)
(* passes; the employer's status endpoint, also in PiiUnlock, is left out. *)
(***************************************************************************)
EXTENDS Naturals, FiniteSets, RowSave

CONSTANTS
    Employees,    \* employees rows, each with its one job application
    Contracts,    \* contracts rows
    OwnerOf,      \* Contract.employeeId
    Schedulable,  \* employees whose dates buildProbationSchedule accepts
    Handlers,     \* slots for requests in progress
    MaxEvents,    \* bound on listener calls in progress per employee
    MaxFaults,    \* bound on failed requests and process crashes
    None          \* null

Party == {"employer", "employee"}

\* "NONE": never inserted; "REMOVED": deleted.
ContractStatus == {"NONE", "PENDING_SIGNATURES", "EMPLOYER_SIGNED",
                   "EMPLOYEE_SIGNED", "FULLY_EXECUTED", "CANCELLED", "REMOVED"}
Uncompleted == {"PENDING_SIGNATURES", "EMPLOYER_SIGNED", "EMPLOYEE_SIGNED"}

ASSUME ContractAssumption ==
    /\ OwnerOf \in [Contracts -> Employees]
    /\ Schedulable \subseteq Employees
    /\ MaxEvents \in Nat
    /\ MaxFaults \in Nat
    /\ None \notin Contracts \union Employees
    /\ None \notin [status : ContractStatus, signed : SUBSET Party]

VARIABLES
    contract,  \* contracts: status, and which SignedAt columns are set
    app,       \* JobApplication.status of each employee
    employee,  \* Employee.status
    events,    \* 'contract.fully-executed' listener calls not yet finished
    req,       \* the requests in progress and their local variables
    faults,    \* failures so far
    asked      \* history: the parties that have asked to sign each contract

vars == <<contract, app, employee, events, req, faults, asked>>

ContractRow == [status : ContractStatus, signed : SUBSET Party]
AppStatus == {"PAYMENT_COMPLETE", "CONTRACT_SIGNED", "HIRED"}
Request == [op : {"none", "generate", "sign", "void", "cancel", "hire"},
            pc : {"idle", "insert", "mark", "reload", "write", "hireReload",
                  "hireWrite", "find", "remove", "activate"},
            contract : Contracts \union {None},
            employee : Employees \union {None},
            mem : ContractRow \union {None}, snap : ContractRow \union {None},
            appSnap : AppStatus \union {None}]

TypeOK ==
    /\ contract \in [Contracts -> ContractRow]
    /\ app \in [Employees -> AppStatus]
    /\ employee \in [Employees -> {"ONBOARDING", "ACTIVE"}]
    /\ events \in [Employees -> 0..MaxEvents]
    /\ req \in [Handlers -> Request]
    /\ faults \in 0..MaxFaults
    /\ asked \in [Contracts -> SUBSET Party]

NoRequest == [op |-> "none", pc |-> "idle", contract |-> None,
              employee |-> None, mem |-> None, snap |-> None, appSnap |-> None]

Init ==
    /\ contract = [c \in Contracts |-> [status |-> "NONE", signed |-> {}]]
    /\ app = [e \in Employees |-> "PAYMENT_COMPLETE"]
    /\ employee = [e \in Employees |-> "ONBOARDING"]
    /\ events = [e \in Employees |-> 0]
    /\ req = [h \in Handlers |-> NoRequest]
    /\ faults = 0
    /\ asked = [c \in Contracts |-> {}]

At(h, pc) == req[h].pc = pc

Start(h, r) ==
    /\ At(h, "idle")
    /\ req' = [req EXCEPT ![h] = r]

Goto(h, pc) == req' = [req EXCEPT ![h].pc = pc]

Return(h) == req' = [req EXCEPT ![h] = NoRequest]

Exists(c) == contract[c].status \notin {"NONE", "REMOVED"}
ContractsOf(e) == {c \in Contracts : OwnerOf[c] = e /\ Exists(c)}
Unused(e) == {c \in Contracts : OwnerOf[c] = e /\ contract[c].status = "NONE"}

-----------------------------------------------------------------------------
\* generateEmploymentContract, on the payment's event or by hand.

\* Bound: a contract is generated while Contracts has a row for it.
Room(e) == Cardinality({h \in Handlers : At(h, "insert") /\ req[h].employee = e})
             < Cardinality(Unused(e))

\* The lookup takes any contract of the employee: a live one is returned, a
\* cancelled one or none lets a new contract be rendered and inserted.
GenerateFind(h, e) ==
    /\ \/ ContractsOf(e) = {}
       \/ \E c \in ContractsOf(e) : contract[c].status = "CANCELLED"
    /\ Room(e)
    /\ Start(h, [NoRequest EXCEPT !.op = "generate", !.pc = "insert",
                                  !.employee = e])
    /\ UNCHANGED <<contract, app, employee, events, faults, asked>>

GenerateInsert(h) ==
    /\ At(h, "insert")
    /\ \E c \in Unused(req[h].employee) :
         contract' = [contract EXCEPT ![c].status = "PENDING_SIGNATURES"]
    /\ Return(h)
    /\ UNCHANGED <<app, employee, events, faults, asked>>

-----------------------------------------------------------------------------
\* signContract.

\* Mutant of SignedStatus: the check for both signatures is left to the
\* employee's branch.
SignedStatusByEmployee(signed, party) ==
    IF party = "employer" THEN "EMPLOYER_SIGNED"
    ELSE IF signed = Party THEN "FULLY_EXECUTED" ELSE "EMPLOYEE_SIGNED"

\* The status after party has signed, whatever it was before.
SignedStatus(signed, party) ==
    IF signed = Party THEN "FULLY_EXECUTED"
    ELSE IF party = "employer" THEN "EMPLOYER_SIGNED" ELSE "EMPLOYEE_SIGNED"

\* The row in memory once party has signed it.
Signed(row, party) == [status |-> SignedStatus(row.signed \union {party}, party),
                       signed |-> row.signed \union {party}]

\* Mutant of SignLoad: the other party's columns are filled in too.
SignLoadForBoth(h, c, party) ==
    /\ Exists(c) /\ party \notin contract[c].signed
    /\ Start(h, [NoRequest EXCEPT
                   !.op = "sign", !.pc = "mark", !.contract = c,
                   !.mem = [status |-> "FULLY_EXECUTED", signed |-> Party]])
    /\ asked' = [asked EXCEPT ![c] = @ \union {party}]
    /\ UNCHANGED <<contract, app, employee, events, faults>>

\* A party that has not signed the row it loads; its status is not looked at.
SignLoad(h, c, party) ==
    /\ Exists(c) /\ party \notin contract[c].signed
    /\ Start(h, [NoRequest EXCEPT !.op = "sign", !.pc = "mark", !.contract = c,
                                  !.mem = Signed(contract[c], party)])
    /\ asked' = [asked EXCEPT ![c] = @ \union {party}]
    /\ UNCHANGED <<contract, app, employee, events, faults>>

\* Mutant of SignMark: every signature emits the event.
SignMarkAlways(h) ==
    /\ At(h, "mark")
    /\ LET e == OwnerOf[req[h].contract] IN
         /\ events[e] < MaxEvents
         /\ events' = [events EXCEPT ![e] = @ + 1]
    /\ Goto(h, "reload")
    /\ UNCHANGED <<contract, app, employee, faults, asked>>

\* Mutant of SignMark: the event is not emitted.
SignMarkSilent(h) ==
    /\ At(h, "mark")
    /\ Goto(h, "reload")
    /\ UNCHANGED <<contract, app, employee, events, faults, asked>>

\* After the upload: with both signatures in memory the event is emitted,
\* before the row is saved.
SignMark(h) ==
    /\ At(h, "mark")
    /\ IF req[h].mem.signed = Party
       THEN LET e == OwnerOf[req[h].contract] IN
              /\ events[e] < MaxEvents
              /\ events' = [events EXCEPT ![e] = @ + 1]
       ELSE UNCHANGED events
    /\ Goto(h, "reload")
    /\ UNCHANGED <<contract, app, employee, faults, asked>>

-----------------------------------------------------------------------------
\* cancelContract (administrator, "void") and cancelContractForEmployer.

\* Mutant of CancelLoad: the employer's check is dropped.
CancelLoadAny(h, c, op) ==
    /\ Exists(c) /\ contract[c].status # "CANCELLED"
    /\ Start(h, [NoRequest EXCEPT
                   !.op = op, !.pc = "reload", !.contract = c,
                   !.mem = [contract[c] EXCEPT !.status = "CANCELLED"]])
    /\ UNCHANGED <<contract, app, employee, events, faults, asked>>

CancelLoad(h, c, op) ==
    /\ Exists(c) /\ contract[c].status # "CANCELLED"
    /\ op = "cancel" => contract[c].status # "FULLY_EXECUTED"
    /\ Start(h, [NoRequest EXCEPT
                   !.op = op, !.pc = "reload", !.contract = c,
                   !.mem = [contract[c] EXCEPT !.status = "CANCELLED"]])
    /\ UNCHANGED <<contract, app, employee, events, faults, asked>>

-----------------------------------------------------------------------------
\* Repository.save of a contract: a SELECT, then an UPDATE of what differs
\* from it -- or an INSERT of the whole row when the SELECT finds none.

SaveReload(h) ==
    /\ At(h, "reload")
    /\ req' = [req EXCEPT ![h].pc = "write", ![h].snap = contract[req[h].contract]]
    /\ UNCHANGED <<contract, app, employee, events, faults, asked>>

SaveContract(row, snap, mem) ==
    IF snap.status = "REMOVED" THEN mem
    ELSE IF row.status = "REMOVED" THEN row
    ELSE [status |-> SaveColumn(row.status, snap.status, mem.status),
          signed |-> {p \in Party : SaveColumn(p \in row.signed, p \in snap.signed,
                                               p \in mem.signed)}]

SaveWrite(h) ==
    /\ At(h, "write")
    /\ contract' = [contract EXCEPT ![req[h].contract] =
                                      SaveContract(@, req[h].snap, req[h].mem)]
    /\ Return(h)
    /\ UNCHANGED <<app, employee, events, faults, asked>>

-----------------------------------------------------------------------------
\* The listener finds the employee's application and sets its status, whatever
\* it has become.
ContractFullyExecuted(e) ==
    /\ events[e] > 0
    /\ events' = [events EXCEPT ![e] = @ - 1]
    /\ app' = [app EXCEPT ![e] = "CONTRACT_SIGNED"]
    /\ UNCHANGED <<contract, employee, req, faults, asked>>

-----------------------------------------------------------------------------
\* confirmHire: HIRED is saved first.

HireLoad(h, e) ==
    /\ Start(h, [NoRequest EXCEPT !.op = "hire", !.pc = "hireReload",
                                  !.employee = e])
    /\ UNCHANGED <<contract, app, employee, events, faults, asked>>

HireReload(h) ==
    /\ At(h, "hireReload")
    /\ req' = [req EXCEPT ![h].pc = "hireWrite",
                          ![h].appSnap = app[req[h].employee]]
    /\ UNCHANGED <<contract, app, employee, events, faults, asked>>

HireWrite(h) ==
    /\ At(h, "hireWrite")
    /\ app' = [app EXCEPT ![req[h].employee] =
                            SaveColumn(@, req[h].appSnap, "HIRED")]
    /\ Goto(h, "find")
    /\ UNCHANGED <<contract, employee, events, faults, asked>>

UncompletedOf(e) == {c \in ContractsOf(e) : contract[c].status \in Uncompleted}

\* Mutant of HireFind: without an uncompleted contract nothing is left to do.
HireFindOnly(h) ==
    /\ At(h, "find")
    /\ IF UncompletedOf(req[h].employee) = {}
       THEN Return(h)
       ELSE \E c \in UncompletedOf(req[h].employee) :
              req' = [req EXCEPT ![h].pc = "remove", ![h].contract = c]
    /\ UNCHANGED <<contract, app, employee, events, faults, asked>>

\* At most one uncompleted contract is found ...
HireFind(h) ==
    /\ At(h, "find")
    /\ IF UncompletedOf(req[h].employee) = {}
       THEN Goto(h, "activate")
       ELSE \E c \in UncompletedOf(req[h].employee) :
              req' = [req EXCEPT ![h].pc = "remove", ![h].contract = c]
    /\ UNCHANGED <<contract, app, employee, events, faults, asked>>

\* ... and deleted by its id, whatever its status has become.
HireRemove(h) ==
    /\ At(h, "remove")
    /\ contract' = [contract EXCEPT ![req[h].contract].status = "REMOVED"]
    /\ Goto(h, "activate")
    /\ UNCHANGED <<app, employee, events, faults, asked>>

\* buildProbationSchedule throws on dates it cannot use: the employee stays
\* ONBOARDING on a HIRED application.
HireActivate(h) ==
    /\ At(h, "activate")
    /\ employee' = [employee EXCEPT ![req[h].employee] =
                      IF req[h].employee \in Schedulable THEN "ACTIVE" ELSE @]
    /\ Return(h)
    /\ UNCHANGED <<contract, app, events, faults, asked>>

-----------------------------------------------------------------------------
\* A request dies at an await with an exception, a listener call likewise (it
\* logs the error), or the process stops.
Abort(h) ==
    /\ faults < MaxFaults
    /\ ~At(h, "idle")
    /\ Return(h)
    /\ faults' = faults + 1
    /\ UNCHANGED <<contract, app, employee, events, asked>>

ListenerFails(e) ==
    /\ faults < MaxFaults
    /\ events[e] > 0
    /\ events' = [events EXCEPT ![e] = @ - 1]
    /\ faults' = faults + 1
    /\ UNCHANGED <<contract, app, employee, req, asked>>

Crash ==
    /\ faults < MaxFaults
    /\ req' = [h \in Handlers |-> NoRequest]
    /\ events' = [e \in Employees |-> 0]
    /\ faults' = faults + 1
    /\ UNCHANGED <<contract, app, employee, asked>>

\* The steps a request takes by itself.
Continue(h) ==
    \/ GenerateInsert(h) \/ SignMark(h) \/ SaveReload(h) \/ SaveWrite(h)
    \/ HireReload(h) \/ HireWrite(h) \/ HireFind(h) \/ HireRemove(h)
    \/ HireActivate(h)

Next ==
    \/ \E h \in Handlers, e \in Employees : GenerateFind(h, e) \/ HireLoad(h, e)
    \/ \E h \in Handlers, c \in Contracts, party \in Party : SignLoad(h, c, party)
    \/ \E h \in Handlers, c \in Contracts, op \in {"void", "cancel"} :
         CancelLoad(h, c, op)
    \/ \E h \in Handlers : Continue(h) \/ Abort(h)
    \/ \E e \in Employees : ContractFullyExecuted(e) \/ ListenerFails(e)
    \/ Crash

Spec == Init /\ [][Next]_vars

\* The event loop continues accepted requests and listener calls; nothing
\* obliges users, and no fault is fair.
Fairness ==
    /\ \A h \in Handlers : WF_vars(Continue(h))
    /\ \A e \in Employees : WF_vars(ContractFullyExecuted(e))

FairSpec == Spec /\ Fairness

-----------------------------------------------------------------------------
\* Properties.

Idle == \A h \in Handlers : At(h, "idle")

\* An application becomes CONTRACT_SIGNED only when both parties have asked to
\* sign one and the same contract of the placement, although signatures can be
\* lost, contracts cancelled, deleted and brought back by overlapping saves
\* (signContract's event against the listener's unconditional update).
SignedOnlyIfBothAsked ==
    \A e \in Employees : app[e] = "CONTRACT_SIGNED" =>
        \E c \in Contracts : OwnerOf[c] = e /\ asked[c] = Party

\* No signature is stored on a contract that its party did not ask to sign
\* (the columns written by signContract and copied by every stale save).
SignatureWasAsked ==
    \A c \in Contracts : contract[c].signed \subseteq asked[c]

\* While no two requests work on one contract, the status of a contract that is
\* not cancelled says which signatures it carries (signContract's two branches
\* and its check for both).
StatusFollowsSignatures ==
    \A c \in Contracts :
        contract[c].status \in Uncompleted \union {"FULLY_EXECUTED"} =>
            contract[c].status =
                CASE contract[c].signed = {} -> "PENDING_SIGNATURES"
                  [] contract[c].signed = {"employer"} -> "EMPLOYER_SIGNED"
                  [] contract[c].signed = {"employee"} -> "EMPLOYEE_SIGNED"
                  [] OTHER -> "FULLY_EXECUTED"

\* docs/ux/03-contract-generation.md:45-46, contracts.service.ts:428: a fully
\* executed contract is left alone by everyone but the administrator who voids
\* it.  It holds while no two requests work on one contract and not when they
\* overlap.
ExecutedIsFinal ==
    [][\A c \in Contracts :
         contract[c].status = "FULLY_EXECUTED" /\ contract'[c] # contract[c] =>
           \E h \in Handlers : req[h].op = "void" /\ req[h].contract = c]_vars

-----------------------------------------------------------------------------
\* Refinement: what a row's status means, and the requests of administrators.
Phase(status) ==
    IF status = "NONE" THEN "absent"
    ELSE IF status = "REMOVED" THEN "deleted"
    ELSE IF status = "CANCELLED" THEN "cancelled" ELSE "inForce"

Phases == [c \in Contracts |-> Phase(contract[c].status)]
Signatures == [c \in Contracts |-> contract[c].signed]
Voiding == {c \in Contracts : \E h \in Handlers : req[h].op = "void"
                                                 /\ req[h].contract = c}

Ledger == INSTANCE ContractLedger WITH
            phase <- Phases, signed <- Signatures, voiding <- Voiding

\* While no two requests work on one contract, signing, cancelling, deleting and
\* hiring implement ContractLedger: whatever a request loads, uploads, emits and
\* reads again in between, it comes to one change at one moment, and the status
\* FULLY_EXECUTED that cancelContractForEmployer and confirmHire go by is kept
\* by exactly the contracts that carry both signatures.
ImplementsLedger == Ledger!Spec

\* Until something fails, whenever no request is in progress the employee of a
\* HIRED application is ACTIVE, if its dates allow a probation schedule
\* (confirmHire saves HIRED long before the employee).
HiredIsActive ==
    Idle /\ faults = 0 =>
        \A e \in Schedulable : app[e] = "HIRED" => employee[e] = "ACTIVE"

\* With one request at a time, a fully executed contract leads to the
\* application being CONTRACT_SIGNED (or HIRED by an employer who did not
\* wait), unless something failed.
ExecutionReachesApplication ==
    \A c \in Contracts : contract[c].status = "FULLY_EXECUTED"
        ~> (app[OwnerOf[c]] \in {"CONTRACT_SIGNED", "HIRED"} \/ faults > 0)
=============================================================================
