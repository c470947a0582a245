----------------------------- MODULE PiiUnlock -----------------------------
(***************************************************************************)
(* Paying to unlock the contact details (PII) of the applicants of a job:  *)
(* PaymentService.initiateActivationPayment, verifyPayment,                *)
(* processWebhookEvent and processActivationPaymentSuccess, together with  *)
(* the handlers of JobApplicationsService that load and save the same      *)
(* job_applications rows.                                                  *)
(*                                                                         *)
(* Node runs a handler without interruption between two awaits, so each    *)
(* action is the code between two awaits of one request; the requests in   *)
(* progress interleave.  Handlers is the bound on how many are in progress *)
(* at once.                                                                *)
(***************************************************************************)
EXTENDS Naturals, FiniteSets, RowSave

CONSTANTS
    Apps,          \* job_applications rows
    Jobs,
    JobOf,         \* JobApplication.jobId
    Picked,        \* applications whose candidate has an employees row
    Pays,          \* payments rows
    Refs,          \* Paystack references
    Handlers,      \* slots for requests in progress
    EmployerSets,  \* statuses the employer sends to the status endpoint
    MaxFaults,     \* bound on failed requests and process crashes
    None           \* null

\* APPLIED is one of the statuses none of these handlers compares with; it
\* stands for all of them.  "NONE": the row does not exist yet.
Status == {"NONE", "APPLIED", "OFFER_SENT", "APPLICANT_ACCEPTED",
           "PAYMENT_COMPLETE", "WITHDRAWN"}

ASSUME PiiUnlockAssumption ==
    /\ JobOf \in [Apps -> Jobs]
    /\ Picked \subseteq Apps
    /\ EmployerSets \subseteq Status \ {"NONE"}
    /\ MaxFaults \in Nat
    /\ None \notin Apps \union Pays \union Refs
    /\ None \notin [status : Status, unlocked : BOOLEAN]

VARIABLES
    app,       \* job_applications: status and piiUnlocked
    pay,       \* payments: status, applicationId, paystackReference, and
               \* whether paystackAccessCode is stored
    gateway,   \* Paystack's view of each reference
    issued,    \* the payment row a reference was generated for
    hooks,     \* charge.success webhooks Paystack still has to deliver
    confirmed, \* applications whose 'employee-activation-payment.confirmed'
               \* event has been confirmed
    req,       \* the requests in progress and their local variables
    faults     \* failures so far

vars == <<app, pay, gateway, issued, hooks, confirmed, req, faults>>

AppRow == [status : Status, unlocked : BOOLEAN]
PayRow == [status : {"NONE", "PENDING", "SUCCESS", "FAILED"},
           app : Apps \union {None}, ref : Refs \union {None}, code : BOOLEAN]

Op == {"none", "initiate", "verify", "webhook", "edit"}
Settling == {"load", "mark", "unlock", "scan", "advance", "emit"}
PC == {"idle", "findPending", "insert", "initNew", "initAgain", "storeCode",
       "storeRef", "ask", "fail", "emitOwn", "reload", "write"} \union Settling

Request == [op : Op, pc : PC, app : Apps \union {None},
            pay : Pays \union {None}, ref : Refs \union {None},
            mem : AppRow \union {None}, snap : AppRow \union {None},
            todo : SUBSET Apps]

\* "open": initialised; "shown": its access code was handed to the employer;
\* "paid": charged.
GatewayState == {"unknown", "open", "shown", "paid"}

TypeOK ==
    /\ app \in [Apps -> AppRow]
    /\ pay \in [Pays -> PayRow]
    /\ gateway \in [Refs -> GatewayState]
    /\ issued \in [Refs -> Pays \union {None}]
    /\ hooks \subseteq Refs
    /\ confirmed \subseteq Apps
    /\ req \in [Handlers -> Request]
    /\ faults \in 0..MaxFaults

NoRequest == [op |-> "none", pc |-> "idle", app |-> None, pay |-> None,
              ref |-> None, mem |-> None, snap |-> None, todo |-> {}]

Init ==
    /\ app = [a \in Apps |-> [status |-> "NONE", unlocked |-> FALSE]]
    /\ pay = [p \in Pays |-> [status |-> "NONE", app |-> None, ref |-> None,
                              code |-> FALSE]]
    /\ gateway = [r \in Refs |-> "unknown"]
    /\ issued = [r \in Refs |-> None]
    /\ hooks = {}
    /\ confirmed = {}
    /\ req = [h \in Handlers |-> NoRequest]
    /\ faults = 0

-----------------------------------------------------------------------------
\* Steps of a request.

At(h, pc) == req[h].pc = pc

Start(h, r) ==
    /\ At(h, "idle")
    /\ req' = [req EXCEPT ![h] = r]

Goto(h, pc) == req' = [req EXCEPT ![h].pc = pc]

Return(h) == req' = [req EXCEPT ![h] = NoRequest]

\* A webhook request ends with status 200 whatever happened: Paystack does not
\* send that webhook again.
Finish(h) ==
    /\ Return(h)
    /\ hooks' = IF req[h].op = "webhook" THEN hooks \ {req[h].ref} ELSE hooks

Exists(a) == app[a].status # "NONE"
PendingOf(a) == {p \in Pays : pay[p].app = a /\ pay[p].status = "PENDING"}
Unissued == {r \in Refs : issued[r] = None}
PaymentOf(r) == {p \in Pays : pay[p].ref = r}

-----------------------------------------------------------------------------
\* Mutant of Apply: the column defaults to true.
ApplyUnlocked(a) ==
    /\ ~Exists(a)
    /\ app' = [app EXCEPT ![a] = [status |-> "APPLIED", unlocked |-> TRUE]]
    /\ UNCHANGED <<pay, gateway, issued, hooks, confirmed, req, faults>>

\* applyToJob inserts a row with piiUnlocked = false, also on a job that has
\* been paid for.
Apply(a) ==
    /\ ~Exists(a)
    /\ app' = [app EXCEPT ![a].status = "APPLIED"]
    /\ UNCHANGED <<pay, gateway, issued, hooks, confirmed, req, faults>>

-----------------------------------------------------------------------------
\* initiateActivationPayment.

\* Bound: a request is accepted only while Pays and Refs have a member for what
\* it is going to need.
Room(a) ==
    /\ PendingOf(a) = {} => \E p \in Pays : pay[p].status = "NONE"
    /\ (\A p \in PendingOf(a) : ~pay[p].code) => Unissued # {}

InitiateLoad(h, a) ==
    /\ Exists(a) /\ ~app[a].unlocked
    /\ Room(a)
    /\ Start(h, [NoRequest EXCEPT !.op = "initiate", !.pc = "findPending",
                                  !.app = a])
    /\ UNCHANGED <<app, pay, gateway, issued, hooks, confirmed, faults>>

\* The access code of a reference is handed to the employer's browser.
Show(r) == gateway' = [gateway EXCEPT ![r] = IF @ = "open" THEN "shown" ELSE @]

\* A PENDING payment with an access code: the same code is returned.
InitiateReuse(h) ==
    /\ At(h, "findPending")
    /\ \E p \in PendingOf(req[h].app) :
         /\ pay[p].code
         /\ Show(pay[p].ref)
    /\ Return(h)
    /\ UNCHANGED <<app, pay, issued, hooks, confirmed, faults>>

\* A PENDING payment without one: a fresh reference for the same row.
InitiateAgain(h) ==
    /\ At(h, "findPending")
    /\ \E p \in PendingOf(req[h].app), r \in Unissued :
         /\ ~pay[p].code
         /\ issued' = [issued EXCEPT ![r] = p]
         /\ req' = [req EXCEPT ![h].pc = "initAgain", ![h].pay = p, ![h].ref = r]
    /\ UNCHANGED <<app, pay, gateway, hooks, confirmed, faults>>

InitiateNew(h) ==
    /\ At(h, "findPending")
    /\ PendingOf(req[h].app) = {}
    /\ Goto(h, "insert")
    /\ UNCHANGED <<app, pay, gateway, issued, hooks, confirmed, faults>>

InitiateInsert(h) ==
    /\ At(h, "insert")
    /\ \E p \in Pays, r \in Unissued :
         /\ pay[p].status = "NONE"
         /\ pay' = [pay EXCEPT ![p] = [status |-> "PENDING", app |-> req[h].app,
                                       ref |-> r, code |-> FALSE]]
         /\ issued' = [issued EXCEPT ![r] = p]
         /\ req' = [req EXCEPT ![h].pc = "initNew", ![h].pay = p, ![h].ref = r]
    /\ UNCHANGED <<app, gateway, hooks, confirmed, faults>>

\* initializeTransaction answers, or throws: then the row stays PENDING.
InitializeOk(h) ==
    /\ \/ At(h, "initNew") /\ Goto(h, "storeCode")
       \/ At(h, "initAgain") /\ Goto(h, "storeRef")
    /\ gateway' = [gateway EXCEPT ![req[h].ref] = IF @ = "unknown" THEN "open" ELSE @]
    /\ UNCHANGED <<app, pay, issued, hooks, confirmed, faults>>

InitializeThrows(h) ==
    /\ At(h, "initNew") \/ At(h, "initAgain")
    /\ Return(h)
    /\ UNCHANGED <<app, pay, gateway, issued, hooks, confirmed, faults>>

\* The access code is stored and handed over.  Only the
\* second form also replaces the row's reference.
StoreCode(h) ==
    /\ \/ /\ At(h, "storeCode")
          /\ pay' = [pay EXCEPT ![req[h].pay].code = TRUE]
       \/ /\ At(h, "storeRef")
          /\ pay' = [pay EXCEPT ![req[h].pay].ref = req[h].ref,
                                ![req[h].pay].code = TRUE]
    /\ Show(req[h].ref)
    /\ Return(h)
    /\ UNCHANGED <<app, issued, hooks, confirmed, faults>>

-----------------------------------------------------------------------------
\* Paystack charges the employer and owes the server a webhook.
Charge(r) ==
    /\ gateway[r] = "shown"
    /\ gateway' = [gateway EXCEPT ![r] = "paid"]
    /\ hooks' = hooks \union {r}
    /\ UNCHANGED <<app, pay, issued, confirmed, req, faults>>

\* processWebhookEvent.  Paystack may deliver a webhook again while an earlier
\* delivery is still being handled.
WebhookFind(h, r) ==
    /\ r \in hooks
    /\ \E p \in PaymentOf(r) :
         Start(h, [NoRequest EXCEPT !.op = "webhook", !.pc = "load",
                                    !.pay = p, !.ref = r])
    /\ UNCHANGED <<app, pay, gateway, issued, hooks, confirmed, faults>>

WebhookUnknown(r) ==
    /\ r \in hooks
    /\ PaymentOf(r) = {}
    /\ hooks' = hooks \ {r}
    /\ UNCHANGED <<app, pay, gateway, issued, confirmed, req, faults>>

\* verifyPayment.
VerifyFind(h, r) ==
    /\ \E p \in PaymentOf(r) :
         Start(h, [NoRequest EXCEPT !.op = "verify", !.pc = "ask",
                                    !.pay = p, !.ref = r])
    /\ UNCHANGED <<app, pay, gateway, issued, hooks, confirmed, faults>>

\* Mutant of VerifyAsk: an answer is taken for a success.
VerifyAskTrusting(h) ==
    /\ At(h, "ask")
    /\ Goto(h, "load")
    /\ UNCHANGED <<app, pay, gateway, issued, hooks, confirmed, faults>>

\* verifyTransaction throws for a reference Paystack does not know.
VerifyAsk(h) ==
    /\ At(h, "ask")
    /\ CASE gateway[req[h].ref] = "paid" -> Goto(h, "load")
         [] gateway[req[h].ref] = "unknown" -> Return(h)
         [] OTHER -> Goto(h, "fail")
    /\ UNCHANGED <<app, pay, gateway, issued, hooks, confirmed, faults>>

\* Any answer but 'success' fails the payment; the employee update that
\* follows throws, as such a payment has no employeeId.
VerifyFail(h) ==
    /\ At(h, "fail")
    /\ pay' = [pay EXCEPT ![req[h].pay].status = "FAILED"]
    /\ Return(h)
    /\ UNCHANGED <<app, gateway, issued, hooks, confirmed, faults>>

-----------------------------------------------------------------------------
\* processActivationPaymentSuccess, for the webhook and for verifyPayment.

\* Mutant of SettleLoad: any payment that is not PENDING is skipped.
SettleLoadPending(h) ==
    /\ At(h, "load")
    /\ IF pay[req[h].pay].status # "PENDING"
       THEN Finish(h)
       ELSE Goto(h, "mark") /\ UNCHANGED hooks
    /\ UNCHANGED <<app, pay, gateway, issued, confirmed, faults>>

SettleLoad(h) ==
    /\ At(h, "load")
    /\ IF pay[req[h].pay].status = "SUCCESS"
       THEN Finish(h)
       ELSE Goto(h, "mark") /\ UNCHANGED hooks
    /\ UNCHANGED <<app, pay, gateway, issued, confirmed, faults>>

\* Mutant of SettleMark: the unlock is left to the scan.
SettleMarkOnly(h) ==
    /\ At(h, "mark")
    /\ pay' = [pay EXCEPT ![req[h].pay].status = "SUCCESS"]
    /\ Goto(h, "scan")
    /\ UNCHANGED <<app, gateway, issued, hooks, confirmed, faults>>

SettleMark(h) ==
    /\ At(h, "mark")
    /\ pay' = [pay EXCEPT ![req[h].pay].status = "SUCCESS"]
    /\ Goto(h, "unlock")
    /\ UNCHANGED <<app, gateway, issued, hooks, confirmed, faults>>

\* Mutant of JobApps: the jobId criterion is lost (TypeORM drops a criterion
\* whose value is undefined).
AllApps(p) == {a \in Apps : Exists(a)}

\* The existing applications of the payment's job, whoever paid for which.
JobApps(p) == {a \in Apps : Exists(a) /\ JobOf[a] = JobOf[pay[p].app]}

SettleUnlock(h) ==
    /\ At(h, "unlock")
    /\ app' = [a \in Apps |-> IF a \in JobApps(req[h].pay)
                              THEN [app[a] EXCEPT !.unlocked = TRUE]
                              ELSE app[a]]
    /\ Goto(h, "scan")
    /\ UNCHANGED <<pay, gateway, issued, hooks, confirmed, faults>>

Accepted(p) == {a \in JobApps(p) : app[a].status = "APPLICANT_ACCEPTED"}

SettleScan(h) ==
    /\ At(h, "scan")
    /\ IF Accepted(req[h].pay) = {}
       THEN Finish(h)
       ELSE /\ req' = [req EXCEPT ![h].pc = "advance",
                                  ![h].todo = Accepted(req[h].pay)]
            /\ UNCHANGED hooks
    /\ UNCHANGED <<app, pay, gateway, issued, confirmed, faults>>

\* The update names the ids found by the scan and no status.
SettleAdvance(h) ==
    /\ At(h, "advance")
    /\ app' = [a \in Apps |-> IF a \in req[h].todo
                              THEN [app[a] EXCEPT !.status = "PAYMENT_COMPLETE"]
                              ELSE app[a]]
    /\ Goto(h, "emit")
    /\ UNCHANGED <<pay, gateway, issued, hooks, confirmed, faults>>

\* Only an application with an employees row has an event.
Emit(a) == confirmed' = confirmed \union ({a} \intersect Picked)

SettleEmit(h) ==
    /\ At(h, "emit")
    /\ \E a \in req[h].todo :
         /\ Emit(a)
         /\ IF req[h].todo = {a}
            THEN Finish(h)
            ELSE /\ req' = [req EXCEPT ![h].todo = @ \ {a}]
                 /\ UNCHANGED hooks
    /\ UNCHANGED <<app, pay, gateway, issued, faults>>

-----------------------------------------------------------------------------
\* Handlers that load an application, change its status and save it.

Edit(h, a, pc, status) ==
    /\ Start(h, [NoRequest EXCEPT !.op = "edit", !.pc = pc, !.app = a,
                                  !.mem = [app[a] EXCEPT !.status = status]])
    /\ UNCHANGED <<app, pay, gateway, issued, hooks, confirmed, faults>>

\* updateApplicationStatus takes any status the employer sends.
SetStatus(h, a) ==
    /\ Exists(a)
    /\ \E s \in EmployerSets : Edit(h, a, "reload", s)

\* Mutant of AcceptOffer: acceptance counts as payment.
AcceptOfferUnpaid(h, a) ==
    /\ app[a].status = "OFFER_SENT"
    /\ Edit(h, a, "emitOwn", "PAYMENT_COMPLETE")

\* applicantAcceptOffer within the 7 days, by the piiUnlocked it has read.
AcceptOffer(h, a) ==
    /\ app[a].status = "OFFER_SENT"
    /\ IF app[a].unlocked THEN Edit(h, a, "emitOwn", "PAYMENT_COMPLETE")
                          ELSE Edit(h, a, "reload", "APPLICANT_ACCEPTED")

DeclineOffer(h, a) ==
    /\ app[a].status = "OFFER_SENT"
    /\ Edit(h, a, "reload", "WITHDRAWN")

Withdraw(h, a) ==
    /\ app[a].status \notin {"NONE", "PAYMENT_COMPLETE", "WITHDRAWN"}
    /\ Edit(h, a, "reload", "WITHDRAWN")

\* The confirmed event goes out before the save that justifies it.
EmitOwn(h) ==
    /\ At(h, "emitOwn")
    /\ Emit(req[h].app)
    /\ Goto(h, "reload")
    /\ UNCHANGED <<app, pay, gateway, issued, hooks, faults>>

SaveReload(h) ==
    /\ At(h, "reload")
    /\ req' = [req EXCEPT ![h].pc = "write", ![h].snap = app[req[h].app]]
    /\ UNCHANGED <<app, pay, gateway, issued, hooks, confirmed, faults>>

SaveApp(row, snap, mem) ==
    [status |-> SaveColumn(row.status, snap.status, mem.status),
     unlocked |-> SaveColumn(row.unlocked, snap.unlocked, mem.unlocked)]

SaveWrite(h) ==
    /\ At(h, "write")
    /\ app' = [app EXCEPT ![req[h].app] = SaveApp(@, req[h].snap, req[h].mem)]
    /\ Return(h)
    /\ UNCHANGED <<pay, gateway, issued, hooks, confirmed, faults>>

-----------------------------------------------------------------------------
\* A request dies at an await with an exception (a database error); a webhook
\* request swallows it and answers 200.
Abort(h) ==
    /\ faults < MaxFaults
    /\ ~At(h, "idle")
    /\ Finish(h)
    /\ faults' = faults + 1
    /\ UNCHANGED <<app, pay, gateway, issued, confirmed>>

\* The process stops: every request in progress is gone, nothing is answered.
Crash ==
    /\ faults < MaxFaults
    /\ \E h \in Handlers : ~At(h, "idle")
    /\ req' = [h \in Handlers |-> NoRequest]
    /\ faults' = faults + 1
    /\ UNCHANGED <<app, pay, gateway, issued, hooks, confirmed>>

\* The steps a request takes by itself once it was accepted.
Continue(h) ==
    \/ InitiateReuse(h) \/ InitiateAgain(h) \/ InitiateNew(h)
    \/ InitiateInsert(h) \/ InitializeOk(h) \/ InitializeThrows(h)
    \/ StoreCode(h) \/ VerifyAsk(h) \/ VerifyFail(h)
    \/ SettleLoad(h) \/ SettleMark(h) \/ SettleUnlock(h)
    \/ SettleScan(h) \/ SettleAdvance(h) \/ SettleEmit(h)
    \/ EmitOwn(h) \/ SaveReload(h) \/ SaveWrite(h)

Next ==
    \/ \E a \in Apps : Apply(a)
    \/ \E r \in Refs : Charge(r) \/ WebhookUnknown(r)
    \/ \E h \in Handlers, r \in Refs : WebhookFind(h, r) \/ VerifyFind(h, r)
    \/ \E h \in Handlers, a \in Apps :
         \/ InitiateLoad(h, a) \/ SetStatus(h, a)
         \/ AcceptOffer(h, a) \/ DeclineOffer(h, a) \/ Withdraw(h, a)
    \/ \E h \in Handlers : Continue(h) \/ Abort(h)
    \/ Crash

Spec == Init /\ [][Next]_vars

\* The event loop continues every accepted request, and Paystack repeats a
\* webhook until it is answered.  The slots of Handlers are a bound of the
\* model, not of the server, so a webhook is not starved of one: strong
\* fairness.  Nothing obliges users, and no fault is fair.
Fairness ==
    /\ \A h \in Handlers : WF_vars(Continue(h))
    /\ \A r \in Refs : /\ SF_vars(\E h \in Handlers : WebhookFind(h, r))
                       /\ WF_vars(WebhookUnknown(r))

FairSpec == Spec /\ Fairness

-----------------------------------------------------------------------------
\* Properties.

Charged(p) == \E r \in Refs : gateway[r] = "paid" /\ issued[r] = p
PaidFor(a) == \E p \in Pays : Charged(p) /\ pay[p].app = a
PaidJob(j) == \E a \in Apps : JobOf[a] = j /\ PaidFor(a)
Idle == \A h \in Handlers : At(h, "idle")

\* Contact details are unlocked only on a job for which Paystack has charged
\* the employer, whatever requests overlap or die (job_applications.piiUnlocked
\* against processActivationPaymentSuccess and every save of that row).
UnlockedOnlyIfPaid == \A a \in Apps : app[a].unlocked => PaidJob(JobOf[a])

\* A payments row is SUCCESS only if a reference generated for that very row
\* was charged, although the row's reference can be replaced on the way.
SuccessOnlyIfCharged ==
    \A p \in Pays : pay[p].status = "SUCCESS" => Charged(p)

\* An application is PAYMENT_COMPLETE, or its confirmed event (which generates
\* the contract) has been sent, only on a charged job -- provided the employer
\* does not set PAYMENT_COMPLETE through the status endpoint.
ConfirmedOnlyIfPaid ==
    \A a \in Apps :
        \/ a \in confirmed
        \/ app[a].status = "PAYMENT_COMPLETE" /\ "PAYMENT_COMPLETE" \notin EmployerSets
        => PaidJob(JobOf[a])

\* The module implements the abstract gate.
Gate == INSTANCE JobGate WITH charged <- {j \in Jobs : PaidJob(j)},
                              open <- {a \in Apps : app[a].unlocked}
ImplementsGate == Gate!Spec

\* While no request edits an application across the unlock of its job (one
\* request at a time is one way) and no call has failed, once no request is in
\* progress the application a SUCCESS payment was made for is unlocked.
SettledMeansOpen ==
    Idle /\ faults = 0 =>
        \A p \in Pays : pay[p].status = "SUCCESS" => app[pay[p].app].unlocked

\* With one request at a time, a charge for an application leads to its contact
\* details being unlocked, even when verifyPayment has failed the payment
\* before the charge -- or to a failed request: nothing settles a payment that
\* was interrupted after it became SUCCESS.
PaidEventuallyOpen == \A a \in Apps : PaidFor(a) ~> (app[a].unlocked \/ faults > 0)

-----------------------------------------------------------------------------
\* What documents and comments say of the program, and it does not do when
\* requests overlap.

\* docs/ux/02-payment-gating.md:87, duplicate webhooks are ignored: no request
\* settles a payment that is already SUCCESS.
DuplicatesIgnored ==
    \A h \in Handlers : At(h, "mark") => pay[req[h].pay].status # "SUCCESS"

\* docs/ux/02-payment-gating.md:60-61, the webhook of a charge confirms its
\* payment: there is a payment under the reference that was charged.
ChargeHasRow == \A r \in Refs : gateway[r] = "paid" => PaymentOf(r) # {}
=============================================================================
