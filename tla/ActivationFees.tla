--------------------------- MODULE ActivationFees ---------------------------
(***************************************************************************)
(* What an employer is asked to pay: the rate an administrator sets        *)
(* (SystemConfigService), the fee for an application                       *)
(* (EmployeeActivationCommissionService) and the one for an employee       *)
(* (PaymentService.calculatePaymentAmount), the payments rows that record  *)
(* them and the Paystack transactions opened for them.                     *)
(*                                                                         *)
(* What a paid application unlocks is PiiUnlock's subject.  The payment    *)
(* for an employee (initiatePayment) is here from end to end.  Of the      *)
(* employer's requests one is in progress, and one of Paystack's.          *)
(***************************************************************************)
EXTENDS Integers, FiniteSets

CONSTANTS
    Bills,           \* payments rows
    Salaries,        \* salaries of the job and the employee, in naira
    Rates,           \* percentages an administrator enters, in thousandths
    Bounds,          \* amounts in naira entered as least or greatest commission
    Nil              \* null

ASSUME FeesAssumption ==
    /\ Salaries \subseteq Nat /\ Rates \subseteq Nat /\ Bounds \subseteq Nat
    /\ Nil \notin Bills

VARIABLES
    config,    \* system_configs: percentage in thousandths, floor and ceiling
    salary,    \* Job.salary and Employee.salaryOffered
    bill,      \* payments rows: for what, status, amount in kobo, access code
    employee,  \* the employees row: paymentStatus and piiUnlocked
    quoted,    \* the amounts in kobo Paystack was asked to collect for each payment
    open,      \* payments for an employee with a Paystack transaction
    charged,   \* those that were charged
    hooks,     \* their charge.success webhooks to be delivered
    calls      \* the requests in progress

feeVars == <<config, salary, bill, employee, quoted, open, charged, hooks, calls>>

For == {"nothing", "application", "employee"}
Bill == [for : For, status : {"PENDING", "SUCCESS", "FAILED"}, amount : Nat, code : BOOLEAN]
Caller == {"employer", "paystack"}
Call == [pc : {"idle", "insert", "owe", "initialize", "again", "store", "paid",
               "credit", "unpaid", "refuse"},
         bill : Bills \cup {Nil}, for : For, amount : Nat]
NoCall == [pc |-> "idle", bill |-> Nil, for |-> "nothing", amount |-> 0]

FeesTypeOK ==
    /\ config \in [rate : Rates, floor : Bounds, ceiling : Bounds] /\ salary \in Salaries
    /\ bill \in [Bills -> Bill]
    /\ employee \in [payment : {"NOT_REQUIRED", "PENDING", "PAID", "FAILED"},
                     unlocked : BOOLEAN]
    /\ quoted \in [Bills -> SUBSET Nat]
    /\ hooks \subseteq charged /\ charged \subseteq open /\ open \subseteq Bills
    /\ calls \in [Caller -> Call]

\* The seeded configuration, or another.
FeesInit ==
    /\ config \in [rate : Rates, floor : Bounds, ceiling : Bounds] /\ salary \in Salaries
    /\ bill = [b \in Bills |-> [for |-> "nothing", status |-> "PENDING", amount |-> 0,
                                code |-> FALSE]]
    /\ employee = [payment |-> "NOT_REQUIRED", unlocked |-> FALSE]
    /\ quoted = [b \in Bills |-> {}]
    /\ open = {} /\ charged = {} /\ hooks = {}
    /\ calls = [c \in Caller |-> NoCall]

Calling(c, pc) == calls[c].pc = pc
Move(c, pc) == calls' = [calls EXCEPT ![c].pc = pc]
Answer(c) == calls' = [calls EXCEPT ![c] = NoCall]
PendingFor(f) == {b \in Bills : bill[b].for = f /\ bill[b].status = "PENDING"}
Unused == {b \in Bills : bill[b].for = "nothing"}

-----------------------------------------------------------------------------
\* SystemConfigService.updateConfig, one key at a time, of those read here.  The
\* VAT rate stays at 7.5 percent.
UpdateConfig ==
    /\ \/ \E r \in Rates : config' = [config EXCEPT !.rate = r]
       \/ \E b \in Bounds : config' = [config EXCEPT !.floor = b]
       \/ \E b \in Bounds : config' = [config EXCEPT !.ceiling = b]
    /\ UNCHANGED <<salary, bill, employee, quoted, open, charged, hooks, calls>>

\* The employer edits the job or the placement.
EditSalary ==
    /\ \E s \in Salaries : salary' = s
    /\ UNCHANGED <<config, bill, employee, quoted, open, charged, hooks, calls>>

\* x / d as Math.round and the amount column have it.
RoundedQuotient(x, d) == (2 * x + d) \div (2 * d)

\* calculateCommissionFee for a permanent role, in kobo: a year's salary times the
\* rate, within floor and ceiling, and 7.5 percent VAT.
CommissionFee(set, s) ==
    LET calculated == 12 * s * set.rate
        capped == IF calculated < 1000 * set.ceiling THEN calculated ELSE 1000 * set.ceiling
        applied == IF capped > 1000 * set.floor THEN capped ELSE 1000 * set.floor
    IN RoundedQuotient(applied * 1075, 10000)

\* calculatePaymentAmount, in kobo: the same setting read as a percentage.
PaymentAmount(r, s) == RoundedQuotient(s * r, 1000)

-----------------------------------------------------------------------------
\* initiateActivationPayment, for an application.

\* A PENDING payment is paid on: with its access code, or in a new transaction.
\* (An unlocked application is refused, which is PiiUnlock's subject: here a new
\* payment may follow a settled one.)
ReusePayment ==
    /\ Calling("employer", "idle")
    /\ \E b \in PendingFor("application") :
         calls' = IF bill[b].code THEN calls
                  ELSE [calls EXCEPT !["employer"] =
                          [pc |-> "again", bill |-> b, for |-> "application",
                           amount |-> 0]]
    /\ UNCHANGED <<config, salary, bill, employee, quoted, open, charged, hooks>>

\* Otherwise the commission is calculated, its settings read in one step.  A
\* hundred times the setting goes into the percentage column, which holds less
\* than 1000: beyond, the insert fails.
CalculateCommission ==
    /\ Calling("employer", "idle") /\ PendingFor("application") = {}
    /\ config.rate < 10000
    /\ calls' = [calls EXCEPT !["employer"] =
                   [pc |-> "insert", bill |-> Nil, for |-> "application",
                    amount |-> CommissionFee(config, salary)]]
    /\ UNCHANGED <<config, salary, bill, employee, quoted, open, charged, hooks>>

-----------------------------------------------------------------------------
\* initiatePayment, for an employee.  An earlier PENDING payment refuses it.
InitiatePayment ==
    /\ Calling("employer", "idle") /\ PendingFor("employee") = {}
    /\ config.rate <= 100000
    /\ calls' = [calls EXCEPT !["employer"] =
                   [pc |-> "insert", bill |-> Nil, for |-> "employee",
                    amount |-> PaymentAmount(config.rate, salary)]]
    /\ UNCHANGED <<config, salary, bill, employee, quoted, open, charged, hooks>>

\* The insert of either.  Bound: Bills.
InsertPayment ==
    /\ Calling("employer", "insert")
    /\ LET call == calls["employer"] IN
       \/ \E b \in Unused :
            /\ bill' = [bill EXCEPT ![b] = [for |-> call.for, status |-> "PENDING",
                                            amount |-> call.amount, code |-> FALSE]]
            /\ calls' = [calls EXCEPT
                           !["employer"].bill = b,
                           !["employer"].pc = IF call.for = "employee"
                                              THEN "owe" ELSE "initialize"]
       \/ Unused = {} /\ Answer("employer") /\ UNCHANGED bill
    /\ UNCHANGED <<config, salary, employee, quoted, open, charged, hooks>>

\* initiatePayment marks the employees row.
OwePayment ==
    /\ Calling("employer", "owe")
    /\ employee' = [employee EXCEPT !.payment = "PENDING"]
    /\ Move("employer", "initialize")
    /\ UNCHANGED <<config, salary, bill, quoted, open, charged, hooks>>

\* Mutant of AmountAgain: the new transaction asks for what the fee is now.
AmountNow(b) == CommissionFee(config, salary)

AmountAgain(b) == bill[b].amount

\* initializeTransaction: Paystack opens a transaction, or the request fails and
\* leaves the row PENDING without an access code.
InitializeTransaction ==
    /\ Calling("employer", "initialize") \/ Calling("employer", "again")
    /\ LET call == calls["employer"]
           b == call.bill
           kobo == IF call.pc = "again" THEN AmountAgain(b) ELSE call.amount
       IN \/ /\ quoted' = [quoted EXCEPT ![b] = @ \cup {kobo}]
             /\ open' = IF call.for = "employee" THEN open \cup {b} ELSE open
             /\ IF call.for = "employee" THEN Answer("employer") ELSE Move("employer", "store")
          \/ Answer("employer") /\ UNCHANGED <<quoted, open>>
    /\ UNCHANGED <<config, salary, bill, employee, charged, hooks>>

\* The access code is stored, or the process stops before.
StoreAccessCode ==
    /\ Calling("employer", "store")
    /\ \/ bill' = [bill EXCEPT ![calls["employer"].bill].code = TRUE]
       \/ UNCHANGED bill
    /\ Answer("employer")
    /\ UNCHANGED <<config, salary, employee, quoted, open, charged, hooks>>

\* PiiUnlock settles the payment of an application.
ApplicationSettled ==
    /\ \E b \in PendingFor("application"), s \in {"SUCCESS", "FAILED"} :
         quoted[b] # {} /\ bill' = [bill EXCEPT ![b].status = s]
    /\ UNCHANGED <<config, salary, employee, quoted, open, charged, hooks, calls>>

-----------------------------------------------------------------------------
\* Paystack and what follows its answers, for an employee.

Charge ==
    /\ \E b \in open \ charged : charged' = charged \cup {b} /\ hooks' = hooks \cup {b}
    /\ UNCHANGED <<config, salary, bill, employee, quoted, open, calls>>

\* processWebhookEvent; the webhook is answered 200 and not repeated.
ProcessWebhook ==
    /\ Calling("paystack", "idle")
    /\ \E b \in hooks : /\ hooks' = hooks \ {b}
                        /\ calls' = [calls EXCEPT !["paystack"].pc = "paid",
                                                  !["paystack"].bill = b]
    /\ UNCHANGED <<config, salary, bill, employee, quoted, open, charged>>

Succeeded(b) == b \in charged

\* verifyPayment: Paystack is asked; a reference it does not know is an error.
VerifyPayment ==
    /\ Calling("employer", "idle")
    /\ \E b \in open :
         calls' = [calls EXCEPT !["employer"].bill = b,
                                !["employer"].pc = IF Succeeded(b) THEN "paid" ELSE "unpaid"]
    /\ UNCHANGED <<config, salary, bill, employee, quoted, open, charged, hooks>>

\* processActivationPaymentSuccess: a settled payment is left alone.  (The read and
\* the update are one step; PiiUnlock has them apart.)
MarkSuccess(c) ==
    /\ Calling(c, "paid")
    /\ LET b == calls[c].bill IN
         IF bill[b].status = "SUCCESS" THEN Answer(c) /\ UNCHANGED bill
         ELSE Move(c, "credit") /\ bill' = [bill EXCEPT ![b].status = "SUCCESS"]
    /\ UNCHANGED <<config, salary, employee, quoted, open, charged, hooks>>

\* ... and the employees row; the application (PAYMENT_COMPLETE) and the event that
\* generates the contract (ContractSigning) are left out.
CreditEmployee(c) ==
    /\ Calling(c, "credit")
    /\ employee' = [payment |-> "PAID", unlocked |-> TRUE]
    /\ Answer(c)
    /\ UNCHANGED <<config, salary, bill, quoted, open, charged, hooks>>

\* verifyPayment otherwise: FAILED, whatever the row has become since.
MarkFailed(c) ==
    /\ Calling(c, "unpaid")
    /\ bill' = [bill EXCEPT ![calls[c].bill].status = "FAILED"]
    /\ Move(c, "refuse")
    /\ UNCHANGED <<config, salary, employee, quoted, open, charged, hooks>>

RefuseEmployee(c) ==
    /\ Calling(c, "refuse")
    /\ employee' = [employee EXCEPT !.payment = "FAILED"]
    /\ Answer(c)
    /\ UNCHANGED <<config, salary, bill, quoted, open, charged, hooks>>

-----------------------------------------------------------------------------
Initiates == ReusePayment \/ CalculateCommission \/ InitiatePayment

FeesNext ==
    \/ UpdateConfig \/ EditSalary \/ Initiates \/ InsertPayment \/ OwePayment
    \/ InitializeTransaction \/ StoreAccessCode \/ ApplicationSettled
    \/ Charge \/ ProcessWebhook \/ VerifyPayment
    \/ \E c \in Caller :
         MarkSuccess(c) \/ CreditEmployee(c) \/ MarkFailed(c) \/ RefuseEmployee(c)

FeesSpec == FeesInit /\ [][FeesNext]_feeVars

-----------------------------------------------------------------------------
\* docs/ux/02-payment-gating.md:84, "Rate Lock ... admin changes don't affect
\* pending payments": however often the payment is resumed, after whatever changes
\* of the rate and the salary, Paystack is asked for the amount of the row, and the
\* amount of the row does not change.
RateLock ==
    [][\A b \in Bills : quoted'[b] \subseteq {bill'[b].amount}
                         /\ (bill[b].for # "nothing" => bill'[b].amount = bill[b].amount)]_feeVars
=============================================================================
