----------------------------- MODULE Employment -----------------------------
(***************************************************************************)
(* The life of a placement (an employees row): EmployeesService (status,   *)
(* termination, edits), the activation by JobApplicationsService           *)
(* .confirmHire, EmploymentCompletionService (mutual completion) and       *)
(* ProbationTrackingService with its two delayed queue jobs.               *)
(*                                                                         *)
(* Requests and queue jobs load the row, wait, and save it; a request or a *)
(* running job occupies a slot of Handlers.  An action is the code between *)
(* two awaits.  The transactions of the code read committed rows and lock  *)
(* nothing they read, and their last write is that of the employees row,   *)
(* so a transaction is its read, its save's read and its commit.           *)
(***************************************************************************)
EXTENDS Naturals, FiniteSets, RowSave

CONSTANTS
    Employees,     \* employees rows
    Unpaid,        \* those with an amount to pay and paymentStatus not PAID
    Ends,          \* dates buildProbationSchedule may compute
    EmployerSets,  \* statuses sent to the status endpoint without a branch of
                   \* their own
    Handlers,      \* slots for requests and running queue jobs
    MaxTime,       \* bound on the clock
    MaxTries,      \* attempts of a queue job
    MaxFaults,     \* bound on failed requests, jobs and process crashes
    None           \* null

Party == {"employer", "jobseeker"}
EmployeeStatus == {"ACTIVE", "ONBOARDING", "SUSPENDED", "COMPLETED",
                   "TERMINATED", "ENDED"}
ProbationStatus == {"ACTIVE", "CONFIRMED", "TERMINATED"}
Kind == {"reminder", "confirm"}

ASSUME EmploymentAssumption ==
    /\ Unpaid \subseteq Employees
    /\ Ends \subseteq Nat
    /\ EmployerSets \subseteq {"ONBOARDING", "SUSPENDED", "COMPLETED"}
    /\ MaxTime \in Nat
    /\ MaxTries \in Nat \ {0}
    /\ MaxFaults \in Nat
    /\ None \notin Employees \union Nat

VARIABLES
    emp,     \* employees rows
    job,     \* the two Bull jobs of each employee, by their fixed ids
    req,     \* requests and running jobs with their local variables
    now,     \* the clock, in units that matter to the dates
    told,    \* whether the confirmation mail of the last activation went out
    asked,   \* history: the parties that ever declared completion
    faults   \* failures so far

vars == <<emp, job, req, now, told, asked, faults>>

\* end is probationEndDate, reminded is pulse30SentAt being set, declared the
\* parties whose ...DeclaredCompleteAt is set.
Row == [status : EmployeeStatus, probation : ProbationStatus,
        end : Ends \union {None}, reminded : BOOLEAN, declared : SUBSET Party]

\* left: attempts that remain.  A job that succeeded is removed, a failed one
\* is kept.
Job == [state : {"none", "waiting", "active", "failed"},
        at : Ends \union {0}, left : 0..MaxTries]

Request == [op : {"none", "status", "activate", "hire", "terminate", "declare",
                  "edit", "reminder", "confirm"},
            pc : {"idle", "reload", "write", "schedule", "mail"},
            employee : Employees \union {None},
            mem : Row \union {None}, snap : Row \union {None},
            plan : BOOLEAN]

TypeOK ==
    /\ emp \in [Employees -> Row]
    /\ job \in [Employees -> [Kind -> Job]]
    /\ req \in [Handlers -> Request]
    /\ now \in 0..MaxTime
    /\ told \in [Employees -> BOOLEAN]
    /\ asked \in [Employees -> SUBSET Party]
    /\ faults \in 0..MaxFaults

NoRequest == [op |-> "none", pc |-> "idle", employee |-> None,
              mem |-> None, snap |-> None, plan |-> FALSE]

NoJob == [state |-> "none", at |-> 0, left |-> 0]

\* employerPickCandidate has inserted the rows.
Init ==
    /\ emp = [e \in Employees |->
                [status |-> "ONBOARDING", probation |-> "ACTIVE", end |-> None,
                 reminded |-> FALSE, declared |-> {}]]
    /\ job = [e \in Employees |-> [k \in Kind |-> NoJob]]
    /\ req = [h \in Handlers |-> NoRequest]
    /\ now = 0
    /\ told = [e \in Employees |-> FALSE]
    /\ asked = [e \in Employees |-> {}]
    /\ faults = 0

At(h, pc) == req[h].pc = pc

Goto(h, pc) == req' = [req EXCEPT ![h].pc = pc]

Return(h) == req' = [req EXCEPT ![h] = NoRequest]

\* A request has loaded the row of e and changed it to mem.
Load(h, e, op, mem) ==
    /\ At(h, "idle")
    /\ req' = [req EXCEPT ![h] = [NoRequest EXCEPT !.op = op, !.pc = "reload",
                                                   !.employee = e, !.mem = mem]]

-----------------------------------------------------------------------------
\* EmployeesService.

\* updateEmployee: no column of this model changes, but the row is saved.
EditLoad(h, e) ==
    /\ Load(h, e, "edit", emp[e])
    /\ UNCHANGED <<emp, job, now, told, asked, faults>>

\* updateEmployeeStatus to a status without a branch of its own; the status it
\* has now is not looked at.
StatusLoad(h, e) ==
    /\ \E s \in EmployerSets :
         Load(h, e, "status", [emp[e] EXCEPT !.status = s])
    /\ UNCHANGED <<emp, job, now, told, asked, faults>>

\* updateEmployeeStatus to TERMINATED: the transaction's own read is the one
\* that counts, and any status may be terminated.
TerminateLoad(h, e) ==
    /\ Load(h, e, "terminate", [emp[e] EXCEPT !.status = "TERMINATED",
                                              !.probation = "TERMINATED",
                                              !.reminded = FALSE])
    /\ UNCHANGED <<emp, job, now, told, asked, faults>>

\* An activated row; its probation starts anew.
Activated(row, end) == [row EXCEPT !.status = "ACTIVE", !.probation = "ACTIVE",
                                   !.end = end, !.reminded = FALSE]

\* Mutant of ActivateLoad: only a first activation schedules the milestones.
ActivateLoadOnboarding(h, e) ==
    /\ At(h, "idle")
    /\ ~(e \in Unpaid /\ emp[e].status = "ONBOARDING")
    /\ \E end \in Ends :
         req' = [req EXCEPT ![h] =
                   [NoRequest EXCEPT !.op = "activate", !.pc = "reload",
                                     !.employee = e,
                                     !.mem = Activated(emp[e], end),
                                     !.plan = emp[e].status = "ONBOARDING"]]
    /\ UNCHANGED <<emp, job, now, told, asked, faults>>

\* updateEmployeeStatus to ACTIVE.  plan: the milestones are scheduled only on
\* a transition to ACTIVE.
ActivateLoad(h, e) ==
    /\ At(h, "idle")
    /\ ~(e \in Unpaid /\ emp[e].status = "ONBOARDING")
    /\ \E end \in Ends :
         req' = [req EXCEPT ![h] =
                   [NoRequest EXCEPT !.op = "activate", !.pc = "reload",
                                     !.employee = e,
                                     !.mem = Activated(emp[e], end),
                                     !.plan = emp[e].status # "ACTIVE"]]
    /\ UNCHANGED <<emp, job, now, told, asked, faults>>

\* confirmHire's activation, without either condition.
HireLoad(h, e) ==
    /\ At(h, "idle")
    /\ \E end \in Ends :
         req' = [req EXCEPT ![h] =
                   [NoRequest EXCEPT !.op = "hire", !.pc = "reload",
                                     !.employee = e,
                                     !.mem = Activated(emp[e], end),
                                     !.plan = TRUE]]
    /\ UNCHANGED <<emp, job, now, told, asked, faults>>

-----------------------------------------------------------------------------
\* EmploymentCompletionService.

IsOpen(status) == status \in {"ACTIVE", "ONBOARDING"}

\* Mutant of Ended: the probation of an ended placement runs on.
EndedOnTrial(row) == [row EXCEPT !.status = "ENDED"]

\* finalizeToEnded.
Ended(row) == [row EXCEPT !.status = "ENDED", !.probation = "TERMINATED",
                          !.reminded = FALSE]

\* Mutant of Declared: one declaration is enough.
DeclaredByAny(row, party) == Ended([row EXCEPT !.declared = @ \union {party}])

\* Mutant of Declared: both is computed before the party is added.
DeclaredTooEarly(row, party) ==
    LET both == row.declared = Party
        r == [row EXCEPT !.declared = @ \union {party}]
    IN  IF both THEN Ended(r) ELSE r

\* The row once party has declared: with both declarations it is ended.
Declared(row, party) ==
    LET r == [row EXCEPT !.declared = @ \union {party}]
    IN  IF r.declared = Party THEN Ended(r) ELSE r

\* Mutant of DeclareLoad: a placement in any state can be declared complete.
DeclareLoadAnyStatus(h, e, party) ==
    /\ party \notin emp[e].declared
    /\ Load(h, e, "declare", Declared(emp[e], party))
    /\ asked' = [asked EXCEPT ![e] = @ \union {party}]
    /\ UNCHANGED <<emp, job, now, told, faults>>

\* declareCompleteAsEmployer and -AsJobseeker; the transaction repeats the
\* checks of the first read on its own.
DeclareLoad(h, e, party) ==
    /\ IsOpen(emp[e].status)
    /\ party \notin emp[e].declared
    /\ Load(h, e, "declare", Declared(emp[e], party))
    /\ asked' = [asked EXCEPT ![e] = @ \union {party}]
    /\ UNCHANGED <<emp, job, now, told, faults>>

-----------------------------------------------------------------------------
\* Probation milestones: scheduleEmployeeProbationMilestones and the jobs.

\* Bull ignores a job whose id it already has, in whatever state.
Schedule(h) ==
    /\ At(h, "schedule")
    /\ LET e == req[h].employee
           new == [state |-> "waiting", at |-> req[h].mem.end, left |-> MaxTries]
       IN job' = [job EXCEPT ![e] = [k \in Kind |->
                    IF job[e][k].state = "none" THEN new ELSE job[e][k]]]
    /\ Return(h)
    /\ UNCHANGED <<emp, now, told, asked, faults>>

Ripe(e, k) == job[e][k].state = "waiting" /\ job[e][k].at <= now

SetState(e, k, state) == job' = [job EXCEPT ![e][k].state = state]

\* sendProbationReminder mails first and saves pulse30SentAt afterwards.
ReminderTake(h, e) ==
    /\ At(h, "idle")
    /\ Ripe(e, "reminder")
    /\ IF emp[e].probation = "ACTIVE" /\ ~emp[e].reminded
       THEN /\ req' = [req EXCEPT ![h] =
                         [NoRequest EXCEPT !.op = "reminder", !.pc = "mail",
                                           !.employee = e,
                                           !.mem = [emp[e] EXCEPT !.reminded = TRUE]]]
            /\ SetState(e, "reminder", "active")
       ELSE UNCHANGED req /\ SetState(e, "reminder", "none")
    /\ UNCHANGED <<emp, now, told, asked, faults>>

\* Mutant of DueForConfirm: the probation status is not checked.
DueByDate(row) == row.end # None /\ row.end <= now

\* Mutant of DueForConfirm: the end date is not checked.
DueByStatus(row) == row.probation = "ACTIVE" /\ row.end # None

DueForConfirm(row) ==
    /\ row.probation = "ACTIVE"
    /\ row.end # None /\ row.end <= now

\* confirmProbation saves CONFIRMED first and mails afterwards.
ConfirmTake(h, e) ==
    /\ At(h, "idle")
    /\ Ripe(e, "confirm")
    /\ IF DueForConfirm(emp[e])
       THEN /\ Load(h, e, "confirm", [emp[e] EXCEPT !.probation = "CONFIRMED"])
            /\ SetState(e, "confirm", "active")
       ELSE UNCHANGED req /\ SetState(e, "confirm", "none")
    /\ UNCHANGED <<emp, now, told, asked, faults>>

MailSent(h) ==
    /\ At(h, "mail")
    /\ LET e == req[h].employee IN
         IF req[h].op = "reminder"
         THEN Goto(h, "reload") /\ UNCHANGED <<job, told>>
         ELSE /\ told' = [told EXCEPT ![e] = TRUE]
              /\ Return(h)
              /\ SetState(e, "confirm", "none")
    /\ UNCHANGED <<emp, now, asked, faults>>

-----------------------------------------------------------------------------
\* Repository.save of the row.

SaveReload(h) ==
    /\ At(h, "reload")
    /\ req' = [req EXCEPT ![h].pc = "write", ![h].snap = emp[req[h].employee]]
    /\ UNCHANGED <<emp, job, now, told, asked, faults>>

SaveRow(row, snap, mem) ==
    [status |-> SaveColumn(row.status, snap.status, mem.status),
     probation |-> SaveColumn(row.probation, snap.probation, mem.probation),
     end |-> SaveColumn(row.end, snap.end, mem.end),
     reminded |-> SaveColumn(row.reminded, snap.reminded, mem.reminded),
     declared |-> {p \in Party : SaveColumn(p \in row.declared,
                                            p \in snap.declared,
                                            p \in mem.declared)}]

\* What follows a save: the confirmation's mails, an activation's schedule, or
\* the end of the request or job.
SaveWrite(h) ==
    /\ At(h, "write")
    /\ LET r == req[h]
           e == r.employee
       IN /\ emp' = [emp EXCEPT ![e] = SaveRow(@, r.snap, r.mem)]
          /\ told' = IF r.op \in {"activate", "hire"}
                     THEN [told EXCEPT ![e] = FALSE] ELSE told
          /\ IF r.op = "confirm" THEN Goto(h, "mail")
             ELSE IF r.plan THEN Goto(h, "schedule") ELSE Return(h)
          /\ IF r.op = "reminder" THEN SetState(e, "reminder", "none")
                                  ELSE UNCHANGED job
    /\ UNCHANGED <<now, asked, faults>>

-----------------------------------------------------------------------------
\* Mutant of Retried: a failed attempt is the last.
Never(j) == [j EXCEPT !.state = "failed"]

\* A failed attempt is repeated while attempts are left.
Retried(j) == IF j.left > 1 THEN [j EXCEPT !.state = "waiting", !.left = @ - 1]
                            ELSE [j EXCEPT !.state = "failed", !.left = 0]

\* A request or job dies at an await with an exception.  A confirmation may
\* have mailed the employer and not the candidate.
Abort(h) ==
    /\ faults < MaxFaults
    /\ ~At(h, "idle")
    /\ LET r == req[h] IN
         /\ job' = IF r.op \in Kind
                   THEN [job EXCEPT ![r.employee][r.op] = Retried(@)] ELSE job
         /\ told' \in IF r.op = "confirm" /\ r.pc = "mail"
                      THEN {told, [told EXCEPT ![r.employee] = TRUE]} ELSE {told}
    /\ Return(h)
    /\ faults' = faults + 1
    /\ UNCHANGED <<emp, now, asked>>

\* The process stops; Bull hands the jobs it was running to the next process
\* (a stalled job is no failed attempt).
Crash ==
    /\ faults < MaxFaults
    /\ req' = [h \in Handlers |-> NoRequest]
    /\ job' = [e \in Employees |-> [k \in Kind |->
                 IF job[e][k].state = "active"
                 THEN [job[e][k] EXCEPT !.state = "waiting"] ELSE job[e][k]]]
    /\ faults' = faults + 1
    /\ UNCHANGED <<emp, now, told, asked>>

Elapse ==
    /\ now < MaxTime
    /\ now' = now + 1
    /\ UNCHANGED <<emp, job, req, told, asked, faults>>

\* The steps a request or job takes by itself.
Continue(h) == Schedule(h) \/ MailSent(h) \/ SaveReload(h) \/ SaveWrite(h)

Take(h, e) == ReminderTake(h, e) \/ ConfirmTake(h, e)

Next ==
    \/ \E h \in Handlers, e \in Employees :
         \/ EditLoad(h, e) \/ StatusLoad(h, e) \/ TerminateLoad(h, e)
         \/ ActivateLoad(h, e) \/ HireLoad(h, e) \/ Take(h, e)
         \/ \E party \in Party : DeclareLoad(h, e, party)
    \/ \E h \in Handlers : Continue(h) \/ Abort(h)
    \/ Crash
    \/ Elapse

Spec == Init /\ [][Next]_vars

\* The event loop continues what was accepted and time passes.  Bull runs a
\* ripe job however many requests the server handles (the slots are a bound
\* of the model): strong fairness.  Nothing obliges users, no fault is fair.
ServerFairness ==
    /\ \A h \in Handlers : WF_vars(Continue(h))
    /\ \A e \in Employees :
         /\ SF_vars(\E h \in Handlers : ReminderTake(h, e))
         /\ SF_vars(\E h \in Handlers : ConfirmTake(h, e))

Fairness == ServerFairness /\ WF_vars(Elapse)

FairSpec == Spec /\ Fairness

-----------------------------------------------------------------------------
\* Refinement: what the columns of a row say of the placement.
Stage(status) ==
    CASE status \in {"ACTIVE", "ONBOARDING"} -> "open"
      [] status = "SUSPENDED" -> "suspended"
      [] status = "COMPLETED" -> "completed"
      [] status = "TERMINATED" -> "terminated"
      [] status = "ENDED" -> "ended"
Trial(probation) ==
    CASE probation = "ACTIVE" -> "running"
      [] probation = "CONFIRMED" -> "confirmed"
      [] probation = "TERMINATED" -> "over"

Stages == [e \in Employees |-> Stage(emp[e].status)]
Trials == [e \in Employees |-> Trial(emp[e].probation)]
Declarations == [e \in Employees |-> emp[e].declared]
Dues == [e \in Employees |-> emp[e].end]

Life == INSTANCE PlacementLife WITH
          stage <- Stages, trial <- Trials, declared <- Declarations, due <- Dues

\* While no two requests or jobs work on one placement, Employment implements
\* PlacementLife: however long a handler holds its copy of the row, and however
\* often a queue job fails and is repeated, each changes the placement once, at
\* one moment, in a way its stage at that moment allows.
ImplementsLife == Life!Spec

-----------------------------------------------------------------------------
\* Properties.

\* schema.enum.ts:186, employees.service.ts:236: a placement is ENDED only if
\* both parties have declared it complete, whatever stale rows are saved.
EndedOnlyIfBothDeclared ==
    \A e \in Employees : emp[e].status = "ENDED" => asked[e] = Party

\* employees.controller.ts:79, the second party's declaration ends the
\* placement: no step leaves both declarations stored on an open row.  It holds
\* while no two requests or jobs work on one placement, and not when the two
\* declarations overlap.
SecondDeclarationEnds ==
    [][\A e \in Employees :
         emp[e].declared # Party /\ emp'[e].declared = Party =>
           emp'[e].status = "ENDED"]_vars

\* While no two work on it, a placement that was terminated, completed or
\* ended changes its status only because the employer asks for that status (or
\* confirms the hire): no declaration, edit or queue job brings it back.
ClosedStaysClosed ==
    [][\A e \in Employees :
         emp[e].status \in {"ENDED", "TERMINATED", "COMPLETED"}
           /\ emp'[e].status # emp[e].status =>
           \E h \in Handlers :
             /\ req[h].employee = e
             /\ req[h].op \in {"status", "activate", "hire", "terminate"}]_vars

\* probation-tracking.service.ts:152, retries do not confirm twice: after a
\* failed or repeated attempt no second round of mails for one activation, while
\* no two requests or jobs work on the placement.
NoDoubleConfirm ==
    \A h \in Handlers : At(h, "mail") /\ req[h].op = "confirm" =>
        ~told[req[h].employee]

\* While no two work on a placement its probation is confirmed only at or after the end
\* date stored at that moment, although a job scheduled for an earlier end date
\* keeps its id and its time when the placement is activated again.
ConfirmedNotEarly ==
    [][\A e \in Employees :
         emp[e].probation # "CONFIRMED" /\ emp'[e].probation = "CONFIRMED" =>
           emp[e].end # None /\ emp[e].end <= now]_vars

\* employees.service.ts:370, the milestones are queued on the transition into ACTIVE:
\* until something fails, and before any date a probation can end on has come,
\* an ACTIVE placement has its confirmation waiting in the queue whenever no
\* request is in progress -- although a request that finds the placement ACTIVE
\* queues nothing, and requests overlap.
ActiveIsTracked ==
    faults = 0 /\ (\A h \in Handlers : At(h, "idle")) /\ (\A end \in Ends : now < end) =>
        \A e \in Employees :
            emp[e].status = "ACTIVE" => job[e]["confirm"].state = "waiting"

\* With one request at a time, a probation with a confirmation job waiting is
\* confirmed or terminated in the end, through one failed attempt or restart --
\* unless a new activation moves its end date past the time of the job, which
\* then finds it too early and is gone.
ConfirmationComes ==
    \A e \in Employees :
      (emp[e].probation = "ACTIVE" /\ job[e]["confirm"].state = "waiting")
        ~> \/ emp[e].probation # "ACTIVE"
           \/ emp[e].end # None /\ emp[e].end > job[e]["confirm"].at
=============================================================================
