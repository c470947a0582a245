-------------------------- MODULE EmploymentProofs --------------------------
(***************************************************************************)
(* Mutual completion for any number of placements, overlapping requests,   *)
(* queue jobs and failures: ENDED is never stored before both parties have *)
(* declared the placement complete, and until something fails an ACTIVE    *)
(* placement has its confirmation in the queue.  While no two requests or  *)
(* jobs work on one placement (Apart), the second declaration ends it, a   *)
(* closed one stays closed, a probation is confirmed once and not early,   *)
(* and Employment implements PlacementLife.                                *)
(***************************************************************************)
EXTENDS EmploymentInv, TLAPS

OP == {"none", "status", "activate", "hire", "terminate", "declare",
       "edit", "reminder", "confirm"}
PC == {"idle", "reload", "write", "schedule", "mail"}

-----------------------------------------------------------------------------
\* Rows.

\* A saved row is as good as the rows it is made of.
LEMMA SaveRowOK ==
    ASSUME NEW S \in SUBSET Party,
           NEW row, RowOK(row, S), NEW snap, RowOK(snap, S), NEW mem, RowOK(mem, S)
    PROVE  RowOK(SaveRow(row, snap, mem), S)
<1> DEFINE D == {p \in Party : SaveColumn(p \in row.declared, p \in snap.declared,
                                          p \in mem.declared)}
           s == SaveColumn(row.status, snap.status, mem.status)
           pr == SaveColumn(row.probation, snap.probation, mem.probation)
           en == SaveColumn(row.end, snap.end, mem.end)
           re == SaveColumn(row.reminded, snap.reminded, mem.reminded)
<1>1. row \in Row /\ snap \in Row /\ mem \in Row
  BY DEF RowOK
<1>2. SaveRow(row, snap, mem) = [status |-> s, probation |-> pr, end |-> en,
                                 reminded |-> re, declared |-> D]
  BY DEF SaveRow
<1>3. s \in EmployeeStatus /\ s \in {row.status, mem.status}
  BY <1>1 DEF SaveColumn, Row
<1>4. pr \in ProbationStatus
  BY <1>1 DEF SaveColumn, Row
<1>5. en \in Ends \union {None}
  BY <1>1 DEF SaveColumn, Row
<1>6. re \in BOOLEAN
  BY <1>1 DEF SaveColumn, Row
<1>7. D \subseteq row.declared \union mem.declared
  BY DEF SaveColumn
<1>8. D \subseteq Party
  OBVIOUS
<1>9. D \subseteq S
  BY <1>7 DEF RowOK
<1>10. s = "ENDED" => S = Party
  BY <1>3 DEF RowOK
<1> HIDE DEF D, s, pr, en, re
<1>11. [status |-> s, probation |-> pr, end |-> en, reminded |-> re, declared |-> D] \in Row
  BY <1>3, <1>4, <1>5, <1>6, <1>8 DEF Row
<1> QED
  BY <1>2, <1>9, <1>10, <1>11 DEF RowOK

\* A row stays good while declarations are added.
LEMMA RowGrows ==
    ASSUME NEW S \in SUBSET Party, NEW T \in SUBSET Party, S \subseteq T,
           NEW row, RowOK(row, S)
    PROVE  RowOK(row, T)
  BY DEF RowOK

\* The changes requests make to a row in memory.
LEMMA StatusRow ==
    ASSUME NEW S \in SUBSET Party, NEW row, RowOK(row, S), NEW s \in EmployerSets
    PROVE  RowOK([row EXCEPT !.status = s], S)
  BY EmploymentAssumption DEF RowOK, Row, EmployeeStatus

LEMMA TerminatedRow ==
    ASSUME NEW S \in SUBSET Party, NEW row, RowOK(row, S)
    PROVE  RowOK([row EXCEPT !.status = "TERMINATED", !.probation = "TERMINATED",
                             !.reminded = FALSE], S)
  BY DEF RowOK, Row, EmployeeStatus, ProbationStatus

LEMMA ActivatedRow ==
    ASSUME NEW S \in SUBSET Party, NEW row, RowOK(row, S), NEW end \in Ends
    PROVE  RowOK(Activated(row, end), S) /\ Activated(row, end).end = end
  BY DEF RowOK, Row, EmployeeStatus, ProbationStatus, Activated

LEMMA RemindedRow ==
    ASSUME NEW S \in SUBSET Party, NEW row, RowOK(row, S)
    PROVE  RowOK([row EXCEPT !.reminded = TRUE], S)
  BY DEF RowOK, Row

LEMMA ConfirmedRow ==
    ASSUME NEW S \in SUBSET Party, NEW row, RowOK(row, S)
    PROVE  RowOK([row EXCEPT !.probation = "CONFIRMED"], S)
  BY DEF RowOK, Row, ProbationStatus

\* A declaration ends the row only as the second one.
LEMMA DeclaredRow ==
    ASSUME NEW S \in SUBSET Party, NEW row, RowOK(row, S), NEW party \in Party
    PROVE  RowOK(Declared(row, party), S \union {party})
<1> DEFINE r == [row EXCEPT !.declared = @ \union {party}]
<1>1. r \in Row /\ r.declared = row.declared \union {party} /\ r.status = row.status
  BY DEF RowOK, Row
<1>2. RowOK(r, S \union {party})
  BY <1>1 DEF RowOK
<1>3. CASE r.declared = Party
  <2>1. Declared(row, party) = Ended(r)
    BY <1>3 DEF Declared
  <2>2. Ended(r) \in Row /\ Ended(r).declared = r.declared
    BY <1>1 DEF Ended, Row, EmployeeStatus, ProbationStatus
  <2>3. S \union {party} = Party
    BY <1>1, <1>3 DEF RowOK
  <2> HIDE DEF r
  <2> QED
    BY <1>2, <2>1, <2>2, <2>3 DEF RowOK
<1>4. CASE r.declared # Party
  <2>1. Declared(row, party) = r
    BY <1>4 DEF Declared
  <2> QED
    BY <1>2, <2>1
<1> QED
  BY <1>3, <1>4

-----------------------------------------------------------------------------
\* Requests.

LEMMA RequestType ==
    /\ NoRequest \in Request
    /\ \A r \in Request, pc \in PC : [r EXCEPT !.pc = pc] \in Request
    /\ \A r \in Request, pc \in PC, row \in Row :
          [r EXCEPT !.pc = pc, !.snap = row] \in Request
    /\ \A op \in OP, pc \in PC, e \in Employees, row \in Row :
          [NoRequest EXCEPT !.op = op, !.pc = pc, !.employee = e, !.mem = row] \in Request
    /\ \A op \in OP, pc \in PC, e \in Employees, row \in Row, plan \in BOOLEAN :
          [NoRequest EXCEPT !.op = op, !.pc = pc, !.employee = e, !.mem = row,
                            !.plan = plan] \in Request
<1> USE DEF Request
<1>0. NoRequest \in Request
  BY DEF NoRequest
<1>1. ASSUME NEW r \in Request, NEW pc \in PC
      PROVE  [r EXCEPT !.pc = pc] \in Request
  BY DEF PC
<1>2. ASSUME NEW r \in Request, NEW pc \in PC, NEW row \in Row
      PROVE  [r EXCEPT !.pc = pc, !.snap = row] \in Request
  BY DEF PC
<1>3. ASSUME NEW op \in OP, NEW pc \in PC, NEW e \in Employees, NEW row \in Row
      PROVE  [NoRequest EXCEPT !.op = op, !.pc = pc, !.employee = e, !.mem = row] \in Request
  BY DEF NoRequest, PC, OP
<1>4. ASSUME NEW op \in OP, NEW pc \in PC, NEW e \in Employees, NEW row \in Row,
             NEW plan \in BOOLEAN
      PROVE  [NoRequest EXCEPT !.op = op, !.pc = pc, !.employee = e, !.mem = row,
                               !.plan = plan] \in Request
  BY DEF NoRequest, PC, OP
<1> QED
  BY <1>0, <1>1, <1>2, <1>3, <1>4

\* What every step does to the history.
Grows == \A e \in Employees : asked[e] \subseteq asked'[e]

\* A request that has just loaded, or moved on, with a good row.
Fresh(r) ==
    /\ r \in Request
    /\ r.employee \in Employees
    /\ RowOK(r.mem, asked'[r.employee])
    /\ r.pc = "write" => RowOK(r.snap, asked'[r.employee])
    /\ r.plan => r.mem.end \in Ends
    /\ r.pc = "schedule" => r.plan

\* The rows survive a step that writes none, and so does the slot of every
\* request but the one that moves.
LEMMA RowsKept ==
    ASSUME IInv, Grows, asked' \in [Employees -> SUBSET Party], UNCHANGED emp
    PROVE  RowsOK'
<1>1. ASSUME NEW e \in Employees PROVE RowOK(emp[e], asked'[e])
  BY RowGrows DEF IInv, TypeOK, RowsOK, Grows
<1> QED
  BY <1>1 DEF RowsOK

LEMMA Others ==
    ASSUME IInv, Grows, asked' \in [Employees -> SUBSET Party], NEW h \in Handlers,
           req' \in [Handlers -> Request],
           \A g \in Handlers \ {h} : req'[g] = req[g],
           Fresh(req'[h]) \/ req'[h] = NoRequest
    PROVE  \A g \in Handlers : RequestOK(g)'
<1>1. ASSUME NEW g \in Handlers, g # h PROVE RequestOK(g)'
  <2>1. RequestOK(g) /\ req'[g] = req[g]
    BY <1>1 DEF IInv
  <2>2. CASE req[g].pc = "idle"
    BY <2>1, <2>2 DEF RequestOK
  <2>3. CASE req[g].pc # "idle"
    <3>1. req[g].employee \in Employees
      BY <2>1, <2>3 DEF RequestOK
    <3>2. RowOK(req[g].mem, asked'[req[g].employee])
      BY <2>1, <2>3, <3>1, RowGrows DEF RequestOK, Grows, IInv, TypeOK
    <3>3. req[g].pc = "write" => RowOK(req[g].snap, asked'[req[g].employee])
      BY <2>1, <2>3, <3>1, RowGrows DEF RequestOK, Grows, IInv, TypeOK
    <3> QED
      BY <2>1, <3>1, <3>2, <3>3 DEF RequestOK
  <2> QED
    BY <2>2, <2>3
<1>2. RequestOK(h)'
  <2>1. CASE Fresh(req'[h])
    BY <2>1 DEF RequestOK, Fresh
  <2>2. CASE req'[h] = NoRequest
    BY <2>2 DEF RequestOK, NoRequest
  <2> QED
    BY <2>1, <2>2
<1> QED
  BY <1>1, <1>2

\* A request that finishes or starts leaves the invariant to its rows.
LEMMA Compose ==
    ASSUME IInv, TypeOK', Grows, RowsOK', NEW h \in Handlers,
           \A g \in Handlers \ {h} : req'[g] = req[g],
           Fresh(req'[h]) \/ req'[h] = NoRequest
    PROVE  IInv'
<1>1. asked' \in [Employees -> SUBSET Party] /\ req' \in [Handlers -> Request]
  BY DEF TypeOK
<1>2. \A g \in Handlers : RequestOK(g)'
  BY <1>1, Others
<1> QED
  BY <1>2 DEF IInv

\* A request with a good row in memory begins: every operation that loads the
\* row and declares nothing, and either queue job.
LEMMA Begin ==
    ASSUME IInv, NEW h \in Handlers, NEW e \in Employees, NEW op \in OP, NEW pc \in PC,
           NEW row, RowOK(row, asked[e]), NEW plan \in BOOLEAN,
           plan => row.end \in Ends, pc \notin {"write", "schedule"},
           req' = [req EXCEPT ![h] = [NoRequest EXCEPT !.op = op, !.pc = pc,
                                      !.employee = e, !.mem = row, !.plan = plan]],
           job' \in [Employees -> [Kind -> Job]],
           UNCHANGED <<emp, now, told, asked, faults>>
    PROVE  IInv'
<1> DEFINE r == [NoRequest EXCEPT !.op = op, !.pc = pc, !.employee = e,
                                  !.mem = row, !.plan = plan]
<1>1. row \in Row
  BY DEF RowOK
<1>2. r \in Request
  BY <1>1, RequestType
<1>3. r.pc = pc /\ r.employee = e /\ r.mem = row /\ r.plan = plan
  BY DEF NoRequest
<1> HIDE DEF r
<1>4. /\ req' \in [Handlers -> Request]
      /\ req'[h] = r
      /\ \A g \in Handlers \ {h} : req'[g] = req[g]
  BY <1>2 DEF IInv, TypeOK, r
<1>5. TypeOK' /\ Grows
  BY <1>4 DEF IInv, TypeOK, Grows
<1>6. RowsOK'
  BY <1>5, RowsKept DEF TypeOK
<1>7. Fresh(req'[h])
  BY <1>2, <1>3, <1>4 DEF Fresh
<1> QED
  BY <1>4, <1>5, <1>6, <1>7, Compose

\* The same for the requests that schedule nothing.
LEMMA BeginLoad ==
    ASSUME IInv, NEW h \in Handlers, NEW e \in Employees, NEW op \in OP, NEW pc \in PC,
           NEW row, RowOK(row, asked[e]), pc \notin {"write", "schedule"},
           req' = [req EXCEPT ![h] = [NoRequest EXCEPT !.op = op, !.pc = pc,
                                      !.employee = e, !.mem = row]],
           job' \in [Employees -> [Kind -> Job]],
           UNCHANGED <<emp, now, told, asked, faults>>
    PROVE  IInv'
<1> DEFINE r == [NoRequest EXCEPT !.op = op, !.pc = pc, !.employee = e, !.mem = row]
<1>1. row \in Row
  BY DEF RowOK
<1>2. r \in Request
  BY <1>1, RequestType
<1>3. r.pc = pc /\ r.employee = e /\ r.mem = row /\ r.plan = FALSE
  BY DEF NoRequest
<1> HIDE DEF r
<1>4. /\ req' \in [Handlers -> Request]
      /\ req'[h] = r
      /\ \A g \in Handlers \ {h} : req'[g] = req[g]
  BY <1>2 DEF IInv, TypeOK, r
<1>5. TypeOK' /\ Grows
  BY <1>4 DEF IInv, TypeOK, Grows
<1>6. RowsOK'
  BY <1>5, RowsKept DEF TypeOK
<1>7. Fresh(req'[h])
  BY <1>2, <1>3, <1>4 DEF Fresh
<1> QED
  BY <1>4, <1>5, <1>6, <1>7, Compose

\* A job changes its state and stays a job.
LEMMA JobState ==
    ASSUME TypeOK, NEW e \in Employees, NEW k \in Kind,
           NEW state \in {"none", "waiting", "active", "failed"}, SetState(e, k, state)
    PROVE  job' \in [Employees -> [Kind -> Job]]
<1>1. job \in [Employees -> [Kind -> Job]] /\ job[e] \in [Kind -> Job] /\ job[e][k] \in Job
  BY DEF TypeOK
<1>2. \A j \in Job : [j EXCEPT !.state = state] \in Job
  BY DEF Job
<1> DEFINE j == [job[e][k] EXCEPT !.state = state]
<1>3. j \in Job
  BY <1>1, <1>2
<1>4. job' = [job EXCEPT ![e] = [job[e] EXCEPT ![k] = j]]
  BY DEF SetState
<1> HIDE DEF j
<1>5. [job[e] EXCEPT ![k] = j] \in [Kind -> Job]
  BY <1>1, <1>3
<1> QED
  BY <1>1, <1>4, <1>5

\* A request moves on, or is done, and no row is written.
LEMMA MoveStep ==
    ASSUME IInv, NEW h \in Handlers, NEW r \in Request,
           req' = [req EXCEPT ![h] = r], Fresh(r) \/ r = NoRequest,
           job' \in [Employees -> [Kind -> Job]], told' \in [Employees -> BOOLEAN],
           faults' \in 0..MaxFaults, UNCHANGED <<emp, now, asked>>
    PROVE  IInv'
<1>1. /\ req' \in [Handlers -> Request]
      /\ req'[h] = r
      /\ \A g \in Handlers \ {h} : req'[g] = req[g]
  BY DEF IInv, TypeOK
<1>2. TypeOK' /\ Grows
  BY <1>1 DEF IInv, TypeOK, Grows
<1>3. RowsOK'
  BY <1>2, RowsKept DEF TypeOK
<1> QED
  BY <1>1, <1>2, <1>3, Compose

LEMMA ReturnStep ==
    ASSUME IInv, NEW h \in Handlers, Return(h),
           job' \in [Employees -> [Kind -> Job]], told' \in [Employees -> BOOLEAN],
           faults' \in 0..MaxFaults, UNCHANGED <<emp, now, asked>>
    PROVE  IInv'
  BY MoveStep, RequestType DEF Return

-----------------------------------------------------------------------------
\* One lemma per action: it preserves the invariant.

LEMMA RequestLoadStep ==
    ASSUME IInv, NEW h \in Handlers, NEW e \in Employees,
           EditLoad(h, e) \/ StatusLoad(h, e) \/ TerminateLoad(h, e)
    PROVE  IInv'
<1>1. asked[e] \in SUBSET Party /\ RowOK(emp[e], asked[e])
      /\ job \in [Employees -> [Kind -> Job]]
  BY DEF IInv, TypeOK, RowsOK
<1>2. CASE EditLoad(h, e)
  BY <1>1, <1>2, BeginLoad DEF EditLoad, Load, OP, PC
<1>3. CASE StatusLoad(h, e)
  <2>1. PICK s \in EmployerSets : Load(h, e, "status", [emp[e] EXCEPT !.status = s])
    BY <1>3 DEF StatusLoad
  <2> DEFINE row == [emp[e] EXCEPT !.status = s]
  <2>2. RowOK(row, asked[e])
    BY <1>1, StatusRow
  <2> HIDE DEF row
  <2>3. Load(h, e, "status", row)
    BY <2>1 DEF row
  <2> QED
    BY <1>1, <1>3, <2>2, <2>3, BeginLoad DEF StatusLoad, Load, OP, PC
<1>4. CASE TerminateLoad(h, e)
  <2> DEFINE row == [emp[e] EXCEPT !.status = "TERMINATED", !.probation = "TERMINATED",
                                   !.reminded = FALSE]
  <2>1. RowOK(row, asked[e])
    BY <1>1, TerminatedRow
  <2>2. Load(h, e, "terminate", row)
    BY <1>4 DEF TerminateLoad
  <2> HIDE DEF row
  <2> QED
    BY <1>1, <1>4, <2>1, <2>2, BeginLoad DEF TerminateLoad, Load, OP, PC
<1> QED
  BY <1>2, <1>3, <1>4

LEMMA ActivationStep ==
    ASSUME IInv, NEW h \in Handlers, NEW e \in Employees,
           ActivateLoad(h, e) \/ HireLoad(h, e)
    PROVE  IInv'
<1>1. asked[e] \in SUBSET Party /\ RowOK(emp[e], asked[e])
      /\ job \in [Employees -> [Kind -> Job]]
  BY DEF IInv, TypeOK, RowsOK
<1>2. PICK end \in Ends, op \in {"activate", "hire"}, plan \in BOOLEAN :
          req' = [req EXCEPT ![h] =
                    [NoRequest EXCEPT !.op = op, !.pc = "reload", !.employee = e,
                                      !.mem = Activated(emp[e], end), !.plan = plan]]
  <2>1. CASE ActivateLoad(h, e)
    <3>1. (emp[e].status # "ACTIVE") \in BOOLEAN
      OBVIOUS
    <3> QED
      BY <2>1, <3>1 DEF ActivateLoad
  <2>2. CASE HireLoad(h, e)
    BY <2>2 DEF HireLoad
  <2> QED
    BY <2>1, <2>2
<1> DEFINE row == Activated(emp[e], end)
<1>3. RowOK(row, asked[e]) /\ row.end = end
  BY <1>1, ActivatedRow
<1>4. UNCHANGED <<emp, job, now, told, asked, faults>>
  BY DEF ActivateLoad, HireLoad
<1>5. op \in OP /\ "reload" \in PC
  BY DEF OP, PC
<1>6. req' = [req EXCEPT ![h] =
                [NoRequest EXCEPT !.op = op, !.pc = "reload", !.employee = e,
                                  !.mem = row, !.plan = plan]]
  BY <1>2
<1>7. "reload" \notin {"write", "schedule"} /\ (plan => row.end \in Ends)
      /\ job' \in [Employees -> [Kind -> Job]] /\ RowOK(row, asked[e])
  BY <1>1, <1>3, <1>4
<1> HIDE DEF row
<1> QED
  BY <1>4, <1>5, <1>6, <1>7, Begin

LEMMA DeclareStep ==
    ASSUME IInv, NEW h \in Handlers, NEW e \in Employees, NEW party \in Party,
           DeclareLoad(h, e, party)
    PROVE  IInv'
<1> DEFINE row == Declared(emp[e], party)
           r == [NoRequest EXCEPT !.op = "declare", !.pc = "reload", !.employee = e, !.mem = row]
<1>1. asked[e] \in SUBSET Party /\ RowOK(emp[e], asked[e])
  BY DEF IInv, TypeOK, RowsOK
<1>2. RowOK(row, asked[e] \union {party})
  BY <1>1, DeclaredRow
<1>3. /\ asked' \in [Employees -> SUBSET Party]
      /\ asked'[e] = asked[e] \union {party}
      /\ Grows
  BY DEF DeclareLoad, IInv, TypeOK, Grows
<1>4. r \in Request
  BY <1>2, RequestType DEF RowOK, OP, PC
<1>5. r.pc = "reload" /\ r.employee = e /\ r.mem = row /\ r.plan = FALSE
  BY DEF NoRequest
<1>6. req' = [req EXCEPT ![h] = r]
  BY DEF DeclareLoad, Load
<1> HIDE DEF r, row
<1>7. /\ req' \in [Handlers -> Request]
      /\ req'[h] = r
      /\ \A g \in Handlers \ {h} : req'[g] = req[g]
  BY <1>4, <1>6 DEF IInv, TypeOK
<1>8. TypeOK'
  BY <1>3, <1>7 DEF DeclareLoad, IInv, TypeOK
<1>9. RowsOK'
  BY <1>3, RowsKept DEF DeclareLoad
<1>10. Fresh(req'[h])
  BY <1>2, <1>3, <1>4, <1>5, <1>7 DEF Fresh
<1> QED
  BY <1>3, <1>7, <1>8, <1>9, <1>10, Compose

LEMMA TakeStep ==
    ASSUME IInv, NEW h \in Handlers, NEW e \in Employees, Take(h, e)
    PROVE  IInv'
<1>1. asked[e] \in SUBSET Party /\ RowOK(emp[e], asked[e]) /\ TypeOK
  BY DEF IInv, TypeOK, RowsOK
<1>2. UNCHANGED <<emp, now, told, asked, faults>>
  BY DEF Take, ReminderTake, ConfirmTake
<1>3. job' \in [Employees -> [Kind -> Job]]
  BY <1>1, JobState DEF Take, ReminderTake, ConfirmTake, Kind
<1>4. CASE UNCHANGED req
  <2>1. TypeOK' /\ Grows
    BY <1>1, <1>2, <1>3, <1>4 DEF TypeOK, Grows
  <2>2. RowsOK'
    BY <1>2, <2>1, RowsKept DEF TypeOK
  <2>3. \A g \in Handlers : RequestOK(g)'
    BY <1>2, <1>4 DEF IInv, RequestOK
  <2> QED
    BY <2>1, <2>2, <2>3 DEF IInv
<1>5. CASE ReminderTake(h, e) /\ ~UNCHANGED req
  <2> DEFINE row == [emp[e] EXCEPT !.reminded = TRUE]
  <2>1. RowOK(row, asked[e])
    BY <1>1, RemindedRow
  <2>2. req' = [req EXCEPT ![h] = [NoRequest EXCEPT !.op = "reminder", !.pc = "mail",
                                   !.employee = e, !.mem = row]]
    BY <1>5 DEF ReminderTake
  <2> HIDE DEF row
  <2> QED
    BY <1>2, <1>3, <2>1, <2>2, BeginLoad DEF OP, PC
<1>6. CASE ConfirmTake(h, e) /\ ~UNCHANGED req
  <2> DEFINE row == [emp[e] EXCEPT !.probation = "CONFIRMED"]
  <2>1. RowOK(row, asked[e])
    BY <1>1, ConfirmedRow
  <2>2. req' = [req EXCEPT ![h] = [NoRequest EXCEPT !.op = "confirm", !.pc = "reload",
                                   !.employee = e, !.mem = row]]
    BY <1>6 DEF ConfirmTake, Load
  <2> HIDE DEF row
  <2> QED
    BY <1>2, <1>3, <2>1, <2>2, BeginLoad DEF OP, PC
<1> QED
  BY <1>4, <1>5, <1>6 DEF Take

LEMMA ScheduleStep ==
    ASSUME IInv, NEW h \in Handlers, Schedule(h)
    PROVE  IInv'
<1> DEFINE e == req[h].employee
           new == [state |-> "waiting", at |-> req[h].mem.end, left |-> MaxTries]
           jobs == [k \in Kind |-> IF job[e][k].state = "none" THEN new ELSE job[e][k]]
<1>1. /\ e \in Employees
      /\ req[h].mem.end \in Ends
  BY DEF IInv, RequestOK, Schedule, At
<1>2. new \in Job
  BY <1>1, EmploymentAssumption DEF Job
<1>3. jobs \in [Kind -> Job]
  BY <1>1, <1>2 DEF IInv, TypeOK
<1>4. job' = [job EXCEPT ![e] = jobs]
  BY DEF Schedule
<1> HIDE DEF new, jobs, e
<1>5. job' \in [Employees -> [Kind -> Job]]
  BY <1>3, <1>4 DEF IInv, TypeOK
<1>6. Return(h) /\ UNCHANGED <<emp, now, told, asked, faults>>
  BY DEF Schedule
<1>7. told' \in [Employees -> BOOLEAN] /\ faults' \in 0..MaxFaults
  BY <1>6 DEF IInv, TypeOK
<1> QED
  BY <1>5, <1>6, <1>7, ReturnStep

LEMMA MailStep ==
    ASSUME IInv, NEW h \in Handlers, MailSent(h)
    PROVE  IInv'
<1> DEFINE e == req[h].employee
           r == [req[h] EXCEPT !.pc = "reload"]
<1>1. e \in Employees /\ RowOK(req[h].mem, asked[e]) /\ TypeOK /\ req[h] \in Request
      /\ (req[h].plan => req[h].mem.end \in Ends)
  BY DEF IInv, TypeOK, RequestOK, MailSent, At
<1>2. UNCHANGED <<emp, now, asked, faults>>
  BY DEF MailSent
<1>3. CASE req[h].op = "reminder"
  <2>1. req' = [req EXCEPT ![h] = r] /\ UNCHANGED <<job, told>>
    BY <1>1, <1>3 DEF MailSent, Goto, TypeOK
  <2>2. r \in Request
    BY <1>1, RequestType DEF PC
  <2>3. r.pc = "reload" /\ r.employee = e /\ r.mem = req[h].mem /\ r.plan = req[h].plan
    BY <1>1 DEF Request
  <2> HIDE DEF r, e
  <2> QED
    BY <1>1, <1>2, <2>1, <2>2, <2>3, MoveStep DEF Fresh, TypeOK
<1>4. CASE req[h].op # "reminder"
  <2>1. SetState(e, "confirm", "none") /\ Return(h) /\ told' = [told EXCEPT ![e] = TRUE]
    BY <1>4 DEF MailSent
  <2>2. job' \in [Employees -> [Kind -> Job]]
    BY <1>1, <2>1, JobState DEF Kind
  <2>3. told' \in [Employees -> BOOLEAN]
    BY <1>1, <2>1 DEF TypeOK
  <2>4. faults' \in 0..MaxFaults
    BY <1>1, <1>2 DEF TypeOK
  <2> QED
    BY <1>2, <2>1, <2>2, <2>3, <2>4, ReturnStep
<1> QED
  BY <1>3, <1>4

LEMMA ReloadStep ==
    ASSUME IInv, NEW h \in Handlers, SaveReload(h)
    PROVE  IInv'
<1> DEFINE e == req[h].employee
           r == [req[h] EXCEPT !.pc = "write", !.snap = emp[e]]
<1>1. e \in Employees /\ RowOK(req[h].mem, asked[e]) /\ TypeOK /\ req[h] \in Request
      /\ (req[h].plan => req[h].mem.end \in Ends)
  BY DEF IInv, TypeOK, RequestOK, SaveReload, At
<1>2. RowOK(emp[e], asked[e]) /\ emp[e] \in Row
  BY <1>1 DEF IInv, RowsOK, RowOK
<1>3. req' = [req EXCEPT ![h] = r] /\ UNCHANGED <<emp, job, now, told, asked, faults>>
  BY <1>1 DEF SaveReload, TypeOK
<1>4. r \in Request
  BY <1>1, <1>2, RequestType DEF PC
<1>5. r.pc = "write" /\ r.employee = e /\ r.mem = req[h].mem /\ r.plan = req[h].plan
      /\ r.snap = emp[e]
  BY <1>1 DEF Request
<1> HIDE DEF r, e
<1> QED
  BY <1>1, <1>2, <1>3, <1>4, <1>5, MoveStep DEF Fresh, TypeOK

LEMMA WriteStep ==
    ASSUME IInv, NEW h \in Handlers, SaveWrite(h)
    PROVE  IInv'
<1> DEFINE e == req[h].employee
           row == SaveRow(emp[e], req[h].snap, req[h].mem)
<1>1. /\ e \in Employees /\ TypeOK /\ req[h] \in Request
      /\ asked[e] \in SUBSET Party
      /\ RowOK(emp[e], asked[e]) /\ RowOK(req[h].snap, asked[e])
      /\ RowOK(req[h].mem, asked[e])
      /\ req[h].plan => req[h].mem.end \in Ends
  BY DEF IInv, TypeOK, RowsOK, RequestOK, SaveWrite, At
<1>2. RowOK(row, asked[e])
  BY <1>1, SaveRowOK
<1>3. emp' = [emp EXCEPT ![e] = row]
  BY DEF SaveWrite
<1> HIDE DEF row
<1>4. emp' \in [Employees -> Row] /\ RowsOK' /\ Grows
  <2>1. UNCHANGED asked
    BY DEF SaveWrite
  <2>2. emp' \in [Employees -> Row] /\ emp'[e] = row
        /\ \A d \in Employees \ {e} : emp'[d] = emp[d]
    BY <1>1, <1>2, <1>3 DEF TypeOK, RowOK
  <2>3. ASSUME NEW d \in Employees PROVE RowOK(emp'[d], asked'[d])
    BY <1>2, <2>1, <2>2 DEF IInv, RowsOK
  <2> QED
    BY <2>1, <2>2, <2>3 DEF RowsOK, Grows
<1>5. told' \in [Employees -> BOOLEAN]
  BY <1>1 DEF SaveWrite, TypeOK
<1>6. job' \in [Employees -> [Kind -> Job]]
  <2>1. SetState(e, "reminder", "none") \/ UNCHANGED job
    BY DEF SaveWrite
  <2> QED
    BY <1>1, <2>1, JobState DEF Kind, TypeOK
<1>7. \/ req' = [req EXCEPT ![h] = NoRequest]
      \/ req' = [req EXCEPT ![h].pc = "mail"]
      \/ req[h].plan /\ req' = [req EXCEPT ![h].pc = "schedule"]
  BY DEF SaveWrite, Goto, Return
<1>8. UNCHANGED <<now, asked, faults>>
  BY DEF SaveWrite
<1>9. ASSUME NEW pc \in {"mail", "schedule"}, pc = "schedule" => req[h].plan,
             req' = [req EXCEPT ![h].pc = pc]
      PROVE  IInv'
  <2> DEFINE r == [req[h] EXCEPT !.pc = pc]
  <2>1. req' = [req EXCEPT ![h] = r]
    BY <1>1, <1>9 DEF TypeOK
  <2>2. r \in Request
    BY <1>1, RequestType DEF PC
  <2>3. r.pc = pc /\ r.employee = e /\ r.mem = req[h].mem /\ r.plan = req[h].plan
    BY <1>1 DEF Request
  <2> HIDE DEF r, e
  <2>4. req' \in [Handlers -> Request] /\ req'[h] = r
        /\ \A g \in Handlers \ {h} : req'[g] = req[g]
    BY <1>1, <2>1, <2>2 DEF TypeOK
  <2>5. TypeOK'
    BY <1>1, <1>4, <1>5, <1>6, <1>8, <2>4 DEF TypeOK
  <2>6. Fresh(req'[h])
    BY <1>1, <1>8, <1>9, <2>2, <2>3, <2>4 DEF Fresh
  <2> QED
    BY <1>4, <2>4, <2>5, <2>6, Compose
<1>10. CASE req' = [req EXCEPT ![h] = NoRequest]
  <2>1. req' \in [Handlers -> Request] /\ req'[h] = NoRequest
        /\ \A g \in Handlers \ {h} : req'[g] = req[g]
    BY <1>1, <1>10, RequestType DEF TypeOK
  <2>2. TypeOK'
    BY <1>1, <1>4, <1>5, <1>6, <1>8, <2>1 DEF TypeOK
  <2> QED
    BY <1>4, <2>1, <2>2, Compose
<1> QED
  BY <1>7, <1>9, <1>10

LEMMA AbortStep ==
    ASSUME IInv, NEW h \in Handlers, Abort(h)
    PROVE  IInv'
<1> DEFINE e == req[h].employee
           op == req[h].op
<1>1. e \in Employees /\ TypeOK
  BY DEF IInv, RequestOK, Abort, At
<1>2. Return(h) /\ UNCHANGED <<emp, now, asked>>
  BY DEF Abort
<1>3. faults' \in 0..MaxFaults
  <2>1. faults \in 0..MaxFaults /\ faults < MaxFaults /\ faults' = faults + 1
    BY <1>1 DEF Abort, TypeOK
  <2> QED
    BY <2>1, EmploymentAssumption
<1>4. ASSUME NEW j \in Job PROVE Retried(j) \in Job
  <2>1. j.left \in 0..MaxTries /\ MaxTries \in Nat
    BY EmploymentAssumption DEF Job
  <2>2. CASE j.left > 1
    <3> DEFINE n == j.left - 1
    <3>1. n \in 0..MaxTries
      BY <2>1, <2>2
    <3>2. Retried(j) = [j EXCEPT !.state = "waiting", !.left = n]
      BY <2>2 DEF Retried
    <3> HIDE DEF n
    <3> QED
      BY <3>1, <3>2 DEF Job
  <2>3. CASE ~(j.left > 1)
    <3>1. 0 \in 0..MaxTries
      BY <2>1
    <3>2. Retried(j) = [j EXCEPT !.state = "failed", !.left = 0]
      BY <2>3 DEF Retried
    <3> QED
      BY <3>1, <3>2 DEF Job
  <2> QED
    BY <2>2, <2>3
<1>5. job' \in [Employees -> [Kind -> Job]]
  <2>1. CASE op \in Kind
    <3>1. job' = [job EXCEPT ![e] = [job[e] EXCEPT ![op] = Retried(job[e][op])]]
      BY <2>1 DEF Abort
    <3>2. job[e] \in [Kind -> Job] /\ job[e][op] \in Job
      BY <1>1, <2>1 DEF TypeOK
    <3>3. Retried(job[e][op]) \in Job
      BY <1>4, <3>2
    <3>4. [job[e] EXCEPT ![op] = Retried(job[e][op])] \in [Kind -> Job]
      BY <3>2, <3>3
    <3> QED
      BY <1>1, <3>1, <3>4 DEF TypeOK
  <2>2. CASE op \notin Kind
    BY <1>1, <2>2 DEF Abort, TypeOK
  <2> QED
    BY <2>1, <2>2
<1>6. told' \in [Employees -> BOOLEAN]
  <2>1. told' = told \/ told' = [told EXCEPT ![e] = TRUE]
    BY DEF Abort
  <2> QED
    BY <1>1, <2>1 DEF TypeOK
<1> QED
  BY <1>2, <1>5, <1>6, <1>3, ReturnStep

LEMMA CrashStep ==
    ASSUME IInv, Crash
    PROVE  IInv'
<1>1. TypeOK
  BY DEF IInv
<1>2. req' \in [Handlers -> Request] /\ \A h \in Handlers : req'[h] = NoRequest
  BY RequestType DEF Crash
<1>3. ASSUME NEW e \in Employees, NEW k \in Kind
      PROVE  (IF job[e][k].state = "active"
              THEN [job[e][k] EXCEPT !.state = "waiting"] ELSE job[e][k]) \in Job
  <2>1. job[e][k] \in Job
    BY <1>1 DEF TypeOK
  <2>2. \A j \in Job : [j EXCEPT !.state = "waiting"] \in Job
    BY DEF Job
  <2> QED
    BY <2>1, <2>2
<1>4. job' \in [Employees -> [Kind -> Job]]
  BY <1>3 DEF Crash
<1>5. faults' \in 0..MaxFaults
  BY <1>1, EmploymentAssumption DEF Crash, TypeOK
<1>6. UNCHANGED <<emp, now, told, asked>>
  BY DEF Crash
<1>7. TypeOK' /\ Grows
  BY <1>1, <1>2, <1>4, <1>5, <1>6 DEF TypeOK, Grows
<1>8. RowsOK'
  BY <1>6, <1>7, RowsKept DEF TypeOK
<1>9. \A h \in Handlers : RequestOK(h)'
  BY <1>2 DEF RequestOK, NoRequest
<1> QED
  BY <1>7, <1>8, <1>9 DEF IInv

LEMMA StillStep ==
    ASSUME IInv, Elapse \/ UNCHANGED vars
    PROVE  IInv'
<1>1. UNCHANGED <<emp, job, req, told, asked, faults>> /\ now' \in 0..MaxTime
  BY EmploymentAssumption DEF Elapse, vars, IInv, TypeOK
<1>2. TypeOK'
  BY <1>1 DEF IInv, TypeOK
<1>3. RowsOK' /\ \A h \in Handlers : RequestOK(h)'
  BY <1>1 DEF IInv, RowsOK, RequestOK
<1> QED
  BY <1>2, <1>3 DEF IInv

-----------------------------------------------------------------------------
LEMMA InitInv == Init => IInv
<1> SUFFICES ASSUME Init PROVE IInv
  OBVIOUS
<1> DEFINE row == [status |-> "ONBOARDING", probation |-> "ACTIVE", end |-> None,
                   reminded |-> FALSE, declared |-> {}]
<1>1. row \in Row /\ row.declared = {} /\ row.status = "ONBOARDING"
  BY DEF Row, EmployeeStatus, ProbationStatus
<1>2. emp = [e \in Employees |-> row]
  BY DEF Init
<1> HIDE DEF row
<1>3. NoJob \in Job
  BY EmploymentAssumption DEF NoJob, Job
<1>4. job \in [Employees -> [Kind -> Job]]
  BY <1>3 DEF Init
<1>5. req \in [Handlers -> Request] /\ \A h \in Handlers : req[h] = NoRequest
  BY RequestType DEF Init
<1>6. TypeOK
  <2>1. emp \in [Employees -> Row]
    BY <1>1, <1>2
  <2>2. now \in 0..MaxTime /\ faults \in 0..MaxFaults
    BY EmploymentAssumption DEF Init
  <2>3. told \in [Employees -> BOOLEAN] /\ asked \in [Employees -> SUBSET Party]
    BY DEF Init
  <2> QED
    BY <1>4, <1>5, <2>1, <2>2, <2>3 DEF TypeOK
<1>7. RowsOK
  BY <1>1, <1>2 DEF RowsOK, RowOK, Init
<1>8. \A h \in Handlers : RequestOK(h)
  BY <1>5 DEF RequestOK, NoRequest
<1> QED
  BY <1>6, <1>7, <1>8 DEF IInv

LEMMA InvStep == IInv /\ [Next]_vars => IInv'
<1> SUFFICES ASSUME IInv, [Next]_vars PROVE IInv'
  OBVIOUS
<1>1. ASSUME NEW h \in Handlers, NEW e \in Employees,
             \/ EditLoad(h, e) \/ StatusLoad(h, e) \/ TerminateLoad(h, e)
             \/ ActivateLoad(h, e) \/ HireLoad(h, e) \/ Take(h, e)
             \/ \E party \in Party : DeclareLoad(h, e, party)
      PROVE  IInv'
  BY <1>1, RequestLoadStep, ActivationStep, TakeStep, DeclareStep
<1>2. ASSUME NEW h \in Handlers, Continue(h) \/ Abort(h)
      PROVE  IInv'
  BY <1>2, ScheduleStep, MailStep, ReloadStep, WriteStep, AbortStep DEF Continue
<1>3. CASE Crash \/ Elapse \/ UNCHANGED vars
  BY <1>3, CrashStep, StillStep
<1> QED
  BY <1>1, <1>2, <1>3 DEF Next

\* The strengthened invariant holds for any set of placements, dates and
\* overlapping requests and any number of failures.
THEOREM Invariance == Spec => []IInv
<1>1. Init => IInv
  BY InitInv
<1>2. IInv /\ [Next]_vars => IInv'
  BY InvStep
<1> QED
  BY <1>1, <1>2, PTL DEF Spec

\* Rows, jobs and requests have their types in every reachable state.
THEOREM TypeCorrect == Spec => []TypeOK
<1>1. IInv => TypeOK
  BY DEF IInv
<1> QED
  BY <1>1, Invariance, PTL

\* A placement is ENDED only after both parties declared it complete.
THEOREM EndedWasDeclared == Spec => []EndedOnlyIfBothDeclared
<1>1. IInv => EndedOnlyIfBothDeclared
  BY DEF IInv, RowsOK, RowOK, EndedOnlyIfBothDeclared
<1> QED
  BY <1>1, Invariance, PTL

-----------------------------------------------------------------------------
\* What overlapping requests leave of the schedule of a probation.

\* Nobody takes a placement's confirmation away who neither touches its queue job
\* nor is about to put it there.
LEMMA TrackedKept ==
    ASSUME NEW h \in Handlers, ~At(h, "schedule"),
           \A g \in Handlers \ {h} : req'[g] = req[g],
           NEW e \in Employees, job'[e]["confirm"].state = job[e]["confirm"].state,
           Tracked(e)
    PROVE  Tracked(e)'
  BY DEF Tracked, At

LEMMA TrackedCompose ==
    ASSUME IInv, TrackedIInv, Early, NEW h \in Handlers,
           \A g \in Handlers \ {h} : req'[g] = req[g],
           \A e \in Employees : Tracked(e) => Tracked(e)',
           \A e \in Employees :
             \/ job'[e]["confirm"].state = "none"
             \/ job'[e]["confirm"].state = "waiting" /\ job'[e]["confirm"].at \in Ends,
           \A e \in Employees : emp'[e].status = "ACTIVE" => Tracked(e)',
           TracksOK(req[h])'
    PROVE  TrackedIInv'
<1>1. ASSUME NEW g \in Handlers, g # h PROVE TracksOK(req[g])'
  <2>1. TracksOK(req[g]) /\ RequestOK(g) /\ req'[g] = req[g]
    BY <1>1 DEF TrackedIInv, IInv
  <2>2. req[g].pc \in {"mail", "reload", "write"} => req[g].employee \in Employees
    BY <2>1 DEF RequestOK
  <2> QED
    BY <2>1, <2>2 DEF TracksOK
<1> QED
  BY <1>1 DEF TrackedIInv

\* The same for a step that writes no row and leaves the confirmations alone.
LEMMA TrackedQuiet ==
    ASSUME IInv, TrackedIInv, Early, NEW h \in Handlers, ~At(h, "schedule"),
           \A g \in Handlers \ {h} : req'[g] = req[g], UNCHANGED emp,
           \A e \in Employees : job'[e]["confirm"] = job[e]["confirm"],
           \/ req'[h].pc \in {"idle", "schedule"} /\ req'[h].op # "confirm"
           \/ /\ req'[h].op # "confirm" /\ req'[h].employee \in Employees
              /\ req'[h].pc = "mail" => req'[h].op = "reminder"
              /\ req'[h].mem.status = "ACTIVE" => req'[h].plan \/ Tracked(req'[h].employee)
    PROVE  TrackedIInv'
<1>1. \A e \in Employees : Tracked(e) => Tracked(e)'
  BY TrackedKept
<1>2. TracksOK(req[h])'
  BY <1>1 DEF TracksOK
<1> QED
  BY <1>1, <1>2, TrackedCompose DEF TrackedIInv

\* While nothing has failed before a step, nothing had failed, and no date had come.
LEMMA EarlyBefore ==
    ASSUME TypeOK, [Next]_vars, Early'
    PROVE  Early /\ (\A h \in Handlers : ~Abort(h)) /\ ~Crash
<1>1. faults \in Nat /\ now \in Nat
  BY EmploymentAssumption DEF TypeOK
<1>2. faults' = faults \/ faults' = faults + 1
  BY DEF Next, vars, EditLoad, StatusLoad, TerminateLoad, ActivateLoad, HireLoad, Take,
     ReminderTake, ConfirmTake, DeclareLoad, Continue, Schedule, MailSent, SaveReload,
     SaveWrite, Abort, Crash, Elapse
<1>3. now' = now \/ now' = now + 1
  BY DEF Next, vars, EditLoad, StatusLoad, TerminateLoad, ActivateLoad, HireLoad, Take,
     ReminderTake, ConfirmTake, DeclareLoad, Continue, Schedule, MailSent, SaveReload,
     SaveWrite, Abort, Crash, Elapse
<1>4. faults = 0 /\ faults' = faults
  BY <1>1, <1>2 DEF Early
<1>5. \A end \in Ends : now < end
  <2>1. ASSUME NEW end \in Ends PROVE now < end
    <3>1. now' < end /\ end \in Nat
      BY EmploymentAssumption DEF Early
    <3> QED
      BY <1>1, <1>3, <3>1
  <2> QED
    BY <2>1
<1>6. (\A h \in Handlers : ~Abort(h)) /\ ~Crash
  BY <1>1, <1>4 DEF Abort, Crash
<1> QED
  BY <1>4, <1>5, <1>6 DEF Early

LEMMA TrackedLoad ==
    ASSUME IInv, TrackedIInv, Early, NEW h \in Handlers, NEW e \in Employees,
           \/ EditLoad(h, e) \/ StatusLoad(h, e) \/ TerminateLoad(h, e)
           \/ ActivateLoad(h, e) \/ HireLoad(h, e)
           \/ \E party \in Party : DeclareLoad(h, e, party)
    PROVE  TrackedIInv'
<1>0. /\ req \in [Handlers -> Request] /\ emp[e] \in Row /\ UNCHANGED <<emp, job>>
      /\ ~At(h, "schedule")
  BY DEF IInv, TypeOK, EditLoad, StatusLoad, TerminateLoad, ActivateLoad, HireLoad,
     DeclareLoad, Load, At
<1>1. emp[e].status = "ACTIVE" => Tracked(e)
  BY DEF TrackedIInv
<1>2. ASSUME NEW op \in OP \ {"confirm"}, NEW mem,
             mem.status \in {emp[e].status} \union (EmployeeStatus \ {"ACTIVE"}),
             req' = [req EXCEPT ![h] = [NoRequest EXCEPT !.op = op, !.pc = "reload",
                                                         !.employee = e, !.mem = mem]]
      PROVE  TrackedIInv'
  <2>1. /\ req'[h].op = op /\ req'[h].pc = "reload" /\ req'[h].employee = e
        /\ req'[h].mem = mem /\ \A g \in Handlers \ {h} : req'[g] = req[g]
    BY <1>0, <1>2 DEF NoRequest
  <2> QED
    BY <1>0, <1>1, <1>2, <2>1, TrackedQuiet
<1>3. CASE EditLoad(h, e)
  BY <1>2, <1>3 DEF EditLoad, Load, OP
<1>4. CASE StatusLoad(h, e)
  <2>1. PICK s \in EmployerSets : Load(h, e, "status", [emp[e] EXCEPT !.status = s])
    BY <1>4 DEF StatusLoad
  <2>2. [emp[e] EXCEPT !.status = s].status \in EmployeeStatus \ {"ACTIVE"}
    BY <1>0, EmploymentAssumption DEF Row, EmployeeStatus
  <2> QED
    BY <1>2, <2>1, <2>2 DEF Load, OP
<1>5. CASE TerminateLoad(h, e)
  <2>1. [emp[e] EXCEPT !.status = "TERMINATED", !.probation = "TERMINATED",
                       !.reminded = FALSE].status \in EmployeeStatus \ {"ACTIVE"}
    BY <1>0 DEF Row, EmployeeStatus
  <2> QED
    BY <1>2, <1>5, <2>1 DEF TerminateLoad, Load, OP
<1>6. ASSUME NEW party \in Party, DeclareLoad(h, e, party) PROVE TrackedIInv'
  <2>1. Declared(emp[e], party).status \in {emp[e].status} \union (EmployeeStatus \ {"ACTIVE"})
    BY <1>0 DEF Declared, Ended, Row, EmployeeStatus
  <2> QED
    BY <1>2, <1>6, <2>1 DEF DeclareLoad, Load, OP
<1>7. ASSUME NEW op \in {"activate", "hire"}, NEW end \in Ends, NEW plan,
             emp[e].status # "ACTIVE" => plan = TRUE,
             req' = [req EXCEPT ![h] =
                       [NoRequest EXCEPT !.op = op, !.pc = "reload", !.employee = e,
                                         !.mem = Activated(emp[e], end), !.plan = plan]]
      PROVE  TrackedIInv'
  <2>1. /\ req'[h].op = op /\ req'[h].pc = "reload" /\ req'[h].employee = e
        /\ req'[h].plan = plan /\ \A g \in Handlers \ {h} : req'[g] = req[g]
    BY <1>0, <1>7 DEF NoRequest
  <2> QED
    BY <1>0, <1>1, <1>7, <2>1, TrackedQuiet
<1>8. CASE ActivateLoad(h, e)
  <2>1. (emp[e].status # "ACTIVE") => (emp[e].status # "ACTIVE") = TRUE
    OBVIOUS
  <2> QED
    BY <1>7, <1>8, <2>1 DEF ActivateLoad
<1>9. CASE HireLoad(h, e)
  BY <1>7, <1>9 DEF HireLoad
<1> QED
  BY <1>3, <1>4, <1>5, <1>6, <1>8, <1>9

\* The queue job of a reminder is another one than that of the confirmation.
LEMMA ReminderJob ==
    ASSUME TypeOK, NEW e \in Employees, NEW state, SetState(e, "reminder", state)
    PROVE  \A d \in Employees : job'[d]["confirm"] = job[d]["confirm"]
  BY DEF TypeOK, SetState, Kind

\* No confirmation is taken from the queue, and a reminder leaves it there.
LEMMA TrackedTake ==
    ASSUME IInv, TrackedIInv, Early, NEW h \in Handlers, NEW e \in Employees, Take(h, e)
    PROVE  TrackedIInv'
<1>0. /\ req \in [Handlers -> Request] /\ emp[e] \in Row /\ TypeOK
      /\ UNCHANGED emp /\ At(h, "idle")
  BY DEF IInv, TypeOK, Take, ReminderTake, ConfirmTake
<1>1. ~ConfirmTake(h, e)
  <2>1. ASSUME Ripe(e, "confirm") PROVE FALSE
    <3>1. PICK end \in Ends : job[e]["confirm"].at = end /\ end <= now
      BY <2>1 DEF Ripe, TrackedIInv
    <3>2. now \in Nat /\ end \in Nat /\ now < end
      BY <1>0, EmploymentAssumption DEF Early, TypeOK
    <3> QED
      BY <3>1, <3>2
  <2> QED
    BY <2>1 DEF ConfirmTake
<1>2. ReminderTake(h, e)
  BY <1>1 DEF Take
<1>3. \A d \in Employees : job'[d]["confirm"] = job[d]["confirm"]
  <2>1. PICK state : SetState(e, "reminder", state)
    BY <1>2 DEF ReminderTake
  <2> QED
    BY <1>0, <2>1, ReminderJob
<1>4. CASE UNCHANGED req
  <2>1. \A d \in Employees : Tracked(d) => Tracked(d)'
    BY <1>3, <1>4 DEF Tracked, At
  <2>2. TracksOK(req[h])'
    BY <1>0, <1>4 DEF TracksOK, TrackedIInv, At
  <2> QED
    BY <1>0, <1>3, <1>4, <2>1, <2>2, TrackedCompose DEF TrackedIInv
<1>5. CASE req' = [req EXCEPT ![h] =
                     [NoRequest EXCEPT !.op = "reminder", !.pc = "mail", !.employee = e,
                                       !.mem = [emp[e] EXCEPT !.reminded = TRUE]]]
  <2>1. /\ req'[h].op = "reminder" /\ req'[h].pc = "mail" /\ req'[h].employee = e
        /\ req'[h].mem.status = emp[e].status /\ \A g \in Handlers \ {h} : req'[g] = req[g]
    BY <1>0, <1>5 DEF NoRequest, Row
  <2>2. emp[e].status = "ACTIVE" => Tracked(e)
    BY DEF TrackedIInv
  <2> QED
    BY <1>0, <1>3, <2>1, <2>2, TrackedQuiet DEF At
<1> QED
  BY <1>2, <1>4, <1>5 DEF ReminderTake

LEMMA TrackedSchedule ==
    ASSUME IInv, TrackedIInv, Early, NEW h \in Handlers, Schedule(h)
    PROVE  TrackedIInv'
<1>e. req[h].employee \in Employees
  BY DEF IInv, RequestOK, Schedule, At
<1> SUFFICES ASSUME NEW e \in Employees, e = req[h].employee
             PROVE  TrackedIInv'
  BY <1>e
<1> DEFINE new == [state |-> "waiting", at |-> req[h].mem.end, left |-> MaxTries]
           jobs == [k \in Kind |-> IF job[e][k].state = "none" THEN new ELSE job[e][k]]
<1>0. /\ req \in [Handlers -> Request] /\ job \in [Employees -> [Kind -> Job]]
      /\ e \in Employees /\ req[h].mem.end \in Ends /\ UNCHANGED emp
      /\ job' = [job EXCEPT ![e] = jobs]
  BY DEF IInv, TypeOK, RequestOK, Schedule, At
<1>1. req'[h] = NoRequest /\ \A g \in Handlers \ {h} : req'[g] = req[g]
  BY <1>0 DEF Schedule, Return
<1>2. job'[e]["confirm"].state = "waiting" /\ job'[e]["confirm"].at \in Ends
  <2>1. job'[e]["confirm"] = IF job[e]["confirm"].state = "none" THEN new
                             ELSE job[e]["confirm"]
    <3>1. job'[e] = jobs /\ "confirm" \in Kind
      BY <1>0 DEF Kind
    <3> HIDE DEF new
    <3> QED
      BY <3>1
  <2>3. new.state = "waiting" /\ new.at = req[h].mem.end
    OBVIOUS
  <2> HIDE DEF new, jobs
  <2>2. \/ job[e]["confirm"].state = "none"
        \/ job[e]["confirm"].state = "waiting" /\ job[e]["confirm"].at \in Ends
    BY <1>0 DEF TrackedIInv
  <2> QED
    BY <1>0, <2>1, <2>2, <2>3
<1>3. \A d \in Employees \ {e} : job'[d] = job[d]
  BY <1>0
<1>4. Tracked(e)'
  BY <1>2 DEF Tracked
<1> HIDE DEF new, jobs
<1>5. ASSUME NEW d \in Employees, Tracked(d) PROVE Tracked(d)'
  <2>1. CASE d = e
    BY <1>4, <2>1 DEF Tracked, At
  <2>2. CASE d # e
    BY <1>1, <1>3, <1>5, <2>2 DEF Tracked, At
  <2> QED
    BY <2>1, <2>2
<1>6. TracksOK(req[h])'
  BY <1>1 DEF TracksOK, NoRequest
<1>7. \A d \in Employees :
        \/ job'[d]["confirm"].state = "none"
        \/ job'[d]["confirm"].state = "waiting" /\ job'[d]["confirm"].at \in Ends
  BY <1>2, <1>3 DEF TrackedIInv
<1>8. \A d \in Employees : emp'[d].status = "ACTIVE" => Tracked(d)'
  BY <1>0, <1>5 DEF TrackedIInv
<1> QED
  BY <1>1, <1>5, <1>6, <1>7, <1>8, TrackedCompose

LEMMA TrackedGoesOn ==
    ASSUME IInv, TrackedIInv, Early, NEW h \in Handlers, MailSent(h) \/ SaveReload(h)
    PROVE  TrackedIInv'
<1>0. /\ req \in [Handlers -> Request] /\ req[h] \in Request /\ UNCHANGED <<emp, job>>
      /\ req[h].pc \in {"mail", "reload"} /\ RequestOK(h) /\ TracksOK(req[h])
  BY DEF IInv, TypeOK, MailSent, SaveReload, At, TrackedIInv, TracksOK
<1>1. \/ req' = [req EXCEPT ![h].pc = "reload"]
      \/ req' = [req EXCEPT ![h].pc = "write", ![h].snap = emp[req[h].employee]]
  BY <1>0 DEF MailSent, SaveReload, Goto, TracksOK, At
<1>2. /\ req'[h].pc \in {"reload", "write"} /\ req'[h].op = req[h].op
      /\ req'[h].employee = req[h].employee /\ req'[h].mem = req[h].mem
      /\ req'[h].plan = req[h].plan /\ \A g \in Handlers \ {h} : req'[g] = req[g]
  BY <1>0, <1>1 DEF Request
<1>3. req[h].employee \in Employees
  BY <1>0 DEF RequestOK
<1> QED
  BY <1>0, <1>2, <1>3, TrackedQuiet DEF TracksOK, At

\* A placement becomes ACTIVE by a save that goes on to schedule, or by one whose
\* request found it ACTIVE.
LEMMA TrackedWrite ==
    ASSUME IInv, TrackedIInv, Early, NEW h \in Handlers, SaveWrite(h)
    PROVE  TrackedIInv'
<1> DEFINE e == req[h].employee
           row == SaveRow(emp[e], req[h].snap, req[h].mem)
<1>0. /\ req \in [Handlers -> Request] /\ req[h] \in Request /\ TypeOK
      /\ emp \in [Employees -> Row] /\ e \in Employees
      /\ req[h].pc = "write" /\ TracksOK(req[h]) /\ emp' = [emp EXCEPT ![e] = row]
  BY DEF IInv, TypeOK, RequestOK, SaveWrite, At, TrackedIInv
<1>1. row.status \in {emp[e].status, req[h].mem.status}
  BY DEF SaveRow, SaveColumn
<1> HIDE DEF row
<1>2. \A d \in Employees : job'[d]["confirm"] = job[d]["confirm"]
  BY <1>0, ReminderJob DEF SaveWrite
<1>3. IF req[h].plan THEN req' = [req EXCEPT ![h].pc = "schedule"]
                     ELSE req' = [req EXCEPT ![h] = NoRequest]
  BY <1>0 DEF SaveWrite, TracksOK, Goto, Return
<1>4. /\ \A g \in Handlers \ {h} : req'[g] = req[g]
      /\ req'[h].pc \in {"idle", "schedule"} /\ req'[h].op # "confirm"
      /\ req[h].plan => req'[h].pc = "schedule" /\ req'[h].employee = e
  BY <1>0, <1>3 DEF TracksOK, Request, NoRequest
<1>5. \A d \in Employees : Tracked(d) => Tracked(d)'
  BY <1>0, <1>2, <1>4, TrackedKept DEF At
<1>6. ASSUME NEW d \in Employees, emp'[d].status = "ACTIVE" PROVE Tracked(d)'
  <2>1. CASE emp[d].status = "ACTIVE"
    BY <1>5, <2>1 DEF TrackedIInv
  <2>2. CASE emp[d].status # "ACTIVE"
    <3>1. d = e /\ req[h].mem.status = "ACTIVE"
      BY <1>0, <1>1, <1>6, <2>2
    <3>2. CASE req[h].plan
      BY <1>4, <3>1, <3>2 DEF Tracked, At
    <3>3. CASE ~req[h].plan
      BY <1>0, <1>5, <3>1, <3>3 DEF TracksOK
    <3> QED
      BY <3>2, <3>3
  <2> QED
    BY <2>1, <2>2
<1>7. TracksOK(req[h])'
  BY <1>4 DEF TracksOK
<1> QED
  BY <1>2, <1>4, <1>5, <1>6, <1>7, TrackedCompose DEF TrackedIInv

LEMMA TrackedStep == IInv /\ TrackedIInv /\ [Next]_vars => TrackedIInv'
<1> SUFFICES ASSUME IInv, TrackedIInv, [Next]_vars, Early' PROVE TrackedIInv'
  BY DEF TrackedIInv
<1>1. Early /\ (\A h \in Handlers : ~Abort(h)) /\ ~Crash
  BY EarlyBefore DEF IInv
<1>2. CASE UNCHANGED vars \/ Elapse
  <2>1. UNCHANGED <<emp, job, req>>
    BY <1>2 DEF vars, Elapse
  <2> QED
    BY <1>1, <2>1 DEF TrackedIInv, TracksOK, Tracked, At
<1> QED
  BY <1>1, <1>2, TrackedLoad, TrackedTake, TrackedSchedule, TrackedGoesOn, TrackedWrite
     DEF Next, Continue

\* Until something fails, and before any date a probation can end on, an ACTIVE placement
\* has its confirmation waiting in the queue whenever no request is in progress, however
\* requests overlap: of those that write ACTIVE, each one that schedules nothing found the
\* placement activated by another that did.
THEOREM ActiveIsTrackedHolds == Spec => []ActiveIsTracked
<1>1. Init => TrackedIInv
  BY DEF Init, TrackedIInv, TracksOK, NoRequest, NoJob, Kind
<1>2. TrackedIInv => ActiveIsTracked
  BY DEF TrackedIInv, ActiveIsTracked, Early, Tracked, At
<1> QED
  BY <1>1, <1>2, TrackedStep, Invariance, PTL DEF Spec

-----------------------------------------------------------------------------
\* While no two requests or jobs work on one placement.

\* The row after a save by whoever had it to itself is the one in memory.
LEMMA SoleSave ==
    ASSUME NEW row \in Row, NEW mem \in Row
    PROVE  SaveRow(row, row, mem) = mem
<1> DEFINE D == {p \in Party : SaveColumn(p \in row.declared, p \in row.declared,
                                          p \in mem.declared)}
<1>1. \A x, y : SaveColumn(x, x, y) = y
  BY DEF SaveColumn
<1>2. \A p \in Party : SaveColumn(p \in row.declared, p \in row.declared, p \in mem.declared)
                         <=> p \in mem.declared
  BY DEF SaveColumn
<1>3. D = mem.declared
  BY <1>2 DEF Row
<1>4. SaveRow(row, row, mem) =
        [status |-> mem.status, probation |-> mem.probation, end |-> mem.end,
         reminded |-> mem.reminded, declared |-> D]
  BY <1>1 DEF SaveRow
<1> HIDE DEF D
<1> QED
  BY <1>3, <1>4 DEF Row

\* What a request may do to the row.
LEMMA ChangedRow ==
    ASSUME NEW r, NEW row \in Row, NEW time, Changes(r, row, time)
    PROVE  /\ row.declared # Party /\ r.mem.declared = Party => r.mem.status = "ENDED"
           /\ row.status \in {"ENDED", "TERMINATED", "COMPLETED"} /\ r.mem.status # row.status
                => r.op \in {"status", "activate", "hire", "terminate"}
           /\ row.probation # "CONFIRMED" /\ r.mem.probation = "CONFIRMED"
                => row.end # None /\ row.end <= time
           /\ r.mem.probation = "ACTIVE" /\ row.probation # "ACTIVE"
                => r.op \in {"activate", "hire"}
           /\ r.op = "confirm" => row.probation = "ACTIVE" /\ r.mem.probation = "CONFIRMED"
<1>1. CASE r.op = "edit" /\ r.mem = row
  BY <1>1
<1>2. CASE r.op = "status" /\ \E s \in EmployerSets : r.mem = [row EXCEPT !.status = s]
  BY <1>2 DEF Row
<1>3. CASE /\ r.op = "terminate"
           /\ r.mem = [row EXCEPT !.status = "TERMINATED", !.probation = "TERMINATED",
                                  !.reminded = FALSE]
  BY <1>3 DEF Row
<1>4. CASE r.op \in {"activate", "hire"} /\ \E end \in Ends : r.mem = Activated(row, end)
  BY <1>4 DEF Row, Activated
<1>5. CASE /\ r.op = "declare" /\ IsOpen(row.status)
           /\ \E party \in Party \ row.declared : r.mem = Declared(row, party)
  <2>1. PICK party \in Party \ row.declared : r.mem = Declared(row, party)
    BY <1>5
  <2> DEFINE with == [row EXCEPT !.declared = @ \union {party}]
  <2>2. /\ with.status = row.status /\ with.probation = row.probation
        /\ Ended(with).status = "ENDED" /\ Ended(with).probation = "TERMINATED"
    BY DEF Row, Ended
  <2>3. r.mem = IF with.declared = Party THEN Ended(with) ELSE with
    BY <2>1 DEF Declared
  <2> HIDE DEF with
  <2> QED
    BY <1>5, <2>2, <2>3 DEF IsOpen
<1>6. CASE r.op = "reminder" /\ r.mem = [row EXCEPT !.reminded = TRUE]
  BY <1>6 DEF Row
<1>7. CASE /\ r.op = "confirm" /\ r.mem = [row EXCEPT !.probation = "CONFIRMED"]
           /\ row.probation = "ACTIVE" /\ row.end # None /\ row.end <= time
  BY <1>7 DEF Row
<1> QED
  BY <1>1, <1>2, <1>3, <1>4, <1>5, <1>6, <1>7 DEF Changes

\* A step of h that writes the row of no other request.
LEMMA ApartStep ==
    ASSUME IInv, Apart, ApartIInv, NEW h \in Handlers, ToldOK', UNCHANGED now,
           \A g \in Handlers \ {h} : req'[g] = req[g],
           ApartOK(req'[h], emp'[req'[h].employee], told'[req'[h].employee], now),
           \A e \in Employees : e # req[h].employee => emp'[e] = emp[e] /\ told'[e] = told[e]
    PROVE  ApartIInv'
<1>1. ASSUME NEW g \in Handlers \ {h}
      PROVE  ApartOK(req'[g], emp'[req'[g].employee], told'[req'[g].employee], now)
  <2>1. /\ req'[g] = req[g] /\ RequestOK(g)
        /\ ApartOK(req[g], emp[req[g].employee], told[req[g].employee], now)
    BY DEF IInv, ApartIInv
  <2>2. CASE req[g].pc \in {"reload", "write", "mail"}
    <3>1. req[g].employee \in Employees
      BY <2>1, <2>2 DEF RequestOK
    <3>2. req[g].employee # req[h].employee
      BY <3>1, EmploymentAssumption DEF Apart
    <3> QED
      BY <2>1, <3>1, <3>2
  <2>3. CASE req[g].pc \notin {"reload", "write", "mail"}
    BY <2>1, <2>3 DEF ApartOK
  <2> QED
    BY <2>2, <2>3
<1> QED
  BY <1>1 DEF ApartIInv

\* A step of h that writes no row.
LEMMA ApartKeeps ==
    ASSUME IInv, Apart, ApartIInv, NEW h \in Handlers, UNCHANGED <<emp, told, now>>,
           \A g \in Handlers \ {h} : req'[g] = req[g],
           ApartOK(req'[h], emp[req'[h].employee], told[req'[h].employee], now)
    PROVE  ApartIInv'
  BY ApartStep DEF ToldOK, ApartIInv

\* A slot that has nothing left to save.
LEMMA ApartDone ==
    ASSUME IInv, Apart, ApartIInv, NEW h \in Handlers, UNCHANGED <<emp, told, now>>,
           \A g \in Handlers \ {h} : req'[g] = req[g], req'[h].pc \in {"idle", "schedule"}
    PROVE  ApartIInv'
  BY ApartKeeps DEF ApartOK

\* A slot that has loaded the row of e.
LEMMA ApartLoad ==
    ASSUME IInv, Apart, ApartIInv, NEW h \in Handlers, NEW e \in Employees,
           UNCHANGED <<emp, told, now>>,
           \A g \in Handlers \ {h} : req'[g] = req[g],
           req'[h].pc \in {"reload", "mail"}, req'[h].pc = "mail" => req'[h].op = "reminder",
           req'[h].employee = e, Changes(req'[h], emp[e], now)
    PROVE  ApartIInv'
  BY ApartKeeps DEF ApartOK

LEMMA ApartKept == IInv /\ Apart /\ ApartIInv /\ [Next]_vars => ApartIInv'
<1> SUFFICES ASSUME IInv, Apart, ApartIInv, [Next]_vars PROVE ApartIInv'
  OBVIOUS
<1>0. /\ req \in [Handlers -> Request] /\ \A h \in Handlers : req[h] \in Request
      /\ emp \in [Employees -> Row] /\ \A e \in Employees : emp[e] \in Row
      /\ now \in Nat /\ Ends \subseteq Nat
      /\ told \in [Employees -> BOOLEAN] /\ ToldOK
  BY EmploymentAssumption DEF IInv, TypeOK, ApartIInv
<1>1. CASE UNCHANGED <<emp, req, told, now>>
  BY <1>1 DEF ApartIInv, ToldOK
<1>2. CASE Elapse
  <2>1. UNCHANGED <<emp, req, told>> /\ now' = now + 1
    BY <1>2 DEF Elapse
  <2>2. ASSUME NEW g \in Handlers
        PROVE  ApartOK(req[g], emp[req[g].employee], told[req[g].employee], now + 1)
    <3>1. ApartOK(req[g], emp[req[g].employee], told[req[g].employee], now) /\ RequestOK(g)
      BY DEF ApartIInv, IInv
    <3>2. CASE req[g].pc \in {"reload", "write", "mail"}
      <4> DEFINE row == emp[req[g].employee]
      <4>1. row \in Row
        BY <1>0, <3>1, <3>2 DEF RequestOK
      <4>2. row.end # None => row.end \in Nat
        BY <1>0, <4>1 DEF Row
      <4>3. row.end # None /\ row.end <= now => row.end <= now + 1
        BY <1>0, <4>2
      <4> HIDE DEF row
      <4>4. Changes(req[g], row, now) => Changes(req[g], row, now + 1)
        BY <4>3 DEF Changes
      <4> QED
        BY <3>1, <4>4 DEF ApartOK, row
    <3>3. CASE req[g].pc \notin {"reload", "write", "mail"}
      BY <3>3 DEF ApartOK
    <3> QED
      BY <3>2, <3>3
  <2> QED
    BY <2>1, <2>2 DEF ApartIInv, ToldOK
<1>3. CASE Crash
  <2>1. UNCHANGED <<emp, told, now>> /\ \A h \in Handlers : req'[h] = NoRequest
    BY <1>3 DEF Crash
  <2>2. \A h \in Handlers : req'[h].pc = "idle"
    BY <2>1 DEF NoRequest
  <2> QED
    BY <2>1, <2>2 DEF ApartIInv, ToldOK, ApartOK
<1>4. ASSUME NEW h \in Handlers, NEW e \in Employees, NEW op, NEW mem, Load(h, e, op, mem)
      PROVE  /\ \A g \in Handlers \ {h} : req'[g] = req[g]
             /\ req'[h].pc = "reload" /\ req'[h].employee = e
             /\ req'[h].op = op /\ req'[h].mem = mem
  BY <1>0, <1>4 DEF Load, NoRequest
<1>5. ASSUME NEW h \in Handlers, NEW e \in Employees,
             EditLoad(h, e) \/ StatusLoad(h, e) \/ TerminateLoad(h, e)
      PROVE  ApartIInv'
  <2>1. UNCHANGED <<emp, told, now>>
    BY <1>5 DEF EditLoad, StatusLoad, TerminateLoad
  <2>2. CASE EditLoad(h, e)
    <3>1. Load(h, e, "edit", emp[e])
      BY <2>2 DEF EditLoad
    <3>2. Changes(req'[h], emp[e], now)
      BY <1>4, <3>1 DEF Changes
    <3> QED
      BY <1>4, <2>1, <3>1, <3>2, ApartLoad
  <2>3. CASE StatusLoad(h, e)
    <3>1. PICK s \in EmployerSets : Load(h, e, "status", [emp[e] EXCEPT !.status = s])
      BY <2>3 DEF StatusLoad
    <3>2. req'[h].op = "status" /\ req'[h].mem = [emp[e] EXCEPT !.status = s]
      BY <1>4, <3>1
    <3>3. Changes(req'[h], emp[e], now)
      BY <3>2 DEF Changes
    <3> QED
      BY <1>4, <2>1, <3>1, <3>3, ApartLoad
  <2>4. CASE TerminateLoad(h, e)
    <3> DEFINE mem == [emp[e] EXCEPT !.status = "TERMINATED", !.probation = "TERMINATED",
                                     !.reminded = FALSE]
    <3>1. Load(h, e, "terminate", mem)
      BY <2>4 DEF TerminateLoad
    <3>2. req'[h].op = "terminate" /\ req'[h].mem = mem
      BY <1>4, <3>1
    <3>3. Changes(req'[h], emp[e], now)
      BY <3>2 DEF Changes
    <3> HIDE DEF mem
    <3> QED
      BY <1>4, <2>1, <3>1, <3>3, ApartLoad
  <2> QED
    BY <1>5, <2>2, <2>3, <2>4
<1>6. ASSUME NEW h \in Handlers, NEW e \in Employees, NEW party \in Party,
             DeclareLoad(h, e, party)
      PROVE  ApartIInv'
  <2>1. UNCHANGED <<emp, told, now>>
    BY <1>6 DEF DeclareLoad
  <2>2. /\ \A g \in Handlers \ {h} : req'[g] = req[g]
        /\ req'[h].pc = "reload" /\ req'[h].employee = e
        /\ req'[h].op = "declare" /\ req'[h].mem = Declared(emp[e], party)
    BY <1>4, <1>6 DEF DeclareLoad
  <2>3. Changes(req'[h], emp[e], now)
    BY <1>6, <2>2 DEF DeclareLoad, Changes
  <2> QED
    BY <2>1, <2>2, <2>3, ApartLoad
<1>7. ASSUME NEW h \in Handlers, NEW e \in Employees, ActivateLoad(h, e) \/ HireLoad(h, e)
      PROVE  ApartIInv'
  <2>1. UNCHANGED <<emp, told, now>>
    BY <1>7 DEF ActivateLoad, HireLoad
  <2>2. PICK end \in Ends, op \in {"activate", "hire"}, plan \in BOOLEAN :
          req' = [req EXCEPT ![h] = [NoRequest EXCEPT !.op = op, !.pc = "reload",
                                       !.employee = e, !.mem = Activated(emp[e], end),
                                       !.plan = plan]]
    BY <1>7 DEF ActivateLoad, HireLoad
  <2>3. /\ \A g \in Handlers \ {h} : req'[g] = req[g]
        /\ req'[h].pc = "reload" /\ req'[h].employee = e
        /\ req'[h].op = op /\ req'[h].mem = Activated(emp[e], end)
    BY <1>0, <2>2 DEF NoRequest
  <2>4. Changes(req'[h], emp[e], now)
    BY <2>3 DEF Changes
  <2> QED
    BY <2>1, <2>3, <2>4, ApartLoad
<1>8. ASSUME NEW h \in Handlers, NEW e \in Employees, ReminderTake(h, e)
      PROVE  ApartIInv'
  <2>1. UNCHANGED <<emp, told, now>>
    BY <1>8 DEF ReminderTake
  <2>2. CASE req' = [req EXCEPT ![h] = [NoRequest EXCEPT !.op = "reminder", !.pc = "mail",
                       !.employee = e, !.mem = [emp[e] EXCEPT !.reminded = TRUE]]]
    <3>1. /\ \A g \in Handlers \ {h} : req'[g] = req[g]
          /\ req'[h].pc = "mail" /\ req'[h].employee = e /\ req'[h].op = "reminder"
          /\ req'[h].mem = [emp[e] EXCEPT !.reminded = TRUE]
      BY <1>0, <2>2 DEF NoRequest
    <3>2. Changes(req'[h], emp[e], now)
      BY <3>1 DEF Changes
    <3> QED
      BY <2>1, <3>1, <3>2, ApartLoad
  <2> QED
    BY <1>1, <1>8, <2>1, <2>2 DEF ReminderTake
<1>9. ASSUME NEW h \in Handlers, NEW e \in Employees, ConfirmTake(h, e)
      PROVE  ApartIInv'
  <2>1. UNCHANGED <<emp, told, now>>
    BY <1>9 DEF ConfirmTake
  <2>2. CASE /\ DueForConfirm(emp[e])
             /\ Load(h, e, "confirm", [emp[e] EXCEPT !.probation = "CONFIRMED"])
    <3>1. /\ \A g \in Handlers \ {h} : req'[g] = req[g]
          /\ req'[h].pc = "reload" /\ req'[h].employee = e /\ req'[h].op = "confirm"
          /\ req'[h].mem = [emp[e] EXCEPT !.probation = "CONFIRMED"]
      BY <1>4, <2>2
    <3>2. Changes(req'[h], emp[e], now)
      BY <2>2, <3>1 DEF Changes, DueForConfirm
    <3> QED
      BY <2>1, <3>1, <3>2, ApartLoad
  <2> QED
    BY <1>1, <1>9, <2>1, <2>2 DEF ConfirmTake
<1>10. ASSUME NEW h \in Handlers, Schedule(h) PROVE ApartIInv'
  <2>1. /\ UNCHANGED <<emp, told, now>> /\ req'[h] = NoRequest
        /\ \A g \in Handlers \ {h} : req'[g] = req[g]
    BY <1>0, <1>10 DEF Schedule, Return
  <2> QED
    BY <2>1, ApartDone DEF NoRequest
<1>11. ASSUME NEW h \in Handlers, MailSent(h) PROVE ApartIInv'
  <2> DEFINE e == req[h].employee
  <2>1. /\ req[h].pc = "mail" /\ UNCHANGED <<emp, now>> /\ e \in Employees
        /\ ApartOK(req[h], emp[e], told[e], now)
    BY <1>11 DEF MailSent, At, IInv, RequestOK, ApartIInv
  <2>2. CASE req[h].op = "reminder"
    <3>1. req' = [req EXCEPT ![h].pc = "reload"] /\ UNCHANGED told
      BY <1>11, <2>2 DEF MailSent, Goto
    <3>2. /\ \A g \in Handlers \ {h} : req'[g] = req[g]
          /\ req'[h].pc = "reload" /\ req'[h].op = req[h].op
          /\ req'[h].mem = req[h].mem /\ req'[h].employee = e
      BY <1>0, <3>1 DEF Request
    <3>3. Changes(req[h], emp[e], now)
      BY <2>1, <2>2 DEF ApartOK
    <3>4. Changes(req'[h], emp[e], now)
      BY <3>2, <3>3 DEF Changes
    <3> QED
      BY <2>1, <3>1, <3>2, <3>4, ApartLoad
  <2>3. CASE req[h].op # "reminder"
    <3>1. /\ told' = [told EXCEPT ![e] = TRUE] /\ req'[h] = NoRequest
          /\ \A g \in Handlers \ {h} : req'[g] = req[g]
      BY <1>0, <1>11, <2>3 DEF MailSent, Return
    <3>2. emp[e].probation = "CONFIRMED"
      BY <2>1, <2>3 DEF ApartOK
    <3>3. ToldOK'
      BY <1>0, <2>1, <3>1, <3>2 DEF ToldOK
    <3>4. req'[h].pc = "idle"
      BY <3>1 DEF NoRequest
    <3>5. \A d \in Employees : d # e => emp'[d] = emp[d] /\ told'[d] = told[d]
      BY <1>0, <2>1, <3>1
    <3>6. ApartOK(req'[h], emp'[req'[h].employee], told'[req'[h].employee], now)
      BY <3>4 DEF ApartOK
    <3> QED
      BY <2>1, <3>1, <3>3, <3>5, <3>6, ApartStep
  <2> QED
    BY <2>2, <2>3
<1>12. ASSUME NEW h \in Handlers, SaveReload(h) PROVE ApartIInv'
  <2> DEFINE e == req[h].employee
  <2>1. /\ req[h].pc = "reload" /\ UNCHANGED <<emp, told, now>> /\ e \in Employees
        /\ ApartOK(req[h], emp[e], told[e], now)
        /\ req' = [req EXCEPT ![h].pc = "write", ![h].snap = emp[e]]
    BY <1>12 DEF SaveReload, At, IInv, RequestOK, ApartIInv
  <2>2. /\ \A g \in Handlers \ {h} : req'[g] = req[g]
        /\ req'[h].pc = "write" /\ req'[h].op = req[h].op /\ req'[h].mem = req[h].mem
        /\ req'[h].snap = emp[e] /\ req'[h].employee = e
    BY <1>0, <2>1 DEF Request
  <2>3. Changes(req[h], emp[e], now)
    BY <2>1 DEF ApartOK
  <2>4. Changes(req'[h], emp[e], now)
    BY <2>2, <2>3 DEF Changes
  <2>5. ApartOK(req'[h], emp[e], told[e], now)
    BY <2>2, <2>4 DEF ApartOK
  <2> QED
    BY <2>1, <2>2, <2>5, ApartKeeps
<1>13. ASSUME NEW h \in Handlers, SaveWrite(h) PROVE ApartIInv'
  <2> DEFINE e == req[h].employee
             mem == req[h].mem
  <2>1. /\ req[h].pc = "write" /\ UNCHANGED now /\ e \in Employees /\ mem \in Row
        /\ ApartOK(req[h], emp[e], told[e], now)
    BY <1>13 DEF SaveWrite, At, IInv, RequestOK, RowOK, ApartIInv
  <2>2. Changes(req[h], emp[e], now) /\ req[h].snap = emp[e]
    BY <2>1 DEF ApartOK
  <2>3. emp' = [emp EXCEPT ![e] = mem]
    <3>1. emp' = [emp EXCEPT ![e] = SaveRow(emp[e], req[h].snap, mem)]
      BY <1>13 DEF SaveWrite
    <3>2. SaveRow(emp[e], emp[e], mem) = mem
      BY <1>0, <2>1, SoleSave
    <3> QED
      BY <2>2, <3>1, <3>2
  <2>4. /\ req[h].op \in {"activate", "hire"} => told' = [told EXCEPT ![e] = FALSE]
        /\ req[h].op \notin {"activate", "hire"} => told' = told
    BY <1>13 DEF SaveWrite
  <2>5. /\ emp[e].probation # "ACTIVE" /\ mem.probation = "ACTIVE"
             => req[h].op \in {"activate", "hire"}
        /\ req[h].op = "confirm" => emp[e].probation = "ACTIVE" /\ mem.probation = "CONFIRMED"
    BY <1>0, <2>1, <2>2, ChangedRow
  <2>6. emp'[e] = mem /\ \A d \in Employees : d # e => emp'[d] = emp[d] /\ told'[d] = told[d]
    BY <1>0, <2>1, <2>3, <2>4
  <2>7. ToldOK'
    <3>1. told'[e] => told[e] /\ req[h].op \notin {"activate", "hire"}
      BY <1>0, <2>1, <2>4
    <3>2. told'[e] => mem.probation # "ACTIVE"
      BY <1>0, <2>1, <2>5, <3>1 DEF ToldOK
    <3> QED
      BY <1>0, <2>6, <3>2 DEF ToldOK
  <2>8. \/ req[h].op = "confirm" /\ req' = [req EXCEPT ![h].pc = "mail"]
        \/ req' = [req EXCEPT ![h].pc = "schedule"]
        \/ req' = [req EXCEPT ![h] = NoRequest]
    BY <1>13 DEF SaveWrite, Goto, Return
  <2>9. /\ \A g \in Handlers \ {h} : req'[g] = req[g]
        /\ \/ /\ req'[h].pc = "mail" /\ req[h].op = "confirm" /\ req'[h].op = "confirm"
              /\ req'[h].employee = e
           \/ req'[h].pc \in {"schedule", "idle"}
    BY <1>0, <2>8 DEF Request, NoRequest
  <2>10. req[h].op = "confirm" => ~told'[e] /\ emp'[e].probation = "CONFIRMED"
    BY <1>0, <2>1, <2>4, <2>5, <2>6 DEF ToldOK
  <2>11. ApartOK(req'[h], emp'[req'[h].employee], told'[req'[h].employee], now)
    BY <2>9, <2>10 DEF ApartOK
  <2> QED
    BY <2>1, <2>6, <2>7, <2>9, <2>11, ApartStep
<1>14. ASSUME NEW h \in Handlers, Abort(h) PROVE ApartIInv'
  <2> DEFINE e == req[h].employee
  <2>1. /\ UNCHANGED <<emp, now>> /\ req[h].pc # "idle" /\ e \in Employees
        /\ ApartOK(req[h], emp[e], told[e], now)
    BY <1>14 DEF Abort, At, IInv, RequestOK, ApartIInv
  <2>2. req'[h] = NoRequest /\ \A g \in Handlers \ {h} : req'[g] = req[g]
    BY <1>0, <1>14 DEF Abort, Return
  <2>3. \/ told' = told
        \/ /\ req[h].op = "confirm" /\ req[h].pc = "mail"
           /\ told' = [told EXCEPT ![e] = TRUE]
    BY <1>14 DEF Abort
  <2>4. req[h].op = "confirm" /\ req[h].pc = "mail" => emp[e].probation = "CONFIRMED"
    BY <2>1 DEF ApartOK
  <2>5. ToldOK'
    BY <1>0, <2>1, <2>3, <2>4 DEF ToldOK
  <2>6. req'[h].pc = "idle"
    BY <2>2 DEF NoRequest
  <2>7. \A d \in Employees : d # e => emp'[d] = emp[d] /\ told'[d] = told[d]
    BY <1>0, <2>1, <2>3
  <2>8. ApartOK(req'[h], emp'[req'[h].employee], told'[req'[h].employee], now)
    BY <2>6 DEF ApartOK
  <2> QED
    BY <2>1, <2>2, <2>5, <2>7, <2>8, ApartStep
<1> QED
  BY <1>1, <1>2, <1>3, <1>5, <1>6, <1>7, <1>8, <1>9, <1>10, <1>11, <1>12, <1>13, <1>14
     DEF Next, Take, Continue, vars

LEMMA ApartInitially == Init => ApartIInv
  BY DEF Init, ApartIInv, ToldOK, ApartOK, NoRequest

\* What a step does to a row, while nobody else works on its placement.
LEMMA RowStep ==
    ASSUME IInv, ApartIInv, [Next]_vars, NEW e \in Employees, emp'[e] # emp[e]
    PROVE  \E h \in Handlers :
             /\ req[h].employee = e /\ emp'[e] = req[h].mem
             /\ Changes(req[h], emp[e], now)
<1>0. emp \in [Employees -> Row]
  BY DEF IInv, TypeOK
<1>1. PICK h \in Handlers : SaveWrite(h)
  BY ZenonT(60)
     DEF Next, Take, Continue, vars, EditLoad, StatusLoad, TerminateLoad, ActivateLoad,
         HireLoad, DeclareLoad, ReminderTake, ConfirmTake, Schedule, MailSent, SaveReload,
         Abort, Crash, Elapse
<1>2. /\ req[h].pc = "write"
      /\ emp' = [emp EXCEPT ![req[h].employee] =
                   SaveRow(emp[req[h].employee], req[h].snap, req[h].mem)]
  BY <1>1 DEF SaveWrite, At
<1>3. req[h].employee = e
  BY <1>0, <1>2
<1>4. Changes(req[h], emp[e], now) /\ req[h].snap = emp[e] /\ req[h].mem \in Row
  BY <1>2, <1>3 DEF ApartIInv, ApartOK, IInv, RequestOK, RowOK
<1>5. SaveRow(emp[e], emp[e], req[h].mem) = req[h].mem
  BY <1>0, <1>4, SoleSave
<1> QED
  BY <1>0, <1>2, <1>3, <1>4, <1>5

\* While no two requests or jobs work on one placement, the second declaration ends
\* it: no step leaves both stored on a placement that is not ENDED
\* (EmploymentCompletionService).
THEOREM SecondDeclarationEndsHolds == Spec /\ []Apart => SecondDeclarationEnds
<1> DEFINE Ends2 == \A e \in Employees :
             emp[e].declared # Party /\ emp'[e].declared = Party => emp'[e].status = "ENDED"
<1>1. ASSUME IInv, ApartIInv, [Next]_vars, NEW e \in Employees,
             emp[e].declared # Party, emp'[e].declared = Party
      PROVE  emp'[e].status = "ENDED"
  <2>1. PICK h \in Handlers : emp'[e] = req[h].mem /\ Changes(req[h], emp[e], now)
    BY <1>1, RowStep
  <2> QED
    BY <1>1, <2>1, ChangedRow DEF IInv, TypeOK
<1>2. IInv /\ ApartIInv /\ [Next]_vars => [Ends2]_vars
  BY <1>1
<1> QED
  BY <1>2, ApartInitially, ApartKept, Invariance, PTL DEF Spec, SecondDeclarationEnds

\* ... a placement that was ended, terminated or completed is brought back by no
\* declaration, edit or queue job ...
THEOREM ClosedStaysClosedHolds == Spec /\ []Apart => ClosedStaysClosed
<1> DEFINE Stays == \A e \in Employees :
             emp[e].status \in {"ENDED", "TERMINATED", "COMPLETED"}
               /\ emp'[e].status # emp[e].status =>
               \E h \in Handlers :
                 /\ req[h].employee = e
                 /\ req[h].op \in {"status", "activate", "hire", "terminate"}
<1>1. ASSUME IInv, ApartIInv, [Next]_vars, NEW e \in Employees,
             emp[e].status \in {"ENDED", "TERMINATED", "COMPLETED"},
             emp'[e].status # emp[e].status
      PROVE  \E h \in Handlers :
               /\ req[h].employee = e
               /\ req[h].op \in {"status", "activate", "hire", "terminate"}
  <2>1. PICK h \in Handlers : /\ req[h].employee = e /\ emp'[e] = req[h].mem
                              /\ Changes(req[h], emp[e], now)
    BY <1>1, RowStep
  <2> QED
    BY <1>1, <2>1, ChangedRow DEF IInv, TypeOK
<1>2. IInv /\ ApartIInv /\ [Next]_vars => [Stays]_vars
  BY <1>1
<1> QED
  BY <1>2, ApartInitially, ApartKept, Invariance, PTL DEF Spec, ClosedStaysClosed

\* ... and a probation is confirmed only at or after the end date stored at that
\* moment, whatever end date its queue job was made for.
THEOREM ConfirmedNotEarlyHolds == Spec /\ []Apart => ConfirmedNotEarly
<1> DEFINE Due == \A e \in Employees :
             emp[e].probation # "CONFIRMED" /\ emp'[e].probation = "CONFIRMED" =>
               emp[e].end # None /\ emp[e].end <= now
<1>1. ASSUME IInv, ApartIInv, [Next]_vars, NEW e \in Employees,
             emp[e].probation # "CONFIRMED", emp'[e].probation = "CONFIRMED"
      PROVE  emp[e].end # None /\ emp[e].end <= now
  <2>1. PICK h \in Handlers : emp'[e] = req[h].mem /\ Changes(req[h], emp[e], now)
    BY <1>1, RowStep
  <2> QED
    BY <1>1, <2>1, ChangedRow DEF IInv, TypeOK
<1>2. IInv /\ ApartIInv /\ [Next]_vars => [Due]_vars
  BY <1>1
<1> QED
  BY <1>2, ApartInitially, ApartKept, Invariance, PTL DEF Spec, ConfirmedNotEarly

\* One activation is mailed as confirmed once, through failed attempts and restarts.
THEOREM NoDoubleConfirmHolds == Spec /\ []Apart => []NoDoubleConfirm
<1>1. ApartIInv => NoDoubleConfirm
  BY DEF ApartIInv, ApartOK, NoDoubleConfirm, At
<1> QED
  BY <1>1, ApartInitially, ApartKept, Invariance, PTL DEF Spec
-----------------------------------------------------------------------------
\* The refinement: while no two requests or jobs work on one placement, each step is a
\* step of PlacementLife or changes nothing of it.

\* What a save writes when its request has the row to itself.
LEMMA SoleSaveWrite ==
    ASSUME IInv, ApartIInv, NEW h \in Handlers, SaveWrite(h)
    PROVE  /\ req[h].employee \in Employees
           /\ req[h].mem \in Row
           /\ Changes(req[h], emp[req[h].employee], now)
           /\ emp' = [emp EXCEPT ![req[h].employee] = req[h].mem]
<1>1. /\ emp \in [Employees -> Row] /\ req[h].employee \in Employees /\ req[h].mem \in Row
      /\ Changes(req[h], emp[req[h].employee], now) /\ req[h].snap = emp[req[h].employee]
  BY DEF SaveWrite, At, IInv, TypeOK, RequestOK, RowOK, ApartIInv, ApartOK
<1>2. emp' = [emp EXCEPT ![req[h].employee] =
                SaveRow(emp[req[h].employee], req[h].snap, req[h].mem)]
  BY DEF SaveWrite
<1>3. SaveRow(emp[req[h].employee], emp[req[h].employee], req[h].mem) = req[h].mem
  BY <1>1, SoleSave
<1> QED
  BY <1>1, <1>2, <1>3

\* What the write of one row says of the placements.
LEMMA OneRow ==
    ASSUME emp \in [Employees -> Row], NEW e \in Employees, NEW row,
           emp' = [emp EXCEPT ![e] = row]
    PROVE  /\ Stages' = [Stages EXCEPT ![e] = Stage(row.status)]
           /\ Trials' = [Trials EXCEPT ![e] = Trial(row.probation)]
           /\ Declarations' = [Declarations EXCEPT ![e] = row.declared]
           /\ Dues' = [Dues EXCEPT ![e] = row.end]
  BY DEF Stages, Trials, Declarations, Dues

\* A column the row keeps.
LEMMA KeptColumn ==
    ASSUME NEW e \in Employees, NEW row
    PROVE  /\ row.status = emp[e].status => [Stages EXCEPT ![e] = Stage(row.status)] = Stages
           /\ row.probation = emp[e].probation =>
                [Trials EXCEPT ![e] = Trial(row.probation)] = Trials
           /\ row.declared = emp[e].declared =>
                [Declarations EXCEPT ![e] = row.declared] = Declarations
           /\ row.end = emp[e].end => [Dues EXCEPT ![e] = row.end] = Dues
  BY DEF Stages, Trials, Declarations, Dues

\* A party's declaration, and what it ends.
LEMMA LifeDeclare ==
    ASSUME emp \in [Employees -> Row], NEW e \in Employees, NEW party \in Party,
           IsOpen(emp[e].status), party \notin emp[e].declared,
           emp' = [emp EXCEPT ![e] = Declared(emp[e], party)], UNCHANGED <<told, now>>
    PROVE  Life!Declare(e, party)
<1> DEFINE row == emp[e]
           mem == Declared(row, party)
           with == [row EXCEPT !.declared = @ \union {party}]
<1>0. row \in Row
  OBVIOUS
<1>1. /\ with.status = row.status /\ with.probation = row.probation /\ with.end = row.end
      /\ with.declared = row.declared \union {party}
      /\ Ended(with).status = "ENDED" /\ Ended(with).probation = "TERMINATED"
      /\ Ended(with).end = row.end /\ Ended(with).declared = row.declared \union {party}
  BY <1>0 DEF Row, Ended
<1>2. mem = IF with.declared = Party THEN Ended(with) ELSE with
  BY DEF Declared
<1> HIDE DEF with
<1>3. mem.declared = row.declared \union {party} /\ mem.end = row.end
  BY <1>1, <1>2
<1> HIDE DEF mem
<1>4. /\ Stages' = [Stages EXCEPT ![e] = Stage(mem.status)]
      /\ Trials' = [Trials EXCEPT ![e] = Trial(mem.probation)]
      /\ Declarations' = [Declarations EXCEPT ![e] = mem.declared]
      /\ Dues' = [Dues EXCEPT ![e] = mem.end]
  BY OneRow DEF mem
<1>5. Stages[e] = "open" /\ party \notin Declarations[e]
  BY DEF Stages, Stage, IsOpen, Declarations
<1>6. /\ Declarations' = [Declarations EXCEPT ![e] = @ \union {party}]
      /\ Declarations'[e] = mem.declared
  BY <1>3, <1>4 DEF Declarations
<1>7. UNCHANGED Dues
  BY <1>3, <1>4, KeptColumn
<1>8. CASE mem.declared = Party
  <2>1. mem.status = "ENDED" /\ mem.probation = "TERMINATED"
    BY <1>1, <1>2, <1>3, <1>8
  <2>2. Stage(mem.status) = "ended" /\ Trial(mem.probation) = "over"
    BY <2>1 DEF Stage, Trial
  <2>3. Life!Close(e, "ended")
    BY <1>4, <1>7, <2>2 DEF Life!Close
  <2> QED
    BY <1>5, <1>6, <1>8, <2>3 DEF Life!Declare
<1>9. CASE mem.declared # Party
  <2>1. mem.status = row.status /\ mem.probation = row.probation
    BY <1>1, <1>2, <1>3, <1>9
  <2>2. UNCHANGED <<Stages, Trials>>
    BY <1>4, <2>1, KeptColumn
  <2> QED
    BY <1>5, <1>6, <1>7, <1>9, <2>2 DEF Life!Declare
<1> QED
  BY <1>8, <1>9

LEMMA LifeWrite ==
    ASSUME IInv, ApartIInv, NEW h \in Handlers, SaveWrite(h)
    PROVE  Life!Next \/ UNCHANGED Life!vars
<1> SUFFICES ASSUME NEW e \in Employees, e = req[h].employee,
                    NEW row \in Row, row = emp[e], NEW mem \in Row, mem = req[h].mem,
                    Changes(req[h], row, now), emp' = [emp EXCEPT ![e] = mem]
             PROVE  Life!Next \/ UNCHANGED Life!vars
  BY SoleSaveWrite DEF IInv, TypeOK
<1>0. /\ emp \in [Employees -> Row] /\ UNCHANGED now
      /\ told' = IF req[h].op \in {"activate", "hire"} THEN [told EXCEPT ![e] = FALSE]
                                                      ELSE told
  BY DEF IInv, TypeOK, SaveWrite
<1>1. /\ Stages' = [Stages EXCEPT ![e] = Stage(mem.status)]
      /\ Trials' = [Trials EXCEPT ![e] = Trial(mem.probation)]
      /\ Declarations' = [Declarations EXCEPT ![e] = mem.declared]
      /\ Dues' = [Dues EXCEPT ![e] = mem.end]
  BY <1>0, OneRow
<1>2. /\ mem.status = row.status => UNCHANGED Stages
      /\ mem.probation = row.probation => UNCHANGED Trials
      /\ mem.declared = row.declared => UNCHANGED Declarations
      /\ mem.end = row.end => UNCHANGED Dues
  BY <1>1, KeptColumn
<1>3. ASSUME req[h].op \notin {"activate", "hire"}, mem.status = row.status,
             mem.probation = row.probation, mem.declared = row.declared, mem.end = row.end
      PROVE  UNCHANGED Life!vars
  BY <1>0, <1>2, <1>3 DEF Life!vars
<1>4. CASE req[h].op = "edit" /\ mem = row
  BY <1>3, <1>4
<1>5. CASE req[h].op = "status" /\ \E s \in EmployerSets : mem = [row EXCEPT !.status = s]
  <2>1. PICK s \in EmployerSets : mem = [row EXCEPT !.status = s]
    BY <1>5
  <2>2. /\ mem.status = s /\ mem.probation = row.probation
        /\ mem.declared = row.declared /\ mem.end = row.end
    BY <2>1 DEF Row
  <2>3. Stage(s) \in {"open", "suspended", "completed"}
    BY EmploymentAssumption DEF Stage
  <2>4. Life!Set(e, Stage(s))
    BY <1>0, <1>1, <1>2, <1>5, <2>2 DEF Life!Set
  <2> QED
    BY <2>3, <2>4 DEF Life!Next
<1>6. CASE /\ req[h].op = "terminate"
           /\ mem = [row EXCEPT !.status = "TERMINATED", !.probation = "TERMINATED",
                                !.reminded = FALSE]
  <2>1. /\ mem.status = "TERMINATED" /\ mem.probation = "TERMINATED"
        /\ mem.declared = row.declared /\ mem.end = row.end
    BY <1>6 DEF Row
  <2>2. Stage(mem.status) = "terminated" /\ Trial(mem.probation) = "over"
    BY <2>1 DEF Stage, Trial
  <2>3. Life!Terminate(e)
    BY <1>0, <1>1, <1>2, <1>6, <2>1, <2>2 DEF Life!Terminate, Life!Close
  <2> QED
    BY <2>3 DEF Life!Next
<1>7. CASE req[h].op \in {"activate", "hire"} /\ \E end \in Ends : mem = Activated(row, end)
  <2>1. PICK end \in Ends : mem = Activated(row, end)
    BY <1>7
  <2>2. /\ mem.status = "ACTIVE" /\ mem.probation = "ACTIVE"
        /\ mem.declared = row.declared /\ mem.end = end
    BY <2>1 DEF Row, Activated
  <2>3. Stage(mem.status) = "open" /\ Trial(mem.probation) = "running"
    BY <2>2 DEF Stage, Trial
  <2>4. Life!Activate(e, end)
    BY <1>0, <1>1, <1>2, <1>7, <2>2, <2>3 DEF Life!Activate
  <2> QED
    BY <2>4 DEF Life!Next
<1>8. CASE /\ req[h].op = "declare" /\ IsOpen(row.status)
           /\ \E party \in Party \ row.declared : mem = Declared(row, party)
  <2>1. PICK party \in Party \ row.declared : mem = Declared(row, party)
    BY <1>8
  <2>2. Life!Declare(e, party)
    BY <1>0, <1>8, <2>1, LifeDeclare
  <2> QED
    BY <2>2 DEF Life!Next
<1>9. CASE req[h].op = "reminder" /\ mem = [row EXCEPT !.reminded = TRUE]
  <2>1. /\ mem.status = row.status /\ mem.probation = row.probation
        /\ mem.declared = row.declared /\ mem.end = row.end
    BY <1>9 DEF Row
  <2> QED
    BY <1>3, <1>9, <2>1
<1>10. CASE /\ req[h].op = "confirm" /\ mem = [row EXCEPT !.probation = "CONFIRMED"]
            /\ row.probation = "ACTIVE" /\ row.end # None /\ row.end <= now
  <2>1. /\ mem.status = row.status /\ mem.probation = "CONFIRMED"
        /\ mem.declared = row.declared /\ mem.end = row.end
    BY <1>10 DEF Row
  <2>2. Trial(mem.probation) = "confirmed" /\ Trials[e] = "running" /\ Dues[e] = row.end
    BY <1>10, <2>1 DEF Trial, Trials, Dues
  <2>3. Life!Confirm(e)
    BY <1>0, <1>1, <1>2, <1>10, <2>1, <2>2 DEF Life!Confirm
  <2> QED
    BY <2>3 DEF Life!Next
<1> QED
  BY <1>4, <1>5, <1>6, <1>7, <1>8, <1>9, <1>10 DEF Changes

\* The mail of a confirmation, whole or cut short by a failure.
LEMMA LifeAnnounce ==
    ASSUME IInv, ApartIInv, NEW h \in Handlers, UNCHANGED <<emp, now>>,
           \/ UNCHANGED told
           \/ /\ At(h, "mail") /\ req[h].op # "reminder"
              /\ told' = [told EXCEPT ![req[h].employee] = TRUE]
    PROVE  Life!Next \/ UNCHANGED Life!vars
<1>1. UNCHANGED <<Stages, Trials, Declarations, Dues>>
  BY DEF Stages, Trials, Declarations, Dues
<1>2. CASE UNCHANGED told
  BY <1>1, <1>2 DEF Life!vars
<1>3. CASE /\ At(h, "mail") /\ req[h].op # "reminder"
           /\ told' = [told EXCEPT ![req[h].employee] = TRUE]
  <2>1. /\ req[h].employee \in Employees
        /\ emp[req[h].employee].probation = "CONFIRMED" /\ ~told[req[h].employee]
    BY <1>3 DEF At, IInv, RequestOK, ApartIInv, ApartOK
  <2>2. Trials[req[h].employee] = "confirmed"
    BY <2>1 DEF Trials, Trial
  <2>3. Life!Announce(req[h].employee)
    BY <1>1, <1>3, <2>1, <2>2 DEF Life!Announce
  <2> QED
    BY <2>1, <2>3 DEF Life!Next
<1> QED
  BY <1>2, <1>3

LEMMA LifeStep == IInv /\ ApartIInv /\ [Next]_vars => [Life!Next]_Life!vars
<1> SUFFICES ASSUME IInv, ApartIInv, [Next]_vars PROVE Life!Next \/ UNCHANGED Life!vars
  OBVIOUS
<1>1. CASE UNCHANGED <<emp, told, now>>
  BY <1>1 DEF Life!vars, Stages, Trials, Declarations, Dues
<1>2. CASE Elapse
  <2>1. UNCHANGED <<Stages, Trials, Declarations, Dues>>
    BY <1>2 DEF Elapse, Stages, Trials, Declarations, Dues
  <2>2. Life!Elapse
    BY <1>2, <2>1 DEF Elapse, Life!Elapse
  <2> QED
    BY <2>2 DEF Life!Next
<1>3. ASSUME NEW h \in Handlers, MailSent(h) \/ Abort(h)
      PROVE  Life!Next \/ UNCHANGED Life!vars
  <2>1. UNCHANGED <<emp, now>>
    BY <1>3 DEF MailSent, Abort
  <2>2. \/ UNCHANGED told
        \/ /\ At(h, "mail") /\ req[h].op # "reminder"
           /\ told' = [told EXCEPT ![req[h].employee] = TRUE]
    BY <1>3 DEF MailSent, Abort, At
  <2> QED
    BY <2>1, <2>2, LifeAnnounce
<1>4. ASSUME NEW h \in Handlers, NEW e \in Employees,
             \/ EditLoad(h, e) \/ StatusLoad(h, e) \/ TerminateLoad(h, e)
             \/ ActivateLoad(h, e) \/ HireLoad(h, e) \/ Take(h, e)
             \/ \E party \in Party : DeclareLoad(h, e, party)
      PROVE  UNCHANGED <<emp, told, now>>
  BY <1>4 DEF EditLoad, StatusLoad, TerminateLoad, ActivateLoad, HireLoad, Take,
     ReminderTake, ConfirmTake, DeclareLoad
<1>5. ASSUME NEW h \in Handlers, Schedule(h) \/ SaveReload(h)
      PROVE  UNCHANGED <<emp, told, now>>
  BY <1>5 DEF Schedule, SaveReload
<1>6. CASE Crash \/ UNCHANGED vars
  BY <1>1, <1>6 DEF Crash, vars
<1> QED
  BY <1>1, <1>2, <1>3, <1>4, <1>5, <1>6, LifeWrite DEF Next, Continue

\* While no two requests or jobs work on one placement, the employer's statuses, the two
\* declarations and the calendar act on a placement at once and one at a time, and each
\* activation's probation is confirmed on its date or later and announced once, through
\* any number of failures, retries and crashes.
THEOREM LifeImplemented == Spec /\ []Apart => ImplementsLife
<1>1. Init => Life!Init
  BY DEF Init, Life!Init, Stages, Stage, Trials, Trial, Declarations, Dues
<1>2. IInv /\ ApartIInv /\ [Next]_vars => [Life!Next]_Life!vars
  BY LifeStep
<1> QED
  BY <1>1, <1>2, ApartInitially, ApartKept, Invariance, PTL
     DEF Spec, ImplementsLife, Life!Spec
=============================================================================
