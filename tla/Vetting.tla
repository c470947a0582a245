------------------------------ MODULE Vetting ------------------------------
(***************************************************************************)
(* Ranking the applicants of one job and picking among them:               *)
(* JobVettingService.vetJobApplications, run by the queue for every new    *)
(* application, by the daily job and by whoever opens the ranked list;     *)
(* the employer's selection for screening and pick for hire; and the       *)
(* handlers of JobApplicationsService that save the same rows.             *)
(*                                                                         *)
(* A request or a running queue job occupies a slot of Handlers.  An       *)
(* action is the code between two awaits.                                  *)
(***************************************************************************)
EXTENDS Naturals, FiniteSets, RowSave

CONSTANTS
    Apps,          \* job_applications rows of the job, one per candidate
    Score,         \* the score of each application
    Count,         \* getHighlightedCandidateCount of the job
    Handlers,      \* slots for requests and running queue jobs
    EmployerSets,  \* statuses the employer sends to the status endpoint
    MaxRows,       \* bound on the employees rows of a candidate
    MaxTries,      \* attempts of a queue job
    MaxActs,       \* bound on status edits and on placements starting or ending
    MaxFaults,     \* bound on failed requests, jobs and process crashes
    None           \* null

\* "NONE": the row does not exist yet.  REJECTED stands for CONTRACT_SIGNED and
\* HIRED too: these handlers treat the three alike.
Status == {"NONE", "APPLIED", "VETTED", "SELECTED_FOR_SCREENING",
           "SELECTED_FOR_HIRE", "OFFER_SENT", "APPLICANT_ACCEPTED",
           "PAYMENT_COMPLETE", "WITHDRAWN", "REJECTED"}

ASSUME VettingAssumption ==
    /\ Score \in [Apps -> Nat]
    /\ Count \in Nat \ {0}
    /\ EmployerSets \subseteq Status \ {"NONE"}
    /\ MaxRows \in Nat
    /\ MaxTries \in Nat \ {0}
    /\ MaxActs \in Nat
    /\ MaxFaults \in Nat
    /\ None \notin Apps

VARIABLES
    app,     \* job_applications rows
    rows,    \* open employees rows that picks created, per candidate
    busy,    \* candidates with an ACTIVE employees row on any job
    vetted,  \* jobs.vettingCompletedAt: set, less than an hour ago, and the
             \* applications created after it
    queue,   \* attempts left of the queue job of each application, 0 if none
    paid,    \* history: applications a payment has unlocked
    req,     \* requests and running jobs with their local variables
    acts,    \* decisions so far
    faults   \* failures so far

vars == <<app, rows, busy, vetted, queue, paid, req, acts, faults>>

\* scored: vettingScore and vettedAt; lit: vettingIsHighlighted.
Row == [status : Status, unlocked : BOOLEAN, scored : BOOLEAN, lit : BOOLEAN]

\* The rows a handler has in memory.
Entities == UNION {[S -> Row] : S \in SUBSET Apps}
Nothing == [a \in {} |-> None]

Vetted == [done : BOOLEAN, recent : BOOLEAN, newer : SUBSET Apps]

Op == {"none", "queue", "vet", "select", "pick", "edit", "pay"}
PC == {"idle", "load", "score", "reload", "write", "advance", "complete", "select",
       "check", "clear", "commit", "scan", "settle"}

Request == [op : Op, pc : PC, app : Apps \union {None},
            mem : Entities, snap : Entities,
            todo : SUBSET Apps, ranked : SUBSET Apps]

TypeOK ==
    /\ app \in [Apps -> Row]
    /\ rows \in [Apps -> 0..MaxRows]
    /\ busy \subseteq Apps
    /\ vetted \in Vetted
    /\ queue \in [Apps -> 0..MaxTries]
    /\ paid \subseteq Apps
    /\ req \in [Handlers -> Request]
    /\ acts \in 0..MaxActs
    /\ faults \in 0..MaxFaults

NoRequest == [op |-> "none", pc |-> "idle", app |-> None, mem |-> Nothing,
              snap |-> Nothing, todo |-> {}, ranked |-> {}]

Init ==
    /\ app = [a \in Apps |-> [status |-> "NONE", unlocked |-> FALSE,
                              scored |-> FALSE, lit |-> FALSE]]
    /\ rows = [a \in Apps |-> 0]
    /\ busy = {}
    /\ vetted = [done |-> FALSE, recent |-> FALSE, newer |-> {}]
    /\ queue = [a \in Apps |-> 0]
    /\ paid = {}
    /\ req = [h \in Handlers |-> NoRequest]
    /\ acts = 0
    /\ faults = 0

At(h, pc) == req[h].pc = pc
Goto(h, pc) == req' = [req EXCEPT ![h].pc = pc]
Return(h) == req' = [req EXCEPT ![h] = NoRequest]

\* A free slot takes up a request or job about application a.
Start(h, op, pc, a) ==
    /\ At(h, "idle")
    /\ req' = [req EXCEPT ![h] = [NoRequest EXCEPT !.op = op, !.pc = pc, !.app = a]]

\* Bound: MaxActs.
Decide == acts < MaxActs /\ acts' = acts + 1

Existing == {a \in Apps : app[a].status # "NONE"}

\* Rows an open transaction has updated: other writers wait for its end.
Locked == UNION {req[h].todo : h \in {h \in Handlers : At(h, "commit")}}

-----------------------------------------------------------------------------
\* What happens around the rows.

\* applyToJob; an error in adding the queue job is logged and swallowed.
Apply(a) ==
    /\ a \notin Existing
    /\ app' = [app EXCEPT ![a].status = "APPLIED"]
    /\ vetted' = [vetted EXCEPT !.newer = IF vetted.done THEN @ \union {a} ELSE @]
    /\ \/ queue' = [queue EXCEPT ![a] = MaxTries] /\ UNCHANGED faults
       \/ faults < MaxFaults /\ faults' = faults + 1 /\ UNCHANGED queue
    /\ UNCHANGED <<rows, busy, paid, req, acts>>

\* The settlement of a payment (PiiUnlock has all of it) unlocks the
\* applications of the job, then looks for accepted ones to advance.
SettleUnlock(h) ==
    /\ Existing # {} /\ Locked = {}
    /\ app' = [a \in Apps |-> [app[a] EXCEPT !.unlocked = @ \/ a \in Existing]]
    /\ paid' = paid \union Existing
    /\ Start(h, "pay", "scan", None)
    /\ UNCHANGED <<rows, busy, vetted, queue, acts, faults>>

SettleScan(h) ==
    /\ At(h, "scan")
    /\ req' = [req EXCEPT ![h] =
                 [@ EXCEPT !.pc = "settle",
                           !.todo = {a \in Apps : app[a].status = "APPLICANT_ACCEPTED"}]]
    /\ UNCHANGED <<app, rows, busy, vetted, queue, paid, acts, faults>>

\* The update names the ids found and no status; with none found it is skipped.
SettleAdvance(h) ==
    /\ At(h, "settle")
    /\ req[h].todo \intersect Locked = {}
    /\ app' = [a \in Apps |-> IF a \in req[h].todo
                              THEN [app[a] EXCEPT !.status = "PAYMENT_COMPLETE"]
                              ELSE app[a]]
    /\ Return(h)
    /\ UNCHANGED <<rows, busy, vetted, queue, paid, acts, faults>>

\* A placement of the candidate on some job becomes ACTIVE, or the last ends.
Employ(a) ==
    /\ Decide
    /\ busy' = IF a \in busy THEN busy \ {a} ELSE busy \union {a}
    /\ UNCHANGED <<app, rows, vetted, queue, paid, req, faults>>

\* A placement made by a pick is ended, terminated or suspended.
RowCloses(a) ==
    /\ Decide
    /\ rows[a] > 0
    /\ rows' = [rows EXCEPT ![a] = @ - 1]
    /\ UNCHANGED <<app, busy, vetted, queue, paid, req, faults>>

HourPasses ==
    /\ vetted.recent
    /\ vetted' = [vetted EXCEPT !.recent = FALSE]
    /\ UNCHANGED <<app, rows, busy, queue, paid, req, acts, faults>>

-----------------------------------------------------------------------------
\* vetJobApplications.

\* The job of application a is waiting: no slot runs it.
Waiting(a) ==
    /\ queue[a] > 0
    /\ \A h \in Handlers : ~(req[h].op = "queue" /\ req[h].app = a)

\* processJobVetting skips a job that was vetted within the hour and has no
\* application since.
Skipped == vetted.done /\ vetted.recent /\ vetted.newer = {}

QueueTake(h, a) ==
    /\ At(h, "idle")
    /\ Waiting(a)
    /\ IF Skipped THEN UNCHANGED req /\ queue' = [queue EXCEPT ![a] = 0]
                  ELSE Start(h, "queue", "load", a) /\ UNCHANGED queue
    /\ UNCHANGED <<app, rows, busy, vetted, paid, acts, faults>>

\* processAllPendingVetting finds the job; an error in its vetting is swallowed.
DailyTake(h) ==
    /\ Existing # {}
    /\ ~vetted.done \/ vetted.newer # {}
    /\ Start(h, "vet", "load", None)
    /\ UNCHANGED <<app, rows, busy, vetted, queue, paid, acts, faults>>

\* Mutant of NeedsVetting: applications without a score are not counted.
NeedsVettingIfNewer == ~vetted.done \/ vetted.newer # {}

\* The condition of getVettedApplicantsForEmployer.
NeedsVetting ==
    \/ ~vetted.done \/ vetted.newer # {}
    \/ \E a \in Existing : ~app[a].scored

\* The employer (or, once it was vetted, an administrator) opens the list.
ViewTake(h) ==
    /\ Existing # {}
    /\ NeedsVetting
    /\ Start(h, "vet", "load", None)
    /\ UNCHANGED <<app, rows, busy, vetted, queue, paid, acts, faults>>

\* The job's applications are loaded after it was decided to vet it.
VetLoad(h) ==
    /\ At(h, "load")
    /\ req' = [req EXCEPT ![h] =
                 [@ EXCEPT !.pc = "score", !.mem = [a \in Existing |-> app[a]],
                           !.todo = Existing]]
    /\ UNCHANGED <<app, rows, busy, vetted, queue, paid, acts, faults>>

Scored(mem, a) == [mem EXCEPT ![a].scored = TRUE]

\* The loop asks for each candidate whether they are employed and scores those
\* who are not.
VetScore(h) ==
    /\ At(h, "score")
    /\ LET r == req[h] IN
         \E a \in r.todo :
           req' = [req EXCEPT ![h] =
                     IF a \in busy
                     THEN [r EXCEPT !.todo = @ \ {a}]
                     ELSE [r EXCEPT !.todo = @ \ {a}, !.ranked = @ \union {a},
                                    !.mem = Scored(@, a)]]
    /\ UNCHANGED <<app, rows, busy, vetted, queue, paid, acts, faults>>

\* The highest scores, ties in any order.
IsTop(T, S) ==
    /\ T \subseteq S
    /\ Cardinality(T) = IF Cardinality(S) < Count THEN Cardinality(S) ELSE Count
    /\ \A a \in T, b \in S \ T : Score[a] >= Score[b]

\* Mutant of Highlighted: those that fall out of the top keep their mark.
HighlightedAlso(mem, S, T) ==
    [a \in DOMAIN mem |-> IF a \in S THEN [mem[a] EXCEPT !.lit = @ \/ a \in T]
                                     ELSE mem[a]]

\* Of the ranked applications S, T is highlighted.
Highlighted(mem, S, T) ==
    [a \in DOMAIN mem |-> IF a \in S THEN [mem[a] EXCEPT !.lit = a \in T]
                                     ELSE mem[a]]

\* applyHighlighting, and the first SELECT of save, which follows at once.
VetHighlight(h) ==
    /\ At(h, "score") /\ req[h].todo = {}
    /\ LET r == req[h] IN
         \E T \in SUBSET r.ranked :
           /\ IsTop(T, r.ranked)
           /\ req' = [req EXCEPT ![h] =
                        [r EXCEPT !.pc = "write",
                                  !.mem = Highlighted(r.mem, r.ranked, T),
                                  !.snap = [a \in DOMAIN r.mem |-> app[a]]]]
    /\ UNCHANGED <<app, rows, busy, vetted, queue, paid, acts, faults>>

\* Mutant of Advanced: whatever the status is.
AdvancedAll(row) == [row EXCEPT !.status = "VETTED"]

Advanced(row) ==
    IF row.status = "APPLIED" THEN [row EXCEPT !.status = "VETTED"] ELSE row

\* updateApplicationStatuses.
VetAdvance(h) ==
    /\ At(h, "advance")
    /\ req[h].ranked \intersect Locked = {}
    /\ app' = [a \in Apps |-> IF a \in req[h].ranked THEN Advanced(app[a]) ELSE app[a]]
    /\ Goto(h, "complete")
    /\ UNCHANGED <<rows, busy, vetted, queue, paid, acts, faults>>

VetComplete(h) ==
    /\ At(h, "complete")
    /\ vetted' = [done |-> TRUE, recent |-> TRUE, newer |-> {}]
    /\ queue' = IF req[h].op = "queue" THEN [queue EXCEPT ![req[h].app] = 0] ELSE queue
    /\ Return(h)
    /\ UNCHANGED <<app, rows, busy, paid, acts, faults>>

-----------------------------------------------------------------------------
\* Repository.save, of one row or of all the job's rows in one transaction.

SaveReload(h) ==
    /\ At(h, "reload")
    /\ req' = [req EXCEPT ![h] =
                 [@ EXCEPT !.pc = "write",
                           !.snap = [a \in DOMAIN req[h].mem |-> app[a]]]]
    /\ UNCHANGED <<app, rows, busy, vetted, queue, paid, acts, faults>>

SaveRow(row, snap, mem) ==
    [status |-> SaveColumn(row.status, snap.status, mem.status),
     unlocked |-> SaveColumn(row.unlocked, snap.unlocked, mem.unlocked),
     scored |-> SaveColumn(row.scored, snap.scored, mem.scored),
     lit |-> SaveColumn(row.lit, snap.lit, mem.lit)]

SaveWrite(h) ==
    /\ At(h, "write")
    /\ DOMAIN req[h].mem \intersect Locked = {}
    /\ app' = [a \in Apps |->
                 IF a \in DOMAIN req[h].mem
                 THEN SaveRow(app[a], req[h].snap[a], req[h].mem[a]) ELSE app[a]]
    /\ IF req[h].op = "edit" THEN Return(h) ELSE Goto(h, "advance")
    /\ UNCHANGED <<rows, busy, vetted, queue, paid, acts, faults>>

-----------------------------------------------------------------------------
\* The handlers of JobApplicationsService.

EditTo(h, a, status) ==
    /\ Decide
    /\ At(h, "idle")
    /\ req' = [req EXCEPT ![h] =
                 [NoRequest EXCEPT !.op = "edit", !.pc = "reload", !.app = a,
                    !.mem = [x \in {a} |-> [app[a] EXCEPT !.status = status]]]]
    /\ UNCHANGED <<app, rows, busy, vetted, queue, paid, faults>>

\* updateApplicationStatus.
SetStatus(h, a) == a \in Existing /\ \E s \in EmployerSets : EditTo(h, a, s)

\* applicantAcceptOffer: accepted within the 7 days, or declined.
Reply(h, a) ==
    /\ app[a].status = "OFFER_SENT"
    /\ \/ EditTo(h, a, IF app[a].unlocked THEN "PAYMENT_COMPLETE"
                                          ELSE "APPLICANT_ACCEPTED")
       \/ EditTo(h, a, "WITHDRAWN")

Withdraw(h, a) ==
    /\ app[a].status \notin {"NONE", "PAYMENT_COMPLETE", "REJECTED", "WITHDRAWN"}
    /\ EditTo(h, a, "WITHDRAWN")

-----------------------------------------------------------------------------
\* selectForScreening.

\* Mutant of SelectLoad: the payment is not checked.
SelectLoadUnpaid(h, a) ==
    /\ app[a].status = "VETTED"
    /\ Start(h, "select", "select", a)
    /\ UNCHANGED <<app, rows, busy, vetted, queue, paid, acts, faults>>

SelectLoad(h, a) ==
    /\ app[a].unlocked /\ app[a].status = "VETTED"
    /\ Start(h, "select", "select", a)
    /\ UNCHANGED <<app, rows, busy, vetted, queue, paid, acts, faults>>

\* The update is by id: the row may have any status by now.
SelectWrite(h) ==
    /\ At(h, "select")
    /\ req[h].app \notin Locked
    /\ app' = [app EXCEPT ![req[h].app].status = "SELECTED_FOR_SCREENING"]
    /\ Return(h)
    /\ UNCHANGED <<rows, busy, vetted, queue, paid, acts, faults>>

-----------------------------------------------------------------------------
\* employerPickCandidate.

PickLoad(h, a) ==
    /\ app[a].unlocked
    /\ app[a].status \in {"VETTED", "SELECTED_FOR_SCREENING", "SELECTED_FOR_HIRE"}
    /\ Start(h, "pick", "check", a)
    /\ UNCHANGED <<app, rows, busy, vetted, queue, paid, acts, faults>>

PickCheck(h) ==
    /\ At(h, "check")
    /\ IF rows[req[h].app] = 0 THEN Goto(h, "clear") ELSE Return(h)
    /\ UNCHANGED <<app, rows, busy, vetted, queue, paid, acts, faults>>

\* Mutant of Pickable: a sent offer is left standing.
PickableOnly == {"SELECTED_FOR_HIRE"}

\* The statuses the transaction clears.
Pickable == {"SELECTED_FOR_HIRE", "OFFER_SENT"}

\* The transaction opens with the UPDATE of the earlier picks, which locks them.
PickClear(h) ==
    /\ At(h, "clear")
    /\ req' = [req EXCEPT ![h] =
                 [@ EXCEPT !.pc = "commit",
                           !.todo = {a \in Apps : app[a].status \in Pickable}]]
    /\ UNCHANGED <<app, rows, busy, vetted, queue, paid, acts, faults>>

\* Its end.  A row that waited for another pick's lock is looked at again.
\* Bound: MaxRows.
PickCommit(h) ==
    /\ At(h, "commit")
    /\ LET a == req[h].app
           cleared == {x \in req[h].todo : app[x].status \in Pickable}
       IN /\ rows[a] < MaxRows
          /\ app' = [x \in Apps |->
                       IF x = a THEN [app[x] EXCEPT !.status = "OFFER_SENT"]
                       ELSE IF x \in cleared THEN [app[x] EXCEPT !.status = "VETTED"]
                       ELSE app[x]]
          /\ rows' = [rows EXCEPT ![a] = @ + 1]
    /\ Return(h)
    /\ UNCHANGED <<busy, vetted, queue, paid, acts, faults>>

-----------------------------------------------------------------------------
\* A request or job dies at an await.  A queue job is repeated while attempts
\* are left.
Abort(h) ==
    /\ faults < MaxFaults
    /\ ~At(h, "idle")
    /\ queue' = IF req[h].op = "queue" THEN [queue EXCEPT ![req[h].app] = @ - 1] ELSE queue
    /\ Return(h)
    /\ faults' = faults + 1
    /\ UNCHANGED <<app, rows, busy, vetted, paid, acts>>

\* The process stops; Bull hands the jobs it was running to the next one.
Crash ==
    /\ faults < MaxFaults
    /\ \E h \in Handlers : ~At(h, "idle")
    /\ req' = [h \in Handlers |-> NoRequest]
    /\ faults' = faults + 1
    /\ UNCHANGED <<app, rows, busy, vetted, queue, paid, acts>>

Continue(h) ==
    \/ VetLoad(h) \/ VetScore(h) \/ VetHighlight(h) \/ VetAdvance(h) \/ VetComplete(h)
    \/ SaveReload(h) \/ SaveWrite(h) \/ SelectWrite(h)
    \/ PickCheck(h) \/ PickClear(h) \/ PickCommit(h)
    \/ SettleScan(h) \/ SettleAdvance(h)

Next ==
    \/ \E a \in Apps : Apply(a) \/ Employ(a) \/ RowCloses(a)
    \/ HourPasses \/ Crash
    \/ \E h \in Handlers, a \in Apps :
         \/ QueueTake(h, a) \/ SetStatus(h, a) \/ Reply(h, a) \/ Withdraw(h, a)
         \/ SelectLoad(h, a) \/ PickLoad(h, a)
    \/ \E h \in Handlers :
         DailyTake(h) \/ ViewTake(h) \/ SettleUnlock(h) \/ Continue(h) \/ Abort(h)

Spec == Init /\ [][Next]_vars

\* The event loop resumes a handler whose await is answered; the employer opens
\* the ranked list again and again, whatever else the slots are used for.
FairSpec ==
    /\ Spec
    /\ \A h \in Handlers : WF_vars(Continue(h))
    /\ SF_vars(\E h \in Handlers : ViewTake(h))

-----------------------------------------------------------------------------
\* Statuses that come after the employer's selection of a candidate.
Gated == {"SELECTED_FOR_SCREENING", "OFFER_SENT", "APPLICANT_ACCEPTED",
          "PAYMENT_COMPLETE"}

\* job-vetting.service.ts:1040, "Must have PII unlocked before hiring", and its
\* counterpart for screening: whatever overlaps, restarts or is written back, no
\* candidate is selected, offered the job or given an employees row whom no
\* payment had unlocked -- unless the employer sends such a status directly.
GateBeforeSelection ==
    \A a \in Apps :
      /\ rows[a] > 0 => a \in paid
      /\ EmployerSets \intersect Gated = {} =>
           (app[a].status \in Gated => a \in paid)

\* job-vetting.service.ts:623, a vetting only moves APPLIED to VETTED and keeps
\* later statuses, so that selections are not overwritten: while no other handler
\* is about to write a status when it has the rows in memory, although it saves
\* whole rows it loaded before it scored them.
VettingKeepsSelections ==
    [][\A h \in Handlers, a \in Apps :
         (req[h].op \in {"queue", "vet"} /\ req'[h] # req[h]
            /\ app'[a].status # app[a].status)
         => app[a].status = "APPLIED" /\ app'[a].status = "VETTED"]_vars

\* jobs-employer.controller.ts:281, a pick clears any previous pick: as long as its
\* open transaction meets no other and no vetting that is going to save the rows, a
\* job never has two offers out.
OneOffer ==
    "OFFER_SENT" \notin EmployerSets =>
      Cardinality({a \in Apps : app[a].status = "OFFER_SENT"}) <= 1

\* When a vetting completes under which nobody else saved rows since its own save
\* began, of the candidates it ranked the stored highlight is on those with the
\* highest scores and on no more than the job's count, also after earlier vettings
\* highlighted others.
HighlightsAreTop ==
    [][\A h \in Handlers :
         At(h, "complete") /\ vetted'.done /\ ~At(h, "complete")' /\ faults' = faults =>
           IsTop({a \in req[h].ranked : app'[a].lit}, req[h].ranked)]_vars

\* An application is scored in the end, unless the candidate is found employed,
\* if the employer keeps opening the list: also one that arrived while a vetting
\* was running, which its own queue job and the daily job pass over.
ScoredInTheEnd ==
    \A a \in Apps :
      app[a].status # "NONE" ~> app[a].scored \/ a \in busy
=============================================================================
