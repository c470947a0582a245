----------------------------- MODULE Placements -----------------------------
(***************************************************************************)
(* The placements of several job seekers on several jobs, side by side:    *)
(* the employer creates them (EmployeesService.createEmployee), the        *)
(* administrator swaps the candidate of a job (AdminReplacementService),   *)
(* and both parties rate a placement (EmploymentFeedbackService).  What    *)
(* happens to one placement in between is Employment's subject; here its   *)
(* status changes in one step.                                             *)
(*                                                                         *)
(* The employer, the job seeker and the administrator each have one        *)
(* request in progress; the three interleave.                              *)
(***************************************************************************)
EXTENDS Naturals, FiniteSets

CONSTANTS
    Candidates,    \* job seekers with a profile
    Openings,      \* jobs of the employer
    Placed,        \* employees rows
    CreatedAs,     \* statuses sent to createEmployee
    MaxEnds,       \* bound on terminations of a placement
    NoOne          \* null

Side == {"employer", "jobseeker"}
SeatStatus == {"ONBOARDING", "ACTIVE", "SUSPENDED", "COMPLETED", "TERMINATED", "ENDED"}
Standing == {"none", "applied", "HIRED", "WITHDRAWN"}

ASSUME PlacementsAssumption ==
    /\ Openings # {} /\ CreatedAs \subseteq SeatStatus
    /\ MaxEnds \in Nat
    /\ NoOne \notin Candidates \cup Placed

VARIABLES
    seat,      \* employees rows: whose, on which job, status, who declared completion
    standing,  \* job_applications: status of each candidate's application to each job
    scored,    \* the applications with vettingScore and vettedAt
    ratings,   \* how many employment_feedback rows each side has for each placement
    creating,  \* the createEmployee request that found no open placement
    swap,      \* the replaceCandidate request
    rating,    \* per side, the placement of a feedback request that found no row
    ends       \* history: terminations of each placement by the employer

placeVars == <<seat, standing, scored, ratings, creating, swap, rating, ends>>

\* who = NoOne: no such row.
Seat == [who : Candidates \cup {NoOne}, job : Openings, status : SeatStatus,
         declared : SUBSET Side]
NoSwap == [pc |-> "idle", old |-> NoOne, new |-> NoOne]

PlaceTypeOK ==
    /\ seat \in [Placed -> Seat]
    /\ standing \in [Openings \X Candidates -> Standing]
    /\ scored \subseteq Openings \X Candidates
    /\ ratings \in [Placed -> [Side -> 0..(MaxEnds + 1)]]
    /\ creating \in [who : Candidates \cup {NoOne}, job : Openings]
    /\ swap \in [pc : {"idle", "commit", "schedule"},
                 old : Placed \cup {NoOne}, new : Candidates \cup {NoOne}]
    /\ rating \in [Side -> Placed \cup {NoOne}]
    /\ ends \in [Placed -> 0..MaxEnds]

NoCreation == [who |-> NoOne, job |-> CHOOSE j \in Openings : TRUE]

PlaceInit ==
    /\ seat = [e \in Placed |-> [who |-> NoOne, job |-> NoCreation.job,
                                 status |-> "ENDED", declared |-> {}]]
    /\ standing = [x \in Openings \X Candidates |-> "none"] /\ scored = {}
    /\ ratings = [e \in Placed |-> [p \in Side |-> 0]]
    /\ creating = NoCreation /\ swap = NoSwap
    /\ rating = [p \in Side |-> NoOne]
    /\ ends = [e \in Placed |-> 0]

Taken == {e \in Placed : seat[e].who # NoOne}
Free == Placed \ Taken
ActiveOn(j) == {e \in Taken : seat[e].job = j /\ seat[e].status = "ACTIVE"}
Employed == {seat[e].who : e \in {e \in Taken : seat[e].status = "ACTIVE"}}
EmployerIdle == creating = NoCreation /\ rating["employer"] = NoOne

-----------------------------------------------------------------------------
\* Applications and their vetting (Vetting).

Applies(j, c) ==
    /\ standing[<<j, c>>] = "none"
    /\ standing' = [standing EXCEPT ![<<j, c>>] = "applied"]
    /\ UNCHANGED <<seat, scored, ratings, creating, swap, rating, ends>>

Vetted(j, c) ==
    /\ standing[<<j, c>>] = "applied" /\ <<j, c>> \notin scored
    /\ scored' = scored \cup {<<j, c>>}
    /\ UNCHANGED <<seat, standing, ratings, creating, swap, rating, ends>>

-----------------------------------------------------------------------------
\* EmployeesService.

\* createEmployee up to its check for an open placement.
CreateEmployee(j, c) ==
    /\ EmployerIdle
    /\ ~\E e \in Taken : /\ seat[e].who = c /\ seat[e].job = j
                         /\ seat[e].status \in {"ONBOARDING", "ACTIVE", "SUSPENDED"}
    /\ creating' = [who |-> c, job |-> j]
    /\ UNCHANGED <<seat, standing, scored, ratings, swap, rating, ends>>

\* Its insert, with any status.  Bound: Placed.
InsertEmployee ==
    /\ creating # NoCreation
    /\ \E e \in Free, s \in CreatedAs :
         seat' = [seat EXCEPT ![e] = [who |-> creating.who, job |-> creating.job,
                                      status |-> s, declared |-> {}]]
    /\ creating' = NoCreation
    /\ UNCHANGED <<standing, scored, ratings, swap, rating, ends>>

\* updateEmployeeStatus, other than to TERMINATED.
StatusSaved(e) ==
    /\ e \in Taken /\ EmployerIdle
    /\ \E s \in SeatStatus \ {"TERMINATED", "ENDED"} :
         seat' = [seat EXCEPT ![e].status = s]
    /\ UNCHANGED <<standing, scored, ratings, creating, swap, rating, ends>>

\* createEmployerFeedbackWithManager, in the transaction that terminates.
Rated(e, p) == ratings' = [ratings EXCEPT ![e][p] = @ + 1]

\* updateEmployeeStatus to TERMINATED.  Bound: MaxEnds.
Terminate(e) ==
    /\ e \in Taken /\ EmployerIdle /\ ends[e] < MaxEnds
    /\ seat' = [seat EXCEPT ![e].status = "TERMINATED"]
    /\ Rated(e, "employer")
    /\ ends' = [ends EXCEPT ![e] = @ + 1]
    /\ UNCHANGED <<standing, scored, creating, swap, rating>>

\* declareCompleteAsEmployer and -AsJobseeker (EmploymentCompletionService).
DeclareComplete(e, p) ==
    /\ e \in Taken /\ rating[p] = NoOne /\ (p = "employer" => EmployerIdle)
    /\ seat[e].status \in {"ACTIVE", "ONBOARDING"} /\ p \notin seat[e].declared
    /\ seat' = [seat EXCEPT ![e].declared = @ \cup {p},
                            ![e].status = IF seat[e].declared \cup {p} = Side
                                          THEN "ENDED" ELSE @]
    /\ UNCHANGED <<standing, scored, ratings, creating, swap, rating, ends>>

-----------------------------------------------------------------------------
\* EmploymentFeedbackService.

JobseekerMayRate(row) ==
    "jobseeker" \in row.declared \/ row.status \in {"TERMINATED", "COMPLETED", "ENDED"}

EmployerMayRate(row) == "employer" \in row.declared \/ row.status = "TERMINATED"

\* Mutant of NotRated: the one-time check is missing.
AlwaysUnrated(e, p) == TRUE

NotRated(e, p) == ratings[e][p] = 0

\* submitJobseekerFeedback and submitEmployerFeedback: the placement, then the
\* feedback rows it has.
SubmitFeedback(e, p) ==
    /\ e \in Taken /\ rating[p] = NoOne /\ (p = "employer" => EmployerIdle)
    /\ IF p = "jobseeker" THEN JobseekerMayRate(seat[e]) ELSE EmployerMayRate(seat[e])
    /\ NotRated(e, p)
    /\ rating' = [rating EXCEPT ![p] = e]
    /\ UNCHANGED <<seat, standing, scored, ratings, creating, swap, ends>>

\* ... and the insert, with no unique index behind it.
InsertFeedback(p) ==
    /\ rating[p] # NoOne
    /\ Rated(rating[p], p)
    /\ rating' = [rating EXCEPT ![p] = NoOne]
    /\ UNCHANGED <<seat, standing, scored, creating, swap, ends>>

-----------------------------------------------------------------------------
\* AdminReplacementService.  findOne returns any one of several ACTIVE rows.

\* Mutant of ReplacementCandidates: those who work elsewhere are listed too.
ListedWithEmployed(j, current) ==
    {c \in Candidates : /\ standing[<<j, c>>] # "none"
                        /\ \A e \in current : seat[e].who # c
                        /\ \E k \in Openings : <<k, c>> \in scored}

\* getReplacementCandidates: applicants vetted for this job or for another one.
\* current holds the row found, or nothing.
ReplacementCandidates(j, current) ==
    LET old == {seat[e].who : e \in current}
        jobVetted == {c \in Candidates : <<j, c>> \in scored}
        platformVetted == {c \in Candidates : \E k \in Openings : <<k, c>> \in scored}
    IN {c \in Candidates : standing[<<j, c>>] # "none" /\ c \notin old \cup Employed}
         \cap (jobVetted \cup platformVetted)

\* The checks of replaceCandidate before its transaction.
Replaceable(j, e, c) ==
    e \in ActiveOn(j) /\ c # seat[e].who /\ c \notin Employed

ReplaceCandidate(j, e, c) ==
    /\ swap = NoSwap /\ Replaceable(j, e, c)
    /\ swap' = [pc |-> "commit", old |-> e, new |-> c]
    /\ UNCHANGED <<seat, standing, scored, ratings, creating, rating, ends>>

\* The transaction, with neither check repeated: the old application is
\* withdrawn, the new one hired, a new ACTIVE row inserted and the old row
\* terminated whatever its status is by now.  Bound: Placed.
ReplaceCommit ==
    /\ swap.pc = "commit"
    /\ LET j == seat[swap.old].job
           old == seat[swap.old].who
       IN IF standing[<<j, swap.new>>] = "none"
          THEN swap' = NoSwap /\ UNCHANGED <<seat, standing>>
          ELSE \E e \in Free :
                 /\ seat' = [seat EXCEPT
                               ![e] = [who |-> swap.new, job |-> j, status |-> "ACTIVE",
                                       declared |-> {}],
                               ![swap.old].status = "TERMINATED"]
                 /\ standing' = [x \in Openings \X Candidates |->
                                   CASE x = <<j, swap.new>> -> "HIRED"
                                     [] x = <<j, old>> /\ standing[x] # "none" -> "WITHDRAWN"
                                     [] OTHER -> standing[x]]
                 /\ swap' = [swap EXCEPT !.pc = "schedule", !.old = e]
    /\ UNCHANGED <<scored, ratings, creating, rating, ends>>

\* The milestones of the new placement are scheduled (Employment) and the mails
\* go out, or an exception or a crash ends the request after its commit.
ReplaceDone ==
    /\ swap.pc = "schedule"
    /\ swap' = NoSwap
    /\ UNCHANGED <<seat, standing, scored, ratings, creating, rating, ends>>

-----------------------------------------------------------------------------
Creates == (\E j \in Openings, c \in Candidates : CreateEmployee(j, c)) \/ InsertEmployee

EmployeeStatusChanges ==
    \E e \in Placed : \/ StatusSaved(e) \/ Terminate(e)
                      \/ \E p \in Side : DeclareComplete(e, p)

Feedback == \E p \in Side : InsertFeedback(p) \/ \E e \in Placed : SubmitFeedback(e, p)

Replacements ==
    \/ \E j \in Openings, e \in Placed, c \in Candidates : ReplaceCandidate(j, e, c)
    \/ ReplaceCommit \/ ReplaceDone

Applicants == \E j \in Openings, c \in Candidates : Applies(j, c) \/ Vetted(j, c)

PlaceNext == Creates \/ EmployeeStatusChanges \/ Feedback \/ Replacements \/ Applicants

PlaceSpec == PlaceInit /\ [][PlaceNext]_placeVars

-----------------------------------------------------------------------------
\* What the administrator is offered can be done: whichever of several active
\* rows the listing and the replacement happen to find, a listed candidate passes
\* every check of the replacement, also the one in its transaction
\* (admin-replacement.service.ts:176, "Exclude already-employed candidates").
ListedCanReplace ==
    \A j \in Openings : \A e, f \in ActiveOn(j) :
      \A c \in ReplacementCandidates(j, {e}) :
        Replaceable(j, f, c) /\ standing[<<j, c>>] # "none"

\* employment-feedback.service.ts:61, "one-time feedback": while each party sends
\* one request at a time, a job seeker rates a placement once, whatever the other
\* party does to it meanwhile; an employer once, and again with each termination,
\* which does not look for a rating.
RatedOnce ==
    \A e \in Placed : /\ ratings[e]["jobseeker"] <= 1
                      /\ ratings[e]["employer"] <= 1 + ends[e]
=============================================================================
