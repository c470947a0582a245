---------------------------- MODULE Marketplace ----------------------------
(***************************************************************************)
(* One job on the marketplace: JobsService (create, edit, publish, close,  *)
(* delete), applying and bookmarking, the queue job that mails the job to  *)
(* matching job seekers when it opens, and the cached recommendations      *)
(* that list it.                                                           *)
(*                                                                         *)
(* Requests that change the job are served one at a time here -- what      *)
(* overlapping saves of one row do is the subject of the other modules --  *)
(* but the queue worker, the daily precalculation, the clock and failures  *)
(* run beside them.                                                        *)
(***************************************************************************)
EXTENDS Naturals, FiniteSets

CONSTANTS
    Seekers,       \* job seekers with a profile and an email address
    Limits,        \* page sizes recommendations are asked for; 100 is the daily job's
    PostAttempts,  \* attempts of a queue job of the match-notification queue
    MaxEdits,      \* bound on status changes
    MaxLosses      \* bound on failing calls and process crashes

ASSUME MarketplaceAssumption ==
    /\ PostAttempts \in Nat \ {0}
    /\ MaxEdits \in Nat /\ MaxLosses \in Nat

VARIABLES
    post,      \* the jobs row: status and application deadline
    today,     \* 0 or 1; a deadline d has passed when d <= today
    approved,  \* job seekers whose profile is APPROVED
    applied,   \* job seekers with a job_applications row for the job
    saved,     \* job seekers with a job_bookmarks row for the job
    opening,   \* the status request that opened the job still has to queue the mails
    matching,  \* the Bull job "job-post-match-<job id>"
    cache,     \* cached recommendations: for whom and which page size, with the job
    results,   \* recommendation lists that are calculated and not cached yet
    openings,  \* history: how often the row became open
    mailed,    \* history: mails about the job to each job seeker
    owed,      \* history: it became open and no run has looked for matches since
    lost,      \* history: since then something happened that drops the mails
    edits, losses

marketVars == <<post, today, approved, applied, saved, opening, matching, cache,
                results, openings, mailed, owed, lost, edits, losses>>

JobStatus == {"DRAFT", "PUBLISHED", "ACTIVE", "CLOSED"}
\* "NEW" and "DELETED": no row.
Post == [status : JobStatus \cup {"NEW", "DELETED"}, deadline : {1, 2}]
Matching == [state : {"none", "waiting", "active", "failed"},
             pc : {"load", "find", "mail"},
             left : 0..PostAttempts, stalled : BOOLEAN, todo : SUBSET Seekers]
NoMatching == [state |-> "none", pc |-> "load", left |-> 0, stalled |-> FALSE, todo |-> {}]
List == {"none", "without", "with"}

MarketTypeOK ==
    /\ post \in Post /\ today \in 0..1
    /\ approved \subseteq Seekers /\ applied \subseteq Seekers /\ saved \subseteq Seekers
    /\ opening \in BOOLEAN
    /\ matching \in Matching
    /\ cache \in [Seekers \X Limits -> List] /\ results \in [Seekers \X Limits -> List]
    /\ openings \in 0..MaxEdits
    /\ mailed \in [Seekers -> 0..(MaxEdits + MaxLosses)]
    /\ owed \in BOOLEAN /\ lost \in BOOLEAN
    /\ edits \in 0..MaxEdits /\ losses \in 0..MaxLosses

MarketInit ==
    /\ post = [status |-> "NEW", deadline |-> 1] /\ today = 0
    /\ approved = {} /\ applied = {} /\ saved = {}
    /\ opening = FALSE /\ matching = NoMatching
    /\ cache = [k \in Seekers \X Limits |-> "none"] /\ results = cache
    /\ openings = 0 /\ mailed = [s \in Seekers |-> 0]
    /\ owed = FALSE /\ lost = FALSE /\ edits = 0 /\ losses = 0

historyVars == <<openings, mailed, owed, lost>>
peopleVars == <<approved, applied, saved>>
listVars == <<cache, results>>

OpenOnMarketplace(status) == status \in {"PUBLISHED", "ACTIVE"}
Open == OpenOnMarketplace(post.status)
PostExists == post.status \in JobStatus
Late == post.deadline <= today

-----------------------------------------------------------------------------
\* JobsService.

\* createJob.
CreateJob ==
    /\ post.status = "NEW"
    /\ \E d \in {1, 2} : post' = [status |-> "DRAFT", deadline |-> d]
    /\ UNCHANGED <<today, opening, matching, edits, losses, peopleVars, listVars,
                   historyVars>>

\* updateJob.
UpdateJob ==
    /\ PostExists /\ ~opening
    /\ \E d \in {1, 2} : post' = [post EXCEPT !.deadline = d]
    /\ UNCHANGED <<today, opening, matching, edits, losses, peopleVars, listVars,
                   historyVars>>

\* Mutant of BecameOpen: the status before is not looked at.
IsOpenNow(previous, next) == OpenOnMarketplace(next)

BecameOpen(previous, next) == OpenOnMarketplace(next) /\ ~OpenOnMarketplace(previous)

\* An employer's PUBLISHED activates the job at once.
NextStatus(role, previous, asked) ==
    IF role = "EMPLOYER" /\ asked = "PUBLISHED" /\ previous \in {"DRAFT", "CLOSED"}
    THEN "ACTIVE" ELSE asked

\* updateJobStatus up to the save of the row.  Bound: MaxEdits.
UpdateJobStatus(role, asked) ==
    /\ PostExists /\ ~opening /\ edits < MaxEdits
    /\ LET next == NextStatus(role, post.status, asked)
           opens == ~Open /\ OpenOnMarketplace(next)
       IN /\ post' = [post EXCEPT !.status = next]
          /\ opening' = BecameOpen(post.status, next)
          /\ openings' = IF opens THEN openings + 1 ELSE openings
          /\ owed' = (opens \/ (owed /\ OpenOnMarketplace(next)))
          /\ lost' = (lost /\ ~opens)
    /\ edits' = edits + 1
    /\ UNCHANGED <<today, matching, losses, mailed, peopleVars, listVars>>

\* queueNotifyJobMatches: Bull ignores a job whose id it still has.
QueueNotifyJobMatches ==
    /\ opening
    /\ opening' = FALSE
    /\ IF matching.state = "none"
       THEN /\ matching' = [NoMatching EXCEPT !.state = "waiting", !.left = PostAttempts]
            /\ UNCHANGED lost
       ELSE /\ lost' = (matching.state = "failed" \/ matching.pc = "mail")
            /\ UNCHANGED matching
    /\ UNCHANGED <<post, today, openings, mailed, owed, edits, losses, peopleVars,
                   listVars>>

\* The queue refuses the job, which is logged and swallowed, or the process
\* stops between the save and the call.
QueueingFails ==
    /\ opening /\ losses < MaxLosses
    /\ opening' = FALSE /\ lost' = TRUE /\ losses' = losses + 1
    /\ UNCHANGED <<post, today, matching, openings, mailed, owed, edits, peopleVars,
                   listVars>>

\* deleteJob; applications and bookmarks cascade.
DeleteJob ==
    /\ PostExists /\ ~opening
    /\ post' = [post EXCEPT !.status = "DELETED"]
    /\ applied' = {} /\ saved' = {}
    /\ owed' = FALSE
    /\ UNCHANGED <<today, approved, opening, matching, openings, mailed, lost, edits,
                   losses, listVars>>

DeadlinePasses ==
    /\ today = 0 /\ today' = 1
    /\ UNCHANGED <<post, opening, matching, edits, losses, peopleVars, listVars,
                   historyVars>>

-----------------------------------------------------------------------------
\* Job seekers.

\* An administrator decides about the profile (JobseekerProfiles).
Decided(s) ==
    /\ approved' = IF s \in approved THEN approved \ {s} ELSE approved \cup {s}
    /\ UNCHANGED <<post, today, applied, saved, opening, matching, edits, losses,
                   listVars, historyVars>>

\* applyToJob up to the insert; Vetting has what follows.
ApplyToJob(s) ==
    /\ Open
    /\ s \in approved \ applied
    /\ applied' = applied \cup {s}
    /\ UNCHANGED <<post, today, approved, saved, opening, matching, edits, losses,
                   listVars, historyVars>>

JobBookmarkable == Open /\ ~Late

AddBookmark(s) ==
    /\ s \notin saved /\ JobBookmarkable
    /\ saved' = saved \cup {s}
    /\ UNCHANGED <<post, today, approved, applied, opening, matching, edits, losses,
                   listVars, historyVars>>

RemoveBookmark(s) ==
    /\ s \in saved
    /\ saved' = saved \ {s}
    /\ UNCHANGED <<post, today, approved, applied, opening, matching, edits, losses,
                   listVars, historyVars>>

-----------------------------------------------------------------------------
\* The worker of the match-notification queue: processPublishedJobMatches.

MatchFrame == UNCHANGED <<post, today, opening, openings, edits, peopleVars, listVars>>

MatchTake ==
    /\ matching.state = "waiting"
    /\ matching' = [matching EXCEPT !.state = "active", !.pc = "load"]
    /\ UNCHANGED <<mailed, owed, lost, losses>> /\ MatchFrame

\* Mutant of Completed: a completed job keeps its id, as the queue's default
\* (removeOnComplete: 20) has it.
CompletedKept == [NoMatching EXCEPT !.state = "completed"]

\* removeOnComplete frees the id.
Completed == NoMatching

\* A job that is gone, closed or past its deadline is skipped.
MatchLoad ==
    /\ matching.state = "active" /\ matching.pc = "load"
    /\ IF Open /\ ~Late
       THEN matching' = [matching EXCEPT !.pc = "find"] /\ UNCHANGED owed
       ELSE matching' = Completed /\ owed' = FALSE
    /\ UNCHANGED <<mailed, lost, losses>> /\ MatchFrame

\* findCandidateProfileIds and the scores: who of them reaches the thresholds
\* (Scoring) is left open.  With none left an administrator is told instead.
MatchFind ==
    /\ matching.state = "active" /\ matching.pc = "find"
    /\ \E T \in SUBSET (approved \ applied) :
         matching' = IF T = {} THEN Completed
                     ELSE [matching EXCEPT !.pc = "mail", !.todo = T]
    /\ owed' = FALSE
    /\ UNCHANGED <<mailed, lost, losses>> /\ MatchFrame

\* A mail that fails is logged and swallowed.
MatchMail ==
    /\ matching.state = "active" /\ matching.pc = "mail"
    /\ \E s \in matching.todo :
         /\ matching' = [matching EXCEPT !.todo = @ \ {s}]
         /\ \/ mailed' = [mailed EXCEPT ![s] = @ + 1]
            \/ UNCHANGED mailed
    /\ UNCHANGED <<owed, lost, losses>> /\ MatchFrame

MatchDone ==
    /\ matching.state = "active" /\ matching.pc = "mail" /\ matching.todo = {}
    /\ matching' = Completed
    /\ UNCHANGED <<mailed, owed, lost, losses>> /\ MatchFrame

\* removeOnFail is off for these jobs: a failed one keeps its id.
MatchAgain(again, job) ==
    /\ losses < MaxLosses /\ losses' = losses + 1
    /\ matching' = IF again THEN [job EXCEPT !.state = "waiting", !.todo = {}]
                            ELSE [NoMatching EXCEPT !.state = "failed"]
    /\ lost' = (lost \/ ~again)
    /\ UNCHANGED <<mailed, owed>> /\ MatchFrame

\* A query fails: the job is retried while it has attempts.
MatchFails ==
    /\ matching.state = "active" /\ matching.pc \in {"load", "find"}
    /\ MatchAgain(matching.left > 1, [matching EXCEPT !.left = @ - 1])

\* The process stops.  Bull hands a stalled job out again, once.
MatchStalls ==
    /\ matching.state = "active"
    /\ MatchAgain(~matching.stalled, [matching EXCEPT !.stalled = TRUE])

Worker == MatchTake \/ MatchLoad \/ MatchFind \/ MatchMail \/ MatchDone

-----------------------------------------------------------------------------
\* Recommendations.

\* Mutant of Fits: jobs already applied to are recommended too.
FitsApplied(s) == Open /\ ~Late

\* The job is one calculateRecommendations may list for s.
Fits(s) == Open /\ ~Late /\ s \notin applied

\* calculateRecommendations, for a request that skips the cache or misses it and
\* for the daily precalculation; whether the job passes the core gate (Scoring) is
\* left open.
Calculate(s, limit) ==
    /\ results[<<s, limit>>] = "none"
    /\ \E l \in {"without"} \cup (IF Fits(s) THEN {"with"} ELSE {}) :
         results' = [results EXCEPT ![<<s, limit>>] = l]
    /\ UNCHANGED <<post, today, opening, matching, cache, edits, losses, peopleVars,
                   historyVars>>

\* cacheManager.set.
Store(s, limit) ==
    /\ results[<<s, limit>>] # "none"
    /\ cache' = [cache EXCEPT ![<<s, limit>>] = results[<<s, limit>>]]
    /\ results' = [results EXCEPT ![<<s, limit>>] = "none"]
    /\ UNCHANGED <<post, today, opening, matching, edits, losses, peopleVars,
                   historyVars>>

\* The time to live of the entry is over.
Expire(s, limit) ==
    /\ cache[<<s, limit>>] # "none"
    /\ cache' = [cache EXCEPT ![<<s, limit>>] = "none"]
    /\ UNCHANGED <<post, today, opening, matching, results, edits, losses, peopleVars,
                   historyVars>>

-----------------------------------------------------------------------------
EmployerRequests ==
    \/ CreateJob \/ UpdateJob \/ DeleteJob
    \/ \E asked \in JobStatus : UpdateJobStatus("EMPLOYER", asked)

AdminRequests ==
    \/ UpdateJob \/ DeleteJob
    \/ \E asked \in JobStatus : UpdateJobStatus("ADMIN", asked)

JobRequests == EmployerRequests \/ AdminRequests \/ QueueNotifyJobMatches \/ QueueingFails

SeekerRequests == \E s \in Seekers : ApplyToJob(s) \/ AddBookmark(s) \/ RemoveBookmark(s)

Recommending ==
    \E s \in Seekers, limit \in Limits :
      Calculate(s, limit) \/ Store(s, limit) \/ Expire(s, limit)

MarketNext ==
    \/ JobRequests \/ SeekerRequests \/ DeadlinePasses
    \/ \E s \in Seekers : Decided(s)
    \/ Worker \/ MatchFails \/ MatchStalls \/ Recommending

MarketSpec == MarketInit /\ [][MarketNext]_marketVars

\* A request goes on, the worker takes and finishes its jobs, calculations end
\* and entries expire.
MarketFairness ==
    /\ WF_marketVars(QueueNotifyJobMatches)
    /\ WF_marketVars(Worker)
    /\ \A s \in Seekers, limit \in Limits :
         WF_marketVars(Store(s, limit)) /\ WF_marketVars(Expire(s, limit))

-----------------------------------------------------------------------------
\* job-post-match-notify.producer.ts:26, "idempotent Bull job id per job": however
\* the job is edited, closed and opened again around a running worker, a job seeker
\* gets at most one mail about it per time it opened, plus one for each run that
\* was cut short.
MailedOncePerOpening == \A s \in Seekers : mailed[s] <= openings + losses

\* A job that opens is matched with job seekers in the end, or closed again --
\* unless the queueing failed, the last attempt did, or the id was still taken by
\* a failed job or by a run that had picked its recipients.
OpeningAnnounced == owed ~> ~owed \/ lost

\* What a recommended job should be.
Applicable(s) == Open /\ ~Late /\ s \notin applied

\* job-recommendations.service.ts:51: a job that is closed, past its deadline,
\* deleted or applied to for good drops out of what the job seeker is recommended,
\* although calculations that began before are cached after.
UnfitDropsOut ==
    \A s \in Seekers :
      <>[](~Applicable(s)) => <>[](\A limit \in Limits : cache[<<s, limit>>] # "with")
=============================================================================
