------------------------- MODULE MarketplaceProofs -------------------------
(***************************************************************************)
(* However many mails a job's worker repeats and however the job is edited *)
(* around it, a job seeker is mailed at most once per opening and per run  *)
(* that was cut short: for any number of job seekers, page sizes, attempts,*)
(* status changes and failures.                                            *)
(*                                                                         *)
(* The argument counts, for every job seeker, the mails sent and those     *)
(* that may still come: one while an opening has yet to be queued, and one *)
(* while the queue holds a job that has not mailed them yet.  An opening   *)
(* adds one, a run that is repeated adds one and is counted in losses, and *)
(* everything else moves a mail from one place to the next or drops it.    *)
(***************************************************************************)
EXTENDS Marketplace, TLAPS

One(b) == IF b THEN 1 ELSE 0

\* The queue's job may still mail s.
Awaits(job, s) ==
    \/ job.state = "waiting"
    \/ job.state = "active" /\ (job.pc # "mail" \/ s \in job.todo)

Counted ==
    /\ openings <= edits
    /\ \A s \in Seekers :
         mailed[s] + One(opening) + One(Awaits(matching, s)) <= openings + losses

MarketInv == MarketTypeOK /\ Counted

\* What the counts depend on.
countVars == <<opening, matching, openings, mailed, edits, losses>>

-----------------------------------------------------------------------------
\* One is 0 or 1.
LEMMA OneType == \A b \in BOOLEAN : One(b) \in 0..1
BY DEF One

\* A job that was taken out of the queue, or has failed, mails nobody.
LEMMA EndedAwaitsNobody ==
    \A s : /\ ~Awaits(NoMatching, s)
           /\ ~Awaits([NoMatching EXCEPT !.state = "failed"], s)
BY DEF Awaits, NoMatching

\* The queue's job keeps its type in every step the queue makes with it.
LEMMA JobTypes ==
    ASSUME NEW job \in Matching
    PROVE  /\ NoMatching \in Matching
           /\ [NoMatching EXCEPT !.state = "failed"] \in Matching
           /\ [NoMatching EXCEPT !.state = "waiting", !.left = PostAttempts] \in Matching
           /\ \A st \in {"waiting", "active"}, pc \in {"load", "find", "mail"},
                T \in SUBSET Seekers :
                /\ [job EXCEPT !.state = st, !.pc = pc] \in Matching
                /\ [job EXCEPT !.pc = pc] \in Matching
                /\ [job EXCEPT !.todo = T] \in Matching
                /\ [job EXCEPT !.pc = pc, !.todo = T] \in Matching
                /\ [job EXCEPT !.state = st, !.todo = T] \in Matching
           /\ [job EXCEPT !.stalled = TRUE] \in Matching
           /\ job.left > 1 => [job EXCEPT !.left = job.left - 1] \in Matching
<1>1. NoMatching \in Matching
  BY MarketplaceAssumption DEF Matching, NoMatching
<1>2. /\ [NoMatching EXCEPT !.state = "failed"] \in Matching
      /\ [NoMatching EXCEPT !.state = "waiting", !.left = PostAttempts] \in Matching
  <2>1. PostAttempts \in 0..PostAttempts
    BY MarketplaceAssumption
  <2> QED
    BY <1>1, <2>1 DEF Matching
<1>3. ASSUME NEW st \in {"waiting", "active"}, NEW pc \in {"load", "find", "mail"},
             NEW T \in SUBSET Seekers
      PROVE  /\ [job EXCEPT !.state = st, !.pc = pc] \in Matching
             /\ [job EXCEPT !.pc = pc] \in Matching
             /\ [job EXCEPT !.todo = T] \in Matching
             /\ [job EXCEPT !.pc = pc, !.todo = T] \in Matching
             /\ [job EXCEPT !.state = st, !.todo = T] \in Matching
  <2>1. st \in {"none", "waiting", "active", "failed"}
    OBVIOUS
  <2> QED
    BY <2>1 DEF Matching
<1>4. [job EXCEPT !.stalled = TRUE] \in Matching
  BY DEF Matching
<1>5. job.left > 1 => [job EXCEPT !.left = job.left - 1] \in Matching
  BY MarketplaceAssumption DEF Matching
<1> QED
  BY <1>1, <1>2, <1>3, <1>4, <1>5

-----------------------------------------------------------------------------
\* The counts hold at the start.
LEMMA CountedInit == MarketInit => MarketInv
<1> SUFFICES ASSUME MarketInit PROVE MarketInv
  OBVIOUS
<1>1. MarketTypeOK
  <2>1. NoMatching \in Matching
    BY MarketplaceAssumption DEF Matching, NoMatching
  <2>2. [k \in Seekers \X Limits |-> "none"] \in [Seekers \X Limits -> List]
    BY DEF List
  <2>3. post \in Post
    BY DEF MarketInit, Post
  <2>4. /\ openings \in 0..MaxEdits /\ edits \in 0..MaxEdits /\ losses \in 0..MaxLosses
        /\ mailed \in [Seekers -> 0..(MaxEdits + MaxLosses)]
    BY MarketplaceAssumption DEF MarketInit
  <2>5. cache \in [Seekers \X Limits -> List] /\ results \in [Seekers \X Limits -> List]
    BY <2>2 DEF MarketInit
  <2>6. matching \in Matching
    BY <2>1 DEF MarketInit
  <2>7. opening \in BOOLEAN /\ owed \in BOOLEAN /\ lost \in BOOLEAN
    BY DEF MarketInit
  <2>8. approved \subseteq Seekers /\ applied \subseteq Seekers /\ saved \subseteq Seekers
    BY DEF MarketInit
  <2>9. today \in 0..1
    BY DEF MarketInit
  <2> QED
    BY <2>3, <2>4, <2>5, <2>6, <2>7, <2>8, <2>9 DEF MarketTypeOK
<1>2. Counted
  BY EndedAwaitsNobody DEF MarketInit, Counted, One
<1> QED
  BY <1>1, <1>2 DEF MarketInv

\* Steps that neither open the job nor touch the queue.
LEMMA CountedFrame == Counted /\ UNCHANGED countVars => Counted'
BY DEF Counted, countVars

\* Every step keeps the types and the counts of what it counts.
LEMMA QuietSteps ==
    ASSUME MarketInv,
           CreateJob \/ UpdateJob \/ DeleteJob \/ DeadlinePasses \/ SeekerRequests
             \/ (\E s \in Seekers : Decided(s)) \/ Recommending
    PROVE  MarketInv'
<1> USE DEF MarketInv
<1>1. UNCHANGED countVars
  BY DEF CreateJob, UpdateJob, DeleteJob, DeadlinePasses, SeekerRequests, ApplyToJob,
         AddBookmark, RemoveBookmark, Decided, Recommending, Calculate, Store, Expire,
         countVars, historyVars
<1>2. Counted'
  BY <1>1, CountedFrame
<1>3. MarketTypeOK'
  <2>1. CASE CreateJob
    BY <2>1 DEF CreateJob, MarketTypeOK, Post, JobStatus, peopleVars, listVars, historyVars
  <2>2. CASE UpdateJob
    BY <2>2 DEF UpdateJob, MarketTypeOK, Post, JobStatus, peopleVars, listVars, historyVars
  <2>3. CASE DeleteJob
    BY <2>3 DEF DeleteJob, MarketTypeOK, Post, JobStatus, listVars
  <2>4. CASE DeadlinePasses
    BY <2>4 DEF DeadlinePasses, MarketTypeOK, peopleVars, listVars, historyVars
  <2>5. CASE SeekerRequests
    BY <2>5 DEF SeekerRequests, ApplyToJob, AddBookmark, RemoveBookmark, MarketTypeOK,
                listVars, historyVars
  <2>6. CASE \E s \in Seekers : Decided(s)
    BY <2>6 DEF Decided, MarketTypeOK, listVars, historyVars
  <2>7. CASE Recommending
    BY <2>7 DEF Recommending, Calculate, Store, Expire, MarketTypeOK, List, peopleVars,
                historyVars
  <2> QED
    BY <2>1, <2>2, <2>3, <2>4, <2>5, <2>6, <2>7
<1> QED
  BY <1>2, <1>3

-----------------------------------------------------------------------------
\* An opening is counted once, and owes each job seeker one mail.
LEMMA OpeningCounts ==
    ASSUME MarketInv, NEW role \in {"EMPLOYER", "ADMIN"}, NEW asked \in JobStatus,
           UpdateJobStatus(role, asked)
    PROVE  MarketInv'
<1> USE DEF MarketInv
<1> DEFINE next == NextStatus(role, post.status, asked)
           opens == OpenOnMarketplace(next) /\ ~OpenOnMarketplace(post.status)
<1>1. next \in JobStatus
  BY DEF NextStatus, JobStatus
<1>2. /\ ~opening /\ edits < MaxEdits /\ edits' = edits + 1
      /\ post' = [post EXCEPT !.status = next]
      /\ opening' = opens
      /\ openings' = openings + One(opens)
      /\ owed' = (opens \/ (owed /\ OpenOnMarketplace(next)))
      /\ lost' = (lost /\ ~opens)
      /\ UNCHANGED <<today, matching, losses, mailed, approved, applied, saved, cache, results>>
  BY DEF UpdateJobStatus, BecameOpen, Open, One, peopleVars, listVars, MarketTypeOK
<1>3. opens \in BOOLEAN /\ One(opens) \in 0..1
  BY OneType DEF OpenOnMarketplace
<1> HIDE DEF next, opens
<1>4. MarketTypeOK'
  <2>1. post' \in Post
    BY <1>1, <1>2 DEF MarketTypeOK, Post
  <2>2. openings' \in 0..MaxEdits /\ edits' \in 0..MaxEdits
    BY <1>2, <1>3, MarketplaceAssumption DEF MarketTypeOK, Counted
  <2>3. opening' \in BOOLEAN /\ owed' \in BOOLEAN /\ lost' \in BOOLEAN
    BY <1>2, <1>3 DEF MarketTypeOK, OpenOnMarketplace
  <2> QED
    BY <1>2, <2>1, <2>2, <2>3 DEF MarketTypeOK
<1>5. Counted'
  <2>1. openings' <= edits'
    BY <1>2, <1>3 DEF Counted, MarketTypeOK
  <2>2. ASSUME NEW s \in Seekers
        PROVE  (mailed[s] + One(opening) + One(Awaits(matching, s)) <= openings + losses)'
    <3>1. One(opening) = 0 /\ One(opening') = One(opens)
      BY <1>2 DEF One
    <3>2. mailed[s] \in Nat /\ openings \in Nat /\ losses \in Nat
      BY MarketplaceAssumption DEF MarketTypeOK
    <3>3. One(Awaits(matching, s)) \in 0..1
      BY OneType DEF One
    <3>4. mailed[s] + One(opening) + One(Awaits(matching, s)) <= openings + losses
      BY DEF Counted
    <3> QED
      BY <1>2, <1>3, <3>1, <3>2, <3>3, <3>4
  <2> QED
    BY <2>1, <2>2 DEF Counted
<1> QED
  BY <1>4, <1>5

\* What the request's queueing and the worker do to one job seeker's count: the
\* mails sent and those that may come grow by no more than the losses do.
LEMMA CountMoves ==
    ASSUME MarketInv, UNCHANGED <<openings, edits>>, losses' \in Nat,
           mailed' \in [Seekers -> Nat],
           \A s \in Seekers :
             mailed'[s] + One(opening') + One(Awaits(matching', s)) - losses'
               <= mailed[s] + One(opening) + One(Awaits(matching, s)) - losses
    PROVE  Counted'
<1> USE DEF MarketInv
<1>1. openings' <= edits'
  BY DEF Counted
<1>2. ASSUME NEW s \in Seekers
      PROVE  (mailed[s] + One(opening) + One(Awaits(matching, s)) <= openings + losses)'
  <2>1. mailed[s] \in Nat /\ openings \in Nat /\ losses \in Nat /\ mailed'[s] \in Nat
    BY MarketplaceAssumption DEF MarketTypeOK
  <2>2. /\ One(opening) \in 0..1 /\ One(opening') \in 0..1
        /\ One(Awaits(matching, s)) \in 0..1 /\ One(Awaits(matching', s)) \in 0..1
    BY DEF One
  <2>3. mailed[s] + One(opening) + One(Awaits(matching, s)) <= openings + losses
    BY DEF Counted
  <2>4. mailed'[s] + One(opening') + One(Awaits(matching', s)) - losses'
          <= mailed[s] + One(opening) + One(Awaits(matching, s)) - losses
    OBVIOUS
  <2> QED
    BY <2>1, <2>2, <2>3, <2>4
<1> QED
  BY <1>1, <1>2 DEF Counted

\* A step that keeps the rest of the types, and only moves the counts, keeps both.
LEMMA Moves ==
    ASSUME MarketInv, UNCHANGED <<post, today, openings, edits, peopleVars, listVars>>,
           opening' \in BOOLEAN, matching' \in Matching, owed' \in BOOLEAN,
           lost' \in BOOLEAN, losses' \in 0..MaxLosses, mailed' \in [Seekers -> Nat],
           \A s \in Seekers :
             mailed'[s] + One(opening') + One(Awaits(matching', s)) - losses'
               <= mailed[s] + One(opening) + One(Awaits(matching, s)) - losses
    PROVE  MarketInv'
<1>1. Counted'
  BY CountMoves, MarketplaceAssumption
<1>2. openings' \in Nat /\ edits' \in 0..MaxEdits
  BY MarketplaceAssumption DEF MarketInv, MarketTypeOK
<1>3. mailed' \in [Seekers -> 0..(MaxEdits + MaxLosses)]
  <2> SUFFICES ASSUME NEW s \in Seekers PROVE mailed'[s] <= MaxEdits + MaxLosses
    BY MarketplaceAssumption
  <2>1. mailed'[s] + One(opening') + One(Awaits(matching', s)) <= openings' + losses'
    BY <1>1 DEF Counted
  <2>2. One(opening') \in 0..1 /\ One(Awaits(matching', s)) \in 0..1
    BY DEF One
  <2>3. openings' <= edits'
    BY <1>1 DEF Counted
  <2> QED
    BY <1>2, <2>1, <2>2, <2>3, MarketplaceAssumption
<1>4. MarketTypeOK'
  BY <1>3 DEF MarketInv, MarketTypeOK, peopleVars, listVars
<1> QED
  BY <1>1, <1>4 DEF MarketInv

\* What was owed moves into the queue, or is dropped.
LEMMA QueueingCounts == MarketInv /\ (QueueNotifyJobMatches \/ QueueingFails) => MarketInv'
<1> SUFFICES ASSUME MarketInv, QueueNotifyJobMatches \/ QueueingFails
             PROVE  MarketInv'
  OBVIOUS
<1>1. matching \in Matching /\ mailed \in [Seekers -> Nat] /\ losses \in Nat
  BY MarketplaceAssumption DEF MarketInv, MarketTypeOK
<1>2. ASSUME NEW s \in Seekers
      PROVE  /\ One(Awaits(matching, s)) \in 0..1 /\ One(Awaits(matching', s)) \in 0..1
             /\ mailed[s] \in Nat
  BY <1>1 DEF One
<1>3. CASE QueueNotifyJobMatches
  <2>1. One(opening) = 1 /\ One(opening') = 0
    BY <1>3 DEF QueueNotifyJobMatches, One
  <2>2. /\ UNCHANGED <<post, today, openings, edits, peopleVars, listVars, mailed, losses, owed>>
        /\ opening' \in BOOLEAN /\ owed' \in BOOLEAN /\ lost' \in BOOLEAN
        /\ losses' \in 0..MaxLosses
    BY <1>3 DEF QueueNotifyJobMatches, MarketInv, MarketTypeOK
  <2>3. matching' \in Matching
    BY <1>1, <1>3, JobTypes DEF QueueNotifyJobMatches
  <2>4. ASSUME NEW s \in Seekers
        PROVE  mailed'[s] + One(opening') + One(Awaits(matching', s)) - losses'
                 <= mailed[s] + One(opening) + One(Awaits(matching, s)) - losses
    <3>1. CASE matching.state = "none"
      <4>1. One(Awaits(matching, s)) = 0
        BY <3>1 DEF Awaits, One
      <4>2. mailed'[s] = mailed[s] /\ losses' = losses
        BY <2>2
      <4> QED
        BY <1>1, <1>2, <2>1, <4>1, <4>2
    <3>2. CASE matching.state # "none"
      <4>1. matching' = matching
        BY <1>3, <3>2 DEF QueueNotifyJobMatches
      <4>2. mailed'[s] = mailed[s] /\ losses' = losses
        BY <2>2
      <4> QED
        BY <1>1, <1>2, <2>1, <4>1, <4>2
    <3> QED
      BY <3>1, <3>2
  <2>5. mailed' \in [Seekers -> Nat]
    BY <1>1, <2>2
  <2> QED
    BY <2>2, <2>3, <2>4, <2>5, Moves
<1>4. CASE QueueingFails
  <2>1. One(opening) = 1 /\ One(opening') = 0
    BY <1>4 DEF QueueingFails, One
  <2>2. /\ UNCHANGED <<post, today, openings, edits, peopleVars, listVars, mailed, matching,
                       owed>>
        /\ opening' \in BOOLEAN /\ owed' \in BOOLEAN /\ lost' \in BOOLEAN
    BY <1>4 DEF QueueingFails, MarketInv, MarketTypeOK
  <2>3. losses' \in 0..MaxLosses /\ losses' = losses + 1
    BY <1>1, <1>4, MarketplaceAssumption DEF QueueingFails, MarketInv, MarketTypeOK
  <2>4. ASSUME NEW s \in Seekers
        PROVE  mailed'[s] + One(opening') + One(Awaits(matching', s)) - losses'
                 <= mailed[s] + One(opening) + One(Awaits(matching, s)) - losses
    <3>1. mailed'[s] = mailed[s] /\ matching' = matching
      BY <2>2
    <3> QED
      BY <1>1, <1>2, <2>1, <2>3, <3>1
  <2>5. mailed' \in [Seekers -> Nat] /\ matching' \in Matching
    BY <1>1, <2>2
  <2> QED
    BY <2>2, <2>3, <2>4, <2>5, Moves
<1> QED
  BY <1>3, <1>4

-----------------------------------------------------------------------------
\* The worker's steps up to the choice of the recipients, and its last one, mail
\* nobody and let nobody wait who did not.
LEMMA WorkerWaits ==
    ASSUME MarketInv, MatchTake \/ MatchLoad \/ MatchFind \/ MatchDone
    PROVE  MarketInv'
<1>1. /\ matching \in Matching /\ mailed \in [Seekers -> Nat] /\ losses \in 0..MaxLosses
      /\ approved \subseteq Seekers
  BY MarketplaceAssumption DEF MarketInv, MarketTypeOK
<1>2. /\ matching' \in Matching /\ owed' \in BOOLEAN
      /\ UNCHANGED <<mailed, lost, losses>> /\ MatchFrame
  <2>1. CASE MatchTake
    BY <1>1, <2>1, JobTypes DEF MatchTake, MarketInv, MarketTypeOK
  <2>2. CASE MatchLoad
    BY <1>1, <2>2, JobTypes DEF MatchLoad, Completed, MarketInv, MarketTypeOK
  <2>3. CASE MatchFind
    <3>1. PICK T \in SUBSET (approved \ applied) :
            matching' = IF T = {} THEN Completed
                        ELSE [matching EXCEPT !.pc = "mail", !.todo = T]
      BY <2>3 DEF MatchFind
    <3>2. T \in SUBSET Seekers
      BY <1>1
    <3>3. [matching EXCEPT !.pc = "mail", !.todo = T] \in Matching
      BY <1>1, <3>2, JobTypes
    <3>4. Completed \in Matching
      BY <1>1, JobTypes DEF Completed
    <3> QED
      BY <2>3, <3>1, <3>3, <3>4 DEF MatchFind
  <2>4. CASE MatchDone
    BY <1>1, <2>4, JobTypes DEF MatchDone, Completed, MarketInv, MarketTypeOK
  <2> QED
    BY <2>1, <2>2, <2>3, <2>4
<1>3. ASSUME NEW s \in Seekers, Awaits(matching', s) PROVE Awaits(matching, s)
  <2>1. CASE MatchTake
    BY <2>1 DEF MatchTake, Awaits
  <2>2. CASE MatchLoad
    BY <2>2 DEF MatchLoad, Awaits
  <2>3. CASE MatchFind
    BY <2>3 DEF MatchFind, Awaits
  <2>4. CASE MatchDone
    BY <1>3, <2>4, EndedAwaitsNobody DEF MatchDone, Completed
  <2> QED
    BY <2>1, <2>2, <2>3, <2>4
<1>4. ASSUME NEW s \in Seekers
      PROVE  mailed'[s] + One(opening') + One(Awaits(matching', s)) - losses'
               <= mailed[s] + One(opening) + One(Awaits(matching, s)) - losses
  <2>1. One(Awaits(matching', s)) <= One(Awaits(matching, s))
    BY <1>3 DEF One
  <2>2. One(Awaits(matching', s)) \in 0..1 /\ One(Awaits(matching, s)) \in 0..1
    BY DEF One
  <2>3. One(opening') = One(opening) /\ One(opening) \in 0..1
    BY <1>2 DEF MatchFrame, One
  <2>4. mailed[s] \in Nat /\ losses \in Nat /\ mailed'[s] = mailed[s] /\ losses' = losses
    BY <1>1, <1>2, MarketplaceAssumption
  <2> QED
    BY <2>1, <2>2, <2>3, <2>4
<1> QED
  BY <1>1, <1>2, <1>4, Moves DEF MatchFrame, MarketInv, MarketTypeOK

\* A mail is sent to one that still awaits it, who then no longer does.
LEMMA MailCounts == MarketInv /\ MatchMail => MarketInv'
<1> SUFFICES ASSUME MarketInv, MatchMail PROVE MarketInv'
  OBVIOUS
<1>1. PICK r \in matching.todo :
        /\ matching' = [matching EXCEPT !.todo = matching.todo \ {r}]
        /\ mailed' = [mailed EXCEPT ![r] = mailed[r] + 1] \/ mailed' = mailed
  BY DEF MatchMail
<1>2. /\ matching \in Matching /\ mailed \in [Seekers -> Nat] /\ losses \in 0..MaxLosses
      /\ matching.state = "active" /\ matching.pc = "mail"
      /\ UNCHANGED <<owed, lost, losses>> /\ MatchFrame
  BY MarketplaceAssumption DEF MatchMail, MarketInv, MarketTypeOK
<1>3. matching.todo \subseteq Seekers /\ matching.todo \ {r} \in SUBSET Seekers
  BY <1>2 DEF Matching
<1>4. matching' \in Matching
  BY <1>1, <1>2, <1>3, JobTypes
<1>5. mailed' \in [Seekers -> Nat]
  BY <1>1, <1>2, <1>3
<1>6. /\ matching'.state = "active" /\ matching'.pc = "mail"
      /\ matching'.todo = matching.todo \ {r}
  BY <1>1, <1>2 DEF Matching
<1>7. ASSUME NEW s \in Seekers
      PROVE  mailed'[s] + One(opening') + One(Awaits(matching', s)) - losses'
               <= mailed[s] + One(opening) + One(Awaits(matching, s)) - losses
  <2>1. One(opening') = One(opening) /\ One(opening) \in 0..1
    BY <1>2 DEF MatchFrame, One
  <2>2. losses \in Nat /\ losses' = losses /\ mailed[s] \in Nat
    BY <1>2, MarketplaceAssumption
  <2>3. CASE s = r
    <3>1. One(Awaits(matching, s)) = 1 /\ One(Awaits(matching', s)) = 0
      BY <1>1, <1>2, <1>6, <2>3 DEF Awaits, One
    <3>2. mailed'[s] \in {mailed[s], mailed[s] + 1}
      BY <1>1, <1>2, <2>3
    <3> QED
      BY <2>1, <2>2, <3>1, <3>2
  <2>4. CASE s # r
    <3>1. Awaits(matching, s) <=> Awaits(matching', s)
      BY <1>2, <1>6, <2>4 DEF Awaits
    <3>2. One(Awaits(matching, s)) = One(Awaits(matching', s))
      BY <3>1 DEF One
    <3>3. mailed'[s] = mailed[s]
      BY <1>1, <1>2, <2>4
    <3>4. One(Awaits(matching, s)) \in 0..1
      BY DEF One
    <3> QED
      BY <2>1, <2>2, <3>2, <3>3, <3>4
  <2> QED
    BY <2>3, <2>4
<1> QED
  BY <1>2, <1>4, <1>5, <1>7, Moves DEF MatchFrame, MarketInv, MarketTypeOK

\* A run that is repeated may mail everybody again, and is counted.
LEMMA RepeatCounts == MarketInv /\ (MatchFails \/ MatchStalls) => MarketInv'
<1> SUFFICES ASSUME MarketInv, MatchFails \/ MatchStalls PROVE MarketInv'
  OBVIOUS
<1>1. matching \in Matching /\ mailed \in [Seekers -> Nat] /\ losses \in Nat
  BY MarketplaceAssumption DEF MarketInv, MarketTypeOK
<1>2. PICK again \in BOOLEAN, job \in Matching : MatchAgain(again, job)
  <2>1. CASE MatchFails /\ matching.left > 1
    <3>1. [matching EXCEPT !.left = matching.left - 1] \in Matching
      BY <1>1, <2>1, JobTypes
    <3> QED
      BY <2>1, <3>1 DEF MatchFails
  <2>2. CASE MatchFails /\ ~(matching.left > 1)
    <3>1. MatchAgain(FALSE, matching)
      BY <2>2 DEF MatchFails, MatchAgain
    <3> QED
      BY <1>1, <3>1
  <2>3. CASE MatchStalls
    <3>1. [matching EXCEPT !.stalled = TRUE] \in Matching
      BY <1>1, JobTypes
    <3>2. (~matching.stalled) \in BOOLEAN
      BY ZenonT(10)
    <3> QED
      BY <2>3, <3>1, <3>2 DEF MatchStalls
  <2> QED
    BY <2>1, <2>2, <2>3
<1>3. matching' \in Matching
  BY <1>2, JobTypes DEF MatchAgain
<1>4. losses' \in 0..MaxLosses /\ losses' = losses + 1
  BY <1>1, <1>2, MarketplaceAssumption DEF MatchAgain, MarketInv, MarketTypeOK
<1>5. ASSUME NEW s \in Seekers
      PROVE  mailed'[s] + One(opening') + One(Awaits(matching', s)) - losses'
               <= mailed[s] + One(opening) + One(Awaits(matching, s)) - losses
  <2>1. One(Awaits(matching, s)) \in 0..1 /\ One(Awaits(matching', s)) \in 0..1
    BY DEF One
  <2>2. mailed' = mailed /\ One(opening') = One(opening) /\ One(opening) \in 0..1
    BY <1>2 DEF MatchAgain, MatchFrame, One
  <2>3. mailed[s] \in Nat
    BY <1>1
  <2> QED
    BY <1>1, <1>4, <2>1, <2>2, <2>3
<1>6. lost' \in BOOLEAN /\ owed' = owed /\ MatchFrame /\ mailed' = mailed
  BY <1>2 DEF MatchAgain, MarketInv, MarketTypeOK
<1> QED
  BY <1>1, <1>3, <1>4, <1>5, <1>6, Moves DEF MatchFrame, MarketInv, MarketTypeOK

-----------------------------------------------------------------------------
\* Every step keeps the invariant.
LEMMA StepKeeps == MarketInv /\ [MarketNext]_marketVars => MarketInv'
<1> SUFFICES ASSUME MarketInv, [MarketNext]_marketVars PROVE MarketInv'
  OBVIOUS
<1>1. CASE UNCHANGED marketVars
  BY <1>1 DEF marketVars, MarketInv, MarketTypeOK, Counted
<1>2. CASE JobRequests
  BY <1>2, QuietSteps, OpeningCounts, QueueingCounts
     DEF JobRequests, EmployerRequests, AdminRequests
<1>3. CASE SeekerRequests \/ DeadlinePasses \/ (\E s \in Seekers : Decided(s)) \/ Recommending
  BY <1>3, QuietSteps
<1>4. CASE Worker
  BY <1>4, WorkerWaits, MailCounts DEF Worker
<1>5. CASE MatchFails \/ MatchStalls
  BY <1>5, RepeatCounts
<1> QED
  BY <1>1, <1>2, <1>3, <1>4, <1>5 DEF MarketNext

\* The types, and the counts of what was and may still be mailed, hold for ever.
THEOREM Invariance == MarketSpec => []MarketInv
BY CountedInit, StepKeeps, PTL DEF MarketSpec

\* Every variable keeps its type, the mails within their bound.
THEOREM TypeCorrect == MarketSpec => []MarketTypeOK
<1>1. MarketInv => MarketTypeOK
  BY DEF MarketInv
<1> QED
  BY Invariance, <1>1, PTL

\* MailedOncePerOpening (Marketplace): the promise of the idempotent job id
\* (job-post-match-notify.producer.ts:26), for the whole life of a job.
THEOREM MailedOnce == MarketSpec => []MailedOncePerOpening
<1>1. MarketInv => MailedOncePerOpening
  <2> SUFFICES ASSUME MarketInv, NEW s \in Seekers
               PROVE  mailed[s] <= openings + losses
    BY DEF MailedOncePerOpening
  <2>1. mailed[s] + One(opening) + One(Awaits(matching, s)) <= openings + losses
    BY DEF MarketInv, Counted
  <2>2. One(opening) \in 0..1 /\ One(Awaits(matching, s)) \in 0..1
    BY DEF One
  <2>3. mailed[s] \in Nat /\ openings \in Nat /\ losses \in Nat
    BY MarketplaceAssumption DEF MarketInv, MarketTypeOK
  <2> QED
    BY <2>1, <2>2, <2>3
<1> QED
  BY Invariance, <1>1, PTL
=============================================================================
