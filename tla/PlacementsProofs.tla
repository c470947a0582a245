-------------------------- MODULE PlacementsProofs --------------------------
(***************************************************************************)
(* What surrounds an active placement: who may replace whom and who has    *)
(* rated whom (Placements), and what was paid for it (ActivationFees).     *)
(*                                                                         *)
(* A placement is rated once: for any number of job seekers, jobs,         *)
(* placements and terminations.  The check and the insert of a rating are apart, and a termination       *)
(* inserts one without looking.  The argument counts the rows and the      *)
(* request that has found none and has yet to insert: together at most one *)
(* per side, and for the employer one more with each termination.          *)
(*                                                                         *)
(* The rate of a payment is locked when its row is inserted: for any rows, *)
(* salaries, rates and bounds, and any number of changes of them.  The     *)
(* amount travels from the calculation through the insert to Paystack in   *)
(* the request, and from the row again when the payment is resumed.  The   *)
(* invariant says that the request carries the row's amount while it is    *)
(* between the two, and that a row that is not in use was never quoted.    *)
(***************************************************************************)
EXTENDS Placements, ActivationFees, TLAPS

One(b) == IF b THEN 1 ELSE 0

JobseekerCount(e) == ratings[e]["jobseeker"] + One(rating["jobseeker"] = e) <= 1
EmployerCount(e) == ratings[e]["employer"] + One(rating["employer"] = e) <= 1 + ends[e]

RatingTypeOK ==
    /\ ratings \in [Placed -> [Side -> Nat]]
    /\ rating \in [Side -> Placed \cup {NoOne}]
    /\ ends \in [Placed -> 0..MaxEnds]

RatingInv == RatingTypeOK /\ \A e \in Placed : JobseekerCount(e) /\ EmployerCount(e)

\* The rest of the types: the rows, the applications and the requests.  A
\* replacement that goes on has a row and a candidate.
RowsTypeOK ==
    /\ seat \in [Placed -> Seat]
    /\ standing \in [Openings \X Candidates -> Standing]
    /\ scored \subseteq Openings \X Candidates
    /\ creating \in [who : Candidates \cup {NoOne}, job : Openings]
    /\ swap \in [pc : {"idle", "commit", "schedule"},
                 old : Placed \cup {NoOne}, new : Candidates \cup {NoOne}]
    /\ swap.pc # "idle" => swap.old \in Placed /\ swap.new \in Candidates

ratingVars == <<ratings, rating, ends>>

-----------------------------------------------------------------------------
\* At the start nobody has rated anything.
LEMMA RatingInit == PlaceInit => RatingInv
<1> SUFFICES ASSUME PlaceInit PROVE RatingInv
  OBVIOUS
<1>1. RatingTypeOK
  BY PlacementsAssumption DEF PlaceInit, RatingTypeOK, Side
<1>2. ASSUME NEW e \in Placed PROVE JobseekerCount(e) /\ EmployerCount(e)
  <2>1. rating["jobseeker"] # e /\ rating["employer"] # e
    BY PlacementsAssumption DEF PlaceInit, Side
  <2>2. ratings[e]["jobseeker"] = 0 /\ ratings[e]["employer"] = 0 /\ ends[e] = 0
    BY DEF PlaceInit, Side
  <2> QED
    BY <2>1, <2>2 DEF JobseekerCount, EmployerCount, One
<1> QED
  BY <1>1, <1>2 DEF RatingInv

\* Steps that touch no rating and terminate nothing.
LEMMA RatingFrame == RatingInv /\ UNCHANGED ratingVars => RatingInv'
BY DEF RatingInv, RatingTypeOK, JobseekerCount, EmployerCount, ratingVars

\* One row more for e and p, and no other change of the rows.
LEMMA OneMore ==
    ASSUME RatingTypeOK, NEW e \in Placed, NEW p \in Side, Rated(e, p)
    PROVE  /\ ratings' \in [Placed -> [Side -> Nat]]
           /\ ratings'[e][p] = ratings[e][p] + 1
           /\ \A f \in Placed, q \in Side :
                f # e \/ q # p => ratings'[f][q] = ratings[f][q]
BY DEF Rated, RatingTypeOK

\* A termination rates once more, and is counted; the employer has no other
\* request in progress.
LEMMA TerminateCounts ==
    ASSUME RatingInv, NEW e \in Placed, Terminate(e)
    PROVE  RatingInv'
<1>1. RatingTypeOK /\ "employer" \in Side /\ "jobseeker" \in Side
  BY DEF RatingInv, Side
<1>2. /\ Rated(e, "employer") /\ rating' = rating /\ rating["employer"] = NoOne
      /\ ends[e] < MaxEnds /\ ends' = [ends EXCEPT ![e] = ends[e] + 1]
  BY DEF Terminate, EmployerIdle
<1>3. /\ ratings' \in [Placed -> [Side -> Nat]]
      /\ ratings'[e]["employer"] = ratings[e]["employer"] + 1
      /\ \A f \in Placed : /\ f # e => ratings'[f]["employer"] = ratings[f]["employer"]
                           /\ ratings'[f]["jobseeker"] = ratings[f]["jobseeker"]
  BY <1>1, <1>2, OneMore
<1>4. RatingTypeOK'
  <2>1. ends' \in [Placed -> 0..MaxEnds]
    <3>1. ends[e] + 1 \in 0..MaxEnds
      BY <1>1, <1>2, PlacementsAssumption DEF RatingTypeOK
    <3> QED
      BY <1>1, <1>2, <3>1 DEF RatingTypeOK
  <2> QED
    BY <1>1, <1>2, <1>3, <2>1 DEF RatingTypeOK
<1>5. ASSUME NEW f \in Placed PROVE JobseekerCount(f)' /\ EmployerCount(f)'
  <2>1. JobseekerCount(f) /\ EmployerCount(f)
    BY DEF RatingInv
  <2>2. JobseekerCount(f)'
    BY <1>2, <1>3, <2>1 DEF JobseekerCount
  <2>3. EmployerCount(f)'
    <3>1. rating["employer"] # f /\ rating'["employer"] # f
      BY <1>2, PlacementsAssumption
    <3>2. ratings[f]["employer"] \in Nat /\ ends[f] \in Nat
      BY <1>1 DEF RatingTypeOK
    <3>3. ends'[f] = IF f = e THEN ends[f] + 1 ELSE ends[f]
      BY <1>1, <1>2 DEF RatingTypeOK
    <3>4. ratings'[f]["employer"] = IF f = e THEN ratings[f]["employer"] + 1
                                    ELSE ratings[f]["employer"]
      BY <1>3
    <3> QED
      BY <2>1, <3>1, <3>2, <3>3, <3>4 DEF EmployerCount, One
  <2> QED
    BY <2>2, <2>3
<1> QED
  BY <1>4, <1>5 DEF RatingInv

\* A request that found no row may insert one.
LEMMA SubmitCounts ==
    ASSUME RatingInv, NEW e \in Placed, NEW p \in Side, SubmitFeedback(e, p)
    PROVE  RatingInv'
<1>1. RatingTypeOK
  BY DEF RatingInv
<1>2. /\ rating[p] = NoOne /\ rating' = [rating EXCEPT ![p] = e] /\ ratings[e][p] = 0
      /\ ratings' = ratings /\ ends' = ends
  BY DEF SubmitFeedback, NotRated
<1>3. RatingTypeOK'
  BY <1>1, <1>2 DEF RatingTypeOK
<1>4. ASSUME NEW f \in Placed PROVE JobseekerCount(f)' /\ EmployerCount(f)'
  <2>1. JobseekerCount(f) /\ EmployerCount(f)
    BY DEF RatingInv
  <2>2. /\ ratings[f]["jobseeker"] \in Nat /\ ratings[f]["employer"] \in Nat
        /\ ends[f] \in Nat
    BY <1>1 DEF RatingTypeOK, Side
  <2>3. \A q \in Side : rating'[q] = IF q = p THEN e ELSE rating[q]
    BY <1>1, <1>2 DEF RatingTypeOK
  <2>4. JobseekerCount(f)'
    <3>1. CASE p = "jobseeker" /\ f = e
      BY <1>2, <2>3, <3>1 DEF JobseekerCount, One, Side
    <3>2. CASE p = "jobseeker" /\ f # e
      <4>1. rating'["jobseeker"] # f
        BY <2>3, <3>2 DEF Side
      <4> QED
        BY <1>2, <2>1, <2>2, <4>1 DEF JobseekerCount, One
    <3>3. CASE p # "jobseeker"
      BY <1>2, <2>1, <2>3, <3>3 DEF JobseekerCount, Side
    <3> QED
      BY <3>1, <3>2, <3>3
  <2>5. EmployerCount(f)'
    <3>1. CASE p = "employer" /\ f = e
      BY <1>2, <2>2, <2>3, <3>1 DEF EmployerCount, One, Side
    <3>2. CASE p = "employer" /\ f # e
      <4>1. rating'["employer"] # f
        BY <2>3, <3>2 DEF Side
      <4> QED
        BY <1>2, <2>1, <2>2, <4>1 DEF EmployerCount, One
    <3>3. CASE p # "employer"
      BY <1>2, <2>1, <2>3, <3>3 DEF EmployerCount, Side
    <3> QED
      BY <3>1, <3>2, <3>3
  <2> QED
    BY <2>4, <2>5
<1> QED
  BY <1>3, <1>4 DEF RatingInv

\* The insert turns the one that may come into one that is there.
LEMMA InsertCounts ==
    ASSUME RatingInv, NEW p \in Side, InsertFeedback(p)
    PROVE  RatingInv'
<1> DEFINE e == rating[p]
<1>1. RatingTypeOK
  BY DEF RatingInv
<1>2. /\ rating[p] # NoOne /\ Rated(rating[p], p) /\ rating' = [rating EXCEPT ![p] = NoOne]
      /\ ends' = ends
  BY DEF InsertFeedback
<1>3. e \in Placed
  BY <1>1, <1>2 DEF RatingTypeOK
<1>4. /\ ratings' \in [Placed -> [Side -> Nat]]
      /\ ratings'[e][p] = ratings[e][p] + 1
      /\ \A f \in Placed, q \in Side :
           f # e \/ q # p => ratings'[f][q] = ratings[f][q]
  BY <1>1, <1>2, <1>3, OneMore
<1>5. RatingTypeOK'
  BY <1>1, <1>2, <1>4 DEF RatingTypeOK
<1>6. \A q \in Side : rating'[q] = IF q = p THEN NoOne ELSE rating[q]
  BY <1>1, <1>2 DEF RatingTypeOK
<1>7. ASSUME NEW f \in Placed PROVE JobseekerCount(f)' /\ EmployerCount(f)'
  <2>1. JobseekerCount(f) /\ EmployerCount(f)
    BY DEF RatingInv
  <2>2. /\ ratings[f]["jobseeker"] \in Nat /\ ratings[f]["employer"] \in Nat
        /\ ends[f] \in Nat /\ f # NoOne
    BY <1>1, PlacementsAssumption DEF RatingTypeOK, Side
  <2>3. JobseekerCount(f)'
    <3>1. CASE p = "jobseeker" /\ f = e
      <4>1. ratings'[f]["jobseeker"] = ratings[f]["jobseeker"] + 1
        BY <1>4, <3>1
      <4>2. rating'["jobseeker"] # f /\ rating["jobseeker"] = f
        BY <1>6, <2>2, <3>1 DEF Side
      <4> QED
        BY <2>1, <2>2, <4>1, <4>2 DEF JobseekerCount, One
    <3>2. CASE p = "jobseeker" /\ f # e
      <4>1. rating'["jobseeker"] # f /\ rating["jobseeker"] # f
        BY <1>6, <2>2, <3>2 DEF Side
      <4>2. ratings'[f]["jobseeker"] = ratings[f]["jobseeker"]
        BY <1>4, <3>2 DEF Side
      <4> QED
        BY <2>1, <4>1, <4>2 DEF JobseekerCount
    <3>3. CASE p # "jobseeker"
      BY <1>4, <1>6, <2>1, <3>3 DEF JobseekerCount, Side
    <3> QED
      BY <3>1, <3>2, <3>3
  <2>4. EmployerCount(f)'
    <3>1. CASE p = "employer" /\ f = e
      <4>1. ratings'[f]["employer"] = ratings[f]["employer"] + 1
        BY <1>4, <3>1
      <4>2. rating'["employer"] # f /\ rating["employer"] = f
        BY <1>6, <2>2, <3>1 DEF Side
      <4> QED
        BY <1>2, <2>1, <2>2, <4>1, <4>2 DEF EmployerCount, One
    <3>2. CASE p = "employer" /\ f # e
      <4>1. rating'["employer"] # f /\ rating["employer"] # f
        BY <1>6, <2>2, <3>2 DEF Side
      <4>2. ratings'[f]["employer"] = ratings[f]["employer"]
        BY <1>4, <3>2 DEF Side
      <4> QED
        BY <1>2, <2>1, <4>1, <4>2 DEF EmployerCount
    <3>3. CASE p # "employer"
      BY <1>2, <1>4, <1>6, <2>1, <3>3 DEF EmployerCount, Side
    <3> QED
      BY <3>1, <3>2, <3>3
  <2> QED
    BY <2>3, <2>4
<1> QED
  BY <1>5, <1>7 DEF RatingInv

-----------------------------------------------------------------------------
\* Every step keeps the counts.
LEMMA RatingKept == RatingInv /\ [PlaceNext]_placeVars => RatingInv'
<1> SUFFICES ASSUME RatingInv, [PlaceNext]_placeVars PROVE RatingInv'
  OBVIOUS
<1>1. CASE UNCHANGED placeVars
  BY <1>1, RatingFrame DEF placeVars, ratingVars
<1>2. CASE Creates
  <2>1. UNCHANGED ratingVars
    BY <1>2 DEF Creates, CreateEmployee, InsertEmployee, ratingVars
  <2> QED
    BY <2>1, RatingFrame
<1>3. CASE EmployeeStatusChanges
  <2>1. PICK e \in Placed : \/ StatusSaved(e) \/ Terminate(e)
                            \/ \E p \in Side : DeclareComplete(e, p)
    BY <1>3 DEF EmployeeStatusChanges
  <2>2. CASE Terminate(e)
    BY <2>2, TerminateCounts
  <2>3. CASE StatusSaved(e) \/ \E p \in Side : DeclareComplete(e, p)
    <3>1. UNCHANGED ratingVars
      BY <2>3 DEF StatusSaved, DeclareComplete, ratingVars
    <3> QED
      BY <3>1, RatingFrame
  <2> QED
    BY <2>1, <2>2, <2>3
<1>4. CASE Feedback
  BY <1>4, SubmitCounts, InsertCounts DEF Feedback
<1>5. CASE Replacements
  <2>1. UNCHANGED ratingVars
    BY <1>5 DEF Replacements, ReplaceCandidate, ReplaceCommit, ReplaceDone, ratingVars
  <2> QED
    BY <2>1, RatingFrame
<1>6. CASE Applicants
  <2>1. UNCHANGED ratingVars
    BY <1>6 DEF Applicants, Applies, Vetted, ratingVars
  <2> QED
    BY <2>1, RatingFrame
<1> QED
  BY <1>1, <1>2, <1>3, <1>4, <1>5, <1>6 DEF PlaceNext

-----------------------------------------------------------------------------
\* A row keeps its type under the changes the actions make to it.
LEMMA SeatTypes ==
    ASSUME RowsTypeOK, NEW e \in Placed
    PROVE  /\ seat[e] \in Seat
           /\ \A row \in Seat : [seat EXCEPT ![e] = row] \in [Placed -> Seat]
           /\ \A s \in SeatStatus : [seat EXCEPT ![e].status = s] \in [Placed -> Seat]
<1>1. seat[e] \in Seat /\ seat \in [Placed -> Seat]
  BY DEF RowsTypeOK
<1>2. ASSUME NEW s \in SeatStatus PROVE [seat EXCEPT ![e].status = s] \in [Placed -> Seat]
  <2>1. [seat[e] EXCEPT !.status = s] \in Seat
    BY <1>1 DEF Seat
  <2> QED
    BY <1>1, <2>1
<1> QED
  BY <1>1, <1>2

LEMMA RowsInit == PlaceInit => RowsTypeOK
<1> SUFFICES ASSUME PlaceInit PROVE RowsTypeOK
  OBVIOUS
<1>1. NoCreation.job \in Openings
  <2>1. \E j \in Openings : TRUE
    BY PlacementsAssumption
  <2> QED
    BY <2>1 DEF NoCreation
<1>2. [who |-> NoOne, job |-> NoCreation.job, status |-> "ENDED", declared |-> {}] \in Seat
  BY <1>1 DEF Seat, SeatStatus
<1>3. seat \in [Placed -> Seat]
  BY <1>2 DEF PlaceInit
<1>4. standing \in [Openings \X Candidates -> Standing] /\ scored \subseteq Openings \X Candidates
  BY DEF PlaceInit, Standing
<1>5. creating \in [who : Candidates \cup {NoOne}, job : Openings]
  BY <1>1 DEF PlaceInit, NoCreation
<1>6. /\ swap \in [pc : {"idle", "commit", "schedule"},
                    old : Placed \cup {NoOne}, new : Candidates \cup {NoOne}]
      /\ swap.pc = "idle"
  BY DEF PlaceInit, NoSwap
<1> QED
  BY <1>3, <1>4, <1>5, <1>6 DEF RowsTypeOK

LEMMA RowsKept == RowsTypeOK /\ [PlaceNext]_placeVars => RowsTypeOK'
<1> SUFFICES ASSUME RowsTypeOK, [PlaceNext]_placeVars PROVE RowsTypeOK'
  OBVIOUS
<1>1. CASE UNCHANGED placeVars
  BY <1>1 DEF placeVars, RowsTypeOK
<1>2. CASE Creates
  <2>0. NoCreation \in [who : Candidates \cup {NoOne}, job : Openings]
    BY PlacementsAssumption DEF NoCreation
  <2>1. ASSUME NEW j \in Openings, NEW c \in Candidates, CreateEmployee(j, c)
        PROVE  RowsTypeOK'
    BY <2>1 DEF CreateEmployee, RowsTypeOK
  <2>2. CASE InsertEmployee
    <3>1. PICK e \in Free, s \in CreatedAs :
            seat' = [seat EXCEPT ![e] = [who |-> creating.who, job |-> creating.job,
                                         status |-> s, declared |-> {}]]
      BY <2>2 DEF InsertEmployee
    <3>2. e \in Placed /\ s \in SeatStatus
      BY PlacementsAssumption DEF Free
    <3>3. [who |-> creating.who, job |-> creating.job, status |-> s, declared |-> {}] \in Seat
      BY <3>2 DEF RowsTypeOK, Seat
    <3>4. seat' \in [Placed -> Seat]
      BY <3>1, <3>2, <3>3, SeatTypes
    <3> QED
      BY <2>0, <2>2, <3>4 DEF InsertEmployee, RowsTypeOK
  <2> QED
    BY <1>2, <2>1, <2>2 DEF Creates
<1>3. CASE EmployeeStatusChanges
  <2>1. PICK e \in Placed : \/ StatusSaved(e) \/ Terminate(e)
                            \/ \E p \in Side : DeclareComplete(e, p)
    BY <1>3 DEF EmployeeStatusChanges
  <2>2. seat' \in [Placed -> Seat]
    <3>1. CASE StatusSaved(e)
      BY <3>1, SeatTypes DEF StatusSaved
    <3>2. CASE Terminate(e)
      BY <3>2, SeatTypes DEF Terminate, SeatStatus
    <3>3. ASSUME NEW p \in Side, DeclareComplete(e, p) PROVE seat' \in [Placed -> Seat]
      <4> DEFINE row == [seat[e] EXCEPT !.declared = seat[e].declared \cup {p},
                                        !.status = IF seat[e].declared \cup {p} = Side
                                                   THEN "ENDED" ELSE seat[e].status]
      <4>1. seat' = [seat EXCEPT ![e] = row]
        BY <3>3, SeatTypes DEF DeclareComplete, RowsTypeOK
      <4>2. row \in Seat
        BY SeatTypes DEF Seat, SeatStatus
      <4> QED
        BY <4>1, <4>2, SeatTypes
    <3> QED
      BY <2>1, <3>1, <3>2, <3>3
  <2> QED
    BY <2>1, <2>2 DEF StatusSaved, Terminate, DeclareComplete, RowsTypeOK
<1>4. CASE Feedback
  BY <1>4 DEF Feedback, InsertFeedback, SubmitFeedback, RowsTypeOK
<1>5. CASE Replacements
  <2>0. /\ NoSwap \in [pc : {"idle", "commit", "schedule"},
                       old : Placed \cup {NoOne}, new : Candidates \cup {NoOne}]
        /\ NoSwap.pc = "idle"
    BY DEF NoSwap
  <2>1. ASSUME NEW j \in Openings, NEW e \in Placed, NEW c \in Candidates,
               ReplaceCandidate(j, e, c)
        PROVE  RowsTypeOK'
    BY <2>1 DEF ReplaceCandidate, RowsTypeOK
  <2>2. CASE ReplaceCommit
    <3> DEFINE j == seat[swap.old].job
               old == seat[swap.old].who
    <3>1. CASE standing[<<j, swap.new>>] = "none"
      BY <2>0, <2>2, <3>1 DEF ReplaceCommit, RowsTypeOK
    <3>2. CASE standing[<<j, swap.new>>] # "none"
      <4>1. PICK e \in Free :
              /\ seat' = [seat EXCEPT
                            ![e] = [who |-> swap.new, job |-> j, status |-> "ACTIVE",
                                    declared |-> {}],
                            ![swap.old].status = "TERMINATED"]
              /\ standing' = [x \in Openings \X Candidates |->
                                CASE x = <<j, swap.new>> -> "HIRED"
                                  [] x = <<j, old>> /\ standing[x] # "none" -> "WITHDRAWN"
                                  [] OTHER -> standing[x]]
              /\ swap' = [swap EXCEPT !.pc = "schedule", !.old = e]
              /\ UNCHANGED <<scored, creating>>
        BY <2>2, <3>2 DEF ReplaceCommit
      <4>2. /\ e \in Placed /\ swap.old \in Placed /\ swap.new \in Candidates
            /\ j \in Openings
        BY <2>2, SeatTypes DEF ReplaceCommit, RowsTypeOK, Free, Seat
      <4>3. [seat EXCEPT ![swap.old].status = "TERMINATED"] \in [Placed -> Seat]
        BY <4>2, SeatTypes DEF SeatStatus
      <4> DEFINE row == [who |-> swap.new, job |-> j, status |-> "ACTIVE", declared |-> {}]
      <4>4. row \in Seat /\ [row EXCEPT !.status = "TERMINATED"] \in Seat
        BY <4>2 DEF Seat, SeatStatus
      <4>5. seat' \in [Placed -> Seat]
        <5>1. [seat EXCEPT ![e] = row] \in [Placed -> Seat]
          BY <4>2, <4>4, SeatTypes
        <5>2. ASSUME NEW f \in [Placed -> Seat]
              PROVE  [f EXCEPT ![swap.old].status = "TERMINATED"] \in [Placed -> Seat]
          <6>1. [f[swap.old] EXCEPT !.status = "TERMINATED"] \in Seat
            BY <4>2 DEF Seat, SeatStatus
          <6> QED
            BY <4>2, <6>1
        <5>3. seat' = [[seat EXCEPT ![e] = row] EXCEPT ![swap.old].status = "TERMINATED"]
          BY <4>1
        <5> QED
          BY <5>1, <5>2, <5>3
      <4>6. standing' \in [Openings \X Candidates -> Standing]
        BY <4>1 DEF RowsTypeOK, Standing
      <4>7. swap' \in [pc : {"idle", "commit", "schedule"},
                       old : Placed \cup {NoOne}, new : Candidates \cup {NoOne}]
            /\ swap'.old \in Placed /\ swap'.new \in Candidates
        BY <4>1, <4>2 DEF RowsTypeOK
      <4> QED
        BY <4>1, <4>5, <4>6, <4>7 DEF RowsTypeOK
    <3> QED
      BY <3>1, <3>2
  <2>3. CASE ReplaceDone
    BY <2>0, <2>3 DEF ReplaceDone, RowsTypeOK
  <2> QED
    BY <1>5, <2>1, <2>2, <2>3 DEF Replacements
<1>6. CASE Applicants
  BY <1>6 DEF Applicants, Applies, Vetted, RowsTypeOK, Standing
<1> QED
  BY <1>1, <1>2, <1>3, <1>4, <1>5, <1>6 DEF PlaceNext

-----------------------------------------------------------------------------
\* The counts hold for ever.
THEOREM RatingInvariance == PlaceSpec => []RatingInv
BY RatingInit, RatingKept, PTL DEF PlaceSpec

\* Every row, application and request keeps its type, the ratings within their
\* bound.
THEOREM TypeCorrect == PlaceSpec => []PlaceTypeOK
<1>1. PlaceSpec => []RowsTypeOK
  BY RowsInit, RowsKept, PTL DEF PlaceSpec
<1>2. RowsTypeOK /\ RatingInv => PlaceTypeOK
  <2> SUFFICES ASSUME RowsTypeOK, RatingInv PROVE PlaceTypeOK
    OBVIOUS
  <2>1. RatingTypeOK
    BY DEF RatingInv
  <2>2. ASSUME NEW e \in Placed, NEW p \in Side PROVE ratings[e][p] \in 0..(MaxEnds + 1)
    <3>1. JobseekerCount(e) /\ EmployerCount(e)
      BY DEF RatingInv
    <3>2. ratings[e][p] \in Nat /\ ends[e] \in 0..MaxEnds /\ MaxEnds \in Nat
      BY <2>1, PlacementsAssumption DEF RatingTypeOK
    <3> QED
      BY <3>1, <3>2 DEF JobseekerCount, EmployerCount, One, Side
  <2>3. ratings \in [Placed -> [Side -> 0..(MaxEnds + 1)]]
    BY <2>1, <2>2 DEF RatingTypeOK
  <2> QED
    BY <2>1, <2>3 DEF PlaceTypeOK, RowsTypeOK, RatingTypeOK
<1> QED
  BY <1>1, <1>2, RatingInvariance, PTL

\* RatedOnce (Placements): the "one-time feedback" of
\* employment-feedback.service.ts:61, while each party sends one request at a time.
THEOREM RatedOnceHolds == PlaceSpec => []RatedOnce
<1>1. RatingInv => RatedOnce
  <2> SUFFICES ASSUME RatingInv, NEW e \in Placed
               PROVE  /\ ratings[e]["jobseeker"] <= 1
                      /\ ratings[e]["employer"] <= 1 + ends[e]
    BY DEF RatedOnce
  <2>1. JobseekerCount(e) /\ EmployerCount(e)
    BY DEF RatingInv
  <2>2. /\ ratings[e]["jobseeker"] \in Nat /\ ratings[e]["employer"] \in Nat
        /\ ends[e] \in Nat
    BY DEF RatingInv, RatingTypeOK, Side
  <2> QED
    BY <2>1, <2>2 DEF JobseekerCount, EmployerCount, One
<1> QED
  BY RatingInvariance, <1>1, PTL

\* ListedCanReplace (Placements), the exclusion of
\* admin-replacement.service.ts:176: the list leaves out whoever works anywhere,
\* so it leaves out the holder of each of several active rows of the job, and not
\* only of the one it happened to find.
LEMMA ListedCanReplaceAlways == ListedCanReplace
<1> SUFFICES ASSUME NEW j \in Openings, NEW e \in ActiveOn(j), NEW f \in ActiveOn(j),
                    NEW c \in ReplacementCandidates(j, {e})
             PROVE  Replaceable(j, f, c) /\ standing[<<j, c>>] # "none"
  BY DEF ListedCanReplace
<1>1. c \in Candidates /\ standing[<<j, c>>] # "none" /\ c \notin Employed
  BY DEF ReplacementCandidates
<1>2. seat[f].who \in Employed
  BY DEF ActiveOn, Employed
<1> QED
  BY <1>1, <1>2 DEF Replaceable

\* ... in every reachable state, as in every other.
THEOREM ListedCanReplaceHolds == PlaceSpec => []ListedCanReplace
BY ListedCanReplaceAlways, PTL

-----------------------------------------------------------------------------
\* ActivationFees.

\* What a payment request carries from one call to the next: its row has been
\* used, and the amount it is about to ask for is the row's.
Carries(call) ==
    /\ call.pc \in {"owe", "initialize", "again", "store"} =>
         call.bill \in Bills /\ bill[call.bill].for # "nothing"
    /\ call.pc \in {"owe", "initialize"} => call.amount = bill[call.bill].amount
    /\ call.pc = "insert" => call.for # "nothing"

FeesInv ==
    /\ FeesTypeOK
    /\ Carries(calls["employer"])
    /\ \A b \in Bills : /\ quoted[b] \subseteq {bill[b].amount}
                        /\ bill[b].for = "nothing" => quoted[b] = {}

\* What is quoted of a row, and its amount, once it has one.
Locked == \A b \in Bills : /\ quoted'[b] \subseteq {bill'[b].amount}
                           /\ bill[b].for # "nothing" => bill'[b].amount = bill[b].amount

-----------------------------------------------------------------------------
\* Fees are natural numbers.
LEMMA QuotientType == \A x \in Nat, d \in Nat \ {0} : RoundedQuotient(x, d) \in Nat
BY DEF RoundedQuotient

LEMMA FeeType ==
    ASSUME FeesTypeOK
    PROVE  CommissionFee(config, salary) \in Nat /\ PaymentAmount(config.rate, salary) \in Nat
<1>1. /\ config.rate \in Nat /\ config.floor \in Nat /\ config.ceiling \in Nat
      /\ salary \in Nat
  BY FeesAssumption DEF FeesTypeOK
<1>2. salary * config.rate \in Nat
  BY <1>1
<1>3. 12 * salary * config.rate \in Nat
  BY <1>1
<1>4. PaymentAmount(config.rate, salary) \in Nat
  BY <1>2, QuotientType DEF PaymentAmount
<1> DEFINE calculated == 12 * salary * config.rate
           capped == IF calculated < 1000 * config.ceiling THEN calculated
                     ELSE 1000 * config.ceiling
           applied == IF capped > 1000 * config.floor THEN capped ELSE 1000 * config.floor
<1>5. applied \in Nat
  BY <1>1, <1>3
<1>6. CommissionFee(config, salary) = RoundedQuotient(applied * 1075, 10000)
  BY DEF CommissionFee
<1> HIDE DEF applied
<1>7. applied * 1075 \in Nat
  BY <1>5
<1> QED
  BY <1>4, <1>6, <1>7, QuotientType

LEMMA FeesInitially == FeesInit => FeesInv
<1> SUFFICES ASSUME FeesInit PROVE FeesInv
  OBVIOUS
<1>1. NoCall \in Call
  BY DEF NoCall, Call, For
<1>2. /\ calls \in [Caller -> Call] /\ calls["employer"] = NoCall
  BY <1>1 DEF FeesInit, Caller
<1>3. bill \in [Bills -> Bill] /\ quoted \in [Bills -> SUBSET Nat]
  BY DEF FeesInit, Bill, For
<1>4. employee \in [payment : {"NOT_REQUIRED", "PENDING", "PAID", "FAILED"},
                    unlocked : BOOLEAN]
  BY DEF FeesInit
<1>5. FeesTypeOK
  BY <1>2, <1>3, <1>4 DEF FeesInit, FeesTypeOK
<1>6. Carries(calls["employer"])
  BY <1>2 DEF Carries, NoCall
<1> QED
  BY <1>5, <1>6 DEF FeesInv, FeesInit

\* A step that touches no amount and quotes nothing: the employer's request ends,
\* goes on with the row it has, or asks for something else.
LEMMA Untouched ==
    ASSUME FeesInv, FeesTypeOK', quoted' = quoted,
           \A b \in Bills : bill'[b].amount = bill[b].amount /\ bill'[b].for = bill[b].for,
           Carries(calls'["employer"])
    PROVE  FeesInv' /\ Locked
<1>1. Carries(calls["employer"])'
  BY DEF Carries
<1> QED
  BY <1>1 DEF FeesInv, Locked

\* A status is written: amounts and purposes stay.
LEMMA StatusWritten ==
    ASSUME bill \in [Bills -> Bill], NEW x, NEW s \in {"PENDING", "SUCCESS", "FAILED"},
           bill' = [bill EXCEPT ![x].status = s]
    PROVE  /\ bill' \in [Bills -> Bill]
           /\ \A b \in Bills : bill'[b].amount = bill[b].amount /\ bill'[b].for = bill[b].for
BY DEF Bill

\* Requests keep their type as they move on.
LEMMA CallTypes ==
    ASSUME FeesTypeOK
    PROVE  /\ NoCall \in Call
           /\ \A c \in Caller : calls[c] \in Call /\ [calls EXCEPT ![c] = NoCall] \in [Caller -> Call]
           /\ \A c \in Caller, pc \in {"initialize", "store", "credit", "refuse"} :
                [calls EXCEPT ![c].pc = pc] \in [Caller -> Call]
           /\ \A c \in Caller, pc \in {"owe", "initialize", "paid", "unpaid"}, b \in Bills :
                [calls EXCEPT ![c].bill = b, ![c].pc = pc] \in [Caller -> Call]
<1>1. NoCall \in Call
  BY DEF NoCall, Call, For
<1>2. calls \in [Caller -> Call]
  BY DEF FeesTypeOK
<1>3. ASSUME NEW c \in Caller, NEW pc \in {"initialize", "store", "credit", "refuse"}
      PROVE  [calls EXCEPT ![c].pc = pc] \in [Caller -> Call]
  <2>1. [calls[c] EXCEPT !.pc = pc] \in Call
    BY <1>2 DEF Call
  <2> QED
    BY <1>2, <2>1
<1>4. ASSUME NEW c \in Caller, NEW pc \in {"owe", "initialize", "paid", "unpaid"},
             NEW b \in Bills
      PROVE  [calls EXCEPT ![c].bill = b, ![c].pc = pc] \in [Caller -> Call]
  <2>1. [calls[c] EXCEPT !.bill = b, !.pc = pc] \in Call
    BY <1>2 DEF Call
  <2>2. [calls EXCEPT ![c] = [calls[c] EXCEPT !.bill = b, !.pc = pc]] \in [Caller -> Call]
    BY <1>2, <2>1
  <2> QED
    BY <1>2, <2>2
<1> QED
  BY <1>1, <1>2, <1>3, <1>4

\* A request that has ended carries nothing.
LEMMA EndedCarries == Carries(NoCall)
BY DEF Carries, NoCall

-----------------------------------------------------------------------------
\* Settings, the salary, the charge and the webhook touch no payment.
LEMMA AroundKeeps ==
    ASSUME FeesInv, UpdateConfig \/ EditSalary \/ Charge \/ ProcessWebhook
    PROVE  FeesInv' /\ Locked
<1>1. FeesTypeOK
  BY DEF FeesInv
<1>2. CASE UpdateConfig
  <2>1. config' \in [rate : Rates, floor : Bounds, ceiling : Bounds]
    BY <1>1, <1>2 DEF UpdateConfig, FeesTypeOK
  <2>2. FeesTypeOK'
    BY <1>1, <1>2, <2>1 DEF UpdateConfig, FeesTypeOK
  <2> QED
    BY <1>2, <2>2, Untouched DEF UpdateConfig, FeesInv
<1>3. CASE EditSalary
  <2>1. FeesTypeOK'
    BY <1>1, <1>3 DEF EditSalary, FeesTypeOK
  <2> QED
    BY <1>3, <2>1, Untouched DEF EditSalary, FeesInv
<1>4. CASE Charge
  <2>1. FeesTypeOK'
    BY <1>1, <1>4 DEF Charge, FeesTypeOK
  <2> QED
    BY <1>4, <2>1, Untouched DEF Charge, FeesInv
<1>5. CASE ProcessWebhook
  <2>1. PICK b \in hooks : /\ hooks' = hooks \ {b}
                           /\ calls' = [calls EXCEPT !["paystack"].pc = "paid",
                                                     !["paystack"].bill = b]
    BY <1>5 DEF ProcessWebhook
  <2>2. b \in Bills /\ "paystack" \in Caller
    BY <1>1 DEF FeesTypeOK, Caller
  <2>3. calls' = [calls EXCEPT !["paystack"].bill = b, !["paystack"].pc = "paid"]
    BY <1>1, <2>1, <2>2 DEF FeesTypeOK, Call
  <2>4. calls' \in [Caller -> Call]
    BY <1>1, <2>2, <2>3, CallTypes
  <2>5. FeesTypeOK'
    BY <1>1, <1>5, <2>1, <2>4 DEF ProcessWebhook, FeesTypeOK
  <2>6. calls'["employer"] = calls["employer"]
    BY <1>1, <2>1 DEF FeesTypeOK, Caller
  <2> QED
    BY <1>5, <2>5, <2>6, Untouched DEF ProcessWebhook, FeesInv
<1> QED
  BY <1>2, <1>3, <1>4, <1>5

\* The employer's request starts, with a row it resumes or an amount it calculates.
LEMMA InitiatesKeeps ==
    ASSUME FeesInv, Initiates
    PROVE  FeesInv' /\ Locked
<1>1. FeesTypeOK /\ calls \in [Caller -> Call] /\ "employer" \in Caller
  BY DEF FeesInv, FeesTypeOK, Caller
<1>2. ASSUME NEW call \in Call, calls' = [calls EXCEPT !["employer"] = call], Carries(call),
             UNCHANGED <<config, salary, bill, employee, quoted, open, charged, hooks>>
      PROVE  FeesInv' /\ Locked
  <2>1. calls' \in [Caller -> Call] /\ calls'["employer"] = call
    BY <1>1, <1>2
  <2>2. FeesTypeOK'
    BY <1>1, <1>2, <2>1 DEF FeesTypeOK
  <2> QED
    BY <1>2, <2>1, <2>2, Untouched
<1>3. CASE ReusePayment
  <2>1. PICK b \in PendingFor("application") :
          calls' = IF bill[b].code THEN calls
                   ELSE [calls EXCEPT !["employer"] =
                           [pc |-> "again", bill |-> b, for |-> "application", amount |-> 0]]
    BY <1>3 DEF ReusePayment
  <2>2. b \in Bills /\ bill[b].for = "application"
    BY DEF PendingFor
  <2>3. CASE bill[b].code
    <3>1. calls' = [calls EXCEPT !["employer"] = calls["employer"]]
      BY <1>1, <2>1, <2>3
    <3> QED
      BY <1>1, <1>2, <1>3, <3>1 DEF ReusePayment, FeesInv
  <2>4. CASE ~bill[b].code
    <3> DEFINE call == [pc |-> "again", bill |-> b, for |-> "application", amount |-> 0]
    <3>1. call \in Call
      BY <2>2 DEF Call, For
    <3>2. Carries(call)
      BY <2>2 DEF Carries
    <3> QED
      BY <1>2, <1>3, <2>1, <2>4, <3>1, <3>2 DEF ReusePayment
  <2> QED
    BY <2>3, <2>4
<1>4. CASE CalculateCommission
  <2> DEFINE call == [pc |-> "insert", bill |-> Nil, for |-> "application",
                      amount |-> CommissionFee(config, salary)]
  <2>1. call \in Call
    BY <1>1, FeeType DEF Call, For
  <2>2. Carries(call)
    BY DEF Carries
  <2>3. /\ calls' = [calls EXCEPT !["employer"] = call]
        /\ UNCHANGED <<config, salary, bill, employee, quoted, open, charged, hooks>>
    BY <1>4 DEF CalculateCommission
  <2> HIDE DEF call
  <2> QED
    BY <1>2, <2>1, <2>2, <2>3
<1>5. CASE InitiatePayment
  <2> DEFINE call == [pc |-> "insert", bill |-> Nil, for |-> "employee",
                      amount |-> PaymentAmount(config.rate, salary)]
  <2>1. call \in Call
    BY <1>1, FeeType DEF Call, For
  <2>2. Carries(call)
    BY DEF Carries
  <2>3. /\ calls' = [calls EXCEPT !["employer"] = call]
        /\ UNCHANGED <<config, salary, bill, employee, quoted, open, charged, hooks>>
    BY <1>5 DEF InitiatePayment
  <2> HIDE DEF call
  <2> QED
    BY <1>2, <2>1, <2>2, <2>3
<1> QED
  BY <1>3, <1>4, <1>5 DEF Initiates

\* The insert takes an unused row, which was never quoted, and gives it the
\* amount the request carries.
LEMMA InsertKeeps ==
    ASSUME FeesInv, InsertPayment
    PROVE  FeesInv' /\ Locked
<1>1. FeesTypeOK /\ calls["employer"] \in Call /\ calls \in [Caller -> Call]
      /\ "employer" \in Caller
  BY DEF FeesInv, FeesTypeOK, Caller
<1> DEFINE call == calls["employer"]
           next == IF call.for = "employee" THEN "owe" ELSE "initialize"
<1>2. CASE /\ Unused = {} /\ Answer("employer") /\ UNCHANGED bill
  <2>1. calls' \in [Caller -> Call] /\ calls'["employer"] = NoCall
    BY <1>1, <1>2, CallTypes DEF Answer
  <2>2. FeesTypeOK'
    BY <1>1, <1>2, <2>1 DEF InsertPayment, FeesTypeOK
  <2> QED
    BY <1>2, <2>1, <2>2, EndedCarries, Untouched DEF InsertPayment
<1>3. ASSUME NEW b \in Unused,
             bill' = [bill EXCEPT ![b] = [for |-> call.for, status |-> "PENDING",
                                          amount |-> call.amount, code |-> FALSE]],
             calls' = [calls EXCEPT !["employer"].bill = b, !["employer"].pc = next]
      PROVE  FeesInv' /\ Locked
  <2>1. b \in Bills /\ bill[b].for = "nothing" /\ quoted[b] = {}
    BY DEF Unused, FeesInv
  <2>2. call.for \in For /\ call.amount \in Nat /\ call.for # "nothing"
    BY <1>1 DEF Call, InsertPayment, Calling, FeesInv, Carries
  <2>3. [for |-> call.for, status |-> "PENDING", amount |-> call.amount, code |-> FALSE] \in Bill
    BY <2>2 DEF Bill
  <2>4. /\ bill' \in [Bills -> Bill]
        /\ bill'[b].for = call.for /\ bill'[b].amount = call.amount
        /\ \A d \in Bills : d # b => bill'[d] = bill[d]
    BY <1>1, <1>3, <2>1, <2>3 DEF FeesTypeOK
  <2>5. calls' \in [Caller -> Call]
    BY <1>1, <1>3, <2>1, CallTypes
  <2>6. /\ calls'["employer"].bill = b /\ calls'["employer"].pc = next
        /\ calls'["employer"].amount = call.amount
    BY <1>1, <1>3 DEF Call
  <2>7. UNCHANGED <<config, salary, employee, quoted, open, charged, hooks>>
    BY DEF InsertPayment
  <2>8. FeesTypeOK'
    BY <1>1, <2>4, <2>5, <2>7 DEF FeesTypeOK
  <2>9. Carries(calls["employer"])'
    BY <2>1, <2>2, <2>4, <2>6 DEF Carries
  <2>10. Locked /\ \A d \in Bills : /\ quoted'[d] \subseteq {bill'[d].amount}
                                    /\ bill'[d].for = "nothing" => quoted'[d] = {}
    BY <2>1, <2>2, <2>4, <2>7 DEF FeesInv, Locked
  <2> QED
    BY <2>8, <2>9, <2>10 DEF FeesInv
<1> QED
  BY <1>2, <1>3 DEF InsertPayment

\* Marking the employees row, and storing the access code, keep the amount.
LEMMA OweKeeps ==
    ASSUME FeesInv, OwePayment \/ StoreAccessCode
    PROVE  FeesInv' /\ Locked
<1>1. FeesTypeOK /\ calls["employer"] \in Call /\ calls \in [Caller -> Call]
      /\ "employer" \in Caller
  BY DEF FeesInv, FeesTypeOK, Caller
<1>2. CASE OwePayment
  <2>1. calls' \in [Caller -> Call]
    BY <1>1, <1>2, CallTypes DEF OwePayment, Move
  <2>2. employee' \in [payment : {"NOT_REQUIRED", "PENDING", "PAID", "FAILED"},
                       unlocked : BOOLEAN]
    BY <1>1, <1>2 DEF OwePayment, FeesTypeOK
  <2>3. FeesTypeOK'
    BY <1>1, <1>2, <2>1, <2>2 DEF OwePayment, FeesTypeOK
  <2>4. calls'["employer"] = [calls["employer"] EXCEPT !.pc = "initialize"]
    BY <1>1, <1>2 DEF OwePayment, Move
  <2>5. Carries(calls'["employer"])
    BY <1>1, <1>2, <2>4 DEF OwePayment, Calling, FeesInv, Carries, Call
  <2> QED
    BY <1>2, <2>3, <2>5, Untouched DEF OwePayment
<1>3. CASE StoreAccessCode
  <2>1. calls' \in [Caller -> Call] /\ calls'["employer"] = NoCall
    BY <1>1, <1>3, CallTypes DEF StoreAccessCode, Answer
  <2>2. /\ bill' \in [Bills -> Bill]
        /\ \A b \in Bills : bill'[b].amount = bill[b].amount /\ bill'[b].for = bill[b].for
    <3>1. bill \in [Bills -> Bill]
      BY <1>1 DEF FeesTypeOK
    <3>2. CASE bill' = bill
      BY <3>1, <3>2
    <3>3. CASE bill' = [bill EXCEPT ![calls["employer"].bill].code = TRUE]
      BY <3>1, <3>3 DEF Bill
    <3> QED
      BY <1>3, <3>2, <3>3 DEF StoreAccessCode
  <2>3. FeesTypeOK'
    BY <1>1, <1>3, <2>1, <2>2 DEF StoreAccessCode, FeesTypeOK
  <2> QED
    BY <1>3, <2>1, <2>2, <2>3, EndedCarries, Untouched DEF StoreAccessCode
<1> QED
  BY <1>2, <1>3

\* Paystack is asked for the amount of the row.
LEMMA InitializeKeeps ==
    ASSUME FeesInv, InitializeTransaction
    PROVE  FeesInv' /\ Locked
<1>1. FeesTypeOK /\ calls["employer"] \in Call /\ calls \in [Caller -> Call]
      /\ "employer" \in Caller
  BY DEF FeesInv, FeesTypeOK, Caller
<1> DEFINE call == calls["employer"]
           b == call.bill
           kobo == IF call.pc = "again" THEN AmountAgain(b) ELSE call.amount
<1>2. b \in Bills /\ bill[b].for # "nothing" /\ kobo = bill[b].amount
  BY DEF InitializeTransaction, Calling, FeesInv, Carries, AmountAgain
<1>3. UNCHANGED <<config, salary, bill, employee, charged, hooks>>
  BY DEF InitializeTransaction
<1>4. \/ Answer("employer") /\ UNCHANGED <<quoted, open>>
      \/ /\ quoted' = [quoted EXCEPT ![b] = quoted[b] \cup {kobo}]
         /\ open' \in {open \cup {b}, open}
         /\ Answer("employer") \/ Move("employer", "store")
  BY DEF InitializeTransaction
<1>5. calls' \in [Caller -> Call] /\ calls'["employer"] \in {NoCall, [call EXCEPT !.pc = "store"]}
  <2>1. CASE Answer("employer")
    BY <1>1, <2>1, CallTypes DEF Answer
  <2>2. CASE Move("employer", "store")
    BY <1>1, <2>2, CallTypes DEF Move
  <2> QED
    BY <1>4, <2>1, <2>2
<1>6. Carries(calls'["employer"])
  BY <1>1, <1>2, <1>5, EndedCarries DEF Carries, Call
<1>7. CASE UNCHANGED <<quoted, open>>
  <2>1. FeesTypeOK'
    BY <1>1, <1>3, <1>5, <1>7 DEF FeesTypeOK
  <2> QED
    BY <1>3, <1>6, <1>7, <2>1, Untouched
<1>8. CASE /\ quoted' = [quoted EXCEPT ![b] = quoted[b] \cup {kobo}]
           /\ open' \in {open \cup {b}, open}
  <2>1. kobo \in Nat
    BY <1>1, <1>2 DEF FeesTypeOK, Bill
  <2>2. /\ quoted' \in [Bills -> SUBSET Nat]
        /\ quoted'[b] = quoted[b] \cup {kobo}
        /\ \A d \in Bills : d # b => quoted'[d] = quoted[d]
    BY <1>1, <1>2, <1>8, <2>1 DEF FeesTypeOK
  <2>3. charged' \subseteq open' /\ open' \subseteq Bills
    BY <1>1, <1>2, <1>3, <1>8 DEF FeesTypeOK
  <2>4. FeesTypeOK'
    BY <1>1, <1>3, <1>5, <2>2, <2>3 DEF FeesTypeOK
  <2>5. Carries(calls["employer"])'
    BY <1>3, <1>6 DEF Carries
  <2>6. Locked /\ \A d \in Bills : /\ quoted'[d] \subseteq {bill'[d].amount}
                                   /\ bill'[d].for = "nothing" => quoted'[d] = {}
    BY <1>2, <1>3, <2>2 DEF FeesInv, Locked
  <2> QED
    BY <2>4, <2>5, <2>6 DEF FeesInv
<1> QED
  BY <1>4, <1>7, <1>8

\* The outcome of a payment writes statuses only.
LEMMA OutcomeKeeps ==
    ASSUME FeesInv,
           \/ ApplicationSettled \/ VerifyPayment
           \/ \E c \in Caller :
                MarkSuccess(c) \/ CreditEmployee(c) \/ MarkFailed(c) \/ RefuseEmployee(c)
    PROVE  FeesInv' /\ Locked
<1>1. FeesTypeOK /\ calls \in [Caller -> Call] /\ bill \in [Bills -> Bill]
      /\ "employer" \in Caller /\ Carries(calls["employer"])
  BY DEF FeesInv, FeesTypeOK, Caller
<1>2. CASE ApplicationSettled
  <2>1. PICK x \in Bills, s \in {"PENDING", "SUCCESS", "FAILED"} :
          bill' = [bill EXCEPT ![x].status = s]
    BY <1>2 DEF ApplicationSettled, PendingFor
  <2>2. /\ bill' \in [Bills -> Bill]
        /\ \A b \in Bills : bill'[b].amount = bill[b].amount /\ bill'[b].for = bill[b].for
    BY <1>1, <2>1, StatusWritten
  <2>3. FeesTypeOK'
    BY <1>1, <1>2, <2>2 DEF ApplicationSettled, FeesTypeOK
  <2> QED
    BY <1>1, <1>2, <2>2, <2>3, Untouched DEF ApplicationSettled
<1>3. CASE VerifyPayment
  <2>1. PICK b \in open, pc \in {"paid", "unpaid"} :
          calls' = [calls EXCEPT !["employer"].bill = b, !["employer"].pc = pc]
    BY <1>3 DEF VerifyPayment
  <2>2. b \in Bills
    BY <1>1 DEF FeesTypeOK
  <2>3. calls' \in [Caller -> Call]
    BY <1>1, <2>1, <2>2, CallTypes
  <2>4. calls'["employer"].pc \in {"paid", "unpaid"}
    BY <1>1, <2>1 DEF Call
  <2>5. Carries(calls'["employer"])
    BY <2>4 DEF Carries
  <2>6. FeesTypeOK'
    BY <1>1, <1>3, <2>3 DEF VerifyPayment, FeesTypeOK
  <2> QED
    BY <1>3, <2>5, <2>6, Untouched DEF VerifyPayment
<1>4. ASSUME NEW c \in Caller,
             MarkSuccess(c) \/ CreditEmployee(c) \/ MarkFailed(c) \/ RefuseEmployee(c)
      PROVE  FeesInv' /\ Locked
  <2>1. \/ calls' = [calls EXCEPT ![c] = NoCall]
        \/ \E pc \in {"credit", "refuse"} : calls' = [calls EXCEPT ![c].pc = pc]
    <3>1. CASE MarkSuccess(c)
      BY <3>1 DEF MarkSuccess, Answer, Move
    <3>2. CASE CreditEmployee(c)
      BY <3>2 DEF CreditEmployee, Answer
    <3>3. CASE MarkFailed(c)
      BY <3>3 DEF MarkFailed, Move
    <3>4. CASE RefuseEmployee(c)
      BY <3>4 DEF RefuseEmployee, Answer
    <3> QED
      BY <1>4, <3>1, <3>2, <3>3, <3>4
  <2>2. calls' \in [Caller -> Call]
    <3>1. CASE calls' = [calls EXCEPT ![c] = NoCall]
      BY <1>1, <3>1, CallTypes
    <3>2. ASSUME NEW pc \in {"credit", "refuse"}, calls' = [calls EXCEPT ![c].pc = pc]
          PROVE  calls' \in [Caller -> Call]
      <4>1. pc \in {"initialize", "store", "credit", "refuse"}
        OBVIOUS
      <4>2. [calls EXCEPT ![c].pc = pc] \in [Caller -> Call]
        BY <1>1, <4>1, CallTypes
      <4> QED
        BY <3>2, <4>2
    <3> QED
      BY <2>1, <3>1, <3>2
  <2>3. \/ calls'["employer"] = calls["employer"] \/ calls'["employer"] = NoCall
        \/ calls'["employer"].pc \in {"credit", "refuse"}
    BY <1>1, <2>1 DEF Call
  <2>4. Carries(calls'["employer"])
    BY <1>1, <2>3, EndedCarries DEF Carries
  <2>5. /\ bill' \in [Bills -> Bill]
        /\ \A b \in Bills : bill'[b].amount = bill[b].amount /\ bill'[b].for = bill[b].for
    <3>1. CASE MarkSuccess(c)
      <4>1. bill' = bill \/ bill' = [bill EXCEPT ![calls[c].bill].status = "SUCCESS"]
        BY <3>1 DEF MarkSuccess
      <4>2. CASE bill' = bill
        BY <1>1, <4>2
      <4>3. CASE bill' = [bill EXCEPT ![calls[c].bill].status = "SUCCESS"]
        BY <1>1, <4>3, StatusWritten
      <4> QED
        BY <4>1, <4>2, <4>3
    <3>2. CASE MarkFailed(c)
      <4>1. bill' = [bill EXCEPT ![calls[c].bill].status = "FAILED"]
        BY <3>2 DEF MarkFailed
      <4> QED
        BY <1>1, <4>1, StatusWritten
    <3>3. CASE CreditEmployee(c) \/ RefuseEmployee(c)
      BY <1>1, <3>3 DEF CreditEmployee, RefuseEmployee
    <3> QED
      BY <1>4, <3>1, <3>2, <3>3
  <2>6. employee' \in [payment : {"NOT_REQUIRED", "PENDING", "PAID", "FAILED"},
                       unlocked : BOOLEAN]
    <3>1. CASE MarkSuccess(c) \/ MarkFailed(c)
      BY <1>1, <3>1 DEF MarkSuccess, MarkFailed, FeesTypeOK
    <3>2. CASE CreditEmployee(c)
      BY <3>2 DEF CreditEmployee
    <3>3. CASE RefuseEmployee(c)
      BY <1>1, <3>3 DEF RefuseEmployee, FeesTypeOK
    <3> QED
      BY <1>4, <3>1, <3>2, <3>3
  <2>7. UNCHANGED <<config, salary, quoted, open, charged, hooks>>
    BY <1>4 DEF MarkSuccess, CreditEmployee, MarkFailed, RefuseEmployee
  <2>8. FeesTypeOK'
    BY <1>1, <2>2, <2>5, <2>6, <2>7 DEF FeesTypeOK
  <2> QED
    BY <2>4, <2>5, <2>7, <2>8, Untouched
<1> QED
  BY <1>2, <1>3, <1>4

-----------------------------------------------------------------------------
\* Every step keeps the invariant and the lock.
LEMMA StepLocks == FeesInv /\ [FeesNext]_feeVars => FeesInv' /\ (Locked \/ UNCHANGED feeVars)
<1> SUFFICES ASSUME FeesInv, [FeesNext]_feeVars
             PROVE  FeesInv' /\ (Locked \/ UNCHANGED feeVars)
  OBVIOUS
<1>1. CASE UNCHANGED feeVars
  <2>1. FeesTypeOK'
    BY <1>1 DEF feeVars, FeesInv, FeesTypeOK
  <2>2. Carries(calls["employer"])'
    BY <1>1 DEF feeVars, FeesInv, Carries
  <2> QED
    BY <1>1, <2>1, <2>2 DEF feeVars, FeesInv
<1>2. CASE FeesNext
  BY <1>2, AroundKeeps, InitiatesKeeps, InsertKeeps, OweKeeps, InitializeKeeps, OutcomeKeeps
     DEF FeesNext
<1> QED
  BY <1>1, <1>2

\* The types hold, and requests and rows agree about the amount, for ever.
THEOREM FeesInvariance == FeesSpec => []FeesInv
<1>1. FeesInv /\ [FeesNext]_feeVars => FeesInv'
  BY StepLocks
<1> QED
  BY FeesInitially, <1>1, PTL DEF FeesSpec

\* RateLock (ActivationFees): the "Rate Lock" of docs/ux/02-payment-gating.md:84.
THEOREM RateIsLocked == FeesSpec => RateLock
<1>1. FeesInv /\ [FeesNext]_feeVars => [Locked]_feeVars
  BY StepLocks
<1>2. [Locked]_feeVars =>
        [\A b \in Bills : quoted'[b] \subseteq {bill'[b].amount}
           /\ (bill[b].for # "nothing" => bill'[b].amount = bill[b].amount)]_feeVars
  BY DEF Locked
<1> QED
  BY <1>1, <1>2, FeesInvariance, PTL DEF FeesSpec, RateLock
=============================================================================
