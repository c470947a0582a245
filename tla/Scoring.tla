------------------------------ MODULE Scoring ------------------------------
(***************************************************************************)
(* How a job seeker's profile is scored against a job: the vetting score   *)
(* of JobVettingService, the core gate of the recommendation engine, and   *)
(* the years of experience both are computed from.                         *)
(*                                                                         *)
(* The functions are pure; the machine below walks through the profiles a  *)
(* job seeker can build up for some job, one improvement at a time.        *)
(* Scores are integers: points of 0..100, weighted sums in hundredths.     *)
(***************************************************************************)
EXTENDS Integers, FiniteSets, FiniteSetsExt, SequencesExt

CONSTANTS
    JobSkills,   \* skills a job may require
    OtherSkills, \* further skills a profile may list
    Dates,       \* end points of work experiences; date d lies in month d \div 2
    Alike,       \* names alike in percent (Jaro-Winkler), of each two skills
    MaxWork,     \* bound on the entries of a work history
    MaxHours     \* bound on the hours between a job and an application

ASSUME ScoringAssumption ==
    /\ JobSkills \cap OtherSkills = {}
    /\ Dates \subseteq Nat
    /\ Alike \in [JobSkills \X (JobSkills \cup OtherSkills) -> 0..100]
    /\ MaxWork \in Nat /\ MaxHours \in Nat

VARIABLES
    posting,  \* the job
    seeker,   \* the profile
    hours     \* hours between the job and the application

scoreVars == <<posting, seeker, hours>>

\* The job's text and the profile's: absent or different, one contains the other,
\* equal.
Unlike == 0
Related == 1
Equal == 2

\* place: the parts of the location the job gives.
Posting == [level : {"HIGH_SKILL", "LOW_SKILL"}, skills : SUBSET JobSkills,
            place : SUBSET {"city", "state"}]

Span == [start : Dates, end : Dates]

\* preferred: the parts of the job's location that the preferred location names.
\* title: its similarity to the job's in percent, 0 without one.
Seeker == [state : {Unlike, Equal}, city : {Unlike, Related, Equal},
           preferred : SUBSET {"city", "state"}, address : {Unlike, Related},
           cv : BOOLEAN, picture : BOOLEAN, title : 0..100, industry : BOOLEAN,
           skills : SUBSET (JobSkills \cup OtherSkills), work : Seq(Span)]

ScoreTypeOK == posting \in Posting /\ seeker \in Seeker /\ hours \in 0..MaxHours

NewSeeker == [state |-> Unlike, city |-> Unlike, preferred |-> {}, address |-> Unlike,
              cv |-> FALSE, picture |-> FALSE, title |-> 0, industry |-> FALSE,
              skills |-> {}, work |-> <<>>]

-----------------------------------------------------------------------------
\* calculateYearsOfExperience.

Begins(work) == SortSeq(work, LAMBDA v, w : v.start < w.start)

\* Mutant of Extended: the later entry's end is taken whatever it is.
ExtendedAlways(current, next) == [current EXCEPT !.end = next.end]

\* The entry goes on where the next begins within it.
Extended(current, next) ==
    IF next.end > current.end THEN [current EXCEPT !.end = next.end] ELSE current

\* The loop over the entries in order of their start.
Merged(work) ==
    LET step(merged, next) ==
          IF merged # <<>> /\ next.start <= Last(merged).end
          THEN Front(merged) \o <<Extended(Last(merged), next)>>
          ELSE Append(merged, next)
    IN FoldLeft(step, <<>>, Begins(work))

MonthOf(d) == d \div 2

TotalMonths(work) ==
    FoldLeft(LAMBDA n, w : n + Max({0, MonthOf(w.end) - MonthOf(w.start)}), 0, Merged(work))

\* Math.round(months / 12 * 10) / 10, in tenths of a year.
TenthsOfYears(work) == (10 * TotalMonths(work) + 6) \div 12
-----------------------------------------------------------------------------
\* The parts of the vetting score, each 0..100.

\* The years are never null when they are read back, so that their 10 points are
\* everyone's.
ProfileCompleteness(s) ==
    LET located == \/ s.state # Unlike \/ s.city # Unlike \/ s.address # Unlike
                   \/ s.preferred # {}
        points(b, n) == IF b THEN n ELSE 0
    IN 20 + 10 + points(located, 15) + points(s.cv, 20) + points(s.picture, 10)
         + points(s.skills # {}, 15) + points(s.title > 0, 10)

\* Mutant of Preferred: the fallback replaces what the state scored.
PreferredFirst(p, s, byState) ==
    IF {"city"} \subseteq s.preferred \cap p.place THEN 35 - byState
    ELSE IF {"state"} \subseteq s.preferred \cap p.place THEN 25 - byState ELSE 0

\* The preferred location counts where the state scored nothing.
Preferred(p, s, byState) ==
    IF byState # 0 THEN 0
    ELSE IF "city" \in s.preferred \cap p.place THEN 35
    ELSE IF "state" \in s.preferred \cap p.place THEN 25 ELSE 0

ProximityScore(p, s) ==
    LET byState == IF "state" \in p.place /\ s.state = Equal
                   THEN 50 + (IF "city" \in p.place /\ s.city = Related THEN 25 ELSE 0)
                   ELSE 0
        hint == IF s.address = Related THEN 15 ELSE 0
    IN IF p.place = {} THEN 50
       ELSE IF "city" \in p.place /\ s.city = Equal THEN 100
       ELSE Min({100, byState + Preferred(p, s, byState) + hint})

ExperienceScore(p, s) ==
    LET tenths == TenthsOfYears(s.work)
        steps == IF p.level = "HIGH_SKILL"
                 THEN {<<1, 20>>, <<10, 40>>, <<30, 60>>, <<50, 80>>, <<100, 100>>}
                 ELSE {<<1, 60>>, <<10, 80>>, <<30, 100>>}
    IN Max({0} \cup {step[2] : step \in {t \in steps : tenths >= t[1]}})

\* Math.round(matching / required * 100).
SkillMatchScore(p, s) ==
    LET n == Cardinality(p.skills)
    IN IF n = 0 THEN 50 ELSE (200 * Cardinality(p.skills \cap s.skills) + n) \div (2 * n)

IndustryMatchScore(s) == IF s.industry THEN 100 ELSE 0

ApplicationSpeedScore(h) == IF h <= 2 THEN 100 ELSE Max({0, 100 - 2 * (h - 2)})

\* calculateApplicantScore, in hundredths of a point.
ApplicantScore(p, s, h) ==
    IF p.level = "HIGH_SKILL"
    THEN 20 * ExperienceScore(p, s) + 25 * SkillMatchScore(p, s)
           + 20 * IndustryMatchScore(s) + 10 * ProfileCompleteness(s)
           + 15 * ProximityScore(p, s) + 10 * ApplicationSpeedScore(h)
    ELSE 20 * ApplicationSpeedScore(h) + 15 * ProfileCompleteness(s)
           + 25 * IndustryMatchScore(s) + 15 * ExperienceScore(p, s)
           + 25 * ProximityScore(p, s)

\* computeMatchScoreForPublishedJob, and the thresholds for a mail about the job.
MatchScore(p, s) == ApplicantScore(p, s, 0)
Mailable(p, s) == ProfileCompleteness(s) >= 20 /\ MatchScore(p, s) >= 3000

-----------------------------------------------------------------------------
\* The core gate of the recommendation engine (scoreJob).

\* calcSkillScore: matches in units of 1/10000, a skill counting three quarters
\* of its likeness to the closest listed one if that is at least 88 percent.
Matches(p, s) ==
    LET closest(k) == Max({Alike[k, l] : l \in s.skills})
        credit(k) == IF k \in s.skills THEN 10000
                     ELSE IF closest(k) >= 88 THEN 75 * closest(k) ELSE 0
    IN MapThenSumSet(credit, p.skills)

\* The skill score as a fraction <<n, d>>: matches per skill of either side.
SkillScore(p, s) ==
    IF p.skills = {} THEN <<1, 2>>
    ELSE IF s.skills = {} THEN <<0, 1>>
    ELSE LET n == Matches(p, s)
             d == 10000 * (Cardinality(s.skills) + Cardinality(p.skills)) - n
         IN <<Min({n, d}), d>>

\* 0.25 of the core weights, in hundredths.
MinRelevancy == 25 * 74

Relevant(p, s) ==
    LET skill == SkillScore(p, s)
        boost == s.industry /\ skill[1] > 0
    IN 2800 * skill[1]
         + skill[2] * ((IF s.industry THEN 1800 ELSE 0) + (IF boost THEN 1000 ELSE 0)
                         + 18 * s.title)
       >= MinRelevancy * skill[2]

-----------------------------------------------------------------------------
\* The profile improves: updateProfile brings a part of it closer to the job,
\* lists another skill or adds an entry to the work history; a file is uploaded.
Places ==
    \E f \in {"state", "city", "address"} :
      \E v \in {Related, Equal} :
        /\ v > seeker[f] /\ ~(f = "state" /\ v = Related) /\ ~(f = "address" /\ v = Equal)
        /\ seeker' = [seeker EXCEPT ![f] = v]

Prefers ==
    \E x \in {"city", "state"} \ seeker.preferred :
      seeker' = [seeker EXCEPT !.preferred = @ \cup {x}]

Learns ==
    \E k \in (JobSkills \cup OtherSkills) \ seeker.skills :
      seeker' = [seeker EXCEPT !.skills = @ \cup {k}]

\* Bound: MaxWork.
Works ==
    /\ Len(seeker.work) < MaxWork
    /\ \E w \in Span : seeker' = [seeker EXCEPT !.work = Append(@, w)]

Completes ==
    \E f \in {"cv", "picture", "industry"} :
      ~seeker[f] /\ seeker' = [seeker EXCEPT ![f] = TRUE]

Retitles ==
    \E t \in {50, 88, 100} :
      t > seeker.title /\ seeker' = [seeker EXCEPT !.title = t]

\* Bound: MaxHours.
ApplyLater == hours < MaxHours /\ hours' = hours + 1 /\ UNCHANGED <<posting, seeker>>

Improve ==
    /\ Places \/ Prefers \/ Learns \/ Works \/ Completes \/ Retitles
    /\ UNCHANGED <<posting, hours>>

ScoreInit == posting \in Posting /\ seeker = NewSeeker /\ hours = 0

ScoreSpec == ScoreInit /\ [][Improve \/ ApplyLater]_scoreVars

-----------------------------------------------------------------------------
\* experience-calculator.util.ts:9, "accounting for overlapping intervals": the
\* months counted are those that some entry covers, each once, whatever the order,
\* the overlaps and the nesting of the entries.
MonthsCountOnce ==
    TotalMonths(seeker.work) =
      Cardinality({m \in 1..MonthOf(Max(Dates)) :
                     \E i \in DOMAIN seeker.work :
                       MonthOf(seeker.work[i].start) < m /\ m <= MonthOf(seeker.work[i].end)})

\* An applicant who improves the profile never falls behind, for any job, and one
\* who applies later never gets ahead.
MoreNeverHurts ==
    [][LET before == ApplicantScore(posting, seeker, hours)
           after == ApplicantScore(posting, seeker', hours')
       IN IF hours' = hours THEN after >= before ELSE after <= before]_scoreVars
=============================================================================
