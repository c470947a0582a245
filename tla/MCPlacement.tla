---------------------------- MODULE MCPlacement ----------------------------
(***************************************************************************)
(* What surrounds a placement, for TLC: its own life (Employment), several *)
(* of them side by side (Placements), the fees (ActivationFees), the mails *)
(* and notifications (Mail) and the guard of every route (RateLimit).      *)
(***************************************************************************)
EXTENDS MCEmployment, Placements, ActivationFees, Mail, RateLimit

VARIABLE part    \* what is at work in a behaviour

\* Placements: candidates are replaced ("replace": rows in the order of creation,
\* on their way to ACTIVE, and one candidate applies to one job only) or one placement is rated ("rate").
\* ActivationFees: the fees for an application under changing rates ("fees"), or
\* the payments for an employee ("pay").
Parts == {"employment", "replace", "rate", "fees", "pay", "mail", "notices", "limit"}

First(S) == CHOOSE x \in S : TRUE

ReplacePart ==
    /\ Creates \/ Replacements \/ Applicants \/ \E e \in Placed : StatusSaved(e)
    /\ \A e \in Placed : /\ seat[e].who = NoOne /\ seat'[e].who # NoOne =>
                              e = First(Free) /\ seat'[e].status \in {"ONBOARDING", "ACTIVE"}
                         /\ seat'[e].status # seat[e].status /\ seat[e].who # NoOne =>
                              seat'[e].status \in {"ACTIVE", "TERMINATED"}
    /\ \A j \in Openings : j # NoCreation.job => standing'[j, First(Candidates)] = "none"

RatePart ==
    /\ Creates \/ EmployeeStatusChanges \/ Feedback
    /\ \A e \in Placed : seat'[e].who # NoOne => e = First(Placed)
    /\ creating' # NoCreation => creating'.who = First(Candidates)
                                 /\ creating'.job = NoCreation.job

FeesPart ==
    /\ FeesNext
    /\ calls'["employer"].for # "employee"

PayPart ==
    /\ FeesNext
    /\ calls'["employer"].for # "application"
    /\ UNCHANGED <<config, salary>>

MCInit ==
    /\ Init /\ PlaceInit /\ FeesInit /\ MailInit /\ LimitInit /\ part \in Parts
    /\ config.rate = First(Rates) /\ config.floor <= config.ceiling
    /\ part # "fees" => salary = First(Salaries) /\ config.floor = config.ceiling
                       /\ config.floor = First(Bounds)

MCNext ==
    /\ \/ part = "employment" /\ Next /\ UNCHANGED <<placeVars, feeVars, mailVars, limitVars>>
       \/ part = "replace" /\ ReplacePart /\ UNCHANGED <<vars, feeVars, mailVars, limitVars>>
       \/ part = "rate" /\ RatePart /\ UNCHANGED <<vars, feeVars, mailVars, limitVars>>
       \/ part = "fees" /\ FeesPart /\ UNCHANGED <<vars, placeVars, mailVars, limitVars>>
       \/ part = "pay" /\ PayPart /\ UNCHANGED <<vars, placeVars, mailVars, limitVars>>
       \/ part = "mail" /\ MailNext /\ UNCHANGED <<vars, placeVars, feeVars, limitVars, notice>>
       \/ part = "notices" /\ NoticeNext /\ UNCHANGED <<vars, placeVars, feeVars, limitVars>>
       \/ part = "limit" /\ LimitNext /\ UNCHANGED <<vars, placeVars, feeVars, mailVars>>
    /\ UNCHANGED part

\* With the fairness of Employment, Mail and RateLimit, where time passes and a
\* caller keeps asking in their own part only.
MCSpec ==
    /\ MCInit /\ [][MCNext]_<<vars, placeVars, feeVars, mailVars, limitVars, part>>
    /\ ServerFairness /\ WF_vars(part = "employment" /\ Elapse)
    /\ MailFairness /\ GuardFairness
    /\ \A g \in Guarded : WF_limitVars(part = "limit" /\ Incr(g))
=============================================================================
