--------------------------- MODULE PlacementLife ---------------------------
(***************************************************************************)
(* The abstract promise of a placement's life: what the employer, the two  *)
(* parties and the calendar do to it happens at once, one thing at a time, *)
(* and the end of its probation is announced once for each activation.  It *)
(* says nothing of requests, queue jobs, retries or copies of rows.        *)
(* Employment implements it while no two of them work on one placement.    *)
(***************************************************************************)
EXTENDS Naturals

CONSTANTS
    Employees,   \* placements
    Party,       \* those who declare a placement complete
    Ends,        \* dates a probation may end on
    MaxTime,     \* bound on the clock
    None         \* no date

VARIABLES
    stage,      \* "open", "suspended", "completed", "terminated" or "ended"
    declared,   \* the parties that have declared the placement complete
    trial,      \* the probation: "running", "confirmed" or "over"
    due,        \* the date the probation ends on
    told,       \* whether its confirmation has been announced
    now         \* the calendar

vars == <<stage, declared, trial, due, told, now>>

Init ==
    /\ stage = [e \in Employees |-> "open"]
    /\ declared = [e \in Employees |-> {}]
    /\ trial = [e \in Employees |-> "running"]
    /\ due = [e \in Employees |-> None]
    /\ told = [e \in Employees |-> FALSE]
    /\ now = 0

\* The employer suspends a placement, completes it or puts it on boarding again.
Set(e, s) ==
    /\ stage' = [stage EXCEPT ![e] = s]
    /\ UNCHANGED <<declared, trial, due, told, now>>

Close(e, s) ==
    /\ stage' = [stage EXCEPT ![e] = s]
    /\ trial' = [trial EXCEPT ![e] = "over"]
    /\ UNCHANGED <<due, told, now>>

\* The employer ends a placement at once.
Terminate(e) == Close(e, "terminated") /\ UNCHANGED declared

\* An activation starts a probation, whatever the placement has become.
Activate(e, end) ==
    /\ stage' = [stage EXCEPT ![e] = "open"]
    /\ trial' = [trial EXCEPT ![e] = "running"]
    /\ due' = [due EXCEPT ![e] = end]
    /\ told' = [told EXCEPT ![e] = FALSE]
    /\ UNCHANGED <<declared, now>>

\* A party declares an open placement complete; the last one to do so ends it.
Declare(e, party) ==
    /\ stage[e] = "open"
    /\ party \notin declared[e]
    /\ declared' = [declared EXCEPT ![e] = @ \union {party}]
    /\ IF declared'[e] = Party THEN Close(e, "ended")
       ELSE UNCHANGED <<stage, trial, due, told, now>>

\* A probation is confirmed on its date or later ...
Confirm(e) ==
    /\ trial[e] = "running"
    /\ due[e] # None /\ due[e] <= now
    /\ trial' = [trial EXCEPT ![e] = "confirmed"]
    /\ UNCHANGED <<stage, declared, due, told, now>>

\* ... and announced once.
Announce(e) ==
    /\ trial[e] = "confirmed" /\ ~told[e]
    /\ told' = [told EXCEPT ![e] = TRUE]
    /\ UNCHANGED <<stage, declared, trial, due, now>>

Elapse ==
    /\ now < MaxTime
    /\ now' = now + 1
    /\ UNCHANGED <<stage, declared, trial, due, told>>

Next ==
    \/ \E e \in Employees :
         \/ \E s \in {"open", "suspended", "completed"} : Set(e, s)
         \/ \E end \in Ends : Activate(e, end)
         \/ \E party \in Party : Declare(e, party)
         \/ Terminate(e) \/ Confirm(e) \/ Announce(e)
    \/ Elapse

Spec == Init /\ [][Next]_vars
=============================================================================
