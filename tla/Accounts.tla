------------------------------ MODULE Accounts ------------------------------
(***************************************************************************)
(* The accounts of the platform: the three authentication services of      *)
(* JobseekerAuth, EmployerAuth and AdminAuthentication at work on the same *)
(* tables and the same Redis, together with what AdminService does to      *)
(* accounts: it creates, suspends, reinstates and deletes them.            *)
(*                                                                         *)
(* The administrator who acts is the seeded super administrator, who has   *)
(* no address in Emails: nobody suspends or deletes himself.               *)
(***************************************************************************)
EXTENDS JobseekerAuth, EmployerAuth, AdminAuthentication

-----------------------------------------------------------------------------
\* createAdmin: is the address taken, the account, the profile, the mail with
\* the generated password.
CreateAdmin(h, e) ==
    /\ ~auth[ad][e].live
    /\ Begin(h, "createAdmin", "insert", ad, e)
    /\ UNCHANGED <<tables, tokens, mails, history>>
CreateAdminInsert(h) == InsertAccount(h, ad, {"createAdmin"}, FALSE, "mail")

\* suspendJobseeker, unsuspendJobseeker, suspendAdmin and unsuspendAdmin load
\* the account, set the columns and save it.  unsuspendEmployer is no action:
\* nothing ever sets the column of employer_auth that it asks for.
SetSuspended(h, r, e, to) ==
    /\ auth[r][e].live /\ auth[r][e].suspended # to
    /\ BeginSave(h, IF to THEN "suspend" ELSE "unsuspend", r, e,
                 [auth[r][e] EXCEPT !.suspended = to])
    /\ UNCHANGED <<tables, tokens, mails, history>>

SuspendJobseeker(h, e) == SetSuspended(h, js, e, TRUE)
UnsuspendJobseeker(h, e) == SetSuspended(h, js, e, FALSE)
SuspendAdmin(h, e) == SetSuspended(h, ad, e, TRUE)
UnsuspendAdmin(h, e) == SetSuspended(h, ad, e, FALSE)

\* The mail that ends an operation; its failure is an error answer (Fails).
MailSent(h) ==
    /\ req[h].pc = "mail"
    /\ Answer(h)
    /\ UNCHANGED <<tables, tokens, mails, history>>

\* deleteAdmin: the session rows refer to the account, so that the DELETE of
\* an administrator who has ever signed in is refused.
DeleteAdmin(h, e) ==
    /\ req[h].pc = "idle"
    /\ auth[ad][e].live /\ OwnSessions(ad, e) = {}
    /\ auth' = [auth EXCEPT ![ad][e] = NoRow]
    /\ UNCHANGED <<session, tokens, mails, req, history>>

-----------------------------------------------------------------------------
Init ==
    /\ auth = [r \in Role |-> [e \in Emails |-> NoRow]]
    /\ session = [s \in Sids |-> NoSession]
    /\ cached = [s \in Sids |-> "none"]
    /\ revoked = {} /\ refreshRevoked = {} /\ refreshed = {}
    /\ codes = [k \in CodeKeys |-> "none"] /\ resetToken = {}
    /\ req = [h \in Handlers |-> Idle]
    /\ proved = {} /\ closed = {}

UserStart(h) ==
    \/ JobseekerAuthStart(h) \/ EmployerAuthStart(h)
    \/ \E e \in Emails : \/ SuspendJobseeker(h, e) \/ UnsuspendJobseeker(h, e)

AdminStart(h) ==
    \/ AdminAuthStart(h)
    \/ \E e \in Emails : \/ CreateAdmin(h, e) \/ DeleteAdmin(h, e)
                        \/ SuspendAdmin(h, e) \/ UnsuspendAdmin(h, e)

Start(h) == UserStart(h) \/ AdminStart(h)

Step(h) == \/ JobseekerAuthStep(h) \/ EmployerAuthStep(h) \/ AdminAuthStep(h)
           \/ SaveReload(h) \/ SaveWrite(h) \/ CodeRead(h) \/ CodeStore(h)
           \/ CreateAdminInsert(h) \/ MailSent(h) \/ Served(h)

Next == TimePasses \/ \E h \in Handlers : Start(h) \/ Step(h) \/ Fails(h)

\* A handler that has begun goes on: the promises it awaits settle.
Spec == Init /\ [][Next]_sessionVars
             /\ \A h \in Handlers : WF_sessionVars(Step(h))
=============================================================================
