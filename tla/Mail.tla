-------------------------------- MODULE Mail --------------------------------
(***************************************************************************)
(* The mails of the platform and its notifications in the app.             *)
(*                                                                         *)
(* A mail: NotificationService.sendEmail queues a job, Bull hands it to    *)
(* EmailNotificationProcessor, and EmailService renders its template and   *)
(* tries one provider after the other.  Each attempt may be refused, lose  *)
(* its answer after the mail was accepted, or end with the process.        *)
(*                                                                         *)
(* A notification in the app is a row its reader marks as read.            *)
(***************************************************************************)
EXTENDS Naturals, FiniteSets

CONSTANTS
    Mails,         \* mails the other services ask for
    ForTests,      \* those to an example.com address
    Unrenderable,  \* those with a required value missing or a template that fails
    Providers,     \* how many providers are configured
    MaxTroubles,   \* bound on the calls to a provider that fail, per mail
    Notices        \* notifications rows of one reader

ASSUME MailAssumption ==
    /\ ForTests \subseteq Mails /\ Unrenderable \subseteq Mails
    /\ Providers \in Nat \ {0} /\ MaxTroubles \in Nat

VARIABLES
    mail,      \* per mail its Bull job: state, attempts left, provider to try next
    stalls,    \* times a worker died with the job (Bull keeps the count)
    arrived,   \* history: times a provider accepted the mail
    troubles,  \* history: calls to a provider that answered with an error, or not
    notice     \* notifications rows: status, "none" before the insert

mailVars == <<mail, stalls, arrived, troubles, notice>>

\* Mutant of Attempts: the job is not retried.
OneAttempt == 1

\* Of sendEmail's job options and of the queue.
Attempts == 3

\* Bull's maxStalledCount.
MaxStalls == 1

MailJob == [state : {"none", "waiting", "active", "completed", "failed"},
            left : 0..3, next : 1..Providers]

MailTypeOK ==
    /\ mail \in [Mails -> MailJob]
    /\ stalls \in [Mails -> 0..(MaxStalls + 1)]
    /\ arrived \in [Mails -> Nat]
    /\ troubles \in [Mails -> 0..MaxTroubles]
    /\ notice \in [Notices -> {"none", "PENDING", "SENT", "READ"}]

MailInit ==
    /\ mail = [m \in Mails |-> [state |-> "none", left |-> 0, next |-> 1]]
    /\ stalls = [m \in Mails |-> 0]
    /\ arrived = [m \in Mails |-> 0] /\ troubles = [m \in Mails |-> 0]
    /\ notice = [n \in Notices |-> "none"]

-----------------------------------------------------------------------------
\* NotificationService.sendEmail.  (That the queue refuses the job is an error
\* of the caller's, in its own module.)
SendEmail(m) ==
    /\ mail[m].state = "none"
    /\ mail' = [mail EXCEPT ![m] = [state |-> "waiting", left |-> Attempts, next |-> 1]]
    /\ UNCHANGED <<stalls, arrived, troubles, notice>>

\* The attempt failed: the job waits for its next one, or has failed.
Failed(job) ==
    [state |-> IF job.left > 1 THEN "waiting" ELSE "failed", left |-> job.left - 1, next |-> 1]

\* EmailNotificationProcessor.processEmail up to the first call to a provider: mails
\* for tests are skipped, and the template is rendered.
ProcessEmail(m) ==
    /\ mail[m].state = "waiting"
    /\ mail' = [mail EXCEPT ![m] =
                  CASE m \in ForTests -> [@ EXCEPT !.state = "completed"]
                    [] m \in Unrenderable \ ForTests -> Failed(@)
                    [] OTHER -> [@ EXCEPT !.state = "active"]]
    /\ UNCHANGED <<stalls, arrived, troubles, notice>>

\* sendWithProviderFallback after a provider has failed.
NextProvider(job) ==
    IF job.next < Providers THEN [job EXCEPT !.next = @ + 1] ELSE Failed(job)

\* The call to the provider in turn.
Accepts(m) ==
    /\ mail[m].state = "active"
    /\ mail' = [mail EXCEPT ![m].state = "completed"]
    /\ arrived' = [arrived EXCEPT ![m] = @ + 1]
    /\ UNCHANGED <<stalls, troubles, notice>>

\* It answers with an error, or not within its timeout: then the mail may have
\* been accepted.  Bound: MaxTroubles.
Refuses(m) ==
    /\ mail[m].state = "active" /\ troubles[m] < MaxTroubles
    /\ mail' = [mail EXCEPT ![m] = NextProvider(@)]
    /\ troubles' = [troubles EXCEPT ![m] = @ + 1]
    /\ \/ UNCHANGED arrived
       \/ arrived' = [arrived EXCEPT ![m] = @ + 1]
    /\ UNCHANGED <<stalls, notice>>

\* The process stops during the call.  Bull finds the job stalled and starts it
\* once more, from the first provider and with the attempts it had; then no more.
Stalls(m) ==
    /\ mail[m].state = "active"
    /\ mail' = [mail EXCEPT ![m].state = IF stalls[m] < MaxStalls THEN "waiting" ELSE "failed",
                            ![m].next = 1]
    /\ stalls' = [stalls EXCEPT ![m] = @ + 1]
    /\ \/ UNCHANGED arrived
       \/ arrived' = [arrived EXCEPT ![m] = @ + 1]
    /\ UNCHANGED <<troubles, notice>>

-----------------------------------------------------------------------------
\* Notifications in the app.

\* createAppNotification: the row is inserted PENDING, and nothing sends it.
CreateAppNotification(n) ==
    /\ notice[n] = "none"
    /\ notice' = [notice EXCEPT ![n] = "PENDING"]
    /\ UNCHANGED <<mail, stalls, arrived, troubles>>

MarkNotificationAsRead(n) ==
    /\ notice[n] # "none"
    /\ notice' = [notice EXCEPT ![n] = "READ"]
    /\ UNCHANGED <<mail, stalls, arrived, troubles>>

\* markAllNotificationsAsRead, of the rows that are SENT.
MarkAllNotificationsAsRead ==
    /\ notice' = [n \in Notices |-> IF notice[n] = "SENT" THEN "READ" ELSE notice[n]]
    /\ UNCHANGED <<mail, stalls, arrived, troubles>>

-----------------------------------------------------------------------------
Posts(m) == Accepts(m) \/ Refuses(m)

NoticeNext ==
    \/ \E n \in Notices : CreateAppNotification(n) \/ MarkNotificationAsRead(n)
    \/ MarkAllNotificationsAsRead

MailNext ==
    \/ \E m \in Mails : SendEmail(m) \/ ProcessEmail(m) \/ Posts(m) \/ Stalls(m)
    \/ NoticeNext

MailSpec == MailInit /\ [][MailNext]_mailVars

\* A worker takes what waits, and a call to a provider ends.
MailFairness ==
    \A m \in Mails : WF_mailVars(ProcessEmail(m)) /\ WF_mailVars(Posts(m))

\* A mail that was queued and can be rendered is accepted by a provider in the end,
\* unless every provider failed in every attempt or a worker died with it twice
\* (notification.service.ts:246, base-notification.service.ts:29).
MailArrives ==
    \A m \in Mails \ (ForTests \cup Unrenderable) :
      mail[m].state = "waiting" ~>
        \/ arrived[m] > 0
        \/ troubles[m] >= 3 * Providers
        \/ stalls[m] > MaxStalls
=============================================================================
