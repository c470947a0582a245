---------------------------- MODULE AccountsInv ----------------------------
(***************************************************************************)
(* What Accounts promises.  IInv holds however requests overlap and        *)
(* whatever fails; OnlyOpenServed, OneRolePerEmail and                     *)
(* AdminReplacedPassword hold while no two requests are about one address  *)
(* (Apart), by the strengthening ApartIInv.  AccountsProofs proves both.   *)
(***************************************************************************)
EXTENDS Accounts

Types ==
    /\ auth \in [Role -> [Emails -> AuthRow]]
    /\ session \in [Sids -> SessionRow]
    /\ cached \in [Sids -> RedisSession]
    /\ revoked \subseteq Token
    /\ refreshRevoked \subseteq Sids /\ refreshed \subseteq Sids
    /\ codes \in [CodeKeys -> Code]
    /\ resetToken \subseteq ResetTokens
    /\ req \in [Handlers -> Request]
    /\ proved \subseteq Emails /\ closed \subseteq Sids

\* The isEmailVerified column, and every entity on its way to it, is true
\* only for an address whose owner proved to read its mail: by the code that
\* was sent to it or by a Google identity.
VerifiedOnlyIfProved ==
    /\ \A r \in Role, e \in Emails : auth[r][e].verified => e \in proved
    /\ \A h \in Handlers :
          req[h].mem.verified \/ req[h].op \in {"google", "unified", "verify"}
            => req[h].email \in proved

\* Whatever knows a session knows one that was opened: a Redis copy, a
\* blacklisted or renewed token, a request in flight.
KnownSessionsExist ==
    /\ \A s \in Sids : cached[s] # "none" => session[s].role # "none"
    /\ \A s \in refreshed \cup refreshRevoked : session[s].role # "none"
    /\ \A t \in revoked : session[t[1]].role # "none"
    /\ \A h \in Handlers :
          req[h].op \in {"refresh", "serve", "logout"} \/ req[h].pc = "cache"
            => session[req[h].sid].role = req[h].role

\* A session row belongs to an account that exists (deleteAdmin has to leave
\* administrators with sessions alone), and only a job seeker's Redis copy
\* says which refresh token goes with it.
SessionHasAccount ==
    \A s \in Sids : session[s].role # "none" =>
        /\ auth[session[s].role][session[s].email].live
        /\ session[s].role # js => cached[s] # "withRefresh"

\* An entity on its way to save was loaded from a row.
SavesLoadedRow ==
    \A h \in Handlers : req[h].pc \in {"reload", "write"} => req[h].mem.live

\* The inductive invariant.
IInv == /\ Types /\ VerifiedOnlyIfProved /\ KnownSessionsExist
        /\ SessionHasAccount /\ SavesLoadedRow

-----------------------------------------------------------------------------
\* A request that reached its route has a session that no logout, password
\* reset or password change has closed, though its token is still signed and
\* Redis may have forgotten the blacklist entry (15 minutes) or still have
\* the copy of the session (24 hours); and a suspended job seeker gets none
\* through.
OnlyOpenServed ==
    \A h \in Handlers : req[h].op = "serve" /\ req[h].pc = "granted" =>
        /\ req[h].sid \notin closed
        /\ req[h].role = js => ~Account(h).suspended

\* An address is a job seeker's or an employer's, never both ("Prevent
\* role-collision"), whatever mixture of registration, Google and unified
\* sign-in was used.
OneRolePerEmail ==
    \A e \in Emails : ~(auth[js][e].live /\ auth[em][e].live)

\* An administrator has a session only after the password that createAdmin
\* generated and mailed was replaced.
AdminReplacedPassword ==
    \A s \in Sids : session[s].role = ad => auth[ad][session[s].email].changed

-----------------------------------------------------------------------------
\* No two requests in flight are about one address, in whatever roles.
Apart ==
    \A g, h \in Handlers :
        g # h /\ req[g].pc # "idle" /\ req[h].pc # "idle" => req[g].email # req[h].email

Opened(s, r, e) == {x \in Sids : s[x].role = r /\ s[x].email = e}

\* What a request q in flight may rely on, given the accounts a, the session
\* rows s and the closed sessions c, as nobody else is at work on its address.
SignUpOK(q, a) ==
    q.pc = "phone" \/ (q.pc = "insert" /\ q.role # ad)
      => ~a[OtherRole(q.role)][q.email].live

SaveOK(q, a, s) ==
    q.pc \in {"reload", "write"} =>
      /\ q.role # ad => a[q.role][q.email].live
      /\ q.role = ad /\ ~q.mem.changed => Opened(s, ad, q.email) = {}

OpenOK(q, a) ==
    q.role = ad =>
      /\ q.op \notin {"register", "google", "unified", "verify"}
      /\ q.pc = "open" /\ a[ad][q.email].live => a[ad][q.email].changed

TokenOK(q, a, s, c) ==
    /\ q.op \in {"refresh", "serve", "logout"} \/ q.pc = "cache"
         => s[q.sid].email = q.email
    /\ q.op = "refresh" /\ q.pc \in {"account", "touch"} => q.sid \notin c
    /\ q.op = "serve" /\ q.pc \in {"gAccount", "granted"} => q.sid \notin c
    /\ q.op = "serve" /\ q.pc = "granted" /\ q.role = js => ~a[js][q.email].suspended

ApartOK(q, a, s, c) ==
    q.pc # "idle" => SignUpOK(q, a) /\ SaveOK(q, a, s) /\ OpenOK(q, a) /\ TokenOK(q, a, s, c)

ClosedStayClosed(s, c) == \A x \in c : s[x].role # "none" /\ ~s[x].active

ApartIInv ==
    /\ ClosedStayClosed(session, closed)
    /\ OneRolePerEmail
    /\ AdminReplacedPassword
    /\ \A h \in Handlers : ApartOK(req[h], auth, session, closed)
=============================================================================
