--------------------------- MODULE AccountsProofs ---------------------------
(***************************************************************************)
(* The invariant of the accounts for any number of addresses, sessions and *)
(* overlapping requests, with calls that fail at any point: an address is  *)
(* marked verified only if its owner proved to read its mail, a session    *)
(* row belongs to an account that exists, and nothing (Redis, a blacklist, *)
(* a request in flight) knows a session that was never opened.  The second *)
(* half adds what holds while no two requests are about one address.       *)
(***************************************************************************)
EXTENDS AccountsInv, TLAPS

-----------------------------------------------------------------------------
\* The invariant, one predicate for each part of the state.

\* A request, given the proved addresses p and the session rows s.
ReqOK(q, p, s) ==
    /\ q \in Request
    /\ q.mem.verified \/ q.op \in {"google", "unified", "verify"} => q.email \in p
    /\ q.op \in {"refresh", "serve", "logout"} \/ q.pc = "cache"
         => s[q.sid].role = q.role
    /\ q.pc \in {"reload", "write"} => q.mem.live

RowsOK(a, s, c, p) ==
    /\ a \in [Role -> [Emails -> AuthRow]]
    /\ s \in [Sids -> SessionRow]
    /\ c \in [Sids -> RedisSession]
    /\ p \subseteq Emails
    /\ \A r \in Role, e \in Emails : a[r][e].verified => e \in p
    /\ \A x \in Sids : c[x] # "none" => s[x].role # "none"
    /\ \A x \in Sids : s[x].role # "none" => /\ a[s[x].role][s[x].email].live
                                             /\ s[x].role # js => c[x] # "withRefresh"

TokensOK(rv, rr, rf, s) ==
    /\ rv \subseteq Token /\ rr \subseteq Sids /\ rf \subseteq Sids
    /\ \A x \in rf \cup rr : s[x].role # "none"
    /\ \A t \in rv : s[t[1]].role # "none"

MailsOK(c, t, cl) == /\ c \in [CodeKeys -> Code] /\ t \subseteq ResetTokens
                     /\ cl \subseteq Sids

ReqsOK(q, p, s) == /\ q \in [Handlers -> Request]
                   /\ \A h \in Handlers : ReqOK(q[h], p, s)

\* Session rows are only added; a row keeps its role.
Grown(s, t) == \A x \in Sids : s[x].role # "none" => t[x].role = s[x].role

LEMMA Split ==
    IInv <=> /\ RowsOK(auth, session, cached, proved)
             /\ TokensOK(revoked, refreshRevoked, refreshed, session)
             /\ MailsOK(codes, resetToken, closed)
             /\ ReqsOK(req, proved, session)
  BY DEF IInv, Types, VerifiedOnlyIfProved, KnownSessionsExist, SessionHasAccount,
         SavesLoadedRow, RowsOK, TokensOK, MailsOK, ReqsOK, ReqOK

LEMMA SplitNext ==
    ASSUME RowsOK(auth', session', cached', proved'),
           TokensOK(revoked', refreshRevoked', refreshed', session'),
           MailsOK(codes', resetToken', closed'),
           ReqsOK(req', proved', session')
    PROVE  IInv'
  BY DEF IInv, Types, VerifiedOnlyIfProved, KnownSessionsExist, SessionHasAccount,
         SavesLoadedRow, RowsOK, TokensOK, MailsOK, ReqsOK, ReqOK

-----------------------------------------------------------------------------
\* The choices behind the constants.
LEMMA SomeOK ==
    /\ SomeEmail \in Emails /\ SomeSid \in Sids /\ FirstPwd \in Pwds
    /\ NoRow \in AuthRow /\ ~NoRow.verified /\ ~NoRow.live
    /\ Idle \in Request
    /\ \A p, s : ReqOK(Idle, p, s)
<1>1. SomeEmail \in Emails /\ SomeSid \in Sids /\ FirstPwd \in Pwds
  BY SessionsAssumption DEF SomeEmail, SomeSid, FirstPwd
<1>2. NoRow \in AuthRow /\ ~NoRow.verified /\ ~NoRow.live
  BY <1>1 DEF NoRow, AuthRow
<1>3. Idle \in Request
  BY <1>1, <1>2 DEF Idle, Request, Op, Pc, Role
<1>4. \A p, s : ReqOK(Idle, p, s)
  BY <1>2, <1>3 DEF ReqOK, Idle
<1> QED
  BY <1>1, <1>2, <1>3, <1>4

\* How requests stay good.
LEMMA ReqGrows ==
    ASSUME NEW q, NEW p, NEW s, ReqOK(q, p, s), NEW p2, p \subseteq p2,
           NEW t, Grown(s, t)
    PROVE  ReqOK(q, p2, t)
<1>1. q.sid \in Sids /\ q.role \in Role
  BY DEF ReqOK, Request
<1>2. q.role # "none"
  BY <1>1 DEF Role
<1> QED
  BY <1>1, <1>2 DEF ReqOK, Grown

LEMMA ReqGoes ==
    ASSUME NEW q, NEW p, NEW s, ReqOK(q, p, s),
           NEW pc \in Pc \ {"cache", "reload", "write"}
    PROVE  ReqOK([q EXCEPT !.pc = pc], p, s)
  BY DEF ReqOK, Request

LEMMA Reqs ==
    ASSUME NEW q, NEW p, NEW s, ReqsOK(q, p, s), NEW h \in Handlers,
           NEW p2, p \subseteq p2, NEW t, Grown(s, t),
           NEW R, ReqOK(R, p2, t)
    PROVE  ReqsOK([q EXCEPT ![h] = R], p2, t)
<1> DEFINE n == [q EXCEPT ![h] = R]
<1>1. R \in Request /\ q \in [Handlers -> Request]
  BY DEF ReqOK, ReqsOK
<1>2. n \in [Handlers -> Request]
  BY <1>1
<1>3. ASSUME NEW g \in Handlers
      PROVE  ReqOK(n[g], p2, t)
  <2>1. CASE g = h
    <3>1. n[g] = R
      BY <2>1, <1>1
    <3> QED
      BY <3>1
  <2>2. CASE g # h
    <3>1. n[g] = q[g]
      BY <2>2, <1>1
    <3>2. ReqOK(q[g], p, s)
      BY DEF ReqsOK
    <3>3. ReqOK(q[g], p2, t)
      BY <3>2, ReqGrows
    <3> QED
      BY <3>1, <3>3
  <2> QED
    BY <2>1, <2>2
<1> HIDE DEF n
<1>4. ReqsOK(n, p2, t)
  BY <1>2, <1>3 DEF ReqsOK
<1> QED
  BY <1>4 DEF n

LEMMA SameGrown == \A s : Grown(s, s)
  BY DEF Grown

-----------------------------------------------------------------------------
\* Steps that only move a request on.
LEMMA Quiet ==
    ASSUME IInv, NEW h \in Handlers, NEW R, ReqOK(R, proved, session),
           req' = [req EXCEPT ![h] = R],
           UNCHANGED <<auth, session, cached, revoked, refreshRevoked, refreshed,
                       codes, resetToken, proved, closed>>
    PROVE  IInv'
<1>1. ReqsOK(req', proved, session)
  BY Split, Reqs, SameGrown
<1> QED
  BY <1>1, Split, SplitNext

\* The same while the owner of an address proves to read its mail.
LEMMA Proving ==
    ASSUME IInv, NEW h \in Handlers, NEW e \in Emails,
           NEW R, ReqOK(R, proved', session),
           req' = [req EXCEPT ![h] = R], proved' = proved \cup {e},
           UNCHANGED <<auth, session, cached, revoked, refreshRevoked, refreshed,
                       codes, resetToken, closed>>
    PROVE  IInv'
<1>1. proved \subseteq proved'
  OBVIOUS
<1>2. ReqsOK(req', proved', session)
  BY <1>1, Split, Reqs, SameGrown
<1>3. RowsOK(auth, session, cached, proved')
  BY Split DEF RowsOK
<1> QED
  BY <1>2, <1>3, Split, SplitNext

LEMMA ReqTyped ==
    ASSUME IInv, NEW h \in Handlers
    PROVE  /\ ReqOK(req[h], proved, session)
           /\ req[h] \in Request
           /\ req[h].role \in Role /\ req[h].email \in Emails /\ req[h].sid \in Sids
           /\ req[h].op \in Op /\ req[h].mem \in AuthRow /\ req[h].snap \in AuthRow
           /\ req[h].tok \in {"first", "renewed"}
           /\ req \in [Handlers -> Request]
<1>1. ReqsOK(req, proved, session)
  BY Split
<1>2. ReqOK(req[h], proved, session) /\ req[h] \in Request
  BY <1>1 DEF ReqsOK
<1> QED
  BY <1>1, <1>2 DEF Request, ReqsOK

\* A row of an auth table, its columns and those of a changed entity.
LEMMA AuthTyped ==
    ASSUME IInv, NEW r \in Role, NEW e \in Emails
    PROVE  /\ auth[r][e] \in AuthRow /\ (auth[r][e].verified => e \in proved)
           /\ auth \in [Role -> [Emails -> AuthRow]]
  BY Split DEF RowsOK

LEMMA VerifiedRow ==
    ASSUME NEW a \in AuthRow, a.live
    PROVE  [a EXCEPT !.verified = TRUE] \in AuthRow /\ [a EXCEPT !.verified = TRUE].live
  BY DEF AuthRow

LEMMA AccountTyped ==
    ASSUME IInv, NEW h \in Handlers
    PROVE  Account(h) \in AuthRow
  BY ReqTyped, AuthTyped DEF Account

LEMMA AnswerQuiet ==
    ASSUME IInv, NEW h \in Handlers, Answer(h),
           UNCHANGED <<tables, tokens, mails, history>>
    PROVE  IInv'
  BY SomeOK, Quiet DEF Answer, tables, tokens, mails, history

LEMMA GotoQuiet ==
    ASSUME IInv, NEW h \in Handlers, NEW pc \in Pc \ {"cache", "reload", "write"},
           Goto(h, pc), UNCHANGED <<tables, tokens, mails, history>>
    PROVE  IInv'
<1>1. req' = [req EXCEPT ![h] = [req[h] EXCEPT !.pc = pc]]
  BY ReqTyped DEF Goto
<1>2. ReqOK([req[h] EXCEPT !.pc = pc], proved, session)
  BY ReqTyped, ReqGoes
<1> QED
  BY <1>1, <1>2, Quiet DEF tables, tokens, mails, history

LEMMA GotoIfQuiet ==
    ASSUME IInv, NEW h \in Handlers, NEW pc \in Pc \ {"cache", "reload", "write"},
           Goto(h, pc) \/ Answer(h), UNCHANGED <<tables, tokens, mails, history>>
    PROVE  IInv'
  BY GotoQuiet, AnswerQuiet

\* A request begins.
LEMMA BegunOK ==
    ASSUME NEW op \in Op \ {"refresh", "serve", "logout"},
           NEW pc \in Pc \ {"cache", "reload", "write"},
           NEW r \in Role, NEW e \in Emails, NEW p, NEW s,
           op \in {"google", "unified", "verify"} => e \in p
    PROVE  ReqOK([Idle EXCEPT !.op = op, !.pc = pc, !.role = r, !.email = e], p, s)
<1> DEFINE R == [Idle EXCEPT !.op = op, !.pc = pc, !.role = r, !.email = e]
<1>1. R \in Request
  BY SomeOK DEF Request
<1>2. R.op = op /\ R.pc = pc /\ R.email = e /\ ~R.mem.verified
  BY SomeOK DEF Idle
<1> HIDE DEF R
<1>3. ReqOK(R, p, s)
  BY <1>1, <1>2 DEF ReqOK
<1> QED
  BY <1>3 DEF R

LEMMA BeginQuiet ==
    ASSUME IInv, NEW h \in Handlers, NEW op \in Op \ {"refresh", "serve", "logout"},
           NEW pc \in Pc \ {"cache", "reload", "write"},
           NEW r \in Role, NEW e \in Emails, Begin(h, op, pc, r, e),
           op \notin {"google", "unified", "verify"},
           UNCHANGED <<tables, tokens, mails, history>>
    PROVE  IInv'
<1>1. ReqOK([Idle EXCEPT !.op = op, !.pc = pc, !.role = r, !.email = e],
            proved, session)
  BY BegunOK
<1> QED
  BY <1>1, Quiet DEF Begin, tables, tokens, mails, history

LEMMA BeginProving ==
    ASSUME IInv, NEW h \in Handlers, NEW op \in Op \ {"refresh", "serve", "logout"},
           NEW pc \in Pc \ {"cache", "reload", "write"},
           NEW r \in Role, NEW e \in Emails, Begin(h, op, pc, r, e),
           proved' = proved \cup {e}, UNCHANGED <<tables, tokens, mails, closed>>
    PROVE  IInv'
<1>1. ReqOK([Idle EXCEPT !.op = op, !.pc = pc, !.role = r, !.email = e],
            proved', session)
  BY BegunOK
<1> QED
  BY <1>1, Proving DEF Begin, tables, tokens, mails

LEMMA BegunSaveOK ==
    ASSUME NEW op \in Op \ {"refresh", "serve", "logout"},
           NEW r \in Role, NEW e \in Emails, NEW p, NEW s,
           NEW m \in AuthRow, m.live,
           m.verified \/ op \in {"google", "unified", "verify"} => e \in p
    PROVE  ReqOK([Idle EXCEPT !.op = op, !.pc = "reload", !.role = r, !.email = e,
                              !.mem = m], p, s)
<1> DEFINE R == [Idle EXCEPT !.op = op, !.pc = "reload", !.role = r, !.email = e,
                             !.mem = m]
<1>1. R \in Request
  BY SomeOK DEF Request, Pc
<1>2. R.op = op /\ R.pc = "reload" /\ R.email = e /\ R.mem = m
  BY DEF Idle
<1> HIDE DEF R
<1>3. ReqOK(R, p, s)
  BY <1>1, <1>2 DEF ReqOK
<1> QED
  BY <1>3 DEF R

LEMMA BeginSaveQuiet ==
    ASSUME IInv, NEW h \in Handlers, NEW op \in Op \ {"refresh", "serve", "logout"},
           NEW r \in Role, NEW e \in Emails, NEW m \in AuthRow, m.live,
           m.verified => e \in proved, op \notin {"google", "unified", "verify"},
           BeginSave(h, op, r, e, m), UNCHANGED <<tables, tokens, mails, history>>
    PROVE  IInv'
<1>1. ReqOK([Idle EXCEPT !.op = op, !.pc = "reload", !.role = r, !.email = e,
                         !.mem = m], proved, session)
  BY BegunSaveOK
<1> QED
  BY <1>1, Quiet DEF BeginSave, tables, tokens, mails, history

\* A request that carries a token of the session s begins.
LEMMA BeginSessionQuiet ==
    ASSUME IInv, NEW h \in Handlers, NEW op \in {"refresh", "serve", "logout"},
           NEW pc \in Pc \ {"cache", "reload", "write"}, NEW s \in Sids,
           NEW t \in {"first", "renewed"}, session[s].role \in Role,
           BeginSession(h, op, pc, s, t), UNCHANGED <<tables, tokens, mails, history>>
    PROVE  IInv'
<1> DEFINE R == [Idle EXCEPT !.op = op, !.pc = pc, !.tok = t, !.sid = s,
                             !.role = session[s].role, !.email = session[s].email]
<1>1. session[s].email \in Emails
  BY Split DEF RowsOK, SessionRow
<1>2. R \in Request
  BY <1>1, SomeOK DEF Request, Op
<1>3. R.op = op /\ R.pc = pc /\ R.sid = s /\ R.role = session[s].role
        /\ ~R.mem.verified
  BY SomeOK DEF Idle
<1>4. req' = [req EXCEPT ![h] = R]
  BY DEF BeginSession
<1> HIDE DEF R
<1>5. ReqOK(R, proved, session)
  BY <1>2, <1>3 DEF ReqOK
<1> QED
  BY <1>4, <1>5, Quiet DEF tables, tokens, mails, history
-----------------------------------------------------------------------------
\* Opening and keeping sessions.
LEMMA GenerateTokensOK ==
    ASSUME IInv, NEW h \in Handlers, NEW r \in Role, NEW s \in Sids,
           GenerateTokens(h, r, s)
    PROVE  IInv'
<1>1. CASE ~Account(h).live
  BY <1>1, AnswerQuiet DEF GenerateTokens, tables
<1>2. CASE Account(h).live
  <2> DEFINE new == [role |-> r, email |-> req[h].email, active |-> TRUE, expired |-> FALSE]
             R == [req[h] EXCEPT !.pc = "cache", !.sid = s]
  <2>1. /\ session' = [session EXCEPT ![s] = new] /\ req' = [req EXCEPT ![h] = R]
        /\ session[s].role = "none" /\ req[h].role = r /\ req[h].pc = "open"
        /\ UNCHANGED <<auth, cached, revoked, refreshRevoked, refreshed, codes,
                       resetToken, proved, closed>>
    BY <1>2, ReqTyped DEF GenerateTokens, tokens, mails, history
  <2>2. new \in SessionRow /\ new.role = r /\ new.email = req[h].email
    BY ReqTyped DEF SessionRow
  <2>3. RowsOK(auth, session, cached, proved)
    BY Split
  <2>4. session' \in [Sids -> SessionRow] /\ session'[s] = new
          /\ \A x \in Sids \ {s} : session'[x] = session[x]
    BY <2>1, <2>2, <2>3 DEF RowsOK
  <2>5. r # "none" /\ auth[r][req[h].email].live
    BY <1>2, <2>1 DEF Account, Role
  <2>6. Grown(session, session')
    BY <2>1, <2>4 DEF Grown
  <2>7. R \in Request /\ R.op = req[h].op /\ R.pc = "cache" /\ R.sid = s
          /\ R.role = r /\ R.email = req[h].email /\ R.mem = req[h].mem
    BY <2>1, ReqTyped, ZenonT(60) DEF Request, Pc
  <2>8. ReqOK(req[h], proved, session)
    BY ReqTyped
  <2> HIDE DEF R, new
  <2>9. ReqOK(R, proved, session')
    BY <2>2, <2>4, <2>7, <2>8 DEF ReqOK
  <2>10. ReqsOK(req', proved, session')
    BY <2>1, <2>6, <2>9, Split, Reqs
  <2>11. cached[s] = "none"
    BY <2>1, <2>3 DEF RowsOK
  <2>12. RowsOK(auth, session', cached, proved)
    BY <2>2, <2>3, <2>4, <2>5, <2>11 DEF RowsOK
  <2>13. TokensOK(revoked, refreshRevoked, refreshed, session')
    <3>1. TokensOK(revoked, refreshRevoked, refreshed, session)
      BY Split
    <3>2. \A x \in Sids : session[x].role # "none" => session'[x].role # "none"
      BY <2>6 DEF Grown
    <3>3. \A t \in revoked : t[1] \in Sids
      BY <3>1 DEF TokensOK, Token
    <3> QED
      BY <3>1, <3>2, <3>3 DEF TokensOK
  <2> QED
    BY <2>1, <2>10, <2>12, <2>13, Split, SplitNext
<1> QED
  BY <1>1, <1>2

\* The Redis copy of a session the request knows.
LEMMA CachedOK ==
    ASSUME IInv, NEW h \in Handlers, NEW copy \in RedisSession,
           copy = "none" \/ session[req[h].sid].role = req[h].role,
           req[h].role # js => copy # "withRefresh",
           cached' = [cached EXCEPT ![req[h].sid] = copy], NEW R,
           req' = [req EXCEPT ![h] = R], ReqOK(R, proved, session),
           UNCHANGED <<auth, session, codes, resetToken, proved, closed>>,
           TokensOK(revoked', refreshRevoked', refreshed', session)
    PROVE  IInv'
<1>1. RowsOK(auth, session, cached, proved)
  BY Split
<1>2. req[h].sid \in Sids /\ req[h].role # "none"
  BY ReqTyped DEF Role
<1>3. RowsOK(auth, session, cached', proved)
  BY <1>1, <1>2 DEF RowsOK
<1>4. ReqsOK(req', proved, session)
  BY Split, Reqs, SameGrown
<1> QED
  BY <1>3, <1>4, Split, SplitNext

LEMMA StoreOK ==
    ASSUME IInv, NEW h \in Handlers, NEW r \in Role,
           NEW copy \in {"plain", "withRefresh"}, r # js => copy = "plain",
           StoreRedisSession(h, r, copy)
    PROVE  IInv'
<1>1. session[req[h].sid].role = req[h].role /\ req[h].role = r
  BY ReqTyped DEF StoreRedisSession, ReqOK
<1>2. copy \in RedisSession /\ (req[h].role # js => copy # "withRefresh")
  BY <1>1 DEF RedisSession
<1>3. TokensOK(revoked, refreshRevoked, refreshed, session)
  BY Split
<1>4. /\ cached' = [cached EXCEPT ![req[h].sid] = copy]
      /\ req' = [req EXCEPT ![h] = Idle]
      /\ UNCHANGED <<auth, session, codes, resetToken, proved, closed, revoked,
                     refreshRevoked, refreshed>>
  BY DEF StoreRedisSession, Answer, tables, mails, history
<1> QED
  BY <1>1, <1>2, <1>3, <1>4, CachedOK, SomeOK

LEMMA EvictOK ==
    ASSUME IInv, NEW h \in Handlers, NEW R, ReqOK(R, proved, session),
           req' = [req EXCEPT ![h] = R],
           cached' = [cached EXCEPT ![req[h].sid] = "none"],
           UNCHANGED <<auth, session, revoked, refreshRevoked, refreshed, codes,
                       resetToken, proved, closed>>
    PROVE  IInv'
<1>1. TokensOK(revoked, refreshRevoked, refreshed, session)
  BY Split
<1>2. "none" \in RedisSession /\ "none" # "withRefresh"
  BY DEF RedisSession
<1> QED
  BY <1>1, <1>2, CachedOK

\* Session rows that lose only their isActive or their time.
LEMMA RowsChange ==
    ASSUME IInv, session' \in [Sids -> SessionRow],
           \A x \in Sids : session'[x].role = session[x].role
                             /\ session'[x].email = session[x].email,
           NEW cl \in SUBSET Sids, closed' = cl,
           ReqsOK(req', proved, session'),
           UNCHANGED <<auth, cached, revoked, refreshRevoked, refreshed, codes,
                       resetToken, proved>>
    PROVE  IInv'
<1>1. RowsOK(auth, session', cached, proved)
  BY Split DEF RowsOK
<1>2. TokensOK(revoked, refreshRevoked, refreshed, session')
  <2>1. TokensOK(revoked, refreshRevoked, refreshed, session)
    BY Split
  <2>2. \A t \in revoked : t[1] \in Sids
    BY <2>1 DEF TokensOK, Token
  <2> QED
    BY <2>1, <2>2 DEF TokensOK
<1>3. MailsOK(codes, resetToken, closed')
  BY Split DEF MailsOK
<1> QED
  BY <1>1, <1>2, <1>3, SplitNext

\* One row whose role and address stay.
LEMMA RowChanges ==
    ASSUME IInv, NEW h \in Handlers, NEW s \in Sids, NEW n,
           n \in SessionRow, n.role = session[s].role, n.email = session[s].email,
           session' = [session EXCEPT ![s] = n],
           NEW R, ReqOK(R, proved, session), req' = [req EXCEPT ![h] = R],
           closed' = closed \/ closed' = closed \cup {s},
           UNCHANGED <<auth, cached, revoked, refreshRevoked, refreshed, codes,
                       resetToken, proved>>
    PROVE  IInv'
<1>1. session \in [Sids -> SessionRow] /\ closed \subseteq Sids
  BY Split DEF RowsOK, MailsOK
<1>2. session' \in [Sids -> SessionRow]
        /\ \A x \in Sids : session'[x].role = session[x].role
                             /\ session'[x].email = session[x].email
  BY <1>1
<1>3. Grown(session, session')
  BY <1>2 DEF Grown
<1>4. ReqOK(R, proved, session')
  BY <1>3, ReqGrows
<1>5. ReqsOK(req', proved, session')
  BY <1>3, <1>4, Split, Reqs
<1>6. closed' \in SUBSET Sids
  BY <1>1
<1> QED
  BY <1>2, <1>5, <1>6, RowsChange
-----------------------------------------------------------------------------
\* Accounts.
LEMMA AuthChanges ==
    ASSUME IInv, NEW h \in Handlers, NEW r \in Role, NEW e \in Emails,
           NEW row \in AuthRow, row.verified => e \in proved,
           auth[r][e].live /\ OwnSessions(r, e) # {} => row.live,
           auth' = [auth EXCEPT ![r][e] = row],
           ReqsOK(req', proved, session),
           UNCHANGED <<session, cached, revoked, refreshRevoked, refreshed, codes,
                       resetToken, proved, closed>>
    PROVE  IInv'
<1>1. RowsOK(auth, session, cached, proved)
  BY Split
<1>2. auth' \in [Role -> [Emails -> AuthRow]]
  BY <1>1 DEF RowsOK
<1>3. \A q \in Role, f \in Emails : q # r \/ f # e => auth'[q][f] = auth[q][f]
  BY <1>1 DEF RowsOK
<1>4. auth'[r][e] = row
  BY <1>1 DEF RowsOK
<1>5. ASSUME NEW x \in Sids, session[x].role # "none"
      PROVE  auth'[session[x].role][session[x].email].live
  <2>1. session[x].role \in Role /\ session[x].email \in Emails
          /\ auth[session[x].role][session[x].email].live
    BY <1>1, <1>5 DEF RowsOK, SessionRow
  <2>2. CASE session[x].role = r /\ session[x].email = e
    BY <2>1, <2>2, <1>4 DEF OwnSessions
  <2> QED
    BY <2>1, <2>2, <1>3
<1>6. \A q \in Role, f \in Emails : auth'[q][f].verified => f \in proved
  BY <1>1, <1>3, <1>4 DEF RowsOK
<1>7. RowsOK(auth', session, cached, proved)
  BY <1>1, <1>2, <1>5, <1>6 DEF RowsOK
<1> QED
  BY <1>7, Split, SplitNext

LEMMA ReqWrites ==
    ASSUME IInv, NEW h \in Handlers, NEW R, ReqOK(R, proved, session),
           req' = [req EXCEPT ![h] = R]
    PROVE  ReqsOK(req', proved, session)
  BY Split, Reqs, SameGrown

LEMMA GoneOn ==
    ASSUME IInv, NEW h \in Handlers, NEW pc \in Pc \ {"cache", "reload", "write"},
           Goto(h, pc)
    PROVE  ReqsOK(req', proved, session)
<1>1. req' = [req EXCEPT ![h] = [req[h] EXCEPT !.pc = pc]]
  BY ReqTyped DEF Goto
<1>2. ReqOK([req[h] EXCEPT !.pc = pc], proved, session)
  BY ReqTyped, ReqGoes
<1> QED
  BY <1>1, <1>2, ReqWrites

LEMMA InsertAccountOK ==
    ASSUME IInv, NEW h \in Handlers, NEW r \in Role, NEW ops, NEW v \in BOOLEAN,
           v => ops \subseteq {"google", "unified"},
           NEW next \in Pc \ {"cache", "reload", "write"},
           InsertAccount(h, r, ops, v, next)
    PROVE  IInv'
<1>1. CASE Account(h).live
  BY <1>1, AnswerQuiet DEF InsertAccount, tables
<1>2. CASE ~Account(h).live
  <2> DEFINE row == [NoRow EXCEPT !.live = TRUE, !.verified = v,
                                  !.pwd = IF v THEN "random" ELSE FirstPwd]
             e == req[h].email
  <2>1. row \in AuthRow /\ row.live /\ row.verified = v
    BY SomeOK DEF AuthRow, NoRow
  <2>2. e \in Emails /\ (v => e \in proved)
    BY ReqTyped DEF InsertAccount, At, ReqOK
  <2>3. auth' = [auth EXCEPT ![r][e] = row] /\ Goto(h, next)
        /\ UNCHANGED <<session, cached, revoked, refreshRevoked, refreshed, codes,
                       resetToken, proved, closed>>
    BY <1>2 DEF InsertAccount, tokens, mails, history
  <2>4. ReqsOK(req', proved, session)
    BY <2>3, GoneOn
  <2> HIDE DEF row, e
  <2> QED
    BY <2>1, <2>2, <2>3, <2>4, AuthChanges
<1> QED
  BY <1>1, <1>2

LEMMA SaveReloadOK ==
    ASSUME IInv, NEW h \in Handlers, SaveReload(h)
    PROVE  IInv'
<1> DEFINE R == [req[h] EXCEPT !.pc = "write", !.snap = Account(h)]
<1>1. Account(h) \in AuthRow
  BY ReqTyped, AuthTyped DEF Account
<1>2. ReqOK(req[h], proved, session) /\ req[h].pc = "reload"
  BY ReqTyped DEF SaveReload
<1>3. R \in Request /\ R.pc = "write" /\ R.op = req[h].op /\ R.mem = req[h].mem
        /\ R.email = req[h].email /\ R.sid = req[h].sid /\ R.role = req[h].role
  BY <1>1, ReqTyped, ZenonT(60) DEF Request, Pc
<1>4. req' = [req EXCEPT ![h] = R]
  BY ReqTyped DEF SaveReload
<1> HIDE DEF R
<1>5. ReqOK(R, proved, session)
  BY <1>2, <1>3 DEF ReqOK
<1> QED
  BY <1>4, <1>5, Quiet DEF SaveReload, tables, tokens, mails, history

LEMMA AfterSaveOK == \A op : AfterSave(op) \in Pc \ {"cache", "reload", "write"}
  BY DEF AfterSave, Pc

\* A saved row is as good as the row and the entity it is made of.
LEMMA SavedOK ==
    ASSUME NEW row \in AuthRow, NEW snap \in AuthRow, NEW mem \in AuthRow,
           row.live = snap.live, mem.live
    PROVE  /\ Saved(row, snap, mem) \in AuthRow
           /\ Saved(row, snap, mem).live
           /\ Saved(row, snap, mem).verified => row.verified \/ mem.verified
<1> DEFINE n == Saved(row, snap, mem)
<1>1. DOMAIN NoRow = {"live", "verified", "suspended", "changed", "pwd"}
  BY DEF NoRow
<1>2. n.live = SaveColumn(row.live, snap.live, mem.live)
      /\ n.verified = SaveColumn(row.verified, snap.verified, mem.verified)
      /\ n.suspended = SaveColumn(row.suspended, snap.suspended, mem.suspended)
      /\ n.changed = SaveColumn(row.changed, snap.changed, mem.changed)
      /\ n.pwd = SaveColumn(row.pwd, snap.pwd, mem.pwd)
  BY <1>1 DEF Saved
<1>3. n.live \in BOOLEAN /\ n.verified \in BOOLEAN /\ n.suspended \in BOOLEAN
        /\ n.changed \in BOOLEAN /\ n.pwd \in Pwds \cup {"random"}
  BY <1>2 DEF SaveColumn, AuthRow
<1>4. n = [live |-> n.live, verified |-> n.verified, suspended |-> n.suspended,
           changed |-> n.changed, pwd |-> n.pwd]
  BY <1>1 DEF Saved
<1>5. n.live /\ (n.verified => row.verified \/ mem.verified)
  BY <1>2 DEF SaveColumn, AuthRow
<1> HIDE DEF n
<1>6. n \in AuthRow
  BY <1>3, <1>4 DEF AuthRow
<1> QED
  BY <1>5, <1>6 DEF n

LEMMA SaveWriteOK ==
    ASSUME IInv, NEW h \in Handlers, SaveWrite(h)
    PROVE  IInv'
<1>1. CASE Account(h).live = req[h].snap.live
  <2> DEFINE r == req[h].role
             e == req[h].email
             row == Saved(auth[r][e], req[h].snap, req[h].mem)
  <2>1. /\ r \in Role /\ e \in Emails /\ req[h].snap \in AuthRow
        /\ req[h].mem \in AuthRow /\ req[h].mem.live
        /\ (req[h].mem.verified => e \in proved)
    BY ReqTyped DEF SaveWrite, ReqOK
  <2>2. auth[r][e] \in AuthRow /\ auth[r][e].live = req[h].snap.live
          /\ (auth[r][e].verified => e \in proved)
          /\ auth \in [Role -> [Emails -> AuthRow]]
    BY <1>1, <2>1, AuthTyped DEF Account
  <2>3. row \in AuthRow /\ row.live /\ (row.verified => e \in proved)
    BY <2>1, <2>2, SavedOK
  <2>4. auth' = [auth EXCEPT ![r][e] = row] /\ Goto(h, AfterSave(req[h].op))
        /\ UNCHANGED <<session, cached, revoked, refreshRevoked, refreshed, codes,
                       resetToken, proved, closed>>
    BY <1>1, <2>1, <2>2 DEF SaveWrite, tokens, mails, history
  <2>5. ReqsOK(req', proved, session)
    BY <2>4, AfterSaveOK, GoneOn
  <2> HIDE DEF r, e, row
  <2> QED
    BY <2>1, <2>3, <2>4, <2>5, AuthChanges
<1>2. CASE Account(h).live # req[h].snap.live
  BY <1>2, AfterSaveOK, GotoIfQuiet DEF SaveWrite, GotoIf, tables
<1> QED
  BY <1>1, <1>2

LEMMA DeleteAdminOK ==
    ASSUME IInv, NEW h \in Handlers, NEW e \in Emails, DeleteAdmin(h, e)
    PROVE  IInv'
<1>1. auth' = [auth EXCEPT !["admin"][e] = NoRow]
      /\ OwnSessions("admin", e) = {}
      /\ UNCHANGED <<session, cached, revoked, refreshRevoked, refreshed, codes,
                     resetToken, proved, closed, req>>
  BY DEF DeleteAdmin, ad, tokens, mails, history
<1>2. "admin" \in Role
  BY DEF Role
<1>3. ReqsOK(req', proved, session)
  BY <1>1, Split
<1> QED
  BY <1>1, <1>2, <1>3, SomeOK, AuthChanges

-----------------------------------------------------------------------------
\* Tokens and codes.
LEMMA TokensChange ==
    ASSUME IInv, TokensOK(revoked', refreshRevoked', refreshed', session),
           ReqsOK(req', proved, session),
           UNCHANGED <<auth, session, cached, codes, resetToken, proved, closed>>
    PROVE  IInv'
  BY Split, SplitNext

LEMMA MailsChange ==
    ASSUME IInv, codes' \in [CodeKeys -> Code], resetToken' \subseteq ResetTokens,
           ReqsOK(req', proved, session),
           UNCHANGED <<auth, session, cached, revoked, refreshRevoked, refreshed,
                       proved, closed>>
    PROVE  IInv'
<1>1. MailsOK(codes', resetToken', closed')
  BY Split DEF MailsOK
<1> QED
  BY <1>1, Split, SplitNext

LEMMA KeysOK ==
    ASSUME NEW e \in Emails, NEW r \in Role
    PROVE  VerifyKey(e) \in CodeKeys /\ ResetKey(r, e) \in CodeKeys
  BY DEF CodeKeys

LEMMA Answered ==
    ASSUME IInv, NEW h \in Handlers, Answer(h)
    PROVE  ReqsOK(req', proved, session)
  BY SomeOK, ReqWrites DEF Answer

LEMMA OneCodeOK ==
    ASSUME IInv, NEW k \in CodeKeys, NEW c \in Code,
           codes' = [codes EXCEPT ![k] = c],
           resetToken' \subseteq ResetTokens, ReqsOK(req', proved, session),
           UNCHANGED <<auth, session, cached, revoked, refreshRevoked, refreshed,
                       proved, closed>>
    PROVE  IInv'
<1>1. codes' \in [CodeKeys -> Code]
  BY Split DEF MailsOK
<1> QED
  BY <1>1, MailsChange
-----------------------------------------------------------------------------
\* The steps of Sessions.
LEMMA PcPlain ==
    \A pc \in {"own", "other", "phone", "insert", "codeRead", "codeStore", "open",
               "blacklist", "row", "account", "touch", "renew", "gCache", "gRow",
               "gEvict", "gAccount", "granted", "lAccess", "lRefresh", "lUncache",
               "lClose", "load", "delCode", "closeAll", "mail"} :
       pc \in Pc \ {"cache", "reload", "write"}
  BY DEF Pc

LEMMA OpPlain ==
    \A op \in Op : op \notin {"refresh", "serve", "logout"}
                     => op \in Op \ {"refresh", "serve", "logout"}
  OBVIOUS

LEMMA LoginOK ==
    ASSUME IInv, NEW h \in Handlers, NEW r \in Role, NEW e \in Emails, NEW p,
           NEW allowed, Login(h, r, e, p, allowed)
    PROVE  IInv'
<1>1. "login" \in Op \ {"refresh", "serve", "logout"}
  BY DEF Op
<1> QED
  BY <1>1, PcPlain, BeginQuiet DEF Login

LEMMA RegisterOK ==
    ASSUME IInv, NEW h \in Handlers, NEW r \in Role,
           \/ \E e \in Emails : RegisterCheckOwn(h, r, e)
           \/ RegisterCheckOther(h, r, "phone")
           \/ RegisterCheckOther(h, r, "insert")
    PROVE  IInv'
<1>1. "register" \in Op \ {"refresh", "serve", "logout"}
  BY DEF Op
<1>2. ASSUME NEW e \in Emails, RegisterCheckOwn(h, r, e)
      PROVE  IInv'
  BY <1>1, <1>2, PcPlain, BeginQuiet DEF RegisterCheckOwn
<1>3. ASSUME RegisterCheckOther(h, r, "phone") \/ RegisterCheckOther(h, r, "insert")
      PROVE  IInv'
  BY <1>3, PcPlain, GotoIfQuiet DEF RegisterCheckOther, GotoIf
<1> QED
  BY <1>2, <1>3

LEMMA GoogleOK ==
    ASSUME IInv, NEW h \in Handlers, NEW op \in {"google", "unified"},
           NEW r \in Role, NEW e \in Emails,
           GoogleExisting(h, op, r, e) \/ GoogleNew(h, op, r, e)
    PROVE  IInv'
<1>1. op \in Op \ {"refresh", "serve", "logout"}
  BY DEF Op
<1>2. CASE GoogleNew(h, op, r, e)
  BY <1>1, <1>2, PcPlain, BeginProving DEF GoogleNew
<1>3. CASE GoogleExisting(h, op, r, e)
  <2>1. CASE Begin(h, op, "open", r, e)
    BY <1>1, <1>3, <2>1, PcPlain, BeginProving DEF GoogleExisting
  <2>2. CASE auth[r][e].live
             /\ BeginSave(h, op, r, e, [auth[r][e] EXCEPT !.verified = TRUE])
    <3> DEFINE m == [auth[r][e] EXCEPT !.verified = TRUE]
    <3>1. m \in AuthRow /\ m.live
      BY <2>2, AuthTyped, VerifiedRow
    <3> HIDE DEF m
    <3>2. proved' = proved \cup {e}
      BY <1>3 DEF GoogleExisting
    <3>3. ReqOK([Idle EXCEPT !.op = op, !.pc = "reload", !.role = r, !.email = e,
                             !.mem = m], proved', session)
      BY <1>1, <3>1, <3>2, BegunSaveOK
    <3>4. req' = [req EXCEPT ![h] = [Idle EXCEPT !.op = op, !.pc = "reload",
                                         !.role = r, !.email = e, !.mem = m]]
      BY <2>2 DEF BeginSave, m
    <3>5. UNCHANGED <<auth, session, cached, revoked, refreshRevoked, refreshed,
                      codes, resetToken, closed>>
      BY <1>3 DEF GoogleExisting, tables, tokens, mails
    <3> QED
      BY <3>2, <3>3, <3>4, <3>5, Proving
  <2> QED
    BY <1>3, <2>1, <2>2 DEF GoogleExisting
<1> QED
  BY <1>2, <1>3

LEMMA GoogleOtherOK ==
    ASSUME IInv, NEW h \in Handlers, NEW ops, NEW r, GoogleCheckOther(h, ops, r)
    PROVE  IInv'
  BY PcPlain, GotoIfQuiet DEF GoogleCheckOther, GotoIf

LEMMA RefreshOK ==
    ASSUME IInv, NEW h \in Handlers, NEW r \in Role, NEW s \in Sids,
           NEW copy \in {"plain", "withRefresh"}, r # js => copy = "plain",
           NEW allowed,
           \/ RefreshStart(h, r, s) \/ RefreshBlacklist(h, r) \/ RefreshRow(h, r)
           \/ RefreshAccount(h, r, allowed) \/ RefreshTouch(h, r)
           \/ RefreshRenew(h, r, copy)
    PROVE  IInv'
<1>1. CASE RefreshStart(h, r, s)
  BY <1>1, PcPlain, BeginSessionQuiet DEF RefreshStart
<1>2. CASE RefreshBlacklist(h, r)
  BY <1>2, PcPlain, GotoIfQuiet DEF RefreshBlacklist, GotoIf
<1>3. CASE RefreshRow(h, r)
  <2> DEFINE R == [req[h] EXCEPT !.pc = "account", !.live = session[req[h].sid].active]
  <2>1. CASE Answer(h)
    BY <1>3, <2>1, AnswerQuiet DEF RefreshRow
  <2>2. CASE req' = [req EXCEPT ![h].pc = "account",
                                ![h].live = session[req[h].sid].active]
    <3>1. session[req[h].sid].active \in BOOLEAN
      BY ReqTyped, Split DEF RowsOK, SessionRow
    <3>2. R \in Request /\ R.pc = "account" /\ R.op = req[h].op
            /\ R.mem = req[h].mem /\ R.email = req[h].email /\ R.sid = req[h].sid
            /\ R.role = req[h].role
      BY <3>1, ReqTyped, ZenonT(60) DEF Request, Pc
    <3>3. req' = [req EXCEPT ![h] = R]
      BY <2>2, ReqTyped
    <3>4. ReqOK(req[h], proved, session)
      BY ReqTyped
    <3> HIDE DEF R
    <3>5. ReqOK(R, proved, session)
      BY <3>2, <3>4 DEF ReqOK
    <3> QED
      BY <1>3, <3>3, <3>5, Quiet DEF RefreshRow, tables, tokens, mails, history
  <2> QED
    BY <1>3, <2>1, <2>2 DEF RefreshRow
<1>4. CASE RefreshAccount(h, r, allowed)
  BY <1>4, PcPlain, GotoIfQuiet DEF RefreshAccount, GotoIf
<1>5. CASE RefreshTouch(h, r)
  <2> DEFINE n == [session[req[h].sid] EXCEPT !.active = req[h].live]
             R == [req[h] EXCEPT !.pc = "renew"]
  <2>1. req[h].sid \in Sids /\ session \in [Sids -> SessionRow] /\ req[h].live \in BOOLEAN
    BY ReqTyped, Split DEF RowsOK, Request
  <2>2. n \in SessionRow /\ n.role = session[req[h].sid].role
          /\ n.email = session[req[h].sid].email
    BY <2>1 DEF SessionRow
  <2>3. ReqOK(R, proved, session)
    BY ReqTyped, ReqGoes, PcPlain
  <2>4. session' = [session EXCEPT ![req[h].sid] = n] /\ req' = [req EXCEPT ![h] = R]
        /\ UNCHANGED <<auth, cached, revoked, refreshRevoked, refreshed, codes,
                       resetToken, proved, closed>>
    BY <1>5, <2>1, ReqTyped DEF RefreshTouch, Goto, tokens, mails, history
  <2> HIDE DEF n, R
  <2> QED
    BY <2>1, <2>2, <2>3, <2>4, RowChanges
<1>6. CASE RefreshRenew(h, r, copy)
  <2>1. session[req[h].sid].role = req[h].role /\ req[h].role = r
          /\ req[h].sid \in Sids
    BY <1>6, ReqTyped DEF RefreshRenew, At, ReqOK
  <2>2. copy \in RedisSession /\ (req[h].role # js => copy # "withRefresh")
    BY <2>1 DEF RedisSession
  <2>3. r # "none"
    BY DEF Role
  <2>4. TokensOK(revoked, refreshRevoked, refreshed \cup {req[h].sid}, session)
    BY <2>1, <2>3, Split DEF TokensOK
  <2>5. /\ cached' = [cached EXCEPT ![req[h].sid] = copy]
        /\ req' = [req EXCEPT ![h] = Idle] /\ refreshed' = refreshed \cup {req[h].sid}
        /\ UNCHANGED <<auth, session, codes, resetToken, proved, closed, revoked,
                       refreshRevoked>>
    BY <1>6 DEF RefreshRenew, Answer, tables, mails, history
  <2> QED
    BY <2>1, <2>2, <2>4, <2>5, SomeOK, CachedOK
<1> QED
  BY <1>1, <1>2, <1>3, <1>4, <1>5, <1>6

LEMMA GuardOK ==
    ASSUME IInv, NEW h \in Handlers, NEW r \in Role,
           NEW next \in {"gAccount", "granted"},
           \/ \E op \in {"serve", "logout"}, s \in Sids, t \in {"first", "renewed"} :
                 GuardStart(h, op, r, s, t)
           \/ ValidateCopy(h, r) \/ ValidateRow(h, r, next) \/ ValidateEvict(h, r)
           \/ GuardAccount(h, r) \/ Served(h)
    PROVE  IInv'
<1>1. ASSUME NEW op \in {"serve", "logout"}, NEW s \in Sids,
             NEW t \in {"first", "renewed"}, GuardStart(h, op, r, s, t)
      PROVE  IInv'
  BY <1>1, PcPlain, BeginSessionQuiet DEF GuardStart
<1>2. CASE ValidateCopy(h, r)
  BY <1>2, PcPlain, GotoIfQuiet DEF ValidateCopy, GotoIf
<1>3. CASE ValidateRow(h, r, next)
  BY <1>3, PcPlain, GotoQuiet DEF ValidateRow
<1>4. CASE ValidateEvict(h, r)
  BY <1>4, SomeOK, EvictOK DEF ValidateEvict, Answer, tables, mails, history
<1>5. CASE GuardAccount(h, r)
  BY <1>5, PcPlain, GotoIfQuiet DEF GuardAccount, GotoIf
<1>6. CASE Served(h)
  BY <1>6, AnswerQuiet DEF Served
<1> QED
  BY <1>1, <1>2, <1>3, <1>4, <1>5, <1>6
LEMMA LogoutOK ==
    ASSUME IInv, NEW h \in Handlers, NEW r \in Role,
           \/ LogoutRead(h, r)
           \/ \E pc \in {"lAccess", "granted"}, next \in {"lRefresh", "lUncache"} :
                 LogoutAccess(h, r, pc, next)
           \/ LogoutRefresh(h, r) \/ LogoutUncache(h, r) \/ LogoutClose(h, r)
    PROVE  IInv'
<1> DEFINE known == cached[req[h].sid] = "withRefresh"
<1>0. /\ ReqOK(req[h], proved, session)
      /\ TokensOK(revoked, refreshRevoked, refreshed, session)
      /\ req[h].sid \in Sids /\ req[h].role # "none"
  BY ReqTyped, Split DEF Role
<1>1. CASE LogoutRead(h, r)
  <2> DEFINE R == [req[h] EXCEPT !.pc = "lAccess", !.known = known]
  <2>1. R \in Request /\ R.pc = "lAccess" /\ R.op = req[h].op /\ R.mem = req[h].mem
          /\ R.email = req[h].email /\ R.sid = req[h].sid /\ R.role = req[h].role
    BY ReqTyped, ZenonT(60) DEF Request, Pc
  <2>2. req' = [req EXCEPT ![h] = R]
    BY <1>1, ReqTyped DEF LogoutRead
  <2> HIDE DEF R
  <2>3. ReqOK(R, proved, session)
    BY <1>0, <2>1 DEF ReqOK
  <2> QED
    BY <1>1, <2>2, <2>3, Quiet DEF LogoutRead, tables, tokens, mails, history
<1>2. ASSUME NEW pc \in {"lAccess", "granted"}, NEW next \in {"lRefresh", "lUncache"},
             LogoutAccess(h, r, pc, next)
      PROVE  IInv'
  <2>1. ReqsOK(req', proved, session)
    BY <1>2, PcPlain, GoneOn DEF LogoutAccess
  <2>2. session[req[h].sid].role # "none"
    BY <1>0, <1>2 DEF LogoutAccess, At, ReqOK
  <2>3. <<req[h].sid, req[h].tok>> \in Token
    BY <1>0, ReqTyped DEF Token
  <2>4. TokensOK(revoked \cup {<<req[h].sid, req[h].tok>>}, refreshRevoked, refreshed,
                 session)
    BY <1>0, <2>2, <2>3 DEF TokensOK
  <2>5. revoked' = revoked \cup {<<req[h].sid, req[h].tok>>}
        /\ UNCHANGED <<auth, session, cached, codes, resetToken, proved, closed,
                       refreshRevoked, refreshed>>
    BY <1>2 DEF LogoutAccess, tables, mails, history
  <2> QED
    BY <2>1, <2>4, <2>5, TokensChange
<1>3. CASE LogoutRefresh(h, r)
  <2>1. ReqsOK(req', proved, session)
    BY <1>3, PcPlain, GoneOn DEF LogoutRefresh
  <2>2. session[req[h].sid].role # "none"
    BY <1>0, <1>3 DEF LogoutRefresh, At, ReqOK
  <2>3. TokensOK(revoked, refreshRevoked \cup {req[h].sid}, refreshed, session)
    BY <1>0, <2>2 DEF TokensOK
  <2>4. refreshRevoked' = refreshRevoked \cup {req[h].sid}
        /\ UNCHANGED <<auth, session, cached, codes, resetToken, proved, closed,
                       revoked, refreshed>>
    BY <1>3 DEF LogoutRefresh, tables, mails, history
  <2> QED
    BY <2>1, <2>3, <2>4, TokensChange
<1>4. CASE LogoutUncache(h, r)
  <2> DEFINE R == [req[h] EXCEPT !.pc = "lClose"]
  <2>1. ReqOK(R, proved, session)
    BY ReqTyped, ReqGoes, PcPlain
  <2>2. req' = [req EXCEPT ![h] = R]
    BY <1>4, ReqTyped DEF LogoutUncache, Goto
  <2> HIDE DEF R
  <2> QED
    BY <1>4, <2>1, <2>2, EvictOK DEF LogoutUncache, tables, mails, history
<1>5. CASE LogoutClose(h, r)
  <2> DEFINE n == [session[req[h].sid] EXCEPT !.active = FALSE]
  <2>1. session \in [Sids -> SessionRow]
    BY Split DEF RowsOK
  <2>2. n \in SessionRow /\ n.role = session[req[h].sid].role
          /\ n.email = session[req[h].sid].email
    BY <1>0, <2>1 DEF SessionRow
  <2>3. session' = [session EXCEPT ![req[h].sid] = n] /\ req' = [req EXCEPT ![h] = Idle]
        /\ closed' = closed \cup {req[h].sid}
        /\ UNCHANGED <<auth, cached, revoked, refreshRevoked, refreshed, codes,
                       resetToken, proved>>
    BY <1>5, <1>0, <2>1 DEF LogoutClose, Answer, tokens, mails
  <2> HIDE DEF n
  <2> QED
    BY <1>0, <2>2, <2>3, SomeOK, RowChanges
<1> QED
  BY <1>1, <1>2, <1>3, <1>4, <1>5

LEMMA SendCodeOK ==
    ASSUME IInv, NEW h \in Handlers,
           \/ \E op \in {"sendCode", "sendReset"}, r \in Role, e \in Emails :
                 SendCodeStart(h, op, r, e)
           \/ CodeRead(h) \/ CodeStore(h)
    PROVE  IInv'
<1>1. ASSUME NEW op \in {"sendCode", "sendReset"}, NEW r \in Role, NEW e \in Emails,
             SendCodeStart(h, op, r, e)
      PROVE  IInv'
  <2>1. op \in Op \ {"refresh", "serve", "logout"} /\ op \notin {"google", "unified", "verify"}
    BY DEF Op
  <2> QED
    BY <1>1, <2>1, PcPlain, BeginQuiet DEF SendCodeStart
<1>2. CASE CodeRead(h)
  <2>1. CASE EndOfCode(h)
    BY <1>2, <2>1, PcPlain, GotoIfQuiet DEF CodeRead, EndOfCode, GotoIf
  <2>2. CASE Goto(h, "codeStore")
    BY <1>2, <2>2, PcPlain, GotoQuiet DEF CodeRead
  <2> QED
    BY <1>2, <2>1, <2>2 DEF CodeRead
<1>3. CASE CodeStore(h)
  <2>1. ReqsOK(req', proved, session)
    BY <1>3, PcPlain, GoneOn, Answered DEF CodeStore, EndOfCode, GotoIf
  <2>2. PICK c \in CodeValues : codes' = [codes EXCEPT ![CodeKey(h)] = c]
    BY <1>3 DEF CodeStore
  <2>3. CodeKey(h) \in CodeKeys /\ c \in Code
    BY ReqTyped, KeysOK DEF CodeKey, Code
  <2>4. resetToken' \subseteq ResetTokens
        /\ UNCHANGED <<auth, session, cached, revoked, refreshRevoked, refreshed,
                       proved, closed>>
    BY <1>3, Split DEF CodeStore, MailsOK, tables, tokens, history
  <2> QED
    BY <2>1, <2>2, <2>3, <2>4, OneCodeOK
<1> QED
  BY <1>1, <1>2, <1>3

LEMMA NoCodeOK == "none" \in Code
  BY DEF Code

LEMMA VerifyOK ==
    ASSUME IInv, NEW h \in Handlers, NEW r \in Role,
           \/ \E e \in Emails, c \in CodeValues : VerifyCode(h, r, e, c)
           \/ VerifyLoad(h, r) \/ VerifyDelCode(h, r)
    PROVE  IInv'
<1>1. ASSUME NEW e \in Emails, NEW c \in CodeValues, VerifyCode(h, r, e, c)
      PROVE  IInv'
  <2>1. "verify" \in Op \ {"refresh", "serve", "logout"}
    BY DEF Op
  <2>2. proved' = proved \cup {e}
    BY <1>1 DEF VerifyCode, CodeProves
  <2> QED
    BY <1>1, <2>1, <2>2, PcPlain, BeginProving DEF VerifyCode
<1>2. CASE VerifyLoad(h, r)
  <2>1. CASE ~Account(h).live
    BY <1>2, <2>1, AnswerQuiet DEF VerifyLoad
  <2>2. CASE Account(h).live
    <3> DEFINE m == [Account(h) EXCEPT !.verified = TRUE]
               R == [req[h] EXCEPT !.pc = "reload", !.mem = m]
    <3>1. m \in AuthRow /\ m.live
      BY <2>2, AccountTyped, VerifiedRow
    <3>2. req' = [req EXCEPT ![h] = R]
      BY <1>2, <2>2, ReqTyped DEF VerifyLoad
    <3>3. ReqOK(req[h], proved, session) /\ req[h].op = "verify"
      BY <1>2, ReqTyped DEF VerifyLoad, At
    <3> HIDE DEF m
    <3>4. R \in Request /\ R.pc = "reload" /\ R.op = "verify" /\ R.mem = m
            /\ R.email = req[h].email /\ R.sid = req[h].sid /\ R.role = req[h].role
      BY <3>1, <3>3, ReqTyped, ZenonT(60) DEF Request, Pc
    <3> HIDE DEF R
    <3>5. ReqOK(R, proved, session)
      BY <3>1, <3>3, <3>4 DEF ReqOK
    <3> QED
      BY <1>2, <3>2, <3>5, Quiet DEF VerifyLoad, tables, tokens, mails, history
  <2> QED
    BY <2>1, <2>2
<1>3. CASE VerifyDelCode(h, r)
  <2>1. ReqsOK(req', proved, session)
    BY <1>3, PcPlain, GoneOn DEF VerifyDelCode
  <2>2. VerifyKey(req[h].email) \in CodeKeys
    BY ReqTyped, KeysOK
  <2>3. codes' = [codes EXCEPT ![VerifyKey(req[h].email)] = "none"]
        /\ resetToken' \subseteq ResetTokens
        /\ UNCHANGED <<auth, session, cached, revoked, refreshRevoked, refreshed,
                       proved, closed>>
    BY <1>3, Split DEF VerifyDelCode, MailsOK, tables, tokens, history
  <2> QED
    BY <2>1, <2>2, <2>3, NoCodeOK, OneCodeOK
<1> QED
  BY <1>1, <1>2, <1>3

LEMMA ResetOK ==
    ASSUME IInv, NEW h \in Handlers, NEW r \in Role,
           \/ \E e \in Emails, c \in CodeValues : ConfirmCode(h, r, e, c)
           \/ ConfirmDelCode(h, r)
           \/ \E e \in Emails, p \in Pwds :
                 \/ ResetLoad(h, r, e, [auth[r][e] EXCEPT !.pwd = p])
                 \/ ResetLoad(h, r, e, [auth[r][e] EXCEPT !.pwd = p, !.changed = TRUE])
           \/ \E op \in {"reset", "defaultPwd"} : CloseAll(h, r, {op})
    PROVE  IInv'
<1>1. ASSUME NEW e \in Emails, NEW c \in CodeValues, ConfirmCode(h, r, e, c)
      PROVE  IInv'
  <2>1. "confirmReset" \in Op \ {"refresh", "serve", "logout"}
    BY DEF Op
  <2> QED
    BY <1>1, <2>1, PcPlain, BeginQuiet DEF ConfirmCode
<1>2. CASE ConfirmDelCode(h, r)
  <2>1. ReqsOK(req', proved, session)
    BY <1>2, Answered DEF ConfirmDelCode
  <2>2. ResetKey(r, req[h].email) \in CodeKeys
    BY ReqTyped, KeysOK
  <2>3. <<r, req[h].email>> \in ResetTokens
    BY ReqTyped DEF ResetTokens
  <2>4. codes' = [codes EXCEPT ![ResetKey(r, req[h].email)] = "none"]
        /\ resetToken' = resetToken \cup {<<r, req[h].email>>}
        /\ resetToken \subseteq ResetTokens
        /\ UNCHANGED <<auth, session, cached, revoked, refreshRevoked, refreshed,
                       proved, closed>>
    BY <1>2, Split DEF ConfirmDelCode, MailsOK, tables, tokens, history
  <2>5. resetToken' \subseteq ResetTokens
    BY <2>3, <2>4
  <2> QED
    BY <2>1, <2>2, <2>4, <2>5, NoCodeOK, OneCodeOK
<1>3. ASSUME NEW e \in Emails, NEW m \in AuthRow, m.live, m.verified => e \in proved,
             ResetLoad(h, r, e, m)
      PROVE  IInv'
  <2>1. "reset" \in Op \ {"refresh", "serve", "logout"}
    BY DEF Op
  <2> QED
    BY <1>3, <2>1, BeginSaveQuiet DEF ResetLoad
<1>4. ASSUME NEW e \in Emails, NEW p \in Pwds, auth[r][e].live
      PROVE  LET m == [auth[r][e] EXCEPT !.pwd = p]
                 n == [auth[r][e] EXCEPT !.pwd = p, !.changed = TRUE]
             IN  /\ m \in AuthRow /\ m.live /\ (m.verified => e \in proved)
                 /\ n \in AuthRow /\ n.live /\ (n.verified => e \in proved)
  BY <1>4, AuthTyped DEF AuthRow
<1>5. ASSUME NEW op \in {"reset", "defaultPwd"}, CloseAll(h, r, {op})
      PROVE  IInv'
  <2> DEFINE own == OwnSessions(r, req[h].email)
  <2>1. session \in [Sids -> SessionRow] /\ closed \subseteq Sids /\ own \subseteq Sids
    BY Split DEF RowsOK, MailsOK, OwnSessions
  <2>2. /\ session' = [x \in Sids |-> IF x \in own
                                     THEN [session[x] EXCEPT !.active = FALSE]
                                     ELSE session[x]]
        /\ closed' = closed \cup own /\ req' = [req EXCEPT ![h] = Idle]
        /\ UNCHANGED <<auth, cached, revoked, refreshRevoked, refreshed, codes,
                       resetToken, proved>>
    BY <1>5 DEF CloseAll, Answer, tokens, mails
  <2> HIDE DEF own
  <2>3. session' \in [Sids -> SessionRow]
          /\ \A x \in Sids : session'[x].role = session[x].role
                               /\ session'[x].email = session[x].email
    BY <2>1, <2>2 DEF SessionRow
  <2>4. Grown(session, session')
    BY <2>3 DEF Grown
  <2>5. ReqsOK(req', proved, session')
    BY <2>2, <2>4, SomeOK, Split, Reqs
  <2>6. closed' \in SUBSET Sids
    BY <2>1, <2>2
  <2> QED
    BY <2>2, <2>3, <2>5, <2>6, RowsChange
<1>6. ASSUME NEW e \in Emails, NEW p \in Pwds,
             \/ ResetLoad(h, r, e, [auth[r][e] EXCEPT !.pwd = p])
             \/ ResetLoad(h, r, e, [auth[r][e] EXCEPT !.pwd = p, !.changed = TRUE])
      PROVE  IInv'
  <2>1. auth[r][e].live
    BY <1>6 DEF ResetLoad
  <2> QED
    BY <1>3, <1>4, <1>6, <2>1
<1> QED
  BY <1>1, <1>2, <1>5, <1>6

LEMMA TimeOK ==
    ASSUME IInv, TimePasses
    PROVE  IInv'
<1>1. ASSUME NEW k \in CodeKeys, CodeExpires(k)
      PROVE  IInv'
  <2>1. codes' = [codes EXCEPT ![k] = "none"] /\ resetToken' \subseteq ResetTokens
        /\ ReqsOK(req', proved, session)
        /\ UNCHANGED <<auth, session, cached, revoked, refreshRevoked, refreshed,
                       proved, closed>>
    BY <1>1, Split DEF CodeExpires, MailsOK, tables, tokens, history
  <2> QED
    BY <2>1, NoCodeOK, OneCodeOK
<1>2. ASSUME NEW a \in ResetTokens, ResetTokenExpires(a)
      PROVE  IInv'
  <2>1. codes' \in [CodeKeys -> Code] /\ resetToken' \subseteq ResetTokens
        /\ ReqsOK(req', proved, session)
        /\ UNCHANGED <<auth, session, cached, revoked, refreshRevoked, refreshed,
                       proved, closed>>
    BY <1>2, Split DEF ResetTokenExpires, MailsOK, tables, tokens, history
  <2> QED
    BY <2>1, MailsChange
<1>3. ASSUME NEW s \in Sids, RedisSessionExpires(s)
      PROVE  IInv'
  <2>1. RowsOK(auth, session, cached, proved)
    BY Split
  <2>2. RowsOK(auth, session, cached', proved)
    BY <1>3, <2>1 DEF RedisSessionExpires, RowsOK, RedisSession
  <2> QED
    BY <1>3, <2>2, Split, SplitNext DEF RedisSessionExpires, tables, mails, history
<1>4. ASSUME NEW t \in Token, BlacklistExpires(t)
      PROVE  IInv'
  <2>1. TokensOK(revoked, refreshRevoked, refreshed, session) /\ ReqsOK(req, proved, session)
    BY Split
  <2>2. TokensOK(revoked \ {t}, refreshRevoked, refreshed, session)
    BY <2>1 DEF TokensOK
  <2>3. revoked' = revoked \ {t} /\ req' = req
        /\ UNCHANGED <<auth, session, cached, codes, resetToken, proved, closed,
                       refreshRevoked, refreshed>>
    BY <1>4 DEF BlacklistExpires, tables, mails, history
  <2> QED
    BY <2>1, <2>2, <2>3, TokensChange
<1>5. ASSUME NEW s \in Sids, SessionExpires(s)
      PROVE  IInv'
  <2>1. session \in [Sids -> SessionRow] /\ closed \in SUBSET Sids
    BY Split DEF RowsOK, MailsOK
  <2>2. session' = [session EXCEPT ![s].expired = TRUE] /\ closed' = closed /\ req' = req
        /\ UNCHANGED <<auth, cached, revoked, refreshRevoked, refreshed, codes,
                       resetToken, proved>>
    BY <1>5 DEF SessionExpires, tokens, mails, history
  <2>3. session' \in [Sids -> SessionRow]
          /\ \A x \in Sids : session'[x].role = session[x].role
                               /\ session'[x].email = session[x].email
    BY <2>1, <2>2 DEF SessionRow
  <2>4. Grown(session, session')
    BY <2>3 DEF Grown
  <2>5. ReqsOK(req', proved, session')
    <3>1. ReqsOK(req, proved, session)
      BY Split
    <3>2. \A g \in Handlers : ReqOK(req[g], proved, session')
      BY <2>4, <3>1, ReqGrows DEF ReqsOK
    <3> QED
      BY <2>2, <3>1, <3>2 DEF ReqsOK
  <2> QED
    BY <2>1, <2>2, <2>3, <2>5, RowsChange
<1> QED
  BY <1>1, <1>2, <1>3, <1>4, <1>5 DEF TimePasses
-----------------------------------------------------------------------------
\* What is a role's own.
LEMMA TokensMade ==
    ASSUME IInv, NEW h \in Handlers, JsTokens(h) \/ EmTokens(h) \/ AdTokens(h)
    PROVE  IInv'
<1>1. "jobseeker" \in Role /\ "employer" \in Role /\ "admin" \in Role
        /\ "employer" # "jobseeker" /\ "admin" # "jobseeker"
  BY DEF Role
<1> QED
  BY <1>1, GenerateTokensOK, StoreOK DEF JsTokens, EmTokens, AdTokens, js, em, ad

LEMMA RolesOK == js \in Role /\ em \in Role /\ ad \in Role /\ em # js /\ ad # js
  BY DEF Role, js, em, ad

LEMMA JsRegisterPhoneOK ==
    ASSUME IInv, NEW h \in Handlers, JsRegisterPhone(h)
    PROVE  IInv'
  BY PcPlain, GotoIfQuiet DEF JsRegisterPhone

\* A request that has an entity m to save.
LEMMA EntityLoaded ==
    ASSUME NEW q \in Request, NEW m \in AuthRow
    PROVE  LET R == [q EXCEPT !.pc = "reload", !.mem = m] IN
           /\ R \in Request /\ R.pc = "reload" /\ R.mem = m
           /\ R.op = q.op /\ R.role = q.role /\ R.email = q.email /\ R.sid = q.sid
<1> DEFINE R == [q EXCEPT !.pc = "reload", !.mem = m]
<1>1. "reload" \in Pc
  BY DEF Pc
<1>2. R \in Request
  BY <1>1 DEF Request
<1>3. R.pc = "reload" /\ R.mem = m /\ R.op = q.op /\ R.role = q.role
        /\ R.email = q.email /\ R.sid = q.sid
  BY DEF Request
<1> QED
  BY <1>2, <1>3

LEMMA UnifiedOK ==
    ASSUME IInv, NEW h \in Handlers, UnifiedOther(h) \/ UnifiedEmployer(h)
    PROVE  IInv'
<1>0. ReqOK(req[h], proved, session)
  BY ReqTyped
<1>1. ASSUME UnifiedOther(h), req' = [req EXCEPT ![h].role = "employer", ![h].pc = "own"]
      PROVE  IInv'
  <2> DEFINE R == [req[h] EXCEPT !.role = "employer", !.pc = "own"]
  <2>1. R \in Request /\ R.pc = "own" /\ R.op = req[h].op /\ R.mem = req[h].mem
          /\ R.email = req[h].email
    BY ReqTyped, ZenonT(60) DEF Request, Pc, Role
  <2>2. req' = [req EXCEPT ![h] = R] /\ req[h].op = "unified"
    BY <1>1, ReqTyped DEF UnifiedOther, At
  <2> HIDE DEF R
  <2>3. ReqOK(R, proved, session)
    BY <1>0, <2>1, <2>2 DEF ReqOK
  <2> QED
    BY <1>1, <2>2, <2>3, Quiet DEF UnifiedOther, tables, tokens, mails, history
<1>2. ASSUME UnifiedOther(h), Goto(h, "insert")
      PROVE  IInv'
  BY <1>2, PcPlain, GotoQuiet DEF UnifiedOther
<1>3. ASSUME UnifiedEmployer(h), Goto(h, "open") \/ Answer(h)
      PROVE  IInv'
  BY <1>3, PcPlain, GotoIfQuiet DEF UnifiedEmployer
<1>4. ASSUME UnifiedEmployer(h),
             req' = [req EXCEPT ![h].pc = "reload",
                                ![h].mem = [Account(h) EXCEPT !.verified = TRUE]]
      PROVE  IInv'
  <2> DEFINE m == [Account(h) EXCEPT !.verified = TRUE]
             R == [req[h] EXCEPT !.pc = "reload", !.mem = m]
  <2>1. m \in AuthRow /\ m.live
    BY <1>4, AccountTyped, VerifiedRow DEF UnifiedEmployer
  <2>2. req' = [req EXCEPT ![h] = R] /\ req[h].op = "unified"
    BY <1>4, ReqTyped DEF UnifiedEmployer, At
  <2> HIDE DEF m
  <2>3. R \in Request /\ R.pc = "reload" /\ R.op = req[h].op /\ R.mem = m
          /\ R.email = req[h].email
    BY <2>1, ReqTyped, EntityLoaded, ZenonT(60)
  <2> HIDE DEF R
  <2>4. ReqOK(R, proved, session)
    BY <1>0, <2>1, <2>2, <2>3 DEF ReqOK
  <2> QED
    BY <1>4, <2>2, <2>4, Quiet DEF UnifiedEmployer, tables, tokens, mails, history
<1> QED
  BY <1>1, <1>2, <1>3, <1>4 DEF UnifiedOther, UnifiedEmployer, GotoIf

LEMMA DefaultPasswordOK ==
    ASSUME IInv, NEW h \in Handlers, NEW e \in Emails, NEW p \in Pwds,
           AdRequestChange(h, e, p) \/ AdCompleteChange(h, e, p)
    PROVE  IInv'
<1>1. CASE AdRequestChange(h, e, p)
  <2>1. resetToken' \subseteq ResetTokens /\ codes' \in [CodeKeys -> Code]
          /\ ReqsOK(req', proved, session)
    BY <1>1, Split DEF AdRequestChange, ResetTokens, MailsOK
  <2> QED
    BY <1>1, <2>1, MailsChange DEF AdRequestChange, tables, tokens, history
<1>2. CASE AdCompleteChange(h, e, p)
  <2> DEFINE m == [auth["admin"][e] EXCEPT !.pwd = p, !.changed = TRUE]
  <2>1. "admin" \in Role /\ "defaultPwd" \in Op \ {"refresh", "serve", "logout"}
    BY DEF Role, Op
  <2>2. auth["admin"][e].live /\ BeginSave(h, "defaultPwd", "admin", e, m)
        /\ UNCHANGED <<tables, tokens, mails, history>>
    BY <1>2 DEF AdCompleteChange, ad
  <2>3. m \in AuthRow /\ m.live /\ (m.verified => e \in proved)
    BY <2>1, <2>2, AuthTyped DEF AuthRow
  <2> HIDE DEF m
  <2> QED
    BY <2>1, <2>2, <2>3, BeginSaveQuiet
<1> QED
  BY <1>1, <1>2

LEMMA AdministrationOK ==
    ASSUME IInv, NEW h \in Handlers, NEW e \in Emails,
           \/ CreateAdmin(h, e) \/ CreateAdminInsert(h) \/ MailSent(h)
           \/ \E r \in {js, ad}, to \in BOOLEAN : SetSuspended(h, r, e, to)
    PROVE  IInv'
<1>1. CASE CreateAdmin(h, e)
  <2>1. "createAdmin" \in Op \ {"refresh", "serve", "logout"}
    BY DEF Op
  <2> QED
    BY <1>1, <2>1, RolesOK, PcPlain, BeginQuiet DEF CreateAdmin
<1>2. CASE CreateAdminInsert(h)
  BY <1>2, RolesOK, PcPlain, InsertAccountOK DEF CreateAdminInsert
<1>3. CASE MailSent(h)
  BY <1>3, AnswerQuiet DEF MailSent
<1>4. ASSUME NEW r \in {js, ad}, NEW to \in BOOLEAN, SetSuspended(h, r, e, to)
      PROVE  IInv'
  <2> DEFINE m == [auth[r][e] EXCEPT !.suspended = to]
             op == IF to THEN "suspend" ELSE "unsuspend"
  <2>1. op \in Op \ {"refresh", "serve", "logout"} /\ op \notin {"google", "unified", "verify"}
        /\ r \in Role
    BY RolesOK DEF Op
  <2>2. auth[r][e].live /\ BeginSave(h, op, r, e, m)
        /\ UNCHANGED <<tables, tokens, mails, history>>
    BY <1>4 DEF SetSuspended
  <2>3. m \in AuthRow /\ m.live /\ (m.verified => e \in proved)
    BY <2>1, <2>2, AuthTyped DEF AuthRow
  <2> HIDE DEF m, op
  <2> QED
    BY <2>1, <2>2, <2>3, BeginSaveQuiet
<1> QED
  BY <1>1, <1>2, <1>3, <1>4

-----------------------------------------------------------------------------
\* One lemma for each half of Next.
LEMMA UserStartOK ==
    ASSUME IInv, NEW h \in Handlers, UserStart(h)
    PROVE  IInv'
<1>1. CASE JobseekerAuthStart(h)
  <2>1. ASSUME NEW e \in Emails,
               JsRegister(h, e) \/ JsGoogle(h, e) \/ Unified(h, e)
               \/ JsSendCode(h, e) \/ JsSendReset(h, e)
        PROVE  IInv'
    BY <2>1, RolesOK, RegisterOK, GoogleOK, SendCodeOK
    DEF JsRegister, JsGoogle, Unified, JsSendCode, JsSendReset
  <2>2. ASSUME NEW e \in Emails, NEW p \in Pwds, JsLogin(h, e, p) \/ JsReset(h, e, p)
        PROVE  IInv'
    BY <2>2, RolesOK, LoginOK, ResetOK DEF JsLogin, JsReset
  <2>3. ASSUME NEW e \in Emails, NEW c \in CodeValues,
               JsVerify(h, e, c) \/ JsConfirmReset(h, e, c)
        PROVE  IInv'
    BY <2>3, RolesOK, VerifyOK, ResetOK DEF JsVerify, JsConfirmReset
  <2>4. ASSUME NEW s \in Sids, JsRefresh(h, s)
        PROVE  IInv'
    BY <2>4, RolesOK, RefreshOK DEF JsRefresh
  <2>5. ASSUME NEW s \in Sids, NEW op \in {"serve", "logout"},
               NEW t \in {"first", "renewed"}, JsGuard(h, op, s, t)
        PROVE  IInv'
    BY <2>5, RolesOK, GuardOK DEF JsGuard
  <2> QED
    BY <1>1, <2>1, <2>2, <2>3, <2>4, <2>5 DEF JobseekerAuthStart
<1>2. CASE EmployerAuthStart(h)
  <2>1. ASSUME NEW e \in Emails,
               EmRegister(h, e) \/ EmGoogle(h, e) \/ EmSendCode(h, e) \/ EmSendReset(h, e)
        PROVE  IInv'
    BY <2>1, RolesOK, RegisterOK, GoogleOK, SendCodeOK
    DEF EmRegister, EmGoogle, EmSendCode, EmSendReset
  <2>2. ASSUME NEW e \in Emails, NEW p \in Pwds, EmLogin(h, e, p) \/ EmReset(h, e, p)
        PROVE  IInv'
    BY <2>2, RolesOK, LoginOK, ResetOK DEF EmLogin, EmReset
  <2>3. ASSUME NEW e \in Emails, NEW c \in CodeValues,
               EmVerify(h, e, c) \/ EmConfirmReset(h, e, c)
        PROVE  IInv'
    BY <2>3, RolesOK, VerifyOK, ResetOK DEF EmVerify, EmConfirmReset
  <2>4. ASSUME NEW s \in Sids, EmRefresh(h, s)
        PROVE  IInv'
    BY <2>4, RolesOK, RefreshOK DEF EmRefresh
  <2>5. ASSUME NEW s \in Sids, NEW op \in {"serve", "logout"},
               NEW t \in {"first", "renewed"}, EmGuard(h, op, s, t)
        PROVE  IInv'
    BY <2>5, RolesOK, GuardOK DEF EmGuard
  <2> QED
    BY <1>2, <2>1, <2>2, <2>3, <2>4, <2>5 DEF EmployerAuthStart
<1>3. ASSUME NEW e \in Emails, SuspendJobseeker(h, e) \/ UnsuspendJobseeker(h, e)
      PROVE  IInv'
  BY <1>3, AdministrationOK DEF SuspendJobseeker, UnsuspendJobseeker
<1> QED
  BY <1>1, <1>2, <1>3 DEF UserStart

LEMMA AdminStartOK ==
    ASSUME IInv, NEW h \in Handlers, AdminStart(h)
    PROVE  IInv'
<1>1. ASSUME NEW e \in Emails, AdSendReset(h, e)
      PROVE  IInv'
  BY <1>1, RolesOK, SendCodeOK DEF AdSendReset
<1>2. ASSUME NEW e \in Emails, NEW p \in Pwds,
             AdLogin(h, e, p) \/ AdReset(h, e, p)
             \/ AdRequestChange(h, e, p) \/ AdCompleteChange(h, e, p)
      PROVE  IInv'
  BY <1>2, RolesOK, LoginOK, ResetOK, DefaultPasswordOK DEF AdLogin, AdReset
<1>3. ASSUME NEW e \in Emails, NEW c \in CodeValues, AdConfirmReset(h, e, c)
      PROVE  IInv'
  BY <1>3, RolesOK, ResetOK DEF AdConfirmReset
<1>4. ASSUME NEW s \in Sids, AdRefresh(h, s)
      PROVE  IInv'
  BY <1>4, RolesOK, RefreshOK DEF AdRefresh
<1>5. ASSUME NEW s \in Sids, NEW op \in {"serve", "logout"},
             NEW t \in {"first", "renewed"}, AdGuard(h, op, s, t)
      PROVE  IInv'
  BY <1>5, RolesOK, GuardOK DEF AdGuard
<1>6. ASSUME NEW e \in Emails,
             CreateAdmin(h, e) \/ DeleteAdmin(h, e) \/ SuspendAdmin(h, e)
             \/ UnsuspendAdmin(h, e)
      PROVE  IInv'
  BY <1>6, AdministrationOK, DeleteAdminOK DEF SuspendAdmin, UnsuspendAdmin
<1> QED
  BY <1>1, <1>2, <1>3, <1>4, <1>5, <1>6 DEF AdminStart, AdminAuthStart

LEMMA StepOK ==
    ASSUME IInv, NEW h \in Handlers, Step(h)
    PROVE  IInv'
<1>1. CASE JobseekerAuthStep(h)
  <2>1. CASE JsRegisterOther(h) \/ JsRegisterPhone(h) \/ JsInsert(h)
    BY <2>1, RolesOK, PcPlain, RegisterOK, JsRegisterPhoneOK, InsertAccountOK
    DEF JsRegisterOther, JsInsert
  <2>2. CASE JsGoogleOther(h) \/ JsGoogleInsert(h) \/ UnifiedOther(h) \/ UnifiedEmployer(h)
    BY <2>2, RolesOK, PcPlain, GoogleOtherOK, InsertAccountOK, UnifiedOK
    DEF JsGoogleOther, JsGoogleInsert
  <2>3. CASE JsRefreshStep(h)
    BY <2>3, RolesOK, RefreshOK, SessionsAssumption DEF JsRefreshStep
  <2>4. CASE JsGuardStep(h)
    BY <2>4, RolesOK, GuardOK DEF JsGuardStep
  <2>5. CASE JsLogoutStep(h)
    BY <2>5, RolesOK, LogoutOK DEF JsLogoutStep
  <2>6. CASE JsVerifyStep(h) \/ JsConfirmResetStep(h) \/ JsResetStep(h)
    BY <2>6, RolesOK, VerifyOK, ResetOK DEF JsVerifyStep, JsConfirmResetStep, JsResetStep
  <2> QED
    BY <1>1, <2>1, <2>2, <2>3, <2>4, <2>5, <2>6, TokensMade DEF JobseekerAuthStep
<1>2. CASE EmployerAuthStep(h)
  <2>1. CASE EmRegisterOther(h) \/ EmInsert(h) \/ EmGoogleOther(h) \/ EmGoogleInsert(h)
    BY <2>1, RolesOK, PcPlain, RegisterOK, GoogleOtherOK, InsertAccountOK
    DEF EmRegisterOther, EmInsert, EmGoogleOther, EmGoogleInsert
  <2>2. CASE EmRefreshStep(h)
    BY <2>2, RolesOK, RefreshOK, SessionsAssumption DEF EmRefreshStep
  <2>3. CASE EmGuardStep(h)
    BY <2>3, RolesOK, GuardOK DEF EmGuardStep, EmValidateSession
  <2>4. CASE EmLogoutStep(h)
    BY <2>4, RolesOK, LogoutOK DEF EmLogoutStep
  <2>5. CASE EmVerifyStep(h) \/ EmConfirmResetStep(h) \/ EmResetStep(h)
    BY <2>5, RolesOK, VerifyOK, ResetOK DEF EmVerifyStep, EmConfirmResetStep, EmResetStep
  <2> QED
    BY <1>2, <2>1, <2>2, <2>3, <2>4, <2>5, TokensMade DEF EmployerAuthStep
<1>3. CASE AdminAuthStep(h)
  <2>1. CASE AdRefreshStep(h)
    BY <2>1, RolesOK, RefreshOK, SessionsAssumption DEF AdRefreshStep
  <2>2. CASE AdValidateSession(h)
    BY <2>2, RolesOK, GuardOK DEF AdValidateSession
  <2>3. CASE AdLogoutStep(h)
    BY <2>3, RolesOK, LogoutOK DEF AdLogoutStep
  <2>4. CASE AdCompleteChangeStep(h) \/ AdConfirmResetStep(h) \/ AdResetStep(h)
    BY <2>4, RolesOK, ResetOK DEF AdCompleteChangeStep, AdConfirmResetStep, AdResetStep
  <2> QED
    BY <1>3, <2>1, <2>2, <2>3, <2>4, TokensMade DEF AdminAuthStep
<1>4. CASE SaveReload(h) \/ SaveWrite(h) \/ CodeRead(h) \/ CodeStore(h) \/ Served(h)
  BY <1>4, RolesOK, SaveReloadOK, SaveWriteOK, SendCodeOK, GuardOK
<1>5. CASE CreateAdminInsert(h) \/ MailSent(h)
  BY <1>5, SessionsAssumption, AdministrationOK
<1> QED
  BY <1>1, <1>2, <1>3, <1>4, <1>5 DEF Step

\* The inductive invariant: VerifiedOnlyIfProved, SessionHasAccount and what
\* they need hold in every state, whatever overlaps and whatever fails.
THEOREM AccountsInvariant == Spec => []IInv
<1>1. Init => IInv
  <2> SUFFICES ASSUME Init PROVE IInv
    OBVIOUS
  <2>1. RowsOK(auth, session, cached, proved)
    BY SomeOK DEF Init, RowsOK, NoSession, SessionRow, RedisSession
  <2>2. TokensOK(revoked, refreshRevoked, refreshed, session)
    BY DEF Init, TokensOK
  <2>3. MailsOK(codes, resetToken, closed)
    BY DEF Init, MailsOK, Code
  <2>4. ReqsOK(req, proved, session)
    BY SomeOK DEF Init, ReqsOK
  <2> QED
    BY <2>1, <2>2, <2>3, <2>4, Split
<1>2. IInv /\ [Next]_sessionVars => IInv'
  <2> SUFFICES ASSUME IInv, [Next]_sessionVars
               PROVE  IInv'
    OBVIOUS
  <2>1. CASE UNCHANGED sessionVars
    BY <2>1 DEF sessionVars, IInv, Types, VerifiedOnlyIfProved, KnownSessionsExist,
       SessionHasAccount, SavesLoadedRow
  <2>2. CASE TimePasses
    BY <2>2, TimeOK
  <2>3. ASSUME NEW h \in Handlers, Start(h) \/ Step(h)
        PROVE  IInv'
    BY <2>3, UserStartOK, AdminStartOK, StepOK DEF Start
  <2>4. ASSUME NEW h \in Handlers, Fails(h)
        PROVE  IInv'
    BY <2>4, AnswerQuiet DEF Fails
  <2> QED
    BY <2>1, <2>2, <2>3, <2>4 DEF Next
<1> QED
  BY <1>1, <1>2, PTL DEF Spec

\* No address is marked verified whose owner did not prove to read its mail.
THEOREM VerifiedProved == Spec => []VerifiedOnlyIfProved
<1>1. IInv => VerifiedOnlyIfProved
  BY DEF IInv
<1> QED
  BY <1>1, AccountsInvariant, PTL

\* Every session row belongs to an account that exists.
THEOREM SessionsHaveAccounts == Spec => []SessionHasAccount
<1>1. IInv => SessionHasAccount
  BY DEF IInv
<1> QED
  BY <1>1, AccountsInvariant, PTL

-----------------------------------------------------------------------------
\* Requests about different addresses.  From here on ApartIInv is carried
\* through Next, one lemma for each step, as long as Apart holds.

\* Between the tables and closed sessions (a, s, c) and (a2, s2, c2) nothing
\* changes but what is about the address e; rows keep their role and address.
OnlyAbout(e, a, a2, s, s2, c, c2) ==
    /\ \A r \in Role, f \in Emails : f # e => a2[r][f] = a[r][f]
    /\ \A x \in Sids : s2[x].role # s[x].role \/ s2[x].email # s[x].email
                         => s[x].role = "none" /\ s2[x].email = e
    /\ \A x \in Sids : x \in c2 \ c => s2[x].email = e

LEMMA OtherRoleOK == \A r : OtherRole(r) \in Role /\ OtherRole(r) \in {js, em}
  BY DEF OtherRole, Role, js, em

LEMMA Frame ==
    ASSUME NEW q \in Request, NEW p, NEW a, NEW s, NEW c, NEW a2, NEW s2, NEW c2,
           ReqOK(q, p, s), ApartOK(q, a, s, c), NEW e, q.email # e,
           OnlyAbout(e, a, a2, s, s2, c, c2)
    PROVE  ApartOK(q, a2, s2, c2)
<1>1. q.role \in Role /\ q.email \in Emails /\ q.sid \in Sids /\ q.role # "none"
  BY DEF Request, Role
<1>2. \A r \in Role : a2[r][q.email] = a[r][q.email]
  BY <1>1 DEF OnlyAbout
<1>3. \A x \in Sids : s[x].role # "none"
                        => s2[x].role = s[x].role /\ s2[x].email = s[x].email
  BY DEF OnlyAbout
<1>4. Opened(s2, ad, q.email) \subseteq Opened(s, ad, q.email)
  BY <1>1 DEF OnlyAbout, Opened
<1>5. \A x \in Sids : s2[x].email = q.email /\ x \in c2 => x \in c
  BY DEF OnlyAbout
<1> SUFFICES ASSUME q.pc # "idle"
             PROVE  /\ SignUpOK(q, a2) /\ SaveOK(q, a2, s2) /\ OpenOK(q, a2)
                    /\ TokenOK(q, a2, s2, c2)
  BY DEF ApartOK
<1>6. SignUpOK(q, a) /\ SaveOK(q, a, s) /\ OpenOK(q, a) /\ TokenOK(q, a, s, c)
  BY DEF ApartOK
<1>7. SignUpOK(q, a2)
  BY <1>2, <1>6, OtherRoleOK DEF SignUpOK
<1>8. SaveOK(q, a2, s2)
  BY <1>1, <1>2, <1>4, <1>6 DEF SaveOK
<1>9. OpenOK(q, a2)
  BY <1>2, <1>6, RolesOK DEF OpenOK
<1>10. TokenOK(q, a2, s2, c2)
  <2>1. ASSUME q.op \in {"refresh", "serve", "logout"} \/ q.pc = "cache"
        PROVE  s2[q.sid].email = q.email /\ (q.sid \in c2 => q.sid \in c)
    <3>1. s[q.sid].role # "none" /\ s[q.sid].email = q.email
      BY <1>1, <1>6, <2>1 DEF ReqOK, TokenOK
    <3> QED
      BY <1>1, <1>3, <1>5, <3>1
  <2> QED
    BY <1>2, <1>6, <2>1, RolesOK DEF TokenOK
<1> QED
  BY <1>7, <1>8, <1>9, <1>10

LEMMA IdleApart == \A a, s, c : ApartOK(Idle, a, s, c)
  BY DEF ApartOK, Idle

\* The requests after a step of h that is about its own address.
LEMMA OthersApart ==
    ASSUME IInv, ApartIInv, Apart, NEW h \in Handlers, req[h].pc # "idle",
           NEW R, req' = [req EXCEPT ![h] = R],
           OnlyAbout(req[h].email, auth, auth', session, session', closed, closed'),
           ApartOK(R, auth', session', closed')
    PROVE  \A g \in Handlers : ApartOK(req'[g], auth', session', closed')
<1> SUFFICES ASSUME NEW g \in Handlers
             PROVE  ApartOK(req'[g], auth', session', closed')
  OBVIOUS
<1>1. req \in [Handlers -> Request]
  BY ReqTyped
<1>2. CASE g = h
  <2>1. req'[g] = R
    BY <1>1, <1>2
  <2> QED
    BY <2>1
<1>3. CASE g # h
  <2>1. req'[g] = req[g]
    BY <1>1, <1>3
  <2>2. CASE req[g].pc = "idle"
    BY <2>1, <2>2 DEF ApartOK
  <2>3. CASE req[g].pc # "idle"
    <3>1. req[g].email # req[h].email
      BY <1>3, <2>3 DEF Apart
    <3>2. req[g] \in Request /\ ReqOK(req[g], proved, session)
      BY ReqTyped
    <3>3. ApartOK(req[g], auth, session, closed)
      BY DEF ApartIInv
    <3>4. ApartOK(req[g], auth', session', closed')
      BY <3>1, <3>2, <3>3, Frame
    <3> QED
      BY <2>1, <3>4
  <2> QED
    BY <2>2, <2>3
<1> QED
  BY <1>2, <1>3

\* Steps that change neither the tables nor what is closed.
LEMMA StillApart ==
    ASSUME IInv, ApartIInv, NEW h \in Handlers, NEW R, req' = [req EXCEPT ![h] = R],
           ApartOK(R, auth, session, closed), UNCHANGED <<tables, closed>>
    PROVE  ApartIInv'
<1>1. req \in [Handlers -> Request] /\ auth' = auth /\ session' = session /\ closed' = closed
  BY ReqTyped DEF tables
<1>2. \A g \in Handlers : req'[g] = IF g = h THEN R ELSE req[g]
  BY <1>1
<1>3. \A g \in Handlers : ApartOK(req'[g], auth, session, closed)
  BY <1>2 DEF ApartIInv
<1> QED
  BY <1>1, <1>3 DEF ApartIInv, OneRolePerEmail, AdminReplacedPassword

LEMMA AnswerApart ==
    ASSUME IInv, ApartIInv, NEW h \in Handlers, Answer(h), UNCHANGED <<tables, closed>>
    PROVE  ApartIInv'
  BY StillApart, IdleApart DEF Answer

\* What a request at pc has to know, if it is about the same as before.
Earned(q, pc, a, c) ==
    /\ pc \notin {"cache", "reload", "write"}
    /\ pc = "phone" => ~a[OtherRole(q.role)][q.email].live
    /\ pc = "insert" => q.role = ad \/ ~a[OtherRole(q.role)][q.email].live
    /\ pc = "open" => q.role # ad
    /\ q.op = "refresh" /\ pc \in {"account", "touch"} => q.sid \notin c
    /\ q.op = "serve" /\ pc \in {"gAccount", "granted"} => q.sid \notin c
    /\ q.op = "serve" /\ pc = "granted" /\ q.role = js => ~a[js][q.email].suspended

LEMMA Moved ==
    ASSUME NEW q \in Request, NEW a, NEW s, NEW c, q.pc # "idle",
           ApartOK(q, a, s, c), NEW a2, NEW s2, NEW c2,
           s2[q.sid].email = s[q.sid].email,
           NEW R, R.op = q.op, R.role = q.role, R.email = q.email, R.sid = q.sid,
           Earned(q, R.pc, a2, c2)
    PROVE  ApartOK(R, a2, s2, c2)
<1>1. OpenOK(q, a) /\ TokenOK(q, a, s, c)
  BY DEF ApartOK
<1>2. SignUpOK(R, a2)
  BY DEF SignUpOK, Earned
<1>3. SaveOK(R, a2, s2)
  BY DEF SaveOK, Earned
<1>4. OpenOK(R, a2)
  BY <1>1 DEF OpenOK, Earned
<1>5. TokenOK(R, a2, s2, c2)
  BY <1>1 DEF TokenOK, Earned
<1> QED
  BY <1>2, <1>3, <1>4, <1>5 DEF ApartOK

LEMMA GotoApart ==
    ASSUME IInv, ApartIInv, NEW h \in Handlers, req[h].pc # "idle", NEW pc,
           Goto(h, pc), Earned(req[h], pc, auth, closed), UNCHANGED <<tables, closed>>
    PROVE  ApartIInv'
<1> DEFINE R == [req[h] EXCEPT !.pc = pc]
<1>1. req' = [req EXCEPT ![h] = R]
  BY ReqTyped DEF Goto
<1>2. R.pc = pc /\ R.op = req[h].op /\ R.role = req[h].role /\ R.email = req[h].email
        /\ R.sid = req[h].sid
  BY ReqTyped DEF Request
<1>3. req[h] \in Request /\ ApartOK(req[h], auth, session, closed)
  BY ReqTyped DEF ApartIInv
<1> HIDE DEF R
<1>4. ApartOK(R, auth, session, closed)
  BY <1>2, <1>3, Moved
<1> QED
  BY <1>1, <1>4, StillApart

\* The steps whose next pc asks for nothing.
LEMMA PlainEarned ==
    \A q, a, c : \A pc \in {"own", "other", "codeRead", "codeStore", "blacklist", "row",
                            "renew", "gCache", "gRow", "gEvict", "lAccess", "lRefresh",
                            "lUncache", "lClose", "load", "delCode", "closeAll", "mail"} :
       Earned(q, pc, a, c)
  BY DEF Earned

\* A new request.
LEMMA BegunFields ==
    ASSUME NEW op \in Op, NEW pc \in Pc, NEW r \in Role, NEW e \in Emails,
           NEW m \in AuthRow
    PROVE  LET R == [Idle EXCEPT !.op = op, !.pc = pc, !.role = r, !.email = e]
               S == [Idle EXCEPT !.op = op, !.pc = pc, !.role = r, !.email = e, !.mem = m]
           IN  /\ R.op = op /\ R.pc = pc /\ R.role = r /\ R.email = e
               /\ S.op = op /\ S.pc = pc /\ S.role = r /\ S.email = e /\ S.mem = m
  BY DEF Idle

SignUps == {"register", "google", "unified", "verify"}

LEMMA BeginApart ==
    ASSUME IInv, ApartIInv, NEW h \in Handlers,
           NEW op \in Op \ {"refresh", "serve", "logout"},
           NEW pc \in {"other", "open", "codeRead", "load", "delCode", "insert"},
           NEW r \in Role, NEW e \in Emails, Begin(h, op, pc, r, e),
           pc = "insert" => r = ad,
           r = ad => op \notin SignUps /\ (pc = "open" => auth[ad][e].changed),
           UNCHANGED <<tables, closed>>
    PROVE  ApartIInv'
<1> DEFINE R == [Idle EXCEPT !.op = op, !.pc = pc, !.role = r, !.email = e]
<1>1. req' = [req EXCEPT ![h] = R]
  BY DEF Begin
<1>2. R.op = op /\ R.pc = pc /\ R.role = r /\ R.email = e
  BY SomeOK, PcPlain, BegunFields
<1> HIDE DEF R
<1>3. SignUpOK(R, auth) /\ SaveOK(R, auth, session) /\ OpenOK(R, auth)
        /\ TokenOK(R, auth, session, closed)
  BY <1>2 DEF SignUpOK, SaveOK, OpenOK, TokenOK, SignUps
<1>4. ApartOK(R, auth, session, closed)
  BY <1>3 DEF ApartOK
<1> QED
  BY <1>1, <1>4, StillApart

LEMMA BeginSaveApart ==
    ASSUME IInv, ApartIInv, NEW h \in Handlers,
           NEW op \in Op \ {"refresh", "serve", "logout"},
           NEW r \in Role, NEW e \in Emails, NEW m \in AuthRow,
           BeginSave(h, op, r, e, m), auth[r][e].live,
           r = ad => op \notin SignUps /\ (auth[ad][e].changed => m.changed),
           UNCHANGED <<tables, closed>>
    PROVE  ApartIInv'
<1> DEFINE R == [Idle EXCEPT !.op = op, !.pc = "reload", !.role = r, !.email = e,
                             !.mem = m]
<1>1. req' = [req EXCEPT ![h] = R]
  BY DEF BeginSave
<1>2. R.op = op /\ R.pc = "reload" /\ R.role = r /\ R.email = e /\ R.mem = m
  BY BegunFields DEF Pc
<1>3. ~auth[ad][e].changed => Opened(session, ad, e) = {}
  BY DEF Opened, ApartIInv, AdminReplacedPassword
<1> HIDE DEF R
<1>4. SignUpOK(R, auth) /\ SaveOK(R, auth, session) /\ OpenOK(R, auth)
        /\ TokenOK(R, auth, session, closed)
  BY <1>2, <1>3 DEF SignUpOK, SaveOK, OpenOK, TokenOK, SignUps
<1>5. ApartOK(R, auth, session, closed)
  BY <1>4 DEF ApartOK
<1> QED
  BY <1>1, <1>5, StillApart

LEMMA BeginSessionApart ==
    ASSUME IInv, ApartIInv, NEW h \in Handlers, NEW op \in {"refresh", "serve", "logout"},
           NEW pc \in {"blacklist", "gCache"}, NEW s \in Sids, NEW t,
           session[s].role \in Role, BeginSession(h, op, pc, s, t),
           UNCHANGED <<tables, closed>>
    PROVE  ApartIInv'
<1> DEFINE R == [Idle EXCEPT !.op = op, !.pc = pc, !.tok = t, !.sid = s,
                             !.role = session[s].role, !.email = session[s].email]
<1>1. req' = [req EXCEPT ![h] = R]
  BY DEF BeginSession
<1>2. R.op = op /\ R.pc = pc /\ R.sid = s /\ R.email = session[s].email
  BY DEF Idle
<1> HIDE DEF R
<1>3. SignUpOK(R, auth) /\ SaveOK(R, auth, session) /\ OpenOK(R, auth)
        /\ TokenOK(R, auth, session, closed)
  BY <1>2 DEF SignUpOK, SaveOK, OpenOK, TokenOK
<1>4. ApartOK(R, auth, session, closed)
  BY <1>3 DEF ApartOK
<1> QED
  BY <1>1, <1>4, StillApart

-----------------------------------------------------------------------------
\* Steps that change the tables, or what is closed.
LEMMA TablesApart ==
    ASSUME IInv, ApartIInv, Apart, NEW h \in Handlers, req[h].pc # "idle",
           NEW R, req' = [req EXCEPT ![h] = R],
           OnlyAbout(req[h].email, auth, auth', session, session', closed, closed'),
           ApartOK(R, auth', session', closed'),
           ClosedStayClosed(session', closed'),
           OneRolePerEmail', AdminReplacedPassword'
    PROVE  ApartIInv'
  BY OthersApart DEF ApartIInv

LEMMA GenerateTokensApart ==
    ASSUME IInv, ApartIInv, Apart, NEW h \in Handlers, NEW r \in Role, NEW s \in Sids,
           GenerateTokens(h, r, s)
    PROVE  ApartIInv'
<1>1. CASE ~Account(h).live
  BY <1>1, AnswerApart DEF GenerateTokens, tables, history
<1>2. CASE Account(h).live
  <2> DEFINE new == [role |-> r, email |-> req[h].email, active |-> TRUE, expired |-> FALSE]
             R == [req[h] EXCEPT !.pc = "cache", !.sid = s]
             e == req[h].email
  <2>1. /\ session' = [session EXCEPT ![s] = new] /\ req' = [req EXCEPT ![h] = R]
        /\ session[s].role = "none" /\ req[h].role = r /\ req[h].pc = "open"
        /\ UNCHANGED <<auth, closed>>
    BY <1>2, ReqTyped DEF GenerateTokens, history
  <2>2. new.role = r /\ new.email = e
    OBVIOUS
  <2>3. R.op = req[h].op /\ R.pc = "cache" /\ R.sid = s /\ R.role = r /\ R.email = e
    BY <2>1, ReqTyped DEF Request
  <2>4. session \in [Sids -> SessionRow] /\ closed \subseteq Sids
    BY Split DEF RowsOK, MailsOK
  <2> HIDE DEF new, R
  <2>5. session'[s] = new /\ \A x \in Sids \ {s} : session'[x] = session[x]
    BY <2>1, <2>4
  <2>6. ClosedStayClosed(session, closed) /\ OneRolePerEmail /\ AdminReplacedPassword
        /\ ApartOK(req[h], auth, session, closed)
    BY DEF ApartIInv
  <2>7. ClosedStayClosed(session', closed')
    BY <2>1, <2>4, <2>5, <2>6 DEF ClosedStayClosed
  <2>8. OneRolePerEmail'
    BY <2>1, <2>6 DEF OneRolePerEmail
  <2>9. r = ad => auth[ad][e].changed
    BY <1>2, <2>1, <2>6 DEF ApartOK, OpenOK, Account
  <2>10. AdminReplacedPassword'
    BY <2>1, <2>2, <2>5, <2>6, <2>9 DEF AdminReplacedPassword
  <2>11. OnlyAbout(e, auth, auth', session, session', closed, closed')
    BY <2>1, <2>2, <2>5 DEF OnlyAbout
  <2>12. OpenOK(req[h], auth)
    BY <2>1, <2>6 DEF ApartOK
  <2>13. /\ SignUpOK(R, auth) /\ SaveOK(R, auth, session') /\ OpenOK(R, auth)
         /\ TokenOK(R, auth, session', closed)
    BY <2>1, <2>2, <2>3, <2>5, <2>12 DEF SignUpOK, SaveOK, OpenOK, TokenOK
  <2>14. ApartOK(R, auth', session', closed')
    BY <2>1, <2>13 DEF ApartOK
  <2> QED
    BY <2>1, <2>7, <2>8, <2>10, <2>11, <2>14, TablesApart
<1> QED
  BY <1>1, <1>2

\* One row of an auth table.
LEMMA AccountApart ==
    ASSUME IInv, ApartIInv, Apart, NEW h \in Handlers, req[h].pc # "idle",
           NEW r \in Role, r = req[h].role, NEW e \in Emails, e = req[h].email,
           NEW row \in AuthRow, auth' = [auth EXCEPT ![r][e] = row],
           r # ad => ~auth[OtherRole(r)][e].live,
           r = ad => row.changed \/ Opened(session, ad, e) = {},
           NEW pc, Goto(h, pc), Earned(req[h], pc, auth', closed),
           UNCHANGED <<session, closed>>
    PROVE  ApartIInv'
<1> DEFINE R == [req[h] EXCEPT !.pc = pc]
<1>1. req' = [req EXCEPT ![h] = R]
  BY ReqTyped DEF Goto
<1>2. R.pc = pc /\ R.op = req[h].op /\ R.role = req[h].role /\ R.email = req[h].email
        /\ R.sid = req[h].sid
  BY ReqTyped DEF Request
<1> HIDE DEF R
<1>3. ClosedStayClosed(session, closed) /\ OneRolePerEmail /\ AdminReplacedPassword
        /\ ApartOK(req[h], auth, session, closed)
  BY DEF ApartIInv
<1>4. auth \in [Role -> [Emails -> AuthRow]]
  BY Split DEF RowsOK
<1>5. /\ auth'[r][e] = row
      /\ \A q \in Role, f \in Emails : q # r \/ f # e => auth'[q][f] = auth[q][f]
  BY <1>4
<1>6. ApartOK(R, auth', session', closed')
  BY <1>2, <1>3, ReqTyped, Moved
<1>7. OnlyAbout(e, auth, auth', session, session', closed, closed')
  BY <1>5 DEF OnlyAbout
<1>8. OneRolePerEmail'
  <2> SUFFICES ASSUME NEW f \in Emails
               PROVE  ~(auth'[js][f].live /\ auth'[em][f].live)
    BY DEF OneRolePerEmail
  <2>1. ~(auth[js][f].live /\ auth[em][f].live)
    BY <1>3 DEF OneRolePerEmail
  <2>2. CASE f # e
    BY <1>5, <2>1, <2>2, RolesOK
  <2>3. CASE f = e /\ r = ad
    BY <1>5, <2>1, <2>3, RolesOK DEF ad, em
  <2>4. CASE f = e /\ r # ad
    <3>1. r = js \/ r = em
      BY <2>4 DEF Role, js, em, ad
    <3>2. OtherRole(js) = em /\ OtherRole(em) = js
      BY DEF OtherRole, js, em
    <3> QED
      BY <1>5, <2>4, <3>1, <3>2, RolesOK
  <2> QED
    BY <2>2, <2>3, <2>4
<1>9. AdminReplacedPassword'
  <2> SUFFICES ASSUME NEW x \in Sids, session[x].role = ad
               PROVE  auth'[ad][session[x].email].changed
    BY DEF AdminReplacedPassword
  <2>1. auth[ad][session[x].email].changed /\ session[x].email \in Emails
    BY <1>3, Split DEF AdminReplacedPassword, RowsOK, SessionRow
  <2>2. CASE r = ad /\ session[x].email = e
    BY <1>5, <2>2 DEF Opened
  <2>3. CASE ~(r = ad /\ session[x].email = e)
    BY <1>5, <2>1, <2>3, RolesOK
  <2> QED
    BY <2>2, <2>3
<1> QED
  BY <1>1, <1>3, <1>6, <1>7, <1>8, <1>9, TablesApart

LEMMA InsertAccountApart ==
    ASSUME IInv, ApartIInv, Apart, NEW h \in Handlers, NEW r \in Role, NEW ops,
           NEW v \in BOOLEAN, NEW next \in {"codeRead", "open", "mail"},
           next = "open" => r # ad, InsertAccount(h, r, ops, v, next)
    PROVE  ApartIInv'
<1>0. req[h].pc = "insert" /\ req[h].role = r
  BY DEF InsertAccount, At
<1>1. CASE Account(h).live
  BY <1>1, AnswerApart DEF InsertAccount, tables, history
<1>2. CASE ~Account(h).live
  <2> DEFINE row == [NoRow EXCEPT !.live = TRUE, !.verified = v,
                                  !.pwd = IF v THEN "random" ELSE FirstPwd]
             e == req[h].email
  <2>1. row \in AuthRow /\ e \in Emails
    BY SomeOK, ReqTyped DEF AuthRow, NoRow
  <2>2. auth' = [auth EXCEPT ![r][e] = row] /\ Goto(h, next) /\ UNCHANGED <<session, closed>>
    BY <1>2 DEF InsertAccount, history
  <2> HIDE DEF row, e
  <2>3. r # ad => ~auth[OtherRole(r)][e].live
    BY <1>0 DEF ApartIInv, ApartOK, SignUpOK, e
  <2>4. r = ad => Opened(session, ad, e) = {}
    BY <1>0, <1>2, ReqTyped, Split DEF Opened, RowsOK, Account, e, ad
  <2>5. Earned(req[h], next, auth', closed)
    BY <1>0 DEF Earned
  <2> QED
    BY <1>0, <2>1, <2>2, <2>3, <2>4, <2>5, AccountApart DEF e
<1> QED
  BY <1>1, <1>2

LEMMA SaveReloadApart ==
    ASSUME IInv, ApartIInv, NEW h \in Handlers, SaveReload(h)
    PROVE  ApartIInv'
<1> DEFINE R == [req[h] EXCEPT !.pc = "write", !.snap = Account(h)]
<1>1. req' = [req EXCEPT ![h] = R] /\ req[h].pc = "reload" /\ UNCHANGED <<tables, closed>>
  BY ReqTyped DEF SaveReload, history
<1>2. R.pc = "write" /\ R.op = req[h].op /\ R.role = req[h].role
        /\ R.email = req[h].email /\ R.sid = req[h].sid /\ R.mem = req[h].mem
  BY ReqTyped DEF Request
<1> HIDE DEF R
<1>3. ApartOK(req[h], auth, session, closed)
  BY DEF ApartIInv
<1>4. SignUpOK(R, auth) /\ SaveOK(R, auth, session) /\ OpenOK(R, auth)
        /\ TokenOK(R, auth, session, closed)
  BY <1>1, <1>2, <1>3 DEF ApartOK, SignUpOK, SaveOK, OpenOK, TokenOK
<1>5. ApartOK(R, auth, session, closed)
  BY <1>4 DEF ApartOK
<1> QED
  BY <1>1, <1>5, StillApart

\* A password that the row or the entity has replaced stays replaced.
LEMMA SavedChanged ==
    ASSUME NEW row \in AuthRow, NEW snap \in AuthRow, NEW mem \in AuthRow,
           row.changed, mem.changed
    PROVE  Saved(row, snap, mem).changed
<1>1. "changed" \in DOMAIN NoRow
  BY DEF NoRow
<1> QED
  BY <1>1 DEF Saved, SaveColumn, AuthRow

LEMMA AfterSaveEarned ==
    ASSUME ApartIInv, NEW h \in Handlers, req[h].pc = "write", NEW a, NEW c
    PROVE  Earned(req[h], AfterSave(req[h].op), a, c)
<1>1. OpenOK(req[h], auth)
  BY DEF ApartIInv, ApartOK
<1> QED
  BY <1>1 DEF Earned, AfterSave, OpenOK

LEMMA TwoRoles ==
    ASSUME NEW r \in Role, r # ad
    PROVE  \/ r = js /\ OtherRole(r) = em
           \/ r = em /\ OtherRole(r) = js
<1>1. r = "jobseeker" \/ r = "employer"
  BY DEF Role, ad
<1> QED
  BY <1>1 DEF OtherRole, js, em

LEMMA SaveWriteApart ==
    ASSUME IInv, ApartIInv, Apart, NEW h \in Handlers, SaveWrite(h)
    PROVE  ApartIInv'
<1>0. req[h].pc = "write"
  BY DEF SaveWrite
<1>1. CASE Account(h).live = req[h].snap.live
  <2> DEFINE r == req[h].role
             e == req[h].email
             row == Saved(auth[r][e], req[h].snap, req[h].mem)
  <2>1. /\ r \in Role /\ e \in Emails /\ req[h].snap \in AuthRow
        /\ req[h].mem \in AuthRow /\ req[h].mem.live
    BY <1>0, ReqTyped DEF ReqOK
  <2>2. auth[r][e] \in AuthRow /\ auth[r][e].live = req[h].snap.live
          /\ auth \in [Role -> [Emails -> AuthRow]]
    BY <1>1, <2>1, AuthTyped DEF Account
  <2>3. row \in AuthRow
    BY <2>1, <2>2, SavedOK
  <2>4. auth' = [auth EXCEPT ![r][e] = row] /\ Goto(h, AfterSave(req[h].op))
        /\ UNCHANGED <<session, closed>>
    BY <1>1, <2>1, <2>2 DEF SaveWrite, history
  <2>5. SaveOK(req[h], auth, session)
    BY <1>0 DEF ApartIInv, ApartOK
  <2>6. r # ad => ~auth[OtherRole(r)][e].live
    <3>1. r # ad => auth[r][e].live
      BY <1>0, <2>5 DEF SaveOK
    <3>2. r # ad => (r = js /\ OtherRole(r) = em) \/ (r = em /\ OtherRole(r) = js)
      BY <2>1, TwoRoles
    <3> QED
      BY <2>1, <3>1, <3>2 DEF ApartIInv, OneRolePerEmail
  <2>7. ASSUME r = ad, Opened(session, ad, e) # {}
        PROVE  row.changed
    <3>1. req[h].mem.changed
      BY <1>0, <2>5, <2>7 DEF SaveOK
    <3>2. auth[r][e].changed
      BY <2>7 DEF ApartIInv, AdminReplacedPassword, Opened
    <3> QED
      BY <2>1, <2>2, <3>1, <3>2, SavedChanged
  <2>8. Earned(req[h], AfterSave(req[h].op), auth', closed)
    BY <1>0, AfterSaveEarned
  <2> HIDE DEF row, r, e
  <2> QED
    BY <1>0, <2>1, <2>3, <2>4, <2>6, <2>7, <2>8, AccountApart DEF r, e
<1>2. CASE Account(h).live # req[h].snap.live
  BY <1>0, <1>2, AfterSaveEarned, GotoApart, AnswerApart
  DEF SaveWrite, GotoIf, tables, history
<1> QED
  BY <1>1, <1>2

LEMMA DeleteAdminApart ==
    ASSUME IInv, ApartIInv, NEW h \in Handlers, NEW e \in Emails, DeleteAdmin(h, e)
    PROVE  ApartIInv'
<1>1. auth' = [auth EXCEPT ![ad][e] = NoRow] /\ Opened(session, ad, e) = {}
      /\ UNCHANGED <<session, closed, req>>
  BY DEF DeleteAdmin, OwnSessions, Opened, history
<1>2. auth \in [Role -> [Emails -> AuthRow]]
  BY Split DEF RowsOK
<1>3. /\ auth'[ad][e] = NoRow
      /\ \A r \in Role, f \in Emails : r # ad \/ f # e => auth'[r][f] = auth[r][f]
  BY <1>1, <1>2, RolesOK
<1>4. ClosedStayClosed(session, closed)' /\ OneRolePerEmail'
  BY <1>1, <1>3, RolesOK DEF ApartIInv, ClosedStayClosed, OneRolePerEmail, ad, js, em
<1>5. AdminReplacedPassword'
  <2>1. \A x \in Sids : session[x].role = ad => session[x].email \in Emails /\ session[x].email # e
    BY <1>1, Split DEF Opened, RowsOK, SessionRow
  <2> QED
    BY <1>1, <1>3, <2>1, RolesOK DEF ApartIInv, AdminReplacedPassword
<1>6. ASSUME NEW g \in Handlers
      PROVE  ApartOK(req[g], auth', session, closed)
  <2> DEFINE q == req[g]
  <2>1. q.role \in Role /\ q.email \in Emails
    BY ReqTyped
  <2>2. ApartOK(q, auth, session, closed)
    BY DEF ApartIInv
  <2> HIDE DEF q
  <2>3. SignUpOK(q, auth) => SignUpOK(q, auth')
    BY <1>3, <2>1, OtherRoleOK DEF SignUpOK, js, em, ad
  <2>4. SaveOK(q, auth, session) => SaveOK(q, auth', session)
    BY <1>3, <2>1 DEF SaveOK
  <2>5. OpenOK(q, auth) => OpenOK(q, auth')
    BY <1>3, <2>1, SomeOK, RolesOK DEF OpenOK
  <2>6. TokenOK(q, auth, session, closed) => TokenOK(q, auth', session, closed)
    BY <1>3, <2>1, RolesOK DEF TokenOK, js, ad
  <2>7. ApartOK(q, auth', session, closed)
    BY <2>2, <2>3, <2>4, <2>5, <2>6 DEF ApartOK
  <2> QED
    BY <2>7 DEF q
<1> QED
  BY <1>1, <1>4, <1>5, <1>6 DEF ApartIInv

\* Session rows that keep their role and address.
LEMMA SessionsApart ==
    ASSUME IInv, ApartIInv, Apart, NEW h \in Handlers, req[h].pc # "idle", auth' = auth,
           \A x \in Sids : session'[x].role = session[x].role
                             /\ session'[x].email = session[x].email,
           \A x \in Sids : x \in closed' \ closed => session[x].email = req[h].email,
           ClosedStayClosed(session', closed'),
           NEW R, req' = [req EXCEPT ![h] = R], ApartOK(R, auth', session', closed')
    PROVE  ApartIInv'
<1>1. OnlyAbout(req[h].email, auth, auth', session, session', closed, closed')
  BY DEF OnlyAbout
<1>2. OneRolePerEmail' /\ AdminReplacedPassword'
  BY DEF ApartIInv, OneRolePerEmail, AdminReplacedPassword
<1> QED
  BY <1>1, <1>2, TablesApart

LEMMA RefreshTouchApart ==
    ASSUME IInv, ApartIInv, Apart, NEW h \in Handlers, NEW r, RefreshTouch(h, r)
    PROVE  ApartIInv'
<1> DEFINE R == [req[h] EXCEPT !.pc = "renew"]
<1>1. req[h].op = "refresh" /\ req[h].pc = "touch" /\ closed' = closed /\ auth' = auth
        /\ session' = [session EXCEPT ![req[h].sid].active = req[h].live]
  BY DEF RefreshTouch, At, history
<1>2. req' = [req EXCEPT ![h] = R]
  BY ReqTyped DEF RefreshTouch, Goto
<1>3. session \in [Sids -> SessionRow] /\ closed \subseteq Sids
  BY Split DEF RowsOK, MailsOK
<1>4. \A x \in Sids : session'[x].role = session[x].role
                        /\ session'[x].email = session[x].email
                        /\ (x # req[h].sid => session'[x] = session[x])
  BY <1>1, <1>3 DEF SessionRow
<1>5. ApartOK(req[h], auth, session, closed) /\ ClosedStayClosed(session, closed)
  BY DEF ApartIInv
<1>6. req[h].sid \notin closed
  BY <1>1, <1>5 DEF ApartOK, TokenOK
<1>7. ClosedStayClosed(session', closed')
  BY <1>1, <1>3, <1>4, <1>5, <1>6 DEF ClosedStayClosed
<1>8. R.pc = "renew" /\ R.op = req[h].op /\ R.role = req[h].role
        /\ R.email = req[h].email /\ R.sid = req[h].sid
  BY ReqTyped DEF Request
<1> HIDE DEF R
<1>9. session'[req[h].sid].email = session[req[h].sid].email
  BY <1>4, ReqTyped
<1>10. Earned(req[h], R.pc, auth', closed')
  BY <1>8, PlainEarned
<1>11. ApartOK(R, auth', session', closed')
  <2>1. req[h] \in Request /\ req[h].pc # "idle"
    BY <1>1, ReqTyped
  <2> QED
    BY <1>5, <1>8, <1>9, <1>10, <2>1, Moved
<1> QED
  BY <1>1, <1>2, <1>4, <1>7, <1>11, SessionsApart

LEMMA LogoutCloseApart ==
    ASSUME IInv, ApartIInv, Apart, NEW h \in Handlers, NEW r, LogoutClose(h, r)
    PROVE  ApartIInv'
<1>1. /\ req[h].op = "logout" /\ req[h].pc = "lClose" /\ auth' = auth
      /\ session' = [session EXCEPT ![req[h].sid].active = FALSE]
      /\ closed' = closed \cup {req[h].sid} /\ req' = [req EXCEPT ![h] = Idle]
  BY DEF LogoutClose, At, Answer
<1>2. session \in [Sids -> SessionRow] /\ closed \subseteq Sids
  BY Split DEF RowsOK, MailsOK
<1>3. \A x \in Sids : /\ session'[x].role = session[x].role
                      /\ session'[x].email = session[x].email
                      /\ x # req[h].sid => session'[x] = session[x]
                      /\ x = req[h].sid => ~session'[x].active
  BY <1>1, <1>2 DEF SessionRow
<1>4. session[req[h].sid].email = req[h].email /\ session[req[h].sid].role # "none"
  <2>1. ReqOK(req[h], proved, session) /\ req[h].role # "none"
    BY ReqTyped DEF Role
  <2>2. TokenOK(req[h], auth, session, closed)
    BY <1>1 DEF ApartIInv, ApartOK
  <2>3. req[h].op \in {"refresh", "serve", "logout"}
    BY <1>1
  <2>4. session[req[h].sid].role = req[h].role
    BY <2>1, <2>3 DEF ReqOK
  <2>5. session[req[h].sid].email = req[h].email
    BY <2>2, <2>3 DEF TokenOK
  <2> QED
    BY <2>1, <2>4, <2>5
<1>5. ClosedStayClosed(session', closed')
  <2>1. ClosedStayClosed(session, closed) /\ req[h].sid \in Sids
    BY ReqTyped DEF ApartIInv
  <2> SUFFICES ASSUME NEW x \in closed'
               PROVE  session'[x].role # "none" /\ ~session'[x].active
    BY DEF ClosedStayClosed
  <2>2. x \in Sids /\ (x = req[h].sid \/ x \in closed)
    BY <1>1, <1>2, <2>1
  <2> QED
    BY <1>3, <1>4, <2>1, <2>2 DEF ClosedStayClosed
<1> QED
  BY <1>1, <1>3, <1>4, <1>5, IdleApart, SessionsApart

LEMMA CloseAllApart ==
    ASSUME IInv, ApartIInv, Apart, NEW h \in Handlers, NEW r \in Role, NEW ops,
           CloseAll(h, r, ops)
    PROVE  ApartIInv'
<1> DEFINE own == OwnSessions(r, req[h].email)
<1>1. /\ req[h].pc = "closeAll" /\ auth' = auth
      /\ session' = [x \in Sids |-> IF x \in own
                                    THEN [session[x] EXCEPT !.active = FALSE]
                                    ELSE session[x]]
      /\ closed' = closed \cup own /\ req' = [req EXCEPT ![h] = Idle]
  BY DEF CloseAll, At, Answer
<1>2. session \in [Sids -> SessionRow] /\ closed \subseteq Sids
  BY Split DEF RowsOK, MailsOK
<1>3. own \subseteq Sids /\ \A x \in own : session[x].role # "none" /\ session[x].email = req[h].email
  BY DEF OwnSessions, Role
<1> HIDE DEF own
<1>4. \A x \in Sids : /\ session'[x].role = session[x].role
                      /\ session'[x].email = session[x].email
                      /\ x \notin own => session'[x] = session[x]
                      /\ x \in own => ~session'[x].active
  BY <1>1, <1>2 DEF SessionRow
<1>5. ClosedStayClosed(session', closed')
  BY <1>1, <1>2, <1>3, <1>4 DEF ApartIInv, ClosedStayClosed
<1> QED
  BY <1>1, <1>3, <1>4, <1>5, IdleApart, SessionsApart

LEMMA TimeApart ==
    ASSUME IInv, ApartIInv, TimePasses
    PROVE  ApartIInv'
<1>1. ASSUME UNCHANGED <<tables, req, closed>>
      PROVE  ApartIInv'
  BY <1>1 DEF tables, ApartIInv, OneRolePerEmail, AdminReplacedPassword
<1>2. ASSUME NEW k \in CodeKeys, CodeExpires(k)
      PROVE  ApartIInv'
  BY <1>1, <1>2 DEF CodeExpires, history
<1>3. ASSUME NEW a \in ResetTokens, ResetTokenExpires(a)
      PROVE  ApartIInv'
  BY <1>1, <1>3 DEF ResetTokenExpires, history
<1>4. ASSUME NEW s \in Sids, RedisSessionExpires(s)
      PROVE  ApartIInv'
  BY <1>1, <1>4 DEF RedisSessionExpires, history
<1>5. ASSUME NEW t \in Token, BlacklistExpires(t)
      PROVE  ApartIInv'
  BY <1>1, <1>5 DEF BlacklistExpires, history
<1>6. ASSUME NEW s \in Sids, SessionExpires(s)
      PROVE  ApartIInv'
  <2>1. session' = [session EXCEPT ![s].expired = TRUE] /\ UNCHANGED <<auth, req, closed>>
    BY <1>6 DEF SessionExpires, history
  <2>2. session \in [Sids -> SessionRow] /\ closed \subseteq Sids
    BY Split DEF RowsOK, MailsOK
  <2>3. \A x \in Sids : session'[x].role = session[x].role
                          /\ session'[x].email = session[x].email
                          /\ session'[x].active = session[x].active
    BY <2>1, <2>2 DEF SessionRow
  <2>4. ClosedStayClosed(session', closed) /\ OneRolePerEmail' /\ AdminReplacedPassword'
    BY <2>1, <2>2, <2>3 DEF ApartIInv, ClosedStayClosed, OneRolePerEmail,
       AdminReplacedPassword
  <2>5. \A f : Opened(session', ad, f) = Opened(session, ad, f)
    BY <2>3 DEF Opened
  <2>6. ASSUME NEW g \in Handlers
        PROVE  ApartOK(req[g], auth, session', closed)
    <3>1. ApartOK(req[g], auth, session, closed) /\ req[g].sid \in Sids
      BY ReqTyped DEF ApartIInv
    <3> QED
      BY <2>3, <2>5, <3>1 DEF ApartOK, SaveOK, TokenOK
  <2> QED
    BY <2>1, <2>4, <2>6 DEF ApartIInv
<1> QED
  BY <1>2, <1>3, <1>4, <1>5, <1>6 DEF TimePasses

-----------------------------------------------------------------------------
\* Requests that load the entity of a user to save it.
LEMMA LoadedApart ==
    ASSUME IInv, ApartIInv, NEW h \in Handlers, req[h].pc # "idle", req[h].role # ad,
           Account(h).live, NEW m \in AuthRow,
           req' = [req EXCEPT ![h] = [req[h] EXCEPT !.pc = "reload", !.mem = m]],
           UNCHANGED <<tables, closed>>
    PROVE  ApartIInv'
<1> DEFINE R == [req[h] EXCEPT !.pc = "reload", !.mem = m]
<1>1. R.pc = "reload" /\ R.op = req[h].op /\ R.role = req[h].role
        /\ R.email = req[h].email /\ R.sid = req[h].sid
  BY ReqTyped, EntityLoaded, ZenonT(60)
<1>2. req' = [req EXCEPT ![h] = R]
  OBVIOUS
<1> HIDE DEF R
<1>3. TokenOK(req[h], auth, session, closed)
  BY DEF ApartIInv, ApartOK
<1>4. SignUpOK(R, auth) /\ SaveOK(R, auth, session) /\ OpenOK(R, auth)
        /\ TokenOK(R, auth, session, closed)
  BY <1>1, <1>3 DEF SignUpOK, SaveOK, OpenOK, TokenOK, Account
<1>5. ApartOK(R, auth, session, closed)
  BY <1>4 DEF ApartOK
<1> QED
  BY <1>2, <1>5, StillApart

\* Whoever signs up is no administrator.
LEMMA SignsUp ==
    ASSUME ApartIInv, NEW h \in Handlers, req[h].pc # "idle", req[h].op \in SignUps
    PROVE  req[h].role # ad
  BY DEF ApartIInv, ApartOK, OpenOK, SignUps

LEMMA OpsOK ==
    /\ SignUps \subseteq Op \ {"refresh", "serve", "logout"}
    /\ {"login", "sendCode", "sendReset", "confirmReset", "reset", "defaultPwd",
        "createAdmin", "suspend", "unsuspend"}
          \subseteq Op \ {"refresh", "serve", "logout"}
  BY DEF Op, SignUps

LEMMA RegisterApart ==
    ASSUME IInv, ApartIInv, NEW h \in Handlers, NEW r \in {js, em},
           \/ \E e \in Emails : RegisterCheckOwn(h, r, e)
           \/ RegisterCheckOther(h, r, "phone") \/ RegisterCheckOther(h, r, "insert")
           \/ JsRegisterPhone(h)
    PROVE  ApartIInv'
<1>0. r \in Role /\ r # ad
  BY RolesOK DEF js, em, ad
<1>1. ASSUME NEW e \in Emails, RegisterCheckOwn(h, r, e)
      PROVE  ApartIInv'
  <2>1. "register" \in Op \ {"refresh", "serve", "logout"}
    BY DEF Op
  <2> QED
    BY <1>0, <1>1, <2>1, BeginApart DEF RegisterCheckOwn, history
<1>2. ASSUME NEW pc \in {"phone", "insert"}, RegisterCheckOther(h, r, pc)
      PROVE  ApartIInv'
  <2>1. req[h].pc = "other" /\ req[h].role = r /\ UNCHANGED <<tables, closed>>
    BY <1>2 DEF RegisterCheckOther, At, history
  <2>2. CASE Answer(h)
    BY <2>1, <2>2, AnswerApart
  <2>3. CASE ~auth[OtherRole(r)][req[h].email].live /\ Goto(h, pc)
    <3>1. Earned(req[h], pc, auth, closed)
      BY <2>1, <2>3 DEF Earned
    <3> QED
      BY <2>1, <2>3, <3>1, GotoApart
  <2> QED
    BY <1>2, <2>2, <2>3 DEF RegisterCheckOther, GotoIf
<1>3. CASE JsRegisterPhone(h)
  <2>1. req[h].pc = "phone" /\ UNCHANGED <<tables, closed>>
    BY <1>3 DEF JsRegisterPhone, At, history
  <2>2. SignUpOK(req[h], auth)
    BY <2>1 DEF ApartIInv, ApartOK
  <2>3. Earned(req[h], "insert", auth, closed)
    BY <2>1, <2>2 DEF SignUpOK, Earned
  <2> QED
    BY <1>3, <2>1, <2>3, GotoApart, AnswerApart DEF JsRegisterPhone
<1> QED
  BY <1>1, <1>2, <1>3

LEMMA GoogleApart ==
    ASSUME IInv, ApartIInv, NEW h \in Handlers, NEW r \in {js, em},
           \/ \E op \in {"google", "unified"}, e \in Emails :
                 GoogleExisting(h, op, r, e) \/ GoogleNew(h, op, r, e)
           \/ GoogleCheckOther(h, {"google"}, r)
    PROVE  ApartIInv'
<1>0. r \in Role /\ r # ad
  BY RolesOK DEF js, em, ad
<1>1. ASSUME NEW op \in {"google", "unified"}, NEW e \in Emails,
             GoogleExisting(h, op, r, e) \/ GoogleNew(h, op, r, e)
      PROVE  ApartIInv'
  <2>1. op \in Op \ {"refresh", "serve", "logout"} /\ UNCHANGED <<tables, closed>>
    BY <1>1 DEF Op, GoogleExisting, GoogleNew
  <2>2. CASE Begin(h, op, "open", r, e) \/ Begin(h, op, "other", r, e)
    BY <1>0, <2>1, <2>2, BeginApart
  <2>3. CASE auth[r][e].live
             /\ BeginSave(h, op, r, e, [auth[r][e] EXCEPT !.verified = TRUE])
    <3> DEFINE m == [auth[r][e] EXCEPT !.verified = TRUE]
    <3>1. m \in AuthRow
      BY <1>0, <2>3, AuthTyped, VerifiedRow
    <3>2. BeginSave(h, op, r, e, m) /\ auth[r][e].live
      BY <2>3
    <3> HIDE DEF m
    <3> QED
      BY <1>0, <2>1, <3>1, <3>2, BeginSaveApart
  <2> QED
    BY <1>1, <2>2, <2>3 DEF GoogleExisting, GoogleNew
<1>2. CASE GoogleCheckOther(h, {"google"}, r)
  <2>1. req[h].pc = "other" /\ req[h].role = r /\ UNCHANGED <<tables, closed>>
    BY <1>2 DEF GoogleCheckOther, At, history
  <2>2. CASE Answer(h)
    BY <2>1, <2>2, AnswerApart
  <2>3. CASE ~auth[OtherRole(r)][req[h].email].live /\ Goto(h, "insert")
    <3>1. req[h].op = "google"
      BY <1>2 DEF GoogleCheckOther, At
    <3>2. Earned(req[h], "insert", auth, closed)
      BY <2>1, <2>3, <3>1 DEF Earned
    <3> QED
      BY <2>1, <2>3, <3>2, GotoApart
  <2> QED
    BY <1>2, <2>2, <2>3 DEF GoogleCheckOther, GotoIf
<1> QED
  BY <1>1, <1>2

LEMMA UnifiedApart ==
    ASSUME IInv, ApartIInv, NEW h \in Handlers, UnifiedOther(h) \/ UnifiedEmployer(h)
    PROVE  ApartIInv'
<1>0. req[h].op = "unified" /\ req[h].pc # "idle" /\ UNCHANGED <<tables, closed>>
  BY DEF UnifiedOther, UnifiedEmployer, At, history
<1>1. CASE UnifiedOther(h) /\ req' = [req EXCEPT ![h].role = "employer", ![h].pc = "own"]
  <2> DEFINE R == [req[h] EXCEPT !.role = "employer", !.pc = "own"]
  <2>1. req' = [req EXCEPT ![h] = R]
    BY <1>1, ReqTyped
  <2>2. R.op = "unified" /\ R.pc = "own" /\ R.role = "employer"
    BY <1>0, ReqTyped DEF Request
  <2> HIDE DEF R
  <2>3. SignUpOK(R, auth) /\ SaveOK(R, auth, session) /\ OpenOK(R, auth)
          /\ TokenOK(R, auth, session, closed)
    BY <2>2 DEF SignUpOK, SaveOK, OpenOK, TokenOK, ad
  <2>4. ApartOK(R, auth, session, closed)
    BY <2>3 DEF ApartOK
  <2> QED
    BY <1>0, <2>1, <2>4, StillApart
<1>2. CASE UnifiedOther(h) /\ Goto(h, "insert") /\ ~auth["employer"][req[h].email].live
  <2>1. OtherRole(req[h].role) = "employer"
    BY <1>2 DEF UnifiedOther, At, OtherRole, js
  <2>2. Earned(req[h], "insert", auth, closed)
    BY <1>0, <1>2, <2>1 DEF Earned
  <2> QED
    BY <1>0, <1>2, <2>2, GotoApart
<1>3. CASE UnifiedEmployer(h) /\ (Goto(h, "open") \/ Answer(h))
  <2>1. Earned(req[h], "open", auth, closed)
    BY <1>0, SignsUp DEF Earned, SignUps
  <2> QED
    BY <1>0, <1>3, <2>1, GotoApart, AnswerApart
<1>4. CASE /\ UnifiedEmployer(h)
           /\ req' = [req EXCEPT ![h].pc = "reload",
                                 ![h].mem = [Account(h) EXCEPT !.verified = TRUE]]
  <2> DEFINE m == [Account(h) EXCEPT !.verified = TRUE]
  <2>1. m \in AuthRow /\ Account(h).live
    BY <1>4, AccountTyped, VerifiedRow DEF UnifiedEmployer
  <2>2. req' = [req EXCEPT ![h] = [req[h] EXCEPT !.pc = "reload", !.mem = m]]
    BY <1>4, ReqTyped
  <2>3. req[h].role # ad
    BY <1>4 DEF UnifiedEmployer, At, ad
  <2> HIDE DEF m
  <2> QED
    BY <1>0, <2>1, <2>2, <2>3, LoadedApart
<1> QED
  BY <1>1, <1>2, <1>3, <1>4 DEF UnifiedOther, UnifiedEmployer, GotoIf

LEMMA LoginApart ==
    ASSUME IInv, ApartIInv, NEW h \in Handlers, NEW r \in Role, NEW e \in Emails, NEW p,
           NEW allowed, r = ad /\ allowed => auth[ad][e].changed,
           Login(h, r, e, p, allowed)
    PROVE  ApartIInv'
<1>1. "login" \in Op \ {"refresh", "serve", "logout"} /\ "login" \notin SignUps
  BY DEF Op, SignUps
<1> QED
  BY <1>1, BeginApart DEF Login, history

LEMMA VerifyApart ==
    ASSUME IInv, ApartIInv, NEW h \in Handlers, NEW r \in {js, em},
           \/ \E e \in Emails, c \in CodeValues : VerifyCode(h, r, e, c)
           \/ VerifyLoad(h, r) \/ VerifyDelCode(h, r)
    PROVE  ApartIInv'
<1>0. r \in Role /\ r # ad
  BY RolesOK DEF js, em, ad
<1>1. ASSUME NEW e \in Emails, NEW c \in CodeValues, VerifyCode(h, r, e, c)
      PROVE  ApartIInv'
  <2>1. "verify" \in Op \ {"refresh", "serve", "logout"}
    BY DEF Op
  <2> QED
    BY <1>0, <1>1, <2>1, BeginApart DEF VerifyCode
<1>2. CASE VerifyLoad(h, r)
  <2>1. req[h].pc = "load" /\ req[h].role = r /\ UNCHANGED <<tables, closed>>
    BY <1>2 DEF VerifyLoad, At, history
  <2>2. CASE ~Account(h).live
    BY <1>2, <2>1, <2>2, AnswerApart DEF VerifyLoad
  <2>3. CASE Account(h).live
    <3> DEFINE m == [Account(h) EXCEPT !.verified = TRUE]
    <3>1. m \in AuthRow
      BY <2>3, AccountTyped, VerifiedRow
    <3>2. req' = [req EXCEPT ![h] = [req[h] EXCEPT !.pc = "reload", !.mem = m]]
      BY <1>2, <2>3, ReqTyped DEF VerifyLoad
    <3> HIDE DEF m
    <3> QED
      BY <1>0, <2>1, <2>3, <3>1, <3>2, LoadedApart
  <2> QED
    BY <2>2, <2>3
<1>3. CASE VerifyDelCode(h, r)
  <2>1. req[h].pc = "delCode" /\ req[h].role = r /\ Goto(h, "open")
        /\ UNCHANGED <<tables, closed>>
    BY <1>3 DEF VerifyDelCode, At, history
  <2>2. Earned(req[h], "open", auth, closed)
    BY <1>0, <2>1 DEF Earned
  <2> QED
    BY <2>1, <2>2, GotoApart
<1> QED
  BY <1>1, <1>2, <1>3

LEMMA SendCodeApart ==
    ASSUME IInv, ApartIInv, NEW h \in Handlers,
           \/ \E op \in {"sendCode", "sendReset"}, r \in Role, e \in Emails :
                 SendCodeStart(h, op, r, e)
           \/ CodeRead(h) \/ CodeStore(h)
    PROVE  ApartIInv'
<1>1. ASSUME NEW op \in {"sendCode", "sendReset"}, NEW r \in Role, NEW e \in Emails,
             SendCodeStart(h, op, r, e)
      PROVE  ApartIInv'
  <2>1. op \in Op \ {"refresh", "serve", "logout"} /\ op \notin SignUps
    BY DEF Op, SignUps
  <2> QED
    BY <1>1, <2>1, BeginApart DEF SendCodeStart, history
<1>2. ASSUME req[h].pc # "idle", EndOfCode(h), UNCHANGED <<tables, closed>>
      PROVE  ApartIInv'
  <2>1. CASE req[h].op = "register"
    <3>1. Earned(req[h], "open", auth, closed)
      BY <1>2, <2>1, SignsUp DEF Earned, SignUps
    <3> QED
      BY <1>2, <2>1, <3>1, GotoApart DEF EndOfCode, GotoIf
  <2> QED
    BY <1>2, <2>1, AnswerApart DEF EndOfCode, GotoIf
<1>3. CASE CodeRead(h)
  <2>1. req[h].pc # "idle" /\ UNCHANGED <<tables, closed>>
    BY <1>3 DEF CodeRead, history
  <2>2. Goto(h, "codeStore") => ApartIInv'
    BY <2>1, PlainEarned, GotoApart
  <2> QED
    BY <1>2, <1>3, <2>1, <2>2 DEF CodeRead
<1>4. CASE CodeStore(h)
  BY <1>2, <1>4 DEF CodeStore, history
<1> QED
  BY <1>1, <1>3, <1>4

LEMMA ResetApart ==
    ASSUME IInv, ApartIInv, Apart, NEW h \in Handlers, NEW r \in Role,
           \/ \E e \in Emails, c \in CodeValues : ConfirmCode(h, r, e, c)
           \/ ConfirmDelCode(h, r)
           \/ \E e \in Emails, p \in Pwds :
                 \/ ResetLoad(h, r, e, [auth[r][e] EXCEPT !.pwd = p])
                 \/ ResetLoad(h, r, e, [auth[r][e] EXCEPT !.pwd = p, !.changed = TRUE])
           \/ \E op \in {"reset", "defaultPwd"} : CloseAll(h, r, {op})
    PROVE  ApartIInv'
<1>1. ASSUME NEW e \in Emails, NEW c \in CodeValues, ConfirmCode(h, r, e, c)
      PROVE  ApartIInv'
  <2>1. "confirmReset" \in Op \ {"refresh", "serve", "logout"} /\ "confirmReset" \notin SignUps
    BY DEF Op, SignUps
  <2> QED
    BY <1>1, <2>1, BeginApart DEF ConfirmCode, history
<1>2. CASE ConfirmDelCode(h, r)
  BY <1>2, AnswerApart DEF ConfirmDelCode, history
<1>3. ASSUME NEW e \in Emails, NEW m \in AuthRow, auth[r][e].changed => m.changed,
             ResetLoad(h, r, e, m)
      PROVE  ApartIInv'
  <2>1. "reset" \in Op \ {"refresh", "serve", "logout"} /\ "reset" \notin SignUps
    BY DEF Op, SignUps
  <2>2. BeginSave(h, "reset", r, e, m) /\ auth[r][e].live /\ UNCHANGED <<tables, closed>>
    BY <1>3 DEF ResetLoad, history
  <2> QED
    BY <1>3, <2>1, <2>2, BeginSaveApart
<1>4. ASSUME NEW e \in Emails, NEW p \in Pwds
      PROVE  LET m == [auth[r][e] EXCEPT !.pwd = p]
                 n == [auth[r][e] EXCEPT !.pwd = p, !.changed = TRUE]
             IN  /\ m \in AuthRow /\ (auth[r][e].changed => m.changed)
                 /\ n \in AuthRow /\ (auth[r][e].changed => n.changed)
  BY AuthTyped DEF AuthRow
<1>5. ASSUME NEW e \in Emails, NEW p \in Pwds,
             \/ ResetLoad(h, r, e, [auth[r][e] EXCEPT !.pwd = p])
             \/ ResetLoad(h, r, e, [auth[r][e] EXCEPT !.pwd = p, !.changed = TRUE])
      PROVE  ApartIInv'
  BY <1>3, <1>4, <1>5
<1> QED
  BY <1>1, <1>2, <1>5, CloseAllApart

LEMMA DefaultPasswordApart ==
    ASSUME IInv, ApartIInv, NEW h \in Handlers, NEW e \in Emails, NEW p \in Pwds,
           AdRequestChange(h, e, p) \/ AdCompleteChange(h, e, p)
    PROVE  ApartIInv'
<1>1. CASE AdRequestChange(h, e, p)
  BY <1>1 DEF AdRequestChange, tables, history, ApartIInv, OneRolePerEmail,
     AdminReplacedPassword
<1>2. CASE AdCompleteChange(h, e, p)
  <2> DEFINE m == [auth[ad][e] EXCEPT !.pwd = p, !.changed = TRUE]
  <2>1. "defaultPwd" \in Op \ {"refresh", "serve", "logout"} /\ "defaultPwd" \notin SignUps
    BY DEF Op, SignUps
  <2>2. auth[ad][e].live /\ BeginSave(h, "defaultPwd", ad, e, m) /\ UNCHANGED <<tables, closed>>
    BY <1>2 DEF AdCompleteChange, history
  <2>3. m \in AuthRow /\ m.changed
    BY RolesOK, AuthTyped DEF AuthRow
  <2> HIDE DEF m
  <2> QED
    BY <2>1, <2>2, <2>3, RolesOK, BeginSaveApart
<1> QED
  BY <1>1, <1>2

LEMMA AdministrationApart ==
    ASSUME IInv, ApartIInv, Apart, NEW h \in Handlers, NEW e \in Emails,
           \/ CreateAdmin(h, e) \/ CreateAdminInsert(h) \/ MailSent(h)
           \/ \E r \in {js, ad}, to \in BOOLEAN : SetSuspended(h, r, e, to)
    PROVE  ApartIInv'
<1>1. CASE CreateAdmin(h, e)
  <2>1. "createAdmin" \in Op \ {"refresh", "serve", "logout"} /\ "createAdmin" \notin SignUps
    BY DEF Op, SignUps
  <2> QED
    BY <1>1, <2>1, RolesOK, BeginApart DEF CreateAdmin, history
<1>2. CASE CreateAdminInsert(h)
  BY <1>2, RolesOK, InsertAccountApart DEF CreateAdminInsert
<1>3. CASE MailSent(h)
  BY <1>3, AnswerApart DEF MailSent, history
<1>4. ASSUME NEW r \in {js, ad}, NEW to \in BOOLEAN, SetSuspended(h, r, e, to)
      PROVE  ApartIInv'
  <2> DEFINE m == [auth[r][e] EXCEPT !.suspended = to]
             op == IF to THEN "suspend" ELSE "unsuspend"
  <2>1. op \in Op \ {"refresh", "serve", "logout"} /\ op \notin SignUps /\ r \in Role
    BY RolesOK DEF Op, SignUps
  <2>2. auth[r][e].live /\ BeginSave(h, op, r, e, m) /\ UNCHANGED <<tables, closed>>
    BY <1>4 DEF SetSuspended, history
  <2>3. m \in AuthRow /\ (auth[r][e].changed => m.changed)
    BY <2>1, AuthTyped, ZenonT(60) DEF AuthRow
  <2> HIDE DEF m, op
  <2> QED
    BY <2>1, <2>2, <2>3, BeginSaveApart
<1> QED
  BY <1>1, <1>2, <1>3, <1>4

\* A session whose row is active is not closed.
LEMMA ActiveNotClosed ==
    ASSUME ApartIInv, NEW s, session[s].active
    PROVE  s \notin closed
  BY DEF ApartIInv, ClosedStayClosed

LEMMA RefreshApart ==
    ASSUME IInv, ApartIInv, Apart, NEW h \in Handlers, NEW r \in Role, NEW s \in Sids,
           NEW copy, NEW allowed,
           \/ RefreshStart(h, r, s) \/ RefreshBlacklist(h, r) \/ RefreshRow(h, r)
           \/ RefreshAccount(h, r, allowed) \/ RefreshTouch(h, r)
           \/ RefreshRenew(h, r, copy)
    PROVE  ApartIInv'
<1>1. CASE RefreshStart(h, r, s)
  BY <1>1, BeginSessionApart DEF RefreshStart, history
<1>2. CASE RefreshBlacklist(h, r)
  <2>1. req[h].pc # "idle" /\ UNCHANGED <<tables, closed>>
    BY <1>2 DEF RefreshBlacklist, At, history
  <2> QED
    BY <1>2, <2>1, PlainEarned, GotoApart, AnswerApart DEF RefreshBlacklist, GotoIf
<1>3. CASE RefreshRow(h, r)
  <2>1. req[h].pc = "row" /\ UNCHANGED <<tables, closed>>
    BY <1>3 DEF RefreshRow, At, history
  <2>2. CASE session[req[h].sid].active
             /\ req' = [req EXCEPT ![h].pc = "account",
                                   ![h].live = session[req[h].sid].active]
    <3> DEFINE R == [req[h] EXCEPT !.pc = "account", !.live = session[req[h].sid].active]
    <3>1. req' = [req EXCEPT ![h] = R]
      BY <2>2, ReqTyped
    <3>2. R.pc = "account" /\ R.op = req[h].op /\ R.role = req[h].role
            /\ R.email = req[h].email /\ R.sid = req[h].sid
      BY ReqTyped DEF Request
    <3> HIDE DEF R
    <3>3. req[h].sid \notin closed
      BY <2>2, ActiveNotClosed
    <3>4. Earned(req[h], R.pc, auth, closed)
      BY <3>2, <3>3 DEF Earned
    <3>5. req[h] \in Request /\ ApartOK(req[h], auth, session, closed)
      BY ReqTyped DEF ApartIInv
    <3>6. ApartOK(R, auth, session, closed)
      BY <2>1, <3>2, <3>4, <3>5, Moved
    <3> QED
      BY <2>1, <3>1, <3>6, StillApart
  <2> QED
    BY <1>3, <2>1, <2>2, AnswerApart DEF RefreshRow
<1>4. CASE RefreshAccount(h, r, allowed)
  <2>1. req[h].op = "refresh" /\ req[h].pc = "account" /\ UNCHANGED <<tables, closed>>
    BY <1>4 DEF RefreshAccount, At, history
  <2>2. TokenOK(req[h], auth, session, closed)
    BY <2>1 DEF ApartIInv, ApartOK
  <2>3. Earned(req[h], "touch", auth, closed)
    BY <2>1, <2>2 DEF TokenOK, Earned
  <2> QED
    BY <1>4, <2>1, <2>3, GotoApart, AnswerApart DEF RefreshAccount, GotoIf
<1>5. CASE RefreshRenew(h, r, copy)
  BY <1>5, AnswerApart DEF RefreshRenew, history
<1> QED
  BY <1>1, <1>2, <1>3, <1>4, <1>5, RefreshTouchApart

LEMMA GuardApart ==
    ASSUME IInv, ApartIInv, NEW h \in Handlers, NEW r \in Role,
           NEW next \in {"gAccount", "granted"}, next = "granted" => r # js,
           \/ \E op \in {"serve", "logout"}, s \in Sids, t \in {"first", "renewed"} :
                 GuardStart(h, op, r, s, t)
           \/ ValidateCopy(h, r) \/ ValidateRow(h, r, next) \/ ValidateEvict(h, r)
           \/ GuardAccount(h, r) \/ Served(h)
    PROVE  ApartIInv'
<1>1. ASSUME NEW op \in {"serve", "logout"}, NEW s \in Sids,
             NEW t \in {"first", "renewed"}, GuardStart(h, op, r, s, t)
      PROVE  ApartIInv'
  BY <1>1, BeginSessionApart DEF GuardStart, history
<1>2. CASE ValidateCopy(h, r)
  <2>1. req[h].pc # "idle" /\ UNCHANGED <<tables, closed>>
    BY <1>2 DEF ValidateCopy, At, history
  <2> QED
    BY <1>2, <2>1, PlainEarned, GotoApart, AnswerApart DEF ValidateCopy, GotoIf
<1>3. CASE ValidateRow(h, r, next)
  <2>1. /\ req[h].pc = "gRow" /\ req[h].role = r /\ req[h].op \in {"serve", "logout"}
        /\ UNCHANGED <<tables, closed>>
    BY <1>3 DEF ValidateRow, At, history
  <2>2. CASE session[req[h].sid].active /\ Goto(h, next)
    <3>1. req[h].sid \notin closed
      BY <2>2, ActiveNotClosed
    <3>2. Earned(req[h], next, auth, closed)
      BY <2>1, <3>1 DEF Earned
    <3> QED
      BY <2>1, <2>2, <3>2, GotoApart
  <2>3. CASE Goto(h, "gEvict")
    BY <2>1, <2>3, PlainEarned, GotoApart
  <2> QED
    BY <1>3, <2>2, <2>3 DEF ValidateRow
<1>4. CASE ValidateEvict(h, r)
  BY <1>4, AnswerApart DEF ValidateEvict, history
<1>5. CASE GuardAccount(h, r)
  <2>1. req[h].pc = "gAccount" /\ req[h].role = r /\ req[h].op \in {"serve", "logout"}
        /\ UNCHANGED <<tables, closed>>
    BY <1>5 DEF GuardAccount, At, history
  <2>2. CASE Answer(h)
    BY <2>1, <2>2, AnswerApart
  <2>3. CASE ~Account(h).suspended /\ Goto(h, "granted")
    <3>1. TokenOK(req[h], auth, session, closed)
      BY <2>1 DEF ApartIInv, ApartOK
    <3>2. Earned(req[h], "granted", auth, closed)
      BY <2>1, <2>3, <3>1 DEF TokenOK, Earned, Account
    <3> QED
      BY <2>1, <2>3, <3>2, GotoApart
  <2> QED
    BY <1>5, <2>2, <2>3 DEF GuardAccount, GotoIf
<1>6. CASE Served(h)
  BY <1>6, AnswerApart DEF Served, history
<1> QED
  BY <1>1, <1>2, <1>3, <1>4, <1>5, <1>6

LEMMA LogoutApart ==
    ASSUME IInv, ApartIInv, Apart, NEW h \in Handlers, NEW r \in Role,
           \/ LogoutRead(h, r)
           \/ \E pc \in {"lAccess", "granted"}, next \in {"lRefresh", "lUncache"} :
                 LogoutAccess(h, r, pc, next)
           \/ LogoutRefresh(h, r) \/ LogoutUncache(h, r) \/ LogoutClose(h, r)
    PROVE  ApartIInv'
<1>1. CASE LogoutRead(h, r)
  <2> DEFINE known == cached[req[h].sid] = "withRefresh"
             R == [req[h] EXCEPT !.pc = "lAccess", !.known = known]
  <2>1. req' = [req EXCEPT ![h] = R]
    BY <1>1, ReqTyped DEF LogoutRead
  <2>2. R.pc = "lAccess" /\ R.op = req[h].op /\ R.role = req[h].role
          /\ R.email = req[h].email /\ R.sid = req[h].sid
    BY ReqTyped DEF Request
  <2> HIDE DEF R
  <2>3. req[h].pc # "idle" /\ UNCHANGED <<tables, closed>>
    BY <1>1 DEF LogoutRead, At, history
  <2>4. req[h] \in Request /\ ApartOK(req[h], auth, session, closed)
    BY ReqTyped DEF ApartIInv
  <2>5. Earned(req[h], R.pc, auth, closed)
    BY <2>2, PlainEarned
  <2>6. ApartOK(R, auth, session, closed)
    BY <2>2, <2>3, <2>4, <2>5, Moved
  <2> QED
    BY <2>1, <2>3, <2>6, StillApart
<1>2. ASSUME NEW pc \in {"lAccess", "granted"}, NEW next \in {"lRefresh", "lUncache"},
             LogoutAccess(h, r, pc, next)
      PROVE  ApartIInv'
  <2>1. req[h].pc # "idle" /\ Goto(h, next) /\ UNCHANGED <<tables, closed>>
    BY <1>2 DEF LogoutAccess, At, history
  <2> QED
    BY <2>1, PlainEarned, GotoApart
<1>3. CASE LogoutRefresh(h, r)
  <2>1. req[h].pc # "idle" /\ Goto(h, "lUncache") /\ UNCHANGED <<tables, closed>>
    BY <1>3 DEF LogoutRefresh, At, history
  <2> QED
    BY <2>1, PlainEarned, GotoApart
<1>4. CASE LogoutUncache(h, r)
  <2>1. req[h].pc # "idle" /\ Goto(h, "lClose") /\ UNCHANGED <<tables, closed>>
    BY <1>4 DEF LogoutUncache, At, history
  <2> QED
    BY <2>1, PlainEarned, GotoApart
<1> QED
  BY <1>1, <1>2, <1>3, <1>4, LogoutCloseApart

LEMMA TokensApart ==
    ASSUME IInv, ApartIInv, Apart, NEW h \in Handlers,
           JsTokens(h) \/ EmTokens(h) \/ AdTokens(h)
    PROVE  ApartIInv'
<1>1. ASSUME NEW r \in Role, NEW copy, StoreRedisSession(h, r, copy)
      PROVE  ApartIInv'
  BY <1>1, AnswerApart DEF StoreRedisSession, history
<1> QED
  BY <1>1, RolesOK, GenerateTokensApart DEF JsTokens, EmTokens, AdTokens

-----------------------------------------------------------------------------
\* One lemma for each half of Next, as above.
LEMMA UserStartApart ==
    ASSUME IInv, ApartIInv, Apart, NEW h \in Handlers, UserStart(h)
    PROVE  ApartIInv'
<1>0. js \in {js, em} /\ em \in {js, em} /\ js \in {js, ad} /\ ad \in {js, ad}
        /\ js # ad /\ em # ad
  BY DEF js, em, ad
<1>1. CASE JobseekerAuthStart(h)
  <2>1. ASSUME NEW e \in Emails,
               JsRegister(h, e) \/ JsGoogle(h, e) \/ Unified(h, e)
               \/ JsSendCode(h, e) \/ JsSendReset(h, e)
        PROVE  ApartIInv'
    BY <1>0, <2>1, RolesOK, RegisterApart, GoogleApart, SendCodeApart
    DEF JsRegister, JsGoogle, Unified, JsSendCode, JsSendReset
  <2>2. ASSUME NEW e \in Emails, NEW p \in Pwds, JsLogin(h, e, p) \/ JsReset(h, e, p)
        PROVE  ApartIInv'
    BY <1>0, <2>2, RolesOK, LoginApart, ResetApart DEF JsLogin, JsReset
  <2>3. ASSUME NEW e \in Emails, NEW c \in CodeValues,
               JsVerify(h, e, c) \/ JsConfirmReset(h, e, c)
        PROVE  ApartIInv'
    BY <1>0, <2>3, RolesOK, VerifyApart, ResetApart DEF JsVerify, JsConfirmReset
  <2>4. ASSUME NEW s \in Sids, JsRefresh(h, s)
        PROVE  ApartIInv'
    BY <2>4, RolesOK, RefreshApart DEF JsRefresh
  <2>5. ASSUME NEW s \in Sids, NEW op \in {"serve", "logout"},
               NEW t \in {"first", "renewed"}, JsGuard(h, op, s, t)
        PROVE  ApartIInv'
    BY <2>5, RolesOK, GuardApart DEF JsGuard
  <2> QED
    BY <1>1, <2>1, <2>2, <2>3, <2>4, <2>5 DEF JobseekerAuthStart
<1>2. CASE EmployerAuthStart(h)
  <2>1. ASSUME NEW e \in Emails,
               EmRegister(h, e) \/ EmGoogle(h, e) \/ EmSendCode(h, e) \/ EmSendReset(h, e)
        PROVE  ApartIInv'
    BY <1>0, <2>1, RolesOK, RegisterApart, GoogleApart, SendCodeApart
    DEF EmRegister, EmGoogle, EmSendCode, EmSendReset
  <2>2. ASSUME NEW e \in Emails, NEW p \in Pwds, EmLogin(h, e, p) \/ EmReset(h, e, p)
        PROVE  ApartIInv'
    BY <1>0, <2>2, RolesOK, LoginApart, ResetApart DEF EmLogin, EmReset
  <2>3. ASSUME NEW e \in Emails, NEW c \in CodeValues,
               EmVerify(h, e, c) \/ EmConfirmReset(h, e, c)
        PROVE  ApartIInv'
    BY <1>0, <2>3, RolesOK, VerifyApart, ResetApart DEF EmVerify, EmConfirmReset
  <2>4. ASSUME NEW s \in Sids, EmRefresh(h, s)
        PROVE  ApartIInv'
    BY <2>4, RolesOK, RefreshApart DEF EmRefresh
  <2>5. ASSUME NEW s \in Sids, NEW op \in {"serve", "logout"},
               NEW t \in {"first", "renewed"}, EmGuard(h, op, s, t)
        PROVE  ApartIInv'
    BY <2>5, RolesOK, GuardApart DEF EmGuard
  <2> QED
    BY <1>2, <2>1, <2>2, <2>3, <2>4, <2>5 DEF EmployerAuthStart
<1>3. ASSUME NEW e \in Emails, SuspendJobseeker(h, e) \/ UnsuspendJobseeker(h, e)
      PROVE  ApartIInv'
  BY <1>0, <1>3, AdministrationApart DEF SuspendJobseeker, UnsuspendJobseeker
<1> QED
  BY <1>1, <1>2, <1>3 DEF UserStart

LEMMA AdminStartApart ==
    ASSUME IInv, ApartIInv, Apart, NEW h \in Handlers, AdminStart(h)
    PROVE  ApartIInv'
<1>1. ASSUME NEW e \in Emails, AdSendReset(h, e)
      PROVE  ApartIInv'
  BY <1>1, RolesOK, SendCodeApart DEF AdSendReset
<1>2. ASSUME NEW e \in Emails, NEW p \in Pwds,
             AdLogin(h, e, p) \/ AdReset(h, e, p)
             \/ AdRequestChange(h, e, p) \/ AdCompleteChange(h, e, p)
      PROVE  ApartIInv'
  BY <1>2, RolesOK, LoginApart, ResetApart, DefaultPasswordApart DEF AdLogin, AdReset
<1>3. ASSUME NEW e \in Emails, NEW c \in CodeValues, AdConfirmReset(h, e, c)
      PROVE  ApartIInv'
  BY <1>3, RolesOK, ResetApart DEF AdConfirmReset
<1>4. ASSUME NEW s \in Sids, AdRefresh(h, s)
      PROVE  ApartIInv'
  BY <1>4, RolesOK, RefreshApart DEF AdRefresh
<1>5. ASSUME NEW s \in Sids, NEW op \in {"serve", "logout"},
             NEW t \in {"first", "renewed"}, AdGuard(h, op, s, t)
      PROVE  ApartIInv'
  BY <1>5, RolesOK, GuardApart DEF AdGuard
<1>6. ASSUME NEW e \in Emails,
             CreateAdmin(h, e) \/ DeleteAdmin(h, e) \/ SuspendAdmin(h, e)
             \/ UnsuspendAdmin(h, e)
      PROVE  ApartIInv'
  BY <1>6, AdministrationApart, DeleteAdminApart DEF SuspendAdmin, UnsuspendAdmin
<1> QED
  BY <1>1, <1>2, <1>3, <1>4, <1>5, <1>6 DEF AdminStart, AdminAuthStart

LEMMA StepApart ==
    ASSUME IInv, ApartIInv, Apart, NEW h \in Handlers, Step(h)
    PROVE  ApartIInv'
<1>0. js \in {js, em} /\ em \in {js, em} /\ js # ad /\ em # ad /\ ad # js /\ em # js
  BY DEF js, em, ad
<1>1. CASE JobseekerAuthStep(h)
  <2>1. CASE JsRegisterOther(h) \/ JsRegisterPhone(h) \/ JsInsert(h)
    BY <1>0, <2>1, RolesOK, RegisterApart, InsertAccountApart
    DEF JsRegisterOther, JsInsert
  <2>2. CASE JsGoogleOther(h) \/ JsGoogleInsert(h) \/ UnifiedOther(h) \/ UnifiedEmployer(h)
    BY <1>0, <2>2, RolesOK, GoogleApart, InsertAccountApart, UnifiedApart
    DEF JsGoogleOther, JsGoogleInsert
  <2>3. CASE JsRefreshStep(h)
    BY <2>3, RolesOK, RefreshApart, SessionsAssumption DEF JsRefreshStep
  <2>4. CASE JsGuardStep(h)
    BY <2>4, RolesOK, GuardApart DEF JsGuardStep
  <2>5. CASE JsLogoutStep(h)
    BY <2>5, RolesOK, LogoutApart DEF JsLogoutStep
  <2>6. CASE JsVerifyStep(h) \/ JsConfirmResetStep(h) \/ JsResetStep(h)
    BY <1>0, <2>6, RolesOK, VerifyApart, ResetApart
    DEF JsVerifyStep, JsConfirmResetStep, JsResetStep
  <2> QED
    BY <1>1, <2>1, <2>2, <2>3, <2>4, <2>5, <2>6, TokensApart DEF JobseekerAuthStep
<1>2. CASE EmployerAuthStep(h)
  <2>1. CASE EmRegisterOther(h) \/ EmInsert(h) \/ EmGoogleOther(h) \/ EmGoogleInsert(h)
    BY <1>0, <2>1, RolesOK, RegisterApart, GoogleApart, InsertAccountApart
    DEF EmRegisterOther, EmInsert, EmGoogleOther, EmGoogleInsert
  <2>2. CASE EmRefreshStep(h)
    BY <2>2, RolesOK, RefreshApart, SessionsAssumption DEF EmRefreshStep
  <2>3. CASE EmGuardStep(h)
    BY <2>3, RolesOK, GuardApart DEF EmGuardStep, EmValidateSession
  <2>4. CASE EmLogoutStep(h)
    BY <2>4, RolesOK, LogoutApart DEF EmLogoutStep
  <2>5. CASE EmVerifyStep(h) \/ EmConfirmResetStep(h) \/ EmResetStep(h)
    BY <1>0, <2>5, RolesOK, VerifyApart, ResetApart
    DEF EmVerifyStep, EmConfirmResetStep, EmResetStep
  <2> QED
    BY <1>2, <2>1, <2>2, <2>3, <2>4, <2>5, TokensApart DEF EmployerAuthStep
<1>3. CASE AdminAuthStep(h)
  <2>1. CASE AdRefreshStep(h)
    BY <2>1, RolesOK, RefreshApart, SessionsAssumption DEF AdRefreshStep
  <2>2. CASE AdValidateSession(h)
    BY <1>0, <2>2, RolesOK, GuardApart DEF AdValidateSession
  <2>3. CASE AdLogoutStep(h)
    BY <2>3, RolesOK, LogoutApart DEF AdLogoutStep
  <2>4. CASE AdCompleteChangeStep(h) \/ AdConfirmResetStep(h) \/ AdResetStep(h)
    BY <2>4, RolesOK, ResetApart DEF AdCompleteChangeStep, AdConfirmResetStep, AdResetStep
  <2> QED
    BY <1>3, <2>1, <2>2, <2>3, <2>4, TokensApart DEF AdminAuthStep
<1>4. CASE SaveReload(h) \/ SaveWrite(h) \/ CodeRead(h) \/ CodeStore(h) \/ Served(h)
  BY <1>0, <1>4, RolesOK, SaveReloadApart, SaveWriteApart, SendCodeApart, GuardApart
<1>5. CASE CreateAdminInsert(h) \/ MailSent(h)
  BY <1>5, SessionsAssumption, AdministrationApart
<1> QED
  BY <1>1, <1>2, <1>3, <1>4, <1>5 DEF Step

\* While no two requests are about one address, ApartIInv holds.
LEMMA ApartInvariance == Spec /\ []Apart => []ApartIInv
<1>1. Init => ApartIInv
  <2> SUFFICES ASSUME Init PROVE ApartIInv
    OBVIOUS
  <2>1. closed = {} /\ req = [h \in Handlers |-> Idle]
        /\ auth = [r \in Role |-> [e \in Emails |-> NoRow]]
        /\ session = [s \in Sids |-> NoSession]
    BY DEF Init
  <2>2. \A h \in Handlers : ApartOK(req[h], auth, session, closed)
    BY <2>1, IdleApart
  <2>3. ClosedStayClosed(session, closed)
    BY <2>1 DEF ClosedStayClosed
  <2>4. OneRolePerEmail
    BY <2>1, SomeOK, RolesOK DEF OneRolePerEmail
  <2>5. AdminReplacedPassword
    BY <2>1 DEF AdminReplacedPassword, NoSession, ad
  <2> QED
    BY <2>2, <2>3, <2>4, <2>5 DEF ApartIInv
<1>2. IInv /\ ApartIInv /\ Apart /\ [Next]_sessionVars => ApartIInv'
  <2> SUFFICES ASSUME IInv, ApartIInv, Apart, [Next]_sessionVars
               PROVE  ApartIInv'
    OBVIOUS
  <2>1. CASE UNCHANGED sessionVars
    BY <2>1 DEF sessionVars, ApartIInv, OneRolePerEmail, AdminReplacedPassword
  <2>2. CASE TimePasses
    BY <2>2, TimeApart
  <2>3. ASSUME NEW h \in Handlers, Start(h) \/ Step(h)
        PROVE  ApartIInv'
    BY <2>3, UserStartApart, AdminStartApart, StepApart DEF Start
  <2>4. ASSUME NEW h \in Handlers, Fails(h)
        PROVE  ApartIInv'
    BY <2>4, AnswerApart DEF Fails, history
  <2> QED
    BY <2>1, <2>2, <2>3, <2>4 DEF Next
<1> QED
  BY <1>1, <1>2, AccountsInvariant, PTL DEF Spec

\* While no two requests are about one address, a request that reached its
\* route has a session that no logout, password reset or password change has
\* closed, and no suspended job seeker gets through.
THEOREM OnlyOpenServedHolds == Spec /\ []Apart => []OnlyOpenServed
<1>1. ApartIInv => OnlyOpenServed
  <2> SUFFICES ASSUME ApartIInv, NEW h \in Handlers,
                      req[h].op = "serve", req[h].pc = "granted"
               PROVE  req[h].sid \notin closed /\ (req[h].role = js => ~Account(h).suspended)
    BY DEF OnlyOpenServed
  <2>1. TokenOK(req[h], auth, session, closed)
    BY DEF ApartIInv, ApartOK
  <2> QED
    BY <2>1 DEF TokenOK, Account
<1> QED
  BY <1>1, ApartInvariance, PTL

\* While no two requests are about one address, no address is a job seeker's
\* and an employer's, by whatever way it signed up.
THEOREM OneRolePerEmailHolds == Spec /\ []Apart => []OneRolePerEmail
<1>1. ApartIInv => OneRolePerEmail
  BY DEF ApartIInv
<1> QED
  BY <1>1, ApartInvariance, PTL

\* While no two requests are about one address, an administrator who has a
\* session has replaced the generated password.
THEOREM AdminReplacedPasswordHolds == Spec /\ []Apart => []AdminReplacedPassword
<1>1. ApartIInv => AdminReplacedPassword
  BY DEF ApartIInv
<1> QED
  BY <1>1, ApartInvariance, PTL
=============================================================================
