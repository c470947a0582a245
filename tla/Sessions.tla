------------------------------ MODULE Sessions ------------------------------
(***************************************************************************)
(* The tables and Redis keys behind every sign-in, and the steps the three *)
(* authentication services (job seeker, employer, admin) have in common.   *)
(* EmployerAuth, AdminAuth and JobseekerAuth say what is theirs;           *)
(* Accounts puts them together with the administration of accounts.        *)
(*                                                                         *)
(* An account is a row of jobseeker_auth, employer_auth or admin_auth,     *)
(* named by its role and its email address.  An open session is three      *)
(* things that are written one after the other: a row of the role's        *)
(* session table, a copy of it in Redis that lives 24 hours, and the two   *)
(* tokens the client holds.  A request that carries an access token is     *)
(* served when the token is not blacklisted, the Redis copy exists, the    *)
(* row is active and the account is not suspended: four reads, four        *)
(* moments.                                                                *)
(*                                                                         *)
(* One action is what a handler does between two awaits.  Hashing and      *)
(* signing are folded into the step that follows them; how long a token,   *)
(* a code or a Redis key lives is a step that ends it at any time.         *)
(***************************************************************************)
EXTENDS Naturals, FiniteSets, RowSave

CONSTANTS
    Emails,      \* email addresses (an account is a role and an address)
    Sids,        \* ids a session row can get
    Handlers,    \* requests in flight at once
    Pwds,        \* passwords: the first one of an account and others
    CodeValues   \* the values a six-digit code can get

ASSUME SessionsAssumption ==
    Emails # {} /\ Sids # {} /\ Pwds # {}

VARIABLES
    auth,           \* the three auth tables: auth[role][email]
    session,        \* the three session tables, one row per id
    cached,         \* Redis session:user:<id>
    revoked,        \* Redis blacklist:access:<jti>
    refreshRevoked, \* Redis blacklist:refresh:<jti>, by session
    refreshed,      \* sessions whose access token was renewed
    codes,          \* Redis verification:email and reset_password keys
    resetToken,     \* unexpired reset tokens: <<role, email>>, <<"default", email>>
    req,            \* the handlers
    proved,         \* history: addresses whose owner proved to read them
    closed          \* history: sessions that a logout or a reset has closed

sessionVars == <<auth, session, cached, revoked, refreshRevoked, refreshed,
                 codes, resetToken, req, proved, closed>>

Role == {"jobseeker", "employer", "admin"}

\* A row of an auth table; live: the row exists, changed: an admin has
\* replaced the generated password, pwd: which password is stored ("random"
\* for the bytes a Google sign-up stores, which nobody knows).
AuthRow == [live : BOOLEAN, verified : BOOLEAN, suspended : BOOLEAN,
            changed : BOOLEAN, pwd : Pwds \cup {"random"}]
FirstPwd == CHOOSE p \in Pwds : TRUE
NoRow == [live |-> FALSE, verified |-> FALSE, suspended |-> FALSE,
          changed |-> FALSE, pwd |-> FirstPwd]

\* A row of a session table; role = "none" when no such row exists.
SessionRow == [role : Role \cup {"none"}, email : Emails,
               active : BOOLEAN, expired : BOOLEAN]
SomeEmail == CHOOSE e \in Emails : TRUE
NoSession == [role |-> "none", email |-> SomeEmail,
              active |-> FALSE, expired |-> FALSE]

\* The Redis copy of a session; only the job seekers' one has the id of the
\* refresh token.
RedisSession == {"none", "plain", "withRefresh"}

\* An access token is the one a session was opened with or a renewed one.
Token == Sids \X {"first", "renewed"}

\* The email verification code is keyed by the address alone, the password
\* reset code by the account.
VerifyKey(e) == <<"verify", "any", e>>
ResetKey(r, e) == <<"reset", r, e>>
CodeKeys == {VerifyKey(e) : e \in Emails}
              \cup {ResetKey(r, e) : r \in Role, e \in Emails}
\* The code, or "none" without the key.
Code == CodeValues \cup {"none"}

\* Signed tokens that let their bearer set a password; they are not struck
\* off when they are used.
ResetTokens == (Role \cup {"default"}) \X Emails

\* A request in flight: what it is about, its next step, and its locals: the
\* auth entity (mem), the copy save compares it with (snap), the isActive of
\* the session entity (live), whether Redis told it the refresh token (known).
Op == {"none", "register", "login", "google", "unified", "refresh", "serve", "logout",
       "sendCode", "verify", "sendReset", "confirmReset", "reset",
       "defaultPwd", "createAdmin", "suspend", "unsuspend"}
Pc == {"idle", "own", "other", "phone", "insert", "codeRead", "codeStore",
       "open", "cache", "reload", "write", "blacklist", "row", "account",
       "touch", "renew", "gCache", "gRow", "gEvict", "gAccount", "granted",
       "lAccess", "lRefresh", "lUncache", "lClose", "load", "delCode",
       "closeAll", "mail"}
Request == [op : Op, pc : Pc, role : Role, email : Emails, sid : Sids,
            tok : {"first", "renewed"}, mem : AuthRow, snap : AuthRow,
            live : BOOLEAN, known : BOOLEAN]
SomeSid == CHOOSE s \in Sids : TRUE
Idle == [op |-> "none", pc |-> "idle", role |-> "admin", email |-> SomeEmail,
         sid |-> SomeSid, tok |-> "first", mem |-> NoRow, snap |-> NoRow,
         live |-> FALSE, known |-> FALSE]

-----------------------------------------------------------------------------
\* Bookkeeping of the handlers
Begin(h, op, pc, r, e) ==
    /\ req[h].pc = "idle"
    /\ req' = [req EXCEPT ![h] = [Idle EXCEPT !.op = op, !.pc = pc,
                                              !.role = r, !.email = e]]
BeginSave(h, op, r, e, entity) ==
    /\ req[h].pc = "idle"
    /\ req' = [req EXCEPT ![h] = [Idle EXCEPT !.op = op, !.pc = "reload",
                                       !.role = r, !.email = e, !.mem = entity]]
BeginSession(h, op, pc, s, t) ==
    /\ req[h].pc = "idle"
    /\ req' = [req EXCEPT ![h] = [Idle EXCEPT !.op = op, !.pc = pc, !.tok = t,
                                       !.sid = s, !.role = session[s].role,
                                       !.email = session[s].email]]
At(h, ops, pc, r) == req[h].op \in ops /\ req[h].pc = pc /\ req[h].role = r
Goto(h, pc) == req' = [req EXCEPT ![h].pc = pc]
Answer(h) == req' = [req EXCEPT ![h] = Idle]
GotoIf(h, ok, pc) == IF ok THEN Goto(h, pc) ELSE Answer(h)
Account(h) == auth[req[h].role][req[h].email]

\* Bound: a request that opens a session begins only while an id is left
\* for it.
Opening == {h \in Handlers :
              /\ req[h].op \in {"register", "login", "google", "unified", "verify"}
              /\ req[h].pc # "cache"}
SidLeft == Cardinality(Opening) < Cardinality({s \in Sids : session[s].role = "none"})

\* What the parts of the state are called in UNCHANGED
tables == <<auth, session>>
tokens == <<cached, revoked, refreshRevoked, refreshed>>
mails == <<codes, resetToken>>
history == <<proved, closed>>

-----------------------------------------------------------------------------
\* generateTokens: the session row (which refers to the account, so that the
\* insert fails without it), then its Redis copy (and the two tokens).
GenerateTokens(h, r, s) ==
    /\ req[h].pc = "open" /\ req[h].role = r
    /\ session[s].role = "none"
    /\ IF Account(h).live
       THEN /\ session' = [session EXCEPT ![s] =
                             [role |-> r, email |-> req[h].email,
                              active |-> TRUE, expired |-> FALSE]]
            /\ req' = [req EXCEPT ![h].pc = "cache", ![h].sid = s]
       ELSE Answer(h) /\ UNCHANGED session
    /\ UNCHANGED <<auth, tokens, mails, history>>

StoreRedisSession(h, r, copy) ==
    /\ req[h].pc = "cache" /\ req[h].role = r
    /\ cached' = [cached EXCEPT ![req[h].sid] = copy]
    /\ Answer(h)
    /\ UNCHANGED <<tables, revoked, refreshRevoked, refreshed, mails, history>>

-----------------------------------------------------------------------------
\* Repository.save(auth): the second SELECT and the UPDATE of the columns
\* that differ from it; what follows depends on the operation.  An account
\* deleted before the SELECT is inserted again; one deleted after it is not
\* there for the UPDATE.
SaveReload(h) ==
    /\ req[h].pc = "reload"
    /\ req' = [req EXCEPT ![h].pc = "write", ![h].snap = Account(h)]
    /\ UNCHANGED <<tables, tokens, mails, history>>

AfterSave(op) == CASE op \in {"google", "unified"} -> "open"
                   [] op = "verify" -> "delCode"
                   [] op \in {"reset", "defaultPwd"} -> "closeAll"
                   [] OTHER -> "mail"

Saved(row, snap, mem) ==
    [f \in DOMAIN NoRow |-> SaveColumn(row[f], snap[f], mem[f])]

SaveWrite(h) ==
    /\ req[h].pc = "write"
    /\ IF Account(h).live = req[h].snap.live
       THEN /\ auth' = [auth EXCEPT ![req[h].role][req[h].email] =
                          Saved(@, req[h].snap, req[h].mem)]
            /\ Goto(h, AfterSave(req[h].op))
       ELSE /\ UNCHANGED auth
            /\ GotoIf(h, req[h].snap.live, AfterSave(req[h].op))
    /\ UNCHANGED <<session, tokens, mails, history>>

-----------------------------------------------------------------------------
\* login: the account, the password p that was typed, what else the role
\* asks for (allowed), then the tokens.
Login(h, r, e, p, allowed) ==
    /\ auth[r][e].live /\ auth[r][e].pwd = p /\ allowed /\ SidLeft
    /\ Begin(h, "login", "open", r, e)
    /\ UNCHANGED <<tables, tokens, mails, history>>

\* register and Google sign-up: is the address taken in this role, in the
\* other one; then one transaction inserts the account and its profile.
OtherRole(r) == IF r = "jobseeker" THEN "employer" ELSE "jobseeker"

RegisterCheckOwn(h, r, e) ==
    /\ ~auth[r][e].live /\ SidLeft
    /\ Begin(h, "register", "other", r, e)
    /\ UNCHANGED <<tables, tokens, mails, history>>

RegisterCheckOther(h, r, next) ==
    /\ At(h, {"register"}, "other", r)
    /\ GotoIf(h, ~auth[OtherRole(r)][req[h].email].live, next)
    /\ UNCHANGED <<tables, tokens, mails, history>>

\* The unique index on the address makes the insert of a second row fail.
InsertAccount(h, r, ops, google, next) ==
    /\ At(h, ops, "insert", r)
    /\ IF Account(h).live
       THEN Answer(h) /\ UNCHANGED auth
       ELSE /\ auth' = [auth EXCEPT ![r][req[h].email] =
                 [NoRow EXCEPT !.live = TRUE, !.verified = google,
                               !.pwd = IF google THEN "random" ELSE FirstPwd]]
            /\ Goto(h, next)
    /\ UNCHANGED <<session, tokens, mails, history>>

-----------------------------------------------------------------------------
\* googleAuth: Google has vouched for the address e.
GoogleExisting(h, op, r, e) ==
    LET a == auth[r][e] IN
    /\ a.live /\ ~a.suspended /\ SidLeft
    /\ \/ a.verified /\ Begin(h, op, "open", r, e)
       \/ ~a.verified /\ BeginSave(h, op, r, e, [a EXCEPT !.verified = TRUE])
    /\ proved' = proved \cup {e}
    /\ UNCHANGED <<tables, tokens, mails, closed>>

GoogleNew(h, op, r, e) ==
    /\ ~auth[r][e].live /\ SidLeft
    /\ Begin(h, op, "other", r, e)
    /\ proved' = proved \cup {e}
    /\ UNCHANGED <<tables, tokens, mails, closed>>

GoogleCheckOther(h, ops, r) ==
    /\ At(h, ops, "other", r)
    /\ GotoIf(h, ~auth[OtherRole(r)][req[h].email].live, "insert")
    /\ UNCHANGED <<tables, tokens, mails, history>>

-----------------------------------------------------------------------------
\* refreshToken: blacklist, session row, account, then save(session) writes
\* the whole entity and the Redis copy is stored again.
RefreshStart(h, r, s) ==
    /\ session[s].role = r
    /\ BeginSession(h, "refresh", "blacklist", s, "first")
    /\ UNCHANGED <<tables, tokens, mails, history>>

RefreshBlacklist(h, r) ==
    /\ At(h, {"refresh"}, "blacklist", r)
    /\ GotoIf(h, req[h].sid \notin refreshRevoked, "row")
    /\ UNCHANGED <<tables, tokens, mails, history>>

RefreshRow(h, r) ==
    /\ At(h, {"refresh"}, "row", r)
    /\ LET s == session[req[h].sid] IN
       IF s.active /\ ~s.expired
       THEN req' = [req EXCEPT ![h].pc = "account", ![h].live = s.active]
       ELSE Answer(h)
    /\ UNCHANGED <<tables, tokens, mails, history>>

RefreshAccount(h, r, allowed) ==
    /\ At(h, {"refresh"}, "account", r)
    /\ GotoIf(h, Account(h).live /\ allowed, "touch")
    /\ UNCHANGED <<tables, tokens, mails, history>>

\* lastActivityAt always differs, so the row is written; isActive goes with
\* it when the row no longer has the value that was loaded.
RefreshTouch(h, r) ==
    /\ At(h, {"refresh"}, "touch", r)
    /\ session' = [session EXCEPT ![req[h].sid].active = req[h].live]
    /\ Goto(h, "renew")
    /\ UNCHANGED <<auth, tokens, mails, history>>

RefreshRenew(h, r, copy) ==
    /\ At(h, {"refresh"}, "renew", r)
    /\ cached' = [cached EXCEPT ![req[h].sid] = copy]
    /\ refreshed' = refreshed \cup {req[h].sid}
    /\ Answer(h)
    /\ UNCHANGED <<tables, revoked, refreshRevoked, mails, history>>

-----------------------------------------------------------------------------
\* A request with the access token <<s, t>>: first the guard of the role.
GuardStart(h, op, r, s, t) ==
    /\ session[s].role = r
    /\ t = "renewed" => s \in refreshed
    /\ <<s, t>> \notin revoked
    /\ BeginSession(h, op, "gCache", s, t)
    /\ UNCHANGED <<tables, tokens, mails, history>>

\* validateSession: the Redis copy, then the row; a row that is closed or
\* expired takes its Redis copy with it.
ValidateCopy(h, r) ==
    /\ At(h, {"serve", "logout"}, "gCache", r)
    /\ GotoIf(h, cached[req[h].sid] # "none", "gRow")
    /\ UNCHANGED <<tables, tokens, mails, history>>

ValidateRow(h, r, next) ==
    /\ At(h, {"serve", "logout"}, "gRow", r)
    /\ LET s == session[req[h].sid] IN
       Goto(h, IF s.active /\ ~s.expired THEN next ELSE "gEvict")
    /\ UNCHANGED <<tables, tokens, mails, history>>

ValidateEvict(h, r) ==
    /\ At(h, {"serve", "logout"}, "gEvict", r)
    /\ cached' = [cached EXCEPT ![req[h].sid] = "none"]
    /\ Answer(h)
    /\ UNCHANGED <<tables, revoked, refreshRevoked, refreshed, mails, history>>

GuardAccount(h, r) ==
    /\ At(h, {"serve", "logout"}, "gAccount", r)
    /\ GotoIf(h, ~Account(h).suspended, "granted")
    /\ UNCHANGED <<tables, tokens, mails, history>>

\* The route's own handler: here only that the request reached it.
Served(h) ==
    /\ req[h].op = "serve" /\ req[h].pc = "granted"
    /\ Answer(h)
    /\ UNCHANGED <<tables, tokens, mails, history>>

-----------------------------------------------------------------------------
\* logout: the blacklist, the Redis copy, the row.
LogoutRead(h, r) ==
    /\ At(h, {"logout"}, "granted", r)
    /\ req' = [req EXCEPT ![h].pc = "lAccess",
                          ![h].known = cached[req[h].sid] = "withRefresh"]
    /\ UNCHANGED <<tables, tokens, mails, history>>

LogoutAccess(h, r, pc, next) ==
    /\ At(h, {"logout"}, pc, r)
    /\ revoked' = revoked \cup {<<req[h].sid, req[h].tok>>}
    /\ Goto(h, next)
    /\ UNCHANGED <<tables, cached, refreshRevoked, refreshed, mails, history>>

LogoutRefresh(h, r) ==
    /\ At(h, {"logout"}, "lRefresh", r)
    /\ refreshRevoked' = refreshRevoked \cup {req[h].sid}
    /\ Goto(h, "lUncache")
    /\ UNCHANGED <<tables, cached, revoked, refreshed, mails, history>>

LogoutUncache(h, r) ==
    /\ At(h, {"logout"}, "lUncache", r)
    /\ cached' = [cached EXCEPT ![req[h].sid] = "none"]
    /\ Goto(h, "lClose")
    /\ UNCHANGED <<tables, revoked, refreshRevoked, refreshed, mails, history>>

\* Mutant of LogoutClose: the row is left active.
LogoutCloseForgotten(h, r) ==
    /\ At(h, {"logout"}, "lClose", r)
    /\ closed' = closed \cup {req[h].sid}
    /\ Answer(h)
    /\ UNCHANGED <<tables, tokens, mails, proved>>

LogoutClose(h, r) ==
    /\ At(h, {"logout"}, "lClose", r)
    /\ session' = [session EXCEPT ![req[h].sid].active = FALSE]
    /\ closed' = closed \cup {req[h].sid}
    /\ Answer(h)
    /\ UNCHANGED <<auth, tokens, mails, proved>>

-----------------------------------------------------------------------------
\* sendVerificationEmail and sendPasswordResetCode: within a minute of the
\* last code (either may be the case while that is stored) none is sent;
\* otherwise a new one replaces it.
CodeKey(h) == IF req[h].op = "sendReset"
              THEN ResetKey(req[h].role, req[h].email)
              ELSE VerifyKey(req[h].email)

SendCodeStart(h, op, r, e) ==
    /\ auth[r][e].live
    /\ Begin(h, op, "codeRead", r, e)
    /\ UNCHANGED <<tables, tokens, mails, history>>

EndOfCode(h) == GotoIf(h, req[h].op = "register", "open")

CodeRead(h) ==
    /\ req[h].pc = "codeRead"
    /\ \/ codes[CodeKey(h)] # "none" /\ EndOfCode(h)
       \/ Goto(h, "codeStore")
    /\ UNCHANGED <<tables, tokens, mails, history>>

CodeStore(h) ==
    /\ req[h].pc = "codeStore"
    /\ \E c \in CodeValues :
          codes' = [codes EXCEPT ![CodeKey(h)] = c]
    /\ EndOfCode(h)
    /\ UNCHANGED <<tables, tokens, resetToken, history>>

\* Who knows the code of an address can read its mail.
CodeProves(e, c) == IF codes[VerifyKey(e)] = c THEN {e} ELSE {}

\* Mutant of VerifyCode: any code will do.
VerifyCodeUnchecked(h, r, e, c) ==
    /\ SidLeft
    /\ Begin(h, "verify", "load", r, e)
    /\ proved' = proved \cup CodeProves(e, c)
    /\ UNCHANGED <<tables, tokens, mails, closed>>

\* verifyEmail: the code c must be the stored one; then the account is
\* loaded, saved as verified, the code deleted and the tokens made.
VerifyCode(h, r, e, c) ==
    /\ codes[VerifyKey(e)] = c /\ SidLeft
    /\ Begin(h, "verify", "load", r, e)
    /\ proved' = proved \cup CodeProves(e, c)
    /\ UNCHANGED <<tables, tokens, mails, closed>>

VerifyLoad(h, r) ==
    /\ At(h, {"verify"}, "load", r)
    /\ IF Account(h).live
       THEN req' = [req EXCEPT ![h].pc = "reload",
                               ![h].mem = [Account(h) EXCEPT !.verified = TRUE]]
       ELSE Answer(h)
    /\ UNCHANGED <<tables, tokens, mails, history>>

VerifyDelCode(h, r) ==
    /\ At(h, {"verify"}, "delCode", r)
    /\ codes' = [codes EXCEPT ![VerifyKey(req[h].email)] = "none"]
    /\ Goto(h, "open")
    /\ UNCHANGED <<tables, tokens, resetToken, history>>

\* confirmPasswordResetCode: the right code is exchanged for a reset token.
ConfirmCode(h, r, e, c) ==
    /\ auth[r][e].live
    /\ codes[ResetKey(r, e)] = c
    /\ Begin(h, "confirmReset", "delCode", r, e)
    /\ UNCHANGED <<tables, tokens, mails, history>>

ConfirmDelCode(h, r) ==
    /\ At(h, {"confirmReset"}, "delCode", r)
    /\ codes' = [codes EXCEPT ![ResetKey(r, req[h].email)] = "none"]
    /\ resetToken' = resetToken \cup {<<r, req[h].email>>}
    /\ Answer(h)
    /\ UNCHANGED <<tables, tokens, history>>

\* resetPassword: entity is the account with the new password.
ResetLoad(h, r, e, entity) ==
    /\ <<r, e>> \in resetToken
    /\ auth[r][e].live
    /\ BeginSave(h, "reset", r, e, entity)
    /\ UNCHANGED <<tables, tokens, mails, history>>

OwnSessions(r, e) == {s \in Sids : session[s].role = r /\ session[s].email = e}

CloseAll(h, r, ops) ==
    /\ At(h, ops, "closeAll", r)
    /\ LET own == OwnSessions(r, req[h].email) IN
       /\ session' = [s \in Sids |-> IF s \in own
                                     THEN [session[s] EXCEPT !.active = FALSE]
                                     ELSE session[s]]
       /\ closed' = closed \cup own
    /\ Answer(h)
    /\ UNCHANGED <<auth, tokens, mails, proved>>

-----------------------------------------------------------------------------
\* Time: codes, tokens, Redis keys and session rows run out.
CodeExpires(k) ==
    /\ codes[k] # "none"
    /\ codes' = [codes EXCEPT ![k] = "none"]
    /\ UNCHANGED <<tables, tokens, resetToken, req, history>>
ResetTokenExpires(a) ==
    /\ a \in resetToken
    /\ resetToken' = resetToken \ {a}
    /\ UNCHANGED <<tables, tokens, codes, req, history>>
RedisSessionExpires(s) ==
    /\ cached[s] # "none"
    /\ cached' = [cached EXCEPT ![s] = "none"]
    /\ UNCHANGED <<tables, revoked, refreshRevoked, refreshed, mails, req,
                   history>>
BlacklistExpires(t) ==
    /\ t \in revoked
    /\ revoked' = revoked \ {t}
    /\ UNCHANGED <<tables, cached, refreshRevoked, refreshed, mails, req,
                   history>>
SessionExpires(s) ==
    /\ session[s].role # "none" /\ ~session[s].expired
    /\ session' = [session EXCEPT ![s].expired = TRUE]
    /\ UNCHANGED <<auth, tokens, mails, req, history>>

TimePasses ==
    \/ \E k \in CodeKeys : CodeExpires(k)
    \/ \E a \in ResetTokens : ResetTokenExpires(a)
    \/ \E s \in Sids : RedisSessionExpires(s) \/ SessionExpires(s)
    \/ \E t \in Token : BlacklistExpires(t)

\* A call to the database, to Redis or to the mailer fails: the handler
\* answers with an error and what it wrote so far stays.
Fails(h) ==
    /\ req[h].pc # "idle"
    /\ Answer(h)
    /\ UNCHANGED <<tables, tokens, mails, history>>
=============================================================================
