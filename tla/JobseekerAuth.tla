--------------------------- MODULE JobseekerAuth ---------------------------
(***************************************************************************)
(* JobSeekerAuthService and the guard of the job seekers' routes: what the *)
(* job seekers' sign-in adds to the steps of Sessions.  Registration also  *)
(* checks the telephone number and mails the verification code itself, the *)
(* Redis copy of a session holds the refresh token's id, and logout takes  *)
(* that id from there.  The unified Google sign-in starts here and goes on *)
(* as an employer's when the address belongs to one.                       *)
(***************************************************************************)
EXTENDS Sessions

js == "jobseeker"

JsRegister(h, e) == RegisterCheckOwn(h, js, e)
JsRegisterOther(h) == RegisterCheckOther(h, js, "phone")
\* Whether the telephone number is taken is left open.
JsRegisterPhone(h) ==
    /\ At(h, {"register"}, "phone", js)
    /\ Goto(h, "insert") \/ Answer(h)
    /\ UNCHANGED <<tables, tokens, mails, history>>
JsInsert(h) == InsertAccount(h, js, {"register"}, FALSE, "codeRead")

JsLogin(h, e, p) ==
    Login(h, js, e, p, auth[js][e].verified /\ ~auth[js][e].suspended)

\* Mutant of JsGoogleOther: the other table is not asked.
JsGoogleOtherUnasked(h) ==
    /\ At(h, {"google"}, "other", js)
    /\ Goto(h, "insert")
    /\ UNCHANGED <<tables, tokens, mails, history>>

JsGoogle(h, e) == GoogleExisting(h, "google", js, e) \/ GoogleNew(h, "google", js, e)
JsGoogleOther(h) == GoogleCheckOther(h, {"google"}, js)
JsGoogleInsert(h) == InsertAccount(h, js, {"google", "unified"}, TRUE, "open")

\* unifiedAuth: the job seekers' sign-in; a conflict with an employer's
\* address turns the request into the employers' one.
Unified(h, e) == GoogleExisting(h, "unified", js, e) \/ GoogleNew(h, "unified", js, e)
UnifiedOther(h) ==
    /\ At(h, {"unified"}, "other", js)
    /\ IF auth["employer"][req[h].email].live
       THEN req' = [req EXCEPT ![h].role = "employer", ![h].pc = "own"]
       ELSE Goto(h, "insert")
    /\ UNCHANGED <<tables, tokens, mails, history>>
UnifiedEmployer(h) ==
    /\ At(h, {"unified"}, "own", "employer")
    /\ Account(h).live
    /\ LET a == Account(h) IN
       IF a.suspended \/ a.verified
       THEN GotoIf(h, ~a.suspended, "open")
       ELSE req' = [req EXCEPT ![h].pc = "reload",
                               ![h].mem = [a EXCEPT !.verified = TRUE]]
    /\ UNCHANGED <<tables, tokens, mails, history>>

JsRefresh(h, s) == RefreshStart(h, js, s)
JsRefreshStep(h) ==
    \/ RefreshBlacklist(h, js)
    \/ RefreshRow(h, js)
    \/ RefreshAccount(h, js, ~Account(h).suspended)
    \/ RefreshTouch(h, js)
    \/ RefreshRenew(h, js, "withRefresh")

JsGuard(h, op, s, t) == GuardStart(h, op, js, s, t)
JsGuardStep(h) ==
    \/ ValidateCopy(h, js)
    \/ ValidateRow(h, js, "gAccount")
    \/ ValidateEvict(h, js)
    \/ GuardAccount(h, js)

JsLogoutStep(h) ==
    \/ LogoutRead(h, js)
    \/ LogoutAccess(h, js, "lAccess", IF req[h].known THEN "lRefresh" ELSE "lUncache")
    \/ LogoutRefresh(h, js)
    \/ LogoutUncache(h, js)
    \/ LogoutClose(h, js)

JsSendCode(h, e) == SendCodeStart(h, "sendCode", js, e)
JsVerify(h, e, c) == VerifyCode(h, js, e, c)
JsVerifyStep(h) == VerifyLoad(h, js) \/ VerifyDelCode(h, js)

JsSendReset(h, e) == SendCodeStart(h, "sendReset", js, e)
JsConfirmReset(h, e, c) == ConfirmCode(h, js, e, c)
JsConfirmResetStep(h) == ConfirmDelCode(h, js)
JsReset(h, e, p) == ResetLoad(h, js, e, [auth[js][e] EXCEPT !.pwd = p])
JsResetStep(h) == CloseAll(h, js, {"reset"})

JsTokens(h) == \/ \E s \in Sids : GenerateTokens(h, js, s)
               \/ StoreRedisSession(h, js, "withRefresh")

JobseekerAuthStart(h) ==
    \/ \E e \in Emails :
          \/ JsRegister(h, e) \/ JsGoogle(h, e) \/ Unified(h, e)
          \/ JsSendCode(h, e) \/ JsSendReset(h, e)
          \/ \E p \in Pwds : JsLogin(h, e, p) \/ JsReset(h, e, p)
          \/ \E c \in CodeValues : JsVerify(h, e, c) \/ JsConfirmReset(h, e, c)
    \/ \E s \in Sids :
          \/ JsRefresh(h, s)
          \/ \E op \in {"serve", "logout"}, t \in {"first", "renewed"} :
                JsGuard(h, op, s, t)

JobseekerAuthStep(h) ==
    \/ JsRegisterOther(h) \/ JsRegisterPhone(h) \/ JsInsert(h)
    \/ JsGoogleOther(h) \/ JsGoogleInsert(h)
    \/ UnifiedOther(h) \/ UnifiedEmployer(h)
    \/ JsRefreshStep(h) \/ JsGuardStep(h) \/ JsLogoutStep(h)
    \/ JsVerifyStep(h) \/ JsConfirmResetStep(h) \/ JsResetStep(h)
    \/ JsTokens(h)
=============================================================================
