---------------------------- MODULE EmployerAuth ----------------------------
(***************************************************************************)
(* EmployerAuthService and the guard of the employers' routes.  Against    *)
(* the job seekers' service: registration asks for no telephone number and *)
(* mails no code, the Redis copy of a session has no refresh token id, and *)
(* logout is given one that the access token does not carry, so that only  *)
(* the access token is blacklisted.                                        *)
(***************************************************************************)
EXTENDS Sessions

em == "employer"

EmRegister(h, e) == RegisterCheckOwn(h, em, e)
EmRegisterOther(h) == RegisterCheckOther(h, em, "insert")
EmInsert(h) == InsertAccount(h, em, {"register"}, FALSE, "open")

EmLogin(h, e, p) ==
    Login(h, em, e, p, auth[em][e].verified /\ ~auth[em][e].suspended)

EmGoogle(h, e) == GoogleExisting(h, "google", em, e) \/ GoogleNew(h, "google", em, e)
EmGoogleOther(h) == GoogleCheckOther(h, {"google"}, em)
EmGoogleInsert(h) == InsertAccount(h, em, {"google"}, TRUE, "open")

EmRefresh(h, s) == RefreshStart(h, em, s)
EmRefreshStep(h) ==
    \/ RefreshBlacklist(h, em)
    \/ RefreshRow(h, em)
    \/ RefreshAccount(h, em, ~Account(h).suspended)
    \/ RefreshTouch(h, em)
    \/ RefreshRenew(h, em, "plain")

EmGuard(h, op, s, t) == GuardStart(h, op, em, s, t)
EmValidateSession(h) == \/ ValidateCopy(h, em)
                        \/ ValidateRow(h, em, "gAccount")
                        \/ ValidateEvict(h, em)
EmGuardStep(h) == EmValidateSession(h) \/ GuardAccount(h, em)

EmLogoutStep(h) ==
    \/ LogoutAccess(h, em, "granted", "lUncache")
    \/ LogoutUncache(h, em)
    \/ LogoutClose(h, em)

EmSendCode(h, e) == SendCodeStart(h, "sendCode", em, e)
EmVerify(h, e, c) == VerifyCode(h, em, e, c)
EmVerifyStep(h) == VerifyLoad(h, em) \/ VerifyDelCode(h, em)

EmSendReset(h, e) == SendCodeStart(h, "sendReset", em, e)
EmConfirmReset(h, e, c) == ConfirmCode(h, em, e, c)
EmConfirmResetStep(h) == ConfirmDelCode(h, em)
EmReset(h, e, p) == ResetLoad(h, em, e, [auth[em][e] EXCEPT !.pwd = p])
EmResetStep(h) == CloseAll(h, em, {"reset"})

EmTokens(h) == \/ \E s \in Sids : GenerateTokens(h, em, s)
               \/ StoreRedisSession(h, em, "plain")

EmployerAuthStart(h) ==
    \/ \E e \in Emails :
          \/ EmRegister(h, e) \/ EmGoogle(h, e)
          \/ EmSendCode(h, e) \/ EmSendReset(h, e)
          \/ \E p \in Pwds : EmLogin(h, e, p) \/ EmReset(h, e, p)
          \/ \E c \in CodeValues : EmVerify(h, e, c) \/ EmConfirmReset(h, e, c)
    \/ \E s \in Sids :
          \/ EmRefresh(h, s)
          \/ \E op \in {"serve", "logout"}, t \in {"first", "renewed"} :
                EmGuard(h, op, s, t)

EmployerAuthStep(h) ==
    \/ EmRegisterOther(h) \/ EmInsert(h) \/ EmGoogleOther(h) \/ EmGoogleInsert(h)
    \/ EmRefreshStep(h) \/ EmGuardStep(h) \/ EmLogoutStep(h)
    \/ EmVerifyStep(h) \/ EmConfirmResetStep(h) \/ EmResetStep(h) \/ EmTokens(h)
=============================================================================
