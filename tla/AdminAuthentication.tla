------------------------ MODULE AdminAuthentication ------------------------
(***************************************************************************)
(* AdminAuthService and the guard of the administrators' routes.  An admin *)
(* is created with a generated password and has to replace it before the   *)
(* first login.  Neither login, refresh nor the guard looks at the         *)
(* suspended column of admin_auth.                                         *)
(***************************************************************************)
EXTENDS Sessions

ad == "admin"

\* Mutant of AdLogin: the generated password opens the dashboard.
AdLoginUnchanged(h, e, p) == Login(h, ad, e, p, TRUE)

AdLogin(h, e, p) == Login(h, ad, e, p, auth[ad][e].changed)

AdRefresh(h, s) == RefreshStart(h, ad, s)
AdRefreshStep(h) ==
    \/ RefreshBlacklist(h, ad)
    \/ RefreshRow(h, ad)
    \/ RefreshAccount(h, ad, TRUE)
    \/ RefreshTouch(h, ad)
    \/ RefreshRenew(h, ad, "plain")

AdGuard(h, op, s, t) == GuardStart(h, op, ad, s, t)
AdValidateSession(h) == \/ ValidateCopy(h, ad)
                        \/ ValidateRow(h, ad, "granted")
                        \/ ValidateEvict(h, ad)

AdLogoutStep(h) ==
    \/ LogoutAccess(h, ad, "granted", "lUncache")
    \/ LogoutUncache(h, ad)
    \/ LogoutClose(h, ad)

\* requestDefaultPasswordChange: who knows the generated password gets a
\* token to replace it.
AdRequestChange(h, e, p) ==
    LET a == auth[ad][e] IN
    /\ req[h].pc = "idle"
    /\ a.live /\ ~a.changed /\ a.pwd = p
    /\ resetToken' = resetToken \cup {<<"default", e>>}
    /\ UNCHANGED <<tables, tokens, codes, req, history>>

\* completeDefaultPasswordChange
AdCompleteChange(h, e, p) ==
    LET a == auth[ad][e] IN
    /\ <<"default", e>> \in resetToken
    /\ a.live /\ ~a.changed
    /\ BeginSave(h, "defaultPwd", ad, e, [a EXCEPT !.pwd = p, !.changed = TRUE])
    /\ UNCHANGED <<tables, tokens, mails, history>>
AdCompleteChangeStep(h) == CloseAll(h, ad, {"defaultPwd"})

AdSendReset(h, e) == SendCodeStart(h, "sendReset", ad, e)
AdConfirmReset(h, e, c) == ConfirmCode(h, ad, e, c)
AdConfirmResetStep(h) == ConfirmDelCode(h, ad)
AdReset(h, e, p) ==
    ResetLoad(h, ad, e, [auth[ad][e] EXCEPT !.pwd = p, !.changed = TRUE])
AdResetStep(h) == CloseAll(h, ad, {"reset"})

AdTokens(h) == \/ \E s \in Sids : GenerateTokens(h, ad, s)
               \/ StoreRedisSession(h, ad, "plain")

AdminAuthStart(h) ==
    \/ \E e \in Emails :
          \/ AdSendReset(h, e)
          \/ \E p \in Pwds : AdLogin(h, e, p) \/ AdRequestChange(h, e, p)
                            \/ AdCompleteChange(h, e, p) \/ AdReset(h, e, p)
          \/ \E c \in CodeValues : AdConfirmReset(h, e, c)
    \/ \E s \in Sids :
          \/ AdRefresh(h, s)
          \/ \E op \in {"serve", "logout"}, t \in {"first", "renewed"} :
                AdGuard(h, op, s, t)

AdminAuthStep(h) ==
    \/ AdRefreshStep(h) \/ AdValidateSession(h) \/ AdLogoutStep(h)
    \/ AdCompleteChangeStep(h) \/ AdConfirmResetStep(h) \/ AdResetStep(h)
    \/ AdTokens(h)
=============================================================================
