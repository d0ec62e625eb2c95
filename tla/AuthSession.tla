---------------------------- MODULE AuthSession ----------------------------
(***************************************************************************)
(* One browser tab and its session: the cookie jar, the auth store         *)
(* (stores/auth.ts), the fetch wrapper (api/client.ts), the pages that     *)
(* sign in, out and up, and the server's sessions.                         *)
(*                                                                         *)
(* A request goes through three steps: it is sent with the cookie of that  *)
(* moment, the server serves it, and its answer arrives.  The browser      *)
(* applies the answer's Set-Cookie when it arrives, whoever is signed in   *)
(* by then, and runs the continuation of the code that awaited it.         *)
(*                                                                         *)
(* A page's own state (view) dies with its mount; answers for an unmounted *)
(* page still reach the store.  Only the tab's own requests change its     *)
(* cookie: a second tab of the browser is not modelled.                    *)
(***************************************************************************)
EXTENDS Naturals, FiniteSets, Sequences

CONSTANTS Accounts,     \* accounts that exist on the server
          Fresh0,       \* those whose address is not verified yet
          Owners,       \* Owners[s]: the account of the session s that exists at the start
          NoUser,       \* no account
          MaxRequests,  \* requests started by the user
          MaxFlight,    \* requests in flight together
          MaxFaults,    \* network failures and sessions that end elsewhere
          Menus         \* the sets of operations of which a behaviour uses one

ASSUME AuthAssumption == /\ NoUser \notin Accounts
                         /\ Fresh0 \subseteq Accounts
                         /\ Owners \in Seq(Accounts)
                         /\ Menus # {}

VARIABLES srv,     \* server: owner (a sequence), live sessions, unverified and deleted accounts
          cookie,  \* the session cookie, 0 for none
          auth,    \* useAuthStore: status, user; and the session generation
          view,    \* the page: its step, the operations it waits for, its open forms
          net,     \* requests and answers under way
          panel,   \* sessionsData.ts: the page of sessions held, and `revoked`
          toasts,  \* Retry offers of a failed sign-out
          gaps,    \* named ways in which tab and cookie may disagree until the next boundary
          menu,    \* the operations this user tries
          sent, faults

vars == <<srv, cookie, auth, view, net, panel, toasts, gaps, menu, sent, faults>>

Protected == {"app", "profile"}
Pages == Protected \cup {"login", "register", "verify", "resend", "forgot", "reset", "confirm",
                          "invite"}
PageOf(op) == CASE op \in {"login", "register", "verify", "resend", "forgot", "reset", "confirm"} -> op
                [] op = "accept" -> "invite"
                [] op \in {"logout", "retry", "read"} -> "app"
                [] OTHER -> "profile"
Visited == {PageOf(op) : op \in menu}

(* apiFetch repeats these once after a failure, and never a mutation. *)
Gets == {"read", "sessions", "summaries"}
(* Requests through plain fetch, which leaves a 401 to its caller. *)
Plain == {"me", "again", "login", "register", "verify", "reset", "confirm"}
(* Requests through apiFetch, which reads a 401 as the end of the session. *)
Fetched == Gets \cup {"profile", "prefs", "password", "email", "delete", "revoke", "accept"}
Logouts == {"logout", "retry"}

Live(s) == s \in srv.live
SessionsOf(u) == {s \in srv.live : srv.owner[s] = u}

----------------------------------------------------------------------------
(* The pages *)

(* Mutant: the link is followed whoever is signed in. *)
settleSwitchNeverAsks(st) == IF st = "loading" THEN "pending" ELSE "go"

(* settleSwitch: a signed-in visitor of a verification link is asked first. *)
settleSwitch(st) == CASE st = "loading" -> "pending"
                      [] st = "authenticated" -> "ask"
                      [] OTHER -> "go"

Mount(p, st) == [page |-> p, busy |-> {}, asked |-> FALSE,
                 step |-> CASE p = "verify" -> settleSwitch(st)
                            [] p = "reset"  -> "checking"
                            [] p = "invite" -> "preview"
                            [] OTHER        -> "idle"]

(* RequireAuth: a protected page without a session is the login page. *)
RequireAuth(p, st) == IF p \in Protected /\ st = "unauthenticated" THEN "login" ELSE p

Unmounted(N) == {[r EXCEPT !.mounted = FALSE] : r \in N}

(* navigate(p): the route's component is mounted afresh. *)
Navigate(p, st, N) == /\ view' = Mount(RequireAuth(p, st), st)
                      /\ net' = Unmounted(N)

(* The page stays, re-rendered with the new status. *)
Render(v, st, N) ==
    IF v.page \in Protected /\ st # "authenticated"
    THEN Navigate(v.page, st, N)
    ELSE /\ view' = [v EXCEPT !.step = IF @ = "pending" THEN settleSwitch(st) ELSE @]
         /\ net' = N

Done(op, v) == [v EXCEPT !.busy = @ \ {op}]
DoneIf(r) == IF r.mounted THEN Done(r.op, view) ELSE view

(* The effect that follows a link runs before anything else does. *)
Settled == ~(view.page = "verify" /\ view.step = "go")

----------------------------------------------------------------------------
(* Requests *)

Request(i, op, arg, mounted) ==
    [id |-> i, op |-> op, arg |-> arg, gen |-> auth.gen, sid |-> cookie, mounted |-> mounted,
     try |-> 0, st |-> "sent", ans |-> "none", ck |-> {}, who |-> NoUser, rows |-> {},
     asked |-> view.asked, known |-> op = "verify" /\ auth.status = "authenticated"]

(* A request the user starts. *)
CanSend(op) == op \in menu /\ sent < MaxRequests /\ Cardinality(net) < MaxFlight
Send(op, arg) == /\ CanSend(op)
                 /\ sent' = sent + 1
                 /\ net' = net \cup {Request(sent + 1, op, arg, TRUE)}

Submit(op, arg) == /\ Settled
                   /\ op \notin view.busy
                   /\ Send(op, arg)
                   /\ view' = [view EXCEPT !.busy = @ \cup {op}]
                   /\ UNCHANGED <<srv, cookie, auth, panel, toasts, gaps, faults>>

Serve(r, ans, ck, who, rows) ==
    /\ r.st = "sent"
    /\ net' = (net \ {r}) \cup {[r EXCEPT !.st = "done", !.ans = ans, !.ck = ck,
                                          !.who = who, !.rows = rows]}
    /\ UNCHANGED <<cookie, auth, view, panel, toasts, gaps, sent, faults>>

Refuse(r, ans) == Serve(r, ans, {}, NoUser, {}) /\ UNCHANGED srv
NewSession(r, u) ==
    /\ srv' = [srv EXCEPT !.owner = Append(@, u), !.live = @ \cup {Len(srv.owner) + 1},
                          !.fresh = @ \ {u}]
    /\ Serve(r, "ok", {Len(srv.owner) + 1}, u, {})

(* What the server does with a request that needs a session (get_auth_context). *)
Caller(r) == srv.owner[r.sid]

ServeLogin(r) ==
    /\ r.op = "login"
    /\ \/ r.arg \in srv.deleted /\ Refuse(r, "401")
       \/ Refuse(r, "401")
       \/ r.arg \in srv.fresh /\ Refuse(r, "403")
       \/ r.arg \notin srv.fresh \cup srv.deleted /\ NewSession(r, r.arg)

ServeVerify(r) ==
    /\ r.op = "verify"
    /\ IF r.arg \in srv.fresh THEN NewSession(r, r.arg) ELSE Refuse(r, "409")

(* Requests whose effects no tab sees here: a sign-up, a confirmed address. *)
ServePublic(r) ==
    /\ r.op \in {"register", "confirm"}
    /\ Refuse(r, "ok") \/ Refuse(r, "fail")

(* confirm_password_reset ends every session of the link's account. *)
ServeReset(r) ==
    /\ r.op = "reset"
    /\ \/ Refuse(r, "fail")
       \/ /\ r.arg \notin srv.deleted
          /\ srv' = [srv EXCEPT !.live = @ \ SessionsOf(r.arg)]
          /\ Serve(r, "ok", {}, NoUser, {})

(* me, and the requests that only read or leave sessions alone. *)
ServeRead(r) ==
    /\ r.op \in {"me", "again", "read", "summaries", "sessions", "profile", "prefs", "email", "accept"}
    /\ \/ ~Live(r.sid) /\ Refuse(r, "401")
       \/ Live(r.sid) /\ Serve(r, "ok", {}, Caller(r), IF r.op = "sessions" THEN SessionsOf(Caller(r)) ELSE {}) /\ UNCHANGED srv
       \/ Live(r.sid) /\ r.op \in {"profile", "prefs", "email", "accept"} /\ Refuse(r, "fail")

(* logout, change_password, revoke_other_session and delete_own_account. *)
ServeEnd(r) ==
    /\ r.op \in Logouts \cup {"password", "revoke", "delete"}
    /\ \/ ~Live(r.sid) /\ Refuse(r, "401")
       \/ Live(r.sid) /\ r.op \in {"password", "delete"} /\ Refuse(r, "fail")
       \/ /\ Live(r.sid)
          /\ LET mine == SessionsOf(Caller(r))
                 end == CASE r.op \in Logouts -> {r.sid}
                          [] r.op = "password" -> mine \ {r.sid}
                          [] r.op = "revoke" -> {r.arg} \cap mine
                          [] r.op = "delete" -> mine
             IN /\ srv' = [srv EXCEPT !.live = @ \ end,
                                      !.deleted = IF r.op = "delete" THEN @ \cup {Caller(r)} ELSE @]
                /\ Serve(r, "ok", IF r.op \in Logouts \cup {"delete"} THEN {0} ELSE {}, NoUser, {})

ServeAny(r) == \/ ServeLogin(r) \/ ServeVerify(r) \/ ServePublic(r)
               \/ ServeReset(r) \/ ServeRead(r) \/ ServeEnd(r)

(* The connection breaks before the request or after its answer was made. *)
Fail(r) ==
    /\ r.st \in {"sent", "done"} /\ r.ans # "fail" /\ faults < MaxFaults
    /\ faults' = faults + 1
    /\ net' = (net \ {r}) \cup {[r EXCEPT !.st = "done", !.ans = "fail", !.ck = {}]}
    /\ UNCHANGED <<srv, cookie, auth, view, panel, toasts, gaps, sent>>

(* Another device signs this one out, or the session expires. *)
EndedElsewhere(s) ==
    /\ Live(s) /\ faults < MaxFaults
    /\ faults' = faults + 1
    /\ srv' = [srv EXCEPT !.live = @ \ {s}]
    /\ UNCHANGED <<cookie, auth, view, net, panel, toasts, gaps, sent>>

----------------------------------------------------------------------------
(* Answers.  Every continuation takes r out of net and applies its cookie. *)

Others(r) == net \ {r}
Arrive(r) == /\ Settled
             /\ r.st = "done"
             /\ cookie' = IF r.ck = {} THEN cookie ELSE CHOOSE c \in r.ck : TRUE
             /\ UNCHANGED <<srv, sent, faults>>

(* A Set-Cookie that removes the cookie of a tab which shows somebody signed in. *)
Cleared(r) == IF r.ck = {0} /\ auth.status = "authenticated" THEN {"lateClear"} ELSE {}

NoPanel == [list |-> {}, loaded |-> FALSE, revoked |-> {}]

(* resetSessionData and the new status.  The boundary ends what was not so before it. *)
Boundary(st, u, g) == /\ auth' = [status |-> st, user |-> u, gen |-> auth.gen + 1]
                      /\ panel' = NoPanel
                      /\ gaps' = g
(* login and verifyEmail, once answered. *)
SignedIn(u) == Boundary("authenticated", u, {})
Keep(r) == /\ gaps' = gaps \cup Cleared(r)
           /\ UNCHANGED <<auth, panel>>

(* init: the answer is applied whatever happened since it was asked for. *)
InitAnswer(r) ==
    /\ r.op = "me" /\ Arrive(r) /\ UNCHANGED toasts
    /\ LET late == IF r.gen # auth.gen \/ r.sid # cookie THEN {"lateInit"} ELSE {}
       IN CASE r.ans = "fail" -> /\ auth' = [auth EXCEPT !.status = "unreachable", !.user = NoUser]
                                 /\ gaps' = (gaps \ {"lateInit"}) \cup late
                                 /\ UNCHANGED panel
                                 /\ Render(view, "unreachable", Others(r))
            [] r.ans = "ok"   -> /\ auth' = [auth EXCEPT !.status = "authenticated", !.user = r.who]
                                 /\ gaps' = (gaps \ {"lateInit"}) \cup late
                                 /\ UNCHANGED panel
                                 /\ Render(view, "authenticated", Others(r))
            [] r.ans = "401"  -> /\ Boundary("unauthenticated", NoUser, late)
                                 /\ Render(view, "unauthenticated", Others(r))

(* login, then the page goes home; 403 goes to the verification page. *)
LoginAnswer(r) ==
    /\ r.op = "login" /\ Arrive(r) /\ UNCHANGED toasts
    /\ CASE r.ans = "ok"  -> /\ SignedIn(r.who)
                             /\ Navigate("app", "authenticated", Others(r))
         [] r.ans = "403" -> /\ Keep(r)
                             /\ Navigate("resend", auth.status, Others(r))
         [] OTHER         -> /\ Keep(r)
                             /\ view' = DoneIf(r) /\ net' = Others(r)

(* register: the store says signed out, without a reset and with the cookie in place. *)
RegisterAnswer(r) ==
    /\ r.op = "register" /\ Arrive(r) /\ UNCHANGED <<panel, toasts>>
    /\ IF r.ans = "ok"
       THEN /\ auth' = [auth EXCEPT !.status = "unauthenticated", !.user = NoUser]
            /\ gaps' = gaps \cup {"registered"}
            /\ Navigate("resend", "unauthenticated", Others(r))
       ELSE /\ UNCHANGED <<auth, gaps>>
            /\ view' = DoneIf(r) /\ net' = Others(r)

(* verifyEmail: the store follows the link even when its page is gone. *)
VerifyAnswer(r) ==
    /\ r.op = "verify" /\ Arrive(r) /\ UNCHANGED toasts
    /\ IF r.ans = "ok"
       THEN /\ SignedIn(r.who)
            /\ IF r.mounted THEN Navigate("app", "authenticated", Others(r))
                            ELSE Render(view, "authenticated", Others(r))
       ELSE /\ Keep(r)
            /\ view' = [DoneIf(r) EXCEPT !.step = IF ~r.mounted THEN @
                                                  ELSE IF r.ans = "409" THEN "verified" ELSE "idle"]
            /\ net' = Others(r)

(* The page of a reset link: only its controls and messages depend on the answer. *)
ResetAnswer(r) ==
    /\ r.op = "reset" /\ Arrive(r) /\ Keep(r) /\ UNCHANGED toasts
    /\ view' = [DoneIf(r) EXCEPT !.step = IF r.mounted /\ r.ans = "ok" THEN "sent" ELSE @]
    /\ net' = Others(r)

(* confirmEmailChange: when somebody is signed in their address is read again. *)
ConfirmAnswer(r) ==
    /\ r.op = "confirm" /\ Arrive(r) /\ Keep(r) /\ UNCHANGED toasts
    /\ IF r.ans = "ok" /\ auth.status = "authenticated"
       THEN /\ net' = Others(r) \cup {[Request(r.id, "again", r.arg, r.mounted) EXCEPT !.gen = r.gen]}
            /\ UNCHANGED view
       ELSE /\ view' = [DoneIf(r) EXCEPT !.step = IF r.mounted /\ r.ans = "ok" THEN "sent" ELSE @]
            /\ net' = Others(r)

AgainAnswer(r) ==
    /\ r.op = "again" /\ Arrive(r) /\ UNCHANGED <<panel, toasts, gaps>>
    /\ auth' = IF r.ans = "ok" /\ r.gen = auth.gen THEN [auth EXCEPT !.user = r.who] ELSE auth
    /\ view' = IF r.mounted THEN [Done("confirm", view) EXCEPT !.step = "sent"] ELSE view
    /\ net' = Others(r)

(* handleSessionExpired, for a 401 of the generation in force: a sign-out's too,    *)
(* when a late init has shown somebody signed in since.                             *)
Expired(r) == r.ans = "401" /\ r.gen = auth.gen /\ auth.status # "unauthenticated"
ExpiredAnswer(r) ==
    /\ r.op \in Fetched \cup Logouts /\ Expired(r) /\ Arrive(r) /\ UNCHANGED toasts
    /\ Boundary("unauthenticated", NoUser, {})
    /\ CASE r.op = "summaries" -> Navigate("app", "unauthenticated", Others(r))
         [] r.op = "logout" -> Navigate("login", "unauthenticated", Others(r))
         [] OTHER -> Render([DoneIf(r) EXCEPT !.step = IF r.op = "accept" /\ r.mounted THEN "error" ELSE @],
                            "unauthenticated", Others(r))

(* apiFetch: a GET that failed is sent once more, with the cookie of that moment. *)
WaitToRetry(r) ==
    /\ r.op \in Gets /\ r.ans = "fail" /\ r.try = 0 /\ Arrive(r) /\ Keep(r)
    /\ net' = Others(r) \cup {[r EXCEPT !.st = "wait", !.try = 1, !.ans = "none"]}
    /\ UNCHANGED <<view, toasts>>
Resend(r) ==
    /\ Settled
    /\ r.st = "wait"
    /\ net' = Others(r) \cup {[r EXCEPT !.st = "sent", !.sid = cookie]}
    /\ UNCHANGED <<srv, cookie, auth, view, panel, toasts, gaps, sent, faults>>

Answered(r) == Arrive(r) /\ ~Expired(r)
GetAnswer(r) ==
    /\ r.op \in Gets /\ Answered(r) /\ (r.ans = "fail" => r.try = 1)
    /\ UNCHANGED toasts
    /\ CASE r.op = "sessions" ->
              /\ panel' = IF r.ans = "ok" /\ r.gen = auth.gen
                          THEN [panel EXCEPT !.list = r.rows \ panel.revoked, !.loaded = TRUE]
                          ELSE panel
              /\ gaps' = gaps /\ UNCHANGED auth
              /\ view' = DoneIf(r) /\ net' = Others(r)
         [] r.op = "summaries" -> Keep(r) /\ Navigate("app", auth.status, Others(r))
         [] r.op = "read" -> Keep(r) /\ view' = DoneIf(r) /\ net' = Others(r)

(* Mutant: updateProfile without the generation check. *)
ProfileAnswerLate(r) ==
    /\ r.op \in {"profile", "prefs"} /\ Answered(r) /\ UNCHANGED <<panel, toasts, gaps>>
    /\ auth' = IF r.ans = "ok" THEN [auth EXCEPT !.user = r.who] ELSE auth
    /\ view' = DoneIf(r) /\ net' = Others(r)

(* updateProfile and updatePreferences: an answer of an earlier generation is dropped. *)
ProfileAnswer(r) ==
    /\ r.op \in {"profile", "prefs"} /\ Answered(r) /\ UNCHANGED <<panel, toasts, gaps>>
    /\ auth' = IF r.ans = "ok" /\ r.gen = auth.gen THEN [auth EXCEPT !.user = r.who] ELSE auth
    /\ view' = DoneIf(r) /\ net' = Others(r)

(* Mutant: the form is released on success only. *)
FormAnswerHeld(r) ==
    /\ r.op \in {"password", "email"} /\ Answered(r) /\ Keep(r) /\ UNCHANGED toasts
    /\ view' = IF r.ans = "ok" THEN DoneIf(r) ELSE view
    /\ net' = Others(r)
FormAnswer(r) ==
    /\ r.op \in {"password", "email"} /\ Answered(r) /\ Keep(r) /\ UNCHANGED toasts
    /\ view' = DoneIf(r) /\ net' = Others(r)

(* deleteAccount: the button is released only when the deletion failed. *)
DeleteAnswer(r) ==
    /\ r.op = "delete" /\ Answered(r) /\ UNCHANGED toasts
    /\ CASE r.ans = "ok" /\ r.gen = auth.gen ->
              /\ Boundary("unauthenticated", NoUser, {})
              /\ Render(view, "unauthenticated", Others(r))
         [] r.ans = "ok" /\ r.gen # auth.gen ->
              /\ gaps' = gaps \cup Cleared(r) \cup {"heldOver"}
              /\ net' = Others(r) /\ UNCHANGED <<auth, panel, view>>
         [] OTHER -> Keep(r) /\ view' = DoneIf(r) /\ net' = Others(r)

(* revokeOtherSession: the row goes from every page held and from later ones. *)
RevokeAnswer(r) ==
    /\ r.op = "revoke" /\ Answered(r) /\ UNCHANGED <<auth, toasts>>
    /\ net' = Others(r)
    /\ IF r.gen = auth.gen
       THEN /\ panel' = IF r.ans = "ok" THEN [panel EXCEPT !.list = @ \ {r.arg}, !.revoked = @ \cup {r.arg}]
                                        ELSE panel
            /\ view' = DoneIf(r) /\ UNCHANGED gaps
       ELSE gaps' = gaps \cup {"heldOver"} /\ UNCHANGED <<panel, view>>

(* endServerSession, and handleSignOut which then opens the login page. *)
LogoutAnswer(r) ==
    /\ r.op \in Logouts /\ Answered(r) /\ UNCHANGED <<auth, panel>>
    /\ toasts' = IF r.ans = "fail" THEN toasts \cup {[gen |-> r.gen, sid |-> r.arg]} ELSE toasts
    /\ gaps' = gaps \cup Cleared(r) \cup (IF r.ans = "fail" /\ r.gen = auth.gen THEN {"unreached"} ELSE {})
    /\ IF r.op = "logout" THEN Navigate("login", auth.status, Others(r))
                          ELSE net' = Others(r) /\ UNCHANGED view

AcceptAnswer(r) ==
    /\ r.op = "accept" /\ Answered(r) /\ Keep(r) /\ UNCHANGED toasts
    /\ IF r.ans = "ok"
       THEN net' = Others(r) \cup {Request(r.id, "summaries", r.arg, r.mounted)} /\ UNCHANGED view
       ELSE /\ view' = [DoneIf(r) EXCEPT !.step = IF r.mounted THEN "error" ELSE @]
            /\ net' = Others(r)

(* The continuations of a request, and the server's part of it. *)
Progress(r) ==
    \/ ServeAny(r) \/ InitAnswer(r) \/ LoginAnswer(r) \/ RegisterAnswer(r) \/ VerifyAnswer(r)
    \/ ResetAnswer(r) \/ ConfirmAnswer(r) \/ AgainAnswer(r) \/ ExpiredAnswer(r) \/ WaitToRetry(r)
    \/ Resend(r) \/ GetAnswer(r) \/ ProfileAnswer(r) \/ FormAnswer(r) \/ DeleteAnswer(r)
    \/ RevokeAnswer(r) \/ LogoutAnswer(r) \/ AcceptAnswer(r)

----------------------------------------------------------------------------
(* What the user does *)

On(p) == Settled /\ view.page = p
SignedInOn(p) == On(p) /\ auth.status = "authenticated"
Quietly == UNCHANGED <<srv, cookie, auth, panel, toasts, gaps, sent, faults>>

(* A link, the back button or a redirect of the router. *)
Open(p) == /\ Settled
           /\ p = "verify" => CanSend("verify")
           /\ Navigate(p, auth.status, net)
           /\ Quietly

(* "Try again" of RequireAuth: init, unless one is under way. *)
TryAgain == /\ Settled /\ view.page \in Protected /\ auth.status = "unreachable"
            /\ \A r \in net : r.op # "me"
            /\ Send("me", NoUser)
            /\ UNCHANGED <<srv, cookie, auth, view, panel, toasts, gaps, faults>>

(* The effect of VerifyEmailPage, and the answer to its question. *)
VerifyEffect(u) ==
    /\ view.page = "verify" /\ view.step = "go"
    /\ sent' = sent + 1
    /\ net' = net \cup {Request(sent + 1, "verify", u, TRUE)}
    /\ view' = [view EXCEPT !.step = "verifying", !.busy = {"verify"}]
    /\ UNCHANGED <<srv, cookie, auth, panel, toasts, gaps, faults>>
SwitchAccounts == /\ On("verify") /\ view.step = "ask" /\ CanSend("verify")
                  /\ view' = [view EXCEPT !.step = "go", !.asked = TRUE]
                  /\ UNCHANGED net /\ Quietly

LoginSubmit(u)    == On("login") /\ Submit("login", u)
RegisterSubmit    == On("register") /\ Submit("register", NoUser)

(* Requests only their own page sees: a reset mail, another verification mail. *)
Ask(op) == /\ op \notin view.busy /\ view.step = "idle" /\ op \in menu
           /\ view' = [view EXCEPT !.busy = @ \cup {op}]
           /\ UNCHANGED net /\ Quietly
ForgotSubmit      == On("forgot") /\ Ask("forgot")
ResendSubmit      == (On("resend") \/ On("verify")) /\ Ask("resend")
Told(ok)          == /\ Settled /\ view.busy \cap {"forgot", "resend"} # {}
                     /\ view' = [view EXCEPT !.busy = {},
                                            !.step = IF ok /\ "resend" \in view.busy THEN "sent" ELSE "idle"]
                     /\ UNCHANGED net /\ Quietly
(* The resend button counts its cooldown down. *)
CooledDown        == /\ On("resend") \/ On("verify")
                     /\ view.step = "sent"
                     /\ view' = [view EXCEPT !.step = "idle"] /\ UNCHANGED net /\ Quietly

(* The reset link is checked first; a failed check lets the user try. *)
ResetChecked(valid) == /\ On("reset") /\ view.step = "checking"
                       /\ view' = [view EXCEPT !.step = IF valid THEN "valid" ELSE "invalid"]
                       /\ UNCHANGED net /\ Quietly
ResetSubmit(u)    == On("reset") /\ view.step = "valid" /\ Submit("reset", u)
ResetRedirect     == On("reset") /\ view.step = "sent" /\ Navigate("login", auth.status, net) /\ Quietly

ConfirmSubmit     == On("confirm") /\ view.step # "sent" /\ Submit("confirm", NoUser)

Previewed(found)  == /\ On("invite") /\ view.step = "preview"
                     /\ view' = [view EXCEPT !.step = IF found THEN "ready" ELSE "error"]
                     /\ UNCHANGED net /\ Quietly
AcceptSubmit      == On("invite") /\ view.step = "ready" /\ auth.user # NoUser /\ Submit("accept", NoUser)

(* The profile page's forms; which of them are unfolded is left out. *)
ProfileControl(op) == SignedInOn("profile") /\ Submit(op, NoUser)
ProfileSubmit     == ProfileControl("profile")
PasswordSubmit    == ProfileControl("password")
EmailSubmit       == ProfileControl("email")
DeleteSubmit      == ProfileControl("delete")
UpdatePreferences == ProfileControl("prefs")

PanelFree == SignedInOn("profile") /\ view.busy \cap {"sessions", "revoke"} = {}
LoadSessions      == PanelFree /\ Submit("sessions", NoUser)
RevokeSession(s)  == PanelFree /\ s \in panel.list \ {cookie} /\ Submit("revoke", s)

(* Any other data a protected page reads. *)
Read              == SignedInOn("app") /\ Submit("read", NoUser)

(* logout: the tab is signed out first; the server is told afterwards. *)
Logout == /\ Settled /\ view.page \in Protected /\ auth.status = "authenticated" /\ CanSend("logout")
          /\ Boundary("unauthenticated", NoUser, {})
          /\ sent' = sent + 1
          /\ Render(view, "unauthenticated",
                    net \cup {[Request(sent + 1, "logout", cookie, TRUE) EXCEPT !.gen = auth.gen + 1]})
          /\ UNCHANGED <<srv, cookie, toasts, faults>>

(* Mutant: Retry without the generation check. *)
RetrySignOutAlways(t) == /\ Settled /\ t \in toasts
                         /\ toasts' = toasts \ {t}
                         /\ Send("retry", t.sid)
                         /\ UNCHANGED <<srv, cookie, auth, view, panel, gaps, faults>>

(* The toast's Retry does nothing once a boundary has been crossed. *)
RetrySignOut(t) == /\ Settled /\ t \in toasts
                   /\ toasts' = toasts \ {t}
                   /\ IF t.gen = auth.gen THEN Send("retry", t.sid) ELSE UNCHANGED <<net, sent>>
                   /\ UNCHANGED <<srv, cookie, auth, view, panel, gaps, faults>>
ToastGone(t) == /\ t \in toasts
                /\ toasts' = toasts \ {t}
                /\ UNCHANGED <<srv, cookie, auth, view, net, panel, gaps, sent, faults>>

----------------------------------------------------------------------------
Init == /\ srv = [owner |-> Owners, live |-> DOMAIN Owners, fresh |-> Fresh0, deleted |-> {}]
        /\ cookie \in {0} \cup DOMAIN Owners
        /\ auth = [status |-> "loading", user |-> NoUser, gen |-> 0]
        /\ menu \in Menus
        /\ \E p \in Visited : view = Mount(p, "loading")
        /\ net = {Request(0, "me", NoUser, FALSE)}
        /\ panel = NoPanel /\ toasts = {} /\ gaps = {} /\ sent = 0 /\ faults = 0

UserStep ==
    \/ TryAgain \/ SwitchAccounts \/ RegisterSubmit \/ ForgotSubmit \/ ResendSubmit \/ CooledDown
    \/ ResetRedirect \/ ConfirmSubmit \/ AcceptSubmit \/ UpdatePreferences \/ LoadSessions
    \/ ProfileSubmit \/ PasswordSubmit \/ EmailSubmit \/ DeleteSubmit \/ Read \/ Logout
    \/ \E p \in Visited : Open(p)
    \/ \E u \in Accounts : LoginSubmit(u) \/ ResetSubmit(u)
    \/ \E b \in BOOLEAN : ResetChecked(b) \/ Previewed(b) \/ Told(b)
    \/ \E s \in panel.list : RevokeSession(s)
    \/ \E t \in toasts : RetrySignOut(t) \/ ToastGone(t)

Next == /\ \/ UserStep
           \/ \E u \in Fresh0 : VerifyEffect(u)
           \/ \E r \in net : Progress(r) \/ Fail(r)
           \/ \E s \in srv.live : EndedElsewhere(s)
        /\ UNCHANGED menu

(* fetch settles, the event loop runs, and effects follow a render. *)
Spec == Init /\ [][Next]_vars
FairSpec == /\ Spec
            /\ WF_vars(\E u \in Fresh0 : VerifyEffect(u) /\ UNCHANGED menu)
            /\ WF_vars(\E b \in BOOLEAN : Told(b) /\ UNCHANGED menu)
            /\ WF_vars(\E r \in net : Progress(r) /\ UNCHANGED menu)

----------------------------------------------------------------------------
Ops == Plain \cup Fetched \cup Logouts \cup {"resend", "forgot"}

(* The variables hold what the code can put into them. *)
TypeOK ==
    /\ srv.owner \in Seq(Accounts) /\ srv.live \subseteq DOMAIN srv.owner
    /\ cookie \in 0..Len(srv.owner)
    /\ auth.status \in {"loading", "authenticated", "unauthenticated", "unreachable"}
    /\ auth.user \in Accounts \cup {NoUser}
    /\ view.page \in Pages /\ view.busy \subseteq Ops
    /\ \A r, q \in net : r.id = q.id => r = q

(* Who the tab shows is who its cookie stands for.  An answer of an earlier  *)
(* session never changes that; what can is init's answer, which is applied    *)
(* without a look at the generation, and the late answer of a sign-out or a   *)
(* deletion, which takes the next session's cookie along.                     *)
IdentityMatches ==
    auth.status = "authenticated" /\ "lateInit" \notin gaps =>
        /\ auth.user # NoUser
        /\ cookie # 0 \/ "lateClear" \in gaps
        /\ Live(cookie) => srv.owner[cookie] = auth.user

(* A tab that shows itself signed out holds no live session, unless its       *)
(* sign-out is under way or has failed, a late init said so, or a sign-up     *)
(* left the earlier session's cookie in place.                                *)
SignedOutMeansOut ==
    auth.status = "unauthenticated" /\ Live(cookie) =>
        \/ \E r \in net : r.op \in Logouts /\ r.sid = cookie
        \/ gaps \cap {"lateInit", "registered", "unreached"} # {}

(* A repeated sign-out ends the session it was asked to end, or none.         *)
RetryEndsItsOwn == \A r \in net : r.op \in Logouts => r.sid \in {r.arg, 0}

(* A session revoked here is not shown again by a page read before.           *)
RevokedStaysHidden == panel.list \cap panel.revoked = {}

(* A link never replaces the session of somebody the tab knew to be signed in *)
(* without asking them.                                                       *)
SwapsConfirmed ==
    [][ cookie' # cookie /\ cookie' # 0 /\ Live(cookie) /\ srv.owner[cookie'] # srv.owner[cookie] =>
            \E r \in net : cookie' \in r.ck /\ (r.op = "login" \/ r.asked \/ ~r.known) ]_vars

(* The boot screen ends and every control that waits for an answer is         *)
(* released, unless that answer belongs to an earlier generation and the page *)
(* that waits for it is still there.                                          *)
Waiting == view.busy # {} \/ auth.status = "loading"
WaitsEnd == Waiting ~> ~Waiting \/ "heldOver" \in gaps

(* Sessions end once and for the right one: a sign-out that is retried does  *)
(* not reach a later session, and a revoked row does not come back.          *)
SessionsSound == TypeOK /\ RetryEndsItsOwn /\ RevokedStaysHidden

(* What the auth store says of the user is what the cookie says, both ways,  *)
(* outside the gaps named above.                                             *)
TabMatchesCookie == IdentityMatches /\ SignedOutMeansOut
=============================================================================
