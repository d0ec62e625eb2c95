-------------------------- MODULE AuthSessionProofs --------------------------
(***************************************************************************)
(* What AuthSession promises for all accounts, sessions and operations and *)
(* every number of requests and failures: who the tab shows is who its     *)
(* cookie stands for, a retried sign-out ends its own session, a revoked   *)
(* session stays hidden, and no link replaces a known session unasked.     *)
(***************************************************************************)
EXTENDS AuthSession, TLAPS, SequenceTheorems

Statuses == {"loading", "authenticated", "unauthenticated", "unreachable"}
Steps == {"idle", "pending", "ask", "go", "checking", "preview", "verifying", "verified", "sent",
          "valid", "invalid", "ready", "error"}
Users == Accounts \cup {NoUser}
Args == Users \cup Nat
Requests ==
    [id : Nat, op : Ops, arg : Args, gen : Nat, sid : Nat, mounted : BOOLEAN, try : {0, 1},
     st : {"sent", "done", "wait"}, ans : {"none", "ok", "fail", "401", "403", "409"}, ck : SUBSET Nat,
     who : Users, rows : SUBSET Nat, asked : BOOLEAN, known : BOOLEAN]

Panels == [list : SUBSET Nat, loaded : BOOLEAN, revoked : SUBSET Args]
Offers == [gen : Nat, sid : Args]
Views == [page : Pages, busy : SUBSET Ops, asked : BOOLEAN, step : Steps]

(* The types of the records, which TypeOK leaves to the operations.          *)
TabShapes ==
    /\ srv \in [owner : Seq(Accounts), live : SUBSET Nat, fresh : SUBSET Accounts,
                deleted : SUBSET Accounts]
    /\ srv.live \subseteq 1..Len(srv.owner)
    /\ cookie \in 0..Len(srv.owner)
    /\ auth \in [status : Statuses, user : Users, gen : Nat]
    /\ view \in Views
    /\ panel \in Panels
    /\ toasts \subseteq Offers
    /\ sent \in Nat
Shapes == TabShapes /\ net \subseteq Requests

(* Requests the server answers with somebody's own data.                     *)
Naming == {"me", "again", "profile", "prefs"}
(* Requests whose 401 says nothing of the session they were sent under.      *)
Public == {"login", "register", "verify", "reset", "confirm", "forgot", "resend"}

(* The cookie a request's answer sets: a new session's, or the empty one.    *)
CookieSet(r) ==
    \/ r.ck = {}
    \/ r.ck = {0} /\ r.op \in Logouts \cup {"delete"} /\ r.ans = "ok"
    \/ /\ r.op \in {"login", "verify"} /\ r.ans = "ok"
       /\ \E c \in 1..Len(srv.owner) : r.ck = {c} /\ srv.owner[c] = r.who

(* What an answer says about the session it was asked with.                  *)
AnswerTrue(r) ==
    /\ r.ans = "ok" /\ r.op \in Logouts \cup {"delete", "login", "verify"} => r.ck # {}
    /\ r.ans = "ok" /\ r.op \in Naming => r.sid \in 1..Len(srv.owner) /\ srv.owner[r.sid] = r.who
    /\ r.ans = "401" /\ r.op \notin Public => r.sid \notin srv.live
    /\ r.op \in Logouts \cup {"me"} => r.ans \in {"none", "ok", "401", "fail"}
    /\ r.st = "done" => r.ans # "none"
    /\ r.st = "wait" => r.ans = "none" /\ r.op \in Gets

(* Within one generation the cookie changes at most to none.                 *)
InItsTime(r) == /\ r.id <= sent
                /\ r.gen <= auth.gen
                /\ r.sid <= Len(srv.owner)
                /\ r.gen = auth.gen => cookie \in {r.sid, 0}

RequestTrue(r) == /\ CookieSet(r)
                  /\ AnswerTrue(r)
                  /\ InItsTime(r)
                  /\ r.op \in Logouts => r.sid \in {r.arg, 0}
                  /\ r.op = "verify" => r.asked \/ ~r.known
                  /\ r.op = "login" => r.arg \in Accounts

OneEach(N) == \A r, q \in N : r.id = q.id => r = q

ToastTrue(t) == t.gen <= auth.gen /\ (t.gen = auth.gen => cookie \in {t.sid, 0})

(* The page that follows a link has asked whoever it knew to be signed in.   *)
AsksFirst(v, st) == v.page = "verify" /\ v.step = "go" /\ st = "authenticated" => v.asked
LinkAsked == AsksFirst(view, auth.status)

(* IdentityMatches for dead sessions too, and SignedOutMeansOut with the     *)
(* sign-out of this generation: what each needs to survive a step.           *)
IdentityKept ==
    auth.status = "authenticated" /\ "lateInit" \notin gaps =>
        /\ auth.user \in Accounts
        /\ cookie = 0 => "lateClear" \in gaps
        /\ cookie # 0 => srv.owner[cookie] = auth.user
SigningOut ==
    auth.status = "unauthenticated" /\ cookie \in srv.live =>
        \/ \E r \in net : r.op \in Logouts /\ r.sid = cookie /\ r.gen = auth.gen
        \/ gaps \cap {"lateInit", "registered", "unreached"} # {}

AuthInv == /\ Shapes
           /\ \A r \in net : RequestTrue(r)
           /\ OneEach(net)
           /\ \A t \in toasts : ToastTrue(t)
           /\ LinkAsked
           /\ RevokedStaysHidden
           /\ IdentityKept
           /\ SigningOut

-----------------------------------------------------------------------------
(* Requests under way.  A step may add sessions and end sessions; it never   *)
(* brings one back, and within a generation it never changes the cookie      *)
(* except to none.                                                           *)
Grows == /\ Len(srv.owner) <= Len(srv'.owner)
         /\ \A c \in 1..Len(srv.owner) : srv'.owner[c] = srv.owner[c]
         /\ \A s \in 0..Len(srv.owner) : s \in srv'.live => s \in srv.live
Moves == /\ auth.gen <= auth'.gen
         /\ auth'.gen = auth.gen => cookie' \in {cookie, 0}
         /\ sent <= sent'

(* What a request says stays true until it is answered.                      *)
LEMMA RequestStays ==
  ASSUME TabShapes, TabShapes', Grows, Moves, NEW r \in Requests, RequestTrue(r)
  PROVE  RequestTrue(r)'
<1>1. /\ Len(srv.owner) \in Nat /\ Len(srv'.owner) \in Nat /\ auth.gen \in Nat /\ auth'.gen \in Nat
      /\ sent \in Nat /\ sent' \in Nat
  BY DEF TabShapes
<1>2. r.id \in Nat /\ r.gen \in Nat /\ r.sid \in Nat
  BY DEF Requests
<1>3. CookieSet(r)'
  <2>1. CASE r.ck = {} \/ (r.ck = {0} /\ r.op \in Logouts \cup {"delete"} /\ r.ans = "ok")
    BY <2>1 DEF CookieSet
  <2>2. ASSUME r.op \in {"login", "verify"}, r.ans = "ok",
               NEW c \in 1..Len(srv.owner), r.ck = {c}, srv.owner[c] = r.who
        PROVE  CookieSet(r)'
    <3>1. c \in 1..Len(srv'.owner) /\ srv'.owner[c] = r.who
      BY <1>1, <2>2 DEF Grows
    <3>2. QED BY <2>2, <3>1 DEF CookieSet
  <2>3. QED BY <2>1, <2>2 DEF RequestTrue, CookieSet
<1>4. AnswerTrue(r)'
  <2>1. r.sid \in 0..Len(srv.owner)
    BY <1>1, <1>2 DEF RequestTrue, InItsTime
  <2>2. r.sid \in srv'.live => r.sid \in srv.live
    BY <2>1 DEF Grows
  <2>3. r.sid \in 1..Len(srv.owner) =>
          r.sid \in 1..Len(srv'.owner) /\ srv'.owner[r.sid] = srv.owner[r.sid]
    BY <1>1 DEF Grows
  <2>4. QED BY <2>2, <2>3 DEF RequestTrue, AnswerTrue
<1>5. InItsTime(r)'
  <2>1. r.id <= sent' /\ r.gen <= auth'.gen /\ r.sid <= Len(srv'.owner)
    BY <1>1, <1>2 DEF RequestTrue, InItsTime, Grows, Moves
  <2>2. r.gen = auth'.gen => cookie' \in {r.sid, 0}
    BY <1>1, <1>2 DEF RequestTrue, InItsTime, Moves
  <2>3. QED BY <2>1, <2>2 DEF InItsTime
<1>6. QED BY <1>3, <1>4, <1>5 DEF RequestTrue

(* Whether its page is still mounted makes no difference to a request.       *)
LEMMA UnmountedFacts ==
  ASSUME NEW r \in Requests
  PROVE  LET u == [r EXCEPT !.mounted = FALSE]
         IN /\ u \in Requests
            /\ u.id = r.id /\ u.op = r.op /\ u.arg = r.arg /\ u.gen = r.gen /\ u.sid = r.sid
            /\ u.st = r.st /\ u.ans = r.ans /\ u.ck = r.ck /\ u.who = r.who
            /\ u.asked = r.asked /\ u.known = r.known
BY DEF Requests

(* A page that goes away changes nothing else about the requests it made.    *)
LEMMA UnmountedTrue ==
  ASSUME NEW r \in Requests, RequestTrue(r)'
  PROVE  RequestTrue([r EXCEPT !.mounted = FALSE])'
<1> DEFINE u == [r EXCEPT !.mounted = FALSE]
<1>1. /\ u.id = r.id /\ u.op = r.op /\ u.arg = r.arg /\ u.gen = r.gen /\ u.sid = r.sid
      /\ u.st = r.st /\ u.ans = r.ans /\ u.ck = r.ck /\ u.who = r.who
      /\ u.asked = r.asked /\ u.known = r.known
  BY UnmountedFacts
<1> HIDE DEF u
<1>2. RequestTrue(u)'
  BY <1>1 DEF RequestTrue, CookieSet, AnswerTrue, InItsTime
<1>3. QED BY <1>2 DEF u

(* The requests under way after a step, from those it keeps or replaces.     *)
Shown(N, M) == N = M \/ N = Unmounted(M)

(* The requests a step leaves under way stay true of their sessions.         *)
LEMMA ShownTrue ==
  ASSUME NEW M \in SUBSET Requests, \A m \in M : RequestTrue(m)', OneEach(M), Shown(net', M)
  PROVE  net' \subseteq Requests /\ (\A r \in net' : RequestTrue(r)') /\ OneEach(net')
<1>1. CASE net' = M
  BY <1>1
<1>2. CASE net' = Unmounted(M)
  <2>1. \A r \in net' : \E m \in M : r = [m EXCEPT !.mounted = FALSE]
    BY <1>2 DEF Unmounted
  <2>2. net' \subseteq Requests
    BY <2>1, UnmountedFacts
  <2>3. \A r \in net' : RequestTrue(r)'
    BY <2>1, UnmountedTrue
  <2>4. OneEach(net')
    <3>1. SUFFICES ASSUME NEW r \in net', NEW q \in net', r.id = q.id PROVE r = q
      BY DEF OneEach
    <3>2. PICK m \in M : r = [m EXCEPT !.mounted = FALSE]
      BY <2>1
    <3>3. PICK n \in M : q = [n EXCEPT !.mounted = FALSE]
      BY <2>1
    <3>4. m.id = n.id
      BY <3>1, <3>2, <3>3, UnmountedFacts
    <3>5. QED BY <3>2, <3>3, <3>4 DEF OneEach
  <2>5. QED BY <2>2, <2>3, <2>4
<1>3. QED BY <1>1, <1>2 DEF Shown

(* The requests a step keeps, and the one it adds in the place of another or *)
(* with a new number.                                                        *)
LEMMA NetStep ==
  ASSUME AuthInv, TabShapes', Grows, Moves, NEW M \in SUBSET net, NEW Q \in SUBSET Requests,
         \A q \in Q : RequestTrue(q)', OneEach(Q), \A m \in M, q \in Q : m.id # q.id,
         Shown(net', M \cup Q)
  PROVE  net' \subseteq Requests /\ (\A r \in net' : RequestTrue(r)') /\ OneEach(net')
<1>1. M \cup Q \in SUBSET Requests /\ OneEach(M \cup Q)
  BY DEF AuthInv, Shapes, OneEach
<1>2. \A m \in M \cup Q : RequestTrue(m)'
  BY <1>1, RequestStays DEF AuthInv, Shapes
<1>3. QED BY <1>1, <1>2, ShownTrue

(* A sign-out under way stays under way, mounted or not.                     *)
OutUnderWay(N, c, g) == \E r \in N : r.op \in Logouts /\ r.sid = c /\ r.gen = g

(* A sign-out survives the page that asked for it.                           *)
LEMMA OutStays ==
  ASSUME NEW M \in SUBSET Requests, NEW c, NEW g, OutUnderWay(M, c, g), Shown(net', M)
  PROVE  OutUnderWay(net', c, g)
<1>1. PICK m \in M : m.op \in Logouts /\ m.sid = c /\ m.gen = g
  BY DEF OutUnderWay
<1>2. CASE net' = M
  BY <1>1, <1>2 DEF OutUnderWay
<1>3. CASE net' = Unmounted(M)
  <2> DEFINE u == [m EXCEPT !.mounted = FALSE]
  <2>1. u \in net' /\ u.op = m.op /\ u.sid = m.sid /\ u.gen = m.gen
    BY <1>3, UnmountedFacts DEF Unmounted
  <2> HIDE DEF u
  <2>2. QED BY <1>1, <2>1 DEF OutUnderWay
<1>4. QED BY <1>2, <1>3 DEF Shown

-----------------------------------------------------------------------------
(* Pages.  Mounting or re-rendering one, a link of a signed-in visitor waits *)
(* for an answer to its question (settleSwitch).                             *)
LEMMA NavigateFacts ==
  ASSUME NEW p \in Pages, NEW st, NEW N, Navigate(p, st, N)
  PROVE  view' \in Views /\ AsksFirst(view', st) /\ Shown(net', N)
<1>1. RequireAuth(p, st) \in Pages
  BY DEF RequireAuth, Pages, Protected
<1>2. settleSwitch(st) \in {"pending", "ask", "go"}
      /\ (st = "authenticated" => settleSwitch(st) # "go")
  BY DEF settleSwitch
<1>3. ASSUME NEW x \in Pages PROVE Mount(x, st) \in Views /\ AsksFirst(Mount(x, st), st)
  BY <1>2 DEF Mount, Views, Steps, AsksFirst
<1>4. QED BY <1>1, <1>3 DEF Navigate, Shown

(* A render shows a page of the app and starts no verification by itself.    *)
LEMMA RenderFacts ==
  ASSUME NEW v \in Views, NEW st, NEW N, Render(v, st, N), ~(v.page = "verify" /\ v.step = "go")
  PROVE  view' \in Views /\ AsksFirst(view', st) /\ Shown(net', N)
<1>1. CASE v.page \in Protected /\ st # "authenticated"
  <2>1. v.page \in Pages
    BY DEF Views
  <2>2. QED BY <1>1, <2>1, NavigateFacts DEF Render
<1>2. CASE ~(v.page \in Protected /\ st # "authenticated")
  <2>1. settleSwitch(st) \in {"pending", "ask", "go"}
        /\ (st = "authenticated" => settleSwitch(st) # "go")
    BY DEF settleSwitch
  <2>2. view' = [v EXCEPT !.step = IF v.step = "pending" THEN settleSwitch(st) ELSE v.step]
        /\ net' = N
    BY <1>2 DEF Render
  <2>3. view' \in Views /\ view'.page = v.page
        /\ view'.step = IF v.step = "pending" THEN settleSwitch(st) ELSE v.step
    BY <2>1, <2>2 DEF Views, Steps
  <2>4. QED BY <2>1, <2>2, <2>3 DEF AsksFirst, Shown
<1>3. QED BY <1>1, <1>2

(* Releasing a control leaves the page where it is.                          *)
LEMMA DoneFacts ==
  ASSUME Shapes, Settled, NEW r \in net
  PROVE  /\ DoneIf(r) \in Views
         /\ ~(DoneIf(r).page = "verify" /\ DoneIf(r).step = "go")
         /\ \A x \in Steps \ {"go"} :
              LET v == [DoneIf(r) EXCEPT !.step = x]
              IN v \in Views /\ ~(v.page = "verify" /\ v.step = "go")
<1>1. view \in Views /\ ~(view.page = "verify" /\ view.step = "go")
  BY DEF Shapes, TabShapes, Settled
<1>2. DoneIf(r) \in Views /\ DoneIf(r).page = view.page /\ DoneIf(r).step = view.step
  BY <1>1 DEF DoneIf, Done, Views
<1> HIDE DEF DoneIf
<1>3. QED BY <1>1, <1>2 DEF Views

(* The cookie after an answer: none, the new session's, or the one before.   *)
LEMMA ArriveFacts ==
  ASSUME AuthInv, NEW r \in net, Arrive(r)
  PROVE  /\ Settled /\ r.st = "done" /\ r.ans # "none"
         /\ UNCHANGED <<srv, sent, faults>>
         /\ Grows
         /\ r \in Requests /\ RequestTrue(r)
         /\ cookie' \in 0..Len(srv.owner)
         /\ r.ck = {} => cookie' = cookie
         /\ r.ck = {0} => cookie' = 0
         /\ cookie' \in {cookie, 0} \/ (r.op \in {"login", "verify"} /\ r.ans = "ok")
         /\ r.op \in {"login", "verify"} /\ r.ans = "ok" =>
              /\ cookie' \in 1..Len(srv.owner) /\ cookie' \in r.ck
              /\ srv.owner[cookie'] = r.who /\ r.who \in Accounts
<1>1. r \in Requests /\ RequestTrue(r)
  BY DEF AuthInv, Shapes
<1>2. Len(srv.owner) \in Nat /\ cookie \in 0..Len(srv.owner) /\ srv.owner \in Seq(Accounts)
  BY DEF AuthInv, Shapes, TabShapes
<1>3. UNCHANGED <<srv, sent, faults>> /\ Settled /\ r.st = "done" /\ r.ans # "none" /\ Grows
  <2>1. UNCHANGED <<srv, sent, faults>> /\ Settled /\ r.st = "done"
    BY DEF Arrive
  <2>2. r.ans # "none"
    BY <1>1, <2>1 DEF RequestTrue, AnswerTrue
  <2>3. srv' = srv
    BY <2>1
  <2>4. Grows
    BY <1>2, <2>3 DEF Grows
  <2>5. QED BY <2>1, <2>2, <2>4
<1>4. cookie' = IF r.ck = {} THEN cookie ELSE CHOOSE c \in r.ck : TRUE
  BY DEF Arrive
<1>5. \A c : r.ck = {c} => cookie' = c
  BY <1>4
<1>6. r.ck # {} \/ ~(r.op \in {"login", "verify"} /\ r.ans = "ok")
  BY <1>1 DEF RequestTrue, AnswerTrue
<1>7. CASE r.ck = {}
  BY <1>1, <1>2, <1>3, <1>4, <1>6, <1>7
<1>8. CASE r.ck = {0} /\ r.op \in Logouts \cup {"delete"} /\ r.ans = "ok"
  <2>1. cookie' = 0 /\ ~(r.op \in {"login", "verify"})
    BY <1>5, <1>8 DEF Logouts
  <2>2. QED BY <1>1, <1>2, <1>3, <1>8, <2>1
<1>9. CASE /\ r.op \in {"login", "verify"} /\ r.ans = "ok"
           /\ \E c \in 1..Len(srv.owner) : r.ck = {c} /\ srv.owner[c] = r.who
  <2>1. PICK c \in 1..Len(srv.owner) : r.ck = {c} /\ srv.owner[c] = r.who
    BY <1>9
  <2>2. cookie' = c /\ c # 0 /\ c \in 0..Len(srv.owner)
    <3>1. cookie' = c
      BY <1>5, <2>1, Zenon
    <3>2. QED BY <1>2, <3>1
  <2>3. srv.owner[c] \in Accounts
    BY <1>2, ElementOfSeq
  <2>4. QED BY <1>1, <1>2, <1>3, <1>9, <2>1, <2>2, <2>3
<1>10. QED BY <1>1, <1>7, <1>8, <1>9 DEF RequestTrue, CookieSet

(* The empty cookie is no session. *)
LEMMA NoneIsLive ==
  ASSUME TabShapes
  PROVE  0 \notin srv.live
BY DEF TabShapes

-----------------------------------------------------------------------------
(* Answers that leave the status and the generation alone.  What must hold   *)
(* of them: a user they name is the cookie's, a cookie they clear is named,  *)
(* and a sign-out they end has reached the server or is named.               *)
LEMMA QuietAnswer ==
  ASSUME AuthInv, NEW r \in net, Arrive(r), NEW Q \in SUBSET Requests, OneEach(Q),
         \A q \in Q : q.id = r.id /\ (TabShapes' => RequestTrue(q)'),
         Shown(net', Others(r) \cup Q),
         view' \in Views, AsksFirst(view', auth.status),
         auth' \in [status : Statuses, user : Users, gen : Nat],
         auth'.status = auth.status, auth'.gen = auth.gen,
         \/ auth'.user = auth.user
         \/ auth'.user \in Accounts /\ (cookie # 0 => srv.owner[cookie] = auth'.user),
         panel' \in Panels,
         panel'.list \cap panel'.revoked = {},
         \A t \in toasts' : t \in toasts \/ (t.gen = r.gen /\ t.sid = r.arg /\ r.op \in Logouts),
         toasts' \subseteq Offers,
         gaps \subseteq gaps', Cleared(r) \subseteq gaps',
         ~(r.op \in {"login", "verify"} /\ r.ans = "ok"),
         r.op \in Logouts /\ r.ans = "fail" /\ r.gen = auth.gen => "unreached" \in gaps'
  PROVE  AuthInv'
<1>1. /\ UNCHANGED <<srv, sent>> /\ Grows /\ cookie' \in 0..Len(srv.owner) /\ cookie' \in {cookie, 0}
      /\ r \in Requests /\ RequestTrue(r) /\ r.ans # "none"
  BY ArriveFacts
<1>2. cookie' # cookie => r.ck = {0}
  <2>1. r.ck = {} => cookie' = cookie
    BY ArriveFacts
  <2>2. CookieSet(r)
    BY <1>1 DEF RequestTrue
  <2>3. r.ck = {} \/ r.ck = {0}
    BY <2>2 DEF CookieSet
  <2>4. QED BY <2>1, <2>3
<1>3. TabShapes'
  BY <1>1 DEF AuthInv, Shapes, TabShapes
<1>4. Moves
  <2>1. sent' = sent /\ sent \in Nat /\ auth.gen \in Nat
    BY <1>1 DEF AuthInv, Shapes, TabShapes
  <2>2. sent <= sent' /\ auth.gen <= auth'.gen
    BY <2>1
  <2>3. cookie' \in {cookie, 0}
    BY <1>1
  <2>4. QED BY <2>2, <2>3 DEF Moves
<1>5. net' \subseteq Requests /\ (\A x \in net' : RequestTrue(x)') /\ OneEach(net')
  <2>1. Others(r) \in SUBSET net /\ \A m \in Others(r), q \in Q : m.id # q.id
    BY DEF Others, AuthInv, OneEach
  <2>2. \A q \in Q : RequestTrue(q)'
    BY <1>3, Zenon
  <2>3. QED BY <1>1, <1>3, <1>4, <2>1, <2>2, NetStep
<1>6. \A t \in toasts' : ToastTrue(t)'
  <2>1. SUFFICES ASSUME NEW t \in toasts' PROVE ToastTrue(t)'
    OBVIOUS
  <2>2. CASE t \in toasts
    BY <1>1, <2>2 DEF AuthInv, ToastTrue
  <2>3. CASE t.gen = r.gen /\ t.sid = r.arg /\ r.op \in Logouts
    BY <1>1, <2>3 DEF ToastTrue, RequestTrue, InItsTime
  <2>4. QED BY <2>2, <2>3
<1>7. IdentityKept'
  <2>1. SUFFICES ASSUME auth'.status = "authenticated", "lateInit" \notin gaps'
                 PROVE  /\ auth'.user \in Accounts
                        /\ cookie' = 0 => "lateClear" \in gaps'
                        /\ cookie' # 0 => srv'.owner[cookie'] = auth'.user
    BY DEF IdentityKept
  <2>2. /\ auth.user \in Accounts
        /\ cookie = 0 => "lateClear" \in gaps
        /\ cookie # 0 => srv.owner[cookie] = auth.user
    BY <2>1 DEF AuthInv, IdentityKept
  <2>3. cookie' # cookie => "lateClear" \in gaps'
    BY <1>2, <2>1 DEF Cleared
  <2>4. srv' = srv
    BY <1>1
  <2>5. QED BY <1>1, <2>2, <2>3, <2>4
<1>8. SigningOut'
  <2>1. SUFFICES ASSUME auth'.status = "unauthenticated", cookie' \in srv'.live,
                        gaps' \cap {"lateInit", "registered", "unreached"} = {}
                 PROVE  OutUnderWay(net', cookie', auth'.gen)
    BY DEF SigningOut, OutUnderWay
  <2>2. srv' = srv /\ cookie' = cookie /\ cookie \in srv.live
    <3>1. srv' = srv
      BY <1>1
    <3>2. 0 \notin srv.live
      BY NoneIsLive DEF AuthInv, Shapes
    <3>3. QED BY <1>1, <2>1, <3>1, <3>2
  <2>3. PICK x \in net : x.op \in Logouts /\ x.sid = cookie /\ x.gen = auth.gen
    BY <2>1, <2>2 DEF AuthInv, SigningOut
  <2>4. x # r
    <3>1. SUFFICES ASSUME x = r PROVE FALSE
      OBVIOUS
    <3>2. r.ans \in {"ok", "401", "fail"} /\ r.op \notin Public
      BY <1>1, <2>3, <3>1 DEF RequestTrue, AnswerTrue, Public, Logouts
    <3>3. CASE r.ans = "ok"
      <4>1. r.ck = {0}
        BY <1>1, <2>3, <3>1, <3>3 DEF RequestTrue, AnswerTrue, CookieSet, Logouts
      <4>2. cookie' = 0 /\ 0 \notin srv.live
        BY <4>1, ArriveFacts, NoneIsLive DEF AuthInv, Shapes
      <4>3. QED BY <2>2, <4>2
    <3>4. CASE r.ans = "401"
      BY <1>1, <2>2, <2>3, <3>1, <3>2, <3>4 DEF RequestTrue, AnswerTrue
    <3>5. CASE r.ans = "fail"
      BY <2>1, <2>3, <3>1, <3>5
    <3>6. QED BY <3>2, <3>3, <3>4, <3>5
  <2>5. OutUnderWay(Others(r) \cup Q, cookie, auth.gen) /\ Others(r) \cup Q \in SUBSET Requests
    BY <2>3, <2>4 DEF OutUnderWay, Others, AuthInv, Shapes
  <2>6. QED BY <2>2, <2>5, OutStays
<1>9. QED BY <1>3, <1>5, <1>6, <1>7, <1>8 DEF AuthInv, Shapes, LinkAsked, RevokedStaysHidden

(* Answers at which the session data are reset: the new generation starts    *)
(* with the cookie's user, or with nobody and no live session.               *)
LEMMA BoundaryAnswer ==
  ASSUME AuthInv, NEW r \in net, Arrive(r), NEW st, NEW u, Shown(net', Others(r)),
         view' \in Views, AsksFirst(view', st), UNCHANGED toasts, panel' = NoPanel,
         auth' = [status |-> st, user |-> u, gen |-> auth.gen + 1],
         \/ st = "authenticated" /\ u \in Accounts /\ cookie' # 0 /\ srv.owner[cookie'] = u
         \/ st = "unauthenticated" /\ u = NoUser /\ (cookie' \in srv.live => "lateInit" \in gaps')
  PROVE  AuthInv'
<1>1. /\ UNCHANGED <<srv, sent>> /\ Grows /\ cookie' \in 0..Len(srv.owner)
  BY ArriveFacts
<1>2. /\ auth.gen \in Nat /\ auth'.gen = auth.gen + 1 /\ auth'.status = st /\ auth'.user = u
      /\ auth' \in [status : Statuses, user : Users, gen : Nat]
  BY DEF AuthInv, Shapes, TabShapes, Statuses, Users
<1>3. panel' \in Panels
      /\ panel'.list \cap panel'.revoked = {}
  BY DEF NoPanel, Panels
<1>4. TabShapes'
  BY <1>1, <1>2, <1>3 DEF AuthInv, Shapes, TabShapes
<1>5. Moves
  BY <1>1, <1>2 DEF Moves, AuthInv, Shapes, TabShapes
<1>6. net' \subseteq Requests /\ (\A x \in net' : RequestTrue(x)') /\ OneEach(net')
  <2>1. Others(r) \in SUBSET net /\ Others(r) \cup {} = Others(r) /\ {} \in SUBSET Requests
        /\ OneEach({})
    BY DEF Others, OneEach
  <2>2. QED BY <1>1, <1>4, <1>5, <2>1, NetStep
<1>7. \A t \in toasts' : ToastTrue(t)'
  <2>1. SUFFICES ASSUME NEW t \in toasts PROVE ToastTrue(t)'
    OBVIOUS
  <2>2. t.gen \in Nat /\ t.gen <= auth.gen
    BY DEF AuthInv, Shapes, TabShapes, ToastTrue, Offers
  <2>3. QED BY <1>2, <2>2 DEF ToastTrue
<1>8. IdentityKept' /\ SigningOut'
  <2>1. srv' = srv
    BY <1>1
  <2>2. QED BY <1>2, <2>1 DEF IdentityKept, SigningOut
<1>9. QED BY <1>2, <1>3, <1>4, <1>6, <1>7, <1>8 DEF AuthInv, Shapes, LinkAsked, RevokedStaysHidden

-----------------------------------------------------------------------------
(* Steps that leave the tab's session alone: the server's, the network's,    *)
(* and the user's that only send a request or change the page.               *)
LEMMA QuietStep ==
  ASSUME AuthInv, TabShapes', Grows, NEW M \in SUBSET net, NEW Q \in SUBSET Requests,
         \A q \in Q : RequestTrue(q)', OneEach(Q), \A m \in M, q \in Q : m.id # q.id,
         Shown(net', M \cup Q), cookie' = cookie, auth' = auth, panel' = panel, gaps' = gaps,
         toasts' \subseteq toasts, sent <= sent', AsksFirst(view', auth.status),
         \A x \in net \ M : x.op \in Logouts =>
             \E q \in Q : q.op \in Logouts /\ q.sid = x.sid /\ q.gen = x.gen
  PROVE  AuthInv'
<1>1. /\ auth.gen \in Nat /\ cookie \in 0..Len(srv.owner) /\ Len(srv.owner) \in Nat
      /\ net \subseteq Requests
  BY DEF AuthInv, Shapes, TabShapes
<1>2. Moves
  BY <1>1 DEF Moves
<1>3. net' \subseteq Requests /\ (\A x \in net' : RequestTrue(x)') /\ OneEach(net')
  BY <1>2, NetStep
<1>4. \A t \in toasts' : ToastTrue(t)'
  BY DEF AuthInv, ToastTrue
<1>5. IdentityKept'
  <2>1. cookie # 0 => srv'.owner[cookie] = srv.owner[cookie]
    BY <1>1 DEF Grows
  <2>2. QED BY <2>1 DEF AuthInv, IdentityKept
<1>6. SigningOut'
  <2>1. SUFFICES ASSUME auth.status = "unauthenticated", cookie \in srv'.live,
                        gaps \cap {"lateInit", "registered", "unreached"} = {}
                 PROVE  OutUnderWay(net', cookie, auth.gen)
    BY DEF SigningOut, OutUnderWay
  <2>2. cookie \in srv.live
    BY <1>1, <2>1 DEF Grows
  <2>3. PICK x \in net : x.op \in Logouts /\ x.sid = cookie /\ x.gen = auth.gen
    BY <2>1, <2>2 DEF AuthInv, SigningOut
  <2>4. OutUnderWay(M \cup Q, cookie, auth.gen)
    <3>1. CASE x \in M
      BY <2>3, <3>1 DEF OutUnderWay
    <3>2. CASE x \notin M
      <4>1. PICK q \in Q : q.op \in Logouts /\ q.sid = x.sid /\ q.gen = x.gen
        BY <2>3, <3>2
      <4>2. QED BY <2>3, <4>1 DEF OutUnderWay
    <3>3. QED BY <3>1, <3>2
  <2>5. M \cup Q \in SUBSET Requests
    BY <1>1
  <2>6. QED BY <2>4, <2>5, OutStays
<1>7. QED BY <1>3, <1>4, <1>5, <1>6 DEF AuthInv, Shapes, LinkAsked, RevokedStaysHidden

(* The page changes and nothing else does.                                   *)
LEMMA PageStep ==
  ASSUME AuthInv, Quietly, view' \in Views, AsksFirst(view', auth.status), Shown(net', net)
  PROVE  AuthInv'
<1>1. /\ srv' = srv /\ cookie' = cookie /\ auth' = auth /\ panel' = panel /\ toasts' = toasts
      /\ gaps' = gaps /\ sent' = sent
  BY DEF Quietly
<1>2. TabShapes'
  BY <1>1 DEF AuthInv, Shapes, TabShapes
<1>3. Grows /\ sent <= sent'
  <2>1. Len(srv.owner) \in Nat /\ sent \in Nat
    BY DEF AuthInv, Shapes, TabShapes
  <2>2. QED BY <1>1, <2>1 DEF Grows
<1>4. Shown(net', net \cup {}) /\ OneEach({}) /\ {} \in SUBSET Requests /\ net \in SUBSET net
  <2>1. net \cup {} = net
    OBVIOUS
  <2>2. QED BY <2>1 DEF OneEach
<1>5. QED BY <1>1, <1>2, <1>3, <1>4, QuietStep

-----------------------------------------------------------------------------
(* A new request of generation g.  It carries the cookie of its moment, and  *)
(* the verification page's answer to its question.                           *)
RequestOf(g, i, op, arg, m) ==
    [id |-> i, op |-> op, arg |-> arg, gen |-> g, sid |-> cookie, mounted |-> m,
     try |-> 0, st |-> "sent", ans |-> "none", ck |-> {}, who |-> NoUser, rows |-> {},
     asked |-> view.asked, known |-> op = "verify" /\ auth.status = "authenticated"]

(* Both ways of making a request give the same record.                       *)
LEMMA RequestForms ==
  ASSUME NEW g, NEW i, NEW op, NEW arg, NEW m
  PROVE  /\ Request(i, op, arg, m) = RequestOf(auth.gen, i, op, arg, m)
         /\ [Request(i, op, arg, m) EXCEPT !.gen = g] = RequestOf(g, i, op, arg, m)
<1>1. Request(i, op, arg, m) = RequestOf(auth.gen, i, op, arg, m)
  BY Zenon DEF Request, RequestOf
<1>2. PICK k : k = (op = "verify" /\ auth.status = "authenticated")
  OBVIOUS
<1>3. ASSUME NEW h
      PROVE  RequestOf(h, i, op, arg, m) =
               [id |-> i, op |-> op, arg |-> arg, gen |-> h, sid |-> cookie, mounted |-> m,
                try |-> 0, st |-> "sent", ans |-> "none", ck |-> {}, who |-> NoUser, rows |-> {},
                asked |-> view.asked, known |-> k]
  BY <1>2, Zenon DEF RequestOf
<1>4. PICK h, s, a : h = auth.gen /\ s = cookie /\ a = view.asked
  OBVIOUS
<1>5. [RequestOf(auth.gen, i, op, arg, m) EXCEPT !.gen = g] = RequestOf(g, i, op, arg, m)
  <2>1. PICK x : x = RequestOf(auth.gen, i, op, arg, m)
    OBVIOUS
  <2>2. x = [id |-> i, op |-> op, arg |-> arg, gen |-> h, sid |-> s, mounted |-> m,
             try |-> 0, st |-> "sent", ans |-> "none", ck |-> {}, who |-> NoUser, rows |-> {},
             asked |-> a, known |-> k]
    BY <1>3, <1>4, <2>1, Zenon
  <2>3. [x EXCEPT !.gen = g] =
            [id |-> i, op |-> op, arg |-> arg, gen |-> g, sid |-> s, mounted |-> m,
             try |-> 0, st |-> "sent", ans |-> "none", ck |-> {}, who |-> NoUser, rows |-> {},
             asked |-> a, known |-> k]
    BY <2>2
  <2>4. [x EXCEPT !.gen = g] = RequestOf(g, i, op, arg, m)
    BY <1>3, <1>4, <2>3, Zenon
  <2>5. QED BY <2>1, <2>4, Zenon
<1>6. QED BY <1>1, <1>5

(* A request that is sent is true of the session it is sent in.              *)
LEMMA NewRequest ==
  ASSUME AuthInv, NEW g \in Nat, NEW i \in Nat, NEW op \in Ops, NEW arg \in Args,
         NEW m \in BOOLEAN, NEW q, q = RequestOf(g, i, op, arg, m),
         op \in Logouts => cookie \in {arg, 0},
         op = "verify" => view.asked \/ auth.status # "authenticated",
         op = "login" => arg \in Accounts
  PROVE  /\ q \in Requests /\ q.id = i /\ q.op = op
         /\ q.sid = cookie /\ q.gen = g
         /\ cookie' = cookie /\ srv' = srv /\ g <= auth'.gen /\ i <= sent' => RequestTrue(q)'
<1>1. cookie \in Nat /\ cookie <= Len(srv.owner) /\ view.asked \in BOOLEAN
  BY DEF AuthInv, Shapes, TabShapes, Views
<1>2. q \in Requests
  BY <1>1 DEF RequestOf, Requests, Users
<1>3. /\ q.id = i /\ q.op = op /\ q.sid = cookie /\ q.gen = g /\ q.arg = arg
      /\ q.st = "sent" /\ q.ans = "none" /\ q.ck = {} /\ q.asked = view.asked
      /\ q.known = (op = "verify" /\ auth.status = "authenticated")
  BY DEF RequestOf
<1>4. ASSUME cookie' = cookie, srv' = srv, g <= auth'.gen, i <= sent' PROVE RequestTrue(q)'
  <2>1. CookieSet(q)' /\ AnswerTrue(q)'
    BY <1>3 DEF CookieSet, AnswerTrue
  <2>2. InItsTime(q)'
    BY <1>1, <1>3, <1>4 DEF InItsTime
  <2>3. QED BY <1>3, <2>1, <2>2 DEF RequestTrue
<1>5. QED BY <1>2, <1>3, <1>4

(* Sending a request leaves the tab's session as it was.                     *)
LEMMA SendStep ==
  ASSUME AuthInv, NEW op \in Ops, NEW arg \in Args,
         UNCHANGED <<srv, cookie, auth, panel, gaps>>, toasts' \subseteq toasts,
         sent' = sent + 1, net' = net \cup {Request(sent + 1, op, arg, TRUE)},
         view' \in Views, AsksFirst(view', auth.status),
         op \in Logouts => cookie \in {arg, 0},
         op = "verify" => view.asked \/ auth.status # "authenticated",
         op = "login" => arg \in Accounts
  PROVE  AuthInv'
<1>1. /\ srv' = srv /\ cookie' = cookie /\ auth' = auth /\ panel' = panel /\ gaps' = gaps
      /\ sent \in Nat /\ sent' \in Nat /\ auth.gen \in Nat /\ Len(srv.owner) \in Nat
  BY DEF AuthInv, Shapes, TabShapes
<1>2. PICK i \in Nat, m \in BOOLEAN : i = sent + 1 /\ m = TRUE
  BY <1>1
<1>3. PICK q : q = RequestOf(auth.gen, i, op, arg, m)
  OBVIOUS
<1>4. q \in Requests /\ q.id = sent + 1 /\ RequestTrue(q)'
  <2>1. q = RequestOf(auth.gen, i, op, arg, m)
    BY <1>3
  <2>2. /\ q \in Requests /\ q.id = i
        /\ cookie' = cookie /\ srv' = srv /\ auth.gen <= auth'.gen /\ i <= sent' => RequestTrue(q)'
    BY <1>1, <2>1, NewRequest
  <2>3. auth.gen <= auth'.gen /\ i <= sent'
    BY <1>1, <1>2
  <2>4. QED BY <1>1, <1>2, <2>2, <2>3
<1>5. net' = net \cup {q} /\ {q} \in SUBSET Requests /\ OneEach({q}) /\ Shown(net', net \cup {q})
  <2>1. Request(sent + 1, op, arg, TRUE) = q
    BY <1>2, <1>3, Zenon DEF Request, RequestOf
  <2>2. net' = net \cup {q}
    BY <2>1, Zenon
  <2>3. QED BY <1>4, <2>2 DEF OneEach, Shown
<1>6. \A n \in net : n.id # q.id
  <2>1. ASSUME NEW n \in net PROVE n.id \in Nat /\ n.id <= sent
    BY DEF AuthInv, Shapes, Requests, RequestTrue, InItsTime
  <2>2. QED BY <1>1, <1>4, <2>1
<1>7. TabShapes'
  <2>1. toasts' \subseteq Offers
    BY DEF AuthInv, Shapes, TabShapes
  <2>2. QED BY <1>1, <2>1 DEF AuthInv, Shapes, TabShapes
<1>8. Grows /\ sent <= sent'
  BY <1>1 DEF Grows
<1>9. QED BY <1>1, <1>4, <1>5, <1>6, <1>7, <1>8, QuietStep

-----------------------------------------------------------------------------
(* What the user does, one lemma for each kind of step.                      *)

(* Every operation belongs to a page of the router.                          *)
LEMMA VisitedPages ==
  ASSUME NEW p \in Visited
  PROVE  p \in Pages
BY DEF Visited, PageOf, Pages, Protected

(* A control sends its request and waits (the page's own busy flag).         *)
LEMMA SubmitStep ==
  ASSUME AuthInv, NEW op \in Ops \ (Logouts \cup {"verify"}), NEW arg \in Args,
         op = "login" => arg \in Accounts, Submit(op, arg)
  PROVE  AuthInv'
<1>1. /\ UNCHANGED <<srv, cookie, auth, panel, toasts, gaps>> /\ sent' = sent + 1
      /\ net' = net \cup {Request(sent + 1, op, arg, TRUE)}
      /\ view' = [view EXCEPT !.busy = view.busy \cup {op}] /\ Settled
  BY Zenon DEF Submit, Send
<1>2. view \in Views
  BY DEF AuthInv, Shapes, TabShapes
<1>3. view' \in Views /\ view'.page = view.page /\ view'.step = view.step
  BY <1>1, <1>2 DEF Views
<1>4. AsksFirst(view', auth.status)
  BY <1>1, <1>3 DEF AsksFirst, Settled
<1>5. toasts' \subseteq toasts
  BY <1>1
<1>6. QED BY <1>1, <1>3, <1>4, <1>5, SendStep

(* A Retry offer that disappears takes nothing with it.                      *)
LEMMA DroppedOffer ==
  ASSUME AuthInv, srv' = srv, cookie' = cookie, auth' = auth, panel' = panel, gaps' = gaps,
         view' = view, net' = net, sent' = sent, toasts' \subseteq toasts
  PROVE  AuthInv'
<1>1. TabShapes'
  <2>1. toasts' \subseteq Offers
    BY DEF AuthInv, Shapes, TabShapes
  <2>2. QED BY <2>1 DEF AuthInv, Shapes, TabShapes
<1>2. Grows /\ sent <= sent'
  <2>1. Len(srv.owner) \in Nat /\ sent \in Nat
    BY DEF AuthInv, Shapes, TabShapes
  <2>2. QED BY <2>1 DEF Grows
<1>3. Shown(net', net \cup {}) /\ OneEach({}) /\ {} \in SUBSET Requests /\ net \in SUBSET net
  <2>1. net \cup {} = net
    OBVIOUS
  <2>2. QED BY <2>1 DEF OneEach, Shown
<1>4. AsksFirst(view', auth.status)
  BY DEF AuthInv, LinkAsked
<1>5. QED BY <1>1, <1>2, <1>3, <1>4, QuietStep

(* VerifyEmailPage's effect: it runs once settleSwitch, or the visitor, has  *)
(* said go.                                                                  *)
LEMMA VerifyStep ==
  ASSUME AuthInv, NEW u \in Accounts, VerifyEffect(u)
  PROVE  AuthInv'
<1>1. /\ UNCHANGED <<srv, cookie, auth, panel, toasts, gaps>> /\ sent' = sent + 1
      /\ net' = net \cup {Request(sent + 1, "verify", u, TRUE)}
      /\ view' = [view EXCEPT !.step = "verifying", !.busy = {"verify"}]
      /\ view.page = "verify" /\ view.step = "go"
  BY Zenon DEF VerifyEffect
<1>2. view \in Views
  BY DEF AuthInv, Shapes, TabShapes
<1>3. view' \in Views /\ view'.step = "verifying"
  BY <1>1, <1>2 DEF Views, Steps, Ops, Plain
<1>4. AsksFirst(view', auth.status)
  BY <1>3 DEF AsksFirst
<1>5. view.asked \/ auth.status # "authenticated"
  BY <1>1 DEF AuthInv, LinkAsked, AsksFirst
<1>6. "verify" \in Ops /\ "verify" \notin Logouts /\ u \in Args /\ toasts' \subseteq toasts
  BY <1>1 DEF Ops, Plain, Logouts, Users, Args
<1>7. QED BY <1>1, <1>3, <1>4, <1>5, <1>6, SendStep

(* RequireAuth's "Try again" asks once more who is signed in.                *)
LEMMA TryAgainStep ==
  ASSUME AuthInv, TryAgain
  PROVE  AuthInv'
<1>1. /\ UNCHANGED <<srv, cookie, auth, view, panel, toasts, gaps>> /\ sent' = sent + 1
      /\ net' = net \cup {Request(sent + 1, "me", NoUser, TRUE)}
  BY Zenon DEF TryAgain, Send
<1>2. view' = view /\ toasts' = toasts
  BY <1>1
<1>3. view' \in Views /\ AsksFirst(view', auth.status)
  BY <1>2 DEF AuthInv, Shapes, TabShapes, LinkAsked
<1>4. "me" \in Ops /\ "me" \notin Logouts /\ "me" # "verify" /\ NoUser \in Args
  BY DEF Ops, Plain, Logouts, Users, Args
<1>5. QED BY <1>1, <1>2, <1>3, <1>4, SendStep

(* The Retry of a failed sign-out acts for its own generation only, so the   *)
(* cookie it sends is the one it was offered for, or none.                   *)
LEMMA RetryStep ==
  ASSUME AuthInv, NEW t \in toasts, RetrySignOut(t)
  PROVE  AuthInv'
<1>1. /\ UNCHANGED <<srv, cookie, auth, view, panel, gaps>> /\ toasts' = toasts \ {t}
      /\ IF t.gen = auth.gen THEN Send("retry", t.sid) ELSE UNCHANGED <<net, sent>>
  BY Zenon DEF RetrySignOut
<1>2. view' = view /\ toasts' \subseteq toasts
  BY <1>1
<1>3. view' \in Views /\ AsksFirst(view', auth.status)
  BY <1>2 DEF AuthInv, Shapes, TabShapes, LinkAsked
<1>4. CASE t.gen = auth.gen
  <2>1. /\ sent' = sent + 1 /\ net' = net \cup {Request(sent + 1, "retry", t.sid, TRUE)}
    BY <1>1, <1>4, Zenon DEF Send
  <2>2. t.sid \in Args /\ cookie \in {t.sid, 0}
    BY <1>4 DEF AuthInv, Shapes, TabShapes, ToastTrue, Offers
  <2>3. "retry" \in Ops /\ "retry" # "verify" /\ t.sid \in Args
    BY <2>2 DEF Ops, Logouts, Args
  <2>4. QED BY <1>1, <1>2, <1>3, <2>1, <2>2, <2>3, SendStep
<1>5. CASE t.gen # auth.gen
  <2>1. /\ srv' = srv /\ cookie' = cookie /\ auth' = auth /\ panel' = panel /\ gaps' = gaps
        /\ view' = view /\ net' = net /\ sent' = sent /\ toasts' \subseteq toasts
    BY <1>1, <1>5
  <2>2. QED BY <2>1, DroppedOffer
<1>6. QED BY <1>4, <1>5

(* logout: the new generation begins with its sign-out under way.            *)
LEMMA LogoutStep ==
  ASSUME AuthInv, Logout
  PROVE  AuthInv'
<1>1. /\ Settled /\ panel' = NoPanel /\ gaps' = {} /\ sent' = sent + 1
      /\ auth' = [status |-> "unauthenticated", user |-> NoUser, gen |-> auth.gen + 1]
      /\ srv' = srv /\ cookie' = cookie /\ toasts' = toasts
      /\ Render(view, "unauthenticated",
                net \cup {[Request(sent + 1, "logout", cookie, TRUE) EXCEPT !.gen = auth.gen + 1]})
  BY DEF Logout, Boundary
<1>2. /\ sent \in Nat /\ auth.gen \in Nat /\ cookie \in Nat /\ view \in Views
      /\ Len(srv.owner) \in Nat /\ net \subseteq Requests
  BY DEF AuthInv, Shapes, TabShapes
<1>3. /\ auth'.gen = auth.gen + 1 /\ auth'.status = "unauthenticated" /\ auth'.user = NoUser
      /\ auth' \in [status : Statuses, user : Users, gen : Nat]
      /\ panel' \in Panels
      /\ panel'.list \cap panel'.revoked = {}
  BY <1>1, <1>2 DEF Statuses, Users, NoPanel, Panels
<1>4. PICK i, g, m, q :
          i = sent + 1 /\ g = auth.gen + 1 /\ m = TRUE /\ q = RequestOf(g, i, "logout", cookie, m)
  BY Zenon
<1>5. q \in Requests /\ q.id = i /\ q.op = "logout" /\ q.sid = cookie /\ q.gen = g
      /\ RequestTrue(q)'
  <2>1. "logout" \in Ops /\ cookie \in Args /\ "logout" \notin {"verify", "login"}
    BY <1>2 DEF Ops, Logouts, Args
  <2>2. q = RequestOf(g, i, "logout", cookie, m) /\ g <= auth'.gen /\ i <= sent'
    BY <1>1, <1>2, <1>3, <1>4
  <2>3. i \in Nat /\ g \in Nat /\ m \in BOOLEAN
    BY <1>2, <1>4
  <2>4. QED BY <1>1, <2>1, <2>2, <2>3, NewRequest
<1>6. [Request(sent + 1, "logout", cookie, TRUE) EXCEPT !.gen = auth.gen + 1] = q
  <2>1. [Request(i, "logout", cookie, m) EXCEPT !.gen = g] = RequestOf(g, i, "logout", cookie, m)
    BY RequestForms
  <2>2. QED BY <1>4, <2>1, Zenon
<1>7. view' \in Views /\ AsksFirst(view', "unauthenticated") /\ Shown(net', net \cup {q})
  <2>1. Render(view, "unauthenticated", net \cup {q})
    BY <1>1, <1>6
  <2>2. QED BY <1>1, <1>2, <2>1, RenderFacts DEF Settled
<1>8. TabShapes'
  BY <1>1, <1>2, <1>3, <1>7 DEF AuthInv, Shapes, TabShapes
<1>9. Grows /\ Moves
  BY <1>1, <1>2, <1>3 DEF Grows, Moves
<1>10. net' \subseteq Requests /\ (\A x \in net' : RequestTrue(x)') /\ OneEach(net')
  <2>1. \A n \in net : n.id # q.id
    <3>1. ASSUME NEW n \in net PROVE n.id \in Nat /\ n.id <= sent
      BY DEF AuthInv, Shapes, Requests, RequestTrue, InItsTime
    <3>2. q.id = sent + 1
      BY <1>4, <1>5, Zenon
    <3>3. QED BY <1>2, <3>1, <3>2
  <2>2. {q} \in SUBSET Requests /\ OneEach({q}) /\ net \in SUBSET net
    BY <1>5 DEF OneEach
  <2>3. QED BY <1>5, <1>7, <1>8, <1>9, <2>1, <2>2, NetStep
<1>11. \A t \in toasts' : ToastTrue(t)'
  <2>1. SUFFICES ASSUME NEW t \in toasts PROVE ToastTrue(t)'
    BY <1>1
  <2>2. t.gen \in Nat /\ t.gen <= auth.gen
    BY DEF AuthInv, Shapes, TabShapes, ToastTrue, Offers
  <2>3. QED BY <1>2, <1>3, <2>2 DEF ToastTrue
<1>12. SigningOut'
  <2>1. OutUnderWay(net \cup {q}, cookie, g) /\ net \cup {q} \in SUBSET Requests
    BY <1>2, <1>5 DEF OutUnderWay, Logouts
  <2>2. OutUnderWay(net', cookie, g)
    BY <1>7, <2>1, OutStays
  <2>3. QED BY <1>1, <1>3, <1>4, <2>2 DEF SigningOut, OutUnderWay
<1>13. QED
  BY <1>3, <1>7, <1>8, <1>10, <1>11, <1>12
  DEF AuthInv, Shapes, LinkAsked, RevokedStaysHidden, IdentityKept

(* The steps that only change the page.                                      *)
LEMMA PagesStep ==
  ASSUME AuthInv,
         \/ SwitchAccounts \/ ForgotSubmit \/ ResendSubmit \/ CooledDown \/ ResetRedirect
         \/ \E p \in Visited : Open(p)
         \/ \E b \in BOOLEAN : ResetChecked(b) \/ Previewed(b) \/ Told(b)
  PROVE  AuthInv'
<1>1. view \in Views
  BY DEF AuthInv, Shapes, TabShapes
<1>2. Shown(net, net)
  BY DEF Shown
<1>3. CASE SwitchAccounts
  <2>1. view' = [view EXCEPT !.step = "go", !.asked = TRUE] /\ net' = net /\ Quietly
    BY <1>3 DEF SwitchAccounts
  <2>2. view' \in Views /\ view'.asked = TRUE
    BY <1>1, <2>1 DEF Views, Steps
  <2>3. AsksFirst(view', auth.status)
    BY <2>2 DEF AsksFirst
  <2>4. QED BY <1>2, <2>1, <2>2, <2>3, PageStep
<1>4. ASSUME NEW op \in {"forgot", "resend"}, Ask(op), Settled PROVE AuthInv'
  <2>1. view' = [view EXCEPT !.busy = view.busy \cup {op}] /\ net' = net /\ Quietly
    BY <1>4 DEF Ask
  <2>2. view' \in Views /\ view'.page = view.page /\ view'.step = view.step
    BY <1>1, <2>1 DEF Views, Ops
  <2>3. AsksFirst(view', auth.status)
    BY <1>4, <2>2 DEF AsksFirst, Settled
  <2>4. QED BY <1>2, <2>1, <2>2, <2>3, PageStep
<1>5. CASE ForgotSubmit \/ ResendSubmit
  BY <1>4, <1>5 DEF ForgotSubmit, ResendSubmit, On
<1>6. ASSUME NEW x \in Steps \ {"go"}, NEW b, net' = net, Quietly,
             view' = [view EXCEPT !.busy = b, !.step = x], b \subseteq Ops
      PROVE  AuthInv'
  <2>1. view' \in Views /\ view'.step = x
    BY <1>1, <1>6 DEF Views
  <2>2. AsksFirst(view', auth.status)
    BY <2>1 DEF AsksFirst
  <2>3. QED BY <1>2, <1>6, <2>1, <2>2, PageStep
<1>7. ASSUME NEW x \in Steps \ {"go"}, net' = net, Quietly, view' = [view EXCEPT !.step = x]
      PROVE  AuthInv'
  <2>1. view' = [view EXCEPT !.busy = view.busy, !.step = x] /\ view.busy \subseteq Ops
    BY <1>1, <1>7 DEF Views
  <2>2. QED BY <1>6, <1>7, <2>1
<1>8. CASE CooledDown
  BY <1>7, <1>8 DEF CooledDown, Steps
<1>9. ASSUME NEW b \in BOOLEAN, ResetChecked(b) PROVE AuthInv'
  <2>1. PICK x \in Steps \ {"go"} : x = IF b THEN "valid" ELSE "invalid"
    BY DEF Steps
  <2>2. QED BY <1>7, <1>9, <2>1 DEF ResetChecked
<1>10. ASSUME NEW b \in BOOLEAN, Previewed(b) PROVE AuthInv'
  <2>1. PICK x \in Steps \ {"go"} : x = IF b THEN "ready" ELSE "error"
    BY DEF Steps
  <2>2. QED BY <1>7, <1>10, <2>1 DEF Previewed
<1>11. ASSUME NEW b \in BOOLEAN, Told(b) PROVE AuthInv'
  <2>1. PICK x \in Steps \ {"go"} : x = IF b /\ "resend" \in view.busy THEN "sent" ELSE "idle"
    BY DEF Steps
  <2>2. view' = [view EXCEPT !.busy = {}, !.step = x] /\ net' = net /\ Quietly
    BY <1>11, <2>1 DEF Told
  <2>3. QED BY <1>6, <2>2
<1>12. ASSUME NEW p \in Pages, Navigate(p, auth.status, net), Quietly PROVE AuthInv'
  BY <1>12, NavigateFacts, PageStep
<1>13. CASE ResetRedirect
  BY <1>12, <1>13 DEF ResetRedirect, Pages
<1>14. ASSUME NEW p \in Visited, Open(p) PROVE AuthInv'
  BY <1>12, <1>14, VisitedPages DEF Open
<1>15. QED BY <1>3, <1>5, <1>8, <1>9, <1>10, <1>11, <1>13, <1>14

-----------------------------------------------------------------------------
(* The server and the network.                                               *)

(* One request is replaced by what the server or the network made of it.     *)
LEMMA ReplaceStep ==
  ASSUME AuthInv, NEW r \in net, NEW q \in Requests, net' = (net \ {r}) \cup {q},
         q.id = r.id, q.op = r.op, q.gen = r.gen, r.op \in Logouts => q.sid = r.sid,
         srv' \in [owner : Seq(Accounts), live : SUBSET Nat, fresh : SUBSET Accounts,
                   deleted : SUBSET Accounts],
         srv'.live \subseteq 1..Len(srv'.owner), Grows, TabShapes' => RequestTrue(q)',
         cookie' = cookie, auth' = auth, view' = view, panel' = panel, toasts' = toasts,
         gaps' = gaps, sent' = sent
  PROVE  AuthInv'
<1>1. TabShapes'
  <2>1. /\ Len(srv.owner) \in Nat /\ Len(srv'.owner) \in Nat /\ Len(srv.owner) <= Len(srv'.owner)
        /\ cookie \in 0..Len(srv.owner)
    BY DEF AuthInv, Shapes, TabShapes, Grows
  <2>2. cookie' \in 0..Len(srv'.owner)
    BY <2>1
  <2>3. QED BY <2>2 DEF AuthInv, Shapes, TabShapes
<1>2. sent <= sent'
  BY DEF AuthInv, Shapes, TabShapes
<1>3. net \ {r} \in SUBSET net /\ {q} \in SUBSET Requests /\ OneEach({q})
      /\ Shown(net', (net \ {r}) \cup {q}) /\ \A n \in net \ {r} : n.id # q.id
  BY DEF OneEach, Shown, AuthInv
<1>4. AsksFirst(view', auth.status)
  BY DEF AuthInv, LinkAsked
<1>5. QED BY <1>1, <1>2, <1>3, <1>4, QuietStep

(* The server's answer, for any outcome its handler may have.                *)
LEMMA ServeStep ==
  ASSUME AuthInv, NEW r \in net, NEW ans \in {"ok", "fail", "401", "403", "409"},
         NEW ck \in SUBSET Nat, NEW who \in Users, NEW rows \in SUBSET Nat,
         Serve(r, ans, ck, who, rows),
         srv' \in [owner : Seq(Accounts), live : SUBSET Nat, fresh : SUBSET Accounts,
                   deleted : SUBSET Accounts],
         srv'.live \subseteq 1..Len(srv'.owner), Grows,
         \/ ck = {}
         \/ ck = {0} /\ r.op \in Logouts \cup {"delete"} /\ ans = "ok"
         \/ /\ r.op \in {"login", "verify"} /\ ans = "ok"
            /\ \E c \in 1..Len(srv'.owner) : ck = {c} /\ srv'.owner[c] = who,
         ans = "ok" /\ r.op \in Logouts \cup {"delete", "login", "verify"} => ck # {},
         ans = "ok" /\ r.op \in Naming => r.sid \in 1..Len(srv'.owner) /\ srv'.owner[r.sid] = who,
         ans = "401" /\ r.op \notin Public => r.sid \notin srv.live,
         r.op \in Logouts \cup {"me"} => ans \in {"ok", "401", "fail"}
  PROVE  AuthInv'
<1>1. PICK q : q = [r EXCEPT !.st = "done", !.ans = ans, !.ck = ck, !.who = who, !.rows = rows]
  OBVIOUS
<1>2. /\ net' = (net \ {r}) \cup {q} /\ cookie' = cookie /\ auth' = auth /\ view' = view
      /\ panel' = panel /\ toasts' = toasts /\ gaps' = gaps /\ sent' = sent
  BY <1>1 DEF Serve
<1>3. r \in Requests /\ RequestTrue(r)
  BY DEF AuthInv, Shapes
<1>4. /\ q \in Requests
      /\ q.id = r.id /\ q.op = r.op /\ q.gen = r.gen /\ q.sid = r.sid /\ q.arg = r.arg
      /\ q.asked = r.asked /\ q.known = r.known
      /\ q.st = "done" /\ q.ans = ans /\ q.ck = ck /\ q.who = who
  BY <1>1, <1>3 DEF Requests
<1>5. ASSUME TabShapes' PROVE RequestTrue(q)'
  <2>1. Moves
    BY <1>2 DEF Moves, AuthInv, Shapes, TabShapes
  <2>2. RequestTrue(r)'
    BY <1>3, <1>5, <2>1, RequestStays DEF AuthInv, Shapes
  <2>3. CookieSet(q)'
    BY <1>4 DEF CookieSet
  <2>4. AnswerTrue(q)'
    <3>1. ans = "401" /\ r.op \notin Public => r.sid \notin srv'.live
      <4>1. r.sid \in 0..Len(srv.owner)
        BY <1>3 DEF RequestTrue, InItsTime, AuthInv, Shapes, TabShapes, Requests
      <4>2. QED BY <4>1 DEF Grows
    <3>2. QED BY <1>4, <3>1 DEF AnswerTrue
  <2>5. InItsTime(q)'
    BY <1>4, <2>2 DEF RequestTrue, InItsTime
  <2>6. QED BY <1>4, <2>2, <2>3, <2>4, <2>5 DEF RequestTrue
<1>6. QED BY <1>2, <1>4, <1>5, ReplaceStep

(* Sessions end and none is added, as with a sign-out, a new password, a     *)
(* reset or a deletion.                                                      *)
LEMMA SessionsEnd ==
  ASSUME AuthInv, NEW end, NEW gone \in SUBSET Accounts,
         srv' = [srv EXCEPT !.live = srv.live \ end, !.deleted = gone]
  PROVE  /\ srv' \in [owner : Seq(Accounts), live : SUBSET Nat, fresh : SUBSET Accounts,
                      deleted : SUBSET Accounts]
         /\ srv'.live \subseteq 1..Len(srv'.owner) /\ Grows
         /\ srv'.owner = srv.owner
<1>1. /\ srv \in [owner : Seq(Accounts), live : SUBSET Nat, fresh : SUBSET Accounts,
                  deleted : SUBSET Accounts]
      /\ srv.live \subseteq 1..Len(srv.owner)
  BY DEF AuthInv, Shapes, TabShapes
<1>2. srv'.owner = srv.owner /\ srv'.live = srv.live \ end
      /\ srv' \in [owner : Seq(Accounts), live : SUBSET Nat, fresh : SUBSET Accounts,
                   deleted : SUBSET Accounts]
  BY <1>1
<1>3. Len(srv.owner) \in Nat
  BY <1>1
<1>4. Grows
  BY <1>2, <1>3 DEF Grows
<1>5. QED BY <1>1, <1>2, <1>4

(* The server refuses, or answers without touching a session.                *)
LEMMA RefuseStep ==
  ASSUME AuthInv, NEW r \in net, NEW ans \in {"ok", "fail", "401", "403", "409"},
         NEW who \in Users, NEW rows \in SUBSET Nat, Serve(r, ans, {}, who, rows), UNCHANGED srv,
         ans = "ok" => r.op \notin Logouts \cup {"delete", "login", "verify"},
         ans = "ok" /\ r.op \in Naming => r.sid \in 1..Len(srv.owner) /\ srv.owner[r.sid] = who,
         ans = "401" /\ r.op \notin Public => r.sid \notin srv.live,
         r.op \in Logouts \cup {"me"} => ans \in {"ok", "401", "fail"}
  PROVE  AuthInv'
<1>1. /\ srv \in [owner : Seq(Accounts), live : SUBSET Nat, fresh : SUBSET Accounts,
                  deleted : SUBSET Accounts]
      /\ srv.live \subseteq 1..Len(srv.owner) /\ Len(srv.owner) \in Nat
  BY DEF AuthInv, Shapes, TabShapes
<1>2. Grows
  BY <1>1 DEF Grows
<1>3. {} \in SUBSET Nat
  OBVIOUS
<1>4. QED BY <1>1, <1>2, <1>3, ServeStep

(* login and verify_email: the new session belongs to the account asked for. *)
LEMMA NewSessionStep ==
  ASSUME AuthInv, NEW r \in net, NEW u \in Accounts, r.op \in {"login", "verify"}, NewSession(r, u)
  PROVE  AuthInv'
<1>1. /\ srv' = [srv EXCEPT !.owner = Append(srv.owner, u),
                            !.live = srv.live \cup {Len(srv.owner) + 1},
                            !.fresh = srv.fresh \ {u}]
      /\ Serve(r, "ok", {Len(srv.owner) + 1}, u, {})
  BY DEF NewSession
<1>2. /\ srv \in [owner : Seq(Accounts), live : SUBSET Nat, fresh : SUBSET Accounts,
                  deleted : SUBSET Accounts]
      /\ srv.live \subseteq 1..Len(srv.owner)
  BY DEF AuthInv, Shapes, TabShapes
<1>3. /\ Append(srv.owner, u) \in Seq(Accounts)
      /\ Len(Append(srv.owner, u)) = Len(srv.owner) + 1 /\ Len(srv.owner) \in Nat
      /\ \A c \in 1..Len(srv.owner) : Append(srv.owner, u)[c] = srv.owner[c]
      /\ Append(srv.owner, u)[Len(srv.owner) + 1] = u
  BY <1>2
<1>4. /\ srv'.owner = Append(srv.owner, u) /\ srv'.live = srv.live \cup {Len(srv.owner) + 1}
      /\ srv'.fresh = srv.fresh \ {u} /\ srv'.deleted = srv.deleted
      /\ srv' \in [owner : Seq(Accounts), live : SUBSET Nat, fresh : SUBSET Accounts,
                   deleted : SUBSET Accounts]
  <2>1. PICK a, l, f :
            a = Append(srv.owner, u) /\ l = srv.live \cup {Len(srv.owner) + 1} /\ f = srv.fresh \ {u}
    BY Zenon
  <2>2. a \in Seq(Accounts)
    BY <1>3, <2>1
  <2>3. l \subseteq Nat /\ f \subseteq Accounts
    BY <1>2, <1>3, <2>1
  <2>4. srv' = [srv EXCEPT !.owner = a, !.live = l, !.fresh = f]
    BY <1>1, <2>1
  <2>5. /\ srv'.owner = a /\ srv'.live = l /\ srv'.fresh = f /\ srv'.deleted = srv.deleted
        /\ srv' \in [owner : Seq(Accounts), live : SUBSET Nat, fresh : SUBSET Accounts,
                     deleted : SUBSET Accounts]
    BY <1>2, <2>2, <2>3, <2>4
  <2>6. QED BY <2>1, <2>5
<1>5. srv'.live \subseteq 1..Len(srv'.owner)
  <2>1. Len(srv'.owner) = Len(srv.owner) + 1
    BY <1>3, <1>4
  <2>2. QED BY <1>2, <1>3, <1>4, <2>1
<1>6. Grows
  <2>1. Len(srv.owner) <= Len(srv'.owner)
    BY <1>3, <1>4
  <2>2. \A c \in 1..Len(srv.owner) : srv'.owner[c] = srv.owner[c]
    BY <1>3, <1>4
  <2>3. \A c \in 0..Len(srv.owner) : c \in srv'.live => c \in srv.live
    BY <1>3, <1>4
  <2>4. QED BY <2>1, <2>2, <2>3 DEF Grows
<1>7. PICK n \in Nat : n = Len(srv.owner) + 1
  BY <1>3
<1>8. n \in 1..Len(srv'.owner) /\ srv'.owner[n] = u /\ {n} \in SUBSET Nat /\ {} \in SUBSET Nat
  BY <1>3, <1>4, <1>7
<1>9. Serve(r, "ok", {n}, u, {}) /\ u \in Users
  BY <1>1, <1>7 DEF Users
<1>10. {n} # {} /\ \E c \in 1..Len(srv'.owner) : {n} = {c} /\ srv'.owner[c] = u
  BY <1>8
<1>11. r.op \notin Logouts \cup {"me"} /\ r.op \notin Naming
  BY DEF Logouts, Naming
<1>12. QED BY <1>4, <1>5, <1>6, <1>8, <1>9, <1>10, <1>11, ServeStep

(* The server's handlers.                                                    *)
LEMMA ServeAnyStep ==
  ASSUME AuthInv, NEW r \in net, ServeAny(r)
  PROVE  AuthInv'
<1>1. /\ srv \in [owner : Seq(Accounts), live : SUBSET Nat, fresh : SUBSET Accounts,
                  deleted : SUBSET Accounts]
      /\ srv.live \subseteq 1..Len(srv.owner) /\ srv.live \subseteq Nat
  BY DEF AuthInv, Shapes, TabShapes
<1>2. r \in Requests /\ RequestTrue(r)
  BY DEF AuthInv, Shapes
<1>3. NoUser \in Users /\ {} \in SUBSET Nat
  BY DEF Users
<1>4. ASSUME NEW ans \in {"ok", "fail", "401", "403", "409"}, Refuse(r, ans),
             ans = "ok" => r.op \in {"register", "confirm"},
             ans = "401" => r.op \in Public \/ r.sid \notin srv.live,
             r.op \in Logouts \cup {"me"} => ans \in {"401", "fail"}
      PROVE  AuthInv'
  <2>1. Serve(r, ans, {}, NoUser, {}) /\ UNCHANGED srv
    BY <1>4 DEF Refuse
  <2>2. ans = "ok" => r.op \notin Logouts \cup {"delete", "login", "verify"} /\ r.op \notin Naming
    BY <1>4 DEF Logouts, Naming
  <2>3. QED BY <1>3, <1>4, <2>1, <2>2, RefuseStep
<1>5. CASE ServeLogin(r)
  <2>1. r.op = "login" /\ r.op \notin Logouts \cup {"me"} /\ r.op \in Public
    BY <1>5 DEF ServeLogin, Logouts, Public
  <2>2. CASE Refuse(r, "401") \/ Refuse(r, "403")
    BY <1>4, <2>1, <2>2
  <2>3. CASE NewSession(r, r.arg)
    <3>1. r.arg \in Accounts
      BY <1>2, <2>1 DEF RequestTrue
    <3>2. QED BY <2>1, <2>3, <3>1, NewSessionStep
  <2>4. QED BY <1>5, <2>2, <2>3 DEF ServeLogin
<1>6. CASE ServeVerify(r)
  <2>1. r.op = "verify" /\ r.op \notin Logouts \cup {"me"}
    BY <1>6 DEF ServeVerify, Logouts
  <2>2. CASE Refuse(r, "409")
    BY <1>4, <2>1, <2>2
  <2>3. CASE r.arg \in srv.fresh /\ NewSession(r, r.arg)
    <3>1. r.arg \in Accounts
      BY <1>1, <2>3
    <3>2. QED BY <2>1, <2>3, <3>1, NewSessionStep
  <2>4. QED BY <1>6, <2>2, <2>3 DEF ServeVerify
<1>7. CASE ServePublic(r)
  <2>1. r.op \in {"register", "confirm"} /\ r.op \notin Logouts \cup {"me"}
    BY <1>7 DEF ServePublic, Logouts
  <2>2. QED BY <1>4, <1>7, <2>1 DEF ServePublic
<1>8. CASE ServeReset(r)
  <2>1. r.op = "reset" /\ r.op \notin Logouts \cup {"me", "delete", "login", "verify"}
        /\ r.op \notin Naming
    BY <1>8 DEF ServeReset, Logouts, Naming
  <2>2. CASE Refuse(r, "fail")
    BY <1>4, <2>1, <2>2
  <2>3. CASE /\ srv' = [srv EXCEPT !.live = srv.live \ SessionsOf(r.arg)]
             /\ Serve(r, "ok", {}, NoUser, {})
    <3>1. srv' = [srv EXCEPT !.live = srv.live \ SessionsOf(r.arg), !.deleted = srv.deleted]
      BY <1>1, <2>3
    <3>2. srv.deleted \in SUBSET Accounts
      BY <1>1
    <3>3. /\ srv' \in [owner : Seq(Accounts), live : SUBSET Nat, fresh : SUBSET Accounts,
                       deleted : SUBSET Accounts]
          /\ srv'.live \subseteq 1..Len(srv'.owner) /\ Grows
      BY <3>1, <3>2, SessionsEnd
    <3>4. QED BY <1>3, <2>1, <2>3, <3>3, ServeStep
  <2>4. QED BY <1>8, <2>2, <2>3 DEF ServeReset
<1>9. CASE ServeRead(r)
  <2>1. /\ r.op \in {"me", "again", "read", "summaries", "sessions", "profile", "prefs", "email",
                     "accept"}
        /\ r.op \notin Logouts \cup {"delete", "login", "verify"}
    BY <1>9 DEF ServeRead, Logouts
  <2>2. CASE ~Live(r.sid) /\ Refuse(r, "401")
    BY <1>4, <2>1, <2>2 DEF Live
  <2>3. CASE r.op \in {"profile", "prefs", "email", "accept"} /\ Refuse(r, "fail")
    BY <1>4, <2>3
  <2>4. CASE /\ Live(r.sid) /\ UNCHANGED srv
             /\ Serve(r, "ok", {}, Caller(r),
                      IF r.op = "sessions" THEN SessionsOf(Caller(r)) ELSE {})
    <3>1. r.sid \in 1..Len(srv.owner)
      BY <1>1, <2>4 DEF Live
    <3>2. srv.owner[r.sid] \in Accounts
      BY <1>1, <3>1, ElementOfSeq
    <3>3. Caller(r) \in Users /\ srv.owner[r.sid] = Caller(r)
      BY <3>2 DEF Caller, Users
    <3>4. PICK rows \in SUBSET Nat : rows = IF r.op = "sessions" THEN SessionsOf(Caller(r)) ELSE {}
      BY <1>1 DEF SessionsOf
    <3>5. Serve(r, "ok", {}, Caller(r), rows) /\ UNCHANGED srv
      BY <2>4, <3>4
    <3>6. QED BY <2>1, <3>1, <3>3, <3>5, RefuseStep
  <2>5. QED BY <1>9, <2>2, <2>3, <2>4 DEF ServeRead
<1>10. CASE ServeEnd(r)
  <2>1. /\ r.op \in Logouts \cup {"password", "revoke", "delete"} /\ r.op # "me"
        /\ r.op \notin Naming /\ r.op \notin {"login", "verify"}
    BY <1>10 DEF ServeEnd, Logouts, Naming
  <2>2. CASE ~Live(r.sid) /\ Refuse(r, "401")
    BY <1>4, <2>1, <2>2 DEF Live
  <2>3. CASE r.op \in {"password", "delete"} /\ Refuse(r, "fail")
    BY <1>4, <2>3
  <2>4. CASE /\ Live(r.sid)
             /\ LET mine == SessionsOf(Caller(r))
                    end == CASE r.op \in Logouts -> {r.sid}
                             [] r.op = "password" -> mine \ {r.sid}
                             [] r.op = "revoke" -> {r.arg} \cap mine
                             [] r.op = "delete" -> mine
                IN /\ srv' = [srv EXCEPT !.live = @ \ end,
                                  !.deleted = IF r.op = "delete" THEN @ \cup {Caller(r)} ELSE @]
                   /\ Serve(r, "ok", IF r.op \in Logouts \cup {"delete"} THEN {0} ELSE {},
                            NoUser, {})
    <3>1. PICK end, gone, ck :
            /\ gone = IF r.op = "delete" THEN srv.deleted \cup {Caller(r)} ELSE srv.deleted
            /\ ck = IF r.op \in Logouts \cup {"delete"} THEN {0} ELSE {}
            /\ srv' = [srv EXCEPT !.live = srv.live \ end, !.deleted = gone]
            /\ Serve(r, "ok", ck, NoUser, {})
      BY <2>4, Zenon
    <3>2. Caller(r) \in Accounts
      <4>1. r.sid \in 1..Len(srv.owner)
        BY <1>1, <2>4 DEF Live
      <4>2. QED BY <1>1, <4>1, ElementOfSeq DEF Caller
    <3>3. gone \in SUBSET Accounts
      BY <1>1, <3>1, <3>2
    <3>4. /\ srv' \in [owner : Seq(Accounts), live : SUBSET Nat, fresh : SUBSET Accounts,
                       deleted : SUBSET Accounts]
          /\ srv'.live \subseteq 1..Len(srv'.owner) /\ Grows
      BY <3>1, <3>3, SessionsEnd
    <3>5. /\ ck = {} \/ (ck = {0} /\ r.op \in Logouts \cup {"delete"})
          /\ ck \in SUBSET Nat /\ (r.op \in Logouts \cup {"delete", "login", "verify"} => ck # {})
      BY <2>1, <3>1
    <3>6. QED BY <1>3, <2>1, <3>1, <3>4, <3>5, ServeStep
  <2>5. QED BY <1>10, <2>2, <2>3, <2>4 DEF ServeEnd
<1>11. QED BY <1>5, <1>6, <1>7, <1>8, <1>9, <1>10 DEF ServeAny

(* The connection breaks: the answer carries nothing, not even a cookie.     *)
LEMMA FailStep ==
  ASSUME AuthInv, NEW r \in net, Fail(r)
  PROVE  AuthInv'
<1>1. PICK q : q = [r EXCEPT !.st = "done", !.ans = "fail", !.ck = {}]
  OBVIOUS
<1>2. /\ net' = (net \ {r}) \cup {q} /\ cookie' = cookie /\ auth' = auth /\ view' = view
      /\ panel' = panel /\ toasts' = toasts /\ gaps' = gaps /\ sent' = sent /\ srv' = srv
  BY <1>1 DEF Fail
<1>3. r \in Requests /\ RequestTrue(r)
  BY DEF AuthInv, Shapes
<1>4. /\ q \in Requests
      /\ q.id = r.id /\ q.op = r.op /\ q.gen = r.gen /\ q.sid = r.sid /\ q.arg = r.arg
      /\ q.asked = r.asked /\ q.known = r.known
      /\ q.st = "done" /\ q.ans = "fail" /\ q.ck = {}
  BY <1>1, <1>3 DEF Requests
<1>5. /\ srv' \in [owner : Seq(Accounts), live : SUBSET Nat, fresh : SUBSET Accounts,
                   deleted : SUBSET Accounts]
      /\ srv'.live \subseteq 1..Len(srv'.owner) /\ Grows
  <2>1. Len(srv.owner) \in Nat
    BY DEF AuthInv, Shapes, TabShapes
  <2>2. Grows
    BY <1>2, <2>1 DEF Grows
  <2>3. QED BY <1>2, <2>2 DEF AuthInv, Shapes, TabShapes
<1>6. RequestTrue(q)'
  <2>1. CookieSet(q)' /\ AnswerTrue(q)'
    BY <1>4 DEF CookieSet, AnswerTrue
  <2>2. InItsTime(q)'
    BY <1>2, <1>3, <1>4 DEF RequestTrue, InItsTime
  <2>3. QED BY <1>3, <1>4, <2>1, <2>2 DEF RequestTrue
<1>7. QED BY <1>2, <1>4, <1>5, <1>6, ReplaceStep

(* apiFetch's second try carries the cookie of its own moment.               *)
LEMMA ResendStep ==
  ASSUME AuthInv, NEW r \in net, Resend(r)
  PROVE  AuthInv'
<1>1. PICK q : q = [r EXCEPT !.st = "sent", !.sid = cookie]
  OBVIOUS
<1>2. /\ net' = (net \ {r}) \cup {q} /\ cookie' = cookie /\ auth' = auth /\ view' = view
      /\ panel' = panel /\ toasts' = toasts /\ gaps' = gaps /\ sent' = sent /\ srv' = srv
      /\ r.st = "wait"
  BY <1>1 DEF Resend, Others
<1>3. r \in Requests /\ RequestTrue(r)
  BY DEF AuthInv, Shapes
<1>4. r.ans = "none" /\ r.op \in Gets
  BY <1>2, <1>3 DEF RequestTrue, AnswerTrue
<1>5. cookie \in Nat /\ cookie <= Len(srv.owner) /\ Len(srv.owner) \in Nat
  BY DEF AuthInv, Shapes, TabShapes
<1>6. /\ q \in Requests
      /\ q.id = r.id /\ q.op = r.op /\ q.gen = r.gen /\ q.sid = cookie /\ q.ck = r.ck
      /\ q.st = "sent" /\ q.ans = "none" /\ q.who = r.who
  BY <1>1, <1>3, <1>4, <1>5 DEF Requests
<1>7. /\ srv' \in [owner : Seq(Accounts), live : SUBSET Nat, fresh : SUBSET Accounts,
                   deleted : SUBSET Accounts]
      /\ srv'.live \subseteq 1..Len(srv'.owner) /\ Grows
  <2>1. Grows
    BY <1>2, <1>5 DEF Grows
  <2>2. QED BY <1>2, <2>1 DEF AuthInv, Shapes, TabShapes
<1>8. q.op \notin Logouts \cup {"delete", "login", "verify", "me"} /\ q.op \notin Naming
  BY <1>4, <1>6 DEF Gets, Logouts, Naming
<1>9. RequestTrue(q)'
  <2>1. q.ck = {}
    BY <1>3, <1>6, <1>8 DEF RequestTrue, CookieSet
  <2>2. CookieSet(q)' /\ AnswerTrue(q)'
    BY <1>6, <1>8, <2>1 DEF CookieSet, AnswerTrue
  <2>3. InItsTime(q)'
    BY <1>2, <1>3, <1>5, <1>6 DEF RequestTrue, InItsTime
  <2>4. QED BY <1>8, <2>2, <2>3 DEF RequestTrue
<1>10. r.op \notin Logouts
  BY <1>6, <1>8
<1>11. QED BY <1>2, <1>6, <1>7, <1>9, <1>10, ReplaceStep

(* A session that ends elsewhere stays what it was to the tab.               *)
LEMMA EndedStep ==
  ASSUME AuthInv, NEW s, EndedElsewhere(s)
  PROVE  AuthInv'
<1>1. /\ srv' = [srv EXCEPT !.live = srv.live \ {s}] /\ net' = net
      /\ cookie' = cookie /\ auth' = auth /\ view' = view
      /\ panel' = panel /\ toasts' = toasts /\ gaps' = gaps /\ sent' = sent
  BY DEF EndedElsewhere
<1>2. srv.deleted \in SUBSET Accounts
      /\ srv' = [srv EXCEPT !.live = srv.live \ {s}, !.deleted = srv.deleted]
  <2>1. srv \in [owner : Seq(Accounts), live : SUBSET Nat, fresh : SUBSET Accounts,
                 deleted : SUBSET Accounts]
    BY DEF AuthInv, Shapes, TabShapes
  <2>2. QED BY <1>1, <2>1
<1>3. /\ srv' \in [owner : Seq(Accounts), live : SUBSET Nat, fresh : SUBSET Accounts,
                   deleted : SUBSET Accounts]
      /\ srv'.live \subseteq 1..Len(srv'.owner) /\ Grows /\ srv'.owner = srv.owner
  BY <1>2, SessionsEnd
<1>4. TabShapes' /\ sent <= sent'
  <2>1. cookie' \in 0..Len(srv'.owner) /\ sent \in Nat
    BY <1>1, <1>3 DEF AuthInv, Shapes, TabShapes
  <2>2. TabShapes'
    BY <1>1, <1>3, <2>1 DEF AuthInv, Shapes, TabShapes
  <2>3. QED BY <1>1, <2>1, <2>2
<1>5. Shown(net', net \cup {}) /\ OneEach({}) /\ {} \in SUBSET Requests /\ net \in SUBSET net
  <2>1. net \cup {} = net
    OBVIOUS
  <2>2. QED BY <1>1, <2>1 DEF OneEach, Shown
<1>6. AsksFirst(view', auth.status)
  BY <1>1 DEF AuthInv, LinkAsked
<1>7. toasts' \subseteq toasts
  BY <1>1
<1>8. QED BY <1>1, <1>3, <1>4, <1>5, <1>6, <1>7, QuietStep

-----------------------------------------------------------------------------
(* The continuations of a request, by what they leave alone.                 *)

(* Only a sign-in, a sign-out or a deletion that succeeded sets a cookie.    *)
LEMMA NoCookie ==
  ASSUME AuthInv, NEW r \in net, Arrive(r),
         r.ans = "ok" => r.op \notin Logouts \cup {"delete", "login", "verify"}
  PROVE  r.ck = {} /\ cookie' = cookie /\ Cleared(r) = {}
<1>1. CookieSet(r)
  BY DEF AuthInv, RequestTrue
<1>2. r.ck = {}
  BY <1>1 DEF CookieSet
<1>3. QED BY <1>2, ArriveFacts DEF Cleared

(* The answer changes the page and names a gap at most.                      *)
LEMMA KeptAnswer ==
  ASSUME AuthInv, NEW r \in net, Arrive(r), auth' = auth, panel' = panel, toasts' = toasts,
         gaps \subseteq gaps', Cleared(r) \subseteq gaps', r.op \notin Logouts,
         ~(r.op \in {"login", "verify"} /\ r.ans = "ok"),
         view' \in Views, AsksFirst(view', auth.status), Shown(net', Others(r))
  PROVE  AuthInv'
<1>1. /\ auth' \in [status : Statuses, user : Users, gen : Nat] /\ panel' \in Panels
      /\ toasts' \subseteq Offers /\ panel'.list \cap panel'.revoked = {}
  BY DEF AuthInv, Shapes, TabShapes, RevokedStaysHidden
<1>2. Shown(net', Others(r) \cup {}) /\ OneEach({}) /\ {} \in SUBSET Requests
  <2>1. Others(r) \cup {} = Others(r)
    OBVIOUS
  <2>2. QED BY <2>1 DEF OneEach
<1>3. QED BY <1>1, <1>2, QuietAnswer

(* The usual end of an answer: its control is released, its page may show    *)
(* another step.                                                             *)
Releases(r) == /\ \/ view' = DoneIf(r)
                  \/ \E x \in Steps \ {"go"} : view' = [DoneIf(r) EXCEPT !.step = x]
               /\ net' = Others(r)

(* An answer that only releases its page keeps the page well formed.         *)
LEMMA ReleasesFacts ==
  ASSUME AuthInv, NEW r \in net, Arrive(r), Releases(r), NEW st
  PROVE  view' \in Views /\ AsksFirst(view', st) /\ Shown(net', Others(r))
<1>1. Shapes /\ Settled
  BY ArriveFacts DEF AuthInv
<1>2. view' \in Views /\ ~(view'.page = "verify" /\ view'.step = "go")
  BY <1>1, DoneFacts DEF Releases
<1>3. QED BY <1>2 DEF Releases, Shown, AsksFirst

(* The step of a page that only its control depends on.                      *)
LEMMA StepForms ==
  ASSUME AuthInv, NEW r \in net, Arrive(r), NEW b \in BOOLEAN, NEW x \in Steps \ {"go"},
         view' = [DoneIf(r) EXCEPT !.step = IF b THEN x ELSE @], net' = Others(r)
  PROVE  Releases(r)
<1>1. Shapes /\ Settled
  BY ArriveFacts DEF AuthInv
<1>2. DoneIf(r) \in Views
  BY <1>1, DoneFacts
<1>3. CASE b
  BY <1>3 DEF Releases
<1>4. CASE ~b
  <2>1. view' = [DoneIf(r) EXCEPT !.step = DoneIf(r).step]
    BY <1>4
  <2>2. view' = DoneIf(r)
    BY <1>2, <2>1 DEF Views
  <2>3. QED BY <2>2 DEF Releases
<1>5. QED BY <1>3, <1>4

(* A form that is done once its answer has come.                             *)
LEMMA SentForms ==
  ASSUME AuthInv, NEW r \in net, Arrive(r), net' = Others(r),
         view' = [DoneIf(r) EXCEPT !.step = IF r.mounted /\ r.ans = "ok" THEN "sent" ELSE @]
  PROVE  Releases(r)
<1>1. PICK b \in BOOLEAN : b = (r.mounted /\ r.ans = "ok")
  OBVIOUS
<1>2. view' = [DoneIf(r) EXCEPT !.step = IF b THEN "sent" ELSE @]
  BY <1>1
<1>3. "sent" \in Steps \ {"go"}
  BY DEF Steps
<1>4. QED BY <1>2, <1>3, StepForms

(* An answer that is followed by another request of the same operation:      *)
(* confirmEmailChange's and the invite page's.                               *)
LEMMA FollowedAnswer ==
  ASSUME AuthInv, NEW r \in net, Arrive(r), Keep(r), toasts' = toasts, view' = view,
         r.op \notin Logouts \cup {"delete", "login", "verify"},
         NEW g \in Nat, g <= auth.gen, NEW op \in Ops \ (Logouts \cup {"verify", "login"}),
         NEW q, q = RequestOf(g, r.id, op, r.arg, r.mounted), net' = Others(r) \cup {q}
  PROVE  AuthInv'
<1>1. /\ r \in Requests /\ RequestTrue(r) /\ srv' = srv /\ sent' = sent /\ auth' = auth
      /\ panel' = panel /\ gaps' = gaps \cup Cleared(r)
  BY ArriveFacts DEF Keep
<1>2. r.id \in Nat /\ r.id <= sent /\ r.arg \in Args /\ r.mounted \in BOOLEAN
  BY <1>1 DEF Requests, RequestTrue, InItsTime
<1>3. cookie' = cookie
  BY NoCookie
<1>4. q \in Requests /\ q.id = r.id /\ RequestTrue(q)'
  <2>1. /\ q \in Requests /\ q.id = r.id
        /\ cookie' = cookie /\ srv' = srv /\ g <= auth'.gen /\ r.id <= sent' => RequestTrue(q)'
    BY <1>2, NewRequest
  <2>2. QED BY <1>1, <1>2, <1>3, <2>1
<1>5. /\ view' \in Views /\ AsksFirst(view', auth.status)
      /\ auth' \in [status : Statuses, user : Users, gen : Nat] /\ panel' \in Panels
      /\ toasts' \subseteq Offers /\ panel'.list \cap panel'.revoked = {}
  BY <1>1 DEF AuthInv, Shapes, TabShapes, RevokedStaysHidden, LinkAsked
<1>6. {q} \in SUBSET Requests /\ OneEach({q}) /\ Shown(net', Others(r) \cup {q})
  BY <1>4 DEF OneEach, Shown
<1>7. QED BY <1>1, <1>4, <1>5, <1>6, QuietAnswer

(* The answer to init or to a sign-up: the status changes, the generation    *)
(* and the cookie do not.                                                    *)
LEMMA StatusAnswer ==
  ASSUME AuthInv, NEW r \in net, Arrive(r), r.op \in {"me", "register"}, Shown(net', Others(r)),
         view' \in Views, AsksFirst(view', auth'.status), panel' = panel, toasts' = toasts,
         auth' \in [status : Statuses, user : Users, gen : Nat], auth'.gen = auth.gen,
         IdentityKept', SigningOut'
  PROVE  AuthInv'
<1>1. UNCHANGED <<srv, sent, faults>> /\ Grows
  BY ArriveFacts
<1>2. cookie' = cookie
  <2>1. r.op \notin Logouts \cup {"delete", "login", "verify"}
    BY DEF Logouts
  <2>2. QED BY <2>1, NoCookie
<1>3. TabShapes'
  BY <1>1, <1>2 DEF AuthInv, Shapes, TabShapes
<1>4. Moves
  BY <1>1, <1>2 DEF Moves, AuthInv, Shapes, TabShapes
<1>5. net' \subseteq Requests /\ (\A x \in net' : RequestTrue(x)') /\ OneEach(net')
  <2>1. Others(r) \in SUBSET net /\ Others(r) \cup {} = Others(r) /\ {} \in SUBSET Requests
        /\ OneEach({})
    BY DEF Others, OneEach
  <2>2. QED BY <1>1, <1>3, <1>4, <2>1, NetStep
<1>6. \A t \in toasts' : ToastTrue(t)'
  BY <1>2 DEF AuthInv, ToastTrue
<1>7. QED BY <1>3, <1>5, <1>6 DEF AuthInv, Shapes, LinkAsked, RevokedStaysHidden

-----------------------------------------------------------------------------
(* The continuations of a request, one lemma for each that the store or a    *)
(* page has.                                                                 *)

(* init: the answer is applied late or not; only a late one may disagree     *)
(* with the cookie.                                                          *)
LEMMA InitStep ==
  ASSUME AuthInv, NEW r \in net, InitAnswer(r)
  PROVE  AuthInv'
<1>1. /\ r.op = "me" /\ Arrive(r) /\ toasts' = toasts
  BY DEF InitAnswer
<1>2. /\ Settled /\ r.ans # "none" /\ RequestTrue(r) /\ r \in Requests /\ view \in Views
      /\ srv' = srv
  BY <1>1, ArriveFacts DEF AuthInv, Shapes, TabShapes
<1>3. cookie' = cookie
  BY <1>1, NoCookie DEF Logouts
<1>4. PICK late : late = IF r.gen # auth.gen \/ r.sid # cookie THEN {"lateInit"} ELSE {}
  OBVIOUS
<1>5. /\ auth.gen \in Nat /\ auth \in [status : Statuses, user : Users, gen : Nat]
      /\ r.who \in Users /\ srv.owner \in Seq(Accounts)
  BY <1>2 DEF AuthInv, Shapes, TabShapes, Requests
<1>6. r.ans \in {"ok", "401", "fail"}
  BY <1>1, <1>2 DEF RequestTrue, AnswerTrue
<1>7. CASE r.ans = "fail"
  <2>1. /\ auth' = [auth EXCEPT !.status = "unreachable", !.user = NoUser] /\ panel' = panel
        /\ Render(view, "unreachable", Others(r))
    BY <1>7 DEF InitAnswer
  <2>2. /\ auth'.status = "unreachable" /\ auth'.gen = auth.gen
        /\ auth' \in [status : Statuses, user : Users, gen : Nat]
    BY <1>5, <2>1 DEF Statuses, Users
  <2>3. view' \in Views /\ AsksFirst(view', "unreachable") /\ Shown(net', Others(r))
    BY <1>2, <2>1, RenderFacts DEF Settled
  <2>4. IdentityKept' /\ SigningOut'
    BY <2>2 DEF IdentityKept, SigningOut
  <2>5. QED BY <1>1, <2>1, <2>2, <2>3, <2>4, StatusAnswer
<1>8. CASE r.ans = "ok"
  <2>1. /\ auth' = [auth EXCEPT !.status = "authenticated", !.user = r.who] /\ panel' = panel
        /\ gaps' = (gaps \ {"lateInit"}) \cup late
        /\ Render(view, "authenticated", Others(r))
    BY <1>4, <1>8 DEF InitAnswer
  <2>2. /\ auth'.status = "authenticated" /\ auth'.gen = auth.gen /\ auth'.user = r.who
        /\ auth' \in [status : Statuses, user : Users, gen : Nat]
    BY <1>5, <2>1 DEF Statuses, Users
  <2>3. view' \in Views /\ AsksFirst(view', "authenticated") /\ Shown(net', Others(r))
    BY <1>2, <2>1, RenderFacts DEF Settled
  <2>4. IdentityKept'
    <3>1. SUFFICES ASSUME "lateInit" \notin gaps'
                   PROVE  r.who \in Accounts /\ cookie # 0 /\ srv.owner[cookie] = r.who
      BY <1>2, <1>3, <2>2 DEF IdentityKept
    <3>2. r.sid = cookie
      BY <1>4, <2>1, <3>1
    <3>3. r.sid \in 1..Len(srv.owner) /\ srv.owner[r.sid] = r.who
      BY <1>1, <1>2, <1>8 DEF RequestTrue, AnswerTrue, Naming
    <3>4. srv.owner[r.sid] \in Accounts
      BY <1>5, <3>3, ElementOfSeq
    <3>5. QED BY <1>5, <3>2, <3>3, <3>4
  <2>5. SigningOut'
    BY <2>2 DEF SigningOut
  <2>6. QED BY <1>1, <2>1, <2>2, <2>3, <2>4, <2>5, StatusAnswer
<1>9. CASE r.ans = "401"
  <2>1. /\ auth' = [status |-> "unauthenticated", user |-> NoUser, gen |-> auth.gen + 1]
        /\ panel' = NoPanel /\ gaps' = late
        /\ Render(view, "unauthenticated", Others(r))
    BY <1>4, <1>9 DEF InitAnswer, Boundary
  <2>2. view' \in Views /\ AsksFirst(view', "unauthenticated") /\ Shown(net', Others(r))
    BY <1>2, <2>1, RenderFacts DEF Settled
  <2>3. r.sid \notin srv.live
    BY <1>1, <1>2, <1>9 DEF RequestTrue, AnswerTrue, Public
  <2>4. cookie' \in srv.live => "lateInit" \in gaps'
    BY <1>3, <1>4, <2>1, <2>3
  <2>5. QED BY <1>1, <2>1, <2>2, <2>4, BoundaryAnswer
<1>10. QED BY <1>6, <1>7, <1>8, <1>9

(* login and verifyEmail begin a generation with the cookie of their answer. *)
LEMMA SignedInStep ==
  ASSUME AuthInv, NEW r \in net, Arrive(r), r.op \in {"login", "verify"}, r.ans = "ok",
         SignedIn(r.who), toasts' = toasts, Settled,
         \/ Navigate("app", "authenticated", Others(r))
         \/ Render(view, "authenticated", Others(r))
  PROVE  AuthInv'
<1>1. /\ auth' = [status |-> "authenticated", user |-> r.who, gen |-> auth.gen + 1]
      /\ panel' = NoPanel
  BY DEF SignedIn, Boundary
<1>2. cookie' \in 1..Len(srv.owner) /\ srv.owner[cookie'] = r.who /\ r.who \in Accounts
  BY ArriveFacts
<1>3. view \in Views /\ "app" \in Pages /\ Len(srv.owner) \in Nat
  BY DEF AuthInv, Shapes, TabShapes, Pages, Protected
<1>4. view' \in Views /\ AsksFirst(view', "authenticated") /\ Shown(net', Others(r))
  BY <1>3, NavigateFacts, RenderFacts DEF Settled
<1>5. cookie' # 0
  BY <1>2, <1>3
<1>6. QED BY <1>1, <1>2, <1>4, <1>5, BoundaryAnswer

(* login: the answer signs in, sends to the verification page or releases    *)
(* the form.                                                                 *)
LEMMA LoginStep ==
  ASSUME AuthInv, NEW r \in net, LoginAnswer(r)
  PROVE  AuthInv'
<1>1. r.op = "login" /\ Arrive(r) /\ toasts' = toasts
  BY DEF LoginAnswer
<1>2. r.op \notin Logouts /\ Settled
  BY <1>1, ArriveFacts DEF Logouts
<1>3. CASE r.ans = "ok"
  BY <1>1, <1>2, <1>3, SignedInStep DEF LoginAnswer
<1>4. CASE r.ans = "403"
  <2>1. Keep(r) /\ Navigate("resend", auth.status, Others(r))
    BY <1>4 DEF LoginAnswer
  <2>2. view' \in Views /\ AsksFirst(view', auth.status) /\ Shown(net', Others(r))
    BY <2>1, NavigateFacts DEF Pages
  <2>3. QED BY <1>1, <1>2, <1>4, <2>1, <2>2, KeptAnswer DEF Keep
<1>5. CASE r.ans \notin {"ok", "403"}
  <2>1. Keep(r) /\ Releases(r)
    BY <1>5 DEF LoginAnswer, Releases
  <2>2. view' \in Views /\ AsksFirst(view', auth.status) /\ Shown(net', Others(r))
    BY <1>1, <2>1, ReleasesFacts
  <2>3. QED BY <1>1, <1>2, <1>5, <2>1, <2>2, KeptAnswer DEF Keep
<1>6. QED BY <1>3, <1>4, <1>5

(* register signs the tab out and leaves the cookie: the gap names it.       *)
LEMMA RegisterStep ==
  ASSUME AuthInv, NEW r \in net, RegisterAnswer(r)
  PROVE  AuthInv'
<1>1. r.op = "register" /\ Arrive(r) /\ toasts' = toasts /\ panel' = panel
  BY DEF RegisterAnswer
<1>2. r.op \notin Logouts \cup {"delete", "login", "verify"}
  BY <1>1 DEF Logouts
<1>3. CASE r.ans = "ok"
  <2>1. /\ auth' = [auth EXCEPT !.status = "unauthenticated", !.user = NoUser]
        /\ gaps' = gaps \cup {"registered"} /\ Navigate("resend", "unauthenticated", Others(r))
    BY <1>3 DEF RegisterAnswer
  <2>2. /\ auth'.status = "unauthenticated" /\ auth'.gen = auth.gen
        /\ auth' \in [status : Statuses, user : Users, gen : Nat]
    BY <2>1 DEF Statuses, Users, AuthInv, Shapes, TabShapes
  <2>3. view' \in Views /\ AsksFirst(view', "unauthenticated") /\ Shown(net', Others(r))
    BY <2>1, NavigateFacts DEF Pages
  <2>4. IdentityKept' /\ SigningOut'
    BY <2>1, <2>2 DEF IdentityKept, SigningOut
  <2>5. QED BY <1>1, <2>2, <2>3, <2>4, StatusAnswer
<1>4. CASE r.ans # "ok"
  <2>1. auth' = auth /\ gaps' = gaps /\ Releases(r)
    BY <1>4 DEF RegisterAnswer, Releases
  <2>2. view' \in Views /\ AsksFirst(view', auth.status) /\ Shown(net', Others(r))
    BY <1>1, <2>1, ReleasesFacts
  <2>3. Cleared(r) = {}
    BY <1>1, <1>2, NoCookie
  <2>4. QED BY <1>1, <1>2, <2>1, <2>2, <2>3, KeptAnswer
<1>5. QED BY <1>3, <1>4

(* verifyEmail: the store follows the link; a refused one changes the page.  *)
LEMMA VerifyAnswerStep ==
  ASSUME AuthInv, NEW r \in net, VerifyAnswer(r)
  PROVE  AuthInv'
<1>1. r.op = "verify" /\ Arrive(r) /\ toasts' = toasts
  BY DEF VerifyAnswer
<1>2. r.op \notin Logouts /\ Settled
  BY <1>1, ArriveFacts DEF Logouts
<1>3. CASE r.ans = "ok"
  BY <1>1, <1>2, <1>3, SignedInStep DEF VerifyAnswer
<1>4. CASE r.ans # "ok"
  <2>1. /\ Keep(r) /\ net' = Others(r)
        /\ view' = [DoneIf(r) EXCEPT !.step = IF ~r.mounted THEN @
                                             ELSE IF r.ans = "409" THEN "verified" ELSE "idle"]
    BY <1>4 DEF VerifyAnswer
  <2>2. PICK x \in Steps \ {"go"}, b \in BOOLEAN :
            x = (IF r.ans = "409" THEN "verified" ELSE "idle") /\ b = r.mounted
    BY DEF Steps, AuthInv, Shapes, Requests
  <2>3. view' = [DoneIf(r) EXCEPT !.step = IF b THEN x ELSE @]
    <3>1. CASE r.mounted
      BY <2>1, <2>2, <3>1
    <3>2. CASE ~r.mounted
      BY <2>1, <2>2, <3>2
    <3>3. QED BY <3>1, <3>2
  <2>4. Releases(r)
    BY <1>1, <2>1, <2>3, StepForms
  <2>5. view' \in Views /\ AsksFirst(view', auth.status) /\ Shown(net', Others(r))
    BY <1>1, <2>4, ReleasesFacts
  <2>6. QED BY <1>1, <1>2, <1>4, <2>1, <2>5, KeptAnswer DEF Keep
<1>5. QED BY <1>3, <1>4

(* The page of a reset link.                                                 *)
LEMMA ResetStep ==
  ASSUME AuthInv, NEW r \in net, ResetAnswer(r)
  PROVE  AuthInv'
<1>1. /\ r.op = "reset" /\ Arrive(r) /\ Keep(r) /\ toasts' = toasts /\ net' = Others(r)
      /\ view' = [DoneIf(r) EXCEPT !.step = IF r.mounted /\ r.ans = "ok" THEN "sent" ELSE @]
  BY DEF ResetAnswer
<1>2. r.op \notin Logouts \cup {"login", "verify"}
  BY <1>1 DEF Logouts
<1>3. Releases(r)
  BY <1>1, SentForms
<1>4. view' \in Views /\ AsksFirst(view', auth.status) /\ Shown(net', Others(r))
  BY <1>1, <1>3, ReleasesFacts
<1>5. QED BY <1>1, <1>2, <1>4, KeptAnswer DEF Keep

(* confirmEmailChange reads the profile again, in the generation it was      *)
(* asked in and with the cookie of that moment.                              *)
LEMMA ConfirmStep ==
  ASSUME AuthInv, NEW r \in net, ConfirmAnswer(r)
  PROVE  AuthInv'
<1>1. r.op = "confirm" /\ Arrive(r) /\ Keep(r) /\ toasts' = toasts
  BY DEF ConfirmAnswer
<1>2. r.op \notin Logouts \cup {"delete", "login", "verify"}
  BY <1>1 DEF Logouts
<1>3. CASE r.ans = "ok" /\ auth.status = "authenticated"
  <2>1. /\ net' = Others(r) \cup {[Request(r.id, "again", r.arg, r.mounted) EXCEPT !.gen = r.gen]}
        /\ view' = view
    BY <1>3 DEF ConfirmAnswer
  <2>2. PICK q : q = RequestOf(r.gen, r.id, "again", r.arg, r.mounted)
    OBVIOUS
  <2>3. net' = Others(r) \cup {q}
    BY <2>1, <2>2, RequestForms
  <2>4. "again" \in Ops /\ "again" \notin Logouts \cup {"verify", "login"}
    BY DEF Ops, Plain, Logouts
  <2>5. r.gen \in Nat /\ r.gen <= auth.gen
    BY DEF AuthInv, Shapes, Requests, RequestTrue, InItsTime
  <2>6. QED BY <1>1, <1>2, <2>1, <2>2, <2>3, <2>4, <2>5, FollowedAnswer
<1>4. CASE ~(r.ans = "ok" /\ auth.status = "authenticated")
  <2>1. /\ net' = Others(r)
        /\ view' = [DoneIf(r) EXCEPT !.step = IF r.mounted /\ r.ans = "ok" THEN "sent" ELSE @]
    BY <1>4 DEF ConfirmAnswer
  <2>2. Releases(r)
    BY <1>1, <2>1, SentForms
  <2>3. view' \in Views /\ AsksFirst(view', auth.status) /\ Shown(net', Others(r))
    BY <1>1, <2>2, ReleasesFacts
  <2>4. QED BY <1>1, <1>2, <2>3, KeptAnswer DEF Keep
<1>5. QED BY <1>3, <1>4

(* updateProfile, updatePreferences and the reading again: the user the      *)
(* answer names replaces the user shown in its own generation only, and      *)
(* there it is the cookie's.                                                 *)
LEMMA NamedAnswer ==
  ASSUME AuthInv, NEW r \in net, Arrive(r), r.op \in Naming \ {"me"},
         panel' = panel, toasts' = toasts, gaps' = gaps,
         auth' = IF r.ans = "ok" /\ r.gen = auth.gen THEN [auth EXCEPT !.user = r.who] ELSE auth,
         view' \in Views, AsksFirst(view', auth.status), net' = Others(r)
  PROVE  AuthInv'
<1>1. r.op \notin Logouts \cup {"delete", "login", "verify"} /\ r \in Requests /\ RequestTrue(r)
  BY DEF Naming, Logouts, AuthInv, Shapes
<1>2. Cleared(r) = {}
  BY <1>1, NoCookie
<1>3. Shown(net', Others(r))
  BY DEF Shown
<1>4. CASE ~(r.ans = "ok" /\ r.gen = auth.gen)
  <2>1. auth' = auth
    BY <1>4
  <2>2. QED BY <1>1, <1>2, <1>3, <2>1, KeptAnswer
<1>5. CASE r.ans = "ok" /\ r.gen = auth.gen
  <2>1. auth' = [auth EXCEPT !.user = r.who]
    BY <1>5
  <2>2. /\ r.sid \in 1..Len(srv.owner) /\ srv.owner[r.sid] = r.who /\ srv.owner \in Seq(Accounts)
        /\ cookie \in {r.sid, 0}
    BY <1>1, <1>5 DEF RequestTrue, AnswerTrue, InItsTime, AuthInv, Shapes, TabShapes
  <2>3. r.who \in Accounts
    BY <2>2, ElementOfSeq
  <2>4. /\ auth'.status = auth.status /\ auth'.gen = auth.gen /\ auth'.user = r.who
        /\ auth' \in [status : Statuses, user : Users, gen : Nat]
    BY <2>1, <2>3 DEF AuthInv, Shapes, TabShapes, Users
  <2>5. panel' \in Panels /\ toasts' \subseteq Offers /\ panel'.list \cap panel'.revoked = {}
    BY DEF AuthInv, Shapes, TabShapes, RevokedStaysHidden
  <2>6. Shown(net', Others(r) \cup {}) /\ OneEach({}) /\ {} \in SUBSET Requests
    <3>1. Others(r) \cup {} = Others(r)
      OBVIOUS
    <3>2. QED BY <1>3, <3>1 DEF OneEach
  <2>7. cookie # 0 => srv.owner[cookie] = auth'.user
    BY <2>2, <2>4
  <2>8. gaps \subseteq gaps' /\ Cleared(r) \subseteq gaps'
    BY <1>2
  <2>9. QED BY <1>1, <2>3, <2>4, <2>5, <2>6, <2>7, <2>8, QuietAnswer
<1>6. QED BY <1>4, <1>5

(* updateProfile and updatePreferences.                                      *)
LEMMA ProfileStep ==
  ASSUME AuthInv, NEW r \in net, ProfileAnswer(r)
  PROVE  AuthInv'
<1>1. /\ r.op \in {"profile", "prefs"} /\ Arrive(r) /\ panel' = panel /\ toasts' = toasts
      /\ gaps' = gaps /\ net' = Others(r) /\ view' = DoneIf(r)
      /\ auth' = IF r.ans = "ok" /\ r.gen = auth.gen THEN [auth EXCEPT !.user = r.who] ELSE auth
  BY DEF ProfileAnswer, Answered
<1>2. Releases(r) /\ r.op \in Naming \ {"me"}
  BY <1>1 DEF Releases, Naming
<1>3. view' \in Views /\ AsksFirst(view', auth.status)
  BY <1>1, <1>2, ReleasesFacts
<1>4. QED BY <1>1, <1>2, <1>3, NamedAnswer

(* The user read again after confirmEmailChange.                             *)
LEMMA AgainStep ==
  ASSUME AuthInv, NEW r \in net, AgainAnswer(r)
  PROVE  AuthInv'
<1>1. /\ r.op = "again" /\ Arrive(r) /\ panel' = panel /\ toasts' = toasts
      /\ gaps' = gaps /\ net' = Others(r)
      /\ view' = IF r.mounted THEN [Done("confirm", view) EXCEPT !.step = "sent"] ELSE view
      /\ auth' = IF r.ans = "ok" /\ r.gen = auth.gen THEN [auth EXCEPT !.user = r.who] ELSE auth
  BY DEF AgainAnswer
<1>2. view \in Views /\ AsksFirst(view, auth.status)
  BY DEF AuthInv, Shapes, TabShapes, LinkAsked
<1>3. Done("confirm", view) \in Views
  BY <1>2 DEF Done, Views
<1>4. view' \in Views /\ AsksFirst(view', auth.status)
  BY <1>1, <1>2, <1>3 DEF Views, Steps, AsksFirst
<1>5. r.op \in Naming \ {"me"}
  BY <1>1 DEF Naming
<1>6. QED BY <1>1, <1>4, <1>5, NamedAnswer

(* handleSessionExpired: a 401 of the generation in force speaks of the      *)
(* cookie the tab holds.                                                     *)
LEMMA ExpiredStep ==
  ASSUME AuthInv, NEW r \in net, ExpiredAnswer(r)
  PROVE  AuthInv'
<1>1. /\ r.op \in Fetched \cup Logouts /\ r.ans = "401" /\ r.gen = auth.gen /\ Arrive(r) /\ toasts' = toasts
      /\ auth' = [status |-> "unauthenticated", user |-> NoUser, gen |-> auth.gen + 1]
      /\ panel' = NoPanel
  BY DEF ExpiredAnswer, Expired, Boundary
<1>2. RequestTrue(r) /\ Shapes /\ Settled
  BY <1>1, ArriveFacts DEF AuthInv
<1>3. cookie' = cookie
  BY <1>1, NoCookie
<1>4. r.sid \notin srv.live /\ cookie \in {r.sid, 0} /\ 0 \notin srv.live
  <2>1. r.op \notin Public
    BY <1>1 DEF Fetched, Gets, Logouts, Public
  <2>2. QED BY <1>1, <1>2, <2>1, NoneIsLive DEF RequestTrue, AnswerTrue, InItsTime, Shapes
<1>5. view' \in Views /\ AsksFirst(view', "unauthenticated") /\ Shown(net', Others(r))
  <2>1. CASE r.op = "summaries"
    <3>1. Navigate("app", "unauthenticated", Others(r)) /\ "app" \in Pages
      BY <2>1 DEF ExpiredAnswer, Pages, Protected
    <3>2. QED BY <3>1, NavigateFacts
  <2>2. CASE r.op = "logout"
    <3>1. Navigate("login", "unauthenticated", Others(r)) /\ "login" \in Pages
      BY <2>2 DEF ExpiredAnswer, Pages
    <3>2. QED BY <3>1, NavigateFacts
  <2>3. CASE r.op \notin {"summaries", "logout"}
    <3>1. PICK v : v = [DoneIf(r) EXCEPT !.step = IF r.op = "accept" /\ r.mounted THEN "error" ELSE @]
      OBVIOUS
    <3>2. Render(v, "unauthenticated", Others(r))
      BY <2>3, <3>1 DEF ExpiredAnswer
    <3>3. DoneIf(r) \in Views /\ ~(DoneIf(r).page = "verify" /\ DoneIf(r).step = "go")
      BY <1>2, DoneFacts
    <3>4. v \in Views /\ ~(v.page = "verify" /\ v.step = "go")
      BY <3>1, <3>3 DEF Views, Steps
    <3>5. QED BY <3>2, <3>4, RenderFacts
  <2>4. QED BY <2>1, <2>2, <2>3
<1>6. cookie' \notin srv.live
  BY <1>3, <1>4
<1>7. QED BY <1>1, <1>5, <1>6, BoundaryAnswer

(* apiFetch waits before its second try.                                     *)
LEMMA WaitStep ==
  ASSUME AuthInv, NEW r \in net, WaitToRetry(r)
  PROVE  AuthInv'
<1>1. PICK q : q = [r EXCEPT !.st = "wait", !.try = 1, !.ans = "none"]
  OBVIOUS
<1>2. /\ r.op \in Gets /\ Arrive(r) /\ auth' = auth /\ panel' = panel /\ toasts' = toasts
      /\ view' = view /\ gaps' = gaps \cup Cleared(r) /\ net' = Others(r) \cup {q}
  BY <1>1 DEF WaitToRetry, Keep
<1>3. r.op \notin Logouts \cup {"delete", "login", "verify", "me"} /\ r.op \notin Naming
  BY <1>2 DEF Gets, Logouts, Naming
<1>4. r \in Requests /\ RequestTrue(r) /\ srv' = srv /\ sent' = sent /\ cookie' = cookie /\ r.ck = {}
  BY <1>2, <1>3, ArriveFacts, NoCookie
<1>5. /\ q \in Requests
      /\ q.id = r.id /\ q.op = r.op /\ q.gen = r.gen /\ q.sid = r.sid /\ q.ck = {}
      /\ q.st = "wait" /\ q.ans = "none"
  BY <1>1, <1>4 DEF Requests
<1>6. RequestTrue(q)'
  <2>1. CookieSet(q)' /\ AnswerTrue(q)'
    BY <1>2, <1>3, <1>5 DEF CookieSet, AnswerTrue
  <2>2. InItsTime(q)'
    BY <1>2, <1>4, <1>5 DEF RequestTrue, InItsTime
  <2>3. QED BY <1>3, <1>5, <2>1, <2>2 DEF RequestTrue
<1>7. /\ view' \in Views /\ AsksFirst(view', auth.status)
      /\ auth' \in [status : Statuses, user : Users, gen : Nat] /\ panel' \in Panels
      /\ toasts' \subseteq Offers /\ panel'.list \cap panel'.revoked = {}
  BY <1>2 DEF AuthInv, Shapes, TabShapes, RevokedStaysHidden, LinkAsked
<1>8. {q} \in SUBSET Requests /\ OneEach({q}) /\ Shown(net', Others(r) \cup {q})
  BY <1>2, <1>5 DEF OneEach, Shown
<1>9. QED BY <1>2, <1>3, <1>5, <1>6, <1>7, <1>8, QuietAnswer

(* The answer changes the panel of sessions at most.  A page read before a   *)
(* session was revoked comes without it (sessionsData's revoked set).        *)
LEMMA PanelAnswer ==
  ASSUME AuthInv, NEW r \in net, Arrive(r), r.op \notin Logouts \cup {"delete", "login", "verify"},
         auth' = auth, toasts' = toasts, gaps \subseteq gaps', panel' \in Panels,
         panel'.list \cap panel'.revoked = {},
         view' \in Views, AsksFirst(view', auth.status), net' = Others(r)
  PROVE  AuthInv'
<1>1. Cleared(r) \subseteq gaps'
  BY NoCookie
<1>2. auth' \in [status : Statuses, user : Users, gen : Nat] /\ toasts' \subseteq Offers
  BY DEF AuthInv, Shapes, TabShapes
<1>3. Shown(net', Others(r) \cup {}) /\ OneEach({}) /\ {} \in SUBSET Requests
  <2>1. Others(r) \cup {} = Others(r)
    OBVIOUS
  <2>2. QED BY <2>1 DEF OneEach, Shown
<1>4. QED BY <1>1, <1>2, <1>3, QuietAnswer

(* The answers of reads; only the list of sessions is kept.                  *)
LEMMA GetStep ==
  ASSUME AuthInv, NEW r \in net, GetAnswer(r)
  PROVE  AuthInv'
<1>1. r.op \in Gets /\ Arrive(r) /\ toasts' = toasts
  BY DEF GetAnswer, Answered
<1>2. r.op \notin Logouts \cup {"delete", "login", "verify"} /\ panel \in Panels /\ r.rows \subseteq Nat
      /\ panel.list \cap panel.revoked = {}
  BY <1>1 DEF Gets, Logouts, AuthInv, Shapes, TabShapes, Requests, RevokedStaysHidden
<1>3. CASE r.op = "sessions"
  <2>1. /\ panel' = IF r.ans = "ok" /\ r.gen = auth.gen
                    THEN [panel EXCEPT !.list = r.rows \ panel.revoked, !.loaded = TRUE]
                    ELSE panel
        /\ gaps' = gaps /\ auth' = auth /\ net' = Others(r) /\ Releases(r)
    BY <1>3 DEF GetAnswer, Releases
  <2>2. panel' \in Panels /\ panel'.list \cap panel'.revoked = {}
    <3>1. CASE panel' = panel
      BY <1>2, <3>1
    <3>2. CASE panel' = [panel EXCEPT !.list = r.rows \ panel.revoked, !.loaded = TRUE]
      <4>1. panel' \in Panels /\ panel'.list = r.rows \ panel.revoked
            /\ panel'.revoked = panel.revoked
        BY <1>2, <3>2 DEF Panels
      <4>2. QED BY <4>1
    <3>3. QED BY <2>1, <3>1, <3>2
  <2>3. view' \in Views /\ AsksFirst(view', auth.status)
    BY <1>1, <2>1, ReleasesFacts
  <2>4. QED BY <1>1, <1>2, <2>1, <2>2, <2>3, PanelAnswer
<1>4. CASE r.op = "summaries"
  <2>1. Keep(r) /\ Navigate("app", auth.status, Others(r)) /\ "app" \in Pages
    BY <1>4 DEF GetAnswer, Pages, Protected
  <2>2. view' \in Views /\ AsksFirst(view', auth.status) /\ Shown(net', Others(r))
    BY <2>1, NavigateFacts
  <2>3. QED BY <1>1, <1>2, <2>1, <2>2, KeptAnswer DEF Keep
<1>5. CASE r.op = "read"
  <2>1. Keep(r) /\ Releases(r)
    BY <1>5 DEF GetAnswer, Releases
  <2>2. view' \in Views /\ AsksFirst(view', auth.status) /\ Shown(net', Others(r))
    BY <1>1, <2>1, ReleasesFacts
  <2>3. QED BY <1>1, <1>2, <2>1, <2>2, KeptAnswer DEF Keep
<1>6. QED BY <1>1, <1>3, <1>4, <1>5 DEF Gets

(* The forms for a password and an address.                                  *)
LEMMA FormStep ==
  ASSUME AuthInv, NEW r \in net, FormAnswer(r)
  PROVE  AuthInv'
<1>1. /\ r.op \in {"password", "email"} /\ Arrive(r) /\ Keep(r) /\ toasts' = toasts /\ Releases(r)
  BY DEF FormAnswer, Answered, Releases
<1>2. r.op \notin Logouts \cup {"login", "verify"}
  BY <1>1 DEF Logouts
<1>3. view' \in Views /\ AsksFirst(view', auth.status) /\ Shown(net', Others(r))
  BY <1>1, ReleasesFacts
<1>4. QED BY <1>1, <1>2, <1>3, KeptAnswer DEF Keep

(* deleteAccount: its answer removes the cookie, in whatever generation.     *)
LEMMA DeleteStep ==
  ASSUME AuthInv, NEW r \in net, DeleteAnswer(r)
  PROVE  AuthInv'
<1>1. r.op = "delete" /\ Arrive(r) /\ toasts' = toasts
  BY DEF DeleteAnswer, Answered
<1>2. r.op \notin Logouts \cup {"login", "verify"} /\ RequestTrue(r) /\ Settled
  BY <1>1, ArriveFacts DEF Logouts
<1>3. CASE r.ans = "ok" /\ r.gen = auth.gen
  <2>1. /\ auth' = [status |-> "unauthenticated", user |-> NoUser, gen |-> auth.gen + 1]
        /\ panel' = NoPanel /\ Render(view, "unauthenticated", Others(r))
    BY <1>3 DEF DeleteAnswer, Boundary
  <2>2. view \in Views /\ TabShapes
    BY DEF AuthInv, Shapes, TabShapes
  <2>3. view' \in Views /\ AsksFirst(view', "unauthenticated") /\ Shown(net', Others(r))
    BY <1>2, <2>1, <2>2, RenderFacts DEF Settled
  <2>4. r.ck = {0}
    BY <1>1, <1>2, <1>3 DEF RequestTrue, AnswerTrue, CookieSet
  <2>5. cookie' \notin srv.live
    BY <1>1, <2>2, <2>4, ArriveFacts, NoneIsLive
  <2>6. QED BY <1>1, <2>1, <2>3, <2>5, BoundaryAnswer
<1>4. CASE r.ans = "ok" /\ r.gen # auth.gen
  <2>1. /\ gaps' = gaps \cup Cleared(r) \cup {"heldOver"} /\ net' = Others(r) /\ auth' = auth
        /\ panel' = panel /\ view' = view
    BY <1>4 DEF DeleteAnswer
  <2>2. view' \in Views /\ AsksFirst(view', auth.status) /\ Shown(net', Others(r))
    BY <2>1 DEF AuthInv, Shapes, TabShapes, LinkAsked, Shown
  <2>3. QED BY <1>1, <1>2, <2>1, <2>2, KeptAnswer
<1>5. CASE r.ans # "ok"
  <2>1. Keep(r) /\ Releases(r)
    BY <1>5 DEF DeleteAnswer, Releases
  <2>2. view' \in Views /\ AsksFirst(view', auth.status) /\ Shown(net', Others(r))
    BY <1>1, <2>1, ReleasesFacts
  <2>3. QED BY <1>1, <1>2, <2>1, <2>2, KeptAnswer DEF Keep
<1>6. QED BY <1>3, <1>4, <1>5

(* revokeOtherSession: the row goes from the list and stays out of it.       *)
LEMMA RevokeStep ==
  ASSUME AuthInv, NEW r \in net, RevokeAnswer(r)
  PROVE  AuthInv'
<1>1. r.op = "revoke" /\ Arrive(r) /\ toasts' = toasts /\ auth' = auth /\ net' = Others(r)
  BY DEF RevokeAnswer, Answered
<1>2. /\ r.op \notin Logouts \cup {"delete", "login", "verify"} /\ panel \in Panels /\ r.arg \in Args
      /\ panel.list \cap panel.revoked = {}
  BY <1>1 DEF Logouts, AuthInv, Shapes, TabShapes, Requests, RevokedStaysHidden
<1>3. CASE r.gen = auth.gen
  <2>1. /\ panel' = IF r.ans = "ok" THEN [panel EXCEPT !.list = panel.list \ {r.arg},
                                                      !.revoked = panel.revoked \cup {r.arg}]
                                    ELSE panel
        /\ gaps' = gaps /\ Releases(r)
    BY <1>1, <1>3 DEF RevokeAnswer, Releases
  <2>2. panel' \in Panels /\ panel'.list \cap panel'.revoked = {}
    <3>1. CASE r.ans # "ok"
      BY <1>2, <2>1, <3>1
    <3>2. CASE r.ans = "ok"
      <4>1. panel' \in Panels /\ panel'.list = panel.list \ {r.arg}
            /\ panel'.revoked = panel.revoked \cup {r.arg}
        BY <1>2, <2>1, <3>2 DEF Panels
      <4>2. QED BY <1>2, <4>1
    <3>3. QED BY <3>1, <3>2
  <2>3. view' \in Views /\ AsksFirst(view', auth.status)
    BY <1>1, <2>1, ReleasesFacts
  <2>4. QED BY <1>1, <1>2, <2>1, <2>2, <2>3, PanelAnswer
<1>4. CASE r.gen # auth.gen
  <2>1. gaps' = gaps \cup {"heldOver"} /\ panel' = panel /\ view' = view
    BY <1>4 DEF RevokeAnswer
  <2>2. view' \in Views /\ AsksFirst(view', auth.status)
    BY <2>1 DEF AuthInv, Shapes, TabShapes, LinkAsked
  <2>3. QED BY <1>1, <1>2, <2>1, <2>2, PanelAnswer
<1>5. QED BY <1>3, <1>4

(* endServerSession: a sign-out that did not reach the server is offered     *)
(* again, for the session and the generation it was meant for.               *)
LEMMA LogoutAnswerStep ==
  ASSUME AuthInv, NEW r \in net, LogoutAnswer(r)
  PROVE  AuthInv'
<1>1. /\ r.op \in Logouts /\ Arrive(r) /\ auth' = auth /\ panel' = panel
      /\ toasts' = IF r.ans = "fail" THEN toasts \cup {[gen |-> r.gen, sid |-> r.arg]} ELSE toasts
      /\ gaps' = gaps \cup Cleared(r)
                 \cup (IF r.ans = "fail" /\ r.gen = auth.gen THEN {"unreached"} ELSE {})
      /\ IF r.op = "logout" THEN Navigate("login", auth.status, Others(r))
                            ELSE net' = Others(r) /\ view' = view
  BY DEF LogoutAnswer, Answered
<1>2. r.gen \in Nat /\ r.arg \in Args /\ toasts \subseteq Offers
  BY DEF AuthInv, Shapes, TabShapes, Requests
<1>3. toasts' \subseteq Offers
      /\ \A t \in toasts' : t \in toasts \/ (t.gen = r.gen /\ t.sid = r.arg)
  BY <1>1, <1>2 DEF Offers
<1>4. view' \in Views /\ AsksFirst(view', auth.status) /\ Shown(net', Others(r))
  <2>1. CASE r.op = "logout"
    BY <1>1, <2>1, NavigateFacts DEF Pages
  <2>2. CASE r.op # "logout"
    BY <1>1, <2>2 DEF AuthInv, Shapes, TabShapes, LinkAsked, Shown
  <2>3. QED BY <2>1, <2>2
<1>5. /\ auth' \in [status : Statuses, user : Users, gen : Nat] /\ panel' \in Panels
      /\ panel'.list \cap panel'.revoked = {}
  BY <1>1 DEF AuthInv, Shapes, TabShapes, RevokedStaysHidden
<1>6. Shown(net', Others(r) \cup {}) /\ OneEach({}) /\ {} \in SUBSET Requests
  <2>1. Others(r) \cup {} = Others(r)
    OBVIOUS
  <2>2. QED BY <1>4, <2>1 DEF OneEach
<1>7. /\ gaps \subseteq gaps' /\ Cleared(r) \subseteq gaps' /\ r.op \notin {"login", "verify"}
      /\ (r.ans = "fail" /\ r.gen = auth.gen => "unreached" \in gaps')
  BY <1>1 DEF Logouts
<1>8. QED BY <1>1, <1>3, <1>4, <1>5, <1>6, <1>7, QuietAnswer

(* An accepted invite is followed by the list of dashboards.                 *)
LEMMA AcceptStep ==
  ASSUME AuthInv, NEW r \in net, AcceptAnswer(r)
  PROVE  AuthInv'
<1>1. r.op = "accept" /\ Arrive(r) /\ Keep(r) /\ toasts' = toasts
  BY DEF AcceptAnswer, Answered
<1>2. r.op \notin Logouts \cup {"delete", "login", "verify"}
  BY <1>1 DEF Logouts
<1>3. CASE r.ans = "ok"
  <2>1. net' = Others(r) \cup {Request(r.id, "summaries", r.arg, r.mounted)} /\ view' = view
    BY <1>3 DEF AcceptAnswer
  <2>2. PICK q : q = RequestOf(auth.gen, r.id, "summaries", r.arg, r.mounted)
    OBVIOUS
  <2>3. net' = Others(r) \cup {q}
    BY <2>1, <2>2, RequestForms
  <2>4. "summaries" \in Ops /\ "summaries" \notin Logouts \cup {"verify", "login"}
    BY DEF Ops, Fetched, Gets, Logouts
  <2>5. auth.gen \in Nat /\ auth.gen <= auth.gen
    BY DEF AuthInv, Shapes, TabShapes
  <2>6. QED BY <1>1, <1>2, <2>1, <2>2, <2>3, <2>4, <2>5, FollowedAnswer
<1>4. CASE r.ans # "ok"
  <2>1. net' = Others(r) /\ view' = [DoneIf(r) EXCEPT !.step = IF r.mounted THEN "error" ELSE @]
    BY <1>4 DEF AcceptAnswer
  <2>2. r.mounted \in BOOLEAN /\ "error" \in Steps \ {"go"}
    BY DEF AuthInv, Shapes, Requests, Steps
  <2>3. Releases(r)
    BY <1>1, <2>1, <2>2, StepForms
  <2>4. view' \in Views /\ AsksFirst(view', auth.status) /\ Shown(net', Others(r))
    BY <1>1, <2>3, ReleasesFacts
  <2>5. QED BY <1>1, <1>2, <2>4, KeptAnswer DEF Keep
<1>5. QED BY <1>3, <1>4

-----------------------------------------------------------------------------
(* The tab boots: init is under way with the cookie of that moment.          *)
LEMMA AuthInvInit ==
  ASSUME Init
  PROVE  AuthInv
<1>1. /\ srv = [owner |-> Owners, live |-> DOMAIN Owners, fresh |-> Fresh0, deleted |-> {}]
      /\ cookie \in {0} \cup DOMAIN Owners
      /\ auth = [status |-> "loading", user |-> NoUser, gen |-> 0]
      /\ net = {Request(0, "me", NoUser, FALSE)}
      /\ panel = NoPanel /\ toasts = {} /\ gaps = {} /\ sent = 0
  BY DEF Init
<1>2. DOMAIN Owners = 1..Len(Owners) /\ Len(Owners) \in Nat /\ Owners \in Seq(Accounts)
  BY AuthAssumption
<1>3. /\ srv.owner = Owners /\ srv.live = 1..Len(Owners)
      /\ srv \in [owner : Seq(Accounts), live : SUBSET Nat, fresh : SUBSET Accounts,
                  deleted : SUBSET Accounts]
  BY <1>1, <1>2, AuthAssumption
<1>4. /\ auth \in [status : Statuses, user : Users, gen : Nat] /\ auth.gen = 0
      /\ auth.status = "loading" /\ panel \in Panels /\ panel.list \cap panel.revoked = {}
  BY <1>1 DEF Statuses, Users, NoPanel, Panels
<1>5. view \in Views /\ view.asked = FALSE
  <2>1. PICK p \in Visited : view = Mount(p, "loading")
    BY DEF Init
  <2>2. p \in Pages
    BY <2>1, VisitedPages
  <2>3. QED BY <2>1, <2>2 DEF Mount, settleSwitch, Views, Steps
<1>6. TabShapes
  BY <1>1, <1>2, <1>3, <1>4, <1>5 DEF TabShapes, Offers
<1>7. PICK q : q = RequestOf(auth.gen, 0, "me", NoUser, FALSE)
  OBVIOUS
<1>8. net = {q}
  BY <1>1, <1>7, Zenon DEF Request, RequestOf
<1>9. /\ q.id = 0 /\ q.op = "me" /\ q.arg = NoUser /\ q.gen = 0 /\ q.sid = cookie
      /\ q.st = "sent" /\ q.ans = "none" /\ q.ck = {}
  BY <1>4, <1>7 DEF RequestOf
<1>10. q \in Requests
  <2>1. cookie \in Nat /\ "me" \in Ops /\ NoUser \in Users /\ NoUser \in Args
    BY <1>6 DEF TabShapes, Ops, Plain, Users, Args
  <2>2. PICK m \in BOOLEAN, k \in BOOLEAN :
            m = FALSE /\ k = ("me" = "verify" /\ auth.status = "authenticated")
    OBVIOUS
  <2>3. q = [id |-> 0, op |-> "me", arg |-> NoUser, gen |-> 0, sid |-> cookie, mounted |-> m,
             try |-> 0, st |-> "sent", ans |-> "none", ck |-> {}, who |-> NoUser, rows |-> {},
             asked |-> view.asked, known |-> k]
    BY <1>4, <1>7, <2>2, Zenon DEF RequestOf
  <2>4. QED BY <1>5, <2>1, <2>3 DEF Requests
<1>11. RequestTrue(q)
  <2>1. cookie \in Nat /\ cookie <= Len(srv.owner)
    BY <1>1, <1>2, <1>3
  <2>2. QED BY <1>1, <1>4, <1>9, <2>1
        DEF RequestTrue, CookieSet, AnswerTrue, InItsTime, Logouts, Naming
<1>12. OneEach(net) /\ net \subseteq Requests /\ \A r \in net : RequestTrue(r)
  BY <1>8, <1>10, <1>11 DEF OneEach
<1>13. LinkAsked /\ IdentityKept /\ SigningOut
  BY <1>4 DEF LinkAsked, AsksFirst, IdentityKept, SigningOut
<1>14. QED BY <1>1, <1>4, <1>6, <1>12, <1>13 DEF AuthInv, Shapes, RevokedStaysHidden

(* What the user does keeps the invariant, whichever page he is on.           *)
LEMMA UserKeeps ==
  ASSUME AuthInv, UserStep
  PROVE  AuthInv'
<1>1. NoUser \in Args /\ Accounts \subseteq Args /\ panel.list \subseteq Args
  BY DEF Args, Users, AuthInv, Shapes, TabShapes, Panels
<1>2. /\ {"register", "confirm", "accept", "prefs", "sessions", "profile", "password", "email",
          "delete", "read", "login", "reset", "revoke"} \subseteq Ops \ (Logouts \cup {"verify"})
  BY DEF Ops, Plain, Fetched, Gets, Logouts
<1>3. ASSUME NEW op \in {"register", "confirm", "accept", "prefs", "sessions", "profile", "password",
                        "email", "delete", "read"}, Submit(op, NoUser)
      PROVE  AuthInv'
  BY <1>1, <1>2, <1>3, SubmitStep
<1>4. CASE \/ RegisterSubmit \/ ConfirmSubmit \/ AcceptSubmit \/ UpdatePreferences \/ LoadSessions
           \/ ProfileSubmit \/ PasswordSubmit \/ EmailSubmit \/ DeleteSubmit \/ Read
  BY <1>3, <1>4
  DEF RegisterSubmit, ConfirmSubmit, AcceptSubmit, UpdatePreferences, LoadSessions, ProfileSubmit,
      PasswordSubmit, EmailSubmit, DeleteSubmit, Read, ProfileControl
<1>5. ASSUME NEW u \in Accounts, LoginSubmit(u) \/ ResetSubmit(u) PROVE AuthInv'
  BY <1>1, <1>2, <1>5, SubmitStep DEF LoginSubmit, ResetSubmit
<1>6. ASSUME NEW x \in panel.list, RevokeSession(x) PROVE AuthInv'
  BY <1>1, <1>2, <1>6, SubmitStep DEF RevokeSession
<1>7. ASSUME NEW t \in toasts, ToastGone(t) PROVE AuthInv'
  BY <1>7, DroppedOffer DEF ToastGone
<1>8. CASE \/ SwitchAccounts \/ ForgotSubmit \/ ResendSubmit \/ CooledDown \/ ResetRedirect
           \/ \E p \in Visited : Open(p)
           \/ \E b \in BOOLEAN : ResetChecked(b) \/ Previewed(b) \/ Told(b)
  BY <1>8, PagesStep
<1>9. QED BY <1>4, <1>5, <1>6, <1>7, <1>8, TryAgainStep, LogoutStep, RetryStep DEF UserStep

(* Every step keeps the invariant: the user's, the verification's, a         *)
(* request's progress or failure, and a session ended elsewhere.             *)
LEMMA AuthInvStep ==
  ASSUME AuthInv, [Next]_vars
  PROVE  AuthInv'
<1>1. CASE UserStep
  BY <1>1, UserKeeps
<1>2. ASSUME NEW u \in Fresh0, VerifyEffect(u) PROVE AuthInv'
  BY <1>2, VerifyStep, AuthAssumption
<1>3. ASSUME NEW r \in net, Progress(r) PROVE AuthInv'
  BY <1>3, ServeAnyStep, InitStep, LoginStep, RegisterStep, VerifyAnswerStep, ResetStep, ConfirmStep,
     AgainStep, ExpiredStep, WaitStep, ResendStep, GetStep, ProfileStep, FormStep, DeleteStep,
     RevokeStep, LogoutAnswerStep, AcceptStep
  DEF Progress
<1>4. ASSUME NEW r \in net, Fail(r) PROVE AuthInv'
  BY <1>4, FailStep
<1>5. ASSUME NEW x \in srv.live, EndedElsewhere(x) PROVE AuthInv'
  BY <1>5, EndedStep
<1>6. CASE UNCHANGED vars
  <2>1. /\ srv' = srv /\ cookie' = cookie /\ auth' = auth /\ panel' = panel /\ gaps' = gaps
        /\ view' = view /\ net' = net /\ sent' = sent /\ toasts' = toasts
    BY <1>6 DEF vars
  <2>2. QED BY <2>1, DroppedOffer
<1>7. QED BY <1>1, <1>2, <1>3, <1>4, <1>5, <1>6 DEF Next

(* The invariant holds in every reachable state.                             *)
LEMMA AuthInvHolds == Spec => []AuthInv
<1>1. Init => AuthInv
  BY AuthInvInit
<1>2. AuthInv /\ [Next]_vars => AuthInv'
  BY AuthInvStep
<1>3. QED BY <1>1, <1>2, PTL DEF Spec

-----------------------------------------------------------------------------
(* Sessions end once and for the right one: a sign-out repeated from its     *)
(* toast carries the session it was offered for or none, and a session       *)
(* revoked from the panel is not listed again by a page read before.         *)
THEOREM SessionsEndSoundly == Spec => []SessionsSound
<1>1. AuthInv => SessionsSound
  <2>1. SUFFICES ASSUME AuthInv PROVE SessionsSound
    OBVIOUS
  <2>2. TypeOK
    <3>1. TabShapes /\ srv.owner \in Seq(Accounts)
      BY <2>1 DEF AuthInv, Shapes, TabShapes
    <3>2. DOMAIN srv.owner = 1..Len(srv.owner)
      BY <3>1
    <3>3. QED BY <2>1, <3>1, <3>2
          DEF TypeOK, AuthInv, TabShapes, OneEach, Views, Statuses, Users
  <2>3. RetryEndsItsOwn /\ RevokedStaysHidden
    BY <2>1 DEF RetryEndsItsOwn, AuthInv, RequestTrue
  <2>4. QED BY <2>2, <2>3 DEF SessionsSound
<1>2. QED BY <1>1, AuthInvHolds, PTL

(* The auth store and the cookie agree on who is signed in, both ways:       *)
(* outside the named gaps, an authenticated tab shows its cookie's account,  *)
(* and a signed-out tab holds no live session unless its sign-out is under   *)
(* way.                                                                      *)
THEOREM TabAndCookieAgree == Spec => []TabMatchesCookie
<1>1. AuthInv => TabMatchesCookie
  <2>1. SUFFICES ASSUME AuthInv PROVE TabMatchesCookie
    OBVIOUS
  <2>2. 0 \notin srv.live
    BY <2>1, NoneIsLive DEF AuthInv, Shapes
  <2>3. IdentityMatches
    BY <2>1, <2>2, AuthAssumption DEF AuthInv, IdentityKept, IdentityMatches, Live
  <2>4. SignedOutMeansOut
    BY <2>1 DEF AuthInv, SigningOut, SignedOutMeansOut, Live
  <2>5. QED BY <2>3, <2>4 DEF TabMatchesCookie
<1>2. QED BY <1>1, AuthInvHolds, PTL

(* Only the arrival of an answer moves the cookie.                           *)
LEMMA CookieMoves ==
  ASSUME Next
  PROVE  cookie' = cookie \/ \E r \in net : Arrive(r)
<1>1. CASE UserStep
  BY <1>1
  DEF UserStep, TryAgain, SwitchAccounts, RegisterSubmit, ForgotSubmit, ResendSubmit, CooledDown,
      ResetRedirect, ConfirmSubmit, AcceptSubmit, UpdatePreferences, LoadSessions, ProfileSubmit,
      PasswordSubmit, EmailSubmit, DeleteSubmit, Read, Logout, Open, LoginSubmit, ResetSubmit,
      ResetChecked, Previewed, Told, RevokeSession, RetrySignOut, ToastGone, ProfileControl, Submit,
      Ask, Quietly
<1>2. ASSUME NEW u \in Fresh0, VerifyEffect(u) PROVE cookie' = cookie
  BY <1>2 DEF VerifyEffect
<1>3. ASSUME NEW r \in net, ServeAny(r) PROVE cookie' = cookie
  <2>1. CASE ServeLogin(r) \/ ServeVerify(r) \/ ServePublic(r)
    BY <2>1 DEF ServeLogin, ServeVerify, ServePublic, Refuse, NewSession, Serve
  <2>2. CASE ServeReset(r) \/ ServeRead(r)
    BY <2>2 DEF ServeReset, ServeRead, Refuse, Serve
  <2>3. CASE ServeEnd(r)
    BY <2>3 DEF ServeEnd, Refuse, Serve
  <2>4. QED BY <1>3, <2>1, <2>2, <2>3 DEF ServeAny
<1>4. ASSUME NEW r \in net, Progress(r) PROVE cookie' = cookie \/ Arrive(r)
  <2>1. CASE ServeAny(r) \/ Resend(r)
    BY <1>3, <2>1 DEF Resend
  <2>2. CASE ~(ServeAny(r) \/ Resend(r))
    BY <1>4, <2>2
    DEF Progress, InitAnswer, LoginAnswer, RegisterAnswer, VerifyAnswer, ResetAnswer, ConfirmAnswer,
        AgainAnswer, ExpiredAnswer, WaitToRetry, GetAnswer, ProfileAnswer, FormAnswer, DeleteAnswer,
        RevokeAnswer, LogoutAnswer, AcceptAnswer, Answered
  <2>3. QED BY <2>1, <2>2
<1>5. ASSUME NEW r \in net, Fail(r) PROVE cookie' = cookie
  BY <1>5 DEF Fail
<1>6. ASSUME NEW x \in srv.live, EndedElsewhere(x) PROVE cookie' = cookie
  BY <1>6 DEF EndedElsewhere
<1>7. QED BY <1>1, <1>2, <1>4, <1>5, <1>6 DEF Next

(* No link replaces the session of somebody the tab knew to be signed in     *)
(* without their answer to settleSwitch's question: a cookie that changes to *)
(* another account's was set by a login, by a link the visitor confirmed, or *)
(* by one followed when nobody was known to be signed in.                    *)
THEOREM LinksAskFirst == Spec => SwapsConfirmed
<1>1. ASSUME AuthInv, [Next]_vars
      PROVE  [ cookie' # cookie /\ cookie' # 0 /\ Live(cookie)
               /\ srv.owner[cookie'] # srv.owner[cookie] =>
                 \E r \in net : cookie' \in r.ck /\ (r.op = "login" \/ r.asked \/ ~r.known) ]_vars
  <2>1. SUFFICES ASSUME cookie' # cookie, cookie' # 0, ~UNCHANGED vars
                 PROVE  \E r \in net : cookie' \in r.ck /\ (r.op = "login" \/ r.asked \/ ~r.known)
    OBVIOUS
  <2>2. PICK r \in net : Arrive(r)
    BY <1>1, <2>1, CookieMoves
  <2>3. RequestTrue(r) /\ r.op \in {"login", "verify"} /\ cookie' \in r.ck
    BY <1>1, <2>1, <2>2, ArriveFacts
  <2>4. r.op = "login" \/ r.asked \/ ~r.known
    BY <2>3 DEF RequestTrue
  <2>5. QED BY <2>3, <2>4
<1>2. QED BY <1>1, AuthInvHolds, PTL DEF Spec, SwapsConfirmed
=============================================================================
