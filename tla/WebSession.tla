----------------------------- MODULE WebSession -----------------------------
(***************************************************************************)
(* The signed-in session of one browser tab of the dashboard:              *)
(*   App.tsx              hydration of the stored session on a page load,  *)
(*                        the routes                                       *)
(*   protected-route.tsx  the guard of the workspace routes                *)
(*   login-page.tsx       the one-time-code form                           *)
(*   arcauth.ts           getMe and logout                                 *)
(*   navbar.tsx           the account menu and its Sign Out                *)
(*   landing-page.tsx     the link that depends on being logged in         *)
(* with the part of the server those calls reach: the sessions that are    *)
(* live and the codes that are out.                                        *)
(*                                                                         *)
(* The keys arcauth_* and authx_* of localStorage are always written and   *)
(* removed together and are one value here.  A page load ends the document *)
(* and with it every continuation; a route change unmounts only the form,  *)
(* so that what its calls do to localStorage still happens.  The session   *)
(* cookie is HttpOnly: the assignment to document.cookie in logout() does  *)
(* not touch it, only an answer of the server does.                        *)
(***************************************************************************)
EXTENDS Naturals

CONSTANTS Admins,       \* the administrators
          MaxSessions,  \* bound: sessions the server creates
          Requests,     \* bound: calls of the login form under way at once
          NoOne         \* no user, no token, no e-mail

ASSUME WebSessionAssumption ==
    /\ MaxSessions \in Nat
    /\ NoOne \notin Admins /\ NoOne \notin 1 .. MaxSessions

Tokens == 1 .. MaxSessions
MaybeUser == Admins \cup {NoOne}
MaybeToken == Tokens \cup {NoOne}

VARIABLES page,      \* the route that is mounted; "away" at the OAuth provider
          landing,   \* LandingPage's isLoggedIn, read when it was mounted
          stored,    \* localStorage: the token and the profile
          cookie,    \* the authx_session cookie
          nav,       \* Navbar's currentUser
          me,        \* the getMe of this document
          form,      \* LoginPage's state
          call,      \* the calls of LoginPage that are under way
          redirect,  \* the timer that goes home after a login is running
          owner,     \* server: whose session a token is
          live,      \* server: the tokens it answers for
          codes      \* server: the e-mails with a code that is out

vars == <<page, landing, stored, cookie, nav, me, form, call, redirect,
          owner, live, codes>>

EmptyStore == [token |-> NoOne, user |-> NoOne]
EmptyForm == [email |-> NoOne, code |-> NoOne, sent |-> FALSE, loading |-> FALSE]
NoMe == [st |-> "none", token |-> NoOne, cookie |-> NoOne, user |-> NoOne]
Idle == [op |-> "idle", st |-> "idle", scope |-> "gone", email |-> NoOne,
         code |-> NoOne, token |-> NoOne, cookie |-> NoOne]

Init ==
    /\ page = "home" /\ landing = FALSE
    /\ stored = EmptyStore /\ cookie = NoOne /\ nav = NoOne
    /\ me = NoMe /\ form = EmptyForm /\ redirect = FALSE
    /\ call = [c \in Requests |-> Idle]
    /\ owner = [t \in Tokens |-> NoOne] /\ live = {} /\ codes = {}

-----------------------------------------------------------------------------
(* Operators shared by the handlers *)

\* What remains of the calls when the form is unmounted ("page": the
\* continuation still runs) or the document is unloaded ("gone": the browser
\* drops the answer, the server may still take the call).
Unmounted(f) == [c \in Requests |-> IF f[c].scope = "form"
                                    THEN [f[c] EXCEPT !.scope = "page"] ELSE f[c]]
Unloaded(f) == [c \in Requests |-> IF f[c].st = "sent"
                                   THEN [f[c] EXCEPT !.scope = "gone"] ELSE Idle]

\* The call c is answered with st, and with a token if it was a login.
Reply(c, st, t) == IF call[c].scope = "gone" THEN Idle
                   ELSE [Idle EXCEPT !.op = call[c].op, !.st = st,
                                     !.scope = call[c].scope, !.token = t]

\* arcauth.logout(): the four keys go, and the events make Navbar read again.
Logout == stored' = EmptyStore /\ nav' = NoOne

\* The session the server sees: the Authorization header first, the cookie
\* when there is none.
Presented(token, ck) == IF token # NoOne THEN token ELSE ck
Unminted == {t \in Tokens : owner[t] = NoOne}
Mint(t, u) ==
    /\ t \in Unminted /\ \A s \in Unminted : t <= s
    /\ owner' = [owner EXCEPT ![t] = u]
    /\ live' = live \cup {t}

\* ProtectedRoute: a workspace route without a token is the login page.
Guarded(p) == IF p = "work" /\ stored.token = NoOne THEN "login" ELSE p

-----------------------------------------------------------------------------
(* Page loads and routes *)

\* A load of any route: App hydrates what is stored, or logs out at once when
\* the path is /login.  LoginPage is a lazy component: its own effect comes
\* after that and finds no token to revoke.
Load(p) ==
    LET q == Guarded(p) IN
    /\ page' = q /\ form' = EmptyForm /\ redirect' = FALSE
    /\ call' = Unloaded(call)
    /\ landing' = (q = "home" /\ stored.token # NoOne)
    /\ IF q = "login"
       THEN Logout /\ me' = NoMe
       ELSE /\ nav' = stored.user
            /\ me' = IF stored # EmptyStore
                     THEN [st |-> "sent", token |-> stored.token,
                           cookie |-> cookie, user |-> NoOne]
                     ELSE NoMe
            /\ UNCHANGED stored
    /\ UNCHANGED <<cookie, owner, live, codes>>

\* A route change without a load.  LoginPage's effect on being mounted logs
\* out and, when it still found a token, revokes it at the server.
Route(p) ==
    LET q == Guarded(p) IN
    /\ page' = q /\ form' = EmptyForm
    /\ landing' = (q = "home" /\ stored.token # NoOne)
    /\ IF q = "login"
       THEN /\ Logout
            /\ IF stored.token = NoOne
               THEN call' = Unmounted(call)
               ELSE \E c \in Requests :
                       /\ call[c] = Idle
                       /\ call' = [Unmounted(call) EXCEPT ![c] =
                              [Idle EXCEPT !.op = "logout", !.st = "sent",
                                           !.scope = "page",
                                           !.token = stored.token,
                                           !.cookie = cookie]]
       ELSE call' = Unmounted(call) /\ UNCHANGED <<stored, nav>>
    /\ UNCHANGED <<cookie, me, owner, live, codes>>

\* The links that do not load: the landing page's two buttons and the ways
\* home from the form and from the error page.
StartButton == page = "home" /\ Route(IF landing THEN "work" ELSE "login") /\ UNCHANGED redirect
HomeLink == page = "login" /\ Route("home") /\ UNCHANGED redirect
ErrorHomeLink == page = "error" /\ Route("home") /\ UNCHANGED redirect

\* The browser's Back to the login page.
Back == page \in {"home", "work", "error"} /\ Route("login") /\ UNCHANGED redirect

\* setTimeout(() => navigate("/"), 1000)
Redirect == redirect /\ redirect' = FALSE /\ Route("home")

\* handleSocialOAuth leaves the application ...
GoOAuth ==
    /\ page = "login" /\ page' = "away"
    /\ form' = EmptyForm /\ call' = Unloaded(call)
    /\ me' = NoMe /\ redirect' = FALSE /\ landing' = FALSE
    /\ UNCHANGED <<stored, cookie, nav, owner, live, codes>>

\* ... and the callback comes back with token and user in the address: Navbar
\* stores both before App looks, and App verifies what is stored.
OAuthReturn(u) ==
    /\ page = "away"
    /\ \E t \in Tokens :
          /\ Mint(t, u)
          /\ stored' = [token |-> t, user |-> u]
          /\ cookie' = t /\ nav' = u
          /\ me' = [st |-> "sent", token |-> t, cookie |-> t, user |-> NoOne]
    /\ page' = "home" /\ landing' = TRUE
    /\ UNCHANGED <<form, call, redirect, codes>>

\* The account menu is shown instead of the Login button.  Its entries are
\* loads and its last one is Sign Out.
AccountMenu == page # "away" /\ nav # NoOne

\* Changed program: Sign Out empties localStorage and tells nobody.
SignOutSilent ==
    /\ AccountMenu
    /\ stored' = EmptyStore
    /\ UNCHANGED <<page, landing, cookie, nav, me, form, call, redirect, owner, live, codes>>

\* Navbar's Sign Out: localStorage only.  The events it dispatches are those
\* of a login, at which Navbar reads the profile again.
SignOut ==
    /\ AccountMenu
    /\ Logout
    /\ UNCHANGED <<page, landing, cookie, me, form, call, redirect, owner, live, codes>>

-----------------------------------------------------------------------------
(* getMe: at most one per document *)

MeServed ==
    /\ me.st = "sent"
    /\ LET t == Presented(me.token, me.cookie) IN
       me' = [me EXCEPT !.st = "answered", !.cookie = NoOne,
                        !.user = IF t \in live THEN owner[t] ELSE NoOne]
    /\ UNCHANGED <<page, landing, stored, cookie, nav, form, call, redirect,
                   owner, live, codes>>

\* The profile is stored beside whatever token is there by now.
MeAnswered ==
    /\ me.st = "answered" /\ me.user # NoOne
    /\ stored' = [stored EXCEPT !.user = me.user]
    /\ nav' = me.user
    /\ me' = NoMe
    /\ UNCHANGED <<page, landing, cookie, form, call, redirect, owner, live, codes>>

\* Changed program: getMe without its timeout.
MeFailedWhenAnswered ==
    /\ me.st = "answered" /\ me.user = NoOne
    /\ Logout
    /\ me' = NoMe
    /\ UNCHANGED <<page, landing, cookie, form, call, redirect, owner, live, codes>>

\* Refused, unreachable or out of time: getMe logs out in each case, before
\* App's handler can look at the status.
MeFailed ==
    /\ me.st # "none"
    /\ ~(me.st = "answered" /\ me.user # NoOne)
    /\ Logout
    /\ me' = NoMe
    /\ UNCHANGED <<page, landing, cookie, form, call, redirect, owner, live, codes>>

-----------------------------------------------------------------------------
(* LoginPage *)

EditEmail(u) ==
    /\ page = "login" /\ ~form.sent
    /\ form' = [form EXCEPT !.email = u]
    /\ UNCHANGED <<page, landing, stored, cookie, nav, me, call, redirect, owner, live, codes>>

\* The code that was mailed to u.
EditCode(u) ==
    /\ page = "login" /\ form.sent /\ u \in codes
    /\ form' = [form EXCEPT !.code = u]
    /\ UNCHANGED <<page, landing, stored, cookie, nav, me, call, redirect, owner, live, codes>>

ChangeEmail ==
    /\ page = "login" /\ form.sent
    /\ form' = [form EXCEPT !.sent = FALSE, !.code = NoOne]
    /\ UNCHANGED <<page, landing, stored, cookie, nav, me, call, redirect, owner, live, codes>>

Start(op) ==
    /\ form' = [form EXCEPT !.loading = TRUE]
    /\ \E c \in Requests :
          /\ call[c] = Idle
          /\ call' = [call EXCEPT ![c] =
                [Idle EXCEPT !.op = op, !.st = "sent", !.scope = "form",
                             !.email = form.email, !.code = form.code]]
    /\ UNCHANGED <<page, landing, stored, cookie, nav, me, redirect, owner, live, codes>>

\* The submit button sends the code, then verifies it; it is disabled while
\* loading.  The button "Resend Code" of the second step is not.
CanSubmit == page = "login" /\ ~form.loading
CanResend == page = "login" /\ form.sent

SendOTP ==
    /\ CanResend \/ (CanSubmit /\ ~form.sent)
    /\ form.email # NoOne
    /\ Start("send")

VerifyOTP ==
    /\ CanSubmit /\ form.sent
    /\ form.code # NoOne
    /\ Start("verify")

\* The server takes a call: it may refuse any of the first two (a wrong code,
\* too many requests, an error), and a code can be used once.
Serve(c) ==
    /\ call[c].st = "sent"
    /\ \/ /\ call[c].op = "send"
          /\ codes' = codes \cup {call[c].email}
          /\ call' = [call EXCEPT ![c] = Reply(c, "ok", NoOne)]
          /\ UNCHANGED <<owner, live>>
       \/ /\ call[c].op = "verify"
          /\ call[c].code = call[c].email /\ call[c].email \in codes
          /\ codes' = codes \ {call[c].email}
          /\ \E t \in Tokens :
                /\ Mint(t, call[c].email)
                /\ call' = [call EXCEPT ![c] = Reply(c, "ok", t)]
       \/ /\ call[c].op # "logout"
          /\ \E r \in {"fatal", "bad"} : call' = [call EXCEPT ![c] = Reply(c, r, NoOne)]
          /\ UNCHANGED <<owner, live, codes>>
       \/ \* handleLogout: the session of the cookie, else that of the header
          /\ call[c].op = "logout"
          /\ live' = live \ {Presented(call[c].cookie, call[c].token)}
          /\ call' = [call EXCEPT ![c] = Reply(c, "ok", NoOne)]
          /\ UNCHANGED <<owner, codes>>
    /\ UNCHANGED <<page, landing, stored, cookie, nav, me, form, redirect>>

\* Changed program: the handlers without their finally.
SettleNothing(c, f) == f

\* setLoading(false), with what the answer sets, where the form still is.
Settle(c, f) == IF call[c].scope = "form" THEN [f EXCEPT !.loading = FALSE] ELSE f

SendAnswered(c) ==
    /\ call[c].op = "send" /\ call[c].st = "ok" /\ call[c].scope # "gone"
    /\ form' = IF call[c].scope = "form"
               THEN [form EXCEPT !.sent = TRUE, !.loading = FALSE] ELSE form
    /\ call' = [call EXCEPT ![c] = Idle]
    /\ UNCHANGED <<page, landing, stored, cookie, nav, me, redirect, owner, live, codes>>

\* Changed program: a login stores the token and keeps the old profile.
VerifyAnsweredToken(c) ==
    /\ call[c].op = "verify" /\ call[c].st = "ok" /\ call[c].scope # "gone"
    /\ stored' = [stored EXCEPT !.token = call[c].token]
    /\ cookie' = call[c].token
    /\ redirect' = TRUE
    /\ form' = Settle(c, form)
    /\ call' = [call EXCEPT ![c] = Idle]
    /\ UNCHANGED <<page, landing, nav, me, owner, live, codes>>

VerifyAnswered(c) ==
    /\ call[c].op = "verify" /\ call[c].st = "ok" /\ call[c].scope # "gone"
    /\ stored' = [token |-> call[c].token, user |-> owner[call[c].token]]
    /\ cookie' = call[c].token
    /\ nav' = owner[call[c].token]
    /\ redirect' = TRUE
    /\ form' = Settle(c, form)
    /\ call' = [call EXCEPT ![c] = Idle]
    /\ UNCHANGED <<page, landing, me, owner, live, codes>>

\* 401, 403, 429 and 5xx leave for the error page, also from a form that is
\* no longer there.
AnsweredFatal(c) ==
    /\ call[c].st = "fatal" /\ call[c].scope # "gone"
    /\ page' = "error" /\ landing' = FALSE /\ form' = EmptyForm
    /\ call' = Unmounted([call EXCEPT ![c] = Idle])
    /\ UNCHANGED <<stored, cookie, nav, me, redirect, owner, live, codes>>

\* Another refusal, or no answer at all.
AnsweredBad(c) ==
    /\ call[c].op \in {"send", "verify"} /\ call[c].scope # "gone"
    /\ call[c].st \in {"bad", "sent"}
    /\ form' = Settle(c, form)
    /\ call' = [call EXCEPT ![c] = Idle]
    /\ UNCHANGED <<page, landing, stored, cookie, nav, me, redirect, owner, live, codes>>

\* The answer to a logout clears the cookie, whichever it is by now.
LogoutAnswered(c) ==
    /\ call[c].op = "logout" /\ call[c].st = "ok" /\ call[c].scope # "gone"
    /\ cookie' = NoOne
    /\ call' = [call EXCEPT ![c] = Idle]
    /\ UNCHANGED <<page, landing, stored, nav, me, form, redirect, owner, live, codes>>

\* A call of a document that was unloaded is lost on its way, or a logout
\* fails: logout() drops the error.
Dropped(c) ==
    /\ call[c] # Idle
    /\ call[c].scope = "gone" \/ call[c].op = "logout"
    /\ call' = [call EXCEPT ![c] = Idle]
    /\ UNCHANGED <<page, landing, stored, cookie, nav, me, form, redirect, owner, live, codes>>

-----------------------------------------------------------------------------
Answered(c) ==
    \/ SendAnswered(c) \/ VerifyAnswered(c) \/ AnsweredFatal(c) \/ AnsweredBad(c)
    \/ LogoutAnswered(c) \/ Dropped(c)

MeEnds == MeServed \/ MeAnswered \/ MeFailed

Next ==
    \/ \E p \in {"home", "work", "login"} : Load(p)
    \/ StartButton \/ HomeLink \/ ErrorHomeLink \/ Back \/ Redirect \/ GoOAuth \/ SignOut
    \/ \E u \in Admins : OAuthReturn(u) \/ EditEmail(u) \/ EditCode(u)
    \/ ChangeEmail \/ SendOTP \/ VerifyOTP
    \/ MeEnds
    \/ \E c \in Requests : Serve(c) \/ Answered(c)

\* The network answers or fails (getMe has a timeout of 8 s, the calls of the
\* form only that of the browser), and the timer fires.
Fairness ==
    /\ WF_vars(MeAnswered \/ MeFailed) /\ WF_vars(Redirect)
    /\ \A c \in Requests : WF_vars(Answered(c))

Spec == Init /\ [][Next]_vars /\ Fairness

-----------------------------------------------------------------------------
(* Properties *)

\* The types of the state of the tab and of the server.
TypeOK ==
    /\ page \in {"home", "work", "login", "error", "away"}
    /\ landing \in BOOLEAN /\ redirect \in BOOLEAN
    /\ stored \in [token : MaybeToken, user : MaybeUser]
    /\ cookie \in MaybeToken /\ nav \in MaybeUser
    /\ me \in [st : {"none", "sent", "answered"}, token : MaybeToken,
               cookie : MaybeToken, user : MaybeUser]
    /\ form \in [email : MaybeUser, code : MaybeUser, sent : BOOLEAN, loading : BOOLEAN]
    /\ call \in [Requests -> [op : {"idle", "send", "verify", "logout"},
                              st : {"idle", "sent", "ok", "bad", "fatal"},
                              scope : {"form", "page", "gone"},
                              email : MaybeUser, code : MaybeUser,
                              token : MaybeToken, cookie : MaybeToken]]
    /\ owner \in [Tokens -> MaybeUser] /\ live \in SUBSET Tokens
    /\ codes \in SUBSET Admins

\* The account menu shows the stored profile in every state: all six writers
\* of localStorage, whichever of them answers last, also tell Navbar
\* (App.tsx:53, arcauth.ts:216, login-page.tsx:134, navbar.tsx:176, 272).  The
\* type invariant is a part of it.
NavbarFollows == TypeOK /\ nav = stored.user

Consistent == stored.user = IF stored.token = NoOne THEN NoOne ELSE owner[stored.token]

\* The profile that is stored is that of the token that is stored, and no
\* profile is stored without a token, until a getMe answers that was sent
\* under another token or under none: the only writer that pairs the two
\* wrongly (arcauth.ts:138-140 against login-page.tsx:128-134).
OnlyLateMeMixes ==
    [][Consistent /\ ~Consistent' =>
          /\ me.st = "answered" /\ me'.st = "none"
          /\ me.token # stored.token \/ me.token = NoOne]_vars

\* The buttons of the form that is shown are usable again at some time:
\* every path of the two handlers ends in setLoading(false) or leaves the
\* page, and a loading form has a call under way (login-page.tsx:52-150).
SpinnerEnds == form.loading ~> ~form.loading

\* What a page load starts to verify is verified or logged out.
HydrationEnds == me.st # "none" ~> me.st = "none"
=============================================================================
