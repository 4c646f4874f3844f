---------------------------- MODULE Web_proofs -----------------------------
(***************************************************************************)
(* What is proved of the web applications for every set of users, names,   *)
(* keys, databases and projects and every number of requests: of the web   *)
(* session, and of each of the panels that Workspace puts side by side.    *)
(* For a panel Xx, XxInv is its inductive invariant, XxStart and XxKeeps   *)
(* say that it holds at first and that each action keeps it, and XxShows   *)
(* or XxTold what follows from it.                                         *)
(***************************************************************************)
EXTENDS WebSession, MC_Workspace, Integers, FiniteSetTheorems,
        SequenceTheorems, TLAPS

\* A call as the form makes it.
CallType == [op : {"idle", "send", "verify", "logout"},
             st : {"idle", "sent", "ok", "bad", "fatal"},
             scope : {"form", "page", "gone"},
             email : MaybeUser, code : MaybeUser,
             token : MaybeToken, cookie : MaybeToken]

\* Every token that is stored, and every one a login is about to store, is of
\* a session the server created; a profile that answers for a token is that
\* of its session.
Minted ==
    /\ stored.token # NoOne => owner[stored.token] # NoOne
    /\ \A c \in Requests : call[c].op = "verify" /\ call[c].st = "ok"
          => call[c].token # NoOne /\ owner[call[c].token] # NoOne
    /\ me.st = "answered" /\ me.user # NoOne /\ me.token # NoOne
          => me.user = owner[me.token]

\* A call for a code names an address.
Addressed == \A c \in Requests : call[c].op = "send" => call[c].st # "sent" \/ call[c].email # NoOne

IInv == TypeOK /\ nav = stored.user /\ Minted /\ Addressed

LEMMA CallTypes ==
    ASSUME TypeOK
    PROVE  /\ call \in [Requests -> CallType] /\ Idle \in CallType
           /\ Unmounted(call) \in [Requests -> CallType]
           /\ Unloaded(call) \in [Requests -> CallType]
           /\ \A c \in Requests : call[c] \in CallType
BY DEF TypeOK, CallType, Idle, Unmounted, Unloaded, MaybeUser, MaybeToken

LEMMA ReplyType ==
    ASSUME TypeOK, NEW c \in Requests, NEW st \in {"ok", "bad", "fatal"},
           NEW t \in MaybeToken
    PROVE  /\ Reply(c, st, t) \in CallType
           /\ Reply(c, st, t).op = "verify" => call[c].op = "verify"
           /\ Reply(c, st, t).st = "ok" => st = "ok"
           /\ Reply(c, st, t).op # "idle" => Reply(c, st, t).token = t
<1>1. call[c] \in CallType /\ Idle \in CallType BY CallTypes
<1> QED BY <1>1 DEF Reply, Idle, CallType, MaybeUser

-----------------------------------------------------------------------------
(* Each action keeps the invariant *)

\* Minting a session takes nothing away from what is known of the others.
LEMMA MintKeeps ==
    ASSUME IInv, NEW t \in Tokens, NEW u \in Admins, Mint(t, u)
    PROVE  /\ owner' \in [Tokens -> MaybeUser] /\ live' \in SUBSET Tokens
           /\ owner'[t] = u /\ u # NoOne /\ t # NoOne
           /\ \A s \in Tokens : owner[s] # NoOne => owner'[s] = owner[s]
BY WebSessionAssumption DEF IInv, TypeOK, Mint, Unminted, Tokens, MaybeUser

LEMMA LoadKeeps == ASSUME IInv, NEW p \in {"home", "work", "login"}, Load(p) PROVE IInv'
<1>1. Unloaded(call) \in [Requests -> CallType] BY CallTypes DEF IInv
<1>2. \A c \in Requests : Unloaded(call)[c].op = "verify" => Unloaded(call)[c].st # "ok"
  BY DEF Unloaded, Idle
<1>3. \A c \in Requests : Unloaded(call)[c].op = "send" => Unloaded(call)[c].email = call[c].email
                                                         /\ call[c].op = "send" /\ call[c].st = "sent"
  BY DEF Unloaded, Idle, IInv, TypeOK
<1>4. stored' \in {stored, EmptyStore} /\ nav' = stored'.user
  BY DEF Load, Logout, EmptyStore
<1>5. EmptyStore \in [token : MaybeToken, user : MaybeUser] /\ EmptyStore.token = NoOne
  BY DEF EmptyStore, MaybeUser, MaybeToken
<1>6. me'.st # "answered" /\ me' \in [st : {"none", "sent", "answered"}, token : MaybeToken,
               cookie : MaybeToken, user : MaybeUser]
  BY DEF Load, NoMe, IInv, TypeOK, MaybeUser, MaybeToken
<1>7. page' \in {"home", "work", "login"} /\ landing' \in BOOLEAN /\ redirect' = FALSE
      /\ form' = EmptyForm /\ call' = Unloaded(call)
  BY DEF Load, Guarded
<1>a. EmptyForm \in [email : MaybeUser, code : MaybeUser, sent : BOOLEAN, loading : BOOLEAN]
  BY DEF EmptyForm, MaybeUser
<1>b. stored' \in [token : MaybeToken, user : MaybeUser] /\ nav' \in MaybeUser
  BY <1>4, <1>5 DEF IInv, TypeOK
<1>8. TypeOK'
  BY <1>1, <1>6, <1>7, <1>a, <1>b DEF IInv, TypeOK, Load, CallType
<1>9. Minted' /\ Addressed'
  BY <1>2, <1>3, <1>4, <1>5, <1>6, <1>7 DEF IInv, Minted, Addressed, Load
<1> QED BY <1>4, <1>8, <1>9 DEF IInv

LEMMA RouteKeeps ==
    ASSUME IInv, NEW p \in {"home", "work", "login"}, Route(p), redirect' \in BOOLEAN
    PROVE  IInv'
<1>1. /\ Unmounted(call) \in [Requests -> CallType]
      /\ \A c \in Requests : /\ Unmounted(call)[c].op = call[c].op
                          /\ Unmounted(call)[c].st = call[c].st
                          /\ Unmounted(call)[c].token = call[c].token
                          /\ Unmounted(call)[c].email = call[c].email
  BY CallTypes DEF IInv, TypeOK, Unmounted
<1>2. ASSUME NEW c \in Requests
      PROVE  [Idle EXCEPT !.op = "logout", !.st = "sent", !.scope = "page",
                          !.token = stored.token, !.cookie = cookie] \in CallType
  BY DEF IInv, TypeOK, Idle, CallType, MaybeUser
<1>3. call' \in [Requests -> CallType]
  BY <1>1, <1>2 DEF Route
<1>4. \A c \in Requests : call'[c].op = "verify" /\ call'[c].st = "ok"
          => call[c].op = "verify" /\ call[c].st = "ok" /\ call'[c].token = call[c].token
  BY <1>1, ZenonT(60) DEF Route, Idle
<1>6. \A c \in Requests : call'[c].op = "send"
          => call[c].op = "send" /\ call'[c].st = call[c].st /\ call'[c].email = call[c].email
  BY <1>1, ZenonT(60) DEF Route, Idle
<1>5. Addressed'
  BY <1>6 DEF IInv, Addressed
<1> QED BY <1>3, <1>4, <1>5 DEF IInv, TypeOK, Minted, Route, Guarded, Logout, EmptyStore,
      EmptyForm, CallType, MaybeUser, MaybeToken

LEMMA OAuthKeeps == ASSUME IInv, NEW u \in Admins, OAuthReturn(u) PROVE IInv'
<1>1. PICK t \in Tokens :
          /\ Mint(t, u)
          /\ stored' = [token |-> t, user |-> u]
          /\ cookie' = t /\ nav' = u
          /\ me' = [st |-> "sent", token |-> t, cookie |-> t, user |-> NoOne]
  BY DEF OAuthReturn
<1>2. /\ owner' \in [Tokens -> MaybeUser] /\ live' \in SUBSET Tokens
      /\ owner'[t] = u /\ u # NoOne /\ t # NoOne
      /\ \A s \in Tokens : owner[s] # NoOne => owner'[s] = owner[s]
  BY <1>1, MintKeeps
<1>3. TypeOK'
  BY <1>1, <1>2 DEF OAuthReturn, IInv, TypeOK, MaybeUser, MaybeToken
<1>4. Minted' /\ Addressed' /\ nav' = stored'.user
  BY <1>1, <1>2 DEF OAuthReturn, IInv, TypeOK, Minted, Addressed, MaybeToken
<1> QED BY <1>3, <1>4 DEF IInv

LEMMA LeavingKeeps == ASSUME IInv, GoOAuth \/ SignOut PROVE IInv'
<1>1. CASE GoOAuth
  <2>1. Unloaded(call) \in [Requests -> CallType] BY CallTypes DEF IInv
  <2>2. \A c \in Requests : Unloaded(call)[c].op = "verify" => Unloaded(call)[c].st # "ok"
    BY DEF Unloaded, Idle
  <2>3. Addressed'
    BY <1>1 DEF GoOAuth, Unloaded, Idle, IInv, TypeOK, Addressed
  <2> QED BY <1>1, <2>1, <2>2, <2>3 DEF GoOAuth, IInv, TypeOK, Minted, NoMe, EmptyForm, CallType,
        MaybeUser, MaybeToken
<1>2. CASE SignOut
  BY <1>2 DEF SignOut, AccountMenu, Logout, EmptyStore, IInv, TypeOK, Minted, Addressed, MaybeUser, MaybeToken
<1> QED BY <1>1, <1>2

LEMMA MeKeeps == ASSUME IInv, MeEnds PROVE IInv'
<1>1. CASE MeServed
  <2>1. Presented(me.token, me.cookie) \in MaybeToken
    BY DEF Presented, IInv, TypeOK
  <2>2. /\ me'.st = "answered" /\ me'.token = me.token
        /\ me'.cookie = NoOne
        /\ me'.user = IF Presented(me.token, me.cookie) \in live
                      THEN owner[Presented(me.token, me.cookie)] ELSE NoOne
        /\ me' \in [st : {"none", "sent", "answered"}, token : MaybeToken,
                    cookie : MaybeToken, user : MaybeUser]
    BY <1>1, <2>1 DEF MeServed, IInv, TypeOK, MaybeUser, MaybeToken
  <2>3. me'.user # NoOne /\ me.token # NoOne => me'.user = owner[me.token]
    BY <2>2 DEF Presented
  <2> QED BY <1>1, <2>2, <2>3 DEF MeServed, IInv, TypeOK, Minted, Addressed
<1>2. CASE MeAnswered
  BY <1>2 DEF MeAnswered, NoMe, IInv, TypeOK, Minted, Addressed, MaybeUser, MaybeToken
<1>3. CASE MeFailed
  BY <1>3 DEF MeFailed, Logout, EmptyStore, NoMe, IInv, TypeOK, Minted, Addressed, MaybeUser, MaybeToken
<1> QED BY <1>1, <1>2, <1>3 DEF MeEnds

LEMMA FormKeeps ==
    ASSUME IInv, (\E u \in Admins : EditEmail(u) \/ EditCode(u)) \/ ChangeEmail
    PROVE  IInv'
<1>1. form' \in [email : MaybeUser, code : MaybeUser, sent : BOOLEAN, loading : BOOLEAN]
  BY ZenonT(60) DEF EditEmail, EditCode, ChangeEmail, IInv, TypeOK, MaybeUser
<1>2. UNCHANGED <<page, landing, stored, cookie, nav, me, call, redirect, owner, live, codes>>
  BY DEF EditEmail, EditCode, ChangeEmail
<1> QED BY <1>1, <1>2 DEF IInv, TypeOK, Minted, Addressed

LEMMA StartKeeps ==
    ASSUME IInv, NEW op \in {"send", "verify"}, Start(op),
           op = "send" => form.email # NoOne
    PROVE  IInv'
<1> DEFINE new == [Idle EXCEPT !.op = op, !.st = "sent", !.scope = "form",
                               !.email = form.email, !.code = form.code]
<1>1. PICK c \in Requests : call' = [call EXCEPT ![c] = new]
  BY DEF Start
<1>2. new \in CallType /\ new.st = "sent" /\ new.email = form.email /\ new.op = op
  BY DEF IInv, TypeOK, Idle, CallType, MaybeUser, MaybeToken
<1> HIDE DEF new
<1>3. call' \in [Requests -> CallType]
  BY <1>1, <1>2, CallTypes DEF IInv
<1>4. \A d \in Requests : call'[d] = call[d] \/ call'[d] = new
  BY <1>1, CallTypes DEF IInv
<1>5. form' \in [email : MaybeUser, code : MaybeUser, sent : BOOLEAN, loading : BOOLEAN]
  BY DEF Start, IInv, TypeOK
<1>6. Minted' /\ Addressed'
  BY <1>2, <1>4 DEF Start, IInv, Minted, Addressed
<1> QED BY <1>3, <1>5, <1>6 DEF Start, IInv, TypeOK, CallType

LEMMA ServeKeeps == ASSUME IInv, NEW c \in Requests, Serve(c) PROVE IInv'
<1> USE DEF IInv
<1>0. call[c] \in CallType BY CallTypes
<1>1. CASE /\ call[c].op = "verify"
           /\ call[c].code = call[c].email /\ call[c].email \in codes
           /\ codes' = codes \ {call[c].email}
           /\ \E t \in Tokens :
                /\ Mint(t, call[c].email)
                /\ call' = [call EXCEPT ![c] = Reply(c, "ok", t)]
  <2>1. PICK t \in Tokens :
                /\ Mint(t, call[c].email)
                /\ call' = [call EXCEPT ![c] = Reply(c, "ok", t)]
    BY <1>1
  <2>2. call[c].email \in Admins BY <1>1 DEF TypeOK
  <2>3. /\ owner' \in [Tokens -> MaybeUser] /\ live' \in SUBSET Tokens
        /\ owner'[t] # NoOne /\ t # NoOne
        /\ \A s \in Tokens : owner[s] # NoOne => owner'[s] = owner[s]
    BY <2>1, <2>2, MintKeeps
  <2>4. Reply(c, "ok", t) \in CallType
        /\ (Reply(c, "ok", t).op # "idle" => Reply(c, "ok", t).token = t)
    BY ReplyType DEF MaybeToken
  <2>5. call' \in [Requests -> CallType] BY <2>1, <2>4, CallTypes
  <2>6. TypeOK'
    BY <1>1, <2>3, <2>5 DEF Serve, TypeOK, CallType
  <2>7. \A d \in Requests : call'[d].op = "verify" /\ call'[d].st = "ok"
          => call'[d].token # NoOne /\ owner'[call'[d].token] # NoOne
    <3> SUFFICES ASSUME NEW d \in Requests, call'[d].op = "verify", call'[d].st = "ok"
                 PROVE  call'[d].token # NoOne /\ owner'[call'[d].token] # NoOne
      OBVIOUS
    <3>1. CASE d = c
      BY <3>1, <2>1, <2>3, <2>4, CallTypes
    <3>2. CASE d # c
      <4>1. call'[d] = call[d] BY <3>2, <2>1, CallTypes
      <4>2. call[d].token \in MaybeToken BY CallTypes DEF CallType
      <4> QED BY <4>1, <4>2, <2>3 DEF Minted, MaybeToken
    <3> QED BY <3>1, <3>2
  <2>8. Addressed'
    BY <2>1, CallTypes DEF Addressed, Reply, Idle
  <2> QED BY <2>3, <2>6, <2>7, <2>8 DEF Serve, TypeOK, Minted, MaybeToken
<1>2. CASE \E st \in {"ok", "bad", "fatal"} :
             /\ call' = [call EXCEPT ![c] = Reply(c, st, NoOne)]
             /\ st = "ok" => call[c].op # "verify"
             /\ codes' \in SUBSET Admins /\ live' \in SUBSET Tokens
             /\ UNCHANGED owner
  <2>1. PICK st \in {"ok", "bad", "fatal"} :
             /\ call' = [call EXCEPT ![c] = Reply(c, st, NoOne)]
             /\ st = "ok" => call[c].op # "verify"
             /\ codes' \in SUBSET Admins /\ live' \in SUBSET Tokens
             /\ UNCHANGED owner
    BY <1>2
  <2>2. Reply(c, st, NoOne) \in CallType
        /\ (Reply(c, st, NoOne).op = "verify" => Reply(c, st, NoOne).st # "ok")
    BY <2>1, ReplyType DEF MaybeToken
  <2>3. call' \in [Requests -> CallType] BY <2>1, <2>2, CallTypes
  <2>4. \A d \in Requests : call'[d].op = "verify" /\ call'[d].st = "ok" => call'[d] = call[d]
    BY <2>1, <2>2, CallTypes
  <2>5. Addressed'
    BY <2>1, CallTypes DEF Addressed, Reply, Idle
  <2> QED BY <2>1, <2>3, <2>4, <2>5 DEF Serve, TypeOK, Minted, CallType
<1>3. ASSUME call[c].op = "send", codes' = codes \cup {call[c].email},
             call' = [call EXCEPT ![c] = Reply(c, "ok", NoOne)], UNCHANGED <<owner, live>>
      PROVE  IInv'
  <2>1. call[c].email \in Admins BY <1>3, <1>0 DEF Serve, Addressed, CallType, MaybeUser
  <2> QED BY <1>2, <1>3, <2>1 DEF TypeOK
<1>4. ASSUME NEW r \in {"fatal", "bad"}, call' = [call EXCEPT ![c] = Reply(c, r, NoOne)],
             UNCHANGED <<owner, live, codes>>
      PROVE  IInv'
  BY <1>2, <1>4 DEF TypeOK
<1>5. ASSUME call[c].op = "logout", live' \in SUBSET live,
             call' = [call EXCEPT ![c] = Reply(c, "ok", NoOne)], UNCHANGED <<owner, codes>>
      PROVE  IInv'
  BY <1>2, <1>5 DEF TypeOK
<1> QED BY <1>1, <1>3, <1>4, <1>5 DEF Serve

\* The answers to the form and the ends of calls.
LEMMA AnsweredKeeps == ASSUME IInv, NEW c \in Requests, Answered(c) PROVE IInv'
<1> USE DEF IInv
<1>1. Idle \in CallType /\ Idle.op = "idle" /\ Idle.st = "idle" BY CallTypes DEF Idle
<1>2. form \in [email : MaybeUser, code : MaybeUser, sent : BOOLEAN, loading : BOOLEAN]
      /\ Settle(c, form) \in [email : MaybeUser, code : MaybeUser, sent : BOOLEAN, loading : BOOLEAN]
      /\ EmptyForm \in [email : MaybeUser, code : MaybeUser, sent : BOOLEAN, loading : BOOLEAN]
  BY DEF TypeOK, Settle, EmptyForm, MaybeUser
<1>3. ASSUME call' = [call EXCEPT ![c] = Idle], UNCHANGED owner
      PROVE  /\ call' \in [Requests -> CallType]
             /\ \A d \in Requests : call'[d].op \in {"verify", "send"} => call'[d] = call[d]
  BY <1>1, <1>3, CallTypes
<1>4. CASE SendAnswered(c)
  <2>1. form' \in [email : MaybeUser, code : MaybeUser, sent : BOOLEAN, loading : BOOLEAN]
    BY <1>2, <1>4 DEF SendAnswered
  <2> QED BY <1>3, <1>4, <2>1 DEF SendAnswered, TypeOK, Minted, Addressed, CallType
<1>5. CASE VerifyAnswered(c)
  <2>1. call[c].token \in Tokens /\ owner[call[c].token] # NoOne
    BY <1>5, CallTypes DEF VerifyAnswered, Minted, CallType, MaybeToken
  <2>2. /\ call' \in [Requests -> CallType] /\ UNCHANGED owner
        /\ \A d \in Requests : call'[d].op \in {"verify", "send"} => call'[d] = call[d]
    BY <1>3, <1>5 DEF VerifyAnswered
  <2>3. stored' \in [token : MaybeToken, user : MaybeUser] /\ nav' = stored'.user
        /\ stored'.token = call[c].token /\ cookie' \in MaybeToken
    BY <1>5, <2>1 DEF VerifyAnswered, TypeOK, MaybeToken
  <2>4. TypeOK'
    BY <1>2, <1>5, <2>2, <2>3 DEF VerifyAnswered, TypeOK, CallType
  <2>5. Minted' /\ Addressed'
    BY <1>5, <2>1, <2>2, <2>3 DEF VerifyAnswered, Minted, Addressed
  <2> QED BY <2>3, <2>4, <2>5
<1>6. CASE AnsweredFatal(c)
  <2> DEFINE f == [call EXCEPT ![c] = Idle]
  <2>1. f \in [Requests -> CallType] BY <1>1, CallTypes
  <2>2. \A d \in Requests : f[d].op \in {"verify", "send"} => f[d] = call[d]
    BY <1>1, CallTypes
  <2> HIDE DEF f
  <2>3. /\ Unmounted(f) \in [Requests -> CallType]
        /\ \A d \in Requests : /\ Unmounted(f)[d].op = f[d].op
                            /\ Unmounted(f)[d].st = f[d].st
                            /\ Unmounted(f)[d].email = f[d].email
                            /\ Unmounted(f)[d].token = f[d].token
    BY <2>1 DEF Unmounted, CallType
  <2>4. call' = Unmounted(f) BY <1>6 DEF AnsweredFatal, f
  <2>6. \A d \in Requests : call'[d].op \in {"verify", "send"}
          => /\ call'[d].op = call[d].op /\ call'[d].st = call[d].st
             /\ call'[d].email = call[d].email /\ call'[d].token = call[d].token
    BY <2>2, <2>3, <2>4
  <2>7. Minted'
    BY <1>6, <2>6 DEF AnsweredFatal, Minted
  <2>5. Minted' /\ Addressed'
    BY <2>6, <2>7 DEF Addressed
  <2> QED BY <1>2, <1>6, <2>3, <2>4, <2>5, ZenonT(60) DEF AnsweredFatal, TypeOK, CallType
<1>7. CASE AnsweredBad(c)
  BY <1>2, <1>3, <1>7 DEF AnsweredBad, TypeOK, Minted, Addressed, CallType
<1>8. CASE LogoutAnswered(c)
  BY <1>3, <1>8 DEF LogoutAnswered, TypeOK, Minted, Addressed, CallType, MaybeToken
<1>9. CASE Dropped(c)
  BY <1>3, <1>9 DEF Dropped, TypeOK, Minted, Addressed, CallType
<1> QED BY <1>4, <1>5, <1>6, <1>7, <1>8, <1>9 DEF Answered

-----------------------------------------------------------------------------
(* The invariant *)

LEMMA InitInv == Init => IInv
<1> SUFFICES ASSUME Init PROVE IInv
  OBVIOUS
<1>1. /\ stored \in [token : MaybeToken, user : MaybeUser] /\ stored.token = NoOne
      /\ form \in [email : MaybeUser, code : MaybeUser, sent : BOOLEAN, loading : BOOLEAN]
  BY DEF Init, EmptyStore, EmptyForm, MaybeUser, MaybeToken
<1>2. me \in [st : {"none", "sent", "answered"}, token : MaybeToken,
             cookie : MaybeToken, user : MaybeUser] /\ me.st = "none"
  BY DEF Init, NoMe, MaybeUser, MaybeToken
<1>3. Idle \in CallType /\ Idle.op = "idle"
  BY DEF Idle, CallType, MaybeUser, MaybeToken
<1>4. call \in [Requests -> CallType] /\ \A c \in Requests : call[c].op = "idle"
  BY <1>3 DEF Init
<1>5. nav = stored.user /\ nav \in MaybeUser /\ cookie \in MaybeToken
      /\ owner \in [Tokens -> MaybeUser]
  BY DEF Init, EmptyStore, MaybeUser, MaybeToken
<1>6. TypeOK
  BY <1>1, <1>2, <1>4, <1>5 DEF Init, TypeOK, CallType
<1> QED BY <1>1, <1>2, <1>4, <1>5, <1>6 DEF IInv, Minted, Addressed

LEMMA StepInv == IInv /\ [Next]_vars => IInv'
<1> SUFFICES ASSUME IInv, [Next]_vars PROVE IInv'
  OBVIOUS
<1>1. CASE UNCHANGED vars
  BY <1>1 DEF vars, IInv, TypeOK, Minted, Addressed
<1>2. ASSUME NEW p \in {"home", "work", "login"}, Load(p) PROVE IInv'
  BY <1>2, LoadKeeps
<1>3. CASE StartButton \/ HomeLink \/ ErrorHomeLink \/ Back \/ Redirect
  <2>1. \E p \in {"home", "work", "login"} : Route(p)
    BY <1>3 DEF StartButton, HomeLink, ErrorHomeLink, Back, Redirect
  <2>2. redirect' \in BOOLEAN
    BY <1>3 DEF StartButton, HomeLink, ErrorHomeLink, Back, Redirect, IInv, TypeOK
  <2> QED BY <2>1, <2>2, RouteKeeps
<1>4. CASE GoOAuth \/ SignOut
  BY <1>4, LeavingKeeps
<1>5. ASSUME NEW u \in Admins, OAuthReturn(u) PROVE IInv'
  BY <1>5, OAuthKeeps
<1>6. CASE (\E u \in Admins : EditEmail(u) \/ EditCode(u)) \/ ChangeEmail
  BY <1>6, FormKeeps
<1>7. CASE SendOTP
  BY <1>7, StartKeeps DEF SendOTP
<1>8. CASE VerifyOTP
  BY <1>8, StartKeeps DEF VerifyOTP
<1>9. CASE MeEnds
  BY <1>9, MeKeeps
<1>10. ASSUME NEW c \in Requests, Serve(c) \/ Answered(c) PROVE IInv'
  BY <1>10, ServeKeeps, AnsweredKeeps
<1> QED BY <1>1, <1>2, <1>3, <1>4, <1>5, <1>6, <1>7, <1>8, <1>9, <1>10 DEF Next

\* Navbar shows the stored profile in every state (App.tsx:53,
\* arcauth.ts:216, login-page.tsx:134, navbar.tsx:176, 272).
THEOREM NavbarFollowsTheStore == Spec => []NavbarFollows
<1>1. IInv => NavbarFollows
  BY DEF IInv, NavbarFollows
<1> QED BY <1>1, InitInv, StepInv, PTL DEF Spec

-----------------------------------------------------------------------------
(* Who mixes a profile with a token that is not its own *)

LEMMA MixStep ==
    ASSUME IInv, [Next]_vars, Consistent, ~Consistent'
    PROVE  /\ me.st = "answered" /\ me'.st = "none"
           /\ me.token # stored.token \/ me.token = NoOne
<1>0. /\ stored \in [token : MaybeToken, user : MaybeUser]
      /\ owner \in [Tokens -> MaybeUser]
      /\ stored.token # NoOne => stored.token \in Tokens /\ owner[stored.token] # NoOne
  BY DEF IInv, TypeOK, Minted, MaybeToken
<1>1. ASSUME UNCHANGED <<stored, owner>> PROVE FALSE
  BY <1>1 DEF Consistent
<1>2. ASSUME stored' = EmptyStore PROVE FALSE
  BY <1>2 DEF Consistent, EmptyStore
<1>3. ASSUME NEW t \in Tokens, NEW u \in Admins, Mint(t, u),
             stored' = stored \/ stored' = [token |-> t, user |-> u]
      PROVE  FALSE
  <2>1. /\ owner'[t] = u /\ t # NoOne
        /\ \A s \in Tokens : owner[s] # NoOne => owner'[s] = owner[s]
    BY <1>3, MintKeeps
  <2>2. CASE stored' = stored
    BY <2>1, <2>2, <1>0 DEF Consistent
  <2>3. CASE stored' = [token |-> t, user |-> u]
    BY <2>1, <2>3 DEF Consistent
  <2> QED BY <1>3, <2>2, <2>3
<1>4. CASE UNCHANGED vars
  BY <1>1, <1>4 DEF vars
<1>5. ASSUME NEW p \in {"home", "work", "login"}, Load(p) \/ Route(p) PROVE FALSE
  BY <1>1, <1>2, <1>5 DEF Load, Route, Logout
<1>6. CASE StartButton \/ HomeLink \/ ErrorHomeLink \/ Back \/ Redirect
  <2>1. \E p \in {"home", "work", "login"} : Route(p)
    BY <1>6 DEF StartButton, HomeLink, ErrorHomeLink, Back, Redirect
  <2> QED BY <1>5, <2>1
<1>7. CASE GoOAuth \/ SignOut
  BY <1>1, <1>2, <1>7 DEF GoOAuth, SignOut, Logout
<1>8. ASSUME NEW u \in Admins, OAuthReturn(u) PROVE FALSE
  BY <1>3, <1>8 DEF OAuthReturn
<1>9. CASE \/ \E u \in Admins : EditEmail(u) \/ EditCode(u)
           \/ ChangeEmail \/ SendOTP \/ VerifyOTP
  BY <1>1, <1>9 DEF EditEmail, EditCode, ChangeEmail, SendOTP, VerifyOTP, Start
<1>10. CASE MeServed \/ MeFailed
  BY <1>1, <1>2, <1>10 DEF MeServed, MeFailed, Logout
<1>11. CASE MeAnswered
  <2>1. me.st = "answered" /\ me.user # NoOne /\ me'.st = "none"
        /\ stored' = [stored EXCEPT !.user = me.user] /\ UNCHANGED owner
    BY <1>11 DEF MeAnswered, NoMe
  <2>2. ASSUME me.token = stored.token, me.token # NoOne PROVE FALSE
    <3>1. me.user = owner[stored.token]
      BY <2>1, <2>2 DEF IInv, Minted
    <3>2. stored'.token = stored.token /\ stored'.user = me.user
      BY <2>1, <1>0
    <3> QED BY <2>1, <2>2, <3>1, <3>2 DEF Consistent
  <2> QED BY <2>1, <2>2
<1>12. ASSUME NEW c \in Requests, Serve(c) PROVE FALSE
  <2>1. CASE UNCHANGED owner
    BY <1>1, <1>12, <2>1 DEF Serve
  <2>2. ASSUME NEW t \in Tokens, call[c].email \in codes, Mint(t, call[c].email) PROVE FALSE
    <3>1. call[c].email \in Admins BY <2>2 DEF IInv, TypeOK
    <3> QED BY <1>3, <1>12, <2>2, <3>1 DEF Serve
  <2> QED BY <1>12, <2>1, <2>2 DEF Serve
<1>13. ASSUME NEW c \in Requests, VerifyAnswered(c) PROVE FALSE
  <2>1. call[c].token # NoOne
    BY <1>13 DEF VerifyAnswered, IInv, Minted
  <2>2. stored' = [token |-> call[c].token, user |-> owner[call[c].token]] /\ UNCHANGED owner
    BY <1>13 DEF VerifyAnswered
  <2> QED BY <2>1, <2>2 DEF Consistent
<1>14. ASSUME NEW c \in Requests, \/ SendAnswered(c) \/ AnsweredFatal(c) \/ AnsweredBad(c)
                              \/ LogoutAnswered(c) \/ Dropped(c)
       PROVE  FALSE
  BY <1>1, <1>14 DEF SendAnswered, AnsweredFatal, AnsweredBad, LogoutAnswered, Dropped
<1> QED BY <1>4, <1>5, <1>6, <1>7, <1>8, <1>9, <1>10, <1>11, <1>12, <1>13, <1>14
        DEF Next, MeEnds, Answered

\* A stored profile that is its token's stays that of its token, whatever is
\* interleaved, until a getMe sent under another token or under none answers.
THEOREM OnlyALateMeMixes == Spec => OnlyLateMeMixes
<1>1. IInv /\ [Next]_vars
        => [Consistent /\ ~Consistent' =>
              /\ me.st = "answered" /\ me'.st = "none"
              /\ me.token # stored.token \/ me.token = NoOne]_vars
  BY MixStep
<1> QED BY <1>1, InitInv, StepInv, PTL DEF Spec, OnlyLateMeMixes

-----------------------------------------------------------------------------
(* Answers on their way: those of L have been given, and older tells of each *)
(* which were given before it.                                               *)
Ordered(L, older) ==
    /\ \A i \in L : older[i] \subseteq L \ {i}
    /\ \A i, j \in L : i = j \/ i \in older[j] \/ j \in older[i]

Newest(L, older, i) == i \in L /\ \A j \in L : i \notin older[j]

\* What shown will be when all of them are taken in the order they were given.
Brings(L, older, snap, shown, now) ==
    \/ L = {} /\ shown = now
    \/ \E i \in L : Newest(L, older, i) /\ snap[i] = now

LEMMA Given ==
    ASSUME NEW L \in SUBSET Calls, NEW older \in [Calls -> SUBSET Calls],
           Ordered(L, older), NEW i \in Calls \ L
    PROVE  /\ [older EXCEPT ![i] = L] \in [Calls -> SUBSET Calls]
           /\ Ordered(L \cup {i}, [older EXCEPT ![i] = L])
           /\ Newest(L \cup {i}, [older EXCEPT ![i] = L], i)
  <1> DEFINE new == [older EXCEPT ![i] = L]
  <1>1. /\ new \in [Calls -> SUBSET Calls]
        /\ new[i] = L /\ \A j \in L : new[j] = older[j]
    OBVIOUS
  <1> HIDE DEF new
  <1>2. Ordered(L \cup {i}, new) /\ Newest(L \cup {i}, new, i)
    BY <1>1 DEF Ordered, Newest
  <1>3. QED
    BY <1>1, <1>2 DEF new

LEMMA Taken ==
    ASSUME NEW L \in SUBSET Calls, NEW older \in [Calls -> SUBSET Calls],
           Ordered(L, older), NEW i \in Calls
    PROVE  /\ Without(older, i) \in [Calls -> SUBSET Calls]
           /\ Ordered(L \ {i}, Without(older, i))
           /\ \A k \in L \ {i} : Newest(L, older, k) => Newest(L \ {i}, Without(older, i), k)
           /\ Newest(L, older, i) /\ older[i] = {} => L = {i}
  <1> DEFINE new == Without(older, i)
  <1>1. /\ new \in [Calls -> SUBSET Calls]
        /\ \A j \in Calls \ {i} : new[j] = older[j] \ {i}
    BY DEF Without
  <1> HIDE DEF new
  <1>2. Ordered(L \ {i}, new)
    BY <1>1 DEF Ordered
  <1>3. \A k \in L \ {i} : Newest(L, older, k) => Newest(L \ {i}, new, k)
    BY <1>1 DEF Newest
  <1>4. Newest(L, older, i) /\ older[i] = {} => L = {i}
    BY DEF Newest, Ordered
  <1>5. QED
    BY <1>1, <1>2, <1>3, <1>4 DEF new

\* An answer with nothing older on its way is taken.
LEMMA TakenBrings ==
    ASSUME NEW L \in SUBSET Calls, NEW older \in [Calls -> SUBSET Calls],
           Ordered(L, older), NEW i \in L, older[i] = {},
           NEW snap, NEW next, NEW shown, NEW now,
           \A j \in L \ {i} : next[j] = snap[j],
           Brings(L, older, snap, shown, now)
    PROVE  Brings(L \ {i}, Without(older, i), next, snap[i], now)
  <1>1. PICK k \in L : Newest(L, older, k) /\ snap[k] = now
    BY DEF Brings
  <1>2. CASE k = i
    BY <1>1, <1>2, Taken DEF Brings
  <1>3. CASE k # i
    BY <1>1, <1>3, Taken DEF Brings
  <1>4. QED
    BY <1>2, <1>3

-----------------------------------------------------------------------------
(* The numbers of a set in their order, and what a sequence has there *)

Rank(S, i) == Cardinality({j \in S : j <= i})

LEMMA RankIs ==
    ASSUME NEW S \in SUBSET Int, IsFiniteSet(S)
    PROVE  /\ Cardinality(S) \in Nat
           /\ \A i \in S : Rank(S, i) \in 1 .. Cardinality(S)
           /\ \A i, j \in S : i < j => Rank(S, i) < Rank(S, j)
  <1>1. Cardinality(S) \in Nat
    BY FS_CardinalityType
  <1>2. ASSUME NEW i \in S PROVE Rank(S, i) \in 1 .. Cardinality(S)
    <2> DEFINE T == {j \in S : j <= i}
    <2>1. T \in SUBSET S /\ i \in T
      OBVIOUS
    <2>2. IsFiniteSet(T) /\ Cardinality(T) <= Cardinality(S)
      BY <2>1, FS_Subset
    <2>3. Cardinality(T) \in Nat /\ Cardinality(T) # 0
      BY <2>1, <2>2, FS_CardinalityType, FS_EmptySet
    <2>4. QED
      BY <1>1, <2>2, <2>3 DEF Rank
  <1>3. ASSUME NEW i \in S, NEW j \in S, i < j PROVE Rank(S, i) < Rank(S, j)
    <2> DEFINE T == {k \in S : k <= i}
               U == {k \in S : k <= j}
    <2>1. U \in SUBSET S /\ T \in SUBSET U /\ j \in U /\ j \notin T
      <3>1. i \in Int /\ j \in Int /\ \A k \in S : k \in Int
        OBVIOUS
      <3>2. \A k \in S : k <= i => k <= j
        BY <1>3, <3>1
      <3>3. ~(j <= i) /\ j <= j
        BY <1>3, <3>1
      <3>4. QED
        BY <3>2, <3>3
    <2>2. IsFiniteSet(U)
      BY <2>1, FS_Subset
    <2>3. Cardinality(T) <= Cardinality(U) /\ Cardinality(T) # Cardinality(U)
      BY <2>1, <2>2, FS_Subset
    <2>4. Rank(S, i) \in Int /\ Rank(S, j) \in Int
      BY <1>1, <1>2
    <2>5. QED
      BY <2>3, <2>4 DEF Rank
  <1>4. QED
    BY <1>1, <1>2, <1>3

\* The numbers of a finite set are listed, each once and the least first.
LEMMA InOrderIs ==
    ASSUME NEW S \in SUBSET Int, IsFiniteSet(S)
    PROVE  /\ Cardinality(S) \in Nat
           /\ InOrder(S) \in [1 .. Cardinality(S) -> S]
           /\ \A m, n \in 1 .. Cardinality(S) : m < n => InOrder(S)[m] < InOrder(S)[n]
           /\ \A i \in S : \E n \in 1 .. Cardinality(S) : InOrder(S)[n] = i
  <1> DEFINE N == Cardinality(S)
             f == [i \in S |-> Rank(S, i)]
             q == InOrder(S)
  <1>1. N \in Nat
    BY RankIs
  <1>2. \A i \in S : Rank(S, i) \in 1 .. N
    BY RankIs
  <1>3. \A i, j \in S : i < j => Rank(S, i) < Rank(S, j)
    BY RankIs
  <1>4. \A i, j \in S : Rank(S, i) = Rank(S, j) => i = j
    BY <1>1, <1>2, <1>3
  <1>5. f \in Injection(S, 1 .. N)
    <2>1. f \in [S -> 1 .. N] /\ \A i, j \in S : f[i] = f[j] => i = j
      BY <1>2, <1>4
    <2> HIDE DEF f
    <2>2. QED
      BY <2>1 DEF Injection, IsInjective
  <1>6. IsFiniteSet(1 .. N) /\ Cardinality(1 .. N) = N
    BY <1>1, FS_Interval
  <1>7. f \in Surjection(S, 1 .. N)
    BY <1>5, <1>6, FS_Injection
  <1>8. \A n \in 1 .. N : \E i \in S : Rank(S, i) = n
    BY <1>7 DEF Surjection
  <1>9. \A n \in 1 .. N : q[n] = CHOOSE i \in S : Rank(S, i) = n
    BY DEF InOrder, Rank
  <1>10. \A n \in 1 .. N : q[n] \in S /\ Rank(S, q[n]) = n
    BY <1>8, <1>9
  <1>11. q \in [1 .. N -> S]
    <2> DEFINE e(n) == CHOOSE i \in S : Rank(S, i) = n
    <2>1. q = [n \in 1 .. N |-> e(n)]
      BY DEF InOrder, Rank
    <2>2. \A n \in 1 .. N : e(n) \in S
      BY <1>9, <1>10
    <2> HIDE DEF q, e
    <2>3. QED
      BY <2>1, <2>2
  <1>12. \A m, n \in 1 .. N : m < n => q[m] < q[n]
    <2> SUFFICES ASSUME NEW m \in 1 .. N, NEW n \in 1 .. N, m < n PROVE q[m] < q[n]
      OBVIOUS
    <2> HIDE DEF q
    <2>3. q[m] \in S /\ q[n] \in S /\ Rank(S, q[m]) = m /\ Rank(S, q[n]) = n
      BY <1>10
    <2>4. q[n] < q[m] => n < m
      BY <1>3, <2>3
    <2>1. q[m] \in Int /\ q[n] \in Int /\ q[m] # q[n] /\ ~(q[n] < q[m])
      <3>0. m \in Int /\ n \in Int /\ ~(n < m) /\ m # n
        <4> HIDE DEF N
        <4>1. QED
          BY <1>1
      <3>1. q[m] \in Int /\ q[n] \in Int /\ m \in Int /\ n \in Int /\ ~(n < m) /\ m # n
        BY <2>3, <3>0
      <3>2. q[m] # q[n]
        BY <2>3, <3>1
      <3>3. ~(q[n] < q[m])
        BY <2>4, <3>1
      <3>4. QED
        BY <3>1, <3>2, <3>3
    <2>2. QED
      BY <2>1
  <1>13. \A i \in S : \E n \in 1 .. N : q[n] = i
    BY <1>2, <1>4, <1>10
  <1>14. QED
    BY <1>1, <1>11, <1>12, <1>13

\* And there is no other listing of them.
LEMMA InOrderOnly ==
    ASSUME NEW m \in Nat, NEW S \in SUBSET Int, NEW q \in [1 .. m -> S],
           \A j, k \in 1 .. m : j < k => q[j] < q[k],
           \A i \in S : \E k \in 1 .. m : q[k] = i
    PROVE  IsFiniteSet(S) /\ Cardinality(S) = m /\ InOrder(S) = q
  <1>1. \A j, k \in 1 .. m : q[j] \in Int /\ (q[j] = q[k] => j = k) /\ (q[j] <= q[k] <=> j <= k)
    <2> SUFFICES ASSUME NEW j \in 1 .. m, NEW k \in 1 .. m
                 PROVE  q[j] \in Int /\ (q[j] = q[k] => j = k) /\ (q[j] <= q[k] <=> j <= k)
      OBVIOUS
    <2>1. q[j] \in Int /\ q[k] \in Int /\ (j < k => q[j] < q[k]) /\ (k < j => q[k] < q[j])
      OBVIOUS
    <2>2. QED
      BY <2>1
  <1>2. q \in Bijection(1 .. m, S)
    BY <1>1 DEF Bijection, Injection, Surjection, IsInjective
  <1>3. IsFiniteSet(S) /\ Cardinality(S) = m
    BY <1>2, FS_NatBijection, FS_CountingElements DEF ExistsBijection
  <1>4. ASSUME NEW n \in 1 .. m PROVE Rank(S, q[n]) = n
    <2> DEFINE T == {j \in S : j <= q[n]}
               g == [k \in 1 .. n |-> q[k]]
    <2>1. \A k \in 1 .. n : k \in 1 .. m /\ k <= n
      OBVIOUS
    <2>2. g \in [1 .. n -> T]
      BY <1>1, <2>1
    <2>3. \A t \in T : \E k \in 1 .. n : g[k] = t
      <3> SUFFICES ASSUME NEW t \in S, t <= q[n] PROVE \E k \in 1 .. n : g[k] = t
        OBVIOUS
      <3>1. PICK k \in 1 .. m : q[k] = t
        OBVIOUS
      <3>2. k <= n
        BY <1>1, <3>1
      <3>3. k \in 1 .. n
        BY <3>2
      <3>4. QED
        BY <3>1, <3>3
    <2>4. \A j, k \in 1 .. n : g[j] = g[k] => j = k
      BY <1>1, <2>1
    <2>5. g \in Bijection(1 .. n, T)
      BY <2>2, <2>3, <2>4 DEF Bijection, Injection, Surjection, IsInjective
    <2>6. Cardinality(T) = n
      BY <2>5, FS_CountingElements DEF ExistsBijection
    <2>7. QED
      BY <2>6 DEF Rank
  <1>5. ASSUME NEW n \in 1 .. m PROVE InOrder(S)[n] = q[n]
    <2>1. \A i \in S : Rank(S, i) = n <=> i = q[n]
      BY <1>4
    <2>2. InOrder(S)[n] = CHOOSE i \in S : Rank(S, i) = n
      BY <1>3 DEF InOrder, Rank
    <2>3. (CHOOSE i \in S : Rank(S, i) = n) = q[n]
      BY <2>1
    <2>4. QED
      BY <2>2, <2>3
  <1> DEFINE e(n) == CHOOSE i \in S : Rank(S, i) = n
  <1>6. InOrder(S) = [n \in 1 .. m |-> e(n)]
    BY <1>3 DEF InOrder, Rank
  <1> HIDE DEF e
  <1>7. \A n \in 1 .. m : e(n) = q[n]
    BY <1>5, <1>6
  <1>8. InOrder(S) = [n \in 1 .. m |-> q[n]]
    BY <1>6, <1>7
  <1>9. QED
    BY <1>3, <1>8

\* What is picked of a sequence is its items at those places, in their order.
LEMMA PickedIs ==
    ASSUME NEW X, NEW s \in Seq(X), NEW S \in SUBSET (1 .. Len(s))
    PROVE  /\ IsFiniteSet(S) /\ Cardinality(S) \in Nat /\ S \in SUBSET Int
           /\ Picked(s, S) \in Seq(X)
           /\ Len(Picked(s, S)) = Cardinality(S)
           /\ DOMAIN Picked(s, S) = 1 .. Cardinality(S)
           /\ \A n \in 1 .. Cardinality(S) : Picked(s, S)[n] = s[InOrder(S)[n]]
  <1>1. IsFiniteSet(S)
    <2>1. Len(s) \in Nat
      BY LenProperties
    <2>2. IsFiniteSet(1 .. Len(s))
      BY <2>1, FS_Interval
    <2>3. QED
      BY <2>2, FS_Subset
  <1>2. S \in SUBSET Int
    BY LenProperties
  <1>3. Cardinality(S) \in Nat /\ InOrder(S) \in [1 .. Cardinality(S) -> S]
    BY <1>1, <1>2, InOrderIs
  <1>4. Picked(s, S) = [n \in 1 .. Cardinality(S) |-> s[InOrder(S)[n]]]
    BY <1>3 DEF Picked
  <1>5. \A n \in 1 .. Cardinality(S) : s[InOrder(S)[n]] \in X
    BY <1>3, ElementOfSeq
  <1>6. Picked(s, S) \in [1 .. Cardinality(S) -> X]
    BY <1>4, <1>5
  <1>7. Picked(s, S) \in Seq(X) /\ Len(Picked(s, S)) = Cardinality(S)
    BY <1>3, <1>6
  <1>8. QED
    BY <1>1, <1>2, <1>3, <1>4, <1>7

\* A listing is picked from a listing: the places of the places.
LEMMA PickedPicked ==
    ASSUME NEW X, NEW s \in Seq(X), NEW D \in SUBSET (1 .. Len(s)),
           NEW E \in SUBSET (1 .. Cardinality(D)),
           NEW F \in SUBSET (1 .. Len(s)),
           \A j \in 1 .. Len(s) : j \in F <=>
              \E n \in E : InOrder(D)[n] = j
    PROVE  Picked(Picked(s, D), E) = Picked(s, F)
  <1> DEFINE t == Picked(s, D)
             d == InOrder(D)
             e == InOrder(E)
             M == Cardinality(D)
             N == Cardinality(E)
             q == [n \in 1 .. N |-> d[e[n]]]
  <1>1. /\ IsFiniteSet(D) /\ M \in Nat /\ D \in SUBSET Int
        /\ t \in Seq(X) /\ Len(t) = M
        /\ \A n \in 1 .. M : t[n] = s[d[n]]
    BY PickedIs
  <1>2. /\ IsFiniteSet(E) /\ N \in Nat /\ E \in SUBSET Int
        /\ Picked(t, E) \in Seq(X) /\ Len(Picked(t, E)) = N
        /\ \A n \in 1 .. N : Picked(t, E)[n] = t[e[n]]
    <2> HIDE DEF t
    <2>1. E \in SUBSET (1 .. Len(t))
      BY <1>1
    <2>2. QED
      BY <1>1, <2>1, PickedIs
  <1>3. /\ d \in [1 .. M -> D] /\ \A m, n \in 1 .. M : m < n => d[m] < d[n]
        /\ e \in [1 .. N -> E] /\ \A m, n \in 1 .. N : m < n => e[m] < e[n]
        /\ \A i \in E : \E n \in 1 .. N : e[n] = i
    BY <1>1, <1>2, InOrderIs
  <1> HIDE DEF t, d, e, M, N
  <1>4. \A n \in 1 .. N : e[n] \in E /\ e[n] \in 1 .. M /\ q[n] = d[e[n]] /\ q[n] \in D
    BY <1>3 DEF M
  <1>5. \A n \in 1 .. N : q[n] \in F
    BY <1>4 DEF d
  <1>6. \A i \in F : \E n \in 1 .. N : q[n] = i
    <2> SUFFICES ASSUME NEW i \in F PROVE \E n \in 1 .. N : q[n] = i
      OBVIOUS
    <2>1. PICK k \in E : d[k] = i
      BY DEF d
    <2>2. PICK n \in 1 .. N : e[n] = k
      BY <1>3
    <2>3. QED
      BY <1>4, <2>1, <2>2
  <1>7. \A m, n \in 1 .. N : m < n => q[m] < q[n]
    BY <1>3, <1>4
  <1>8. q \in [1 .. N -> F]
    BY <1>5
  <1> HIDE DEF q
  <1>9. F \in SUBSET Int
    BY LenProperties
  <1>10. Cardinality(F) = N /\ InOrder(F) = q
    BY <1>2, <1>6, <1>7, <1>8, <1>9, InOrderOnly, ZenonT(60)
  <1>11. /\ Picked(s, F) \in Seq(X) /\ Len(Picked(s, F)) = N
         /\ \A n \in 1 .. N : Picked(s, F)[n] = s[q[n]]
    BY <1>10, PickedIs
  <1>12. \A n \in 1 .. N : Picked(t, E)[n] = Picked(s, F)[n]
    <2> SUFFICES ASSUME NEW n \in 1 .. N PROVE Picked(t, E)[n] = Picked(s, F)[n]
      OBVIOUS
    <2>1. e[n] \in 1 .. M /\ q[n] = d[e[n]]
      BY <1>4
    <2>2. t[e[n]] = s[d[e[n]]]
      BY <1>1, <2>1
    <2>3. QED
      BY <1>2, <1>11, <2>1, <2>2
  <1>13. QED
    BY <1>2, <1>11, <1>12, SeqEqual DEF t

\* A listing is picked from two sequences, one behind the other.
Behind(s, D, t, E, F) ==
    /\ D \in SUBSET (1 .. Len(s)) /\ E \in SUBSET (1 .. Len(t))
    /\ F \in SUBSET (1 .. Len(s \o t))
    /\ \A j \in 1 .. Len(s) : j \in F <=> j \in D
    /\ \A j \in 1 .. Len(t) : Len(s) + j \in F <=> j \in E

LEMMA PickedBehind ==
    ASSUME NEW X, NEW s \in Seq(X), NEW t \in Seq(X), NEW D, NEW E, NEW F,
           Behind(s, D, t, E, F)
    PROVE  Picked(s \o t, F) = Picked(s, D) \o Picked(t, E)
  <1>0. /\ D \in SUBSET (1 .. Len(s)) /\ E \in SUBSET (1 .. Len(t))
        /\ F \in SUBSET (1 .. Len(s \o t))
        /\ \A j \in 1 .. Len(s) : j \in F <=> j \in D
        /\ \A j \in 1 .. Len(t) : Len(s) + j \in F <=> j \in E
    BY DEF Behind
  <1> DEFINE d == InOrder(D)
             e == InOrder(E)
             M == Cardinality(D)
             N == Cardinality(E)
             L == Len(s)
             q == [n \in 1 .. M + N |-> IF n <= M THEN d[n] ELSE L + e[n - M]]
  <1>1. /\ IsFiniteSet(D) /\ M \in Nat /\ D \in SUBSET Int
        /\ Picked(s, D) \in Seq(X) /\ Len(Picked(s, D)) = M
        /\ \A n \in 1 .. M : Picked(s, D)[n] = s[d[n]]
    BY <1>0, PickedIs
  <1>2. /\ IsFiniteSet(E) /\ N \in Nat /\ E \in SUBSET Int
        /\ Picked(t, E) \in Seq(X) /\ Len(Picked(t, E)) = N
        /\ \A n \in 1 .. N : Picked(t, E)[n] = t[e[n]]
    BY <1>0, PickedIs
  <1>3. /\ d \in [1 .. M -> D] /\ \A m, n \in 1 .. M : m < n => d[m] < d[n]
        /\ \A i \in D : \E n \in 1 .. M : d[n] = i
        /\ e \in [1 .. N -> E] /\ \A m, n \in 1 .. N : m < n => e[m] < e[n]
        /\ \A i \in E : \E n \in 1 .. N : e[n] = i
    BY <1>0, <1>1, <1>2, InOrderIs
  <1>4. /\ L \in Nat /\ Len(t) \in Nat /\ s \o t \in Seq(X) /\ Len(s \o t) = L + Len(t)
        /\ \A j \in 1 .. L + Len(t) : (s \o t)[j] = IF j <= L THEN s[j] ELSE t[j - L]
    BY ConcatProperties, LenProperties
  <1> HIDE DEF d, e, M, N
  <1>5. \A n \in 1 .. M : /\ n \in 1 .. M + N /\ q[n] = d[n] /\ d[n] \in D /\ d[n] \in 1 .. L
                          /\ (s \o t)[d[n]] = s[d[n]] /\ d[n] \in F
    <2> SUFFICES ASSUME NEW n \in 1 .. M
                 PROVE  /\ n \in 1 .. M + N /\ q[n] = d[n] /\ d[n] \in D /\ d[n] \in 1 .. L
                        /\ (s \o t)[d[n]] = s[d[n]] /\ d[n] \in F
      OBVIOUS
    <2>1. n \in 1 .. M + N /\ n <= M
      BY <1>0, <1>1, <1>2
    <2>2. d[n] \in D /\ d[n] \in 1 .. L
      BY <1>0, <1>3
    <2>3. d[n] \in 1 .. L + Len(t) /\ d[n] <= L
      BY <1>0, <1>4, <2>2
    <2>4. (s \o t)[d[n]] = s[d[n]]
      BY <1>0, <1>4, <2>3
    <2>5. QED
      BY <1>0, <2>1, <2>2, <2>4
  <1>6. \A n \in 1 .. N : /\ M + n \in 1 .. M + N /\ q[M + n] = L + e[n]
                          /\ e[n] \in E /\ e[n] \in 1 .. Len(t)
    <2> SUFFICES ASSUME NEW n \in 1 .. N
                 PROVE  /\ M + n \in 1 .. M + N /\ q[M + n] = L + e[n]
                        /\ e[n] \in E /\ e[n] \in 1 .. Len(t)
      OBVIOUS
    <2>1. M + n \in 1 .. M + N /\ ~(M + n <= M) /\ (M + n) - M = n
      BY <1>0, <1>1, <1>2
    <2>2. e[n] \in E /\ e[n] \in 1 .. Len(t)
      BY <1>0, <1>3
    <2>3. q[M + n] = L + e[n]
      BY <2>1
    <2>4. QED
      BY <2>1, <2>2, <2>3
  <1>7. \A j \in 1 .. Len(t) : L + j \in 1 .. L + Len(t) /\ ~(L + j <= L) /\ (L + j) - L = j
    BY <1>0, <1>4
  <1>8. \A n \in 1 .. N : (s \o t)[L + e[n]] = t[e[n]] /\ L + e[n] \in F
    BY <1>0, <1>4, <1>6, <1>7
  <1>9. \A k \in 1 .. M + N : k \in 1 .. M \/ \E n \in 1 .. N : k = M + n
    <2> SUFFICES ASSUME NEW k \in 1 .. M + N, k \notin 1 .. M PROVE \E n \in 1 .. N : k = M + n
      OBVIOUS
    <2>1. k - M \in 1 .. N /\ k = M + (k - M)
      BY <1>0, <1>1, <1>2
    <2>2. QED
      BY <2>1
  <1>10. \A k \in 1 .. M + N : q[k] \in F
    <2> HIDE DEF q
    <2>1. \A n \in 1 .. M : q[n] \in F
      BY <1>0, <1>5
    <2>2. \A n \in 1 .. N : q[M + n] \in F
      BY <1>0, <1>6, <1>8
    <2>3. QED
      BY <1>0, <1>9, <2>1, <2>2
  <1>11. q \in [1 .. M + N -> F]
    BY <1>0, <1>10
  <1> HIDE DEF q
  <1>12. \A j, k \in 1 .. M + N : j < k => q[j] < q[k]
    <2> SUFFICES ASSUME NEW j \in 1 .. M + N, NEW k \in 1 .. M + N, j < k PROVE q[j] < q[k]
      OBVIOUS
    <2>1. CASE j \in 1 .. M /\ k \in 1 .. M
      BY <1>0, <1>3, <1>5, <2>1
    <2>2. CASE j \in 1 .. M /\ \E n \in 1 .. N : k = M + n
      <3>1. PICK n \in 1 .. N : k = M + n
        BY <2>2
      <3>2. q[j] \in 1 .. L /\ q[k] = L + e[n] /\ e[n] \in 1 .. Len(t)
        BY <1>0, <1>5, <1>6, <2>2, <3>1
      <3>3. QED
        BY <1>0, <1>4, <3>2
    <2>3. CASE (\E n \in 1 .. N : j = M + n) /\ (\E n \in 1 .. N : k = M + n)
      <3>1. PICK m \in 1 .. N, n \in 1 .. N : j = M + m /\ k = M + n
        BY <2>3
      <3>2. m < n
        BY <1>0, <1>1, <3>1
      <3>3. e[m] < e[n] /\ e[m] \in Int /\ e[n] \in Int /\ q[j] = L + e[m] /\ q[k] = L + e[n]
        BY <1>0, <1>2, <1>3, <1>6, <3>1, <3>2
      <3>4. QED
        BY <1>0, <1>4, <3>3
    <2>4. CASE (\E n \in 1 .. N : j = M + n) /\ k \in 1 .. M
      BY <1>0, <1>1, <2>4
    <2>5. QED
      BY <1>0, <1>9, <2>1, <2>2, <2>3, <2>4
  <1>13. \A i \in F : \E k \in 1 .. M + N : q[k] = i
    <2> SUFFICES ASSUME NEW i \in F PROVE \E k \in 1 .. M + N : q[k] = i
      OBVIOUS
    <2>1. i \in 1 .. L \/ (i - L \in 1 .. Len(t) /\ i = L + (i - L))
      BY <1>0, <1>4
    <2>2. CASE i \in 1 .. L
      <3>1. PICK n \in 1 .. M : d[n] = i
        BY <1>0, <1>3, <2>2
      <3>2. QED
        BY <1>0, <1>5, <3>1
    <2>3. CASE i - L \in 1 .. Len(t) /\ i = L + (i - L)
      <3>1. i - L \in E
        BY <1>0, <2>3
      <3>2. PICK n \in 1 .. N : e[n] = i - L
        BY <1>0, <1>3, <3>1
      <3>3. QED
        BY <1>0, <1>6, <2>3, <3>2
    <2>4. QED
      BY <2>1, <2>2, <2>3
  <1>14. F \in SUBSET Int /\ M + N \in Nat
    BY <1>0, <1>1, <1>2, <1>4
  <1>15. Cardinality(F) = M + N /\ InOrder(F) = q
    BY <1>0, <1>11, <1>12, <1>13, <1>14, InOrderOnly
  <1>16. /\ Picked(s \o t, F) \in Seq(X) /\ Len(Picked(s \o t, F)) = M + N
         /\ \A n \in 1 .. M + N : Picked(s \o t, F)[n] = (s \o t)[q[n]]
    <2> DEFINE u == s \o t
    <2>1. u \in Seq(X) /\ F \in SUBSET (1 .. Len(u))
      BY <1>0, <1>4
    <2> HIDE DEF u
    <2>2. /\ Picked(u, F) \in Seq(X) /\ Len(Picked(u, F)) = Cardinality(F)
          /\ \A n \in 1 .. Cardinality(F) : Picked(u, F)[n] = u[InOrder(F)[n]]
      BY <2>1, PickedIs
    <2>3. QED
      BY <1>0, <1>15, <2>2 DEF u
  <1> DEFINE r == Picked(s, D) \o Picked(t, E)
  <1>17. /\ r \in Seq(X) /\ Len(r) = M + N
         /\ \A n \in 1 .. M + N : r[n] = IF n <= M THEN Picked(s, D)[n] ELSE Picked(t, E)[n - M]
    <2> DEFINE a == Picked(s, D)
               b == Picked(t, E)
    <2>1. a \in Seq(X) /\ b \in Seq(X) /\ Len(a) = M /\ Len(b) = N
      BY <1>0, <1>1, <1>2
    <2> HIDE DEF a, b
    <2>2. /\ a \o b \in Seq(X) /\ Len(a \o b) = M + N
          /\ \A n \in 1 .. M + N : (a \o b)[n] = IF n <= M THEN a[n] ELSE b[n - M]
      BY <2>1, ConcatProperties
    <2>3. QED
      BY <2>2 DEF a, b
  <1> HIDE DEF r
  <1>18. \A n \in 1 .. M : Picked(s \o t, F)[n] = r[n]
    <2> SUFFICES ASSUME NEW n \in 1 .. M PROVE Picked(s \o t, F)[n] = r[n]
      OBVIOUS
    <2>1. n <= M /\ n \in 1 .. M + N /\ q[n] = d[n] /\ (s \o t)[d[n]] = s[d[n]]
      BY <1>0, <1>1, <1>5
    <2>2. r[n] = s[d[n]]
      BY <1>0, <1>1, <1>17, <2>1
    <2>3. QED
      BY <1>0, <1>16, <2>1, <2>2
  <1>19. \A n \in 1 .. N : Picked(s \o t, F)[M + n] = r[M + n]
    <2> SUFFICES ASSUME NEW n \in 1 .. N PROVE Picked(s \o t, F)[M + n] = r[M + n]
      OBVIOUS
    <2>1. Picked(s \o t, F)[M + n] = t[e[n]]
      BY <1>0, <1>6, <1>8, <1>16
    <2>2. ~(M + n <= M) /\ (M + n) - M = n
      BY <1>0, <1>1
    <2>3. r[M + n] = t[e[n]]
      BY <1>0, <1>2, <1>6, <1>17, <2>2
    <2>4. QED
      BY <2>1, <2>3
  <1>20. \A n \in 1 .. M + N : Picked(s \o t, F)[n] = r[n]
    BY <1>0, <1>9, <1>18, <1>19
  <1>21. QED
    BY <1>0, <1>16, <1>17, <1>20, SeqEqual DEF r

\* Of a sequence all is picked.
LEMMA PickedAll ==
    ASSUME NEW X, NEW s \in Seq(X), NEW D, D = 1 .. Len(s) PROVE Picked(s, D) = s
  <1> DEFINE q == [n \in 1 .. Len(s) |-> n]
  <1>1. Len(s) \in Nat
    BY LenProperties
  <1>2. Cardinality(D) = Len(s) /\ InOrder(D) = q
    <2>1. q \in [1 .. Len(s) -> D] /\ D \in SUBSET Int
      BY <1>1
    <2>2. \A j, k \in 1 .. Len(s) : j < k => q[j] < q[k]
      OBVIOUS
    <2>3. \A i \in D : \E k \in 1 .. Len(s) : q[k] = i
      OBVIOUS
    <2> HIDE DEF q
    <2>4. QED
      BY <1>1, <2>1, <2>2, <2>3, InOrderOnly
  <1>3. /\ Picked(s, D) \in Seq(X) /\ Len(Picked(s, D)) = Len(s)
        /\ \A n \in 1 .. Len(s) : Picked(s, D)[n] = s[n]
    BY <1>2, PickedIs
  <1>4. QED
    BY <1>3, SeqEqual

-----------------------------------------------------------------------------
(* The databases of the dashboard *)

\* A card that shows a DSN has one that is stored; a modal and a registration
\* are of a database, and a registration is of a user.
DbSound ==
    /\ db.modal # NoModal => db.modal.db \in Dbs
    /\ db.reg # NoReg => db.reg.db \in Dbs /\ db.reg.user \in Owners
    /\ \A d \in Dbs : db.card[d].dsn # None => db.saved[d].dsn # None

DbInv == DbShownIsSaved /\ DbSound

LEMMA DbStart == DbInit => DbInv
  BY WebAssumption, DbPanelAssumption
     DEF DbInit, Mounted, Unconfigured, NoReg, NoModal, DbInv, DbSound,
         DbShownIsSaved, DbTypeOK, Dbs, Someone

LEMMA DbKeeps == DbInv /\ DbNext => DbInv'
  <1> SUFFICES ASSUME DbInv, DbNext PROVE DbInv'
    OBVIOUS
  <1> DEFINE Status == {"managed", "byod", "configure"}
             Card == [status : Status, dsn : Someone]
             Saved == [mode : {"managed", "byod", None}, dsn : Someone]
  <1>0. /\ DbTypeOK /\ DbShownIsSaved /\ DbSound
        /\ db.card \in [Dbs -> Card] /\ db.saved \in [Dbs -> Saved]
        /\ None \in Someone /\ Owners \subseteq Someone
        /\ Unconfigured \in [Dbs -> Card]
    BY DEF DbInv, DbShownIsSaved, DbTypeOK, Unconfigured, Someone
  <1> USE WebAssumption, DbPanelAssumption DEF DbInv
  <1>m. ASSUME NEW u \in Owners, NEW L \in SUBSET [db : Dbs, user : Owners],
               db' = Mounted(u, db.saved, L)
        PROVE  DbInv'
    BY <1>0, <1>m DEF Mounted, Unconfigured, NoReg, NoModal,
       DbSound, DbShownIsSaved, DbTypeOK, Dbs, Someone
  <1>1. ASSUME NEW u \in Owners, DbArrive(u) \/ DbReturn(u) PROVE DbInv'
    <2>1. CASE DbArrive(u)
      BY <2>1, <1>m DEF DbArrive
    <2>2. CASE DbReturn(u)
      <3>1. db.reg \in [db : Dbs \cup {None}, user : Someone]
        BY <1>0 DEF DbTypeOK
      <3>2. {db.reg} \ {NoReg} \subseteq [db : Dbs, user : Owners]
        BY <1>0, <3>1 DEF DbSound
      <3>3. db.left \cup ({db.reg} \ {NoReg}) \in SUBSET [db : Dbs, user : Owners]
        BY <1>0, <3>2 DEF DbTypeOK
      <3>4. QED
        BY <2>2, <3>3, <1>m DEF DbReturn
    <2>3. QED
      BY <1>1, <2>1, <2>2
  <1>2. ASSUME NEW u \in Someone, DbHear(u) PROVE DbInv'
    <2>1. u # None => db.loads + 1 \in 0 .. MaxCalls + 1
      BY <1>0, <1>2 DEF DbHear, DbTypeOK
    <2>2. DbTypeOK'
      BY <1>0, <1>2, <2>1 DEF DbHear, DbTypeOK
    <2>3. QED
      BY <1>0, <1>2, <2>2 DEF DbHear, DbTypeOK, DbShownIsSaved, DbSound, Unconfigured, Someone
  <1>3. CASE DbLoaded
    <2>1. [d \in Dbs |-> [status |-> Restored(db.saved, d), dsn |-> db.saved[d].dsn]]
             \in [Dbs -> Card]
      BY <1>0 DEF Restored, Dbs
    <2>2. db.loads - 1 \in 0 .. MaxCalls + 1
      BY <1>0, <1>3 DEF DbLoaded, DbTypeOK
    <2>3. DbTypeOK'
      BY <1>0, <1>3, <2>1, <2>2 DEF DbLoaded, DbTypeOK
    <2>4. QED
      BY <1>0, <1>3, <2>3 DEF DbLoaded, DbTypeOK, DbShownIsSaved, DbSound, Dbs
  <1>4. CASE DbCloseAuth \/ DbClose
    <2>1. CASE DbCloseAuth
      BY <1>0, <2>1 DEF DbCloseAuth, DbTypeOK, DbShownIsSaved, DbSound
    <2>2. CASE DbClose
      <3>1. DbTypeOK'
        BY <1>0, <2>2 DEF DbClose, NoModal, DbTypeOK
      <3>2. QED
        BY <1>0, <2>2, <3>1 DEF DbClose, DbTypeOK, DbShownIsSaved, DbSound
    <2>3. QED
      BY <1>4, <2>1, <2>2
  <1>5. CASE DbToggle
    <2> DEFINE d == db.modal.db
               new == IF db.card[d].status = "managed" THEN "byod" ELSE "managed"
    <2>1. /\ d \in Dbs
          /\ db' = [db EXCEPT !.card[d].status = new, !.saved[d].mode = new]
      BY <1>0, <1>5 DEF DbToggle, DetailShown, DbSound
    <2> HIDE DEF d
    <2>2. /\ [db.card EXCEPT ![d].status = new] \in [Dbs -> Card]
          /\ [db.saved EXCEPT ![d].mode = new] \in [Dbs -> Saved]
      BY <1>0, <2>1
    <2>3. DbTypeOK'
      BY <1>0, <2>1, <2>2 DEF DbTypeOK
    <2>4. /\ \A c \in Dbs : /\ db'.card[c].dsn = db.card[c].dsn
                            /\ db'.saved[c].dsn = db.saved[c].dsn
          /\ \A c \in Dbs \ {d} : db'.card[c] = db.card[c] /\ db'.saved[c] = db.saved[c]
          /\ db'.card[d].status = new /\ db'.saved[d].mode = new
      BY <1>0, <2>1 DEF DbTypeOK
    <2>5. db'.modal = db.modal /\ db'.reg = db.reg /\ db'.user = db.user /\ db'.loads = db.loads
      BY <1>0, <2>1 DEF DbTypeOK
    <2>6. QED
      BY <1>0, <2>1, <2>3, <2>4, <2>5 DEF DbShownIsSaved, DbSound, Restored, Dbs
  <1>6. CASE DbRegister
    BY <1>0, <1>6 DEF DbRegister, CanRegister, DetailShown, DbTypeOK, DbShownIsSaved, DbSound, Someone
  <1>7. CASE DbRegistered
    <2> DEFINE d == db.reg.db
    <2>1. d \in Dbs /\ db.reg.user \in Someone /\ db.reg.user # None
      BY <1>0, <1>7 DEF DbRegistered, DbSound
    <2> HIDE DEF d
    <2>2. /\ [db.card EXCEPT ![d] = [status |-> "byod", dsn |-> db.reg.user]] \in [Dbs -> Card]
          /\ [db.saved EXCEPT ![d] = [mode |-> "byod", dsn |-> db.reg.user]] \in [Dbs -> Saved]
      BY <1>0, <2>1
    <2>3. DbTypeOK'
      BY <1>0, <1>7, <2>2 DEF DbRegistered, DbTypeOK, NoModal, NoReg, d
    <2>4. QED
      BY <1>0, <1>7, <2>1, <2>3, ZenonT(60) DEF DbRegistered, DbTypeOK, DbShownIsSaved, DbSound, Restored, d, NoReg, NoModal, Dbs
  <1>8. CASE DbRefused
    BY <1>0, <1>8 DEF DbRefused, NoReg, DbTypeOK, DbShownIsSaved, DbSound
  <1>9. ASSUME NEW d \in Dbs, DbCardClick(d) PROVE DbInv'
    BY <1>0, <1>9 DEF DbCardClick, CardsReachable, DetailShown, DbTypeOK, DbShownIsSaved, DbSound
  <1>10. ASSUME NEW b \in BOOLEAN, DbType(b) PROVE DbInv'
    BY <1>0, <1>10 DEF DbType, DbTypeOK, DbShownIsSaved, DbSound
  <1>11. CASE DbLeftEnds
    <2>1. PICK r \in db.left :
             \/ db' = [db EXCEPT !.left = @ \ {r}, !.behind = @ \cup {r.db},
                                 !.saved[r.db] = [mode |-> "byod", dsn |-> r.user]]
             \/ db' = [db EXCEPT !.left = @ \ {r}]
      BY <1>11 DEF DbLeftEnds
    <2>2. r.db \in Dbs /\ r.user \in Someone /\ r.user # None
      BY <1>0, <2>1 DEF DbTypeOK
    <2>3. CASE db' = [db EXCEPT !.left = @ \ {r}]
      BY <1>0, <2>3 DEF DbTypeOK, DbShownIsSaved, DbSound
    <2>4. CASE db' = [db EXCEPT !.left = @ \ {r}, !.behind = @ \cup {r.db},
                                !.saved[r.db] = [mode |-> "byod", dsn |-> r.user]]
      <3> DEFINE saved == [db.saved EXCEPT ![r.db] = [mode |-> "byod", dsn |-> r.user]]
      <3>1. /\ saved \in [Dbs -> Saved]
            /\ saved[r.db] = [mode |-> "byod", dsn |-> r.user]
            /\ \A c \in Dbs \ {r.db} : saved[c] = db.saved[c]
        BY <1>0, <2>2
      <3> HIDE DEF saved
      <3>2. /\ db' = [db EXCEPT !.left = @ \ {r}, !.behind = @ \cup {r.db}, !.saved = saved]
            /\ db'.behind = db.behind \cup {r.db} /\ db'.saved = saved
            /\ db'.card = db.card /\ db'.user = db.user /\ db'.loads = db.loads
            /\ db'.modal = db.modal /\ db'.reg = db.reg
        BY <1>0, <2>4 DEF DbTypeOK, saved
      <3>3. DbTypeOK'
        BY <1>0, <2>2, <3>1, <3>2 DEF DbTypeOK
      <3>4. QED
        BY <1>0, <2>2, <3>1, <3>2, <3>3 DEF DbShownIsSaved, DbSound, Restored, Dbs
    <2>5. QED
      BY <2>1, <2>3, <2>4
  <1>12. QED
    BY <1>1, <1>2, <1>3, <1>4, <1>5, <1>6, <1>7, <1>8, <1>9, <1>10, <1>11 DEF DbNext

\* A mode that needs a DSN without one is saved by the switch alone.
LEMMA DbTold ==
    ASSUME DbInv, DbNext, NEW d \in Dbs,
           db'.saved[d].mode = "byod", db'.saved[d].dsn = None,
           db.saved[d].mode # "byod"
    PROVE  DetailShown /\ db.modal.db = d /\ db.input
  <1>0. DbTypeOK /\ DbSound /\ db.saved \in [Dbs -> [mode : {"managed", "byod", None}, dsn : Someone]]
    BY DEF DbInv, DbShownIsSaved, DbTypeOK
  <1>1. ASSUME NEW u \in Owners, DbArrive(u) \/ DbReturn(u) PROVE FALSE
    BY <1>0, <1>1 DEF DbArrive, DbReturn, Mounted
  <1>2. ASSUME NEW u \in Someone, DbHear(u) PROVE FALSE
    BY <1>0, <1>2 DEF DbHear, DbTypeOK
  <1>3. CASE DbLoaded \/ DbCloseAuth \/ DbClose \/ DbRegister \/ DbRefused
    BY <1>0, <1>3 DEF DbLoaded, DbCloseAuth, DbClose, DbRegister, DbRefused, DbTypeOK
  <1>4. CASE DbToggle
    <2> DEFINE c == db.modal.db
               new == IF db.card[c].status = "managed" THEN "byod" ELSE "managed"
    <2>1. /\ DetailShown /\ c \in Dbs
          /\ new = "byod" => \/ db.saved[c].dsn # None \/ db.card[c].dsn # None
                             \/ db.input
          /\ db' = [db EXCEPT !.card[c].status = new, !.saved[c].mode = new]
      BY <1>0, <1>4 DEF DbToggle, DetailShown, DbSound
    <2>2. db'.saved = [db.saved EXCEPT ![c].mode = new]
      BY <1>0, <2>1 DEF DbTypeOK
    <2>3. c = d /\ new = "byod" /\ db.saved[d].dsn = None
      BY <1>0, <2>1, <2>2
    <2>4. QED
      BY <1>0, <2>1, <2>3 DEF DbSound
  <1>5. CASE DbRegistered
    <2>1. db.reg.user # None /\ db'.saved = [db.saved EXCEPT ![db.reg.db] = [mode |-> "byod", dsn |-> db.reg.user]]
      BY <1>0, <1>5, DbPanelAssumption, WebAssumption DEF DbRegistered, DbSound, DbTypeOK
    <2>2. QED
      BY <1>0, <2>1
  <1>6. ASSUME NEW c \in Dbs, DbCardClick(c) PROVE FALSE
    BY <1>0, <1>6 DEF DbCardClick, DbTypeOK
  <1>7. ASSUME NEW b \in BOOLEAN, DbType(b) PROVE FALSE
    BY <1>0, <1>7 DEF DbType, DbTypeOK
  <1>8. CASE DbLeftEnds
    <2>1. PICK r \in db.left :
             \/ db' = [db EXCEPT !.left = @ \ {r}, !.behind = @ \cup {r.db},
                                 !.saved[r.db] = [mode |-> "byod", dsn |-> r.user]]
             \/ db' = [db EXCEPT !.left = @ \ {r}]
      BY <1>8 DEF DbLeftEnds
    <2>2. r.user # None
      BY <1>0, <2>1, DbPanelAssumption, WebAssumption DEF DbTypeOK
    <2>3. \/ db'.saved = db.saved
          \/ db'.saved = [db.saved EXCEPT ![r.db] = [mode |-> "byod", dsn |-> r.user]]
      BY <1>0, <2>1 DEF DbTypeOK
    <2>4. QED
      BY <1>0, <2>2, <2>3
  <1>9. QED
    BY <1>1, <1>2, <1>3, <1>4, <1>5, <1>6, <1>7, <1>8 DEF DbNext

-----------------------------------------------------------------------------
(* The script of a database *)

ScInv == ScTypeOK

LEMMA ScStart == ScInit => ScInv
  BY WebAssumption DEF ScInit, ScMounted, Still, ScInv, ScTypeOK, Tenants

LEMMA ScKeeps == ScInv /\ ScNext => ScInv'
  <1> SUFFICES ASSUME ScInv, ScNext PROVE ScInv'
    OBVIOUS
  <1> USE WebAssumption DEF ScInv, Tenants
  <1>0. sc.loads \in [Users -> 0 .. MaxCalls + 1]
    BY DEF ScTypeOK
  <1>1. ASSUME NEW u \in Users, ScArrive(u) PROVE ScInv'
    BY <1>1 DEF ScArrive, ScMounted, ScTypeOK, Still
  <1>2. ASSUME NEW u \in Users, ScSized(u) PROVE ScInv'
    <2>1. [sc.loads EXCEPT ![u] = @ - 1] \in [Users -> 0 .. MaxCalls + 1]
      BY <1>0, <1>2 DEF ScSized
    <2>2. PICK size \in {u, None} : sc' = [sc EXCEPT !.loads[u] = @ - 1, !.size = size]
      BY <1>2 DEF ScSized
    <2>3. QED
      BY <2>1, <2>2 DEF ScTypeOK
  <1>3. ASSUME NEW u \in Tenants, ScUnheard(u) PROVE ScInv'
    BY <1>3 DEF ScUnheard, ScTypeOK
  <1>4. ASSUME NEW u \in Tenants, ScHear(u) PROVE ScInv'
    <2>1. CASE u = None
      BY <1>4, <2>1 DEF ScHear, ScTypeOK
    <2>2. CASE u # None
      <3>1. [sc.loads EXCEPT ![u] = @ + 1] \in [Users -> 0 .. MaxCalls + 1]
        BY <1>0, <1>4, <2>2 DEF ScHear
      <3>2. QED
        BY <1>4, <2>2, <3>1 DEF ScHear, ScTypeOK
    <2>3. QED
      BY <2>1, <2>2
  <1>5. ASSUME NEW s \in {"none", "blank", "sql"}, ScType(s) PROVE ScInv'
    BY <1>5 DEF ScType, ScTypeOK
  <1>6. CASE ScOpen
    BY <1>6 DEF ScOpen, ScTypeOK
  <1>7. CASE ScClose
    BY <1>7 DEF ScClose, ScTypeOK
  <1>8. CASE ScExecute
    BY <1>8 DEF ScExecute, CanExecute, ScTypeOK
  <1>9. CASE ScScriptDone
    BY <1>9 DEF ScScriptDone, Reaches, ScTypeOK
  <1>10. CASE ScScriptFailed
    <2>1. PICK ran \in BOOLEAN : sc' = [sc EXCEPT !.told = "failed", !.ran = ran, !.run = Still]
      BY <1>10 DEF ScScriptFailed
    <2>2. QED
      BY <2>1 DEF Still, ScTypeOK
  <1>11. CASE ScSizeDone
    <2>1. PICK size \in {sc.size} \cup ({sc.run.tenant} \ {None}) :
             sc' = [sc EXCEPT !.size = size, !.run = Still]
      BY <1>11 DEF ScSizeDone
    <2>2. size \in Users \cup {None}
      BY <2>1 DEF ScTypeOK
    <2>3. QED
      BY <2>1, <2>2 DEF Still, ScTypeOK
  <1>12. CASE ScSizeFailed
    BY <1>12 DEF ScSizeFailed, Still, ScTypeOK
  <1>13. QED
    BY <1>1, <1>2, <1>3, <1>4, <1>5, <1>6, <1>7, <1>8, <1>9, <1>10, <1>11, <1>12
       DEF ScNext

-----------------------------------------------------------------------------
(* The download of a client *)

\* Only postgres has columns, and what is delivered is a configuration or live.
DnInv ==
    /\ dn \in [step : {"none", "config", "columns"},
               db : {"none", "postgres", "redis", "mysql", "mongodb", "vector"},
               config : {"none", "fetched", "invented"}, tenant : Users \cup {None},
               file : {"none", "fetched", "invented", "live"}]
    /\ dn.step # "none" => dn.file = "none"
    /\ dn.step = "columns" => dn.db = "postgres" /\ dn.config # "none"
    /\ DnDelivered

LEMMA DnStart == DnInit => DnInv
  BY DEF DnInit, DnIdle, DnInv, DnDelivered

LEMMA DnKeeps == DnInv /\ DnNext => DnInv'
  <1> SUFFICES ASSUME DnInv, DnNext PROVE DnInv'
    OBVIOUS
  <1> USE DEF DnInv, DnDelivered, DnIdle, DnFromConfig
  <1>1. ASSUME NEW d \in {"postgres", "redis", "mysql", "mongodb", "vector"}, DnClick(d)
        PROVE  DnInv'
    BY <1>1 DEF DnClick
  <1>2. CASE DnConfigured
    <2>1. PICK c \in {"fetched", "invented"}, u \in Users \cup {None} :
             dn' = IF dn.db = "postgres"
                   THEN [dn EXCEPT !.step = "columns", !.config = c, !.tenant = u]
                   ELSE [dn EXCEPT !.step = "none", !.config = c, !.file = c]
      BY <1>2 DEF DnConfigured
    <2>2. CASE dn.db = "postgres"
      BY <1>2, <2>1, <2>2 DEF DnConfigured
    <2>3. CASE dn.db # "postgres"
      BY <2>1, <2>3
    <2>4. QED
      BY <2>2, <2>3
  <1>3. CASE DnColumns
    BY <1>3 DEF DnColumns
  <1>4. QED
    BY <1>1, <1>2, <1>3 DEF DnNext

-----------------------------------------------------------------------------
(* The API keys *)

KpDels == [key : KeyIds, served : BOOLEAN, waits : BOOLEAN]

KpAll == [live : SUBSET (0 .. MaxKeys), rows : Seq(KeyIds),
           list : {"sent", "served", "done"}, snap : SUBSET (0 .. MaxKeys),
           create : [Creations -> {"unused", "sent", "made", "late", "done"}],
           del : SUBSET KpDels, modal : BOOLEAN, typed : BOOLEAN,
           shown : KeyIds \cup {None}, copied : BOOLEAN,
           timers : 0 .. MaxCalls, early : BOOLEAN, failed : BOOLEAN]

\* No item comes twice.
Once(rows) == \A m, n \in DOMAIN rows : rows[m] = rows[n] => m = n

\* What there is before the list is answered, when nothing was started.
KpWaiting ==
    /\ kp.live = {0} /\ kp.rows = <<>> /\ kp.del = {}
    /\ kp.list = "served" => kp.snap = {0}
    /\ \A i \in Creations : kp.create[i] = "unused"

\* Where the rows and the keys of the server differ: a key that was made is not
\* shown until its call is answered, and a key that was revoked is shown until
\* then; a key that is to be made is nowhere.
KpTogether ==
    LET shown == ToSet(kp.rows) IN
    /\ Once(kp.rows)
    /\ \A i \in Creations : kp.create[i] # "late"
    /\ \A k \in kp.live : k \in shown \/ (k \in Creations /\ kp.create[k] = "made")
    /\ \A k \in shown : k \in kp.live \/ \E d \in kp.del : d.served /\ d.key = k
    /\ \A d \in kp.del : d.waits /\ (d.served => d.key \notin kp.live)
    /\ \A i \in Creations : kp.create[i] \in {"unused", "sent", "made"} =>
          /\ i \notin shown /\ \A d \in kp.del : d.key # i
          /\ i \in kp.live <=> kp.create[i] = "made"

KpInv ==
    /\ KpTypeOK
    /\ ~kp.early /\ ~kp.failed =>
          IF kp.list = "done" THEN KpTogether ELSE KpWaiting

LEMMA KpTyped == KpTypeOK <=> kp \in KpAll
  BY DEF KpTypeOK, KpAll, KpDels

LEMMA KpIds ==
    /\ Creations \subseteq KeyIds /\ 0 .. MaxKeys \subseteq KeyIds
    /\ Creations \subseteq 0 .. MaxKeys /\ \A i \in Creations : -i \in KeyIds
    /\ 0 \in 0 .. MaxKeys
  BY KeysPanelAssumption DEF Creations, KeyIds

\* A row in front of the others.
LEMMA RowAdded ==
    ASSUME NEW X, NEW s \in Seq(X), NEW x \in X
    PROVE  /\ <<x>> \o s \in Seq(X) /\ ToSet(<<x>> \o s) = ToSet(s) \cup {x}
           /\ Once(s) /\ x \notin ToSet(s) => Once(<<x>> \o s)
  <1> DEFINE t == <<x>> \o s
  <1>1. /\ t \in Seq(X) /\ Len(s) \in Nat /\ Len(t) = Len(s) + 1
        /\ DOMAIN s = 1 .. Len(s) /\ DOMAIN t = 1 .. Len(s) + 1
        /\ \A n \in 1 .. Len(s) + 1 : t[n] = IF n = 1 THEN x ELSE s[n - 1]
    <2>1. <<x>> \in Seq(X) /\ Len(<<x>>) = 1 /\ <<x>>[1] = x
      OBVIOUS
    <2>2. /\ t \in Seq(X) /\ Len(t) = 1 + Len(s)
          /\ \A n \in 1 .. 1 + Len(s) : t[n] = IF n <= 1 THEN <<x>>[n] ELSE s[n - 1]
      BY <2>1, ConcatProperties
    <2>3. Len(s) \in Nat /\ DOMAIN s = 1 .. Len(s) /\ DOMAIN t = 1 .. Len(t)
      BY <2>2, LenProperties
    <2> HIDE DEF t
    <2>4. QED
      BY <2>1, <2>2, <2>3
  <1> HIDE DEF t
  <1>2. \A n \in 1 .. Len(s) : n + 1 \in DOMAIN t /\ t[n + 1] = s[n]
    BY <1>1
  <1>3. \A n \in DOMAIN t : (n = 1 /\ t[n] = x) \/ (n - 1 \in DOMAIN s /\ t[n] = s[n - 1])
    <2> SUFFICES ASSUME NEW n \in 1 .. Len(s) + 1, n # 1
                 PROVE  n - 1 \in 1 .. Len(s) /\ t[n] = s[n - 1]
      BY <1>1
    <2>1. n - 1 \in 1 .. Len(s)
      BY <1>1
    <2>2. QED
      BY <1>1, <2>1
  <1>4. 1 \in DOMAIN t /\ t[1] = x
    BY <1>1
  <1>5. ToSet(t) = ToSet(s) \cup {x}
    <2>1. ASSUME NEW y \in ToSet(t) PROVE y \in ToSet(s) \cup {x}
      <3>1. PICK n \in DOMAIN t : y = t[n]
        BY DEF ToSet
      <3>2. QED
        BY <1>3, <3>1 DEF ToSet
    <2>2. ASSUME NEW y \in ToSet(s) PROVE y \in ToSet(t)
      <3>1. PICK n \in DOMAIN s : y = s[n]
        BY DEF ToSet
      <3>2. n + 1 \in DOMAIN t /\ y = t[n + 1]
        BY <1>1, <1>2, <3>1
      <3>3. QED
        BY <3>2 DEF ToSet
    <2>3. x \in ToSet(t)
      BY <1>4 DEF ToSet
    <2>4. QED
      BY <2>1, <2>2, <2>3
  <1>6. ASSUME Once(s), x \notin ToSet(s), NEW m \in DOMAIN t, NEW n \in DOMAIN t, t[m] = t[n]
        PROVE  m = n
    <2>1. \A k \in DOMAIN s : s[k] # x
      BY <1>6 DEF ToSet
    <2>2. m \in Int /\ n \in Int
      BY <1>1
    <2>3. CASE m = 1
      BY <1>3, <1>4, <1>6, <2>1, <2>3
    <2>4. CASE n = 1
      BY <1>3, <1>4, <1>6, <2>1, <2>4
    <2>5. CASE m # 1 /\ n # 1
      <3>1. m - 1 \in DOMAIN s /\ n - 1 \in DOMAIN s /\ s[m - 1] = s[n - 1]
        BY <1>3, <1>6, <2>5
      <3>2. m - 1 = n - 1
        BY <1>6, <3>1 DEF Once
      <3>3. QED
        BY <2>2, <3>2
    <2>6. QED
      BY <2>3, <2>4, <2>5
  <1>7. QED
    BY <1>1, <1>5, <1>6 DEF t, Once

Others(s, x) == {n \in DOMAIN s : s[n] # x}

\* The rows of a key are taken out.
LEMMA RowGone ==
    ASSUME NEW X, NEW s \in Seq(X), NEW x,
           NEW t, t = Picked(s, Others(s, x))
    PROVE  /\ t \in Seq(X) /\ ToSet(t) = ToSet(s) \ {x}
           /\ Once(s) => Once(t)
  <1> DEFINE S == {n \in DOMAIN s : s[n] # x}
             N == Cardinality(S)
             q == InOrder(S)
  <1>1. DOMAIN s = 1 .. Len(s) /\ S \in SUBSET (1 .. Len(s))
    BY LenProperties
  <1>9. t = Picked(s, S)
    BY DEF Others
  <1>2. /\ t \in Seq(X) /\ DOMAIN t = 1 .. N /\ N \in Nat
        /\ \A n \in 1 .. N : t[n] = s[q[n]]
        /\ IsFiniteSet(S) /\ S \in SUBSET Int
    BY <1>1, <1>9, PickedIs
  <1>3. /\ q \in [1 .. N -> S]
        /\ \A m, n \in 1 .. N : m < n => q[m] < q[n]
        /\ \A i \in S : \E n \in 1 .. N : q[n] = i
    BY <1>2, InOrderIs
  <1>4. \A n \in S : n \in DOMAIN s /\ s[n] # x
    OBVIOUS
  <1>5. \A n \in DOMAIN s : s[n] # x => n \in S
    OBVIOUS
  <1> HIDE DEF q, N
  <1>6. ToSet(t) = ToSet(s) \ {x}
    <2>1. \A n \in DOMAIN t : q[n] \in DOMAIN s /\ t[n] = s[q[n]] /\ t[n] # x
      BY <1>2, <1>3, <1>4
    <2>2. \A n \in DOMAIN s : s[n] # x => \E k \in DOMAIN t : t[k] = s[n]
      <3> HIDE DEF S
      <3> SUFFICES ASSUME NEW n \in DOMAIN s, s[n] # x PROVE \E k \in DOMAIN t : t[k] = s[n]
        OBVIOUS
      <3>1. PICK k \in 1 .. N : q[k] = n
        BY <1>3, <1>5
      <3>2. QED
        BY <1>2, <3>1
    <2> HIDE DEF S
    <2>3. ASSUME NEW y \in ToSet(t) PROVE y \in ToSet(s) \ {x}
      <3>1. PICK n \in DOMAIN t : y = t[n]
        BY DEF ToSet
      <3>2. q[n] \in DOMAIN s /\ y = s[q[n]] /\ y # x
        BY <2>1, <3>1
      <3>3. QED
        BY <3>2 DEF ToSet
    <2>4. ASSUME NEW y \in ToSet(s), y # x PROVE y \in ToSet(t)
      <3>1. PICK n \in DOMAIN s : y = s[n]
        BY DEF ToSet
      <3>2. QED
        BY <2>2, <2>4, <3>1 DEF ToSet
    <2>5. QED
      BY <2>3, <2>4
  <1>7. ASSUME Once(s), NEW m \in DOMAIN t, NEW n \in DOMAIN t, t[m] = t[n] PROVE m = n
    <2>1. q[m] \in S /\ q[n] \in S /\ s[q[m]] = s[q[n]]
      BY <1>2, <1>3, <1>7
    <2>2. q[m] = q[n]
      BY <1>4, <1>7, <2>1 DEF Once
    <2>3. m \in 1 .. N /\ n \in 1 .. N /\ q[m] \in Int
      BY <1>2, <2>1
    <2>4. ~(m < n) /\ ~(n < m)
      BY <1>3, <2>2, <2>3
    <2>5. QED
      BY <1>2, <2>3, <2>4
  <1>8. QED
    BY <1>2, <1>6, <1>7 DEF Once

\* The rows of a listing.
LEMMA RowsListed ==
    ASSUME NEW S \in SUBSET Nat, IsFiniteSet(S), NEW t, t = Reverse(InOrder(S))
    PROVE  t \in Seq(S) /\ ToSet(t) = S /\ Once(t)
  <1> DEFINE N == Cardinality(S)
             q == InOrder(S)
  <1>1. S \in SUBSET Int
    OBVIOUS
  <1>2. /\ N \in Nat /\ q \in [1 .. N -> S]
        /\ \A m, n \in 1 .. N : m < n => q[m] < q[n]
        /\ \A i \in S : \E n \in 1 .. N : q[n] = i
    BY <1>1, InOrderIs
  <1> HIDE DEF q, N
  <1>3. Len(q) = N
    BY <1>2
  <1>4. t = [n \in 1 .. N |-> q[N - n + 1]]
    BY <1>3 DEF Reverse, q
  <1>5. \A n \in 1 .. N : N - n + 1 \in 1 .. N /\ N - (N - n + 1) + 1 = n
    BY <1>2
  <1>6. t \in [1 .. N -> S] /\ DOMAIN t = 1 .. N
    BY <1>2, <1>4, <1>5
  <1>7. t \in Seq(S)
    BY <1>2, <1>6
  <1>8. ToSet(t) = S
    <2>1. \A i \in S : \E n \in 1 .. N : t[n] = i
      <3> SUFFICES ASSUME NEW i \in S PROVE \E n \in 1 .. N : t[n] = i
        OBVIOUS
      <3>1. PICK n \in 1 .. N : q[n] = i
        BY <1>2
      <3>2. t[N - n + 1] = i /\ N - n + 1 \in 1 .. N
        BY <1>4, <1>5, <3>1
      <3>3. QED
        BY <3>2
    <2>2. QED
      BY <1>6, <2>1 DEF ToSet
  <1>9. ASSUME NEW m \in 1 .. N, NEW n \in 1 .. N, t[m] = t[n] PROVE m = n
    <2>1. q[N - m + 1] = q[N - n + 1] /\ q[N - m + 1] \in Int
      <3>1. N - m + 1 \in 1 .. N /\ N - n + 1 \in 1 .. N
        BY <1>5
      <3>2. q[N - m + 1] \in S /\ q[N - m + 1] = t[m] /\ q[N - n + 1] = t[n]
        BY <1>2, <1>4, <3>1
      <3>3. QED
        BY <1>1, <1>9, <3>2
    <2>2. ~(N - m + 1 < N - n + 1) /\ ~(N - n + 1 < N - m + 1)
      BY <1>2, <1>5, <2>1
    <2>3. QED
      BY <1>2, <2>2
  <1>10. QED
    BY <1>6, <1>7, <1>8, <1>9 DEF Once

\* As many items as places.
LEMMA RowsCounted ==
    ASSUME NEW X, NEW s \in Seq(X), Once(s)
    PROVE  Cardinality(ToSet(s)) = Len(s)
  <1>1. Len(s) \in Nat /\ DOMAIN s = 1 .. Len(s) /\ s \in [1 .. Len(s) -> ToSet(s)]
    BY LenProperties DEF ToSet
  <1>2. s \in Bijection(1 .. Len(s), ToSet(s))
    BY <1>1 DEF Once, ToSet, Bijection, Injection, Surjection, IsInjective
  <1>3. QED
    BY <1>1, <1>2, FS_CountingElements DEF ExistsBijection

\* What a step leaves of the page is enough for its invariant.
LEMMA KpStays ==
    ASSUME KpInv, kp' \in KpAll,
           UNCHANGED <<kp.live, kp.rows, kp.list, kp.snap, kp.create, kp.del, kp.early, kp.failed>>
    PROVE  KpInv'
  <1>1. KpTypeOK'
    BY DEF KpTypeOK, KpAll, KpDels
  <1>2. KpTogether' = KpTogether /\ KpWaiting' = KpWaiting
    BY DEF KpTogether, KpWaiting
  <1>3. QED
    BY <1>1, <1>2 DEF KpInv

LEMMA KpStart == KpInit => KpInv
  <1> SUFFICES ASSUME KpInit PROVE KpInv
    OBVIOUS
  <1> DEFINE new == [i \in Creations |-> "unused"]
  <1>1. /\ new \in [Creations -> {"unused", "sent", "made", "late", "done"}]
        /\ \A i \in Creations : new[i] = "unused"
    OBVIOUS
  <1>2. kp = [live |-> {0}, rows |-> <<>>, list |-> "sent", snap |-> {},
     create |-> new, del |-> {}, modal |-> FALSE,
     typed |-> FALSE, shown |-> None, copied |-> FALSE, timers |-> 0,
     early |-> FALSE, failed |-> FALSE]
    BY DEF KpInit
  <1> HIDE DEF new
  <1>3. 0 \in 0 .. MaxCalls /\ {0} \in SUBSET (0 .. MaxKeys)
    BY KpIds, WebAssumption
  <1>4. kp \in KpAll
    BY <1>1, <1>2, <1>3 DEF KpAll
  <1>5. QED
    BY <1>1, <1>2, <1>4, KpTyped DEF KpInv, KpWaiting

LEMMA KpKeeps == KpInv /\ KpNext => KpInv'
  <1> SUFFICES ASSUME KpInv, KpNext PROVE KpInv'
    OBVIOUS
  <1>0. kp \in KpAll /\ (KpTypeOK' <=> kp' \in KpAll)
    BY KpTyped DEF KpInv, KpTypeOK, KpAll, KpDels
  \* What only the modal and the copy button see.
  <1>a. ASSUME NEW modal \in BOOLEAN, NEW typed \in BOOLEAN,
               NEW shown \in KeyIds \cup {None}, NEW copied \in BOOLEAN,
               NEW timers \in 0 .. MaxCalls,
               kp' = [kp EXCEPT !.modal = modal, !.typed = typed, !.shown = shown,
                                !.copied = copied, !.timers = timers]
        PROVE  KpInv'
    <2>1. kp' \in KpAll
      BY <1>0, <1>a DEF KpAll
    <2>2. QED
      BY <1>0, <1>a, <2>1, KpStays DEF KpAll
  <1>b. /\ kp.modal \in BOOLEAN /\ kp.typed \in BOOLEAN /\ kp.shown \in KeyIds \cup {None}
        /\ kp.copied \in BOOLEAN /\ kp.timers \in 0 .. MaxCalls
        /\ kp.early \in BOOLEAN /\ kp.failed \in BOOLEAN
        /\ kp.live \in SUBSET (0 .. MaxKeys) /\ kp.rows \in Seq(KeyIds)
        /\ kp.snap \in SUBSET (0 .. MaxKeys) /\ kp.del \in SUBSET KpDels
        /\ kp.create \in [Creations -> {"unused", "sent", "made", "late", "done"}]
        /\ kp.list \in {"sent", "served", "done"}
    BY <1>0 DEF KpAll
  <1>1. CASE KpOpen
    <2>1. kp' = [kp EXCEPT !.modal = TRUE, !.typed = kp.typed, !.shown = kp.shown,
                           !.copied = kp.copied, !.timers = kp.timers]
      BY <1>0, <1>1 DEF KpOpen, KpAll
    <2>2. QED
      BY <1>a, <1>b, <2>1
  <1>2. CASE KpType
    <2>1. kp' = [kp EXCEPT !.modal = kp.modal, !.typed = TRUE, !.shown = kp.shown,
                           !.copied = kp.copied, !.timers = kp.timers]
      BY <1>0, <1>2 DEF KpType, KpAll
    <2>2. QED
      BY <1>a, <1>b, <2>1
  <1>3. CASE KpClose
    <2>1. kp' = [kp EXCEPT !.modal = FALSE, !.typed = FALSE, !.shown = None,
                           !.copied = FALSE, !.timers = kp.timers]
      BY <1>0, <1>3 DEF KpClose, KpAll
    <2>2. QED
      BY <1>a, <1>b, <2>1
  <1>4. CASE KpCopy
    <2>1. kp' = [kp EXCEPT !.modal = kp.modal, !.typed = kp.typed, !.shown = kp.shown,
                           !.copied = TRUE, !.timers = kp.timers + 1]
      BY <1>0, <1>4 DEF KpCopy, KpAll
    <2>2. kp.timers + 1 \in 0 .. MaxCalls
      BY <1>b, <1>4, WebAssumption DEF KpCopy
    <2>3. QED
      BY <1>a, <1>b, <2>1, <2>2
  <1>5. CASE KpCopyTimer
    <2>1. kp' = [kp EXCEPT !.modal = kp.modal, !.typed = kp.typed, !.shown = kp.shown,
                           !.copied = FALSE, !.timers = kp.timers - 1]
      BY <1>0, <1>5 DEF KpCopyTimer, KpAll
    <2>2. kp.timers - 1 \in 0 .. MaxCalls
      BY <1>b, <1>5, WebAssumption DEF KpCopyTimer
    <2>3. QED
      BY <1>a, <1>b, <2>1, <2>2, ZenonT(60)
  <1>6. CASE KpListServed
    <2>1. kp.list = "sent" /\ kp' = [kp EXCEPT !.list = "served", !.snap = kp.live]
      BY <1>6 DEF KpListServed
    <2>2. kp' \in KpAll
      BY <1>0, <2>1 DEF KpAll
    <2>3. /\ kp'.list = "served" /\ kp'.snap = kp.live
          /\ UNCHANGED <<kp.live, kp.rows, kp.create, kp.del, kp.early, kp.failed>>
      BY <1>0, <2>1 DEF KpAll
    <2>4. QED
      BY <1>0, <2>1, <2>2, <2>3 DEF KpInv, KpWaiting
  <1>7. CASE KpListed
    <2>1. CASE /\ kp.list = "served"
               /\ kp' = [kp EXCEPT !.list = "done", !.rows = Reverse(InOrder(kp.snap))]
      <3> DEFINE t == Reverse(InOrder(kp.snap))
      <3>1. kp.snap \in SUBSET Nat /\ IsFiniteSet(kp.snap)
        <4>1. IsFiniteSet(0 .. MaxKeys)
          BY KeysPanelAssumption, FS_Interval
        <4>2. IsFiniteSet(kp.snap)
          BY <1>b, <4>1, FS_Subset
        <4>3. QED
          BY <1>b, <4>2
      <3>2. t \in Seq(kp.snap) /\ ToSet(t) = kp.snap /\ Once(t)
        BY <3>1, RowsListed
      <3>3. t \in Seq(KeyIds)
        BY <1>b, <3>2, KpIds, SeqMonotonic
      <3>4. kp' = [kp EXCEPT !.list = "done", !.rows = t]
        BY <2>1
      <3> HIDE DEF t
      <3>5. kp' \in KpAll
        BY <1>0, <3>3, <3>4 DEF KpAll
      <3>6. /\ kp'.list = "done" /\ kp'.rows = t
            /\ UNCHANGED <<kp.live, kp.create, kp.del, kp.early, kp.failed>>
        BY <1>0, <3>4 DEF KpAll
      <3>7. ASSUME KpWaiting PROVE KpTogether'
        <4>1. ToSet(kp'.rows) = {0} /\ kp'.live = {0} /\ kp'.del = {}
              /\ \A i \in Creations : kp'.create[i] = "unused" /\ i # 0
          BY <2>1, <3>2, <3>6, <3>7 DEF KpWaiting, Creations
        <4>2. QED
          BY <3>2, <3>6, <4>1 DEF KpTogether
      <3>8. QED
        BY <1>0, <2>1, <3>5, <3>6, <3>7 DEF KpInv
    <2>2. CASE kp' = [kp EXCEPT !.list = "done", !.rows = <<>>, !.failed = TRUE]
      <3>1. <<>> \in Seq(KeyIds)
        OBVIOUS
      <3>2. kp' \in KpAll /\ kp'.failed
        BY <1>0, <2>2, <3>1 DEF KpAll
      <3>3. QED
        BY <1>0, <3>2 DEF KpInv
    <2>3. QED
      BY <1>7, <2>1, <2>2 DEF KpListed
  <1>8. CASE KpCreate
    <2>1. PICK i \in Creations :
          /\ kp.create[i] = "unused"
          /\ kp' = [kp EXCEPT !.create[i] = "sent", !.early = KpStarted]
      BY <1>8 DEF KpCreate
    <2> DEFINE new == [kp.create EXCEPT ![i] = "sent"]
    <2>2. /\ new \in [Creations -> {"unused", "sent", "made", "late", "done"}]
          /\ new[i] = "sent" /\ \A j \in Creations \ {i} : new[j] = kp.create[j]
      BY <1>b
    <2>3. KpStarted \in BOOLEAN /\ (~KpStarted => ~kp.early /\ kp.list = "done")
      BY DEF KpStarted
    <2>4. kp' = [kp EXCEPT !.create = new, !.early = KpStarted]
      BY <1>0, <2>1 DEF KpAll
    <2> HIDE DEF new
    <2>5. kp' \in KpAll
      BY <1>0, <2>2, <2>3, <2>4 DEF KpAll
    <2>6. /\ kp'.create = new /\ kp'.early = KpStarted
          /\ UNCHANGED <<kp.live, kp.rows, kp.list, kp.del, kp.failed>>
      BY <1>0, <2>4 DEF KpAll
    <2>7. ASSUME KpTogether PROVE KpTogether'
      BY <2>1, <2>2, <2>6, <2>7 DEF KpTogether
    <2>8. QED
      BY <1>0, <2>3, <2>5, <2>6, <2>7 DEF KpInv
  <1>9. CASE KpCreateServed
    <2>1. PICK i \in Creations :
       /\ kp.create[i] \in {"sent", "late"}
       /\ kp' = [kp EXCEPT !.create[i] = IF @ = "sent" THEN "made" ELSE "done",
                           !.live = @ \cup {i}]
      BY <1>9 DEF KpCreateServed
    <2> DEFINE st == IF kp.create[i] = "sent" THEN "made" ELSE "done"
               new == [kp.create EXCEPT ![i] = st]
    <2>2. /\ new \in [Creations -> {"unused", "sent", "made", "late", "done"}]
          /\ new[i] = st /\ \A j \in Creations \ {i} : new[j] = kp.create[j]
      BY <1>b
    <2>3. kp' = [kp EXCEPT !.create = new, !.live = kp.live \cup {i}]
      BY <1>0, <2>1 DEF KpAll
    <2>4. kp.live \cup {i} \in SUBSET (0 .. MaxKeys)
      BY <1>b, KpIds
    <2> HIDE DEF new
    <2>5. kp' \in KpAll
      BY <1>0, <2>2, <2>3, <2>4 DEF KpAll
    <2>6. /\ kp'.create = new /\ kp'.live = kp.live \cup {i}
          /\ UNCHANGED <<kp.rows, kp.list, kp.del, kp.early, kp.failed>>
      BY <1>0, <2>3 DEF KpAll
    <2>7. ASSUME KpTogether PROVE KpTogether'
      <3>1. kp.create[i] = "sent" /\ new[i] = "made"
        BY <2>1, <2>2, <2>7 DEF KpTogether
      <3>2. i \notin ToSet(kp.rows) /\ (\A d \in kp.del : d.key # i) /\ i \notin kp.live
        BY <2>7, <3>1 DEF KpTogether
      <3>3. \A j \in Creations : new[j] # "late"
        BY <2>2, <2>7, <3>1 DEF KpTogether
      <3> HIDE DEF st
      <3>4. QED
        BY <2>2, <2>6, <2>7, <3>1, <3>2, <3>3 DEF KpTogether
    <2>8. ~KpWaiting
      BY <2>1 DEF KpWaiting
    <2>9. QED
      BY <1>0, <2>5, <2>6, <2>7, <2>8 DEF KpInv
  <1>10. CASE KpCreated
    <2>1. PICK i \in Creations :
       /\ kp.create[i] = "made"
       /\ kp' = [kp EXCEPT !.create[i] = "done", !.rows = <<i>> \o @,
                           !.shown = KeyIn(i)]
      BY <1>10 DEF KpCreated
    <2> DEFINE new == [kp.create EXCEPT ![i] = "done"]
               t == <<i>> \o kp.rows
    <2>2. /\ new \in [Creations -> {"unused", "sent", "made", "late", "done"}]
          /\ new[i] = "done" /\ \A j \in Creations \ {i} : new[j] = kp.create[j]
      BY <1>b
    <2>3. /\ t \in Seq(KeyIds) /\ ToSet(t) = ToSet(kp.rows) \cup {i}
          /\ Once(kp.rows) /\ i \notin ToSet(kp.rows) => Once(t)
      BY <1>b, KpIds, RowAdded
    <2>4. KeyIn(i) \in KeyIds \cup {None}
      BY KpIds DEF KeyIn
    <2>5. kp' = [kp EXCEPT !.create = new, !.rows = t, !.shown = KeyIn(i)]
      BY <1>0, <2>1 DEF KpAll
    <2> HIDE DEF new, t
    <2>6. kp' \in KpAll
      BY <1>0, <2>2, <2>3, <2>4, <2>5 DEF KpAll
    <2>7. /\ kp'.create = new /\ kp'.rows = t
          /\ UNCHANGED <<kp.live, kp.list, kp.del, kp.early, kp.failed>>
      BY <1>0, <2>5 DEF KpAll
    <2>8. ASSUME KpTogether PROVE KpTogether'
      <3>1. i \notin ToSet(kp.rows) /\ i \in kp.live
        BY <2>1, <2>8 DEF KpTogether
      <3>2. QED
        BY <2>2, <2>3, <2>7, <2>8, <3>1 DEF KpTogether
    <2>9. ~KpWaiting
      BY <2>1 DEF KpWaiting
    <2>10. QED
      BY <1>0, <2>6, <2>7, <2>8, <2>9 DEF KpInv
  <1>11. CASE KpCreateFailed
    <2>1. PICK i \in Creations :
       kp' = [kp EXCEPT !.create[i] = IF @ = "sent" THEN "late" ELSE "done",
                           !.rows = <<-i>> \o @, !.shown = -i,
                           !.failed = TRUE]
      BY <1>11 DEF KpCreateFailed
    <2> DEFINE st == IF kp.create[i] = "sent" THEN "late" ELSE "done"
               new == [kp.create EXCEPT ![i] = st]
               t == <<-i>> \o kp.rows
    <2>2. new \in [Creations -> {"unused", "sent", "made", "late", "done"}]
      BY <1>b
    <2>3. -i \in KeyIds /\ t \in Seq(KeyIds)
      BY <1>b, KpIds, RowAdded
    <2>4. kp' = [kp EXCEPT !.create = new, !.rows = t, !.shown = -i, !.failed = TRUE]
      BY <1>0, <2>1 DEF KpAll
    <2> HIDE DEF new, t
    <2>5. kp' \in KpAll /\ kp'.failed
      BY <1>0, <2>2, <2>3, <2>4 DEF KpAll
    <2>6. QED
      BY <1>0, <2>5 DEF KpInv
  <1>12. CASE KpDelete
    <2>1. PICK k \in ToSet(kp.rows) :
          kp' = [kp EXCEPT !.early = KpStarted, !.del = @ \cup
                    {[key |-> k, served |-> FALSE, waits |-> TRUE]}]
      BY <1>12 DEF KpDelete
    <2> DEFINE e == [key |-> k, served |-> FALSE, waits |-> TRUE]
    <2>2. k \in KeyIds
      BY <1>b, ElementOfSeq, LenProperties DEF ToSet
    <2>3. e \in KpDels /\ e.key = k /\ e.waits /\ ~e.served
      BY <2>2 DEF KpDels
    <2>4. KpStarted \in BOOLEAN /\ (~KpStarted => ~kp.early /\ kp.list = "done")
      BY DEF KpStarted
    <2>5. kp' = [kp EXCEPT !.early = KpStarted, !.del = kp.del \cup {e}]
      BY <1>0, <2>1 DEF KpAll
    <2> HIDE DEF e
    <2>6. kp' \in KpAll
      BY <1>0, <2>3, <2>4, <2>5 DEF KpAll
    <2>7. /\ kp'.del = kp.del \cup {e} /\ kp'.early = KpStarted
          /\ UNCHANGED <<kp.live, kp.rows, kp.list, kp.create, kp.failed>>
      BY <1>0, <2>5 DEF KpAll
    <2>8. ASSUME KpTogether PROVE KpTogether'
      BY <2>1, <2>3, <2>7, <2>8 DEF KpTogether
    <2>9. QED
      BY <1>0, <2>4, <2>6, <2>7, <2>8 DEF KpInv
  <1>13. CASE KpDeleteServed
    <2>1. PICK d \in {x \in kp.del : ~x.served} :
       kp' = [kp EXCEPT !.live = @ \ {d.key}, !.del = (@ \ {d}) \cup
                 IF d.waits THEN {[d EXCEPT !.served = TRUE]} ELSE {}]
      BY <1>13 DEF KpDeleteServed
    <2> DEFINE e == [d EXCEPT !.served = TRUE]
               del == (kp.del \ {d}) \cup IF d.waits THEN {e} ELSE {}
    <2>2. d \in KpDels /\ ~d.served /\ d \in kp.del
      BY <1>b, <2>1
    <2>3. e \in KpDels /\ e.key = d.key /\ e.waits = d.waits /\ e.served
      BY <2>2 DEF KpDels
    <2>4. kp' = [kp EXCEPT !.live = kp.live \ {d.key}, !.del = del]
      BY <1>0, <2>1 DEF KpAll
    <2> HIDE DEF e
    <2>5. del \in SUBSET KpDels
      BY <1>b, <2>3
    <2>6. kp.live \ {d.key} \in SUBSET (0 .. MaxKeys)
      BY <1>b
    <2>7. d.waits => del = (kp.del \ {d}) \cup {e}
      OBVIOUS
    <2> HIDE DEF del
    <2>8. kp' \in KpAll
      BY <1>0, <2>4, <2>5, <2>6 DEF KpAll
    <2>9. /\ kp'.del = del /\ kp'.live = kp.live \ {d.key}
          /\ UNCHANGED <<kp.rows, kp.list, kp.create, kp.early, kp.failed>>
      BY <1>0, <2>4 DEF KpAll
    <2>10. ASSUME KpTogether PROVE KpTogether'
      <3>1. d.waits /\ kp'.del = (kp.del \ {d}) \cup {e}
        BY <2>2, <2>7, <2>9, <2>10 DEF KpTogether
      <3>2. \A k \in ToSet(kp.rows) : k \in kp'.live \/ \E x \in kp'.del : x.served /\ x.key = k
        <4> SUFFICES ASSUME NEW k \in ToSet(kp.rows), k \notin kp'.live
                     PROVE  \E x \in kp'.del : x.served /\ x.key = k
          OBVIOUS
        <4>1. CASE k = d.key
          BY <2>3, <3>1, <4>1
        <4>2. CASE k # d.key
          <5>1. k \notin kp.live
            BY <2>9, <4>2
          <5>2. PICK x \in kp.del : x.served /\ x.key = k
            BY <2>10, <5>1 DEF KpTogether
          <5>3. QED
            BY <2>2, <3>1, <5>2
        <4>3. QED
          BY <4>1, <4>2
      <3>3. \A x \in kp'.del : x.waits /\ (x.served => x.key \notin kp'.live)
        BY <2>3, <2>9, <2>10, <3>1 DEF KpTogether
      <3>4. \A i \in Creations : kp'.create[i] \in {"unused", "sent", "made"} =>
              /\ i \notin ToSet(kp.rows) /\ \A x \in kp'.del : x.key # i
              /\ i \in kp'.live <=> kp'.create[i] = "made"
        BY <2>2, <2>3, <2>9, <2>10, <3>1 DEF KpTogether
      <3>5. QED
        BY <2>9, <2>10, <3>2, <3>3, <3>4 DEF KpTogether
    <2>11. ~KpWaiting
      BY <2>2 DEF KpWaiting
    <2>12. QED
      BY <1>0, <2>8, <2>9, <2>10, <2>11 DEF KpInv
  <1>14. CASE KpDeleted
    <2>1. PICK d \in {x \in kp.del : x.waits} :
       kp' = [kp EXCEPT !.rows = Picked(@, {n \in DOMAIN @ : @[n] # d.key}),
                        !.failed = @ \/ ~d.served, !.del = (@ \ {d}) \cup
                 IF d.served THEN {} ELSE {[d EXCEPT !.waits = FALSE]}]
      BY <1>14 DEF KpDeleted
    <2> DEFINE e == [d EXCEPT !.waits = FALSE]
               del == (kp.del \ {d}) \cup IF d.served THEN {} ELSE {e}
               fails == kp.failed \/ ~d.served
               t == Picked(kp.rows, {n \in DOMAIN kp.rows : kp.rows[n] # d.key})
    <2>2. d \in KpDels /\ d \in kp.del
      BY <1>b, <2>1
    <2>3. e \in KpDels
      BY <2>2 DEF KpDels
    <2>4. kp' = [kp EXCEPT !.rows = t, !.failed = fails, !.del = del]
      BY <1>0, <2>1 DEF KpAll
    <2> HIDE DEF e
    <2>5. del \in SUBSET KpDels
      BY <1>b, <2>3
    <2>6. d.served => del = kp.del \ {d}
      OBVIOUS
    <2>7. fails \in BOOLEAN /\ (~fails => ~kp.failed /\ d.served)
      OBVIOUS
    <2>8. /\ t \in Seq(KeyIds) /\ ToSet(t) = ToSet(kp.rows) \ {d.key}
          /\ Once(kp.rows) => Once(t)
      <3>1. t = Picked(kp.rows, Others(kp.rows, d.key))
        BY DEF Others
      <3> HIDE DEF t
      <3>2. QED
        BY <1>b, <3>1, RowGone
    <2> HIDE DEF del, fails, t
    <2>9. kp' \in KpAll
      BY <1>0, <2>4, <2>5, <2>7, <2>8 DEF KpAll
    <2>10. /\ kp'.del = del /\ kp'.rows = t /\ kp'.failed = fails
           /\ UNCHANGED <<kp.live, kp.list, kp.create, kp.early>>
      BY <1>0, <2>4 DEF KpAll
    <2>11. ASSUME KpTogether, d.served PROVE KpTogether'
      <3>1. d.key \notin kp.live /\ kp'.del = kp.del \ {d}
        BY <2>2, <2>6, <2>10, <2>11 DEF KpTogether
      <3>2. ToSet(kp'.rows) = ToSet(kp.rows) \ {d.key} /\ Once(kp'.rows)
        BY <2>8, <2>10, <2>11 DEF KpTogether
      <3>3. \A k \in ToSet(kp'.rows) : k \in kp'.live \/ \E x \in kp'.del : x.served /\ x.key = k
        <4> SUFFICES ASSUME NEW k \in ToSet(kp.rows), k # d.key, k \notin kp.live
                     PROVE  \E x \in kp'.del : x.served /\ x.key = k
          BY <2>10, <3>2
        <4>1. PICK x \in kp.del : x.served /\ x.key = k
          BY <2>11 DEF KpTogether
        <4>2. QED
          BY <3>1, <4>1
      <3>4. QED
        BY <2>10, <2>11, <3>1, <3>2, <3>3 DEF KpTogether
    <2>12. ~KpWaiting
      BY <2>2 DEF KpWaiting
    <2>13. QED
      BY <1>0, <2>7, <2>9, <2>10, <2>11, <2>12 DEF KpInv
  <1>15. QED
    BY <1>1, <1>2, <1>3, <1>4, <1>5, <1>6, <1>7, <1>8, <1>9, <1>10, <1>11,
       <1>12, <1>13, <1>14 DEF KpNext, KpUser, KpServer

LEMMA KpShows == KpInv => KpAgrees
  <1> SUFFICES ASSUME KpInv, KpQuiet, ~kp.early, ~kp.failed
               PROVE  ToSet(kp.rows) = kp.live /\ Len(kp.rows) = Cardinality(kp.live)
    BY DEF KpAgrees
  <1>1. KpTogether /\ kp.rows \in Seq(KeyIds)
    BY KpTyped DEF KpInv, KpQuiet, KpAll
  <1>2. kp.del = {}
    BY <1>1 DEF KpTogether, KpQuiet
  <1>3. ToSet(kp.rows) = kp.live
    BY <1>1, <1>2 DEF KpTogether, KpQuiet
  <1>4. Cardinality(ToSet(kp.rows)) = Len(kp.rows)
    BY <1>1, RowsCounted DEF KpTogether
  <1>5. QED
    BY <1>3, <1>4

-----------------------------------------------------------------------------
(* The files of the dashboard *)

BsChain == [op : {"none", "upload", "delete", "list"},
            file : Objects \cup {None},
            stage : {"none", "sent", "served", "list", "listed"},
            snap : SUBSET Objects]

BsType == [files : SUBSET Objects, shown : SUBSET Objects,
           uploading : BOOLEAN, name : Objects \cup {None},
           chain : [Calls -> BsChain], older : [Calls -> SUBSET Calls],
           crossed : BOOLEAN, failed : BOOLEAN]

BsGiven == {i \in Calls : bs.chain[i].stage = "listed"}
BsSnap == [i \in Calls |-> bs.chain[i].snap]

\* When no request failed and no listing was overtaken, a listing is still to
\* be answered, or those that were bring the files of the server.
BsInv ==
    /\ BsTypeOK
    /\ \A i \in Calls : bs.chain[i].op = "none" <=> bs.chain[i].stage = "none"
    /\ \A i \in Calls : bs.chain[i].op = "upload" => bs.chain[i].file # None
    /\ Ordered(BsGiven, bs.older)
    /\ ~bs.failed /\ ~bs.crossed =>
          \/ \E i \in Calls : bs.chain[i].stage \in {"sent", "served", "list"}
          \/ Brings(BsGiven, bs.older, BsSnap, bs.shown, bs.files)

LEMMA BsStart == BsInit => BsInv
  <1> SUFFICES ASSUME BsInit PROVE BsInv
    OBVIOUS
  <1>1. /\ NoChain \in BsChain /\ BsListing \in BsChain
        /\ NoChain.stage = "none" /\ NoChain.op = "none"
        /\ BsListing.stage = "list" /\ BsListing.op = "list"
    BY DEF NoChain, BsListing, BsChain
  <1> DEFINE new == [i \in Calls |-> IF i = 1 THEN BsListing ELSE NoChain]
             old == [i \in Calls |-> {}]
  <1>2. /\ new \in [Calls -> BsChain] /\ \A i \in Calls : new[i] \in {BsListing, NoChain}
        /\ 1 \in Calls /\ new[1] = BsListing
        /\ old \in [Calls -> SUBSET Calls]
    BY <1>1, WebAssumption DEF Calls
  <1>3. PICK f \in SUBSET Objects : bs =
    [files |-> f, shown |-> {}, uploading |-> FALSE, name |-> None,
     chain |-> new, older |-> old, crossed |-> FALSE, failed |-> FALSE]
    BY DEF BsInit
  <1> HIDE DEF new, old
  <1>4. BsTypeOK
    BY <1>2, <1>3 DEF BsTypeOK, BsChain
  <1>5. BsGiven = {} /\ bs.chain[1].stage = "list"
    BY <1>1, <1>2, <1>3 DEF BsGiven
  <1>6. QED
    BY <1>1, <1>2, <1>3, <1>4, <1>5 DEF BsInv, Ordered

\* A step that puts c for one chain, and the rest of the panel beside it.
LEMMA BsPut ==
    ASSUME BsTypeOK, NEW i \in Calls, NEW c \in BsChain, NEW s,
           s \in BsType,
           s.chain = bs.chain,
           bs' = [s EXCEPT !.chain[i] = c]
    PROVE  /\ BsTypeOK'
           /\ bs'.chain[i] = c /\ \A j \in Calls \ {i} : bs'.chain[j] = bs.chain[j]
           /\ bs'.files = s.files /\ bs'.shown = s.shown /\ bs'.older = s.older
           /\ bs'.crossed = s.crossed /\ bs'.failed = s.failed
           /\ BsGiven' = IF c.stage = "listed" THEN BsGiven \cup {i} ELSE BsGiven \ {i}
  <1> DEFINE new == [bs.chain EXCEPT ![i] = c]
  <1>1. new \in [Calls -> BsChain] /\ new[i] = c /\ \A j \in Calls \ {i} : new[j] = bs.chain[j]
    BY DEF BsTypeOK, BsChain
  <1>2. bs' = [s EXCEPT !.chain = new]
    BY DEF BsType
  <1> HIDE DEF new
  <1>3. /\ bs'.chain = new
        /\ bs'.files = s.files /\ bs'.shown = s.shown /\ bs'.older = s.older
        /\ bs'.crossed = s.crossed /\ bs'.failed = s.failed
    BY <1>2 DEF BsType
  <1>4. BsTypeOK'
    BY <1>1, <1>2 DEF BsTypeOK, BsChain, BsType
  <1>5. BsGiven' = IF c.stage = "listed" THEN BsGiven \cup {i} ELSE BsGiven \ {i}
    BY <1>1, <1>3 DEF BsGiven
  <1>6. QED
    BY <1>1, <1>3, <1>4, <1>5

LEMMA BsKeeps == BsInv /\ BsNext => BsInv'
  <1> SUFFICES ASSUME BsInv, BsNext PROVE BsInv'
    OBVIOUS
  <1>0. /\ BsTypeOK /\ bs \in BsType /\ bs.chain \in [Calls -> BsChain]
        /\ \A i \in Calls : bs.chain[i] \in BsChain
        /\ BsGiven \in SUBSET Calls /\ bs.older \in [Calls -> SUBSET Calls]
        /\ Ordered(BsGiven, bs.older)
    BY DEF BsInv, BsTypeOK, BsChain, BsGiven, BsType
  <1>n. NoChain \in BsChain /\ NoChain.stage = "none" /\ NoChain.op = "none"
    BY DEF NoChain, BsChain
  \* A chain starts.
  <1>a. ASSUME NEW i \in Calls, NEW c \in BsChain, NEW s \in BsType,
               bs.chain[i].op = "none" \/ bs.chain[i].stage \in {"sent", "served"},
               c.op # "none", c.stage \in {"sent", "served", "list"},
               c.op = "upload" => c.file # None,
               s.chain = bs.chain, s.older = bs.older,
               bs' = [s EXCEPT !.chain[i] = c]
        PROVE  BsInv'
    <2>1. bs.chain[i].stage # "listed" /\ i \notin BsGiven
      BY <1>0, <1>a DEF BsInv, BsGiven
    <2>2. /\ BsTypeOK' /\ bs'.chain[i] = c
          /\ \A j \in Calls \ {i} : bs'.chain[j] = bs.chain[j]
          /\ bs'.older = bs.older /\ BsGiven' = BsGiven
      <3>1. BsGiven' = IF c.stage = "listed" THEN BsGiven \cup {i} ELSE BsGiven \ {i}
        BY <1>0, <1>a, BsPut
      <3>2. BsGiven' = BsGiven
        BY <1>a, <2>1, <3>1
      <3>3. /\ BsTypeOK' /\ bs'.chain[i] = c
            /\ \A j \in Calls \ {i} : bs'.chain[j] = bs.chain[j]
            /\ bs'.older = s.older
        BY <1>0, <1>a, BsPut
      <3>4. QED
        BY <1>a, <3>2, <3>3
    <2>3. QED
      BY <1>0, <1>a, <2>2 DEF BsInv
  \* A chain ends.
  <1>b. ASSUME NEW i \in Calls, NEW s \in BsType,
               s.chain = bs.chain, s.older = bs.older, s.files = bs.files,
               bs' = BsEnded(i, s),
               ~s.failed /\ ~s.crossed => /\ ~bs.failed /\ ~bs.crossed
                                          /\ i \in BsGiven /\ bs.older[i] = {}
                                          /\ s.shown = bs.chain[i].snap
        PROVE  BsInv'
    <2> DEFINE up == s.uploading /\ s.chain[i].op # "upload"
               t == [s EXCEPT !.older = Without(bs.older, i), !.uploading = up]
    <2>1. up \in BOOLEAN /\ Without(bs.older, i) \in [Calls -> SUBSET Calls]
      BY <1>0, Taken
    <2>2. bs' = [t EXCEPT !.chain[i] = NoChain]
      BY <1>b DEF BsEnded
    <2> HIDE DEF up
    <2>3. /\ t \in BsType /\ t.chain = bs.chain /\ t.older = Without(bs.older, i)
          /\ t.files = bs.files /\ t.shown = s.shown
          /\ t.crossed = s.crossed /\ t.failed = s.failed
      BY <1>b, <2>1 DEF BsType
    <2> HIDE DEF t
    <2>4. /\ BsTypeOK' /\ bs'.chain[i] = NoChain
          /\ \A j \in Calls \ {i} : bs'.chain[j] = bs.chain[j]
          /\ bs'.older = Without(bs.older, i) /\ BsGiven' = BsGiven \ {i}
          /\ bs'.files = bs.files /\ bs'.shown = s.shown
          /\ bs'.crossed = s.crossed /\ bs'.failed = s.failed
      <3>1. NoChain.stage # "listed"
        BY <1>n
      <3>2. QED
        BY <1>0, <1>n, <2>2, <2>3, <3>1, BsPut
    <2>5. Ordered(BsGiven', bs'.older)
      <3>1. Ordered(BsGiven \ {i}, Without(bs.older, i))
        BY <1>0, Taken
      <3>2. QED
        BY <2>4, <3>1
    <2>6. ASSUME ~bs'.failed, ~bs'.crossed,
                 ~\E j \in Calls : bs'.chain[j].stage \in {"sent", "served", "list"}
          PROVE  Brings(BsGiven', bs'.older, BsSnap', bs'.shown, bs'.files)
      <3>1. i \in BsGiven /\ bs.older[i] = {} /\ s.shown = bs.chain[i].snap
        BY <1>b, <2>4, <2>6
      <3>2. \A j \in Calls : bs.chain[j].stage \notin {"sent", "served", "list"}
        BY <2>4, <2>6, <3>1 DEF BsGiven
      <3>3. Brings(BsGiven, bs.older, BsSnap, bs.shown, bs.files)
        BY <1>b, <2>4, <2>6, <3>2 DEF BsInv
      <3>4. (\A j \in BsGiven \ {i} : BsSnap'[j] = BsSnap[j]) /\ BsSnap[i] = s.shown
        BY <1>0, <2>4, <3>1 DEF BsSnap
      <3>5. Brings(BsGiven \ {i}, Without(bs.older, i), BsSnap', BsSnap[i], bs.files)
        BY <1>0, <3>1, <3>3, <3>4, TakenBrings
      <3>6. QED
        BY <2>4, <3>4, <3>5
    <2>7. QED
      BY <1>n, <2>4, <2>5, <2>6 DEF BsInv
  <1>1. ASSUME NEW f \in Objects, BsUpload(f) PROVE BsInv'
    <2>1. PICK i \in Calls :
             /\ BsFree(i)
             /\ bs' = [bs EXCEPT !.uploading = TRUE, !.name = f,
                       !.chain[i] = [NoChain EXCEPT !.op = "upload", !.file = f,
                                           !.stage = "sent"]]
      BY <1>1 DEF BsUpload
    <2> DEFINE c == [NoChain EXCEPT !.op = "upload", !.file = f, !.stage = "sent"]
               s == [bs EXCEPT !.uploading = TRUE, !.name = f]
    <2>2. c \in BsChain /\ c.op # "none" /\ c.stage = "sent" /\ c.file # None
      BY WebAssumption DEF NoChain, BsChain
    <2>3. s \in BsType /\ s.chain = bs.chain /\ s.older = bs.older
      BY <1>0 DEF BsType
    <2>4. bs' = [s EXCEPT !.chain[i] = c] /\ bs.chain[i].op = "none"
      BY <2>1 DEF BsFree
    <2> HIDE DEF c, s
    <2>5. QED
      BY <1>a, <2>2, <2>3, <2>4
  <1>2. ASSUME NEW f \in Objects, BsDelete(f) PROVE BsInv'
    <2>1. PICK i \in Calls :
             /\ BsFree(i)
             /\ bs' = [bs EXCEPT !.chain[i] =
                       [NoChain EXCEPT !.op = "delete", !.file = f, !.stage = "sent"]]
      BY <1>2 DEF BsDelete
    <2> DEFINE c == [NoChain EXCEPT !.op = "delete", !.file = f, !.stage = "sent"]
    <2>2. c \in BsChain /\ c.op = "delete" /\ c.stage = "sent"
      BY DEF NoChain, BsChain
    <2>3. bs.chain[i].op = "none" /\ bs' = [bs EXCEPT !.chain[i] = c]
      BY <2>1 DEF BsFree
    <2> HIDE DEF c
    <2>4. QED
      BY <1>0, <1>a, <2>2, <2>3
  <1>3. CASE BsRelist
    <2>1. PICK i \in Calls : BsFree(i) /\ bs' = [bs EXCEPT !.chain[i] = BsListing]
      BY <1>3 DEF BsRelist
    <2>2. BsListing \in BsChain /\ BsListing.op = "list" /\ BsListing.stage = "list"
      BY DEF BsListing, NoChain, BsChain
    <2>3. QED
      BY <1>0, <1>a, <2>1, <2>2 DEF BsFree
  <1>4. ASSUME NEW i \in Calls, BsStep(i) PROVE BsInv'
    <2>1. CASE BsServed(i)
      <3> DEFINE c == [bs.chain[i] EXCEPT !.stage = "served"]
                 files == IF bs.chain[i].op = "upload" THEN bs.files \cup {bs.chain[i].file}
                                  ELSE bs.files \ {bs.chain[i].file}
                 s == [bs EXCEPT !.files = files]
      <3>1. bs.chain[i].stage = "sent" /\ bs.chain[i].op # "none"
        BY <2>1 DEF BsServed, BsInv
      <3>2. c \in BsChain /\ c.stage = "served" /\ c.op # "none"
            /\ c.op = bs.chain[i].op /\ c.file = bs.chain[i].file
        BY <1>0, <3>1 DEF BsChain
      <3>3. files \in SUBSET Objects
        BY <1>0 DEF BsInv, BsTypeOK, BsChain
      <3>4. bs' = [s EXCEPT !.chain[i] = c]
        BY <1>0, <2>1 DEF BsServed, BsType
      <3> HIDE DEF c, files
      <3>5. s \in BsType /\ s.chain = bs.chain /\ s.older = bs.older
        BY <1>0, <3>3 DEF BsType
      <3> HIDE DEF s
      <3>6. QED
        BY <1>a, <3>1, <3>2, <3>4, <3>5 DEF BsInv
    <2>2. CASE BsAnswered(i)
      <3> DEFINE c == [bs.chain[i] EXCEPT !.stage = "list"]
      <3>1. bs.chain[i].stage = "served" /\ bs.chain[i].op # "none"
        BY <2>2 DEF BsAnswered, BsInv
      <3>2. c \in BsChain /\ c.stage = "list" /\ c.op # "none"
            /\ c.op = bs.chain[i].op /\ c.file = bs.chain[i].file
        BY <1>0, <3>1 DEF BsChain
      <3>4. bs' = [bs EXCEPT !.chain[i] = c]
        BY <1>0, <2>2 DEF BsAnswered, BsType
      <3> HIDE DEF c
      <3>6. QED
        BY <1>0, <1>a, <3>1, <3>2, <3>4 DEF BsInv
    <2>3. CASE BsFailed(i)
      <3> DEFINE s == [bs EXCEPT !.failed = TRUE]
      <3>1. /\ s \in BsType /\ s.chain = bs.chain /\ s.older = bs.older
            /\ s.files = bs.files /\ s.failed
        BY <1>0 DEF BsType
      <3>2. bs' = BsEnded(i, s)
        BY <2>3 DEF BsFailed
      <3> HIDE DEF s
      <3>3. QED
        BY <1>b, <3>1, <3>2
    <2>4. CASE BsListServed(i)
      <3> DEFINE c == [bs.chain[i] EXCEPT !.stage = "listed", !.snap = bs.files]
                 s == [bs EXCEPT !.older[i] = BsGiven]
      <3>1. bs.chain[i].stage = "list" /\ bs.chain[i].op # "none" /\ i \notin BsGiven
        BY <2>4 DEF BsListServed, BsInv, BsGiven
      <3>2. c \in BsChain /\ c.stage = "listed" /\ c.op # "none" /\ c.snap = bs.files
            /\ c.op = bs.chain[i].op /\ c.file = bs.chain[i].file
        BY <1>0, <3>1 DEF BsChain, BsType
      <3>3. bs' = [s EXCEPT !.chain[i] = c]
        BY <1>0, <2>4 DEF BsListServed, BsGiven, BsType
      <3>4. [bs.older EXCEPT ![i] = BsGiven] \in [Calls -> SUBSET Calls]
        BY <1>0
      <3>5. /\ s \in BsType /\ s.chain = bs.chain /\ s.older = [bs.older EXCEPT ![i] = BsGiven]
            /\ s.files = bs.files
        BY <1>0, <3>4 DEF BsType
      <3> HIDE DEF c, s
      <3>6. /\ BsTypeOK' /\ bs'.chain[i] = c
            /\ \A j \in Calls \ {i} : bs'.chain[j] = bs.chain[j]
            /\ bs'.older = [bs.older EXCEPT ![i] = BsGiven] /\ BsGiven' = BsGiven \cup {i}
            /\ bs'.files = bs.files
        BY <1>0, <3>2, <3>3, <3>5, BsPut
      <3>7. Ordered(BsGiven', bs'.older) /\ Newest(BsGiven', bs'.older, i)
        BY <1>0, <3>1, <3>6, Given
      <3>8. Brings(BsGiven', bs'.older, BsSnap', bs'.shown, bs'.files)
        <4>1. i \in BsGiven' /\ BsSnap'[i] = bs'.files
          BY <3>2, <3>6 DEF BsSnap
        <4>2. QED
          BY <3>7, <4>1 DEF Brings
      <3>9. QED
        BY <3>2, <3>6, <3>7, <3>8 DEF BsInv
    <2>5. CASE BsListed(i)
      <3>1. CASE /\ bs.chain[i].stage = "listed"
                 /\ bs' = BsEnded(i, [bs EXCEPT !.shown = bs.chain[i].snap,
                                       !.crossed = @ \/ bs.older[i] # {}])
        <4> DEFINE cr == bs.crossed \/ bs.older[i] # {}
                   s == [bs EXCEPT !.shown = bs.chain[i].snap, !.crossed = cr]
        <4>1. cr \in BOOLEAN /\ bs.chain[i].snap \in SUBSET Objects /\ i \in BsGiven
          BY <1>0, <3>1 DEF BsChain, BsGiven
        <4>2. ~cr => ~bs.crossed /\ bs.older[i] = {}
          OBVIOUS
        <4>3. bs' = BsEnded(i, s)
          BY <3>1
        <4> HIDE DEF cr
        <4>4. /\ s \in BsType /\ s.chain = bs.chain /\ s.older = bs.older
              /\ s.files = bs.files /\ s.failed = bs.failed /\ s.crossed = cr
              /\ s.shown = bs.chain[i].snap
          BY <1>0, <4>1 DEF BsType
        <4> HIDE DEF s
        <4>5. QED
          BY <1>b, <4>1, <4>2, <4>3, <4>4
      <3>2. CASE bs' = BsEnded(i, [bs EXCEPT !.shown = {}, !.failed = TRUE])
        <4> DEFINE s == [bs EXCEPT !.shown = {}, !.failed = TRUE]
        <4>1. /\ s \in BsType /\ s.chain = bs.chain /\ s.older = bs.older
              /\ s.files = bs.files /\ s.failed
          BY <1>0 DEF BsType
        <4>2. bs' = BsEnded(i, s)
          BY <3>2
        <4> HIDE DEF s
        <4>3. QED
          BY <1>b, <4>1, <4>2
      <3>3. QED
        BY <2>5, <3>1, <3>2 DEF BsListed
    <2>6. QED
      BY <1>4, <2>1, <2>2, <2>3, <2>4, <2>5 DEF BsStep
  <1>5. QED
    BY <1>1, <1>2, <1>3, <1>4 DEF BsNext

LEMMA BsShows == BsInv => BsAgrees
  BY DEF BsInv, BsAgrees, BsQuiet, Brings, BsGiven

-----------------------------------------------------------------------------
(* The charts *)

ChInv == ChTypeOK /\ ChWhose

LEMMA ChStart == ChInit => ChInv
  BY WebAssumption DEF ChInit, ChInv, ChTypeOK, ChWhose

LEMMA ChKeeps == ChInv /\ ChNext => ChInv'
  <1> SUFFICES ASSUME ChInv, ChNext PROVE ChInv'
    OBVIOUS
  <1> USE WebAssumption DEF ChInv
  <1>1. CASE ChLogin
    <2>1. PICK u \in Users : /\ ch.fetch[u] + 2 <= 2 * MaxCalls
                             /\ ch' = [ch EXCEPT !.token = u, !.fetch[u] = @ + 2]
      BY <1>1 DEF ChLogin
    <2>2. [ch.fetch EXCEPT ![u] = @ + 2] \in [Users -> 0 .. 2 * MaxCalls]
      BY <2>1 DEF ChTypeOK
    <2>3. ChTypeOK'
      BY <2>1, <2>2 DEF ChTypeOK
    <2>4. QED
      BY <2>1, <2>3 DEF ChTypeOK, ChWhose
  <1>2. CASE ChLogout
    BY <1>2 DEF ChLogout, ChTypeOK, ChWhose
  <1>3. CASE ChAnswered
    <2>1. PICK u \in Users, d \in {TRUE, FALSE} :
             /\ ch.fetch[u] > 0
             /\ ch' = [ch EXCEPT !.fetch[u] = @ - 1,
                                 !.data = IF d THEN u ELSE None,
                                 !.late = d /\ u # ch.token]
      BY <1>3 DEF ChAnswered
    <2>2. [ch.fetch EXCEPT ![u] = @ - 1] \in [Users -> 0 .. 2 * MaxCalls]
      BY <2>1 DEF ChTypeOK
    <2>3. QED
      BY <2>1, <2>2 DEF ChTypeOK, ChWhose
  <1>4. QED
    BY <1>1, <1>2, <1>3 DEF ChNext

-----------------------------------------------------------------------------
(* The demo's files *)

DfCall == [op : {"none", "upload", "delete", "list"},
           name : Objects \cup {None}, stage : {"none", "sent", "served"},
           snap : SUBSET (Objects \cup {None})]

DfType == [files : SUBSET Objects, shown : SUBSET Objects,
           selected : Objects \cup {None}, sendAs : Objects \cup {None},
           call : [Calls -> DfCall], uploading : BOOLEAN, upError : BOOLEAN,
           status : {"none", "requested", "uploaded"},
           method : {"none", "proxy", "direct"},
           left : [name : Objects \cup {None}, full : BOOLEAN],
           listing : BOOLEAN, listError : BOOLEAN, alerted : BOOLEAN,
           older : [Calls -> SUBSET Calls], crossed : BOOLEAN]

DfGiven == {i \in Calls : DfListing(i)}
DfSnap == [i \in Calls |-> df.call[i].snap]

\* A call as the page makes it: what is sent or deleted has a name, and what a
\* listing has is of the broker.
DfSound(c) ==
    /\ c.op = "none" <=> c.stage = "none"
    /\ c.op \in {"upload", "delete"} => c.name # None
    /\ c.op = "list" => None \notin c.snap

\* What lists the files when it is done, or tells that it failed.
DfPending(c) ==
    \/ c.op = "list" /\ c.stage = "sent"
    \/ c.op \in {"upload", "delete"}

\* When nothing was told and no listing was overtaken, a listing is still to be
\* answered, or those that were bring the files of the broker.
DfInv ==
    /\ DfTypeOK
    /\ df.selected # None => df.sendAs # None
    /\ \A i \in Calls : DfSound(df.call[i])
    /\ Ordered(DfGiven, df.older)
    /\ ~df.crossed =>
          \/ df.listError \/ df.upError \/ df.alerted
          \/ \E i \in Calls : DfPending(df.call[i])
          \/ Brings(DfGiven, df.older, DfSnap, df.shown, df.files)

LEMMA DfTyped == DfTypeOK <=> df \in DfType
  BY DEF DfTypeOK, DfType, DfCall

\* A step that puts c for one call, and the rest of the page beside it.
LEMMA DfPut ==
    ASSUME df \in DfType, NEW i \in Calls, NEW c \in DfCall, NEW s \in DfType,
           s.call = df.call,
           df' = [s EXCEPT !.call[i] = c]
    PROVE  /\ DfTypeOK'
           /\ df'.call[i] = c /\ \A j \in Calls \ {i} : df'.call[j] = df.call[j]
           /\ df'.files = s.files /\ df'.shown = s.shown /\ df'.older = s.older
           /\ df'.crossed = s.crossed /\ df'.listError = s.listError
           /\ df'.upError = s.upError /\ df'.alerted = s.alerted
           /\ df'.selected = s.selected /\ df'.sendAs = s.sendAs
           /\ DfGiven' = IF c.op = "list" /\ c.stage = "served"
                         THEN DfGiven \cup {i} ELSE DfGiven \ {i}
  <1> DEFINE new == [df.call EXCEPT ![i] = c]
  <1>1. new \in [Calls -> DfCall] /\ new[i] = c /\ \A j \in Calls \ {i} : new[j] = df.call[j]
    BY DEF DfType
  <1>2. df' = [s EXCEPT !.call = new]
    BY DEF DfType
  <1> HIDE DEF new
  <1>3. /\ df'.call = new
        /\ df'.files = s.files /\ df'.shown = s.shown /\ df'.older = s.older
        /\ df'.crossed = s.crossed /\ df'.listError = s.listError
        /\ df'.upError = s.upError /\ df'.alerted = s.alerted
        /\ df'.selected = s.selected /\ df'.sendAs = s.sendAs
    BY <1>2 DEF DfType
  <1>4. df' \in DfType
    BY <1>1, <1>2 DEF DfType
  <1>5. DfTypeOK'
    BY <1>4 DEF DfTypeOK, DfType, DfCall
  <1>6. DfGiven' = IF c.op = "list" /\ c.stage = "served"
                   THEN DfGiven \cup {i} ELSE DfGiven \ {i}
    BY <1>1, <1>3 DEF DfGiven, DfListing
  <1>7. QED
    BY <1>1, <1>3, <1>5, <1>6

LEMMA DfLists ==
    /\ [NoCall EXCEPT !.op = "list", !.stage = "sent"] \in DfCall
    /\ DfSound([NoCall EXCEPT !.op = "list", !.stage = "sent"])
    /\ DfPending([NoCall EXCEPT !.op = "list", !.stage = "sent"])
    /\ ~([NoCall EXCEPT !.op = "list", !.stage = "sent"].stage = "served")
    /\ NoCall \in DfCall /\ DfSound(NoCall) /\ ~DfPending(NoCall)
    /\ NoCall.stage = "none" /\ NoCall.op = "none"
  BY DEF NoCall, DfCall, DfSound, DfPending

LEMMA DfStart == DfInit => DfInv
  <1> SUFFICES ASSUME DfInit PROVE DfInv
    OBVIOUS
  <1> DEFINE one == [NoCall EXCEPT !.op = "list", !.stage = "sent"]
             new == [[i \in Calls |-> NoCall] EXCEPT ![1] = one]
             old == [i \in Calls |-> {}]
  <1>1. /\ new \in [Calls -> DfCall] /\ \A i \in Calls : new[i] \in {one, NoCall}
        /\ 1 \in Calls /\ new[1] = one
        /\ old \in [Calls -> SUBSET Calls]
    BY DfLists, WebAssumption DEF Calls
  <1>2. PICK f \in SUBSET Objects : df = StartList(1,
    [files |-> f, shown |-> {}, selected |-> None, sendAs |-> None,
     call |-> [i \in Calls |-> NoCall], uploading |-> FALSE,
     upError |-> FALSE, status |-> "none", method |-> "none", left |-> DfNoKey,
     listing |-> FALSE, listError |-> FALSE, alerted |-> FALSE,
     older |-> [i \in Calls |-> {}], crossed |-> FALSE])
    BY DEF DfInit
  <1>3. df = [files |-> f, shown |-> {}, selected |-> None, sendAs |-> None,
     call |-> new, uploading |-> FALSE,
     upError |-> FALSE, status |-> "none", method |-> "none", left |-> DfNoKey,
     listing |-> TRUE, listError |-> FALSE, alerted |-> FALSE,
     older |-> old, crossed |-> FALSE]
    BY <1>2 DEF StartList
  <1>4. DfNoKey \in [name : Objects \cup {None}, full : BOOLEAN]
    BY DEF DfNoKey, DfKey
  <1> HIDE DEF new, old
  <1>5. df \in DfType
    BY <1>1, <1>3, <1>4 DEF DfType
  <1>6. \A i \in Calls : DfSound(df.call[i]) /\ ~DfListing(i)
    BY <1>1, <1>3, DfLists DEF DfListing
  <1>7. DfGiven = {} /\ DfPending(df.call[1]) /\ df.selected = None
    BY <1>1, <1>3, <1>6, DfLists DEF DfGiven
  <1>8. QED
    BY <1>1, <1>5, <1>6, <1>7, DfTyped DEF DfInv, Ordered

LEMMA DfKeeps == DfInv /\ DfNext => DfInv'
  <1> SUFFICES ASSUME DfInv, DfNext PROVE DfInv'
    OBVIOUS
  <1>0. /\ df \in DfType /\ df.call \in [Calls -> DfCall]
        /\ \A i \in Calls : df.call[i] \in DfCall /\ DfSound(df.call[i])
        /\ DfGiven \in SUBSET Calls /\ df.older \in [Calls -> SUBSET Calls]
        /\ Ordered(DfGiven, df.older)
    <2>1. df \in DfType
      BY DfTyped DEF DfInv
    <2>2. QED
      BY <2>1 DEF DfInv, DfType, DfGiven
  \* A call starts, or goes on to its listing.
  <1>a. ASSUME NEW i \in Calls, NEW c \in DfCall, NEW s \in DfType,
               ~DfListing(i),
               DfSound(c), DfPending(c),
               s.call = df.call, s.older = df.older,
               s.selected # None => s.sendAs # None,
               df' = [s EXCEPT !.call[i] = c]
        PROVE  DfInv'
    <2>1. ~(c.op = "list" /\ c.stage = "served") /\ i \notin DfGiven
      BY <1>0, <1>a DEF DfPending, DfGiven
    <2>2. DfGiven' = IF c.op = "list" /\ c.stage = "served"
                     THEN DfGiven \cup {i} ELSE DfGiven \ {i}
      BY <1>0, <1>a, DfPut
    <2>3. DfGiven' = DfGiven
      BY <2>1, <2>2
    <2>4. /\ DfTypeOK' /\ df'.call[i] = c
          /\ \A j \in Calls \ {i} : df'.call[j] = df.call[j]
          /\ df'.older = s.older /\ df'.selected = s.selected /\ df'.sendAs = s.sendAs
      BY <1>0, <1>a, DfPut
    <2>5. QED
      BY <1>0, <1>a, <2>3, <2>4 DEF DfInv
  \* A call ends.
  <1>b. ASSUME NEW i \in Calls, NEW s \in DfType,
               s.call = df.call, s.files = df.files,
               s.selected = df.selected, s.sendAs = df.sendAs,
               \/ s.older = Without(df.older, i)
               \/ s.older = df.older /\ ~DfListing(i),
               df' = [s EXCEPT !.call[i] = NoCall],
               \/ s.listError \/ s.upError \/ s.alerted
               \/ s.crossed
               \/ /\ i \in DfGiven /\ df.older[i] = {} /\ ~df.crossed
                  /\ s.shown = df.call[i].snap
                  /\ s.older = Without(df.older, i)
                  /\ s.listError = df.listError /\ s.upError = df.upError
                  /\ s.alerted = df.alerted
        PROVE  DfInv'
    <2>1. ~(NoCall.op = "list")
      BY DfLists
    <2>2. DfGiven' = IF NoCall.op = "list" /\ NoCall.stage = "served"
                     THEN DfGiven \cup {i} ELSE DfGiven \ {i}
      BY <1>0, <1>b, DfLists, DfPut
    <2>3. DfGiven' = DfGiven \ {i}
      BY <2>1, <2>2
    <2>4. /\ DfTypeOK' /\ df'.call[i] = NoCall
          /\ \A j \in Calls \ {i} : df'.call[j] = df.call[j]
          /\ df'.older = s.older /\ df'.selected = s.selected /\ df'.sendAs = s.sendAs
          /\ df'.files = s.files /\ df'.shown = s.shown
          /\ df'.crossed = s.crossed /\ df'.listError = s.listError
          /\ df'.upError = s.upError /\ df'.alerted = s.alerted
      BY <1>0, <1>b, DfLists, DfPut
    <2>5. Ordered(DfGiven', df'.older)
      <3>1. Ordered(DfGiven \ {i}, Without(df.older, i))
        BY <1>0, Taken
      <3>2. CASE s.older = df.older /\ ~DfListing(i)
        BY <1>0, <2>3, <2>4, <3>2 DEF DfGiven
      <3>3. QED
        BY <1>b, <2>3, <2>4, <3>1, <3>2
    <2>6. ASSUME ~df'.crossed, ~df'.listError, ~df'.upError, ~df'.alerted,
                 ~\E j \in Calls : DfPending(df'.call[j])
          PROVE  Brings(DfGiven', df'.older, DfSnap', df'.shown, df'.files)
      <3>1. /\ i \in DfGiven /\ df.older[i] = {} /\ ~df.crossed
            /\ s.shown = df.call[i].snap
            /\ s.older = Without(df.older, i)
            /\ ~df.listError /\ ~df.upError /\ ~df.alerted
        BY <1>b, <2>4, <2>6
      <3>2. \A j \in Calls : ~DfPending(df.call[j])
        BY <2>4, <2>6, <3>1 DEF DfGiven, DfListing, DfPending
      <3>3. Brings(DfGiven, df.older, DfSnap, df.shown, df.files)
        BY <3>1, <3>2 DEF DfInv
      <3>4. (\A j \in DfGiven \ {i} : DfSnap'[j] = DfSnap[j]) /\ DfSnap[i] = s.shown
        BY <1>0, <2>4, <3>1 DEF DfSnap
      <3>5. Brings(DfGiven \ {i}, Without(df.older, i), DfSnap', DfSnap[i], df.files)
        BY <1>0, <3>1, <3>3, <3>4, TakenBrings
      <3>6. QED
        BY <1>b, <2>3, <2>4, <3>1, <3>4, <3>5
    <2>7. \A j \in Calls : DfSound(df'.call[j])
      BY <1>0, <2>4, DfLists
    <2>8. QED
      BY <1>b, <2>4, <2>5, <2>6, <2>7 DEF DfInv
  <1>1. ASSUME NEW n \in Objects, DfChoose(n) \/ DfRename(n) PROVE DfInv'
    <2>1. n # None
      BY WebAssumption
    <2>2. PICK selected \in Objects \cup {None} :
             df' = [df EXCEPT !.selected = selected, !.sendAs = n]
      <3>1. CASE DfChoose(n)
        BY <3>1 DEF DfChoose
      <3>2. CASE DfRename(n)
        <4>1. df' = [df EXCEPT !.selected = df.selected, !.sendAs = n] /\ df.selected \in Objects \cup {None}
          BY <1>0, <3>2 DEF DfRename, DfType
        <4>2. QED
          BY <4>1
      <3>3. QED
        BY <1>1, <3>1, <3>2
    <2>3. df' \in DfType
      BY <1>0, <2>2 DEF DfType
    <2>4. DfTypeOK'
      BY <2>3 DEF DfTypeOK, DfType, DfCall
    <2>5. /\ UNCHANGED <<df.call, df.older, df.crossed, df.listError, df.upError,
                         df.alerted, df.shown, df.files>>
          /\ df'.sendAs # None
      BY <1>0, <2>1, <2>2 DEF DfType
    <2>6. DfGiven' = DfGiven /\ DfSnap' = DfSnap
      BY <2>5 DEF DfGiven, DfSnap, DfListing
    <2>7. QED
      BY <2>4, <2>5, <2>6 DEF DfInv
  <1>2. CASE DfUpload
    <2>1. PICK i \in Calls :
       /\ df.selected # None /\ DfFree(i)
       /\ df' = [df EXCEPT !.uploading = TRUE, !.upError = FALSE,
                        !.status = "requested", !.method = "none",
                        !.call[i] = [NoCall EXCEPT !.op = "upload",
                                        !.name = df.sendAs, !.stage = "sent",
                                        !.snap = {df.selected}]]
      BY <1>2 DEF DfUpload
    <2> DEFINE c == [NoCall EXCEPT !.op = "upload", !.name = df.sendAs,
                                   !.stage = "sent", !.snap = {df.selected}]
               s == [df EXCEPT !.uploading = TRUE, !.upError = FALSE,
                        !.status = "requested", !.method = "none"]
    <2>2. c \in DfCall /\ DfPending(c) /\ DfSound(c)
      BY <1>0, <2>1 DEF DfInv, NoCall, DfCall, DfType, DfPending, DfSound
    <2>3. /\ s \in DfType /\ s.call = df.call /\ s.older = df.older
          /\ s.selected # None => s.sendAs # None
      BY <1>0 DEF DfType, DfInv
    <2>4. df' = [s EXCEPT !.call[i] = c] /\ ~DfListing(i)
      BY <2>1 DEF DfFree, DfListing
    <2> HIDE DEF c, s
    <2>5. QED
      BY <1>a, <2>2, <2>3, <2>4
  <1>3. ASSUME NEW n \in Objects, DfDelete(n) PROVE DfInv'
    <2>1. PICK i \in Calls :
             /\ DfFree(i)
             /\ df' = [df EXCEPT !.call[i] =
                  [NoCall EXCEPT !.op = "delete", !.name = n, !.stage = "sent"]]
      BY <1>3 DEF DfDelete
    <2> DEFINE c == [NoCall EXCEPT !.op = "delete", !.name = n, !.stage = "sent"]
    <2>2. c \in DfCall /\ DfPending(c) /\ DfSound(c)
      BY WebAssumption DEF NoCall, DfCall, DfPending, DfSound
    <2>3. df' = [df EXCEPT !.call[i] = c] /\ ~DfListing(i)
      BY <2>1 DEF DfFree, DfListing
    <2> HIDE DEF c
    <2>4. df.selected # None => df.sendAs # None
      BY DEF DfInv
    <2>5. QED
      BY <1>0, <1>a, <2>2, <2>3, <2>4
  \* A listing starts.
  <1>c. ASSUME NEW i \in Calls, NEW s \in DfType, ~DfListing(i),
               s.call = df.call, s.older = df.older, s.selected = df.selected,
               s.sendAs = df.sendAs, df' = StartList(i, s)
        PROVE  DfInv'
    <2> DEFINE t == [s EXCEPT !.listing = TRUE, !.listError = FALSE]
               c == [NoCall EXCEPT !.op = "list", !.stage = "sent"]
    <2>1. /\ t \in DfType /\ t.call = df.call /\ t.older = df.older
          /\ t.selected # None => t.sendAs # None
      BY <1>c DEF DfType, DfInv
    <2>2. df' = [t EXCEPT !.call[i] = c]
      BY <1>c DEF StartList
    <2>3. c \in DfCall /\ DfPending(c) /\ DfSound(c)
      BY DfLists
    <2> HIDE DEF t, c
    <2>4. QED
      BY <1>a, <1>c, <2>1, <2>2, <2>3
  <1>4. CASE DfRefresh
    <2>1. PICK i \in Calls : DfFree(i) /\ df' = StartList(i, df)
      BY <1>4 DEF DfRefresh
    <2>2. ~DfListing(i)
      BY <2>1 DEF DfFree, DfListing
    <2>3. QED
      BY <1>0, <1>c, <2>1, <2>2
  <1>5. ASSUME NEW i \in Calls, DfStep(i) PROVE DfInv'
    <2> DEFINE c == df.call[i]
    <2>1. CASE DfServed(i) /\ c.op = "list"
      <3> DEFINE d == [c EXCEPT !.stage = "served", !.snap = df.files]
                 s == [df EXCEPT !.older[i] = DfGiven]
      <3>1. c.stage = "sent" /\ i \notin DfGiven
        BY <2>1 DEF DfServed, DfGiven, DfListing
      <3>2. d \in DfCall /\ d.stage = "served" /\ d.op = "list" /\ d.snap = df.files
        BY <1>0, <2>1, ZenonT(60) DEF DfCall, DfType
      <3>3. df' = [s EXCEPT !.call[i] = d]
        BY <1>0, <2>1, ZenonT(60) DEF DfServed, DfGiven, DfType
      <3>4. [df.older EXCEPT ![i] = DfGiven] \in [Calls -> SUBSET Calls]
        BY <1>0
      <3>5. /\ s \in DfType /\ s.call = df.call /\ s.older = [df.older EXCEPT ![i] = DfGiven]
            /\ s.files = df.files /\ s.selected = df.selected /\ s.sendAs = df.sendAs
        BY <1>0, <3>4 DEF DfType
      <3>6. DfSound(d)
        BY <1>0, <3>2, WebAssumption DEF DfSound, DfType
      <3> HIDE DEF d, s
      <3>7. /\ DfTypeOK' /\ df'.call[i] = d
            /\ \A j \in Calls \ {i} : df'.call[j] = df.call[j]
            /\ df'.older = s.older /\ df'.files = s.files
            /\ df'.selected = s.selected /\ df'.sendAs = s.sendAs
            /\ DfGiven' = IF d.op = "list" /\ d.stage = "served"
                          THEN DfGiven \cup {i} ELSE DfGiven \ {i}
        BY <1>0, <3>2, <3>3, <3>5, DfPut
      <3>8. DfGiven' = DfGiven \cup {i} /\ df'.older = [df.older EXCEPT ![i] = DfGiven]
        BY <3>2, <3>5, <3>7
      <3>9. Ordered(DfGiven', df'.older) /\ Newest(DfGiven', df'.older, i)
        BY <1>0, <3>1, <3>8, Given
      <3>10. Brings(DfGiven', df'.older, DfSnap', df'.shown, df'.files)
        <4>1. i \in DfGiven' /\ DfSnap'[i] = df'.files
          BY <3>2, <3>5, <3>7, <3>8 DEF DfSnap
        <4>2. QED
          BY <3>9, <4>1 DEF Brings
      <3>11. \A j \in Calls : DfSound(df'.call[j])
        BY <1>0, <3>6, <3>7
      <3>12. df'.selected # None => df'.sendAs # None
        BY <3>5, <3>7 DEF DfInv
      <3>13. QED
        BY <3>7, <3>9, <3>10, <3>11, <3>12 DEF DfInv
    <2>2. CASE DfServed(i) /\ c.op # "list"
      <3> DEFINE d == [c EXCEPT !.stage = "served"]
                 files == IF c.op = "upload" THEN df.files \cup {c.name} ELSE df.files \ {c.name}
                 s == [df EXCEPT !.files = files]
      <3>1. /\ c.stage = "sent" /\ c.op \in {"upload", "delete"}
            /\ ~DfListing(i)
        BY <1>0, <2>2 DEF DfServed, DfSound, DfCall, DfListing
      <3>2. d \in DfCall /\ d.stage = "served" /\ d.op = c.op /\ d.name = c.name
        BY <1>0 DEF DfCall
      <3>3. files \in SUBSET Objects
        BY <1>0, <3>1 DEF DfCall, DfSound, DfType
      <3>4. df' = [s EXCEPT !.call[i] = d]
        BY <1>0, <2>2 DEF DfServed, DfType
      <3>5. DfSound(d) /\ DfPending(d)
        BY <1>0, <3>1, <3>2 DEF DfSound, DfPending
      <3> HIDE DEF d, files
      <3>6. /\ s \in DfType /\ s.call = df.call /\ s.older = df.older
            /\ s.selected # None => s.sendAs # None
        BY <1>0, <3>3 DEF DfType, DfInv
      <3> HIDE DEF s
      <3>7. QED
        BY <1>a, <3>1, <3>2, <3>4, <3>5, <3>6
    <2>3. CASE DfUploaded(i)
      <3> DEFINE m == Method(CHOOSE n \in c.snap : TRUE)
                 s == [df EXCEPT !.uploading = FALSE, !.status = "uploaded",
                                 !.left = ReturnedKey(c.name), !.method = m]
      <3>1. m \in {"none", "proxy", "direct"}
        BY DEF Method
      <3>2. ReturnedKey(c.name) \in [name : Objects \cup {None}, full : BOOLEAN]
        BY <1>0 DEF ReturnedKey, DfKey, DfCall
      <3>3. df' = StartList(i, s) /\ ~DfListing(i)
        BY <2>3 DEF DfUploaded, DfListing
      <3> HIDE DEF m
      <3>4. /\ s \in DfType /\ s.call = df.call /\ s.older = df.older
            /\ s.selected = df.selected /\ s.sendAs = df.sendAs
        BY <1>0, <3>1, <3>2 DEF DfType
      <3> HIDE DEF s
      <3>5. QED
        BY <1>c, <3>3, <3>4
    <2>4. CASE DfDeleted(i)
      BY <1>0, <1>c, <2>4 DEF DfDeleted, DfListing
    <2>5. CASE DfListed(i)
      <3> DEFINE cr == df.crossed \/ df.older[i] # {}
                 s == [df EXCEPT !.shown = c.snap, !.listing = FALSE,
                                 !.crossed = cr, !.older = Without(df.older, i)]
      <3>1. /\ cr \in BOOLEAN /\ i \in DfGiven /\ c.snap \in SUBSET Objects
            /\ Without(df.older, i) \in [Calls -> SUBSET Calls]
        <4>1. Without(df.older, i) \in [Calls -> SUBSET Calls]
          BY <1>0, Taken
        <4>2. i \in DfGiven /\ c.op = "list"
          BY <2>5 DEF DfListed, DfGiven, DfListing
        <4>3. c.snap \in SUBSET Objects
          BY <1>0, <4>2 DEF DfSound, DfCall
        <4>4. cr \in BOOLEAN
          BY <1>0 DEF DfType
        <4>5. QED
          BY <4>1, <4>2, <4>3, <4>4
      <3>2. ~cr => ~df.crossed /\ df.older[i] = {}
        OBVIOUS
      <3>3. df' = [s EXCEPT !.call[i] = NoCall]
        BY <1>0, <2>5 DEF DfListed, DfType
      <3> HIDE DEF cr
      <3>4. /\ s \in DfType /\ s.call = df.call /\ s.files = df.files
            /\ s.selected = df.selected /\ s.sendAs = df.sendAs
            /\ s.older = Without(df.older, i) /\ s.crossed = cr
            /\ s.shown = c.snap /\ s.listError = df.listError
            /\ s.upError = df.upError /\ s.alerted = df.alerted
        BY <1>0, <3>1 DEF DfType
      <3> HIDE DEF s
      <3>5. QED
        BY <1>b, <3>1, <3>2, <3>3, <3>4
    <2>6. CASE DfListFailed(i)
      <3> DEFINE s == [df EXCEPT !.listError = TRUE, !.listing = FALSE,
                                 !.older = Without(df.older, i)]
      <3>1. Without(df.older, i) \in [Calls -> SUBSET Calls]
        BY <1>0, Taken
      <3>3. df' = [s EXCEPT !.call[i] = NoCall]
        BY <1>0, <2>6 DEF DfListFailed, DfType
      <3>4. /\ s \in DfType /\ s.call = df.call /\ s.files = df.files
            /\ s.selected = df.selected /\ s.sendAs = df.sendAs
            /\ s.older = Without(df.older, i) /\ s.listError
        BY <1>0, <3>1 DEF DfType
      <3> HIDE DEF s
      <3>5. QED
        BY <1>b, <3>3, <3>4
    <2>7. CASE DfUploadFailed(i)
      <3> DEFINE s == [df EXCEPT !.upError = TRUE, !.status = "none", !.uploading = FALSE]
      <3>1. ~DfListing(i)
        BY <2>7 DEF DfUploadFailed, DfListing
      <3>3. df' = [s EXCEPT !.call[i] = NoCall]
        BY <1>0, <2>7 DEF DfUploadFailed, DfType
      <3>4. /\ s \in DfType /\ s.call = df.call /\ s.files = df.files
            /\ s.selected = df.selected /\ s.sendAs = df.sendAs
            /\ s.older = df.older /\ s.upError
        BY <1>0 DEF DfType
      <3> HIDE DEF s
      <3>5. QED
        BY <1>b, <3>1, <3>3, <3>4
    <2>8. CASE DfDeleteFailed(i)
      <3> DEFINE s == [df EXCEPT !.alerted = TRUE]
      <3>1. ~DfListing(i)
        BY <2>8 DEF DfDeleteFailed, DfListing
      <3>3. df' = [s EXCEPT !.call[i] = NoCall]
        BY <1>0, <2>8 DEF DfDeleteFailed, DfType
      <3>4. /\ s \in DfType /\ s.call = df.call /\ s.files = df.files
            /\ s.selected = df.selected /\ s.sendAs = df.sendAs
            /\ s.older = df.older /\ s.alerted
        BY <1>0 DEF DfType
      <3> HIDE DEF s
      <3>5. QED
        BY <1>b, <3>1, <3>3, <3>4
    <2>9. QED
      BY <1>5, <2>1, <2>2, <2>3, <2>4, <2>5, <2>6, <2>7, <2>8 DEF DfStep
  <1>6. QED
    BY <1>1, <1>2, <1>3, <1>4, <1>5 DEF DfNext

LEMMA DfShows == DfInv => DfAgreesOrTold
  <1> SUFFICES ASSUME DfInv, DfQuiet, ~df.crossed
               PROVE  df.shown = df.files \/ df.listError \/ df.upError \/ df.alerted
    BY DEF DfAgreesOrTold
  <1>1. \A i \in Calls : ~DfPending(df.call[i]) /\ i \notin DfGiven
    BY DEF DfQuiet, DfPending, DfGiven, DfListing
  <1>2. QED
    BY <1>1 DEF DfInv, Brings, DfGiven

-----------------------------------------------------------------------------
(* The demo's retrieval *)

\* A retrieval that is out has a key, "Retrieving..." is of one that is out, and
\* when none is, what one found or an error is shown.
DpInv ==
    /\ DpTypeOK
    /\ \A i \in Calls : dp.get[i] # NoGet => dp.get[i].key \in Keys
    /\ dp.loading => \E i \in Calls : dp.get[i] # NoGet
    /\ DpToldOrShown

LEMMA DpNone == DpNoKey \notin Keys
  BY WebAssumption DEF DpNoKey, Keys

LEMMA DpStart == DpInit => DpInv
  BY DEF DpInit, DpNoKey, NoGet, DpInv, DpTypeOK, DpToldOrShown

\* A retrieval that starts.
LEMMA DpStarts ==
    ASSUME DpInv, NEW k \in Keys, NEW old \in Keys \cup {DpNoKey},
           dp' \in DpStarted(k, [dp EXCEPT !.key = old])
    PROVE  DpInv'
  <1> DEFINE new == [NoGet EXCEPT !.key = k]
  <1>1. PICK i \in Calls : dp' = [dp EXCEPT !.key = old, !.loading = TRUE, !.error = FALSE,
             !.blob = None, !.status = "fetching", !.get[i] = new]
    BY DEF DpStarted, DpInv, DpTypeOK
  <1>2. new \in [key : Keys \cup {DpNoKey}, headers : BOOLEAN] /\ new.key = k
    BY DEF NoGet
  <1>3. new # NoGet
    BY <1>2, DpNone DEF NoGet
  <1> HIDE DEF new
  <1>4. dp'.get = [dp.get EXCEPT ![i] = new]
    BY <1>1 DEF DpInv, DpTypeOK
  <1>5. dp'.get \in [Calls -> [key : Keys \cup {DpNoKey}, headers : BOOLEAN]]
    BY <1>2, <1>4 DEF DpInv, DpTypeOK
  <1>6. DpTypeOK'
    BY <1>1, <1>5 DEF DpInv, DpTypeOK
  <1>7. dp'.get[i] # NoGet
    BY <1>3, <1>4 DEF DpInv, DpTypeOK
  <1>8. \A j \in Calls : dp'.get[j] # NoGet => dp'.get[j].key \in Keys
    BY <1>2, <1>4 DEF DpInv, DpTypeOK
  <1>9. QED
    BY <1>6, <1>7, <1>8 DEF DpInv, DpToldOrShown

\* A retrieval that ends, with a content or an error.
LEMMA DpEnds ==
    ASSUME DpInv, DpTypeOK', NEW i \in Calls,
           dp'.get = [dp.get EXCEPT ![i] = NoGet],
           ~dp'.loading, dp'.blob # None \/ dp'.error
    PROVE  DpInv'
  BY DEF DpInv, DpTypeOK, DpToldOrShown

LEMMA DpKeeps == DpInv /\ DpNext => DpInv'
  <1> SUFFICES ASSUME DpInv, DpNext PROVE DpInv'
    OBVIOUS
  <1> USE DEF DpInv
  <1>1. ASSUME NEW k \in Keys \cup {DpNoKey}, DpKey(k) PROVE DpInv'
    BY <1>1 DEF DpKey, DpTypeOK, DpToldOrShown
  <1>2. CASE DpRetrieve
    <2>1. dp.key \in Keys /\ dp = [dp EXCEPT !.key = dp.key]
      BY <1>2 DEF DpRetrieve, DpTypeOK
    <2>2. QED
      BY <1>2, <2>1, DpStarts DEF DpRetrieve
  <1>3. CASE DpSave
    BY <1>3 DEF DpSave, DpTypeOK, DpToldOrShown
  <1>4. ASSUME NEW n \in Objects, DpPreview(n) PROVE DpInv'
    <2>1. [name |-> n, full |-> TRUE] \in Keys
      BY DEF Keys
    <2>2. QED
      BY <1>4, <2>1, DpStarts DEF DpPreview
  <1>5. ASSUME NEW n \in Objects, DpToDisk(n) PROVE DpInv'
    <2>1. [name |-> n, full |-> TRUE] \in Keys
      BY DEF Keys
    <2>2. QED
      BY <1>5, <2>1 DEF DpToDisk, DpTypeOK, DpToldOrShown
  <1>6. ASSUME NEW i \in Calls, dp.get[i] # NoGet
        PROVE  DpContent(dp.get[i].key) \in Objects \cup {Welcome} /\ DpContent(dp.get[i].key) # None
    BY <1>6, WebAssumption, DemoPreviewAssumption DEF DpContent, Keys
  <1>7. ASSUME NEW i \in Calls, DpHeaders(i) PROVE DpInv'
    <2>1. /\ dp.get[i] # NoGet /\ DpContent(dp.get[i].key) \in Objects \cup {Welcome}
          /\ dp' = [dp EXCEPT !.get[i].headers = TRUE, !.mime = DpContent(dp.get[i].key)]
      BY <1>6, <1>7 DEF DpHeaders
    <2>2. dp'.get = [dp.get EXCEPT ![i].headers = TRUE]
      BY <2>1 DEF DpTypeOK
    <2>3. /\ dp'.get \in [Calls -> [key : Keys \cup {DpNoKey}, headers : BOOLEAN]]
          /\ dp'.get[i].key = dp.get[i].key /\ dp'.get[i].headers
          /\ \A j \in Calls \ {i} : dp'.get[j] = dp.get[j]
      <3>1. dp.get \in [Calls -> [key : Keys \cup {DpNoKey}, headers : BOOLEAN]]
        BY DEF DpTypeOK
      <3>2. QED
        BY <2>2, <3>1
    <2>4. DpTypeOK'
      BY <2>1, <2>3 DEF DpTypeOK
    <2>5. dp'.get[i] # NoGet
      BY <2>3 DEF NoGet
    <2>6. QED
      BY <2>1, <2>3, <2>4, <2>5 DEF DpToldOrShown
  <1>8. ASSUME NEW i \in Calls, DpBlob(i) PROVE DpInv'
    <2>1. dp.get[i] # NoGet
      BY <1>8 DEF DpBlob, NoGet
    <2>2. NoGet \in [key : Keys \cup {DpNoKey}, headers : BOOLEAN]
      BY DEF NoGet
    <2>3. DpTypeOK'
      BY <1>6, <1>8, <2>1, <2>2 DEF DpBlob, DpTypeOK
    <2>4. /\ dp'.get = [dp.get EXCEPT ![i] = NoGet] /\ ~dp'.loading
          /\ dp'.blob = DpContent(dp.get[i].key)
      BY <1>8 DEF DpBlob, DpTypeOK
    <2>5. QED
      BY <1>6, <2>1, <2>3, <2>4, DpEnds
  <1>9. ASSUME NEW i \in Calls, DpFailed(i) PROVE DpInv'
    <2>1. NoGet \in [key : Keys \cup {DpNoKey}, headers : BOOLEAN]
      BY DEF NoGet
    <2>2. DpTypeOK'
      BY <1>9, <2>1 DEF DpFailed, DpTypeOK
    <2>3. dp'.get = [dp.get EXCEPT ![i] = NoGet] /\ ~dp'.loading /\ dp'.error
      BY <1>9 DEF DpFailed, DpTypeOK
    <2>4. QED
      BY <2>2, <2>3, DpEnds
  <1>10. QED
    BY <1>1, <1>2, <1>3, <1>4, <1>5, <1>7, <1>8, <1>9 DEF DpNext, DpStep

-----------------------------------------------------------------------------
(* The tables *)

TbOut == [stage : {"none", "sent", "served"}, tenant : BOOLEAN,
          creates : BOOLEAN, snap : SUBSET Tables]

TbCreation == [name : Tables \cup {None}, form : Forms,
               tenant : BOOLEAN, made : BOOLEAN]

TbType == [live : [Tables -> {"none", "default", "other"}],
           shown : SUBSET Tables, open : BOOLEAN, name : Tables \cup {None},
           form : Forms, error : {"none", "name", "failed"},
           creating : BOOLEAN, sent : TbCreation, viewed : Tables \cup {None},
           tenant : BOOLEAN, older : [Calls -> SUBSET Calls],
           fetch : [Calls -> TbOut], crossed : BOOLEAN, failed : BOOLEAN,
           edited : BOOLEAN]

TbGiven == {i \in Calls : tb.fetch[i].stage = "served"}
TbSnap == [i \in Calls |-> tb.fetch[i].snap]
TbLive == {t \in Tables : tb.live[t] # "none"}

\* The drawer is held back from a creation to the end of the fetch after it.
TbHeld ==
    /\ tb.sent # NoTable =>
          /\ tb.creating /\ tb.sent.name # None /\ tb.sent.form # "blank"
          /\ \A i \in Calls : ~tb.fetch[i].creates
    /\ \A i, j \in Calls : tb.fetch[i].creates =>
          tb.creating /\ (tb.fetch[j].creates => i = j)

\* When no answer was lost, no fetch was overtaken and nothing changed elsewhere
\* since one was served, a fetch is still to be served, or a table was made and
\* a fetch will follow, or the fetches that were served bring the tables of the
\* database.
TbInv ==
    /\ TbTypeOK
    /\ \A i \in Calls : tb.fetch[i].stage = "none" => tb.fetch[i] = TbNoFetch
    /\ TbHeld
    /\ Ordered(TbGiven, tb.older)
    /\ ~tb.failed /\ ~tb.crossed /\ ~tb.edited =>
          \/ tb.sent.made
          \/ \E i \in Calls : tb.fetch[i].stage = "sent"
          \/ Brings(TbGiven, tb.older, TbSnap, tb.shown, TbLive)

LEMMA TbTyped == TbTypeOK <=> tb \in TbType
  BY DEF TbTypeOK, TbType, TbOut, TbCreation

LEMMA TbBlank ==
    /\ TbNoFetch \in TbOut /\ TbNoFetch.stage = "none" /\ ~TbNoFetch.creates
    /\ NoTable \in TbCreation /\ ~NoTable.tenant /\ ~NoTable.made
  BY DEF TbNoFetch, TbOut, NoTable, TbCreation, Forms

LEMMA TbStart == TbInit => TbInv
  <1> SUFFICES ASSUME TbInit PROVE TbInv
    OBVIOUS
  <1> DEFINE one == [stage |-> "sent", tenant |-> TRUE, creates |-> FALSE, snap |-> {}]
             new == [[i \in Calls |-> TbNoFetch] EXCEPT ![1] = one]
             old == [i \in Calls |-> {}]
  <1>1. /\ new \in [Calls -> TbOut] /\ \A i \in Calls : new[i] \in {one, TbNoFetch}
        /\ 1 \in Calls /\ new[1] = one
        /\ old \in [Calls -> SUBSET Calls]
    BY TbBlank, WebAssumption DEF Calls, TbOut
  <1>2. PICK there \in [Tables -> {"none", "other"}] : tb = TbFetch(1,
    [live |-> there, shown |-> {}, open |-> FALSE, name |-> None,
     form |-> "default", error |-> "none", creating |-> FALSE,
     sent |-> NoTable, viewed |-> None, tenant |-> TRUE,
     older |-> [i \in Calls |-> {}], fetch |-> [i \in Calls |-> TbNoFetch],
     crossed |-> FALSE, failed |-> FALSE, edited |-> FALSE],
    FALSE)
    BY DEF TbInit
  <1>3. tb = [live |-> there, shown |-> {}, open |-> FALSE, name |-> None,
     form |-> "default", error |-> "none", creating |-> FALSE,
     sent |-> NoTable, viewed |-> None, tenant |-> TRUE,
     older |-> old, fetch |-> new, crossed |-> FALSE, failed |-> FALSE,
     edited |-> FALSE]
    BY <1>2 DEF TbFetch
  <1> HIDE DEF new, old
  <1>4. there \in [Tables -> {"none", "default", "other"}]
    OBVIOUS
  <1>5. tb \in TbType
    BY <1>1, <1>3, <1>4, TbBlank DEF TbType, Forms
  <1>6. \A i \in Calls : /\ tb.fetch[i].stage # "served" /\ ~tb.fetch[i].creates
                         /\ tb.fetch[i].stage = "none" => tb.fetch[i] = TbNoFetch
    BY <1>1, <1>3, TbBlank
  <1>7. TbGiven = {} /\ tb.fetch[1].stage = "sent" /\ tb.sent = NoTable
    BY <1>1, <1>3, <1>6 DEF TbGiven
  <1>8. QED
    BY <1>1, <1>5, <1>6, <1>7, TbTyped DEF TbInv, TbHeld, Ordered

\* A step of the user beside the fetches and the creation.
LEMMA TbAside ==
    ASSUME TbInv, tb' \in TbType,
           UNCHANGED <<tb.live, tb.shown, tb.creating, tb.sent, tb.fetch,
                       tb.older, tb.crossed, tb.failed, tb.edited>>
    PROVE  TbInv'
  <1>1. TbTypeOK'
    BY DEF TbTypeOK, TbType, TbOut, TbCreation
  <1>2. TbGiven' = TbGiven /\ TbSnap' = TbSnap /\ TbLive' = TbLive /\ TbHeld'
    BY DEF TbGiven, TbSnap, TbLive, TbHeld, TbInv
  <1>3. QED
    BY <1>1, <1>2 DEF TbInv

\* A step that puts f for one fetch, and the rest of the page beside it.
LEMMA TbPut ==
    ASSUME tb \in TbType, NEW i \in Calls, NEW f \in TbOut, NEW s \in TbType,
           s.fetch = tb.fetch,
           tb' = [s EXCEPT !.fetch[i] = f]
    PROVE  /\ TbTypeOK'
           /\ tb'.fetch[i] = f /\ \A j \in Calls \ {i} : tb'.fetch[j] = tb.fetch[j]
           /\ tb'.live = s.live /\ tb'.shown = s.shown /\ tb'.older = s.older
           /\ tb'.creating = s.creating /\ tb'.sent = s.sent
           /\ tb'.crossed = s.crossed /\ tb'.failed = s.failed
           /\ tb'.edited = s.edited
           /\ TbGiven' = IF f.stage = "served" THEN TbGiven \cup {i} ELSE TbGiven \ {i}
  <1> DEFINE new == [tb.fetch EXCEPT ![i] = f]
  <1>1. new \in [Calls -> TbOut] /\ new[i] = f /\ \A j \in Calls \ {i} : new[j] = tb.fetch[j]
    BY DEF TbType
  <1>2. tb' = [s EXCEPT !.fetch = new]
    BY DEF TbType
  <1> HIDE DEF new
  <1>3. /\ tb'.fetch = new
        /\ tb'.live = s.live /\ tb'.shown = s.shown /\ tb'.older = s.older
        /\ tb'.creating = s.creating /\ tb'.sent = s.sent
        /\ tb'.crossed = s.crossed /\ tb'.failed = s.failed
        /\ tb'.edited = s.edited
    BY <1>2 DEF TbType
  <1>4. tb' \in TbType
    BY <1>1, <1>2 DEF TbType
  <1>5. TbTypeOK'
    BY <1>4 DEF TbTypeOK, TbType, TbOut, TbCreation
  <1>6. TbGiven' = IF f.stage = "served" THEN TbGiven \cup {i} ELSE TbGiven \ {i}
    BY <1>1, <1>3 DEF TbGiven
  <1>7. QED
    BY <1>1, <1>3, <1>5, <1>6

LEMMA TbKeeps == TbInv /\ TbNext => TbInv'
  <1> SUFFICES ASSUME TbInv, TbNext PROVE TbInv'
    OBVIOUS
  <1>0. /\ tb \in TbType /\ tb.fetch \in [Calls -> TbOut]
        /\ \A i \in Calls : tb.fetch[i] \in TbOut
        /\ TbGiven \in SUBSET Calls /\ tb.older \in [Calls -> SUBSET Calls]
        /\ Ordered(TbGiven, tb.older)
    <2>1. tb \in TbType
      BY TbTyped DEF TbInv
    <2>2. QED
      BY <2>1 DEF TbInv, TbType, TbGiven
  <1>1. CASE TbOtherTab
    <2>1. (~tb.tenant) \in BOOLEAN
      OBVIOUS
    <2>2. tb' \in TbType
      BY <1>0, <1>1, <2>1 DEF TbOtherTab, TbType
    <2>3. QED
      BY <1>0, <1>1, <2>2, TbAside DEF TbOtherTab, TbType
  <1>2. CASE TbOpen \/ TbCancel
    <2>1. PICK o \in BOOLEAN : tb' = [tb EXCEPT !.open = o]
      BY <1>2 DEF TbOpen, TbCancel
    <2>2. tb' \in TbType
      BY <1>0, <2>1 DEF TbType
    <2>3. QED
      BY <1>0, <2>1, <2>2, TbAside DEF TbType
  <1>3. CASE TbAddColumn \/ TbEditColumns
    <2>1. PICK f \in Forms : tb' = [tb EXCEPT !.form = f]
      BY <1>3 DEF TbAddColumn, TbEditColumns, Forms
    <2>2. tb' \in TbType
      BY <1>0, <2>1 DEF TbType
    <2>3. QED
      BY <1>0, <2>1, <2>2, TbAside DEF TbType
  <1>4. ASSUME NEW n \in Tables, TbName(n) PROVE TbInv'
    <2>1. tb' \in TbType
      BY <1>0, <1>4 DEF TbName, TbType
    <2>2. QED
      BY <1>0, <1>4, <2>1, TbAside DEF TbName, TbType
  <1>5. CASE TbCloseView \/ \E n \in Tables : TbView(n)
    <2>1. PICK v \in Tables \cup {None} : tb' = [tb EXCEPT !.viewed = v]
      BY <1>5 DEF TbCloseView, TbView
    <2>2. tb' \in TbType
      BY <1>0, <2>1 DEF TbType
    <2>3. QED
      BY <1>0, <2>1, <2>2, TbAside DEF TbType
  <1>6. CASE TbSubmit
    <2>1. tb.open /\ ~tb.creating /\ tb.name # None
      BY <1>6 DEF TbSubmit, CanSave
    <2>2. CASE tb.form = "blank"
      <3>1. tb' = [tb EXCEPT !.error = "name"]
        BY <1>6, <2>2 DEF TbSubmit
      <3>2. tb' \in TbType
        BY <1>0, <3>1 DEF TbType
      <3>3. QED
        BY <1>0, <3>1, <3>2, TbAside DEF TbType
    <2>3. CASE tb.form # "blank"
      <3> DEFINE new == [name |-> tb.name, form |-> tb.form,
                         tenant |-> tb.tenant, made |-> FALSE]
      <3>1. tb' = [tb EXCEPT !.creating = TRUE, !.error = "none", !.sent = new]
        BY <1>6, <2>3 DEF TbSubmit
      <3>2. new \in TbCreation /\ new.name # None /\ new.form # "blank" /\ ~new.made
        BY <1>0, <2>1, <2>3 DEF TbCreation, TbType
      <3> HIDE DEF new
      <3>3. tb' \in TbType
        BY <1>0, <3>1, <3>2 DEF TbType
      <3>4. TbTypeOK'
        BY <3>3 DEF TbTypeOK, TbType, TbOut, TbCreation
      <3>5. /\ UNCHANGED <<tb.live, tb.shown, tb.fetch, tb.older, tb.crossed, tb.failed,
                           tb.edited>>
            /\ tb'.creating /\ tb'.sent = new
        BY <1>0, <3>1 DEF TbType
      <3>6. TbGiven' = TbGiven /\ TbSnap' = TbSnap /\ TbLive' = TbLive
        BY <3>5 DEF TbGiven, TbSnap, TbLive
      <3>7. tb.sent = NoTable /\ \A i \in Calls : ~tb.fetch[i].creates
        BY <2>1 DEF TbInv, TbHeld
      <3>8. TbHeld'
        BY <3>2, <3>5, <3>7 DEF TbHeld
      <3>9. QED
        BY <3>4, <3>5, <3>6, <3>7, <3>8, TbBlank DEF TbInv
    <2>4. QED
      BY <2>2, <2>3
  <1>7. CASE TbCreateServed
    <2> DEFINE new == [tb.sent EXCEPT !.made = TRUE]
               there == [tb.live EXCEPT ![tb.sent.name] = tb.sent.form]
    <2>1. tb.sent # NoTable /\ tb.sent.form \in {"default", "other"} /\ tb.sent.name \in Tables
      BY <1>0, <1>7, TbBlank DEF TbCreateServed, Accepts, TbInv, TbHeld, TbType, TbCreation, Forms
    <2>2. new \in TbCreation /\ new.made /\ new.name = tb.sent.name /\ new.form = tb.sent.form
      BY <1>0 DEF TbType, TbCreation
    <2>3. there \in [Tables -> {"none", "default", "other"}]
      BY <1>0, <2>1 DEF TbType
    <2>4. tb' = [tb EXCEPT !.sent = new, !.live = there]
      BY <1>0, <1>7 DEF TbCreateServed, TbType
    <2> HIDE DEF new, there
    <2>5. tb' \in TbType
      BY <1>0, <2>2, <2>3, <2>4 DEF TbType
    <2>6. TbTypeOK'
      BY <2>5 DEF TbTypeOK, TbType, TbOut, TbCreation
    <2>7. /\ UNCHANGED <<tb.fetch, tb.older, tb.creating>>
          /\ tb'.sent = new
      BY <1>0, <2>4 DEF TbType
    <2>8. TbGiven' = TbGiven
      BY <2>7 DEF TbGiven
    <2>9. TbHeld'
      BY <2>1, <2>2, <2>7 DEF TbInv, TbHeld
    <2>10. QED
      BY <2>2, <2>6, <2>7, <2>8, <2>9 DEF TbInv
  <1>8. CASE TbCreated
    <2> DEFINE s == [tb EXCEPT !.open = FALSE, !.name = None,
                               !.form = "default", !.sent = NoTable]
    <2>1. PICK i \in Calls :
            /\ tb.sent # NoTable /\ tb.fetch[i] = TbNoFetch
            /\ tb' = TbFetch(i, s, TRUE)
      BY <1>8 DEF TbCreated
    <2> DEFINE f == [stage |-> "sent", tenant |-> s.tenant, creates |-> TRUE, snap |-> {}]
    <2>2. s \in TbType /\ s.fetch = tb.fetch /\ s.older = tb.older /\ s.creating = tb.creating
          /\ s.sent = NoTable
      BY <1>0, TbBlank DEF TbType, Forms
    <2>3. tb' = [s EXCEPT !.fetch[i] = f]
      BY <2>1 DEF TbFetch
    <2> HIDE DEF s
    <2>4. f \in TbOut /\ f.stage = "sent"
      BY <2>2 DEF TbOut, TbType
    <2> HIDE DEF f
    <2>5. TbGiven' = TbGiven
      <3>1. TbGiven' = IF f.stage = "served" THEN TbGiven \cup {i} ELSE TbGiven \ {i}
        BY <1>0, <2>2, <2>3, <2>4, TbPut
      <3>2. i \notin TbGiven
        BY <2>1, TbBlank DEF TbGiven
      <3>3. QED
        BY <2>4, <3>1, <3>2
    <2>6. /\ TbTypeOK'
          /\ tb'.fetch[i] = f /\ \A j \in Calls \ {i} : tb'.fetch[j] = tb.fetch[j]
          /\ tb'.older = s.older /\ tb'.creating = s.creating /\ tb'.sent = s.sent
      BY <1>0, <2>2, <2>3, <2>4, TbPut
    <2>7. TbHeld'
      <3>1. tb.creating /\ \A j \in Calls : ~tb.fetch[j].creates
        BY <2>1 DEF TbInv, TbHeld
      <3>2. tb'.creating /\ tb'.sent = NoTable /\ \A j \in Calls \ {i} : ~tb'.fetch[j].creates
        BY <2>2, <2>6, <3>1
      <3>3. QED
        BY <3>2 DEF TbHeld
    <2>8. QED
      BY <1>0, <2>2, <2>4, <2>5, <2>6, <2>7 DEF TbInv
  <1>9. CASE TbCreateFailed
    <2> DEFINE lost == tb.failed \/ tb.sent.made
    <2>1. lost \in BOOLEAN /\ tb.sent # NoTable
      BY <1>0, <1>9, TbBlank DEF TbCreateFailed, TbType, TbCreation
    <2>2. tb' = [tb EXCEPT !.sent = NoTable, !.error = "failed", !.creating = FALSE, !.failed = lost]
      BY <1>9 DEF TbCreateFailed
    <2>3. ~lost => ~tb.failed /\ ~tb.sent.made
      OBVIOUS
    <2> HIDE DEF lost
    <2>4. tb' \in TbType
      BY <1>0, <2>1, <2>2, TbBlank DEF TbType
    <2>5. TbTypeOK'
      BY <2>4 DEF TbTypeOK, TbType, TbOut, TbCreation
    <2>6. /\ UNCHANGED <<tb.live, tb.shown, tb.fetch, tb.older, tb.crossed, tb.edited>>
          /\ tb'.failed = lost /\ tb'.sent = NoTable
      BY <1>0, <2>2 DEF TbType
    <2>7. TbGiven' = TbGiven /\ TbSnap' = TbSnap /\ TbLive' = TbLive
      BY <2>6 DEF TbGiven, TbSnap, TbLive
    <2>8. TbHeld'
      BY <2>1, <2>6 DEF TbInv, TbHeld
    <2>9. QED
      BY <2>3, <2>5, <2>6, <2>7, <2>8 DEF TbInv
  \* A fetch ends.
  <1>b. ASSUME NEW i \in Calls, NEW s \in TbType,
               s.fetch = tb.fetch, s.older = tb.older, s.live = tb.live,
               s.sent = tb.sent, s.creating = tb.creating, s.edited = tb.edited,
               tb' = TbEnded(i, s),
               ~s.failed /\ ~s.crossed => /\ ~tb.failed /\ ~tb.crossed
                                          /\ i \in TbGiven /\ tb.older[i] = {}
                                          /\ s.shown = tb.fetch[i].snap
        PROVE  TbInv'
    <2> DEFINE on == s.creating /\ ~s.fetch[i].creates
               t == [s EXCEPT !.older = Without(tb.older, i), !.creating = on]
    <2>1. Without(tb.older, i) \in [Calls -> SUBSET Calls]
      BY <1>0, Taken
    <2>2. on \in BOOLEAN /\ (on <=> tb.creating /\ ~tb.fetch[i].creates)
      BY <1>b
    <2>3. tb' = [t EXCEPT !.fetch[i] = TbNoFetch]
      BY <1>b DEF TbEnded
    <2> HIDE DEF on
    <2>4. /\ t \in TbType /\ t.fetch = tb.fetch /\ t.older = Without(tb.older, i)
          /\ t.live = tb.live /\ t.shown = s.shown /\ t.sent = tb.sent /\ t.creating = on
          /\ t.crossed = s.crossed /\ t.failed = s.failed /\ t.edited = tb.edited
      BY <1>b, <2>1, <2>2 DEF TbType
    <2> HIDE DEF t
    <2>5. TbGiven' = TbGiven \ {i}
      <3>1. TbGiven' = IF TbNoFetch.stage = "served" THEN TbGiven \cup {i} ELSE TbGiven \ {i}
        BY <1>0, <2>3, <2>4, TbBlank, TbPut
      <3>2. QED
        BY <3>1, TbBlank
    <2>6. /\ TbTypeOK' /\ tb'.fetch[i] = TbNoFetch
          /\ \A j \in Calls \ {i} : tb'.fetch[j] = tb.fetch[j]
          /\ tb'.older = Without(tb.older, i)
          /\ tb'.live = tb.live /\ tb'.shown = s.shown /\ tb'.sent = tb.sent /\ tb'.creating = on
          /\ tb'.crossed = s.crossed /\ tb'.failed = s.failed /\ tb'.edited = tb.edited
      BY <1>0, <2>3, <2>4, TbBlank, TbPut
    <2>7. Ordered(TbGiven', tb'.older)
      <3>1. Ordered(TbGiven \ {i}, Without(tb.older, i))
        BY <1>0, Taken
      <3>2. QED
        BY <2>5, <2>6, <3>1
    <2>8. TbHeld'
      BY <1>0, <2>2, <2>6, TbBlank DEF TbInv, TbHeld
    <2>9. ASSUME ~tb'.failed, ~tb'.crossed, ~tb'.edited, ~tb'.sent.made,
                 ~\E j \in Calls : tb'.fetch[j].stage = "sent"
          PROVE  Brings(TbGiven', tb'.older, TbSnap', tb'.shown, TbLive')
      <3>1. /\ i \in TbGiven /\ tb.older[i] = {} /\ s.shown = tb.fetch[i].snap
            /\ ~tb.failed /\ ~tb.crossed /\ ~tb.edited
        BY <1>b, <2>6, <2>9
      <3>2. ~tb.sent.made /\ \A j \in Calls : tb.fetch[j].stage # "sent"
        BY <2>6, <2>9, <3>1 DEF TbGiven
      <3>3. Brings(TbGiven, tb.older, TbSnap, tb.shown, TbLive)
        BY <3>1, <3>2 DEF TbInv
      <3>4. /\ \A j \in TbGiven \ {i} : TbSnap'[j] = TbSnap[j]
            /\ TbSnap[i] = s.shown /\ TbLive' = TbLive
        BY <1>0, <2>6, <3>1 DEF TbSnap, TbLive
      <3>5. Brings(TbGiven \ {i}, Without(tb.older, i), TbSnap', TbSnap[i], TbLive)
        BY <1>0, <3>1, <3>3, <3>4, TakenBrings
      <3>6. QED
        BY <2>5, <2>6, <3>4, <3>5
    <2>10. QED
      BY <2>6, <2>7, <2>8, <2>9 DEF TbInv
  <1>10. ASSUME NEW i \in Calls, TbStep(i) PROVE TbInv'
    <2> DEFINE c == tb.fetch[i]
    <2>1. CASE TbFetchServed(i)
      <3> DEFINE d == [c EXCEPT !.stage = "served", !.snap = TbLive]
                 s == [tb EXCEPT !.older[i] = TbGiven, !.edited = FALSE]
      <3>1. c.stage = "sent" /\ i \notin TbGiven
        BY <2>1 DEF TbFetchServed, TbGiven
      <3>2. d \in TbOut /\ d.stage = "served" /\ d.creates = c.creates /\ d.snap = TbLive
        BY <1>0 DEF TbOut, TbLive
      <3>3. tb' = [s EXCEPT !.fetch[i] = d]
        BY <1>0, <2>1 DEF TbFetchServed, TbGiven, TbLive, TbType
      <3>4. [tb.older EXCEPT ![i] = TbGiven] \in [Calls -> SUBSET Calls]
        BY <1>0
      <3>5. /\ s \in TbType /\ s.fetch = tb.fetch /\ s.older = [tb.older EXCEPT ![i] = TbGiven]
            /\ s.live = tb.live /\ s.sent = tb.sent /\ s.creating = tb.creating
        BY <1>0, <3>4 DEF TbType
      <3> HIDE DEF d, s
      <3>6. TbGiven' = TbGiven \cup {i}
        <4>1. TbGiven' = IF d.stage = "served" THEN TbGiven \cup {i} ELSE TbGiven \ {i}
          BY <1>0, <3>2, <3>3, <3>5, TbPut
        <4>2. QED
          BY <3>2, <4>1
      <3>7. /\ TbTypeOK' /\ tb'.fetch[i] = d
            /\ \A j \in Calls \ {i} : tb'.fetch[j] = tb.fetch[j]
            /\ tb'.older = s.older /\ tb'.live = s.live
            /\ tb'.sent = s.sent /\ tb'.creating = s.creating
        BY <1>0, <3>2, <3>3, <3>5, TbPut
      <3>8. tb'.older = [tb.older EXCEPT ![i] = TbGiven] /\ TbLive' = TbLive
        BY <3>5, <3>7 DEF TbLive
      <3>9. Ordered(TbGiven', tb'.older) /\ Newest(TbGiven', tb'.older, i)
        BY <1>0, <3>1, <3>6, <3>8, Given
      <3>10. Brings(TbGiven', tb'.older, TbSnap', tb'.shown, TbLive')
        <4>1. i \in TbGiven' /\ TbSnap'[i] = TbLive'
          BY <3>2, <3>6, <3>7, <3>8 DEF TbSnap
        <4>2. QED
          BY <3>9, <4>1 DEF Brings
      <3>11. TbHeld'
        BY <1>0, <3>2, <3>5, <3>7 DEF TbInv, TbHeld
      <3>12. QED
        BY <3>2, <3>7, <3>9, <3>10, <3>11 DEF TbInv
    <2>2. CASE TbFetched(i)
      <3> DEFINE cr == tb.crossed \/ tb.older[i] # {}
                 s == [tb EXCEPT !.shown = c.snap, !.crossed = cr]
      <3>1. cr \in BOOLEAN /\ c.snap \in SUBSET Tables /\ i \in TbGiven
        BY <1>0, <2>2 DEF TbFetched, TbOut, TbGiven, TbType
      <3>2. ~cr => ~tb.crossed /\ tb.older[i] = {}
        OBVIOUS
      <3>3. tb' = TbEnded(i, s)
        BY <2>2 DEF TbFetched
      <3> HIDE DEF cr
      <3>4. /\ s \in TbType /\ s.fetch = tb.fetch /\ s.older = tb.older
            /\ s.live = tb.live /\ s.failed = tb.failed /\ s.crossed = cr
            /\ s.sent = tb.sent /\ s.creating = tb.creating /\ s.edited = tb.edited
            /\ s.shown = c.snap
        BY <1>0, <3>1 DEF TbType
      <3> HIDE DEF s
      <3>5. QED
        BY <1>b, <3>1, <3>2, <3>3, <3>4
    <2>3. CASE TbFetchFailed(i)
      <3> DEFINE shown == IF c.tenant THEN tb.shown ELSE {}
                 s == [tb EXCEPT !.failed = TRUE, !.shown = shown]
      <3>1. shown \in SUBSET Tables
        BY <1>0 DEF TbType
      <3>2. tb' = TbEnded(i, s)
        BY <1>0, <2>3 DEF TbFetchFailed, TbType
      <3> HIDE DEF shown
      <3>4. /\ s \in TbType /\ s.fetch = tb.fetch /\ s.older = tb.older
            /\ s.live = tb.live /\ s.failed
            /\ s.sent = tb.sent /\ s.creating = tb.creating /\ s.edited = tb.edited
        BY <1>0, <3>1 DEF TbType
      <3> HIDE DEF s
      <3>5. QED
        BY <1>b, <3>2, <3>4
    <2>4. QED
      BY <1>10, <2>1, <2>2, <2>3 DEF TbStep
  <1>11. ASSUME NEW n \in Tables, TbElsewhere(n) PROVE TbInv'
    <2> DEFINE there == [tb.live EXCEPT ![n] = IF @ = "none" THEN "other" ELSE "none"]
    <2>1. there \in [Tables -> {"none", "default", "other"}]
      BY <1>0 DEF TbType
    <2>2. tb' = [tb EXCEPT !.edited = TRUE, !.live = there]
      BY <1>0, <1>11 DEF TbElsewhere, TbType
    <2> HIDE DEF there
    <2>3. tb' \in TbType
      BY <1>0, <2>1, <2>2 DEF TbType
    <2>4. TbTypeOK'
      BY <2>3 DEF TbTypeOK, TbType, TbOut, TbCreation
    <2>5. UNCHANGED <<tb.fetch, tb.older, tb.creating, tb.sent>> /\ tb'.edited
      BY <1>0, <2>2 DEF TbType
    <2>6. TbGiven' = TbGiven /\ TbHeld'
      BY <2>5 DEF TbGiven, TbInv, TbHeld
    <2>7. QED
      BY <2>4, <2>5, <2>6 DEF TbInv
  <1>12. QED
    BY <1>1, <1>2, <1>3, <1>4, <1>5, <1>6, <1>7, <1>8, <1>9, <1>10, <1>11
       DEF TbNext, TbAnswer

LEMMA TbShows == TbInv => TbAgrees
  <1> SUFFICES ASSUME TbInv, \A i \in Calls : tb.fetch[i] = TbNoFetch, tb.sent = NoTable,
                      ~tb.failed, ~tb.crossed, ~tb.edited
               PROVE  tb.shown = TbLive
    BY DEF TbAgrees, TbLive
  <1>1. TbGiven = {} /\ ~tb.sent.made /\ \A i \in Calls : tb.fetch[i].stage # "sent"
    BY TbBlank DEF TbGiven
  <1>2. QED
    BY <1>1 DEF TbInv, Brings

-----------------------------------------------------------------------------
(* The SQL drawer *)

\* "Executing" is of a run that is out; a run that was answered has an outcome.
SqInv ==
    /\ SqTypeOK
    /\ sq.executing => \E i \in Calls : sq.run[i] # "none"
    /\ sq.ran <=> sq.results # None
    /\ sq.locked <=> sq.open

LEMMA SqReady == ASSUME NEW t \in BOOLEAN, NEW d \in Queries \cup {None}, sq' = SqLoaded(t, d)
                 PROVE  SqInv'
  BY DEF SqLoaded, FirstQuery, SqInv, SqTypeOK, Queries

LEMMA SqStart == SqInit => SqInv
  BY DEF SqInit, SqLoaded, FirstQuery, SqInv, SqTypeOK, Queries

LEMMA SqKeeps == SqInv /\ SqNext => SqInv'
  <1> SUFFICES ASSUME SqInv, SqNext PROVE SqInv'
    OBVIOUS
  <1> USE SqlDrawerAssumption DEF SqInv, SqTypeOK
  <1>1. CASE SqOpen
    BY <1>1 DEF SqOpen
  <1>2. CASE SqClose
    BY <1>2 DEF SqClose
  <1>3. CASE SqOtherTab
    BY <1>3, ZenonT(60) DEF SqOtherTab
  <1>4. CASE SqReload
    BY <1>4, SqReady DEF SqReload
  <1>5. CASE SqRun
    <2>1. PICK i \in Calls : sq' = [sq EXCEPT !.executing = TRUE, !.run[i] = "sent"]
      BY <1>5 DEF SqRun
    <2>2. [sq.run EXCEPT ![i] = "sent"] \in [Calls -> {"none", "sent", "rows", "no rows"}]
      OBVIOUS
    <2>3. QED
      BY <2>1, <2>2, ZenonT(60)
  <1>6. ASSUME NEW q \in Queries, SqType(q) PROVE SqInv'
    BY <1>6 DEF SqType
  <1>7. ASSUME NEW i \in Calls, SqServed(i) PROVE SqInv'
    <2>1. PICK a \in {"rows", "no rows"} : sq' = [sq EXCEPT !.run[i] = a]
      BY <1>7 DEF SqServed
    <2>2. [sq.run EXCEPT ![i] = a] \in [Calls -> {"none", "sent", "rows", "no rows"}]
      BY <2>1
    <2>3. QED
      BY <2>1, <2>2, ZenonT(60)
  <1>8. ASSUME NEW i \in Calls, SqAnswered(i) \/ SqFailed(i) PROVE SqInv'
    <2>1. PICK r \in BOOLEAN :
             sq' = [sq EXCEPT !.run[i] = "none", !.executing = FALSE, !.ran = TRUE,
                              !.rows = r, !.results = "0 rows"]
      BY <1>8 DEF SqAnswered, SqFailed, IsArray
    <2>2. [sq.run EXCEPT ![i] = "none"] \in [Calls -> {"none", "sent", "rows", "no rows"}]
      OBVIOUS
    <2>3. QED
      BY <2>1, <2>2
  <1>9. QED
    BY <1>1, <1>2, <1>3, <1>4, <1>5, <1>6, <1>7, <1>8 DEF SqNext, SqStep

-----------------------------------------------------------------------------
(* The schema *)

SvFetches ==
   [stage : {"none", "sent"}, tables : {{None}} \cup SUBSET Tables,
    keys : {{<<None, None>>}} \cup SUBSET (Tables \X Tables)]

SvPuts(i, f, nodes, edges, loading) ==
   [sv EXCEPT !.fetch[i] = f, !.nodes = nodes, !.edges = edges, !.loading = loading]

\* Unless the schema changed under a fetch, what the queries of a fetch have
\* answered is of the schema as it is.
SvCurrent(f) ==
    /\ f.tables \in {{None}, sv.tables}
    /\ f.keys = {<<None, None>>} \/ f.keys \subseteq sv.tables \X sv.tables

SvInv ==
    /\ SvTypeOK
    /\ sv.fetch \in [Calls -> SvFetches]
    /\ ~sv.raced =>
          /\ \A e \in sv.edges : {e[1], e[2]} \subseteq sv.nodes
          /\ \A i \in Calls : sv.fetch[i].stage = "sent" => SvCurrent(sv.fetch[i])

LEMMA SvBlank ==
    /\ Sent \in SvFetches /\ SvNoFetch \in SvFetches
    /\ Sent.stage = "sent" /\ SvNoFetch.stage = "none"
    /\ Sent.tables = {None} /\ Sent.keys = {<<None, None>>}
  BY DEF Sent, SvNoFetch, SvFetches

\* A step that puts f for one fetch, and the rest of the page beside it.
LEMMA SvPut ==
    ASSUME SvInv, NEW i \in Calls, NEW f \in SvFetches,
           NEW nodes \in SUBSET Tables, NEW edges \in SUBSET (Tables \X Tables),
           NEW loading \in BOOLEAN,
           sv' = SvPuts(i, f, nodes, edges, loading),
           ~sv.raced => \A e \in edges : {e[1], e[2]} \subseteq nodes,
           ~sv.raced /\ f.stage = "sent" => SvCurrent(f)
    PROVE  SvInv'
  <1> DEFINE new == [sv.fetch EXCEPT ![i] = f]
  <1>1. new \in [Calls -> SvFetches] /\ new[i] = f /\ \A j \in Calls \ {i} : new[j] = sv.fetch[j]
    BY DEF SvInv, SvTypeOK, SvFetches
  <1>2. sv' = [sv EXCEPT !.fetch = new, !.nodes = nodes, !.edges = edges, !.loading = loading]
    BY DEF SvInv, SvTypeOK, SvPuts
  <1> HIDE DEF new
  <1>3. /\ sv'.fetch = new /\ sv'.nodes = nodes /\ sv'.edges = edges
        /\ UNCHANGED <<sv.tables, sv.keys, sv.raced>>
    BY <1>2 DEF SvInv, SvTypeOK
  <1>6. SvFetches \subseteq [stage : {"none", "sent"}, tables : SUBSET (Tables \cup {None}),
                             keys : SUBSET ((Tables \cup {None}) \X (Tables \cup {None}))]
    BY DEF SvFetches
  <1>7. new \in [Calls -> [stage : {"none", "sent"}, tables : SUBSET (Tables \cup {None}),
                           keys : SUBSET ((Tables \cup {None}) \X (Tables \cup {None}))]]
    BY <1>1, <1>6
  <1>4. SvTypeOK'
    BY <1>2, <1>3, <1>7 DEF SvInv, SvTypeOK
  <1>5. QED
    BY <1>1, <1>3, <1>4 DEF SvInv, SvCurrent

LEMMA SvStart == SvInit => SvInv
  <1> SUFFICES ASSUME SvInit PROVE SvInv
    OBVIOUS
  <1>1. PICK t \in SUBSET Tables : sv = SvFetch(1,
    [tables |-> t, keys |-> {}, nodes |-> {}, edges |-> {}, loading |-> FALSE,
     fetch |-> [i \in Calls |-> SvNoFetch], copied |-> FALSE,
     timers |-> 0, raced |-> FALSE])
    BY DEF SvInit
  <1> DEFINE new == [[i \in Calls |-> SvNoFetch] EXCEPT ![1] = Sent]
  <1>2. new \in [Calls -> SvFetches] /\ \A i \in Calls : new[i] \in {Sent, SvNoFetch}
    BY SvBlank
  <1>3. sv = [tables |-> t, keys |-> {}, nodes |-> {}, edges |-> {}, loading |-> TRUE,
              fetch |-> new, copied |-> FALSE, timers |-> 0, raced |-> FALSE]
    BY <1>1 DEF SvFetch
  <1> HIDE DEF new
  <1>4. 0 \in 0 .. MaxCalls
    BY WebAssumption
  <1>5. QED
    BY <1>2, <1>3, <1>4, SvBlank DEF SvInv, SvTypeOK, SvFetches, SvCurrent

LEMMA SvKeeps == SvInv /\ SvNext => SvInv'
  <1> SUFFICES ASSUME SvInv, SvNext PROVE SvInv'
    OBVIOUS
  <1>0. SvTypeOK /\ sv.fetch \in [Calls -> SvFetches] /\ \A i \in Calls : sv.fetch[i] \in SvFetches
    BY DEF SvInv, SvTypeOK, SvFetches
  <1>1. CASE SvSchema
    <2>1. PICK tables \in SUBSET Tables, keys \in SUBSET (Tables \X Tables) :
             /\ sv' = Changed([sv EXCEPT !.tables = tables, !.keys = keys])
             /\ keys \subseteq tables \X tables
      <3>1. CASE \E t \in Tables \ sv.tables : sv' = Changed([sv EXCEPT !.tables = @ \cup {t}])
        <4>1. PICK t \in Tables \ sv.tables : sv' = Changed([sv EXCEPT !.tables = @ \cup {t}])
          BY <3>1
        <4>2. [sv EXCEPT !.tables = @ \cup {t}] = [sv EXCEPT !.tables = sv.tables \cup {t}, !.keys = sv.keys]
          BY <1>0 DEF SvTypeOK
        <4>3. /\ sv.tables \cup {t} \in SUBSET Tables /\ sv.keys \in SUBSET (Tables \X Tables)
              /\ sv.keys \subseteq (sv.tables \cup {t}) \X (sv.tables \cup {t})
          BY <1>0 DEF SvTypeOK
        <4>4. QED
          BY <4>1, <4>2, <4>3
      <3>2. CASE \E t \in sv.tables :
          sv' = Changed([sv EXCEPT !.tables = @ \ {t},
                                   !.keys = {k \in @ : t \notin {k[1], k[2]}}])
        <4>1. PICK t \in sv.tables :
                 sv' = Changed([sv EXCEPT !.tables = @ \ {t},
                                   !.keys = {k \in @ : t \notin {k[1], k[2]}}])
          BY <3>2
        <4> DEFINE keys == {k \in sv.keys : t \notin {k[1], k[2]}}
        <4>2. [sv EXCEPT !.tables = @ \ {t}, !.keys = {k \in @ : t \notin {k[1], k[2]}}]
                 = [sv EXCEPT !.tables = sv.tables \ {t}, !.keys = keys]
          BY <1>0 DEF SvTypeOK
        <4>3. /\ sv.tables \ {t} \in SUBSET Tables /\ keys \in SUBSET (Tables \X Tables)
              /\ keys \subseteq (sv.tables \ {t}) \X (sv.tables \ {t})
          BY <1>0 DEF SvTypeOK
        <4>4. QED
          BY <4>1, <4>2, <4>3, ZenonT(60)
      <3>3. CASE \E k \in (sv.tables \X sv.tables) \ sv.keys :
                    sv' = Changed([sv EXCEPT !.keys = @ \cup {k}])
        <4>1. PICK k \in (sv.tables \X sv.tables) \ sv.keys :
                    sv' = Changed([sv EXCEPT !.keys = @ \cup {k}])
          BY <3>3
        <4>2. [sv EXCEPT !.keys = @ \cup {k}] = [sv EXCEPT !.tables = sv.tables, !.keys = sv.keys \cup {k}]
          BY <1>0 DEF SvTypeOK
        <4>3. /\ sv.tables \in SUBSET Tables /\ sv.keys \cup {k} \in SUBSET (Tables \X Tables)
              /\ sv.keys \cup {k} \subseteq sv.tables \X sv.tables
          BY <1>0 DEF SvTypeOK
        <4>4. QED
          BY <4>1, <4>2, <4>3, ZenonT(60)
      <3>4. QED
        BY <1>1, <3>1, <3>2, <3>3 DEF SvSchema
    <2> DEFINE raced == sv.raced \/ SvOut # {}
    <2>2. raced \in BOOLEAN
      OBVIOUS
    <2>3. sv' = [sv EXCEPT !.tables = tables, !.keys = keys, !.raced = raced]
      BY <1>0, <2>1 DEF Changed, SvTypeOK
    <2>4. raced <=> (sv.raced \/ \E i \in Calls : sv.fetch[i].stage # "none")
      BY DEF SvOut
    <2> HIDE DEF raced
    <2>5. SvTypeOK'
      BY <1>0, <2>1, <2>2, <2>3 DEF SvTypeOK
    <2>6. sv'.raced = raced /\ UNCHANGED <<sv.nodes, sv.edges, sv.fetch>>
      BY <1>0, <2>3 DEF SvTypeOK
    <2>7. QED
      BY <2>4, <2>5, <2>6 DEF SvInv
  <1>2. CASE SvRefetch
    <2>1. PICK i \in Calls \ SvOut : sv' = SvFetch(i, sv)
      BY <1>2 DEF SvRefetch
    <2>2. /\ sv' = SvPuts(i, Sent, sv.nodes, sv.edges, TRUE)
          /\ sv.nodes \in SUBSET Tables /\ sv.edges \in SUBSET (Tables \X Tables)
      BY <1>0, <2>1 DEF SvFetch, SvTypeOK, SvPuts
    <2>3. SvCurrent(Sent)
      BY SvBlank DEF SvCurrent
    <2>4. ~sv.raced => \A e \in sv.edges : {e[1], e[2]} \subseteq sv.nodes
      BY DEF SvInv
    <2>5. QED
      BY <2>2, <2>3, <2>4, SvBlank, SvPut
  <1>3. CASE SvCopy
    <2>1. sv.timers + 1 \in 0 .. MaxCalls
      BY <1>0, <1>3, WebAssumption DEF SvCopy, SvTypeOK
    <2>2. SvTypeOK' /\ UNCHANGED <<sv.nodes, sv.edges, sv.fetch, sv.tables, sv.raced>>
      BY <1>0, <1>3, <2>1 DEF SvCopy, SvTypeOK
    <2>3. QED
      BY <2>2 DEF SvInv, SvCurrent
  <1>4. CASE SvCopyTimer
    <2>1. sv.timers - 1 \in 0 .. MaxCalls
      BY <1>0, <1>4, WebAssumption DEF SvCopyTimer, SvTypeOK
    <2>2. SvTypeOK' /\ UNCHANGED <<sv.nodes, sv.edges, sv.fetch, sv.tables, sv.raced>>
      BY <1>0, <1>4, <2>1 DEF SvCopyTimer, SvTypeOK
    <2>3. QED
      BY <2>2 DEF SvInv, SvCurrent
  <1>5. CASE \E i \in Calls : SvStep(i)
    <2>1. PICK i \in Calls : SvStep(i)
      BY <1>5
    <2> DEFINE f == sv.fetch[i]
    <2>2. /\ f \in SvFetches /\ f.stage \in {"none", "sent"}
          /\ sv.nodes \in SUBSET Tables /\ sv.edges \in SUBSET (Tables \X Tables)
          /\ sv.loading \in BOOLEAN /\ sv.tables \in SUBSET Tables
          /\ sv.keys \in SUBSET (Tables \X Tables)
      BY <1>0 DEF SvTypeOK, SvFetches
    <2>3. ~sv.raced => /\ \A e \in sv.edges : {e[1], e[2]} \subseteq sv.nodes
                       /\ f.stage = "sent" => SvCurrent(f)
      BY DEF SvInv
    <2>4. CASE SvTablesServed(i)
      <3> DEFINE g == [f EXCEPT !.tables = sv.tables]
      <3>1. g \in SvFetches /\ g.stage = f.stage /\ g.tables = sv.tables /\ g.keys = f.keys
        BY <2>2 DEF SvFetches
      <3>2. sv' = SvPuts(i, g, sv.nodes, sv.edges, sv.loading)
        BY <1>0, <2>4 DEF SvTablesServed, SvTypeOK, SvPuts
      <3>3. ~sv.raced /\ g.stage = "sent" => SvCurrent(g)
        BY <2>3, <3>1 DEF SvCurrent
      <3> HIDE DEF g
      <3>4. QED
        BY <2>2, <2>3, <3>1, <3>2, <3>3, SvPut
    <2>5. CASE SvKeysServed(i)
      <3>1. PICK keys \in {sv.keys, {}} : sv' = [sv EXCEPT !.fetch[i].keys = keys]
        BY <2>5 DEF SvKeysServed
      <3> DEFINE g == [f EXCEPT !.keys = keys]
      <3>2. g \in SvFetches /\ g.stage = f.stage /\ g.tables = f.tables /\ g.keys = keys
        BY <2>2 DEF SvFetches
      <3>3. sv' = SvPuts(i, g, sv.nodes, sv.edges, sv.loading)
        BY <1>0, <3>1 DEF SvTypeOK, SvPuts
      <3>4. keys \subseteq sv.tables \X sv.tables
        BY <1>0 DEF SvTypeOK
      <3>5. ~sv.raced /\ g.stage = "sent" => SvCurrent(g)
        BY <2>3, <3>2, <3>4 DEF SvCurrent
      <3> HIDE DEF g
      <3>6. QED
        BY <2>2, <2>3, <3>2, <3>3, <3>5, SvPut
    <2>6. CASE SvFetched(i)
      <3>1. /\ f.stage = "sent" /\ None \notin f.tables /\ <<None, None>> \notin f.keys
            /\ sv' = SvPuts(i, SvNoFetch, f.tables, f.keys, FALSE)
        BY <1>0, <2>2, <2>6 DEF SvFetched, SvEnded, SvOut, Complete, SvTypeOK, SvPuts
      <3>2. f.tables \in SUBSET Tables
        BY <2>2, <3>1 DEF SvFetches
      <3>3. ~sv.raced => f.tables = sv.tables /\ f.keys \subseteq f.tables \X f.tables
        BY <2>3, <3>1 DEF SvCurrent
      <3>5. ~sv.raced => \A e \in f.keys : {e[1], e[2]} \subseteq f.tables
        BY <3>3
      <3>4. f.keys \in SUBSET (Tables \X Tables)
        BY <2>2, <3>1 DEF SvFetches
      <3>6. QED
        BY <2>2, <3>1, <3>2, <3>4, <3>5, SvBlank, SvPut
    <2>7. CASE SvFetchFailed(i)
      <3>1. sv' = SvPuts(i, SvNoFetch, {}, {}, FALSE)
        BY <1>0, <2>7 DEF SvFetchFailed, SvEnded, SvTypeOK, SvPuts
      <3>2. \A e \in {} : {e[1], e[2]} \subseteq {}
        OBVIOUS
      <3>3. {} \in SUBSET Tables /\ {} \in SUBSET (Tables \X Tables)
        OBVIOUS
      <3>4. QED
        BY <3>1, <3>2, <3>3, SvBlank, SvPut
    <2>8. QED
      BY <2>1, <2>4, <2>5, <2>6, <2>7 DEF SvStep
  <1>6. QED
    BY <1>1, <1>2, <1>3, <1>4, <1>5 DEF SvNext

-----------------------------------------------------------------------------
(* The console's projects *)

FpAsking(c) == fp.lists[c].at # "idle"

\* Unless a call failed or two lists were under way at once, the cards are
\* Cloudflare's projects, or those that a list brings, or a list is to come.
FpToCome ==
    \/ fp.status = "asked"
    \/ fp.deploy # None /\ fp.deploy.at # "sent"
    \/ \E c \in Calls : fp.lists[c].at = "sent"

FpInv ==
    /\ FpTypeOK
    /\ fp.status = "asked" => \A c \in Calls : ~FpAsking(c)
    /\ fp.deploy # None => fp.status = "done"
    /\ fp.late # {} => fp.failed
    /\ ~fp.failed /\ ~fp.crossed =>
          /\ \A c, d \in Calls : FpAsking(c) /\ FpAsking(d) => c = d
          /\ \/ FpToCome
             \/ \E c \in Calls : fp.lists[c].at = "served" /\ fp.lists[c].seen = fp.made
             \/ (\A c \in Calls : ~FpAsking(c)) /\ fp.cards = fp.made

LEMMA FpStart == FpInit => FpInv
  BY WebAssumption DEF FpInit, FpIdle, FpInv, FpTypeOK, FpToCome, FpAsking

\* A list that starts.
LEMMA FpFetches ==
    ASSUME FpInv, NEW c \in Calls, fp.lists[c].at = "idle", NEW s,
           s.lists = fp.lists, s.crossed = fp.crossed, s.status = "done",
           s.failed = fp.failed, s.late = fp.late,
           s \in [screen : {"dashboard", "new_project", "project_detail"},
            active : Projects \cup {None}, status : {"asked", "done"},
            made : SUBSET Projects, cards : SUBSET Projects,
            lists : [Calls -> [at : {"idle", "sent", "served"},
                               seen : SUBSET Projects]],
            loading : BOOLEAN, picked : Projects \cup {None},
            deploy : {None} \cup Deployments,
            error : BOOLEAN, late : SUBSET Projects, failed : BOOLEAN,
            crossed : BOOLEAN],
           fp' = FpFetch(s, c)
    PROVE  FpInv'
  <1> DEFINE new == [FpIdle EXCEPT !.at = "sent"]
             cr == s.crossed \/ \E d \in Calls : s.lists[d].at # "idle"
             ls == [fp.lists EXCEPT ![c] = new]
  <1>1. new \in [at : {"idle", "sent", "served"}, seen : SUBSET Projects] /\ new.at = "sent"
    BY DEF FpIdle
  <1> HIDE DEF new
  <1>2. ls \in [Calls -> [at : {"idle", "sent", "served"}, seen : SUBSET Projects]]
    BY <1>1 DEF FpInv, FpTypeOK
  <1>3. cr \in BOOLEAN
    OBVIOUS
  <1>4. fp' = [s EXCEPT !.lists = ls, !.loading = TRUE, !.crossed = cr]
    BY DEF FpFetch, new
  <1>5. cr <=> (fp.crossed \/ \E d \in Calls : fp.lists[d].at # "idle")
    OBVIOUS
  <1>6. ls[c].at = "sent" /\ \A d \in Calls \ {c} : ls[d] = fp.lists[d]
    BY <1>1 DEF FpInv, FpTypeOK
  <1> HIDE DEF ls, cr
  <1>7. FpTypeOK'
    BY <1>2, <1>3, <1>4 DEF FpTypeOK
  <1>8. /\ fp'.lists = ls /\ fp'.crossed = cr /\ fp'.status = "done"
        /\ fp'.failed = fp.failed /\ fp'.late = fp.late
    BY <1>4
  <1>9. QED
    BY <1>5, <1>6, <1>7, <1>8 DEF FpInv, FpToCome, FpAsking

LEMMA FpKeeps == FpInv /\ FpNext => FpInv'
  <1> SUFFICES ASSUME FpInv, FpNext PROVE FpInv'
    OBVIOUS
  <1> USE FrontedgeProjectsAssumption
  <1> DEFINE Lists == [Calls -> [at : {"idle", "sent", "served"}, seen : SUBSET Projects]]
  <1>0. FpTypeOK /\ fp.lists \in Lists /\ FpIdle \in [at : {"idle", "sent", "served"}, seen : SUBSET Projects]
        /\ FpIdle.at = "idle"
    BY DEF FpInv, FpTypeOK, FpIdle
  <1>1. CASE FpStatus
    <2>1. CASE \E c \in Calls : /\ fp.lists[c].at = "idle"
                                /\ fp' = FpFetch([fp EXCEPT !.status = "done"], c)
      <3>1. PICK c \in Calls : /\ fp.lists[c].at = "idle"
                               /\ fp' = FpFetch([fp EXCEPT !.status = "done"], c)
        BY <2>1
      <3> DEFINE s == [fp EXCEPT !.status = "done"]
      <3>2. /\ s.lists = fp.lists /\ s.crossed = fp.crossed /\ s.status = "done"
            /\ s.failed = fp.failed /\ s.late = fp.late
        BY <1>0 DEF FpTypeOK
      <3>3. s \in [screen : {"dashboard", "new_project", "project_detail"},
            active : Projects \cup {None}, status : {"asked", "done"},
            made : SUBSET Projects, cards : SUBSET Projects,
            lists : [Calls -> [at : {"idle", "sent", "served"},
                               seen : SUBSET Projects]],
            loading : BOOLEAN, picked : Projects \cup {None},
            deploy : {None} \cup Deployments,
            error : BOOLEAN, late : SUBSET Projects, failed : BOOLEAN,
            crossed : BOOLEAN]
        BY <1>0 DEF FpTypeOK
      <3> HIDE DEF s
      <3>4. QED
        BY <3>1, <3>2, <3>3, FpFetches DEF s
    <2>2. CASE fp' = [fp EXCEPT !.status = "done", !.failed = TRUE]
      BY <2>2 DEF FpInv, FpTypeOK, FpAsking
    <2>3. QED
      BY <1>1, <2>1, <2>2 DEF FpStatus
  <1>2. CASE FpListServed
    <2>1. PICK c \in Calls : /\ fp.lists[c].at = "sent"
                             /\ fp' = [fp EXCEPT !.lists[c] = [at |-> "served", seen |-> fp.made]]
      BY <1>2 DEF FpListServed
    <2>2. fp.lists[c].at = "sent" /\ fp.status = "done"
      BY <1>0, <2>1 DEF FpInv, FpTypeOK, FpAsking
    <2> DEFINE ls == [fp.lists EXCEPT ![c] = [at |-> "served", seen |-> fp.made]]
    <2>3. ls \in Lists /\ ls[c].at = "served" /\ ls[c].seen = fp.made
          /\ \A d \in Calls \ {c} : ls[d] = fp.lists[d]
      BY <1>0 DEF FpTypeOK
    <2>4. fp' = [fp EXCEPT !.lists = ls]
      BY <1>0, <2>1 DEF FpTypeOK
    <2> HIDE DEF ls
    <2>5. FpTypeOK'
      BY <1>0, <2>3, <2>4 DEF FpTypeOK
    <2>6. QED
      BY <1>0, <2>2, <2>3, <2>4, <2>5 DEF FpInv, FpTypeOK, FpToCome, FpAsking
  <1>3. CASE FpListed
    <2>1. PICK c \in Calls :
             /\ fp.lists[c].at # "idle"
             /\ \/ /\ fp.lists[c].at = "served"
                   /\ fp' = [fp EXCEPT !.lists[c] = FpIdle, !.loading = FALSE,
                                       !.cards = fp.lists[c].seen]
                \/ fp' = [fp EXCEPT !.lists[c] = FpIdle, !.loading = FALSE,
                                    !.failed = TRUE]
      BY <1>3 DEF FpListed
    <2> DEFINE ls == [fp.lists EXCEPT ![c] = FpIdle]
    <2>2. ls \in Lists /\ ls[c].at = "idle" /\ \A d \in Calls \ {c} : ls[d] = fp.lists[d]
      BY <1>0
    <2>3. CASE /\ fp.lists[c].at = "served"
               /\ fp' = [fp EXCEPT !.lists[c] = FpIdle, !.loading = FALSE,
                                   !.cards = fp.lists[c].seen]
      <3>1. fp' = [fp EXCEPT !.lists = ls, !.loading = FALSE, !.cards = fp.lists[c].seen]
        BY <1>0, <2>3 DEF FpTypeOK
      <3>2. fp.lists[c].seen \in SUBSET Projects
        BY <1>0
      <3> HIDE DEF ls
      <3>3. FpTypeOK'
        BY <1>0, <2>2, <3>1, <3>2 DEF FpTypeOK
      <3>4. QED
        BY <1>0, <2>2, <2>3, <3>1, <3>3 DEF FpInv, FpTypeOK, FpToCome, FpAsking
    <2>4. CASE fp' = [fp EXCEPT !.lists[c] = FpIdle, !.loading = FALSE, !.failed = TRUE]
      <3>1. fp' = [fp EXCEPT !.lists = ls, !.loading = FALSE, !.failed = TRUE]
        BY <1>0, <2>4 DEF FpTypeOK
      <3> HIDE DEF ls
      <3>2. FpTypeOK'
        BY <1>0, <2>2, <3>1 DEF FpTypeOK
      <3>3. QED
        BY <1>0, <2>2, <3>1, <3>2 DEF FpInv, FpTypeOK, FpAsking
    <2>5. QED
      BY <2>1, <2>3, <2>4
  <1>4. CASE FpCard \/ FpNew \/ FpBack
    <2>1. PICK screen \in {"dashboard", "new_project", "project_detail"},
               active, picked \in Projects \cup {None} :
             fp' = [fp EXCEPT !.screen = screen, !.active = active, !.picked = picked]
      <3>1. CASE FpCard
        <4>1. PICK p \in fp.cards : fp' = [fp EXCEPT !.picked = p, !.active = p,
                                                    !.screen = "project_detail"]
          BY <3>1 DEF FpCard
        <4>2. p \in Projects /\ fp' = [fp EXCEPT !.screen = "project_detail", !.active = p, !.picked = p]
          BY <1>0, <4>1 DEF FpTypeOK
        <4>3. QED
          BY <4>2
      <3>2. CASE FpNew
        <4>1. fp' = [fp EXCEPT !.screen = "new_project", !.active = fp.active, !.picked = fp.picked]
          BY <1>0, <3>2 DEF FpNew, FpTypeOK
        <4>2. fp.active \in Projects \cup {None} /\ fp.picked \in Projects \cup {None}
          BY <1>0 DEF FpTypeOK
        <4>3. QED
          BY <4>1, <4>2
      <3>3. CASE FpBack
        <4>1. fp' = [fp EXCEPT !.screen = "dashboard", !.active = None, !.picked = fp.picked]
          BY <1>0, <3>3 DEF FpBack, FpTypeOK
        <4>2. fp.picked \in Projects \cup {None}
          BY <1>0 DEF FpTypeOK
        <4>3. QED
          BY <4>1, <4>2
      <3>4. QED
        BY <1>4, <3>1, <3>2, <3>3
    <2>4. FpTypeOK'
      BY <1>0, <2>1 DEF FpTypeOK
    <2>2. UNCHANGED <<fp.status, fp.lists, fp.late, fp.failed, fp.crossed, fp.made, fp.cards, fp.deploy>>
      BY <1>0, <2>1 DEF FpTypeOK
    <2>3. QED
      BY <2>4, <2>2 DEF FpInv, FpToCome, FpAsking
  <1>5. CASE FpDeploy
    <2>1. PICK p \in Projects : /\ fp.deploy = None
             /\ fp' = [fp EXCEPT !.deploy = [project |-> p, at |-> "sent"], !.error = FALSE]
      BY <1>5 DEF FpDeploy
    <2>2. [project |-> p, at |-> "sent"] \in Deployments
      BY DEF Deployments
    <2>3. FpTypeOK'
      BY <1>0, <2>1, <2>2 DEF FpTypeOK
    <2>4. fp.status = "done" /\ fp'.deploy.at = "sent"
      BY <1>0, <1>5, <2>1, <2>2 DEF FpDeploy, FpOn, FpTypeOK
    <2>5. UNCHANGED <<fp.status, fp.lists, fp.late, fp.failed, fp.crossed, fp.made, fp.cards>>
      BY <1>0, <2>1 DEF FpTypeOK
    <2>6. QED
      BY <2>1, <2>3, <2>4, <2>5 DEF FpInv, FpToCome, FpAsking
  <1>6. CASE FpDeployServed
    <2>1. PICK to \in {"made", "refused"}, add \in BOOLEAN :
       \/ /\ fp.deploy # None /\ fp.deploy.at = "sent"
          /\ fp' = [fp EXCEPT !.deploy.at = to, !.failed = @ \/ ~add,
                       !.made = @ \cup IF add THEN {fp.deploy.project} ELSE {}]
       \/ \E p \in fp.late :
             fp' = [fp EXCEPT !.late = @ \ {p},
                              !.made = @ \cup IF add THEN {p} ELSE {}]
      BY <1>6 DEF FpDeployServed
    <2>2. CASE /\ fp.deploy # None /\ fp.deploy.at = "sent"
               /\ fp' = [fp EXCEPT !.deploy.at = to, !.failed = @ \/ ~add,
                            !.made = @ \cup IF add THEN {fp.deploy.project} ELSE {}]
      <3> DEFINE new == [fp.deploy EXCEPT !.at = to]
                 made == fp.made \cup IF add THEN {fp.deploy.project} ELSE {}
      <3>1. new \in Deployments /\ new.at # "sent" /\ new # None /\ made \in SUBSET Projects
        BY <1>0, <2>2 DEF FpTypeOK, Deployments
      <3>2. fp' = [fp EXCEPT !.deploy = new, !.failed = @ \/ ~add, !.made = made]
        BY <1>0, <2>2 DEF FpTypeOK
      <3>3. (fp.failed \/ ~add) \in BOOLEAN
        OBVIOUS
      <3> HIDE DEF new, made
      <3>4. FpTypeOK'
        BY <1>0, <3>1, <3>2, <3>3 DEF FpTypeOK
      <3>5. QED
        <4>1. /\ fp'.deploy = new /\ fp'.failed = (fp.failed \/ ~add)
              /\ UNCHANGED <<fp.status, fp.lists, fp.late, fp.crossed>>
          BY <1>0, <3>2 DEF FpTypeOK
        <4>2. fp.status = "done"
          BY <2>2 DEF FpInv
        <4>3. QED
          BY <3>1, <3>4, <4>1, <4>2 DEF FpInv, FpToCome, FpAsking
    <2>3. CASE \E p \in fp.late :
             fp' = [fp EXCEPT !.late = @ \ {p}, !.made = @ \cup IF add THEN {p} ELSE {}]
      <3>4. PICK p \in fp.late : 
             fp' = [fp EXCEPT !.late = @ \ {p}, !.made = @ \cup IF add THEN {p} ELSE {}]
        BY <2>3
      <3>5. fp.made \cup (IF add THEN {p} ELSE {}) \in SUBSET Projects
        BY <1>0, <3>4 DEF FpTypeOK
      <3>1. FpTypeOK'
        BY <1>0, <3>4, <3>5 DEF FpTypeOK
      <3>2. fp.failed /\ fp'.failed /\ UNCHANGED <<fp.status, fp.lists, fp.deploy>>
        BY <1>0, <3>4 DEF FpInv, FpTypeOK
      <3>3. QED
        BY <3>1, <3>2 DEF FpInv, FpAsking
    <2>4. QED
      BY <2>1, <2>2, <2>3, ZenonT(60)
  <1>7. CASE FpDeployed
    <2>1. PICK c \in Calls :
          /\ fp.lists[c].at = "idle"
          /\ fp' = FpFetch([fp EXCEPT !.deploy = None,
                                      !.screen = "project_detail",
                                      !.active = fp.deploy.project], c)
      BY <1>7 DEF FpDeployed
    <2> DEFINE s == [fp EXCEPT !.deploy = None, !.screen = "project_detail",
                               !.active = fp.deploy.project]
    <2>2. fp.deploy.project \in Projects
      BY <1>0, <1>7 DEF FpDeployed, FpTypeOK, Deployments
    <2>3. s \in [screen : {"dashboard", "new_project", "project_detail"},
            active : Projects \cup {None}, status : {"asked", "done"},
            made : SUBSET Projects, cards : SUBSET Projects,
            lists : [Calls -> [at : {"idle", "sent", "served"},
                               seen : SUBSET Projects]],
            loading : BOOLEAN, picked : Projects \cup {None},
            deploy : {None} \cup Deployments,
            error : BOOLEAN, late : SUBSET Projects, failed : BOOLEAN,
            crossed : BOOLEAN]
      BY <1>0, <2>2 DEF FpTypeOK
    <2>4. /\ s.lists = fp.lists /\ s.crossed = fp.crossed /\ s.status = "done"
          /\ s.failed = fp.failed /\ s.late = fp.late
      BY <1>0, <1>7 DEF FpDeployed, FpInv, FpTypeOK
    <2> HIDE DEF s
    <2>5. QED
      BY <2>1, <2>3, <2>4, FpFetches DEF s
  <1>8. CASE FpDeployFailed
    <2>1. fp.late \cup (IF fp.deploy.at = "sent" THEN {fp.deploy.project} ELSE {}) \in SUBSET Projects
      BY <1>0, <1>8 DEF FpDeployFailed, FpTypeOK, Deployments
    <2>2. FpTypeOK'
      BY <1>0, <1>8, <2>1 DEF FpDeployFailed, FpTypeOK
    <2>3. fp'.failed /\ fp'.deploy = None /\ UNCHANGED <<fp.status, fp.lists>>
      BY <1>0, <1>8 DEF FpDeployFailed, FpTypeOK
    <2>4. QED
      BY <2>2, <2>3 DEF FpInv, FpAsking
  <1>9. QED
    BY <1>1, <1>2, <1>3, <1>4, <1>5, <1>6, <1>7, <1>8 DEF FpNext

-----------------------------------------------------------------------------
(* The builds of a project *)

FbFetching == [of : Repos, for : Projects]

\* While nothing misled or crossed the fetches, there is at most one, it is of
\* the user's own repository of its project, and that is the page's; when it
\* has been answered, what is shown is of the page's project.
FbInv ==
    /\ FbTypeOK
    /\ fb.redo # None => fb.redo.at = "sent" \/ fb.crossed
    /\ ~fb.misled => \A g \in fb.gets : g.of = <<"own", g.for>>
    /\ ~fb.crossed => \A g, h \in fb.gets : g = h
    /\ ~fb.misled /\ ~fb.crossed /\ ~fb.failed /\ fb.active # None =>
          IF fb.gets = {} THEN fb.shown \in {<<"own", fb.active>>, None}
          ELSE \A g \in fb.gets : g.for = fb.active

LEMMA FbRepos == ASSUME NEW p \in Projects PROVE {<<"own", p>>, <<"default", p>>} \subseteq Repos
  BY DEF Repos

LEMMA FbRepoIs == ASSUME FbTypeOK, NEW p \in Projects PROVE FbRepo(fb, p) \in Repos
  BY FbRepos DEF FbRepo, FbTypeOK

LEMMA FbStart == FbInit => FbInv
  <1> SUFFICES ASSUME FbInit PROVE FbInv
    OBVIOUS
  <1>1. PICK p \in Projects \cup {None} :
           fb = LET mounted == [active |-> p, chosen |-> None, status |-> "asked",
                       shown |-> None, gets |-> {}, redo |-> None,
                       failed |-> FALSE, misled |-> FALSE,
                       crossed |-> FALSE]
                IN IF p = None THEN mounted
                   ELSE [mounted EXCEPT !.misled = TRUE,
                            !.gets = {[of |-> <<"default", p>>, for |-> p]}]
    BY DEF FbInit
  <1>2. p # None => [of |-> <<"default", p>>, for |-> p] \in FbFetching
    BY <1>1, FbRepos DEF FbFetching
  <1>3. QED
    BY <1>1, <1>2 DEF FbInv, FbTypeOK, FbFetching

\* A fetch that starts, on the page of its project or after one was put off.
LEMMA FbFetches ==
    ASSUME FbInv, NEW p \in Projects, NEW repo \in Repos, NEW s,
           s.gets = fb.gets, s.misled = fb.misled, s.crossed = fb.crossed,
           fb' = FbFetch(s, p, repo), FbTypeOK',
           \/ fb'.active = p
           \/ fb.crossed,
           fb'.redo = None \/ fb'.redo = fb.redo
    PROVE  FbInv'
  <1> DEFINE new == [of |-> repo, for |-> p]
  <1>0. /\ fb' = [s EXCEPT !.gets = @ \cup {[of |-> repo, for |-> p]},
                  !.misled = @ \/ repo # <<"own", p>>,
                  !.crossed = @ \/ FbBusy]
        /\ new.of = repo /\ new.for = p
    BY DEF FbFetch
  <1>1. /\ fb'.gets = fb.gets \cup {new}
        /\ fb'.misled <=> (fb.misled \/ repo # <<"own", p>>)
        /\ fb'.crossed <=> (fb.crossed \/ fb.gets # {})
    BY <1>0 DEF FbBusy, FbTypeOK
  <1> HIDE DEF new
  <1>2. QED
    BY <1>0, <1>1 DEF FbInv

LEMMA FbKeeps == FbInv /\ FbNext => FbInv'
  <1> SUFFICES ASSUME FbInv, FbNext PROVE FbInv'
    OBVIOUS
  <1>0. FbTypeOK /\ \A p \in Projects : FbRepo(fb, p) \in Repos
    BY FbRepoIs DEF FbInv
  <1>1. CASE FbStatus
    BY <1>1 DEF FbStatus, FbInv, FbTypeOK
  <1>2. CASE FbOpen
    <2>1. PICK p \in Projects : fb' = FbFetch([fb EXCEPT !.active = p, !.failed = FALSE], p, FbRepo(fb, p))
      BY <1>2 DEF FbOpen
    <2> DEFINE s == [fb EXCEPT !.active = p, !.failed = FALSE]
               new == [of |-> FbRepo(fb, p), for |-> p]
    <2>2. /\ new \in FbFetching
          /\ s.gets = fb.gets /\ s.misled = fb.misled /\ s.crossed = fb.crossed
      BY <1>0 DEF FbTypeOK, FbFetching
    <2>3. fb' = [fb EXCEPT !.active = p, !.failed = FALSE, !.gets = @ \cup {new},
                     !.misled = @ \/ FbRepo(fb, p) # <<"own", p>>, !.crossed = @ \/ FbBusy]
      BY <1>0, <2>1 DEF FbFetch, FbTypeOK
    <2>4. (fb.misled \/ FbRepo(fb, p) # <<"own", p>>) \in BOOLEAN /\ (fb.crossed \/ FbBusy) \in BOOLEAN
      OBVIOUS
    <2>5. FbTypeOK'
      <3> HIDE DEF new
      <3> QED
        BY <1>0, <2>2, <2>3, <2>4 DEF FbTypeOK, FbFetching
    <2>6. fb'.active = p /\ fb'.redo = fb.redo
      BY <1>0, <2>3 DEF FbTypeOK
    <2> HIDE DEF s
    <2>7. QED
      BY <1>0, <2>1, <2>2, <2>5, <2>6, FbFetches DEF s
  <1>3. CASE FbBack
    BY <1>3 DEF FbBack, FbInv, FbTypeOK
  <1>4. CASE FbChoose
    BY <1>4 DEF FbChoose, FbInv, FbTypeOK
  <1>5. CASE FbRefresh
    <2> DEFINE p == fb.active
               new == [of |-> FbRepo(fb, p), for |-> p]
    <2>1. p \in Projects /\ fb' = FbFetch(fb, p, FbRepo(fb, p))
      BY <1>0, <1>5 DEF FbRefresh, FbTypeOK
    <2>2. new \in FbFetching
      BY <1>0, <2>1 DEF FbFetching
    <2>3. fb' = [fb EXCEPT !.gets = @ \cup {new},
                     !.misled = @ \/ FbRepo(fb, p) # <<"own", p>>, !.crossed = @ \/ FbBusy]
      BY <1>0, <2>1 DEF FbFetch, FbTypeOK
    <2>4. (fb.misled \/ FbRepo(fb, p) # <<"own", p>>) \in BOOLEAN /\ (fb.crossed \/ FbBusy) \in BOOLEAN
      OBVIOUS
    <2>5. FbTypeOK'
      <3> HIDE DEF new
      <3> QED
        BY <1>0, <2>2, <2>3, <2>4 DEF FbTypeOK, FbFetching
    <2>6. fb'.active = p /\ fb'.redo = fb.redo
      BY <1>0, <2>3 DEF FbTypeOK
    <2>7. QED
      BY <1>0, <2>1, <2>5, <2>6, FbFetches
  <1>6. CASE FbAnswered
    <2>1. PICK get \in fb.gets : \E whose \in {get.of, <<"own", get.for>>, None} :
             fb' = [fb EXCEPT !.gets = @ \ {get}, !.shown = whose]
      BY <1>6 DEF FbAnswered
    <2>2. PICK whose \in {get.of, <<"own", get.for>>, None} :
             fb' = [fb EXCEPT !.gets = @ \ {get}, !.shown = whose]
      BY <2>1
    <2>3. get.of \in Repos /\ get.for \in Projects /\ <<"own", get.for>> \in Repos
      BY <1>0, FbRepos DEF FbTypeOK
    <2>4. FbTypeOK'
      BY <1>0, <2>2, <2>3 DEF FbTypeOK
    <2>5. QED
      BY <1>0, <2>2, <2>4 DEF FbInv, FbTypeOK
  <1>7. CASE FbFailed
    <2>1. PICK get \in fb.gets : fb' = [fb EXCEPT !.gets = @ \ {get}, !.failed = TRUE]
      BY <1>7 DEF FbFailed
    <2>2. FbTypeOK'
      BY <1>0, <2>1 DEF FbTypeOK
    <2>3. /\ fb'.gets \subseteq fb.gets /\ fb'.failed
          /\ UNCHANGED <<fb.redo, fb.misled, fb.crossed>>
      BY <1>0, <2>1 DEF FbTypeOK
    <2>4. QED
      BY <2>2, <2>3 DEF FbInv
  <1>8. CASE FbRedeploy
    BY <1>0, <1>8 DEF FbRedeploy, FbInv, FbTypeOK
  <1>9. CASE FbRedeployed
    <2>1. fb.redo \in [of : Repos, for : Projects, at : {"sent", "off"}]
      BY <1>0, <1>9 DEF FbRedeployed, FbTriggering, FbTypeOK
    <2> DEFINE new == [fb.redo EXCEPT !.at = "off"]
    <2>2. new \in [of : Repos, for : Projects, at : {"sent", "off"}]
      BY <2>1
    <2>3. CASE fb' = [fb EXCEPT !.redo.at = "off", !.crossed = TRUE]
      <3>1. fb' = [fb EXCEPT !.redo = new, !.crossed = TRUE]
        BY <1>0, <2>3 DEF FbTypeOK
      <3> HIDE DEF new
      <3>2. FbTypeOK'
        BY <1>0, <2>2, <3>1 DEF FbTypeOK
      <3>3. fb'.crossed /\ UNCHANGED <<fb.gets, fb.misled>>
        BY <1>0, <3>1 DEF FbTypeOK
      <3>4. QED
        BY <3>2, <3>3 DEF FbInv
    <2>4. CASE fb' = [fb EXCEPT !.redo = None]
      BY <1>0, <2>4 DEF FbInv, FbTypeOK
    <2>5. QED
      BY <1>9, <2>3, <2>4 DEF FbRedeployed
  <1>10. CASE FbTimer
    <2> DEFINE p == fb.redo.for
               repo == fb.redo.of
               s == [fb EXCEPT !.redo = None]
               new == [of |-> repo, for |-> p]
    <2>1. p \in Projects /\ repo \in Repos /\ fb' = FbFetch(s, p, repo) /\ fb.crossed
      BY <1>0, <1>10 DEF FbTimer, FbInv, FbTypeOK
    <2>2. /\ new \in FbFetching
          /\ s.gets = fb.gets /\ s.misled = fb.misled /\ s.crossed = fb.crossed
      BY <1>0, <2>1 DEF FbTypeOK, FbFetching
    <2>3. fb' = [fb EXCEPT !.redo = None, !.gets = @ \cup {new},
                     !.misled = @ \/ repo # <<"own", p>>, !.crossed = @ \/ FbBusy]
      BY <1>0, <2>1 DEF FbFetch, FbTypeOK
    <2>4. (fb.misled \/ repo # <<"own", p>>) \in BOOLEAN /\ (fb.crossed \/ FbBusy) \in BOOLEAN
      OBVIOUS
    <2>5. FbTypeOK'
      <3> HIDE DEF new
      <3> QED
        BY <1>0, <2>2, <2>3, <2>4 DEF FbTypeOK, FbFetching
    <2>6. fb'.redo = None
      BY <1>0, <2>3 DEF FbTypeOK
    <2> HIDE DEF s, p, repo
    <2>7. QED
      BY <2>1, <2>2, <2>5, <2>6, FbFetches
  <1>11. QED
    BY <1>1, <1>2, <1>3, <1>4, <1>5, <1>6, <1>7, <1>8, <1>9, <1>10 DEF FbNext

-----------------------------------------------------------------------------
(* The logs of the builds *)

FlInv == FlTypeOK /\ FlFirstHasLog

LEMMA FlStart == FlInit => FlInv
  BY WebAssumption, FrontedgeDetailAssumption
     DEF FlInit, FlInv, FlTypeOK, FlFirstHasLog, FlNone, FlNoGet, Calls, Builds

LEMMA FlKeeps == FlInv /\ FlNext => FlInv'
  <1> SUFFICES ASSUME FlInv, FlNext PROVE FlInv'
    OBVIOUS
  <1> USE WebAssumption, FrontedgeDetailAssumption DEF FlInv
  <1> DEFINE Gets == [Calls -> FlNoGet .. MaxBuilds]
             Asks == [Builds -> 0 .. MaxCalls]
  <1>0. /\ FlTypeOK /\ fl.gets \in Gets /\ fl.asks \in Asks
        /\ \A n \in FlNoGet .. MaxBuilds, c \in Calls : [fl.gets EXCEPT ![c] = n] \in Gets
        /\ {FlNoGet, -1, fl.made} \subseteq FlNoGet .. MaxBuilds
    BY DEF FlTypeOK, FlNoGet
  <1>1. CASE FlRefresh
    BY <1>0, <1>1 DEF FlRefresh, FlTypeOK, FlFirstHasLog
  <1>2. CASE FlBuild
    BY <1>0, <1>2 DEF FlBuild, FlTypeOK, FlFirstHasLog
  <1>3. CASE FlServed
    BY <1>0, <1>3 DEF FlServed, FlTypeOK, FlFirstHasLog
  <1>4. CASE FlListed
    <2>1. PICK c \in Calls :
             /\ fl.gets[c] >= 0
             /\ LET n == fl.gets[c]
                    listed == [fl EXCEPT !.gets[c] = FlNoGet, !.list = n] IN
                \/ n = 0 /\ fl' = listed
                \/ /\ n > 0 /\ fl.asks[n] < MaxCalls
                   /\ fl' = [listed EXCEPT !.asks[n] = @ + 1, !.loading = @ \cup {n},
                                !.expanded = IF @ = FlNone THEN n ELSE @]
      BY <1>4 DEF FlListed
    <2> DEFINE n == fl.gets[c]
               rest == [fl.gets EXCEPT ![c] = FlNoGet]
    <2>2. n \in 0 .. MaxBuilds /\ rest \in Gets
      BY <1>0, <2>1
    <2>3. CASE n = 0
      <3>1. fl' = [fl EXCEPT !.gets[c] = FlNoGet, !.list = n]
        BY <2>1, <2>3
      <3>2. FlTypeOK'
        BY <2>2, <3>1 DEF FlTypeOK
      <3>3. QED
        BY <2>3, <3>1, <3>2 DEF FlTypeOK, FlFirstHasLog
    <2>4. CASE n > 0
      <3> DEFINE more == [fl.asks EXCEPT ![n] = @ + 1]
      <3>1. /\ fl' = [[fl EXCEPT !.gets[c] = FlNoGet, !.list = n] EXCEPT
                         !.asks[n] = @ + 1, !.loading = @ \cup {n},
                         !.expanded = IF @ = FlNone THEN n ELSE @]
            /\ fl.asks[n] < MaxCalls
        BY <2>1, <2>4
      <3>2. /\ fl'.list = n /\ fl'.asks = more /\ fl'.gets = rest
            /\ fl'.loading = fl.loading \cup {n}
            /\ fl'.expanded = IF fl.expanded = FlNone THEN n ELSE fl.expanded
            /\ fl' = [fl EXCEPT !.gets = rest, !.list = n, !.asks = more,
                                !.loading = fl'.loading, !.expanded = fl'.expanded]
        BY <3>1 DEF FlTypeOK
      <3>3. more \in Asks /\ n \in Builds /\ more[n] > 0
        <4>1. n \in Builds /\ fl.asks[n] \in 0 .. MaxCalls
          BY <1>0, <2>2, <2>4 DEF Builds
        <4>2. fl.asks[n] + 1 \in 0 .. MaxCalls /\ fl.asks[n] + 1 > 0
          BY <3>1, <4>1
        <4> HIDE DEF n
        <4>3. more \in Asks /\ more[n] = fl.asks[n] + 1
          BY <1>0, <4>1, <4>2
        <4>4. QED
          BY <4>1, <4>2, <4>3
      <3> HIDE DEF n, rest, more
      <3>4. FlTypeOK'
        BY <1>0, <2>2, <3>2, <3>3 DEF FlTypeOK
      <3>5. QED
        BY <2>2, <3>2, <3>3, <3>4 DEF FlFirstHasLog
    <2>5. QED
      BY <2>2, <2>3, <2>4
  <1>5. CASE FlListFailed
    <2>1. PICK c \in Calls : fl' = [fl EXCEPT !.gets[c] = FlNoGet, !.failed = TRUE]
      BY <1>5 DEF FlListFailed
    <2>2. [fl.gets EXCEPT ![c] = FlNoGet] \in Gets
      BY <1>0
    <2>3. QED
      BY <2>1, <2>2 DEF FlTypeOK, FlFirstHasLog
  <1>6. CASE FlClick
    BY <1>0, <1>6 DEF FlClick, FlTypeOK, FlFirstHasLog, FlNone
  <1>7. ASSUME NEW b \in Builds, FlLogged(b) PROVE FlInv'
    <2>1. [fl.asks EXCEPT ![b] = @ - 1] \in Asks
      BY <1>0, <1>7 DEF FlLogged, Builds
    <2>2. FlTypeOK'
      BY <1>0, <1>7, <2>1 DEF FlLogged, FlTypeOK
    <2>3. QED
      BY <1>0, <1>7, <2>2 DEF FlLogged, FlTypeOK, FlFirstHasLog
  <1>8. QED
    BY <1>1, <1>2, <1>3, <1>4, <1>5, <1>6, <1>7 DEF FlNext

-----------------------------------------------------------------------------
(* The form of a new project *)

FfRow == Names \cup {None}

FfRows == {s \in Seq(FfRow) : Len(s) <= MaxRows}
FfForms == [name : {"blank", "derived", "typed"},
            build : {"default", "typed", "blank"}, env : FfRows]
FfKeeping == [form : FfForms, repo : Projects \cup {None}]
FfStates == [mounted : BOOLEAN, form : FfForms, repo : Projects \cup {None},
             draft : {None} \cup FfKeeping, deploy : BOOLEAN,
             left : {None} \cup FfKeeping]

\* The draft is what the form has while it is open, and what it was left with
\* unless a deployment ended since.
FfInv ==
    /\ FfTypeOK
    /\ ff.mounted /\ ff.draft # None => ff.draft = FfKept(ff.form, ff.repo)
    /\ ~ff.mounted /\ ff.left # None => ff.draft = ff.left /\ ff.repo = ff.left.repo

\* A form has a bounded sequence of rows.
LEMMA FfTyped == FfRows = BoundedSeq(FfRow, MaxRows) /\ (FfTypeOK <=> ff \in FfStates)
  <1>1. FfRows = BoundedSeq(FfRow, MaxRows)
    <2>1. ASSUME NEW s \in FfRows PROVE s \in BoundedSeq(FfRow, MaxRows)
      <3>1. s \in [1 .. Len(s) -> FfRow] /\ Len(s) \in 0 .. MaxRows
        BY FrontedgeFormAssumption, LenProperties DEF FfRows
      <3>2. QED
        BY <3>1 DEF BoundedSeq, SeqOf
    <2>2. ASSUME NEW s \in BoundedSeq(FfRow, MaxRows) PROVE s \in FfRows
      <3>1. PICK m \in 0 .. MaxRows : s \in [1 .. m -> FfRow]
        BY DEF BoundedSeq, SeqOf
      <3>2. m \in Nat /\ m <= MaxRows
        BY FrontedgeFormAssumption
      <3>3. s \in Seq(FfRow) /\ Len(s) = m
        BY <3>1, <3>2
      <3>4. QED
        BY <3>2, <3>3 DEF FfRows
    <2>3. QED
      BY <2>1, <2>2
  <1>2. QED
    BY <1>1 DEF FfTypeOK, FfStates, FfKeeping, FfForms, FfRow

\* What is written of the rows are rows.
LEMMA FfEdited ==
    ASSUME NEW rows \in FfRows
    PROVE  /\ <<None>> \in FfRows
           /\ Len(rows) < MaxRows => Append(rows, None) \in FfRows
           /\ \A i \in DOMAIN rows : RemoveAt(rows, i) \in FfRows
           /\ \A i \in DOMAIN rows, k \in FfRow : [rows EXCEPT ![i] = k] \in FfRows
  <1>1. rows \in Seq(FfRow) /\ Len(rows) <= MaxRows /\ None \in FfRow /\ MaxRows \in Nat /\ MaxRows >= 1
    BY FrontedgeFormAssumption DEF FfRows, FfRow
  <1>2. Len(rows) \in Nat /\ DOMAIN rows = 1 .. Len(rows)
    BY <1>1, LenProperties
  <1>3. <<None>> \in Seq(FfRow) /\ Len(<<None>>) = 1
    BY <1>1
  <1>4. Append(rows, None) \in Seq(FfRow) /\ Len(Append(rows, None)) = Len(rows) + 1
    BY <1>1, AppendProperties
  <1>5. ASSUME NEW i \in DOMAIN rows PROVE RemoveAt(rows, i) \in FfRows
    <2> DEFINE a == SubSeq(rows, 1, i - 1)
               b == SubSeq(rows, i + 1, Len(rows))
    <2>1. i \in 1 .. Len(rows) /\ i - 1 \in Int /\ i + 1 \in Int
      BY <1>2
    <2>2. \A j \in 1 .. Len(rows) : rows[j] \in FfRow
      BY <1>1, ElementOfSeq
    <2>3. (1 .. i - 1) \subseteq 1 .. Len(rows) /\ (i + 1 .. Len(rows)) \subseteq 1 .. Len(rows)
      BY <1>2, <2>1
    <2>4. a \in Seq(FfRow) /\ Len(a) = IF 1 <= i - 1 THEN i - 1 - 1 + 1 ELSE 0
      BY <2>1, <2>2, <2>3, SubSeqProperties
    <2>5. b \in Seq(FfRow) /\ Len(b) = IF i + 1 <= Len(rows) THEN Len(rows) - (i + 1) + 1 ELSE 0
      BY <1>2, <2>1, <2>2, <2>3, SubSeqProperties
    <2>6. Len(a) = i - 1 /\ Len(b) = Len(rows) - i
      BY <1>2, <2>1, <2>4, <2>5
    <2> HIDE DEF a, b
    <2>7. a \o b \in Seq(FfRow) /\ Len(a \o b) = Len(a) + Len(b)
      BY <2>4, <2>5, ConcatProperties
    <2>8. Len(a \o b) <= MaxRows
      BY <1>1, <1>2, <2>1, <2>6, <2>7
    <2>9. QED
      BY <2>7, <2>8 DEF RemoveAt, FfRows, a, b
  <1>6. ASSUME NEW i \in DOMAIN rows, NEW k \in FfRow PROVE [rows EXCEPT ![i] = k] \in FfRows
    <2>1. [rows EXCEPT ![i] = k] \in Seq(FfRow) /\ Len([rows EXCEPT ![i] = k]) = Len(rows)
      BY <1>1, <1>2, ExceptSeq
    <2>2. QED
      BY <1>1, <2>1 DEF FfRows
  <1>7. QED
    BY <1>1, <1>2, <1>3, <1>4, <1>5, <1>6 DEF FfRows

LEMMA FfTypedNext == ff' \in FfStates => FfTypeOK'
  BY FfTyped DEF FfTypeOK, FfStates, FfKeeping, FfForms, FfRow

\* A change of the form is in the draft of it.
LEMMA FfWritten ==
    ASSUME ff \in FfStates, NEW written \in FfForms, NEW repo \in Projects \cup {None},
           NEW m \in BOOLEAN, NEW l \in {None, ff.left}, m,
           ff' = [FfPersist(written, repo) EXCEPT !.mounted = m, !.left = l]
    PROVE  FfInv'
  <1>1. FfKept(written, repo) \in FfKeeping
    BY DEF FfKept, FfKeeping
  <1>2. ff' \in FfStates
    BY <1>1 DEF FfStates, FfPersist
  <1>3. FfTypeOK'
    BY <1>2, FfTypedNext
  <1>4. ff'.mounted /\ ff'.draft = FfKept(ff'.form, ff'.repo)
    BY DEF FfStates, FfPersist
  <1>5. QED
    BY <1>3, <1>4 DEF FfInv

LEMMA FfStart == FfInit => FfInv
  <1> SUFFICES ASSUME FfInit PROVE FfInv
    OBVIOUS
  <1>1. <<None>> \in FfRows
    BY FrontedgeFormAssumption DEF FfRows, FfRow
  <1>2. FfBlank \in FfForms
    BY <1>1 DEF FfBlank, FfForms
  <1>3. ff \in FfStates
    BY <1>2 DEF FfInit, FfStates
  <1>4. FfTypeOK
    BY <1>3, FfTyped
  <1>5. QED
    BY <1>4 DEF FfInit, FfInv

\* What a paste makes of the rows, before the blank ones are dropped.
FfUpdated(rows, i, keys) ==
    LET to == i + Len(keys) - 1
        n == IF to > Len(rows) THEN to ELSE Len(rows)
    IN [j \in 1 .. n |-> IF j \in i .. to THEN keys[j - i + 1] ELSE rows[j]]

LEMMA FfPastesAre ==
    ASSUME NEW keys \in FfPastes
    PROVE  keys \in Seq(FfRow) /\ Len(keys) \in {1, 2} /\ \A j \in 1 .. Len(keys) : keys[j] \in Names
  <1>1. CASE keys \in {<<k>> : k \in Names}
    <2>1. PICK k \in Names : keys = <<k>>
      BY <1>1
    <2>2. QED
      BY <2>1 DEF FfRow
  <1>2. CASE keys \in Names \X Names
    <2>1. PICK k \in Names, l \in Names : keys = <<k, l>>
      BY <1>2
    <2>2. QED
      BY <2>1 DEF FfRow
  <1>3. QED
    BY <1>1, <1>2 DEF FfPastes

LEMMA FfUpdatedIs ==
    ASSUME NEW rows \in FfRows, NEW i \in DOMAIN rows, NEW keys \in FfPastes
    PROVE  LET u == FfUpdated(rows, i, keys)
               to == i + Len(keys) - 1 IN
           /\ u \in Seq(FfRow) /\ DOMAIN u = 1 .. Len(u)
           /\ Len(u) \in Nat \ {0} /\ to \in Nat
           /\ Len(u) = IF to > Len(rows) THEN to ELSE Len(rows)
           /\ \A j \in 1 .. Len(u) : u[j] = IF j \in i .. to THEN keys[j - i + 1] ELSE rows[j]
           /\ FfPasted(rows, i, keys) = Picked(u, {j \in 1 .. Len(u) : u[j] # None \/ j = Len(u)})
  <1> DEFINE to == i + Len(keys) - 1
             n == IF to > Len(rows) THEN to ELSE Len(rows)
             u == FfUpdated(rows, i, keys)
  <1>1. rows \in Seq(FfRow) /\ Len(rows) \in Nat /\ i \in 1 .. Len(rows)
    BY LenProperties DEF FfRows
  <1>2. keys \in Seq(FfRow) /\ Len(keys) \in Nat /\ Len(keys) >= 1
    <2>1. keys \in Seq(FfRow) /\ Len(keys) \in {1, 2}
      BY FfPastesAre
    <2>2. QED
      BY <2>1
  <1>3. to \in Nat /\ n \in Nat \ {0} /\ to >= i
    BY <1>1, <1>2
  <1>4. u = [j \in 1 .. n |-> IF j \in i .. to THEN keys[j - i + 1] ELSE rows[j]]
    BY DEF FfUpdated
  <1>5. ASSUME NEW j \in 1 .. n
        PROVE (IF j \in i .. to THEN keys[j - i + 1] ELSE rows[j]) \in FfRow
    <2>1. CASE j \in i .. to
      <3>1. j - i + 1 \in 1 .. Len(keys)
        BY <1>1, <1>2, <2>1
      <3>2. keys[j - i + 1] \in FfRow
        BY <1>2, <3>1, ElementOfSeq
      <3>3. QED
        BY <2>1, <3>2
    <2>2. CASE j \notin i .. to
      <3>1. j \in 1 .. Len(rows)
        BY <1>1, <1>3, <2>2
      <3>2. rows[j] \in FfRow
        BY <1>1, <3>1, ElementOfSeq
      <3>3. QED
        BY <2>2, <3>2
    <2>3. QED
      BY <2>1, <2>2
  <1> HIDE DEF n, to
  <1>6. u \in [1 .. n -> FfRow]
    BY <1>4, <1>5
  <1> HIDE DEF u
  <1>7. u \in Seq(FfRow) /\ Len(u) = n /\ DOMAIN u = 1 .. n
    BY <1>3, <1>6
  <1>8. FfPasted(rows, i, keys) = Picked(u, {j \in 1 .. n : u[j] # None \/ j = n})
    BY DEF FfPasted, FfUpdated, u, n, to
  <1>9. QED
    BY <1>3, <1>4, <1>7, <1>8 DEF u, n, to

LEMMA FfPastedIn ==
    ASSUME NEW rows \in FfRows, NEW i \in DOMAIN rows, NEW keys \in FfPastes
    PROVE  FfPasted(rows, i, keys) \in Seq(FfRow)
  <1> DEFINE u == FfUpdated(rows, i, keys)
             D == {j \in 1 .. Len(u) : u[j] # None \/ j = Len(u)}
  <1>1. u \in Seq(FfRow) /\ FfPasted(rows, i, keys) = Picked(u, D)
    BY FfUpdatedIs
  <1> HIDE DEF u
  <1>2. QED
    BY <1>1, PickedIs

LEMMA FfKeeps == FfInv /\ FfNext => FfInv'
  <1> SUFFICES ASSUME FfInv, FfNext PROVE FfInv'
    OBVIOUS
  <1> DEFINE FfRepos == Projects \cup {None}
  <1>0. ff \in FfStates
    BY FfTyped DEF FfInv
  <1>a. ff.form \in FfForms /\ ff.repo \in FfRepos /\ ff.form.env \in FfRows
    BY <1>0 DEF FfStates, FfForms
  <1>b. ASSUME NEW written \in FfForms, NEW repo \in FfRepos, ff.mounted, ff' = FfPersist(written, repo)
        PROVE  FfInv'
    <2>1. ff' = [FfPersist(written, repo) EXCEPT !.mounted = ff.mounted, !.left = ff.left]
      <3>1. FfKept(written, repo) \in FfKeeping
        BY <1>b DEF FfKept, FfKeeping
      <3>2. QED
        BY <1>0, <1>b, <3>1 DEF FfPersist, FfStates
    <2>2. ff.mounted \in BOOLEAN
      BY <1>0 DEF FfStates
    <2>3. QED
      BY <1>0, <1>b, <2>1, <2>2, FfWritten
  <1>c. ASSUME NEW rows \in FfRows, FfSettings, FfEnv(rows) PROVE FfInv'
    <2>1. [ff.form EXCEPT !.env = rows] \in FfForms
      BY <1>a, <1>c DEF FfForms
    <2>2. QED
      BY <1>a, <1>b, <1>c, <2>1 DEF FfEnv, FfSettings
  <1>1. CASE FfMount
    <2> DEFINE d == IF ff.draft = None THEN FfKept(FfBlank, None) ELSE ff.draft
               written == [d.form EXCEPT !.build = IF @ = "blank" THEN "default" ELSE @]
               repo == IF d.repo # None THEN d.repo ELSE ff.repo
    <2>1. FfBlank \in FfForms
      BY <1>a, FfEdited DEF FfBlank, FfForms
    <2>2. d \in FfKeeping
      BY <1>0, <2>1 DEF FfKept, FfKeeping, FfStates
    <2>3. d.form \in FfForms /\ d.repo \in FfRepos
      BY <2>2 DEF FfKeeping
    <2>4. ff' = [FfPersist(written, repo) EXCEPT !.mounted = TRUE, !.left = None]
      BY <1>1 DEF FfMount
    <2> HIDE DEF d
    <2>5. written \in FfForms
      <3> DEFINE b == IF d.form.build = "blank" THEN "default" ELSE d.form.build
      <3>1. b \in {"default", "typed", "blank"} /\ written = [d.form EXCEPT !.build = b]
        BY <2>3 DEF FfForms
      <3> HIDE DEF b, written
      <3>2. QED
        BY <2>3, <3>1 DEF FfForms
    <2>6. repo \in FfRepos
      BY <1>a, <2>3
    <2> HIDE DEF written, repo
    <2>7. ff' = [FfPersist(written, repo) EXCEPT !.mounted = TRUE, !.left = None] /\ ~ff.mounted
      BY <1>1, <2>4 DEF FfMount
    <2>8. QED
      BY <1>0, <2>5, <2>6, <2>7, FfWritten
  <1>2. CASE FfLeave
    <2>1. ff.mounted /\ FfKept(ff.form, ff.repo) \in FfKeeping /\ FfBlank \in FfForms
      BY <1>2, <1>a, FfEdited DEF FfLeave, FfKept, FfKeeping, FfBlank, FfForms
    <2> DEFINE l == IF ff.draft = None THEN None ELSE FfKept(ff.form, ff.repo)
    <2>2. l \in {None} \cup FfKeeping /\ (l # None => ff.draft = l /\ ff.repo = l.repo)
      BY <2>1 DEF FfInv, FfKept
    <2>3. ff' = [ff EXCEPT !.mounted = FALSE, !.form = FfBlank, !.left = l]
      BY <1>2 DEF FfLeave
    <2> HIDE DEF l
    <2>4. /\ ff' \in FfStates /\ ~ff'.mounted /\ ff'.left = l
          /\ ff'.draft = ff.draft /\ ff'.repo = ff.repo
      BY <1>0, <2>1, <2>2, <2>3 DEF FfStates
    <2>5. FfTypeOK'
      BY <2>4, FfTypedNext
    <2>6. QED
      BY <2>2, <2>4, <2>5 DEF FfInv
  <1>3. CASE FfSelect
    <2>1. PICK r \in Projects : ff' = FfPersist([ff.form EXCEPT !.name = "derived"], r)
      BY <1>3 DEF FfSelect
    <2>2. [ff.form EXCEPT !.name = "derived"] \in FfForms
      BY <1>a DEF FfForms
    <2>3. QED
      BY <1>3, <1>b, <2>1, <2>2 DEF FfSelect
  <1>4. CASE FfChangeRepo
    BY <1>4, <1>a, <1>b DEF FfChangeRepo, FfSettings
  <1>5. CASE FfType
    <2>1. ASSUME NEW n \in {"blank", "typed"},
                 ff' = FfPersist([ff.form EXCEPT !.name = n], ff.repo)
          PROVE FfInv'
      <3>1. [ff.form EXCEPT !.name = n] \in FfForms
        BY <1>a DEF FfForms
      <3>2. QED
        BY <1>5, <1>a, <1>b, <2>1, <3>1 DEF FfType, FfSettings
    <2>2. ASSUME NEW b \in {"blank", "typed"},
                 ff' = FfPersist([ff.form EXCEPT !.build = b], ff.repo)
          PROVE FfInv'
      <3>1. [ff.form EXCEPT !.build = b] \in FfForms
        BY <1>a DEF FfForms
      <3>2. QED
        BY <1>5, <1>a, <1>b, <2>2, <3>1 DEF FfType, FfSettings
    <2>3. QED
      BY <1>5, <2>1, <2>2 DEF FfType
  <1>6. CASE FfAddRow
    BY <1>6, <1>a, <1>c, FfEdited DEF FfAddRow
  <1>7. CASE FfRemoveRow
    BY <1>7, <1>a, <1>c, FfEdited DEF FfRemoveRow
  <1>8. CASE FfEditRow
    BY <1>8, <1>a, <1>c, FfEdited DEF FfEditRow, FfRow
  <1>9. CASE FfPaste
    <2>1. PICK i \in DOMAIN ff.form.env, keys \in FfPastes :
             /\ Len(FfPasted(ff.form.env, i, keys)) <= MaxRows
             /\ FfEnv(FfPasted(ff.form.env, i, keys))
      BY <1>9 DEF FfPaste
    <2>2. FfPasted(ff.form.env, i, keys) \in FfRows
      BY <1>a, <2>1, FfPastedIn DEF FfRows
    <2>3. QED
      BY <1>9, <1>c, <2>1, <2>2 DEF FfPaste
  <1>10. CASE FfDeploy
    <2>1. ff' = [ff EXCEPT !.deploy = TRUE]
      BY <1>10 DEF FfDeploy
    <2>2. /\ ff' \in FfStates /\ ff'.mounted = ff.mounted /\ ff'.left = ff.left
          /\ ff'.draft = ff.draft /\ ff'.repo = ff.repo /\ ff'.form = ff.form
      BY <1>0, <2>1 DEF FfStates
    <2>3. FfTypeOK'
      BY <2>2, FfTypedNext
    <2>4. QED
      BY <2>2, <2>3 DEF FfInv
  <1>11. CASE FfDeployed
    <2>1. PICK m \in {ff.mounted, FALSE} :
             ff' = [ff EXCEPT !.deploy = FALSE, !.draft = None, !.left = None,
                              !.mounted = m, !.form = IF m THEN @ ELSE FfBlank]
      BY <1>11 DEF FfDeployed
    <2> DEFINE written == IF m THEN ff.form ELSE FfBlank
    <2>2. written \in FfForms /\ m \in BOOLEAN
      BY <1>0, <1>a, FfEdited DEF FfBlank, FfForms, FfStates
    <2>3. ff' = [ff EXCEPT !.deploy = FALSE, !.draft = None, !.left = None,
                           !.mounted = m, !.form = written]
      BY <2>1
    <2> HIDE DEF written
    <2>4. ff' \in FfStates /\ ff'.left = None /\ ff'.draft = None
      BY <1>0, <2>2, <2>3 DEF FfStates
    <2>5. FfTypeOK'
      BY <2>4, FfTypedNext
    <2>6. QED
      BY <2>4, <2>5 DEF FfInv
  <1>12. QED
    BY <1>1, <1>2, <1>3, <1>4, <1>5, <1>6, <1>7, <1>8, <1>9, <1>10, <1>11 DEF FfNext

\* A form that is opened has what it was left with.
LEMMA FfTold ==
    FfInv /\ FfNext =>
       (~ff.mounted /\ ff'.mounted /\ ff.left # None =>
          /\ ff'.repo = ff.left.repo /\ ff'.form.name = ff.left.form.name
          /\ ff'.form.env = ff.left.form.env
          /\ ff.left.form.build \in {ff'.form.build, "blank"})
  <1> SUFFICES ASSUME FfInv, FfNext, ~ff.mounted, ff'.mounted, ff.left # None
               PROVE  /\ ff'.repo = ff.left.repo /\ ff'.form.name = ff.left.form.name
                      /\ ff'.form.env = ff.left.form.env
                      /\ ff.left.form.build \in {ff'.form.build, "blank"}
    OBVIOUS
  <1>1. ff \in FfStates /\ ff.draft = ff.left /\ ff.repo = ff.left.repo /\ ff.left \in FfKeeping
    BY FfTyped DEF FfInv, FfStates
  <1>2. FfMount
    BY <1>1 DEF FfNext, FfLeave, FfSelect, FfChangeRepo, FfType, FfAddRow, FfRemoveRow,
             FfEditRow, FfPaste, FfDeploy, FfDeployed, FfSettings, FfStates
  <1> DEFINE d == ff.left
             b == IF d.form.build = "blank" THEN "default" ELSE d.form.build
             written == [d.form EXCEPT !.build = b]
  <1>3. ff' = [FfPersist(written, d.repo) EXCEPT !.mounted = TRUE, !.left = None]
    BY <1>1, <1>2 DEF FfMount
  <1>4. d.form \in FfForms
    BY <1>1 DEF FfKeeping
  <1>5. written.name = d.form.name /\ written.env = d.form.env /\ written.build = b
    BY <1>4 DEF FfForms
  <1> HIDE DEF written, b, d
  <1>6. ff'.repo = d.repo /\ ff'.form = written
    BY <1>1, <1>3 DEF FfPersist, FfStates
  <1>7. QED
    BY <1>5, <1>6 DEF b, d

\* The rows that are not blank, in their order.
FfFilled(s) == Picked(s, {j \in DOMAIN s : s[j] # None})

LEMMA FfFilledBehind ==
    ASSUME NEW s \in Seq(FfRow), NEW t \in Seq(FfRow)
    PROVE  /\ s \o t \in Seq(FfRow)
           /\ FfFilled(s) \in Seq(FfRow)
           /\ FfFilled(s \o t) = FfFilled(s) \o FfFilled(t)
  <1> DEFINE D == {j \in DOMAIN s : s[j] # None}
             E == {j \in DOMAIN t : t[j] # None}
             F == {j \in DOMAIN (s \o t) : (s \o t)[j] # None}
  <1>1. /\ Len(s) \in Nat /\ DOMAIN s = 1 .. Len(s)
        /\ Len(t) \in Nat /\ DOMAIN t = 1 .. Len(t)
    BY LenProperties
  <1>2. /\ s \o t \in Seq(FfRow) /\ Len(s \o t) = Len(s) + Len(t)
        /\ \A j \in 1 .. Len(s) + Len(t) : (s \o t)[j] = IF j <= Len(s) THEN s[j] ELSE t[j - Len(s)]
    BY ConcatProperties
  <1>3. DOMAIN (s \o t) = 1 .. Len(s) + Len(t)
    BY <1>2, LenProperties
  <1>4. D \in SUBSET (1 .. Len(s)) /\ E \in SUBSET (1 .. Len(t)) /\ F \in SUBSET (1 .. Len(s \o t))
    BY <1>1, <1>2, <1>3
  <1>5. \A j \in 1 .. Len(s) : j \in F <=> j \in D
    <2> SUFFICES ASSUME NEW j \in 1 .. Len(s) PROVE j \in F <=> j \in D
      OBVIOUS
    <2>1. j \in 1 .. Len(s) + Len(t) /\ j <= Len(s)
      BY <1>1
    <2>2. (s \o t)[j] = s[j]
      BY <1>2, <2>1
    <2>3. QED
      BY <1>1, <1>3, <2>1, <2>2
  <1>6. \A j \in 1 .. Len(t) : Len(s) + j \in F <=> j \in E
    <2> SUFFICES ASSUME NEW j \in 1 .. Len(t) PROVE Len(s) + j \in F <=> j \in E
      OBVIOUS
    <2>1. Len(s) + j \in 1 .. Len(s) + Len(t) /\ ~(Len(s) + j <= Len(s)) /\ (Len(s) + j) - Len(s) = j
      BY <1>1
    <2>2. (s \o t)[Len(s) + j] = t[j]
      BY <1>2, <2>1
    <2>3. QED
      BY <1>1, <1>3, <2>1, <2>2
  <1> HIDE DEF D, E, F
  <1>7. Picked(s \o t, F) = Picked(s, D) \o Picked(t, E) /\ Picked(s, D) \in Seq(FfRow)
    <2>1. Picked(s, D) \in Seq(FfRow)
      BY <1>4, PickedIs
    <2>2. Picked(s \o t, F) = Picked(s, D) \o Picked(t, E)
      <3>1. Behind(s, D, t, E, F)
        BY <1>4, <1>5, <1>6 DEF Behind
      <3>2. QED
        BY <3>1, PickedBehind
    <2>3. QED
      BY <2>1, <2>2
  <1>8. QED
    BY <1>2, <1>7 DEF FfFilled, D, E, F

\* Where the U rows of a paste come from: K keys from i on, in N rows of which
\* C are behind.
FfPlaced(i, K, N, C, U) ==
    /\ C \in Nat /\ U \in Nat /\ U = i - 1 + (K + C)
    /\ \A j \in 1 .. U :
          \/ j \in 1 .. i - 1 /\ j <= i - 1 /\ j \notin i .. i + K - 1
          \/ /\ j \in i .. i + K - 1 /\ ~(j <= i - 1)
             /\ j - (i - 1) = j - i + 1 /\ j - i + 1 \in 1 .. K + C /\ j - i + 1 <= K
          \/ /\ j \notin i .. i + K - 1 /\ ~(j <= i - 1)
             /\ j - (i - 1) \in 1 .. K + C /\ ~(j - (i - 1) <= K)
             /\ j - (i - 1) - K \in 1 .. N - (i + K) + 1
             /\ i + K + (j - (i - 1) - K) - 1 = j

LEMMA FfPlaces ==
    ASSUME NEW i \in Nat, NEW K \in Nat, NEW N \in Nat, i >= 1, K >= 1, i <= N,
           NEW C, C = IF i + K <= N THEN N - (i + K) + 1 ELSE 0,
           NEW U, U = IF i + K - 1 > N THEN i + K - 1 ELSE N
    PROVE  FfPlaced(i, K, N, C, U)
  <1>1. C \in Nat /\ U \in Nat /\ U = i - 1 + (K + C)
    OBVIOUS
  <1>2. ASSUME NEW j \in 1 .. U
        PROVE \/ j \in 1 .. i - 1 /\ j <= i - 1 /\ j \notin i .. i + K - 1
              \/ /\ j \in i .. i + K - 1 /\ ~(j <= i - 1)
                 /\ j - (i - 1) = j - i + 1 /\ j - i + 1 \in 1 .. K + C /\ j - i + 1 <= K
              \/ /\ j \notin i .. i + K - 1 /\ ~(j <= i - 1)
                 /\ j - (i - 1) \in 1 .. K + C /\ ~(j - (i - 1) <= K)
                 /\ j - (i - 1) - K \in 1 .. N - (i + K) + 1
                 /\ i + K + (j - (i - 1) - K) - 1 = j
    <2>1. j \in Nat /\ j >= 1 /\ j <= i - 1 + (K + C)
      BY <1>1
    <2>2. CASE j <= i - 1
      BY <2>1, <2>2
    <2>3. CASE j \in i .. i + K - 1
      BY <1>1, <2>1, <2>3
    <2>4. CASE j > i + K - 1
      <3>1. i + K <= N /\ C = N - (i + K) + 1
        BY <1>1, <2>1, <2>4
      <3>2. QED
        BY <2>1, <2>4, <3>1
    <2>5. QED
      BY <2>1, <2>2, <2>3, <2>4
  <1>3. QED
    BY <1>1, <1>2 DEF FfPlaced

\* A paste leaves of the rows those before, then has what was pasted, then
\* those behind.
LEMMA FfUpdatedParts ==
    ASSUME NEW rows \in FfRows, NEW i \in DOMAIN rows, NEW keys \in FfPastes
    PROVE  LET a == SubSeq(rows, 1, i - 1)
               c == SubSeq(rows, i + Len(keys), Len(rows)) IN
           a \in Seq(FfRow) /\ c \in Seq(FfRow) /\ FfUpdated(rows, i, keys) = a \o (keys \o c)
  <1> DEFINE N == Len(rows)
             K == Len(keys)
             a == SubSeq(rows, 1, i - 1)
             c == SubSeq(rows, i + K, N)
             u == FfUpdated(rows, i, keys)
  <1>1. rows \in Seq(FfRow) /\ N \in Nat /\ i \in 1 .. N
    BY LenProperties DEF FfRows
  <1>2. keys \in Seq(FfRow) /\ K \in {1, 2}
    BY FfPastesAre
  <1>4. \A j \in 1 .. N : rows[j] \in FfRow
    BY <1>1, ElementOfSeq
  <1> HIDE DEF N, K
  <1>3. /\ K \in Nat /\ K >= 1 /\ i - 1 \in Int /\ i + K \in Int
        /\ i \in Nat /\ i >= 1 /\ i <= N
    BY <1>1, <1>2
  <1>5. /\ a \in Seq(FfRow) /\ Len(a) = i - 1
        /\ \A j \in 1 .. i - 1 : a[j] = rows[j]
    <2>1. \A j \in 1 .. i - 1 : rows[j] \in FfRow
      BY <1>1, <1>4
    <2>2. /\ a \in Seq(FfRow) /\ Len(a) = IF 1 <= i - 1 THEN i - 1 - 1 + 1 ELSE 0
          /\ \A j \in 1 .. i - 1 - 1 + 1 : a[j] = rows[1 + j - 1]
      BY <1>3, <2>1, SubSeqProperties
    <2>3. \A j \in 1 .. i - 1 : j \in 1 .. i - 1 - 1 + 1 /\ 1 + j - 1 = j
      BY <1>3
    <2>4. (IF 1 <= i - 1 THEN i - 1 - 1 + 1 ELSE 0) = i - 1
      BY <1>1
    <2> HIDE DEF a
    <2>5. QED
      BY <2>2, <2>3, <2>4
  <1>6. /\ c \in Seq(FfRow) /\ Len(c) = IF i + K <= N THEN N - (i + K) + 1 ELSE 0
        /\ \A j \in 1 .. N - (i + K) + 1 : c[j] = rows[i + K + j - 1]
    <2>1. \A j \in i + K .. N : rows[j] \in FfRow
      BY <1>1, <1>3, <1>4
    <2>2. QED
      <3>1. i + K \in Int /\ N \in Int
        BY <1>1, <1>3
      <3>2. QED
        BY <2>1, <3>1, SubSeqProperties
  <1> HIDE DEF a, c, u
  <1>7. /\ keys \o c \in Seq(FfRow) /\ Len(keys \o c) = K + Len(c)
        /\ \A j \in 1 .. K + Len(c) : (keys \o c)[j] = IF j <= K THEN keys[j] ELSE c[j - K]
    BY <1>2, <1>6, ConcatProperties DEF K
  <1> DEFINE d == keys \o c
  <1> HIDE DEF d
  <1>8. /\ a \o d \in Seq(FfRow) /\ Len(a \o d) = i - 1 + K + Len(c)
        /\ \A j \in 1 .. i - 1 + (K + Len(c)) : (a \o d)[j] = IF j <= i - 1 THEN a[j] ELSE d[j - (i - 1)]
    <2>1. Len(c) \in Nat
      BY <1>6, LenProperties
    <2>2. d \in Seq(FfRow) /\ Len(d) = K + Len(c)
      BY <1>7 DEF d
    <2>3. Len(a) + Len(d) = i - 1 + (K + Len(c))
      BY <1>5, <2>2
    <2>4. /\ a \o d \in Seq(FfRow) /\ Len(a \o d) = Len(a) + Len(d)
          /\ \A j \in 1 .. Len(a) + Len(d) : (a \o d)[j] = IF j <= Len(a) THEN a[j] ELSE d[j - Len(a)]
      <3>1. a \in Seq(FfRow) /\ d \in Seq(FfRow)
        BY <1>5, <2>2
      <3>2. QED
        BY <3>1, ConcatProperties
    <2>5. i - 1 + (K + Len(c)) = i - 1 + K + Len(c)
      BY <1>3, <2>1
    <2> HIDE DEF d
    <2>6. QED
      BY <1>5, <2>3, <2>4, <2>5
  <1>9. /\ u \in Seq(FfRow)
        /\ Len(u) = IF i + K - 1 > N THEN i + K - 1 ELSE N
        /\ \A j \in 1 .. Len(u) : u[j] = IF j \in i .. i + K - 1 THEN keys[j - i + 1] ELSE rows[j]
    BY FfUpdatedIs DEF u, N, K
  <1> DEFINE C == Len(c)
             U == Len(u)
  <1>10. /\ C = IF i + K <= N THEN N - (i + K) + 1 ELSE 0
         /\ U = IF i + K - 1 > N THEN i + K - 1 ELSE N
    BY <1>6, <1>9
  <1> HIDE DEF C, U
  <1>11. /\ C \in Nat /\ U \in Nat /\ U = i - 1 + (K + C)
         /\ \A j \in 1 .. U :
               \/ j \in 1 .. i - 1 /\ j <= i - 1 /\ j \notin i .. i + K - 1
               \/ /\ j \in i .. i + K - 1 /\ ~(j <= i - 1)
                  /\ j - (i - 1) = j - i + 1 /\ j - i + 1 \in 1 .. K + C /\ j - i + 1 <= K
               \/ /\ j \notin i .. i + K - 1 /\ ~(j <= i - 1)
                  /\ j - (i - 1) \in 1 .. K + C /\ ~(j - (i - 1) <= K)
                  /\ j - (i - 1) - K \in 1 .. N - (i + K) + 1
                  /\ i + K + (j - (i - 1) - K) - 1 = j
    <2>1. i \in Nat /\ K \in Nat /\ N \in Nat /\ i >= 1 /\ K >= 1 /\ i <= N
      BY <1>1, <1>3
    <2> HIDE DEF d
    <2>2. QED
      <3>1. FfPlaced(i, K, N, C, U)
        BY <1>10, <2>1, FfPlaces
      <3>2. QED
        BY <3>1 DEF FfPlaced
  <1>12. ASSUME NEW j \in 1 .. U PROVE (a \o d)[j] = u[j]
    <2>a. (a \o d)[j] = IF j <= i - 1 THEN a[j] ELSE d[j - (i - 1)]
      BY <1>8, <1>11 DEF C
    <2>b. u[j] = IF j \in i .. i + K - 1 THEN keys[j - i + 1] ELSE rows[j]
      BY <1>9 DEF U
    <2>1. CASE j \in 1 .. i - 1 /\ j <= i - 1 /\ j \notin i .. i + K - 1
      BY <1>5, <2>a, <2>b, <2>1
    <2>2. CASE /\ j \in i .. i + K - 1 /\ ~(j <= i - 1)
               /\ j - (i - 1) = j - i + 1 /\ j - i + 1 \in 1 .. K + C /\ j - i + 1 <= K
      <3>1. d[j - i + 1] = keys[j - i + 1]
        BY <1>7, <2>2 DEF d, C
      <3>2. QED
        BY <2>a, <2>b, <2>2, <3>1
    <2>3. CASE /\ j \notin i .. i + K - 1 /\ ~(j <= i - 1)
               /\ j - (i - 1) \in 1 .. K + C /\ ~(j - (i - 1) <= K)
               /\ j - (i - 1) - K \in 1 .. N - (i + K) + 1
               /\ i + K + (j - (i - 1) - K) - 1 = j
      <3>1. d[j - (i - 1)] = c[j - (i - 1) - K]
        BY <1>7, <2>3 DEF d, C
      <3>2. c[j - (i - 1) - K] = rows[j]
        BY <1>6, <2>3
      <3>3. QED
        BY <2>a, <2>b, <2>3, <3>1, <3>2
    <2>4. QED
      BY <1>11, <2>1, <2>2, <2>3
  <1>13. u = a \o d
    <2>1. Len(a \o d) = U /\ Len(u) = U
      <3>1. i - 1 + K + C = i - 1 + (K + C)
        BY <1>3, <1>11
      <3>2. QED
        BY <1>8, <1>11, <3>1 DEF C, U
    <2>2. a \o d \in Seq(FfRow) /\ u \in Seq(FfRow)
      BY <1>8, <1>9
    <2>3. QED
      BY <1>12, <2>1, <2>2, SeqEqual
  <1>14. QED
    BY <1>5, <1>6, <1>13 DEF a, c, u, d, N, K

LEMMA FfPasteKeeps ==
    ASSUME NEW rows \in FfRows, NEW i \in DOMAIN rows, NEW keys \in FfPastes
    PROVE  FfFilled(FfPasted(rows, i, keys)) =
              FfFilled(SubSeq(rows, 1, i - 1)) \o keys
                 \o FfFilled(SubSeq(rows, i + Len(keys), Len(rows)))
  <1> DEFINE u == FfUpdated(rows, i, keys)
             D == {j \in 1 .. Len(u) : u[j] # None \/ j = Len(u)}
             F == {j \in 1 .. Len(u) : u[j] # None}
             p == FfPasted(rows, i, keys)
             E == {n \in DOMAIN p : p[n] # None}
             a == SubSeq(rows, 1, i - 1)
             c == SubSeq(rows, i + Len(keys), Len(rows))
  <1>1. u \in Seq(FfRow) /\ DOMAIN u = 1 .. Len(u) /\ p = Picked(u, D)
    BY FfUpdatedIs
  <1>2. FfFilled(p) = Picked(u, F)
    <2> HIDE DEF u, p
    <2>1. D \in SUBSET (1 .. Len(u)) /\ F \in SUBSET (1 .. Len(u)) /\ F \in SUBSET D
      OBVIOUS
    <2> HIDE DEF D
    <2>2. /\ IsFiniteSet(D) /\ D \in SUBSET Int /\ DOMAIN p = 1 .. Cardinality(D)
          /\ \A n \in 1 .. Cardinality(D) : p[n] = u[InOrder(D)[n]]
      BY <1>1, <2>1, PickedIs
    <2>3. /\ InOrder(D) \in [1 .. Cardinality(D) -> D]
          /\ \A j \in D : \E n \in 1 .. Cardinality(D) : InOrder(D)[n] = j
      BY <2>2, InOrderIs
    <2>4. E \in SUBSET (1 .. Cardinality(D))
      BY <2>2
    <2>5. \A j \in 1 .. Len(u) : j \in F <=> \E n \in E : InOrder(D)[n] = j
      <3>1. ASSUME NEW j \in F PROVE \E n \in E : InOrder(D)[n] = j
        <4>1. PICK n \in 1 .. Cardinality(D) : InOrder(D)[n] = j
          BY <2>1, <2>3
        <4>2. p[n] = u[j] /\ u[j] # None
          BY <2>2, <4>1
        <4>3. QED
          BY <2>2, <4>1, <4>2
      <3>2. ASSUME NEW j \in 1 .. Len(u), NEW n \in E, InOrder(D)[n] = j PROVE j \in F
        BY <2>2, <2>4, <3>2
      <3>3. QED
        BY <3>1, <3>2
    <2> HIDE DEF E, F
    <2>6. Picked(Picked(u, D), E) = Picked(u, F)
      BY <1>1, <2>1, <2>4, <2>5, PickedPicked
    <2>7. QED
      BY <1>1, <2>6 DEF FfFilled, E
  <1>3. FfFilled(u) = Picked(u, F)
    BY <1>1 DEF FfFilled
  <1>4. a \in Seq(FfRow) /\ c \in Seq(FfRow) /\ u = a \o (keys \o c)
    BY FfUpdatedParts
  <1>5. keys \in Seq(FfRow) /\ (\A j \in 1 .. Len(keys) : keys[j] \in Names) /\ Names \subseteq FfRow
    <2>1. keys \in Seq(FfRow) /\ \A j \in 1 .. Len(keys) : keys[j] \in Names
      BY FfPastesAre
    <2>2. QED
      BY <2>1 DEF FfRow
  <1>6. FfFilled(keys) = keys
    <2>1. DOMAIN keys = 1 .. Len(keys)
      BY <1>5, LenProperties
    <2>2. {j \in DOMAIN keys : keys[j] # None} = 1 .. Len(keys)
      BY <1>5, <2>1, WebAssumption
    <2>3. QED
      BY <1>5, <2>2, PickedAll DEF FfFilled
  <1> HIDE DEF u, p, a, c, F, D
  <1> DEFINE A == FfFilled(a)
             C == FfFilled(c)
  <1>7. /\ keys \o c \in Seq(FfRow) /\ FfFilled(keys \o c) = FfFilled(keys) \o C
        /\ C \in Seq(FfRow)
    BY <1>4, <1>5, FfFilledBehind
  <1>a. keys \in Seq(FfRow)
    BY <1>5
  <1>8. FfFilled(a \o (keys \o c)) = A \o FfFilled(keys \o c) /\ A \in Seq(FfRow)
    BY <1>4, <1>7, FfFilledBehind
  <1>9. A \o (keys \o C) = A \o keys \o C
    <2> HIDE DEF A, C
    <2>1. QED
      <3>1. A \in Seq(FfRow) /\ keys \in Seq(FfRow) /\ C \in Seq(FfRow)
        BY <1>a, <1>7, <1>8
      <3>2. (A \o keys) \o C = A \o (keys \o C)
        BY <3>1, ConcatAssociative
      <3>3. QED
        BY <3>2
  <1>10. FfFilled(p) = A \o keys \o C
    BY <1>2, <1>3, <1>4, <1>6, <1>7, <1>8, <1>9
  <1>11. QED
    BY <1>10 DEF p, a, c

LEMMA FfShows == FfInv => FfPasteKeepsOthers
  <1> SUFFICES ASSUME FfInv PROVE FfPasteKeepsOthers
    OBVIOUS
  <1>1. ff.form.env \in FfRows
    BY FfTyped DEF FfInv, FfStates, FfForms
  <1>2. QED
    BY <1>1, FfPasteKeeps DEF FfPasteKeepsOthers, FfFilled

-----------------------------------------------------------------------------
(* The secrets of a project *)

\* What is being saved, or will be although it was given up, was typed for the
\* project it is saved for; rows and a modal are there with a page only.
FsInv ==
    /\ FsTypeOK
    /\ fs.modal \/ fs.typed # {} => fs.active # None
    /\ FsTypedForIt
    /\ ~fs.moved => /\ fs.save # None => fs.save.rows \subseteq {fs.save.project}
                    /\ fs.late # None => fs.late.rows \subseteq {fs.late.project}

LEMMA FsStart == FsInit => FsInv
  BY DEF FsInit, FsInv, FsTypeOK, FsTypedForIt

LEMMA FsKeeps == FsInv /\ FsNext => FsInv'
  <1> SUFFICES ASSUME FsInv, FsNext PROVE FsInv'
    OBVIOUS
  <1> USE WebAssumption DEF FsInv
  <1> DEFINE Call == [project : Projects, rows : SUBSET Projects, here : BOOLEAN,
                      at : {"sent", "done"}]
             Late == [project : Projects, rows : SUBSET Projects]
             Saved == [Projects -> SUBSET Projects]
  <1>0. fs.save \in {None} \cup Call /\ fs.late \in {None} \cup Late /\ fs.saved \in Saved
    BY DEF FsTypeOK
  <1>1. CASE FsOpenPage
    BY <1>1 DEF FsOpenPage, FsTypeOK, FsTypedForIt
  <1>2. CASE FsLeave
    <2>1. /\ FsElsewhere \in {None} \cup Call
          /\ FsElsewhere # None => /\ fs.save # None /\ FsElsewhere.rows = fs.save.rows
                                   /\ FsElsewhere.project = fs.save.project
      BY <1>0 DEF FsElsewhere
    <2>2. FsTypeOK'
      BY <1>2, <2>1 DEF FsLeave, FsTypeOK
    <2>3. QED
      BY <1>2, <2>1, <2>2 DEF FsLeave, FsTypeOK, FsTypedForIt
  <1>3. CASE FsDeployed
    <2>1. FsTypeOK'
      BY <1>3 DEF FsDeployed, FsTypeOK
    <2>2. QED
      BY <1>3, <2>1 DEF FsDeployed, FsTypeOK, FsTypedForIt
  <1>4. CASE FsOpen
    BY <1>4 DEF FsOpen, FsTypeOK, FsTypedForIt
  <1>5. CASE FsClose
    BY <1>5 DEF FsClose, FsTypeOK, FsTypedForIt
  <1>6. CASE FsType
    BY <1>6 DEF FsType, FsTypeOK, FsTypedForIt
  <1>7. CASE FsSave
    <2> DEFINE new == [project |-> fs.active, rows |-> fs.typed, here |-> TRUE, at |-> "sent"]
    <2>1. new \in Call /\ new.rows = fs.typed /\ new.project = fs.active
      BY <1>7 DEF FsSave, FsTypeOK
    <2>2. fs' = [fs EXCEPT !.save = new]
      BY <1>7 DEF FsSave
    <2> HIDE DEF new
    <2>3. QED
      BY <2>1, <2>2 DEF FsTypeOK, FsTypedForIt
  <1>8. CASE FsServed
    <2>1. ASSUME fs.save # None,
                 fs' = [fs EXCEPT !.save.at = "done",
                                  !.saved[fs.save.project] = @ \cup fs.save.rows]
          PROVE  FsInv'
      <3> DEFINE done == [fs.save EXCEPT !.at = "done"]
                 saved == [fs.saved EXCEPT ![fs.save.project] = @ \cup fs.save.rows]
      <3>1. /\ done \in Call /\ done.rows = fs.save.rows /\ done.project = fs.save.project
            /\ saved \in Saved
        BY <1>0, <2>1
      <3>2. fs' = [fs EXCEPT !.save = done, !.saved = saved]
        BY <2>1 DEF FsTypeOK
      <3>3. ~fs.moved => \A p \in Projects : saved[p] \subseteq {p}
        BY <1>0, <2>1 DEF FsTypedForIt
      <3> HIDE DEF done, saved
      <3>4. QED
        BY <2>1, <3>1, <3>2, <3>3, ZenonT(60) DEF FsTypeOK, FsTypedForIt
    <2>2. ASSUME fs.late # None,
                 fs' = [fs EXCEPT !.late = None,
                                  !.saved[fs.late.project] = @ \cup fs.late.rows]
          PROVE  FsInv'
      <3> DEFINE saved == [fs.saved EXCEPT ![fs.late.project] = @ \cup fs.late.rows]
      <3>1. saved \in Saved
        BY <1>0, <2>2
      <3>2. fs' = [fs EXCEPT !.late = None, !.saved = saved]
        BY <2>2 DEF FsTypeOK
      <3>3. ~fs.moved => \A p \in Projects : saved[p] \subseteq {p}
        BY <1>0, <2>2 DEF FsTypedForIt
      <3> HIDE DEF saved
      <3>4. QED
        BY <2>2, <3>1, <3>2, <3>3, ZenonT(60) DEF FsTypeOK, FsTypedForIt
    <2>3. QED
      BY <1>8, <2>1, <2>2 DEF FsServed
  <1>9. CASE FsEnded
    <2> DEFINE late == IF fs.save.at = "done" THEN fs.late
                       ELSE [project |-> fs.save.project, rows |-> fs.save.rows]
    <2>1. /\ late \in {None} \cup Late
          /\ ~fs.moved /\ late # None => late.rows \subseteq {late.project}
      BY <1>0, <1>9 DEF FsEnded
    <2>2. fs' = [fs EXCEPT !.save = None, !.modal = @ /\ ~fs.save.here, !.late = late]
      BY <1>9 DEF FsEnded
    <2>3. (fs.modal /\ ~fs.save.here) \in BOOLEAN
      OBVIOUS
    <2> HIDE DEF late
    <2>4. FsTypeOK'
      BY <1>0, <2>1, <2>2, <2>3 DEF FsTypeOK
    <2>5. QED
      BY <2>1, <2>2, <2>4 DEF FsTypeOK, FsTypedForIt
  <1>10. QED
    BY <1>1, <1>2, <1>3, <1>4, <1>5, <1>6, <1>7, <1>8, <1>9 DEF FsNext

-----------------------------------------------------------------------------
(* The one-time codes of the demo *)

\* A timer is of the step the demo is at, and the address it was called with
\* is still in the field when it is to verify.
OdInv ==
    /\ OdTypeOK /\ OdWhose
    /\ od.timer.op = "none" => od.timer = NoTimer
    /\ od.timer.op = "send" => od.step = "idle"
    /\ od.timer.op = "verify" => od.step = "sent" /\ od.timer.email = od.email

LEMMA OdStart == OdInit => OdInv
  BY WebAssumption, OtpDemoAssumption
     DEF OdInit, OdInv, OdTypeOK, OdWhose, OdStuck, NoTimer, Addresses

LEMMA OdKeeps == OdInv /\ OdNext => OdInv'
  <1> SUFFICES ASSUME OdInv, OdNext PROVE OdInv'
    OBVIOUS
  <1> USE WebAssumption, OtpDemoAssumption DEF OdInv, OdStuck
  <1>0. /\ None \in Addresses /\ Admin \in Addresses
        /\ NoTimer \in [op : {"none", "send", "verify"}, email : Addresses]
        /\ NoTimer.op = "none"
    BY DEF NoTimer, Addresses
  <1>1. ASSUME NEW e \in Addresses, OdEmail(e) PROVE OdInv'
    BY <1>0, <1>1 DEF OdEmail, OdTypeOK, OdWhose
  <1>2. CASE OdSend
    <2>1. [op |-> "send", email |-> od.email] # NoTimer
      BY <1>0
    <2>2. QED
      BY <1>0, <1>2, <2>1 DEF OdSend, OdTypeOK, OdWhose
  <1>3. CASE OdSent
    BY <1>0, <1>3 DEF OdSent, OdTypeOK, OdWhose
  <1>4. CASE OdCode
    BY <1>0, <1>4 DEF OdCode, OdTypeOK, OdWhose
  <1>5. CASE OdVerify
    <2>1. [op |-> "verify", email |-> od.email] # NoTimer
      BY <1>0
    <2>2. QED
      BY <1>0, <1>5, <2>1 DEF OdVerify, OdTypeOK, OdWhose
  <1>6. CASE OdVerified
    BY <1>0, <1>6 DEF OdVerified, OdTypeOK, OdWhose
  <1>7. CASE OdReset
    BY <1>0, <1>7 DEF OdReset, OdTypeOK, OdWhose
  <1>8. CASE OdCopy
    <2>1. od.copies + 1 \in 0 .. MaxCalls
      BY <1>8 DEF OdCopy, OdTypeOK
    <2>2. QED
      BY <1>0, <1>8, <2>1 DEF OdCopy, OdTypeOK, OdWhose
  <1>9. CASE OdCopyTimer
    <2>1. od.copies - 1 \in 0 .. MaxCalls
      BY <1>9 DEF OdCopyTimer, OdTypeOK
    <2>2. QED
      BY <1>0, <1>9, <2>1 DEF OdCopyTimer, OdTypeOK, OdWhose
  <1>10. CASE OdThrown
    BY <1>0, <1>10 DEF OdThrown, OdTypeOK, OdWhose
  <1>11. QED
    BY <1>1, <1>2, <1>3, <1>4, <1>5, <1>6, <1>7, <1>8, <1>9, <1>10 DEF OdNext

-----------------------------------------------------------------------------
(* The panels side by side *)

WsInv ==
    /\ DbInv /\ ScInv /\ DnInv /\ KpInv /\ BsInv /\ ChInv
    /\ DfInv /\ DpInv /\ TbInv /\ SqInv /\ SvInv /\ FpInv
    /\ FbInv /\ FlInv /\ FfInv /\ FsInv /\ OdInv

\* A panel that is not looked at stays as it is.
LEMMA PanelsStay ==
    /\ DbInv /\ UNCHANGED db => DbInv'
    /\ ScInv /\ UNCHANGED sc => ScInv'
    /\ DnInv /\ UNCHANGED dn => DnInv'
    /\ KpInv /\ UNCHANGED kp => KpInv'
    /\ BsInv /\ UNCHANGED bs => BsInv'
    /\ ChInv /\ UNCHANGED ch => ChInv'
    /\ DfInv /\ UNCHANGED df => DfInv'
    /\ DpInv /\ UNCHANGED dp => DpInv'
    /\ TbInv /\ UNCHANGED tb => TbInv'
    /\ SqInv /\ UNCHANGED sq => SqInv'
    /\ SvInv /\ UNCHANGED sv => SvInv'
    /\ FpInv /\ UNCHANGED fp => FpInv'
    /\ FbInv /\ UNCHANGED fb => FbInv'
    /\ FlInv /\ UNCHANGED fl => FlInv'
    /\ FfInv /\ UNCHANGED ff => FfInv'
    /\ FsInv /\ UNCHANGED fs => FsInv'
    /\ OdInv /\ UNCHANGED od => OdInv'
  <1>1. DbInv /\ UNCHANGED db => DbInv'
    BY DEF DbInv, DbTypeOK, DbShownIsSaved, DbSound, NoModal, NoReg
  <1>2. ScInv /\ UNCHANGED sc => ScInv'
    BY DEF ScTypeOK, ScInv
  <1>3. DnInv /\ UNCHANGED dn => DnInv'
    BY DEF DnDelivered, DnInv
  <1>4. KpInv /\ UNCHANGED kp => KpInv'
    BY DEF KpTypeOK, KpWaiting, KpInv, KpTogether
  <1>5. BsInv /\ UNCHANGED bs => BsInv'
    BY DEF BsSnap, BsInv, BsGiven, BsTypeOK
  <1>6. ChInv /\ UNCHANGED ch => ChInv'
    BY DEF ChWhose, ChTypeOK, ChInv
  <1>7. DfInv /\ UNCHANGED df => DfInv'
    BY DEF DfGiven, DfSnap, DfInv, DfListing, DfTypeOK
  <1>8. DpInv /\ UNCHANGED dp => DpInv'
    BY DEF DpInv, DpTypeOK, DpToldOrShown
  <1>9. TbInv /\ UNCHANGED tb => TbInv'
    BY DEF TbInv, TbGiven, TbTypeOK, TbLive, TbHeld, TbSnap
  <1>10. SqInv /\ UNCHANGED sq => SqInv'
    BY ZenonT(60) DEF SqTypeOK, SqInv
  <1>11. SvInv /\ UNCHANGED sv => SvInv'
    BY DEF SvCurrent, SvInv, SvTypeOK
  <1>12. FpInv /\ UNCHANGED fp => FpInv'
    BY DEF FpAsking, FpTypeOK, FpToCome, FpInv
  <1>13. FbInv /\ UNCHANGED fb => FbInv'
    BY DEF FbTypeOK, FbInv
  <1>14. FlInv /\ UNCHANGED fl => FlInv'
    BY DEF FlInv, FlTypeOK, FlFirstHasLog
  <1>15. FfInv /\ UNCHANGED ff => FfInv'
    BY DEF FfInv, FfTypeOK
  <1>16. FsInv /\ UNCHANGED fs => FsInv'
    BY DEF FsTypedForIt, FsTypeOK, FsInv
  <1>17. OdInv /\ UNCHANGED od => OdInv'
    BY DEF OdTypeOK, OdInv, OdWhose, OdStuck
  <1>18. QED
    BY <1>1, <1>2, <1>3, <1>4, <1>5, <1>6, <1>7, <1>8, <1>9,
       <1>10, <1>11, <1>12, <1>13, <1>14, <1>15, <1>16, <1>17

LEMMA WsStart == WsInit => WsInv
  BY DbStart, ScStart, DnStart, KpStart, BsStart, ChStart,
     DfStart, DpStart, TbStart, SqStart, SvStart, FpStart,
     FbStart, FlStart, FfStart, FsStart, OdStart DEF WsInit, WsInv

LEMMA WsKeeps == WsInv /\ [WsNext]_webVars => WsInv'
  <1> SUFFICES ASSUME WsInv, [WsNext]_webVars PROVE WsInv'
    OBVIOUS
  <1>1. CASE WsOnly("db") /\ DbNext
    BY <1>1, DbKeeps, PanelsStay DEF WsInv, WsOnly
  <1>2. CASE WsOnly("sc") /\ ScNext
    BY <1>2, ScKeeps, PanelsStay DEF WsInv, WsOnly
  <1>3. CASE WsOnly("dn") /\ DnNext
    BY <1>3, DnKeeps, PanelsStay DEF WsInv, WsOnly
  <1>4. CASE WsOnly("kp") /\ KpNext
    BY <1>4, KpKeeps, PanelsStay DEF WsInv, WsOnly
  <1>5. CASE WsOnly("bs") /\ BsNext
    BY <1>5, BsKeeps, PanelsStay DEF WsInv, WsOnly
  <1>6. CASE WsOnly("ch") /\ ChNext
    BY <1>6, ChKeeps, PanelsStay DEF WsInv, WsOnly
  <1>7. CASE WsOnly("df") /\ DfNext
    BY <1>7, DfKeeps, PanelsStay DEF WsInv, WsOnly
  <1>8. CASE WsOnly("dp") /\ DpNext
    BY <1>8, DpKeeps, PanelsStay DEF WsInv, WsOnly
  <1>9. CASE WsOnly("tb") /\ TbNext
    BY <1>9, TbKeeps, PanelsStay DEF WsInv, WsOnly
  <1>10. CASE WsOnly("sq") /\ SqNext
    BY <1>10, SqKeeps, PanelsStay DEF WsInv, WsOnly
  <1>11. CASE WsOnly("sv") /\ SvNext
    BY <1>11, SvKeeps, PanelsStay DEF WsInv, WsOnly
  <1>12. CASE WsOnly("fp") /\ FpNext
    BY <1>12, FpKeeps, PanelsStay DEF WsInv, WsOnly
  <1>13. CASE WsOnly("fb") /\ FbNext
    BY <1>13, FbKeeps, PanelsStay DEF WsInv, WsOnly
  <1>14. CASE WsOnly("fl") /\ FlNext
    BY <1>14, FlKeeps, PanelsStay DEF WsInv, WsOnly
  <1>15. CASE WsOnly("ff") /\ FfNext
    BY <1>15, FfKeeps, PanelsStay DEF WsInv, WsOnly
  <1>16. CASE WsOnly("fs") /\ FsNext
    BY <1>16, FsKeeps, PanelsStay DEF WsInv, WsOnly
  <1>17. CASE WsOnly("od") /\ OdNext
    BY <1>17, OdKeeps, PanelsStay DEF WsInv, WsOnly
  <1>18. CASE UNCHANGED webVars
    BY <1>18, PanelsStay DEF WsInv, webVars
  <1>19. QED
    BY <1>1, <1>2, <1>3, <1>4, <1>5, <1>6, <1>7, <1>8, <1>9, <1>10,
       <1>11, <1>12, <1>13, <1>14, <1>15, <1>16, <1>17, <1>18 DEF WsNext

LEMMA WsShows == WsInv => PagesAgree /\ WhoseIsShown /\ OutcomeIsTold /\ FfPasteKeepsOthers
  <1> SUFFICES ASSUME WsInv PROVE PagesAgree /\ WhoseIsShown /\ OutcomeIsTold /\ FfPasteKeepsOthers
    OBVIOUS
  <1>1. /\ KpAgrees /\ BsAgrees /\ TbAgrees /\ DfAgreesOrTold
        /\ FfPasteKeepsOthers
    BY KpShows, BsShows, TbShows, DfShows, FfShows DEF WsInv
  <1>2. FpAgrees
    BY DEF WsInv, FpInv, FpAgrees, FpQuiet, FpToCome, FpAsking
  <1>3. SvOneSchema
    BY DEF WsInv, SvInv, SvOneSchema
  <1>4. FbWhose
    BY DEF WsInv, FbInv, FbWhose, FbBusy
  <1>5. WsTypeOK
    BY DEF WsInv, WsTypeOK, DbInv, DbShownIsSaved, ScInv, KpInv, BsInv, ChInv, DfInv,
           DpInv, TbInv, SqInv, SvInv, FpInv, FbInv, FlInv, FfInv, FsInv, OdInv
  <1>6. DbShownIsSaved /\ ChWhose /\ FsTypedForIt /\ OdWhose
    BY DEF WsInv, DbInv, ChInv, FsInv, OdInv
  <1>7. DnDelivered /\ DpToldOrShown /\ FlFirstHasLog
    <2>1. DnDelivered
      BY DEF WsInv, DnInv
    <2>2. DpToldOrShown
      BY DEF WsInv, DpInv
    <2>3. FlFirstHasLog
      BY DEF WsInv, FlInv
    <2>4. QED
      BY <2>1, <2>2, <2>3
  <1>8. QED
    BY <1>1, <1>2, <1>3, <1>4, <1>5, <1>6, <1>7 DEF PagesAgree, WhoseIsShown, OutcomeIsTold

\* A page that waits for nothing shows what the server has, unless it told of a
\* failure, one answer overtook another, or a table came or went elsewhere and
\* no list was served since: the API keys (api-key-bento.tsx), the
\* files of the dashboard (dashboard-bento.tsx) and of the demo
\* (src/buckstream/demo/src/App.tsx), the tables (tables-page.tsx), the projects
\* of Cloudflare (frontedge-console.tsx) and the lines of a schema
\* (schema-visualizer.tsx).
THEOREM PagesShowTheServer == WsSpec => []PagesAgree
  <1>1. WsInv => PagesAgree
    BY WsShows
  <1>2. QED
    BY <1>1, WsStart, WsKeeps, PTL DEF WsSpec

\* What a panel shows is of the user, the project or the address that it is
\* shown for, while sessions come and go under it; the cards of the databases
\* show what is saved, but for a database whose DSN was stored by a
\* registration that outlived its page (db-bento.tsx:243-279).
THEOREM ShownForWhom == WsSpec => []WhoseIsShown
  <1>1. WsInv => WhoseIsShown
    BY WsShows
  <1>2. QED
    BY <1>1, WsStart, WsKeeps, PTL DEF WsSpec

\* A download of a schema ends in a file, a retrieval in a preview or an error,
\* and the newest build that is listed has its log or a request for it under
\* way (db-bento.tsx, src/buckstream/demo/src/App.tsx, frontedge-console.tsx).
THEOREM OutcomesAreTold == WsSpec => []OutcomeIsTold
  <1>1. WsInv => OutcomeIsTold
    BY WsShows
  <1>2. QED
    BY <1>1, WsStart, WsKeeps, PTL DEF WsSpec

\* Whatever the rows are, wherever and whatever is pasted, the rows in front of
\* the paste and those behind the lines it has stay, in their order, with the
\* lines between them; the rows it is written over are gone
\* (handlePasteEnv of frontedge-create-project.tsx).
THEOREM PasteKeepsOthers == WsSpec => []FfPasteKeepsOthers
  <1>1. WsInv => FfPasteKeepsOthers
    BY WsShows
  <1>2. QED
    BY <1>1, WsStart, WsKeeps, PTL DEF WsSpec

\* Only the switch saves a mode that needs a DSN without one, and only with a
\* DSN in the field (db-bento.tsx).
THEOREM DsnIsTyped == WsSpec => DbNoDsnOnlyTyped
  <1>1. WsInv /\ [WsNext]_webVars =>
           [\A d \in Dbs :
               /\ db'.saved[d].mode = "byod" /\ db'.saved[d].dsn = None
               /\ db.saved[d].mode # "byod"
               => DetailShown /\ db.modal.db = d /\ db.input]_db
    <2> SUFFICES ASSUME WsInv, [WsNext]_webVars, db' # db
                 PROVE  \A d \in Dbs :
                           /\ db'.saved[d].mode = "byod" /\ db'.saved[d].dsn = None
                           /\ db.saved[d].mode # "byod"
                           => DetailShown /\ db.modal.db = d /\ db.input
      OBVIOUS
    <2>1. DbInv /\ DbNext
      BY DEF WsInv, WsNext, WsOnly, webVars
    <2>2. QED
      BY <2>1, DbTold
  <1>2. QED
    BY <1>1, WsStart, WsKeeps, PTL DEF WsSpec, DbNoDsnOnlyTyped

\* A form that is opened again has the repository, the name and the rows it was
\* left with, and the command unless that was cleared, when no deployment ended
\* in between (frontedge-create-project.tsx).
THEOREM DraftIsRestored == WsSpec => FfRestored
  <1>1. WsInv /\ [WsNext]_webVars =>
           [~ff.mounted /\ ff'.mounted /\ ff.left # None =>
               /\ ff'.repo = ff.left.repo /\ ff'.form.name = ff.left.form.name
               /\ ff'.form.env = ff.left.form.env
               /\ ff.left.form.build \in {ff'.form.build, "blank"}]_ff
    <2> SUFFICES ASSUME WsInv, [WsNext]_webVars, ff' # ff,
                        ~ff.mounted, ff'.mounted, ff.left # None
                 PROVE  /\ ff'.repo = ff.left.repo /\ ff'.form.name = ff.left.form.name
                        /\ ff'.form.env = ff.left.form.env
                        /\ ff.left.form.build \in {ff'.form.build, "blank"}
      OBVIOUS
    <2>1. FfInv /\ FfNext
      BY DEF WsInv, WsNext, WsOnly, webVars
    <2>2. QED
      BY <2>1, FfTold
  <1>2. QED
    BY <1>1, WsStart, WsKeeps, PTL DEF WsSpec, FfRestored

=============================================================================
