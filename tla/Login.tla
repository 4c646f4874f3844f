-------------------------------- MODULE Login --------------------------------
(***************************************************************************)
(* How ArcAuth lets a user in (arcauth/pkg/authservice/service.go): codes  *)
(* and magic links that are kept in memory and in Redis, sent and used up, *)
(* and the account that a login finds or makes, by address or by the       *)
(* identity an OAuth provider gives.                                       *)
(*                                                                         *)
(* A thread is the goroutine of a request; a step ends at each call of     *)
(* Redis and of the database and at each unlock of the mutex.  All         *)
(* addresses are admitted (isAdminEmail).  A user id is named by the       *)
(* address whose row has it, Ghost being any id that has no row.           *)
(***************************************************************************)
EXTENDS Naturals

CONSTANTS Threads,  \* requests
          Mails,    \* addresses
          Owner,    \* the address that the codes are for
          People,   \* the identities at OAuth providers
          MaxCode,  \* bound: codes sent to one address
          HasRedis, \* whether there is a Redis client
          Flaky,    \* whether calls of Redis and of the database can fail
          SignUp,   \* whether new users can come by OAuth (isSocialSignupDisabled)
          Ghost,
          Nobody

ASSUME LoginAssumption == /\ Owner \in Mails
                          /\ MaxCode \in Nat
                          /\ {HasRedis, Flaky, SignUp} \subseteq BOOLEAN
                          /\ Ghost \notin Mails /\ Nobody \notin Mails \cup People /\ Ghost # Nobody

VARIABLES kind,   \* what the key of the codes is: an address, or the token of a magic link
          memory, \* what memoryOTPs has under it, 0 for nothing
          redis,  \* what Redis has
          rows,   \* the addresses in auth_users
          blank,  \* whether a row of auth_users has the mobile number ''
          link,   \* link[p]: the user of the first row for p in auth_identities
          task,   \* task[t]: the next step of t and what t holds
          latest, \* history: the latest code that was mailed
          used,   \* history: the codes used up
          upset,  \* history: a call of Redis failed or two sends overlapped
          who,    \* history: who[p] is the user p was last let in as
          calm    \* history: no call of the database failed, no two logins overlapped

codeVars == <<kind, memory, redis, latest, used, upset>>
userVars == <<rows, blank, link, who>>
vars == <<kind, memory, redis, rows, blank, link, task, latest, used, upset, who, calm>>

NoCode == 0
Codes == 1 .. MaxCode

Coded == {"otp", "dashboard", "magic"}
OAuth == {"oauth", "dashOAuth"}
Path == Coded \cup OAuth \cup {"send", "social", "password"}

\* Where no answer depends on whether the user's row could be inserted.
ErrorDropped == {"dashboard", "dashOAuth"}

Account == {"identity", "select", "insert", "link", "session"}
Label == {"idle", "set", "redis", "memory", "drop", "del"} \cup Account

Idle == [pc |-> "idle", path |-> "none", code |-> NoCode, mail |-> Nobody,
         person |-> Nobody, user |-> Nobody]

At(t, label) == task[t].pc = label
Become(t, record) == task' = [task EXCEPT ![t] = record]
Goto(t, label) == Become(t, [task[t] EXCEPT !.pc = label])
Finish(t) == Become(t, Idle)

Init == /\ kind \in {"address", "link"}
        /\ memory = NoCode
        /\ redis = NoCode
        /\ rows = {}
        /\ blank = FALSE
        /\ link = [p \in People |-> Nobody]
        /\ task = [t \in Threads |-> Idle]
        /\ latest = NoCode
        /\ used = {}
        /\ upset = FALSE
        /\ who = [p \in People |-> Nobody]
        /\ calm = TRUE

\* The request comes to its first look at the accounts.
Overlaps(t) == \E u \in Threads \ {t} : task[u].pc \in Account
EnterAccounts(t, record) == Become(t, record) /\ calm' = (calm /\ ~Overlaps(t))

\* A query or an INSERT that does what it should, or fails.
OrFails(effect, failure) == \/ effect /\ UNCHANGED calm
                            \/ Flaky /\ failure /\ calm' = FALSE

-----------------------------------------------------------------------------
(* handleOTPSend, handleDashboardOTPSend, handleMagicLinkSend.             *)

\* The mail goes out.  That it may not changes what the user knows and no more.
Mail(code) == latest' = IF latest < code THEN code ELSE latest

Sending(t) == At(t, "set")

\* No code is drawn twice; the token of a link is itself drawn, for one send.
New(code) == /\ code \in IF kind = "link" THEN {1} ELSE Codes
             /\ code > latest
             /\ \A t \in Threads : Sending(t) => code > task[t].code

\* A new code is put in memory, over the one before.
Send(t, code) ==
    /\ At(t, "idle")
    /\ New(code)
    /\ memory' = code
    /\ upset' = (upset \/ \E u \in Threads : Sending(u))
    /\ IF HasRedis
       THEN Become(t, [Idle EXCEPT !.pc = "set", !.path = "send", !.code = code]) /\ UNCHANGED latest
       ELSE Mail(code) /\ UNCHANGED task
    /\ UNCHANGED <<kind, redis, used, userVars, calm>>

\* A call of Redis whose error is dropped.
OrRedisFails(effect) == \/ effect /\ UNCHANGED upset
                        \/ Flaky /\ UNCHANGED redis /\ upset' = TRUE

\* Mutated: a code that is there already is kept.
MutSetNX(t) == /\ At(t, "set")
               /\ OrRedisFails(redis' = IF redis = NoCode THEN task[t].code ELSE redis)
               /\ Mail(task[t].code)
               /\ Finish(t)
               /\ UNCHANGED <<kind, memory, used, userVars, calm>>

\* It is put in Redis for a few minutes.
SetInRedis(t) == /\ At(t, "set")
                 /\ OrRedisFails(redis' = task[t].code)
                 /\ Mail(task[t].code)
                 /\ Finish(t)
                 /\ UNCHANGED <<kind, memory, used, userVars, calm>>

-----------------------------------------------------------------------------
(* A code comes back: handleAuthenticate, handleDashboardAuthenticate,     *)
(* handleMagicLinkVerify.                                                  *)

Present(t, code, path) ==
    /\ At(t, "idle")
    /\ code <= latest
    /\ path \in IF kind = "link" THEN {"magic"} ELSE {"otp", "dashboard"}
    /\ Become(t, [Idle EXCEPT !.pc = IF HasRedis THEN "redis" ELSE "memory",
                              !.path = path, !.code = code, !.mail = Owner])
    /\ UNCHANGED <<codeVars, userVars, calm>>

Compare(t, stored) == IF stored = task[t].code THEN Goto(t, "drop") ELSE Finish(t)

\* Nothing there and no answer both lead to memory.
FindInRedis(t) ==
    /\ At(t, "redis")
    /\ \/ redis # NoCode /\ Compare(t, redis) /\ UNCHANGED upset
       \/ redis = NoCode /\ Goto(t, "memory") /\ UNCHANGED upset
       \/ Flaky /\ Goto(t, "memory") /\ upset' = TRUE
    /\ UNCHANGED <<kind, memory, redis, latest, used, userVars, calm>>

FindInMemory(t) == /\ At(t, "memory")
                   /\ Compare(t, memory)
                   /\ UNCHANGED <<codeVars, userVars, calm>>

UsedUp(t) == /\ used' = used \cup {task[t].code}
             /\ EnterAccounts(t, [task[t] EXCEPT !.pc = "select", !.code = NoCode])

\* Mutated: memory keeps the code.
MutDropNothing(t) == /\ At(t, "drop")
                     /\ IF HasRedis THEN Goto(t, "del") /\ UNCHANGED <<used, calm>> ELSE UsedUp(t)
                     /\ UNCHANGED <<kind, memory, redis, latest, upset, userVars>>

DropFromMemory(t) == /\ At(t, "drop")
                     /\ memory' = NoCode
                     /\ IF HasRedis THEN Goto(t, "del") /\ UNCHANGED <<used, calm>> ELSE UsedUp(t)
                     /\ UNCHANGED <<kind, redis, latest, upset, userVars>>

DelInRedis(t) == /\ At(t, "del")
                 /\ OrRedisFails(redis' = NoCode)
                 /\ UsedUp(t)
                 /\ UNCHANGED <<kind, memory, latest, userVars>>

-----------------------------------------------------------------------------
(* The account: the second half of these handlers, the other methods of    *)
(* handleAuthenticate, and processOAuthUser.                               *)

\* An address with a password, or from the inline OAuth method.
ComeWith(t, path, e) ==
    /\ At(t, "idle")
    /\ EnterAccounts(t, [Idle EXCEPT !.pc = "select", !.path = path, !.mail = e])
    /\ UNCHANGED <<codeVars, userVars>>

\* A provider's callback: p, who has address e there.
Callback(t, path, p, e) ==
    /\ At(t, "idle")
    /\ EnterAccounts(t, [Idle EXCEPT !.pc = "identity", !.path = path, !.mail = e, !.person = p])
    /\ UNCHANGED <<codeVars, userVars>>

\* The user of the request is known.
LetIn(t, label, user) == Become(t, [task[t] EXCEPT !.pc = label, !.mail = Nobody, !.user = user])

\* Mutated: the address is looked up before the identity.
MutIdentityLater(t) == /\ At(t, "identity")
                       /\ Goto(t, "select")
                       /\ UNCHANGED <<codeVars, userVars, calm>>

\* The linked user, if p is linked to one that has a row.
FindIdentity(t) ==
    LET user == link[task[t].person]
    IN  /\ At(t, "identity")
        /\ OrFails(IF user \in rows THEN LetIn(t, "session", user) ELSE Goto(t, "select"), Goto(t, "select"))
        /\ UNCHANGED <<codeVars, userVars>>

\* OAuth links the identity to the user.
Known(t, user) == LetIn(t, IF task[t].path \in OAuth THEN "link" ELSE "session", user)

\* Nobody has the address.
Unknown(t) == IF task[t].path \in {"social", "oauth"} /\ ~SignUp THEN Finish(t) ELSE Goto(t, "insert")

\* The user of the address, whose password may be another.
SelectUser(t) ==
    LET e == task[t].mail
    IN  /\ At(t, "select")
        /\ \/ e \in rows /\ Known(t, e) /\ UNCHANGED calm
           \/ e \in rows /\ task[t].path = "password" /\ Finish(t) /\ UNCHANGED calm
           \/ e \notin rows /\ Unknown(t) /\ UNCHANGED calm
           \/ Flaky /\ Unknown(t) /\ calm' = FALSE
        /\ UNCHANGED <<codeVars, userVars>>

\* email and mobile are UNIQUE; only processOAuthUser inserts an empty mobile.
Insertable(t) == task[t].mail \notin rows /\ ~(task[t].path \in OAuth /\ blank)

NotInserted(t) == /\ IF task[t].path \in ErrorDropped THEN Known(t, Ghost) ELSE Finish(t)
                  /\ UNCHANGED <<rows, blank>>

\* Mutated: no path looks at the error.
MutInsertUnchecked(t) ==
    LET e == task[t].mail
    IN  /\ At(t, "insert")
        /\ OrFails(IF Insertable(t)
                   THEN /\ rows' = rows \cup {e}
                        /\ blank' = (blank \/ task[t].path \in OAuth)
                        /\ Known(t, e)
                   ELSE Known(t, Ghost) /\ UNCHANGED <<rows, blank>>,
                   Known(t, Ghost) /\ UNCHANGED <<rows, blank>>)
        /\ UNCHANGED <<codeVars, link, who>>

InsertUser(t) ==
    LET e == task[t].mail
    IN  /\ At(t, "insert")
        /\ OrFails(IF Insertable(t)
                   THEN /\ rows' = rows \cup {e}
                        /\ blank' = (blank \/ task[t].path \in OAuth)
                        /\ Known(t, e)
                   ELSE NotInserted(t),
                   NotInserted(t))
        /\ UNCHANGED <<codeVars, link, who>>

\* INSERT OR IGNORE has nothing to ignore, the row's id being new; the first
\* row is the one that FindIdentity reads.  The error is dropped.
LinkIdentity(t) ==
    LET p == task[t].person
    IN  /\ At(t, "link")
        /\ OrFails(link' = [link EXCEPT ![p] = IF @ = Nobody THEN task[t].user ELSE @],
                   UNCHANGED link)
        /\ Goto(t, "session")
        /\ UNCHANGED <<codeVars, rows, blank, who>>

\* createSession, and the answer.
CreateSession(t) ==
    /\ At(t, "session")
    /\ who' = [p \in People |-> IF p = task[t].person THEN task[t].user ELSE who[p]]
    /\ Finish(t)
    /\ UNCHANGED <<codeVars, rows, blank, link, calm>>

-----------------------------------------------------------------------------
\* Redis lets go of a code: its minutes are over, or memory is short.
Expire == /\ redis # NoCode
          /\ redis' = NoCode
          /\ UNCHANGED <<kind, memory, latest, used, upset, userVars, task, calm>>

\* ArcAuth stops and starts again.
Restart == /\ memory' = NoCode
           /\ task' = [t \in Threads |-> Idle]
           /\ UNCHANGED <<kind, redis, latest, used, upset, userVars, calm>>

Step(t) == \/ SetInRedis(t) \/ FindInRedis(t) \/ FindInMemory(t) \/ DropFromMemory(t)
           \/ DelInRedis(t) \/ FindIdentity(t) \/ SelectUser(t) \/ InsertUser(t)
           \/ LinkIdentity(t) \/ CreateSession(t)

Arrive(t) == \/ \E code \in Codes : Send(t, code)
             \/ \E code \in Codes, path \in Coded : Present(t, code, path)
             \/ \E path \in {"password", "social"}, e \in Mails : ComeWith(t, path, e)
             \/ \E path \in OAuth, p \in People, e \in Mails : Callback(t, path, p, e)

Next == \/ \E t \in Threads : Arrive(t) \/ Step(t)
        \/ Expire
        \/ Restart

Spec == Init /\ [][Next]_vars

-----------------------------------------------------------------------------
User == Mails \cup {Ghost, Nobody}

TypeOK == /\ kind \in {"address", "link"}
          /\ memory \in Codes \cup {NoCode}
          /\ redis \in Codes \cup {NoCode}
          /\ rows \in SUBSET Mails
          /\ blank \in BOOLEAN
          /\ link \in [People -> User]
          /\ task \in [Threads -> [pc : Label, path : Path \cup {"none"}, code : Codes \cup {NoCode},
                                   mail : Mails \cup {Nobody}, person : People \cup {Nobody},
                                   user : User]]
          /\ \A t \in Threads : /\ task[t].pc \in {"link", "session"} <=> task[t].user # Nobody
                               /\ task[t].pc \in {"identity", "link"} => task[t].path \in OAuth
          /\ latest \in Codes \cup {NoCode}
          /\ used \in SUBSET Codes
          /\ upset \in BOOLEAN
          /\ who \in [People -> User]
          /\ calm \in BOOLEAN

\* A code that was used up compares equal no more, whichever of memory and Redis
\* it is looked up in and whatever copies of it sends, expiries, other logins and
\* restarts have left there - unless Redis failed or two sends overlapped.  It
\* does not say that a code lets in one request: those that compared it before it
\* was dropped (service.go:375) are all let in.
UsedIsRefused ==
    [][\A t \in Threads :
          task[t].pc \in {"redis", "memory"} /\ task'[t].pc = "drop" /\ ~upset
          => task[t].code \notin used]_vars

\* A code is not accepted once a later one was mailed, whichever of memory and
\* Redis it is found in - unless Redis failed or two sends overlapped.
OnlyTheLatest ==
    [][\A t \in Threads :
          task[t].pc \in {"redis", "memory"} /\ task'[t].pc = "drop" /\ ~upset
          => task[t].code = latest]_vars

\* Types, and: a session is for a user that has a row - except on the dashboard's paths,
\* which drop the error of the INSERT; there it takes a failing database, two
\* logins at once, or a second OAuth user, whose empty mobile is not UNIQUE.
GhostOnlyOnDashboard ==
    /\ TypeOK
    /\ \A t \in Threads : At(t, "session") /\ task[t].user \notin rows =>
          \/ task[t].path = "dashOAuth" /\ blank
          \/ task[t].path \in ErrorDropped /\ ~calm

\* Whoever comes from a provider is the same user every time, whatever address
\* the provider gives and whatever other logins made the accounts meanwhile - by
\* logins one at a time, and unless the first row for it links it to a user
\* that has no row, which is never mended.
SameUser ==
    [][\A p \in People :
          calm' /\ who[p] \in rows /\ link[p] # Ghost => who'[p] = who[p]]_vars

-----------------------------------------------------------------------------
(* What the code and its mails say and do not keep.                        *)

\* otp_adapters.go:45: the code "expires in 5 minutes".  A code that Redis let go
\* of is not accepted.
GoneFromRedisIsRefused ==
    [][\A t \in Threads : At(t, "memory") /\ HasRedis /\ ~upset
          => task'[t].pc # "drop"]_vars

\* service.go:1292: an OAuth login is to "Fall back to email lookup or
\* auto-creation".  While nothing fails or overlaps, the user is created.
OAuthUserIsCreated ==
    [][\A t \in Threads : At(t, "insert") /\ InsertUser(t) /\ calm' => task[t].mail \in rows']_vars
==============================================================================
