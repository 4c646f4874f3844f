---------------------------- MODULE Login_proofs ----------------------------
(***************************************************************************)
(* ArcAuth's logins for any requests, addresses and identities.            *)
(***************************************************************************)
EXTENDS Login, TLAPS

Holding == {"redis", "memory", "drop", "del"}

\* What a request holds at its step.
TaskRecord == [pc : Label, path : Path \cup {"none"}, code : Codes \cup {NoCode},
               mail : Mails \cup {Nobody}, person : People \cup {Nobody}, user : User]

Good(r) ==
    /\ r \in TaskRecord
    /\ r.pc \in {"link", "session"} <=> r.user # Nobody
    /\ r.pc \in {"identity", "link"} => r.path \in OAuth
    /\ r.pc \in Holding \cup {"set"} => r.code \in Codes
    /\ r.pc \in Holding \cup {"identity", "select", "insert"} => r.mail \in Mails
    /\ r.pc = "identity" => r.person \in People
    /\ r.person # Nobody => r.path \in OAuth /\ r.pc \notin Holding
    /\ r.pc \in {"set", "redis", "del"} => HasRedis

AllGood == task \in [Threads -> TaskRecord] /\ \A t \in Threads : Good(task[t])

VarTypes == /\ kind \in {"address", "link"}
            /\ memory \in Codes \cup {NoCode} /\ redis \in Codes \cup {NoCode}
            /\ latest \in Codes \cup {NoCode} /\ used \in SUBSET Codes
            /\ rows \in SUBSET Mails
            /\ link \in [People -> User] /\ who \in [People -> User]
            /\ blank \in BOOLEAN /\ upset \in BOOLEAN /\ calm \in BOOLEAN

\* The codes that were presented or used up were mailed before.
Mailed ==
    /\ \A c \in used : c <= latest
    /\ \A t \in Threads : /\ task[t].pc \in Holding => task[t].code <= latest
                          /\ At(t, "del") => memory # task[t].code
    /\ ~HasRedis => redis = NoCode

\* The code being sent was not mailed before, while it is the only one.  Memory
\* and Redis have the code that was mailed last or, memory, the one being sent.
OneSent ==
    ~upset =>
       /\ \A t \in Threads : Sending(t) => /\ task[t].code > latest
                                           /\ memory \in {NoCode, task[t].code}
                                           /\ \A u \in Threads : Sending(u) => u = t
       /\ (\A t \in Threads : ~Sending(t)) => memory \in {NoCode, latest}
       /\ redis \in {NoCode, latest}

Unused == ~upset => memory \notin used /\ redis \notin used

CodeInv == Mailed /\ OneSent /\ Unused

\* Users are in the table or are Ghost.
Users == rows \cup {Ghost}

Real ==
    /\ \A t \in Threads : task[t].pc \in {"link", "session"} => task[t].user \in Users
    /\ \A p \in People : link[p] \in Users \cup {Nobody} /\ who[p] \in Users \cup {Nobody}

\* While nothing fails or overlaps there is one login at the accounts, and what
\* it read of them still holds.
OneLogin ==
    calm =>
       /\ \A t, u \in Threads : task[t].pc \in Account /\ task[u].pc \in Account => t = u
       /\ \A t \in Threads :
             /\ At(t, "insert") => task[t].mail \notin rows
             /\ task[t].person # Nobody /\ task[t].pc \in {"select", "insert", "link"}
                   => link[task[t].person] \notin rows
             /\ task[t].person # Nobody /\ At(t, "session") /\ link[task[t].person] # Ghost
                   => task[t].user = link[task[t].person]
       /\ \A p \in People : who[p] \in rows /\ link[p] # Ghost => link[p] = who[p]

Excused(t) == \/ task[t].path = "dashOAuth" /\ blank
              \/ task[t].path \in ErrorDropped /\ ~calm

GhostExcused == \A t \in Threads : task[t].pc \in {"link", "session"} /\ task[t].user \notin rows => Excused(t)

UserInv == Real /\ OneLogin /\ GhostExcused

Inv == VarTypes /\ AllGood /\ CodeInv /\ UserInv

-----------------------------------------------------------------------------
(* A step of a request, and what the request holds after it.               *)

\* One request goes on and the others stay.
Moves(t) == /\ \A u \in Threads \ {t} : task'[u] = task[u]
            /\ Good(task'[t])

LEMMA BecomeMoves ==
    ASSUME AllGood, NEW t \in Threads, NEW r, Good(r), Become(t, r)
    PROVE  Moves(t) /\ task'[t] = r /\ AllGood'
  <1>1. task' = [task EXCEPT ![t] = r] /\ r \in TaskRecord
    BY DEF Become, Good
  <1>2. task' \in [Threads -> TaskRecord] /\ \A u \in Threads : task'[u] = IF u = t THEN r ELSE task[u]
    BY <1>1 DEF AllGood
  <1>3. Good(r)'
    OBVIOUS
  <1>4. \A u \in Threads : Good(task'[u])
    BY <1>2 DEF AllGood
  <1>5. QED
    BY <1>2, <1>4 DEF Moves, AllGood

LEMMA IdleGood == Good(Idle)
  BY LoginAssumption DEF Good, TaskRecord, Idle, Label, Account, User, Path, NoCode, Holding

LEMMA GotoGood ==
    ASSUME NEW r, Good(r), r.pc \in Label \ {"link", "session"},
           NEW l \in Label \ {"link", "session"},
           l \in {"identity", "redis", "set"} => l = r.pc,
           l = "del" => HasRedis,
           l \in Holding => r.pc \in Holding,
           l \in {"select", "insert"} => r.pc \in {"identity", "select"}
    PROVE  /\ Good([r EXCEPT !.pc = l])
           /\ [r EXCEPT !.pc = l].pc = l
           /\ [r EXCEPT !.pc = l].code = r.code
           /\ [r EXCEPT !.pc = l].mail = r.mail
           /\ [r EXCEPT !.pc = l].person = r.person
           /\ [r EXCEPT !.pc = l].path = r.path
  BY DEF Good, TaskRecord, Holding

\* The user of a request becomes known.
LEMMA LetInGood ==
    ASSUME NEW r, Good(r), r.pc \in {"identity", "select", "insert"},
           NEW l \in {"link", "session"}, l = "link" => r.path \in OAuth,
           NEW user \in User \ {Nobody}
    PROVE  Good([r EXCEPT !.pc = l, !.mail = Nobody, !.user = user])
  BY DEF Good, TaskRecord, Holding, Label, Account

LEMMA KnownMoves ==
    ASSUME AllGood, NEW t \in Threads, task[t].pc \in {"select", "insert"},
           NEW user \in User \ {Nobody}, Known(t, user)
    PROVE  /\ Moves(t) /\ AllGood'
           /\ task'[t].pc = IF task[t].path \in OAuth THEN "link" ELSE "session"
           /\ task'[t].user = user
           /\ task'[t].path = task[t].path /\ task'[t].person = task[t].person
  <1> DEFINE l == IF task[t].path \in OAuth THEN "link" ELSE "session"
             r == [task[t] EXCEPT !.pc = l, !.mail = Nobody, !.user = user]
  <1>1. Become(t, r)
    BY DEF Known, LetIn
  <1>2. Good(r)
    BY LetInGood DEF AllGood
  <1>3. task[t] \in TaskRecord
    BY DEF AllGood
  <1>4. r.pc = l /\ r.user = user /\ r.path = task[t].path /\ r.person = task[t].person
    BY <1>3 DEF TaskRecord
  <1> HIDE DEF r
  <1>5. QED
    BY <1>1, <1>2, <1>4, BecomeMoves

LEMMA GotoMoves ==
    ASSUME AllGood, NEW t \in Threads, task[t].pc \in Label \ {"link", "session"},
           NEW l \in Label \ {"link", "session"}, Goto(t, l),
           l \in {"identity", "redis", "set"} => l = task[t].pc,
           l = "del" => HasRedis,
           l \in Holding => task[t].pc \in Holding,
           l \in {"select", "insert"} => task[t].pc \in {"identity", "select"}
    PROVE  /\ Moves(t) /\ AllGood'
           /\ task'[t].pc = l /\ task'[t].code = task[t].code /\ task'[t].mail = task[t].mail
           /\ task'[t].person = task[t].person /\ task'[t].path = task[t].path
  <1> DEFINE r == [task[t] EXCEPT !.pc = l]
  <1>1. Become(t, r)
    BY DEF Goto
  <1>2. /\ Good(r) /\ r.pc = l /\ r.code = task[t].code /\ r.mail = task[t].mail
        /\ r.person = task[t].person /\ r.path = task[t].path
    <2>1. Good(task[t])
      BY DEF AllGood
    <2>2. QED
      BY <2>1, GotoGood
  <1> HIDE DEF r
  <1>3. QED
    BY <1>1, <1>2, BecomeMoves

LEMMA FinishMoves ==
    ASSUME AllGood, NEW t \in Threads, Finish(t)
    PROVE  Moves(t) /\ AllGood' /\ task'[t] = Idle
  BY IdleGood, BecomeMoves DEF Finish

LEMMA UnknownMoves ==
    ASSUME AllGood, NEW t \in Threads, task[t].pc = "select", Unknown(t)
    PROVE  /\ Moves(t) /\ AllGood'
           /\ \/ task'[t] = Idle
              \/ /\ task'[t].pc = "insert" /\ task'[t].mail = task[t].mail
                 /\ task'[t].person = task[t].person /\ task'[t].path = task[t].path
  <1>1. CASE Finish(t)
    BY <1>1, FinishMoves
  <1>2. CASE Goto(t, "insert")
    BY <1>2, GotoMoves DEF Label, Account, Holding
  <1>3. QED
    BY <1>1, <1>2 DEF Unknown

\* A request that used a code up comes to the accounts.
LEMMA UsedUpMoves ==
    ASSUME AllGood, NEW t \in Threads, task[t].pc \in {"drop", "del"}, UsedUp(t)
    PROVE  /\ Moves(t) /\ AllGood'
           /\ task'[t].pc = "select" /\ task'[t].person = task[t].person
  <1> DEFINE r == [task[t] EXCEPT !.pc = "select", !.code = NoCode]
  <1>1. Become(t, r)
    BY DEF UsedUp, EnterAccounts
  <1>2. Good(task[t])
    BY DEF AllGood
  <1>3. Good(r) /\ r.pc = "select" /\ r.person = task[t].person
    BY <1>2 DEF Good, TaskRecord, Holding, Label, Account
  <1> HIDE DEF r
  <1>4. QED
    BY <1>1, <1>3, BecomeMoves

\* How a request moves and what it keeps, action by action.
LEMMA ArriveMoves ==
    ASSUME AllGood, NEW t \in Threads, Arrive(t)
    PROVE  AllGood' /\ At(t, "idle") /\ (UNCHANGED task \/ Moves(t))
  <1> USE LoginAssumption DEF Good, TaskRecord, Idle, Label, Account, User, Path, NoCode, Holding, At,
                              Coded, OAuth
  <1>1. ASSUME NEW code \in Codes, Send(t, code) PROVE AllGood' /\ At(t, "idle") /\ (UNCHANGED task \/ Moves(t))
    <2> DEFINE r == [Idle EXCEPT !.pc = "set", !.path = "send", !.code = code]
    <2>1. At(t, "idle") /\ (UNCHANGED task \/ (Become(t, r) /\ HasRedis))
      BY <1>1 DEF Send
    <2>2. CASE UNCHANGED task
      BY <2>1, <2>2 DEF AllGood
    <2>3. CASE Become(t, r) /\ HasRedis
      <3>1. Good(r)
        BY <2>3
      <3>2. QED
        BY <2>1, <2>3, <3>1, BecomeMoves
    <2>4. QED
      BY <2>1, <2>2, <2>3
  <1>2. ASSUME NEW code \in Codes, NEW path \in Coded, Present(t, code, path)
        PROVE  AllGood' /\ At(t, "idle") /\ Moves(t)
    <2> DEFINE r == [Idle EXCEPT !.pc = IF HasRedis THEN "redis" ELSE "memory",
                                 !.path = path, !.code = code, !.mail = Owner]
    <2>1. At(t, "idle") /\ Become(t, r)
      BY <1>2 DEF Present
    <2>2. Good(r)
      BY <1>2
    <2> HIDE DEF r, Good, TaskRecord
    <2>3. QED
      BY <2>1, <2>2, BecomeMoves
  <1>3. ASSUME NEW path \in {"password", "social"}, NEW e \in Mails, ComeWith(t, path, e)
        PROVE  AllGood' /\ At(t, "idle") /\ Moves(t)
    <2> DEFINE r == [Idle EXCEPT !.pc = "select", !.path = path, !.mail = e]
    <2>1. At(t, "idle") /\ Become(t, r)
      BY <1>3 DEF ComeWith, EnterAccounts
    <2>2. Good(r)
      OBVIOUS
    <2>3. QED
      BY <2>1, <2>2, BecomeMoves
  <1>4. ASSUME NEW path \in OAuth, NEW p \in People, NEW e \in Mails, Callback(t, path, p, e)
        PROVE  AllGood' /\ At(t, "idle") /\ Moves(t)
    <2> DEFINE r == [Idle EXCEPT !.pc = "identity", !.path = path, !.mail = e, !.person = p]
    <2>1. At(t, "idle") /\ Become(t, r)
      BY <1>4 DEF Callback, EnterAccounts
    <2>2. Good(r)
      OBVIOUS
    <2>3. QED
      BY <2>1, <2>2, BecomeMoves
  <1>5. QED
    BY <1>1, <1>2, <1>3, <1>4 DEF Arrive

LEMMA StepMoves ==
    ASSUME VarTypes, AllGood, Real, NEW t \in Threads, Step(t)
    PROVE  AllGood' /\ Moves(t)
  <1>0. /\ Good(task[t])
        /\ {"idle", "set", "redis", "memory", "drop", "del", "identity", "select", "insert"}
              \subseteq Label \ {"link", "session"}
        /\ Users \subseteq User \ {Nobody}
    BY LoginAssumption DEF AllGood, Label, Account, User, Users, VarTypes
  <1>1. CASE SetInRedis(t) \/ CreateSession(t)
    BY <1>1, FinishMoves DEF SetInRedis, CreateSession
  <1>2. CASE FindInRedis(t)
    <2>1. CASE Finish(t)
      BY <2>1, FinishMoves
    <2>2. CASE Goto(t, "memory")
      BY <1>0, <1>2, <2>2, GotoMoves DEF FindInRedis, At, Holding
    <2>3. CASE Goto(t, "drop")
      BY <1>0, <1>2, <2>3, GotoMoves DEF FindInRedis, At, Holding
    <2>4. QED
      BY <1>2, <2>1, <2>2, <2>3 DEF FindInRedis, Compare
  <1>3. CASE FindInMemory(t)
    <2>1. CASE Finish(t)
      BY <2>1, FinishMoves
    <2>2. CASE Goto(t, "drop")
      BY <1>0, <1>3, <2>2, GotoMoves DEF FindInMemory, At, Holding
    <2>3. QED
      BY <1>3, <2>1, <2>2 DEF FindInMemory, Compare
  <1>4. CASE DropFromMemory(t)
    <2>1. CASE HasRedis
      <3>1. Goto(t, "del") /\ task[t].pc = "drop"
        BY <1>4, <2>1 DEF DropFromMemory, At
      <3>2. QED
        BY <1>0, <2>1, <3>1, GotoMoves DEF Holding
    <2>2. CASE ~HasRedis
      BY <1>4, <2>2, UsedUpMoves DEF DropFromMemory, At
    <2>3. QED
      BY <2>1, <2>2
  <1>5. CASE DelInRedis(t)
    BY <1>5, UsedUpMoves DEF DelInRedis, At
  <1>6. CASE FindIdentity(t)
    <2>1. At(t, "identity")
      BY <1>6 DEF FindIdentity
    <2>2. CASE Goto(t, "select")
      BY <1>0, <2>1, <2>2, GotoMoves DEF At, Holding
    <2>3. CASE link[task[t].person] \in rows /\ LetIn(t, "session", link[task[t].person])
      <3>1. link[task[t].person] \in User \ {Nobody}
        BY <2>3, <1>0 DEF Users
      <3> DEFINE r == [task[t] EXCEPT !.pc = "session", !.mail = Nobody, !.user = link[task[t].person]]
      <3>2. Good(r)
        BY <1>0, <2>1, <3>1, LetInGood DEF At
      <3>3. Become(t, r)
        BY <2>3 DEF LetIn
      <3> HIDE DEF r
      <3>4. QED
        BY <3>2, <3>3, BecomeMoves
    <2>4. QED
      BY <1>6, <2>2, <2>3 DEF FindIdentity, OrFails
  <1>7. CASE SelectUser(t)
    <2>1. task[t].pc = "select"
      BY <1>7 DEF SelectUser, At
    <2>2. CASE Finish(t)
      BY <2>2, FinishMoves
    <2>3. CASE Unknown(t)
      BY <2>1, <2>3, UnknownMoves
    <2>4. CASE task[t].mail \in rows /\ Known(t, task[t].mail)
      <3>1. task[t].mail \in User \ {Nobody}
        BY <1>0, <2>4 DEF Users
      <3>2. QED
        BY <2>1, <2>4, <3>1, KnownMoves
    <2>5. QED
      BY <1>7, <2>2, <2>3, <2>4 DEF SelectUser
  <1>8. CASE InsertUser(t)
    <2>1. task[t].pc = "insert"
      BY <1>8 DEF InsertUser, At
    <2>2. CASE Finish(t)
      BY <2>2, FinishMoves
    <2>3. CASE Known(t, Ghost)
      BY <1>0, <2>1, <2>3, KnownMoves DEF Users
    <2>4. CASE Known(t, task[t].mail)
      <3>1. task[t].mail \in User \ {Nobody}
        BY <1>0, <2>1, LoginAssumption DEF Good, User
      <3>2. QED
        BY <2>1, <2>4, <3>1, KnownMoves
    <2>5. QED
      BY <1>8, <2>2, <2>3, <2>4 DEF InsertUser, OrFails, NotInserted
  <1>9. CASE LinkIdentity(t)
    <2> DEFINE r == [task[t] EXCEPT !.pc = "session"]
    <2>1. task[t].pc = "link" /\ Become(t, r)
      BY <1>9 DEF LinkIdentity, Goto, At
    <2>2. Good(r)
      BY <1>0, <2>1 DEF Good, TaskRecord, Holding, Label, Account
    <2>3. QED
      BY <2>1, <2>2, BecomeMoves
  <1>10. QED
    BY <1>1, <1>2, <1>3, <1>4, <1>5, <1>6, <1>7, <1>8, <1>9 DEF Step

LEMMA Typed == VarTypes /\ AllGood => TypeOK
  BY DEF VarTypes, AllGood, Good, TaskRecord, TypeOK

\* A request at the accounts stays there until it ends.
LEMMA AccountMoves ==
    ASSUME VarTypes, AllGood, Real, NEW t \in Threads,
           FindIdentity(t) \/ SelectUser(t) \/ InsertUser(t) \/ LinkIdentity(t) \/ CreateSession(t)
    PROVE  task'[t].pc \in Account \cup {"idle"}
  <1>1. \E r : Become(t, r) /\ r.pc \in Account \cup {"idle"}
    <2> USE DEF Account
    <2>1. ASSUME NEW l \in Account, Goto(t, l) PROVE \E r : Become(t, r) /\ r.pc \in Account \cup {"idle"}
      <3>1. Become(t, [task[t] EXCEPT !.pc = l]) /\ task[t] \in TaskRecord
        BY <2>1 DEF Goto, AllGood
      <3>2. [task[t] EXCEPT !.pc = l].pc = l
        BY <3>1 DEF TaskRecord
      <3>3. QED
        BY <3>1, <3>2
    <2>2. ASSUME NEW l \in Account, NEW user, LetIn(t, l, user)
          PROVE  \E r : Become(t, r) /\ r.pc \in Account \cup {"idle"}
      <3>1. Become(t, [task[t] EXCEPT !.pc = l, !.mail = Nobody, !.user = user]) /\ task[t] \in TaskRecord
        BY <2>2 DEF LetIn, AllGood
      <3>2. [task[t] EXCEPT !.pc = l, !.mail = Nobody, !.user = user].pc = l
        BY <3>1 DEF TaskRecord
      <3>3. QED
        BY <3>1, <3>2
    <2>3. ASSUME Finish(t) PROVE \E r : Become(t, r) /\ r.pc \in Account \cup {"idle"}
      BY <2>3 DEF Finish, Idle
    <2>4. QED
      BY <2>1, <2>2, <2>3 DEF FindIdentity, SelectUser, InsertUser, LinkIdentity, CreateSession, OrFails,
                              Known, Unknown, NotInserted
  <1>2. QED
    BY <1>1 DEF Become, AllGood

-----------------------------------------------------------------------------
(* The codes.                                                              *)

\* A step of t that leaves the codes as they are, or at most notes a failure.
CodesSame == /\ UNCHANGED <<memory, redis, latest, used>>
             /\ upset' \in BOOLEAN /\ (upset => upset')

LEMMA CodesKept ==
    ASSUME Inv, NEW t \in Threads, Moves(t), CodesSame,
           task[t].pc # "set", task'[t].pc # "set",
           task'[t].pc \in Holding => task'[t].code <= latest,
           At(t, "del")' => memory # task'[t].code
    PROVE  CodeInv'
  <1>1. \A u \in Threads : u # t => task'[u] = task[u]
    BY DEF Moves
  <1>2. Mailed'
    BY <1>1 DEF CodesSame, Inv, CodeInv, Mailed, At
  <1>3. \A u \in Threads : Sending(u)' <=> Sending(u)
    BY <1>1 DEF Sending, At
  <1>4. OneSent'
    BY <1>1, <1>3 DEF CodesSame, Inv, CodeInv, OneSent, Sending, At
  <1>5. Unused'
    BY DEF CodesSame, Inv, CodeInv, Unused
  <1>6. QED
    BY <1>2, <1>4, <1>5 DEF CodeInv

LEMMA CodeNumbers == \A c \in Codes \cup {NoCode} : c \in Nat /\ (c # NoCode <=> c \in Codes)
  BY LoginAssumption DEF Codes, NoCode

LEMMA SendCodes ==
    ASSUME Inv, NEW t \in Threads, NEW code \in Codes, Send(t, code), UNCHANGED task \/ Moves(t)
    PROVE  CodeInv'
  <1>1. /\ memory' = code /\ code > latest /\ UNCHANGED <<redis, used>> /\ At(t, "idle")
        /\ \A u \in Threads : Sending(u) => code > task[u].code
        /\ upset' = (upset \/ \E u \in Threads : Sending(u))
    BY DEF Send, New
  <1>2. /\ \A u \in Threads \ {t} : task'[u] = task[u]
        /\ code \in Nat /\ latest \in Nat /\ \A c \in used : c \in Nat
        /\ \A u \in Threads : task[u].pc \in Holding => task[u].code \in Nat
    BY CodeNumbers DEF Moves, Inv, VarTypes, AllGood, Good, Holding
  <1>3. code \notin used /\ (~upset' => ~upset)
    <2>1. \A c \in used : c <= latest
      BY DEF Inv, CodeInv, Mailed
    <2>2. QED
      BY <1>1, <1>2, <2>1 DEF Inv, VarTypes
  <1>4. CASE HasRedis
    <2>1. /\ latest' = latest
          /\ task'[t].pc = "set" /\ task'[t].code = code
      <3>1. task' = [task EXCEPT ![t] = [Idle EXCEPT !.pc = "set", !.path = "send", !.code = code]]
        BY <1>4 DEF Send, Become
      <3>2. QED
        BY <1>4, <3>1 DEF Inv, AllGood, Idle, Send
    <2>2. Mailed'
      BY <1>1, <1>2, <1>4, <2>1 DEF Inv, CodeInv, Mailed, At, Holding
    <2>3. OneSent'
      <3>1. ASSUME ~upset' PROVE ~upset /\ \A u \in Threads : ~Sending(u)
        BY <1>1, <3>1 DEF Inv, VarTypes
      <3>2. ASSUME ~upset', NEW u \in Threads, Sending(u)' PROVE u = t
        BY <1>2, <3>1, <3>2 DEF Sending, At
      <3>3. QED
        BY <1>1, <2>1, <3>1, <3>2 DEF Inv, CodeInv, OneSent, Sending, At
    <2>4. Unused'
      BY <1>1, <1>3 DEF Inv, CodeInv, Unused
    <2>5. QED
      BY <2>2, <2>3, <2>4 DEF CodeInv
  <1>5. CASE ~HasRedis
    <2>1. latest' = code /\ task' = task /\ \A u \in Threads : ~Sending(u)
      BY <1>1, <1>2, <1>5 DEF Send, Mail, Inv, AllGood, Good, Sending, At
    <2>2. Mailed'
      <3>1. ASSUME NEW u \in Threads, task[u].pc \in Holding PROVE task[u].code <= code
        BY <1>1, <1>2, <3>1 DEF Inv, CodeInv, Mailed
      <3>2. ASSUME NEW c \in used PROVE c <= code
        BY <1>1, <1>2 DEF Inv, CodeInv, Mailed
      <3>3. \A u \in Threads : ~At(u, "del")
        BY <1>5 DEF Inv, AllGood, Good, At
      <3>4. QED
        BY <1>1, <1>5, <2>1, <3>1, <3>2, <3>3 DEF Inv, CodeInv, Mailed, At
    <2>3. OneSent'
      BY <1>1, <1>5, <2>1 DEF Inv, CodeInv, Mailed, OneSent, Sending, At
    <2>4. Unused'
      BY <1>1, <1>3 DEF Inv, CodeInv, Unused
    <2>5. QED
      BY <2>2, <2>3, <2>4 DEF CodeInv
  <1>6. QED
    BY <1>4, <1>5

LEMMA SetCodes ==
    ASSUME Inv, NEW t \in Threads, SetInRedis(t), Moves(t), task'[t] = Idle
    PROVE  CodeInv'
  <1> DEFINE c == task[t].code
  <1>1. /\ At(t, "set") /\ UNCHANGED <<memory, used>>
        /\ \/ redis' = c /\ upset' = upset
           \/ redis' = redis /\ upset' = TRUE
        /\ latest' = IF latest < c THEN c ELSE latest
    BY DEF SetInRedis, OrRedisFails, Mail
  <1>2. /\ \A u \in Threads \ {t} : task'[u] = task[u]
        /\ c \in Nat /\ c \in Codes /\ latest \in Nat /\ \A d \in used : d \in Nat
        /\ \A u \in Threads : task[u].pc \in Holding \cup {"set"} => task[u].code \in Nat
        /\ task'[t].pc = "idle" /\ HasRedis
    BY <1>1, CodeNumbers DEF Moves, Inv, VarTypes, AllGood, Good, Holding, At, Idle
  <1>3. Mailed'
    <2>1. ASSUME NEW u \in Threads, task'[u].pc \in Holding PROVE task'[u] = task[u] /\ task[u].code <= latest'
      <3>1. u # t
        BY <1>2, <2>1 DEF Holding
      <3>2. task[u].code \in Nat /\ task[u].code <= latest
        BY <1>2, <2>1, <3>1 DEF Inv, CodeInv, Mailed
      <3>3. QED
        BY <1>1, <1>2, <3>1, <3>2
    <2>2. \A d \in used : d <= latest'
      BY <1>1, <1>2 DEF Inv, CodeInv, Mailed
    <2>3. \A u \in Threads : At(u, "del")' => memory' # task'[u].code
      BY <1>1, <2>1 DEF Inv, CodeInv, Mailed, At, Holding
    <2>4. QED
      BY <1>1, <1>2, <2>1, <2>2, <2>3 DEF Mailed, At
  <1> HIDE DEF c
  <1>4. ASSUME ~upset' PROVE /\ ~upset /\ c > latest /\ redis' = c /\ latest' = c
                             /\ memory \in {NoCode, c} /\ \A u \in Threads : ~Sending(u)'
    <2>1. ~upset /\ redis' = c
      BY <1>1, <1>4
    <2>2. c > latest /\ memory \in {NoCode, c} /\ \A u \in Threads : Sending(u) => u = t
      BY <1>1, <2>1 DEF Inv, CodeInv, OneSent, Sending, c
    <2>3. ASSUME NEW u \in Threads PROVE ~Sending(u)'
      BY <1>2, <2>2 DEF Sending, At
    <2>4. QED
      BY <1>1, <1>2, <2>1, <2>2, <2>3
  <1>5. OneSent'
    BY <1>1, <1>4 DEF OneSent
  <1>6. Unused'
    <2>1. ASSUME ~upset' PROVE c \notin used /\ memory \notin used
      BY <1>2, <1>4, <2>1 DEF Inv, CodeInv, Mailed, Unused
    <2>2. QED
      BY <1>1, <1>4, <2>1 DEF Unused
  <1>7. QED
    BY <1>3, <1>5, <1>6 DEF CodeInv

\* A code that is used up is in neither place afterwards.
LEMMA UsedCodes ==
    ASSUME Inv, NEW t \in Threads, DropFromMemory(t) \/ DelInRedis(t), Moves(t)
    PROVE  CodeInv'
  <1> DEFINE c == task[t].code
  <1>1. /\ task[t].pc \in {"drop", "del"} /\ c \in Codes /\ c <= latest
        /\ latest' = latest /\ (upset => upset') /\ upset' \in BOOLEAN
    BY DEF DropFromMemory, DelInRedis, OrRedisFails, At, Inv, AllGood, Good, Holding, CodeInv, Mailed, VarTypes
  <1>2. /\ \A u \in Threads \ {t} : task'[u] = task[u]
        /\ NoCode \notin used /\ c # NoCode
    BY <1>1, CodeNumbers DEF Moves, Inv, VarTypes
  <1>3. \/ /\ HasRedis /\ memory' = NoCode /\ UNCHANGED <<redis, used>>
           /\ task'[t].pc = "del" /\ task'[t].code = c
        \/ /\ ~HasRedis /\ memory' = NoCode /\ redis' = redis /\ used' = used \cup {c}
           /\ task'[t].pc = "select"
        \/ /\ At(t, "del") /\ HasRedis /\ memory' = memory /\ used' = used \cup {c}
           /\ redis' = NoCode \/ (redis' = redis /\ upset')
           /\ task'[t].pc = "select"
    <2>1. CASE DropFromMemory(t) /\ HasRedis
      <3>1. Goto(t, "del") /\ task[t].pc = "drop"
        BY <2>1 DEF DropFromMemory, At
      <3>2. task'[t].pc = "del" /\ task'[t].code = c
        BY <2>1, <3>1, GotoMoves DEF Inv, Holding, Label, Account
      <3>3. QED
        BY <2>1, <3>2 DEF DropFromMemory
    <2>2. CASE DropFromMemory(t) /\ ~HasRedis
      <3>1. task'[t].pc = "select"
        BY <1>1, <2>2, UsedUpMoves DEF DropFromMemory, Inv
      <3>2. QED
        BY <2>2, <3>1 DEF DropFromMemory, UsedUp
    <2>3. CASE DelInRedis(t)
      <3>1. task'[t].pc = "select"
        BY <1>1, <2>3, UsedUpMoves DEF DelInRedis, Inv
      <3>2. HasRedis
        BY <2>3 DEF DelInRedis, At, Inv, AllGood, Good
      <3>3. redis' = NoCode \/ (redis' = redis /\ upset')
        BY <2>3 DEF DelInRedis, OrRedisFails
      <3>4. At(t, "del") /\ memory' = memory /\ used' = used \cup {c}
        BY <2>3 DEF DelInRedis, UsedUp
      <3>5. QED
        BY <3>1, <3>2, <3>3, <3>4
    <2>4. QED
      BY <2>1, <2>2, <2>3
  <1> HIDE DEF c
  <1>4. Mailed'
    <2>1. ASSUME NEW u \in Threads, task'[u].pc \in Holding PROVE task'[u].code <= latest
      BY <1>1, <1>2, <1>3, <2>1 DEF Inv, CodeInv, Mailed, Holding
    <2>2. ASSUME NEW u \in Threads, At(u, "del")' PROVE memory' # task'[u].code
      <3>1. CASE u = t
        BY <1>2, <1>3, <2>2, <3>1 DEF At
      <3>2. CASE u # t
        <4>1. At(u, "del") /\ task'[u] = task[u]
          BY <1>2, <2>2, <3>2 DEF At
        <4>2. memory # task[u].code /\ task[u].code # NoCode
          BY <4>1, CodeNumbers DEF At, Inv, CodeInv, Mailed, AllGood, Good, Holding
        <4>3. QED
          BY <1>3, <4>1, <4>2
      <3>3. QED
        BY <3>1, <3>2
    <2>3. \A d \in used' : d <= latest
      BY <1>1, <1>3 DEF Inv, CodeInv, Mailed
    <2>4. ~HasRedis => redis' = NoCode
      BY <1>3 DEF Inv, CodeInv, Mailed
    <2>5. QED
      BY <1>1, <2>1, <2>2, <2>3, <2>4 DEF Mailed
  <1>5. OneSent'
    <2>1. \A u \in Threads : Sending(u)' <=> Sending(u)
      BY <1>1, <1>2, <1>3 DEF Sending, At
    <2>2. \A u \in Threads : Sending(u) => task'[u] = task[u]
      BY <1>1, <1>2 DEF Sending, At
    <2>3. memory' \in {NoCode, memory} /\ redis' \in {NoCode, redis}
      BY <1>3
    <2>4. QED
      BY <1>1, <2>1, <2>2, <2>3 DEF Inv, CodeInv, OneSent
  <1>6. Unused'
    <2>1. ASSUME ~upset' PROVE memory' \notin used' /\ redis' \notin used'
      <3>1. memory \notin used /\ redis \notin used
        BY <1>1, <2>1 DEF Inv, CodeInv, Unused
      <3>2. At(t, "del") => memory # c
        BY DEF Inv, CodeInv, Mailed, c
      <3>3. ~HasRedis => redis = NoCode
        BY DEF Inv, CodeInv, Mailed
      <3>4. QED
        BY <1>2, <1>3, <2>1, <3>1, <3>2, <3>3
    <2>2. QED
      BY <2>1 DEF Unused
  <1>7. QED
    BY <1>4, <1>5, <1>6 DEF CodeInv

LEMMA CodeStep == Inv /\ [Next]_vars => CodeInv'
  <1> SUFFICES ASSUME Inv, [Next]_vars PROVE CodeInv'
    OBVIOUS
  <1>0. VarTypes /\ AllGood /\ Real
    BY DEF Inv, UserInv
  <1>1. ASSUME NEW t \in Threads, Arrive(t) PROVE CodeInv'
    <2>1. (UNCHANGED task \/ Moves(t)) /\ At(t, "idle")
      BY <1>0, <1>1, ArriveMoves
    <2>2. ASSUME NEW code \in Codes, Send(t, code) PROVE CodeInv'
      BY <2>1, <2>2, SendCodes
    <2>3. ASSUME NEW code \in Codes, NEW path \in Coded, Present(t, code, path) PROVE CodeInv'
      <3> DEFINE pc == IF HasRedis THEN "redis" ELSE "memory"
      <3>1. task' = [task EXCEPT ![t] = [Idle EXCEPT !.pc = pc, !.path = path, !.code = code, !.mail = Owner]]
        BY <2>3 DEF Present, Become
      <3>2. task'[t].pc = pc /\ task'[t].code = code
        BY <3>1 DEF Idle, Inv, AllGood
      <3>3. CodesSame /\ code <= latest
        BY <2>3 DEF Present, codeVars, CodesSame, Inv, VarTypes
      <3>4. Moves(t)
        <4>1. Arrive(t) /\ task' # task
          BY <2>1, <2>3, <3>2 DEF Arrive, At
        <4>2. QED
          BY <2>1, <4>1
      <3>5. QED
        BY <2>1, <3>2, <3>3, <3>4, CodesKept DEF At
    <2>4. ASSUME NEW path \in {"password", "social"}, NEW e \in Mails, ComeWith(t, path, e) PROVE CodeInv'
      <3>1. task' = [task EXCEPT ![t] = [Idle EXCEPT !.pc = "select", !.path = path, !.mail = e]]
        BY <2>4 DEF ComeWith, EnterAccounts, Become
      <3>2. task'[t].pc = "select"
        BY <3>1 DEF Idle, Inv, AllGood
      <3>3. CodesSame
        BY <2>4 DEF ComeWith, codeVars, CodesSame, Inv, VarTypes
      <3>4. Moves(t)
        BY <2>1, <3>2 DEF At
      <3>5. QED
        BY <2>1, <3>2, <3>3, <3>4, CodesKept DEF At, Holding
    <2>5. ASSUME NEW path \in OAuth, NEW p \in People, NEW e \in Mails, Callback(t, path, p, e) PROVE CodeInv'
      <3>1. task' = [task EXCEPT ![t] = [Idle EXCEPT !.pc = "identity", !.path = path, !.mail = e, !.person = p]]
        BY <2>5 DEF Callback, EnterAccounts, Become
      <3>2. task'[t].pc = "identity"
        BY <3>1 DEF Idle, Inv, AllGood
      <3>3. CodesSame
        BY <2>5 DEF Callback, codeVars, CodesSame, Inv, VarTypes
      <3>4. Moves(t)
        BY <2>1, <3>2 DEF At
      <3>5. QED
        BY <2>1, <3>2, <3>3, <3>4, CodesKept DEF At, Holding
    <2>6. QED
      BY <1>1, <2>2, <2>3, <2>4, <2>5 DEF Arrive
  <1>2. ASSUME NEW t \in Threads, Step(t) PROVE CodeInv'
    <2>1. Moves(t)
      BY <1>0, <1>2, StepMoves
    <2>2. CASE SetInRedis(t)
      BY <1>0, <2>1, <2>2, SetCodes, FinishMoves DEF SetInRedis
    <2>3. CASE DropFromMemory(t) \/ DelInRedis(t)
      BY <2>1, <2>3, UsedCodes
    <2>4. CASE FindInRedis(t) \/ FindInMemory(t)
      <3>1. CodesSame /\ task[t].pc \in {"redis", "memory"} /\ task[t].code <= latest
        BY <2>4 DEF FindInRedis, FindInMemory, codeVars, CodesSame, Inv, VarTypes, At, CodeInv, Mailed, Holding
      <3>2. CASE Finish(t)
        BY <1>0, <2>1, <3>1, <3>2, FinishMoves, CodesKept DEF Idle, Holding, At
      <3>3. ASSUME NEW l \in {"memory", "drop"}, Goto(t, l) PROVE CodeInv'
        <4>1. task'[t].pc = l /\ task'[t].code = task[t].code
          BY <1>0, <3>1, <3>3, GotoMoves DEF Label, Account, Holding
        <4>2. QED
          BY <2>1, <3>1, <4>1, CodesKept DEF At
      <3>4. QED
        BY <2>4, <3>2, <3>3 DEF FindInRedis, FindInMemory, Compare
    <2>5. CASE FindIdentity(t) \/ SelectUser(t) \/ InsertUser(t) \/ LinkIdentity(t) \/ CreateSession(t)
      <3>1. CodesSame /\ task[t].pc \in Account
        BY <2>5 DEF FindIdentity, SelectUser, InsertUser, LinkIdentity, CreateSession, codeVars,
                    CodesSame, Inv, VarTypes, At, Account
      <3>2. task'[t].pc \in Account \cup {"idle"}
        BY <1>0, <2>5, AccountMoves
      <3>3. QED
        BY <2>1, <3>1, <3>2, CodesKept DEF At, Account, Holding
    <2>6. QED
      BY <1>2, <2>2, <2>3, <2>4, <2>5 DEF Step
  <1>3. CASE Expire
    <2>1. /\ UNCHANGED <<memory, latest, used, upset, task>> /\ redis' = NoCode /\ NoCode \notin used
      BY <1>3, CodeNumbers DEF Expire, Inv, VarTypes
    <2>2. QED
      BY <2>1 DEF Inv, CodeInv, Mailed, OneSent, Unused, Sending, At
  <1>4. CASE Restart
    <2>1. /\ UNCHANGED <<redis, latest, used, upset>> /\ memory' = NoCode /\ NoCode \notin used
          /\ \A t \in Threads : task'[t] = Idle
      BY <1>4, CodeNumbers DEF Restart, Inv, VarTypes
    <2>2. \A t \in Threads : task'[t].pc = "idle"
      BY <2>1 DEF Idle
    <2>3. QED
      BY <2>1, <2>2 DEF Inv, CodeInv, Mailed, OneSent, Unused, Sending, At, Holding
  <1>5. CASE UNCHANGED vars
    BY <1>5 DEF vars, Inv, CodeInv, Mailed, OneSent, Unused, Sending, At
  <1>6. QED
    BY <1>1, <1>2, <1>3, <1>4, <1>5 DEF Next

-----------------------------------------------------------------------------
(* The accounts.                                                           *)

\* A step of t that leaves the accounts as they are: t does not come to them, or
\* comes while nobody is there, or somebody is and calm is gone.
LEMMA UsersKept ==
    ASSUME Inv, NEW t \in Threads, Moves(t), UNCHANGED userVars, calm' => calm,
           calm' \in BOOLEAN, task[t].pc \notin Account,
           \/ task'[t].pc \notin Account
           \/ /\ \/ task'[t].pc = "identity"
                 \/ task'[t].pc = "select" /\ task'[t].person = Nobody
              /\ calm' => ~Overlaps(t)
    PROVE  UserInv'
  <1>1. /\ \A u \in Threads : u # t => task'[u] = task[u]
        /\ UNCHANGED <<rows, blank, link, who>>
        /\ task'[t].pc \notin {"link", "session", "insert"}
    BY DEF Moves, userVars, Account
  <1>2. Real'
    BY <1>1 DEF Inv, UserInv, Real, Users
  <1>3. OneLogin'
    <2> SUFFICES ASSUME calm', calm
                 PROVE  /\ \A u, w \in Threads : task'[u].pc \in Account /\ task'[w].pc \in Account => u = w
                        /\ \A u \in Threads :
                              /\ task'[u].pc = "insert" => task'[u].mail \notin rows
                              /\ task'[u].person # Nobody /\ task'[u].pc \in {"select", "insert", "link"}
                                    => link[task'[u].person] \notin rows
                              /\ /\ task'[u].person # Nobody /\ task'[u].pc = "session"
                                 /\ link[task'[u].person] # Ghost
                                 => task'[u].user = link[task'[u].person]
                        /\ \A p \in People : who[p] \in rows /\ link[p] # Ghost => link[p] = who[p]
      BY <1>1 DEF OneLogin, At
    <2>1. ASSUME NEW u \in Threads \ {t}, task'[u].pc \in Account PROVE task'[t].pc \notin Account
      BY <1>1, <2>1 DEF Overlaps
    <2>2. \A u, w \in Threads : task'[u].pc \in Account /\ task'[w].pc \in Account => u = w
      BY <1>1, <2>1 DEF Inv, UserInv, OneLogin
    <2>3. ASSUME NEW u \in Threads
          PROVE  /\ task'[u].pc = "insert" => task'[u].mail \notin rows
                 /\ task'[u].person # Nobody /\ task'[u].pc \in {"select", "insert", "link"}
                       => link[task'[u].person] \notin rows
                 /\ /\ task'[u].person # Nobody /\ task'[u].pc = "session"
                    /\ link[task'[u].person] # Ghost
                    => task'[u].user = link[task'[u].person]
      BY <1>1 DEF Inv, UserInv, OneLogin, At, Account
    <2>4. QED
      BY <2>2, <2>3 DEF Inv, UserInv, OneLogin
  <1>4. GhostExcused'
    BY <1>1 DEF Inv, UserInv, GhostExcused, Excused, VarTypes
  <1>5. QED
    BY <1>2, <1>3, <1>4 DEF UserInv

\* What a request at the accounts may become, while the accounts grow.
LEMMA UsersGrow ==
    ASSUME Inv, NEW t \in Threads, Moves(t), task[t].pc \in Account,
           task'[t].pc \in Account \cup {"idle"}, task'[t].person \in {task[t].person, Nobody},
           rows \subseteq rows', rows' \in SUBSET Mails, blank => blank', calm' => calm,
           calm' \in BOOLEAN, blank' \in BOOLEAN,
           UNCHANGED who,
           link' = link \/ \E p \in People : link[p] = Nobody /\ link' = [link EXCEPT ![p] = task[t].user]
                                             /\ task[t].pc = "link",
           task'[t].pc \in {"link", "session"} => /\ task'[t].user \in rows' \cup {Ghost}
                                                  /\ task'[t].user \notin rows' => Excused(t)',
           calm' =>
              /\ task'[t].pc = "insert" => task'[t].mail \notin rows'
              /\ task'[t].person # Nobody /\ task'[t].pc \in {"select", "insert", "link"}
                    => link'[task'[t].person] \notin rows'
              /\ task'[t].person # Nobody /\ task'[t].pc = "session" /\ link'[task'[t].person] # Ghost
                    => task'[t].user = link'[task'[t].person]
    PROVE  UserInv'
  <1>1. \A u \in Threads : u # t => task'[u] = task[u]
    BY DEF Moves
  <1>2. /\ Ghost \notin rows' /\ Nobody \notin rows' /\ Ghost # Nobody
        /\ \A u \in Threads : task[u].person \in People \cup {Nobody}
    BY LoginAssumption DEF Inv, AllGood, TaskRecord
  <1>3. \A p \in People : \/ link'[p] = link[p]
                          \/ link[p] = Nobody /\ link'[p] = task[t].user /\ task[t].pc = "link"
    BY DEF Inv, VarTypes
  <1>4. task[t].pc = "link" => task[t].user \in Users
    BY DEF Inv, UserInv, Real
  <1>5. Real'
    <2>1. \A u \in Threads : task'[u].pc \in {"link", "session"} => task'[u].user \in rows' \cup {Ghost}
      BY <1>1 DEF Inv, UserInv, Real, Users
    <2>2. \A p \in People : link'[p] \in rows' \cup {Ghost, Nobody} /\ who'[p] \in rows' \cup {Ghost, Nobody}
      BY <1>3, <1>4 DEF Inv, UserInv, Real, Users
    <2>3. QED
      BY <2>1, <2>2 DEF Real, Users
  <1>6. OneLogin'
    <2> SUFFICES ASSUME calm', calm
                 PROVE  /\ \A u, w \in Threads : task'[u].pc \in Account /\ task'[w].pc \in Account => u = w
                        /\ \A u \in Threads :
                              /\ task'[u].pc = "insert" => task'[u].mail \notin rows'
                              /\ task'[u].person # Nobody /\ task'[u].pc \in {"select", "insert", "link"}
                                    => link'[task'[u].person] \notin rows'
                              /\ /\ task'[u].person # Nobody /\ task'[u].pc = "session"
                                 /\ link'[task'[u].person] # Ghost
                                 => task'[u].user = link'[task'[u].person]
                        /\ \A p \in People : who'[p] \in rows' /\ link'[p] # Ghost => link'[p] = who'[p]
      BY DEF OneLogin, At
    <2>1. \A u \in Threads : u # t => task[u].pc \notin Account /\ task'[u].pc \notin Account
      BY <1>1 DEF Inv, UserInv, OneLogin
    <2>2. \A u \in Threads \ {t} : task'[u].pc \notin {"insert", "select", "link", "session"}
      BY <2>1 DEF Account
    <2>3. ASSUME NEW p \in People, who'[p] \in rows', link'[p] # Ghost PROVE link'[p] = who'[p]
      <3>1. who[p] \in rows
        BY <1>2, <2>3 DEF Inv, UserInv, Real, Users
      <3>2. link[p] # Nobody => link'[p] = link[p]
        BY <1>3
      <3>3. link[p] = who[p] \/ link[p] = Ghost
        BY <3>1 DEF Inv, UserInv, OneLogin
      <3>4. QED
        BY <1>2, <2>3, <3>1, <3>2, <3>3
    <2>4. QED
      BY <2>1, <2>2, <2>3
  <1>7. GhostExcused'
    <2>1. ASSUME NEW u \in Threads, u # t, task'[u].pc \in {"link", "session"}, task'[u].user \notin rows'
          PROVE  Excused(u)'
      <3>1. task'[u] = task[u] /\ task[u].user \notin rows
        BY <1>1, <2>1
      <3>2. Excused(u)
        BY <2>1, <3>1 DEF Inv, UserInv, GhostExcused
      <3>3. QED
        BY <3>1, <3>2 DEF Excused
    <2>2. QED
      BY <2>1 DEF GhostExcused
  <1>8. QED
    BY <1>5, <1>6, <1>7 DEF UserInv

LEMMA CalmOnlyEnds ==
    ASSUME Inv, calm' = calm \/ calm' = FALSE
    PROVE  /\ calm' \in BOOLEAN /\ (calm' => calm)
           /\ rows \in SUBSET Mails /\ blank \in BOOLEAN /\ link \in [People -> User]
  <1>1. VarTypes
    BY DEF Inv
  <1>2. calm \in BOOLEAN
    BY <1>1 DEF VarTypes
  <1>3. calm' \in BOOLEAN /\ (calm' => calm)
    <2>1. CASE calm' = calm
      BY <1>2, <2>1, Zenon
    <2>2. CASE calm' = FALSE
      BY <2>2
    <2>3. QED
      BY <2>1, <2>2
  <1>4. QED
    BY <1>1, <1>3 DEF VarTypes

LEMMA FindIdentityUsers == ASSUME Inv, NEW t \in Threads, FindIdentity(t), Moves(t) PROVE UserInv'
  <1> DEFINE p == task[t].person
             user == link[p]
  <1>1. /\ At(t, "identity") /\ UNCHANGED <<rows, blank, link, who>>
        /\ calm' \in BOOLEAN /\ (calm' => calm)
        /\ rows \in SUBSET Mails /\ blank \in BOOLEAN
    <2>1. calm' = calm \/ calm' = FALSE
      BY DEF FindIdentity, OrFails
    <2>2. QED
      BY <2>1, CalmOnlyEnds DEF FindIdentity, userVars
  <1>2. AllGood /\ Good(task[t]) /\ task[t] \in TaskRecord /\ p \in People
    BY <1>1 DEF Inv, AllGood, Good, At
  <1>3. CASE user \in rows /\ LetIn(t, "session", user)
    <2>1. task' = [task EXCEPT ![t] = [task[t] EXCEPT !.pc = "session", !.mail = Nobody, !.user = user]]
      BY <1>3 DEF LetIn, Become
    <2>2. task'[t].pc = "session" /\ task'[t].user = user /\ task'[t].person = p
      BY <1>2, <2>1 DEF AllGood, TaskRecord
    <2> HIDE DEF user
    <2>3. QED
      BY <1>1, <1>3, <2>2, UsersGrow DEF At, Account, user
  <1>4. CASE Goto(t, "select") /\ (calm' => user \notin rows)
    <2>1. task'[t].pc = "select" /\ task'[t].person = p
      BY <1>1, <1>2, <1>4, GotoMoves DEF At, Label, Account, Holding
    <2>2. QED
      BY <1>1, <1>4, <2>1, UsersGrow DEF At, Account
  <1>5. QED
    BY <1>3, <1>4 DEF FindIdentity, OrFails

LEMMA SelectUsers == ASSUME Inv, NEW t \in Threads, SelectUser(t), Moves(t) PROVE UserInv'
  <1> DEFINE e == task[t].mail
  <1>1. /\ task[t].pc = "select" /\ UNCHANGED <<rows, blank, link, who>>
        /\ calm' \in BOOLEAN /\ (calm' => calm)
        /\ rows \in SUBSET Mails /\ blank \in BOOLEAN
    <2>1. calm' = calm \/ calm' = FALSE
      BY DEF SelectUser
    <2>2. QED
      BY <2>1, CalmOnlyEnds DEF SelectUser, userVars, At
  <1>2. AllGood /\ Good(task[t]) /\ e \in Mails
    BY <1>1 DEF Inv, AllGood, Good
  <1>3. calm' /\ task[t].person # Nobody => link[task[t].person] \notin rows
    BY <1>1 DEF Inv, UserInv, OneLogin
  <1>4. CASE e \in rows /\ Known(t, e)
    <2>1. /\ task'[t].pc = (IF task[t].path \in OAuth THEN "link" ELSE "session")
          /\ task'[t].user = e /\ task'[t].person = task[t].person
      BY <1>1, <1>2, <1>4, LoginAssumption, KnownMoves DEF User
    <2>2. task'[t].pc = "session" => task[t].person = Nobody
      BY <1>2, <2>1 DEF Good
    <2>3. QED
      BY <1>1, <1>3, <1>4, <2>1, <2>2, UsersGrow DEF Account
  <1>5. CASE Unknown(t) /\ (calm' => e \notin rows)
    <2>1. \/ task'[t] = Idle
          \/ task'[t].pc = "insert" /\ task'[t].mail = e /\ task'[t].person = task[t].person
      BY <1>1, <1>2, <1>5, UnknownMoves
    <2>2. QED
      BY <1>1, <1>3, <1>5, <2>1, UsersGrow DEF Account, Idle
  <1>6. CASE Finish(t)
    <2>1. task'[t] = Idle
      BY <1>2, <1>6, FinishMoves
    <2>2. QED
      BY <1>1, <2>1, UsersGrow DEF Account, Idle
  <1>7. QED
    BY <1>4, <1>5, <1>6 DEF SelectUser

LEMMA InsertUsers == ASSUME Inv, NEW t \in Threads, InsertUser(t), Moves(t) PROVE UserInv'
  <1> DEFINE e == task[t].mail
  <1>1. /\ task[t].pc = "insert" /\ UNCHANGED <<link, who>>
        /\ calm' \in BOOLEAN /\ (calm' => calm)
        /\ rows \in SUBSET Mails /\ blank \in BOOLEAN
    <2>1. calm' = calm \/ calm' = FALSE
      BY DEF InsertUser, OrFails
    <2>2. QED
      BY <2>1, CalmOnlyEnds DEF InsertUser, At
  <1>2. /\ AllGood /\ Good(task[t]) /\ e \in Mails
        /\ task[t].person \in People \cup {Nobody}
    BY <1>1 DEF Inv, AllGood, Good, TaskRecord
  <1>3. calm' => /\ e \notin rows
                 /\ task[t].person # Nobody => link[task[t].person] \in {Ghost, Nobody}
    BY <1>1, <1>2 DEF Inv, UserInv, OneLogin, At, Real, Users
  <1>4. CASE /\ rows' = rows \cup {e} /\ blank' = (blank \/ task[t].path \in OAuth)
             /\ Known(t, e)
    <2>1. /\ task'[t].pc = (IF task[t].path \in OAuth THEN "link" ELSE "session")
          /\ task'[t].user = e /\ task'[t].person = task[t].person
      BY <1>1, <1>2, <1>4, LoginAssumption, KnownMoves DEF User
    <2>2. task'[t].pc = "session" => task[t].person = Nobody
      BY <1>2, <2>1 DEF Good
    <2>3. rows \subseteq rows' /\ rows' \in SUBSET Mails /\ blank' \in BOOLEAN /\ (blank => blank')
      BY <1>1, <1>2, <1>4
    <2>4. calm' /\ task[t].person # Nobody => link[task[t].person] \notin rows'
      BY <1>3, <2>3, LoginAssumption
    <2>5. QED
      BY <1>1, <1>4, <2>1, <2>2, <2>3, <2>4, UsersGrow DEF Account
  <1>5. CASE NotInserted(t) /\ task[t].path \in ErrorDropped /\ (Insertable(t) => ~calm')
    <2>1. UNCHANGED <<rows, blank>> /\ Known(t, Ghost)
      BY <1>5 DEF NotInserted
    <2>2. /\ task'[t].pc = (IF task[t].path \in OAuth THEN "link" ELSE "session")
          /\ task'[t].user = Ghost /\ task'[t].person = task[t].person /\ task'[t].path = task[t].path
      BY <1>1, <1>2, <2>1, LoginAssumption, KnownMoves DEF User
    <2>3. Excused(t)'
      <3>1. CASE ~calm'
        BY <1>5, <2>2, <3>1 DEF Excused
      <3>2. CASE calm'
        <4>1. blank /\ task[t].path = "dashOAuth"
          BY <1>3, <1>5, <3>2 DEF Insertable, OAuth, ErrorDropped
        <4>2. QED
          BY <2>1, <2>2, <4>1 DEF Excused
      <3>3. QED
        BY <3>1, <3>2
    <2>4. task'[t].pc = "session" => task[t].person = Nobody
      BY <1>2, <2>2 DEF Good
    <2>5. calm' /\ task[t].person # Nobody => link[task[t].person] \notin rows
      BY <1>1, <1>3, LoginAssumption
    <2>6. QED
      BY <1>1, <2>1, <2>2, <2>3, <2>4, <2>5, UsersGrow DEF Account
  <1>6. CASE UNCHANGED <<rows, blank>> /\ Finish(t)
    <2>1. task'[t] = Idle
      BY <1>2, <1>6, FinishMoves
    <2>2. QED
      BY <1>1, <1>6, <2>1, UsersGrow DEF Account, Idle
  <1>7. QED
    BY <1>4, <1>5, <1>6 DEF InsertUser, OrFails, NotInserted

LEMMA LinkUsers == ASSUME Inv, NEW t \in Threads, LinkIdentity(t), Moves(t) PROVE UserInv'
  <1> DEFINE p == task[t].person
             user == task[t].user
  <1>1. /\ task[t].pc = "link" /\ UNCHANGED <<rows, blank, who>>
        /\ calm' \in BOOLEAN /\ (calm' => calm)
        /\ rows \in SUBSET Mails /\ blank \in BOOLEAN /\ link \in [People -> User]
    <2>1. calm' = calm \/ calm' = FALSE
      BY DEF LinkIdentity, OrFails
    <2>2. QED
      BY <2>1, CalmOnlyEnds DEF LinkIdentity, At
  <1>2. /\ AllGood /\ Good(task[t]) /\ task[t] \in TaskRecord /\ p \in People \cup {Nobody}
    BY <1>1 DEF Inv, AllGood, Good, TaskRecord
  <1>3. /\ task'[t].pc = "session" /\ task'[t].user = user /\ task'[t].person = p
        /\ task'[t].path = task[t].path
    <2>1. task' = [task EXCEPT ![t] = [task[t] EXCEPT !.pc = "session"]]
      BY DEF LinkIdentity, Goto, Become
    <2>2. QED
      BY <1>2, <2>1 DEF AllGood, TaskRecord
  <1>4. user \in rows \cup {Ghost} /\ (user \notin rows => Excused(t)')
    BY <1>1, <1>3 DEF Inv, UserInv, Real, GhostExcused, Excused, Users
  <1>5. calm' /\ p # Nobody => link[p] \in {Ghost, Nobody}
    BY <1>1, <1>2 DEF Inv, UserInv, OneLogin, Real, Users
  <1> HIDE DEF p, user
  <1>6. \/ link' = link /\ (calm' => p = Nobody \/ link[p] # Nobody)
        \/ p \in People /\ link[p] = Nobody /\ link' = [link EXCEPT ![p] = user]
    <2>1. CASE link' = link /\ ~calm'
      BY <2>1
    <2>2. CASE link' = [link EXCEPT ![p] = IF @ = Nobody THEN user ELSE @]
      BY <1>1, <1>2, <2>2
    <2>3. QED
      BY <2>1, <2>2 DEF LinkIdentity, OrFails, p, user
  <1>7. calm' /\ p # Nobody /\ link'[p] # Ghost => user = link'[p]
    BY <1>1, <1>2, <1>5, <1>6, LoginAssumption
  <1>8. link' = link \/ \E q \in People : link[q] = Nobody /\ link' = [link EXCEPT ![q] = task[t].user]
                                            /\ task[t].pc = "link"
    BY <1>1, <1>6 DEF user
  <1>9. QED
    BY <1>1, <1>3, <1>4, <1>7, <1>8, UsersGrow DEF Account, p

LEMMA SessionUsers == ASSUME Inv, NEW t \in Threads, CreateSession(t), Moves(t) PROVE UserInv'
  <1>1. /\ task[t].pc = "session" /\ UNCHANGED <<rows, blank, link, calm>>
        /\ who' = [p \in People |-> IF p = task[t].person THEN task[t].user ELSE who[p]]
        /\ \A u \in Threads \ {t} : task'[u] = task[u]
        /\ AllGood
    BY DEF CreateSession, At, Moves, Inv
  <1>2. task'[t].pc = "idle"
    BY <1>1, FinishMoves DEF CreateSession, Idle
  <1>3. task[t].user \in Users
    BY <1>1 DEF Inv, UserInv, Real
  <1>4. Real'
    BY <1>1, <1>2, <1>3 DEF Inv, UserInv, Real, Users
  <1>5. OneLogin'
    <2>1. ASSUME calm, NEW p \in People, who'[p] \in rows, link[p] # Ghost PROVE link[p] = who'[p]
      BY <1>1, <2>1, LoginAssumption DEF Inv, UserInv, OneLogin, At
    <2>2. QED
      BY <1>1, <1>2, <2>1 DEF Inv, UserInv, OneLogin, At, Account
  <1>6. GhostExcused'
    BY <1>1, <1>2 DEF Inv, UserInv, GhostExcused, Excused
  <1>7. QED
    BY <1>4, <1>5, <1>6 DEF UserInv

LEMMA UserStep == Inv /\ [Next]_vars => UserInv'
  <1> SUFFICES ASSUME Inv, [Next]_vars PROVE UserInv'
    OBVIOUS
  <1>0. VarTypes /\ AllGood /\ Real
    BY DEF Inv, UserInv
  <1>1. ASSUME NEW t \in Threads, Arrive(t) PROVE UserInv'
    <2>1. (UNCHANGED task \/ Moves(t)) /\ At(t, "idle")
      BY <1>0, <1>1, ArriveMoves
    <2>2. task[t].pc \notin Account /\ calm \in BOOLEAN
      BY <2>1, <1>0 DEF At, Account, VarTypes
    <2>3. ASSUME NEW code \in Codes, Send(t, code) PROVE UserInv'
      <3>1. CASE UNCHANGED task
        BY <2>3, <3>1 DEF Send, userVars, Inv, UserInv, Real, OneLogin, GhostExcused, Excused, Users, At
      <3>2. CASE task'[t].pc = "set" /\ Moves(t)
        BY <2>2, <2>3, <3>2, UsersKept DEF Send, Account
      <3>3. QED
        <4>1. UNCHANGED task \/ Become(t, [Idle EXCEPT !.pc = "set", !.path = "send", !.code = code])
          BY <2>3 DEF Send
        <4>2. UNCHANGED task \/ task'[t].pc = "set"
          BY <1>0, <4>1 DEF Become, Idle, AllGood
        <4>3. QED
          BY <2>1, <3>1, <3>2, <4>2
    <2>4. ASSUME NEW code \in Codes, NEW path \in Coded, Present(t, code, path) PROVE UserInv'
      <3> DEFINE pc == IF HasRedis THEN "redis" ELSE "memory"
      <3>1. task' = [task EXCEPT ![t] = [Idle EXCEPT !.pc = pc, !.path = path, !.code = code, !.mail = Owner]]
        BY <2>4 DEF Present, Become
      <3>2. task'[t].pc \in {"redis", "memory"}
        BY <1>0, <3>1 DEF Idle, AllGood
      <3>3. Moves(t)
        BY <2>1, <3>2 DEF At
      <3>4. QED
        BY <2>2, <2>4, <3>2, <3>3, UsersKept DEF Present, Account
    <2>5. ASSUME calm' = (calm /\ ~Overlaps(t))
          PROVE  (calm' => calm) /\ calm' \in BOOLEAN /\ (calm' => ~Overlaps(t))
      BY <2>2, <2>5
    <2>6. ASSUME NEW path \in {"password", "social"}, NEW e \in Mails, ComeWith(t, path, e) PROVE UserInv'
      <3>1. task' = [task EXCEPT ![t] = [Idle EXCEPT !.pc = "select", !.path = path, !.mail = e]]
        BY <2>6 DEF ComeWith, EnterAccounts, Become
      <3>2. task'[t].pc = "select" /\ task'[t].person = Nobody
        BY <1>0, <3>1 DEF Idle, AllGood
      <3>3. Moves(t)
        BY <2>1, <3>2 DEF At
      <3>4. QED
        BY <2>2, <2>5, <2>6, <3>2, <3>3, UsersKept DEF ComeWith, EnterAccounts
    <2>7. ASSUME NEW path \in OAuth, NEW p \in People, NEW e \in Mails, Callback(t, path, p, e) PROVE UserInv'
      <3>1. task' = [task EXCEPT ![t] = [Idle EXCEPT !.pc = "identity", !.path = path, !.mail = e, !.person = p]]
        BY <2>7 DEF Callback, EnterAccounts, Become
      <3>2. task'[t].pc = "identity"
        BY <1>0, <3>1 DEF Idle, AllGood
      <3>3. Moves(t)
        BY <2>1, <3>2 DEF At
      <3>4. QED
        BY <2>2, <2>5, <2>7, <3>2, <3>3, UsersKept DEF Callback, EnterAccounts
    <2>8. QED
      BY <1>1, <2>3, <2>4, <2>6, <2>7 DEF Arrive
  <1>2. ASSUME NEW t \in Threads, Step(t) PROVE UserInv'
    <2>1. Moves(t) /\ calm \in BOOLEAN
      BY <1>0, <1>2, StepMoves DEF VarTypes
    <2>2. CASE SetInRedis(t)
      <3>1. task'[t].pc = "idle" /\ task[t].pc = "set" /\ UNCHANGED <<userVars, calm>>
        BY <1>0, <2>2, FinishMoves DEF SetInRedis, At, Idle
      <3>2. QED
        BY <2>1, <3>1, UsersKept DEF Account
    <2>3. CASE FindInRedis(t) \/ FindInMemory(t)
      <3>1. task[t].pc \in {"redis", "memory"} /\ UNCHANGED <<userVars, calm>>
        BY <2>3 DEF FindInRedis, FindInMemory, At
      <3>2. task'[t].pc \in {"idle", "memory", "drop"}
        <4>1. CASE Finish(t)
          BY <1>0, <4>1, FinishMoves DEF Idle
        <4>2. ASSUME NEW l \in {"memory", "drop"}, Goto(t, l) PROVE task'[t].pc = l
          BY <1>0, <3>1, <4>2, GotoMoves DEF Label, Account, Holding
        <4>3. QED
          BY <2>3, <4>1, <4>2 DEF FindInRedis, FindInMemory, Compare
      <3>3. QED
        BY <2>1, <3>1, <3>2, UsersKept DEF Account
    <2>4. CASE DropFromMemory(t) \/ DelInRedis(t)
      <3>1. task[t].pc \in {"drop", "del"} /\ task[t].person = Nobody /\ UNCHANGED userVars
        <4>1. task[t].pc \in {"drop", "del"} /\ UNCHANGED userVars
          BY <2>4 DEF DropFromMemory, DelInRedis, At
        <4>2. QED
          BY <1>0, <4>1 DEF AllGood, Good, Holding
      <3>2. CASE UsedUp(t)
        <4>1. task'[t].pc = "select" /\ task'[t].person = Nobody
          BY <1>0, <3>1, <3>2, UsedUpMoves
        <4>2. calm' = (calm /\ ~Overlaps(t))
          BY <3>2 DEF UsedUp, EnterAccounts
        <4>3. (calm' => calm) /\ calm' \in BOOLEAN /\ (calm' => ~Overlaps(t))
          BY <2>1, <4>2
        <4>4. QED
          BY <2>1, <3>1, <4>1, <4>3, UsersKept DEF Account
      <3>3. CASE Goto(t, "del") /\ HasRedis /\ UNCHANGED calm
        <4>1. task'[t].pc = "del"
          BY <1>0, <3>1, <3>3, GotoMoves DEF Label, Account, Holding
        <4>2. QED
          BY <2>1, <3>1, <3>3, <4>1, UsersKept DEF Account
      <3>4. QED
        BY <2>4, <3>2, <3>3 DEF DropFromMemory, DelInRedis
    <2>5. QED
      BY <1>2, <2>1, <2>2, <2>3, <2>4, FindIdentityUsers, SelectUsers, InsertUsers, LinkUsers, SessionUsers
         DEF Step
  <1>3. CASE Expire \/ UNCHANGED vars
    <2>1. UNCHANGED <<rows, blank, link, who, task, calm>>
      BY <1>3 DEF Expire, userVars, vars
    <2>2. QED
      BY <2>1 DEF Inv, UserInv, Real, OneLogin, GhostExcused, Excused, Users, At
  <1>4. CASE Restart
    <2>1. UNCHANGED <<rows, blank, link, who, calm>> /\ \A t \in Threads : task'[t].pc = "idle"
      BY <1>4 DEF Restart, userVars, Idle
    <2>2. QED
      BY <2>1 DEF Inv, UserInv, Real, OneLogin, GhostExcused, Excused, Users, At, Account
  <1>5. QED
    BY <1>1, <1>2, <1>3, <1>4 DEF Next

-----------------------------------------------------------------------------
LEMMA InvInit == Init => Inv
  <1> SUFFICES ASSUME Init PROVE Inv
    OBVIOUS
  <1>1. VarTypes
    BY DEF Init, VarTypes, NoCode, User
  <1>2. AllGood
    <2>1. \A t \in Threads : task[t] = Idle
      BY DEF Init
    <2>2. task = [t \in Threads |-> Idle]
      BY DEF Init
    <2>3. QED
      BY <2>1, <2>2, IdleGood DEF AllGood, Good
  <1>3. \A t \in Threads : task[t].pc = "idle"
    BY DEF Init, Idle
  <1>4. CodeInv
    BY <1>3 DEF Init, CodeInv, Mailed, OneSent, Unused, Sending, At, Holding
  <1>5. UserInv
    BY <1>3, LoginAssumption DEF Init, UserInv, Real, OneLogin, GhostExcused, Users, At, Account
  <1>6. QED
    BY <1>1, <1>2, <1>4, <1>5 DEF Inv

LEMMA TypeStep == Inv /\ [Next]_vars => VarTypes' /\ AllGood'
  <1> SUFFICES ASSUME Inv, [Next]_vars PROVE VarTypes' /\ AllGood'
    OBVIOUS
  <1>0. VarTypes /\ AllGood /\ Real
    BY DEF Inv, UserInv
  <1> USE DEF VarTypes
  <1>1. ASSUME NEW t \in Threads, Arrive(t) PROVE VarTypes' /\ AllGood'
    <2>1. AllGood'
      BY <1>0, <1>1, ArriveMoves
    <2>2. ASSUME NEW code \in Codes, Send(t, code) PROVE VarTypes'
      BY <1>0, <2>2 DEF Send, Mail, userVars
    <2>3. CASE \E code \in Codes, path \in Coded : Present(t, code, path)
      <3>1. UNCHANGED <<codeVars, userVars, calm>>
        BY <2>3 DEF Present
      <3>2. QED
        BY <1>0, <2>1, <3>1 DEF codeVars, userVars
    <2>4. CASE \/ \E path \in {"password", "social"}, e \in Mails : ComeWith(t, path, e)
               \/ \E path \in OAuth, p \in People, e \in Mails : Callback(t, path, p, e)
      <3>1. UNCHANGED <<codeVars, userVars>> /\ calm' \in BOOLEAN
        <4>1. UNCHANGED <<codeVars, userVars>> /\ calm' = (calm /\ ~Overlaps(t))
          BY <2>4 DEF ComeWith, Callback, EnterAccounts
        <4>2. QED
          BY <1>0, <4>1
      <3>2. QED
        BY <1>0, <2>1, <3>1 DEF codeVars, userVars
    <2>5. QED
      BY <1>1, <2>1, <2>2, <2>3, <2>4 DEF Arrive
  <1>2. ASSUME NEW t \in Threads, Step(t) PROVE VarTypes' /\ AllGood'
    <2>1. AllGood'
      BY <1>0, <1>2, StepMoves
    <2>2. Good(task[t]) /\ task[t] \in TaskRecord
      BY <1>0 DEF AllGood
    <2>3. CASE SetInRedis(t)
      <3>1. task[t].code \in Codes
        BY <2>2, <2>3 DEF SetInRedis, At, Good
      <3>2. QED
        BY <1>0, <2>1, <2>3, <3>1 DEF SetInRedis, OrRedisFails, Mail, userVars
    <2>4. CASE FindInRedis(t) \/ FindInMemory(t)
      BY <1>0, <2>1, <2>4 DEF FindInRedis, FindInMemory, codeVars, userVars
    <2>5. CASE DropFromMemory(t) \/ DelInRedis(t)
      <3>1. task[t].code \in Codes
        BY <2>2, <2>5 DEF DropFromMemory, DelInRedis, At, Good, Holding
      <3>2. QED
        BY <1>0, <2>1, <2>5, <3>1 DEF DropFromMemory, DelInRedis, OrRedisFails, UsedUp, EnterAccounts, userVars
    <2>6. CASE FindIdentity(t) \/ SelectUser(t)
      BY <1>0, <2>1, <2>6 DEF FindIdentity, SelectUser, OrFails, codeVars, userVars
    <2>7. CASE InsertUser(t)
      <3>1. task[t].mail \in Mails
        BY <2>2, <2>7 DEF InsertUser, At, Good
      <3>2. QED
        BY <1>0, <2>1, <2>7, <3>1 DEF InsertUser, NotInserted, OrFails, codeVars, userVars
    <2>8. CASE LinkIdentity(t)
      <3>1. task[t].user \in User
        BY <2>2 DEF TaskRecord
      <3>2. QED
        BY <1>0, <2>1, <2>8, <3>1 DEF LinkIdentity, OrFails, codeVars
    <2>9. CASE CreateSession(t)
      <3>1. task[t].user \in User
        BY <2>2 DEF TaskRecord
      <3>2. QED
        BY <1>0, <2>1, <2>9, <3>1 DEF CreateSession, codeVars
    <2>10. QED
      BY <1>2, <2>3, <2>4, <2>5, <2>6, <2>7, <2>8, <2>9 DEF Step
  <1>3. CASE Expire \/ UNCHANGED vars
    BY <1>0, <1>3 DEF Expire, vars, userVars, NoCode, AllGood, Good
  <1>4. CASE Restart
    <2>1. task' = [t \in Threads |-> Idle]
      BY <1>4 DEF Restart
    <2>2. AllGood'
      BY <2>1, IdleGood DEF AllGood, Good
    <2>3. QED
      BY <1>0, <1>4, <2>2 DEF Restart, userVars
  <1>5. QED
    BY <1>1, <1>2, <1>3, <1>4 DEF Next

\* The codes and the accounts, together, for any requests and identities.
THEOREM LoginInvariant == Spec => []Inv
  <1>1. Inv /\ [Next]_vars => Inv'
    BY TypeStep, CodeStep, UserStep DEF Inv
  <1>2. QED
    BY <1>1, InvInit, PTL DEF Spec

\* What compares equal is what memory or Redis has.
LEMMA Accepted ==
    ASSUME Inv, Next, NEW t \in Threads, task[t].pc \in {"redis", "memory"}, task'[t].pc = "drop"
    PROVE  task[t].code \in {memory, redis} /\ task[t].code # NoCode /\ task[t].code <= latest
  <1>0. VarTypes /\ AllGood /\ Real
    BY DEF Inv, UserInv
  <1>1. task[t].code \in Codes /\ task[t].code <= latest
    BY DEF Inv, AllGood, Good, Holding, CodeInv, Mailed
  <1>2. ASSUME NEW u \in Threads, Arrive(u) \/ Step(u) PROVE u = t
    BY <1>0, <1>2, ArriveMoves, StepMoves DEF Moves
  <1>3. ~Expire /\ ~Restart
    BY DEF Expire, Restart, Idle
  <1>4. Step(t)
    BY <1>0, <1>2, <1>3, ArriveMoves DEF Next, At
  <1>5. CASE FindInRedis(t)
    <2>1. ~Goto(t, "memory") /\ ~Finish(t)
      BY <1>0, GotoMoves, FinishMoves DEF Idle, Label, Account, Holding
    <2>2. QED
      BY <1>1, <1>5, <2>1, CodeNumbers DEF FindInRedis, Compare
  <1>6. CASE FindInMemory(t)
    <2>1. ~Finish(t)
      BY <1>0, FinishMoves DEF Idle
    <2>2. QED
      BY <1>1, <1>6, <2>1, CodeNumbers DEF FindInMemory, Compare
  <1>7. FindInRedis(t) \/ FindInMemory(t)
    BY <1>4 DEF Step, SetInRedis, DropFromMemory, DelInRedis, FindIdentity, SelectUser, InsertUser,
                LinkIdentity, CreateSession, At
  <1>8. QED
    BY <1>1, <1>5, <1>6, <1>7, CodeNumbers

\* A code that was used up is in neither store, so that no later look-up compares
\* equal to it, unless a call of Redis failed or two sends overlapped.
THEOREM UsedUpIsRefused == Spec => UsedIsRefused
  <1>1. Inv /\ [Next]_vars =>
           [\A t \in Threads :
              task[t].pc \in {"redis", "memory"} /\ task'[t].pc = "drop" /\ ~upset
              => task[t].code \notin used]_vars
    <2> SUFFICES ASSUME Inv, Next, NEW t \in Threads, task[t].pc \in {"redis", "memory"},
                        task'[t].pc = "drop", ~upset
                 PROVE  task[t].code \notin used
      OBVIOUS
    <2>1. task[t].code \in {memory, redis}
      BY Accepted
    <2>2. QED
      BY <2>1 DEF Inv, CodeInv, Unused
  <1>2. QED
    BY <1>1, LoginInvariant, PTL DEF Spec, UsedIsRefused

\* Types, and: a session for a user without a row comes from the dashboard's paths
\* alone, and only after a failure, two logins at once, or a second OAuth user.
THEOREM NoOtherGhost == Spec => []GhostOnlyOnDashboard
  <1>1. Inv => GhostOnlyOnDashboard
    BY Typed DEF Inv, UserInv, GhostExcused, Excused, GhostOnlyOnDashboard, At
  <1>2. QED
    BY <1>1, LoginInvariant, PTL

\* A code is accepted only while it is the one that was mailed last.
THEOREM LatestAccepted == Spec => OnlyTheLatest
  <1>1. Inv /\ [Next]_vars =>
           [\A t \in Threads :
              task[t].pc \in {"redis", "memory"} /\ task'[t].pc = "drop" /\ ~upset
              => task[t].code = latest]_vars
    <2> SUFFICES ASSUME Inv, Next, NEW t \in Threads, task[t].pc \in {"redis", "memory"},
                        task'[t].pc = "drop", ~upset
                 PROVE  task[t].code = latest
      OBVIOUS
    <2>1. task[t].code \in {memory, redis} /\ task[t].code # NoCode /\ task[t].code <= latest
      BY Accepted
    <2>2. CASE task[t].code = redis
      BY <2>1, <2>2 DEF Inv, CodeInv, OneSent
    <2>3. CASE task[t].code = memory /\ \E u \in Threads : Sending(u)
      <3>1. PICK u \in Threads : Sending(u)
        BY <2>3
      <3>2. memory = task[u].code /\ task[u].code > latest /\ latest \in Nat /\ task[u].code \in Nat
        BY <2>1, <2>3, <3>1, CodeNumbers DEF Inv, CodeInv, OneSent, VarTypes, AllGood, TaskRecord
      <3>3. QED
        BY <2>1, <2>3, <3>2
    <2>4. CASE task[t].code = memory /\ \A u \in Threads : ~Sending(u)
      BY <2>1, <2>4 DEF Inv, CodeInv, OneSent
    <2>5. QED
      BY <2>1, <2>2, <2>3, <2>4
  <1>2. QED
    BY <1>1, LoginInvariant, PTL DEF Spec, OnlyTheLatest

\* By logins one at a time, whoever comes from a provider is the same user every
\* time, whatever address the provider gives.
THEOREM SameUserEveryTime == Spec => SameUser
  <1>1. Inv /\ [Next]_vars =>
           [\A p \in People : calm' /\ who[p] \in rows /\ link[p] # Ghost => who'[p] = who[p]]_vars
    <2> SUFFICES ASSUME Inv, Next, NEW p \in People, calm', who[p] \in rows, link[p] # Ghost
                 PROVE  who'[p] = who[p]
      OBVIOUS
    <2>1. ASSUME NEW t \in Threads, CreateSession(t) PROVE who'[p] = who[p]
      <3>1. /\ At(t, "session") /\ calm
            /\ who' = [q \in People |-> IF q = task[t].person THEN task[t].user ELSE who[q]]
        BY <2>1 DEF CreateSession
      <3>2. link[p] = who[p]
        BY <3>1 DEF Inv, UserInv, OneLogin
      <3>3. CASE p = task[t].person
        BY <3>1, <3>2, <3>3, LoginAssumption DEF Inv, UserInv, OneLogin
      <3>4. CASE p # task[t].person
        BY <3>1, <3>4
      <3>5. QED
        BY <3>3, <3>4
    <2>2. ASSUME NEW t \in Threads, Arrive(t) PROVE who' = who
      BY <2>2 DEF Arrive, Send, Present, ComeWith, Callback, userVars
    <2>3. ASSUME NEW t \in Threads, Step(t), ~CreateSession(t) PROVE who' = who
      BY <2>3 DEF Step, SetInRedis, FindInRedis, FindInMemory, DropFromMemory, DelInRedis, FindIdentity,
                  SelectUser, InsertUser, LinkIdentity, userVars
    <2>4. CASE Expire \/ Restart
      BY <2>4 DEF Expire, Restart, userVars
    <2>5. QED
      BY <2>1, <2>2, <2>3, <2>4 DEF Next
  <1>2. QED
    BY <1>1, LoginInvariant, PTL DEF Spec, SameUser
=============================================================================
