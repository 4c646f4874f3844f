----------------------------- MODULE StateEngine -----------------------------
(***************************************************************************)
(* DBMux's state engine (dbmux/pkg/state/state.go): one key in the cache   *)
(* (L1, Redis) and in a database of the highest priority that is           *)
(* registered (L2).  Nothing ties the two writes of an operation together, *)
(* so a step is one call of a provider.                                    *)
(*                                                                         *)
(* Several providers of a category can be registered (dbmux.ts registers   *)
(* one for each tenant), and every call takes the one that Go's iteration  *)
(* over the registry meets first: any of them.                             *)
(*                                                                         *)
(* The keys do not interact.  A value is its JSON text or the document     *)
(* Mongo wraps it in.  expire_at is compared in UTC.                       *)
(***************************************************************************)
EXTENDS Naturals

CONSTANTS Threads,  \* calls of the engine
          Json,     \* the values saved
          TTLs,     \* the ttlSeconds they are saved with, 0 for no expiry
          CopyTTL,  \* the 3600 seconds GetState caches a row for
          Redis, Postgres, MySQL, Mongo, SQLite, \* the providers that can be registered
          Flaky,    \* whether calls of providers can fail
          NoValue

ASSUME StateAssumption ==
    /\ NoValue \notin [json : Json, doc : BOOLEAN, endless : BOOLEAN]
    /\ CopyTTL \in Nat \ {0}
    /\ TTLs \subseteq 0 .. CopyTTL
    /\ Redis \cap (Postgres \cup MySQL \cup Mongo \cup SQLite) = {}
    /\ Postgres \cap MySQL = {} /\ Mongo \cap (Postgres \cup MySQL) = {}
    /\ SQLite \cap (Postgres \cup MySQL \cup Mongo) = {}
    /\ Flaky \in BOOLEAN

VARIABLES dbs,  \* the registered providers
          l1,   \* l1[r]: what Redis r has: a value and the time left to it
          l2,   \* l2[k]: the row or document of database k, in the same form
          task, \* task[t]: the next call of t and what t holds
          last, \* history: the value of the last Save that ended, NoValue after a Delete
          calm  \* history: a provider is there, and nothing failed, overlapped, expired or came late

vars == <<dbs, l1, l2, task, last, calm>>

Databases == Postgres \cup MySQL \cup Mongo \cup SQLite
Providers == Redis \cup Databases

\* endless is history: the Save of the value gave it no expiry.
Value == [json : Json, doc : BOOLEAN, endless : BOOLEAN]
Plain(j, ttl) == [json |-> j, doc |-> FALSE, endless |-> ttl = 0]

\* Time left to an entry that does not expire.
Forever == CopyTTL + 1
Nothing == [val |-> NoValue, left |-> 0]
Lasting(ttl) == IF ttl = 0 THEN Forever ELSE ttl

Idle == [pc |-> "idle", val |-> NoValue, ttl |-> 0]
Ended == {"idle", "failed"}
Label == Ended \cup {"setL1", "writeL2", "readL1", "readL2", "copy", "delL1", "delL2"}

At(t, label) == task[t].pc = label
Goto(t, label) == task' = [task EXCEPT ![t].pc = label]
Busy == \E t \in Threads : task[t].pc \notin Ended

Init == /\ dbs \in SUBSET Providers
        /\ l1 = [r \in Redis |-> Nothing]
        /\ l2 = [k \in Databases |-> Nothing]
        /\ task = [t \in Threads |-> Idle]
        /\ last = NoValue
        /\ calm = (dbs # {})

\* FindL1KVProvider: a Redis that is registered.
IsL1(r) == r \in dbs \cap Redis
NoL1 == dbs \cap Redis = {}

\* FindL2PersistentProvider: a database of the first category of the priority
\* list that has one registered.
Priority == <<Postgres, MySQL, Mongo, SQLite>>
IsL2(k) == \E i \in DOMAIN Priority :
              /\ k \in Priority[i] \cap dbs
              /\ \A j \in 1 .. i - 1 : Priority[j] \cap dbs = {}
NoL2 == dbs \cap Databases = {}

\* Every call of a category goes to the same provider.
OneOfEach == \A p, q \in dbs : (IsL1(p) /\ IsL1(q)) \/ (IsL2(p) /\ IsL2(q)) => p = q

\* The call of t ends and the caller has val, or an error.
Return(t, val) == task' = [task EXCEPT ![t] = [Idle EXCEPT !.val = val]]
Error(t) == task' = [task EXCEPT ![t] = [Idle EXCEPT !.pc = "failed"]]

\* What a Redis has for the key is replaced, if there is one.  Whether it failed
\* the caller does not notice; calm remembers it.
InRedis(entry) ==
    \/ NoL1 /\ UNCHANGED <<l1, calm>>
    \/ \E r \in Redis : IsL1(r) /\ l1' = [l1 EXCEPT ![r] = entry] /\ UNCHANGED calm
    \/ Flaky /\ ~NoL1 /\ UNCHANGED l1 /\ calm' = FALSE

-----------------------------------------------------------------------------
\* RegisterProvider, when operations have run already or not.  Under the id of
\* another provider q it takes q's place.
Register(p, q) == /\ p \in Providers \ dbs /\ q \in dbs \cup {p}
                  /\ dbs' = (dbs \ {q}) \cup {p}
                  /\ calm' = FALSE
                  /\ UNCHANGED <<l1, l2, task, last>>

Begin(t, label, val, ttl) ==
    /\ task[t].pc \in Ended
    /\ task' = [task EXCEPT ![t] = [pc |-> label, val |-> val, ttl |-> ttl]]
    /\ calm' = (calm /\ ~Busy)
    /\ UNCHANGED <<dbs, l1, l2, last>>

-----------------------------------------------------------------------------
(* SaveState.                                                              *)

SaveState(t, j, ttl) == Begin(t, "setL1", Plain(j, ttl), ttl)

\* Redis is written first and its error dropped.
SetL1(t) ==
    /\ At(t, "setL1")
    /\ InRedis([val |-> task[t].val, left |-> Lasting(task[t].ttl)])
    /\ Goto(t, "writeL2")
    /\ UNCHANGED <<dbs, l2, last>>

\* What each database does with the statement it gets.  Postgres and MySQL take
\* no empty expire_at; SQLite takes it and the row is never found; Mongo inserts
\* and has no expiry.
Accepts(k, t) == /\ k \in Postgres \cup MySQL => task[t].ttl > 0
                 /\ k \in Mongo => l2[k] = Nothing

Written(k, t) == [val  |-> task[t].val,
                  left |-> IF k \in Mongo THEN Forever ELSE task[t].ttl]

\* The row is written, or the caller gets an error and Redis keeps the value.
WriteL2(t) ==
    /\ At(t, "writeL2")
    /\ \/ /\ NoL2
          /\ last' = task[t].val
          /\ Return(t, NoValue)
          /\ UNCHANGED <<l2, calm>>
       \/ \E k \in Databases :
             /\ IsL2(k) /\ Accepts(k, t)
             /\ l2' = [l2 EXCEPT ![k] = Written(k, t)]
             /\ last' = task[t].val
             /\ Return(t, NoValue)
             /\ UNCHANGED calm
       \/ \E k \in Databases :
             /\ IsL2(k) /\ (Flaky \/ ~Accepts(k, t))
             /\ Error(t)
             /\ calm' = FALSE
             /\ UNCHANGED <<l2, last>>
    /\ UNCHANGED <<dbs, l1>>

-----------------------------------------------------------------------------
(* GetState.                                                               *)

GetState(t) == Begin(t, "readL1", NoValue, 0)

\* A hit is the answer; a miss and an error lead to the database.
ReadL1(t) ==
    /\ At(t, "readL1")
    /\ \/ \E r \in Redis : /\ IsL1(r) /\ l1[r].left > 0
                          /\ Return(t, l1[r].val)
                          /\ UNCHANGED calm
       \/ /\ NoL1 \/ \E r \in Redis : IsL1(r) /\ l1[r].left = 0
          /\ Goto(t, "readL2")
          /\ UNCHANGED calm
       \/ /\ Flaky
          /\ Goto(t, "readL2")
          /\ calm' = FALSE
    /\ UNCHANGED <<dbs, l1, l2, last>>

\* What a database returns for a row: Mongo the document, not its value.
Fetched(k) == IF k \in Mongo THEN [l2[k].val EXCEPT !.doc = TRUE] ELSE l2[k].val

\* No row, an expired one and an error are all "not found".
ReadL2(t) ==
    /\ At(t, "readL2")
    /\ \/ \E k \in Databases :
             /\ IsL2(k) /\ l2[k].left > 0
             /\ task' = [task EXCEPT ![t] = [pc |-> "copy", val |-> Fetched(k), ttl |-> 0]]
             /\ UNCHANGED calm
       \/ /\ NoL2 \/ \E k \in Databases : IsL2(k) /\ l2[k].left = 0
          /\ Return(t, NoValue)
          /\ UNCHANGED calm
       \/ Flaky /\ Return(t, NoValue) /\ calm' = FALSE
    /\ UNCHANGED <<dbs, l1, l2, last>>

\* Mutated: the copy is kept without an expiry.
MutCopyForever(t) ==
    /\ At(t, "copy")
    /\ InRedis([val |-> task[t].val, left |-> Forever])
    /\ Return(t, task[t].val)
    /\ UNCHANGED <<dbs, l2, last>>

\* The row is copied to Redis, for an hour whatever is left to it.
Copy(t) ==
    /\ At(t, "copy")
    /\ InRedis([val |-> task[t].val, left |-> CopyTTL])
    /\ Return(t, task[t].val)
    /\ UNCHANGED <<dbs, l2, last>>

-----------------------------------------------------------------------------
(* DeleteState.                                                            *)

DeleteState(t) == Begin(t, "delL1", NoValue, 0)

\* Mutated: only the database is asked to delete.
MutDelL1Skipped(t) == /\ At(t, "delL1")
                      /\ Goto(t, "delL2")
                      /\ UNCHANGED <<dbs, l1, l2, last, calm>>

DelL1(t) == /\ At(t, "delL1")
            /\ InRedis(Nothing)
            /\ Goto(t, "delL2")
            /\ UNCHANGED <<dbs, l2, last>>

\* There is no case for Mongo: its document stays and the call succeeds.
DelL2(t) ==
    /\ At(t, "delL2")
    /\ \/ /\ NoL2 \/ \E k \in Mongo : IsL2(k)
          /\ last' = NoValue
          /\ Return(t, NoValue)
          /\ UNCHANGED <<l2, calm>>
       \/ \E k \in Databases \ Mongo :
             /\ IsL2(k)
             /\ l2' = [l2 EXCEPT ![k] = Nothing]
             /\ last' = NoValue
             /\ Return(t, NoValue)
             /\ UNCHANGED calm
       \/ /\ Flaky /\ \E k \in Databases \ Mongo : IsL2(k)
          /\ Error(t)
          /\ calm' = FALSE
          /\ UNCHANGED <<l2, last>>
    /\ UNCHANGED <<dbs, l1>>

-----------------------------------------------------------------------------
\* A Redis gives the key up: it is short of memory, or was restarted.
Evict(r) == /\ l1[r].left > 0
            /\ l1' = [l1 EXCEPT ![r] = Nothing]
            /\ calm' = (calm /\ ~NoL2)
            /\ UNCHANGED <<dbs, l2, task, last>>

Aged(e) == IF e.left \in {0, Forever} THEN e
           ELSE IF e.left = 1 THEN Nothing ELSE [e EXCEPT !.left = @ - 1]

\* A unit of time passes.  SQLite compares expire_at as text and finds a row of
\* today until midnight, so its rows can outlive their time.
Tick == /\ l1' = [r \in Redis |-> Aged(l1[r])]
        /\ \E late \in SUBSET SQLite :
              l2' = [k \in Databases |-> IF k \in late THEN l2[k] ELSE Aged(l2[k])]
        /\ calm' = (calm /\ (NoL2 => \A r \in Redis : l1[r].left # 1)
                         /\ \A k \in Databases : l2[k].left # 1)
        /\ UNCHANGED <<dbs, task, last>>

Step(t) == \/ SetL1(t) \/ WriteL2(t) \/ ReadL1(t) \/ ReadL2(t) \/ Copy(t) \/ DelL1(t) \/ DelL2(t)

Call(t) == GetState(t) \/ DeleteState(t) \/ \E j \in Json, ttl \in TTLs : SaveState(t, j, ttl)

Next == \/ \E t \in Threads : Call(t) \/ Step(t)
        \/ \E p, q \in Providers : Register(p, q)
        \/ \E r \in Redis : Evict(r)
        \/ Tick

Spec == Init /\ [][Next]_vars

\* Time passes and every provider answers.
FairSpec == Spec /\ WF_vars(Tick) /\ \A t \in Threads : WF_vars(Step(t))

-----------------------------------------------------------------------------
Entry == [val : Value \cup {NoValue}, left : 0 .. Forever]

TypeOK == /\ dbs \in SUBSET Providers
          /\ l1 \in [Redis -> Entry]
          /\ l2 \in [Databases -> Entry]
          /\ task \in [Threads -> [pc : Label, val : Value \cup {NoValue}, ttl : TTLs \cup {0}]]
          /\ last \in Value \cup {NoValue}
          /\ calm \in BOOLEAN

\* SQLite keeps a row without expire_at and never finds it.
Lost(v) == v # NoValue /\ v.endless /\ \E k \in SQLite : IsL2(k)

\* With one Redis and one database of the highest priority, calls that neither
\* overlap nor fail get the last value saved: a Get, through Redis or through the
\* database and back into Redis, after evictions too, never finds another value
\* than that of the last Save, or any after a Delete.  SQLite's rows without an
\* expiry are the exception.
FindsTheLast ==
    [][\A t \in Threads :
          /\ task[t].pc \in {"readL1", "readL2", "copy"}
          /\ task'[t].pc = "idle"
          /\ calm' /\ OneOfEach /\ ~Lost(last)
          => task'[t].val = last]_vars

\* Redis r has a value that a database in use does not have.
Apart(r) == /\ IsL1(r) /\ l1[r].left > 0
            /\ \E k \in Databases : IsL2(k) /\ (l2[k].left = 0 \/ Fetched(k) # l1[r].val)

\* Whatever calls raced or failed, and however many providers share the calls, a
\* value that was saved with an expiry does not stay in a Redis for ever beside a
\* database that disagrees: it runs out, at the latest an hour after it was saved
\* or copied.  A value saved with a TTL of 0 can (ZeroRunsOut).
DisagreementEnds ==
    \A r \in Redis : Apart(r) /\ ~l1[r].val.endless ~> ~Apart(r) \/ Busy

\* state.go:23: the engine "coordinates" the cache and the database.  A value that
\* a Save with a TTL of 0 left in Redis goes, too, when the database refused it.
ZeroRunsOut == \A r \in Redis : Apart(r) ~> ~Apart(r) \/ Busy

\* dbmux/skills.md:307: getState is to "Retrieve saved state value by key".  It
\* does so however many providers of a category are registered.
FindsTheLastOfMany ==
    [][\A t \in Threads :
          /\ task[t].pc \in {"readL1", "readL2", "copy"}
          /\ task'[t].pc = "idle"
          /\ calm'
          => task'[t].val = last]_vars

\* state.go:268: DeleteState "deletes state from both L1 cache and L2 Persistent
\* DB".  A Delete that ends without an error leaves the key nowhere.
DeletedFromBoth ==
    [][\A t \in Threads :
          At(t, "delL2") /\ DelL2(t) /\ calm' => \A k \in Databases : IsL2(k) => l2'[k].left = 0]_vars

\* state.go:103: without a database the "state is preserved in L1 Redis".  A Save
\* that ends without an error leaves the value there.
PreservedInRedis ==
    [][\A t \in Threads :
          At(t, "writeL2") /\ NoL2 /\ task'[t].pc = "idle"
          => \E r \in Redis : IsL1(r) /\ l1[r].val = task[t].val]_vars

\* dbmux/skills.md:307: getState is to "Retrieve saved state value by key": what it
\* returns is a value as it was saved, not a document around it.
GetsWhatWasSaved ==
    [][\A t \in Threads :
          At(t, "copy") /\ task'[t].pc = "idle" => task'[t].val = NoValue \/ ~task'[t].val.doc]_vars

\* dbmux/skills.md:306: saveState is to "Save application state key with TTL
\* expiry".  When the row of a value runs out, so do Redis' entries for it.
ExpiredIsGone ==
    [][\A k \in Databases, r \in Redis :
          /\ IsL2(k) /\ l2[k].left = 1 /\ l2'[k].left = 0
          /\ IsL1(r) /\ l1[r].val = l2[k].val /\ Tick /\ ~Busy
          => l1'[r].left = 0]_vars
=============================================================================
