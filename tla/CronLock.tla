------------------------------- MODULE CronLock -------------------------------
(***************************************************************************)
(* DBMux's cron scheduler (dbmux/pkg/cron/cron.go): the jobs of every      *)
(* instance, and the lock under which a job runs, which is a key of the    *)
(* state engine.  The engine is composed from its own module, call of a    *)
(* provider by call of a provider.                                         *)
(*                                                                         *)
(* One cron job is modelled; its lock key is its own.  The instances have  *)
(* registered the same providers, several of a category or one, and every  *)
(* call of any instance goes to any of them.  The payload says when the    *)
(* lock was taken and nobody reads it.                                     *)
(***************************************************************************)
EXTENDS Naturals, FiniteSets

CONSTANTS Threads,   \* TriggerCron requests
          Instances, \* processes of DBMux
          Home,      \* Home[t]: the instance that serves t
          LockTTL,   \* the 10 seconds of the lock
          CopyTTL,   \* the 3600 seconds GetState caches a row for
          Redis, Postgres, MySQL, Mongo, SQLite, \* the providers that can be registered
          NoValue

ASSUME CronAssumption ==
    /\ Home \in [Threads -> Instances]
    /\ LockTTL \in Nat \ {0} /\ CopyTTL \in Nat /\ LockTTL <= CopyTTL
    /\ Redis \cap (Postgres \cup MySQL \cup Mongo \cup SQLite) = {}
    /\ Postgres \cap MySQL = {} /\ Mongo \cap (Postgres \cup MySQL) = {}
    /\ SQLite \cap (Postgres \cup MySQL \cup Mongo) = {}
    /\ NoValue \notin [json : {"payload"}, doc : BOOLEAN, endless : BOOLEAN]

VARIABLES dbs, l1, l2, task, last, calm, \* of the state engine
          jobs,  \* the instances whose map of jobs has the job
          run,   \* run[t]: where t is in TriggerCron
          raced  \* history: a request began to look for the lock while another had
                 \* found none and had not saved it yet

\* A provider that fails is left out: every Get that misses for it frees the lock.
State == INSTANCE StateEngine
            WITH Json <- {"payload"}, TTLs <- {LockTTL}, Flaky <- FALSE

engine == <<dbs, l1, l2, task, last, calm>>
vars == <<dbs, l1, l2, task, last, calm, jobs, run, raced>>

Stage == {"idle", "checking", "locking", "running", "releasing"}

In(t, stage) == run[t] = stage
To(t, stage) == run' = [run EXCEPT ![t] = stage]
Ended(t) == task[t].pc \in State!Ended

Init == /\ State!Init
        /\ jobs = {}
        /\ run = [t \in Threads |-> "idle"]
        /\ raced = FALSE

-----------------------------------------------------------------------------
RegisterCron(i) == /\ jobs' = jobs \cup {i}
                   /\ UNCHANGED <<engine, run, raced>>

\* A request that has looked the job up goes on with it.
DeleteCron(i) == /\ i \in jobs
                 /\ jobs' = jobs \ {i}
                 /\ UNCHANGED <<engine, run, raced>>

\* u has found no lock, so far or at all, and has not saved its own.
MayTake(u) == In(u, "locking") \/ (In(u, "checking") /\ task[u].val = NoValue)

\* TriggerCron looks the job up and asks for its lock.
TriggerCron(t) == /\ In(t, "idle")
                  /\ Home[t] \in jobs
                  /\ State!GetState(t)
                  /\ To(t, "checking")
                  /\ raced' = (raced \/ \E u \in Threads : MayTake(u))
                  /\ UNCHANGED jobs

\* The lock is there: the job is taken to be running on another instance.
Refuse(t) == /\ In(t, "checking") /\ Ended(t)
             /\ task[t].val # NoValue
             /\ To(t, "idle")
             /\ UNCHANGED <<engine, jobs, raced>>

\* Mutated: the lock is taken whether it is there or not.
MutAcquireAnyway(t) == /\ In(t, "checking") /\ Ended(t)
                       /\ State!SaveState(t, "payload", LockTTL)
                       /\ To(t, "locking")
                       /\ UNCHANGED <<jobs, raced>>

\* Mutated: the lock is saved without an expiry.
MutAcquireForever(t) == /\ In(t, "checking") /\ Ended(t)
                        /\ task[t].val = NoValue
                        /\ State!SaveState(t, "payload", 0)
                        /\ To(t, "locking")
                        /\ UNCHANGED <<jobs, raced>>

\* It is not, and is saved.
Acquire(t) == /\ In(t, "checking") /\ Ended(t)
              /\ task[t].val = NoValue
              /\ State!SaveState(t, "payload", LockTTL)
              /\ To(t, "locking")
              /\ UNCHANGED <<jobs, raced>>

\* The job runs, or the lock could not be saved.
Execute(t) == /\ In(t, "locking") /\ Ended(t)
              /\ IF State!At(t, "failed") THEN To(t, "idle") ELSE To(t, "running")
              /\ UNCHANGED <<engine, jobs, raced>>

\* Mutated: the lock is left to its expiry.
MutReleaseNothing(t) == /\ In(t, "running")
                        /\ To(t, "idle")
                        /\ UNCHANGED <<engine, jobs, raced>>

\* The job is over and the lock is given back, whoever has it now.
Release(t) == /\ In(t, "running")
              /\ State!DeleteState(t)
              /\ To(t, "releasing")
              /\ UNCHANGED <<jobs, raced>>

Answer(t) == /\ In(t, "releasing") /\ Ended(t)
             /\ To(t, "idle")
             /\ UNCHANGED <<engine, jobs, raced>>

\* A call of the state engine goes on.
EngineStep(t) == State!Step(t) /\ UNCHANGED <<jobs, run, raced>>

-----------------------------------------------------------------------------
\* An instance stops, with its jobs and its requests, and starts again with its
\* databases, which it registers from the environment.
Crash(i) ==
    /\ jobs' = jobs \ {i}
    /\ run' = [t \in Threads |-> IF Home[t] = i THEN "idle" ELSE run[t]]
    /\ task' = [t \in Threads |-> IF Home[t] = i THEN State!Idle ELSE task[t]]
    /\ calm' = FALSE
    /\ UNCHANGED <<dbs, l1, l2, last, raced>>

Elsewhere == /\ (\E r \in Redis : State!Evict(r)) \/ State!Tick
             /\ UNCHANGED <<jobs, run, raced>>

Request(t) == \/ Refuse(t) \/ Acquire(t) \/ Execute(t) \/ Release(t) \/ Answer(t)
              \/ EngineStep(t)

Next == \/ \E t \in Threads : TriggerCron(t) \/ Request(t)
        \/ \E i \in Instances : RegisterCron(i) \/ DeleteCron(i) \/ Crash(i)
        \/ Elsewhere

Spec == Init /\ [][Next]_vars

\* Time passes, and a request that its process does not lose goes on.
FairSpec == /\ Spec
            /\ WF_vars(State!Tick /\ UNCHANGED <<jobs, run, raced>>)
            /\ \A t \in Threads : WF_vars(Request(t))

-----------------------------------------------------------------------------
TypeOK == /\ State!TypeOK
          /\ jobs \in SUBSET Instances
          /\ run \in [Threads -> Stage]
          /\ raced \in BOOLEAN

\* With one Redis and one database of the highest priority, as long as no call of
\* the engine overlaps another, fails or meets a crash, a request finds a lock
\* only while another request holds it: a run that ended does not block the next,
\* and a refused one blocks nobody.
FoundOnlyWhileHeld ==
    [][\A t \in Threads :
          /\ In(t, "checking")
          /\ ~Ended(t) /\ task'[t].pc = "idle" /\ task'[t].val # NoValue
          /\ calm' /\ State!OneOfEach
          => \E u \in Threads \ {t} : run[u] \in {"locking", "running", "releasing"}]_vars

Running == {t \in Threads : In(t, "running")}

\* The lock is checked with one operation and taken with another.  That two
\* requests run at once takes such a race, a call of the engine that overlaps
\* another, fails or meets a crash or the end of the lock's time, or a second
\* provider of a category: without all of these the lock is one.
OneRunWithoutRaces ==
    calm /\ State!OneOfEach /\ ~raced => \A t, u \in Running : t = u

\* The lock as TriggerCron can find it.
Locked == \/ \E r \in Redis : State!IsL1(r) /\ l1[r].left > 0
          \/ \E k \in State!Databases : State!IsL2(k) /\ l2[k].left > 0

\* A lock is let go in the end, or taken anew, though its holder crashes before
\* it releases it and others go on asking for it and copy its row to Redis.
LockIsFreed == Locked ~> ~Locked \/ \E t \in Threads : In(t, "locking")

\* cron.go:48: TriggerCron executes a job "using distributed locking across
\* instances".  One request at a time is between its lock and its release.
OneRunAtATime == Cardinality(Running) <= 1

\* The same with one provider of each category, and calls that do not overlap.
OneRunCalmly == calm /\ State!OneOfEach => Cardinality(Running) <= 1

\* A lock that was released is not found, however many providers of a category
\* are registered.
FoundOnlyWhileHeldByMany ==
    [][\A t \in Threads :
          /\ In(t, "checking")
          /\ ~Ended(t) /\ task'[t].pc = "idle" /\ task'[t].val # NoValue
          /\ calm'
          => \E u \in Threads \ {t} : run[u] \in {"locking", "running", "releasing"}]_vars

\* cron.go:60: "10 second lock".  A Redis holds the lock that long at most.
TenSecondLock == \A r \in Redis : l1[r].left <= LockTTL
=============================================================================
