---------------------------- MODULE CronLock_proofs ----------------------------
(***************************************************************************)
(* The cron scheduler over the state engine, for every number of requests  *)
(* and of instances, every time to live of the lock and every choice of    *)
(* providers.  What the engine's calls do, and what a Get finds, is taken  *)
(* from its own module.                                                    *)
(***************************************************************************)
EXTENDS CronLock, TLAPS

SP == INSTANCE StateEngine_proofs
         WITH Json <- {"payload"}, TTLs <- {LockTTL}, Flaky <- FALSE

LEMMA EngineAssumption == SP!StateAssumption
  BY CronAssumption DEF SP!StateAssumption

-----------------------------------------------------------------------------
(* The engine this module composes is the one that module is about.        *)

LEMMA SameTypes == State!TypeOK <=> SP!TypeOK
  BY DEF State!TypeOK, SP!TypeOK, State!Entry, SP!Entry, State!Value, SP!Value, State!Forever,
         SP!Forever, State!Databases, SP!Databases, State!Providers, SP!Providers,
         State!Label, SP!Label, State!Ended, SP!Ended

LEMMA SameInit == State!Init => SP!Init
  BY DEF State!Init, SP!Init, State!Nothing, SP!Nothing, State!Databases, SP!Databases,
         State!Providers, SP!Providers, State!Idle, SP!Idle

LEMMA SameProviders ==
    /\ State!NoL1 = SP!NoL1 /\ State!NoL2 = SP!NoL2 /\ State!Databases = SP!Databases
    /\ \A p : State!IsL1(p) = SP!IsL1(p) /\ State!IsL2(p) = SP!IsL2(p)
    /\ State!OneOfEach = SP!OneOfEach
  <1>1. /\ State!NoL1 = SP!NoL1 /\ State!NoL2 = SP!NoL2 /\ State!Databases = SP!Databases
        /\ \A p : State!IsL1(p) = SP!IsL1(p) /\ State!IsL2(p) = SP!IsL2(p)
    BY DEF State!NoL1, SP!NoL1, State!NoL2, SP!NoL2, State!IsL1, SP!IsL1, State!IsL2, SP!IsL2,
           State!Databases, SP!Databases, State!Priority, SP!Priority
  <1>2. QED
    BY <1>1 DEF State!OneOfEach, SP!OneOfEach

LEMMA SameRedis == ASSUME NEW entry, State!InRedis(entry) PROVE SP!InRedis(entry)
  BY SameProviders DEF State!InRedis, SP!InRedis

LEMMA SameWrite == ASSUME NEW t \in Threads, State!WriteL2(t) PROVE SP!WriteL2(t)
  <1>1. \A k, v : [l2 EXCEPT ![k] = State!Written(k, v)] = [l2 EXCEPT ![k] = SP!Written(k, v)]
    BY DEF State!Written, SP!Written, State!Forever, SP!Forever
  <1>2. \A k, v : State!Accepts(k, v) = SP!Accepts(k, v)
    BY DEF State!Accepts, SP!Accepts, State!Nothing, SP!Nothing
  <1>3. QED
    BY <1>1, <1>2, SameProviders
       DEF State!WriteL2, SP!WriteL2, State!At, SP!At, State!Return, SP!Return,
           State!Error, SP!Error, State!Idle, SP!Idle

LEMMA SameStep == ASSUME NEW t \in Threads, State!Step(t) PROVE SP!Step(t)
  <1>1. CASE State!SetL1(t)
    <2>1. State!Lasting(task[t].ttl) = SP!Lasting(task[t].ttl)
      BY DEF State!Lasting, SP!Lasting, State!Forever, SP!Forever
    <2>2. SP!SetL1(t)
      BY <1>1, <2>1, SameRedis
         DEF State!SetL1, SP!SetL1, State!At, SP!At, State!Goto, SP!Goto
    <2>3. QED
      BY <2>2 DEF SP!Step
  <1>2. CASE State!WriteL2(t)
    BY <1>2, SameWrite DEF SP!Step
  <1>3. CASE State!ReadL1(t)
    <2>1. SP!ReadL1(t)
      BY <1>3, SameProviders
         DEF State!ReadL1, SP!ReadL1, State!At, SP!At, State!Goto, SP!Goto,
             State!Return, SP!Return, State!Idle, SP!Idle
    <2>2. QED
      BY <2>1 DEF SP!Step
  <1>4. CASE State!ReadL2(t)
    <2>1. \A k : State!Fetched(k) = SP!Fetched(k)
      BY DEF State!Fetched, SP!Fetched
    <2>2. SP!ReadL2(t)
      BY <1>4, <2>1, SameProviders
         DEF State!ReadL2, SP!ReadL2, State!At, SP!At, State!Return, SP!Return,
             State!Idle, SP!Idle
    <2>3. QED
      BY <2>2 DEF SP!Step
  <1>5. CASE State!Copy(t)
    <2>1. SP!Copy(t)
      BY <1>5, SameRedis DEF State!Copy, SP!Copy, State!At, SP!At, State!Return, SP!Return,
                             State!Idle, SP!Idle
    <2>2. QED
      BY <2>1 DEF SP!Step
  <1>6. CASE State!DelL1(t)
    <2>1. State!Nothing = SP!Nothing
      BY DEF State!Nothing, SP!Nothing
    <2>2. SP!DelL1(t)
      BY <1>6, <2>1, SameRedis DEF State!DelL1, SP!DelL1, State!At, SP!At, State!Goto, SP!Goto
    <2>3. QED
      BY <2>2 DEF SP!Step
  <1>7. CASE State!DelL2(t)
    <2>1. SP!DelL2(t)
      BY <1>7, SameProviders
         DEF State!DelL2, SP!DelL2, State!At, SP!At, State!Return, SP!Return, State!Error, SP!Error,
             State!Idle, SP!Idle, State!Nothing, SP!Nothing
    <2>2. QED
      BY <2>1 DEF SP!Step
  <1>8. QED
    BY <1>1, <1>2, <1>3, <1>4, <1>5, <1>6, <1>7 DEF State!Step

LEMMA SameElsewhere ==
    (\E r \in Redis : State!Evict(r)) \/ State!Tick => (\E r \in Redis : SP!Evict(r)) \/ SP!Tick
  <1>1. ASSUME NEW r \in Redis, State!Evict(r) PROVE SP!Evict(r)
    BY <1>1, SameProviders DEF State!Evict, SP!Evict, State!Nothing, SP!Nothing
  <1>2. ASSUME State!Tick PROVE SP!Tick
    <2>1. \A e : State!Aged(e) = SP!Aged(e)
      BY DEF State!Aged, SP!Aged, State!Forever, SP!Forever, State!Nothing, SP!Nothing
    <2>2. QED
      BY <1>2, <2>1, SameProviders DEF State!Tick, SP!Tick
  <1>3. QED
    BY <1>1, <1>2

LEMMA EndedLabels == State!Ended = {"idle", "failed"} /\ SP!Ended = {"idle", "failed"}
  BY DEF State!Ended, SP!Ended

LEMMA SameCall ==
    ASSUME NEW t \in Threads,
           State!GetState(t) \/ State!DeleteState(t) \/ State!SaveState(t, "payload", LockTTL)
    PROVE  SP!Call(t)
  <1>1. \A label, val, ttl : State!Begin(t, label, val, ttl) => SP!Begin(t, label, val, ttl)
    BY DEF State!Begin, SP!Begin, State!Busy, SP!Busy, State!Ended, SP!Ended
  <1>2. State!Plain("payload", LockTTL) = SP!Plain("payload", LockTTL)
    BY DEF State!Plain, SP!Plain
  <1>3. SP!GetState(t) \/ SP!DeleteState(t) \/ SP!SaveState(t, "payload", LockTTL)
    BY <1>1, <1>2 DEF State!GetState, SP!GetState, State!DeleteState, SP!DeleteState,
                      State!SaveState, SP!SaveState
  <1>4. QED
    BY <1>3 DEF SP!Call

\* What the scheduler does to the engine is a step of the engine or none, unless
\* a process crashes.
LEMMA EngineSteps ==
    ASSUME Next, \A i \in Instances : ~Crash(i)
    PROVE  SP!Next \/ UNCHANGED engine
  <1>1. ASSUME NEW t \in Threads, TriggerCron(t) \/ Acquire(t) \/ Release(t) PROVE SP!Next
    BY <1>1, SameCall DEF TriggerCron, Acquire, Release, SP!Next
  <1>2. ASSUME NEW t \in Threads, EngineStep(t) PROVE SP!Next
    BY <1>2, SameStep DEF EngineStep, SP!Next
  <1>3. ASSUME Elsewhere PROVE SP!Next
    BY <1>3, SameElsewhere DEF Elsewhere, SP!Next
  <1>4. QED
    BY <1>1, <1>2, <1>3 DEF Next, Request, Refuse, Execute, Answer, RegisterCron, DeleteCron

-----------------------------------------------------------------------------
(* The requests and the calls they wait for.                               *)

\* A call of the engine that goes on, and what it does to the value that counts.
Goes(t, from, to) == task[t].pc = from /\ task'[t].pc = to
Flow(t) ==
    \/ Goes(t, "setL1", "writeL2") /\ task'[t].val = task[t].val /\ last' = last
    \/ Goes(t, "writeL2", "idle") /\ last' = task[t].val
    \/ Goes(t, "readL1", "idle") /\ last' = last
    \/ Goes(t, "readL1", "readL2") /\ task'[t].val = task[t].val /\ last' = last
    \/ Goes(t, "readL2", "copy") /\ last' = last
    \/ Goes(t, "readL2", "idle") /\ last' = last
    \/ Goes(t, "copy", "idle") /\ task'[t].val = task[t].val /\ last' = last
    \/ Goes(t, "delL1", "delL2") /\ last' = last
    \/ Goes(t, "delL2", "idle") /\ last' = NoValue
    \/ /\ Goes(t, "writeL2", "failed") \/ Goes(t, "delL2", "failed")
       /\ last' = last /\ ~calm'

Others(t) == \A u \in Threads \ {t} : task'[u] = task[u]

LEMMA EngineGoes ==
    ASSUME SP!Types, NEW t \in Threads, State!Step(t)
    PROVE  Flow(t) /\ Others(t) /\ UNCHANGED dbs /\ (calm' => calm)
  <1> USE EngineAssumption
  <1>1. SP!Step(t) /\ SP!TypeOK
    BY SameStep DEF SP!Types
  <1>2. \A new : SP!Becomes(t, new) /\ new \in SP!Task => task'[t] = new /\ Others(t)
    BY <1>1, SP!Replaced DEF Others
  <1> DEFINE going(label) == [pc |-> label, val |-> task[t].val, ttl |-> task[t].ttl]
             ended(label, val) == [pc |-> label, val |-> val, ttl |-> 0]
  <1>3. \A label \in {"writeL2", "readL2", "delL2"} : going(label) \in SP!Task
    BY <1>1, SP!TaskFields, SP!Labels DEF SP!Task
  <1>4. \A label \in {"idle", "failed", "copy"}, val \in SP!Value \cup {NoValue} :
            ended(label, val) \in SP!Task
    BY SP!Labels DEF SP!Task
  <1>5. /\ NoValue \in SP!Value \cup {NoValue} /\ task[t].val \in SP!Value \cup {NoValue}
        /\ \A r \in Redis : l1[r].val \in SP!Value \cup {NoValue}
        /\ \A k \in SP!Databases : l2[k].left > 0 => SP!Fetched(k) \in SP!Value
    BY <1>1, SP!TaskFields, SP!FetchedValue DEF SP!TypeOK, SP!Entry
  <1>6. CASE SP!SetL1(t)
    <2>1. SP!Becomes(t, going("writeL2")) /\ task[t].pc = "setL1" /\ UNCHANGED <<dbs, last>> /\ (calm' => calm)
      BY <1>6, SP!SetL1Does DEF SP!At
    <2>2. QED
      BY <1>2, <1>3, <2>1 DEF Flow, Goes
  <1>7. CASE SP!WriteL2(t)
    <2>1. /\ task[t].pc = "writeL2" /\ UNCHANGED dbs /\ (calm' => calm)
          /\ \/ SP!Becomes(t, ended("idle", NoValue)) /\ last' = task[t].val
             \/ SP!Becomes(t, ended("failed", NoValue)) /\ last' = last /\ ~calm'
      BY <1>7, SP!WriteL2Does DEF SP!At
    <2>2. QED
      BY <1>2, <1>4, <1>5, <2>1 DEF Flow, Goes
  <1>8. CASE SP!ReadL1(t)
    <2>1. /\ task[t].pc = "readL1" /\ UNCHANGED <<dbs, last>> /\ (calm' => calm)
          /\ \/ \E r \in Redis : SP!Becomes(t, ended("idle", l1[r].val))
             \/ SP!Becomes(t, going("readL2"))
      BY <1>8, SP!ReadL1Does DEF SP!At
    <2>2. CASE SP!Becomes(t, going("readL2"))
      BY <1>2, <1>3, <2>1, <2>2 DEF Flow, Goes
    <2>3. CASE \E r \in Redis : SP!Becomes(t, ended("idle", l1[r].val))
      <3>1. PICK r \in Redis : SP!Becomes(t, ended("idle", l1[r].val))
        BY <2>3
      <3>2. task'[t] = ended("idle", l1[r].val) /\ Others(t)
        BY <1>2, <1>4, <1>5, <3>1
      <3>3. QED
        BY <2>1, <3>2 DEF Flow, Goes
    <2>4. QED
      BY <2>1, <2>2, <2>3
  <1>9. CASE SP!ReadL2(t)
    <2>1. /\ task[t].pc = "readL2" /\ UNCHANGED <<dbs, last>> /\ (calm' => calm)
          /\ \/ \E k \in SP!Databases : /\ l2[k].left > 0
                                        /\ SP!Becomes(t, ended("copy", SP!Fetched(k)))
             \/ SP!Becomes(t, ended("idle", NoValue))
      BY <1>9, SP!ReadL2Does DEF SP!At
    <2>2. CASE SP!Becomes(t, ended("idle", NoValue))
      BY <1>2, <1>4, <1>5, <2>1, <2>2 DEF Flow, Goes
    <2>3. ASSUME NEW k \in SP!Databases, l2[k].left > 0, SP!Becomes(t, ended("copy", SP!Fetched(k)))
          PROVE  Flow(t) /\ Others(t)
      <3>1. task'[t] = ended("copy", SP!Fetched(k)) /\ Others(t)
        BY <1>2, <1>4, <1>5, <2>3
      <3>2. QED
        BY <2>1, <3>1 DEF Flow, Goes
    <2>4. QED
      BY <2>1, <2>2, <2>3
  <1>10. CASE SP!Copy(t)
    <2>1. SP!Becomes(t, ended("idle", task[t].val)) /\ task[t].pc = "copy" /\ UNCHANGED <<dbs, last>> /\ (calm' => calm)
      BY <1>10, SP!CopyDoes DEF SP!At
    <2>2. QED
      BY <1>2, <1>4, <1>5, <2>1 DEF Flow, Goes
  <1>11. CASE SP!DelL1(t)
    <2>1. SP!Becomes(t, going("delL2")) /\ task[t].pc = "delL1" /\ UNCHANGED <<dbs, last>> /\ (calm' => calm)
      BY <1>11, SP!DelL1Does DEF SP!At
    <2>2. QED
      BY <1>2, <1>3, <2>1 DEF Flow, Goes
  <1>12. CASE SP!DelL2(t)
    <2>1. /\ task[t].pc = "delL2" /\ UNCHANGED dbs /\ (calm' => calm)
          /\ \/ SP!Becomes(t, ended("idle", NoValue)) /\ last' = NoValue
             \/ SP!Becomes(t, ended("failed", NoValue)) /\ last' = last /\ ~calm'
      BY <1>12, SP!DelL2Does DEF SP!At
    <2>2. QED
      BY <1>2, <1>4, <1>5, <2>1 DEF Flow, Goes
  <1>13. QED
    BY <1>1, <1>6, <1>7, <1>8, <1>9, <1>10, <1>11, <1>12 DEF SP!Step

\* A call that begins; nothing else is under way if calm lasts.
Begun(t, label) == /\ UNCHANGED <<dbs, last>>
                   /\ Ended(t) /\ task'[t].pc = label
                   /\ Others(t)
                   /\ calm' => calm /\ \A u \in Threads : Ended(u)

LEMMA EngineCalled ==
    ASSUME SP!TypeOK, NEW t \in Threads, NEW label, NEW val, NEW ttl,
           State!Begin(t, label, val, ttl)
    PROVE  Begun(t, label) /\ task'[t].val = val
  <1>1. /\ task' = [task EXCEPT ![t] = [pc |-> label, val |-> val, ttl |-> ttl]]
        /\ Ended(t) /\ UNCHANGED <<dbs, last>>
    BY DEF State!Begin, Ended
  <1>2. task'[t] = [pc |-> label, val |-> val, ttl |-> ttl] /\ Others(t)
    BY <1>1 DEF SP!TypeOK, Others
  <1>3. calm' => calm /\ ~State!Busy
    <2>1. calm' = (calm /\ ~State!Busy)
      BY DEF State!Begin
    <2>2. QED
      BY <2>1, Zenon
  <1>4. ~State!Busy => \A u \in Threads : Ended(u)
    BY DEF State!Busy, Ended
  <1>5. QED
    BY <1>1, <1>2, <1>3, <1>4 DEF Begun

LEMMA GetCalled ==
    ASSUME SP!TypeOK, NEW t \in Threads, State!GetState(t)
    PROVE  Begun(t, "readL1") /\ task'[t].val = NoValue
  BY EngineCalled DEF State!GetState

LEMMA SaveCalled ==
    ASSUME SP!TypeOK, NEW t \in Threads, State!SaveState(t, "payload", LockTTL)
    PROVE  Begun(t, "setL1") /\ task'[t].val # NoValue /\ ~task'[t].val.endless
  <1>1. State!Begin(t, "setL1", State!Plain("payload", LockTTL), LockTTL)
    BY DEF State!SaveState
  <1>2. State!Plain("payload", LockTTL) # NoValue
    <2>1. SP!Saved(SP!Plain("payload", LockTTL), LockTTL)
      BY EngineAssumption, SP!PlainValue
    <2>2. State!Plain("payload", LockTTL) = SP!Plain("payload", LockTTL)
      BY DEF State!Plain, SP!Plain
    <2>3. QED
      BY <2>1, <2>2, CronAssumption DEF SP!Saved, SP!Value
  <1>3. ~State!Plain("payload", LockTTL).endless
    <2>1. LockTTL # 0
      BY CronAssumption
    <2>2. State!Plain("payload", LockTTL).endless = (LockTTL = 0)
      BY DEF State!Plain
    <2>3. QED
      BY <2>1, <2>2, Zenon
  <1>4. QED
    BY <1>1, <1>2, <1>3, EngineCalled

LEMMA DeleteCalled ==
    ASSUME SP!TypeOK, NEW t \in Threads, State!DeleteState(t)
    PROVE  Begun(t, "delL1")
  BY EngineCalled DEF State!DeleteState

LEMMA ElsewhereKeeps ==
    ASSUME SP!Types, Elsewhere
    PROVE  UNCHANGED <<task, last, dbs, jobs, run, raced>> /\ (calm' => calm)
  <1>1. UNCHANGED <<task, last>> /\ (calm' => calm)
    BY EngineAssumption, SameElsewhere, SP!ElsewhereDoes DEF Elsewhere
  <1>2. UNCHANGED dbs
    BY DEF Elsewhere, State!Evict, State!Tick
  <1>3. QED
    BY <1>1, <1>2 DEF Elsewhere

\* A request goes on to another stage.
LEMMA Stages ==
    ASSUME run \in [Threads -> Stage], NEW t \in Threads, NEW stage \in Stage, To(t, stage)
    PROVE  /\ run' \in [Threads -> Stage] /\ run'[t] = stage
           /\ \A u \in Threads \ {t} : run'[u] = run[u]
  BY DEF To

-----------------------------------------------------------------------------
(* What holds of every request, whatever happens.                          *)

\* The steps of a Get.
Reads == {"readL1", "readL2", "copy"}

\* A call is under way only for a request that waits for it, a Get has found
\* nothing before it has, and what is saved has an expiry.
Waits(t) == /\ ~Ended(t) => run[t] \in {"checking", "locking", "releasing"}
            /\ task[t].pc \in {"setL1", "writeL2"} => /\ In(t, "locking")
                                                      /\ task[t].val # NoValue
                                                      /\ ~task[t].val.endless
            /\ task[t].pc \in {"delL1", "delL2"} => In(t, "releasing")
            /\ task[t].pc \in Reads => In(t, "checking")
            /\ task[t].pc \in {"readL1", "readL2"} => task[t].val = NoValue

Matched == /\ SP!Types
           /\ jobs \in SUBSET Instances
           /\ run \in [Threads -> Stage]
           /\ raced \in BOOLEAN
           /\ last # NoValue => ~last.endless
           /\ \A t \in Threads : Waits(t)

\* The engine's own types, crashes included.
LEMMA EngineTypes == ASSUME SP!Types, [Next]_vars PROVE SP!Types'
  <1> USE EngineAssumption
  <1>1. ASSUME NEW i \in Instances, Crash(i) PROVE SP!Types'
    <2>1. /\ task' = [t \in Threads |-> IF Home[t] = i THEN State!Idle ELSE task[t]]
          /\ calm' = FALSE /\ UNCHANGED <<dbs, l1, l2, last>>
      BY <1>1 DEF Crash
    <2>2. State!Idle \in SP!Task /\ State!Idle.pc = "idle"
      BY SP!Labels DEF State!Idle, SP!Task
    <2>3. task \in [Threads -> SP!Task]
      BY DEF SP!Types, SP!TypeOK, SP!Task
    <2>4. task' \in [Threads -> SP!Task]
      BY <2>1, <2>2, <2>3
    <2>5. SP!TypeOK'
      BY <2>1, <2>4 DEF SP!Types, SP!TypeOK, SP!Task
    <2>6. SP!Saving' /\ SP!Rows'
      BY <2>1, <2>2 DEF SP!Types, SP!Saving, SP!Rows
    <2>7. QED
      BY <2>5, <2>6 DEF SP!Types
  <1>2. ASSUME SP!Next \/ UNCHANGED engine PROVE SP!Types'
    BY <1>2, SP!TypesStep DEF engine, SP!vars
  <1>3. CASE UNCHANGED vars
    BY <1>2, <1>3 DEF vars, engine
  <1>4. QED
    BY <1>1, <1>2, <1>3, EngineSteps

LEMMA MatchedInit == Init => Matched
  <1> SUFFICES ASSUME Init PROVE Matched
    OBVIOUS
  <1>1. SP!Types
    BY EngineAssumption, SameInit, SP!TypesInit DEF Init
  <1>2. (\A t \in Threads : task[t].pc = "idle") /\ last = NoValue
    BY DEF Init, State!Init, State!Idle
  <1>3. QED
    BY <1>1, <1>2, EndedLabels DEF Init, Matched, Waits, Ended, Stage, Reads

LEMMA MatchedStep == Matched /\ [Next]_vars => Matched'
  <1> SUFFICES ASSUME Matched, [Next]_vars PROVE Matched'
    OBVIOUS
  <1>0. /\ SP!Types' /\ SP!Types /\ SP!TypeOK /\ jobs \in SUBSET Instances
        /\ run \in [Threads -> Stage] /\ raced \in BOOLEAN
        /\ last # NoValue => ~last.endless
        /\ \A t \in Threads : Waits(t)
    BY EngineTypes DEF Matched, SP!Types
  <1> USE EndedLabels DEF Ended, Reads
  <1>1. ASSUME NEW t \in Threads, NEW stage \in Stage, To(t, stage), UNCHANGED <<jobs, last>>,
               raced' \in BOOLEAN, Others(t), Waits(t)'
        PROVE  Matched'
    <2>1. run' \in [Threads -> Stage] /\ \A u \in Threads \ {t} : run'[u] = run[u]
      BY <1>0, <1>1, Stages
    <2>2. \A u \in Threads \ {t} : Waits(u)'
      BY <1>0, <1>1, <2>1 DEF Waits, In, Others
    <2>3. QED
      BY <1>0, <1>1, <2>1, <2>2 DEF Matched
  <1>2. ASSUME NEW t \in Threads, TriggerCron(t) PROVE Matched'
    <2>1. Begun(t, "readL1") /\ task'[t].val = NoValue
      BY <1>0, <1>2, GetCalled DEF TriggerCron
    <2>2. run'[t] = "checking" /\ "checking" \in Stage /\ To(t, "checking")
      BY <1>0, <1>2, Stages DEF TriggerCron, Stage
    <2>3. raced' \in BOOLEAN
      BY <1>2 DEF TriggerCron
    <2>4. QED
      BY <1>1, <1>2, <2>1, <2>2, <2>3 DEF TriggerCron, Begun, Waits, In
  <1>3. ASSUME NEW t \in Threads, NEW stage \in Stage, To(t, stage), Ended(t),
               UNCHANGED <<engine, jobs, raced>>
        PROVE  Matched'
    <2>1. task' = task /\ last' = last /\ Others(t)
      BY <1>3 DEF engine, Others
    <2>2. Waits(t)'
      BY <1>3, <2>1 DEF Waits
    <2>3. QED
      BY <1>0, <1>1, <1>3, <2>1, <2>2
  <1>4. ASSUME NEW t \in Threads, Refuse(t) \/ Execute(t) \/ Answer(t) PROVE Matched'
    <2>1. Execute(t) => Ended(t)
      BY DEF Execute
    <2>2. QED
      BY <1>3, <1>4, <2>1 DEF Refuse, Execute, Answer, Stage
  <1>5. ASSUME NEW t \in Threads, Acquire(t) PROVE Matched'
    <2>1. Begun(t, "setL1") /\ task'[t].val # NoValue /\ ~task'[t].val.endless
      BY <1>0, <1>5, SaveCalled DEF Acquire
    <2>2. run'[t] = "locking" /\ "locking" \in Stage /\ To(t, "locking")
      BY <1>0, <1>5, Stages DEF Acquire, Stage
    <2>3. QED
      BY <1>0, <1>1, <1>5, <2>1, <2>2 DEF Acquire, Begun, Waits, In
  <1>6. ASSUME NEW t \in Threads, Release(t) PROVE Matched'
    <2>1. Begun(t, "delL1")
      BY <1>0, <1>6, DeleteCalled DEF Release
    <2>2. run'[t] = "releasing" /\ "releasing" \in Stage /\ To(t, "releasing")
      BY <1>0, <1>6, Stages DEF Release, Stage
    <2>3. QED
      BY <1>0, <1>1, <1>6, <2>1, <2>2 DEF Release, Begun, Waits, In
  <1>7. ASSUME NEW t \in Threads, EngineStep(t) PROVE Matched'
    <2>1. Flow(t) /\ Others(t) /\ UNCHANGED <<jobs, run, raced>>
      BY <1>0, <1>7, EngineGoes DEF EngineStep
    <2>2. Waits(t)' /\ (last' # NoValue => ~last'.endless)
      BY <1>0, <2>1 DEF Waits, In, Flow, Goes
    <2>3. \A u \in Threads \ {t} : Waits(u)'
      BY <1>0, <2>1 DEF Waits, In, Others
    <2>4. QED
      BY <1>0, <2>1, <2>2, <2>3 DEF Matched
  <1>8. ASSUME UNCHANGED <<task, last, run, raced>>, jobs' \in SUBSET Instances PROVE Matched'
    BY <1>0, <1>8 DEF Matched, Waits, In
  <1>9. ASSUME NEW i \in Instances, RegisterCron(i) \/ DeleteCron(i) PROVE Matched'
    BY <1>0, <1>8, <1>9 DEF RegisterCron, DeleteCron, engine
  <1>10. ASSUME NEW i \in Instances, Crash(i) PROVE Matched'
    <2>1. /\ run' \in [Threads -> Stage] /\ jobs' \in SUBSET Instances /\ UNCHANGED <<raced, last>>
          /\ \A t \in Threads : \/ run'[t] = "idle" /\ task'[t] = State!Idle
                                \/ run'[t] = run[t] /\ task'[t] = task[t]
      BY <1>0, <1>10 DEF Crash, Stage
    <2>2. State!Idle.pc = "idle"
      BY DEF State!Idle
    <2>3. \A t \in Threads : Waits(t)'
      BY <1>0, <2>1, <2>2 DEF Waits, In
    <2>4. QED
      BY <1>0, <2>1, <2>3 DEF Matched
  <1>11. CASE Elsewhere
    BY <1>0, <1>8, <1>11, ElsewhereKeeps
  <1>12. CASE UNCHANGED vars
    BY <1>0, <1>8, <1>12 DEF vars
  <1>13. QED
    BY <1>2, <1>4, <1>5, <1>6, <1>7, <1>9, <1>10, <1>11, <1>12 DEF Next, Request

-----------------------------------------------------------------------------
(* The lock, where every call of the engine goes to the same providers.    *)

Calm == calm /\ State!OneOfEach

\* What the engine's own module says of calls one after the other.
LEMMA EngineSerial == Mongo = {} /\ SP!Types /\ SP!Serial /\ [Next]_vars => SP!Serial'
  <1> USE EngineAssumption
  <1> SUFFICES ASSUME Mongo = {}, SP!Types, SP!Serial, [Next]_vars PROVE SP!Serial'
    OBVIOUS
  <1>1. ASSUME NEW i \in Instances, Crash(i) PROVE SP!Serial'
    BY <1>1 DEF Crash, SP!Serial
  <1>2. ASSUME SP!Next \/ UNCHANGED engine PROVE SP!Serial'
    BY <1>2, SP!SerialStep DEF engine, SP!vars, SP!Exact
  <1>3. CASE UNCHANGED vars
    BY <1>2, <1>3 DEF vars, engine
  <1>4. QED
    BY <1>1, <1>2, <1>3, EngineSteps

\* u has the lock, or gives it back.
Active(u) == In(u, "running") \/ (In(u, "releasing") /\ ~Ended(u))

\* The lock is saved only while somebody takes it or has it.
Guarded == Calm => /\ \A t \in Threads : task[t].pc # "failed"
                   /\ last # NoValue => \E u \in Threads : In(u, "locking") \/ Active(u)

\* One request at most is about to take the lock, and then nobody has it; who
\* has it, has saved it.
Single(t, u) == /\ MayTake(t) /\ MayTake(u) => t = u
                /\ Active(t) /\ Active(u) => t = u
                /\ ~(In(t, "locking") /\ Active(u))
                /\ ~(In(t, "checking") /\ Ended(t) /\ task[t].val = NoValue /\ Active(u))

Has(t) == In(t, "running") \/ (In(t, "locking") /\ Ended(t)) => last # NoValue

OneHas == Calm /\ ~raced => \A t, u \in Threads : Single(t, u) /\ Has(t)

Locking == SP!Serial /\ Guarded /\ OneHas

\* What a step leaves of calm it had before, and it leaves the providers.
LEMMA CalmBefore == ASSUME UNCHANGED dbs, calm' => calm, Calm' PROVE Calm
  <1>1. UNCHANGED dbs => State!OneOfEach' = State!OneOfEach
    BY DEF State!OneOfEach, State!IsL1, State!IsL2
  <1>2. QED
    BY <1>1 DEF Calm

LEMMA SoleCall == SP!Serial /\ Calm => \A t, u \in Threads : ~Ended(t) /\ ~Ended(u) => t = u
  BY SameProviders, EndedLabels DEF SP!Serial, SP!Sole, Calm, Ended

\* A Get that ends has found the value that counts.
LEMMA GetFinds ==
    ASSUME Mongo = {}, Matched, SP!Serial, NEW t \in Threads, State!Step(t),
           task[t].pc \in Reads, task'[t].pc = "idle", Calm'
    PROVE  task'[t].val = last
  <1> USE EngineAssumption
  <1>1. SP!Types /\ ~SP!Lost(last)
    BY DEF Matched, SP!Lost
  <1>2. SP!Step(t) /\ UNCHANGED dbs /\ (calm' => calm)
    BY <1>1, SameStep, EngineGoes
  <1>3. calm' /\ SP!OneOfEach
    BY <1>2, CalmBefore, SameProviders DEF Calm
  <1>4. SP!Next
    BY <1>2 DEF SP!Next
  <1>5. QED
    BY <1>1, <1>3, <1>4, SP!GetEnds DEF SP!Exact, Reads

\* What is to be shown of a step of one request.
Onward(t) ==
    Calm' => /\ Calm
             /\ task'[t].pc # "failed"
             /\ last' # NoValue => \/ \E u \in Threads \ {t} : In(u, "locking") \/ Active(u)
                                   \/ In(t, "locking")' \/ Active(t)'
             /\ ~raced' => /\ ~raced
                           /\ Has(t)' /\ Single(t, t)'
                           /\ \A u \in Threads \ {t} : Single(t, u)' /\ Single(u, t)' /\ Has(u)'

LEMMA OnwardLocking ==
    ASSUME Matched, Guarded, OneHas, NEW t \in Threads, Others(t),
           \A u \in Threads \ {t} : run'[u] = run[u], Onward(t)
    PROVE  Guarded' /\ OneHas'
  <1>1. \A u \in Threads \ {t} : /\ Ended(u)' = Ended(u)
                                 /\ In(u, "locking")' = In(u, "locking")
                                 /\ Active(u)' = Active(u) /\ MayTake(u)' = MayTake(u)
                                 /\ (In(u, "checking") /\ Ended(u) /\ task[u].val = NoValue)'
                                      = (In(u, "checking") /\ Ended(u) /\ task[u].val = NoValue)
    BY EndedLabels DEF Others, Ended, In, Active, MayTake
  <1>2. Guarded'
    <2> SUFFICES ASSUME Calm'
                 PROVE  /\ \A u \in Threads : task'[u].pc # "failed"
                        /\ last' # NoValue => \E u \in Threads : In(u, "locking")' \/ Active(u)'
      BY DEF Guarded
    <2>1. \A u \in Threads \ {t} : task'[u].pc # "failed"
      BY DEF Guarded, Onward, Others
    <2>2. QED
      BY <1>1, <2>1 DEF Onward
  <1>3. OneHas'
    <2> SUFFICES ASSUME Calm', ~raced', NEW v \in Threads, NEW u \in Threads
                 PROVE  Single(v, u)' /\ Has(v)'
      BY DEF OneHas
    <2>1. CASE v = t \/ u = t
      BY <2>1 DEF Onward
    <2>2. CASE v # t /\ u # t
      <3>1. Single(v, u)
        BY DEF OneHas, Onward
      <3>2. Single(v, u)'
        BY <1>1, <2>2, <3>1 DEF Single
      <3>3. Has(v)'
        BY <2>2 DEF Onward
      <3>4. QED
        BY <3>2, <3>3
    <2>3. QED
      BY <2>1, <2>2
  <1>4. QED
    BY <1>2, <1>3

LEMMA LockingInit == Init => Locking
  <1> SUFFICES ASSUME Init PROVE Locking
    OBVIOUS
  <1>1. SP!Serial
    BY EngineAssumption, SameInit, SP!SerialInit DEF Init
  <1>2. (\A t \in Threads : task[t].pc = "idle" /\ run[t] = "idle") /\ last = NoValue
    BY DEF Init, State!Init, State!Idle
  <1>3. QED
    BY <1>1, <1>2 DEF Locking, Guarded, OneHas, Single, Has, MayTake, Active, In

\* A call of the engine goes on.
LEMMA EngineStepLocking ==
    ASSUME Mongo = {}, Matched, Locking, NEW t \in Threads, EngineStep(t)
    PROVE  Guarded' /\ OneHas'
  <1>0. /\ SP!Types /\ SP!Serial /\ Guarded /\ OneHas /\ Waits(t) /\ run \in [Threads -> Stage]
        /\ State!Step(t) /\ UNCHANGED <<jobs, run, raced>>
    BY DEF Matched, Locking, EngineStep
  <1>1. Flow(t) /\ Others(t) /\ UNCHANGED dbs /\ (calm' => calm)
    BY <1>0, EngineGoes
  <1>2. ~Ended(t)
    BY <1>1, EndedLabels DEF Flow, Goes, Ended
  <1>3. SUFFICES ASSUME Calm' PROVE Onward(t)
    BY <1>0, <1>1, OnwardLocking DEF Onward
  <1>4. /\ Calm /\ calm'
        /\ \A u \in Threads \ {t} : Ended(u)
        /\ last # NoValue => \E u \in Threads : In(u, "locking") \/ Active(u)
    BY <1>0, <1>1, <1>2, <1>3, CalmBefore, SoleCall DEF Guarded, Calm
  <1>5. task'[t].pc # "failed"
    BY <1>1, <1>4 DEF Flow, Goes
  <1>6. \A u \in Threads \ {t} : /\ Ended(u)' /\ run'[u] = run[u] /\ task'[u] = task[u]
                                 /\ Active(u)' = Active(u) /\ MayTake(u)' = MayTake(u)
                                 /\ Active(u) <=> In(u, "running")
    BY <1>0, <1>1, <1>4, EndedLabels DEF Others, Ended, In, Active, MayTake
  <1>7. /\ In(t, "locking")' = In(t, "locking") /\ In(t, "checking")' = In(t, "checking")
        /\ In(t, "running")' = In(t, "running") /\ In(t, "releasing")' = In(t, "releasing")
    BY <1>0 DEF In
  <1>8. CASE task[t].pc \in {"setL1", "writeL2"}
    <2>1. In(t, "locking") /\ run[t] = "locking" /\ task[t].val # NoValue
      BY <1>0, <1>8 DEF Waits, In
    <2>2. last' = last \/ last' # NoValue
      BY <1>1, <1>8, <2>1 DEF Flow, Goes
    <2>3. Ended(t)' => last' # NoValue
      BY <1>1, <1>5, <1>8, <2>1, EndedLabels DEF Flow, Goes, Ended
    <2>4. ASSUME ~raced
          PROVE  /\ Has(t)' /\ Single(t, t)'
                 /\ \A u \in Threads \ {t} : Single(t, u)' /\ Single(u, t)' /\ Has(u)'
      <3>1. ~Active(t)' /\ MayTake(t) /\ MayTake(t)' /\ ~In(t, "checking")' /\ Has(t)'
        BY <1>7, <2>1, <2>3 DEF Active, MayTake, Has, In
      <3>2. \A u \in Threads \ {t} : Single(t, u) /\ Single(u, t) /\ Has(u)
        BY <1>0, <1>4, <2>4 DEF OneHas
      <3>3. \A u \in Threads \ {t} : Has(u)'
        BY <1>6, <2>2, <3>2, EndedLabels DEF Has, In, Ended
      <3>4. Single(t, t)'
        BY <3>1 DEF Single
      <3>5. ASSUME NEW u \in Threads \ {t} PROVE Single(t, u)' /\ Single(u, t)'
        <4>1. ~MayTake(u)' /\ ~Active(u)'
          BY <1>6, <2>1, <3>1, <3>2 DEF Single
        <4>2. QED
          BY <3>1, <4>1 DEF Single
      <3>6. QED
        BY <3>1, <3>3, <3>4, <3>5
    <2>5. QED
      BY <1>0, <1>4, <1>5, <1>7, <2>1, <2>4 DEF Onward
  <1>9. CASE task[t].pc \in Reads
    <2>1. In(t, "checking") /\ run[t] = "checking" /\ last' = last
      BY <1>0, <1>1, <1>9 DEF Waits, In, Flow, Goes, Reads
    <2>2. ~Active(t) /\ ~Active(t)' /\ ~In(t, "locking")
      BY <1>7, <2>1 DEF Active, In
    <2>3. MayTake(t)' => MayTake(t)
      BY <1>0, <1>1, <1>7, <1>9, <2>1 DEF MayTake, In, Flow, Goes, Reads, Waits
    <2>4. task'[t].pc = "idle" => task'[t].val = last
      BY <1>0, <1>3, <1>9, GetFinds
    <2>5. ASSUME ~raced
          PROVE  /\ Has(t)' /\ Single(t, t)'
                 /\ \A u \in Threads \ {t} : Single(t, u)' /\ Single(u, t)' /\ Has(u)'
      <3>1. \A u \in Threads \ {t} : Single(t, u) /\ Single(u, t) /\ Has(u)
        BY <1>0, <1>4, <2>5 DEF OneHas
      <3>2. Has(t)' /\ Single(t, t)'
        BY <1>7, <2>1, <2>2 DEF Has, Single, In
      <3>3. \A u \in Threads \ {t} : Has(u)'
        BY <1>6, <2>1, <3>1, EndedLabels DEF Has, In, Ended
      <3>4. ASSUME NEW u \in Threads \ {t}, Ended(t)', task'[t].val = NoValue PROVE ~Active(u)'
        <4>1. task'[t].pc = "idle"
          BY <1>5, <3>4, EndedLabels DEF Ended
        <4>2. last = NoValue
          BY <2>4, <3>4, <4>1
        <4>3. QED
          BY <1>6, <3>1, <4>2 DEF Has
      <3>5. ASSUME NEW u \in Threads \ {t} PROVE Single(t, u)' /\ Single(u, t)'
        <4>1. /\ ~(MayTake(t)' /\ MayTake(u)')
          BY <1>6, <2>3, <3>1 DEF Single
        <4>2. ~In(t, "locking")'
          BY <1>7, <2>2
        <4>3. QED
          BY <2>2, <3>4, <4>1, <4>2 DEF Single
      <3>6. QED
        BY <3>2, <3>3, <3>5
    <2>6. last' # NoValue => \E u \in Threads \ {t} : In(u, "locking") \/ Active(u)
      BY <1>4, <2>1, <2>2
    <2>7. QED
      BY <1>0, <1>4, <1>5, <2>5, <2>6 DEF Onward
  <1>10. CASE task[t].pc \in {"delL1", "delL2"}
    <2>1. In(t, "releasing") /\ run[t] = "releasing" /\ Active(t)
      BY <1>0, <1>2, <1>10 DEF Waits, In, Active
    <2>2. (last' = last /\ Active(t)') \/ last' = NoValue
      BY <1>1, <1>5, <1>7, <1>10, <2>1, EndedLabels DEF Flow, Goes, Active, Ended
    <2>3. ASSUME ~raced
          PROVE  /\ Has(t)' /\ Single(t, t)'
                 /\ \A u \in Threads \ {t} : Single(t, u)' /\ Single(u, t)' /\ Has(u)'
      <3>1. \A u \in Threads \ {t} : Single(t, u) /\ Single(u, t) /\ Has(u)
        BY <1>0, <1>4, <2>3 DEF OneHas
      <3>2. /\ ~MayTake(t)' /\ ~In(t, "locking")' /\ ~In(t, "checking")'
            /\ Has(t)' /\ Single(t, t)'
        BY <1>7, <2>1 DEF Has, Single, In, MayTake
      <3>3. ASSUME NEW u \in Threads \ {t}
            PROVE  /\ ~Active(u)' /\ ~In(u, "locking")'
                   /\ ~(In(u, "checking")' /\ Ended(u)' /\ task'[u].val = NoValue)
        <4>1. ~Active(u) /\ ~In(u, "locking")
          BY <2>1, <3>1 DEF Single
        <4>2. ~(In(u, "checking") /\ Ended(u) /\ task[u].val = NoValue)
          BY <2>1, <3>1 DEF Single
        <4>3. QED
          BY <1>4, <1>6, <4>1, <4>2 DEF In
      <3>4. \A u \in Threads \ {t} : Single(t, u)' /\ Single(u, t)'
        BY <3>2, <3>3 DEF Single
      <3>5. \A u \in Threads \ {t} : Has(u)'
        BY <3>3 DEF Has, Active
      <3>6. QED
        BY <3>2, <3>4, <3>5
    <2>4. QED
      BY <1>0, <1>4, <1>5, <2>2, <2>3 DEF Onward
  <1>11. QED
    BY <1>1, <1>8, <1>9, <1>10 DEF Flow, Goes, Reads

\* A request that moves on without the engine, or with a call that begins.
LEMMA LockingStep == Mongo = {} /\ Matched /\ Locking /\ [Next]_vars => Locking'
  <1> SUFFICES ASSUME Mongo = {}, Matched, Locking, [Next]_vars PROVE Locking'
    OBVIOUS
  <1>0. /\ SP!Types /\ SP!TypeOK /\ SP!Serial /\ Guarded /\ OneHas
        /\ run \in [Threads -> Stage] /\ \A t \in Threads : Waits(t)
    BY DEF Matched, Locking, SP!Types
  <1>1. SP!Serial'
    BY <1>0, EngineSerial
  <1>2. SUFFICES Guarded' /\ OneHas'
    BY <1>1 DEF Locking
  <1> USE EndedLabels
  <1>3. ASSUME NEW t \in Threads, TriggerCron(t) PROVE Guarded' /\ OneHas'
    <2>1. Begun(t, "readL1") /\ task'[t].val = NoValue
      BY <1>0, <1>3, GetCalled DEF TriggerCron
    <2>2. run[t] = "idle" /\ run'[t] = "checking" /\ \A u \in Threads \ {t} : run'[u] = run[u]
      BY <1>0, <1>3, Stages DEF TriggerCron, Stage, In
    <2>3. raced' = (raced \/ \E u \in Threads : MayTake(u))
      BY <1>3 DEF TriggerCron
    <2>4. ASSUME Calm' PROVE Onward(t)
      <3>1. Calm /\ Others(t) /\ last' = last /\ task'[t].pc = "readL1"
        BY <2>1, <2>4, CalmBefore DEF Begun
      <3>2. ~Active(t) /\ ~Active(t)' /\ ~In(t, "locking") /\ ~In(t, "locking")' /\ ~Ended(t)' /\ Has(t)'
        BY <2>2, <3>1 DEF Active, In, Ended, Has
      <3>3. last' # NoValue => \E u \in Threads \ {t} : In(u, "locking") \/ Active(u)
        BY <1>0, <3>1, <3>2 DEF Guarded
      <3>4. \A u \in Threads \ {t} : /\ MayTake(u)' = MayTake(u) /\ Active(u)' = Active(u)
                                     /\ Has(u)' = Has(u)
        BY <2>2, <3>1 DEF Others, MayTake, Active, Has, In, Ended
      <3>5. ASSUME ~raced'
            PROVE  /\ ~raced /\ Single(t, t)'
                   /\ \A u \in Threads \ {t} : Single(t, u)' /\ Single(u, t)' /\ Has(u)'
        <4>1. ~raced /\ \A u \in Threads : ~MayTake(u)
          BY <2>3, <3>5, Zenon
        <4>2. \A u \in Threads \ {t} : ~MayTake(u)' /\ Has(u)'
          BY <1>0, <3>1, <3>4, <4>1 DEF OneHas
        <4>3. QED
          BY <3>2, <4>1, <4>2 DEF Single
      <3>6. QED
        BY <3>1, <3>2, <3>3, <3>5 DEF Onward
    <2>5. QED
      BY <1>0, <2>1, <2>2, <2>4, OnwardLocking DEF Begun, Onward
  <1>4. ASSUME NEW t \in Threads, Acquire(t) PROVE Guarded' /\ OneHas'
    <2>1. Begun(t, "setL1")
      BY <1>0, <1>4, SaveCalled DEF Acquire
    <2>2. /\ run[t] = "checking" /\ Ended(t) /\ task[t].val = NoValue /\ UNCHANGED raced
          /\ run'[t] = "locking" /\ \A u \in Threads \ {t} : run'[u] = run[u]
      BY <1>0, <1>4, Stages DEF Acquire, Stage, In
    <2>3. ASSUME Calm' PROVE Onward(t)
      <3>1. Calm /\ Others(t) /\ last' = last /\ task'[t].pc = "setL1"
        BY <2>1, <2>3, CalmBefore DEF Begun
      <3>2. /\ In(t, "locking")' /\ ~Ended(t)' /\ ~Active(t)' /\ Has(t)' /\ MayTake(t)
            /\ ~In(t, "checking")'
        BY <2>2, <3>1 DEF Active, In, Ended, Has, MayTake
      <3>3. \A u \in Threads \ {t} : /\ MayTake(u)' = MayTake(u) /\ Active(u)' = Active(u)
                                     /\ Has(u)' = Has(u)
        BY <2>2, <3>1 DEF Others, MayTake, Active, Has, In, Ended
      <3>4. ASSUME ~raced, NEW u \in Threads \ {t}
            PROVE  Single(t, u)' /\ Single(u, t)' /\ Has(u)'
        <4>1. Single(t, u) /\ Has(u)
          BY <1>0, <3>1, <3>4 DEF OneHas
        <4>2. ~Active(u) /\ ~MayTake(u)
          BY <2>2, <3>2, <4>1 DEF Single, In
        <4>3. QED
          BY <3>2, <3>3, <4>1, <4>2 DEF Single
      <3>5. Single(t, t)'
        BY <3>2 DEF Single
      <3>6. QED
        BY <2>2, <3>1, <3>2, <3>4, <3>5 DEF Onward
    <2>4. QED
      BY <1>0, <2>1, <2>2, <2>3, OnwardLocking DEF Begun, Onward
  <1>5. ASSUME NEW t \in Threads, Release(t) PROVE Guarded' /\ OneHas'
    <2>1. Begun(t, "delL1")
      BY <1>0, <1>5, DeleteCalled DEF Release
    <2>2. /\ run[t] = "running" /\ UNCHANGED raced
          /\ run'[t] = "releasing" /\ \A u \in Threads \ {t} : run'[u] = run[u]
      BY <1>0, <1>5, Stages DEF Release, Stage, In
    <2>3. ASSUME Calm' PROVE Onward(t)
      <3>1. Calm /\ Others(t) /\ last' = last /\ task'[t].pc = "delL1"
        BY <2>1, <2>3, CalmBefore DEF Begun
      <3>2. /\ Active(t) /\ Active(t)' /\ ~MayTake(t)' /\ ~In(t, "locking")' /\ ~In(t, "checking")'
            /\ Has(t)' /\ Single(t, t)'
        BY <2>2, <3>1 DEF Active, In, Ended, Has, MayTake, Single
      <3>3. \A u \in Threads \ {t} : /\ MayTake(u)' = MayTake(u) /\ Active(u)' = Active(u)
                                     /\ Has(u)' = Has(u) /\ In(u, "locking")' = In(u, "locking")
                                     /\ (In(u, "checking") /\ Ended(u) /\ task[u].val = NoValue)'
                                          = (In(u, "checking") /\ Ended(u) /\ task[u].val = NoValue)
        BY <2>2, <3>1 DEF Others, MayTake, Active, Has, In, Ended
      <3>4. ASSUME ~raced, NEW u \in Threads \ {t}
            PROVE  Single(t, u)' /\ Single(u, t)' /\ Has(u)'
        <4>1. Single(t, u) /\ Single(u, t) /\ Has(u)
          BY <1>0, <3>1, <3>4 DEF OneHas
        <4>2. QED
          BY <3>2, <3>3, <4>1 DEF Single
      <3>5. QED
        BY <2>2, <3>1, <3>2, <3>4 DEF Onward
    <2>4. QED
      BY <1>0, <2>1, <2>2, <2>3, OnwardLocking DEF Begun, Onward
  <1>6. ASSUME NEW t \in Threads, NEW stage \in Stage, To(t, stage), UNCHANGED <<engine, raced>>, Ended(t),
               Calm => \/ stage = "idle" /\ run[t] \in {"checking", "releasing"}
                       \/ stage = "running" /\ run[t] = "locking"
        PROVE  Guarded' /\ OneHas'
    <2>1. /\ run'[t] = stage /\ (\A u \in Threads \ {t} : run'[u] = run[u])
          /\ UNCHANGED <<task, last, calm, dbs>> /\ Others(t)
      BY <1>0, <1>6, Stages DEF engine, Others
    <2>2. ASSUME Calm' PROVE Onward(t)
      <3>1. Calm
        BY <2>1, <2>2, CalmBefore
      <3>2. task'[t].pc # "failed" /\ ~Active(t)
        BY <1>0, <1>6, <2>1, <3>1 DEF Guarded, Active, In
      <3>3. last' # NoValue => \/ \E u \in Threads \ {t} : In(u, "locking") \/ Active(u)
                               \/ In(t, "locking")' \/ Active(t)'
        BY <1>0, <1>6, <2>1, <3>1, <3>2 DEF Guarded, Active, In
      <3>4. \A u \in Threads \ {t} : /\ MayTake(u)' = MayTake(u) /\ Active(u)' = Active(u)
                                     /\ Has(u)' = Has(u) /\ In(u, "locking")' = In(u, "locking")
                                     /\ (In(u, "checking") /\ Ended(u) /\ task[u].val = NoValue)'
                                          = (In(u, "checking") /\ Ended(u) /\ task[u].val = NoValue)
                                     /\ In(u, "checking") /\ Ended(u) /\ task[u].val = NoValue => MayTake(u)
                                     /\ In(u, "locking") => MayTake(u)
        BY <2>1 DEF Others, MayTake, Active, Has, In, Ended
      <3>5. /\ ~MayTake(t)' /\ ~In(t, "locking")' /\ ~In(t, "checking")'
            /\ Active(t)' => In(t, "locking") /\ MayTake(t) /\ run[t] = "locking"
        BY <1>6, <2>1, <3>1 DEF MayTake, Active, In
      <3>6. ASSUME ~raced, NEW u \in Threads \ {t}
            PROVE  Single(t, u)' /\ Single(u, t)' /\ Has(u)'
        <4>1. Single(t, u) /\ Single(u, t) /\ Has(u)
          BY <1>0, <3>1, <3>6 DEF OneHas
        <4>2. Active(t)' => ~Active(u) /\ ~MayTake(u)
          BY <3>5, <4>1 DEF Single
        <4>3. QED
          BY <3>4, <3>5, <4>1, <4>2 DEF Single
      <3>7. ASSUME ~raced PROVE Has(t)' /\ Single(t, t)'
        <4>1. Has(t)
          BY <1>0, <3>1, <3>7 DEF OneHas
        <4>2. QED
          BY <1>6, <2>1, <3>1, <3>5, <4>1 DEF Has, Single, In
      <3>8. QED
        BY <1>6, <3>1, <3>2, <3>3, <3>6, <3>7 DEF Onward
    <2>3. QED
      BY <1>0, <2>1, <2>2, OnwardLocking DEF Onward
  <1>7. ASSUME NEW t \in Threads, Refuse(t) \/ Answer(t) PROVE Guarded' /\ OneHas'
    BY <1>6, <1>7 DEF Refuse, Answer, Stage, In
  <1>8. ASSUME NEW t \in Threads, Execute(t) PROVE Guarded' /\ OneHas'
    <2>1. Calm => To(t, "running")
      BY <1>0, <1>8 DEF Execute, Guarded, State!At
    <2>2. QED
      BY <1>6, <1>8, <2>1 DEF Execute, Stage, In
  <1>9. ASSUME NEW t \in Threads, EngineStep(t) PROVE Guarded' /\ OneHas'
    BY <1>9, EngineStepLocking
  <1>10. ASSUME UNCHANGED <<task, last, dbs, run, raced>>, calm' => calm PROVE Guarded' /\ OneHas'
    <2>1. Calm' => Calm
      BY <1>10, CalmBefore
    <2>2. \A u \in Threads : /\ In(u, "locking")' = In(u, "locking") /\ Active(u)' = Active(u)
                             /\ MayTake(u)' = MayTake(u) /\ Has(u)' = Has(u)
                             /\ \A v \in Threads : Single(u, v)' = Single(u, v)
      BY <1>10 DEF In, Active, MayTake, Has, Single, Ended
    <2>3. QED
      BY <1>0, <1>10, <2>1, <2>2 DEF Guarded, OneHas
  <1>11. ASSUME NEW i \in Instances, RegisterCron(i) \/ DeleteCron(i) PROVE Guarded' /\ OneHas'
    BY <1>10, <1>11 DEF RegisterCron, DeleteCron, engine
  <1>12. ASSUME NEW i \in Instances, Crash(i) PROVE Guarded' /\ OneHas'
    BY <1>12 DEF Crash, Guarded, OneHas, Calm
  <1>13. CASE Elsewhere
    BY <1>0, <1>10, <1>13, ElsewhereKeeps
  <1>14. CASE UNCHANGED vars
    BY <1>10, <1>14 DEF vars
  <1>15. QED
    BY <1>3, <1>4, <1>5, <1>7, <1>8, <1>9, <1>11, <1>12, <1>13, <1>14 DEF Next, Request

\* The call that finds a lock finds the value that counts, and somebody has it.
LEMMA Found ==
    ASSUME Mongo = {}, Matched, Locking, Next, NEW t \in Threads, In(t, "checking"), ~Ended(t),
           task'[t].pc = "idle", task'[t].val # NoValue, calm', State!OneOfEach
    PROVE  \E u \in Threads \ {t} : run[u] \in {"locking", "running", "releasing"}
  <1> USE EndedLabels
  <1>0. /\ SP!Types /\ SP!TypeOK /\ SP!Serial /\ Guarded /\ Waits(t)
    BY DEF Matched, Locking, SP!Types
  <1>1. ASSUME task'[t] = task[t] PROVE FALSE
    BY <1>1 DEF Ended
  <1>2. ASSUME NEW u \in Threads, TriggerCron(u) \/ Acquire(u) \/ Release(u) PROVE FALSE
    <2>1. Ended(u) /\ Others(u)
      BY <1>0, <1>2, GetCalled, SaveCalled, DeleteCalled DEF TriggerCron, Acquire, Release, Begun
    <2>2. QED
      BY <1>1, <2>1 DEF Others
  <1>3. ASSUME NEW u \in Threads, Refuse(u) \/ Answer(u) \/ Execute(u) PROVE FALSE
    BY <1>1, <1>3 DEF Refuse, Answer, Execute, engine
  <1>4. ASSUME NEW i \in Instances, RegisterCron(i) \/ DeleteCron(i) \/ Crash(i) PROVE FALSE
    BY <1>1, <1>4 DEF RegisterCron, DeleteCron, Crash, engine
  <1>5. ASSUME Elsewhere PROVE FALSE
    BY <1>0, <1>1, <1>5, ElsewhereKeeps
  <1>6. ASSUME NEW u \in Threads, EngineStep(u)
        PROVE  \E v \in Threads \ {t} : run[v] \in {"locking", "running", "releasing"}
    <2>1. Others(u) /\ UNCHANGED dbs /\ (calm' => calm) /\ State!Step(u)
      BY <1>0, <1>6, EngineGoes DEF EngineStep
    <2>2. u = t
      BY <1>1, <2>1 DEF Others
    <2>3. Flow(t)
      BY <1>0, <2>1, <2>2, EngineGoes
    <2>4. task[t].pc \in Reads
      BY <1>0, <2>3 DEF Flow, Goes, Waits, In, Reads
    <2>5. Calm /\ Calm'
      BY <2>1 DEF Calm, State!OneOfEach, State!IsL1, State!IsL2
    <2>6. last # NoValue
      BY <1>0, <2>1, <2>2, <2>4, <2>5, GetFinds
    <2>7. PICK v \in Threads : In(v, "locking") \/ Active(v)
      BY <1>0, <2>5, <2>6 DEF Guarded
    <2>8. QED
      BY <2>7 DEF Active, In
  <1>7. QED
    BY <1>2, <1>3, <1>4, <1>5, <1>6 DEF Next, Request

LEMMA LockingAlways == Mongo = {} => (Spec => [](Matched /\ Locking))
  <1> SUFFICES ASSUME Mongo = {} PROVE Spec => [](Matched /\ Locking)
    OBVIOUS
  <1>1. Init => Matched /\ Locking
    BY MatchedInit, LockingInit
  <1>2. Matched /\ Locking /\ [Next]_vars => Matched' /\ Locking'
    BY MatchedStep, LockingStep
  <1>3. QED
    BY <1>1, <1>2, PTL DEF Spec

\* Where each call of the engine goes to the same Redis and to the same database,
\* and none overlaps another, fails or meets a crash, a request finds a lock only
\* while another one holds it.  With Mongo it is not so: a lock that Mongo has
\* taken once is never deleted.
THEOREM CronFoundOnlyWhileHeld == Mongo = {} => (Spec => FoundOnlyWhileHeld)
  <1> SUFFICES ASSUME Mongo = {} PROVE Spec => FoundOnlyWhileHeld
    OBVIOUS
  <1>1. Matched /\ Locking /\ [Next]_vars
        => [\A t \in Threads :
               /\ In(t, "checking")
               /\ ~Ended(t) /\ task'[t].pc = "idle" /\ task'[t].val # NoValue
               /\ calm' /\ State!OneOfEach
               => \E u \in Threads \ {t} : run[u] \in {"locking", "running", "releasing"}]_vars
    BY Found
  <1>2. QED
    BY <1>1, LockingAlways, PTL DEF Spec, FoundOnlyWhileHeld

\* For as long as that lasts, and nobody looked for the lock while another was
\* about to take it, one request at most runs.
THEOREM CronOneRunWithoutRaces == Mongo = {} => (Spec => []OneRunWithoutRaces)
  <1> SUFFICES ASSUME Mongo = {} PROVE Spec => []OneRunWithoutRaces
    OBVIOUS
  <1>1. Matched /\ Locking => OneRunWithoutRaces
    BY DEF Locking, OneHas, Single, Active, OneRunWithoutRaces, Running, Calm
  <1>2. QED
    BY <1>1, LockingAlways, PTL
=============================================================================
