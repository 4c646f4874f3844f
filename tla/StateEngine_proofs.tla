-------------------------- MODULE StateEngine_proofs --------------------------
(***************************************************************************)
(* The state engine for every number of calls that overlap, every set of   *)
(* values and of times to live, and every choice of providers.             *)
(***************************************************************************)
EXTENDS StateEngine, TLAPS

Task == [pc : Label, val : Value \cup {NoValue}, ttl : TTLs \cup {0}]

\* A value and the time it is saved with.
Saved(val, ttl) == val \in Value /\ ttl \in TTLs /\ (ttl = 0 => val.endless)

\* A save under way has both.
Saving == \A t \in Threads :
             task[t].pc \in {"setL1", "writeL2"} => Saved(task[t].val, task[t].ttl)

\* What has not run out is a value.
Rows == \A k \in Databases : l2[k].left > 0 => l2[k].val \in Value

Types == TypeOK /\ Saving /\ Rows

\* No two calls are under way.
Sole == \A t, u \in Threads : task[t].pc \notin Ended /\ task[u].pc \notin Ended => t = u

\* Redis has v or nothing, the database has v, or nothing if v stands for
\* nothing or SQLite lost it; without a database Redis has v for certain.
Agree(v) == /\ \A r \in Redis : IsL1(r) /\ l1[r].left > 0 => l1[r].val = v
            /\ \A k \in Databases : IsL2(k) => IF l2[k].left > 0 THEN l2[k].val = v
                                                               ELSE v = NoValue \/ Lost(v)
            /\ NoL2 => \A r \in Redis : IsL1(r) /\ l1[r].left = 0 => v = NoValue

\* Between the two writes of an operation, and between the two reads of a Get.
Halfway(t) ==
    /\ At(t, "writeL2") => \A r \in Redis :
          IsL1(r) => (l1[r].left > 0 => l1[r].val = task[t].val) /\ (NoL2 => l1[r].left > 0)
    /\ At(t, "delL2") => \A r \in Redis : IsL1(r) => l1[r].left = 0
    /\ At(t, "copy") => task[t].val = last
    /\ At(t, "readL2") /\ NoL2 => \A r \in Redis : IsL1(r) => l1[r].left = 0

Settled == \A t \in Threads : task[t].pc \notin {"writeL2", "delL2"}

\* What one call after the other finds where each goes to the same providers.
\* That they agree is not inductive: an operation writes the one before the other.
Serial == calm /\ OneOfEach => /\ dbs # {}
                               /\ Sole
                               /\ \A t \in Threads : Halfway(t)
                               /\ Settled => Agree(last)

-----------------------------------------------------------------------------
(* The providers.                                                          *)

\* The databases of the highest priority are of one category.
LEMMA L2Exists == \A k \in Databases : IsL2(k) => k \in dbs /\ ~NoL2
  BY DEF IsL2, NoL2

LEMMA OneL1 == OneOfEach => \A q, r \in Redis : IsL1(q) /\ IsL1(r) => q = r
  BY DEF OneOfEach, IsL1

LEMMA OneL2 == OneOfEach => \A k, m \in Databases : IsL2(k) /\ IsL2(m) => k = m
  BY L2Exists DEF OneOfEach

\* A registered provider that is no database is a Redis.
LEMMA RedisAlone == TypeOK /\ dbs # {} /\ NoL2 => \E r \in Redis : IsL1(r)
  BY DEF TypeOK, NoL2, IsL1, Providers

LEMMA Lefts == /\ Forever \in Nat /\ CopyTTL \in 1 .. Forever /\ CopyTTL < Forever
               /\ \A ttl \in TTLs : ttl \in 0 .. Forever /\ Lasting(ttl) \in 1 .. Forever
  BY StateAssumption DEF Forever, Lasting

LEMMA Entries ==
    /\ Nothing \in Entry /\ Nothing.left = 0 /\ Nothing.val = NoValue
    /\ \A v \in Value \cup {NoValue}, n \in 0 .. Forever : [val |-> v, left |-> n] \in Entry
  BY Lefts DEF Nothing, Entry

\* Time takes a value away or leaves it as it is.
LEMMA Ages ==
    ASSUME NEW e \in Entry
    PROVE  /\ Aged(e) \in Entry
           /\ Aged(e).left > 0 => e.left > 0 /\ Aged(e).val = e.val
           /\ e.left = 0 => Aged(e) = e
           /\ e.left # 1 /\ e.left > 0 => Aged(e).left > 0
  <1>1. e.val \in Value \cup {NoValue} /\ e.left \in 0 .. Forever /\ Forever \in Nat
    BY Lefts DEF Entry
  <1>2. CASE e.left \in {0, Forever}
    BY <1>1, <1>2, Lefts DEF Aged
  <1>3. CASE e.left = 1 /\ e.left # Forever
    BY <1>3, Entries DEF Aged
  <1>4. CASE e.left \notin {0, 1, Forever}
    <2>1. Aged(e) = [e EXCEPT !.left = e.left - 1]
      BY <1>4 DEF Aged
    <2>2. e.left - 1 \in 1 .. Forever /\ e.left > 0
      BY <1>1, <1>4
    <2>3. Aged(e) = [val |-> e.val, left |-> e.left - 1]
      BY <2>1 DEF Entry
    <2>4. QED
      BY <1>1, <1>4, <2>2, <2>3, Entries
  <1>5. QED
    BY <1>1, <1>2, <1>3, <1>4

\* What a row is after a unit of time, also one that SQLite keeps.
LEMMA RowsAge ==
    ASSUME TypeOK, Tick
    PROVE  /\ \A k \in Databases : l2'[k] = l2[k] \/ l2'[k] = Aged(l2[k])
           /\ l2' \in [Databases -> Entry]
           /\ \A r \in Redis : l1'[r] = Aged(l1[r])
           /\ l1' \in [Redis -> Entry]
  <1>1. PICK late \in SUBSET SQLite :
            l2' = [d \in Databases |-> IF d \in late THEN l2[d] ELSE Aged(l2[d])]
    BY DEF Tick
  <1>2. \A d \in Databases : l2[d] \in Entry /\ Aged(l2[d]) \in Entry
    BY Ages DEF TypeOK
  <1>3. l1' = [r \in Redis |-> Aged(l1[r])] /\ \A r \in Redis : Aged(l1[r]) \in Entry
    BY Ages DEF Tick, TypeOK
  <1>4. QED
    BY <1>1, <1>2, <1>3

-----------------------------------------------------------------------------
(* The calls.                                                              *)

\* What t holds is replaced.
Becomes(t, new) == task' = [task EXCEPT ![t] = new]

LEMMA Replaced ==
    ASSUME TypeOK, NEW t \in Threads, NEW new \in Task, Becomes(t, new)
    PROVE  /\ task' \in [Threads -> Task]
           /\ task'[t] = new
           /\ \A u \in Threads \ {t} : task'[u] = task[u]
  BY DEF TypeOK, Task, Becomes

LEMMA TaskFields ==
    ASSUME TypeOK, NEW t \in Threads
    PROVE  /\ task[t] \in Task
           /\ task[t].pc \in Label /\ task[t].val \in Value \cup {NoValue}
           /\ task[t].ttl \in TTLs \cup {0}
  BY DEF TypeOK, Task

LEMMA Going ==
    ASSUME TypeOK, NEW t \in Threads, NEW label \in Label, Goto(t, label)
    PROVE  LET new == [pc |-> label, val |-> task[t].val, ttl |-> task[t].ttl]
           IN  Becomes(t, new) /\ new \in Task
  <1>1. task[t] = [pc |-> task[t].pc, val |-> task[t].val, ttl |-> task[t].ttl]
    BY TaskFields DEF Task
  <1>2. [task[t] EXCEPT !.pc = label] = [pc |-> label, val |-> task[t].val, ttl |-> task[t].ttl]
    BY <1>1
  <1>3. QED
    BY <1>2, TaskFields DEF Goto, Becomes, Task

LEMMA Returning ==
    ASSUME NEW t \in Threads, NEW val \in Value \cup {NoValue}, Return(t, val)
    PROVE  LET new == [pc |-> "idle", val |-> val, ttl |-> 0]
           IN  Becomes(t, new) /\ new \in Task
  <1>1. [Idle EXCEPT !.val = val] = [pc |-> "idle", val |-> val, ttl |-> 0]
    BY DEF Idle
  <1>2. QED
    BY <1>1 DEF Return, Becomes, Task, Label, Ended

LEMMA Failing ==
    ASSUME NEW t \in Threads, Error(t)
    PROVE  LET new == [pc |-> "failed", val |-> NoValue, ttl |-> 0]
           IN  Becomes(t, new) /\ new \in Task
  <1>1. [Idle EXCEPT !.pc = "failed"] = [pc |-> "failed", val |-> NoValue, ttl |-> 0]
    BY DEF Idle
  <1>2. QED
    BY <1>1 DEF Error, Becomes, Task, Label, Ended

\* What a call that changes leaves typed.
LEMMA Typed ==
    ASSUME Types, NEW t \in Threads, NEW new \in Task, Becomes(t, new),
           new.pc \in {"setL1", "writeL2"} => Saved(new.val, new.ttl),
           dbs' \in SUBSET Providers, l1' \in [Redis -> Entry], l2' \in [Databases -> Entry], Rows',
           last' \in Value \cup {NoValue}, calm' \in BOOLEAN
    PROVE  Types'
  <1>1. /\ task' \in [Threads -> Task] /\ task'[t] = new
        /\ \A u \in Threads \ {t} : task'[u] = task[u]
    BY Replaced DEF Types
  <1>2. TypeOK'
    BY <1>1 DEF TypeOK, Task
  <1>3. Saving'
    BY <1>1 DEF Types, Saving
  <1>4. QED
    BY <1>2, <1>3 DEF Types

LEMMA PlainValue == \A j \in Json, ttl \in TTLs : Saved(Plain(j, ttl), ttl)
  BY DEF Plain, Value, Saved

LEMMA FetchedValue ==
    ASSUME Types, NEW k \in Databases, l2[k].left > 0
    PROVE  Fetched(k) \in Value
  <1>1. l2[k].val \in Value
    BY DEF Types, Rows
  <1>2. QED
    BY <1>1 DEF Fetched, Value

LEMMA WrittenRow ==
    ASSUME Types, NEW t \in Threads, At(t, "writeL2"), NEW k \in Databases
    PROVE  /\ task[t].val \in Value /\ task[t].ttl \in TTLs
           /\ Written(k, t).val = task[t].val
           /\ task[t].ttl = 0 => task[t].val.endless
           /\ Written(k, t).left = IF k \in Mongo THEN Forever ELSE task[t].ttl
           /\ Written(k, t) \in Entry
  <1>1. task[t].val \in Value /\ task[t].ttl \in TTLs /\ (task[t].ttl = 0 => task[t].val.endless)
    BY DEF Types, Saving, Saved, At
  <1>2. task[t].ttl \in 0 .. Forever /\ Forever \in 0 .. Forever
    BY <1>1, Lefts
  <1>3. QED
    BY <1>1, <1>2 DEF Written, Entry

LEMMA Labels ==
    /\ {"setL1", "writeL2", "readL1", "readL2", "copy", "delL1", "delL2", "idle", "failed"} \subseteq Label
    /\ Ended = {"idle", "failed"}
  BY DEF Label, Ended

\* A call that begins.
LEMMA Begins ==
    ASSUME Types, NEW t \in Threads, NEW label \in Label, NEW val \in Value \cup {NoValue},
           NEW ttl \in TTLs \cup {0}, Begin(t, label, val, ttl),
           label \in {"setL1", "writeL2"} => Saved(val, ttl)
    PROVE  /\ Types'
           /\ task[t].pc \in Ended
           /\ Becomes(t, [pc |-> label, val |-> val, ttl |-> ttl])
           /\ UNCHANGED <<dbs, l1, l2, last>>
           /\ calm' => calm /\ ~Busy
  <1> DEFINE new == [pc |-> label, val |-> val, ttl |-> ttl]
  <1>1. Becomes(t, new) /\ new \in Task /\ UNCHANGED <<dbs, l1, l2, last>> /\ task[t].pc \in Ended
    BY DEF Begin, Becomes, Task
  <1>2. calm' = (calm /\ ~Busy)
    BY DEF Begin
  <1>3. calm' \in BOOLEAN /\ (calm' => calm /\ ~Busy)
    BY <1>2, Zenon
  <1>4. Rows' /\ TypeOK
    BY <1>1 DEF Types, Rows
  <1>5. /\ l1' \in [Redis -> Entry] /\ l2' \in [Databases -> Entry] /\ dbs' \in SUBSET Providers
        /\ last' \in Value \cup {NoValue}
    BY <1>1, <1>4 DEF TypeOK
  <1>6. new.pc \in {"setL1", "writeL2"} => Saved(new.val, new.ttl)
    OBVIOUS
  <1> HIDE DEF new
  <1>7. Types'
    BY <1>1, <1>3, <1>4, <1>5, <1>6, Typed
  <1>8. QED
    BY <1>1, <1>3, <1>7 DEF new

\* The effect on Redis, if it has any, and what calm remembers.
LEMMA RedisDoes ==
    ASSUME TypeOK, NEW entry, entry \in Entry, InRedis(entry)
    PROVE  /\ l1' \in [Redis -> Entry] /\ calm' \in BOOLEAN /\ (calm' => calm)
           /\ calm' /\ OneOfEach => \A r \in Redis : IsL1(r) => l1'[r] = entry
  <1>1. CASE NoL1 /\ UNCHANGED <<l1, calm>>
    BY <1>1 DEF TypeOK, NoL1, IsL1
  <1>2. CASE \E r \in Redis : IsL1(r) /\ l1' = [l1 EXCEPT ![r] = entry] /\ UNCHANGED calm
    <2>1. PICK r \in Redis : IsL1(r) /\ l1' = [l1 EXCEPT ![r] = entry] /\ UNCHANGED calm
      BY <1>2
    <2>2. l1' \in [Redis -> Entry] /\ l1'[r] = entry /\ calm' \in BOOLEAN
      BY <2>1 DEF TypeOK
    <2>3. QED
      BY <2>1, <2>2, OneL1
  <1>3. CASE UNCHANGED l1 /\ calm' = FALSE
    BY <1>3 DEF TypeOK
  <1>4. QED
    BY <1>1, <1>2, <1>3 DEF InRedis

-----------------------------------------------------------------------------
(* What each call of a provider does.                                      *)

LEMMA SetL1Does ==
    ASSUME Types, NEW t \in Threads, SetL1(t)
    PROVE  /\ Types'
           /\ At(t, "setL1") /\ UNCHANGED <<dbs, l2, last>>
           /\ Becomes(t, [pc |-> "writeL2", val |-> task[t].val, ttl |-> task[t].ttl])
           /\ calm' => calm
           /\ calm' /\ OneOfEach => \A r \in Redis :
                 IsL1(r) => l1'[r] = [val |-> task[t].val, left |-> Lasting(task[t].ttl)]
  <1> DEFINE new == [pc |-> "writeL2", val |-> task[t].val, ttl |-> task[t].ttl]
             entry == [val |-> task[t].val, left |-> Lasting(task[t].ttl)]
  <1>0. TypeOK /\ Rows
    BY DEF Types
  <1>1. Becomes(t, new) /\ new \in Task
    BY <1>0, Going, Labels DEF SetL1
  <1>2. Saved(task[t].val, task[t].ttl)
    BY DEF SetL1, At, Types, Saving
  <1>3. entry \in Entry
    BY <1>2, Lefts DEF Entry, Saved
  <1>4. InRedis(entry)
    BY DEF SetL1
  <1> HIDE DEF entry
  <1>5. /\ l1' \in [Redis -> Entry] /\ calm' \in BOOLEAN /\ (calm' => calm)
        /\ calm' /\ OneOfEach => \A r \in Redis : IsL1(r) => l1'[r] = entry
    BY <1>0, <1>3, <1>4, RedisDoes
  <1>6. UNCHANGED <<dbs, l2, last>>
    BY DEF SetL1
  <1>7. /\ dbs' \in SUBSET Providers /\ l2' \in [Databases -> Entry] /\ Rows'
        /\ last' \in Value \cup {NoValue}
    BY <1>0, <1>6 DEF TypeOK, Rows
  <1>8. Saved(new.val, new.ttl)
    BY <1>2
  <1> HIDE DEF new
  <1>9. Types'
    BY <1>1, <1>5, <1>7, <1>8, Typed
  <1>10. QED
    BY <1>1, <1>5, <1>6, <1>9 DEF SetL1, new, entry

LEMMA WriteL2Does ==
    ASSUME Types, NEW t \in Threads, WriteL2(t)
    PROVE  /\ Types'
           /\ At(t, "writeL2") /\ UNCHANGED <<dbs, l1>>
           /\ calm' => calm
           /\ \/ /\ Becomes(t, [pc |-> "idle", val |-> NoValue, ttl |-> 0])
                 /\ last' = task[t].val
                 /\ \/ NoL2 /\ l2' = l2
                    \/ \E k \in Databases : /\ IsL2(k) /\ Accepts(k, t)
                                            /\ l2' = [l2 EXCEPT ![k] = Written(k, t)]
              \/ /\ Becomes(t, [pc |-> "failed", val |-> NoValue, ttl |-> 0])
                 /\ UNCHANGED <<l2, last>> /\ ~calm'
  <1> DEFINE done == [pc |-> "idle", val |-> NoValue, ttl |-> 0]
             failed == [pc |-> "failed", val |-> NoValue, ttl |-> 0]
  <1>0. TypeOK /\ Rows /\ At(t, "writeL2") /\ UNCHANGED <<dbs, l1>>
    BY DEF Types, WriteL2
  <1>1. task[t].val \in Value
    BY <1>0 DEF Types, Saving, Saved, At
  <1>2. done \in Task /\ failed \in Task
    BY DEF Task, Label, Ended
  <1>3. dbs' \in SUBSET Providers /\ l1' \in [Redis -> Entry]
    BY <1>0 DEF TypeOK
  <1>4. CASE NoL2 /\ last' = task[t].val /\ Return(t, NoValue) /\ UNCHANGED <<l2, calm>>
    <2>1. Becomes(t, done)
      BY <1>4, Returning
    <2>2. Rows' /\ l2' \in [Databases -> Entry] /\ last' \in Value \cup {NoValue} /\ calm' \in BOOLEAN
      BY <1>0, <1>1, <1>4 DEF TypeOK, Rows
    <2>3. Types'
      BY <1>2, <1>3, <2>1, <2>2, Typed
    <2>4. QED
      BY <1>0, <1>4, <2>1, <2>3
  <1>5. ASSUME NEW k \in Databases, IsL2(k), Accepts(k, t), l2' = [l2 EXCEPT ![k] = Written(k, t)],
               last' = task[t].val, Return(t, NoValue), UNCHANGED calm
        PROVE  /\ Types' /\ Becomes(t, done)
    <2>1. Becomes(t, done)
      BY <1>5, Returning
    <2>2. Written(k, t) \in Entry /\ Written(k, t).val \in Value
      BY <1>0, WrittenRow
    <2>3. l2' \in [Databases -> Entry] /\ last' \in Value \cup {NoValue} /\ calm' \in BOOLEAN
      BY <1>0, <1>1, <1>5, <2>2 DEF TypeOK
    <2>4. Rows'
      BY <1>0, <1>5, <2>2 DEF TypeOK, Rows
    <2>5. QED
      BY <1>2, <1>3, <2>1, <2>3, <2>4, Typed
  <1>6. CASE Error(t) /\ calm' = FALSE /\ UNCHANGED <<l2, last>>
    <2>1. Becomes(t, failed)
      BY <1>6, Failing
    <2>2. Rows' /\ l2' \in [Databases -> Entry] /\ last' \in Value \cup {NoValue} /\ calm' \in BOOLEAN
      BY <1>0, <1>6 DEF TypeOK, Rows
    <2>3. Types'
      BY <1>2, <1>3, <2>1, <2>2, Typed
    <2>4. QED
      BY <1>0, <1>6, <2>1, <2>3
  <1>7. \/ NoL2 /\ last' = task[t].val /\ Return(t, NoValue) /\ UNCHANGED <<l2, calm>>
        \/ \E k \in Databases : /\ IsL2(k) /\ Accepts(k, t)
                                /\ l2' = [l2 EXCEPT ![k] = Written(k, t)]
                                /\ last' = task[t].val /\ Return(t, NoValue) /\ UNCHANGED calm
        \/ Error(t) /\ calm' = FALSE /\ UNCHANGED <<l2, last>>
    BY DEF WriteL2
  <1>8. CASE \E k \in Databases : /\ IsL2(k) /\ Accepts(k, t)
                                 /\ l2' = [l2 EXCEPT ![k] = Written(k, t)]
                                 /\ last' = task[t].val /\ Return(t, NoValue) /\ UNCHANGED calm
    <2>1. PICK k \in Databases : /\ IsL2(k) /\ Accepts(k, t)
                                 /\ l2' = [l2 EXCEPT ![k] = Written(k, t)]
                                 /\ last' = task[t].val /\ Return(t, NoValue) /\ UNCHANGED calm
      BY <1>8
    <2>2. Types' /\ Becomes(t, done)
      BY <1>5, <2>1
    <2>3. calm' => calm
      BY <2>1
    <2>4. QED
      BY <1>0, <2>1, <2>2, <2>3
  <1>9. QED
    BY <1>4, <1>6, <1>7, <1>8

LEMMA ReadL1Does ==
    ASSUME Types, NEW t \in Threads, ReadL1(t)
    PROVE  /\ Types'
           /\ At(t, "readL1") /\ UNCHANGED <<dbs, l1, l2, last>>
           /\ calm' => calm
           /\ \/ \E r \in Redis : /\ IsL1(r) /\ l1[r].left > 0
                                  /\ Becomes(t, [pc |-> "idle", val |-> l1[r].val, ttl |-> 0])
              \/ /\ Becomes(t, [pc |-> "readL2", val |-> task[t].val, ttl |-> task[t].ttl])
                 /\ calm' /\ OneOfEach => \A r \in Redis : IsL1(r) => l1[r].left = 0
  <1>0. TypeOK /\ Rows /\ At(t, "readL1") /\ UNCHANGED <<dbs, l1, l2, last>>
    BY DEF Types, ReadL1
  <1>1. /\ dbs' \in SUBSET Providers /\ l1' \in [Redis -> Entry] /\ l2' \in [Databases -> Entry] /\ Rows'
        /\ last' \in Value \cup {NoValue} /\ \A r \in Redis : l1[r].val \in Value \cup {NoValue}
    BY <1>0 DEF TypeOK, Rows, Entry
  <1>2. CASE \E r \in Redis : IsL1(r) /\ l1[r].left > 0 /\ Return(t, l1[r].val) /\ UNCHANGED calm
    <2>0. PICK r \in Redis : IsL1(r) /\ l1[r].left > 0 /\ Return(t, l1[r].val) /\ UNCHANGED calm
      BY <1>2
    <2>1. Becomes(t, [pc |-> "idle", val |-> l1[r].val, ttl |-> 0]) /\ calm' \in BOOLEAN
      BY <1>0, <1>1, <2>0, Returning DEF TypeOK
    <2>2. [pc |-> "idle", val |-> l1[r].val, ttl |-> 0] \in Task
      BY <1>1 DEF Task, Label, Ended
    <2>3. Types'
      BY <1>1, <2>1, <2>2, Typed
    <2>4. QED
      BY <1>0, <2>0, <2>1, <2>3
  <1>3. CASE /\ Goto(t, "readL2") /\ calm' \in BOOLEAN /\ (calm' => calm)
             /\ calm' /\ OneOfEach => \A r \in Redis : IsL1(r) => l1[r].left = 0
    <2> DEFINE new == [pc |-> "readL2", val |-> task[t].val, ttl |-> task[t].ttl]
    <2>1. Becomes(t, new) /\ new \in Task
      BY <1>0, <1>3, Going, Labels
    <2>2. new.pc \notin {"setL1", "writeL2"}
      OBVIOUS
    <2>3. Types'
      <3> HIDE DEF new
      <3> QED
        BY <1>1, <1>3, <2>1, <2>2, Typed
    <2>4. QED
      BY <1>0, <1>3, <2>1, <2>3
  <1>4. CASE /\ Goto(t, "readL2") /\ UNCHANGED calm
             /\ NoL1 \/ \E r \in Redis : IsL1(r) /\ l1[r].left = 0
    <2>1. OneOfEach => \A r \in Redis : IsL1(r) => l1[r].left = 0
      BY <1>4, OneL1 DEF NoL1, IsL1
    <2>2. QED
      BY <1>0, <1>3, <1>4, <2>1 DEF TypeOK
  <1>5. CASE Goto(t, "readL2") /\ calm' = FALSE
    BY <1>3, <1>5
  <1>6. QED
    BY <1>2, <1>4, <1>5 DEF ReadL1

LEMMA ReadL2Does ==
    ASSUME Types, NEW t \in Threads, ReadL2(t)
    PROVE  /\ Types'
           /\ At(t, "readL2") /\ UNCHANGED <<dbs, l1, l2, last>>
           /\ calm' => calm
           /\ \/ \E k \in Databases : /\ IsL2(k) /\ l2[k].left > 0
                                      /\ Becomes(t, [pc |-> "copy", val |-> Fetched(k), ttl |-> 0])
              \/ /\ Becomes(t, [pc |-> "idle", val |-> NoValue, ttl |-> 0])
                 /\ calm' => NoL2 \/ \E k \in Databases : IsL2(k) /\ l2[k].left = 0
  <1>0. TypeOK /\ Rows /\ At(t, "readL2") /\ UNCHANGED <<dbs, l1, l2, last>>
    BY DEF Types, ReadL2
  <1>1. /\ dbs' \in SUBSET Providers /\ l1' \in [Redis -> Entry] /\ l2' \in [Databases -> Entry] /\ Rows'
        /\ last' \in Value \cup {NoValue}
    BY <1>0 DEF TypeOK, Rows
  <1>2. calm' \in BOOLEAN /\ (calm' => calm)
    <2>1. calm' = calm \/ calm' = FALSE
      BY DEF ReadL2
    <2>2. CASE calm' = calm
      BY <1>0, <2>2 DEF TypeOK
    <2>3. CASE calm' = FALSE
      BY <2>3
    <2>4. QED
      BY <2>1, <2>2, <2>3
  <1>3. ASSUME NEW k \in Databases, l2[k].left > 0,
               task' = [task EXCEPT ![t] = [pc |-> "copy", val |-> Fetched(k), ttl |-> 0]]
        PROVE  Types' /\ Becomes(t, [pc |-> "copy", val |-> Fetched(k), ttl |-> 0])
    <2>1. Becomes(t, [pc |-> "copy", val |-> Fetched(k), ttl |-> 0])
      BY <1>3 DEF Becomes
    <2>2. [pc |-> "copy", val |-> Fetched(k), ttl |-> 0] \in Task
      BY <1>3, FetchedValue DEF Task, Label, Ended
    <2>3. QED
      BY <1>1, <1>2, <2>1, <2>2, Typed
  <1>4. ASSUME Return(t, NoValue)
        PROVE  Types' /\ Becomes(t, [pc |-> "idle", val |-> NoValue, ttl |-> 0])
    <2>1. Becomes(t, [pc |-> "idle", val |-> NoValue, ttl |-> 0])
      BY <1>4, Returning
    <2>2. [pc |-> "idle", val |-> NoValue, ttl |-> 0] \in Task
      BY DEF Task, Label, Ended
    <2>3. QED
      BY <1>1, <1>2, <2>1, <2>2, Typed
  <1>5. \/ \E k \in Databases :
              /\ IsL2(k) /\ l2[k].left > 0
              /\ task' = [task EXCEPT ![t] = [pc |-> "copy", val |-> Fetched(k), ttl |-> 0]]
        \/ /\ Return(t, NoValue)
           /\ calm' => NoL2 \/ \E k \in Databases : IsL2(k) /\ l2[k].left = 0
    BY DEF ReadL2
  <1>6. QED
    BY <1>0, <1>2, <1>3, <1>4, <1>5

LEMMA CopyDoes ==
    ASSUME Types, NEW t \in Threads, Copy(t)
    PROVE  /\ Types'
           /\ At(t, "copy") /\ UNCHANGED <<dbs, l2, last>>
           /\ Becomes(t, [pc |-> "idle", val |-> task[t].val, ttl |-> 0])
           /\ calm' => calm
           /\ calm' /\ OneOfEach => \A r \in Redis :
                 IsL1(r) => l1'[r] = [val |-> task[t].val, left |-> CopyTTL]
  <1> DEFINE new == [pc |-> "idle", val |-> task[t].val, ttl |-> 0]
             entry == [val |-> task[t].val, left |-> CopyTTL]
  <1>0. TypeOK /\ Rows /\ task[t].val \in Value \cup {NoValue}
    BY TaskFields DEF Types
  <1>1. Becomes(t, new) /\ new \in Task
    BY <1>0, Returning DEF Copy
  <1>2. entry \in Entry
    BY <1>0, Lefts DEF Entry
  <1>3. InRedis(entry)
    BY DEF Copy
  <1> HIDE DEF entry
  <1>4. /\ l1' \in [Redis -> Entry] /\ calm' \in BOOLEAN /\ (calm' => calm)
        /\ calm' /\ OneOfEach => \A r \in Redis : IsL1(r) => l1'[r] = entry
    BY <1>0, <1>2, <1>3, RedisDoes
  <1>5. UNCHANGED <<dbs, l2, last>>
    BY DEF Copy
  <1>6. /\ dbs' \in SUBSET Providers /\ l2' \in [Databases -> Entry] /\ Rows'
        /\ last' \in Value \cup {NoValue}
    BY <1>0, <1>5 DEF TypeOK, Rows
  <1>7. new.pc \notin {"setL1", "writeL2"}
    OBVIOUS
  <1>8. Types'
    <2> HIDE DEF new
    <2> QED
      BY <1>1, <1>4, <1>6, <1>7, Typed
  <1>9. QED
    BY <1>1, <1>4, <1>5, <1>8 DEF Copy, entry

LEMMA DelL1Does ==
    ASSUME Types, NEW t \in Threads, DelL1(t)
    PROVE  /\ Types'
           /\ At(t, "delL1") /\ UNCHANGED <<dbs, l2, last>>
           /\ Becomes(t, [pc |-> "delL2", val |-> task[t].val, ttl |-> task[t].ttl])
           /\ calm' => calm
           /\ calm' /\ OneOfEach => \A r \in Redis : IsL1(r) => l1'[r] = Nothing
  <1> DEFINE new == [pc |-> "delL2", val |-> task[t].val, ttl |-> task[t].ttl]
  <1>0. TypeOK /\ Rows /\ Nothing \in Entry
    BY Entries DEF Types
  <1>1. Becomes(t, new) /\ new \in Task
    BY <1>0, Going, Labels DEF DelL1
  <1>2. InRedis(Nothing)
    BY DEF DelL1
  <1>3. /\ l1' \in [Redis -> Entry] /\ calm' \in BOOLEAN /\ (calm' => calm)
        /\ calm' /\ OneOfEach => \A r \in Redis : IsL1(r) => l1'[r] = Nothing
    BY <1>0, <1>2, RedisDoes
  <1>4. UNCHANGED <<dbs, l2, last>>
    BY DEF DelL1
  <1>5. /\ dbs' \in SUBSET Providers /\ l2' \in [Databases -> Entry] /\ Rows'
        /\ last' \in Value \cup {NoValue}
    BY <1>0, <1>4 DEF TypeOK, Rows
  <1>6. new.pc \notin {"setL1", "writeL2"}
    OBVIOUS
  <1>7. Types'
    <2> HIDE DEF new
    <2> QED
      BY <1>1, <1>3, <1>5, <1>6, Typed
  <1>8. QED
    BY <1>1, <1>3, <1>4, <1>7 DEF DelL1

LEMMA DelL2Does ==
    ASSUME Types, NEW t \in Threads, DelL2(t)
    PROVE  /\ Types'
           /\ At(t, "delL2") /\ UNCHANGED <<dbs, l1>>
           /\ calm' => calm
           /\ \/ /\ Becomes(t, [pc |-> "idle", val |-> NoValue, ttl |-> 0])
                 /\ last' = NoValue
                 /\ \/ (NoL2 \/ \E k \in Mongo : IsL2(k)) /\ l2' = l2
                    \/ \E k \in Databases \ Mongo : IsL2(k) /\ l2' = [l2 EXCEPT ![k] = Nothing]
              \/ /\ Becomes(t, [pc |-> "failed", val |-> NoValue, ttl |-> 0])
                 /\ UNCHANGED <<l2, last>> /\ ~calm'
  <1> DEFINE done == [pc |-> "idle", val |-> NoValue, ttl |-> 0]
             failed == [pc |-> "failed", val |-> NoValue, ttl |-> 0]
  <1>0. TypeOK /\ Rows /\ At(t, "delL2") /\ UNCHANGED <<dbs, l1>>
    BY DEF Types, DelL2
  <1>1. done \in Task /\ failed \in Task
    BY DEF Task, Label, Ended
  <1>2. dbs' \in SUBSET Providers /\ l1' \in [Redis -> Entry]
    BY <1>0 DEF TypeOK
  <1>3. ASSUME last' = NoValue, Return(t, NoValue), UNCHANGED calm,
               l2' = l2 \/ \E k \in Databases : l2' = [l2 EXCEPT ![k] = Nothing]
        PROVE  Types'
    <2>1. Becomes(t, done)
      BY <1>3, Returning
    <2>2. last' \in Value \cup {NoValue} /\ calm' \in BOOLEAN
      BY <1>0, <1>3 DEF TypeOK
    <2>3. l2' \in [Databases -> Entry] /\ Rows'
      BY <1>0, <1>3, Entries DEF TypeOK, Rows
    <2>4. QED
      BY <1>1, <1>2, <2>1, <2>2, <2>3, Typed
  <1>4. CASE Error(t) /\ calm' = FALSE /\ UNCHANGED <<l2, last>>
    <2>1. Becomes(t, failed)
      BY <1>4, Failing
    <2>2. Rows' /\ l2' \in [Databases -> Entry] /\ last' \in Value \cup {NoValue} /\ calm' \in BOOLEAN
      BY <1>0, <1>4 DEF TypeOK, Rows
    <2>3. Types'
      BY <1>1, <1>2, <2>1, <2>2, Typed
    <2>4. QED
      BY <1>0, <1>4, <2>1, <2>3
  <1>5. \/ /\ last' = NoValue /\ Return(t, NoValue) /\ UNCHANGED calm
           /\ \/ (NoL2 \/ \E k \in Mongo : IsL2(k)) /\ l2' = l2
              \/ \E k \in Databases \ Mongo : IsL2(k) /\ l2' = [l2 EXCEPT ![k] = Nothing]
        \/ Error(t) /\ calm' = FALSE /\ UNCHANGED <<l2, last>>
    BY DEF DelL2
  <1>6. CASE /\ last' = NoValue /\ Return(t, NoValue) /\ UNCHANGED calm
             /\ \/ (NoL2 \/ \E k \in Mongo : IsL2(k)) /\ l2' = l2
                \/ \E k \in Databases \ Mongo : IsL2(k) /\ l2' = [l2 EXCEPT ![k] = Nothing]
    <2>1. l2' = l2 \/ \E k \in Databases : l2' = [l2 EXCEPT ![k] = Nothing]
      BY <1>6
    <2>2. Types'
      BY <1>3, <1>6, <2>1
    <2>3. Becomes(t, done)
      BY <1>6, Returning
    <2>4. QED
      BY <1>0, <1>6, <2>2, <2>3
  <1>7. QED
    BY <1>4, <1>5, <1>6

\* What happens to the providers themselves.
LEMMA ElsewhereDoes ==
    ASSUME Types, (\E r \in Redis : Evict(r)) \/ Tick \/ \E p, q \in Providers : Register(p, q)
    PROVE  Types' /\ UNCHANGED <<task, last>> /\ (calm' => calm)
  <1>0. TypeOK /\ Rows /\ Saving
    BY DEF Types
  <1>1. CASE \E r \in Redis : Evict(r)
    <2>0. PICK r \in Redis : Evict(r)
      BY <1>1
    <2>1. calm' \in BOOLEAN /\ (calm' => calm)
      <3>1. calm' = (calm /\ ~NoL2)
        BY <2>0 DEF Evict
      <3>2. QED
        BY <3>1, Zenon
    <2>2. l1' \in [Redis -> Entry]
      BY <1>0, <2>0, Entries DEF Evict, TypeOK
    <2>3. UNCHANGED <<dbs, l2, task, last>>
      BY <2>0 DEF Evict
    <2>4. QED
      BY <1>0, <2>1, <2>2, <2>3 DEF TypeOK, Rows, Saving, Types
  <1>2. CASE Tick
    <2>1. calm' \in BOOLEAN /\ (calm' => calm)
      <3>1. calm' = (calm /\ (NoL2 => \A r \in Redis : l1[r].left # 1)
                         /\ \A k \in Databases : l2[k].left # 1)
        BY <1>2 DEF Tick
      <3>2. QED
        BY <3>1, Zenon
    <2>2. l1' \in [Redis -> Entry] /\ l2' \in [Databases -> Entry]
      BY <1>0, <1>2, RowsAge
    <2>3. \A k \in Databases : l2'[k].left > 0 => l2'[k].val \in Value
      <3>1. SUFFICES ASSUME NEW k \in Databases, l2'[k].left > 0 PROVE l2'[k].val \in Value
        OBVIOUS
      <3>2. l2'[k] = l2[k] \/ l2'[k] = Aged(l2[k])
        BY <1>0, <1>2, RowsAge
      <3>3. l2[k] \in Entry
        BY <1>0 DEF TypeOK
      <3>4. l2[k].left > 0 /\ l2'[k].val = l2[k].val
        BY <3>1, <3>2, <3>3, Ages
      <3>5. QED
        BY <1>0, <3>4 DEF Rows
    <2>4. UNCHANGED <<dbs, task, last>>
      BY <1>2 DEF Tick
    <2>5. TypeOK' /\ Saving' /\ Rows'
      BY <1>0, <2>1, <2>2, <2>3, <2>4 DEF TypeOK, Saving, Rows
    <2>6. QED
      BY <2>1, <2>4, <2>5 DEF Types
  <1>3. CASE \E p, q \in Providers : Register(p, q)
    <2>1. PICK p, q \in Providers : Register(p, q)
      BY <1>3
    <2>2. dbs' \in SUBSET Providers /\ calm' = FALSE /\ UNCHANGED <<l1, l2, task, last>>
      BY <1>0, <2>1 DEF Register, TypeOK
    <2>3. QED
      BY <1>0, <2>2 DEF TypeOK, Rows, Saving, Types
  <1>4. QED
    BY <1>1, <1>2, <1>3

\* The calls that begin, with what they begin with.
LEMMA CallBegins ==
    ASSUME NEW t \in Threads, Call(t)
    PROVE  \E label \in {"setL1", "readL1", "delL1"},
              val \in Value \cup {NoValue}, ttl \in TTLs \cup {0} :
                /\ Begin(t, label, val, ttl)
                /\ label = "setL1" => Saved(val, ttl)
  <1>1. CASE \E j \in Json, ttl \in TTLs : SaveState(t, j, ttl)
    <2>1. PICK j \in Json, ttl \in TTLs : Begin(t, "setL1", Plain(j, ttl), ttl)
      BY <1>1 DEF SaveState
    <2>2. Saved(Plain(j, ttl), ttl) /\ Plain(j, ttl) \in Value
      BY PlainValue DEF Saved
    <2>3. QED
      BY <2>1, <2>2
  <1>2. CASE GetState(t)
    BY <1>2 DEF GetState
  <1>3. CASE DeleteState(t)
    BY <1>3 DEF DeleteState
  <1>4. QED
    BY <1>1, <1>2, <1>3 DEF Call

LEMMA CallDoes ==
    ASSUME Types, NEW t \in Threads, Call(t)
    PROVE  /\ Types'
           /\ task[t].pc \in Ended /\ UNCHANGED <<dbs, l1, l2, last>>
           /\ \E new \in Task : Becomes(t, new) /\ new.pc \in {"setL1", "readL1", "delL1"}
           /\ calm' => calm /\ ~Busy
  <1>1. PICK label \in {"setL1", "readL1", "delL1"},
             val \in Value \cup {NoValue}, ttl \in TTLs \cup {0} :
                /\ Begin(t, label, val, ttl)
                /\ label = "setL1" => Saved(val, ttl)
    BY CallBegins
  <1>2. label \in Label
    BY Labels
  <1>3. /\ Types' /\ task[t].pc \in Ended /\ UNCHANGED <<dbs, l1, l2, last>>
        /\ calm' => calm /\ ~Busy
        /\ Becomes(t, [pc |-> label, val |-> val, ttl |-> ttl])
    BY <1>1, <1>2, Begins
  <1>4. [pc |-> label, val |-> val, ttl |-> ttl] \in Task
    BY <1>2 DEF Task
  <1>5. QED
    BY <1>3, <1>4

LEMMA TypesInit == Init => Types
  <1> SUFFICES ASSUME Init PROVE Types
    OBVIOUS
  <1>1. Nothing \in Entry /\ Nothing.left = 0
    BY Entries
  <1>2. Idle \in Task /\ Idle.pc = "idle"
    BY DEF Idle, Task, Label, Ended
  <1>3. QED
    BY <1>1, <1>2 DEF Init, Types, TypeOK, Saving, Rows, Task

LEMMA TypesStep == Types /\ [Next]_vars => Types'
  <1> SUFFICES ASSUME Types, [Next]_vars PROVE Types'
    OBVIOUS
  <1>1. ASSUME NEW t \in Threads, Call(t) PROVE Types'
    BY <1>1, CallDoes
  <1>2. ASSUME NEW t \in Threads, Step(t) PROVE Types'
    BY <1>2, SetL1Does, WriteL2Does, ReadL1Does, ReadL2Does, CopyDoes, DelL1Does, DelL2Does DEF Step
  <1>3. CASE (\E r \in Redis : Evict(r)) \/ Tick \/ \E p, q \in Providers : Register(p, q)
    BY <1>3, ElsewhereDoes
  <1>4. CASE UNCHANGED vars
    BY <1>4 DEF vars, Types, TypeOK, Saving, Rows
  <1>5. QED
    BY <1>1, <1>2, <1>3, <1>4 DEF Next

\* Every variable keeps its type: what a provider has is a value until it runs
\* out, and what a call carries to the second provider is what it began with.
THEOREM StateTypes == Spec => [](TypeOK /\ Saving /\ Rows)
  <1>1. Spec => []Types
    BY TypesInit, TypesStep, PTL DEF Spec
  <1>2. QED
    BY <1>1, PTL DEF Types

-----------------------------------------------------------------------------
(* One call after the other.                                               *)

\* What is left out: Mongo returns the document around a value and neither
\* replaces nor deletes it.
Exact == Mongo = {}

\* When t alone is under way, what the others hold cannot disturb anything.
LEMMA OnlyOne ==
    ASSUME TypeOK, NEW t \in Threads, NEW new \in Task, Becomes(t, new),
           \A u \in Threads \ {t} : task[u].pc \in Ended
    PROVE  /\ task'[t] = new
           /\ Sole'
           /\ \A u \in Threads \ {t} : Halfway(u)'
           /\ Settled' <=> new.pc \notin {"writeL2", "delL2"}
  <1>1. /\ task' \in [Threads -> Task] /\ task'[t] = new
        /\ \A u \in Threads \ {t} : task'[u] = task[u]
    BY Replaced
  <1>2. \A u \in Threads \ {t} : task'[u].pc \in Ended
    BY <1>1
  <1>3. Sole'
    BY <1>2 DEF Sole
  <1>4. \A u \in Threads \ {t} : Halfway(u)'
    BY <1>2, Labels DEF Halfway, At
  <1>5. Settled' <=> new.pc \notin {"writeL2", "delL2"}
    BY <1>1, <1>2, Labels DEF Settled
  <1>6. QED
    BY <1>1, <1>3, <1>4, <1>5

LEMMA Alone ==
    ASSUME Sole, NEW t \in Threads, task[t].pc \notin Ended
    PROVE  \A u \in Threads \ {t} : task[u].pc \in Ended
  BY DEF Sole

\* Every call goes to the same providers, and to no other after it.
Single == calm /\ OneOfEach

\* What the state is made of for a call that is alone.
LEMMA SerialNow ==
    ASSUME Types, Serial, Single, NEW t \in Threads, task[t].pc \notin Ended
    PROVE  /\ dbs # {} /\ Halfway(t)
           /\ \A u \in Threads \ {t} : task[u].pc \in Ended
           /\ task[t].pc \notin {"writeL2", "delL2"} => Agree(last)
  <1>1. dbs # {} /\ Sole /\ Halfway(t) /\ (Settled => Agree(last))
    BY DEF Serial, Single
  <1>2. \A u \in Threads \ {t} : task[u].pc \in Ended
    BY <1>1, Alone
  <1>3. task[t].pc \notin {"writeL2", "delL2"} => Settled
    BY <1>2, Labels DEF Settled
  <1>4. QED
    BY <1>1, <1>2, <1>3

LEMMA SerialThen ==
    ASSUME Types, NEW t \in Threads, NEW new \in Task, Becomes(t, new),
           Single' => /\ dbs' # {}
                      /\ \A u \in Threads \ {t} : task[u].pc \in Ended
                      /\ Halfway(t)'
                      /\ new.pc \notin {"writeL2", "delL2"} => Agree(last)'
    PROVE  Serial'
  <1> SUFFICES ASSUME Single'
               PROVE  dbs' # {} /\ Sole' /\ (\A u \in Threads : Halfway(u)') /\ (Settled' => Agree(last)')
    BY DEF Serial, Single
  <1>1. /\ dbs' # {} /\ Halfway(t)'
        /\ \A u \in Threads \ {t} : task[u].pc \in Ended
        /\ new.pc \notin {"writeL2", "delL2"} => Agree(last)'
    OBVIOUS
  <1>2. Sole' /\ (\A u \in Threads \ {t} : Halfway(u)') /\ (Settled' <=> new.pc \notin {"writeL2", "delL2"})
    BY <1>1, OnlyOne DEF Types
  <1>3. QED
    BY <1>1, <1>2

\* Which providers the calls go to does not change under calls.
LEMMA SameDbs ==
    UNCHANGED dbs => /\ NoL1' = NoL1 /\ NoL2' = NoL2 /\ OneOfEach' = OneOfEach
                     /\ \A p : IsL1(p)' = IsL1(p) /\ IsL2(p)' = IsL2(p)
                     /\ \A v : Lost(v)' = Lost(v)
  BY DEF NoL1, NoL2, OneOfEach, IsL1, IsL2, Lost

\* A step that is calm and leaves the providers was after another such state.
LEMMA WasSingle == ASSUME UNCHANGED dbs, calm' => calm, Single' PROVE Single /\ calm' /\ OneOfEach
  BY SameDbs DEF Single

LEMMA CallSerial == ASSUME Types, Serial, NEW t \in Threads, Call(t) PROVE Serial'
  <1>1. /\ task[t].pc \in Ended /\ UNCHANGED <<dbs, l1, l2, last>>
        /\ calm' => calm /\ ~Busy
    BY CallDoes
  <1>2. PICK new \in Task : Becomes(t, new) /\ new.pc \in {"setL1", "readL1", "delL1"}
    BY CallDoes
  <1>3. task'[t] = new
    BY <1>2, Replaced DEF Types
  <1>4. ASSUME Single'
        PROVE  /\ dbs' # {} /\ (\A u \in Threads \ {t} : task[u].pc \in Ended)
               /\ Halfway(t)' /\ Agree(last)'
    <2>0. Single /\ calm'
      BY <1>1, <1>4, WasSingle
    <2>1. dbs # {} /\ (Settled => Agree(last)) /\ \A u \in Threads : task[u].pc \in Ended
      BY <1>1, <2>0 DEF Serial, Single, Busy
    <2>2. Settled
      BY <2>1, Labels DEF Settled
    <2>3. Agree(last)'
      BY <1>1, <2>1, <2>2, SameDbs DEF Agree
    <2>4. Halfway(t)'
      BY <1>2, <1>3 DEF Halfway, At
    <2>5. QED
      BY <1>1, <2>1, <2>3, <2>4
  <1>5. QED
    BY <1>2, <1>4, SerialThen

LEMMA SetL1Serial == ASSUME Types, Serial, NEW t \in Threads, SetL1(t) PROVE Serial'
  <1> DEFINE new == [pc |-> "writeL2", val |-> task[t].val, ttl |-> task[t].ttl]
  <1>1. /\ At(t, "setL1") /\ UNCHANGED <<dbs, l2, last>> /\ Becomes(t, new) /\ (calm' => calm)
        /\ calm' /\ OneOfEach => \A r \in Redis :
              IsL1(r) => l1'[r] = [val |-> task[t].val, left |-> Lasting(task[t].ttl)]
    BY SetL1Does
  <1>2. new \in Task /\ new.pc = "writeL2" /\ new.val = task[t].val
    BY TaskFields, Labels DEF Types, Task
  <1>3. task'[t] = new
    BY <1>1, <1>2, Replaced DEF Types
  <1>4. ASSUME Single'
        PROVE  dbs' # {} /\ (\A u \in Threads \ {t} : task[u].pc \in Ended) /\ Halfway(t)'
    <2>0. Single /\ calm' /\ OneOfEach
      BY <1>1, <1>4, WasSingle
    <2>1. dbs # {} /\ \A u \in Threads \ {t} : task[u].pc \in Ended
      BY <1>1, <2>0, SerialNow, Labels DEF At
    <2>2. \A r \in Redis : IsL1(r) => l1'[r].val = task[t].val /\ l1'[r].left = Lasting(task[t].ttl)
      BY <1>1, <2>0
    <2>3. Lasting(task[t].ttl) > 0
      BY <1>1, Lefts DEF At, Types, Saving, Saved
    <2>4. Halfway(t)'
      BY <1>1, <1>2, <1>3, <2>2, <2>3, SameDbs DEF Halfway, At
    <2>5. QED
      BY <1>1, <2>1, <2>4
  <1> HIDE DEF new
  <1>5. QED
    BY <1>1, <1>2, <1>4, SerialThen

LEMMA WriteL2Serial == ASSUME Exact, Types, Serial, NEW t \in Threads, WriteL2(t) PROVE Serial'
  <1> DEFINE done == [pc |-> "idle", val |-> NoValue, ttl |-> 0]
             failed == [pc |-> "failed", val |-> NoValue, ttl |-> 0]
  <1>1. /\ At(t, "writeL2") /\ UNCHANGED <<dbs, l1>> /\ (calm' => calm)
        /\ \/ /\ Becomes(t, done) /\ last' = task[t].val
              /\ \/ NoL2 /\ l2' = l2
                 \/ \E k \in Databases : /\ IsL2(k) /\ Accepts(k, t)
                                         /\ l2' = [l2 EXCEPT ![k] = Written(k, t)]
           \/ Becomes(t, failed) /\ ~calm'
    BY WriteL2Does
  <1>2. done \in Task /\ failed \in Task /\ done.pc = "idle"
    BY DEF Task, Label, Ended
  <1>3. CASE Becomes(t, failed) /\ ~calm'
    BY <1>2, <1>3, SerialThen DEF Single
  <1>4. CASE /\ Becomes(t, done) /\ last' = task[t].val
             /\ \/ NoL2 /\ l2' = l2
                \/ \E k \in Databases : /\ IsL2(k) /\ Accepts(k, t)
                                        /\ l2' = [l2 EXCEPT ![k] = Written(k, t)]
    <2>1. task'[t] = done
      BY <1>2, <1>4, Replaced DEF Types
    <2>2. ASSUME Single'
          PROVE  /\ dbs' # {} /\ (\A u \in Threads \ {t} : task[u].pc \in Ended)
                 /\ Halfway(t)' /\ Agree(last)'
      <3>0. Single /\ OneOfEach
        BY <1>1, <2>2, WasSingle
      <3>1. dbs # {} /\ Halfway(t) /\ \A u \in Threads \ {t} : task[u].pc \in Ended
        BY <1>1, <3>0, SerialNow, Labels DEF At
      <3>2. \A r \in Redis : IsL1(r) => /\ l1[r].left > 0 => l1[r].val = last'
                                        /\ NoL2 => l1[r].left > 0
        BY <1>1, <1>4, <3>1 DEF Halfway
      <3>3. ASSUME NEW m \in Databases, IsL2(m)
            PROVE  IF l2'[m].left > 0 THEN l2'[m].val = last' ELSE Lost(last')
        <4>1. ~NoL2
          BY <3>3, L2Exists
        <4>2. PICK k \in Databases : IsL2(k) /\ Accepts(k, t) /\ l2' = [l2 EXCEPT ![k] = Written(k, t)]
          BY <1>4, <4>1
        <4>3. k = m /\ m \notin Mongo
          BY <3>0, <3>3, <4>2, OneL2 DEF Exact
        <4>4. l2'[m] = Written(m, t)
          BY <4>2, <4>3 DEF Types, TypeOK
        <4>5. /\ task[t].val \in Value /\ task[t].ttl \in TTLs
              /\ Written(m, t).val = task[t].val /\ Written(m, t).left = task[t].ttl
              /\ task[t].ttl = 0 => task[t].val.endless
          BY <1>1, <4>3, WrittenRow
        <4>6. CASE task[t].ttl > 0
          BY <1>4, <4>4, <4>5, <4>6
        <4>7. CASE task[t].ttl = 0
          <5>1. m \in SQLite
            BY <3>3, <4>2, <4>3, <4>7 DEF Accepts, Databases
          <5>2. last' # NoValue /\ last'.endless
            BY <1>4, <4>5, <4>7, StateAssumption DEF Value
          <5>3. l2'[m].left = 0
            BY <4>4, <4>5, <4>7
          <5>4. QED
            BY <3>3, <5>1, <5>2, <5>3 DEF Lost
        <4>8. QED
          BY <4>5, <4>6, <4>7, Lefts
      <3>4. Agree(last)'
        BY <1>1, <3>2, <3>3, SameDbs DEF Agree
      <3>5. Halfway(t)'
        BY <2>1 DEF Halfway, At
      <3>6. QED
        BY <1>1, <3>1, <3>4, <3>5
    <2>3. QED
      BY <1>2, <1>4, <2>2, SerialThen
  <1>5. QED
    BY <1>1, <1>3, <1>4

\* The first read: a hit is the last value; a miss without a database means
\* that there is none.
LEMMA ReadL1Serial ==
    ASSUME Types, Serial, NEW t \in Threads, ReadL1(t)
    PROVE  /\ Serial'
           /\ Single' /\ task'[t].pc = "idle" => task'[t].val = last
  <1>1. /\ At(t, "readL1") /\ UNCHANGED <<dbs, l1, l2, last>> /\ (calm' => calm)
        /\ \/ \E r \in Redis : /\ IsL1(r) /\ l1[r].left > 0
                               /\ Becomes(t, [pc |-> "idle", val |-> l1[r].val, ttl |-> 0])
           \/ /\ Becomes(t, [pc |-> "readL2", val |-> task[t].val, ttl |-> task[t].ttl])
              /\ calm' /\ OneOfEach => \A r \in Redis : IsL1(r) => l1[r].left = 0
    BY ReadL1Does
  <1>2. Single' => /\ dbs' # {} /\ (\A u \in Threads \ {t} : task[u].pc \in Ended)
                   /\ Agree(last) /\ Agree(last)'
    <2>1. SUFFICES ASSUME Single'
                   PROVE  /\ dbs # {} /\ (\A u \in Threads \ {t} : task[u].pc \in Ended)
                          /\ Agree(last)
      BY <1>1, SameDbs DEF Agree
    <2>2. Single
      BY <1>1, <2>1, WasSingle
    <2>3. QED
      BY <1>1, <2>2, SerialNow, Labels DEF At
  <1>3. CASE \E r \in Redis : /\ IsL1(r) /\ l1[r].left > 0
                              /\ Becomes(t, [pc |-> "idle", val |-> l1[r].val, ttl |-> 0])
    <2>0. PICK r \in Redis : /\ IsL1(r) /\ l1[r].left > 0
                             /\ Becomes(t, [pc |-> "idle", val |-> l1[r].val, ttl |-> 0])
      BY <1>3
    <2> DEFINE new == [pc |-> "idle", val |-> l1[r].val, ttl |-> 0]
    <2>1. new \in Task /\ new.pc = "idle" /\ new.val = l1[r].val
      BY DEF Task, Label, Ended, Types, TypeOK, Entry
    <2> HIDE DEF new
    <2>2. Becomes(t, new)
      BY <2>0 DEF new
    <2>3. task'[t] = new
      BY <2>1, <2>2, Replaced DEF Types
    <2>4. Halfway(t)'
      BY <2>1, <2>3 DEF Halfway, At
    <2>5. Single' => new.val = last
      BY <1>2, <2>0, <2>1 DEF Agree
    <2>6. QED
      BY <1>2, <2>1, <2>2, <2>3, <2>4, <2>5, SerialThen
  <1>4. CASE /\ Becomes(t, [pc |-> "readL2", val |-> task[t].val, ttl |-> task[t].ttl])
             /\ calm' /\ OneOfEach => \A r \in Redis : IsL1(r) => l1[r].left = 0
    <2> DEFINE new == [pc |-> "readL2", val |-> task[t].val, ttl |-> task[t].ttl]
    <2>1. new \in Task /\ new.pc = "readL2"
      BY TaskFields, Labels DEF Types, Task
    <2> HIDE DEF new
    <2>2. Becomes(t, new)
      BY <1>4 DEF new
    <2>3. task'[t] = new
      BY <2>1, <2>2, Replaced DEF Types
    <2>4. Single' => Halfway(t)'
      <3>1. Single' => \A r \in Redis : IsL1(r)' => l1'[r].left = 0
        BY <1>1, <1>4, WasSingle, SameDbs
      <3>2. QED
        BY <2>1, <2>3, <3>1 DEF Halfway, At
    <2>5. QED
      BY <1>2, <2>1, <2>2, <2>3, <2>4, SerialThen
  <1>5. QED
    BY <1>1, <1>3, <1>4

\* The second read, of the database.
LEMMA ReadL2Serial ==
    ASSUME Exact, Types, Serial, NEW t \in Threads, ReadL2(t)
    PROVE  /\ Serial'
           /\ Single' /\ ~Lost(last) /\ task'[t].pc = "idle" => task'[t].val = last
  <1>1. /\ At(t, "readL2") /\ UNCHANGED <<dbs, l1, l2, last>> /\ (calm' => calm)
        /\ \/ \E k \in Databases : /\ IsL2(k) /\ l2[k].left > 0
                                   /\ Becomes(t, [pc |-> "copy", val |-> Fetched(k), ttl |-> 0])
           \/ /\ Becomes(t, [pc |-> "idle", val |-> NoValue, ttl |-> 0])
              /\ calm' => NoL2 \/ \E k \in Databases : IsL2(k) /\ l2[k].left = 0
    BY ReadL2Does
  <1>2. Single' => /\ calm' /\ dbs' # {} /\ (\A u \in Threads \ {t} : task[u].pc \in Ended)
                   /\ dbs # {} /\ Halfway(t) /\ Agree(last) /\ Agree(last)'
    <2>1. SUFFICES ASSUME Single'
                   PROVE  /\ calm' /\ dbs # {} /\ (\A u \in Threads \ {t} : task[u].pc \in Ended)
                          /\ Halfway(t) /\ Agree(last)
      BY <1>1, SameDbs DEF Agree
    <2>2. Single /\ calm'
      BY <1>1, <2>1, WasSingle
    <2>3. QED
      BY <1>1, <2>2, SerialNow, Labels DEF At
  <1>3. ASSUME NEW k \in Databases, IsL2(k), l2[k].left > 0,
               Becomes(t, [pc |-> "copy", val |-> Fetched(k), ttl |-> 0])
        PROVE  Serial' /\ task'[t].pc = "copy"
    <2> DEFINE new == [pc |-> "copy", val |-> Fetched(k), ttl |-> 0]
    <2>1. new \in Task /\ new.pc = "copy" /\ new.val = Fetched(k)
      BY <1>3, FetchedValue DEF Task, Label, Ended
    <2> HIDE DEF new
    <2>2. Becomes(t, new)
      BY <1>3 DEF new
    <2>3. task'[t] = new
      BY <2>1, <2>2, Replaced DEF Types
    <2>4. Fetched(k) = l2[k].val
      BY DEF Exact, Fetched
    <2>5. Single' => Halfway(t)'
      BY <1>1, <1>2, <1>3, <2>1, <2>3, <2>4 DEF Halfway, At, Agree
    <2>6. QED
      BY <1>2, <2>1, <2>2, <2>3, <2>5, SerialThen
  <1>4. CASE /\ Becomes(t, [pc |-> "idle", val |-> NoValue, ttl |-> 0])
             /\ calm' => NoL2 \/ \E k \in Databases : IsL2(k) /\ l2[k].left = 0
    <2> DEFINE new == [pc |-> "idle", val |-> NoValue, ttl |-> 0]
    <2>1. new \in Task /\ new.pc = "idle" /\ new.val = NoValue
      BY DEF Task, Label, Ended
    <2> HIDE DEF new
    <2>2. Becomes(t, new)
      BY <1>4 DEF new
    <2>3. task'[t] = new
      BY <2>1, <2>2, Replaced DEF Types
    <2>4. Halfway(t)'
      BY <2>1, <2>3 DEF Halfway, At
    <2>5. Single' => last = NoValue \/ Lost(last)
      <3>1. CASE Single' /\ NoL2
        <4>1. PICK r \in Redis : IsL1(r)
          BY <1>2, <3>1, RedisAlone DEF Types
        <4>2. l1[r].left = 0
          BY <1>1, <1>2, <3>1, <4>1 DEF Halfway
        <4>3. QED
          BY <1>2, <3>1, <4>1, <4>2 DEF Agree
      <3>2. CASE Single' /\ \E k \in Databases : IsL2(k) /\ l2[k].left = 0
        BY <1>2, <3>2 DEF Agree
      <3>3. QED
        BY <1>2, <1>4, <3>1, <3>2
    <2>6. QED
      BY <1>2, <2>1, <2>2, <2>3, <2>4, <2>5, SerialThen
  <1>5. QED
    BY <1>1, <1>3, <1>4

\* The copy of the row brings Redis the value it lacks.
LEMMA CopySerial ==
    ASSUME Types, Serial, NEW t \in Threads, Copy(t)
    PROVE  /\ Serial'
           /\ Single' => task'[t].val = last
  <1> DEFINE new == [pc |-> "idle", val |-> task[t].val, ttl |-> 0]
  <1>1. /\ At(t, "copy") /\ UNCHANGED <<dbs, l2, last>> /\ Becomes(t, new) /\ (calm' => calm)
        /\ calm' /\ OneOfEach => \A r \in Redis :
              IsL1(r) => l1'[r] = [val |-> task[t].val, left |-> CopyTTL]
    BY CopyDoes
  <1>2. new \in Task /\ new.pc = "idle" /\ new.val = task[t].val
    BY TaskFields, Labels DEF Types, Task
  <1>3. task'[t] = new
    BY <1>1, <1>2, Replaced DEF Types
  <1> HIDE DEF new
  <1>4. ASSUME Single'
        PROVE  /\ dbs' # {} /\ (\A u \in Threads \ {t} : task[u].pc \in Ended)
               /\ task[t].val = last /\ Agree(last)'
    <2>0. Single /\ calm' /\ OneOfEach
      BY <1>1, <1>4, WasSingle
    <2>1. /\ dbs # {} /\ Halfway(t) /\ Agree(last)
          /\ \A u \in Threads \ {t} : task[u].pc \in Ended
      BY <1>1, <2>0, SerialNow, Labels DEF At
    <2>2. task[t].val = last
      BY <1>1, <2>1 DEF Halfway
    <2>3. \A r \in Redis : IsL1(r) => l1'[r].val = last /\ l1'[r].left > 0
      BY <1>1, <2>0, <2>2, StateAssumption
    <2>4. \A r \in Redis : IsL1(r) => l1'[r].left # 0
      BY <1>1, <2>0, StateAssumption
    <2>5. Agree(last)'
      BY <1>1, <2>1, <2>3, <2>4, SameDbs DEF Agree
    <2>6. QED
      BY <1>1, <2>1, <2>2, <2>5
  <1>5. Halfway(t)'
    BY <1>2, <1>3 DEF Halfway, At
  <1>6. QED
    BY <1>1, <1>2, <1>3, <1>4, <1>5, SerialThen

LEMMA DelL1Serial == ASSUME Types, Serial, NEW t \in Threads, DelL1(t) PROVE Serial'
  <1> DEFINE new == [pc |-> "delL2", val |-> task[t].val, ttl |-> task[t].ttl]
  <1>1. /\ At(t, "delL1") /\ UNCHANGED <<dbs, l2, last>> /\ Becomes(t, new) /\ (calm' => calm)
        /\ calm' /\ OneOfEach => \A r \in Redis : IsL1(r) => l1'[r] = Nothing
    BY DelL1Does
  <1>2. new \in Task /\ new.pc = "delL2"
    BY TaskFields, Labels DEF Types, Task
  <1>3. task'[t] = new
    BY <1>1, <1>2, Replaced DEF Types
  <1> HIDE DEF new
  <1>4. ASSUME Single'
        PROVE  dbs' # {} /\ (\A u \in Threads \ {t} : task[u].pc \in Ended) /\ Halfway(t)'
    <2>0. Single /\ calm' /\ OneOfEach
      BY <1>1, <1>4, WasSingle
    <2>1. dbs # {} /\ \A u \in Threads \ {t} : task[u].pc \in Ended
      BY <1>1, <2>0, SerialNow, Labels DEF At
    <2>2. \A r \in Redis : IsL1(r)' => l1'[r].left = 0
      BY <1>1, <2>0, SameDbs, Entries
    <2>3. Halfway(t)'
      BY <1>2, <1>3, <2>2 DEF Halfway, At
    <2>4. QED
      BY <1>1, <2>1, <2>3
  <1>5. QED
    BY <1>1, <1>2, <1>4, SerialThen

LEMMA DelL2Serial == ASSUME Exact, Types, Serial, NEW t \in Threads, DelL2(t) PROVE Serial'
  <1> DEFINE done == [pc |-> "idle", val |-> NoValue, ttl |-> 0]
             failed == [pc |-> "failed", val |-> NoValue, ttl |-> 0]
  <1>1. /\ At(t, "delL2") /\ UNCHANGED <<dbs, l1>> /\ (calm' => calm)
        /\ \/ /\ Becomes(t, done) /\ last' = NoValue
              /\ \/ (NoL2 \/ \E k \in Mongo : IsL2(k)) /\ l2' = l2
                 \/ \E k \in Databases \ Mongo : IsL2(k) /\ l2' = [l2 EXCEPT ![k] = Nothing]
           \/ Becomes(t, failed) /\ ~calm'
    BY DelL2Does
  <1>2. done \in Task /\ failed \in Task /\ done.pc = "idle"
    BY DEF Task, Label, Ended
  <1>3. CASE Becomes(t, failed) /\ ~calm'
    BY <1>2, <1>3, SerialThen DEF Single
  <1>4. CASE /\ Becomes(t, done) /\ last' = NoValue
             /\ \/ (NoL2 \/ \E k \in Mongo : IsL2(k)) /\ l2' = l2
                \/ \E k \in Databases \ Mongo : IsL2(k) /\ l2' = [l2 EXCEPT ![k] = Nothing]
    <2>1. task'[t] = done
      BY <1>2, <1>4, Replaced DEF Types
    <2>2. ASSUME Single'
          PROVE  /\ dbs' # {} /\ (\A u \in Threads \ {t} : task[u].pc \in Ended)
                 /\ Halfway(t)' /\ Agree(last)'
      <3>0. Single /\ OneOfEach
        BY <1>1, <2>2, WasSingle
      <3>1. dbs # {} /\ Halfway(t) /\ \A u \in Threads \ {t} : task[u].pc \in Ended
        BY <1>1, <3>0, SerialNow, Labels DEF At
      <3>2. \A r \in Redis : IsL1(r) => l1[r].left = 0
        BY <1>1, <3>1 DEF Halfway
      <3>3. ASSUME NEW m \in Databases, IsL2(m) PROVE l2'[m].left = 0
        <4>1. ~NoL2
          BY <3>3, L2Exists
        <4>2. PICK k \in Databases : IsL2(k) /\ l2' = [l2 EXCEPT ![k] = Nothing]
          BY <1>4, <4>1 DEF Exact
        <4>3. k = m
          BY <3>0, <3>3, <4>2, OneL2
        <4>4. QED
          BY <4>2, <4>3, Entries DEF Types, TypeOK
      <3>4. Agree(last)'
        BY <1>1, <1>4, <3>2, <3>3, SameDbs DEF Agree
      <3>5. Halfway(t)'
        BY <2>1 DEF Halfway, At
      <3>6. QED
        BY <1>1, <3>1, <3>4, <3>5
    <2>3. QED
      BY <1>2, <1>4, <2>2, SerialThen
  <1>5. QED
    BY <1>1, <1>3, <1>4

\* Evictions and time take nothing away that a Get still counts on.
LEMMA Fades ==
    ASSUME Types, (\E r \in Redis : Evict(r)) \/ Tick, calm'
    PROVE  /\ UNCHANGED <<dbs, task, last>>
           /\ \A r \in Redis : /\ l1'[r].left > 0 => l1[r].left > 0 /\ l1'[r].val = l1[r].val
                               /\ l1[r].left = 0 => l1'[r].left = 0
                               /\ NoL2 /\ l1'[r].left = 0 => l1[r].left = 0
           /\ \A k \in Databases : /\ l2'[k].left > 0 <=> l2[k].left > 0
                                   /\ l2'[k].left > 0 => l2'[k].val = l2[k].val
  <1>0. TypeOK /\ (\A r \in Redis : l1[r] \in Entry) /\ \A k \in Databases : l2[k] \in Entry
    BY DEF Types, TypeOK
  <1>1. CASE \E r \in Redis : Evict(r)
    <2>0. PICK q \in Redis : Evict(q)
      BY <1>1
    <2>1. calm' = (calm /\ ~NoL2)
      BY <2>0 DEF Evict
    <2>2. ~NoL2
      BY <2>1, Zenon
    <2>3. l1' = [l1 EXCEPT ![q] = Nothing] /\ UNCHANGED <<dbs, l2, task, last>>
      BY <2>0 DEF Evict
    <2>4. l1'[q] = Nothing /\ \A r \in Redis \ {q} : l1'[r] = l1[r]
      BY <1>0, <2>3 DEF TypeOK
    <2>5. l1'[q].left = 0 /\ ~(l1'[q].left > 0)
      BY <2>4, Entries
    <2>6. QED
      BY <2>2, <2>3, <2>4, <2>5
  <1>2. CASE Tick
    <2>1. UNCHANGED <<dbs, task, last>>
      BY <1>2 DEF Tick
    <2>2. (NoL2 => \A r \in Redis : l1[r].left # 1) /\ \A k \in Databases : l2[k].left # 1
      BY <1>2 DEF Tick
    <2>3. ASSUME NEW r \in Redis
          PROVE  /\ l1'[r].left > 0 => l1[r].left > 0 /\ l1'[r].val = l1[r].val
                 /\ l1[r].left = 0 => l1'[r].left = 0
                 /\ NoL2 /\ l1'[r].left = 0 => l1[r].left = 0
      <3>1. l1'[r] = Aged(l1[r]) /\ l1[r] \in Entry /\ l1'[r] \in Entry
        BY <1>0, <1>2, RowsAge
      <3>2. l1[r].left \in Nat /\ l1'[r].left \in Nat
        BY <3>1, Lefts DEF Entry
      <3>3. QED
        BY <2>2, <3>1, <3>2, Ages
    <2>4. ASSUME NEW k \in Databases
          PROVE  /\ l2'[k].left > 0 <=> l2[k].left > 0
                 /\ l2'[k].left > 0 => l2'[k].val = l2[k].val
      <3>1. l2'[k] = l2[k] \/ l2'[k] = Aged(l2[k])
        BY <1>0, <1>2, RowsAge
      <3>2. l2[k] \in Entry /\ l2[k].left # 1
        BY <1>0, <2>2
      <3>3. QED
        BY <3>1, <3>2, Ages
    <2>5. QED
      BY <2>1, <2>3, <2>4
  <1>3. QED
    BY <1>1, <1>2

LEMMA ElsewhereSerial ==
    ASSUME Types, Serial, (\E r \in Redis : Evict(r)) \/ Tick \/ \E p, q \in Providers : Register(p, q)
    PROVE  Serial'
  <1>1. CASE \E p, q \in Providers : Register(p, q)
    BY <1>1 DEF Register, Serial
  <1>2. CASE (\E r \in Redis : Evict(r)) \/ Tick
    <2>1. SUFFICES ASSUME Single'
                   PROVE  /\ dbs' # {} /\ Sole' /\ (\A t \in Threads : Halfway(t)')
                          /\ Settled' => Agree(last)'
      BY DEF Serial, Single
    <2>2. calm' /\ calm /\ UNCHANGED <<task, last>>
      BY <1>2, <2>1, ElsewhereDoes DEF Single
    <2>3. /\ UNCHANGED <<dbs, task, last>>
          /\ \A r \in Redis : /\ l1'[r].left > 0 => l1[r].left > 0 /\ l1'[r].val = l1[r].val
                              /\ l1[r].left = 0 => l1'[r].left = 0
                              /\ NoL2 /\ l1'[r].left = 0 => l1[r].left = 0
          /\ \A k \in Databases : /\ l2'[k].left > 0 <=> l2[k].left > 0
                                  /\ l2'[k].left > 0 => l2'[k].val = l2[k].val
      BY <1>2, <2>2, Fades
    <2>4. Single
      BY <2>1, <2>2, <2>3, WasSingle
    <2>5. /\ dbs # {} /\ Sole /\ (\A t \in Threads : Halfway(t))
          /\ Settled => Agree(last)
      BY <2>4 DEF Serial, Single
    <2>6. \A r \in Redis : l1[r].left \in Nat /\ l1'[r].left \in Nat
      <3>1. \A r \in Redis : l1[r] \in Entry /\ l1'[r] \in Entry
        BY <1>2, ElsewhereDoes DEF Types, TypeOK
      <3>2. QED
        BY <3>1, Lefts DEF Entry
    <2>7. Sole' /\ Settled' = Settled
      BY <2>3, <2>5 DEF Sole, Settled
    <2>8. ASSUME NEW t \in Threads PROVE Halfway(t)'
      <3>1. Halfway(t) /\ UNCHANGED <<dbs, task, last>>
        BY <2>3, <2>5
      <3>2. At(t, "writeL2") => \A r \in Redis :
               IsL1(r) => (l1'[r].left > 0 => l1'[r].val = task[t].val) /\ (NoL2 => l1'[r].left > 0)
        BY <2>3, <2>6, <3>1 DEF Halfway
      <3>3. /\ At(t, "delL2") => \A r \in Redis : IsL1(r) => l1'[r].left = 0
            /\ At(t, "copy") => task[t].val = last
            /\ At(t, "readL2") /\ NoL2 => \A r \in Redis : IsL1(r) => l1'[r].left = 0
        BY <2>3, <2>6, <3>1 DEF Halfway
      <3>4. QED
        BY <3>1, <3>2, <3>3, SameDbs DEF Halfway, At
    <2>9. Settled => Agree(last)'
      <3>1. SUFFICES ASSUME Agree(last) PROVE Agree(last)'
        BY <2>5
      <3>2. /\ \A r \in Redis : IsL1(r) /\ l1'[r].left > 0 => l1'[r].val = last
            /\ NoL2 => \A r \in Redis : IsL1(r) /\ l1'[r].left = 0 => last = NoValue
        BY <2>3, <3>1 DEF Agree
      <3>3. \A k \in Databases : IsL2(k) => IF l2'[k].left > 0 THEN l2'[k].val = last
                                                             ELSE last = NoValue \/ Lost(last)
        BY <2>3, <3>1 DEF Agree
      <3>4. QED
        BY <2>3, <3>2, <3>3, SameDbs DEF Agree
    <2>10. QED
      BY <2>3, <2>5, <2>7, <2>8, <2>9
  <1>3. QED
    BY <1>1, <1>2

LEMMA SerialInit == Init => Serial
  <1> SUFFICES ASSUME Init PROVE Serial
    OBVIOUS
  <1>1. \A t \in Threads : task[t].pc = "idle"
    BY DEF Init, Idle
  <1>2. Sole /\ \A t \in Threads : Halfway(t)
    BY <1>1 DEF Sole, Ended, Halfway, At
  <1>3. Agree(last)
    BY Entries DEF Init, Agree
  <1>4. calm => dbs # {}
    BY DEF Init
  <1>5. QED
    BY <1>2, <1>3, <1>4 DEF Serial

LEMMA SerialStep == Exact /\ Types /\ Serial /\ [Next]_vars => Serial'
  <1> SUFFICES ASSUME Exact, Types, Serial, [Next]_vars PROVE Serial'
    OBVIOUS
  <1>1. ASSUME NEW t \in Threads, Call(t) PROVE Serial'
    BY <1>1, CallSerial
  <1>2. ASSUME NEW t \in Threads, Step(t) PROVE Serial'
    BY <1>2, SetL1Serial, WriteL2Serial, ReadL1Serial, ReadL2Serial, CopySerial, DelL1Serial,
       DelL2Serial DEF Step
  <1>3. CASE (\E r \in Redis : Evict(r)) \/ Tick \/ \E p, q \in Providers : Register(p, q)
    BY <1>3, ElsewhereSerial
  <1>4. CASE UNCHANGED vars
    BY <1>4, SameDbs DEF vars, Serial, Sole, Settled, Halfway, At, Agree
  <1>5. QED
    BY <1>1, <1>2, <1>3, <1>4 DEF Next

\* A Get whose call ends does so by one of the three reads.
LEMMA GetEnds ==
    ASSUME Exact, Types, Serial, Next, NEW t \in Threads,
           task[t].pc \in {"readL1", "readL2", "copy"}, task'[t].pc = "idle",
           calm', OneOfEach, ~Lost(last)
    PROVE  task'[t].val = last
  <1>1. ASSUME NEW u \in Threads, NEW new \in Task, Becomes(u, new) PROVE u = t
    BY <1>1, Replaced DEF Types
  <1>2. ASSUME NEW u \in Threads, Call(u) PROVE FALSE
    <2>1. task[u].pc \in Ended /\ \E new \in Task : Becomes(u, new)
      BY <1>2, CallDoes
    <2>2. QED
      BY <1>1, <2>1, Labels
  <1>3. ASSUME NEW u \in Threads, Step(u) PROVE task'[t].val = last
    <2>1. task' = [task EXCEPT ![u] = task'[u]] /\ UNCHANGED dbs
      BY <1>3 DEF Step, SetL1, WriteL2, ReadL1, ReadL2, Copy, DelL1, DelL2, Goto, Return, Error,
                  Types, TypeOK
    <2>2. u = t
      BY <2>1 DEF Types, TypeOK
    <2>3. CASE ReadL1(t) \/ ReadL2(t) \/ Copy(t)
      <3>1. Single'
        BY <2>1, SameDbs DEF Single
      <3>2. QED
        BY <2>3, <3>1, ReadL1Serial, ReadL2Serial, CopySerial
    <2>4. CASE SetL1(t) \/ WriteL2(t) \/ DelL1(t) \/ DelL2(t)
      BY <2>4 DEF SetL1, WriteL2, DelL1, DelL2, At
    <2>5. QED
      BY <1>3, <2>2, <2>3, <2>4 DEF Step
  <1>4. CASE (\E r \in Redis : Evict(r)) \/ Tick \/ \E p, q \in Providers : Register(p, q)
    BY <1>4, ElsewhereDoes
  <1>5. QED
    BY <1>2, <1>3, <1>4 DEF Next

\* Where each call goes to the same Redis and to the same database, calls that
\* neither overlap nor fail find the value of the last Save, or nothing after a
\* Delete, with Redis, with a database, or with both.  Mongo is left out, whose
\* documents are not what was saved and stay, and so is a value without an expiry
\* in SQLite, whose row is not found.
THEOREM FindsWhatWasSaved == Exact => (Spec => FindsTheLast)
  <1> SUFFICES ASSUME Exact PROVE Spec => FindsTheLast
    OBVIOUS
  <1>1. Types /\ Serial /\ [Next]_vars
        => [\A t \in Threads : /\ task[t].pc \in {"readL1", "readL2", "copy"}
                               /\ task'[t].pc = "idle"
                               /\ calm' /\ OneOfEach /\ ~Lost(last)
                               => task'[t].val = last]_vars
    BY GetEnds
  <1>2. Spec => [](Types /\ Serial)
    BY TypesInit, TypesStep, SerialInit, SerialStep, PTL DEF Spec
  <1>3. QED
    BY <1>1, <1>2, PTL DEF Spec, FindsTheLast
=============================================================================
