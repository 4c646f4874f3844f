-------------------------- MODULE BuckStream_proofs -------------------------
(***************************************************************************)
(* BuckStream's site cache for every number of goroutines and sites, every *)
(* capacity and every time-to-live, DeployZip for every archive and every  *)
(* number of parallel uploads, and the linked list under the cache, which  *)
(* implements LruCache for every set of keys.                              *)
(***************************************************************************)
EXTENDS SiteCache, DeployZip, LruList, FiniteSetTheorems, TLAPS

LP == INSTANCE LruCache_proofs WITH Keys <- Sites, Values <- Version, None <- Absent,
                                    Capacity <- MaxSites, TTL <- SiteTTL

\* The cache's own invariant, over the variables of this module.
CacheInv == LP!LruInv

LEMMA CacheAssumption == LP!LruAssumption
  BY SiteAssumption DEF LP!LruAssumption, Absent, Version

\* The insertion, whose eviction goes through every operator on the order.
LEMMA SameInsert ==
    ASSUME NEW s, NEW v, Lru!Insert(s, v)
    PROVE  LP!Insert(s, v)
  <1>1. Lru!Cached = LP!Cached
    BY DEF Lru!Cached, LP!Cached
  <1>2. \A order, D : Lru!Unlink(order, D) = LP!Unlink(order, D)
    BY DEF Lru!Unlink, LP!Unlink
  <1>3. \A order, S, k : Lru!ToFront(order, S, k) = LP!ToFront(order, S, k)
    BY <1>2 DEF Lru!ToFront, LP!ToFront
  <1>4. \A order, S, k : Lru!AtTail(order, S, k) <=> LP!AtTail(order, S, k)
    BY DEF Lru!AtTail, LP!AtTail
  <1>0. \A S : Lru!Cardinality(S) = LP!Cardinality(S)
    BY Zenon DEF Lru!Cardinality, LP!Cardinality, Lru!IsFiniteSet, LP!IsFiniteSet
  <1> DEFINE after == LP!Cached \cup {s}
             order == LP!ToFront(newer, LP!Cached, s)
  <1>5. s \notin LP!Cached
    BY <1>1 DEF Lru!Insert
  <1>6. CASE /\ LP!Cardinality(after) <= MaxSites
             /\ entry' = [entry EXCEPT ![s] = v]
             /\ newer' = order
             /\ idle' = [idle EXCEPT ![s] = 0]
    BY <1>5, <1>6, Zenon DEF LP!Insert
  <1>7. CASE /\ LP!Cardinality(after) > MaxSites
             /\ \E victim \in after :
                   /\ LP!AtTail(order, after, victim)
                   /\ entry' = [[entry EXCEPT ![s] = v] EXCEPT ![victim] = Absent]
                   /\ newer' = LP!Unlink(order, {victim})
                   /\ idle' = [[idle EXCEPT ![s] = 0] EXCEPT ![victim] = 0]
    BY <1>5, <1>7, Zenon DEF LP!Insert
  <1>8. QED
    <2>1. Lru!ToFront(newer, Lru!Cached, s) = order
      BY <1>1, <1>3
    <2>2. QED
      BY <1>0, <1>1, <1>2, <1>4, <1>6, <1>7, <2>1, Zenon DEF Lru!Insert

\* The cache the handlers call and the one the lemmas are about are the same.
LEMMA SameCache ==
    /\ Lru!LruInit => LP!LruInit
    /\ \A s \in Sites : Lru!Get(s) => LP!LruNext
    /\ \A s \in Sites, v \in Version : Lru!Put(s, v) => LP!LruNext
    /\ \A s \in Sites : Lru!Delete(s) => LP!LruNext
    /\ Lru!EvictExpired => LP!LruNext
    /\ Lru!Tick => LP!LruNext
    /\ Lru!Drop(Lru!Cached) => LP!Drop(LP!Cached)
  <1> USE DEF Lru!Cached, LP!Cached, Lru!Unlink, LP!Unlink, Lru!ToFront, LP!ToFront,
              Lru!lruVars, LP!lruVars, Lru!Drop, LP!Drop
  <1>1. Lru!LruInit => LP!LruInit
    BY DEF Lru!LruInit, LP!LruInit
  <1>2. ASSUME NEW s \in Sites, Lru!Get(s) PROVE LP!LruNext
    <2>1. LP!Get(s)
      BY <1>2 DEF Lru!Get, LP!Get, Lru!Hit, LP!Hit, Lru!Miss, LP!Miss
    <2>2. QED
      BY <2>1, Zenon DEF LP!LruNext
  <1>3. ASSUME NEW s \in Sites, NEW v \in Version, Lru!Put(s, v) PROVE LP!LruNext
    <2>1. LP!Put(s, v)
      <3>1. Lru!Replace(s, v) => LP!Replace(s, v)
        BY DEF Lru!Replace, LP!Replace
      <3>2. QED
        BY <1>3, <3>1, SameInsert DEF Lru!Put, LP!Put
    <2>2. QED
      BY <2>1, Zenon DEF LP!LruNext
  <1>4. ASSUME NEW s \in Sites, Lru!Delete(s) PROVE LP!LruNext
    <2>1. LP!Delete(s)
      BY <1>4 DEF Lru!Delete, LP!Delete
    <2>2. QED
      BY <2>1, Zenon DEF LP!LruNext
  <1>5. Lru!EvictExpired => LP!LruNext
    BY Zenon DEF LP!LruNext, Lru!EvictExpired, LP!EvictExpired
  <1>6. Lru!Tick => LP!LruNext
    BY Zenon DEF LP!LruNext, Lru!Tick, LP!Tick
  <1>7. Lru!Drop(Lru!Cached) => LP!Drop(LP!Cached)
    BY Zenon
  <1>8. QED
    BY <1>1, <1>2, <1>3, <1>4, <1>5, <1>6, <1>7

\* A call of any method, or of none, keeps the cache's invariant.
LEMMA CacheStep == CacheInv /\ (LP!LruNext \/ UNCHANGED cacheVars) => CacheInv'
  BY LP!LruStepInv, CacheAssumption DEF CacheInv, cacheVars, LP!lruVars

\* What the methods do to the entries, which is all the handlers rely on: Get
\* changes none, Put sets one and can take one out, Delete takes one out.
LEMMA GetEntry ==
    ASSUME NEW s, Lru!Get(s)
    PROVE  entry' = entry
  BY DEF Lru!Get, Lru!Hit, Lru!Miss, Lru!lruVars

LEMMA PutEntry ==
    ASSUME entry \in [Sites -> Nat], NEW s \in Sites, NEW v \in Nat, Lru!Put(s, v)
    PROVE  /\ entry' \in [Sites -> Nat]
           /\ entry'[s] \in {v, Absent}
           /\ \A x \in Sites \ {s} : entry'[x] \in {entry[x], Absent}
  BY DEF Lru!Put, Lru!Replace, Lru!Insert, Absent, Lru!Cached

LEMMA DropEntry ==
    ASSUME NEW D, Lru!Drop(D)
    PROVE  \A x \in Sites : entry'[x] = IF x \in D THEN Absent ELSE entry[x]
  BY DEF Lru!Drop

-----------------------------------------------------------------------------
(* Types.                                                                  *)

\* A thread that has work knows its site, and one that reads has an archive.
TaskShape == \A t \in Threads :
                /\ task[t].pc \notin {"idle", "unlock"} => task[t].site \in Sites
                /\ task[t].pc = "read" => task[t].ver \in Version

Task == [pc : Label, site : Sites \cup {NoSite}, ver : Nat]

ShapeInv == /\ object \in [Sites -> Nat]
            /\ latest \in [Sites -> Nat]
            /\ task \in [Threads -> Task]
            /\ loadMu \in Threads \cup {NoThread}
            /\ exposed \in SUBSET Sites
            /\ shown \in [Sites -> Nat]
            /\ TaskShape
            /\ CacheInv

LEMMA EntryType == ShapeInv => entry \in [Sites -> Nat]
  BY DEF ShapeInv, CacheInv, LP!LruInv, LP!LruTypeOK, Version, Absent

LEMMA ShapeTypes == ShapeInv => TypeOK
  BY DEF ShapeInv, CacheInv, LP!LruInv, LP!LruTypeOK, Lru!LruTypeOK, TypeOK, Task

\* The three ways a step changes a thread's record keep the records well formed.
LEMMA TaskUpdate ==
    ASSUME ShapeInv, NEW t \in Threads
    PROVE  /\ Finish(t) => task' \in [Threads -> Task] /\ TaskShape'
           /\ Return(t) => task' \in [Threads -> Task] /\ TaskShape'
           /\ \A l \in Label \ {"idle", "unlock", "read"} :
                 Goto(t, l) /\ ~At(t, "idle") /\ ~At(t, "unlock")
                 => task' \in [Threads -> Task] /\ TaskShape'
  <1>1. task \in [Threads -> Task] /\ TaskShape
    BY DEF ShapeInv
  <1>2. Finish(t) => task' \in [Threads -> Task] /\ TaskShape'
    BY <1>1 DEF Finish, Idle, Task, TaskShape, Label, Absent
  <1>3. Return(t) => task' \in [Threads -> Task] /\ TaskShape'
    BY <1>1 DEF Return, Idle, Task, TaskShape, Label, Loading, Absent
  <1>4. ASSUME NEW l \in Label \ {"idle", "unlock", "read"}, Goto(t, l),
               ~At(t, "idle"), ~At(t, "unlock")
        PROVE  task' \in [Threads -> Task] /\ TaskShape'
    <2>1. task[t] \in Task /\ task[t].site \in Sites
      BY <1>1, <1>4 DEF TaskShape, At
    <2>2. task' \in [Threads -> Task]
      BY <1>1, <1>4, <2>1 DEF Goto, Task
    <2>3. task'[t].pc = l /\ task'[t].site \in Sites
      BY <1>1, <1>4, <2>1 DEF Goto, Task
    <2>4. \A u \in Threads \ {t} : task'[u] = task[u]
      BY <1>1, <1>4 DEF Goto
    <2>5. TaskShape'
      BY <1>1, <1>4, <2>3, <2>4 DEF TaskShape
    <2>6. QED
      BY <2>2, <2>5
  <1>5. QED
    BY <1>2, <1>3, <1>4

LEMMA ShapeInit == Init => ShapeInv
  <1> SUFFICES ASSUME Init PROVE ShapeInv
    OBVIOUS
  <1>1. CacheInv
    BY SameCache, LP!LruInitInv, CacheAssumption DEF Init, CacheInv
  <1>2. task \in [Threads -> Task] /\ TaskShape
    BY DEF Init, Task, TaskShape, Idle, Label, Absent
  <1>3. QED
    BY <1>1, <1>2, SiteAssumption DEF Init, ShapeInv, Absent

LEMMA ShapeStep == ShapeInv /\ [Next]_vars => ShapeInv'
  <1> SUFFICES ASSUME ShapeInv, [Next]_vars PROVE ShapeInv'
    OBVIOUS
  <1> USE DEF ShapeInv, storeVars, cacheVars
  <1>0. /\ \A t \in Threads : task[t] \in Task
        /\ {"idle", "lookup", "lock", "upload", "clear", "delete", "invalidate", "recheck",
             "download", "read", "unlock"} \subseteq Label
    BY DEF Label, Loading
  <1>1. ASSUME NEW t \in Threads, NEW s \in Sites, NEW l \in Label \ {"read"}, Begin(t, s, l)
        PROVE  ShapeInv'
    BY <1>0, <1>1, CacheStep DEF Begin, TaskShape, Task, Idle, Absent
  <1>2. ASSUME NEW t \in Threads, Lookup(t) PROVE ShapeInv'
    <2>1. CacheInv'
      BY <1>2, SameCache, CacheStep DEF Lookup, TaskShape, At
    <2>2. task' \in [Threads -> Task] /\ TaskShape'
      BY <1>0, <1>2, TaskUpdate DEF Lookup, At
    <2>3. QED
      BY <1>2, <2>1, <2>2 DEF Lookup
  <1>3. ASSUME NEW t \in Threads, Acquire(t) PROVE ShapeInv'
    <2>1. CacheInv'
      BY <1>3, CacheStep DEF Acquire
    <2>2. task' \in [Threads -> Task] /\ TaskShape'
      BY <1>0, <1>3, TaskUpdate DEF Acquire, At
    <2>3. QED
      BY <1>3, <2>1, <2>2 DEF Acquire
  <1>4. ASSUME NEW t \in Threads, Recheck(t) PROVE ShapeInv'
    <2>1. CacheInv'
      BY <1>4, SameCache, CacheStep DEF Recheck, TaskShape, At
    <2>2. task' \in [Threads -> Task] /\ TaskShape'
      BY <1>0, <1>4, TaskUpdate DEF Recheck, At
    <2>3. QED
      BY <1>4, <2>1, <2>2 DEF Recheck
  <1>5. ASSUME NEW t \in Threads, Download(t) PROVE ShapeInv'
    <2>1. CacheInv'
      BY <1>5, CacheStep DEF Download
    <2>2. CASE Return(t)
      <3>1. task' \in [Threads -> Task] /\ TaskShape'
        BY <2>2, TaskUpdate
      <3>2. QED
        BY <1>5, <2>1, <3>1 DEF Download
    <2>3. CASE /\ object[task[t].site] # Absent
               /\ task' = [task EXCEPT ![t].pc = "read", ![t].ver = object[task[t].site]]
      <3>1. task[t].site \in Sites /\ object[task[t].site] \in Version
        BY <1>5, <2>3 DEF Download, TaskShape, At, Version, Absent
      <3>2. task' \in [Threads -> Task]
        BY <1>0, <2>3, <3>1 DEF Task, Version
      <3>3. TaskShape'
        BY <1>0, <2>3, <3>1 DEF TaskShape, Task
      <3>4. QED
        BY <1>5, <2>1, <3>2, <3>3 DEF Download
    <2>4. QED
      BY <1>5, <2>2, <2>3 DEF Download
  <1>6. ASSUME NEW t \in Threads, ReadAndPut(t) PROVE ShapeInv'
    <2>1. task[t].site \in Sites /\ task[t].ver \in Version
      BY <1>6 DEF ReadAndPut, TaskShape, At
    <2>2. CacheInv'
      BY <1>6, <2>1, SameCache, CacheStep DEF ReadAndPut
    <2>3. task' \in [Threads -> Task] /\ TaskShape'
      BY <1>6, TaskUpdate DEF ReadAndPut
    <2>4. shown' \in [Sites -> Nat]
      BY <1>6, <2>1 DEF ReadAndPut, Version
    <2>5. QED
      BY <1>6, <2>2, <2>3, <2>4 DEF ReadAndPut
  <1>7. ASSUME NEW t \in Threads, Unlock(t) PROVE ShapeInv'
    <2>1. CacheInv'
      BY <1>7, CacheStep DEF Unlock
    <2>2. task' \in [Threads -> Task] /\ TaskShape'
      BY <1>0, <1>7, TaskUpdate DEF Unlock, At
    <2>3. QED
      BY <1>7, <2>1, <2>2 DEF Unlock
  <1>8. ASSUME NEW s \in Sites, Write(s)
        PROVE  latest' \in [Sites -> Nat] /\ object' \in [Sites -> Nat]
    BY <1>8 DEF Write
  <1>9. ASSUME NEW t \in Threads, Upload(t) PROVE ShapeInv'
    <2>1. CacheInv'
      BY <1>9, CacheStep DEF Upload
    <2>2. task' \in [Threads -> Task] /\ TaskShape'
      BY <1>0, <1>9, TaskUpdate DEF Upload, At
    <2>3. task[t].site \in Sites
      BY <1>9 DEF Upload, TaskShape, At
    <2>4. QED
      BY <1>8, <1>9, <2>1, <2>2, <2>3 DEF Upload
  <1>10. ASSUME NEW s \in Sites, ClearSiteCache(s)
         PROVE  CacheInv' /\ exposed' \in SUBSET Sites
    BY <1>10, SameCache, CacheStep DEF ClearSiteCache
  <1>11. ASSUME NEW t \in Threads, ClearAndPrewarm(t) PROVE ShapeInv'
    <2>1. task[t].site \in Sites
      BY <1>11 DEF ClearAndPrewarm, TaskShape, At
    <2>2. task' \in [Threads -> Task] /\ TaskShape'
      BY <1>0, <1>11, TaskUpdate DEF ClearAndPrewarm, At
    <2>3. QED
      BY <1>10, <1>11, <2>1, <2>2 DEF ClearAndPrewarm
  <1>12. ASSUME NEW t \in Threads, DeleteObject(t) PROVE ShapeInv'
    <2>1. CacheInv'
      BY <1>12, CacheStep DEF DeleteObject
    <2>2. task' \in [Threads -> Task] /\ TaskShape'
      BY <1>0, <1>12, TaskUpdate DEF DeleteObject, At
    <2>3. task[t].site \in Sites
      BY <1>12 DEF DeleteObject, TaskShape, At
    <2>4. object' \in [Sites -> Nat]
      BY <1>12 DEF DeleteObject, Absent
    <2>5. QED
      BY <1>12, <2>1, <2>2, <2>3, <2>4 DEF DeleteObject
  <1>13. ASSUME NEW t \in Threads, Invalidate(t) PROVE ShapeInv'
    <2>1. task[t].site \in Sites
      BY <1>13 DEF Invalidate, TaskShape, At
    <2>2. task' \in [Threads -> Task] /\ TaskShape'
      BY <1>0, <1>13, TaskUpdate DEF Invalidate, At
    <2>3. QED
      BY <1>10, <1>13, <2>1, <2>2 DEF Invalidate
  <1>14. ASSUME NEW s \in ProxySites, HandleUploadProxy(s) PROVE ShapeInv'
    BY <1>8, <1>14, CacheStep, SiteAssumption DEF HandleUploadProxy, TaskShape
  <1>15. ASSUME Janitor \/ Tick PROVE ShapeInv'
    BY <1>15, SameCache, CacheStep DEF Janitor, Tick, TaskShape
  <1>16. CASE Restart
    <2>1. CacheInv'
      BY <1>16, SameCache, LP!DropInv, CacheAssumption DEF Restart, CacheInv
    <2>2. task' \in [Threads -> Task] /\ TaskShape'
      BY <1>16 DEF Restart, Task, TaskShape, Idle, Label, Absent
    <2>3. QED
      BY <1>16, <2>1, <2>2 DEF Restart
  <1>17. CASE UNCHANGED vars
    BY <1>17, CacheStep DEF vars, TaskShape
  <1>18. QED
    BY <1>0, <1>1, <1>2, <1>3, <1>4, <1>5, <1>6, <1>7, <1>9, <1>11, <1>12, <1>13, <1>14,
       <1>15, <1>16, <1>17
       DEF Next, Arrive, Step, HandleProxyOrStatic, HandleDeploy, HandleDeleteObject

LEMMA ShapeAlways == Spec => []ShapeInv
  BY ShapeInit, ShapeStep, PTL DEF Spec

\* Every variable keeps its type, the cache's included.
THEOREM SiteTypeOK == Spec => []TypeOK
  BY ShapeAlways, ShapeTypes, PTL

\* Never more than MAX_CACHED_SITES sites in memory, whatever the goroutines do.
THEOREM SiteCacheBounded == Spec => []CacheBounded
  <1>1. ShapeInv => CacheBounded
    BY DEF ShapeInv, CacheInv, LP!LruInv, LP!WithinCapacity, CacheBounded, Lru!WithinCapacity,
           LP!Cached, Lru!Cached, LP!Cardinality, Lru!Cardinality, LP!IsFiniteSet, Lru!IsFiniteSet
  <1>2. QED
    BY <1>1, ShapeAlways, PTL

-----------------------------------------------------------------------------
(* The lock.                                                               *)

\* What a step does to the record of every thread.
LEMMA Records ==
    ASSUME ShapeInv, NEW t \in Threads
    PROVE  /\ \A l : Goto(t, l) =>
                 \A u \in Threads : /\ task'[u].pc = IF u = t THEN l ELSE task[u].pc
                                   /\ task'[u].site = task[u].site
                                   /\ task'[u].ver = task[u].ver
           /\ Finish(t) =>
                 \A u \in Threads : IF u = t THEN task'[u].pc = "idle" ELSE task'[u] = task[u]
           /\ Return(t) =>
                 \A u \in Threads : IF u = t THEN task'[u].pc = "unlock" ELSE task'[u] = task[u]
           /\ \A s, l : Begin(t, s, l) =>
                 \A u \in Threads : IF u = t THEN task'[u].pc = l /\ task'[u].site = s
                                             ELSE task'[u] = task[u]
  <1>1. task \in [Threads -> Task]
    BY DEF ShapeInv
  <1>2. ASSUME NEW l, Goto(t, l), NEW u \in Threads
        PROVE  /\ task'[u].pc = IF u = t THEN l ELSE task[u].pc
               /\ task'[u].site = task[u].site
               /\ task'[u].ver = task[u].ver
    BY <1>1, <1>2 DEF Goto, Task
  <1>3. ASSUME Finish(t), NEW u \in Threads
        PROVE  IF u = t THEN task'[u].pc = "idle" ELSE task'[u] = task[u]
    BY <1>1, <1>3 DEF Finish, Idle
  <1>4. ASSUME Return(t), NEW u \in Threads
        PROVE  IF u = t THEN task'[u].pc = "unlock" ELSE task'[u] = task[u]
    BY <1>1, <1>4 DEF Return, Idle
  <1>5. ASSUME NEW s, NEW l, Begin(t, s, l), NEW u \in Threads
        PROVE  IF u = t THEN task'[u].pc = l /\ task'[u].site = s ELSE task'[u] = task[u]
    BY <1>1, <1>5 DEF Begin, Idle
  <1>6. QED
    BY <1>2, <1>3, <1>4, <1>5

LEMMA MutexStep == ShapeInv /\ MutualExclusion /\ [Next]_vars => MutualExclusion'
  <1> SUFFICES ASSUME ShapeInv, MutualExclusion, [Next]_vars PROVE MutualExclusion'
    OBVIOUS
  <1>0. NoThread \notin Threads
    BY SiteAssumption
  <1> USE DEF MutualExclusion, Loading, At
  <1>1. ASSUME NEW t \in Threads, NEW s \in Sites, Arrive(t, s) PROVE MutualExclusion'
    <2>1. PICK l \in {"lookup", "upload", "delete"} : Begin(t, s, l)
      BY <1>1 DEF Arrive, HandleProxyOrStatic, HandleDeploy, HandleDeleteObject
    <2>2. \A u \in Threads : IF u = t THEN task'[u].pc = l ELSE task'[u] = task[u]
      BY <2>1, Records
    <2>3. task[t].pc = "idle" /\ loadMu' = loadMu
      BY <2>1 DEF Begin
    <2>4. QED
      BY <2>2, <2>3
  <1>2. ASSUME NEW t \in Threads, Lookup(t) PROVE MutualExclusion'
    BY <1>2, Records DEF Lookup
  <1>3. ASSUME NEW t \in Threads, Acquire(t) PROVE MutualExclusion'
    BY <1>0, <1>3, Records DEF Acquire
  <1>4. ASSUME NEW t \in Threads, Recheck(t) PROVE MutualExclusion'
    BY <1>4, Records DEF Recheck
  <1>5. ASSUME NEW t \in Threads, Download(t) PROVE MutualExclusion'
    <2>1. CASE Return(t)
      BY <1>5, <2>1, Records DEF Download
    <2>2. CASE task' = [task EXCEPT ![t].pc = "read", ![t].ver = object[task[t].site]]
      <3>1. \A u \in Threads : task'[u].pc = IF u = t THEN "read" ELSE task[u].pc
        BY <2>2 DEF ShapeInv, Task
      <3>2. QED
        BY <1>5, <3>1 DEF Download
    <2>3. QED
      BY <1>5, <2>1, <2>2 DEF Download
  <1>6. ASSUME NEW t \in Threads, ReadAndPut(t) PROVE MutualExclusion'
    BY <1>6, Records DEF ReadAndPut
  <1>7. ASSUME NEW t \in Threads, Unlock(t) PROVE MutualExclusion'
    BY <1>0, <1>7, Records DEF Unlock
  <1>8. ASSUME NEW t \in Threads, Upload(t) PROVE MutualExclusion'
    BY <1>8, Records DEF Upload
  <1>9. ASSUME NEW t \in Threads, ClearAndPrewarm(t) PROVE MutualExclusion'
    BY <1>9, Records DEF ClearAndPrewarm
  <1>10. ASSUME NEW t \in Threads, DeleteObject(t) PROVE MutualExclusion'
    BY <1>10, Records DEF DeleteObject
  <1>11. ASSUME NEW t \in Threads, Invalidate(t) PROVE MutualExclusion'
    BY <1>11, Records DEF Invalidate
  <1>12. CASE Restart
    BY <1>0, <1>12 DEF Restart, Idle
  <1>13. CASE UNCHANGED <<task, loadMu>>
    BY <1>13
  <1>14. QED
    BY <1>1, <1>2, <1>3, <1>4, <1>5, <1>6, <1>7, <1>8, <1>9, <1>10, <1>11, <1>12, <1>13
       DEF Next, Step, HandleUploadProxy, Janitor, Tick, vars

\* Between Lock and the deferred Unlock there is the holder of loadMu and nobody else.
THEOREM SiteMutualExclusion == Spec => []MutualExclusion
  <1>1. Init => MutualExclusion
    BY SiteAssumption DEF Init, MutualExclusion, Loading, Idle
  <1>2. QED
    BY <1>1, MutexStep, ShapeAlways, PTL DEF Spec

-----------------------------------------------------------------------------
(* Downloads of what is not cached.                                        *)

\* What a step does to the threads that load: nobody starts to download or to
\* read unless it did so before, or it looked under the lock and missed.
LEMMA NewDownload ==
    ASSUME ShapeInv, [Next]_vars, NEW t \in Threads, task'[t].pc \in {"download", "read"}
    PROVE  \/ /\ task[t].pc \in {"download", "read"}
              /\ task'[t].site = task[t].site
           \/ Recheck(t) /\ task'[t].site = task[t].site /\ ~Hit(task[t].site)
  <1> USE DEF At
  <1>1. ASSUME NEW u \in Threads, NEW s \in Sites, Arrive(u, s)
        PROVE  task'[t] = task[t]
    <2>1. PICK l \in {"lookup", "upload", "delete"} : Begin(u, s, l)
      BY <1>1 DEF Arrive, HandleProxyOrStatic, HandleDeploy, HandleDeleteObject
    <2>2. \A x \in Threads : IF x = u THEN task'[x].pc = l ELSE task'[x] = task[x]
      BY <2>1, Records
    <2>3. QED
      BY <2>2
  <1>2. ASSUME NEW u \in Threads,
               Lookup(u) \/ Unlock(u) \/ ReadAndPut(u) \/ Upload(u) \/ Acquire(u)
                  \/ ClearAndPrewarm(u) \/ DeleteObject(u) \/ Invalidate(u)
        PROVE  task[t].pc \in {"download", "read"} /\ task'[t].site = task[t].site
    BY <1>2, Records
       DEF Lookup, Unlock, ReadAndPut, Upload, Acquire, ClearAndPrewarm, DeleteObject, Invalidate
  <1>3. ASSUME NEW u \in Threads, Recheck(u)
        PROVE  \/ task[t].pc \in {"download", "read"} /\ task'[t].site = task[t].site
               \/ Recheck(t) /\ task'[t].site = task[t].site /\ ~Hit(task[t].site)
    BY <1>3, Records DEF Recheck
  <1>4. ASSUME NEW u \in Threads, Download(u)
        PROVE  task[t].pc \in {"download", "read"} /\ task'[t].site = task[t].site
    <2>1. CASE Return(u)
      BY <2>1, Records
    <2>2. CASE task' = [task EXCEPT ![u].pc = "read", ![u].ver = object[task[u].site]]
      BY <1>4, <2>2 DEF ShapeInv, Task, Download
    <2>3. QED
      BY <1>4, <2>1, <2>2 DEF Download
  <1>5. CASE Restart
    BY <1>5 DEF Restart, Idle
  <1>6. CASE task' = task
    BY <1>6
  <1>7. QED
    BY <1>1, <1>2, <1>3, <1>4, <1>5, <1>6
       DEF Next, Step, HandleUploadProxy, Janitor, Tick, vars

\* Only the reader that stores its archive puts a site in the cache.
LEMMA NewEntry ==
    ASSUME ShapeInv, [Next]_vars, NEW s \in Sites, entry'[s] # Absent, entry'[s] # entry[s]
    PROVE  \E t \in Threads : /\ ReadAndPut(t) /\ task[t].site = s
                            /\ entry'[s] = task[t].ver /\ shown'[s] = task[t].ver
  <1> USE DEF cacheVars, storeVars
  <1>1. entry \in [Sites -> Nat]
    BY EntryType
  <1>2. ASSUME NEW t \in Threads, ReadAndPut(t)
        PROVE  /\ task[t].site = s /\ entry'[s] = task[t].ver /\ shown'[s] = task[t].ver
    <2>1. task[t].site \in Sites /\ task[t].ver \in Nat
      BY <1>2 DEF ReadAndPut, At, ShapeInv, TaskShape, Version
    <2>2. Lru!Put(task[t].site, task[t].ver) /\ shown' = [shown EXCEPT ![task[t].site] = task[t].ver]
      BY <1>2 DEF ReadAndPut
    <2>3. task[t].site = s /\ entry'[s] = task[t].ver
      BY <1>1, <2>1, <2>2, PutEntry
    <2>4. QED
      BY <2>2, <2>3 DEF ShapeInv
  <1>3. ASSUME NEW t \in Threads, Lookup(t) \/ Recheck(t) PROVE entry' = entry
    BY <1>3, GetEntry DEF Lookup, Recheck
  <1>4. ASSUME NEW x, ClearSiteCache(x) PROVE FALSE
    BY <1>4, DropEntry DEF ClearSiteCache, Lru!Delete
  <1>5. ASSUME Janitor PROVE FALSE
    BY <1>5, DropEntry DEF Janitor, Lru!EvictExpired
  <1>6. ASSUME Restart PROVE FALSE
    BY <1>6, DropEntry DEF Restart
  <1>7. ASSUME NEW t \in Threads, NEW x \in Sites, Arrive(t, x) PROVE entry' = entry
    BY <1>7 DEF Arrive, HandleProxyOrStatic, HandleDeploy, HandleDeleteObject, Begin
  <1>8. ASSUME NEW t \in Threads,
               Acquire(t) \/ Download(t) \/ Unlock(t) \/ Upload(t) \/ DeleteObject(t)
        PROVE  entry' = entry
    BY <1>8 DEF Acquire, Download, Unlock, Upload, DeleteObject
  <1>9. QED
    BY <1>2, <1>3, <1>4, <1>5, <1>6, <1>7, <1>8
       DEF Next, Step, HandleUploadProxy, Tick, Lru!Tick, ClearAndPrewarm, Invalidate, vars

LEMMA MissStep ==
    ShapeInv /\ MutualExclusion /\ DownloadOnlyOnMiss /\ [Next]_vars => DownloadOnlyOnMiss'
  <1> SUFFICES ASSUME ShapeInv, MutualExclusion, DownloadOnlyOnMiss, [Next]_vars,
                      NEW t \in Threads, task'[t].pc \in {"download", "read"}
               PROVE  entry'[task'[t].site] = Absent
    BY DEF DownloadOnlyOnMiss, Hit
  <1> DEFINE s == task'[t].site
  <1>1. s \in Sites
    BY ShapeStep DEF ShapeInv, TaskShape
  <1>2. entry[s] = Absent
    BY NewDownload DEF DownloadOnlyOnMiss, Hit
  <1>3. ASSUME entry'[s] # Absent PROVE FALSE
    <2>1. PICK u \in Threads : ReadAndPut(u) /\ task[u].site = s
      BY <1>1, <1>2, <1>3, NewEntry
    <2>2. u # t
      BY <2>1, Records DEF ReadAndPut
    <2>3. task[t].pc \in {"download", "read"}
      BY <2>1, <2>2, Records DEF ReadAndPut
    <2>4. loadMu = t /\ loadMu = u
      BY <2>1, <2>3 DEF MutualExclusion, Loading, ReadAndPut, At
    <2>5. QED
      BY <2>2, <2>4
  <1>4. QED
    BY <1>3

\* No goroutine downloads a site that is in the cache.
THEOREM SiteDownloadOnlyOnMiss == Spec => []DownloadOnlyOnMiss
  <1>1. Init => DownloadOnlyOnMiss
    BY DEF Init, DownloadOnlyOnMiss, Idle
  <1>2. QED
    BY <1>1, MissStep, ShapeAlways, SiteMutualExclusion, PTL DEF Spec

-----------------------------------------------------------------------------
(* Staleness.                                                              *)

\* StaleOnlyIfExposed with what it takes to survive a step: a download that has
\* been overtaken is as good as a stale entry, since its Put is still to come.
Coherent == \A s \in Sites \ exposed :
               \/ Hit(s) /\ entry[s] # object[s]
               \/ \E t \in Threads : Outdated(t, s)
               => ClearPending(s)

LEMMA CoherentStep == ShapeInv /\ Coherent /\ [Next]_vars => Coherent'
  <1> SUFFICES ASSUME ShapeInv, Coherent, [Next]_vars, NEW s \in Sites, s \notin exposed',
                      \/ entry'[s] # Absent /\ entry'[s] # object'[s]
                      \/ \E t \in Threads : Outdated(t, s)'
               PROVE  ClearPending(s)'
    BY DEF Coherent, Hit
  <1> DEFINE Threat == \/ Hit(s) /\ entry[s] # object[s]
                       \/ \E t \in Threads : Outdated(t, s)
  <1>0. s \notin exposed /\ Threat => ClearPending(s)
    BY DEF Coherent
  <1> HIDE DEF Coherent
  <1> USE DEF At, Outdated, ClearPending, Hit, storeVars, cacheVars
  <1>1. ASSUME NEW t \in Threads, NEW x \in Sites, Arrive(t, x) PROVE ClearPending(s)'
    <2>1. PICK l \in {"lookup", "upload", "delete"} : Begin(t, x, l)
      BY <1>1 DEF Arrive, HandleProxyOrStatic, HandleDeploy, HandleDeleteObject
    <2>2. \A u \in Threads : IF u = t THEN task'[u].pc = l ELSE task'[u] = task[u]
      BY <2>1, Records
    <2>3. task[t].pc = "idle" /\ UNCHANGED <<entry, object, exposed>>
      BY <2>1 DEF Begin
    <2>4. QED
      BY <1>0, <2>2, <2>3
  <1>2. ASSUME NEW t \in Threads, Lookup(t) PROVE ClearPending(s)'
    BY <1>0, <1>2, GetEntry, Records DEF Lookup
  <1>3. ASSUME NEW t \in Threads, Acquire(t) PROVE ClearPending(s)'
    BY <1>0, <1>3, Records DEF Acquire
  <1>4. ASSUME NEW t \in Threads, Recheck(t) PROVE ClearPending(s)'
    BY <1>0, <1>4, GetEntry, Records DEF Recheck
  <1>5. ASSUME NEW t \in Threads, Download(t) PROVE ClearPending(s)'
    <2>1. CASE Return(t)
      BY <1>0, <1>5, <2>1, Records DEF Download
    <2>2. CASE task' = [task EXCEPT ![t].pc = "read", ![t].ver = object[task[t].site]]
      <3>1. \A u \in Threads :
               IF u = t THEN /\ task'[u].pc = "read" /\ task'[u].site = task[u].site
                             /\ task'[u].ver = object[task[u].site]
                        ELSE task'[u] = task[u]
        BY <2>2 DEF ShapeInv, Task
      <3>2. QED
        BY <1>0, <1>5, <3>1 DEF Download
    <2>3. QED
      BY <1>5, <2>1, <2>2 DEF Download
  <1>6. ASSUME NEW t \in Threads, ReadAndPut(t) PROVE ClearPending(s)'
    <2>1. \A u \in Threads : IF u = t THEN task'[u].pc = "unlock" ELSE task'[u] = task[u]
      BY <1>6, Records DEF ReadAndPut
    <2>2. task[t].pc = "read" /\ UNCHANGED <<object, exposed>>
      BY <1>6 DEF ReadAndPut
    <2>3. Threat
      <3>1. CASE \E u \in Threads : Outdated(u, s)'
        BY <2>1, <2>2, <3>1
      <3>2. CASE entry'[s] # Absent /\ entry'[s] # object'[s] /\ entry'[s] = entry[s]
        BY <2>2, <3>2
      <3>3. CASE entry'[s] # Absent /\ entry'[s] # object'[s] /\ entry'[s] # entry[s]
        <4>1. PICK u \in Threads : /\ ReadAndPut(u) /\ task[u].site = s
                                  /\ entry'[s] = task[u].ver
          BY <3>3, NewEntry
        <4>2. QED
          BY <2>2, <3>3, <4>1 DEF ReadAndPut
      <3>4. QED
        BY <3>1, <3>2, <3>3
    <2>4. QED
      BY <1>0, <2>1, <2>2, <2>3
  <1>7. ASSUME NEW t \in Threads, Unlock(t) PROVE ClearPending(s)'
    BY <1>0, <1>7, Records DEF Unlock
  <1>8. ASSUME NEW x, Write(x), x # s PROVE object'[s] = object[s]
    BY <1>8 DEF Write, ShapeInv
  <1>9. ASSUME NEW t \in Threads, Upload(t) PROVE ClearPending(s)'
    <2>1. CASE Goto(t, "clear") /\ Write(task[t].site) /\ UNCHANGED exposed
      BY <1>0, <1>8, <1>9, <2>1, Records DEF Upload
    <2>2. CASE Finish(t) /\ UNCHANGED <<storeVars, exposed>>
      BY <1>0, <1>9, <2>2, Records DEF Upload
    <2>3. CASE Write(task[t].site) /\ Finish(t) /\ exposed' = exposed \cup {task[t].site}
      BY <1>0, <1>8, <1>9, <2>3, Records DEF Upload
    <2>4. QED
      BY <1>9, <2>1, <2>2, <2>3 DEF Upload
  <1>10. ASSUME NEW t \in Threads, NEW x \in Sites, ClearSiteCache(x), task[t].site = x,
                \A u \in Threads : \/ u = t /\ task'[u].pc \in {"lookup", "idle"}
                                   \/ u # t /\ task'[u] = task[u]
                                   \/ u # t /\ UNCHANGED <<task[u].pc, task[u].site, task[u].ver>>,
                UNCHANGED object, task[t].pc \in {"clear", "invalidate"}
         PROVE  ClearPending(s)'
    <2>1. entry'[s] = IF s \in Lru!Cached \cap {x} THEN Absent ELSE entry[s]
      BY <1>10, DropEntry DEF ClearSiteCache, Lru!Delete
    <2>2. CASE s = x
      <3>1. entry'[s] = Absent
        BY <2>1, <2>2 DEF Lru!Cached
      <3>2. ~ \E u \in Threads : Outdated(u, s)
        BY <1>10, <2>2 DEF ClearSiteCache
      <3>3. QED
        BY <1>10, <3>1, <3>2
    <2>3. CASE s # x
      <3>1. entry'[s] = entry[s] /\ s \notin exposed
        BY <1>10, <2>1, <2>3 DEF ClearSiteCache
      <3>2. QED
        BY <1>0, <1>10, <2>3, <3>1
    <2>4. QED
      BY <2>2, <2>3
  <1>11. ASSUME NEW t \in Threads, ClearAndPrewarm(t) PROVE ClearPending(s)'
    <2>1. task[t].site \in Sites /\ ClearSiteCache(task[t].site) /\ UNCHANGED object
      BY <1>11 DEF ClearAndPrewarm, ShapeInv, TaskShape
    <2>2. QED
      BY <1>10, <1>11, <2>1, Records DEF ClearAndPrewarm
  <1>12. ASSUME NEW t \in Threads, DeleteObject(t) PROVE ClearPending(s)'
    <2>1. object'[s] = object[s] \/ s = task[t].site
      BY <1>12 DEF DeleteObject, ShapeInv
    <2>2. CASE Goto(t, "invalidate") /\ UNCHANGED exposed
      BY <1>0, <1>12, <2>1, <2>2, Records DEF DeleteObject
    <2>3. CASE Finish(t) /\ UNCHANGED <<object, exposed>>
      BY <1>0, <1>12, <2>3, Records DEF DeleteObject
    <2>4. CASE Finish(t) /\ exposed' = exposed \cup {task[t].site}
      BY <1>0, <1>12, <2>1, <2>4, Records DEF DeleteObject
    <2>5. QED
      BY <1>12, <2>2, <2>3, <2>4 DEF DeleteObject
  <1>13. ASSUME NEW t \in Threads, Invalidate(t) PROVE ClearPending(s)'
    <2>1. task[t].site \in Sites /\ ClearSiteCache(task[t].site) /\ UNCHANGED object
      BY <1>13 DEF Invalidate, ShapeInv, TaskShape
    <2>2. QED
      BY <1>10, <1>13, <2>1, Records DEF Invalidate
  <1>14. ASSUME NEW x \in ProxySites, HandleUploadProxy(x) PROVE ClearPending(s)'
    BY <1>0, <1>8, <1>14 DEF HandleUploadProxy
  <1>15. ASSUME Janitor \/ Tick PROVE ClearPending(s)'
    <2>1. entry'[s] \in {entry[s], Absent}
      BY <1>15, DropEntry DEF Janitor, Tick, Lru!EvictExpired, Lru!Tick
    <2>2. QED
      BY <1>0, <1>15, <2>1 DEF Janitor, Tick
  <1>16. ASSUME Restart PROVE FALSE
    <2>1. entry'[s] = Absent
      BY <1>16, DropEntry DEF Restart, Lru!Cached
    <2>2. QED
      BY <1>16, <2>1 DEF Restart, Idle
  <1>17. CASE UNCHANGED vars
    BY <1>0, <1>17 DEF vars
  <1>18. QED
    BY <1>1, <1>2, <1>3, <1>4, <1>5, <1>6, <1>7, <1>9, <1>11, <1>12, <1>13, <1>14, <1>15,
       <1>16, <1>17 DEF Next, Step

\* The cache is stale only while its clearing is pending, or where the site is exposed.
THEOREM SiteStaleOnlyIfExposed == Spec => []StaleOnlyIfExposed
  <1>1. Init => Coherent
    BY DEF Init, Coherent, Lru!LruInit, Hit, Outdated, At, Idle
  <1>2. Coherent => StaleOnlyIfExposed
    BY DEF Coherent, StaleOnlyIfExposed
  <1>3. QED
    BY <1>1, <1>2, CoherentStep, ShapeAlways, PTL DEF Spec

-----------------------------------------------------------------------------
(* Versions.                                                               *)

\* What the bucket has is the last upload or nothing, and a download under way
\* is between what was cached last and the last upload.
Versions == /\ \A s \in Sites : object[s] \in {Absent, latest[s]} /\ shown[s] <= latest[s]
            /\ \A t \in Threads : At(t, "read") =>
                  /\ shown[task[t].site] <= task[t].ver
                  /\ task[t].ver <= latest[task[t].site]

\* The bucket only moves on.
LEMMA BucketStep ==
    ASSUME ShapeInv, [Next]_vars, NEW s \in Sites, object[s] \in {Absent, latest[s]}
    PROVE  object'[s] \in {Absent, latest'[s]} /\ latest[s] <= latest'[s]
  <1> USE DEF storeVars
  <1>0. latest[s] \in Nat
    BY DEF ShapeInv
  <1>1. ASSUME NEW x, Write(x) PROVE object'[s] \in {Absent, latest'[s]} /\ latest[s] <= latest'[s]
    BY <1>0, <1>1 DEF Write, ShapeInv
  <1>2. CASE UNCHANGED <<object, latest>>
    BY <1>0, <1>2
  <1>3. ASSUME NEW t \in Threads, DeleteObject(t)
        PROVE  object'[s] \in {Absent, latest'[s]} /\ latest[s] <= latest'[s]
    BY <1>0, <1>3 DEF DeleteObject, ShapeInv
  <1>4. ASSUME NEW t \in Threads, NEW x \in Sites, Arrive(t, x) PROVE UNCHANGED <<object, latest>>
    BY <1>4 DEF Arrive, HandleProxyOrStatic, HandleDeploy, HandleDeleteObject, Begin
  <1>5. ASSUME NEW t \in Threads,
               Lookup(t) \/ Acquire(t) \/ Recheck(t) \/ Download(t) \/ ReadAndPut(t) \/ Unlock(t)
                  \/ ClearAndPrewarm(t) \/ Invalidate(t)
        PROVE  UNCHANGED <<object, latest>>
    BY <1>5 DEF Lookup, Acquire, Recheck, Download, ReadAndPut, Unlock, ClearAndPrewarm, Invalidate
  <1>6. QED
    BY <1>1, <1>2, <1>3, <1>4, <1>5
       DEF Next, Step, Upload, HandleUploadProxy, Janitor, Tick, Restart, vars

\* Only the reader that stores its archive moves the version shown.
LEMMA NewShown ==
    ASSUME ShapeInv, [Next]_vars, NEW s \in Sites, shown'[s] # shown[s]
    PROVE  \E t \in Threads : ReadAndPut(t) /\ task[t].site = s /\ shown'[s] = task[t].ver
  <1>1. ASSUME NEW t \in Threads, ReadAndPut(t) PROVE task[t].site = s /\ shown'[s] = task[t].ver
    BY <1>1 DEF ReadAndPut, ShapeInv
  <1>2. ASSUME NEW t \in Threads, NEW x \in Sites, Arrive(t, x) PROVE UNCHANGED shown
    BY <1>2 DEF Arrive, HandleProxyOrStatic, HandleDeploy, HandleDeleteObject, Begin
  <1>3. ASSUME NEW t \in Threads,
               Lookup(t) \/ Acquire(t) \/ Recheck(t) \/ Download(t) \/ Unlock(t) \/ Upload(t)
                  \/ ClearAndPrewarm(t) \/ DeleteObject(t) \/ Invalidate(t)
        PROVE  UNCHANGED shown
    BY <1>3 DEF Lookup, Acquire, Recheck, Download, Unlock, Upload, ClearAndPrewarm,
                DeleteObject, Invalidate
  <1>4. QED
    BY <1>1, <1>2, <1>3 DEF Next, Step, HandleUploadProxy, Janitor, Tick, Restart, vars

\* A thread that reads did so before, or it has just opened the object there is.
LEMMA NewReader ==
    ASSUME ShapeInv, [Next]_vars, NEW t \in Threads, task'[t].pc = "read"
    PROVE  \/ task'[t] = task[t]
           \/ /\ Download(t)
              /\ task'[t].site = task[t].site
              /\ object[task[t].site] # Absent
              /\ task'[t].ver = object[task[t].site]
  <1> USE DEF At
  <1>0. task \in [Threads -> Task]
    BY DEF ShapeInv
  <1>1. ASSUME NEW u \in Threads, NEW s \in Sites, Arrive(u, s) PROVE task'[t] = task[t]
    <2>1. PICK l \in {"lookup", "upload", "delete"} : Begin(u, s, l)
      BY <1>1 DEF Arrive, HandleProxyOrStatic, HandleDeploy, HandleDeleteObject
    <2>2. \A x \in Threads : IF x = u THEN task'[x].pc = l ELSE task'[x] = task[x]
      BY <2>1, Records
    <2>3. QED
      BY <2>2
  <1>2. ASSUME NEW u \in Threads, NEW l, l # "read", Goto(u, l) PROVE task'[t] = task[t]
    BY <1>0, <1>2 DEF Goto, Task
  <1>3. ASSUME NEW u \in Threads, Finish(u) \/ Return(u) PROVE task'[t] = task[t]
    BY <1>3, Records
  <1>4. ASSUME NEW u \in Threads,
               Lookup(u) \/ Acquire(u) \/ Recheck(u) \/ ReadAndPut(u) \/ Unlock(u) \/ Upload(u)
                  \/ ClearAndPrewarm(u) \/ DeleteObject(u) \/ Invalidate(u)
        PROVE  task'[t] = task[t]
    BY <1>2, <1>3, <1>4
       DEF Lookup, Acquire, Recheck, ReadAndPut, Unlock, Upload, ClearAndPrewarm, DeleteObject,
           Invalidate
  <1>5. ASSUME NEW u \in Threads, Download(u), ~Return(u)
        PROVE  \/ task'[t] = task[t]
               \/ /\ Download(t)
                  /\ task'[t].site = task[t].site
                  /\ object[task[t].site] # Absent
                  /\ task'[t].ver = object[task[t].site]
    BY <1>0, <1>5 DEF Download, Task
  <1>6. CASE Restart
    BY <1>6 DEF Restart, Idle
  <1>7. CASE task' = task
    BY <1>7
  <1>8. QED
    BY <1>1, <1>3, <1>4, <1>5, <1>6, <1>7 DEF Next, Step, HandleUploadProxy, Janitor, Tick, vars

LEMMA VersionsStep == ShapeInv /\ MutualExclusion /\ Versions /\ [Next]_vars => Versions'
  <1> SUFFICES ASSUME ShapeInv, MutualExclusion, Versions, [Next]_vars PROVE Versions'
    OBVIOUS
  <1>0. ShapeInv'
    BY ShapeStep
  <1>1. ASSUME NEW s \in Sites PROVE object'[s] \in {Absent, latest'[s]} /\ latest[s] <= latest'[s]
    BY BucketStep DEF Versions
  <1>2. ASSUME NEW s \in Sites PROVE shown'[s] <= latest'[s]
    <2>1. /\ shown[s] \in Nat /\ shown'[s] \in Nat /\ latest[s] \in Nat /\ latest'[s] \in Nat
          /\ shown[s] <= latest[s]
      BY <1>0 DEF ShapeInv, Versions
    <2>2. CASE shown'[s] = shown[s]
      BY <1>1, <2>1, <2>2
    <2>3. CASE shown'[s] # shown[s]
      <3>1. PICK t \in Threads : ReadAndPut(t) /\ task[t].site = s /\ shown'[s] = task[t].ver
        BY <2>3, NewShown
      <3>2. task[t].ver <= latest[s]
        BY <3>1 DEF ReadAndPut, Versions
      <3>3. QED
        BY <1>1, <2>1, <3>1, <3>2
    <2>4. QED
      BY <2>2, <2>3
  <1>3. ASSUME NEW t \in Threads, task'[t].pc = "read"
        PROVE  /\ shown'[task'[t].site] <= task'[t].ver
               /\ task'[t].ver <= latest'[task'[t].site]
    <2> DEFINE s == task'[t].site
    <2>1. s \in Sites /\ task'[t].ver \in Nat
      BY <1>0, <1>3 DEF ShapeInv, TaskShape, Version
    <2>2. /\ shown[s] \in Nat /\ latest[s] \in Nat /\ latest'[s] \in Nat
          /\ latest[s] <= latest'[s] /\ shown[s] <= latest[s]
      BY <1>0, <1>1, <2>1 DEF ShapeInv, Versions
    <2>3. task[t].pc \in Loading
      BY <1>3, NewReader DEF Loading, Download, At
    <2>4. shown'[s] = shown[s]
      <3>1. ASSUME NEW u \in Threads, ReadAndPut(u) PROVE FALSE
        <4>1. u # t
          BY <1>3, <3>1, Records DEF ReadAndPut
        <4>2. loadMu = u /\ loadMu = t
          BY <2>3, <3>1 DEF MutualExclusion, Loading, ReadAndPut, At
        <4>3. QED
          BY <4>1, <4>2
      <3>2. QED
        BY <2>1, <3>1, NewShown
    <2>5. CASE task'[t] = task[t]
      BY <1>3, <2>1, <2>2, <2>4, <2>5 DEF Versions, At
    <2>6. CASE s = task[t].site /\ object[s] # Absent /\ task'[t].ver = object[s]
      BY <2>1, <2>2, <2>4, <2>6 DEF Versions
    <2>7. QED
      BY <1>3, <2>5, <2>6, NewReader
  <1>4. QED
    BY <1>1, <1>2, <1>3 DEF Versions, At

\* The versions visitors are shown of a site only grow, across deployments,
\* deletions, evictions and restarts.
THEOREM SiteNeverOlder == Spec => NeverOlder
  <1>1. Init => Versions
    BY DEF Init, Versions, Absent, Idle, At
  <1>2. ShapeInv /\ Versions /\ [Next]_vars => [\A s \in Sites : shown'[s] >= shown[s]]_shown
    <2> SUFFICES ASSUME ShapeInv, Versions, [Next]_vars, NEW s \in Sites PROVE shown'[s] >= shown[s]
      OBVIOUS
    <2>1. CASE shown'[s] = shown[s]
      BY <2>1 DEF ShapeInv
    <2>2. CASE shown'[s] # shown[s]
      <3>1. PICK t \in Threads : ReadAndPut(t) /\ task[t].site = s /\ shown'[s] = task[t].ver
        BY <2>2, NewShown
      <3>2. QED
        BY <3>1 DEF ReadAndPut, Versions, ShapeInv, Task
    <2>3. QED
      BY <2>1, <2>2
  <1>3. QED
    BY <1>1, <1>2, VersionsStep, ShapeAlways, SiteMutualExclusion, PTL DEF Spec, NeverOlder

-----------------------------------------------------------------------------
(* The parallel upload.                                                    *)

Holders == {f \in Files : pc[f] \in {"uploading", "failed"}}

\* What the result rests on: a goroutine that gave up, or a file that is missing
\* after its turn, has an error behind it that is in the channel or on its way.
ZipInv == /\ ZipTypeOK
          /\ TokensMatch
          /\ \A f \in Files : pc[f] = "failed" => cancelled
          /\ cancelled /\ ~gone => errors # {} \/ \E f \in Files : pc[f] = "failed"
          /\ \A f \in Files : pc[f] = "done" => f \in stored \/ cancelled
          /\ result # "none" => \A f \in Files : pc[f] = "done"
          /\ result = "ok" => errors = {}

\* A goroutine that takes a token joins the holders.
LEMMA Joins ==
    ASSUME ZipTypeOK, NEW f \in Files, Move(f, "waiting", "uploading")
    PROVE  /\ Holders' = Holders \cup {f}
           /\ Cardinality(Holders') = Cardinality(Holders) + 1
           /\ Cardinality(Holders) \in Nat
  <1>1. Holders' = Holders \cup {f} /\ f \notin Holders
    BY DEF Move, ZipTypeOK, Holders
  <1>2. IsFiniteSet(Holders)
    BY DeployAssumption, FS_Subset DEF Holders
  <1>3. QED
    BY <1>1, <1>2, FS_AddElement, FS_CardinalityType

\* A goroutine that is through leaves them.
LEMMA Leaves ==
    ASSUME ZipTypeOK, NEW f \in Files, NEW from \in {"uploading", "failed"}, Move(f, from, "done")
    PROVE  /\ Cardinality(Holders') = Cardinality(Holders) - 1
           /\ Cardinality(Holders) \in Nat \ {0}
  <1>1. Holders' = Holders \ {f} /\ f \in Holders
    BY DEF Move, ZipTypeOK, Holders
  <1>2. IsFiniteSet(Holders)
    BY DeployAssumption, FS_Subset DEF Holders
  <1>3. Cardinality(Holders) \in Nat /\ Cardinality(Holders) # 0
    BY <1>1, <1>2, FS_CardinalityType, FS_EmptySet
  <1>4. QED
    BY <1>1, <1>2, <1>3, FS_RemoveElement

LEMMA ZipInvInit == ZipInit => ZipInv
  <1> SUFFICES ASSUME ZipInit PROVE ZipInv
    OBVIOUS
  <1>1. Holders = {}
    BY DEF ZipInit, Holders
  <1>2. Cardinality(Holders) = 0
    BY <1>1, FS_EmptySet
  <1>3. TokensMatch
    BY <1>2 DEF ZipInit, TokensMatch, Holders
  <1>4. ZipTypeOK
    <2>1. 0 \in 0 .. Workers
      BY DeployAssumption
    <2>2. QED
      BY <2>1 DEF ZipInit, ZipTypeOK, Stage
  <1>5. QED
    BY <1>3, <1>4 DEF ZipInit, ZipInv

LEMMA ZipInvStep == ZipInv /\ [ZipNext]_zipVars => ZipInv'
  <1> SUFFICES ASSUME ZipInv, [ZipNext]_zipVars PROVE ZipInv'
    OBVIOUS
  <1> USE DEF ZipInv, ZipTypeOK, Stage
  <1>0. sem = Cardinality(Holders) /\ (TokensMatch' <=> sem' = Cardinality(Holders'))
    BY DEF TokensMatch, Holders
  <1>1. ASSUME NEW f \in Files, TakeToken(f) PROVE ZipInv'
    <2>1. TokensMatch' /\ sem' \in 0 .. Workers
      BY <1>0, <1>1, Joins, DeployAssumption DEF TakeToken
    <2>2. QED
      BY <1>1, <2>1 DEF TakeToken, Move
  <1>2. ASSUME NEW f \in Files, GiveUp(f) PROVE ZipInv'
    <2>1. Holders' = Holders
      BY <1>2 DEF GiveUp, Move, Holders
    <2>2. QED
      BY <1>0, <1>2, <2>1 DEF GiveUp, Move
  <1>3. ASSUME NEW f \in Files, Stored(f) PROVE ZipInv'
    <2>1. TokensMatch' /\ sem' \in 0 .. Workers
      BY <1>0, <1>3, Leaves, DeployAssumption DEF Stored
    <2>2. QED
      BY <1>3, <2>1 DEF Stored, Move
  <1>4. ASSUME NEW f \in Files, Fail(f) PROVE ZipInv'
    <2>1. Holders' = Holders
      BY <1>4 DEF Fail, Move, Holders
    <2>2. QED
      BY <1>0, <1>4, <2>1 DEF Fail, Move
  <1>5. ASSUME NEW f \in Files, Report(f) PROVE ZipInv'
    <2>1. TokensMatch' /\ sem' \in 0 .. Workers
      BY <1>0, <1>5, Leaves, DeployAssumption DEF Report
    <2>2. result = "none"
      BY <1>5 DEF Report, Move
    <2>3. QED
      BY <1>5, <2>1, <2>2 DEF Report, Move
  <1>6. CASE CallerGone
    BY <1>0, <1>6 DEF CallerGone, Holders
  <1>7. CASE ZipReturn
    BY <1>0, <1>7 DEF ZipReturn, Holders
  <1>8. CASE UNCHANGED zipVars
    BY <1>0, <1>8 DEF zipVars, Holders
  <1>9. QED
    BY <1>1, <1>2, <1>3, <1>4, <1>5, <1>6, <1>7, <1>8 DEF ZipNext, Goroutine

LEMMA ZipInvAlways == ZipSpec => []ZipInv
  BY ZipInvInit, ZipInvStep, PTL DEF ZipSpec

\* Every variable keeps its type: sem never holds more than Workers tokens.
THEOREM DeployTypeOK == ZipSpec => []ZipTypeOK
  BY ZipInvAlways, PTL DEF ZipInv

\* No path of a goroutine loses a token or gives one back twice.
THEOREM DeployTokensMatch == ZipSpec => []TokensMatch
  BY ZipInvAlways, PTL DEF ZipInv

\* While the caller stays, nil means that every file is in the bucket.
THEOREM DeploySuccessIsComplete == ZipSpec => []SuccessIsComplete
  <1>1. ZipInv => SuccessIsComplete
    BY DEF ZipInv, ZipTypeOK, SuccessIsComplete
  <1>2. QED
    BY <1>1, ZipInvAlways, PTL

\* Nothing is written to the site once DeployZip has returned.
THEOREM DeployNothingAfterReturn == ZipSpec => NothingAfterReturn
  <1>1. ZipInv /\ [ZipNext]_zipVars => [result # "none" => stored' = stored]_zipVars
    <2> SUFFICES ASSUME ZipInv, ZipNext, result # "none" PROVE stored' = stored
      BY DEF zipVars
    <2>1. \A f \in Files : pc[f] = "done"
      BY DEF ZipInv
    <2>2. QED
      BY <2>1 DEF ZipNext, Goroutine, TakeToken, GiveUp, Stored, Fail, Report, Move, CallerGone, ZipReturn
  <1>2. QED
    BY <1>1, ZipInvAlways, PTL DEF ZipSpec, NothingAfterReturn

-----------------------------------------------------------------------------
(* Induction over the natural numbers, with a set for the predicate, and   *)
(* what it is for: a loop of any number of turns is a function.            *)

\* A set with 0 and the successor of each of its numbers has them all.
LEMMA NatSet ==
    ASSUME NEW G, 0 \in G, \A n \in Nat : n \in G => n + 1 \in G
    PROVE  Nat \subseteq G
  <1> SUFFICES ASSUME Nat \ G # {} PROVE FALSE
    OBVIOUS
  <1> DEFINE Upto(n) == 0 .. n
             D == {Upto(n) : n \in Nat \ G}
  <1>0. D \subseteq FiniteSubsetsOf(Nat) /\ D # {}
    <2>1. \A n \in Nat : Upto(n) \in SUBSET Nat /\ IsFiniteSet(Upto(n))
      BY FS_Interval
    <2>2. QED
      BY <2>1 DEF FiniteSubsetsOf
  <1>1. PICK d \in D : \A e \in D : <<e, d>> \notin StrictSubsetOrdering(Nat)
    BY <1>0, FS_StrictSubsetOrderingWellFounded, WFMin
  <1>11. PICK n \in Nat \ G : d = Upto(n)
    BY <1>1
  <1>2. \A m \in Nat \ G : ~(m < n)
    <2> SUFFICES ASSUME NEW m \in Nat \ G, m < n PROVE FALSE
      OBVIOUS
    <2>1. Upto(m) \in SUBSET Nat /\ Upto(n) \in SUBSET Nat /\ Upto(m) \subseteq Upto(n) /\ Upto(m) # Upto(n)
      <3>1. n \in Upto(n) /\ n \notin Upto(m)
        OBVIOUS
      <3>2. QED
        BY <3>1
    <2>2. <<Upto(m), Upto(n)>> \in StrictSubsetOrdering(Nat)
      BY <2>1 DEF StrictSubsetOrdering
    <2>3. QED
      BY <1>1, <1>11, <2>2
  <1>3. n # 0 /\ n - 1 \in Nat /\ n - 1 < n /\ (n - 1) + 1 = n
    OBVIOUS
  <1>4. QED
    BY <1>2, <1>3

\* A function can be iterated.
LEMMA Iterates ==
    ASSUME NEW T, NEW s0 \in T, NEW F \in [T -> T]
    PROVE  \E f \in [Nat -> T] : f[0] = s0 /\ \A n \in Nat : f[n + 1] = F[f[n]]
  <1> DEFINE Good(n, g) == /\ g \in [0 .. n -> T]
                           /\ g[0] = s0
                           /\ \A i \in Nat : i < n => g[i + 1] = F[g[i]]
             G == {n \in Nat : \E g : Good(n, g)}
  <1>1. Nat \subseteq G
    <2>1. Good(0, [i \in 0 .. 0 |-> s0])
      OBVIOUS
    <2>2. 0 \in G
      BY <2>1
    <2>3. ASSUME NEW n \in Nat, n \in G PROVE n + 1 \in G
      <3>1. PICK g : Good(n, g)
        BY <2>3
      <3> DEFINE h == [i \in 0 .. n + 1 |-> IF i = n + 1 THEN F[g[n]] ELSE g[i]]
      <3>2. /\ \A i \in 0 .. n : h[i] = g[i]
            /\ h[n + 1] = F[g[n]]
            /\ h \in [0 .. n + 1 -> T]
        BY <3>1
      <3> HIDE DEF h
      <3>3. \A i \in Nat : i < n + 1 => h[i + 1] = F[h[i]]
        BY <3>1, <3>2
      <3>4. Good(n + 1, h)
        BY <3>1, <3>2, <3>3
      <3>5. QED
        BY <3>4
    <2> HIDE DEF G
    <2>4. QED
      BY <2>2, <2>3, NatSet
  <1>2. PICK w : w = [n \in Nat |-> CHOOSE g : Good(n, g)]
    OBVIOUS
  <1>3. \A n \in Nat : Good(n, w[n])
    <2>1. \A n \in Nat : \E g : Good(n, g)
      BY <1>1
    <2>2. \A n \in Nat : Good(n, CHOOSE g : Good(n, g))
      BY <2>1, Zenon
    <2>3. QED
      BY <1>2, <2>2, Zenon
  <1> DEFINE f == [n \in Nat |-> w[n][n]]
  <1>4. \A n \in Nat : w[n + 1][n] = w[n][n]
    <2> SUFFICES ASSUME NEW n \in Nat PROVE w[n + 1][n] = w[n][n]
      OBVIOUS
    <2> DEFINE E == {i \in Nat : i <= n => w[n + 1][i] = w[n][i]}
    <2>1. Good(n, w[n]) /\ Good(n + 1, w[n + 1])
      BY <1>3
    <2>2. 0 \in E
      BY <2>1
    <2>3. \A i \in Nat : i \in E => i + 1 \in E
      BY <2>1
    <2> HIDE DEF E
    <2>4. n \in E
      BY <2>2, <2>3, NatSet
    <2>5. QED
      BY <2>4 DEF E
  <1>5. f \in [Nat -> T] /\ f[0] = s0
    BY <1>3
  <1>6. \A n \in Nat : f[n + 1] = F[f[n]]
    <2> SUFFICES ASSUME NEW n \in Nat PROVE f[n + 1] = F[f[n]]
      OBVIOUS
    <2>1. n + 1 \in Nat /\ n < n + 1 /\ Good(n + 1, w[n + 1])
      BY <1>3
    <2>2. w[n + 1][n + 1] = F[w[n + 1][n]]
      BY <2>1
    <2>3. QED
      BY <1>4, <2>1, <2>2
  <1>7. QED
    BY <1>5, <1>6
-----------------------------------------------------------------------------
(* The list of nodes and the order it stands for.                          *)

\* The lemmas on LruCache, for the cache the list implements.
LQ == INSTANCE LruCache_proofs WITH entry <- value, newer <- Order, idle <- age

\* The last of some keys of a totally ordered list.
LEMMA LastOf ==
    ASSUME NEW S, NEW R, LQ!IsTotalOrder(R, S),
           NEW U \in SUBSET S, IsFiniteSet(U), U # {}
    PROVE  \E m \in U : \A x \in U \ {m} : <<x, m>> \in R
  <1> DEFINE After(x) == {y \in U : <<x, y>> \in R}
             D == {After(x) : x \in U}
  <1>1. D \subseteq FiniteSubsetsOf(U) /\ D # {}
    <2>1. \A x \in U : After(x) \in SUBSET U /\ IsFiniteSet(After(x))
      BY FS_Subset
    <2>2. QED
      BY <2>1 DEF FiniteSubsetsOf
  <1>2. PICK d \in D : \A e \in D : <<e, d>> \notin StrictSubsetOrdering(U)
    BY <1>1, FS_StrictSubsetOrderingWellFounded, WFMin
  <1>3. PICK m \in U : d = After(m)
    BY <1>2
  <1>4. ASSUME NEW y \in U, <<m, y>> \in R PROVE FALSE
    <2>1. After(y) \in D /\ After(y) \in SUBSET U /\ After(m) \in SUBSET U
      BY <1>4
    <2>2. y \in After(m) /\ y \notin After(y)
      BY <1>4 DEF LQ!IsTotalOrder
    <2>3. After(y) \subseteq After(m)
      BY <1>4 DEF LQ!IsTotalOrder
    <2>4. <<After(y), After(m)>> \in StrictSubsetOrdering(U)
      BY <2>1, <2>2, <2>3 DEF StrictSubsetOrdering
    <2>5. QED
      BY <1>2, <1>3, <2>1, <2>4
  <1>5. \A x \in U \ {m} : <<x, m>> \in R
    BY <1>4 DEF LQ!IsTotalOrder
  <1>6. QED
    BY <1>5

\* A pointer field leads from each node of S to the one after it.
Follows(field, R, S) ==
    \A x \in S :
       /\ field[x] \in S \cup {Nil}
       /\ \A y \in S : <<x, y>> \in R <=>
                          field[x] # Nil /\ (y = field[x] \/ <<field[x], y>> \in R)

\* Then what a walk along the field comes to is what is after a node.
LEMMA FollowsReaches ==
    ASSUME NEW S, Nil \notin S, IsFiniteSet(S), NEW R, LQ!IsTotalOrder(R, S),
           NEW field, Follows(field, R, S)
    PROVE  Reaches(field, S) = R
  <1>1. R \in SUBSET (S \X S) /\ Reaches(field, S) \in SUBSET (S \X S)
    BY DEF LQ!IsTotalOrder, Reaches
  <1>2. ASSUME NEW a \in S, NEW b \in S, <<a, b>> \in R,
               NEW T \in SUBSET S, \A x \in T \cup {a} : field[x] \in T \cup {Nil}
        PROVE  b \in T
    <2> SUFFICES ASSUME b \notin T PROVE FALSE
      OBVIOUS
    <2> DEFINE U == {x \in T \cup {a} : <<x, b>> \in R}
    <2>1. U \in SUBSET S /\ a \in U
      BY <1>2
    <2>2. IsFiniteSet(U)
      BY <2>1, FS_Subset
    <2> HIDE DEF U
    <2>3. PICK m \in U : \A x \in U \ {m} : <<x, m>> \in R
      BY <2>1, <2>2, LastOf
    <2>4. m \in S /\ <<m, b>> \in R /\ field[m] \in T \cup {Nil}
      BY <1>2, <2>1, <2>3 DEF U
    <2>5. field[m] \in T /\ <<field[m], b>> \in R
      BY <2>4 DEF Follows
    <2>6. field[m] \in U /\ <<m, field[m]>> \in R
      BY <2>4, <2>5 DEF Follows, U
    <2>7. QED
      BY <2>1, <2>3, <2>4, <2>6 DEF LQ!IsTotalOrder
  <1>3. ASSUME NEW a \in S, NEW b \in S,
               \A T \in SUBSET S : (\A x \in T \cup {a} : field[x] \in T \cup {Nil}) => b \in T
        PROVE  <<a, b>> \in R
    <2> DEFINE T == {x \in S : <<a, x>> \in R}
    <2>1. \A x \in T \cup {a} : field[x] \in T \cup {Nil}
      <3> SUFFICES ASSUME NEW x \in T \cup {a} PROVE field[x] \in T \cup {Nil}
        OBVIOUS
      <3>1. x \in S /\ (x = a \/ <<a, x>> \in R)
        OBVIOUS
      <3>2. CASE field[x] # Nil
        <4>1. field[x] \in S /\ <<x, field[x]>> \in R
          BY <3>1, <3>2 DEF Follows
        <4>2. <<a, field[x]>> \in R
          BY <3>1, <4>1 DEF LQ!IsTotalOrder
        <4>3. QED
          BY <4>1, <4>2
      <3>3. QED
        BY <3>2
    <2>2. b \in T
      BY <1>3, <2>1
    <2>3. QED
      BY <2>2
  <1>4. \A a, b \in S : <<a, b>> \in Reaches(field, S) <=> <<a, b>> \in R
    BY <1>2, <1>3 DEF Reaches
  <1>5. QED
    BY <1>1, <1>4

Turned(R) == {<<p[2], p[1]>> : p \in R}

LEMMA TurnedMember ==
    ASSUME NEW S, NEW R \in SUBSET (S \X S), NEW a, NEW b
    PROVE  <<a, b>> \in Turned(R) <=> <<b, a>> \in R
  <1>1. ASSUME <<a, b>> \in Turned(R) PROVE <<b, a>> \in R
    <2>1. PICK p \in R : <<a, b>> = <<p[2], p[1]>>
      BY <1>1 DEF Turned
    <2>2. p = <<b, a>>
      BY <2>1
    <2>3. QED
      BY <2>2
  <1>2. ASSUME <<b, a>> \in R PROVE <<a, b>> \in Turned(R)
    BY <1>2 DEF Turned
  <1>3. QED
    BY <1>1, <1>2

LEMMA TurnedOrder ==
    ASSUME NEW S, NEW R, LQ!IsTotalOrder(R, S)
    PROVE  LQ!IsTotalOrder(Turned(R), S)
  <1>1. \A a, b : <<a, b>> \in Turned(R) <=> <<b, a>> \in R
    BY TurnedMember DEF LQ!IsTotalOrder
  <1>2. Turned(R) \in SUBSET (S \X S)
    BY DEF LQ!IsTotalOrder, Turned
  <1>3. QED
    BY <1>1, <1>2 DEF LQ!IsTotalOrder

Links == [head : Node, tail : Node, prev : [Keys -> Node], next : [Keys -> Node]]

\* The nodes of S are linked in the order R, both ways and from head to tail.
Linked(L, R, S) ==
    /\ L \in Links /\ S \in SUBSET Keys
    /\ LQ!IsTotalOrder(R, S)
    /\ Follows(L.next, R, S)
    /\ Follows(L.prev, Turned(R), S)
    /\ L.head \in S \cup {Nil} /\ L.tail \in S \cup {Nil}
    /\ \A y \in S : /\ L.head # Nil /\ (y = L.head \/ <<L.head, y>> \in R)
                    /\ L.tail # Nil /\ (y = L.tail \/ <<y, L.tail>> \in R)

\* What is linked in the order R stands for R.
LEMMA LinkedReaches ==
    ASSUME NEW L, NEW R, NEW S, IsFiniteSet(S), Linked(L, R, S)
    PROVE  /\ Reaches(L.next, S) = R
           /\ Reaches(L.prev, S) = Turned(R)
  <1>1. Nil \notin S
    BY ListAssumption DEF Linked
  <1>2. Reaches(L.next, S) = R
    BY <1>1, FollowsReaches DEF Linked
  <1>3. Reaches(L.prev, S) = Turned(R)
    BY <1>1, FollowsReaches, TurnedOrder DEF Linked
  <1>4. QED
    BY <1>2, <1>3

\* The same without the turned order and the fields of the record.
IsLinked(head, tail, prev, next, R, S) ==
    /\ Nil \notin S
    /\ LQ!IsTotalOrder(R, S)
    /\ \A x \in S : next[x] \in S \cup {Nil} /\ prev[x] \in S \cup {Nil}
    /\ \A x, y \in S : <<x, y>> \in R <=> next[x] # Nil /\ (y = next[x] \/ <<next[x], y>> \in R)
    /\ \A x, y \in S : <<y, x>> \in R <=> prev[x] # Nil /\ (y = prev[x] \/ <<y, prev[x]>> \in R)
    /\ head \in S \cup {Nil} /\ tail \in S \cup {Nil}
    /\ \A y \in S : /\ head # Nil /\ (y = head \/ <<head, y>> \in R)
                    /\ tail # Nil /\ (y = tail \/ <<y, tail>> \in R)

LEMMA LinkedFields ==
    ASSUME NEW L \in Links, NEW R, NEW S \in SUBSET Keys
    PROVE  Linked(L, R, S) <=> IsLinked(L.head, L.tail, L.prev, L.next, R, S)
  <1>1. Nil \notin S
    BY ListAssumption
  <1>2. SUFFICES ASSUME LQ!IsTotalOrder(R, S)
                 PROVE  Linked(L, R, S) <=> IsLinked(L.head, L.tail, L.prev, L.next, R, S)
    BY DEF Linked, IsLinked
  <1>3. \A a, b : <<a, b>> \in Turned(R) <=> <<b, a>> \in R
    BY <1>2, TurnedMember DEF LQ!IsTotalOrder
  <1>4. Follows(L.next, R, S) <=>
           /\ \A x \in S : L.next[x] \in S \cup {Nil}
           /\ \A x, y \in S : <<x, y>> \in R <=>
                 L.next[x] # Nil /\ (y = L.next[x] \/ <<L.next[x], y>> \in R)
    BY DEF Follows
  <1>5. Follows(L.prev, Turned(R), S) <=>
           /\ \A x \in S : L.prev[x] \in S \cup {Nil}
           /\ \A x, y \in S : <<y, x>> \in R <=>
                 L.prev[x] # Nil /\ (y = L.prev[x] \/ <<y, L.prev[x]>> \in R)
    BY <1>3 DEF Follows
  <1>6. QED
    BY <1>1, <1>2, <1>4, <1>5 DEF Linked, IsLinked

\* The two directions agree.
LEMMA Neighbours ==
    ASSUME NEW head, NEW tail, NEW prev, NEW next, NEW R, NEW S,
           IsLinked(head, tail, prev, next, R, S), NEW x \in S, NEW y \in S
    PROVE  /\ next[x] = y <=> prev[y] = x
           /\ prev[x] = Nil <=> x = head
           /\ next[x] = Nil <=> x = tail
  <1>1. ASSUME next[x] = y PROVE prev[y] = x
    <2>1. <<x, y>> \in R
      BY <1>1 DEF IsLinked
    <2>2. prev[y] \in S /\ (x = prev[y] \/ <<x, prev[y]>> \in R) /\ <<prev[y], y>> \in R
      BY <2>1 DEF IsLinked
    <2>3. <<x, prev[y]>> \notin R
      BY <1>1, <2>2 DEF IsLinked, LQ!IsTotalOrder
    <2>4. QED
      BY <2>2, <2>3
  <1>2. ASSUME prev[y] = x PROVE next[x] = y
    <2>1. <<x, y>> \in R
      BY <1>2 DEF IsLinked
    <2>2. next[x] \in S /\ (y = next[x] \/ <<next[x], y>> \in R) /\ <<x, next[x]>> \in R
      BY <2>1 DEF IsLinked
    <2>3. next[x] # x /\ <<next[x], x>> \notin R
      BY <2>2 DEF IsLinked, LQ!IsTotalOrder
    <2>4. <<next[x], y>> \notin R
      BY <1>2, <2>2, <2>3 DEF IsLinked
    <2>5. QED
      BY <2>2, <2>4
  <1>3. prev[x] = Nil <=> x = head
    <2>1. head \in S /\ (x = head \/ <<head, x>> \in R)
      BY DEF IsLinked
    <2>2. \A z \in S : <<z, head>> \notin R
      BY <2>1 DEF IsLinked, LQ!IsTotalOrder
    <2>3. prev[x] # Nil => prev[x] \in S /\ <<prev[x], x>> \in R
      BY DEF IsLinked
    <2>4. prev[x] = Nil => <<head, x>> \notin R
      BY <2>1 DEF IsLinked
    <2>5. QED
      BY <2>1, <2>2, <2>3, <2>4
  <1>4. next[x] = Nil <=> x = tail
    <2>1. tail \in S /\ (x = tail \/ <<x, tail>> \in R)
      BY DEF IsLinked
    <2>2. \A z \in S : <<tail, z>> \notin R
      BY <2>1 DEF IsLinked, LQ!IsTotalOrder
    <2>3. next[x] # Nil => next[x] \in S /\ <<x, next[x]>> \in R
      BY DEF IsLinked
    <2>4. next[x] = Nil => <<x, tail>> \notin R
      BY <2>1 DEF IsLinked
    <2>5. QED
      BY <2>1, <2>2, <2>3, <2>4
  <1>5. QED
    BY <1>1, <1>2, <1>3, <1>4

\* Where a pointer led to n it leads where that of n does.
Skips(n, prev, next, prev2, next2, S) ==
    \A x \in S \ {n} : /\ next2[x] = IF next[x] = n THEN next[n] ELSE next[x]
                       /\ prev2[x] = IF prev[x] = n THEN prev[n] ELSE prev[x]

\* A node is taken out: its neighbours lead to each other.
LEMMA WithoutNode ==
    ASSUME NEW head, NEW tail, NEW prev, NEW next, NEW R, NEW S,
           IsLinked(head, tail, prev, next, R, S), NEW n \in S,
           NEW prev2, NEW next2, Skips(n, prev, next, prev2, next2, S)
    PROVE  IsLinked(IF n = head THEN next[n] ELSE head, IF n = tail THEN prev[n] ELSE tail,
                    prev2, next2, LQ!Unlink(R, {n}), S \ {n})
  <1> USE DEF Skips
  <1> DEFINE T == S \ {n}
             Q == LQ!Unlink(R, {n})
             head2 == IF n = head THEN next[n] ELSE head
             tail2 == IF n = tail THEN prev[n] ELSE tail
  <1>1. LQ!IsTotalOrder(Q, T)
    BY LQ!UnlinkOrder, LruAssumption DEF IsLinked
  <1>2. \A x, y \in T : <<x, y>> \in Q <=> <<x, y>> \in R
    BY LQ!UnlinkMember, LruAssumption
  <1>3. next[n] \in T \cup {Nil} /\ prev[n] \in T \cup {Nil}
    <2>1. next[n] # Nil => <<n, next[n]>> \in R
      BY DEF IsLinked
    <2>2. prev[n] # Nil => <<prev[n], n>> \in R
      BY DEF IsLinked
    <2>3. QED
      BY <2>1, <2>2 DEF IsLinked, LQ!IsTotalOrder
  <1>4. \A x \in T : next2[x] \in T \cup {Nil} /\ prev2[x] \in T \cup {Nil}
    BY <1>3 DEF IsLinked
  <1>5. ASSUME NEW x \in T, NEW y \in T
        PROVE  <<x, y>> \in R <=> next2[x] # Nil /\ (y = next2[x] \/ <<next2[x], y>> \in R)
    <2>1. <<x, y>> \in R <=> next[x] # Nil /\ (y = next[x] \/ <<next[x], y>> \in R)
      BY DEF IsLinked
    <2>2. <<n, y>> \in R <=> next[n] # Nil /\ (y = next[n] \/ <<next[n], y>> \in R)
      BY DEF IsLinked
    <2>3. n # Nil
      BY DEF IsLinked
    <2>4. QED
      BY <2>1, <2>2, <2>3
  <1>6. ASSUME NEW x \in T, NEW y \in T
        PROVE  <<y, x>> \in R <=> prev2[x] # Nil /\ (y = prev2[x] \/ <<y, prev2[x]>> \in R)
    <2>1. <<y, x>> \in R <=> prev[x] # Nil /\ (y = prev[x] \/ <<y, prev[x]>> \in R)
      BY DEF IsLinked
    <2>2. <<y, n>> \in R <=> prev[n] # Nil /\ (y = prev[n] \/ <<y, prev[n]>> \in R)
      BY DEF IsLinked
    <2>3. n # Nil
      BY DEF IsLinked
    <2>4. QED
      BY <2>1, <2>2, <2>3
  <1>7. head2 \in T \cup {Nil} /\ tail2 \in T \cup {Nil}
    BY <1>3 DEF IsLinked
  <1>8. ASSUME NEW y \in T
        PROVE  /\ head2 # Nil /\ (y = head2 \/ <<head2, y>> \in R)
               /\ tail2 # Nil /\ (y = tail2 \/ <<y, tail2>> \in R)
    <2>1. CASE n = head
      BY <2>1 DEF IsLinked
    <2>2. QED
      BY DEF IsLinked
  <1>9. Nil \notin T
    BY DEF IsLinked
  <1> HIDE DEF T, Q, head2, tail2
  <1>10. IsLinked(head2, tail2, prev2, next2, Q, T)
    <2>1. \A x, y \in T : <<x, y>> \in Q <=> next2[x] # Nil /\ (y = next2[x] \/ <<next2[x], y>> \in Q)
      BY <1>2, <1>4, <1>5
    <2>2. \A x, y \in T : <<y, x>> \in Q <=> prev2[x] # Nil /\ (y = prev2[x] \/ <<y, prev2[x]>> \in Q)
      BY <1>2, <1>4, <1>6
    <2>3. \A y \in T : /\ head2 # Nil /\ (y = head2 \/ <<head2, y>> \in Q)
                       /\ tail2 # Nil /\ (y = tail2 \/ <<y, tail2>> \in Q)
      BY <1>2, <1>7, <1>8
    <2>4. QED
      BY <1>1, <1>4, <1>7, <1>9, <2>1, <2>2, <2>3 DEF IsLinked
  <1>11. QED
    BY <1>10 DEF T, Q, head2, tail2

\* n leads to the old head and the old head back to n.
Heads(n, head, prev, next, prev2, next2, S) ==
    /\ next2[n] = head /\ prev2[n] = Nil
    /\ \A x \in S : next2[x] = next[x] /\ prev2[x] = IF x = head THEN n ELSE prev[x]

\* A new node goes in front.
LEMMA WithNode ==
    ASSUME NEW head, NEW tail, NEW prev, NEW next, NEW R, NEW S,
           IsLinked(head, tail, prev, next, R, S), NEW n, n \notin S, n # Nil,
           NEW prev2, NEW next2, Heads(n, head, prev, next, prev2, next2, S)
    PROVE  IsLinked(n, IF tail = Nil THEN n ELSE tail, prev2, next2,
                    LQ!ToFront(R, S, n), S \cup {n})
  <1> USE DEF Heads
  <1> DEFINE T == S \cup {n}
             Q == LQ!ToFront(R, S, n)
             tail2 == IF tail = Nil THEN n ELSE tail
  <1>1. LQ!IsTotalOrder(Q, T)
    BY LQ!ToFrontOrder, LruAssumption DEF IsLinked
  <1>2. \A x, y \in T : <<x, y>> \in Q <=> \/ <<x, y>> \in R /\ x # n /\ y # n
                                           \/ x = n /\ y \in S
    BY LQ!ToFrontMember, LruAssumption
  <1>3. Nil \notin T
    BY DEF IsLinked
  <1>4. \A x \in T : next2[x] \in T \cup {Nil} /\ prev2[x] \in T \cup {Nil}
    BY DEF IsLinked
  <1>5. ASSUME NEW x \in T, NEW y \in T
        PROVE  <<x, y>> \in Q <=> next2[x] # Nil /\ (y = next2[x] \/ <<next2[x], y>> \in Q)
    <2>1. CASE x = n
      BY <1>2, <2>1 DEF IsLinked
    <2>2. CASE x # n
      BY <1>2, <2>2 DEF IsLinked
    <2>3. QED
      BY <2>1, <2>2
  <1>6. ASSUME NEW x \in T, NEW y \in T
        PROVE  <<y, x>> \in Q <=> prev2[x] # Nil /\ (y = prev2[x] \/ <<y, prev2[x]>> \in Q)
    <2>1. CASE x = n
      BY <1>2, <2>1
    <2>2. CASE x = head /\ x # n
      <3>1. prev2[x] = n
        BY <2>2
      <3>2. x \in S /\ \A z \in S : <<z, x>> \notin R
        BY <2>2 DEF IsLinked, LQ!IsTotalOrder
      <3>3. QED
        BY <1>2, <2>2, <3>1, <3>2 DEF IsLinked
    <2>3. CASE x # head /\ x # n
      <3>1. x \in S /\ prev2[x] = prev[x] /\ prev[x] # Nil /\ prev[x] \in S
        BY <2>3, Neighbours DEF IsLinked
      <3>2. QED
        BY <1>2, <2>3, <3>1 DEF IsLinked
    <2>4. QED
      BY <2>1, <2>2, <2>3
  <1>7. tail2 \in T \cup {Nil}
    BY DEF IsLinked
  <1>8. ASSUME NEW y \in T
        PROVE  /\ y = n \/ <<n, y>> \in Q
               /\ tail2 # Nil /\ (y = tail2 \/ <<y, tail2>> \in Q)
    <2>1. tail2 # Nil
      OBVIOUS
    <2>2. CASE tail = Nil
      BY <1>2, <2>2 DEF IsLinked
    <2>3. CASE tail # Nil
      BY <1>2, <2>3 DEF IsLinked
    <2>4. QED
      BY <2>1, <2>2, <2>3
  <1> HIDE DEF Q, tail2
  <1>9. IsLinked(n, tail2, prev2, next2, Q, T)
    BY <1>1, <1>3, <1>4, <1>5, <1>6, <1>7, <1>8 DEF IsLinked
  <1>10. QED
    BY <1>9 DEF Q, tail2

\* AddToFront, RemoveNode, MoveToFront and Free do to the list what ToFront and
\* Unlink do to the order.
LEMMA AddLinked ==
    ASSUME NEW L, NEW R, NEW S, Linked(L, R, S), NEW n \in Keys \ S
    PROVE  Linked(AddToFront(L, n), LQ!ToFront(R, S, n), S \cup {n})
  <1> DEFINE A == AddToFront(L, n)
  <1>1. L \in Links /\ S \in SUBSET Keys /\ n # Nil
    BY ListAssumption DEF Linked
  <1>2. A \in Links
    BY <1>1 DEF AddToFront, Links, Node
  <1>3. /\ A.head = n /\ A.tail = IF L.tail = Nil THEN n ELSE L.tail
        /\ A.next[n] = L.head /\ A.prev[n] = Nil
        /\ \A x \in S : /\ A.next[x] = L.next[x]
                        /\ A.prev[x] = IF x = L.head THEN n ELSE L.prev[x]
    BY <1>1 DEF AddToFront, Links
  <1>4. IsLinked(L.head, L.tail, L.prev, L.next, R, S)
    BY <1>1, LinkedFields
  <1> HIDE DEF A
  <1>5. IsLinked(n, IF L.tail = Nil THEN n ELSE L.tail, A.prev, A.next,
                 LQ!ToFront(R, S, n), S \cup {n})
    <2>1. Heads(n, L.head, L.prev, L.next, A.prev, A.next, S)
      BY <1>3 DEF Heads
    <2>2. QED
      BY <1>1, <1>4, <2>1, WithNode
  <1>6. IsLinked(A.head, A.tail, A.prev, A.next, LQ!ToFront(R, S, n), S \cup {n})
    BY <1>3, <1>5
  <1>7. S \cup {n} \in SUBSET Keys
    BY <1>1
  <1>8. Linked(A, LQ!ToFront(R, S, n), S \cup {n})
    BY <1>2, <1>6, <1>7, LinkedFields
  <1>9. QED
    BY <1>8 DEF A

LEMMA RemoveLinked ==
    ASSUME NEW L, NEW R, NEW S, Linked(L, R, S), NEW n \in S
    PROVE  /\ Linked(RemoveNode(L, n), LQ!Unlink(R, {n}), S \ {n})
           /\ Linked(Free(L, n), LQ!Unlink(R, {n}), S \ {n})
  <1> DEFINE A == RemoveNode(L, n)
             B == Free(L, n)
             Q == LQ!Unlink(R, {n})
             T == S \ {n}
  <1>1. L \in Links /\ S \in SUBSET Keys /\ n \in Keys /\ n # Nil /\ Nil \notin Keys
    BY ListAssumption DEF Linked
  <1>2. IsLinked(L.head, L.tail, L.prev, L.next, R, S)
    BY <1>1, LinkedFields
  <1>3. L.next[n] \in Keys \cup {Nil} /\ L.prev[n] \in Keys \cup {Nil}
    BY <1>1, <1>2 DEF IsLinked
  <1>4. A \in Links
    BY <1>1, <1>3 DEF RemoveNode, Links, Node
  <1>5. B \in Links
    BY <1>1, <1>4 DEF Free, Links, Node
  <1>6. \A x \in S : /\ L.next[x] = n <=> L.prev[n] = x
                     /\ L.prev[x] = n <=> L.next[n] = x
    BY <1>2, Neighbours
  <1>7. L.prev[n] = Nil <=> n = L.head
    BY <1>2, Neighbours
  <1>8. L.next[n] = Nil <=> n = L.tail
    BY <1>2, Neighbours
  <1>9. /\ A.head = IF n = L.head THEN L.next[n] ELSE L.head
        /\ A.tail = IF n = L.tail THEN L.prev[n] ELSE L.tail
    BY <1>7, <1>8 DEF RemoveNode
  <1>10. \A x \in T : A.next[x] = IF L.next[x] = n THEN L.next[n] ELSE L.next[x]
    BY <1>1, <1>3, <1>6 DEF RemoveNode, Links
  <1>11. \A x \in T : A.prev[x] = IF L.prev[x] = n THEN L.prev[n] ELSE L.prev[x]
    BY <1>1, <1>3, <1>6 DEF RemoveNode, Links
  <1>12. /\ B.head = A.head /\ B.tail = A.tail
         /\ \A x \in T : B.next[x] = A.next[x] /\ B.prev[x] = A.prev[x]
    BY <1>1, <1>4 DEF Free, Links
  <1> HIDE DEF A, B
  <1>13. IsLinked(A.head, A.tail, A.prev, A.next, Q, T)
    <2>1. Skips(n, L.prev, L.next, A.prev, A.next, S)
      BY <1>10, <1>11 DEF Skips
    <2>2. QED
      BY <1>2, <1>9, <2>1, WithoutNode
  <1>14. IsLinked(A.head, A.tail, B.prev, B.next, Q, T)
    <2>1. Skips(n, L.prev, L.next, B.prev, B.next, S)
      BY <1>10, <1>11, <1>12 DEF Skips
    <2>2. QED
      BY <1>2, <1>9, <2>1, WithoutNode
  <1>15. Linked(A, Q, T) /\ Linked(B, Q, T)
    BY <1>1, <1>4, <1>5, <1>12, <1>13, <1>14, LinkedFields
  <1>16. QED
    BY <1>15 DEF A, B

LEMMA MoveLinked ==
    ASSUME NEW L, NEW R, NEW S, Linked(L, R, S), NEW n \in S
    PROVE  Linked(MoveToFront(L, n), LQ!ToFront(R, S, n), S)
  <1>1. Linked(RemoveNode(L, n), LQ!Unlink(R, {n}), S \ {n})
    BY RemoveLinked
  <1>2. n \in Keys \ (S \ {n}) /\ (S \ {n}) \cup {n} = S
    BY DEF Linked
  <1>3. LQ!ToFront(LQ!Unlink(R, {n}), S \ {n}, n) = LQ!ToFront(R, S, n)
    BY DEF LQ!ToFront, LQ!Unlink
  <1>4. Linked(MoveToFront(L, n), LQ!ToFront(LQ!Unlink(R, {n}), S \ {n}, n), (S \ {n}) \cup {n})
    BY <1>1, <1>2, AddLinked DEF MoveToFront
  <1>5. QED
    BY <1>2, <1>3, <1>4

\* The tail pointer is at the tail.
LEMMA TailLinked ==
    ASSUME NEW L, NEW R, NEW S, Linked(L, R, S)
    PROVE  /\ L.tail = Nil <=> S = {}
           /\ L.tail # Nil => L.tail \in S /\ LQ!AtTail(R, S, L.tail)
  BY ListAssumption DEF Linked, LQ!AtTail

-----------------------------------------------------------------------------
(* The janitor's loop.                                                     *)

Sweep == [l : Links, left : SUBSET Keys]

\* One turn of it.
SweepOnce(s) == IF s.l.tail # Nil /\ age[s.l.tail] > TTL
                THEN [l |-> Free(s.l, s.l.tail), left |-> s.left \ {s.l.tail}]
                ELSE s

LEMMA SweptTurns ==
    ASSUME ListTypeOK
    PROVE  /\ Swept[0] = [l |-> list, left |-> items]
           /\ \A n \in Nat : Swept[n + 1] = SweepOnce(Swept[n])
  <1> DEFINE s0 == [l |-> list, left |-> items]
             F == [s \in Sweep |-> SweepOnce(s)]
             Body(g) == [n \in Nat |-> IF n = 0 THEN s0 ELSE SweepOnce(g[n - 1])]
  <1>1. s0 \in Sweep
    BY DEF ListTypeOK, Sweep, Links
  <1>2. ASSUME NEW s \in Sweep PROVE SweepOnce(s) \in Sweep
    <2>1. CASE s.l.tail = Nil
      BY <2>1 DEF SweepOnce
    <2>2. CASE s.l.tail # Nil
      <3>1. s.l \in Links /\ s.l.tail \in Keys
        BY <2>2 DEF Sweep, Links, Node
      <3>2. Free(s.l, s.l.tail) \in Links
        <4> DEFINE L == s.l
                   n == s.l.tail
        <4>1. L \in Links /\ n \in Keys
          BY <3>1
        <4> HIDE DEF L, n
        <4>2. RemoveNode(L, n) \in Links
          BY <4>1 DEF RemoveNode, Links, Node
        <4>3. Free(L, n) \in Links
          BY <4>1, <4>2 DEF Free, Links, Node
        <4>4. QED
          BY <4>3 DEF L, n
      <3>3. QED
        BY <3>2 DEF SweepOnce, Sweep
    <2>3. QED
      BY <2>1, <2>2
  <1>3. F \in [Sweep -> Sweep]
    BY <1>2
  <1>4. PICK f \in [Nat -> Sweep] : f[0] = s0 /\ \A n \in Nat : f[n + 1] = F[f[n]]
    <2> HIDE DEF s0, F
    <2>1. QED
      BY <1>1, <1>3, Iterates
  <1>5. f = Body(f)
    <2>1. \A n \in Nat : f[n] = IF n = 0 THEN s0 ELSE SweepOnce(f[n - 1])
      <3> SUFFICES ASSUME NEW n \in Nat, n # 0 PROVE f[n] = SweepOnce(f[n - 1])
        BY <1>4
      <3>1. n - 1 \in Nat /\ (n - 1) + 1 = n
        OBVIOUS
      <3> HIDE DEF s0
      <3>2. f[n - 1] \in Sweep
        BY <1>4, <3>1
      <3>3. F[f[n - 1]] = SweepOnce(f[n - 1])
        BY <3>2
      <3> HIDE DEF F
      <3>4. f[(n - 1) + 1] = F[f[n - 1]]
        BY <1>4, <3>1
      <3>5. QED
        BY <3>1, <3>3, <3>4
    <2> HIDE DEF s0
    <2>2. QED
      BY <1>4, <2>1
  <1>6. Swept = CHOOSE g : g = Body(g)
    BY DEF Swept, SweepOnce
  <1>7. Swept = Body(Swept)
    <2> HIDE DEF Body
    <2>1. QED
      BY <1>5, <1>6
  <1>8. Swept[0] = s0
    BY <1>7
  <1>9. \A n \in Nat : Swept[n + 1] = SweepOnce(Swept[n])
    <2> SUFFICES ASSUME NEW n \in Nat PROVE Swept[n + 1] = SweepOnce(Swept[n])
      OBVIOUS
    <2>1. n + 1 \in Nat /\ n + 1 # 0 /\ (n + 1) - 1 = n
      OBVIOUS
    <2> HIDE DEF s0
    <2>2. QED
      BY <1>7, <2>1
  <1>10. QED
    BY <1>8, <1>9

\* What every step keeps: the pointers link the keys of the map in the order
\* they stand for, and a key without a node has neither value nor age.
ListShape == /\ ListTypeOK
             /\ Linked(list, Order, items)
             /\ \A k \in Keys : /\ value[k] # None <=> k \in items
                                /\ k \notin items => age[k] = 0

ListInv == ListShape /\ LQ!LruInv

LEMMA ListCached == ListShape => LQ!Cached = items
  BY DEF ListShape, ListTypeOK, LQ!Cached

LEMMA ListFinite == ListInv => IsFiniteSet(items)
  <1> SUFFICES ASSUME ListInv PROVE IsFiniteSet(items)
    OBVIOUS
  <1>1. LQ!IsFiniteSet(items)
    BY ListCached DEF ListInv, LQ!LruInv, LQ!WithinCapacity
  <1>2. QED
    BY <1>1, Zenon DEF LQ!IsFiniteSet, IsFiniteSet

\* After n turns: what has left was expired, what has not is linked in the old
\* order, and the loop has stopped or taken a node each turn.
SweptSoFar(s, n) ==
    LET left == s.left
    IN  /\ left \in SUBSET items
        /\ Linked(s.l, LQ!Unlink(Order, items \ left), left)
        /\ \A x \in items \ left : age[x] > TTL
        /\ \/ Cardinality(left) = Cardinality(items) - n
           \/ s.l.tail = Nil
           \/ ~(age[s.l.tail] > TTL)

LEMMA SweptAlways ==
    ASSUME ListInv
    PROVE  \A n \in Nat : SweptSoFar(Swept[n], n)
  <1> DEFINE G == {n \in Nat : SweptSoFar(Swept[n], n)}
  <1>0. ListTypeOK /\ IsFiniteSet(items)
    BY ListFinite DEF ListInv, ListShape
  <1>1. 0 \in G
    <2> DEFINE s == [l |-> list, left |-> items]
    <2>1. Swept[0] = s
      BY <1>0, SweptTurns
    <2>2. LQ!Unlink(Order, items \ items) = Order
      BY DEF LQ!Unlink
    <2>3. Cardinality(items) = Cardinality(items) - 0
      BY <1>0, FS_CardinalityType
    <2>4. SweptSoFar(s, 0)
      BY <2>2, <2>3 DEF ListInv, ListShape, SweptSoFar
    <2>5. QED
      BY <2>1, <2>4
  <1>2. ASSUME NEW n \in Nat, n \in G PROVE n + 1 \in G
    <2> DEFINE s == Swept[n]
               t == s.l.tail
               left == s.left
               R == LQ!Unlink(Order, items \ left)
    <2>1. SweptSoFar(s, n)
      BY <1>2
    <2>2. Swept[n + 1] = SweepOnce(s)
      BY <1>0, SweptTurns
    <2>3. CASE t # Nil /\ age[t] > TTL
      <3> DEFINE s2 == [l |-> Free(s.l, t), left |-> left \ {t}]
      <3>1. Swept[n + 1] = s2
        BY <2>2, <2>3 DEF SweepOnce
      <3>2. Linked(s.l, R, left) /\ left \in SUBSET items
        BY <2>1 DEF SweptSoFar
      <3>3. t \in left
        BY <2>3, <3>2, TailLinked
      <3>4. Linked(s2.l, LQ!Unlink(R, {t}), left \ {t})
        BY <3>2, <3>3, RemoveLinked
      <3>5. LQ!Unlink(R, {t}) = LQ!Unlink(Order, items \ (left \ {t}))
        BY <3>2, <3>3 DEF LQ!Unlink, Linked, LQ!IsTotalOrder, ListInv, ListShape
      <3>6. \A x \in items \ (left \ {t}) : age[x] > TTL
        BY <2>1, <2>3 DEF SweptSoFar
      <3>7. Cardinality(left \ {t}) = Cardinality(items) - (n + 1)
        <4>1. Cardinality(left) = Cardinality(items) - n
          BY <2>1, <2>3 DEF SweptSoFar
        <4>2. Cardinality(left \ {t}) = Cardinality(left) - 1
          BY <1>0, <3>2, <3>3, FS_Subset, FS_RemoveElement
        <4>3. Cardinality(items) \in Nat
          BY <1>0, FS_CardinalityType
        <4>4. QED
          BY <4>1, <4>2, <4>3
      <3>8. SweptSoFar(s2, n + 1)
        BY <3>2, <3>4, <3>5, <3>6, <3>7 DEF SweptSoFar
      <3>9. QED
        BY <3>1, <3>8
    <2>4. CASE ~(t # Nil /\ age[t] > TTL)
      <3>1. Swept[n + 1] = s
        BY <2>2, <2>4 DEF SweepOnce
      <3>2. SweptSoFar(s, n + 1)
        BY <2>1, <2>4 DEF SweptSoFar
      <3>3. QED
        BY <3>1, <3>2
    <2>5. QED
      BY <2>3, <2>4
  <1> HIDE DEF G
  <1>3. Nat \subseteq G
    BY <1>1, <1>2, NatSet
  <1>4. QED
    BY <1>3 DEF G

\* When the loop ends, what is left is what is not expired.
LEMMA SweptEnd ==
    ASSUME ListInv
    PROVE  LET s == Swept[Cardinality(items)]
               expired == {k \in items : age[k] > TTL}
           IN  s.left = items \ expired /\ Linked(s.l, LQ!Unlink(Order, expired), s.left)
  <1> DEFINE s == Swept[Cardinality(items)]
             left == s.left
             expired == {k \in items : age[k] > TTL}
  <1>1. IsFiniteSet(items) /\ Cardinality(items) \in Nat
    BY ListFinite, FS_CardinalityType
  <1>2. SweptSoFar(s, Cardinality(items))
    BY <1>1, SweptAlways
  <1> HIDE DEF s
  <1>3. left \in SUBSET items /\ Linked(s.l, LQ!Unlink(Order, items \ left), left)
    BY <1>2 DEF SweptSoFar
  <1>4. IsFiniteSet(left)
    BY <1>1, <1>3, FS_Subset
  <1>5. left = {} \/ (s.l.tail \in left /\ ~(age[s.l.tail] > TTL))
    <2>1. CASE Cardinality(left) = 0
      <3> HIDE DEF left
      <3>1. QED
        BY <1>4, <2>1, FS_EmptySet
    <2>2. CASE Cardinality(left) # 0
      <3>1. s.l.tail = Nil \/ ~(age[s.l.tail] > TTL)
        BY <1>1, <1>2, <2>2 DEF SweptSoFar
      <3>2. /\ s.l.tail = Nil <=> left = {}
            /\ s.l.tail # Nil => s.l.tail \in left
        <4> HIDE DEF left
        <4>1. QED
          BY <1>3, TailLinked
      <3>3. QED
        BY <3>1, <3>2
    <2>3. QED
      BY <2>1, <2>2
  <1>6. ASSUME NEW x \in left PROVE ~(age[x] > TTL)
    <2>1. s.l.tail \in left /\ ~(age[s.l.tail] > TTL)
      BY <1>5
    <2>2. CASE x = s.l.tail
      BY <2>1, <2>2
    <2>3. CASE x # s.l.tail
      <3>1. <<x, s.l.tail>> \in LQ!Unlink(Order, items \ left)
        BY <1>3, <2>3 DEF Linked
      <3>2. <<x, s.l.tail>> \in Order
        BY <3>1 DEF LQ!Unlink
      <3>3. x \in Keys /\ s.l.tail \in Keys
        BY <1>3, <2>1 DEF Linked
      <3>4. age[x] <= age[s.l.tail]
        BY <3>2, <3>3 DEF ListInv, LQ!LruInv, LQ!OrderedByAge
      <3>5. age[x] \in Nat /\ age[s.l.tail] \in Nat
        BY <3>3, LruAssumption DEF ListInv, ListShape, ListTypeOK
      <3>6. QED
        BY <2>1, <3>4, <3>5, LruAssumption
    <2>4. QED
      BY <2>2, <2>3
  <1>7. \A x \in items \ left : age[x] > TTL
    BY <1>2 DEF SweptSoFar
  <1>8. items \ left = expired /\ left = items \ expired
    BY <1>3, <1>6, <1>7
  <1>9. QED
    BY <1>3, <1>8 DEF s

-----------------------------------------------------------------------------
(* Every call does to the order what LruCache says.                        *)

\* A list linked in the order R stands for R.
LEMMA StandsFor ==
    ASSUME NEW R, Linked(list', R, items'), IsFiniteSet(items')
    PROVE  Order' = R /\ Linked(list', Order', items')
  <1>1. Reaches(list'.next, items') = R
    BY LinkedReaches
  <1>2. Order' = R
    BY <1>1 DEF Order, Reaches
  <1>3. QED
    BY <1>2

\* Get of a key that is there, and the update of one, have the list in common.
LEMMA TouchList ==
    ASSUME ListInv, NEW k \in items,
           list' = MoveToFront(list, k), items' = items
    PROVE  Order' = LQ!ToFront(Order, LQ!Cached, k) /\ Linked(list', Order', items')
  <1>1. Linked(list', LQ!ToFront(Order, items, k), items')
    BY MoveLinked DEF ListInv, ListShape
  <1>2. QED
    BY <1>1, ListFinite, ListCached, StandsFor DEF ListInv

LEMMA GetList ==
    ASSUME ListInv, NEW k \in Keys, Get(k)
    PROVE  ListShape' /\ (LQ!Hit(k) \/ UNCHANGED listVars)
  <1>1. CASE UNCHANGED listVars
    <2>1. Order' = Order
      BY <1>1 DEF Order, Reaches, listVars
    <2>2. QED
      BY <1>1, <2>1 DEF ListInv, ListShape, ListTypeOK, listVars
  <1>2. CASE /\ k \in items
             /\ age' = [age EXCEPT ![k] = 0]
             /\ list' = MoveToFront(list, k)
             /\ UNCHANGED <<items, value>>
    <2>1. Order' = LQ!ToFront(Order, LQ!Cached, k) /\ Linked(list', Order', items')
      BY <1>2, TouchList
    <2>2. ListTypeOK'
      BY <1>2, <2>1, LruAssumption DEF ListInv, ListShape, ListTypeOK, Linked, Links
    <2>3. ListShape'
      BY <1>2, <2>1, <2>2 DEF ListInv, ListShape, ListTypeOK
    <2>4. LQ!Hit(k)
      BY <1>2, <2>1, ListCached DEF ListInv, LQ!Hit
    <2>5. QED
      BY <2>3, <2>4
  <1>3. QED
    BY <1>1, <1>2 DEF Get

LEMMA PutExistingList ==
    ASSUME ListInv, NEW k \in Keys, NEW v \in Values, PutExisting(k, v)
    PROVE  ListShape' /\ LQ!Replace(k, v)
  <1>1. Order' = LQ!ToFront(Order, LQ!Cached, k) /\ Linked(list', Order', items')
    BY TouchList DEF PutExisting
  <1>2. ListTypeOK'
    BY <1>1, LruAssumption DEF PutExisting, ListInv, ListShape, ListTypeOK, Linked, Links
  <1>3. ListShape'
    BY <1>1, <1>2, LruAssumption DEF PutExisting, ListInv, ListShape, ListTypeOK
  <1>4. LQ!Replace(k, v)
    BY <1>1, ListCached DEF PutExisting, ListInv, LQ!Replace
  <1>5. QED
    BY <1>3, <1>4

\* The keys of D leave list and map.
LEMMA KeepList ==
    ASSUME ListInv, NEW D \in SUBSET items,
           Linked(list', LQ!Unlink(Order, D), items'), Keep(items \ D)
    PROVE  ListShape' /\ LQ!Drop(D)
  <1>1. items' = items \ D /\ IsFiniteSet(items')
    BY ListFinite, FS_Subset DEF Keep
  <1>2. Order' = LQ!Unlink(Order, D) /\ Linked(list', Order', items')
    BY <1>1, StandsFor
  <1>3. ListTypeOK'
    BY <1>1, <1>2, LruAssumption DEF Keep, ListInv, ListShape, ListTypeOK, Linked, Links
  <1>4. ListShape'
    BY <1>1, <1>2, <1>3 DEF Keep, ListInv, ListShape
  <1>5. value' = [x \in Keys |-> IF x \in D THEN None ELSE value[x]]
    BY DEF Keep, ListInv, ListShape, ListTypeOK
  <1>6. age' = [x \in Keys |-> IF x \in D THEN 0 ELSE age[x]]
    BY DEF Keep, ListInv, ListShape, ListTypeOK
  <1>7. QED
    BY <1>2, <1>4, <1>5, <1>6 DEF LQ!Drop

LEMMA DeleteList ==
    ASSUME ListInv, NEW k \in Keys, Delete(k)
    PROVE  ListShape' /\ (LQ!Delete(k) \/ UNCHANGED listVars)
  <1>1. CASE UNCHANGED listVars
    <2>1. Order' = Order
      BY <1>1 DEF Order, Reaches, listVars
    <2>2. QED
      BY <1>1, <2>1 DEF ListInv, ListShape, ListTypeOK, listVars
  <1>2. CASE k \in items /\ list' = Free(list, k) /\ Keep(items \ {k})
    <2>1. items' = items \ {k}
      BY <1>2 DEF Keep
    <2>2. Linked(list', LQ!Unlink(Order, {k}), items')
      BY <1>2, <2>1, RemoveLinked DEF ListInv, ListShape
    <2>3. ListShape' /\ LQ!Drop({k})
      BY <1>2, <2>2, KeepList
    <2>4. LQ!Cached \cap {k} = {k}
      BY <1>2, ListCached DEF ListInv
    <2>5. QED
      BY <2>3, <2>4 DEF LQ!Delete
  <1>3. QED
    BY <1>1, <1>2 DEF Delete

LEMMA EvictExpiredList ==
    ASSUME ListInv, EvictExpired
    PROVE  ListShape' /\ LQ!EvictExpired
  <1> DEFINE s == Swept[Cardinality(items)]
             expired == {k \in items : age[k] > TTL}
  <1>1. s.left = items \ expired /\ Linked(s.l, LQ!Unlink(Order, expired), s.left)
    BY SweptEnd
  <1>2. list' = s.l /\ Keep(s.left)
    BY DEF EvictExpired
  <1>3. items' = s.left
    BY <1>2 DEF Keep
  <1>4. expired = {k \in LQ!Cached : age[k] > TTL}
    BY ListCached DEF ListInv
  <1> HIDE DEF s
  <1>5. expired \in SUBSET items
    OBVIOUS
  <1> HIDE DEF expired
  <1>6. Linked(list', LQ!Unlink(Order, expired), items') /\ Keep(items \ expired)
    BY <1>1, <1>2, <1>3
  <1>7. ListShape' /\ LQ!Drop(expired)
    BY <1>5, <1>6, KeepList
  <1>8. QED
    BY <1>4, <1>7 DEF LQ!EvictExpired

LEMMA TickList ==
    ASSUME ListInv, ListTick
    PROVE  ListShape' /\ LQ!Tick
  <1>1. Order' = Order
    BY DEF ListTick, Order, Reaches
  <1>2. \A k \in Keys : age[k] \in 0 .. TTL + 1
    BY DEF ListInv, ListShape, ListTypeOK
  <1>3. ListTypeOK'
    BY <1>2, LruAssumption DEF ListTick, ListInv, ListShape, ListTypeOK
  <1>4. ListShape'
    BY <1>1, <1>3 DEF ListTick, ListInv, ListShape, ListTypeOK
  <1>5. LQ!Tick
    BY <1>1, ListCached DEF ListTick, ListInv, LQ!Tick
  <1>6. QED
    BY <1>4, <1>5

LEMMA PutNewList ==
    ASSUME ListInv, NEW k \in Keys, NEW v \in Values, PutNew(k, v)
    PROVE  ListShape' /\ LQ!Insert(k, v)
  <1> DEFINE after == items \cup {k}
             front == LQ!ToFront(Order, items, k)
             added == AddToFront(list, k)
             filled == [value EXCEPT ![k] = v]
             aged == [age EXCEPT ![k] = 0]
  <1>1. k \notin items /\ LQ!Cached = items /\ items \in SUBSET Keys /\ ListTypeOK
    BY ListCached DEF PutNew, ListInv, ListShape, ListTypeOK
  <1>2. IsFiniteSet(after) /\ Cardinality(after) \in Nat /\ LQ!Cardinality(after) = Cardinality(after)
    <2>1. IsFiniteSet(after)
      BY ListFinite, FS_AddElement
    <2>2. LQ!Cardinality(after) = Cardinality(after)
      BY Zenon DEF LQ!Cardinality, Cardinality, LQ!IsFiniteSet, IsFiniteSet
    <2>3. QED
      BY <2>1, <2>2, FS_CardinalityType
  <1>3. Linked(added, front, after)
    BY <1>1, AddLinked DEF ListInv, ListShape
  <1>4. added.tail # Nil /\ added.tail \in after /\ LQ!AtTail(front, after, added.tail)
    <2> HIDE DEF added, front
    <2>1. after # {}
      OBVIOUS
    <2>2. QED
      BY <1>3, <2>1, TailLinked
  <1>5. filled \in [Keys -> Values \cup {None}] /\ aged \in [Keys -> 0 .. TTL + 1]
    BY <1>1, LruAssumption DEF ListTypeOK
  <1>6. CASE Cardinality(after) > Capacity
    <2> DEFINE victim == added.tail
    <2>1. /\ list' = Free(added, victim)
          /\ items' = after \ {victim}
          /\ value' = [x \in Keys |-> IF x = victim THEN None ELSE IF x = k THEN v ELSE value[x]]
          /\ age' = [x \in Keys |-> IF x = victim \/ x = k THEN 0 ELSE age[x]]
      BY <1>4, <1>6 DEF PutNew
    <2> HIDE DEF added, front, after
    <2>2. Linked(list', LQ!Unlink(front, {victim}), items') /\ IsFiniteSet(items')
      BY <1>2, <1>3, <1>4, <2>1, RemoveLinked, FS_RemoveElement
    <2>3. Order' = LQ!Unlink(front, {victim}) /\ Linked(list', Order', items')
      BY <2>2, StandsFor
    <2>4. victim \in Keys /\ after \in SUBSET Keys
      BY <1>3, <1>4 DEF Linked
    <2>5. value' = [filled EXCEPT ![victim] = None] /\ age' = [aged EXCEPT ![victim] = 0]
      BY <1>1, <2>1, <2>4 DEF ListTypeOK
    <2>6. ListTypeOK'
      <3>1. list' \in Links /\ items' \in SUBSET Keys
        BY <2>3 DEF Linked
      <3>2. value' \in [Keys -> Values \cup {None}]
        BY <1>5, <2>5
      <3>3. age' \in [Keys -> 0 .. TTL + 1]
        <4> DEFINE Ages == 0 .. TTL + 1
        <4>1. 0 \in Ages /\ age \in [Keys -> Ages]
          BY <1>1, LruAssumption DEF ListTypeOK
        <4> HIDE DEF Ages
        <4>2. age' \in [Keys -> Ages]
          BY <2>1, <4>1
        <4>3. QED
          BY <4>2 DEF Ages
      <3>4. QED
        BY <3>1, <3>2, <3>3 DEF ListTypeOK, Links
    <2>7. \A x \in Keys : /\ value'[x] # None <=> x \in items'
                          /\ x \notin items' => age'[x] = 0
      BY <1>1, <2>1, LruAssumption DEF ListInv, ListShape, ListTypeOK, after
    <2>8. ListShape'
      BY <2>3, <2>6, <2>7 DEF ListShape
    <2>9. LQ!Cardinality(after) > Capacity
      BY <1>2, <1>6
    <2>10. \E x \in after : /\ LQ!AtTail(front, after, x)
                            /\ value' = [filled EXCEPT ![x] = None]
                            /\ Order' = LQ!Unlink(front, {x})
                            /\ age' = [aged EXCEPT ![x] = 0]
      BY <1>4, <2>3, <2>5
    <2>11. LQ!Insert(k, v)
      BY <1>1, <2>9, <2>10, Zenon DEF LQ!Insert, after, front
    <2>12. QED
      BY <2>8, <2>11
  <1>7. CASE ~(Cardinality(after) > Capacity)
    <2>1. /\ list' = added
          /\ items' = after
          /\ value' = [x \in Keys |-> IF x = k THEN v ELSE value[x]]
          /\ age' = [x \in Keys |-> IF x = k THEN 0 ELSE age[x]]
      BY <1>7 DEF PutNew
    <2> HIDE DEF added, front, after
    <2>2. Order' = front /\ Linked(list', Order', items')
      BY <1>2, <1>3, <2>1, StandsFor
    <2>3. value' = filled /\ age' = aged
      BY <1>1, <2>1 DEF ListTypeOK
    <2>4. ListTypeOK'
      BY <1>5, <2>2, <2>3 DEF ListTypeOK, Linked, Links
    <2>5. \A x \in Keys : /\ value'[x] # None <=> x \in items'
                          /\ x \notin items' => age'[x] = 0
      BY <1>1, <2>1, LruAssumption DEF ListInv, ListShape, ListTypeOK, after
    <2>6. ListShape'
      BY <2>2, <2>4, <2>5 DEF ListShape
    <2>7. LQ!Cardinality(after) <= Capacity
      BY <1>2, <1>7, LruAssumption
    <2>8. LQ!Insert(k, v)
      BY <1>1, <2>2, <2>3, <2>7, Zenon DEF LQ!Insert, after, front
    <2>9. QED
      BY <2>6, <2>8
  <1>8. QED
    BY <1>6, <1>7

-----------------------------------------------------------------------------
LEMMA ListInitInv == ListInit => ListInv /\ LQ!LruInit
  <1> SUFFICES ASSUME ListInit PROVE ListInv /\ LQ!LruInit
    OBVIOUS
  <1>1. Order = {}
    BY DEF ListInit, Order, Reaches
  <1>2. LQ!LruInit
    BY <1>1 DEF ListInit, LQ!LruInit
  <1>3. ListTypeOK
    BY LruAssumption DEF ListInit, ListTypeOK, Node
  <1>4. Linked(list, Order, items)
    BY <1>1, <1>3 DEF ListInit, ListTypeOK, Linked, Links, Follows, LQ!IsTotalOrder
  <1>5. ListShape
    BY <1>3, <1>4 DEF ListInit, ListShape
  <1>6. LQ!LruInv
    BY <1>2, LQ!LruInitInv, LruAssumption
  <1>7. QED
    BY <1>2, <1>5, <1>6 DEF ListInv

\* Every step is a step of the cache or changes nothing.
LEMMA ListStepInv == ListInv /\ [ListNext]_listVars => ListInv' /\ [LQ!LruNext]_LQ!lruVars
  <1> SUFFICES ASSUME ListInv, [ListNext]_listVars PROVE ListInv' /\ [LQ!LruNext]_LQ!lruVars
    OBVIOUS
  <1>1. UNCHANGED listVars => ListShape' /\ UNCHANGED LQ!lruVars
    <2> SUFFICES ASSUME UNCHANGED listVars PROVE ListShape' /\ UNCHANGED LQ!lruVars
      OBVIOUS
    <2>1. Order' = Order
      BY DEF Order, Reaches, listVars
    <2>2. QED
      BY <2>1 DEF ListInv, ListShape, ListTypeOK, listVars, LQ!lruVars
  <1>2. ASSUME NEW k \in Keys, Get(k) PROVE ListShape' /\ [LQ!LruNext]_LQ!lruVars
    <2>1. ListShape' /\ (LQ!Get(k) \/ UNCHANGED listVars)
      BY <1>2, GetList DEF LQ!Get
    <2>2. LQ!Get(k) => LQ!LruNext
      BY Zenon DEF LQ!LruNext
    <2>3. QED
      BY <1>1, <2>1, <2>2
  <1>3. ASSUME NEW k \in Keys, Delete(k) PROVE ListShape' /\ [LQ!LruNext]_LQ!lruVars
    <2>1. LQ!Delete(k) => LQ!LruNext
      BY Zenon DEF LQ!LruNext
    <2>2. QED
      BY <1>1, <1>3, <2>1, DeleteList
  <1>4. ASSUME NEW k \in Keys, NEW v \in Values, Put(k, v) PROVE ListShape' /\ [LQ!LruNext]_LQ!lruVars
    <2>1. ListShape' /\ LQ!Put(k, v)
      BY <1>4, PutExistingList, PutNewList DEF Put, LQ!Put
    <2>2. LQ!Put(k, v) => LQ!LruNext
      BY Zenon DEF LQ!LruNext
    <2>3. QED
      BY <2>1, <2>2
  <1>5. ASSUME EvictExpired PROVE ListShape' /\ [LQ!LruNext]_LQ!lruVars
    BY <1>5, EvictExpiredList DEF LQ!LruNext
  <1>6. ASSUME ListTick PROVE ListShape' /\ [LQ!LruNext]_LQ!lruVars
    BY <1>6, TickList DEF LQ!LruNext
  <1>7. ListShape' /\ [LQ!LruNext]_LQ!lruVars
    BY <1>1, <1>2, <1>3, <1>4, <1>5, <1>6 DEF ListNext
  <1>8. LQ!LruInv'
    BY <1>7, LQ!LruStepInv, LruAssumption DEF ListInv
  <1>9. QED
    BY <1>7, <1>8 DEF ListInv

LEMMA ListInvAlways == ListSpec => []ListInv
  BY ListInitInv, ListStepInv, PTL DEF ListSpec

\* The pointers are sound after every call: prev and next are each other's
\* converse and meet every key of the map once, head and tail are the ends.
THEOREM ListWellLinked == ListSpec => []WellLinked
  <1>1. ListInv => WellLinked
    <2> SUFFICES ASSUME ListInv PROVE WellLinked
      OBVIOUS
    <2>1. /\ ListTypeOK /\ Linked(list, Order, items) /\ IsFiniteSet(items)
      BY ListFinite DEF ListInv, ListShape
    <2>2. Reaches(list.prev, items) = {<<p[2], p[1]>> : p \in Order}
      BY <2>1, LinkedReaches DEF Turned
    <2>3. Abstract!IsTotalOrder(Order, items)
      BY <2>1 DEF Linked, LQ!IsTotalOrder, Abstract!IsTotalOrder
    <2>4. IF items = {} THEN list.head = Nil /\ list.tail = Nil
          ELSE /\ list.head \in items /\ list.tail \in items
               /\ \A k \in items : /\ k # list.head => <<list.head, k>> \in Order
                                   /\ k # list.tail => <<k, list.tail>> \in Order
      BY <2>1 DEF Linked
    <2>5. QED
      BY <2>1, <2>2, <2>3, <2>4 DEF WellLinked
  <1>2. QED
    BY <1>1, ListInvAlways, PTL

\* The cache the lemmas are about and the one the list has to implement are the
\* same.
LEMMA SameAbstract ==
    /\ LQ!LruInit => Abstract!LruInit
    /\ [LQ!LruNext]_LQ!lruVars => [Abstract!LruNext]_Abstract!lruVars
    /\ LQ!Cached = Abstract!Cached
    /\ \A k : LQ!Delete(k) => Abstract!Delete(k)
  <1> USE DEF LQ!Cached, Abstract!Cached, LQ!Unlink, Abstract!Unlink, LQ!ToFront, Abstract!ToFront,
              LQ!lruVars, Abstract!lruVars, LQ!Drop, Abstract!Drop
  <1>1. LQ!LruInit => Abstract!LruInit
    BY DEF LQ!LruInit, Abstract!LruInit
  <1>2. ASSUME NEW k \in Keys, LQ!Get(k) PROVE Abstract!LruNext
    <2>1. Abstract!Get(k)
      BY <1>2 DEF LQ!Get, Abstract!Get, LQ!Hit, Abstract!Hit, LQ!Miss, Abstract!Miss
    <2>2. QED
      BY <2>1, Zenon DEF Abstract!LruNext
  <1>3. ASSUME NEW k \in Keys, NEW v \in Values, LQ!Put(k, v) PROVE Abstract!LruNext
    <2>1. LQ!Replace(k, v) => Abstract!Replace(k, v)
      BY DEF LQ!Replace, Abstract!Replace
    <2>2. LQ!Insert(k, v) => Abstract!Insert(k, v)
      <3>1. \A S : LQ!Cardinality(S) = Abstract!Cardinality(S)
        BY Zenon DEF LQ!Cardinality, Abstract!Cardinality, LQ!IsFiniteSet, Abstract!IsFiniteSet
      <3>2. QED
        BY <3>1, Zenon DEF LQ!Insert, Abstract!Insert, LQ!AtTail, Abstract!AtTail
    <2>3. Abstract!Put(k, v)
      BY <1>3, <2>1, <2>2 DEF LQ!Put, Abstract!Put
    <2>4. QED
      BY <2>3, Zenon DEF Abstract!LruNext
  <1>4. \A k : LQ!Delete(k) => Abstract!Delete(k)
    BY Zenon DEF LQ!Delete, Abstract!Delete
  <1>5. LQ!EvictExpired => Abstract!LruNext
    BY Zenon DEF Abstract!LruNext, LQ!EvictExpired, Abstract!EvictExpired
  <1>6. LQ!Tick => Abstract!LruNext
    BY Zenon DEF Abstract!LruNext, LQ!Tick, Abstract!Tick
  <1>7. LQ!LruNext => Abstract!LruNext
    BY <1>2, <1>3, <1>4, <1>5, <1>6, Zenon DEF LQ!LruNext, Abstract!LruNext
  <1>8. QED
    BY <1>1, <1>4, <1>7

LEMMA ListSteps == ListSpec => LQ!LruSpec
  BY ListInitInv, ListStepInv, ListInvAlways, PTL DEF ListSpec, LQ!LruSpec

\* The pointer code implements the cache: a method call does to the map and to
\* the order of the list what LruCache says of it.
THEOREM ListImplements == ListSpec => ImplementsLruCache
  BY ListSteps, SameAbstract, PTL DEF LQ!LruSpec, Abstract!LruSpec, ImplementsLruCache

\* So a site leaves before one used less recently only when it is deleted by name.
THEOREM ListLeavesInOrder == ListSpec => LeavesInOrder
  <1> DEFINE InOrder == \A a, b \in LQ!Cached :
                        /\ <<a, b>> \in Order
                        /\ value'[a] = None
                        /\ value'[b] # None
                        => LQ!Delete(a)
             AbstractInOrder == \A a, b \in Abstract!Cached :
                        /\ <<a, b>> \in Order
                        /\ value'[a] = None
                        /\ value'[b] # None
                        => Abstract!Delete(a)
  <1>1. ListSpec => [][InOrder]_LQ!lruVars
    BY ListSteps, LQ!LruLeavesInOrder, LruAssumption, PTL DEF LQ!LeavesInOrder
  <1>2. [InOrder]_LQ!lruVars => [AbstractInOrder]_Abstract!lruVars
    BY SameAbstract, Zenon DEF LQ!lruVars, Abstract!lruVars
  <1>3. ListSpec => [][AbstractInOrder]_Abstract!lruVars
    BY <1>1, <1>2, PTL
  <1>4. QED
    BY <1>3 DEF LeavesInOrder, Abstract!LeavesInOrder
=============================================================================
