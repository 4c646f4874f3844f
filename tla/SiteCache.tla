----------------------------- MODULE SiteCache -----------------------------
(***************************************************************************)
(* BuckStream's request handlers around the site cache: visitors load      *)
(* sites through loadSiteCache, deployments and deletions write the bucket *)
(* and then clear the cache (buckstream/pkg/handler/handler.go, deploy.go).*)
(*                                                                         *)
(* A thread is the goroutine of a request.  Its steps are separated where  *)
(* another goroutine can run: at loadMu, at the cache's own mutex, and at  *)
(* every call of the storage provider.  The bucket is an object store with *)
(* atomic reads and writes (S3, GCS); an archive is the number of the      *)
(* upload that wrote it.                                                   *)
(***************************************************************************)
EXTENDS Naturals, FiniteSets

CONSTANTS Threads,     \* goroutines serving requests
          Sites,       \* site names
          MaxSites,    \* MAX_CACHED_SITES
          SiteTTL,     \* one hour, in units of time
          MaxVersion,  \* bound: uploads of each site
          ProxySites,  \* sites whose archive clients also write through the upload proxy
          LostAnswers, \* whether a write can take effect and still be reported as failed
          NoSite,
          NoThread

ASSUME SiteAssumption == /\ NoSite \notin Sites
                         /\ NoThread \notin Threads
                         /\ ProxySites \subseteq Sites
                         /\ MaxSites \in Nat
                         /\ SiteTTL \in Nat
                         /\ MaxVersion \in [Sites -> Nat]
                         /\ LostAnswers \in BOOLEAN

VARIABLES object,  \* object[s]: the version of sites/<s>.zip in the bucket, 0 for none
          latest,  \* latest[s]: how many uploads of s the bucket has accepted
          task,    \* task[t]: where thread t is, on which site, holding which version
          loadMu,  \* the thread that holds loadMu, or NoThread
          entry, newer, idle,  \* the cache (LruCache)
          exposed, \* history: sites that can be stale in the cache with no clearing to come
          shown    \* history: shown[s] is the version of s cached last

storeVars == <<object, latest>>
cacheVars == <<entry, newer, idle>>
vars == <<object, latest, task, loadMu, entry, newer, idle, exposed, shown>>

Version == Nat \ {0}
Absent == 0

Lru == INSTANCE LruCache
          WITH Keys <- Sites, Values <- Version, None <- Absent, Capacity <- MaxSites, TTL <- SiteTTL

\* Where a thread can be: at the call the name says.
Loading == {"recheck", "download", "read", "unlock"}
Label == {"idle", "lookup", "lock", "upload", "clear", "delete", "invalidate"} \cup Loading

Idle == [pc |-> "idle", site |-> NoSite, ver |-> Absent]

At(t, label) == task[t].pc = label
Goto(t, label) == task' = [task EXCEPT ![t].pc = label]
Finish(t) == task' = [task EXCEPT ![t] = Idle]

\* loadSiteCache returns: all that is left is the deferred unlock.
Return(t) == task' = [task EXCEPT ![t] = [Idle EXCEPT !.pc = "unlock"]]

Hit(s) == entry[s] # Absent

\* A download of s that is under way and whose archive is no longer the bucket's.
Outdated(t, s) == At(t, "read") /\ task[t].site = s /\ task[t].ver # object[s]

Init == /\ object = [s \in Sites |-> Absent]
        /\ latest = [s \in Sites |-> 0]
        /\ task = [t \in Threads |-> Idle]
        /\ loadMu = NoThread
        /\ Lru!LruInit
        /\ exposed = {}
        /\ shown = [s \in Sites |-> 0]

-----------------------------------------------------------------------------
(* Requests arrive.                                                        *)

Begin(t, s, label) == /\ At(t, "idle")
                      /\ task' = [task EXCEPT ![t] = [Idle EXCEPT !.pc = label, !.site = s]]
                      /\ UNCHANGED <<storeVars, loadMu, cacheVars, exposed, shown>>

HandleProxyOrStatic(t, s) == Begin(t, s, "lookup")
HandleDeploy(t, s) == latest[s] < MaxVersion[s] /\ Begin(t, s, "upload")
HandleDeleteObject(t, s) == Begin(t, s, "delete")

-----------------------------------------------------------------------------
(* loadSiteCache.                                                          *)

\* The first look at the cache: a hit answers the request.
Lookup(t) ==
    LET s == task[t].site
    IN  /\ At(t, "lookup")
        /\ Lru!Get(s)
        /\ IF Hit(s) THEN Finish(t) ELSE Goto(t, "lock")
        /\ UNCHANGED <<storeVars, loadMu, exposed, shown>>

\* Mutated: loads are not serialised.
MutAcquireFree(t) == /\ At(t, "lock")
                     /\ loadMu' = t
                     /\ Goto(t, "recheck")
                     /\ UNCHANGED <<storeVars, cacheVars, exposed, shown>>

Acquire(t) == /\ At(t, "lock")
              /\ loadMu = NoThread
              /\ loadMu' = t
              /\ Goto(t, "recheck")
              /\ UNCHANGED <<storeVars, cacheVars, exposed, shown>>

\* Mutated: no second look.
MutNoRecheck(t) == /\ At(t, "recheck")
                   /\ Goto(t, "download")
                   /\ UNCHANGED <<storeVars, loadMu, cacheVars, exposed, shown>>

\* The second look, under loadMu.
Recheck(t) ==
    LET s == task[t].site
    IN  /\ At(t, "recheck")
        /\ Lru!Get(s)
        /\ IF Hit(s) THEN Return(t) ELSE Goto(t, "download")
        /\ UNCHANGED <<storeVars, loadMu, exposed, shown>>

\* Mutated: the error return of the download keeps loadMu.
MutDownloadKeepsLock(t) ==
    LET s == task[t].site
    IN  /\ At(t, "download")
        /\ \/ /\ object[s] # Absent
              /\ task' = [task EXCEPT ![t].pc = "read", ![t].ver = object[s]]
           \/ Finish(t)
        /\ UNCHANGED <<storeVars, loadMu, cacheVars, exposed, shown>>

\* DownloadStream: the stream is of the object the bucket has now, or an error.
Download(t) ==
    LET s == task[t].site
    IN  /\ At(t, "download")
        /\ \/ /\ object[s] # Absent
              /\ task' = [task EXCEPT ![t].pc = "read", ![t].ver = object[s]]
           \/ Return(t)
        /\ UNCHANGED <<storeVars, loadMu, cacheVars, exposed, shown>>

\* The stream is read and unzipped, then cached; an error caches nothing.
ReadAndPut(t) ==
    LET s == task[t].site
    IN  /\ At(t, "read")
        /\ Return(t)
        /\ \/ /\ Lru!Put(s, task[t].ver)
              /\ shown' = [shown EXCEPT ![s] = task[t].ver]
           \/ UNCHANGED <<cacheVars, shown>>
        /\ UNCHANGED <<storeVars, loadMu, exposed>>

\* The deferred unlock, on every way out; the request is answered.
Unlock(t) == /\ At(t, "unlock")
             /\ loadMu' = NoThread
             /\ Finish(t)
             /\ UNCHANGED <<storeVars, cacheVars, exposed, shown>>

-----------------------------------------------------------------------------
(* HandleDeploy.                                                           *)

\* The bucket takes an archive of s.
Write(s) == /\ latest[s] < MaxVersion[s]
            /\ latest' = [latest EXCEPT ![s] = @ + 1]
            /\ object' = [object EXCEPT ![s] = latest[s] + 1]

\* UploadStream: the archive is stored, or the request fails without a clearing,
\* whether the bucket has the archive or not.
Upload(t) ==
    LET s == task[t].site
    IN  /\ At(t, "upload")
        /\ \/ Write(s) /\ Goto(t, "clear") /\ UNCHANGED exposed
           \/ Finish(t) /\ UNCHANGED <<storeVars, exposed>>
           \/ LostAnswers /\ Write(s) /\ Finish(t) /\ exposed' = exposed \cup {s}
        /\ UNCHANGED <<loadMu, cacheVars, shown>>

\* The entry goes; a download begun before the last write can still store its
\* archive afterwards.
ClearSiteCache(s) ==
    /\ Lru!Delete(s)
    /\ exposed' = IF \E u \in Threads : Outdated(u, s) THEN exposed \cup {s} ELSE exposed \ {s}

\* Mutated: the cache is not cleared before the pre-warming.
MutPrewarmOnly(t) == /\ At(t, "clear")
                     /\ Goto(t, "lookup")
                     /\ UNCHANGED <<storeVars, loadMu, cacheVars, exposed, shown>>

\* The cache is cleared, then the background goroutine that pre-warms it starts:
\* the thread goes on as that goroutine, its answer to the client changes nothing.
ClearAndPrewarm(t) == /\ At(t, "clear")
                      /\ ClearSiteCache(task[t].site)
                      /\ Goto(t, "lookup")
                      /\ UNCHANGED <<storeVars, loadMu, shown>>

-----------------------------------------------------------------------------
(* HandleDeleteObject, the upload proxy, the janitor and a restart.        *)

\* DeleteObject: the archive is gone, or the request fails without a clearing,
\* whether the archive is gone or not.
DeleteObject(t) ==
    LET s == task[t].site
        gone == object' = [object EXCEPT ![s] = Absent]
    IN  /\ At(t, "delete")
        /\ \/ gone /\ Goto(t, "invalidate") /\ UNCHANGED exposed
           \/ Finish(t) /\ UNCHANGED <<object, exposed>>
           \/ LostAnswers /\ gone /\ Finish(t) /\ exposed' = exposed \cup {s}
        /\ UNCHANGED <<latest, loadMu, cacheVars, shown>>

Invalidate(t) == /\ At(t, "invalidate")
                 /\ ClearSiteCache(task[t].site)
                 /\ Finish(t)
                 /\ UNCHANGED <<storeVars, loadMu, shown>>

\* HandleUploadProxy takes any key, that of an archive too, and clears nothing.
HandleUploadProxy(s) == /\ Write(s)
                        /\ exposed' = exposed \cup {s}
                        /\ UNCHANGED <<task, loadMu, cacheVars, shown>>

Janitor == Lru!EvictExpired /\ UNCHANGED <<storeVars, task, loadMu, exposed, shown>>

Tick == Lru!Tick /\ UNCHANGED <<storeVars, task, loadMu, exposed, shown>>

\* The process stops and starts again: memory is lost, the bucket stays.
Restart == /\ task' = [t \in Threads |-> Idle]
           /\ loadMu' = NoThread
           /\ Lru!Drop(Lru!Cached)
           /\ exposed' = {}
           /\ UNCHANGED <<storeVars, shown>>

-----------------------------------------------------------------------------
Step(t) == \/ Lookup(t) \/ Recheck(t) \/ Download(t) \/ ReadAndPut(t) \/ Unlock(t)
           \/ Upload(t) \/ ClearAndPrewarm(t) \/ DeleteObject(t) \/ Invalidate(t)

Arrive(t, s) == HandleProxyOrStatic(t, s) \/ HandleDeploy(t, s) \/ HandleDeleteObject(t, s)

Next == \/ \E t \in Threads, s \in Sites : Arrive(t, s)
        \/ \E t \in Threads : Acquire(t) \/ Step(t)
        \/ \E s \in ProxySites : HandleUploadProxy(s)
        \/ Janitor
        \/ Tick
        \/ Restart

Spec == Init /\ [][Next]_vars

\* A goroutine that can run runs, the provider answers every call, and Go's
\* mutex hands loadMu on to a goroutine that has waited for a millisecond.
\* Nobody has to send a request, and the process need not restart.
Fairness == \A t \in Threads : WF_vars(Step(t)) /\ SF_vars(Acquire(t))

FairSpec == Spec /\ Fairness

-----------------------------------------------------------------------------
TypeOK == /\ object \in [Sites -> Nat]
          /\ latest \in [Sites -> Nat]
          /\ task \in [Threads -> [pc : Label, site : Sites \cup {NoSite}, ver : Nat]]
          /\ loadMu \in Threads \cup {NoThread}
          /\ Lru!LruTypeOK
          /\ exposed \in SUBSET Sites
          /\ shown \in [Sites -> Nat]

\* loadMu keeps loads apart: the threads between Lock and the deferred Unlock
\* are exactly the holder, on error paths too.
MutualExclusion == \A t \in Threads : task[t].pc \in Loading <=> loadMu = t

\* No site is downloaded while it is in the cache: the second look under loadMu
\* spares the bucket a second download by everyone who waited.
DownloadOnlyOnMiss ==
    \A t \in Threads : task[t].pc \in {"download", "read"} => ~Hit(task[t].site)

\* The request that wrote s has not reached ClearSiteCache yet.
ClearPending(s) ==
    \E t \in Threads : task[t].site = s /\ task[t].pc \in {"clear", "invalidate"}

\* The cache holds another version than the bucket, or a version of a deleted
\* site, only until the writer clears it - or when the site is exposed: a
\* download begun before the write is stored after the clearing, the archive is
\* written through the upload proxy, or a write took effect whose answer was an
\* error.  There is no fourth way to go stale.
StaleOnlyIfExposed ==
    \A s \in Sites \ exposed :
        Hit(s) /\ entry[s] # object[s] => ClearPending(s)

\* Visitors never go back in time: the versions the cache shows of a site only
\* grow, across clearings, evictions and restarts, since loadMu keeps the
\* download of one load from overlapping the Put of another.
NeverOlder == [][\A s \in Sites : shown'[s] >= shown[s]]_shown

\* The memory bound of the cache under concurrent handlers.
CacheBounded == Lru!WithinCapacity

\* Every request is answered, whatever fails and however loads queue.
EveryRequestEnds == \A t \in Threads : ~At(t, "idle") ~> At(t, "idle")

-----------------------------------------------------------------------------
(* What the documentation says and the code does not do.                   *)

\* buckstream/skills.md:172: a deletion "invalidates the RAM cache instantly".  Once the
\* deletion is through, a deleted site is not served from memory.
DeletedIsNotServed ==
    \A s \in Sites : object[s] = Absent /\ ~ClearPending(s) => ~Hit(s)

\* buckstream/README.md:20: during a deployment "the old version remains live until the new
\* cache is fully primed".  The deploying goroutine never takes a site whose old
\* version is in memory off the cache.
OldVersionRemainsLive ==
    [][\A t \in Threads :
          LET s == task[t].site
          IN  ClearAndPrewarm(t) /\ Hit(s) /\ entry[s] # object[s] => Hit(s)']_vars
=============================================================================
