# ArcOps in TLA+

This directory is a verification development of ArcOps: TLA+ modules that model
the parts of its Go services and of its web applications where interleaving,
failure, ordering and time matter, the TLC configurations that check them on small instances, and theorems
about them that TLAPS proves for every value of the constants.

Everything here is translated from the code. A module's comments say which file
it models; `PROJECT.json` gives, for every definition, the lines it stands for.

Contents

1. The system, its state and what is hard about it
2. The plan: modules, composition, abstract specifications
3. The modules and the code
4. The runs, their bounds and what they show
5. Fairness
6. Where the code and its documentation part
7. The proofs
8. What is only model-checked, what is not modelled

## 1. The system

ArcOps is a small platform for applications, made of five Go services, a
React application with a dashboard, a studio and a console, and demos. A request comes to the **gateway**, which limits its rate,
checks its key or token and forwards it to one of the others.

| Service | Keeps | Talks to |
|---|---|---|
| **gateway** (`gateway/pkg`) | a token bucket per client (`limiter.go`), the API keys it validated in the last minute (`auth.go`), a buffer of telemetry (`handlers.go`) | ArcAuth to validate keys; all services as a proxy |
| **arcauth** (`arcauth/pkg/authservice`) | users, identities, keys and sessions in SQLite; copies of keys, sessions and one-time codes in process memory and in Redis | Redis, SQLite, mail and OAuth providers |
| **dbmux** (`dbmux/pkg`) | a registry of database providers; engines for state, queues and cron jobs on top of them | Redis, Postgres, MySQL, Mongo, SQLite/libSQL, vector stores |
| **buckstream** (`buckstream/pkg`) | an in-memory LRU cache of unzipped sites over a bucket | S3, GCS or the local disk |
| **frontedge** (`frontedge/pkg`) | nothing that outlives a request: its projects are Cloudflare's and its builds GitHub's | the APIs of GitHub and Cloudflare |
| **web** (`web/src`) | per tab: the state of each component; per browser: session, database modes and DSNs, a query and a form in localStorage and sessionStorage; a cookie | the gateway |
| **demo** (`buckstream/demo/src`) | the state of one page | BuckStream, through its JavaScript SDK |

Several instances of a service can run at once over one database and one Redis;
nothing in the code elects a leader or holds a transaction open across calls.

### Components: state, operations, hazards, what makes them right

**BuckStream's site cache** (`handler/lru.go`). A map and a doubly linked list
under one mutex. `Get`, `Put`, `Delete`, and `EvictExpired`, which the janitor
calls every five minutes. Hard: pointer surgery at head, middle and tail; the
janitor stops at the first node that is not expired, which is right only if the
list is in order of age. *Right means*: map and list hold the same sites, never
more than `MAX_CACHED_SITES`; a site leaves before a less recently used one only
if somebody deletes it by name.

**BuckStream's handlers** (`handler/handler.go`, `handler/deploy.go`). The cache
above, the bucket, and `loadMu`, which serialises the downloads of all sites.
Visitors call `loadSiteCache`, which looks, locks, looks again, downloads and
puts. Deployments and deletions write the bucket, then clear the cache,
`HandleUploadProxy` writes the bucket and clears nothing. Hard: a download under
way while a deployment clears; a write that took effect and was reported as
failed; every error path of `loadSiteCache` under one mutex. *Right means*: one
download per miss; no visitor is shown an older version after a newer; the cache
is stale only in known ways; every request ends.

**BuckStream's parallel uploads** (`storage/deploy.go`). One goroutine per file,
a semaphore, a channel of errors, a context that the first failure cancels. Hard:
tokens on error paths, silent returns, writes after the return. No handler of
this commit calls `DeployZip`. *Right means*: success is every file in the
bucket, nobody writes afterwards, it returns.

**BuckStream's storage providers** (`storage/*.go`). S3 and GCS store an object
atomically. The local provider truncates and rewrites a file that readers may
have open.

**ArcAuth and gateway: API keys** (`service.go`, `gateway/pkg/auth.go`). A key
is a row in SQLite, an entry of `memoryAPIKeys`, a `revoked_key` mark in Redis
and an entry of the gateway's `keyCache`; the four are written one after the
other. Hard: a validation that read the row before a revocation and stores it
after; failures of Redis whose errors are dropped; restarts of either service.
*Right means*: memory has a key without a row only in a known race, and without
it a revoked key is refused a minute after.

**ArcAuth: one-time codes, magic links, accounts, OAuth identities**
(`service.go`). Codes are written to memory and Redis, read from Redis or
else memory, deleted from both in separate steps. An account is looked up and
then inserted. Hard: stale copies of codes, sends that overlap, first logins that
overlap, dropped errors of `INSERT`. *Right means*: a used code compares equal no
more, only the latest works, a session is for a user that has a row, an identity
is the same user every time.

**ArcAuth: sessions** (`service.go:545-576, 1661-1767`). A session in SQLite, in
memory and in Redis; its JWT is also accepted by the gateway on its own.

**DBMux: registry and shutdown** (`registry.go`, `cmd/server/main.go`). A map of
providers under an `RWMutex`; `Register` closes the provider it replaces.

**DBMux: state engine** (`state/state.go`). A key in a Redis (L1) and in a
database of highest priority (L2), written in two calls, each of which goes to
whichever provider of the category it meets first in a Go map. Hard: a `GetState`
that caches a row a later call has replaced; one write of two failing; several
providers of a category, as one for each tenant; time-to-live that Redis, Postgres,
MySQL and SQLite keep differently, and none for a TTL of 0; Mongo, which only
inserts. *Right means*: with one provider of each category, calls that do not
overlap or fail read the last value saved; disagreement between L1 and L2 about a
value that expires ends.

**DBMux: cron scheduler** (`cron/cron.go`). A map of jobs per instance, and a
lock that is a key of the state engine, checked with one call and taken with
another. *Right means*, with one provider of each category: a lock is found only
while it is held, and one request at a time runs the job unless one looks for the
lock while another is about to take it; always: a lock is let go though its holder
crashes. (That one request at a time runs the job whatever races is what its
comment says and what the code does not do: section 6.)

**DBMux: queue engine** (`queue/queue.go`). A list in some Redis or rows in
Postgres, whichever is registered when a call begins. Hard: answers lost after a
pop, retries of the Redis client, providers registered in between. *Right
means*: an item that was not pushed twice is in one place; an acknowledged item
is kept; order within a backend.

**Gateway: rate limiter** (`limiter.go`). *Right means*: no client gets more than
a burst and the rate's share in any stretch of time, though buckets are dropped
and made anew; a client that keeps to the rate is never refused.

**Frontedge** (`frontedge/pkg`). `HandleDeploy` makes a project, sets its
environment, commits a workflow and starts it; what Cloudflare answers to the
first calls is dropped and the answer is success. The other handlers pass one
call on.

**The signed-in session** (`App.tsx`, `login-page.tsx`, `arcauth.ts`,
`navbar.tsx`, `protected-route.tsx`). Token and profile in localStorage, a cookie
the page cannot read, `currentUser` in the navigation bar. A page load verifies
the session with `getMe`; a login stores another one; a sign-out removes it; each
of these may answer after the others. Hard: who writes last; two handlers of the
form that share `loading`; documents and components that go while their calls are
out. *Right means*: the menu shows the stored profile; profile and token are of
one session; the form and the verification do not hang.

**The dashboard** (`db-bento.tsx`, `api-key-bento.tsx`, `dashboard-bento.tsx`).
Cards of databases with a mode and a DSN in the component and in localStorage;
a script editor that runs for the tenant of the moment; downloads of a schema made
from several calls; API keys, files and charts, each a list that is fetched and
changed at once. Hard: answers that overtake each other, and handlers that go on
after their component is gone and write localStorage. *Right means*: when nothing is under way a page shows what the
server has, or would show after a reload, and whose it says it is.

**The studio** (`tables-page.tsx`, `sql-drawer.tsx`, `schema-visualizer.tsx`). The
list of tables and a form for one more; a query with its draft; tables and foreign
keys from two queries that run side by side. Hard: tables that come and go in the
SQL drawer over the list, in another tab or by a creation that outlives its page.
*Right means*: the list is that of the last fetch; a run ends; no foreign key is
drawn to a table that is not there.

**The Frontedge console** (`frontedge-console.tsx`, `frontedge/*.tsx`). One
component for a list, a form and the page of each project. Hard: state that
outlives the project it was fetched for; a fetch three seconds after a
redeployment; a draft in sessionStorage that one effect reads and another writes.
*Right means*: what a page shows or saves is of its project; a form that was left
is found again.

**The demos** (`demo/src/App.tsx` of BuckStream, `arcauth-page.tsx`). An
uploader, a list and a retrieval over one set of flags; a make-believe login by
code. *Right means*: the list is the broker's or an error is told; a retrieval has
an outcome.

**Without state of their own**: routing, CORS, the gateway's choice between a
JWT and a key, DBMux's RPC handlers and provider adapters, authentication
interceptors, Pub/Sub (Redis' own), secrets (environment variables), telemetry,
generated stubs, SDKs, pages of text. `PROJECT.json` lists each with the reason
it is left out.

## 2. The plan

The order is that of importance: what visitors and callers of every application
meet first, then what fewer meet.

| | Module | Models | Composes | State |
|---|---|---|---|---|
| 1 | `LruParams`, `LruCache` | the site cache as an order of use: the abstract specification | | checked, proved |
| 2 | `LruList` | the same, pointer by pointer | implements `LruCache` | checked, proved |
| 3 | `SiteCache` | the handlers around the cache, `loadMu` and the bucket | `LruCache` | checked, proved |
| 4 | `DeployZip` | the parallel uploads | | checked, proved |
| 5 | `ApiKeys` | one API key in ArcAuth and the gateway | | checked, proved |
| 6 | `StateEngine` | one key of the state engine | | checked, proved |
| 7 | `CronLock` | the cron scheduler over the state engine | `StateEngine` | checked, proved |
| 8 | `QueueEngine` | one queue over several backends | | checked, proved |
| 9 | `TokenBucket` | the rate limiter | | checked, proved |
| 10 | `Login` | codes, links, accounts, identities | | checked, proved |
| 11 | `WebSession` | the session of a browser tab, and the part of ArcAuth it reaches | | checked, proved |
| 12 | `DbPanel`, `DbScript` | the databases of the dashboard | | checked, proved |
| 13 | `KeysPanel`, `DashboardPanel` | its keys; its files and charts | | checked, proved |
| 14 | `TablesPage`, `SqlDrawer`, `SchemaPage` | the studio | | checked, proved |
| 15 | `FrontedgeProjects`, `FrontedgeDetail`, `FrontedgeForm` | the console over Cloudflare and GitHub | | checked, proved |
| 16 | `DemoFiles`, `DemoPreview`, `OtpDemo` | the demos | | checked, proved |
| 17 | `Workspace` | the panels side by side, one moving at a time | 12 to 16 | checked, proved |

Not begun: `Sessions`, the three copies of a session; `LocalStore`, the local
provider's torn reads under `SiteCache`; `Registry`, providers that are closed
under calls. Section 8 says what each would add.

Abstract specifications: `LruCache`, which `LruList` implements; `StateEngine`,
which `CronLock` uses call by call. Worth adding: a queue that is a bag with an
owner per item, implemented by `QueueEngine` for items not pushed twice; an
atomic object store, implemented by `LocalStore` on the runs without readers
during a write.

Theorems: every safety property that a run checks is proved, the refinement of
`LruCache` by `LruList` included (section 7). Worth proving next: the two abstract
specifications just named, once they are written, and what they promise.

A run is of a module `M` with `M.cfg`, or of `MC_M` with `MC_M.cfg` where
symmetry, a view or properties put together from several modules have to be
defined for it. `LruCache_proofs`, `StateEngine_proofs`, `CronLock_proofs`,
`QueueEngine_proofs` and `Login_proofs` hold a module's theorems;
`BuckStream_proofs` those of `SiteCache`, `DeployZip` and `LruList`, `Gateway_proofs` those
of `ApiKeys` and `TokenBucket`, `Web_proofs` those of `WebSession` and of the
panels in `Workspace`. No module declares a `RECURSIVE` operator; `LruList` and the folds use recursive functions. A
definition named `Mut...`, or commented "Changed program", is a mutation: the
definition after it with a plausible mistake in it, kept to show that the
properties notice (`PROJECT.json`, "mutants"); no specification uses one.

## 3. The modules and the code

**What is one step.** Where the code holds a mutex from the first line of a
method to the last (the LRU cache, the rate limiter) the method is one action.
Everywhere else a request is a *thread* with a program counter named for the call
it makes next, and a step ends at every call of a database, Redis, the bucket or
another service, at every lock and at every unlock: that is where another
goroutine, instance or service can come in between.

**Failure.** A call that can fail does so by a disjunct of its action; where the
code drops the error the thread goes on, where it returns the error the thread
ends. A call whose effect takes place and whose answer is lost is a third outcome
where the code treats it differently from both. A restart empties what is kept
in memory and ends the requests of that process.

In the web modules a step is what runs between two turns of the browser's loop: a
click or a key, an event and all its listeners, the part of a handler up to its
next `await`, a timer. A request is two steps, the server's, which takes effect
or not, and that of the answer, which may come late, be a refusal or never come;
two requests of a kind under way at once (`MaxCalls`) overtake each other. What a
component forgets when it is unmounted and what its calls do nevertheless are
told apart.

**Time** is a counter that is cut off: an age or a time left up to one more than
any limit the code compares it with.

**History variables** record what a property has to know of the past: that an
answer went out, that a call failed or overlapped another. They guard nothing.

`LruCache`. `entry` is the map of values, `newer` the order of the list as a set
of pairs, `idle` the time since `lastAccessed`. `Get` (`Hit`, `Miss`), `Put`
(`Replace`, `Insert` with the eviction of `AtTail`), `Delete` and `EvictExpired`
are the methods; `EvictExpired` drops every expired site, which the code's early
stop achieves only in an ordered list: that is what `LruList` shows.

`LruList`. `list` is `head`, `tail` and the `prev` and `next` fields, a node being
named by its key. `AddToFront`, `RemoveNode`, `MoveToFront` are the surgery, line
by line; `Swept` is the janitor's loop as a recursive function. `Abstract` is
the refinement mapping: `Order` has the pairs of nodes of which a walk along
`next` from the one comes to the other (`Reaches`).

`SiteCache`. A thread goes through `lookup`, `lock`, `recheck`, `download`,
`read`, `unlock` as `loadSiteCache` does, or `upload` and `clear` as
`HandleDeploy`, or `delete` and `invalidate` as `HandleDeleteObject`.
After `ClearAndPrewarm` the thread goes on as the goroutine that the handler
starts to load the site again. The cache is an instance of `LruCache`. A
version is the number of the upload that wrote it; `exposed` and `shown` are
history. The bucket is atomic.

`DeployZip`. `pc[f]` is the goroutine of file `f`; `sem` and `errChan` are the
channels, `cancelled` the derived context, `gone` its parent.

`ApiKeys`. `row`, `memory`, `mark` and `cached` are the four places of a key.
`Create`, `Remember`; `Revoke`, `Erase`, `Forget`, `Mark`; `HitCache`, `Ask`,
`LookForMark`, `LookInMemory`, `Query`, `Store`, `Accept` are the steps of
`handleCreateAPIKey`, `handleDeleteAPIKey` and, across the two services, of a
validation.

`StateEngine`. The constants `Redis`, `Postgres`, `MySQL`, `Mongo` and `SQLite`
are the sets of providers there can be of each category, `dbs` those that are
registered. `FindL1KVProvider` and `FindL2PersistentProvider` take the first of a
category that Go's iteration over the registry meets, so that each call goes to
*any* provider of the category (`IsL1`, `IsL2`), and two calls of an operation may
go to two; `OneOfEach` says that there is one to go to. `l1[r]` and `l2[k]` hold a
value and the time left to it. Values are JSON texts, or the document Mongo wraps
one in. A TTL of 0 is `Forever` in Redis; Postgres and MySQL refuse its empty
`expire_at`, and SQLite stores a row that it never finds (`endless` is history: the
Save gave no expiry). SQLite compares `expire_at` as text, so that `Tick` may
leave its rows for a while; Mongo inserts and neither replaces, expires nor
deletes. `Register` replaces a provider or adds one. `calm` is true while there is
a provider and nothing has failed, overlapped, expired or been registered late.

`CronLock`. `jobs` is each instance's map, `run[t]` where a `TriggerCron` is; its
three calls of the engine are steps of `StateEngine`, instantiated with one
payload and the lock's time-to-live. The instances have registered the same
providers, and each call of each goes to any of a category. `raced` is history: a
request began to look for the lock while another had found none and had not saved
its own. `Crash` ends an instance with its requests.

`QueueEngine`. `stored[b]` is the list or table of a backend. `Enqueue` and `Ask`
find the backend (`findRedis`, `findPostgres`), the later step sends the command:
`Push`, `Pop`, `PopNothing`, or what becomes of them when an answer is lost
(`PushLost`, `PopLost`) and the client sends the command again (`PushAgain`,
`PopAgain`).

`TokenBucket`. `tokens` are counted in fractions, `Cost` of them to a token, so
that they are integers; the rounding of the code's floats is left out. `First`,
`Admit`, `Refuse` are `isRateLimited`, `Cleanup` is a round of `cleanupClients`. `Count`
starts a new window of the history variables `since` and `admitted` at any time,
so that the bound is one for every window.

`Login`. `memory` and `redis` hold the code under one key, an address or the
token of a magic link. `Send`, `SetInRedis`; `Present`, `FindInRedis`,
`FindInMemory`, `DropFromMemory`, `DelInRedis`; then `SelectUser`, `InsertUser`,
and for a provider's callback `FindIdentity` and `LinkIdentity`. Between the
comparison of a code and its deletion another request may compare it too, and both
are let in; `used` is history, the codes that were dropped. A user is named
by the address of its row, `Ghost` being an id without one. All addresses are on
the admin list; accounts named by a mobile number are left out, the `UNIQUE` empty
mobile that OAuth inserts is not (`blank`).

`WebSession`. `stored` is what localStorage has of the session, `nav` the bar's
`currentUser`, `me` the `getMe` of the document, `form` and `call[c]` the login
form and its requests; `owner`, `live` and `codes` are ArcAuth. `Load` is a page
load, `Route` a change of route within the document, `GoOAuth` and `OAuthReturn`
the way through a provider; `Serve`, `MeServed` are the server's steps. The
`scope` of a call says what of the page is there still when it is answered.

`DbPanel`, `DbScript`. `db.card` is the list of databases and
`db.saved` the localStorage behind it, of one tab; `DbHear`, `DbToggle` and the
steps of a registration are `checkUser`, `handleToggleMode` and
`handleRegisterByod`. A registration goes on when its page is left within the
application (`DbReturn`): it is in `db.left` until `DbLeftEnds` writes localStorage
under the page there is then, and `db.behind` has the databases whose cards do not
show it yet. A page load ends it (`DbArrive`). A script is whether it holds a
statement; `Reaches` is what `executeSQL` returns early on. A download (`dn`) goes
through `config` and, for postgres, `columns`.

`KeysPanel`, `DashboardPanel`. A creation is a key of the server, made or
not, and a row, of that key or one the browser invents. In `DashboardPanel` `bs`
is the files, whose chains are an upload or deletion with the listing after it, and
`ch` the charts.

Where listings overtake each other (`DashboardPanel`, `DemoFiles`, `TablesPage`),
`older` is history: of each listing the server has answered, those it answered
before and the page has not taken yet. `crossed` is set when one is taken while
an older one is still to come.
`Picked` of `WebParams` is JavaScript's `filter`: the items of a sequence at some
places, in their order.

`TablesPage`, `SqlDrawer`, `SchemaPage`. `tb.live` is the database; the form's
columns are told apart by what becomes of them. `TbElsewhere` creates or drops a
table that the page does not hear of, in the SQL drawer its button opens, in
another tab, or by a creation of a page that was left; `tb.edited` is history: one
did, and no fetch was answered since. `sq.run` are the queries that are out. `SchemaPage` takes its tables and keys at two moments.

`FrontedgeProjects`, `FrontedgeDetail`, `FrontedgeForm`. The list, the page of a
project, whose builds (`fb`), logs (`fl`) and secrets (`fs`) are three parts, and
the form. The five parts of one component touch each other's state only
where a route changes, which each has as a step of its own. `fp.made` is what
Cloudflare has, `FpDeployServed` is `HandleDeploy`.

`DemoFiles`, `DemoPreview`, `OtpDemo`. The uploader with its two strategies, the
list and the deletions; the retrieval from key to blob; the three steps of the
login by code, in which `btoa` throws for an address of `Foreign`, with a letter
outside Latin-1, before the step ends (`OdThrown`).

`Workspace`. No panel reads another's state. What they share is outside of them,
the session in localStorage and what the servers keep, and what another panel,
another tab or another page does to it is a step of each panel that can meet it
(`TbElsewhere`, `SvSchema`, `FlBuild`, `KpCreateServed`). A behaviour of all is
therefore, for each panel, a behaviour of that panel, so that a property of one
holds of all together if it
holds while the others stand still; `panel` says which one moves. `Names` are the
names of a project's variables, `Objects` those of files, `Tables` those of tables. `MC_Workspace`
puts the panels' properties together by what they are about.

`MC_Statements`. Labels, messages and comments of the web applications that the
model refutes (section 6).

## 4. The runs

Sizes are distinct states. Every run but one holds; that one is section 6's
finding. Every passing property has a mutation of the code's model that TLC finds
it violated by.

| Run | Instance | States | What it shows |
|---|---|---|---|
| `lru_list` | 4 sites, room for 3, 2 values, TTL 1 | 2,233 | `WellLinked`: both directions of the list meet every node once after every surgery. `ImplementsLruCache`: each method does what `LruCache` says, so that order by age and the bound, which are `LruCache`'s, hold of the pointer code. `LeavesInOrder` |
| `site` | 2 requests, 2 sites for 1 place, TTL 0, 2 uploads of one site, through the proxy too, and 1 of the other, lost answers | 145,004 | `MutualExclusion` of loads; `DownloadOnlyOnMiss`; `StaleOnlyIfExposed`: there are three ways for the cache to go stale and no fourth; `NeverOlder`: visitors are not taken back; `EveryRequestEnds`, whatever fails |
| `deploy_zip` | 5 files, 2 workers, a caller that may leave | 48,791 | `TokensMatch`; `SuccessIsComplete`; `NothingAfterReturn`; `Returns` |
| `api_keys` | 4 requests, gateway and Redis times 2, a flaky Redis, restarts of both services | 12,362 | `MemoryOnlyByRace`; `RefusedAfterTTL` |
| `state` | 2 calls at a time, a value with a TTL of 0 or 1, copies of 2, a Redis, 2 Postgres and SQLite in any order of registration, flaky | 366,662 | `FindsTheLast`: with one of each category; `DisagreementEnds`: with several databases too, about values that expire |
| `cron` | 2 requests at 2 instances, lock of 1, copies of 2, 2 Redis and 2 Postgres, crashes | 306,820 | `FoundOnlyWhileHeld` and `OneRunWithoutRaces`: with one of each category; `LockIsFreed`: with several too |
| `queue` | 2 callers, 2 items, 2 Redis and Postgres registered at any time, flaky | 636,602 | `InOnePlace`; `AckedIsKept`; `OrderKept` |
| `limiter` | 2 clients, a token of 3 fractions, 2 per unit of time, burst 7, expiry 4, 7 units of time | 903,235 | `WindowIsBounded`; `PacedIsAdmitted` |
| `login` | 2 requests, 2 addresses, 1 identity, 2 codes, flaky Redis and database, restarts | 1,066,443 | `UsedIsRefused`; `OnlyTheLatest`; `GhostOnlyOnDashboard`; `SameUser` |
| `web_session` | 2 users, 2 sessions, 1 call of the form at a time | 307,598 | `NavbarFollows`: six writers of localStorage and the menu agree in every state. `OnlyLateMeMixes`: token and profile part in one way only, a `getMe` of another token that answers late. `SpinnerEnds`; `HydrationEnds` |
| `workspace` | 17 panels, one at a time; 2 users, 1 of whom keeps databases; 2 projects, 2 names, 2 builds, 3 rows, 1 object and 1 table, 2 calls of a kind | 362,343 | below |
| `keys_created` | the panel of the API keys | violated | `CreatedIsShown` |

A type invariant is a conjunct of the first invariant of the run, or proved.

The properties of `workspace`, each of several panels:

- `PagesAgree`: keys, files, tables, projects and the demo's objects, as a page
  that waits for nothing shows them, are those of the server, unless a call
  failed or an answer was overtaken, which each conjunct says of itself with a
  history variable. A list of tables is that of the last fetch: one that came or
  went elsewhere since, in the SQL drawer of the page itself for one, is not in it
  (`edited`). Of a schema, nodes and edges are of one fetch.
- `WhoseIsShown`: the databases are those a reload would show to this user, but
  for one whose DSN was stored by a registration that had been left with its page
  (`behind`); the charts are of the user, or of an answer that came late; the
  builds and what is saved as secrets are of the project of the page, unless a
  deployment changed the project under the open dialog; the token of the demo is
  of the address, and no step of it is taken twice.
- `OutcomeIsTold`: a click on a download ends in a file, and one called live is
  of a live schema; a retrieval has a preview or an error; the newest
  build of a history that was listed has a log or is loading it. It says nothing of
  a query: the drawer shows "0 rows returned." for a success, a failure and an
  exception alike (`sql-drawer.tsx:88-102`), which `ZeroMeansNone` of section 6 is
  about; and nothing of older builds, whose unfolding asks for no log
  (`ClickShowsLogs`).
- `FfPasteKeepsOthers`, `FfRestored`: a `.env` that is pasted into a row is written
  over that row and as many behind it as it has keys. The keys of those are gone;
  the keys in the rows before and behind are kept, in their order, around what was
  pasted, whatever rows are blank. A form that was left is found as it was.
- `DbNoDsnOnlyTyped`: a database gets BYOD mode without a DSN only by the switch
  with one typed and not registered.
- `BusyEnds`: what disables a button, spins, covers a page or ticks, ends, of all
  panels that have such a flag, the query, the retrieval and the lists included;
  only "Verifying..." of the login demo stays, for an address that `btoa` does not
  take.

**Why these bounds are enough to meet the interesting cases.**

- *LRU.* Room for three puts a node at the head, in the middle and at the tail;
  a fourth site makes evictions. A TTL of 1 has fresh, expiring and expired nodes
  in one list. The theorems of section 7 do not depend on the numbers.
- *SiteCache.* Staleness takes a load and a writer; the other site is evicted by
  one of them or loaded earlier, the cache having room for one. The theorems of
  section 7 hold for any number of requests; with three and the properties but
  `EveryRequestEnds` TLC meets 459,760 states and no violation
  (`Threads <- MCThreads`, `SYMMETRY MCSymmetry`). Two uploads have an old and a new version, of one site, the other being there
  for its place (with two of each it was checked as well: 347,688 states). A TTL
  of 0 lets the janitor expire a site after one unit of time.
- *DeployZip.* Five files over two tokens: some upload, some wait, some fail.
- *ApiKeys.* Creation, revocation and two validations overlap; two units of time
  tell "sooner" from "at the end".
- *StateEngine, CronLock.* Every race of the engine is one of two calls. A copy
  outlives the value it copies because `CopyTTL` is greater than the TTL. Two
  databases of a category, and for the lock two Redis as well, are what a call can
  miss: `Init` registers any of the providers, so that the run has the instances
  with one of each and those with several. There is one JSON text and there are two
  values, for one saved with a TTL of 0 is told apart from one that expires
  (`endless`): a stale value can be met in the place of the last one. Mongo is left out of
  the passing runs and is what three statements of section 6 are about. All the
  instances of DBMux have the same databases.
- *QueueEngine.* Order takes two items, double delivery two callers, a switch of
  backend two backends; two Redis servers are told apart by the map's random
  iteration in `findRedis`.
- *TokenBucket.* Three fractions to a token at two per unit make every residue;
  the expiry of 4 is the shortest in which the burst of 7 refills, the edge of the
  assumption; seven units of time hold a drop and a return.
- *Login.* Two requests make every race of two steps; a third would be a third
  code, or a third first login of an address, which meets the same `UNIQUE`
  column. The run uses a view: it forgets the history variables that no property
  reads any more (`MCView` says why this is sound).

- *WebSession.* Two sessions of two users are what a late answer confuses. A
  second call of the form at the same time (`Requests = {c1, c2}`) was checked with
  one session for `NavbarFollows` and `OnlyLateMeMixes`, which are proved for any
  number; calls of a form that was left stay under way while another is filled
  in, so that one at a time is not one in all.
- *Workspace.* Two calls of a kind are what overtakes; two projects are what a
  page confuses; two users log in and out of each other's charts; two names and
  three rows have a paste of two keys before, over and behind others. A second
  file or table is told apart from the first by nothing in those panels but its
  name, and what they show is proved for any number; with two, of which one comes
  while the other goes, they were checked by themselves as well: `TbAgrees` of
  `TbSpec` with `Tables = {t, u}` (1,710,028 states), and `DfAgreesOrTold` of
  `DfSpec` with `Objects = {f, g}` and `Small = {f}` (460,816), each with two calls
  of a kind. Of the registrations that outlive their page one is under way at a
  time, and a page is left again when it is over.

`deploy_zip`, `web_session` and `workspace` turn off the check for deadlock:
`DeployZip` returns, and a page may wait for a user who does nothing more, as
every download may have been clicked and every session been made. In every other
model some request can always come.

`Threads` are symmetric where they are model values and no temporal property with
fairness is checked.

## 5. Fairness

Safety is checked and proved without any. The liveness properties assume:

- `SiteCache!FairSpec`: weak fairness of every step of a request under way: a
  goroutine that can run runs, a provider's call returns or fails in the end; and strong fairness of `Acquire`, since Go's mutex
  hands itself over to a goroutine that has waited for a millisecond. Nobody has to
  send a request, the janitor need not run, the process need not restart.
- `DeployZip!FairSpec`: weak fairness of each goroutine and of the return.
- `StateEngine!FairSpec`: time passes, and the calls under way go on. Nobody has to
  call.
- `WebSession!Fairness`: `getMe` and the calls of the form are answered or fail,
  the first by its timeout of eight seconds, the others by the browser's; the timer
  that redirects fires. Nobody has to click or type, or come back from a provider,
  and the server need not take a call that is answered with a failure.
- `MC_Workspace!WsFair`, for `BusyEnds`: the same of the calls and timers of each
  panel that has a flag. A step whose
  call is answered or fails is weakly fair, each listing, upload, query and
  retrieval by itself; no click is. As one panel moves, a condition on the actions
  of several panels is one on those of each, and `WsCall(n)` puts the nth of each
  together.
- `CronLock!FairSpec`: the same as the engine's, and a request that its process does not lose goes
  on to its release. No instance has to restart, and no request has to come.

## 6. Where the code and its documentation part

One disagreement is a finding of `PROJECT.json`, with a run that ends in a
counterexample: `keys_created`, `CreatedIsShown`. "Copy this API key now. It is
shown ONE TIME ONLY" (`api-key-bento.tsx:237`): ArcAuth answers with `raw_key` and
`key_display` and the panel reads `key`, so that a key that was made is never seen
and a key is shown only when the creation failed and the browser made one up.

The statements below end in a counterexample too, found in seconds. They are no
runs of their own, for they ask a module that a run checks one question more. Those of a
service are in its module: take the run's configuration with `SPECIFICATION Spec`
and the statement as its only property (`FairSpec` for `ZeroRunsOut`, which is temporal;
and `Mongo = {"m1"}`, `Postgres = {}` where the row speaks of Mongo).

| Statement | What is said | What the code does |
|---|---|---|
| `SiteCache!DeletedIsNotServed` | "Deletes the deployment archive and invalidates the RAM cache instantly" (`buckstream/skills.md:172`) | A load that opened the archive before the deletion puts it into the cache after the clearing (`handler.go:466`, `:200`), where it is served until nobody asks for an hour |
| `SiteCache!OldVersionRemainsLive` | "the old version remains live until the new cache is fully primed" (`buckstream/README.md:20`) | The old version is cleared first, visitors wait for the new download |
| `DeployZip!SuccessMeansUploaded` | "Wait for all uploads to complete", "Check if any errors occurred" (`storage/deploy.go:80`, `:84`) | When the caller's context ends, goroutines that wait return silently, and the result can be nil |
| `ApiKeys!RevokedIsRefused` | "API key revoked and access terminated" (`service.go:1160`) | A validation that read the row earlier puts the key back into memory; once the day's mark in Redis is gone it is found there |
| `StateEngine!DeletedFromBoth` | "deletes state from both L1 cache and L2 Persistent DB" (`state.go:268`) | Not from Mongo |
| `StateEngine!GetsWhatWasSaved` | "Retrieve saved state value by key" (`dbmux/skills.md:307`) | From Mongo comes the document around the value |
| `StateEngine!FindsTheLastOfMany` | the same, however many providers of a category are registered | Each call takes the one that a Go map yields first (`state.go:33-75`): a Save writes one Redis and one Postgres, a Get asks another of each |
| `StateEngine!ZeroRunsOut` | "Engine coordinates L1 cache (Redis) and L2 persistent DB" (`state.go:23`) | With a TTL of 0, which is what a caller that names none gets, Redis keeps the value without an expiry and Postgres refuses the row (`state.go:97`, `:132`): Redis has for ever what the database never took |
| `StateEngine!ExpiredIsGone` | "Save application state key with TTL expiry" (`dbmux/skills.md:306`) | `GetState` copies a row into Redis for an hour whatever time is left to it |
| `StateEngine!PreservedInRedis` | "state is preserved in L1 Redis" without a database (`state.go:103`) | `SaveState` succeeds also when there is no Redis, or its `Set` failed |
| `CronLock!OneRunAtATime` | "using distributed locking across instances" (`cron.go:48`) | The lock is looked up with one call and taken with another (`cron.go:62`): two requests can both find it free and both run the job |
| `CronLock!OneRunCalmly` | the same, of calls of the engine that do not overlap, and one provider of each category | The race is between two calls, not within one |
| `CronLock!FoundOnlyWhileHeldByMany` | "Release lock after execution" (`cron.go:77`) | With two Redis or two Postgres the release can delete from another one than the lock was saved in |
| `CronLock!TenSecondLock` | "10 second lock" (`cron.go:60`) | A refused request's `GetState` copies the lock into Redis for an hour; the release deletes it, a crash does not |
| `CronLock!FoundOnlyWhileHeld`, on Mongo | "Release lock after execution" (`cron.go:77`) | On Mongo the lock's document stays |
| `QueueEngine!AtLeastOnce` | "QueueEngine provides at-least-once queue operations" (`queue.go:17`) | An item popped for an answer that is lost reaches nobody |
| `QueueEngine!EmptyMeansEmpty` | "Queue is empty" (`queue.go:83`) | Other backends are not asked |
| `QueueEngine!PurgeClears` | "Clear all pending items from queue" (`dbmux/skills.md:305`) | `Purge` deletes another key than the one items are pushed to |
| `QueueEngine!SizeCounts` | "Get total pending items count in queue" (`dbmux/skills.md:303`) | So does `Size` count |
| `Login!GoneFromRedisIsRefused` | "It expires in 5 minutes" (`otp_adapters.go:45`) | The copy in memory does not expire |
| `Login!OAuthUserIsCreated` | "Fall back to email lookup or auto-creation" (`service.go:1292`) | A second OAuth user collides with the first in the `UNIQUE` column `mobile`, both having `''` |

Those of the web are in `MC_WebSession`, to be checked with `MC_WebSession.cfg`
(`CookieStays` with two calls of the form), and in `MC_Statements`, to be checked
with `MC_Statements.cfg`, the statement as the only property and `Looked` set to its panel,
which is the variable the statement is about (`"db"`, `"sc"`, ... `"od"`).
These quote the program:

| Statement | What is said | What the code does |
|---|---|---|
| `OnlyRefusalLogsOut` | "Only log out if explicit 401 Unauthorized from server" (`App.tsx:66`) | `getMe` logs out itself when its call times out or fails in any way (`arcauth.ts:148`), before `App` looks at a status |
| `LoginRevokes` | "Revoke backend session if token exists" (`login-page.tsx:36`) | When `/login` is loaded, `App` logs out before the page, which is fetched later, looks for a token to revoke; only one who comes by a route change is revoked |
| `ByodHasDsn`, `ActiveHasDsn` | "Enforces DSN requirement for BYODB" (`db-bento.tsx:281`), "BYOD Active" (`:530`) | A DSN that is typed and not registered is enough for the switch |
| `StoredIsShown` | a DSN that is registered is shown on its card (`db-bento.tsx:260-270`) | A registration that outlives its page stores the DSN behind the cards of the page there is then |
| `ModalShowsMode` | "Current Mode:" (`db-bento.tsx:618`) | The modal has a copy of a card that the cards' loads do not renew |
| `BaselineWithoutUser` | "Unconfigured baseline when no user is logged in" (`db-bento.tsx:40`) | A load that was out at the logout fills the cards again |
| `SuccessMeansRan`, `FailureMeansNot`, `RunsAsShown` | "Executed successfully!" (`db-bento.tsx:433`), "SQL Execution failed" (`:448`), "Tenant: <email>" (`:483`) | `executeSQL` answers with nothing when it sends nothing, for want of a tenant or of a statement; an answer can be lost after the script ran; the tenant is read from localStorage, the name shown is the component's |
| `LiveMeansFetched` | "(Fetched Live via DBMux RPC API)" (`db-bento.tsx:348`, `:369`) | The configuration is made up when there is none |
| `ShownIsAKey`, `RevokedIsRevoked` | "Save Your API Key" (`api-key-bento.tsx:187`), "Revoke API Key" (`:170`) | An invented key is shown after a failure; a row goes though its revocation failed |
| `UploadingIsSaid` | "Uploading to Backblaze..." (`dashboard-bento.tsx:392`) | The first of two uploads to end clears the flag |
| `LoggedOutIsEmpty` | without a token the charts are emptied (`dashboard-bento.tsx:57`) | An answer that comes later fills them |
| `ListedAreThere` | the list of tables, with the SQL drawer over it (`tables-page.tsx:141-148`) | What the drawer drops stays in the list: closing it fetches nothing |
| `ViewedAreTheColumns` | "Columns for <table>" (`tables-page.tsx:247`) | The three columns listed are fixed, whatever the table has |
| `ZeroMeansNone`, `DraftSurvives`, `RunningIsSaid` | "0 rows returned." (`sql-drawer.tsx:250`), "Auto-saved draft" (`:205`), the disabled button (`:213`) | The answer is a record where the drawer looks for an array, so that it says so of every result; the draft of another tab overwrites it; Ctrl+Enter starts a second run and the first answer enables the button |
| `LeftKeyIsFull`, `SizeIsOfTheUpload`, `RefreshingIsSaid` | "Full key already includes uploads/ prefix" (`demo/src/App.tsx:69`), "(Size <= 5MB)" (`:225`), "Refreshing..." (`:243`) | The client answers with the name it was called with, which has no prefix; the file selected may be another one than the one uploaded; two lists share the flag |
| `RetrievingIsSaid`, `SavedUnderItsName` | "Retrieving..." (`demo/src/App.tsx:340`), "Save to Disk" (`:351`) | Two retrievals share the flag; the content is that of the preview and the name that of the key field, which may have been typed since, or name no object and be answered with the welcome page |
| `OdVerifyingIsSaid` | "Verifying..." (`arcauth-page.tsx:223`) | For an address outside Latin-1 `btoa` throws (`:116`) before the flag is cleared, and nothing runs any more |
| `OdCodeIsEntered` | "Enter 6-digit code" (`arcauth-page.tsx:212`) | No code is asked for |
| `VisitsTheProject`, `RedeploysTheProject`, `ShowsTheProject` | "Visit Site" (`frontedge-project-detail.tsx:132`), "Redeploy Project" (`:140`), "Deployment History" (`:228`) | The project opened before is kept while the new one is not in the list (`frontedge-console.tsx:334`); the repository is the one chosen in the form of new projects; builds asked for by the page before can arrive last |
| `FetchingIsSaid`, `ClickShowsLogs`, `LoadingIsShown` | "Fetching edge projects..." (`frontedge-projects-list.tsx:106`), "Click any build to view..." (`frontedge-project-detail.tsx:229`), "Loading sanitized GitHub Actions build logs..." (`:325`) | One flag for two lists; only the newest build's log is asked for with the list, and unfolding another asks for none; two requests for one build share a flag that the first answer clears |
| `DraftIsRestored`, `DraftIsTheForm` | "Restore draft from sessionStorage on mount" (`frontedge-create-project.tsx:66`), "Persist form state to sessionStorage on every change" (`:87`) | A field that was cleared is not restored; a deployment that ends removes the draft of a form that stays |
| `SavedIsTypedForIt` | "Environment Secrets - {activeProject}" (`frontedge-project-detail.tsx:358`) | A deployment that ends changes the project under the rows |

The others are what a user would expect: that a mode or a DSN survives a reload
and a change of user (`ModeSurvivesReload`, `OwnDsnOnly`), that only its own answer
closes a dialog, erases a text or takes a page away (`ClosesItsOwn`,
`TypedIsKept`, `DrawerStays`, `ClosedByItsSave`, `OnlyTheUserLeaves`), that a row
stays or goes for good (`CreatedStays`, `DeletedStays`, `OneRow`), and the like;
each says in its comment what it is about.

## 7. The proofs

TLAPS proves every theorem below for every value of the constants that satisfies
the module's assumptions: any number of sites, goroutines, files, requests and
clients, any capacity, time-to-live and rate; any callers, payloads and databases;
any users, names, projects, rows and calls of a kind. The assumptions are those an
instance must satisfy to make sense, a named formula in the module that declares the
constants, and TLC evaluates each on its runs. Most say that what
stands for nothing is none of the values, and that a number is one. The others are
of the code:

- `BucketAssumption`: a burst is refilled before a client is dropped (2 seconds of
  300 as configured).
- `CronAssumption`: the lock's time-to-live is at most that of a copy (10 seconds
  and 3600, both written in the code), `StateAssumption` likewise of every value
  (a TTL of 0 included). Values that are saved for longer than an hour are left
  out. Both say that a provider is of one category.
- `DbPanelAssumption`: which databases have their mode read back and which have it
  follow from the DSN, as the two branches of the code do.
- `DemoFilesAssumption`, `SchemaPageAssumption`, `OtpDemoAssumption`: the files of
  at most 5 MB are among the files, the names that every JavaScript object has a
  property of among the tables, and the addresses outside Latin-1 among those of
  users, of whom the address the demo starts with is none.

Three theorems have a hypothesis beside these, and section 6 says what happens
without it: `FindsWhatWasSaved` (where it is called `Exact`), `CronFoundOnlyWhileHeld`
and `CronOneRunWithoutRaces` are of deployments without Mongo, which wraps a value
in a document and neither replaces nor deletes. Their properties speak of states
with one Redis and one database of the highest priority (`OneOfEach`), and
`FindsTheLast` leaves out a value that SQLite was given without a time-to-live and
never finds again (`Lost`). They allow any other mix of Redis, Postgres, MySQL and
SQLite, several databases of lower priority included. `LockIsFreed` and
`DisagreementEnds`, which need neither, are liveness properties and not proved.

| Theorem | Says | Rests on |
|---|---|---|
| `LruSafe` | type, total order, order of ages, bound of the cache | `LruInv`, these four together |
| `LruLeavesInOrder` | nobody leaves before a less recently used site, but by name | `LruInv` |
| `ListWellLinked` | both directions of the list meet every key of the map once, head and tail are the ends | `ListInv` |
| `ListImplements` | every method on the pointers does what `LruCache` says | `ListInv` |
| `ListLeavesInOrder` | so nobody leaves it before a less recently used site, but by name | `ListInv`, `LruLeavesInOrder` |
| `SiteTypeOK`, `SiteCacheBounded` | types; the cache is bounded under concurrent handlers | `ShapeInv`; `LruInv` |
| `SiteMutualExclusion` | who loads holds `loadMu` and conversely | `ShapeInv` |
| `SiteDownloadOnlyOnMiss` | nobody downloads what is cached | and `MutualExclusion` |
| `SiteStaleOnlyIfExposed` | three ways to go stale and no fourth | `ShapeInv`, `Coherent` |
| `SiteNeverOlder` | the versions shown only grow | `ShapeInv`, `MutualExclusion`, `Versions` |
| `DeployTypeOK`, `DeployTokensMatch`, `DeploySuccessIsComplete`, `DeployNothingAfterReturn` | the promises of `DeployZip` | `Inv` |
| `KeysTypeOK`, `KeysMemoryOnlyByRace`, `KeysRefusedAfterTTL` | the promises of a key | `Inv` |
| `BucketTypes`, `BucketWindowIsBounded`, `BucketPacedIsAdmitted` | the promises of the limiter | `Balance` |
| `StateTypes` | types; a call keeps what it carries to the second provider | `Types` |
| `FindsWhatWasSaved` | with one provider of each category, calls one after the other find the last value saved | `Types`, `Serial` |
| `CronFoundOnlyWhileHeld` | with one of each, a lock is found only while it is held | `Matched`, `Locking` |
| `CronOneRunWithoutRaces` | and one request at a time runs, unless one looked for the lock while another was about to take it | `Matched`, `Locking` |
| `QueueInvariant`, `OneTaker`, `DequeuedInOrder` | types; one place for an item; the order of one Redis | `Inv` of the queue |
| `NothingAckedDisappears` | what was acknowledged is somewhere | and `Kept` |
| `LoginInvariant`, `UsedUpIsRefused`, `LatestAccepted` | types; a code that was used up compares equal no more, the one accepted is the latest | `CodeInv` |
| `NoOtherGhost`, `SameUserEveryTime` | who gets a session without a row; an identity keeps its user | `UserInv` |
| `NavbarFollowsTheStore` | the menu shows the stored profile | `IInv` |
| `OnlyALateMeMixes` | profile and token part by a late `getMe` only | `IInv` |
| `PagesShowTheServer`, `ShownForWhom`, `OutcomesAreTold` | the three invariants of all panels | `WsInv` |
| `PasteKeepsOthers` | a paste keeps the keys of the rows around it, in their order | `FfInv`, the lemmas about `Picked` |
| `DsnIsTyped`, `DraftIsRestored` | the two action properties of panels | `WsInv` |

How the arguments go, and why the properties need strengthening:

- **LruCache.** The bound and the order of ages are inductive only with the type
  and the total order: the eviction removes *a* site because a total order has a
  tail. `UnlinkMember`, `ToFrontMember` say what the two operators on orders do to
  a pair; everything else about orders follows from them. `DropInv` serves
  `Delete` and `EvictExpired`.
- **LruList.** `Order` speaks of walks of any length, which no step shows one by
  one. `Linked` says the same of one pointer at a time: that the keys of the map
  are totally ordered by `R`, and that what is after a node is the node its pointer
  leads to and what is after that one (`Follows`), in both directions. What is linked
  in the order `R` stands for `R` (`LinkedReaches`: of a closed set that misses a
  node, the last member before it leads to one behind, `LastOf`), and the surgery
  of `addToFront` and `removeNode` does to `Linked` what `ToFront` and `Unlink` do to
  `R` (`AddLinked`, `RemoveLinked`). The janitor's loop is induction over its turns,
  with a set of numbers for the predicate (`NatSet`), once it is known that there is
  a function of the turns at all (`Iterates`): `SweptSoFar` says that what has left
  was expired and that the rest is linked, and the order of ages, which is
  `LruCache`'s own invariant, that nothing expired is left where the loop stops
  (`SweptEnd`). With that each method is a step of `LruCache`, whose invariant and
  whose theorems are then the list's.
- **SiteCache.** A step of a handler is a step of `LruCache` or leaves the cache
  alone (`CacheStep`), so that the cache's bound is not proved again.
  `StaleOnlyIfExposed` speaks of what is cached and not of what a load is about to
  cache; `Coherent` adds that a load that has read a version the bucket does not
  have any more is followed by a clearing or its site is exposed. `NeverOlder`
  needs `Versions`: what a reader holds is at least as new as what is shown, and
  there is one reader, by `MutualExclusion`.
- **DeployZip.** `Inv` follows an error through its stages: a goroutine that has
  failed has cancelled; when the context is done and the caller is there, an error
  is in the channel or on its way; who is through has stored its file or found the
  context done.
- **ApiKeys.** `Inv` adds `Order`, which says which steps of a revocation and a
  creation exclude each other, and `Fading`: once nobody holds an answer from
  before the revocation, the time left in the gateway's cache and the time of
  quiet add up to no more than the cache's time-to-live.
- **TokenBucket.** `Balance` counts a client's credit, the tokens it has or would
  find on its return: what was admitted since `since` and the credit now are
  together no more than a burst and the rate's share. Dropping a client does not
  change its credit because a bucket is full by then (`IdleIsFull`), which is why
  `BucketAssumption` relates burst, rate and expiry; the default configuration
  refills in 2 seconds of the 300.
- **StateEngine.** That Redis and the database agree is not inductive, as an
  operation writes the one before the other. `Serial` says it of the states in
  which no write is half done (`Settled`), and `Halfway` what is true of each call
  between its two providers: a save has put its value into Redis, or Redis has
  nothing, before it writes the database; a read about to copy a row has the last
  value. While the calls of the run do not overlap (`Sole`) the others' leftovers
  disturb nothing.
- **CronLock.** The module takes the engine's steps by INSTANCE, and its proof
  takes what they do from the engine's proof in the same way (`SP`), with one
  payload and the lock's time-to-live: that a Get finds the last value is not proved
  again. `Matched` says which call of the engine is under way at which stage of a
  request. `Locking` adds the engine's `Serial` and two facts of calm states:
  `Guarded`, that a lock was saved last only while a request takes it or has it;
  and `OneHas`, that without a race one request at most is about to take it, or has
  it, and who has it has saved it. A lock that is found is the last value, and so
  somebody's.
- **QueueEngine.** `InOnePlace` counts the places of an item, which no step tells
  one by one. `Inv` has them as facts about positions: `PushedOnce`, `OnePlace` and
  `InOrder` are of any two positions of an item or of two items, so that a command
  is described once by what it does to positions (a push appends one, a pop takes
  one out and keeps the order of the rest) and the cases are of where the two
  were. `Origin` ties every place to a push and every push to a call; `Pending` says
  that a caller about to push an item is the only one and the first. That a set of
  places has one element at most is the last step.
- **Login.** `CodeInv` follows codes by age: what a request holds was mailed, the
  one being sent is newer than the latest, and memory has the latest or the one
  being sent, Redis the latest (`OneSent`), until a failure or a second send; what was used is in neither
  (`Unused`), though a request that compared it earlier may still hold it.
  `UserInv` says of a login that is alone what it has read and still holds
  (`OneLogin`): an account that is to be inserted is not there, an identity's user
  has not changed. `GhostExcused` has the excuse of a session at each step from where
  the user is known, for `calm` may end between two of them; the flags an excuse
  speaks of are never withdrawn from a request that has it.
- **WebSession.** `IInv` adds `Minted`: a token that is stored, or that an answer is
  about to store, is of a session that was made, and a profile that answers for a
  token is its owner's; without it a late answer could pair a token with nobody's
  profile. A token that was minted keeps its owner (`MintKeeps`). The action
  property goes through the disjuncts of `Next`: whoever writes localStorage
  writes a pair that was consistent when it was made, and only `getMe` writes a
  profile under a token it was not asked with.
- **The panels.** For a panel `Xx`, `XxInv` is its inductive invariant, `XxStart`
  and `XxKeeps` say that it is one, and `XxShows` or `XxTold` what follows from it.
  `PanelsStay` says that a panel nobody looks at keeps its invariant, and so
  `WsInv`, which is all of them, is an invariant of `Workspace`.
  - *Listings that overtake each other* (files, tables, the demo's objects): what
    is shown is not the server's state while listings are out, even with nothing
    wrong. `Brings` says what will be: the newest of the listings that were
    answered has what the server has, or none is out and the page shows it.
    `Ordered` makes `older` an order, and `Taken` and `TakenBrings` say that taking
    an answer with nothing older on its way keeps both. A chain that will list
    again when it is done makes up for everything before it. The console's
    projects are shown by the same argument with `FpToCome`.
  - *Keys*: rows are changed in place by each answer, so that they differ from the
    server's keys by exactly the calls that are out; `KpTogether` says where a key
    is at each stage of a creation and of a deletion.
  - *Whose it is*: `DbSound` has the DSN of a card to be one of a database that has one
    stored, and the registration under way to be of a database and a user; `SvCurrent` has tables and keys that were fetched apart to be of one
    schema until it changes, which `raced` records; the other invariants have the
    user or the project of an answer beside what it brings.
  - *A paste*: `Picked` goes through `InOrder`, the one increasing listing of a set
    of numbers (`InOrderOnly`). `PickedPicked`, `PickedBehind` and `PickedAll` are
    what `filter` does to itself, to a concatenation and when it keeps everything;
    with them a paste is rewritten to the keys before it, the pasted ones and the
    keys behind it, without induction.
  - *A draft*: while the form is there a draft in sessionStorage is what the form
    would save, and once it was left it is what was left (`FfInv`).

## 8. What is only model-checked, and what is not modelled

Only model-checked: the liveness properties and everything about fairness
(`EveryRequestEnds`, `Returns`, `DisagreementEnds`, `LockIsFreed`, `SpinnerEnds`,
`HydrationEnds`, `BusyEnds`), which the prover cannot reason about. The violated
statements of section 6 are runs of TLC, not theorems.

Abstracted in what is modelled: parsing of requests, names and MIME types;
rounding of floats in the limiter; the order in which Postgres returns rows
enqueued in one transaction clock tick; the time of day at which SQLite lets an
expired row go; `job.LastRun`, which is only displayed; keys of one map that do
not interact (one API key, one state key, one queue, one cron job are modelled).
Processes that come and go while they share a Redis are modelled where it changes
an answer (`ApiKeys`, `CronLock`) and not elsewhere.

In the web modules: wording, layout and animation; the text of queries, names
and files, which are told apart only by what the code does with them; search
fields, the wording of a status, the bar's hiding while one scrolls; the browser's
back button within the console; the placing of a diagram's boxes. The server of a
panel is as much of it as its calls reach.

Not modelled:

- the three copies of a session in SQLite, memory and Redis and their expiry,
  which `WebSession` has as one: `getAuthUser` compares none of
  them with `expires_at`, and no comment or document says that it does;
- the local storage provider, which truncates and rewrites a file that readers
  may have open: `SiteCache`'s bucket is atomic, as S3's and GCS' are, and its
  properties are not claimed of a bucket on disk;
- DBMux's registry and shutdown: `Register` closes a provider under the calls that
  use it, and `main` ends as soon as `ListenAndServe` returns. Drivers of databases
  decide what such a call gets, and they are not this repository's;
- what keeps no state (routing, adapters, RPC handlers, interceptors, the
  TypeScript SDK of DBMux), is generated, or is text.

`PROJECT.json` lists them, and the hazards they are exposed to with the line where
they bite.
