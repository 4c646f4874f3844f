------------------------------- MODULE ApiKeys -------------------------------
(***************************************************************************)
(* The life of one API key: ArcAuth creates, validates and revokes it      *)
(* (arcauth/pkg/authservice/service.go), the gateway asks ArcAuth and      *)
(* remembers the answer for a minute (gateway/pkg/auth.go).                *)
(*                                                                         *)
(* Keys do not interact.  A thread is a request: the goroutine of the      *)
(* gateway that validates the key together with the goroutine of ArcAuth   *)
(* that answers it, or a goroutine of ArcAuth that creates or revokes it.  *)
(* A step ends at each call of the database, of Redis, of the other        *)
(* service, and at each unlock of a mutex.                                 *)
(***************************************************************************)
EXTENDS Naturals

CONSTANTS Threads,    \* requests
          CacheTTL,   \* keyCacheTTL, one minute, in units of time
          MarkTTL,    \* how long Redis keeps revoked_key, a day
          HasRedis,   \* whether ArcAuth has a Redis client
          FlakyRedis  \* whether calls of Redis can fail

ASSUME KeysAssumption == /\ CacheTTL \in Nat \ {0}
                         /\ MarkTTL \in Nat \ {0}
                         /\ HasRedis \in BOOLEAN
                         /\ FlakyRedis \in BOOLEAN

VARIABLES row,      \* the key's row in auth_api_keys: not yet there, there, deleted
          memory,   \* whether memoryAPIKeys has the key
          mark,     \* the time left to revoked_key in Redis, 0 without it
          cached,   \* the time left to the gateway's keyCache entry, 0 without a valid one
          pc,       \* pc[t]: the next step of request t
          answered, \* history: a revocation has been answered
          raced,    \* history: memory got the key after its row was deleted
          quiet     \* history: time since an answer from before the revocation was last under way

vars == <<row, memory, mark, cached, pc, answered, raced, quiet>>

Label == {"idle", "remember", "erase", "forget", "mark", "redis", "memory", "query",
          "store", "accept"}

Init == /\ row = "none"
        /\ memory = FALSE
        /\ mark = 0
        /\ cached = 0
        /\ pc = [t \in Threads |-> "idle"]
        /\ answered = FALSE
        /\ raced = FALSE
        /\ quiet = 0

At(t, label) == pc[t] = label
Goto(t, label) == pc' = [pc EXCEPT ![t] = label]

\* The handler puts the key in memoryAPIKeys.
PutInMemory == /\ memory' = TRUE
               /\ raced' = (raced \/ row = "gone")

-----------------------------------------------------------------------------
(* handleCreateAPIKey.                                                     *)

Create(t) == /\ At(t, "idle")
             /\ row = "none"
             /\ row' = "live"
             /\ Goto(t, "remember")
             /\ UNCHANGED <<memory, mark, cached, answered, raced, quiet>>

Remember(t) == /\ At(t, "remember")
               /\ PutInMemory
               /\ Goto(t, "idle")
               /\ UNCHANGED <<row, mark, cached, answered, quiet>>

-----------------------------------------------------------------------------
(* handleDeleteAPIKey.                                                     *)

\* The row is looked up; a key that is not found is answered with an error.
Revoke(t) == /\ At(t, "idle")
             /\ row = "live"
             /\ Goto(t, "erase")
             /\ UNCHANGED <<row, memory, mark, cached, answered, raced, quiet>>

\* The row is deleted, by another request already perhaps, or the call fails.
Erase(t) == /\ At(t, "erase")
            /\ \/ row' = "gone" /\ Goto(t, "forget")
               \/ UNCHANGED row /\ Goto(t, "idle")
            /\ UNCHANGED <<memory, mark, cached, answered, raced, quiet>>

\* The answer goes out: the revocation is over for the user.
Answer(t) == Goto(t, "idle") /\ answered' = TRUE

\* Mutated: the key stays in memoryAPIKeys.
MutForgetNothing(t) == /\ At(t, "forget")
                       /\ IF HasRedis THEN Goto(t, "mark") /\ UNCHANGED answered ELSE Answer(t)
                       /\ UNCHANGED <<row, memory, mark, cached, raced, quiet>>

Forget(t) == /\ At(t, "forget")
             /\ memory' = FALSE
             /\ raced' = FALSE
             /\ quiet' = 0
             /\ IF HasRedis THEN Goto(t, "mark") /\ UNCHANGED answered ELSE Answer(t)
             /\ UNCHANGED <<row, mark, cached>>

\* The error of Redis is dropped.
Mark(t) == /\ At(t, "mark")
           /\ \/ mark' = MarkTTL
              \/ FlakyRedis /\ UNCHANGED mark
           /\ Answer(t)
           /\ UNCHANGED <<row, memory, cached, raced, quiet>>

-----------------------------------------------------------------------------
(* validateAPIKey and handleValidateAPIKey.                                *)

\* Mutated: a hit starts the minute again.
MutHitRenews(t) == /\ At(t, "idle")
                   /\ cached > 0
                   /\ cached' = CacheTTL
                   /\ UNCHANGED <<row, memory, mark, pc, answered, raced, quiet>>

\* getCachedKey finds an entry that has not expired: the request is let through.
HitCache(t) == /\ At(t, "idle")
               /\ cached > 0
               /\ UNCHANGED vars

\* It finds none: ArcAuth is asked, which looks into Redis if it has one.
Ask(t) == /\ At(t, "idle")
          /\ cached = 0
          /\ Goto(t, IF HasRedis THEN "redis" ELSE "memory")
          /\ UNCHANGED <<row, memory, mark, cached, answered, raced, quiet>>

\* A call that fails counts as a key that is not marked.
LookForMark(t) == /\ At(t, "redis")
                  /\ \/ mark > 0 /\ Goto(t, "idle")
                     \/ (mark = 0 \/ FlakyRedis) /\ Goto(t, "memory")
                  /\ UNCHANGED <<row, memory, mark, cached, answered, raced, quiet>>

LookInMemory(t) == /\ At(t, "memory")
                   /\ Goto(t, IF memory THEN "accept" ELSE "query")
                   /\ UNCHANGED <<row, memory, mark, cached, answered, raced, quiet>>

\* A row that is missing and a call that fails are both answered 401.
Query(t) == /\ At(t, "query")
            /\ \/ row = "live" /\ Goto(t, "store")
               \/ Goto(t, "idle")
            /\ UNCHANGED <<row, memory, mark, cached, answered, raced, quiet>>

Store(t) == /\ At(t, "store")
            /\ PutInMemory
            /\ Goto(t, "accept")
            /\ UNCHANGED <<row, mark, cached, answered, quiet>>

\* Mutated: the entry lives a unit too long.
MutAcceptLonger(t) == /\ At(t, "accept")
                      /\ Goto(t, "idle")
                      /\ cached' \in {cached, CacheTTL + 1}
                      /\ UNCHANGED <<row, memory, mark, answered, raced, quiet>>

\* ArcAuth's 200 reaches the gateway, which calls setCachedKey, or is lost.
Accept(t) == /\ At(t, "accept")
             /\ Goto(t, "idle")
             /\ cached' \in {cached, CacheTTL}
             /\ UNCHANGED <<row, memory, mark, answered, raced, quiet>>

-----------------------------------------------------------------------------
\* ArcAuth stops and starts again: its memory and its requests are lost.
RestartArcAuth == /\ memory' = FALSE
                  /\ raced' = FALSE
                  /\ quiet' = 0
                  /\ pc' = [t \in Threads |-> "idle"]
                  /\ UNCHANGED <<row, mark, cached, answered>>

\* The gateway does: its cache and the requests it waits for are lost.
RestartGateway == /\ cached' = 0
                  /\ pc' = [t \in Threads |-> IF pc[t] = "accept" THEN "idle" ELSE pc[t]]
                  /\ UNCHANGED <<row, memory, mark, answered, raced, quiet>>

Sooner(n) == IF n = 0 THEN 0 ELSE n - 1

\* A validation that has the key's row or ArcAuth's approval in hand.
Passing == \E t \in Threads : pc[t] \in {"store", "accept"}

\* A unit of time passes.
Tick == /\ mark' = Sooner(mark)
        /\ cached' = Sooner(cached)
        /\ quiet' = IF answered /\ ~Passing
                    THEN IF quiet = CacheTTL THEN quiet ELSE quiet + 1
                    ELSE 0
        /\ UNCHANGED <<row, memory, pc, answered, raced>>

Handler(t) == \/ Create(t) \/ Remember(t)
              \/ Revoke(t) \/ Erase(t) \/ Forget(t) \/ Mark(t)
              \/ HitCache(t) \/ Ask(t) \/ LookForMark(t) \/ LookInMemory(t) \/ Query(t)
              \/ Store(t) \/ Accept(t)

Next == (\E t \in Threads : Handler(t)) \/ RestartArcAuth \/ RestartGateway \/ Tick

Spec == Init /\ [][Next]_vars

-----------------------------------------------------------------------------
TypeOK == /\ row \in {"none", "live", "gone"}
          /\ memory \in BOOLEAN
          /\ mark \in 0 .. MarkTTL
          /\ cached \in 0 .. CacheTTL
          /\ pc \in [Threads -> Label]
          /\ answered \in BOOLEAN
          /\ raced \in BOOLEAN
          /\ quiet \in 0 .. CacheTTL

\* memoryAPIKeys has a key without a row only between the deletion of the row and
\* that of the entry - or after a race: a handler that had found the row, or had
\* inserted it, stored the key after the row was deleted.
MemoryOnlyByRace == memory /\ row # "live" => raced \/ \E t \in Threads : At(t, "forget")

\* Without that race a revoked key is refused one minute after the revocation's
\* answer and the last validation that overlapped it: no hit, no retry, no
\* restart and no failure of Redis prolongs the gateway's entry.
RefusedAfterTTL == answered /\ ~raced /\ quiet >= CacheTTL => cached = 0

\* service.go:1160: "API key revoked and access terminated".  Once the answer has
\* gone out, the gateway has forgotten the key and no request is under way, the
\* next validation does not find the key in memory, unmarked.
RevokedIsRefused ==
    answered /\ cached = 0 /\ (\A t \in Threads : At(t, "idle")) => ~(memory /\ mark = 0)
=============================================================================
