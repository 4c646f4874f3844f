----------------------------- MODULE TokenBucket -----------------------------
(***************************************************************************)
(* The gateway's rate limiter (gateway/pkg/limiter.go): a bucket of tokens *)
(* for every client identifier, filled when a request comes and dropped    *)
(* when none came for a while.  clientsMu makes a request and a round of   *)
(* the cleanup one step each.                                              *)
(*                                                                         *)
(* Tokens are counted in fractions, Cost of which make one token; the      *)
(* rounding of floats is left out.  A request is the key it is counted     *)
(* under.                                                                  *)
(***************************************************************************)
EXTENDS Integers

CONSTANTS Keys,   \* client identifiers
          Cost,   \* the fractions that a request takes: one token
          Rate,   \* rateLimitPerSec: fractions per unit of time
          Burst,  \* rateBurst, in fractions
          Expiry, \* the 5 minutes after which a client is dropped
          MaxTime \* bound: the last time of the model

\* rateBurst is a token at least, and is refilled before a client is dropped: 60
\* tokens at 30 a second take 2 seconds of 300.
ASSUME BucketAssumption ==
    /\ Cost \in Nat \ {0} /\ Rate \in Nat \ {0} /\ Expiry \in Nat /\ MaxTime \in Nat
    /\ Burst \in Nat /\ Cost <= Burst /\ Burst <= Rate * Expiry

VARIABLES clients,  \* the buckets, NoClient for a key the map does not have
          now,
          since,    \* history: since when admitted[k] counts
          admitted, \* history: the requests of k let through since then
          paced     \* history: no two requests of k came faster than the rate

bucketVars == <<clients, now, since, admitted, paced>>

Bucket == [there : {TRUE}, tokens : 0 .. Burst, lastSeen : 0 .. MaxTime]
NoClient == [there |-> FALSE, tokens |-> 0, lastSeen |-> 0]

Known(k) == clients[k].there
AtMost(n, max) == IF n > max THEN max ELSE n

\* Mutated: the tokens are looked at before those that came in are added.
MutCheckFirst(k) == clients[k].tokens

\* The tokens of k once those that came in since lastSeen are added.
Refill(k) == AtMost(clients[k].tokens + Rate * (now - clients[k].lastSeen), Burst)

Left(k) == IF Refill(k) >= Cost THEN Refill(k) - Cost ELSE Refill(k)

Put(k, tokens) ==
    clients' = [clients EXCEPT ![k] = [there |-> TRUE, tokens |-> tokens, lastSeen |-> now]]

\* Whether the request comes no sooner than the rate gives a token.
Slow(k) == Known(k) => Rate * (now - clients[k].lastSeen) >= Cost

BucketInit == /\ clients = [k \in Keys |-> NoClient]
              /\ now = 0
              /\ since = [k \in Keys |-> 0]
              /\ admitted = [k \in Keys |-> 0]
              /\ paced = [k \in Keys |-> TRUE]

Note(k) == paced' = [paced EXCEPT ![k] = IF Slow(k) THEN @ ELSE FALSE]
Pass(k) == admitted' = [admitted EXCEPT ![k] = @ + 1]

\* isRateLimited for a client that is new, or was dropped.
First(k) == /\ ~Known(k)
            /\ Put(k, Burst - Cost)
            /\ Pass(k) /\ Note(k)
            /\ UNCHANGED <<now, since>>

Admit(k) == /\ Known(k)
            /\ Refill(k) >= Cost
            /\ Put(k, Left(k))
            /\ Pass(k) /\ Note(k)
            /\ UNCHANGED <<now, since>>

\* 429: what came in is kept.
Refuse(k) == /\ Known(k)
             /\ Refill(k) < Cost
             /\ Put(k, Left(k))
             /\ Note(k)
             /\ UNCHANGED <<now, since, admitted>>

\* Mutated: clients are dropped whenever the cleanup comes round.
MutIdle(k) == Known(k)

Idle(k) == Known(k) /\ now - clients[k].lastSeen > Expiry

\* A round of cleanupClients, whenever its sleep ends.
Cleanup == /\ \E k \in Keys : Idle(k)
           /\ clients' = [k \in Keys |-> IF Idle(k) THEN NoClient ELSE clients[k]]
           /\ UNCHANGED <<now, since, admitted, paced>>

BucketTick == /\ now < MaxTime
              /\ now' = now + 1
              /\ UNCHANGED <<clients, since, admitted, paced>>

\* Counting starts anew, so that the counts are those of any stretch of time.
Count(k) == /\ since' = [since EXCEPT ![k] = now]
            /\ admitted' = [admitted EXCEPT ![k] = 0]
            /\ UNCHANGED <<clients, now, paced>>

BucketNext == \/ \E k \in Keys : First(k) \/ Admit(k) \/ Refuse(k) \/ Count(k)
        \/ Cleanup
        \/ BucketTick

BucketSpec == BucketInit /\ [][BucketNext]_bucketVars

-----------------------------------------------------------------------------
BucketTypeOK == /\ clients \in [Keys -> Bucket \cup {NoClient}]
                /\ \A k \in Keys : clients[k].lastSeen <= now
                /\ now \in 0 .. MaxTime
                /\ since \in [Keys -> 0 .. MaxTime]
                /\ \A k \in Keys : since[k] <= now
                /\ admitted \in [Keys -> Nat]
                /\ paced \in [Keys -> BOOLEAN]

\* In any stretch of time no client gets more than a burst and what the rate
\* gives in that time, though it stays away until it is dropped and comes back
\* with a full bucket.
WindowIsBounded ==
    \A k \in Keys : Cost * admitted[k] <= Burst + Rate * (now - since[k])

\* A client that never comes faster than the rate is never refused.
PacedIsAdmitted == [][\A k \in Keys : Refuse(k) => ~paced'[k]]_bucketVars
=============================================================================
