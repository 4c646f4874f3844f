--------------------------- MODULE Gateway_proofs ---------------------------
(***************************************************************************)
(* What TLAPS proves of the gateway's two guards: an API key's life, for   *)
(* every number of requests and every time-to-live, and the rate limiter,  *)
(* for every rate, burst and expiry that BucketAssumption allows.          *)
(***************************************************************************)
EXTENDS ApiKeys, TokenBucket, TLAPS

-----------------------------------------------------------------------------
(* API keys.                                                               *)

\* Some revocation has taken the key out of memoryAPIKeys.
Forgotten == answered \/ \E t \in Threads : pc[t] = "mark"

\* The row goes first, then the memory's entry, then the answer.
Order == /\ memory => row # "none"
         /\ \A t \in Threads : /\ pc[t] \in {"remember", "erase", "store"} => row # "none"
                               /\ pc[t] \in {"forget", "mark"} => row = "gone"
         /\ answered \/ raced => row = "gone"
         /\ Forgotten /\ ~raced => ~memory

\* Once the validations that overlapped the revocation are over, nothing passes,
\* and what the gateway still believes runs out with the quiet time.
Fading == /\ quiet > 0 => answered
          /\ quiet > 0 /\ ~raced => ~Passing
          /\ quiet > 0 /\ ~raced /\ cached > 0 => cached + quiet <= CacheTTL

Inv == TypeOK /\ MemoryOnlyByRace /\ Order /\ Fading

LEMMA InvInit == Init => Inv
  <1> SUFFICES ASSUME Init PROVE Inv
    OBVIOUS
  <1>1. TypeOK
    <2>1. 0 \in 0 .. MarkTTL /\ 0 \in 0 .. CacheTTL
      BY KeysAssumption
    <2>2. QED
      BY <2>1 DEF Init, TypeOK, Label
  <1>2. MemoryOnlyByRace /\ Order
    BY DEF Init, MemoryOnlyByRace, Order, Forgotten
  <1>3. Fading
    BY DEF Init, Fading
  <1>4. QED
    BY <1>1, <1>2, <1>3 DEF Inv

\* The key's arrival in memory, as two facts about Booleans.
LEMMA PutType == PutInMemory => memory' \in BOOLEAN /\ raced' \in BOOLEAN
  BY Zenon DEF PutInMemory

LEMMA PutEffect ==
    PutInMemory => memory' /\ (raced' <=> raced \/ row = "gone")
  BY Zenon DEF PutInMemory

LEMMA TypeStep == TypeOK /\ [Next]_vars => TypeOK'
  <1> SUFFICES ASSUME TypeOK, [Next]_vars PROVE TypeOK'
    OBVIOUS
  <1> USE KeysAssumption DEF TypeOK, Goto
  <1>0. {"idle", "remember", "erase", "forget", "mark", "redis", "memory", "query", "store",
         "accept"} \subseteq Label
    BY DEF Label
  <1>1. ASSUME NEW t \in Threads, Create(t) \/ Remember(t) PROVE TypeOK'
    BY <1>0, <1>1, PutType DEF Create, Remember
  <1>2. ASSUME NEW t \in Threads, Revoke(t) \/ Erase(t) PROVE TypeOK'
    BY <1>0, <1>2 DEF Revoke, Erase
  <1>12. ASSUME NEW t \in Threads, Forget(t) PROVE TypeOK'
    <2>1. pc' \in [Threads -> Label] /\ answered' \in BOOLEAN
      BY <1>0, <1>12 DEF Forget, Answer
    <2>2. memory' = FALSE /\ raced' = FALSE /\ quiet' = 0 /\ UNCHANGED <<row, mark, cached>>
      BY <1>12 DEF Forget
    <2>3. 0 \in 0 .. CacheTTL
      OBVIOUS
    <2>4. QED
      BY <2>1, <2>2, <2>3
  <1>13. ASSUME NEW t \in Threads, Mark(t) PROVE TypeOK'
    <2>1. mark' \in 0 .. MarkTTL
      BY <1>13 DEF Mark
    <2>2. QED
      BY <1>0, <1>13, <2>1 DEF Mark, Answer
  <1>3. ASSUME NEW t \in Threads, HitCache(t) \/ LookForMark(t) PROVE TypeOK'
    BY <1>0, <1>3 DEF HitCache, LookForMark, vars
  <1>9. ASSUME NEW t \in Threads, Ask(t) PROVE TypeOK'
    BY <1>0, <1>9 DEF Ask
  <1>10. ASSUME NEW t \in Threads, LookInMemory(t) PROVE TypeOK'
    BY <1>0, <1>10 DEF LookInMemory
  <1>4. ASSUME NEW t \in Threads, Query(t) \/ Store(t) PROVE TypeOK'
    BY <1>0, <1>4, PutType DEF Query, Store
  <1>11. ASSUME NEW t \in Threads, Accept(t) PROVE TypeOK'
    <2>1. CacheTTL \in 0 .. CacheTTL
      OBVIOUS
    <2>2. QED
      BY <1>0, <1>11, <2>1 DEF Accept
  <1>5. ASSUME RestartArcAuth \/ RestartGateway PROVE TypeOK'
    <2>1. pc' \in [Threads -> Label]
      BY <1>0, <1>5 DEF RestartArcAuth, RestartGateway
    <2>2. /\ memory' \in {FALSE, memory} /\ raced' \in {FALSE, raced} /\ quiet' \in {0, quiet}
          /\ cached' \in {0, cached} /\ UNCHANGED <<row, mark, answered>>
      BY <1>5 DEF RestartArcAuth, RestartGateway
    <2>3. 0 \in 0 .. CacheTTL
      OBVIOUS
    <2>4. QED
      BY <2>1, <2>2, <2>3
  <1>6. ASSUME Tick PROVE TypeOK'
    BY <1>6 DEF Tick, Sooner
  <1>7. CASE UNCHANGED vars
    BY <1>7 DEF vars
  <1>8. QED
    BY <1>1, <1>2, <1>3, <1>4, <1>5, <1>6, <1>7, <1>9, <1>10, <1>11, <1>12,
       <1>13 DEF Next, Handler

LEMMA OrderStep ==
    Inv /\ [Next]_vars => MemoryOnlyByRace' /\ Order'
  <1> SUFFICES ASSUME Inv, [Next]_vars PROVE MemoryOnlyByRace' /\ Order'
    OBVIOUS
  <1> USE DEF Inv, TypeOK, MemoryOnlyByRace, Order, Forgotten, At, Goto
  <1>1. ASSUME NEW t \in Threads, Create(t) \/ Remember(t) PROVE MemoryOnlyByRace' /\ Order'
    BY <1>1, PutEffect DEF Create, Remember
  <1>2. ASSUME NEW t \in Threads, Revoke(t) \/ Erase(t) \/ Mark(t)
        PROVE  MemoryOnlyByRace' /\ Order'
    BY <1>2 DEF Revoke, Erase, Mark, Answer
  <1>3. ASSUME NEW t \in Threads, Forget(t) PROVE MemoryOnlyByRace' /\ Order'
    BY <1>3 DEF Forget, Answer
  <1>4. ASSUME NEW t \in Threads, HitCache(t) \/ Ask(t) \/ LookForMark(t) \/ LookInMemory(t)
        PROVE  MemoryOnlyByRace' /\ Order'
    BY <1>4 DEF HitCache, Ask, LookForMark, LookInMemory, vars
  <1>5. ASSUME NEW t \in Threads, Query(t) \/ Store(t) \/ Accept(t)
        PROVE  MemoryOnlyByRace' /\ Order'
    BY <1>5, PutEffect DEF Query, Store, Accept
  <1>6. ASSUME RestartArcAuth \/ RestartGateway \/ Tick PROVE MemoryOnlyByRace' /\ Order'
    BY <1>6 DEF RestartArcAuth, RestartGateway, Tick
  <1>7. CASE UNCHANGED vars
    BY <1>7 DEF vars
  <1>8. QED
    BY <1>1, <1>2, <1>3, <1>4, <1>5, <1>6, <1>7 DEF Next, Handler

LEMMA FadingStep == Inv /\ [Next]_vars => Fading'
  <1> SUFFICES ASSUME Inv, [Next]_vars PROVE Fading'
    OBVIOUS
  <1>0. TypeOK'
    BY TypeStep DEF Inv
  <1> USE DEF Fading, Passing, At, Goto
  <1>a. TypeOK /\ Order /\ Fading
    BY DEF Inv
  <1>b. quiet > 0 /\ ~raced => row = "gone" /\ ~memory
    BY <1>a DEF Order, Forgotten
  <1> USE <1>a, <1>b DEF TypeOK
  <1>1. ASSUME NEW t \in Threads, Create(t) \/ Remember(t) PROVE Fading'
    BY <1>1, PutEffect DEF Create, Remember
  <1>2. ASSUME NEW t \in Threads, Revoke(t) \/ Erase(t) \/ Mark(t) PROVE Fading'
    BY <1>2 DEF Revoke, Erase, Mark, Answer
  <1>3. ASSUME NEW t \in Threads, Forget(t) PROVE Fading'
    BY <1>3 DEF Forget, Answer
  <1>4. ASSUME NEW t \in Threads, HitCache(t) \/ Ask(t) \/ LookForMark(t) PROVE Fading'
    BY <1>4 DEF HitCache, Ask, LookForMark, vars
  <1>5. ASSUME NEW t \in Threads, LookInMemory(t) PROVE Fading'
    BY <1>5 DEF LookInMemory
  <1>6. ASSUME NEW t \in Threads, Query(t) PROVE Fading'
    BY <1>6 DEF Query
  <1>7. ASSUME NEW t \in Threads, Store(t) PROVE Fading'
    BY <1>7, PutEffect DEF Store
  <1>8. ASSUME NEW t \in Threads, Accept(t) PROVE Fading'
    BY <1>8 DEF Accept
  <1>9. ASSUME RestartArcAuth \/ RestartGateway PROVE Fading'
    BY <1>9 DEF RestartArcAuth, RestartGateway
  <1>10. ASSUME Tick PROVE Fading'
    BY <1>10, KeysAssumption DEF Tick, Sooner
  <1>11. CASE UNCHANGED vars
    BY <1>11 DEF vars
  <1>12. QED
    BY <1>1, <1>2, <1>3, <1>4, <1>5, <1>6, <1>7, <1>8, <1>9, <1>10, <1>11 DEF Next, Handler

LEMMA InvAlways == Spec => []Inv
  <1>1. Inv /\ [Next]_vars => Inv'
    BY TypeStep, OrderStep, FadingStep DEF Inv
  <1>2. QED
    BY <1>1, InvInit, PTL DEF Spec

\* Every variable keeps its type.
THEOREM KeysTypeOK == Spec => []TypeOK
  BY InvAlways, PTL DEF Inv

\* ArcAuth's memory keeps a deleted key only while its deletion is under way or
\* after the race of a handler that stores what it had read before.
THEOREM KeysMemoryOnlyByRace == Spec => []MemoryOnlyByRace
  BY InvAlways, PTL DEF Inv

\* Without the race a revoked key is refused after the gateway's time-to-live.
THEOREM KeysRefusedAfterTTL == Spec => []RefusedAfterTTL
  <1>1. Inv => RefusedAfterTTL
    BY KeysAssumption DEF Inv, TypeOK, Fading, RefusedAfterTTL
  <1>2. QED
    BY <1>1, InvAlways, PTL

-----------------------------------------------------------------------------
(* The rate limiter.                                                       *)

\* What k could spend now: a client that was dropped starts with a full bucket.
Credit(k) == IF Known(k) THEN Refill(k) ELSE Burst

\* What was spent and what can be spent stay together within the bound; that is
\* inductive, WindowIsBounded alone says nothing of the tokens that are left.
Balance == \A k \in Keys :
              Cost * admitted[k] + Credit(k) <= Burst + Rate * (now - since[k])

-----------------------------------------------------------------------------
(* Products.                                                               *)

LEMMA Growing == ASSUME NEW a \in Nat, NEW b \in Nat, NEW c \in Nat, a <= b
                 PROVE  c * a <= c * b
  <1>1. PICK d \in Nat : b = a + d
    BY SMT
  <1>2. c * b = c * a + c * d
    BY <1>1, SMT
  <1>3. c * d \in Nat /\ c * a \in Nat
    BY SMT
  <1> QED
    BY <1>2, <1>3, SMT

LEMMA OneMore == ASSUME NEW a \in Nat, NEW c \in Nat
                 PROVE  c * (a + 1) = c * a + c
  BY SMT

LEMMA OneLater == ASSUME NEW a \in Int, NEW b \in Int, NEW c \in Nat
                  PROVE  c * ((a + 1) - b) = c * (a - b) + c
  <1>1. PICK d \in Int : d = a - b
    BY SMT
  <1>2. c * (d + 1) = c * d + c
    BY SMT
  <1>3. (a + 1) - b = d + 1
    BY <1>1, SMT
  <1> QED
    BY <1>1, <1>2, <1>3

LEMMA Capped == ASSUME NEW a \in Nat, NEW b \in Nat, NEW c \in Nat
                PROVE  /\ c <= b => AtMost(a + b, c) = c
                       /\ \A d \in Nat : d <= b /\ d <= c => d <= AtMost(a + b, c)
  BY SMT DEF AtMost

-----------------------------------------------------------------------------
(* The bucket.                                                             *)

LEMMA RefillRange ==
    ASSUME BucketTypeOK, NEW k \in Keys, Known(k)
    PROVE  /\ clients[k] \in Bucket
           /\ now - clients[k].lastSeen \in 0 .. MaxTime
           /\ Rate * (now - clients[k].lastSeen) \in Nat
           /\ Refill(k) \in 0 .. Burst
           /\ clients[k].tokens <= Refill(k)
  <1>1. clients[k] \in Bucket
    BY DEF BucketTypeOK, Known, NoClient
  <1>2. now - clients[k].lastSeen \in 0 .. MaxTime
    BY <1>1, BucketAssumption, SMT DEF BucketTypeOK, Bucket, BucketAssumption
  <1>3. Rate * (now - clients[k].lastSeen) \in Nat
    BY <1>2, BucketAssumption, SMT DEF BucketAssumption
  <1>4. clients[k].tokens \in 0 .. Burst
    BY <1>1 DEF Bucket
  <1> QED
    BY <1>1, <1>2, <1>3, <1>4, BucketAssumption, SMT DEF Refill, AtMost, BucketAssumption

\* A client that may be dropped has a full bucket by then.
LEMMA IdleIsFull == ASSUME BucketTypeOK, NEW k \in Keys, Idle(k)
                    PROVE  Refill(k) = Burst
  <1>1. Known(k)
    BY DEF Idle
  <1>2. clients[k].tokens \in 0 .. Burst /\ now - clients[k].lastSeen \in Nat
    <2>1. clients[k] \in Bucket /\ now - clients[k].lastSeen \in 0 .. MaxTime
      BY <1>1, RefillRange
    <2>2. clients[k].tokens \in 0 .. Burst
      BY <2>1 DEF Bucket
    <2> QED
      BY <2>1, <2>2, BucketAssumption, SMT DEF BucketAssumption
  <1>3. Expiry <= now - clients[k].lastSeen
    BY <1>1, <1>2, RefillRange, BucketAssumption, SMT DEF Idle, Bucket, BucketTypeOK, BucketAssumption
  <1>4. Rate * Expiry <= Rate * (now - clients[k].lastSeen)
    BY <1>2, <1>3, Growing, BucketAssumption DEF BucketAssumption
  <1>5. Rate * Expiry \in Nat /\ Rate * (now - clients[k].lastSeen) \in Nat
    BY <1>2, BucketAssumption, SMT DEF BucketAssumption
  <1>6. Burst <= Rate * (now - clients[k].lastSeen) /\ clients[k].tokens \in Nat /\ Burst \in Nat
    BY <1>2, <1>4, <1>5, BucketAssumption, SMT DEF BucketAssumption
  <1> QED
    BY <1>5, <1>6, Capped DEF Refill

\* A request that comes no faster than the rate finds a token.
LEMMA SlowIsServed == ASSUME BucketTypeOK, NEW k \in Keys, Known(k), Slow(k)
                      PROVE  Cost <= Refill(k)
  <1>1. clients[k] \in Bucket /\ Rate * (now - clients[k].lastSeen) \in Nat
    BY RefillRange
  <1>2. clients[k].tokens \in Nat /\ Burst \in Nat /\ Cost \in Nat /\ Cost <= Burst
    <2>1. clients[k].tokens \in 0 .. Burst
      BY <1>1 DEF Bucket
    <2> QED
      BY <2>1, BucketAssumption, SMT DEF BucketAssumption
  <1>3. Cost <= Rate * (now - clients[k].lastSeen)
    BY DEF Slow
  <1> QED
    BY <1>1, <1>2, <1>3, Capped DEF Refill

-----------------------------------------------------------------------------
(* The types.                                                              *)

LEMMA InitType == BucketInit => BucketTypeOK
  BY BucketAssumption, SMT DEF BucketInit, BucketTypeOK, BucketAssumption, NoClient, Bucket

LEMMA StepType == BucketTypeOK /\ [BucketNext]_bucketVars => BucketTypeOK'
  <1> SUFFICES ASSUME BucketTypeOK, [BucketNext]_bucketVars PROVE BucketTypeOK'
    OBVIOUS
  <1>1. ASSUME NEW k \in Keys, NEW n \in 0 .. Burst, Put(k, n), UNCHANGED now
        PROVE  /\ clients' \in [Keys -> Bucket \cup {NoClient}]
               /\ \A j \in Keys : clients'[j].lastSeen <= now'
    <2>1. now \in 0 .. MaxTime /\ now <= now
      BY BucketAssumption, SMT DEF BucketTypeOK, BucketAssumption
    <2>2. [there |-> TRUE, tokens |-> n, lastSeen |-> now] \in Bucket
      BY <2>1 DEF Bucket
    <2> QED
      BY <1>1, <2>1, <2>2 DEF Put, BucketTypeOK
  <1>2. ASSUME NEW k \in Keys, Note(k) PROVE paced' \in [Keys -> BOOLEAN]
    BY <1>2 DEF Note, BucketTypeOK
  <1>3. ASSUME NEW k \in Keys, Pass(k) PROVE admitted' \in [Keys -> Nat]
    BY <1>3 DEF Pass, BucketTypeOK
  <1>4. ASSUME NEW k \in Keys, Known(k) PROVE Left(k) \in 0 .. Burst
    BY <1>4, RefillRange, BucketAssumption, SMT DEF Left, BucketAssumption
  <1>5. CASE \E k \in Keys : First(k)
    <2>1. PICK k \in Keys : First(k)
      BY <1>5
    <2>2. Burst - Cost \in 0 .. Burst
      BY BucketAssumption, SMT DEF BucketAssumption
    <2> QED
      BY <1>1, <1>2, <1>3, <2>1, <2>2 DEF First, BucketTypeOK
  <1>6. CASE \E k \in Keys : Admit(k)
    BY <1>1, <1>2, <1>3, <1>4, <1>6 DEF Admit, BucketTypeOK
  <1>7. CASE \E k \in Keys : Refuse(k)
    BY <1>1, <1>2, <1>4, <1>7 DEF Refuse, BucketTypeOK
  <1>8. CASE \E k \in Keys : Count(k)
    <2>1. PICK k \in Keys : Count(k)
      BY <1>8
    <2>2. since' \in [Keys -> 0 .. MaxTime] /\ admitted' \in [Keys -> Nat]
      BY <2>1 DEF Count, BucketTypeOK
    <2>3. \A j \in Keys : since'[j] <= now'
      BY <2>1, BucketAssumption, SMT DEF Count, BucketTypeOK, BucketAssumption
    <2> QED
      BY <2>1, <2>2, <2>3 DEF Count, BucketTypeOK
  <1>9. CASE Cleanup
    <2>1. now \in 0 .. MaxTime /\ 0 <= now
      BY BucketAssumption, SMT DEF BucketTypeOK, BucketAssumption
    <2>2. \A j \in Keys : clients'[j].lastSeen <= now'
      BY <1>9, <2>1 DEF Cleanup, BucketTypeOK, NoClient
    <2> QED
      BY <1>9, <2>2 DEF Cleanup, BucketTypeOK
  <1>10. CASE BucketTick
    <2>1. now' \in 0 .. MaxTime /\ now' = now + 1
      BY <1>10, BucketAssumption, SMT DEF BucketTick, BucketTypeOK, BucketAssumption
    <2>2. \A j \in Keys : clients[j].lastSeen \in Int
      <3>1. ASSUME NEW j \in Keys, clients[j] \in Bucket PROVE clients[j].lastSeen \in Int
        <4>1. clients[j].lastSeen \in 0 .. MaxTime
          BY <3>1 DEF Bucket
        <4> QED
          BY <4>1, BucketAssumption, SMT DEF BucketAssumption
      <3>2. ASSUME NEW j \in Keys, clients[j] = NoClient PROVE clients[j].lastSeen \in Int
        BY <3>2 DEF NoClient
      <3> QED
        BY <3>1, <3>2 DEF BucketTypeOK
    <2>3. \A j \in Keys : clients'[j].lastSeen <= now' /\ since'[j] <= now'
      BY <1>10, <2>1, <2>2, BucketAssumption, SMT DEF BucketTick, BucketTypeOK, BucketAssumption
    <2> QED
      BY <1>10, <2>1, <2>3 DEF BucketTick, BucketTypeOK
  <1>11. CASE UNCHANGED bucketVars
    BY <1>11 DEF bucketVars, BucketTypeOK
  <1> QED
    BY <1>5, <1>6, <1>7, <1>8, <1>9, <1>10, <1>11 DEF BucketNext

\* Every bucket keeps between no token and a full burst.
THEOREM BucketTypes == BucketSpec => []BucketTypeOK
  BY InitType, StepType, PTL DEF BucketSpec

-----------------------------------------------------------------------------
(* The bound.                                                              *)

LEMMA InitBalance == BucketInit => Balance
  <1> SUFFICES ASSUME BucketInit, NEW k \in Keys
               PROVE  Cost * admitted[k] + Credit(k) <= Burst + Rate * (now - since[k])
    BY DEF Balance
  <1>1. Credit(k) = Burst /\ admitted[k] = 0 /\ now - since[k] = 0
    BY SMT DEF BucketInit, Credit, Known, NoClient
  <1>2. Cost * 0 = 0 /\ Rate * 0 = 0 /\ Burst <= Burst
    BY BucketAssumption, SMT DEF BucketAssumption
  <1> QED
    BY <1>1, <1>2, BucketAssumption, SMT DEF BucketAssumption

LEMMA StepBalance == BucketTypeOK /\ BucketTypeOK' /\ Balance /\ [BucketNext]_bucketVars => Balance'
  <1> SUFFICES ASSUME BucketTypeOK, BucketTypeOK', Balance, [BucketNext]_bucketVars,
                      NEW k \in Keys
               PROVE  Cost * admitted'[k] + Credit(k)' <= Burst + Rate * (now' - since'[k])
    BY DEF Balance
  <1>1. /\ Cost * admitted[k] + Credit(k) <= Burst + Rate * (now - since[k])
        /\ Cost * admitted[k] \in Nat /\ admitted[k] \in Nat
        /\ Cost * (admitted[k] + 1) = Cost * admitted[k] + Cost
        /\ now \in Int /\ since[k] \in Int
    BY OneMore, BucketAssumption, SMT DEF Balance, BucketTypeOK, BucketAssumption
  <1>2. Burst \in Nat /\ Cost \in Nat /\ Rate \in Nat /\ Rate * (now - since[k]) \in Int
    BY <1>1, BucketAssumption, SMT DEF BucketAssumption
  <1>3. Credit(k) \in 0 .. Burst
    BY RefillRange, <1>2, SMT DEF Credit
  <1>4. ASSUME NEW n \in 0 .. Burst, Put(k, n), UNCHANGED now PROVE Credit(k)' = n
    <2>1. clients'[k] = [there |-> TRUE, tokens |-> n, lastSeen |-> now]
      BY <1>4 DEF Put, BucketTypeOK
    <2>2. Rate * (now' - clients'[k].lastSeen) = 0
      BY <2>1, <1>4, <1>1, <1>2, SMT
    <2> QED
      BY <2>1, <2>2, <1>2, SMT DEF Credit, Known, Refill, AtMost
  <1>5. ASSUME NEW j \in Keys, NEW n, j # k, Put(j, n), UNCHANGED now
        PROVE  Credit(k)' = Credit(k)
    <2>1. clients'[k] = clients[k]
      BY <1>5 DEF Put, BucketTypeOK
    <2> QED
      BY <2>1, <1>5 DEF Credit, Known, Refill
  <1>6. CASE \E j \in Keys : First(j)
    <2>1. PICK j \in Keys : First(j)
      BY <1>6
    <2>2. CASE j = k
      <3>1. Burst - Cost \in 0 .. Burst
        BY BucketAssumption, SMT DEF BucketAssumption
      <3>2. Credit(k)' = Burst - Cost /\ Credit(k) = Burst
        BY <1>4, <2>1, <2>2, <3>1 DEF First, Credit
      <3>3. admitted'[k] = admitted[k] + 1 /\ since' = since /\ now' = now
        BY <2>1, <2>2 DEF First, Pass, BucketTypeOK
      <3> QED
        BY <1>1, <1>2, <3>2, <3>3, SMT
    <2>3. CASE j # k
      <3>1. Credit(k)' = Credit(k)
        BY <1>5, <2>1, <2>3 DEF First
      <3>2. admitted'[k] = admitted[k] /\ since' = since /\ now' = now
        BY <2>1, <2>3 DEF First, Pass, BucketTypeOK
      <3> QED
        BY <1>1, <3>1, <3>2
    <2> QED
      BY <2>2, <2>3
  <1>7. CASE \E j \in Keys : Admit(j)
    <2>1. PICK j \in Keys : Admit(j)
      BY <1>7
    <2>2. CASE j = k
      <3>1. Left(k) \in 0 .. Burst /\ Left(k) = Credit(k) - Cost
        BY <1>2, <1>3, <2>1, <2>2, SMT DEF Admit, Left, Credit
      <3>2. Credit(k)' = Left(k)
        BY <1>4, <2>1, <2>2, <3>1 DEF Admit
      <3>3. admitted'[k] = admitted[k] + 1 /\ since' = since /\ now' = now
        BY <2>1, <2>2 DEF Admit, Pass, BucketTypeOK
      <3> QED
        BY <1>1, <1>2, <1>3, <3>1, <3>2, <3>3, SMT
    <2>3. CASE j # k
      <3>1. Credit(k)' = Credit(k)
        BY <1>5, <2>1, <2>3 DEF Admit
      <3>2. admitted'[k] = admitted[k] /\ since' = since /\ now' = now
        BY <2>1, <2>3 DEF Admit, Pass, BucketTypeOK
      <3> QED
        BY <1>1, <3>1, <3>2
    <2> QED
      BY <2>2, <2>3
  <1>8. CASE \E j \in Keys : Refuse(j)
    <2>1. PICK j \in Keys : Refuse(j)
      BY <1>8
    <2>2. CASE j = k
      <3>1. Left(k) = Credit(k)
        BY <1>2, <1>3, <2>1, <2>2, SMT DEF Refuse, Left, Credit
      <3>2. Credit(k)' = Left(k)
        BY <1>3, <1>4, <2>1, <2>2, <3>1 DEF Refuse
      <3> QED
        BY <1>1, <2>1, <3>1, <3>2 DEF Refuse
    <2>3. CASE j # k
      <3>1. Credit(k)' = Credit(k)
        BY <1>5, <2>1, <2>3 DEF Refuse
      <3> QED
        BY <1>1, <2>1, <3>1 DEF Refuse
    <2> QED
      BY <2>2, <2>3
  <1>9. CASE \E j \in Keys : Count(j)
    <2>1. PICK j \in Keys : Count(j)
      BY <1>9
    <2>2. Credit(k)' = Credit(k) /\ now' = now
      BY <2>1 DEF Count, Credit, Known, Refill
    <2>3. CASE j = k
      <3>1. admitted'[k] = 0 /\ since'[k] = now
        BY <2>1, <2>3 DEF Count, BucketTypeOK
      <3> QED
        BY <1>1, <1>2, <1>3, <2>2, <3>1, SMT
    <2>4. CASE j # k
      <3>1. admitted'[k] = admitted[k] /\ since'[k] = since[k]
        BY <2>1, <2>4 DEF Count, BucketTypeOK
      <3> QED
        BY <1>1, <2>2, <3>1
    <2> QED
      BY <2>3, <2>4
  <1>10. CASE Cleanup
    <2>1. Credit(k)' = Credit(k)
      <3>1. CASE Idle(k)
        <4>1. clients'[k] = NoClient
          BY <1>10, <3>1 DEF Cleanup
        <4> QED
          BY <3>1, <4>1, IdleIsFull DEF Credit, Known, NoClient, Idle
      <3>2. CASE ~Idle(k)
        <4>1. clients'[k] = clients[k] /\ now' = now
          BY <1>10, <3>2 DEF Cleanup
        <4> QED
          BY <4>1 DEF Credit, Known, Refill
      <3> QED
        BY <3>1, <3>2
    <2> QED
      BY <1>1, <1>10, <2>1 DEF Cleanup
  <1>11. CASE BucketTick
    <2>1. now' = now + 1 /\ clients' = clients /\ admitted' = admitted /\ since' = since
      BY <1>11 DEF BucketTick
    <2>2. Rate * (now' - since'[k]) = Rate * (now - since[k]) + Rate
      BY <2>1, <1>1, <1>2, OneLater
    <2>3. Credit(k)' \in Int /\ Credit(k)' <= Credit(k) + Rate
      <3>1. CASE Known(k)
        <4>1. Rate * (now' - clients[k].lastSeen) = Rate * (now - clients[k].lastSeen) + Rate
          <5>1. clients[k].lastSeen \in 0 .. MaxTime
            BY <3>1, RefillRange DEF Bucket
          <5>2. clients[k].lastSeen \in Int
            BY <5>1, BucketAssumption, SMT DEF BucketAssumption
          <5> QED
            BY <2>1, <1>1, <1>2, <5>2, OneLater
        <4>2. Rate * (now - clients[k].lastSeen) \in Nat /\ clients[k].tokens \in 0 .. Burst
          BY <3>1, RefillRange DEF Bucket
        <4> QED
          BY <1>2, <2>1, <3>1, <4>1, <4>2, SMT DEF Credit, Known, Refill, AtMost
      <3>2. CASE ~Known(k)
        BY <1>2, <2>1, <3>2, SMT DEF Credit, Known
      <3> QED
        BY <3>1, <3>2
    <2> QED
      BY <1>1, <1>2, <1>3, <2>1, <2>2, <2>3, SMT
  <1>12. CASE UNCHANGED bucketVars
    BY <1>1, <1>12 DEF bucketVars, Credit, Known, Refill
  <1> QED
    BY <1>6, <1>7, <1>8, <1>9, <1>10, <1>11, <1>12 DEF BucketNext

LEMMA BalanceBounds == BucketTypeOK /\ Balance => WindowIsBounded
  <1> SUFFICES ASSUME BucketTypeOK, Balance, NEW k \in Keys
               PROVE  Cost * admitted[k] <= Burst + Rate * (now - since[k])
    BY DEF WindowIsBounded
  <1>1. Credit(k) \in 0 .. Burst
    BY RefillRange, BucketAssumption, SMT DEF Credit, BucketAssumption
  <1>2. /\ Cost * admitted[k] + Credit(k) <= Burst + Rate * (now - since[k])
        /\ Cost * admitted[k] \in Int /\ Rate * (now - since[k]) \in Int /\ Burst \in Int
    BY BucketAssumption, SMT DEF Balance, BucketTypeOK, BucketAssumption
  <1> QED
    BY <1>1, <1>2, SMT

\* In any stretch of time no client gets more than a burst and what the rate
\* gives in that time, cleanupClients' dropping of its bucket included.
THEOREM BucketWindowIsBounded == BucketSpec => []WindowIsBounded
  <1>1. BucketSpec => [](BucketTypeOK /\ Balance)
    BY InitType, StepType, InitBalance, StepBalance, PTL DEF BucketSpec
  <1> QED
    BY <1>1, BalanceBounds, PTL

\* A client that never comes faster than the rate is never refused.
THEOREM BucketPacedIsAdmitted == BucketSpec => PacedIsAdmitted
  <1>1. ASSUME BucketTypeOK, NEW k \in Keys, Refuse(k) PROVE ~paced'[k]
    <2>1. Known(k) /\ Refill(k) < Cost /\ Note(k)
      BY <1>1 DEF Refuse
    <2>2. ~Slow(k)
      BY <1>1, <2>1, SlowIsServed, RefillRange, BucketAssumption, SMT DEF BucketAssumption
    <2> QED
      BY <1>1, <2>1, <2>2 DEF Note, BucketTypeOK
  <1>2. BucketTypeOK /\ [BucketNext]_bucketVars => [\A k \in Keys : Refuse(k) => ~paced'[k]]_bucketVars
    BY <1>1
  <1> QED
    BY <1>2, BucketTypes, PTL DEF BucketSpec, PacedIsAdmitted
=============================================================================
