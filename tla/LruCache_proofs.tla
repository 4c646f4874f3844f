-------------------------- MODULE LruCache_proofs --------------------------
(***************************************************************************)
(* The promises of LruCache for every set of sites, every capacity and     *)
(* every time-to-live.                                                     *)
(***************************************************************************)
EXTENDS LruCache, FiniteSetTheorems, TLAPS

\* Membership in the two operators the recency order is built with.
LEMMA UnlinkMember ==
    ASSUME NEW order, NEW D, NEW a, NEW b
    PROVE  <<a, b>> \in Unlink(order, D) <=> <<a, b>> \in order /\ a \notin D /\ b \notin D
  BY DEF Unlink

LEMMA ToFrontMember ==
    ASSUME NEW order, NEW S, NEW k, NEW a, NEW b
    PROVE  <<a, b>> \in ToFront(order, S, k) <=>
              \/ <<a, b>> \in order /\ a # k /\ b # k
              \/ a = k /\ b \in S /\ b # k
  BY UnlinkMember, Zenon DEF ToFront

\* A set of pairs over S stays one when keys are unlinked or moved to the front.
LEMMA UnlinkPairs ==
    ASSUME NEW S, NEW order \in SUBSET (S \X S), NEW D
    PROVE  Unlink(order, D) \in SUBSET ((S \ D) \X (S \ D))
  BY DEF Unlink

LEMMA ToFrontPairs ==
    ASSUME NEW S, NEW order \in SUBSET (S \X S), NEW k
    PROVE  ToFront(order, S, k) \in SUBSET ((S \cup {k}) \X (S \cup {k}))
  BY DEF ToFront, Unlink

\* Taking keys off a totally ordered list, and putting one in front of it, give
\* total orders again.
LEMMA UnlinkOrder ==
    ASSUME NEW S, NEW order, IsTotalOrder(order, S), NEW D
    PROVE  IsTotalOrder(Unlink(order, D), S \ D)
  BY UnlinkMember, UnlinkPairs DEF IsTotalOrder

LEMMA ToFrontOrder ==
    ASSUME NEW S, NEW order, IsTotalOrder(order, S), NEW k
    PROVE  IsTotalOrder(ToFront(order, S, k), S \cup {k})
  <1> DEFINE front == ToFront(order, S, k)
             T == S \cup {k}
  <1>1. front \in SUBSET (T \X T)
    BY ToFrontPairs DEF IsTotalOrder
  <1>2. \A a, b : <<a, b>> \in front <=>
                    \/ <<a, b>> \in order /\ a # k /\ b # k
                    \/ a = k /\ b \in S /\ b # k
    BY ToFrontMember
  <1> HIDE DEF front
  <1>3. \A a \in T : <<a, a>> \notin front
    BY <1>2 DEF IsTotalOrder
  <1>4. \A a, b \in T : a # b => (<<a, b>> \in front <=> <<b, a>> \notin front)
    BY <1>2 DEF IsTotalOrder
  <1>5. \A a, b, c \in T : <<a, b>> \in front /\ <<b, c>> \in front => <<a, c>> \in front
    BY <1>2 DEF IsTotalOrder
  <1>6. QED
    BY <1>1, <1>3, <1>4, <1>5 DEF IsTotalOrder, front

-----------------------------------------------------------------------------
\* What the steps preserve together: the order must be total for the victim of
\* an eviction to be one key, and its pairs must be cached keys for ages to follow.
LruInv == LruTypeOK /\ TotalOrder /\ OrderedByAge /\ WithinCapacity

LEMMA LruInitInv == LruInit => LruInv
  <1> SUFFICES ASSUME LruInit PROVE LruInv
    OBVIOUS
  <1>1. Cached = {}
    BY DEF LruInit, Cached
  <1>2. WithinCapacity
    BY <1>1, FS_EmptySet, LruAssumption DEF WithinCapacity
  <1>3. LruTypeOK /\ TotalOrder /\ OrderedByAge
    BY <1>1, LruAssumption DEF LruInit, LruTypeOK, TotalOrder, IsTotalOrder, OrderedByAge
  <1>4. QED
    BY <1>2, <1>3 DEF LruInv

\* Keys that leave take nothing but themselves along.
LEMMA DropInv ==
    ASSUME LruInv, NEW D, Drop(D)
    PROVE  LruInv' /\ Cached' = Cached \ D
  <1>1. LruTypeOK'
    BY LruAssumption DEF LruInv, LruTypeOK, Drop, Unlink
  <1>2. Cached' = Cached \ D
    BY DEF Cached, Drop
  <1>3. TotalOrder'
    BY <1>2, UnlinkOrder DEF LruInv, TotalOrder, Drop
  <1>4. OrderedByAge'
    BY UnlinkMember DEF LruInv, OrderedByAge, Drop
  <1>5. WithinCapacity'
    <2>1. /\ IsFiniteSet(Cached \ D)
          /\ Cardinality(Cached \ D) <= Cardinality(Cached)
      BY FS_Subset DEF LruInv, WithinCapacity
    <2>2. Cardinality(Cached \ D) \in Nat /\ Cardinality(Cached) \in Nat
      BY <2>1, FS_CardinalityType DEF LruInv, WithinCapacity
    <2>3. QED
      BY <1>2, <2>1, <2>2, LruAssumption DEF LruInv, WithinCapacity
  <1>6. QED
    BY <1>1, <1>2, <1>3, <1>4, <1>5 DEF LruInv

\* A touched key is youngest and first.
LEMMA TouchAges ==
    ASSUME LruInv, NEW k \in Keys,
           newer' = ToFront(newer, Cached, k),
           idle' = [idle EXCEPT ![k] = 0]
    PROVE  OrderedByAge'
  BY ToFrontMember DEF LruInv, LruTypeOK, OrderedByAge

LEMMA HitInv ==
    ASSUME LruInv, NEW k \in Keys, Hit(k)
    PROVE  LruInv' /\ Cached' = Cached
  <1>1. Cached' = Cached
    BY DEF Cached, Hit
  <1>2. Cached \cup {k} = Cached
    BY DEF Hit
  <1>3. TotalOrder'
    BY <1>1, <1>2, ToFrontOrder DEF LruInv, TotalOrder, Hit
  <1>4. LruTypeOK'
    BY <1>1, <1>3, LruAssumption
       DEF LruInv, LruTypeOK, TotalOrder, IsTotalOrder, Hit, Cached
  <1>5. OrderedByAge'
    BY TouchAges DEF Hit
  <1>6. WithinCapacity'
    BY <1>1 DEF LruInv, WithinCapacity
  <1>7. QED
    BY <1>1, <1>3, <1>4, <1>5, <1>6 DEF LruInv

LEMMA ReplaceInv ==
    ASSUME LruInv, NEW k \in Keys, NEW v \in Values, Replace(k, v)
    PROVE  LruInv' /\ Cached' = Cached
  <1>1. Cached' = Cached
    BY LruAssumption DEF Cached, Replace, LruInv, LruTypeOK
  <1>2. Cached \cup {k} = Cached
    BY DEF Replace
  <1>3. TotalOrder'
    BY <1>1, <1>2, ToFrontOrder DEF LruInv, TotalOrder, Replace
  <1>4. LruTypeOK'
    BY <1>1, <1>3, LruAssumption
       DEF LruInv, LruTypeOK, TotalOrder, IsTotalOrder, Replace, Cached
  <1>5. OrderedByAge'
    BY TouchAges DEF Replace
  <1>6. WithinCapacity'
    BY <1>1 DEF LruInv, WithinCapacity
  <1>7. QED
    BY <1>1, <1>3, <1>4, <1>5, <1>6 DEF LruInv

\* The new key goes in front; if that is one too many, the tail leaves.
LEMMA InsertInv ==
    ASSUME LruInv, NEW k \in Keys, NEW v \in Values, Insert(k, v)
    PROVE  LruInv'
  <1> DEFINE after == Cached \cup {k}
             order == ToFront(newer, Cached, k)
             aged == [idle EXCEPT ![k] = 0]
             filled == [entry EXCEPT ![k] = v]
  <1>1. /\ k \notin Cached
        /\ Cached \subseteq Keys
        /\ after \subseteq Keys
    BY DEF Insert, Cached
  <1>2. IsTotalOrder(order, after)
    BY ToFrontOrder DEF LruInv, TotalOrder
  <1>3. /\ filled \in [Keys -> Values \cup {None}]
        /\ aged \in [Keys -> 0 .. TTL + 1]
        /\ order \in SUBSET (Keys \X Keys)
    <2>1. order \in SUBSET (Keys \X Keys)
      BY <1>1, <1>2 DEF IsTotalOrder
    <2>2. QED
      BY <2>1, LruAssumption DEF LruInv, LruTypeOK
  <1>4. \A a, b \in Keys : <<a, b>> \in order => aged[a] <= aged[b]
    <2>1. SUFFICES ASSUME NEW a \in Keys, NEW b \in Keys, <<a, b>> \in order
                   PROVE  aged[a] <= aged[b]
      OBVIOUS
    <2>2. CASE a = k
      BY <2>1, <2>2, ToFrontMember DEF LruInv, LruTypeOK
    <2>3. CASE a # k
      BY <2>1, <2>3, ToFrontMember DEF LruInv, LruTypeOK, OrderedByAge
    <2>4. QED
      BY <2>2, <2>3
  <1>5. \A x \in Keys : filled[x] # None <=> x \in after
    BY <1>1, LruAssumption DEF LruInv, LruTypeOK, Cached
  <1>6. /\ IsFiniteSet(Cached)
        /\ Cardinality(Cached) \in Nat
        /\ Cardinality(Cached) <= Capacity
        /\ IsFiniteSet(after)
        /\ Cardinality(after) = Cardinality(Cached) + 1
    BY <1>1, FS_AddElement, FS_CardinalityType DEF LruInv, WithinCapacity
  <1>7. CASE Cardinality(after) <= Capacity
    <2>1. entry' = filled /\ newer' = order /\ idle' = aged
      BY <1>6, <1>7, LruAssumption DEF Insert
    <2> HIDE DEF order, aged, filled
    <2>2. Cached' = after
      BY <1>1, <1>5, <2>1 DEF Cached
    <2> HIDE DEF after
    <2>3. QED
      BY <1>2, <1>3, <1>4, <1>6, <1>7, <2>1, <2>2
         DEF LruInv, LruTypeOK, TotalOrder, OrderedByAge, WithinCapacity
  <1>8. CASE Cardinality(after) > Capacity
    <2>1. PICK victim \in after :
             /\ entry' = [filled EXCEPT ![victim] = None]
             /\ newer' = Unlink(order, {victim})
             /\ idle' = [aged EXCEPT ![victim] = 0]
      <3>1. ~(Cardinality(after) <= Capacity)
        BY <1>6, <1>8, LruAssumption
      <3>2. \E victim \in after :
               /\ AtTail(order, after, victim)
               /\ entry' = [filled EXCEPT ![victim] = None]
               /\ newer' = Unlink(order, {victim})
               /\ idle' = [aged EXCEPT ![victim] = 0]
        BY <3>1, Zenon DEF Insert
      <3>3. QED
        BY <3>2
    <2> HIDE DEF order, aged, filled
    <2>2. Cached' = after \ {victim}
      BY <1>1, <1>3, <1>5, <2>1 DEF Cached
    <2>3. WithinCapacity'
      <3>1. /\ IsFiniteSet(after \ {victim})
            /\ Cardinality(after \ {victim}) = Cardinality(after) - 1
        BY <1>6, <2>1, FS_RemoveElement
      <3>2. QED
        BY <1>6, <2>2, <3>1, LruAssumption DEF WithinCapacity
    <2>4. TotalOrder'
      BY <1>2, <2>1, <2>2, UnlinkOrder DEF TotalOrder
    <2>5. LruTypeOK'
      <3>1. newer' \in SUBSET (Keys \X Keys)
        BY <1>3, <2>1 DEF Unlink
      <3>2. entry' \in [Keys -> Values \cup {None}]
        BY <1>3, <2>1
      <3>3. idle' \in [Keys -> 0 .. TTL + 1]
        <4> DEFINE Ages == 0 .. TTL + 1
        <4>1. 0 \in Ages
          BY LruAssumption
        <4>2. aged \in [Keys -> Ages]
          BY <1>3
        <4> HIDE DEF Ages
        <4>3. idle' \in [Keys -> Ages]
          BY <2>1, <4>1, <4>2
        <4>4. QED
          BY <4>3 DEF Ages
      <3>4. QED
        BY <3>1, <3>2, <3>3 DEF LruTypeOK
    <2>6. OrderedByAge'
      <3>1. SUFFICES ASSUME NEW a \in Keys, NEW b \in Keys, <<a, b>> \in newer'
                     PROVE  idle'[a] <= idle'[b]
        BY DEF OrderedByAge
      <3>2. <<a, b>> \in order /\ a # victim /\ b # victim
        BY <2>1, <3>1, UnlinkMember
      <3>3. QED
        BY <1>3, <1>4, <2>1, <3>2
    <2>7. QED
      BY <2>3, <2>4, <2>5, <2>6 DEF LruInv
  <1>9. QED
    BY <1>6, <1>7, <1>8, LruAssumption

LEMMA TickInv ==
    ASSUME LruInv, Tick
    PROVE  LruInv' /\ Cached' = Cached
  <1>1. Cached' = Cached
    BY DEF Cached, Tick
  <1>2. \A k \in Keys : idle[k] \in 0 .. TTL + 1
    BY DEF LruInv, LruTypeOK
  <1>3. LruTypeOK'
    BY <1>2, LruAssumption DEF LruInv, LruTypeOK, Tick
  <1>4. OrderedByAge'
    <2>1. SUFFICES ASSUME NEW a \in Keys, NEW b \in Keys, <<a, b>> \in newer
                   PROVE  idle'[a] <= idle'[b]
      BY DEF OrderedByAge, Tick
    <2>2. a \in Cached /\ b \in Cached /\ idle[a] <= idle[b]
      BY <2>1 DEF LruInv, OrderedByAge, TotalOrder, IsTotalOrder
    <2>3. QED
      BY <1>2, <2>2, LruAssumption DEF Tick
  <1>5. TotalOrder' /\ WithinCapacity'
    BY <1>1 DEF LruInv, TotalOrder, WithinCapacity, Tick
  <1>6. QED
    BY <1>1, <1>3, <1>4, <1>5 DEF LruInv

\* The cache's invariant survives every call.
LEMMA LruStepInv == LruInv /\ [LruNext]_lruVars => LruInv'
  <1> SUFFICES ASSUME LruInv, [LruNext]_lruVars PROVE LruInv'
    OBVIOUS
  <1>1. ASSUME NEW k \in Keys, Get(k) PROVE LruInv'
    <2>1. CASE Hit(k)
      BY <2>1, HitInv
    <2>2. CASE Miss(k)
      BY <2>2 DEF Miss, lruVars, LruInv, LruTypeOK, TotalOrder, OrderedByAge,
                  WithinCapacity, Cached
    <2>3. QED
      BY <1>1, <2>1, <2>2 DEF Get
  <1>2. ASSUME NEW k \in Keys, Delete(k) PROVE LruInv'
    BY <1>2, DropInv DEF Delete
  <1>3. ASSUME NEW k \in Keys, NEW v \in Values, Put(k, v) PROVE LruInv'
    BY <1>3, ReplaceInv, InsertInv DEF Put
  <1>4. CASE EvictExpired
    BY <1>4, DropInv DEF EvictExpired
  <1>5. CASE Tick
    BY <1>5, TickInv
  <1>6. CASE UNCHANGED lruVars
    BY <1>6 DEF lruVars, LruInv, LruTypeOK, TotalOrder, OrderedByAge, WithinCapacity, Cached
  <1>7. QED
    BY <1>1, <1>2, <1>3, <1>4, <1>5, <1>6 DEF LruNext

\* At every moment the list is a total order of exactly the cached sites, agrees
\* with their ages, and holds at most MAX_CACHED_SITES of them.
THEOREM LruSafe == LruSpec => [](LruTypeOK /\ TotalOrder /\ OrderedByAge /\ WithinCapacity)
  <1>1. LruSpec => []LruInv
    BY LruInitInv, LruStepInv, PTL DEF LruSpec
  <1>2. QED
    BY <1>1, PTL DEF LruInv

\* A site never leaves before one used less recently, unless it is deleted by name.
THEOREM LruLeavesInOrder == LruSpec => LeavesInOrder
  <1> DEFINE Ordered(a, b) ==
                /\ <<a, b>> \in newer
                /\ entry'[a] = None
                /\ entry'[b] # None
                => Delete(a)
             Step == \A a, b \in Cached : Ordered(a, b)
  <1>1. LruInv /\ [LruNext]_lruVars => [Step]_lruVars
    <2> SUFFICES ASSUME LruInv, LruNext,
                        NEW a \in Cached, NEW b \in Cached,
                        <<a, b>> \in newer, entry'[a] = None, entry'[b] # None
                 PROVE  Delete(a)
      OBVIOUS
    <2>1. /\ a \in Keys /\ b \in Keys
          /\ entry[a] # None /\ entry[b] # None
          /\ a # b /\ <<b, a>> \notin newer
          /\ idle[a] <= idle[b]
      BY DEF Cached, LruInv, TotalOrder, IsTotalOrder, OrderedByAge
    <2>2. ASSUME NEW k \in Keys, Get(k) PROVE FALSE
      BY <2>1, <2>2 DEF Get, Hit, Miss, lruVars
    <2>3. ASSUME NEW k \in Keys, Delete(k) PROVE k = a
      BY <2>1, <2>3 DEF Delete, Drop
    <2>4. ASSUME NEW k \in Keys, NEW v \in Values, Put(k, v) PROVE FALSE
      <3>1. CASE Replace(k, v)
        BY <2>1, <3>1, LruAssumption DEF Replace, LruInv, LruTypeOK
      <3>2. CASE Insert(k, v)
        <4> DEFINE after == Cached \cup {k}
                   order == ToFront(newer, Cached, k)
                   filled == [entry EXCEPT ![k] = v]
        <4>1. a # k /\ b # k
          BY <3>2 DEF Insert
        <4>2. filled[a] # None
          BY <2>1, <4>1 DEF LruInv, LruTypeOK
        <4>3. entry' # filled
          BY <4>2
        <4>4. PICK victim \in after :
                 AtTail(order, after, victim) /\ entry' = [filled EXCEPT ![victim] = None]
          BY <3>2, <4>3, Zenon DEF Insert
        <4>5. victim = a
          BY <2>1, <4>2, <4>4 DEF LruInv, LruTypeOK
        <4>6. <<b, a>> \in order
          BY <2>1, <4>4, <4>5 DEF AtTail
        <4>7. <<b, a>> \in newer
          BY <4>1, <4>6, ToFrontMember
        <4>8. QED
          BY <2>1, <4>7
      <3>3. QED
        BY <2>4, <3>1, <3>2 DEF Put
    <2>5. CASE EvictExpired
      <3>1. idle[a] > TTL
        BY <2>1, <2>5 DEF EvictExpired, Drop
      <3>2. idle[b] > TTL
        BY <2>1, <3>1, LruAssumption DEF LruInv, LruTypeOK
      <3>3. QED
        BY <2>1, <2>5, <3>2 DEF EvictExpired, Drop
    <2>6. CASE Tick
      BY <2>1, <2>6 DEF Tick
    <2>7. QED
      BY <2>2, <2>3, <2>4, <2>5, <2>6 DEF LruNext
  <1>2. LruSpec => []LruInv
    BY LruInitInv, LruStepInv, PTL DEF LruSpec
  <1>3. QED
    BY <1>1, <1>2, PTL DEF LruSpec, LeavesInOrder
=============================================================================
