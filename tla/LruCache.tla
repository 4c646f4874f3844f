------------------------------ MODULE LruCache ------------------------------
(***************************************************************************)
(* What BuckStream's in-memory site cache (buckstream/pkg/handler/lru.go)  *)
(* promises: a bounded map from site names to unzipped archives that gives *)
(* up the least recently used site when it is full and every site nobody   *)
(* asked for during the time-to-live when the janitor calls.               *)
(*                                                                         *)
(* Every method of LRUCache holds its mutex from the first line to the     *)
(* last, so a method is one action.  The list is abstracted to the order   *)
(* it stands for, LruList gives the pointers.                              *)
(***************************************************************************)
EXTENDS LruParams, Naturals, FiniteSets

VARIABLES entry,  \* entry[k]: the cached value of k, or None
          newer,  \* <<a, b>> \in newer: a is nearer the front of the list than b
          idle    \* idle[k]: time since lastAccessed, TTL + 1 standing for any longer time

lruVars == <<entry, newer, idle>>

Cached == {k \in Keys : entry[k] # None}

LruTypeOK == /\ entry \in [Keys -> Values \cup {None}]
             /\ newer \in SUBSET (Keys \X Keys)
             /\ idle \in [Keys -> 0 .. TTL + 1]

LruInit == /\ entry = [k \in Keys |-> None]
           /\ newer = {}
           /\ idle = [k \in Keys |-> 0]

-----------------------------------------------------------------------------
\* The order with the keys of D taken off the list.
Unlink(order, D) == {p \in order : p[1] \notin D /\ p[2] \notin D}

\* The order with k put before all the other keys of S.
ToFront(order, S, k) == Unlink(order, {k}) \cup ({k} \X (S \ {k}))

\* k is at the tail of the list of the keys of S.
AtTail(order, S, k) == k \in S /\ \A x \in S \ {k} : <<x, k>> \in order

\* The keys of D leave the cache and nothing else changes.
Drop(D) == /\ entry' = [k \in Keys |-> IF k \in D THEN None ELSE entry[k]]
           /\ newer' = Unlink(newer, D)
           /\ idle' = [k \in Keys |-> IF k \in D THEN 0 ELSE idle[k]]

-----------------------------------------------------------------------------
Hit(k) == /\ k \in Cached
          /\ newer' = ToFront(newer, Cached, k)
          /\ idle' = [idle EXCEPT ![k] = 0]
          /\ UNCHANGED entry

Miss(k) == k \notin Cached /\ UNCHANGED lruVars

Get(k) == Hit(k) \/ Miss(k)

\* The branch of Put for a key that is cached already.
Replace(k, v) == /\ k \in Cached
                 /\ entry' = [entry EXCEPT ![k] = v]
                 /\ newer' = ToFront(newer, Cached, k)
                 /\ idle' = [idle EXCEPT ![k] = 0]

\* The branch for a new key; what it evicts can be the new key itself when
\* the capacity is zero.
Insert(k, v) ==
    LET after == Cached \cup {k}
        order == ToFront(newer, Cached, k)
    IN  /\ k \notin Cached
        /\ \/ /\ Cardinality(after) <= Capacity
              /\ entry' = [entry EXCEPT ![k] = v]
              /\ newer' = order
              /\ idle' = [idle EXCEPT ![k] = 0]
           \/ /\ Cardinality(after) > Capacity
              /\ \E victim \in after :
                    /\ AtTail(order, after, victim)
                    /\ entry' = [[entry EXCEPT ![k] = v] EXCEPT ![victim] = None]
                    /\ newer' = Unlink(order, {victim})
                    /\ idle' = [[idle EXCEPT ![k] = 0] EXCEPT ![victim] = 0]

Put(k, v) == Replace(k, v) \/ Insert(k, v)

Delete(k) == Drop(Cached \cap {k})

EvictExpired == Drop({k \in Cached : idle[k] > TTL})

\* A unit of time passes without a call.
Tick == /\ idle' = [k \in Keys |-> IF k \in Cached /\ idle[k] <= TTL
                                   THEN idle[k] + 1 ELSE idle[k]]
        /\ UNCHANGED <<entry, newer>>

LruNext == \/ \E k \in Keys : Get(k) \/ Delete(k)
           \/ \E k \in Keys, v \in Values : Put(k, v)
           \/ EvictExpired
           \/ Tick

LruSpec == LruInit /\ [][LruNext]_lruVars

-----------------------------------------------------------------------------
IsTotalOrder(order, S) ==
    /\ order \in SUBSET (S \X S)
    /\ \A a \in S : <<a, a>> \notin order
    /\ \A a, b \in S : a # b => (<<a, b>> \in order <=> <<b, a>> \notin order)
    /\ \A a, b, c \in S : <<a, b>> \in order /\ <<b, c>> \in order => <<a, c>> \in order

\* The recency order is a strict total order on exactly the cached keys: the
\* list neither loses a cached site (it could then never be evicted) nor keeps
\* one that has left (lru.go keeps map and list in step by hand).
TotalOrder == IsTotalOrder(newer, Cached)

\* A site nearer the tail was idle at least as long.  The janitor relies on it:
\* it stops at the first node that is not expired (lru.go:77).
OrderedByAge == \A a, b \in Keys : <<a, b>> \in newer => idle[a] <= idle[b]

\* Never more sites in memory than MAX_CACHED_SITES, whatever the calls.
WithinCapacity == IsFiniteSet(Cached) /\ Cardinality(Cached) <= Capacity

\* A site leaves before one that was used less recently only when somebody
\* deletes it by name: neither Put's eviction nor the janitor overtakes.
LeavesInOrder ==
    [][\A a, b \in Cached :
          /\ <<a, b>> \in newer
          /\ entry'[a] = None
          /\ entry'[b] # None
          => Delete(a)]_lruVars
=============================================================================
