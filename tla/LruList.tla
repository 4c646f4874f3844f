------------------------------- MODULE LruList -------------------------------
(***************************************************************************)
(* The doubly linked list and the map of LRUCache (lru.go), pointer by     *)
(* pointer, as an implementation of LruCache.                              *)
(*                                                                         *)
(* A key has at most one node that the list or the map can reach, so a     *)
(* node is named by its key.  A node that leaves the map is garbage: its   *)
(* fields are set to those of a node not allocated yet.                    *)
(***************************************************************************)
EXTENDS LruParams, FiniteSets

CONSTANT Nil  \* the nil pointer

ASSUME ListAssumption == Nil \notin Keys

VARIABLES list,   \* head, tail and the prev and next pointers of every node
          items,  \* the keys of the map
          value,  \* value[k]: the value of the node of k, None without a node
          age     \* age[k]: now - lastAccessed, up to TTL + 1

listVars == <<list, items, value, age>>

Node == Keys \cup {Nil}

ListInit == /\ list = [head |-> Nil, tail |-> Nil,
                       prev |-> [k \in Keys |-> Nil], next |-> [k \in Keys |-> Nil]]
            /\ items = {}
            /\ value = [k \in Keys |-> None]
            /\ age = [k \in Keys |-> 0]

-----------------------------------------------------------------------------
\* Mutated: the tail is the new node even when there was one.
MutAddAsTail(L, n) ==
    [head |-> n,
     tail |-> n,
     next |-> [L.next EXCEPT ![n] = L.head],
     prev |-> [k \in Keys |-> IF k = n THEN Nil
                              ELSE IF k = L.head THEN n ELSE L.prev[k]]]

\* n.next = head, n.prev = nil, then the old head and an empty tail are fixed.
AddToFront(L, n) ==
    [head |-> n,
     tail |-> IF L.tail = Nil THEN n ELSE L.tail,
     next |-> [L.next EXCEPT ![n] = L.head],
     prev |-> [k \in Keys |-> IF k = n THEN Nil
                              ELSE IF k = L.head THEN n ELSE L.prev[k]]]

\* Mutated: the tail is left alone when the last node goes.
MutRemoveKeepTail(L, n) ==
    [head |-> IF L.prev[n] = Nil THEN L.next[n] ELSE L.head,
     tail |-> L.tail,
     next |-> IF L.prev[n] = Nil THEN L.next ELSE [L.next EXCEPT ![L.prev[n]] = L.next[n]],
     prev |-> IF L.next[n] = Nil THEN L.prev ELSE [L.prev EXCEPT ![L.next[n]] = L.prev[n]]]

\* The neighbours of n are joined; n keeps its own pointers.
RemoveNode(L, n) ==
    [head |-> IF L.prev[n] = Nil THEN L.next[n] ELSE L.head,
     tail |-> IF L.next[n] = Nil THEN L.prev[n] ELSE L.tail,
     next |-> IF L.prev[n] = Nil THEN L.next ELSE [L.next EXCEPT ![L.prev[n]] = L.next[n]],
     prev |-> IF L.next[n] = Nil THEN L.prev ELSE [L.prev EXCEPT ![L.next[n]] = L.prev[n]]]

MoveToFront(L, n) == AddToFront(RemoveNode(L, n), n)

\* n is unlinked and its memory given up.
Free(L, n) == LET R == RemoveNode(L, n)
              IN  [R EXCEPT !.next[n] = Nil, !.prev[n] = Nil]

\* The map after the nodes outside S have been deleted from it.
Keep(S) == /\ items' = S
           /\ value' = [k \in Keys |-> IF k \in S THEN value[k] ELSE None]
           /\ age' = [k \in Keys |-> IF k \in S THEN age[k] ELSE 0]

-----------------------------------------------------------------------------
\* Mutated: lastAccessed is set, the node stays where it is.
MutGetInPlace(k) == k \in items /\ age' = [age EXCEPT ![k] = 0] /\ UNCHANGED <<list, items, value>>

Get(k) == \/ /\ k \notin items
             /\ UNCHANGED listVars
          \/ /\ k \in items
             /\ age' = [age EXCEPT ![k] = 0]
             /\ list' = MoveToFront(list, k)
             /\ UNCHANGED <<items, value>>

\* Mutated: an update leaves the node where it is.
MutPutInPlace(k, v) == /\ k \in items
                       /\ value' = [value EXCEPT ![k] = v]
                       /\ age' = [age EXCEPT ![k] = 0]
                       /\ UNCHANGED <<list, items>>

PutExisting(k, v) == /\ k \in items
                     /\ value' = [value EXCEPT ![k] = v]
                     /\ age' = [age EXCEPT ![k] = 0]
                     /\ list' = MoveToFront(list, k)
                     /\ UNCHANGED items

\* Mutated: the length is compared before the new key is in the map.
MutPutNewLate(k, v) ==
    /\ k \notin items
    /\ Cardinality(items) <= Capacity
    /\ list' = AddToFront(list, k)
    /\ items' = items \cup {k}
    /\ value' = [value EXCEPT ![k] = v]
    /\ age' = [age EXCEPT ![k] = 0]

PutNew(k, v) ==
    LET added   == AddToFront(list, k)
        full    == Cardinality(items \cup {k}) > Capacity /\ added.tail # Nil
        evicted == IF full THEN {added.tail} ELSE {}
    IN  /\ k \notin items
        /\ list' = IF full THEN Free(added, added.tail) ELSE added
        /\ items' = (items \cup {k}) \ evicted
        /\ value' = [x \in Keys |-> IF x \in evicted THEN None
                                    ELSE IF x = k THEN v ELSE value[x]]
        /\ age' = [x \in Keys |-> IF x \in evicted \cup {k} THEN 0 ELSE age[x]]

Put(k, v) == PutExisting(k, v) \/ PutNew(k, v)

\* The list after n turns of the janitor's loop, which frees the tail until the
\* tail is not expired.
Swept[n \in Nat] ==
    IF n = 0 THEN [l |-> list, left |-> items]
    ELSE LET s == Swept[n - 1]
         IN  IF s.l.tail # Nil /\ age[s.l.tail] > TTL
             THEN [l |-> Free(s.l, s.l.tail), left |-> s.left \ {s.l.tail}]
             ELSE s

EvictExpired == LET s == Swept[Cardinality(items)]
                IN  list' = s.l /\ Keep(s.left)

Delete(k) == \/ k \notin items /\ UNCHANGED listVars
             \/ k \in items /\ list' = Free(list, k) /\ Keep(items \ {k})

\* Mutated: ages are not cut off above the time-to-live.
MutTickOn == /\ age' = [k \in Keys |-> IF k \in items THEN age[k] + 1 ELSE age[k]]
             /\ UNCHANGED <<list, items, value>>

\* A unit of time passes without a call.
ListTick == /\ age' = [k \in Keys |-> IF k \in items /\ age[k] <= TTL
                                      THEN age[k] + 1 ELSE age[k]]
            /\ UNCHANGED <<list, items, value>>

ListNext == \/ \E k \in Keys : Get(k) \/ Delete(k)
            \/ \E k \in Keys, v \in Values : Put(k, v)
            \/ EvictExpired
            \/ ListTick

ListSpec == ListInit /\ [][ListNext]_listVars

-----------------------------------------------------------------------------
ListTypeOK ==
    /\ list \in [head : Node, tail : Node, prev : [Keys -> Node], next : [Keys -> Node]]
    /\ items \in SUBSET Keys
    /\ value \in [Keys -> Values \cup {None}]
    /\ age \in [Keys -> 0 .. TTL + 1]

\* <<a, b>> where a walk along a pointer field comes from a to b: b is in every
\* set that has the node after a and those after its own.
Reaches(field, S) ==
    {p \in S \X S :
        \A T \in SUBSET S :
           (\A x \in T \cup {p[1]} : field[x] \in T \cup {Nil}) => p[2] \in T}

\* The order the list stands for.
Order == Reaches(list.next, items)

Abstract == INSTANCE LruCache WITH entry <- value, newer <- Order, idle <- age

\* Both directions of the list meet every node of the map once, in opposite
\* orders, from head to tail: no cycle, no node lost, no end left behind by any
\* surgery.
WellLinked ==
    /\ ListTypeOK
    /\ Abstract!IsTotalOrder(Order, items)
    /\ Reaches(list.prev, items) = {<<p[2], p[1]>> : p \in Order}
    /\ IF items = {} THEN list.head = Nil /\ list.tail = Nil
       ELSE /\ list.head \in items /\ list.tail \in items
            /\ \A k \in items : /\ k # list.head => <<list.head, k>> \in Order
                                /\ k # list.tail => <<k, list.tail>> \in Order

\* The pointer code implements the cache: every method call, the janitor's
\* early stop included, does to the map and the order what LruCache says.
ImplementsLruCache == Abstract!LruSpec

\* So it has the cache's promises, the bound and the order of ages that LruSafe
\* states of LruCache among them.  A site leaves before one that was used less
\* recently only when somebody deletes it by name: neither Put's eviction nor
\* the janitor overtakes.
LeavesInOrder == Abstract!LeavesInOrder
=============================================================================
