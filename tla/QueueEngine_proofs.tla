------------------------- MODULE QueueEngine_proofs -------------------------
(***************************************************************************)
(* The queue for any callers, payloads and Redis servers: where an item is *)
(* and in which order a Redis hands the items out.                         *)
(***************************************************************************)
EXTENDS QueueEngine, SequenceTheorems, FiniteSetTheorems, TLAPS

Holds(c) == call[c].op = "enqueue"

\* Items that no client pushed a second time.
Once == Items \ resent

PushedAt(b, n, i) == n \in DOMAIN pushes[b] /\ pushes[b][n] = i
StoredAt(b, n, i) == n \in DOMAIN stored[b] /\ stored[b][n] = i
GotAt(c, n, i, b) == n \in DOMAIN got[c] /\ got[c][n].item = i /\ got[c][n].at = b

\* What is in a backend, in a caller's hands, lost, purged or pushed again was
\* pushed, to that backend, and what was pushed was sent.
Origin ==
    /\ \A b \in Backends, i \in Items, n \in Nat :
          /\ StoredAt(b, n, i) => \E p \in Nat : PushedAt(b, p, i)
          /\ PushedAt(b, n, i) => i \in sent
    /\ \A c \in Clients, b \in Backends, i \in Items, n \in Nat :
          GotAt(c, n, i, b) => \E p \in Nat : PushedAt(b, p, i)
    /\ \A i \in lost \cup purged : \E b \in Backends : \E p \in Nat : PushedAt(b, p, i)
    /\ resent \subseteq sent

\* An item that a caller is about to push was not pushed before, and it is the
\* only caller to push it.
Pending ==
    /\ \A c \in Clients : Holds(c) /\ call[c].item \in Once =>
          \A b \in Backends, p \in Nat : ~PushedAt(b, p, call[c].item)
    /\ \A c, d \in Clients : Holds(c) /\ Holds(d) /\ call[c].item = call[d].item => c = d

PushedOnce ==
    \A i \in Once, a, b \in Backends, m, n \in Nat :
       PushedAt(a, m, i) /\ PushedAt(b, n, i) => a = b /\ m = n

OnePlace ==
    \A i \in Once :
       /\ \A a, b \in Backends, m, n \in Nat :
             StoredAt(a, m, i) /\ StoredAt(b, n, i) => a = b /\ m = n
       /\ \A c, d \in Clients, a, b \in Backends, m, n \in Nat :
             GotAt(c, m, i, a) /\ GotAt(d, n, i, b) => c = d /\ m = n
       /\ \A c \in Clients, a, b \in Backends, m, n \in Nat :
             ~(StoredAt(a, m, i) /\ GotAt(c, n, i, b))
       /\ i \in lost \cup purged =>
             /\ \A b \in Backends, n \in Nat : ~StoredAt(b, n, i)
             /\ \A c \in Clients, b \in Backends, n \in Nat : ~GotAt(c, n, i, b)

\* i was pushed to b before j.
Before(b, i, j) == \A p, q \in Nat : PushedAt(b, p, i) /\ PushedAt(b, q, j) => p < q

\* A Redis' list is in the order of the pushes and what callers took from it
\* comes before it.
InOrder ==
    \A b \in Redises, i, j \in Once, m, n \in Nat :
       /\ m < n /\ StoredAt(b, m, i) /\ StoredAt(b, n, j) => Before(b, i, j)
       /\ \A c \in Clients :
             /\ GotAt(c, m, i, b) /\ StoredAt(b, n, j) => Before(b, i, j)
             /\ m < n /\ GotAt(c, m, i, b) /\ GotAt(c, n, j, b) => Before(b, i, j)

Inv == TypeOK /\ Origin /\ Pending /\ PushedOnce /\ OnePlace /\ InOrder

-----------------------------------------------------------------------------
(* The commands' effects on sequences.                                     *)

LEMMA RemoveAtElements ==
    ASSUME NEW S, NEW s \in Seq(S), NEW k \in DOMAIN s
    PROVE  /\ RemoveAt(s, k) \in Seq(S)
           /\ Len(RemoveAt(s, k)) = Len(s) - 1
           /\ \A m \in 1 .. Len(s) - 1 : RemoveAt(s, k)[m] = IF m < k THEN s[m] ELSE s[m + 1]
  <1> DEFINE front == SubSeq(s, 1, k - 1)
             back  == SubSeq(s, k + 1, Len(s))
  <1>1. k \in 1 .. Len(s) /\ Len(s) \in Nat
    OBVIOUS
  <1>2. /\ front \in Seq(S) /\ Len(front) = k - 1
        /\ \A m \in 1 .. k - 1 : front[m] = s[m]
    <2>1. \A m \in 1 .. k - 1 : s[m] \in S
      BY <1>1
    <2>2. QED
      BY <1>1, <2>1, SubSeqProperties
  <1>3. /\ back \in Seq(S) /\ Len(back) = Len(s) - k
        /\ \A m \in 1 .. Len(s) - k : back[m] = s[k + m]
    <2>1. \A m \in k + 1 .. Len(s) : s[m] \in S
      BY <1>1
    <2>2. /\ back \in Seq(S)
          /\ Len(back) = IF k + 1 <= Len(s) THEN Len(s) - (k + 1) + 1 ELSE 0
          /\ \A m \in 1 .. Len(s) - (k + 1) + 1 : back[m] = s[k + 1 + m - 1]
      BY <1>1, <2>1, SubSeqProperties
    <2>3. QED
      BY <1>1, <2>2
  <1>4. /\ front \o back \in Seq(S)
        /\ Len(front \o back) = Len(front) + Len(back)
        /\ \A m \in 1 .. Len(front) + Len(back) :
              (front \o back)[m] = IF m <= Len(front) THEN front[m] ELSE back[m - Len(front)]
    BY <1>2, <1>3, ConcatProperties
  <1> HIDE DEF front, back
  <1>5. \A m \in 1 .. Len(s) - 1 : (front \o back)[m] = IF m < k THEN s[m] ELSE s[m + 1]
    <2> SUFFICES ASSUME NEW m \in 1 .. Len(s) - 1
                 PROVE  (front \o back)[m] = IF m < k THEN s[m] ELSE s[m + 1]
      OBVIOUS
    <2>1. m \in 1 .. Len(front) + Len(back)
      BY <1>1, <1>2, <1>3
    <2>2. CASE m < k
      <3>1. m <= Len(front) /\ m \in 1 .. k - 1
        BY <1>1, <1>2, <2>2
      <3>2. QED
        BY <1>2, <1>4, <2>1, <2>2, <3>1
    <2>3. CASE ~(m < k)
      <3>1. /\ ~(m <= Len(front)) /\ m - Len(front) \in 1 .. Len(s) - k
            /\ k + (m - Len(front)) = m + 1
        BY <1>1, <1>2, <2>3
      <3>2. QED
        BY <1>3, <1>4, <2>1, <2>3, <3>1
    <2>4. QED
      BY <2>2, <2>3
  <1>6. RemoveAt(s, k) = front \o back
    BY DEF RemoveAt, front, back
  <1>7. Len(front) + Len(back) = Len(s) - 1
    BY <1>1, <1>2, <1>3
  <1>8. QED
    BY <1>4, <1>5, <1>6, <1>7

\* A push appends one item to one backend, and to the history of its pushes.
LEMMA StoreEffect ==
    ASSUME TypeOK, NEW c \in Clients, Store(c), Holds(c),
           NEW b \in Backends, NEW n \in Nat, NEW i
    PROVE  /\ StoredAt(b, n, i)' <=> \/ StoredAt(b, n, i)
                                     \/ /\ b = call[c].at /\ n = Len(stored[b]) + 1
                                        /\ i = call[c].item
           /\ PushedAt(b, n, i)' <=> \/ PushedAt(b, n, i)
                                     \/ /\ b = call[c].at /\ n = Len(pushes[b]) + 1
                                        /\ i = call[c].item
  <1>1. call[c].item \in Items /\ call[c].at \in Backends
    BY DEF TypeOK, Holds
  <1>2. stored[b] \in Seq(Items) /\ pushes[b] \in Seq(Items)
    BY DEF TypeOK
  <1>3. CASE b = call[c].at
    <2>1. stored'[b] = Append(stored[b], call[c].item) /\ pushes'[b] = Append(pushes[b], call[c].item)
      BY <1>3 DEF Store, TypeOK
    <2>2. ASSUME NEW s \in Seq(Items), NEW e \in Items
          PROVE  n \in DOMAIN Append(s, e) /\ Append(s, e)[n] = i
                 <=> (n \in DOMAIN s /\ s[n] = i) \/ (n = Len(s) + 1 /\ i = e)
      OBVIOUS
    <2>3. StoredAt(b, n, i)' <=> StoredAt(b, n, i) \/ (n = Len(stored[b]) + 1 /\ i = call[c].item)
      BY <1>1, <1>2, <2>1, <2>2 DEF StoredAt
    <2>4. PushedAt(b, n, i)' <=> PushedAt(b, n, i) \/ (n = Len(pushes[b]) + 1 /\ i = call[c].item)
      BY <1>1, <1>2, <2>1, <2>2 DEF PushedAt
    <2>5. QED
      BY <1>3, <2>3, <2>4
  <1>4. CASE b # call[c].at
    BY <1>4 DEF Store, TypeOK, StoredAt, PushedAt
  <1>5. QED
    BY <1>3, <1>4

\* What is in a backend after an item was taken out was there before, in the
\* same order; the item was where the command took it.
LEMMA TakeOutEffect ==
    ASSUME TypeOK, NEW c \in Clients, NEW k \in Candidates(c), TakeOut(c, k),
           NEW b \in Backends
    PROVE  /\ StoredAt(call[c].at, k, stored[call[c].at][k])
           /\ stored[call[c].at][k] \in Items
           /\ \A n \in Nat, i \in Items : StoredAt(b, n, i)' =>
                 LET m == IF b = call[c].at /\ n >= k THEN n + 1 ELSE n
                 IN  StoredAt(b, m, i)
           /\ \A n \in Nat, i \in Items : StoredAt(b, n, i) /\ (b # call[c].at \/ n # k) =>
                 \E m \in Nat : StoredAt(b, m, i)'
  <1> DEFINE a == call[c].at
  <1>1. a \in Backends /\ k \in DOMAIN stored[a]
    BY DEF TypeOK, Candidates
  <1>2. stored[a] \in Seq(Items) /\ stored[b] \in Seq(Items)
    BY <1>1 DEF TypeOK
  <1>3. /\ Len(RemoveAt(stored[a], k)) = Len(stored[a]) - 1
        /\ RemoveAt(stored[a], k) \in Seq(Items)
        /\ \A m \in 1 .. Len(stored[a]) - 1 :
              RemoveAt(stored[a], k)[m] = IF m < k THEN stored[a][m] ELSE stored[a][m + 1]
    BY <1>1, <1>2, RemoveAtElements
  <1>4. StoredAt(a, k, stored[a][k]) /\ stored[a][k] \in Items
    BY <1>1, <1>2 DEF StoredAt
  <1>5. CASE b = a
    <2>1. stored'[b] = RemoveAt(stored[a], k)
      BY <1>1, <1>5 DEF TakeOut, TypeOK
    <2>2. ASSUME NEW n \in Nat, NEW i \in Items, StoredAt(b, n, i)'
          PROVE  StoredAt(b, IF n >= k THEN n + 1 ELSE n, i)
      BY <1>1, <1>2, <1>3, <1>5, <2>1, <2>2 DEF StoredAt
    <2>3. ASSUME NEW n \in Nat, NEW i \in Items, StoredAt(b, n, i), n # k
          PROVE  \E m \in Nat : StoredAt(b, m, i)'
      <3>1. CASE n < k
        <4>1. StoredAt(b, n, i)'
          BY <1>1, <1>2, <1>3, <1>5, <2>1, <2>3, <3>1 DEF StoredAt
        <4>2. QED
          BY <4>1
      <3>2. CASE n > k
        <4>1. n - 1 \in Nat /\ StoredAt(b, n - 1, i)'
          BY <1>1, <1>2, <1>3, <1>5, <2>1, <2>3, <3>2 DEF StoredAt
        <4>2. QED
          BY <4>1
      <3>3. QED
        BY <1>1, <1>2, <2>3, <3>1, <3>2
    <2>4. QED
      BY <1>4, <1>5, <2>2, <2>3
  <1>6. CASE b # a
    BY <1>1, <1>4, <1>6 DEF TakeOut, TypeOK, StoredAt
  <1>7. QED
    BY <1>5, <1>6

LEMMA AppendTyped ==
    ASSUME NEW S, NEW s \in Seq(S), NEW e \in S PROVE Append(s, e) \in Seq(S)
  OBVIOUS

-----------------------------------------------------------------------------
(* Typing.                                                                 *)

LEMMA TypeStep == TypeOK /\ [Next]_vars => TypeOK'
  <1> SUFFICES ASSUME TypeOK, [Next]_vars PROVE TypeOK'
    OBVIOUS
  <1> USE QueueAssumption DEF TypeOK
  <1>1. ASSUME NEW b \in Backends, Register(b) PROVE TypeOK'
    BY <1>1 DEF Register, history
  <1>2. ASSUME NEW c \in Clients, NEW i \in Items, Enqueue(c, i) PROVE TypeOK'
    <2>1. call' \in [Clients -> [op : Op, at : Backends, item : Items \cup {NoItem}]]
      BY <1>2 DEF Enqueue, Start, Op
    <2>2. \A d \in Clients : call'[d].op = "enqueue" => call'[d].item \in sent'
      BY <1>2 DEF Enqueue, Start
    <2>3. QED
      BY <1>2, <2>1, <2>2 DEF Enqueue
  <1>3. ASSUME NEW c \in Clients, NEW op \in {"dequeue", "size", "peek", "purge"}, Ask(c, op)
        PROVE  TypeOK'
    <2>1. call' \in [Clients -> [op : Op, at : Backends, item : Items \cup {NoItem}]]
      BY <1>3 DEF Ask, Start, Op
    <2>2. \A d \in Clients : call'[d].op = "enqueue" => call'[d].item \in sent'
      BY <1>3 DEF Ask, Start, history
    <2>3. QED
      BY <1>3, <2>1, <2>2 DEF Ask, history
  <1>4. ASSUME NEW c \in Clients, End(c)
        PROVE  /\ call' \in [Clients -> [op : Op, at : Backends, item : Items \cup {NoItem}]]
               /\ \A d \in Clients : call'[d].op = "enqueue" => call'[d].item \in sent
    BY <1>4 DEF End, NoCall, Op, Backends
  <1>5. ASSUME NEW c \in Clients, Holds(c), Store(c)
        PROVE  stored' \in [Backends -> Seq(Items)] /\ pushes' \in [Backends -> Seq(Items)]
    <2>1. call[c].item \in Items
      BY <1>5 DEF Holds
    <2>2. QED
      BY <1>5, <2>1 DEF Store
  <1>6. ASSUME NEW c \in Clients, NEW n \in Candidates(c), TakeOut(c, n)
        PROVE  stored' \in [Backends -> Seq(Items)] /\ stored[call[c].at][n] \in Items
    <2>1. call[c].at \in Backends /\ n \in DOMAIN stored[call[c].at]
      BY DEF Candidates
    <2>2. RemoveAt(stored[call[c].at], n) \in Seq(Items)
      BY <2>1, RemoveAtElements
    <2>3. QED
      BY <1>6, <2>1, <2>2 DEF TakeOut
  <1>7. ASSUME NEW c \in Clients, Push(c) \/ PushLost(c) \/ PushAgain(c) PROVE TypeOK'
    <2>1. Holds(c) /\ Store(c) /\ call[c].item \in Items
      BY <1>7 DEF Push, PushLost, PushAgain, Holds
    <2>2. QED
      <3>1. stored' \in [Backends -> Seq(Items)] /\ pushes' \in [Backends -> Seq(Items)]
        BY <1>5, <2>1
      <3>2. /\ call' \in [Clients -> [op : Op, at : Backends, item : Items \cup {NoItem}]]
            /\ \A d \in Clients : call'[d].op = "enqueue" => call'[d].item \in sent
        BY <1>4, <1>7 DEF Push, PushLost, PushAgain
      <3>3. /\ acked' \in SUBSET Items /\ resent' \in SUBSET Items
            /\ UNCHANGED <<registered, sent, lost, purged, got>>
        BY <1>7, <2>1 DEF Push, PushLost, PushAgain
      <3>4. QED
        BY <3>1, <3>2, <3>3
  <1>8. ASSUME NEW c \in Clients, Pop(c) PROVE TypeOK'
    <2>1. PICK n \in Candidates(c) :
             /\ TakeOut(c, n)
             /\ got' = [got EXCEPT ![c] = Append(@, [item |-> stored[call[c].at][n], at |-> call[c].at])]
      BY <1>8 DEF Pop
    <2>2. got' \in [Clients -> Seq([item : Items, at : Backends])]
      <3>1. [item |-> stored[call[c].at][n], at |-> call[c].at] \in [item : Items, at : Backends]
        BY <1>6, <2>1
      <3>2. QED
        BY <2>1, <3>1, AppendTyped
    <2>3. QED
      BY <1>4, <1>6, <1>8, <2>1, <2>2 DEF Pop
  <1>9. ASSUME NEW c \in Clients, LoseOne(c), End(c) \/ UNCHANGED call PROVE TypeOK'
    <2>1. PICK n \in Candidates(c) : TakeOut(c, n) /\ lost' = lost \cup {stored[call[c].at][n]}
      BY <1>9 DEF LoseOne
    <2>2. /\ stored' \in [Backends -> Seq(Items)] /\ lost' \in SUBSET Items
          /\ UNCHANGED <<registered, sent, acked, resent, purged, pushes, got>>
      BY <1>6, <1>9, <2>1 DEF LoseOne
    <2>3. /\ call' \in [Clients -> [op : Op, at : Backends, item : Items \cup {NoItem}]]
          /\ \A d \in Clients : call'[d].op = "enqueue" => call'[d].item \in sent
      BY <1>4, <1>9
    <2>4. QED
      BY <2>2, <2>3
  <1>10. ASSUME NEW c \in Clients, PopNothing(c) \/ Size(c) \/ Peek(c) \/ Fail(c) PROVE TypeOK'
    <2>1. End(c) /\ UNCHANGED <<registered, stored, history>>
      BY <1>10 DEF PopNothing, Size, Peek, Fail
    <2>2. QED
      BY <1>4, <2>1 DEF history
  <1>11. ASSUME NEW c \in Clients, Purge(c) PROVE TypeOK'
    <2>1. ToSet(stored[Postgres]) \in SUBSET Items
      BY DEF ToSet, Backends
    <2>2. stored' \in [Backends -> Seq(Items)] /\ purged' \in SUBSET Items
      <3>1. CASE call[c].at = Postgres
        <4>1. stored' = [stored EXCEPT ![Postgres] = <<>>] /\ purged' = purged \cup ToSet(stored[Postgres])
          BY <1>11, <3>1 DEF Purge
        <4>2. <<>> \in Seq(Items)
          BY EmptySeq
        <4>3. QED
          BY <2>1, <4>1, <4>2
      <3>2. CASE call[c].at # Postgres
        BY <1>11, <3>2 DEF Purge
      <3>3. QED
        BY <3>1, <3>2
    <2>3. QED
      BY <1>4, <1>11, <2>2 DEF Purge
  <1>12. CASE UNCHANGED vars
    BY <1>12 DEF vars
  <1>13. QED
    BY <1>1, <1>2, <1>3, <1>7, <1>8, <1>9, <1>10, <1>11, <1>12 DEF Next, Command, PopLost, PopAgain

-----------------------------------------------------------------------------
(* Where the items are.                                                    *)

LEMMA InvInit == Init => Inv
  <1> SUFFICES ASSUME Init PROVE Inv
    OBVIOUS
  <1>1. TypeOK
    <2>1. <<>> \in Seq(Items) /\ <<>> \in Seq([item : Items, at : Backends])
      BY EmptySeq
    <2>2. call \in [Clients -> [op : Op, at : Backends, item : Items \cup {NoItem}]]
      BY DEF Init, NoCall, Op, Backends
    <2>3. \A c \in Clients : call[c].op # "enqueue"
      BY DEF Init, NoCall
    <2>4. \A h \in {sent, acked, resent, lost, purged} : h \in SUBSET Items
      BY DEF Init
    <2>5. QED
      BY <2>1, <2>2, <2>3, <2>4 DEF Init, TypeOK
  <1>2. \A b \in Backends, n \in Nat, i \in Items : ~StoredAt(b, n, i) /\ ~PushedAt(b, n, i)
    BY DEF Init, StoredAt, PushedAt
  <1>3. \A c \in Clients, b \in Backends, n \in Nat, i \in Items : ~GotAt(c, n, i, b)
    BY DEF Init, GotAt
  <1>4. \A c \in Clients : ~Holds(c)
    BY DEF Init, NoCall, Holds
  <1>5. lost = {} /\ purged = {} /\ resent = {} /\ Redises \subseteq Backends
    BY DEF Init, Backends
  <1>6. QED
    BY <1>1, <1>2, <1>3, <1>4, <1>5
       DEF Inv, Origin, Pending, PushedOnce, OnePlace, InOrder, Once

\* No command gives a caller an item to push.
LEMMA FewerHold ==
    ASSUME TypeOK, NEW c \in Clients, End(c), NEW d \in Clients, Holds(d)'
    PROVE  Holds(d) /\ call'[d] = call[d] /\ d # c
  BY DEF TypeOK, End, NoCall, Holds

\* What the rest of the state keeps, when the places are the same.
LEMMA SamePlaces ==
    ASSUME UNCHANGED <<stored, got, pushes>>
    PROVE  /\ \A b, n, i : StoredAt(b, n, i)' <=> StoredAt(b, n, i)
           /\ \A b, n, i : PushedAt(b, n, i)' <=> PushedAt(b, n, i)
           /\ \A c, n, i, b : GotAt(c, n, i, b)' <=> GotAt(c, n, i, b)
  BY DEF StoredAt, PushedAt, GotAt

LEMMA StoreStep ==
    ASSUME Inv, NEW c \in Clients, Holds(c), Store(c),
           UNCHANGED <<sent, lost, purged, got>>,
           \/ resent' = resent /\ End(c)
           \/ resent' = resent \cup {call[c].item} /\ UNCHANGED call
    PROVE  (Origin /\ Pending /\ PushedOnce /\ OnePlace /\ InOrder)'
  <1> DEFINE x == call[c].item
             a == call[c].at
             len == Len(pushes[a]) + 1
  <1>1. x \in Items /\ x \in sent /\ a \in Backends /\ len \in Nat /\ Redises \subseteq Backends
    BY DEF Inv, TypeOK, Holds, Backends
  <1>2. \A b \in Backends, n \in Nat, i \in Items :
           /\ StoredAt(b, n, i)' <=>
                 StoredAt(b, n, i) \/ (b = a /\ n = Len(stored[b]) + 1 /\ i = x)
           /\ PushedAt(b, n, i)' <=>
                 PushedAt(b, n, i) \/ (b = a /\ n = len /\ i = x)
    BY StoreEffect DEF Inv
  <1>3. \A d \in Clients, b \in Backends, n \in Nat, i \in Items : GotAt(d, n, i, b)' <=> GotAt(d, n, i, b)
    BY DEF GotAt
  <1>4. Once' \subseteq Once /\ (x \in Once' => resent' = resent /\ End(c))
    BY DEF Once
  <1>5. x \in Once => /\ \A b \in Backends, n \in Nat : ~PushedAt(b, n, x) /\ ~StoredAt(b, n, x)
                      /\ \A d \in Clients, b \in Backends, n \in Nat : ~GotAt(d, n, x, b)
                      /\ x \notin lost \cup purged
    BY <1>1 DEF Inv, Origin, Pending
  <1>6. \A b \in Backends, n, m \in Nat, i, j \in Items :
           /\ StoredAt(b, n, i) => n <= Len(stored[b])
           /\ PushedAt(a, n, i) => n < len
    BY <1>1 DEF StoredAt, PushedAt, Inv, TypeOK
  <1>7. lost \cup purged \subseteq Items /\ Once \subseteq Items /\ Len(stored[a]) + 1 \in Nat
    BY <1>1 DEF Inv, TypeOK, Once
  <1> HIDE DEF x, a, len
  <1>8. Origin'
    <2>1. ASSUME NEW b \in Backends, NEW i \in Items, NEW n \in Nat
          PROVE  /\ StoredAt(b, n, i)' => \E p \in Nat : PushedAt(b, p, i)'
                 /\ PushedAt(b, n, i)' => i \in sent'
      BY <1>1, <1>2 DEF Inv, Origin
    <2>2. ASSUME NEW d \in Clients, NEW b \in Backends, NEW i \in Items, NEW n \in Nat, GotAt(d, n, i, b)'
          PROVE  \E p \in Nat : PushedAt(b, p, i)'
      BY <1>2, <1>3, <2>2 DEF Inv, Origin
    <2>3. \A i \in lost' \cup purged' : \E b \in Backends : \E p \in Nat : PushedAt(b, p, i)'
      BY <1>2, <1>7 DEF Inv, Origin
    <2>4. resent' \subseteq sent'
      BY <1>1 DEF Inv, Origin, x
    <2>5. QED
      BY <2>1, <2>2, <2>3, <2>4 DEF Origin
  <1>9. Pending'
    <2>1. CASE resent' = resent /\ End(c)
      <3>1. ASSUME NEW d \in Clients, Holds(d)' PROVE Holds(d) /\ call'[d] = call[d] /\ d # c
        BY <2>1, <3>1, FewerHold DEF Inv
      <3>2. ASSUME NEW d \in Clients, Holds(d)' PROVE call[d].item # x /\ call[d].item \in Items
        BY <3>1, <3>2 DEF Inv, Pending, TypeOK, Holds, x
      <3>3. ASSUME NEW d \in Clients, Holds(d)', call'[d].item \in Once', NEW b \in Backends, NEW p \in Nat
            PROVE  ~PushedAt(b, p, call[d].item)'
        BY <1>2, <1>4, <3>1, <3>2, <3>3 DEF Inv, Pending
      <3>4. \A d, e \in Clients : Holds(d)' /\ Holds(e)' /\ call'[d].item = call'[e].item => d = e
        BY <3>1 DEF Inv, Pending
      <3>5. QED
        BY <3>3, <3>4 DEF Pending
    <2>2. CASE resent' = resent \cup {x} /\ UNCHANGED call
      <3>1. \A d \in Clients : Holds(d)' <=> Holds(d)
        BY <2>2 DEF Holds
      <3>2. ASSUME NEW d \in Clients, Holds(d)', call'[d].item \in Once', NEW b \in Backends, NEW p \in Nat
            PROVE  ~PushedAt(b, p, call[d].item)'
        <4>1. call[d].item \in Items /\ call[d].item # x /\ call[d].item \in Once
          BY <1>4, <2>2, <3>1, <3>2 DEF Once
        <4>2. QED
          BY <1>2, <2>2, <3>1, <3>2, <4>1 DEF Inv, Pending
      <3>3. QED
        BY <2>2, <3>1, <3>2 DEF Inv, Pending
    <2>3. QED
      BY <2>1, <2>2 DEF x
  <1>10. PushedOnce'
    <2>1. ASSUME NEW i \in Once', NEW b \in Backends, NEW d \in Backends, NEW m \in Nat, NEW n \in Nat,
                 PushedAt(b, m, i)', PushedAt(d, n, i)'
          PROVE  b = d /\ m = n
      BY <1>2, <1>4, <1>5, <1>7, <2>1 DEF Inv, PushedOnce
    <2>2. QED
      BY <2>1 DEF PushedOnce
  <1>11. OnePlace'
    <2> SUFFICES ASSUME NEW i \in Once'
                 PROVE  /\ \A b, d \in Backends, m, n \in Nat :
                              StoredAt(b, m, i)' /\ StoredAt(d, n, i)' => b = d /\ m = n
                        /\ \A e, d \in Clients, b, f \in Backends, m, n \in Nat :
                              GotAt(e, m, i, b)' /\ GotAt(d, n, i, f)' => e = d /\ m = n
                        /\ \A e \in Clients, b, f \in Backends, m, n \in Nat :
                              ~(StoredAt(b, m, i)' /\ GotAt(e, n, i, f)')
                        /\ i \in lost' \cup purged' =>
                              /\ \A b \in Backends, n \in Nat : ~StoredAt(b, n, i)'
                              /\ \A e \in Clients, b \in Backends, n \in Nat : ~GotAt(e, n, i, b)'
      BY Zenon DEF OnePlace
    <2>1. i \in Once /\ i \in Items
      BY <1>4, <1>7
    <2>2. \A b, d \in Backends, m, n \in Nat : StoredAt(b, m, i)' /\ StoredAt(d, n, i)' => b = d /\ m = n
      BY <1>2, <1>5, <2>1 DEF Inv, OnePlace
    <2>3. \A e, d \in Clients, b, f \in Backends, m, n \in Nat :
             GotAt(e, m, i, b)' /\ GotAt(d, n, i, f)' => e = d /\ m = n
      BY <1>3, <2>1 DEF Inv, OnePlace
    <2>4. \A e \in Clients, b, f \in Backends, m, n \in Nat : ~(StoredAt(b, m, i)' /\ GotAt(e, n, i, f)')
      BY <1>2, <1>3, <1>5, <2>1 DEF Inv, OnePlace
    <2>5. i \in lost' \cup purged' => /\ \A b \in Backends, n \in Nat : ~StoredAt(b, n, i)'
                                      /\ \A e \in Clients, b \in Backends, n \in Nat : ~GotAt(e, n, i, b)'
      BY <1>2, <1>3, <1>5, <2>1 DEF Inv, OnePlace
    <2>6. QED
      BY <2>2, <2>3, <2>4, <2>5
  <1>12. InOrder'
    <2>1. ASSUME NEW b \in Backends, NEW i \in Items, NEW j \in Once', j \in Items, Before(b, i, j),
                 j = x => \A q \in Nat : ~PushedAt(b, q, x), i # x
          PROVE  Before(b, i, j)'
      BY <1>1, <1>2, <1>6, <2>1 DEF Before
    <2>2. ASSUME NEW b \in Redises, NEW i \in Once', NEW j \in Once', NEW m \in Nat, NEW n \in Nat,
                 m < n, StoredAt(b, m, i)', StoredAt(b, n, j)'
          PROVE  Before(b, i, j)'
      <3>1. i \in Once /\ j \in Once /\ i \in Items /\ j \in Items /\ b \in Backends
        BY <1>1, <1>4, <1>7
      <3>2. StoredAt(b, m, i) /\ i # x
        BY <1>2, <1>5, <1>6, <2>2, <3>1
      <3>3. CASE StoredAt(b, n, j)
        BY <1>5, <2>1, <2>2, <3>1, <3>2, <3>3 DEF Inv, InOrder
      <3>4. CASE j = x /\ b = a
        BY <1>1, <1>2, <1>5, <1>6, <3>1, <3>2, <3>4 DEF Before
      <3>5. QED
        BY <1>2, <2>2, <3>1, <3>3, <3>4
    <2>3. ASSUME NEW b \in Redises, NEW i \in Once', NEW j \in Once', NEW m \in Nat, NEW n \in Nat,
                 NEW d \in Clients, GotAt(d, m, i, b)', StoredAt(b, n, j)'
          PROVE  Before(b, i, j)'
      <3>1. i \in Once /\ j \in Once /\ i \in Items /\ j \in Items /\ b \in Backends
        BY <1>1, <1>4, <1>7
      <3>2. GotAt(d, m, i, b) /\ i # x
        BY <1>3, <1>5, <2>3, <3>1
      <3>3. CASE StoredAt(b, n, j)
        BY <1>5, <2>1, <3>1, <3>2, <3>3 DEF Inv, InOrder
      <3>4. CASE j = x /\ b = a
        BY <1>1, <1>2, <1>5, <1>6, <3>1, <3>2, <3>4 DEF Before
      <3>5. QED
        BY <1>2, <2>3, <3>1, <3>3, <3>4
    <2>4. ASSUME NEW b \in Redises, NEW i \in Once', NEW j \in Once', NEW m \in Nat, NEW n \in Nat,
                 NEW d \in Clients, m < n, GotAt(d, m, i, b)', GotAt(d, n, j, b)'
          PROVE  Before(b, i, j)'
      <3>1. i \in Once /\ j \in Once /\ i \in Items /\ j \in Items /\ b \in Backends
        BY <1>1, <1>4, <1>7
      <3>2. GotAt(d, m, i, b) /\ GotAt(d, n, j, b) /\ i # x /\ j # x
        BY <1>3, <1>5, <2>4, <3>1
      <3>3. QED
        BY <2>1, <2>4, <3>1, <3>2 DEF Inv, InOrder
    <2>5. QED
      BY <2>2, <2>3, <2>4 DEF InOrder
  <1>13. QED
    BY <1>8, <1>9, <1>10, <1>11, <1>12

\* A call that ends or goes on gives nobody a new item to push.
LEMMA PendingKept ==
    ASSUME Inv, NEW c \in Clients, End(c) \/ UNCHANGED call, UNCHANGED <<pushes, sent, resent>>
    PROVE  Pending'
  <1>1. ASSUME NEW d \in Clients, Holds(d)' PROVE Holds(d) /\ call'[d] = call[d]
    BY <1>1, FewerHold DEF Inv, Holds
  <1>2. ASSUME NEW d \in Clients, Holds(d)', call'[d].item \in Once', NEW b \in Backends, NEW p \in Nat
        PROVE  ~PushedAt(b, p, call[d].item)'
    BY <1>1, <1>2 DEF Inv, Pending, PushedAt, Once
  <1>3. \A d, e \in Clients : Holds(d)' /\ Holds(e)' /\ call'[d].item = call'[e].item => d = e
    BY <1>1 DEF Inv, Pending
  <1>4. QED
    BY <1>2, <1>3 DEF Pending

\* A client or nobody gets the item that was taken out.
LEMMA TakeStep ==
    ASSUME Inv, NEW c \in Clients, NEW k \in Candidates(c), TakeOut(c, k),
           End(c) \/ UNCHANGED call,
           UNCHANGED <<sent, resent, purged, pushes>>,
           \/ /\ got' = [got EXCEPT ![c] = Append(@, [item |-> stored[call[c].at][k], at |-> call[c].at])]
              /\ lost' = lost
           \/ got' = got /\ lost' = lost \cup {stored[call[c].at][k]}
    PROVE  (Origin /\ Pending /\ PushedOnce /\ OnePlace /\ InOrder)'
  <1> DEFINE a == call[c].at
             y == stored[a][k]
             old(b, n) == IF b = a /\ n >= k THEN n + 1 ELSE n
             Handed == got' # got
  <1>1. /\ a \in Backends /\ k \in Nat /\ y \in Items /\ Redises \subseteq Backends
        /\ StoredAt(a, k, y)
        /\ a \in Redises => k = 1
    <2>1. a \in Backends /\ k \in Nat /\ (k = 1 \/ a = Postgres)
      BY DEF Inv, TypeOK, Candidates
    <2>2. QED
      BY <2>1, TakeOutEffect, QueueAssumption DEF Inv, Backends
  <1>2. \A b \in Backends, n \in Nat, i \in Items : StoredAt(b, n, i)' => StoredAt(b, old(b, n), i)
    BY TakeOutEffect DEF Inv
  <1>3. \A b \in Backends, n \in Nat, i \in Items : PushedAt(b, n, i)' <=> PushedAt(b, n, i)
    BY DEF PushedAt
  <1>4. \A d \in Clients, b \in Backends, n \in Nat, i \in Items :
           GotAt(d, n, i, b)' => \/ GotAt(d, n, i, b)
                                 \/ d = c /\ n = Len(got[c]) + 1 /\ i = y /\ b = a /\ lost' = lost
    <2>1. CASE got' = got
      BY <2>1 DEF GotAt
    <2>2. CASE got' = [got EXCEPT ![c] = Append(@, [item |-> y, at |-> a])] /\ lost' = lost
      <3> DEFINE r == [item |-> y, at |-> a]
      <3>1. got[c] \in Seq([item : Items, at : Backends]) /\ r \in [item : Items, at : Backends]
        BY <1>1 DEF Inv, TypeOK
      <3>2. ASSUME NEW q \in Seq([item : Items, at : Backends]), NEW e, NEW n \in DOMAIN Append(q, e)
            PROVE  (n \in DOMAIN q /\ Append(q, e)[n] = q[n]) \/ (n = Len(q) + 1 /\ Append(q, e)[n] = e)
        OBVIOUS
      <3>3. \A d \in Clients : got'[d] = IF d = c THEN Append(got[c], r) ELSE got[d]
        BY <2>2 DEF Inv, TypeOK
      <3>4. r.item = y /\ r.at = a
        OBVIOUS
      <3> HIDE DEF r
      <3>5. QED
        BY <2>2, <3>1, <3>2, <3>3, <3>4 DEF GotAt
    <2>3. QED
      BY <2>1, <2>2
  <1>5. /\ \A d \in Clients, b \in Backends, n \in Nat, i \in Items : GotAt(d, n, i, b) => n < Len(got[d]) + 1
        /\ \A d \in Clients : Len(got[d]) + 1 \in Nat
    BY DEF GotAt, Inv, TypeOK
  <1>6. Once' = Once /\ Once \subseteq Items /\ lost' \subseteq lost \cup {y}
    BY DEF Once
  <1>7. \A b \in Backends, n, m \in Nat : /\ old(b, n) \in Nat
                                          /\ old(b, m) = old(b, n) => m = n
                                          /\ m < n => old(b, m) < old(b, n)
                                          /\ b = a => old(b, n) # k
    BY <1>1
  <1>8. \A b \in Redises, n \in Nat, j \in Items : b = a /\ StoredAt(b, n, j)' => k < old(b, n)
    <2> SUFFICES ASSUME NEW b \in Redises, NEW n \in Nat, NEW j \in Items, b = a, StoredAt(b, n, j)'
                 PROVE  k < old(b, n)
      OBVIOUS
    <2>1. StoredAt(b, old(b, n), j) /\ b \in Backends /\ old(b, n) # k /\ old(b, n) \in Nat /\ k = 1
      BY <1>1, <1>2, <1>7
    <2> HIDE DEF old
    <2>2. stored[b] \in Seq(Items)
      BY <2>1 DEF Inv, TypeOK
    <2>3. QED
      BY <2>1, <2>2 DEF StoredAt
  <1> HIDE DEF a, y, old
  <1>9. Origin'
    <2>1. ASSUME NEW b \in Backends, NEW i \in Items, NEW n \in Nat
          PROVE  /\ StoredAt(b, n, i)' => \E p \in Nat : PushedAt(b, p, i)'
                 /\ PushedAt(b, n, i)' => i \in sent'
      BY <1>2, <1>3, <1>7 DEF Inv, Origin
    <2>2. ASSUME NEW d \in Clients, NEW b \in Backends, NEW i \in Items, NEW n \in Nat, GotAt(d, n, i, b)'
          PROVE  \E p \in Nat : PushedAt(b, p, i)'
      BY <1>1, <1>3, <1>4, <2>2 DEF Inv, Origin
    <2>3. ASSUME NEW i \in lost' \cup purged' PROVE \E b \in Backends : \E p \in Nat : PushedAt(b, p, i)'
      <3>1. i \in Items
        BY <1>1, <1>6 DEF Inv, TypeOK
      <3>2. \E b \in Backends : \E p \in Nat : PushedAt(b, p, i)
        BY <1>1, <1>6, <2>3 DEF Inv, Origin
      <3>3. QED
        BY <1>3, <3>1, <3>2
    <2>4. resent' \subseteq sent'
      BY DEF Inv, Origin
    <2>5. QED
      BY <2>1, <2>2, <2>3, <2>4 DEF Origin
  <1>10. Pending'
    BY PendingKept
  <1>11. PushedOnce'
    BY <1>3, <1>6 DEF Inv, PushedOnce
  <1>12. OnePlace'
    <2> SUFFICES ASSUME NEW i \in Once'
                 PROVE  /\ \A b, d \in Backends, m, n \in Nat :
                              StoredAt(b, m, i)' /\ StoredAt(d, n, i)' => b = d /\ m = n
                        /\ \A e, d \in Clients, b, f \in Backends, m, n \in Nat :
                              GotAt(e, m, i, b)' /\ GotAt(d, n, i, f)' => e = d /\ m = n
                        /\ \A e \in Clients, b, f \in Backends, m, n \in Nat :
                              ~(StoredAt(b, m, i)' /\ GotAt(e, n, i, f)')
                        /\ i \in lost' \cup purged' =>
                              /\ \A b \in Backends, n \in Nat : ~StoredAt(b, n, i)'
                              /\ \A e \in Clients, b \in Backends, n \in Nat : ~GotAt(e, n, i, b)'
      BY Zenon DEF OnePlace
    <2>1. i \in Once /\ i \in Items
      BY <1>6
    <2>2. i = y => /\ \A b \in Backends, n \in Nat : ~StoredAt(b, n, i)'
                   /\ \A e \in Clients, b \in Backends, n \in Nat : ~GotAt(e, n, i, b)
                   /\ i \notin lost \cup purged
      BY <1>1, <1>2, <1>7, <2>1 DEF Inv, OnePlace
    <2>3. ASSUME NEW b \in Backends, NEW d \in Backends, NEW m \in Nat, NEW n \in Nat,
                 StoredAt(b, m, i)', StoredAt(d, n, i)'
          PROVE  b = d /\ m = n
      <3>1. StoredAt(b, old(b, m), i) /\ StoredAt(d, old(d, n), i)
        BY <1>2, <2>1, <2>3
      <3>2. b = d /\ old(b, m) = old(d, n)
        BY <1>7, <2>1, <3>1 DEF Inv, OnePlace
      <3>3. QED
        BY <1>7, <3>2
    <2>4. ASSUME NEW e \in Clients, NEW d \in Clients, NEW b \in Backends, NEW f \in Backends,
                 NEW m \in Nat, NEW n \in Nat, GotAt(e, m, i, b)', GotAt(d, n, i, f)'
          PROVE  e = d /\ m = n
      <3>1. CASE i = y
        <4>1. e = c /\ m = Len(got[c]) + 1
          BY <1>4, <2>1, <2>2, <2>4, <3>1
        <4>2. d = c /\ n = Len(got[c]) + 1
          BY <1>4, <2>1, <2>2, <2>4, <3>1
        <4>3. QED
          BY <4>1, <4>2
      <3>2. CASE i # y
        <4>1. GotAt(e, m, i, b) /\ GotAt(d, n, i, f)
          BY <1>4, <2>1, <2>4, <3>2
        <4>2. QED
          BY <2>1, <4>1 DEF Inv, OnePlace
      <3>3. QED
        BY <3>1, <3>2
    <2>5. \A e \in Clients, b, f \in Backends, m, n \in Nat : ~(StoredAt(b, m, i)' /\ GotAt(e, n, i, f)')
      BY <1>2, <1>4, <1>7, <2>1, <2>2 DEF Inv, OnePlace
    <2>6. i \in lost' \cup purged' => /\ \A b \in Backends, n \in Nat : ~StoredAt(b, n, i)'
                                      /\ \A e \in Clients, b \in Backends, n \in Nat : ~GotAt(e, n, i, b)'
      <3>1. CASE i = y
        <4>1. i \in lost' \cup purged' => lost' # lost
          BY <2>2, <3>1
        <4>2. QED
          BY <1>4, <2>1, <2>2, <3>1, <4>1
      <3>2. CASE i # y
        BY <1>2, <1>4, <1>6, <1>7, <2>1, <3>2 DEF Inv, OnePlace
      <3>3. QED
        BY <3>1, <3>2
    <2>7. QED
      BY <2>3, <2>4, <2>5, <2>6
  <1>13. InOrder'
    <2>1. \A b \in Backends, i, j \in Items : Before(b, i, j)' <=> Before(b, i, j)
      BY <1>3 DEF Before
    <2>2. ASSUME NEW b \in Redises, NEW i \in Once', NEW j \in Once', NEW m \in Nat, NEW n \in Nat
          PROVE  /\ m < n /\ StoredAt(b, m, i)' /\ StoredAt(b, n, j)' => Before(b, i, j)
                 /\ \A d \in Clients :
                       /\ GotAt(d, m, i, b)' /\ StoredAt(b, n, j)' => Before(b, i, j)
                       /\ m < n /\ GotAt(d, m, i, b)' /\ GotAt(d, n, j, b)' => Before(b, i, j)
      <3>1. i \in Once /\ j \in Once /\ i \in Items /\ j \in Items /\ b \in Backends
        BY <1>1, <1>6
      <3>2. m < n /\ StoredAt(b, m, i)' /\ StoredAt(b, n, j)' => Before(b, i, j)
        BY <1>2, <1>7, <3>1 DEF Inv, InOrder
      <3>3. ASSUME NEW d \in Clients, GotAt(d, m, i, b)', StoredAt(b, n, j)' PROVE Before(b, i, j)
        <4>1. StoredAt(b, old(b, n), j) /\ old(b, n) \in Nat
          BY <1>2, <1>7, <3>1, <3>3
        <4>2. CASE GotAt(d, m, i, b)
          BY <3>1, <4>1, <4>2 DEF Inv, InOrder
        <4>3. CASE i = y /\ b = a
          BY <1>1, <1>8, <3>1, <3>3, <4>1, <4>3 DEF Inv, InOrder
        <4>4. QED
          BY <1>4, <3>1, <3>3, <4>2, <4>3
      <3>4. ASSUME NEW d \in Clients, m < n, GotAt(d, m, i, b)', GotAt(d, n, j, b)' PROVE Before(b, i, j)
        <4>1. GotAt(d, m, i, b)
          BY <1>4, <1>5, <3>1, <3>4
        <4>2. CASE GotAt(d, n, j, b)
          BY <3>1, <3>4, <4>1, <4>2 DEF Inv, InOrder
        <4>3. CASE j = y /\ b = a
          BY <1>1, <3>1, <4>1, <4>3 DEF Inv, InOrder
        <4>4. QED
          BY <1>4, <3>1, <3>4, <4>2, <4>3
      <3>5. QED
        BY <3>2, <3>3, <3>4
    <2>3. QED
      BY <1>1, <1>6, <2>1, <2>2 DEF InOrder
  <1>14. QED
    BY <1>9, <1>10, <1>11, <1>12, <1>13

LEMMA PurgeStep ==
    ASSUME Inv, NEW c \in Clients, Purge(c)
    PROVE  (Origin /\ Pending /\ PushedOnce /\ OnePlace /\ InOrder)'
  <1>1. CASE call[c].at # Postgres
    <2>1. UNCHANGED <<stored, purged, pushes, got, sent, resent, lost>> /\ Redises \subseteq Backends
      BY <1>1 DEF Purge, Backends
    <2>2. Pending'
      BY <2>1, PendingKept DEF Purge
    <2>3. QED
      BY <2>1, <2>2, SamePlaces DEF Inv, Origin, PushedOnce, OnePlace, InOrder, Before, Once
  <1>2. CASE call[c].at = Postgres
    <2>1. /\ stored' = [stored EXCEPT ![Postgres] = <<>>]
          /\ purged' = purged \cup ToSet(stored[Postgres])
          /\ UNCHANGED <<pushes, got, sent, resent, lost>>
          /\ Postgres \in Backends /\ Redises \subseteq Backends
      BY <1>2 DEF Purge, Backends
    <2>2. Pending'
      BY <2>1, PendingKept DEF Purge
    <2>3. \A b \in Backends, n \in Nat, i \in Items :
             StoredAt(b, n, i)' <=> StoredAt(b, n, i) /\ b # Postgres
      BY <2>1 DEF StoredAt, Inv, TypeOK
    <2>4. \A i \in purged' : i \in Items /\ (i \in purged \/ \E n \in Nat : StoredAt(Postgres, n, i))
      <3>1. stored[Postgres] \in Seq(Items) /\ purged \subseteq Items
        BY <2>1 DEF Inv, TypeOK
      <3>2. \A i \in ToSet(stored[Postgres]) : i \in Items /\ \E n \in Nat : StoredAt(Postgres, n, i)
        BY <3>1 DEF ToSet, StoredAt
      <3>3. QED
        BY <2>1, <3>1, <3>2
    <2>5. /\ \A b, n, i : PushedAt(b, n, i)' <=> PushedAt(b, n, i)
          /\ \A d, n, i, b : GotAt(d, n, i, b)' <=> GotAt(d, n, i, b)
          /\ Once' = Once /\ Once \subseteq Items
      BY <2>1 DEF PushedAt, GotAt, Once
    <2>6. Origin'
      BY <2>1, <2>3, <2>4, <2>5 DEF Inv, Origin
    <2>7. PushedOnce'
      BY <2>5 DEF Inv, PushedOnce
    <2>8. OnePlace'
      <3> SUFFICES ASSUME NEW i \in Once'
                   PROVE  /\ \A b, d \in Backends, m, n \in Nat :
                                StoredAt(b, m, i)' /\ StoredAt(d, n, i)' => b = d /\ m = n
                          /\ \A e, d \in Clients, b, f \in Backends, m, n \in Nat :
                                GotAt(e, m, i, b)' /\ GotAt(d, n, i, f)' => e = d /\ m = n
                          /\ \A e \in Clients, b, f \in Backends, m, n \in Nat :
                                ~(StoredAt(b, m, i)' /\ GotAt(e, n, i, f)')
                          /\ i \in lost' \cup purged' =>
                                /\ \A b \in Backends, n \in Nat : ~StoredAt(b, n, i)'
                                /\ \A e \in Clients, b \in Backends, n \in Nat : ~GotAt(e, n, i, b)'
        BY Zenon DEF OnePlace
      <3>1. i \in Once /\ i \in Items
        BY <2>5
      <3>2. ASSUME NEW n \in Nat, StoredAt(Postgres, n, i)
            PROVE  /\ \A b \in Backends, m \in Nat : ~StoredAt(b, m, i)'
                   /\ \A e \in Clients, b \in Backends, m \in Nat : ~GotAt(e, m, i, b)
        BY <2>1, <2>3, <3>1, <3>2 DEF Inv, OnePlace
      <3>3. i \in lost' \cup purged' => /\ \A b \in Backends, n \in Nat : ~StoredAt(b, n, i)'
                                        /\ \A e \in Clients, b \in Backends, n \in Nat : ~GotAt(e, n, i, b)'
        BY <2>1, <2>3, <2>4, <2>5, <3>1, <3>2 DEF Inv, OnePlace
      <3>4. QED
        BY <2>3, <2>5, <3>1, <3>3 DEF Inv, OnePlace
    <2>9. InOrder'
      <3>1. \A b, i, j : Before(b, i, j)' <=> Before(b, i, j)
        BY <2>5 DEF Before
      <3>2. QED
        BY <2>1, <2>3, <2>5, <3>1 DEF Inv, InOrder
    <2>10. QED
      BY <2>2, <2>6, <2>7, <2>8, <2>9
  <1>3. QED
    BY <1>1, <1>2

\* A step that moves no item.
LEMMA StillStep ==
    ASSUME Inv, UNCHANGED <<stored, pushes, got, resent, lost, purged>>, sent \subseteq sent', Pending'
    PROVE  (Origin /\ Pending /\ PushedOnce /\ OnePlace /\ InOrder)'
  <1>1. Redises \subseteq Backends /\ Once' = Once
    BY DEF Backends, Once
  <1>2. Origin'
    BY SamePlaces DEF Inv, Origin
  <1>3. PushedOnce' /\ OnePlace'
    BY <1>1, SamePlaces DEF Inv, PushedOnce, OnePlace
  <1>4. InOrder'
    BY <1>1, SamePlaces DEF Inv, InOrder, Before
  <1>5. QED
    BY <1>2, <1>3, <1>4

LEMMA EnqueueStep ==
    ASSUME Inv, NEW c \in Clients, NEW i \in Items, Enqueue(c, i)
    PROVE  (Origin /\ Pending /\ PushedOnce /\ OnePlace /\ InOrder)'
  <1>1. /\ i \notin sent /\ sent' = sent \cup {i}
        /\ \A d \in Clients : /\ d # c => call'[d] = call[d]
                              /\ d = c => call'[d].item = i
    BY DEF Enqueue, Start, Inv, TypeOK
  <1>2. UNCHANGED <<stored, pushes, got, resent, lost, purged>>
    BY DEF Enqueue
  <1>3. ASSUME NEW d \in Clients, Holds(d)', call'[d].item \in Once', NEW b \in Backends, NEW p \in Nat
        PROVE  ~PushedAt(b, p, call[d].item)'
    <2>1. CASE d = c
      BY <1>1, <1>2, <2>1 DEF PushedAt, Inv, Origin
    <2>2. CASE d # c
      BY <1>1, <1>2, <1>3, <2>2 DEF PushedAt, Holds, Once, Inv, Pending
    <2>3. QED
      BY <2>1, <2>2
  <1>4. ASSUME NEW d \in Clients, d # c, Holds(d)' PROVE call'[d].item # i
    BY <1>1, <1>4 DEF Holds, Inv, TypeOK
  <1>5. ASSUME NEW d \in Clients, NEW e \in Clients, Holds(d)', Holds(e)', call'[d].item = call'[e].item
        PROVE  d = e
    BY <1>1, <1>4, <1>5 DEF Holds, Inv, Pending
  <1>6. Pending'
    BY <1>3, <1>5 DEF Pending
  <1>7. QED
    BY <1>1, <1>2, <1>6, StillStep

LEMMA AskStep ==
    ASSUME Inv, NEW c \in Clients, NEW op \in {"dequeue", "size", "peek", "purge"}, Ask(c, op)
    PROVE  (Origin /\ Pending /\ PushedOnce /\ OnePlace /\ InOrder)'
  <1>1. UNCHANGED <<stored, sent, acked, resent, lost, purged, pushes, got>>
    BY DEF Ask, history
  <1>2. ASSUME NEW d \in Clients, Holds(d)' PROVE Holds(d) /\ call'[d] = call[d]
    <2>1. PICK b \in Backends : call' = [call EXCEPT ![c] = [op |-> op, at |-> b, item |-> NoItem]]
      BY DEF Ask, Start
    <2>2. d # c
      BY <1>2, <2>1 DEF Holds, Inv, TypeOK
    <2>3. QED
      BY <1>2, <2>1, <2>2 DEF Holds, Inv, TypeOK
  <1>3. ASSUME NEW d \in Clients, Holds(d)', call'[d].item \in Once', NEW b \in Backends, NEW p \in Nat
        PROVE  ~PushedAt(b, p, call[d].item)'
    BY <1>1, <1>2, <1>3 DEF Inv, Pending, PushedAt, Once
  <1>4. \A d, e \in Clients : Holds(d)' /\ Holds(e)' /\ call'[d].item = call'[e].item => d = e
    BY <1>2 DEF Inv, Pending
  <1>5. Pending'
    BY <1>3, <1>4 DEF Pending
  <1>6. QED
    BY <1>1, <1>5, StillStep

LEMMA InvStep == Inv /\ [Next]_vars => Inv'
  <1> DEFINE Rest == Origin /\ Pending /\ PushedOnce /\ OnePlace /\ InOrder
  <1> SUFFICES ASSUME Inv, [Next]_vars PROVE Rest'
    BY TypeStep DEF Inv
  <1>1. ASSUME NEW b \in Backends, Register(b) PROVE Rest'
    <2>1. UNCHANGED <<stored, call, pushes, got, resent, lost, purged, sent>>
      BY <1>1 DEF Register, history
    <2>2. Pending'
      BY <2>1 DEF Inv, Pending, Holds, PushedAt, Once
    <2>3. QED
      BY <2>1, <2>2, StillStep
  <1>2. ASSUME NEW c \in Clients, Push(c) \/ PushLost(c) PROVE Rest'
    <2>1. /\ Holds(c) /\ Store(c) /\ resent' = resent /\ End(c)
          /\ UNCHANGED <<sent, lost, purged, got>>
      BY <1>2 DEF Push, PushLost, Holds
    <2>2. QED
      BY <2>1, StoreStep
  <1>3. ASSUME NEW c \in Clients, PushAgain(c) PROVE Rest'
    <2>1. /\ Holds(c) /\ Store(c) /\ resent' = resent \cup {call[c].item} /\ UNCHANGED call
          /\ UNCHANGED <<sent, lost, purged, got>>
      BY <1>3 DEF PushAgain, Holds
    <2>2. QED
      BY <2>1, StoreStep
  <1>4. ASSUME NEW c \in Clients, Pop(c) PROVE Rest'
    <2>1. PICK k \in Candidates(c) :
             /\ TakeOut(c, k)
             /\ got' = [got EXCEPT ![c] = Append(@, [item |-> stored[call[c].at][k], at |-> call[c].at])]
      BY <1>4 DEF Pop
    <2>2. End(c) /\ UNCHANGED <<sent, resent, lost, purged, pushes>>
      BY <1>4 DEF Pop
    <2>3. QED
      BY <2>1, <2>2, TakeStep
  <1>5. ASSUME NEW c \in Clients, PopLost(c) \/ PopAgain(c) PROVE Rest'
    <2>1. PICK k \in Candidates(c) : TakeOut(c, k) /\ lost' = lost \cup {stored[call[c].at][k]}
      BY <1>5 DEF PopLost, PopAgain, LoseOne
    <2>2. (End(c) \/ UNCHANGED call) /\ UNCHANGED <<sent, resent, purged, pushes, got>>
      BY <1>5 DEF PopLost, PopAgain, LoseOne
    <2>3. QED
      BY <2>1, <2>2, TakeStep
  <1>6. ASSUME NEW c \in Clients, PopNothing(c) \/ Size(c) \/ Peek(c) \/ Fail(c) PROVE Rest'
    <2>1. End(c) /\ UNCHANGED <<stored, pushes, got, resent, lost, purged, sent>>
      BY <1>6 DEF PopNothing, Size, Peek, Fail, history
    <2>2. QED
      BY <2>1, PendingKept, StillStep
  <1>7. CASE UNCHANGED vars
    <2>1. UNCHANGED <<stored, call, pushes, got, resent, lost, purged, sent>>
      BY <1>7 DEF vars
    <2>2. Pending'
      BY <2>1 DEF Inv, Pending, Holds, PushedAt, Once
    <2>3. QED
      BY <2>1, <2>2, StillStep
  <1>8. QED
    BY <1>1, <1>2, <1>3, <1>4, <1>5, <1>6, <1>7, EnqueueStep, AskStep, PurgeStep DEF Next, Command

\* The whole invariant holds for any callers, payloads and Redis servers,
\* however commands and answers are lost and providers come.
THEOREM QueueInvariant == Spec => []Inv
  <1>1. Inv /\ [Next]_vars => Inv'
    BY InvStep
  <1>2. QED
    BY <1>1, InvInit, PTL DEF Spec

-----------------------------------------------------------------------------
(* What callers may count on.                                              *)

LEMMA TakenTyped ==
    ASSUME TypeOK, NEW c \in Clients, NEW n \in DOMAIN got[c]
    PROVE  n \in Nat /\ got[c][n].item \in Items /\ got[c][n].at \in Backends
  <1> DEFINE Taken == [item : Items, at : Backends]
  <1>1. got[c] \in Seq(Taken)
    BY DEF TypeOK
  <1>2. \A r \in Taken : r.item \in Items /\ r.at \in Backends
    OBVIOUS
  <1> HIDE DEF Taken
  <1>3. n \in Nat /\ got[c][n] \in Taken
    BY <1>1
  <1>4. QED
    BY <1>2, <1>3

LEMMA AtMostOne ==
    ASSUME NEW S, \A x, y \in S : x = y
    PROVE  Cardinality(S) <= 1
  <1>1. CASE S = {}
    BY <1>1, FS_EmptySet
  <1>2. CASE S # {}
    <2>1. PICK x : S = {x}
      BY <1>2
    <2>2. QED
      BY <2>1, FS_Singleton
  <1>3. QED
    BY <1>1, <1>2

\* However callers, retries, purges and new providers interleave, an item that
\* was not pushed twice is in one place: in one list once or dequeued once.
THEOREM OneTaker == Spec => []InOnePlace
  <1>1. Inv => InOnePlace
    <2> SUFFICES ASSUME Inv, NEW i \in Items \ resent
                 PROVE  Cardinality(Places(i)) <= 1 /\ (i \in lost \cup purged => Places(i) = {})
      BY DEF InOnePlace, Inv
    <2>1. i \in Once
      BY DEF Once
    <2>2. ASSUME NEW p \in Places(i)
          PROVE  \/ \E b \in Backends, n \in Nat : p = <<b, n>> /\ StoredAt(b, n, i)
                 \/ \E c \in Clients, b \in Backends, n \in Nat : p = <<c, n>> /\ GotAt(c, n, i, b)
      <3>1. CASE \E b \in Backends : p \in {<<b, n>> : n \in {m \in DOMAIN stored[b] : stored[b][m] = i}}
        <4>1. PICK b \in Backends : \E n \in DOMAIN stored[b] : p = <<b, n>> /\ stored[b][n] = i
          BY <3>1
        <4>2. DOMAIN stored[b] \subseteq Nat
          BY DEF Inv, TypeOK
        <4>3. QED
          BY <4>1, <4>2 DEF StoredAt
      <3>2. CASE \E c \in Clients : p \in {<<c, n>> : n \in {m \in DOMAIN got[c] : got[c][m].item = i}}
        <4>1. PICK c \in Clients : \E n \in DOMAIN got[c] : p = <<c, n>> /\ got[c][n].item = i
          BY <3>2
        <4>2. \A n \in DOMAIN got[c] : n \in Nat /\ got[c][n].at \in Backends
          BY TakenTyped DEF Inv
        <4>3. QED
          BY <4>1, <4>2 DEF GotAt
      <3>3. \/ \E b \in Backends : p \in {<<b, n>> : n \in {m \in DOMAIN stored[b] : stored[b][m] = i}}
            \/ \E c \in Clients : p \in {<<c, n>> : n \in {m \in DOMAIN got[c] : got[c][m].item = i}}
        <4>1. \/ p \in UNION {{<<b, n>> : n \in {m \in DOMAIN stored[b] : stored[b][m] = i}} : b \in Backends}
              \/ p \in UNION {{<<c, n>> : n \in {m \in DOMAIN got[c] : got[c][m].item = i}} : c \in Clients}
          BY <2>2 DEF Places
        <4>2. QED
          BY <4>1
      <3>4. QED
        BY <3>1, <3>2, <3>3
    <2>3. \A p, q \in Places(i) : p = q
      BY <2>1, <2>2 DEF Inv, OnePlace
    <2>4. i \in lost \cup purged => Places(i) = {}
      BY <2>1, <2>2 DEF Inv, OnePlace
    <2>5. QED
      BY <2>3, <2>4, AtMostOne
  <1>2. QED
    BY <1>1, QueueInvariant, PTL

\* What a caller dequeues from one Redis comes in the order of the pushes to it,
\* whatever the others take in between.
THEOREM DequeuedInOrder == Spec => []OrderKept
  <1>1. Inv => OrderKept
    <2> SUFFICES ASSUME Inv, NEW c \in Clients, NEW m \in DOMAIN got[c], NEW n \in DOMAIN got[c],
                        m < n, got[c][m].at = got[c][n].at, got[c][m].at # Postgres,
                        {got[c][m].item, got[c][n].item} \cap resent = {}
                 PROVE  Pushed(got[c][m].at, got[c][m].item) < Pushed(got[c][n].at, got[c][n].item)
      BY DEF OrderKept
    <2> DEFINE b == got[c][m].at
               i == got[c][m].item
               j == got[c][n].item
    <2>1. /\ m \in Nat /\ n \in Nat /\ b \in Redises /\ b \in Backends /\ i \in Once /\ j \in Once
          /\ i \in Items /\ j \in Items
          /\ GotAt(c, m, i, b) /\ GotAt(c, n, j, b)
      <3>1. m \in Nat /\ n \in Nat /\ b \in Backends /\ i \in Items /\ j \in Items
        BY TakenTyped DEF Inv
      <3>2. b \in Redises /\ i \in Once /\ j \in Once
        BY <3>1 DEF Once, Backends
      <3>3. QED
        BY <3>1, <3>2 DEF GotAt
    <2>2. Before(b, i, j)
      BY <2>1 DEF Inv, InOrder
    <2>3. ASSUME NEW e \in Items, \E p \in Nat : PushedAt(b, p, e)
          PROVE  Pushed(b, e) \in Nat /\ PushedAt(b, Pushed(b, e), e)
      <3>1. \E p \in DOMAIN pushes[b] : pushes[b][p] = e
        BY <2>3 DEF PushedAt
      <3>2. Pushed(b, e) \in DOMAIN pushes[b] /\ pushes[b][Pushed(b, e)] = e
        BY <3>1 DEF Pushed
      <3>3. QED
        BY <2>1, <3>2 DEF PushedAt, Inv, TypeOK
    <2>4. (\E p \in Nat : PushedAt(b, p, i)) /\ \E p \in Nat : PushedAt(b, p, j)
      BY <2>1 DEF Inv, Origin
    <2>5. Pushed(b, i) < Pushed(b, j)
      BY <2>1, <2>2, <2>3, <2>4 DEF Before
    <2>6. QED
      BY <2>5
  <1>2. QED
    BY <1>1, QueueInvariant, PTL

\* Every acknowledged item: where it is.
Kept == \A i \in acked : \/ \E b \in Backends, n \in Nat : StoredAt(b, n, i)
                         \/ \E c \in Clients, b \in Backends, n \in Nat : GotAt(c, n, i, b)
                         \/ i \in lost \cup purged

LEMMA KeptStep == TypeOK /\ Kept /\ [Next]_vars => Kept'
  <1> SUFFICES ASSUME TypeOK, Kept, [Next]_vars PROVE Kept'
    OBVIOUS
  <1>0. acked \subseteq Items
    BY DEF TypeOK
  <1>1. ASSUME UNCHANGED <<stored, got, acked, lost, purged>> PROVE Kept'
    <2>1. /\ \A b, n, i : StoredAt(b, n, i)' <=> StoredAt(b, n, i)
          /\ \A c, n, i, b : GotAt(c, n, i, b)' <=> GotAt(c, n, i, b)
      BY <1>1 DEF StoredAt, GotAt
    <2>2. QED
      BY <1>1, <2>1 DEF Kept
  <1>2. ASSUME NEW c \in Clients, Push(c) \/ PushLost(c) \/ PushAgain(c) PROVE Kept'
    <2>1. /\ Holds(c) /\ Store(c) /\ acked' \in {acked, acked \cup {call[c].item}}
          /\ UNCHANGED <<got, lost, purged>>
      BY <1>2 DEF Push, PushLost, PushAgain, Holds
    <2>2. call[c].item \in Items /\ call[c].at \in Backends /\ Len(stored[call[c].at]) + 1 \in Nat
      BY <2>1 DEF Holds, TypeOK
    <2>3. /\ \A b \in Backends, n \in Nat, i \in Items : StoredAt(b, n, i) => StoredAt(b, n, i)'
          /\ \A i \in Items : i = call[c].item => \E b \in Backends, n \in Nat : StoredAt(b, n, i)'
      BY <2>1, <2>2, StoreEffect
    <2>4. \A d, n, i, b : GotAt(d, n, i, b)' <=> GotAt(d, n, i, b)
      BY <2>1 DEF GotAt
    <2>5. QED
      BY <1>0, <2>1, <2>2, <2>3, <2>4 DEF Kept
  <1>3. ASSUME NEW c \in Clients, NEW k \in Candidates(c), TakeOut(c, k),
               UNCHANGED <<acked, purged>>,
               \/ /\ got' = [got EXCEPT ![c] = Append(@, [item |-> stored[call[c].at][k], at |-> call[c].at])]
                  /\ lost' = lost
               \/ got' = got /\ lost' = lost \cup {stored[call[c].at][k]}
        PROVE  Kept'
    <2> DEFINE a == call[c].at
               y == stored[a][k]
               r == [item |-> y, at |-> a]
    <2>1. a \in Backends /\ y \in Items
      BY <1>3, TakeOutEffect DEF TypeOK, Candidates
    <2>2. ASSUME NEW d \in Clients, NEW n \in Nat, NEW i, NEW b, GotAt(d, n, i, b) PROVE GotAt(d, n, i, b)'
      <3>1. got[d] \in Seq([item : Items, at : Backends])
        BY DEF TypeOK
      <3>2. CASE got' = got
        BY <2>2, <3>2 DEF GotAt
      <3>3. CASE got' = [got EXCEPT ![c] = Append(@, r)] /\ d = c
        <4>1. got'[d] = Append(got[d], r)
          BY <3>3 DEF TypeOK
        <4>2. n \in DOMAIN got'[d] /\ got'[d][n] = got[d][n]
          BY <2>2, <3>1, <4>1 DEF GotAt
        <4>3. QED
          BY <2>2, <4>2 DEF GotAt
      <3>4. CASE got' = [got EXCEPT ![c] = Append(@, r)] /\ d # c
        BY <2>2, <3>4 DEF GotAt, TypeOK
      <3>5. QED
        BY <1>3, <3>2, <3>3, <3>4
    <2>3. ASSUME NEW i, i = y PROVE i \in lost' \/ \E b \in Backends, n \in Nat : GotAt(c, n, i, b)'
      <3>1. got[c] \in Seq([item : Items, at : Backends])
        BY DEF TypeOK
      <3>2. CASE got' = [got EXCEPT ![c] = Append(@, r)]
        <4>1. got'[c] = Append(got[c], r)
          BY <3>2 DEF TypeOK
        <4>2. /\ Len(got[c]) + 1 \in DOMAIN got'[c] /\ got'[c][Len(got[c]) + 1] = r
              /\ Len(got[c]) + 1 \in Nat
          BY <3>1, <4>1
        <4>3. ASSUME NEW n \in Nat, n = Len(got[c]) + 1, NEW b, b = a PROVE GotAt(c, n, i, b)'
          BY <2>3, <4>2, <4>3 DEF GotAt
        <4>4. QED
          BY <2>1, <4>2, <4>3
      <3>3. QED
        BY <1>3, <2>3, <3>2
    <2>4. ASSUME NEW b \in Backends, NEW n \in Nat, NEW i \in Items, StoredAt(b, n, i)
          PROVE  i = y \/ \E m \in Nat : StoredAt(b, m, i)'
      <3>1. CASE b = a /\ n = k
        BY <2>4, <3>1 DEF StoredAt
      <3>2. CASE b # a \/ n # k
        BY <1>3, <2>4, <3>2, TakeOutEffect
      <3>3. QED
        BY <3>1, <3>2
    <2>5. lost \subseteq lost'
      BY <1>3
    <2> HIDE DEF a, y, r
    <2>6. QED
      BY <1>0, <1>3, <2>1, <2>2, <2>3, <2>4, <2>5 DEF Kept
  <1>4. ASSUME NEW c \in Clients, Pop(c) PROVE Kept'
    <2>1. PICK k \in Candidates(c) :
             /\ TakeOut(c, k)
             /\ got' = [got EXCEPT ![c] = Append(@, [item |-> stored[call[c].at][k], at |-> call[c].at])]
      BY <1>4 DEF Pop
    <2>2. QED
      BY <1>3, <1>4, <2>1 DEF Pop
  <1>5. ASSUME NEW c \in Clients, LoseOne(c) PROVE Kept'
    <2>1. PICK k \in Candidates(c) : TakeOut(c, k) /\ lost' = lost \cup {stored[call[c].at][k]}
      BY <1>5 DEF LoseOne
    <2>2. QED
      BY <1>3, <1>5, <2>1 DEF LoseOne
  <1>6. ASSUME NEW c \in Clients, Purge(c), call[c].at = Postgres PROVE Kept'
    <2>1. /\ stored' = [stored EXCEPT ![Postgres] = <<>>]
          /\ purged' = purged \cup ToSet(stored[Postgres])
          /\ UNCHANGED <<got, lost, acked>>
      BY <1>6 DEF Purge
    <2>2. ASSUME NEW b \in Backends, NEW n \in Nat, NEW i, StoredAt(b, n, i)
          PROVE  StoredAt(b, n, i)' \/ i \in purged'
      BY <2>1, <2>2 DEF StoredAt, ToSet, TypeOK
    <2>3. \A d, n, i, b : GotAt(d, n, i, b)' <=> GotAt(d, n, i, b)
      BY <2>1 DEF GotAt
    <2>4. QED
      BY <2>1, <2>2, <2>3 DEF Kept
  <1>7. ASSUME NEW c \in Clients, \/ PopNothing(c) \/ Size(c) \/ Peek(c) \/ Fail(c)
                                  \/ Purge(c) /\ call[c].at # Postgres
        PROVE  Kept'
    BY <1>1, <1>7 DEF PopNothing, Size, Peek, Fail, Purge, history
  <1>8. ASSUME NEW c \in Clients, \/ \E i \in Items : Enqueue(c, i)
                                  \/ \E op \in {"dequeue", "size", "peek", "purge"} : Ask(c, op)
        PROVE  Kept'
    BY <1>1, <1>8 DEF Enqueue, Ask, history
  <1>9. ASSUME NEW b \in Backends, Register(b) PROVE Kept'
    BY <1>1, <1>9 DEF Register, history
  <1>10. CASE UNCHANGED vars
    BY <1>1, <1>10 DEF vars
  <1>11. QED
    BY <1>2, <1>4, <1>5, <1>6, <1>7, <1>8, <1>9, <1>10 DEF Next, Command, PopLost, PopAgain

\* An Enqueue that succeeded did store its item: it waits in some backend, was
\* dequeued, was purged, or its answer was lost.
THEOREM NothingAckedDisappears == Spec => []AckedIsKept
  <1>1. Init => Kept
    BY DEF Init, Kept
  <1>2. Inv /\ Kept /\ [Next]_vars => Kept'
    BY KeptStep DEF Inv
  <1>3. Inv /\ Kept => AckedIsKept
    <2> SUFFICES ASSUME Inv, Kept, NEW i \in acked
                 PROVE  i \in Waiting \cup Delivered \cup lost \cup purged
      BY DEF AckedIsKept
    <2>1. ASSUME NEW b \in Backends, NEW n \in Nat, StoredAt(b, n, i) PROVE i \in Waiting
      BY <2>1 DEF StoredAt, Waiting, ToSet
    <2>2. ASSUME NEW c \in Clients, NEW b \in Backends, NEW n \in Nat, GotAt(c, n, i, b) PROVE i \in Delivered
      BY <2>2 DEF GotAt, Delivered
    <2>3. QED
      BY <2>1, <2>2 DEF Kept
  <1>4. QED
    BY <1>1, <1>2, <1>3, QueueInvariant, PTL DEF Spec
=============================================================================
